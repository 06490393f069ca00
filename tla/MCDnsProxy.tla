------------------------------ MODULE MCDnsProxy ------------------------------
(***************************************************************************)
(* Three queries for the address of one host, so that one is answered from *)
(* the cache while the answers to the others are stored, and a fourth for  *)
(* another type.  Two clients use the same identifier.                     *)
(***************************************************************************)
EXTENDS DnsProxy

MCQuery == 1..4
MCIdOf == <<"i", "j", "i", "j">>
MCNameOf == <<"n", "n", "n", "n">>
MCTypeOf == <<"A", "A", "A", "MX">>
=============================================================================
