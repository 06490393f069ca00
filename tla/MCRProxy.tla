------------------------------- MODULE MCRProxy -------------------------------
(***************************************************************************)
(* Two visitors at two addresses, so that an address may be used again; one *)
(* upstream whose control connection breaks once, and a second data        *)
(* connection for the cookie that comes late.                              *)
(***************************************************************************)
EXTENDS RProxy
=============================================================================
