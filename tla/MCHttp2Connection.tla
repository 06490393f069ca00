-------------------------- MODULE MCHttp2Connection --------------------------
(***************************************************************************)
(* Three requests: a HEAD, one without a body, and one whose body and      *)
(* acknowledgement may come in any order; an answer may be larger than the *)
(* window, and an upstream may answer late.                                *)
(***************************************************************************)
EXTENDS Http2Connection
=============================================================================
