------------------------------- MODULE MCFCache -------------------------------
(***************************************************************************)
(* A cache of a few bytes: chunks that fit, that fill the buffer exactly   *)
(* and that overflow it; a temporary file with descriptor 0 and another.   *)
(***************************************************************************)
EXTENDS FCache
=============================================================================
