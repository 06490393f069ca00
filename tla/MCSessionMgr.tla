---------------------------- MODULE MCSessionMgr ----------------------------
(***************************************************************************)
(* SessionMgr for TLC.  The two addresses have the same first digest, so   *)
(* that identifiers collide, and different second ones.                    *)
(***************************************************************************)
EXTENDS SessionMgr, TLC

CONSTANTS a1, a2, s1, s2, s3

MCAddr == {a1, a2}
MCSid == {s1, s2, s3}
MCHash == (a1 :> (0 :> s1 @@ 1 :> s2)) @@ (a2 :> (0 :> s1 @@ 1 :> s3))
=============================================================================
