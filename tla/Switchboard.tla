----------------------------- MODULE Switchboard -----------------------------
(***************************************************************************)
(* What the reverse proxy promises to its visitors: each of them is called *)
(* for once, over at most one line, and put through once, as long as it    *)
(* waits.  A line that was dialed for a visitor is not given to another    *)
(* while that one waits.  Who puts through whom, at which addresses, and   *)
(* what travels between the two sides belongs to RProxy, which implements  *)
(* this.                                                                   *)
(***************************************************************************)
CONSTANTS
  Visitor,
  Line,       \* lines from the upstreams to the board
  Nobody      \* no visitor

VARIABLES
  come,       \* the visitors that have come so far
  waiting,    \* those of them that may be put through
  unrung,     \* those that no upstream has been told of yet
  ringing,    \* those that an upstream has been told of and has not dialed for
  line        \* line[d]: the visitor it was dialed for, and the one it has

boardVars == <<come, waiting, unrung, ringing, line>>

Free == [for |-> Nobody, with |-> Nobody]

InitBoard ==
  /\ come = {} /\ waiting = {} /\ unrung = {} /\ ringing = {}
  /\ line = [d \in Line |-> Free]

\* Nobody comes twice.
Come(v) ==
  /\ v \notin come
  /\ come' = come \cup {v} /\ waiting' = waiting \cup {v} /\ unrung' = unrung \cup {v}
  /\ UNCHANGED <<ringing, line>>

Leave(v) ==
  /\ waiting' = waiting \ {v} /\ unrung' = unrung \ {v}
  /\ UNCHANGED <<come, ringing, line>>

\* The upstream may be gone.
Ring(v) ==
  /\ v \in unrung
  /\ unrung' = unrung \ {v}
  /\ ringing' \in {ringing, ringing \cup {v}}
  /\ UNCHANGED <<come, waiting, line>>

\* What an upstream was told is lost with it.
Forget ==
  /\ ringing' \in SUBSET ringing
  /\ UNCHANGED <<come, waiting, unrung, line>>

Dial(d, v) ==
  /\ v \in ringing /\ line[d] = Free
  /\ ringing' = ringing \ {v}
  /\ line' = [line EXCEPT ![d] = [for |-> v, with |-> Nobody]]
  /\ UNCHANGED <<come, waiting, unrung>>

PutThrough(d, v) ==
  /\ line[d].for # Nobody /\ line[d].with = Nobody
  /\ v \in waiting
  /\ line[d].for \in waiting => v = line[d].for
  /\ waiting' = waiting \ {v}
  /\ line' = [line EXCEPT ![d].with = v]
  /\ UNCHANGED <<come, unrung, ringing>>

HangUp(d) ==
  /\ line' = [line EXCEPT ![d] = Free]
  /\ UNCHANGED <<come, waiting, unrung, ringing>>

NextBoard ==
  \/ Forget
  \/ \E v \in Visitor : Come(v) \/ Leave(v) \/ Ring(v) \/ \E d \in Line : Dial(d, v) \/ PutThrough(d, v)
  \/ \E d \in Line : HangUp(d)

BoardSpec == InitBoard /\ [][NextBoard]_boardVars
=============================================================================
