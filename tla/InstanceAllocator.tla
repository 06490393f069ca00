-------------------------- MODULE InstanceAllocator --------------------------
(***************************************************************************)
(* What a pool of non-reentrant instances promises to its clients: an      *)
(* instance is given to one client at a time, and whoever has it may copy  *)
(* and drop its pointers to it; the last one dropped gives it back.        *)
(***************************************************************************)
EXTENDS Naturals

CONSTANTS Client, Instance

VARIABLE ptrs   \* ptrs[c][i]: how many pointers to instance i client c has

Users(i) == {c \in Client : ptrs[c][i] > 0}

AllocInit == ptrs = [c \in Client |-> [i \in Instance |-> 0]]

Take(c, i) ==
  /\ Users(i) = {}
  /\ ptrs' = [ptrs EXCEPT ![c][i] = 1]

Copy(c, i) ==
  /\ c \in Users(i)
  /\ ptrs' = [ptrs EXCEPT ![c][i] = @ + 1]

Drop(c, i) ==
  /\ c \in Users(i)
  /\ ptrs' = [ptrs EXCEPT ![c][i] = @ - 1]

AllocNext == \E c \in Client, i \in Instance : Take(c, i) \/ Copy(c, i) \/ Drop(c, i)

AllocSpec == AllocInit /\ [][AllocNext]_ptrs

=============================================================================
