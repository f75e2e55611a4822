------------------------------ MODULE Timeline ------------------------------
(***************************************************************************)
(* What undo and redo promise: the states the package cache has gone       *)
(* through, in order, and a place among them.  Saving starts a new state   *)
(* after this place, and drops what was after it and what is too old.      *)
(* The promise ends, until the cache is loaded again, with a step forward  *)
(* from a state that has others behind it, and with a state that is saved  *)
(* although it cannot be restored (see UndoHistory.tla).                   *)
(***************************************************************************)
EXTENDS Naturals, Sequences

CONSTANTS States, Restorable, Sizes

VARIABLES
  states,  \* oldest first; empty when the promise has ended
  here     \* the place of the current state

vars == <<states, here>>

Init == states \in Seq(States) /\ Len(states) = 1 /\ here = 1

\* Only the current state changes.
Change ==
  /\ here > 0
  /\ states' \in Seq(States) /\ Len(states') = Len(states)
  /\ \A i \in DOMAIN states \ {here} : states'[i] = states[i]
  /\ UNCHANGED here

\* At most n states remain before the new one, the latest ones.
Save(n) ==
  LET kept == IF n < here THEN n ELSE here
  IN  /\ here > 0 /\ states[here] \in Restorable
      /\ states' = Append(SubSeq(states, here - kept + 1, here), states[here])
      /\ here' = kept + 1

Back ==
  /\ here > 1 /\ states[here] \in Restorable
  /\ here' = here - 1
  /\ UNCHANGED states

Forward ==
  /\ here > 0 /\ here < Len(states) /\ states[here] \in Restorable
  /\ here' = here + 1
  /\ UNCHANGED states

Lose ==
  /\ here > 0
  /\ (here > 1 /\ here < Len(states)) \/ states[here] \notin Restorable
  /\ states' = <<>> /\ here' = 0

Load == states' \in Seq(States) /\ Len(states') = 1 /\ here' = 1

Next ==
  \/ Change
  \/ \E n \in Sizes : Save(n)
  \/ Back \/ Forward \/ Lose \/ Load

Spec == Init /\ [][Next]_vars
=============================================================================
