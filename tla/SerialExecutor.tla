--------------------------- MODULE SerialExecutor ---------------------------
(***************************************************************************)
(* What the worker daemon promises its clients: submitted transactions are *)
(* carried out one at a time, in the order of their submission, each of    *)
(* them once and none of them forgotten ("Queues the transaction to be     *)
(* processed by the QApt Worker", transaction.h:485).                      *)
(***************************************************************************)
EXTENDS Sequences

CONSTANTS Trans, None

VARIABLES
  submitted,  \* every transaction ever submitted
  waiting,    \* those not yet begun, in order
  current     \* the one being carried out, or None

vars == <<submitted, waiting, current>>

Init ==
  /\ submitted = {}
  /\ waiting = <<>>
  /\ current = None

Submit(t) ==
  /\ t \notin submitted
  /\ submitted' = submitted \cup {t}
  /\ waiting' = Append(waiting, t)
  /\ UNCHANGED current

Begin ==
  /\ current = None /\ waiting # <<>>
  /\ current' = Head(waiting)
  /\ waiting' = Tail(waiting)
  /\ UNCHANGED submitted

End ==
  /\ current # None
  /\ current' = None
  /\ UNCHANGED <<submitted, waiting>>

Next == (\E t \in Trans : Submit(t)) \/ Begin \/ End

Spec == Init /\ [][Next]_vars

FairSpec == Spec /\ WF_vars(Begin) /\ WF_vars(End)
=============================================================================
