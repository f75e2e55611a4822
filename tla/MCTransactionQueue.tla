------------------------- MODULE MCTransactionQueue -------------------------
(* Model values for TransactionQueue, and the reference for its own helper *)
(* on sequences.                                                           *)
EXTENDS TransactionQueue

CONSTANTS t1, t2, t3

\* On the sequences that meet QueueSound, removing the one occurrence is
\* QList::removeAll.
ASSUME RemoveAllAssumption ==
  \A s \in {q \in SeqOf(Trans, 3) : IsInjective(q)}, t \in Trans :
    RemoveAll(s, t) = Remove(s, t)
=============================================================================
