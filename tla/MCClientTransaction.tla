------------------------ MODULE MCClientTransaction ------------------------
(* The creator of a transaction that needs an authorization, an observer of  *)
(* the same user and one of another user.                                    *)
EXTENDS ClientTransaction

MCClients ==
  { [owner |-> TRUE, sameUser |-> TRUE, asks |-> TRUE, maxCalls |-> 2],
    [owner |-> FALSE, sameUser |-> TRUE, asks |-> FALSE, maxCalls |-> 1],
    [owner |-> FALSE, sameUser |-> FALSE, asks |-> FALSE, maxCalls |-> 1] }
=============================================================================
