---------------------------- MODULE SignalStream ----------------------------
(***************************************************************************)
(* What a frontend may rely on: the signals of one QApt::Transaction       *)
(* object (transaction.h, Q_SIGNALS), as its slots hear them.  The object  *)
(* either belongs to the client that created the transaction, or observes  *)
(* a transaction of another client.                                        *)
(***************************************************************************)
EXTENDS Sequences, Naturals

VARIABLES
  owner,  \* the object belongs to the creator of the transaction
  heard   \* the signals so far, each <<name, value>>

vars == <<owner, heard>>

Heard(name, Values) ==
  \E i \in DOMAIN heard : heard[i][1] = name /\ heard[i][2] \in Values

ExitStatuses == {"Success", "Cancelled", "Failed"}
HasFinished  == Heard("finished", ExitStatuses)

\* What the worker's death looks like, in the order of its signals.
Disappearance ==
  << <<"errorOccurred", "WorkerDisappeared">>, <<"cancellableChanged", FALSE>>,
     <<"statusChanged", "Finished">>, <<"finished", "Failed">> >>

Init == owner \in BOOLEAN /\ heard = <<>>

\* Anything may be heard before the end; but the creator does not hear of the
\* last status before he has heard how it ended.
Proceed ==
  /\ ~HasFinished
  /\ \E name \in {"statusChanged", "errorOccurred", "progressChanged",
                  "cancellableChanged", "prompt"} :
       /\ Len(heard') = Len(heard) + 1
       /\ heard' = Append(heard, <<name, heard'[Len(heard')][2]>>)
       /\ owner /\ name = "statusChanged" => heard'[Len(heard')][2] # "Finished"
  /\ UNCHANGED owner

\* The end is told once ...
Finish ==
  /\ ~HasFinished
  /\ \E x \in ExitStatuses : heard' = Append(heard, <<"finished", x>>)
  /\ UNCHANGED owner

Disappear ==
  /\ ~HasFinished
  /\ heard' = heard \o Disappearance
  /\ UNCHANGED owner

\* ... and only the last status, and errors of calls that nobody answered, come
\* after it.
Trail ==
  /\ HasFinished
  /\ \/ /\ owner => ~Heard("statusChanged", {"Finished"})
        /\ heard' = Append(heard, <<"statusChanged", "Finished">>)
     \/ heard' = Append(heard, <<"errorOccurred", "AuthError">>)
  /\ UNCHANGED owner

Next == Proceed \/ Finish \/ Disappear \/ Trail

Spec == Init /\ [][Next]_vars
=============================================================================
