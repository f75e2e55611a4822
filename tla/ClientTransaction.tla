------------------------- MODULE ClientTransaction -------------------------
(***************************************************************************)
(* QApt::Transaction (transaction.cpp), the client's copy of a transaction *)
(* that lives in the worker daemon (worker/transaction.cpp), with the      *)
(* D-Bus traffic between them: calls and their replies, propertyChanged()  *)
(* and the prompts, and the end of the daemon.                             *)
(*                                                                         *)
(* What the bus carries for one client arrives in the order in which it    *)
(* was sent, but a signal only if the client had subscribed by then.  The  *)
(* inside of a job is abstracted to what it makes the transaction          *)
(* announce (see AptWorker.tla), the queue to the order of one job's life  *)
(* (see TransactionQueue.tla).                                             *)
(***************************************************************************)
EXTENDS SequencesExt

CONSTANTS
  Clients,     \* the clients considered: whether it created the transaction, is
               \* of the creator's user, the role asks for an authorization, and
               \* a bound on its calls (answers to prompts aside)
  Settable,    \* the settings that a client changes, out of Settings
  MaxSteps     \* bound: things that a job announces between start and end

\* Members that setLocale, setProxy, setDebconfPipe and setPackages change.
Settings == {"locale", "proxy", "debconfPipe", "packages"}

\* QApt::TransactionProperty; "progress" also stands for the other data that a
\* job reports (statusDetails, downloadProgress, downloadSpeed, downloadETA,
\* untrustedPackages, errorDetails).
Property == Settings \cup {"status", "error", "cancellable", "cancelled",
                           "exitStatus", "paused", "progress", "frontendCaps"}

Status == {"Setup", "Authentication", "Waiting", "Running", "Committing", "Finished"}
Errors == {"Success", "AuthError", "WorkerDisappeared", "JobError"}
Exits  == {"Unfinished", "Success", "Cancelled", "Failed"}

Values(p) ==
  CASE p = "status"     -> Status
    [] p = "error"      -> Errors
    [] p = "exitStatus" -> Exits
    [] p = "progress"   -> {0, 100}
    [] p \in {"cancellable", "cancelled", "paused"} -> BOOLEAN
    [] OTHER            -> {"none", "given"}

ASSUME ConstantsAssumption ==
  /\ Clients \subseteq [owner : BOOLEAN, sameUser : BOOLEAN,
                           asks : BOOLEAN, maxCalls : Nat]
  /\ \A c \in Clients : c.owner => c.sameUser
  /\ Settable \subseteq Settings
  /\ MaxSteps \in Nat

VARIABLES
  \* the daemon
  alive,       \* the process exists
  registered,  \* the transaction object is on the bus
  work,        \* its members
  asking,      \* the call whose authorization blocks the main thread, if any
  job,         \* where the transaction is on its way through the queue
  steps,       \* announcements of the job so far
  \* the bus
  outbox,      \* calls on their way to the daemon
  inbox,       \* what is on its way to the client
  \* the client
  client,      \* which of Clients it is
  phase,       \* of the constructor: new, half (of GetAll read), synced, connected
  mirror,      \* the members of its object
  calls,       \* how many calls it made
  awaiting,    \* the numbers of those it has a QDBusPendingCallWatcher for
  hasRun,      \* run() was called
  prompted,    \* it has been prompted and has not answered
  \* history
  missed,      \* announced after it was read and before the client connected
  heard        \* the signals that the object emitted

daemonVars == <<alive, registered, work, asking, job, steps>>
objectVars == <<client, phase, mirror, calls, awaiting, hasRun, prompted>>
vars == <<daemonVars, outbox, inbox, objectVars, missed, heard>>

NoCall == [number |-> 0, op |-> "none", arg |-> "none"]
Calls  == [number : Nat, op : {"set", "setFrontendCaps", "run", "cancel", "answer"},
           arg : Settings \cup {"none"}]

Message(kind, what, value) == [kind |-> kind, what |-> what, value |-> value]
Changed(p, v)   == Message("changed", p, v)
Reply(c, error) == Message("reply", c.number, error)
Prompt          == Message("prompt", "prompt", "-")
OwnerGone       == Message("gone", "owner", "-")

ReplyErrors == {"none", "Failed", "InvalidArgs", "AccessDenied", "UnknownObject", "NoReply"}

IsMessage(m) ==
  \/ m.kind = "changed" /\ m.what \in Property /\ m.value \in Values(m.what)
  \/ m.kind = "reply" /\ m.what \in Nat /\ m.value \in ReplyErrors
  \/ m = Prompt
  \/ m = OwnerGone

IsMembers(r) == DOMAIN r = Property /\ \A p \in Property : r[p] \in Values(p)

TypeOK ==
  /\ alive \in BOOLEAN /\ registered \in BOOLEAN
  /\ IsMembers(work)
  /\ asking \in Calls \cup {NoCall}
  /\ job \in {"pending", "queued", "running", "leaving", "exiting", "done"}
  /\ steps \in 0..MaxSteps
  /\ \A i \in DOMAIN outbox : outbox[i] \in Calls
  /\ \A i \in DOMAIN inbox : IsMessage(inbox[i])
  /\ client \in Clients
  /\ phase \in {"new", "half", "synced", "connected"}
  /\ IsMembers(mirror)
  /\ calls \in Nat /\ awaiting \subseteq 1..calls
  /\ hasRun \in BOOLEAN /\ prompted \in BOOLEAN
  /\ missed \subseteq Property \cup {"prompt", "owner"}

\* The members as both constructors set them.
Fresh ==
  [p \in Property |->
     CASE p = "status"      -> "Setup"
       [] p = "error"       -> "Success"
       [] p = "exitStatus"  -> "Unfinished"
       [] p = "progress"    -> 0
       [] p = "cancellable" -> TRUE
       [] p \in {"cancelled", "paused"} -> FALSE
       [] OTHER             -> "none"]

Init ==
  /\ alive = TRUE /\ registered = TRUE /\ work = Fresh /\ asking = NoCall
  /\ job = "pending" /\ steps = 0
  /\ outbox = <<>> /\ inbox = <<>>
  /\ client \in Clients /\ phase = "new" /\ mirror = Fresh
  /\ calls = 0 /\ awaiting = {} /\ hasRun = FALSE /\ prompted = FALSE
  /\ missed = {} /\ heard = <<>>

-----------------------------------------------------------------------------
(* The daemon: what a transaction announces *)

\* What GetAll reads first, in the order of the adaptor's properties.
FirstHalf == Settings \cup {"status", "error", "cancellable", "cancelled"}

\* What the client can no longer learn from GetAll.
AlreadyRead ==
  CASE phase = "new"  -> {"prompt", "owner"}
    [] phase = "half" -> {"prompt", "owner"} \cup FirstHalf
    [] OTHER          -> {"prompt", "owner"} \cup Property

\* Messages ms go out; signals reach a client only if it has subscribed to
\* them.
Send(ms) ==
  IF phase = "connected"
    THEN inbox' = inbox \o ms /\ UNCHANGED missed
    ELSE /\ missed' = missed \cup ({ms[i].what : i \in DOMAIN ms} \cap AlreadyRead)
         /\ UNCHANGED inbox

\* A member is set and the change is announced.
Announce(p, v) ==
  /\ work' = [work EXCEPT ![p] = v]
  /\ Send(<<Changed(p, v)>>)

\* An answer to the call c goes back, if c is one of this client's.
ToCaller(c, error) == IF c.number = 0 THEN <<>> ELSE <<Reply(c, error)>>

\* A call that changes nothing but is answered.
Refuse(c, error) == Send(ToCaller(c, error)) /\ UNCHANGED <<work, asking, job>>

-----------------------------------------------------------------------------
(* The daemon: calls, in its main thread *)

FromForeigner(c) == c.number # 0 /\ ~client.sameUser

\* setProperty with one of the settings: only before the transaction is run;
\* setDebconfPipe also wants a pipe that belongs to the user.
Set(c) ==
  \/ FromForeigner(c) /\ Refuse(c, "AccessDenied")
  \/ ~FromForeigner(c) /\ work.status # "Setup" /\ Refuse(c, "Failed")
  \/ ~FromForeigner(c) /\ c.arg = "debconfPipe" /\ Refuse(c, "InvalidArgs")
  \/ /\ ~FromForeigner(c)
     /\ work.status = "Setup"
     /\ work' = [work EXCEPT ![c.arg] = "given"]
     /\ Send(<<Changed(c.arg, "given")>> \o ToCaller(c, "none"))
     /\ UNCHANGED <<asking, job>>

\* setProperty with FrontendCapsProperty tells nobody of the change.
SetFrontendCaps(c) ==
  \/ FromForeigner(c) /\ Refuse(c, "AccessDenied")
  \/ /\ ~FromForeigner(c)
     /\ work' = [work EXCEPT !["frontendCaps"] = "given"]
     /\ Send(ToCaller(c, "none"))
     /\ UNCHANGED <<asking, job>>

\* The end of run(), authorized: enqueue, which announces WaitingStatus, and
\* then run() does, too.
Enqueue(c) ==
  /\ job' = "queued"
  /\ work' = [work EXCEPT !["status"] = "Waiting"]
  /\ Send(<<Changed("status", "Waiting"), Changed("status", "Waiting")>>
          \o ToCaller(c, "none"))

Run(c) ==
  IF client.asks
    THEN /\ Announce("status", "Authentication")
         /\ asking' = c
         /\ UNCHANGED job
    ELSE Enqueue(c) /\ UNCHANGED asking

\* Mutant: CancelledProperty is not announced.
CancelSilently(c) ==
  /\ work' = [work EXCEPT !["cancelled"] = TRUE, !["paused"] = FALSE]
  /\ Send(ToCaller(c, "none"))

Accept(c) ==
  /\ work' = [work EXCEPT !["cancelled"] = TRUE, !["paused"] = FALSE]
  /\ Send(<<Changed("cancelled", TRUE)>> \o ToCaller(c, "none"))

\* cancel, as far as the user may.
CancelIfPossible(c) ==
  \/ ~work.cancellable /\ Send(ToCaller(c, "Failed")) /\ UNCHANGED work
  \/ work.cancellable /\ Accept(c)

Cancel(c) ==
  IF FromForeigner(c)
    THEN /\ asking' = c
         /\ Send(<<>>)
         /\ UNCHANGED <<work, job>>
    ELSE CancelIfPossible(c) /\ UNCHANGED <<asking, job>>

\* The answer is taken, and the job goes on.
TakeAnswer(c) ==
  /\ work' = [work EXCEPT !["paused"] = FALSE]
  /\ Send(ToCaller(c, "none"))
  /\ UNCHANGED <<asking, job>>

\* provideMedium and replyUntrustedPrompt refuse other users, and the former a
\* medium that is not the one asked for; resolveConfigFileConflict takes
\* everybody's answer.  None looks at what the job waits for.
Answer(c) ==
  \/ FromForeigner(c) /\ Refuse(c, "AccessDenied")
  \/ ~FromForeigner(c) /\ Refuse(c, "Failed")
  \/ TakeAnswer(c)

\* The main thread serves the next call.  Those to an object that is gone are
\* refused by the bus library, and while a job ends it holds m_dataMutex.
HandleCall ==
  /\ alive /\ asking = NoCall /\ outbox # <<>> /\ job # "exiting"
  /\ LET c == Head(outbox) IN
       IF ~registered
         THEN Refuse(c, "UnknownObject")
         ELSE \/ c.op = "set" /\ Set(c)
              \/ c.op = "setFrontendCaps" /\ SetFrontendCaps(c)
              \/ c.op = "run" /\ Run(c)
              \/ c.op = "cancel" /\ Cancel(c)
              \/ c.op = "answer" /\ Answer(c)
  /\ outbox' = Tail(outbox)
  /\ UNCHANGED <<alive, registered, steps, objectVars, heard>>

\* polkit's answer lets the main thread go on with the call.
Authorized ==
  /\ alive /\ asking # NoCall /\ job # "exiting"
  /\ IF asking.op = "run"
       THEN Enqueue(asking)
       ELSE CancelIfPossible(asking) /\ UNCHANGED job
  /\ asking' = NoCall
  /\ UNCHANGED <<alive, registered, steps, outbox, objectVars, heard>>

Unauthorized ==
  /\ alive /\ asking # NoCall
  /\ Send(ToCaller(asking, "AccessDenied"))
  /\ asking' = NoCall
  /\ UNCHANGED <<alive, registered, work, job, steps, outbox, objectVars, heard>>

\* A transaction that is not run in time, or that is finished, is deleted.
Unregister ==
  /\ alive /\ asking = NoCall /\ registered
  /\ job = "done" \/ (job = "pending" /\ work.status = "Setup")
  /\ registered' = FALSE
  /\ UNCHANGED <<alive, work, asking, job, steps, outbox, inbox, objectVars,
                 missed, heard>>

-----------------------------------------------------------------------------
(* The daemon: the job, in its worker thread *)

JobGoesOn(from, to) ==
  /\ alive /\ job = from /\ job' = to
  /\ UNCHANGED <<alive, registered, asking, outbox, objectVars, heard>>

\* AptWorker::runTransaction takes the transaction.
JobStarts ==
  /\ JobGoesOn("queued", "running")
  /\ Announce("status", "Running")
  /\ UNCHANGED steps

\* What a job may announce, as often as MaxSteps says, unless it waits in a
\* prompt: the setters of the transaction.
JobAnnounces ==
  /\ JobGoesOn("running", "running")
  /\ ~work.paused
  /\ steps < MaxSteps /\ steps' = steps + 1
  /\ \/ Announce("status", "Committing")
     \/ \E b \in BOOLEAN : Announce("cancellable", b)
     \/ Announce("error", "JobError")

\* setMediumRequired, setUntrustedPackages and setConfFileConflict pause the
\* transaction; only the prompt is announced.
JobPrompts ==
  /\ JobGoesOn("running", "running")
  /\ ~work.paused
  /\ steps < MaxSteps /\ steps' = steps + 1
  /\ work' = [work EXCEPT !["paused"] = TRUE]
  /\ Send(<<Prompt>>)

\* cleanupCurrentTransaction: progress, then exitStatus and the last status.
JobLeaves ==
  /\ JobGoesOn("running", "leaving")
  /\ ~work.paused
  /\ Announce("progress", 100)
  /\ UNCHANGED steps

\* Mutant: the exit status is set and only the last status announced.
SetExitStatusSilently(x) ==
  /\ work' = [work EXCEPT !["exitStatus"] = x]
  /\ Send(<<>>)

SetExitStatus(x) == Announce("exitStatus", x)

JobExits ==
  /\ JobGoesOn("leaving", "exiting")
  /\ SetExitStatus(CASE work.cancelled          -> "Cancelled"
                     [] work.error # "Success" -> "Failed"
                     [] OTHER                  -> "Success")
  /\ UNCHANGED steps

SetFinished == Announce("status", "Finished")

JobFinishes ==
  /\ JobGoesOn("exiting", "done")
  /\ SetFinished
  /\ UNCHANGED steps

\* The process ends, by a crash or because it quits: the bus tells of the lost name.
DaemonEnds ==
  /\ alive
  /\ alive' = FALSE /\ registered' = FALSE /\ asking' = NoCall
  /\ Send(<<OwnerGone>> \o ToCaller(asking, "NoReply"))
  /\ UNCHANGED <<work, job, steps, outbox, objectVars, heard>>

\* After that the bus answers the calls that the daemon never will, or starts another
\* daemon for them, which does not know the object.
CallFails ==
  /\ ~alive /\ outbox # <<>>
  /\ \E error \in {"NoReply", "UnknownObject"} : Send(ToCaller(Head(outbox), error))
  /\ outbox' = Tail(outbox)
  /\ UNCHANGED <<daemonVars, objectVars, heard>>

-----------------------------------------------------------------------------
(* The client: constructor *)

\* The answer to GetAll is read off the object in two halves, since the job
\* goes on in its own thread.  Without an object there is no answer, nor, for
\* as long as D-Bus waits, while a dialog of polkit blocks the daemon, and the
\* constructor's own values remain.
SyncBegins ==
  /\ phase = "new"
  /\ \/ /\ registered /\ asking = NoCall
        /\ phase' = "half"
        /\ mirror' = [p \in Property |-> IF p \in FirstHalf THEN work[p] ELSE Fresh[p]]
        /\ UNCHANGED missed
     \/ /\ ~registered \/ asking # NoCall
        /\ phase' = "synced"
        /\ missed' = missed \cup Property
        /\ UNCHANGED mirror
  /\ UNCHANGED <<daemonVars, outbox, inbox, client, calls, awaiting, hasRun,
                 prompted, heard>>

SyncEnds ==
  /\ phase = "half"
  /\ phase' = "synced"
  /\ mirror' = [p \in Property |-> IF p \in FirstHalf THEN mirror[p] ELSE work[p]]
  /\ UNCHANGED <<daemonVars, outbox, inbox, client, calls, awaiting, hasRun,
                 prompted, missed, heard>>

\* The signals of the object and of the service watcher are subscribed to.
Connect ==
  /\ phase = "synced"
  /\ phase' = "connected"
  /\ UNCHANGED <<daemonVars, outbox, inbox, client, mirror, calls, awaiting,
                 hasRun, prompted, missed, heard>>

-----------------------------------------------------------------------------
(* The client: calls *)

\* An asynchronous call, with a watcher for its reply.
Call(op, arg) ==
  /\ phase = "connected"
  /\ calls' = calls + 1
  /\ outbox' = Append(outbox, [number |-> calls + 1, op |-> op, arg |-> arg])
  /\ awaiting' = awaiting \cup {calls + 1}
  /\ UNCHANGED <<daemonVars, inbox, client, phase, mirror, missed, heard>>

ClientChanges ==
  /\ calls < client.maxCalls
  /\ \/ \E s \in Settable : Call("set", s)
     \/ Call("setFrontendCaps", "none")
     \/ Call("cancel", "none")
  /\ UNCHANGED <<hasRun, prompted>>

\* Applications call run() once, on transactions of their own.
ClientRuns ==
  /\ client.owner /\ ~hasRun /\ calls < client.maxCalls
  /\ hasRun' = TRUE
  /\ Call("run", "none")
  /\ UNCHANGED prompted

\* Every prompt is answered once, by whoever shows it.
ClientAnswers ==
  /\ prompted /\ prompted' = FALSE
  /\ Call("answer", "none")
  /\ UNCHANGED hasRun

\* For an observer, the creator is another process, whose replies the
\* observer never sees.
OtherCalls(op) ==
  /\ ~client.owner /\ alive
  /\ outbox' = Append(outbox, [number |-> 0, op |-> op, arg |-> "none"])
  /\ UNCHANGED <<daemonVars, inbox, client, phase, mirror, calls, awaiting,
                 prompted, missed, heard>>

OtherRuns    == ~hasRun /\ hasRun' = TRUE /\ OtherCalls("run")
OtherAnswers == /\ work.paused /\ outbox = <<>>
                /\ OtherCalls("answer") /\ UNCHANGED hasRun

-----------------------------------------------------------------------------
(* The client: slots *)

Emit(signals) == heard' = heard \o signals

\* What updateProperty emits for a new value of p.
Emission(p, v) ==
  CASE p = "status"      -> <<<<"statusChanged", v>>>>
    [] p = "error"       -> <<<<"errorOccurred", v>>>>
    [] p = "cancellable" -> <<<<"cancellableChanged", v>>>>
    [] p = "progress" /\ mirror.progress # v -> <<<<"progressChanged", v>>>>
    [] p = "exitStatus" /\ v # "Unfinished"  -> <<<<"finished", v>>>>
    [] p = "paused"      -> <<<<IF v THEN "paused" ELSE "resumed", "-">>>>
    [] OTHER -> <<>>

\* updateStatus, updateError, ...
Update(p, v) == mirror' = [mirror EXCEPT ![p] = v]

UpdateProperty(p, v) ==
  /\ Update(p, v)
  /\ Emit(Emission(p, v))
  /\ UNCHANGED <<awaiting, prompted>>

\* Mutant: a call that got no answer is taken for the end.
FailCallFinally ==
  /\ mirror' = [mirror EXCEPT !["error"] = "AuthError", !["exitStatus"] = "Failed"]
  /\ Emit(<< <<"errorOccurred", "AuthError">> >>)

FailCall ==
  /\ Update("error", "AuthError")
  /\ Emit(<< <<"errorOccurred", "AuthError">> >>)

\* onCallFinished: refusals and missing answers are errors of authorization,
\* all other errors are ignored.
OnCallFinished(n, error) ==
  /\ awaiting' = awaiting \ {n}
  /\ IF n \in awaiting /\ error \in {"AccessDenied", "NoReply"}
       THEN FailCall
       ELSE UNCHANGED <<mirror, heard>>
  /\ UNCHANGED prompted

\* Mutant: the end of the service is the end of every transaction.
ServiceGoneAlways ==
  /\ mirror' = [mirror EXCEPT !["error"] = "WorkerDisappeared", !["cancellable"] = FALSE,
                              !["status"] = "Finished", !["exitStatus"] = "Failed"]
  /\ Emit(<< <<"errorOccurred", "WorkerDisappeared">>, <<"cancellableChanged", FALSE>>,
             <<"statusChanged", "Finished">>, <<"finished", "Failed">> >>)

\* serviceOwnerChanged, without a new owner.
ServiceGone ==
  IF mirror.exitStatus = "Unfinished"
    THEN /\ mirror' = [mirror EXCEPT !["error"] = "WorkerDisappeared",
                                     !["cancellable"] = FALSE,
                                     !["status"] = "Finished",
                                     !["exitStatus"] = "Failed"]
         /\ Emit(<< <<"errorOccurred", "WorkerDisappeared">>,
                    <<"cancellableChanged", FALSE>>,
                    <<"statusChanged", "Finished">>, <<"finished", "Failed">> >>)
    ELSE UNCHANGED <<mirror, heard>>

\* The client's event loop takes the next message.
Deliver ==
  /\ inbox # <<>>
  /\ LET m == Head(inbox) IN
       \/ m.kind = "changed" /\ UpdateProperty(m.what, m.value)
       \/ m.kind = "reply" /\ OnCallFinished(m.what, m.value)
       \/ /\ m.kind = "gone"
          /\ ServiceGone
          /\ UNCHANGED <<awaiting, prompted>>
       \/ /\ m.kind = "prompt"
          /\ prompted' = TRUE
          /\ Emit(<< <<"prompt", "-">> >>)
          /\ UNCHANGED <<mirror, awaiting>>
  /\ inbox' = Tail(inbox)
  /\ UNCHANGED <<daemonVars, outbox, client, phase, calls, hasRun, missed>>

\* A call that waits longer than D-Bus does (25 s), which it can do only while
\* a dialog of polkit blocks the daemon; an answer that comes later is dropped.
CallTimesOut ==
  /\ asking # NoCall
  /\ \E n \in awaiting :
       /\ n = asking.number \/ \E i \in DOMAIN outbox : outbox[i].number = n
       /\ OnCallFinished(n, "NoReply")
  /\ UNCHANGED <<daemonVars, outbox, inbox, client, phase, calls, hasRun, missed>>

-----------------------------------------------------------------------------
Daemon == HandleCall \/ Authorized \/ Unauthorized \/ Unregister
Job    == JobStarts \/ JobAnnounces \/ JobPrompts \/ JobLeaves \/ JobExits \/ JobFinishes
Client == \/ SyncBegins \/ SyncEnds \/ Connect
          \/ ClientChanges \/ ClientRuns \/ ClientAnswers
          \/ Deliver \/ CallTimesOut
Other  == OtherRuns \/ OtherAnswers \/ DaemonEnds \/ CallFails

Next == Daemon \/ Job \/ Client \/ Other

Spec == Init /\ [][Next]_vars

\* The client returns to its event loop.
FairSpec == Spec /\ WF_vars(Deliver)

-----------------------------------------------------------------------------
(* Properties *)

\* The object that a client creates for its own transaction, or for one it
\* observes, is a stream of signals as frontends expect it: one end, told
\* before the last status, nothing but leftovers afterwards.
Stream == INSTANCE SignalStream WITH owner <- client.owner

ImplementsStream == Stream!Spec

\* A client that has not missed the end is never told of another end than the
\* one there was, and of a disappearance only when the worker is gone without
\* having finished the job (updateProperty and serviceOwnerChanged meet in the
\* same members).
HonestEnd ==
  mirror.exitStatus # "Unfinished" /\ "exitStatus" \notin missed =>
    \/ mirror.exitStatus = work.exitStatus
    \/ ~alive /\ work.exitStatus = "Unfinished" /\ mirror.exitStatus = "Failed"

\* What the daemon announces.
Announced == Property \ {"paused", "frontendCaps"}

\* With nothing on its way the client's members are the daemon's, except for
\* what it missed between sync() and the subscription and for an error of a
\* call of its own; and a client whose daemon is gone knows that it is over.
CatchesUp ==
  phase = "connected" /\ inbox = <<>> =>
    IF alive
      THEN \A p \in Announced \ missed :
             \/ mirror[p] = work[p]
             \/ p = "error" /\ mirror.error = "AuthError"
      ELSE mirror.exitStatus # "Unfinished" \/ "owner" \in missed

\* However a transaction ends, or the worker, every client learns of it that
\* had connected by then.
EndIsReported ==
  phase = "connected" /\ missed \cap {"exitStatus", "owner"} = {}
    /\ (work.exitStatus # "Unfinished" \/ ~alive)
  ~> mirror.exitStatus # "Unfinished"

\* transaction.h:326: paused() "is emitted whenever the QApt worker pauses the
\* transaction", so that a creator with nothing left to hear knows of the pause.
PausesAreAnnounced ==
  client.owner /\ phase = "connected" /\ inbox = <<>> /\ alive =>
    mirror.paused = work.paused
=============================================================================
