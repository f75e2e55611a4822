-------------------------- MODULE TransactionQueue --------------------------
(***************************************************************************)
(* The worker daemon of libqapt: TransactionQueue (worker/                 *)
(* transactionqueue.cpp), the life of a Transaction object (worker/        *)
(* transaction.cpp), the dispatch of jobs to AptWorker (worker/            *)
(* aptworker.cpp) and the daemon's idle exit (worker/workerdaemon.cpp).    *)
(*                                                                         *)
(* Two threads share this state.  The MAIN thread serves D-Bus calls,      *)
(* timers and the queued finished() signals one at a time; a polkit        *)
(* authorization blocks it.  The WORKER thread takes the queued            *)
(* runTransaction() calls one at a time and runs each job to its end.      *)
(* What a job does is abstracted to "it starts" and "it sets an exit       *)
(* status" (see AptWorker.tla for the inside of a job).                    *)
(***************************************************************************)
EXTENDS Naturals, SequencesExt

CONSTANTS
  Trans,    \* transactions that clients may create
  NoAuth,   \* those whose role needs no authorization (DownloadArchives)
  None,     \* nullptr
  Races,    \* the timings the environment is allowed, out of AllRaces
  Assigned  \* statuses that clients set; no step depends on the status

(***************************************************************************)
(* With Races = AllRaces the environment is unrestricted: that is the      *)
(* program as it is.  Leaving a name out keeps the environment from that   *)
(* one timing, so that a run shows what depends on it:                     *)
(*   posted     run() is handled while a runTransaction() call is posted   *)
(*              and the worker has not taken it yet                        *)
(*   unhandled  run() is handled after the worker dropped m_trans and      *)
(*              before the main thread handled its finished() signal,      *)
(*              among others because an authorization blocked that thread  *)
(*   handled    run() is handled after the finished() signal, while the    *)
(*              worker still holds m_trans and nothing else is posted      *)
(*   rerun      run() is called on a transaction that was run before       *)
(*   late       run() is handled after the idle timeout removed the        *)
(*              transaction, before the object is deleted                  *)
(*   denied     polkit refuses an authorization                            *)
(*   timestamp  checkIdle() runs between the two halves of the worker's    *)
(*              cleanup (m_trans dropped, time stamp not yet written)      *)
(*   exit       requests arrive after the daemon decided to quit           *)
(*   setStatus  a client sets the status of its transaction, a property    *)
(*              like the others                                            *)
(***************************************************************************)
AllRaces == {"posted", "unhandled", "handled", "rerun", "late", "denied",
             "timestamp", "exit", "setStatus"}

VARIABLES
  \* main thread
  pending,     \* m_pending
  queue,       \* m_queue
  active,      \* m_activeTransaction
  asking,      \* the transaction whose authorization blocks the main thread
  finished,    \* finished() signals queued for onTransactionFinished
  daemon,      \* the process: up, quitting, stopped (worker thread), ...
  \* worker thread
  calls,       \* runTransaction() calls queued for the worker
  mTrans,      \* m_trans
  wpc,         \* where the worker is
  aged,        \* m_lastActiveTimestamp is more than IDLE_TIMEOUT ago
  \* transaction objects
  status,      \* m_status; "Running" stands for all that a job sets
  idleTimer,   \* those whose m_idleTimer runs
  object,      \* life of the QObject
  \* history
  runs,        \* how many jobs were started for the transaction
  rested       \* the worker has done nothing for IDLE_TIMEOUT

mainVars   == <<pending, queue, active, asking, finished, daemon>>
workerVars == <<calls, mTrans, wpc, aged>>
transVars  == <<status, idleTimer, object>>
historyVars == <<runs, rested>>
vars == <<mainVars, workerVars, transVars, historyVars>>

Status == {"Setup", "Authentication", "Waiting", "Running", "Finished"}
Life   == {"none", "alive", "removed", "expiring", "deleted"}
Daemon == {"up", "quitting", "stopped", "exited", "crashed"}

ASSUME ConstantsAssumption ==
  /\ NoAuth \subseteq Trans
  /\ None \notin Trans
  /\ Races \subseteq AllRaces
  /\ Assigned \subseteq Status

TypeOK ==
  /\ pending \subseteq Trans
  /\ queue \in Seq(Trans)
  /\ active \in Trans \cup {None}
  /\ asking \in Trans \cup {None}
  /\ finished \in Seq(Trans)
  /\ daemon \in Daemon
  /\ calls \in Seq(Trans)
  /\ mTrans \in Trans \cup {None}
  /\ wpc \in {"starting", "idle", "running", "emitted", "cleared"}
  /\ aged \in BOOLEAN
  /\ status \in [Trans -> Status]
  /\ idleTimer \subseteq Trans
  /\ object \in [Trans -> Life]
  /\ runs \in [Trans -> Nat]
  /\ rested \in BOOLEAN

Init ==
  /\ pending = {} /\ queue = <<>> /\ active = None /\ asking = None
  /\ finished = <<>> /\ daemon = "up"
  /\ calls = <<>> /\ mTrans = None /\ wpc = "starting" /\ aged = FALSE
  /\ status = [t \in Trans |-> "Setup"] /\ idleTimer = {}
  /\ object = [t \in Trans |-> "none"]
  /\ runs = [t \in Trans |-> 0] /\ rested = FALSE

-----------------------------------------------------------------------------
(* Helpers *)

Alive == daemon \in {"up", "quitting", "stopped"}   \* the process executes

MainFree == Alive /\ asking = None                  \* the main loop may act

\* QList::removeAll; the queue never holds a transaction twice (QueueSound).
RemoveAll(s, t) ==
  IF t \in ToSet(s) THEN RemoveAt(s, CHOOSE i \in DOMAIN s : s[i] = t) ELSE s

\* Mutant: the idle timer outlives the Setup status.
SetStatusKeepsTimer(t, st) ==
  /\ status' = [status EXCEPT ![t] = st]
  /\ UNCHANGED idleTimer

\* Transaction::setStatus: leaving Setup stops the idle timer for good.
SetStatus(t, st) ==
  /\ status' = [status EXCEPT ![t] = st]
  /\ idleTimer' = IF st = "Setup" THEN idleTimer ELSE idleTimer \ {t}

\* Mutant: the newest transaction is served first.
RunNextNewest(q) ==
  /\ active' = Last(q)
  /\ calls' = Append(calls, Last(q))

\* runNextTransaction on the (non-empty) queue q.
RunNextTransaction(q) ==
  /\ active' = Head(q)
  /\ calls' = Append(calls, Head(q))

\* The handover between the threads, as a run() request meets it.
Window ==
  CASE mTrans = None /\ calls # <<>>    -> "posted"
    [] mTrans = None /\ calls = <<>> /\ finished # <<>> -> "unhandled"
    [] wpc = "emitted" /\ finished = <<>> /\ calls = <<>> -> "handled"
    [] OTHER -> "none"

Permitted(race) == race \in Races \cup {"none"}

-----------------------------------------------------------------------------
(* Main thread: D-Bus calls *)

\* WorkerDaemon::createTransaction and the Transaction constructor.
CreateTransaction(t) ==
  /\ MainFree
  /\ daemon # "up" => Permitted("exit")
  /\ object[t] = "none"
  /\ object' = [object EXCEPT ![t] = "alive"]
  /\ pending' = pending \cup {t}
  /\ idleTimer' = idleTimer \cup {t}
  /\ UNCHANGED <<queue, active, asking, finished, daemon, workerVars, status,
                 historyVars>>

\* Mutant: enqueue does not ask whether the worker is busy.
EnqueueAlwaysRuns(t) ==
  IF t \in pending
    THEN /\ Permitted(Window)
         /\ pending' = pending \ {t}
         /\ queue' = Append(queue, t)
         /\ RunNextTransaction(Append(queue, t))
    ELSE UNCHANGED <<pending, queue, active, calls>>

\* Mutant: an enqueued transaction remains among the pending ones.
EnqueueKeepsPending(t) ==
  IF t \in pending
    THEN /\ Permitted(Window)
         /\ queue' = Append(queue, t)
         /\ IF mTrans = None
              THEN RunNextTransaction(Append(queue, t))
              ELSE UNCHANGED <<active, calls>>
         /\ UNCHANGED pending
    ELSE UNCHANGED <<pending, queue, active, calls>>

\* Mutant: a busy worker makes enqueue return early.
EnqueueUnlessBusy(t) ==
  IF t \in pending /\ mTrans = None
    THEN /\ Permitted(Window)
         /\ pending' = pending \ {t}
         /\ queue' = Append(queue, t)
         /\ RunNextTransaction(Append(queue, t))
    ELSE UNCHANGED <<pending, queue, active, calls>>

\* TransactionQueue::enqueue: nothing happens unless t is pending.
Enqueue(t) ==
  IF t \in pending
    THEN /\ Permitted(Window)
         /\ pending' = pending \ {t}
         /\ queue' = Append(queue, t)
         /\ IF mTrans = None
              THEN RunNextTransaction(Append(queue, t))
              ELSE UNCHANGED <<active, calls>>
    ELSE UNCHANGED <<pending, queue, active, calls>>

\* The part of Transaction::run under m_dataMutex.
RunLocked(t) ==
  /\ Enqueue(t)
  /\ SetStatus(t, "Waiting")
  /\ UNCHANGED <<finished, daemon, mTrans, wpc, aged, object, historyVars>>

\* A D-Bus call of run() reaches t.  After an authorization was refused the
\* transaction is still pending and run() may be called again.
RunRequested(t) ==
  /\ MainFree
  /\ daemon # "up" => Permitted("exit")
  /\ \/ object[t] = "alive" /\ (t \in pending \/ Permitted("rerun"))
     \/ object[t] = "expiring" /\ Permitted("rerun")
     \/ object[t] = "removed" /\ Permitted("late")

\* run() of a role that needs no authorization.
Run(t) ==
  /\ RunRequested(t)
  /\ t \in NoAuth
  /\ RunLocked(t)
  /\ UNCHANGED asking

\* run() of any other role: authorizeRun blocks the main thread on polkit.
RunAuthorize(t) ==
  /\ RunRequested(t)
  /\ t \notin NoAuth
  /\ Permitted("unhandled") \/ (finished = <<>> /\ wpc # "emitted")
  /\ asking' = t
  /\ SetStatus(t, "Authentication")
  /\ UNCHANGED <<pending, queue, active, finished, daemon, workerVars, object,
                 historyVars>>

AuthorizationGranted(t) ==
  /\ Alive /\ asking = t
  /\ asking' = None
  /\ RunLocked(t)

\* AccessDenied is sent and nothing else is undone.
AuthorizationDenied(t) ==
  /\ Alive /\ asking = t
  /\ Permitted("denied")
  /\ asking' = None
  /\ UNCHANGED <<pending, queue, active, finished, daemon, workerVars,
                 transVars, historyVars>>

\* setProperty(StatusProperty) by the owner, at any time.
SetStatusProperty(t) ==
  /\ MainFree
  /\ Permitted("setStatus")
  /\ daemon # "up" => Permitted("exit")
  /\ object[t] \notin {"none", "deleted"}
  /\ \E st \in Assigned : SetStatus(t, st)
  /\ UNCHANGED <<mainVars, workerVars, object, historyVars>>

-----------------------------------------------------------------------------
(* Main thread: timers and queued signals *)

\* m_idleTimer fires: emitIdleTimeout, removePending, deleteLater.
IdleTimeout(t) ==
  /\ MainFree
  /\ t \in idleTimer /\ object[t] = "alive"
  /\ pending' = pending \ {t}
  /\ object' = [object EXCEPT ![t] = "removed"]
  /\ UNCHANGED <<queue, active, asking, finished, daemon, workerVars, status,
                 idleTimer, historyVars>>

\* The deferred deletion: at once for a removed transaction, after 5 seconds
\* for a finished one.  Those 5 seconds are taken to be enough for the worker
\* to get from its last use of the object to the end of its cleanup.  Deleting
\* the object a job is using is undefined behaviour: the daemon crashes.
Delete(t) ==
  /\ MainFree
  /\ object[t] \in {"removed", "expiring"}
  /\ ~(mTrans = t /\ wpc = "emitted")
  /\ object' = [object EXCEPT ![t] = "deleted"]
  /\ idleTimer' = idleTimer \ {t}
  /\ daemon' = IF mTrans = t THEN "crashed" ELSE daemon
  /\ UNCHANGED <<pending, queue, active, asking, finished, workerVars, status,
                 historyVars>>

\* onTransactionFinished, with remove(); runNextTransaction if any is left.
\* A signal whose sender has been deleted meanwhile is undefined behaviour.
OnTransactionFinished ==
  /\ MainFree
  /\ finished # <<>>
  /\ LET t    == Head(finished)
         rest == RemoveAll(queue, t)
     IN  /\ finished' = Tail(finished)
         /\ queue' = rest
         /\ object' = IF t \in ToSet(queue)
                        THEN [object EXCEPT ![t] = "expiring"] ELSE object
         /\ IF rest # <<>>
              THEN RunNextTransaction(rest)
              ELSE /\ active' = IF t \in ToSet(queue) /\ active = t
                                  THEN None ELSE active
                   /\ UNCHANGED calls
         /\ daemon' = IF object[t] = "deleted" THEN "crashed" ELSE daemon
  /\ UNCHANGED <<pending, asking, mTrans, wpc, aged, status, idleTimer,
                 historyVars>>

\* TransactionQueue::isEmpty.
IsEmpty == queue = <<>> /\ pending = {}

\* WorkerDaemon::checkIdle on its 30 second timer.
CheckIdle ==
  /\ MainFree /\ daemon = "up"
  /\ mTrans = None /\ aged /\ IsEmpty
  /\ wpc = "cleared" => Permitted("timestamp")
  /\ daemon' = "quitting"
  /\ UNCHANGED <<pending, queue, active, asking, finished, workerVars,
                 transVars, historyVars>>

\* The worker thread's finished() signal reaches QCoreApplication::quit().
Quit ==
  /\ MainFree /\ daemon = "stopped"
  /\ daemon' = "exited"
  /\ UNCHANGED <<pending, queue, active, asking, finished, workerVars,
                 transVars, historyVars>>

-----------------------------------------------------------------------------
(* Worker thread *)

WorkerAlive == daemon \in {"up", "quitting"}

\* AptWorker::init is the first call queued for the worker, so m_ready holds
\* whenever runTransaction is entered.
WorkerInit ==
  /\ WorkerAlive /\ wpc = "starting"
  /\ wpc' = "idle"
  /\ UNCHANGED <<mainVars, calls, mTrans, aged, transVars, historyVars>>

\* Entry of runTransaction.  Jobs block the worker thread, so m_trans is null
\* here and the early return for a running transaction is never taken.
RunTransaction ==
  /\ WorkerAlive /\ wpc = "idle" /\ calls # <<>>
  /\ LET t == Head(calls)
     IN  /\ calls' = Tail(calls)
         /\ mTrans' = t
         /\ SetStatus(t, "Running")
         /\ runs' = [runs EXCEPT ![t] = @ + 1]
         /\ daemon' = IF object[t] = "deleted" THEN "crashed" ELSE daemon
  /\ wpc' = "running" /\ aged' = FALSE /\ rested' = FALSE
  /\ UNCHANGED <<pending, queue, active, asking, finished, object>>

\* cleanupCurrentTransaction up to setExitStatus: status, then finished().
SetExitStatus ==
  /\ WorkerAlive /\ wpc = "running"
  /\ asking # None => Permitted("unhandled")
  /\ SetStatus(mTrans, "Finished")
  /\ finished' = Append(finished, mTrans)
  /\ wpc' = "emitted"
  /\ UNCHANGED <<pending, queue, active, asking, daemon, calls, mTrans, aged,
                 object, historyVars>>

\* m_trans = nullptr.
ClearTransaction ==
  /\ WorkerAlive /\ wpc = "emitted"
  /\ mTrans' = None
  /\ wpc' = "cleared"
  /\ UNCHANGED <<mainVars, calls, aged, transVars, historyVars>>

\* Mutant: the end of a job does not count as activity.
StampForgotten ==
  /\ WorkerAlive /\ wpc = "cleared"
  /\ wpc' = "idle"
  /\ UNCHANGED <<mainVars, calls, mTrans, aged, transVars, historyVars>>

\* m_lastActiveTimestamp = now; back to the event loop.
StampActivity ==
  /\ WorkerAlive /\ wpc = "cleared"
  /\ aged' = FALSE
  /\ wpc' = "idle"
  /\ UNCHANGED <<mainVars, calls, mTrans, transVars, historyVars>>

\* thread()->quit() takes effect: the worker's event loop ends, and with it
\* every call still queued.
ThreadFinished ==
  /\ daemon = "quitting" /\ wpc = "idle"
  /\ daemon' = "stopped"
  /\ UNCHANGED <<pending, queue, active, asking, finished, workerVars,
                 transVars, historyVars>>

\* More than IDLE_TIMEOUT passes.
TimePasses ==
  /\ Alive /\ ~aged
  /\ aged' = TRUE
  /\ rested' = (wpc \in {"starting", "idle"})
  /\ UNCHANGED <<mainVars, calls, mTrans, wpc, transVars, runs>>

-----------------------------------------------------------------------------
Requests(t) ==
  CreateTransaction(t) \/ Run(t) \/ RunAuthorize(t) \/ SetStatusProperty(t)

Answers(t) == AuthorizationGranted(t) \/ AuthorizationDenied(t)

MainEvents ==
  \/ OnTransactionFinished \/ CheckIdle \/ Quit
  \/ \E t \in Trans : IdleTimeout(t) \/ Delete(t)

Worker ==
  \/ WorkerInit \/ RunTransaction \/ SetExitStatus
  \/ ClearTransaction \/ StampActivity \/ ThreadFinished

Next ==
  \/ \E t \in Trans : Requests(t) \/ Answers(t)
  \/ MainEvents \/ Worker \/ TimePasses

Spec == Init /\ [][Next]_vars

\* Both event loops keep serving what is posted to them, jobs end, polkit
\* answers, timers fire.  The main loop serves its events in the order of
\* their arrival, so no stream of requests and authorizations keeps one of
\* them waiting for ever: strong fairness (for the worker because, without
\* the race "unhandled", an authorization interrupts the enabledness of its
\* SetExitStatus).  Nothing obliges a client to create or to run anything.
Fairness ==
  /\ SF_vars(Worker)
  /\ SF_vars(MainEvents)
  /\ WF_vars(\E t \in Trans : Answers(t))
  /\ WF_vars(TimePasses)

FairSpec == Spec /\ Fairness

-----------------------------------------------------------------------------
(* Properties that hold under every timing *)

\* The queue is sound: no transaction is in it twice, none is both pending
\* and queued, and the active transaction that transactionQueueChanged
\* announces is one of the queue it announces (backend.h:524).
QueueSound ==
  /\ IsInjective(queue)
  /\ pending \cap ToSet(queue) = {}
  /\ active # None => active \in ToSet(queue)

\* Whoever has run is at most still the head of the queue, every call still on
\* its way for a transaction that has not run is for the head, and finished()
\* signals come only from transactions that have run: the handover never gets
\* ahead of the queue, however often a transaction is dispatched.
HandoverSound ==
  /\ \A t \in ToSet(queue) : runs[t] > 0 => t = Head(queue)
  /\ \A t \in ToSet(calls) : runs[t] = 0 => queue # <<>> /\ t = Head(queue)
  /\ \A t \in ToSet(finished) : runs[t] > 0
  /\ \A t \in pending : runs[t] = 0 /\ object[t] # "none"
  /\ \A t \in Trans : object[t] = "none" => runs[t] = 0 /\ t \notin ToSet(queue)
  /\ wpc \in {"running", "emitted"} => mTrans \in Trans
  /\ wpc = "running" => runs[mTrans] > 0

\* The queue's bookkeeping and the handover to the worker survive every timing,
\* also those by which a transaction is dispatched twice or refused.
QueueConsistent == QueueSound /\ HandoverSound

\* Jobs start for the first time in the order in which the transactions were
\* enqueued: whoever starts is the head of the queue, which only grows at its
\* end and loses only transactions that have run.
StartsInOrder ==
  [][\A t \in Trans :
       runs[t] = 0 /\ runs'[t] = 1 => queue # <<>> /\ t = Head(queue)]_vars

-----------------------------------------------------------------------------
(* Properties that hold when no race is lost *)

\* A transaction that has completed stays completed: nobody sees its
\* FinishedStatus ("when a transaction is complete", globals.h) again replaced
\* by another status.
CompletionIsFinal ==
  [][\A t \in Trans : status[t] = "Finished" => status'[t] = "Finished"]_vars

\* A transaction whose status is WaitingStatus is in the queue ("waiting in
\* the queue", globals.h:264), so that someone will come to it.
WaitingIsQueued ==
  \A t \in Trans :
    status[t] = "Waiting" /\ object[t] # "deleted" => t \in ToSet(queue)

\* No thread touches a Transaction object after its deletion.
NoUseAfterDelete == daemon # "crashed"

\* checkIdle only ends a worker that has done nothing for IDLE_TIMEOUT ("Quit
\* if we've not run a job for a while", workerdaemon.cpp:78).
QuitsOnlyWhenRested == [][daemon = "up" /\ daemon' = "quitting" => rested]_vars

\* checkIdle looks at the queue, m_trans and the time stamp, not at what one thread has
\* posted to the other.  There is none of it all the same: no runTransaction() call that
\* would be lost with the worker's event loop, and no end of a job that nobody was told.
QuitsWithNothingUnderway ==
  [][daemon = "up" /\ daemon' = "quitting" => calls = <<>> /\ finished = <<>>]_vars

\* The daemon implements the serial executor.  Of the queue only the head can
\* have been started (HandoverSound).
Executor == INSTANCE SerialExecutor WITH
  submitted <- ToSet(queue) \cup {t \in Trans : runs[t] > 0},
  waiting   <- IF queue # <<>> /\ runs[Head(queue)] > 0 THEN Tail(queue) ELSE queue,
  current   <- IF wpc = "running" THEN mTrans ELSE None

ImplementsExecutor == Executor!FairSpec

\* A transaction in the queue is eventually started ("Queues the transaction
\* to be processed by the QApt Worker", transaction.h:485).
QueuedIsProcessed == \A t \in Trans : t \in ToSet(queue) ~> runs[t] > 0

\* Once the clients stop asking for work, the daemon goes away: transactions
\* nobody runs expire, and no leftover keeps isEmpty() false for ever.
EventuallyExits == <>(daemon = "exited")
=============================================================================
