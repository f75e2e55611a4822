------------------------------ MODULE AptWorker ------------------------------
(***************************************************************************)
(* The inside of one job: AptWorker::runTransaction (worker/aptworker.cpp) *)
(* with its locks (worker/aptlock.cpp), the fetcher's callbacks (worker/   *)
(* workeracquire.cpp) and the installation (worker/                        *)
(* workerinstallprogress.cpp), on the worker thread, while clients cancel  *)
(* and answer prompts through the Transaction object (worker/              *)
(* transaction.cpp) on the main thread and other package managers come and *)
(* go.  TransactionQueue.tla has the jobs' dispatch; there a job only      *)
(* starts and ends.                                                        *)
(*                                                                         *)
(* Every access to a Transaction member is one critical section of its     *)
(* m_dataMutex, so a step here is what the worker does between two such    *)
(* sections that matter.  Progress, status texts and the status enumerator *)
(* are left out: a job sets them and never reads them.                     *)
(***************************************************************************)
EXTENDS Naturals, FiniteSets

CONSTANTS
  NLocks,     \* how many lock files m_locks has, taken in order
  Contended,  \* those that other package managers use as well
  Sessions,   \* bound: how often another package manager takes a lock
  Roles,      \* roles of the job to consider
  Frontends,  \* sets of capabilities that clients declare
  ConfFiles,  \* configuration files whose replacement dpkg may ask about
  DebFits,    \* does the .deb file fit the architecture? (the answers allowed)
  DpkgStarts, \* does QProcess find the program it is told to start? (likewise)
  None        \* no medium, no configuration file

AllRoles == {"Empty", "UpdateCache", "UpgradeSystem", "CommitChanges",
             "DownloadArchives", "InstallFile"}

\* The prompts a frontend can declare itself able to answer, and Debconf.
Capabilities == {"Debconf", "MediumPrompt", "ConfigPrompt", "UntrustedPrompt"}

ASSUME ConstantsAssumption ==
  /\ NLocks \in Nat
  /\ Contended \subseteq 1..NLocks
  /\ Sessions \in Nat
  /\ Roles \subseteq AllRoles
  /\ Frontends \subseteq SUBSET Capabilities
  /\ DebFits \subseteq BOOLEAN /\ DpkgStarts \subseteq BOOLEAN
  /\ None \notin ConfFiles

VARIABLES
  \* the worker thread
  pc,            \* where runTransaction is
  next,          \* the next lock of m_locks to take
  held,          \* AptLocks that are locked
  fetch,         \* result of the fetcher's run
  conflict,      \* the file dpkg is asking about
  \* the Transaction object
  role, declared,  \* m_role; the capabilities the client declared
  cancellable, cancelled, paused,   \* m_isCancellable, m_isCancelled, m_isPaused
  medium,          \* m_medium is set
  confPath,        \* m_currentConfPath
  allowUntrusted, replaceConf,      \* m_allowUntrusted, m_replaceConfFile
  error, exit,     \* m_error, m_exitStatus
  \* the environment
  foreign,       \* lock files held by other package managers
  sessions,      \* how often they have taken one
  untrusted,     \* some package comes from an untrusted source
  system,        \* what the job has done to the installed packages
  \* history
  asked,         \* configuration files there has been a prompt for
  consent,       \* those the user chose to replace, answering that prompt
  approved,      \* the last reply about untrusted packages, up to the decision, was yes
  misled,        \* a reply has ended a wait it was not meant for
  silent         \* dpkg's process did not start, or was killed, and nobody noticed

lockVars   == <<next, held>>
fetchVars  == <<fetch, conflict>>
workerVars == <<pc, lockVars, fetchVars>>
replyVars  == <<medium, confPath, allowUntrusted, replaceConf>>
promptVars == <<paused, replyVars>>
cancelVars == <<cancellable, cancelled>>
resultVars == <<error, exit>>
jobVars    == <<role, declared>>
otherVars  == <<foreign, sessions>>
systemVars == <<untrusted, system>>
historyVars == <<asked, consent, approved, misled, silent>>
asideVars  == <<promptVars, cancelVars, jobVars, otherVars, historyVars>>
vars == <<workerVars, resultVars, systemVars, asideVars>>

Errors == {"Success", "InitError", "DiskSpaceError", "FetchError",
           "CommitError", "UntrustedError", "NotFoundError", "WrongArchError",
           "MarkingError"}

Places == {"queued", "locks", "lockWait", "lists", "mark", "prepare", "collect",
           "untrustedPrompt", "decide", "fetchStart", "fetching",
           "mediumPrompt", "fetchStop", "fetched", "commit", "installing",
           "confPrompt", "reopen", "deb", "dpkg", "cleanup", "report",
           "finished", "crashed"}

TypeOK ==
  /\ pc \in Places
  /\ next \in 1..(NLocks + 1)
  /\ held \subseteq 1..NLocks
  /\ fetch \in {"continue", "incomplete", "failed"}
  /\ conflict \in asked \cup {None}
  /\ role \in AllRoles
  /\ declared \subseteq Capabilities
  /\ cancellable \in BOOLEAN /\ cancelled \in BOOLEAN /\ paused \in BOOLEAN
  /\ medium \in BOOLEAN
  /\ confPath \in asked \cup {None}
  /\ allowUntrusted \in BOOLEAN /\ replaceConf \in BOOLEAN
  /\ error \in Errors
  /\ exit \in {"Unfinished", "Success", "Cancelled", "Failed"}
  /\ foreign \subseteq Contended \ held
  /\ sessions \in 0..Sessions
  /\ untrusted \in BOOLEAN
  /\ system \in {"untouched", "changing", "changed"}
  /\ asked \subseteq ConfFiles /\ consent \subseteq asked
  /\ approved \in BOOLEAN /\ misled \in BOOLEAN /\ silent \in BOOLEAN

Init ==
  /\ pc = "queued" /\ next = 1 /\ held = {} /\ fetch = "continue"
  /\ conflict = None
  /\ role \in Roles /\ declared \in Frontends
  /\ cancellable = TRUE /\ cancelled = FALSE /\ paused = FALSE
  /\ medium = FALSE /\ confPath = None
  /\ allowUntrusted = FALSE /\ replaceConf = FALSE
  /\ error = "Success" /\ exit = "Unfinished"
  /\ foreign \in SUBSET Contended /\ sessions = 0
  /\ untrusted = FALSE /\ system = "untouched"
  /\ asked = {} /\ consent = {} /\ approved = FALSE /\ misled = FALSE
  /\ silent = FALSE

-----------------------------------------------------------------------------
(* Frontend capabilities *)

\* The enumerators of FrontendCaps are 1, 2, 3 and 4; these are the bits set.
Bits == [Debconf |-> {1}, MediumPrompt |-> {2}, ConfigPrompt |-> {1, 2},
         UntrustedPrompt |-> {4}]

\* frontendCaps() & cap, for the union of the declared enumerators.
Supports(cap) == \E c \in declared : Bits[cap] \cap Bits[c] # {}

-----------------------------------------------------------------------------
(* The worker: from the queue to the open cache *)

Goto(place) == pc' = place /\ UNCHANGED error

\* setError, and back to runTransaction, which cleans up.
Fail(code) == error' = code /\ pc' = "cleanup"

\* Entry of runTransaction.
RunTransaction ==
  /\ pc = "queued"
  /\ pc' = "locks"
  /\ UNCHANGED <<lockVars, fetchVars, resultVars, systemVars, asideVars>>

\* waitForLocks: the lock is to be had at once.
TakeLock ==
  /\ pc = "locks" /\ next <= NLocks /\ next \notin foreign
  /\ held' = held \cup {next}
  /\ next' = next + 1
  /\ UNCHANGED <<pc, fetchVars, resultVars, systemVars, asideVars>>

\* waitForLocks: another package manager has it.
LockBusy ==
  /\ pc = "locks" /\ next <= NLocks /\ next \in foreign
  /\ paused' = TRUE
  /\ pc' = "lockWait"
  /\ UNCHANGED <<lockVars, fetchVars, replyVars, cancelVars, resultVars,
                 jobVars, otherVars, systemVars, historyVars>>

\* One turn of the waiting loop, three seconds long, that gets the lock; the
\* transaction may have been cancelled or resumed during those.
RetryLock ==
  /\ pc = "lockWait" /\ next \notin held /\ next \notin foreign
  /\ held' = held \cup {next}
  /\ UNCHANGED <<pc, next, fetchVars, resultVars, systemVars, asideVars>>

\* The loop ends, with the lock or because paused or cancelled changed; either
\* way the next lock is tried and the job goes on.
LockWaitEnds ==
  /\ pc = "lockWait"
  /\ next \in held \/ ~paused \/ cancelled
  /\ paused' = FALSE
  /\ next' = next + 1
  /\ pc' = "locks"
  /\ UNCHANGED <<held, fetchVars, replyVars, cancelVars, resultVars, jobVars,
                 otherVars, systemVars, historyVars>>

\* Where runTransaction's switch over the role leads.
FirstPlace ==
  [Empty |-> "cleanup", UpdateCache |-> "lists", UpgradeSystem |-> "prepare",
   CommitChanges |-> "mark", DownloadArchives |-> "collect",
   InstallFile |-> "deb"]

\* openCache, and runTransaction's check for its error.
OpenCache ==
  /\ pc = "locks" /\ next > NLocks
  /\ Goto(FirstPlace[role]) \/ Fail("InitError")
  /\ UNCHANGED <<lockVars, fetchVars, exit, systemVars, asideVars>>

-----------------------------------------------------------------------------
(* The worker: preparing the fetch *)

\* updateCache up to the fetcher's run; ListUpdate may fail before it.
PrepareLists ==
  /\ pc = "lists"
  /\ \/ Goto("fetchStart") /\ UNCHANGED fetch
     \/ Goto("fetched") /\ fetch' = "failed"
  /\ UNCHANGED <<lockVars, conflict, exit, systemVars, asideVars>>

\* markChanges.
MarkChanges ==
  /\ pc = "mark"
  /\ \/ Goto("prepare")
     \/ \E code \in {"NotFoundError", "MarkingError"} : Fail(code)
  /\ UNCHANGED <<lockVars, fetchVars, exit, systemVars, asideVars>>

\* downloadArchives up to the fetcher's run.
CollectArchives ==
  /\ pc = "collect"
  /\ Goto("fetchStart") \/ Fail("NotFoundError")
  /\ UNCHANGED <<lockVars, fetchVars, exit, systemVars, asideVars>>

\* commitChanges up to the check for untrusted packages, when there are none
\* (or APT::Get::AllowUnauthenticated forbids them).
PrepareTrusted ==
  /\ pc = "prepare"
  /\ \/ Goto("fetchStart")
     \/ \E code \in {"FetchError", "DiskSpaceError", "UntrustedError"} : Fail(code)
  /\ UNCHANGED <<lockVars, fetchVars, exit, systemVars, asideVars>>

\* The same when there are: a prompt if the frontend can answer it.
PrepareUntrusted ==
  /\ pc = "prepare"
  /\ untrusted' = TRUE
  /\ IF Supports("UntrustedPrompt")
       THEN pc' = "untrustedPrompt" /\ paused' = TRUE
       ELSE pc' = "decide" /\ UNCHANGED paused
  /\ UNCHANGED <<lockVars, fetchVars, replyVars, cancelVars, resultVars,
                 jobVars, otherVars, system, historyVars>>

UntrustedPromptEnds ==
  /\ pc = "untrustedPrompt" /\ ~paused
  /\ pc' = "decide"
  /\ UNCHANGED <<lockVars, fetchVars, resultVars, systemVars, asideVars>>

\* Mutant: whoever was prompted is taken to have agreed.
DecideByPrompt ==
  /\ pc = "decide"
  /\ IF allowUntrusted \/ Supports("UntrustedPrompt")
       THEN Goto("fetchStart") ELSE Fail("UntrustedError")
  /\ UNCHANGED <<lockVars, fetchVars, exit, systemVars, asideVars>>

DecideUntrusted ==
  /\ pc = "decide"
  /\ IF allowUntrusted THEN Goto("fetchStart") ELSE Fail("UntrustedError")
  /\ UNCHANGED <<lockVars, fetchVars, exit, systemVars, asideVars>>

-----------------------------------------------------------------------------
(* The worker: inside the fetcher's run *)

\* WorkerAcquire::Start.
FetchStart ==
  /\ pc = "fetchStart"
  /\ cancellable' = TRUE
  /\ pc' = "fetching"
  /\ UNCHANGED <<lockVars, fetchVars, promptVars, cancelled, resultVars,
                 jobVars, otherVars, systemVars, historyVars>>

\* WorkerAcquire::MediaChange, for a frontend that can prompt for media.  (For
\* any other it returns false, which is one of the failures of FetchEnds.)
MediaChange ==
  /\ pc = "fetching" /\ Supports("MediumPrompt")
  /\ medium' = TRUE
  /\ paused' = TRUE
  /\ pc' = "mediumPrompt"
  /\ UNCHANGED <<lockVars, fetchVars, confPath, allowUntrusted, replaceConf,
                 cancelVars, resultVars, jobVars, otherVars, systemVars, historyVars>>

MediumPromptEnds ==
  /\ pc = "mediumPrompt" /\ ~paused
  /\ pc' = "fetching"
  /\ UNCHANGED <<lockVars, fetchVars, resultVars, systemVars, asideVars>>

\* WorkerAcquire::Pulse finds the transaction cancelled: the run is broken off.
Pulse ==
  /\ pc = "fetching" /\ cancelled
  /\ fetch' = "failed"
  /\ pc' = "fetchStop"
  /\ UNCHANGED <<lockVars, conflict, resultVars, systemVars, asideVars>>

\* The fetch is through, with all, some or none of its items.
FetchEnds ==
  /\ pc = "fetching"
  /\ fetch' \in {"continue", "incomplete", "failed"}
  /\ pc' = "fetchStop"
  /\ UNCHANGED <<lockVars, conflict, resultVars, systemVars, asideVars>>

\* Mutant: the end of the fetch leaves the transaction cancellable.
FetchStopCancellable ==
  /\ pc = "fetchStop"
  /\ pc' = "fetched"
  /\ UNCHANGED <<lockVars, fetchVars, resultVars, systemVars, asideVars>>

\* WorkerAcquire::Stop.
FetchStop ==
  /\ pc = "fetchStop"
  /\ cancellable' = FALSE
  /\ pc' = "fetched"
  /\ UNCHANGED <<lockVars, fetchVars, promptVars, cancelled, resultVars,
                 jobVars, otherVars, systemVars, historyVars>>

-----------------------------------------------------------------------------
(* The worker: after the fetch *)

IsCommit == role \in {"UpgradeSystem", "CommitChanges"}

\* A run that failed is an error unless the user wanted it that way.
FetchFailed(place) ==
  /\ fetch = "failed"
  /\ pc' = place
  /\ error' = IF cancelled THEN error ELSE "FetchError"

\* updateCache after ListUpdate.
ListsFetched ==
  /\ pc = "fetched" /\ role = "UpdateCache"
  /\ \/ FetchFailed("reopen")
     \/ fetch # "failed" /\ Goto("reopen")
  /\ UNCHANGED <<lockVars, fetchVars, exit, systemVars, asideVars>>

\* downloadArchives after the run.
ArchivesFetched ==
  /\ pc = "fetched" /\ role = "DownloadArchives"
  /\ \/ FetchFailed("cleanup")
     \/ fetch # "failed" /\ Goto("cleanup")
  /\ UNCHANGED <<lockVars, fetchVars, exit, systemVars, asideVars>>

\* Mutant: the check for cancellation after the fetch is missing.
CommitFetchedUnchecked ==
  /\ pc = "fetched" /\ IsCommit
  /\ \/ FetchFailed("cleanup")
     \/ fetch # "failed" /\ Goto("commit")
     \/ fetch = "incomplete" /\ Fail("FetchError")
  /\ UNCHANGED <<lockVars, fetchVars, exit, systemVars, asideVars>>

\* Mutant: items that are missing are passed over without an error.
CommitFetchedPartly ==
  /\ pc = "fetched" /\ IsCommit
  /\ \/ FetchFailed("cleanup")
     \/ fetch # "failed" /\ cancelled /\ Goto("cleanup")
     \/ fetch # "failed" /\ ~cancelled /\ Goto("commit")
     \/ fetch = "incomplete" /\ ~cancelled /\ Goto("cleanup")
  /\ UNCHANGED <<lockVars, fetchVars, exit, systemVars, asideVars>>

\* commitChanges after the run: cancelled, or missing items, which FixMissing
\* may or may not be able to do without.
CommitFetched ==
  /\ pc = "fetched" /\ IsCommit
  /\ \/ FetchFailed("cleanup")
     \/ fetch # "failed" /\ cancelled /\ Goto("cleanup")
     \/ fetch # "failed" /\ ~cancelled /\ Goto("commit")
     \/ fetch = "incomplete" /\ ~cancelled /\ Fail("FetchError")
  /\ UNCHANGED <<lockVars, fetchVars, exit, systemVars, asideVars>>

-----------------------------------------------------------------------------
(* The worker: installing *)

\* WorkerInstallProgress::start up to the fork.
StartInstall ==
  /\ pc = "commit"
  /\ pc' = "installing"
  /\ system' = "changing"
  /\ UNCHANGED <<lockVars, fetchVars, resultVars, untrusted, asideVars>>

\* DoInstallPreFork fails; or pipe() or forkpty() does, and the result of
\* DoInstallPreFork, Completed, is returned for that of an installation.
InstallNotStarted ==
  /\ pc = "commit"
  /\ pc' = "reopen"
  /\ \/ error' = "CommitError" /\ UNCHANGED silent
     \/ silent' = TRUE /\ UNCHANGED error
  /\ UNCHANGED <<lockVars, fetchVars, exit, systemVars, promptVars, cancelVars, jobVars, otherVars,
                 asked, consent, approved, misled>>

\* updateInterface reads a pmconffile line: dpkg wants to know whether to
\* replace the file, which it asks once for each.
ConfFileConflict(file) ==
  /\ pc = "installing" /\ file \notin asked
  /\ pc' = "confPrompt"
  /\ conflict' = file
  /\ asked' = asked \cup {file}
  /\ IF Supports("ConfigPrompt")
       THEN confPath' = file /\ paused' = TRUE
       ELSE UNCHANGED <<confPath, paused>>
  /\ UNCHANGED <<lockVars, fetch, medium, allowUntrusted, replaceConf,
                 cancelVars, resultVars, jobVars, otherVars, systemVars, consent,
                 approved, misled, silent>>

\* "Y" or "N" is written to dpkg, as m_replaceConfFile says.
AnswerDpkg ==
  /\ pc = "confPrompt" /\ ~paused
  /\ pc' = "installing"
  /\ conflict' = None
  /\ UNCHANGED <<lockVars, fetch, resultVars, systemVars, asideVars>>

\* The child exits, and commitChanges looks at its result.  WEXITSTATUS of a
\* child that a signal killed is 0, Completed.
InstallEnds ==
  /\ pc = "installing"
  /\ pc' = "reopen"
  /\ \/ system' = "changed" /\ UNCHANGED <<error, silent>>
     \/ error' = "CommitError" /\ UNCHANGED <<system, silent>>
     \/ silent' = TRUE /\ UNCHANGED <<error, system>>
  /\ UNCHANGED <<lockVars, fetchVars, exit, untrusted, promptVars, cancelVars, jobVars, otherVars,
                 asked, consent, approved, misled>>

\* openCache after an update or a commit.
ReopenCache ==
  /\ pc = "reopen"
  /\ Goto("cleanup") \/ Fail("InitError")
  /\ UNCHANGED <<lockVars, fetchVars, exit, systemVars, asideVars>>

\* Where installFile and the wait for its process lead.  A file that does not
\* fit starts no process, and runTransaction waits for the one that is behind
\* m_dpkgProcess: a crash, as the pointer is uninitialised or null, unless an
\* earlier job left a process there that did not start.  A process that does
\* not start emits no finished() and the wait returns at once.
AfterDeb(fits, starts) ==
  CASE fits /\ starts -> {"dpkg"}
    [] fits /\ ~starts -> {"cleanup"}
    [] OTHER -> {"cleanup", "crashed"}

\* installFile.  (It gives QProcess::start one string, which Qt 5 splits into
\* a program and its arguments and Qt 6 takes for the name of the program.)
InstallFile ==
  /\ pc = "deb"
  /\ \E fits \in DebFits, starts \in DpkgStarts :
       /\ pc' \in AfterDeb(fits, starts)
       /\ error' = IF fits THEN error ELSE "WrongArchError"
       /\ system' = IF fits /\ starts THEN "changing" ELSE system
  /\ UNCHANGED <<lockVars, fetchVars, exit, untrusted, asideVars>>

\* waitForFinished and dpkgFinished.
DpkgFinished ==
  /\ pc = "dpkg"
  /\ pc' = "cleanup"
  /\ \/ system' = "changed" /\ UNCHANGED error
     \/ error' = "CommitError" /\ UNCHANGED system
  /\ UNCHANGED <<lockVars, fetchVars, exit, untrusted, asideVars>>

-----------------------------------------------------------------------------
(* The worker: cleanupCurrentTransaction *)

ReleaseLocks ==
  /\ pc = "cleanup"
  /\ held' = {}
  /\ pc' = "report"
  /\ UNCHANGED <<next, fetchVars, resultVars, systemVars, asideVars>>

SetExitStatus ==
  /\ pc = "report"
  /\ exit' = IF cancelled THEN "Cancelled"
             ELSE IF error # "Success" THEN "Failed" ELSE "Success"
  /\ pc' = "finished"
  /\ UNCHANGED <<lockVars, fetchVars, error, systemVars, asideVars>>

-----------------------------------------------------------------------------
(* Clients of the transaction *)

Alive == pc # "crashed"

\* Transaction::cancel.
Cancel ==
  /\ Alive /\ cancellable
  /\ cancelled' = TRUE
  /\ paused' = FALSE
  /\ UNCHANGED <<workerVars, replyVars, cancellable, resultVars, jobVars,
                 otherVars, systemVars, historyVars>>

\* Did this reply end another wait than the one it was made for?
Misleads(prompt) == misled' = (misled \/ (paused /\ pc # prompt))

\* Transaction::setFrontendCaps, at any time.
SetFrontendCaps ==
  /\ Alive
  /\ declared' \in Frontends
  /\ UNCHANGED <<workerVars, promptVars, cancelVars, resultVars, role, otherVars, systemVars,
                 historyVars>>

\* Mutant: the reply is noted and the worker left waiting.
ProvideMediumStaysPaused ==
  /\ Alive /\ medium
  /\ Misleads("mediumPrompt")
  /\ UNCHANGED <<workerVars, promptVars, cancelVars, resultVars, jobVars,
                 otherVars, systemVars, asked, consent, approved, silent>>

\* Transaction::provideMedium with the medium once asked for.  None of the replies
\* looks at the capabilities, nor at what is being waited for.
ProvideMedium ==
  /\ Alive /\ medium
  /\ paused' = FALSE
  /\ Misleads("mediumPrompt")
  /\ UNCHANGED <<workerVars, replyVars, cancelVars, resultVars, jobVars,
                 otherVars, systemVars, asked, consent, approved, silent>>

\* Where a commit is before it decides about untrusted packages.
Undecided == pc \in {"queued", "locks", "lockWait", "mark", "prepare", "untrustedPrompt", "decide"}

\* Transaction::replyUntrustedPrompt.
ReplyUntrustedPrompt(approve) ==
  /\ Alive
  /\ allowUntrusted' = approve
  /\ paused' = FALSE
  /\ approved' = IF Undecided THEN approve ELSE approved
  /\ Misleads("untrustedPrompt")
  /\ UNCHANGED <<workerVars, medium, confPath, replaceConf, cancelVars,
                 resultVars, jobVars, otherVars, systemVars, asked, consent, silent>>

\* What the user has decided by answering for the file, if that is the one
\* dpkg is asking about.
Consents(file, replace) ==
  consent' = IF pc = "confPrompt" /\ conflict = file
               THEN IF replace THEN consent \cup {file} ELSE consent \ {file}
               ELSE consent

\* Mutant: the path is not compared with the one that was asked about.
ResolveAnyConflict(file, replace) ==
  /\ Alive
  /\ replaceConf' = replace
  /\ paused' = FALSE
  /\ Consents(file, replace)
  /\ Misleads("confPrompt")
  /\ UNCHANGED <<workerVars, medium, confPath, allowUntrusted, cancelVars,
                 resultVars, jobVars, otherVars, systemVars, asked, approved, silent>>

\* Transaction::resolveConfigFileConflict, for any path, the empty one included, which
\* is m_currentConfPath before there has been a prompt.
ResolveConfigFileConflict(file, replace) ==
  /\ Alive
  /\ replaceConf' = (replace /\ file = confPath)
  /\ paused' = FALSE
  /\ Consents(file, replace)
  /\ Misleads("confPrompt")
  /\ UNCHANGED <<workerVars, medium, confPath, allowUntrusted, cancelVars,
                 resultVars, jobVars, otherVars, systemVars, asked, approved, silent>>

-----------------------------------------------------------------------------
(* Other package managers *)

OthersLock(l) ==
  /\ l \in Contended \ (held \cup foreign)
  /\ sessions < Sessions
  /\ foreign' = foreign \cup {l}
  /\ sessions' = sessions + 1
  /\ UNCHANGED <<workerVars, promptVars, cancelVars, resultVars, jobVars,
                 systemVars, historyVars>>

OthersUnlock(l) ==
  /\ l \in foreign
  /\ foreign' = foreign \ {l}
  /\ UNCHANGED <<workerVars, promptVars, cancelVars, resultVars, jobVars,
                 sessions, systemVars, historyVars>>

-----------------------------------------------------------------------------
FetchResult == FetchEnds \/ Pulse

WorkerSteps ==
  \/ RunTransaction \/ TakeLock \/ LockBusy \/ RetryLock \/ LockWaitEnds
  \/ OpenCache \/ PrepareLists \/ MarkChanges \/ CollectArchives
  \/ PrepareTrusted \/ PrepareUntrusted \/ UntrustedPromptEnds
  \/ DecideUntrusted \/ FetchStart \/ MediaChange \/ MediumPromptEnds
  \/ FetchResult \/ FetchStop \/ ListsFetched \/ ArchivesFetched
  \/ CommitFetched \/ StartInstall \/ InstallNotStarted
  \/ (\E file \in ConfFiles : ConfFileConflict(file))
  \/ AnswerDpkg \/ InstallEnds \/ ReopenCache \/ InstallFile \/ DpkgFinished
  \/ ReleaseLocks \/ SetExitStatus

Replies ==
  \/ ProvideMedium
  \/ \E approve \in BOOLEAN : ReplyUntrustedPrompt(approve)
  \/ \E file \in ConfFiles \cup {None}, replace \in BOOLEAN :
       ResolveConfigFileConflict(file, replace)

Others == \E l \in Contended : OthersLock(l) \/ OthersUnlock(l)

Next == WorkerSteps \/ Cancel \/ Replies \/ SetFrontendCaps \/ Others

Spec == Init /\ [][Next]_vars

\* The worker thread runs, a fetch does not ask for media for ever, dpkg asks
\* finitely often by itself (once for each file), and whoever holds a lock
\* releases it (Sessions bounds how often it is taken back).  Nobody has to
\* answer a prompt.
WorkerFairness ==
  /\ WF_vars(WorkerSteps)
  /\ SF_vars(FetchResult)
  /\ \A l \in Contended : WF_vars(OthersUnlock(l))

WorkerFairSpec == Spec /\ WorkerFairness

\* Besides, clients answer what they are prompted for.
FairSpec ==
  /\ WorkerFairSpec
  /\ WF_vars(pc = "mediumPrompt" /\ ProvideMedium)
  /\ WF_vars(/\ pc = "untrustedPrompt"
             /\ \E approve \in BOOLEAN : ReplyUntrustedPrompt(approve))
  /\ WF_vars(/\ pc = "confPrompt"
             /\ \E replace \in BOOLEAN :
                  ResolveConfigFileConflict(conflict, replace))

-----------------------------------------------------------------------------
(* Properties *)

Installing == pc \in {"installing", "confPrompt", "dpkg"}

\* A commit never works on the package system without all the locks.  What
\* ends waitForLocks' loop early is that the user cancelled, and the job then
\* must not get as far as the installation; nothing else ends it early, unless
\* a reply meant for a prompt happens to arrive during that wait.
CommitsLocked ==
  IsCommit /\ Installing => held = 1..NLocks \/ misled

\* A commit that is reported as cancelled has installed nothing: the request
\* was made in time for the check after the fetch, or it was refused.
CancelledCommitsNothing ==
  IsCommit /\ exit = "Cancelled" => system = "untouched"

\* Untrusted packages are only installed if the last that a client said of them, before
\* the job decided, was yes, whether it was prompted or not: neither the end of the wait
\* by another reply or a cancellation nor an approval taken back counts as one.
UntrustedNeedsApproval == untrusted /\ Installing => approved

\* Of a configuration file that clients were asked about, dpkg is told to replace it
\* only if the user, asked about that very file, chose so; a late answer about another
\* file does not count.  (Of a file they were not asked about, m_replaceConfFile is
\* what an earlier reply has left.)
ReplacesWithConsent ==
  [][pc = "confPrompt" /\ confPath = conflict /\ pc' = "installing" /\ replaceConf
       => conflict \in consent \/ misled]_vars

\* A commit that reports success has completed its installation, unless dpkg's process
\* did not start or was killed: nothing else that fails is passed over.
SuccessMeansInstalled ==
  IsCommit /\ exit = "Success" => system = "changed" \/ silent

\* Every job ends, which the queue behind it depends on.
JobEnds == <>(pc = "finished")

-----------------------------------------------------------------------------
(* Properties that documentation or comments state and the code does not keep *)

\* A prompt ends when the user cancels ("Wait until the media is provided or
\* the user cancels", workeracquire.cpp:135; "Wait until the user approves,
\* disapproves, or cancels the transaction", aptworker.cpp:507).
CancelEndsPrompts ==
  cancelled ~> pc \notin {"untrustedPrompt", "mediumPrompt"}

\* A frontend is only prompted for what it declared ("Prompt for which file to
\* use if the frontend supports that", workerinstallprogress.cpp:187).
PromptsOnlyDeclared ==
  [][pc = "installing" /\ pc' = "confPrompt" /\ paused' => "ConfigPrompt" \in declared]_vars
=============================================================================
