--------------------------- MODULE AptWorkerProofs ---------------------------
(***************************************************************************)
(* Invariants of a job (AptWorker), proved for any number of locks, any    *)
(* roles, frontends and configuration files, and with every fault the      *)
(* model has.                                                              *)
(***************************************************************************)
EXTENDS AptWorker, TLAPS

\* From the first place after waitForLocks to the last before the cleanup.
Working ==
  {"lists", "mark", "prepare", "collect", "untrustedPrompt", "decide",
   "fetchStart", "fetching", "mediumPrompt", "fetchStop", "fetched", "commit",
   "installing", "confPrompt", "reopen", "deb", "dpkg"}

\* What excuses a worker for going on without a lock.
Excused == cancelled \/ misled

\* The locks are taken in order, and none is passed over without an excuse.
LocksTaken ==
  /\ pc = "queued" => next = 1
  /\ pc \in {"locks", "lockWait"} => 1..(next - 1) \subseteq held \/ Excused
  /\ pc = "lockWait" => next <= NLocks /\ (paused \/ Excused)
  /\ pc \in Working => held = 1..NLocks \/ Excused

\* From the end of the fetch a commit cannot be cancelled, and from the check
\* that follows it is not.
CancelClosed ==
  /\ pc \in {"deb", "dpkg"} => role = "InstallFile"
  /\ pc \in {"lists"} => role = "UpdateCache"
  /\ pc \in {"collect"} => role = "DownloadArchives"
  /\ pc \in {"fetched", "commit", "installing", "confPrompt"} /\ IsCommit
       => ~cancellable
  /\ pc \in {"commit", "installing", "confPrompt"} => IsCommit /\ ~cancelled

\* A commit has touched the system only if it was not cancelled, and it
\* cannot be any more.
TouchedUncancelled ==
  /\ system # "untouched" =>
       pc \in {"installing", "confPrompt", "dpkg", "reopen", "cleanup", "report",
               "finished"}
  /\ IsCommit /\ system # "untouched" => ~cancelled /\ ~cancellable
  /\ exit = "Cancelled" => cancelled

\* Until the decision m_allowUntrusted is the last reply, and untrusted packages get
\* past it only by approval.
ApprovalKept ==
  /\ Undecided => (allowUntrusted <=> approved)
  /\ untrusted => pc \notin {"queued", "locks", "lockWait", "lists", "mark",
                             "collect", "prepare", "deb", "dpkg"}
  /\ untrusted /\ pc \notin {"untrustedPrompt", "decide", "cleanup", "report",
                             "finished"}
       => approved

\* While dpkg waits for an answer, m_replaceConfFile is what the user said to
\* this very prompt, once the wait for it is over.
ConsentKept ==
  /\ pc = "confPrompt" => conflict \in asked
  /\ pc = "confPrompt" /\ confPath = conflict /\ ~paused /\ replaceConf
       => conflict \in consent \/ misled

\* Besides the types.
Rest == /\ LocksTaken /\ CancelClosed /\ TouchedUncancelled
        /\ ApprovalKept /\ ConsentKept

\* The inductive invariant.
IInv == TypeOK /\ Rest

-----------------------------------------------------------------------------
(* Types *)

USE DEF vars, workerVars, lockVars, fetchVars, resultVars, systemVars,
        asideVars, promptVars, replyVars, cancelVars, jobVars, otherVars,
        historyVars

\* Every step of the worker keeps the types.
LEMMA WorkerTypes ==
  ASSUME TypeOK, LocksTaken, WorkerSteps
  PROVE  TypeOK'
<1> USE ConstantsAssumption DEF TypeOK, Places, Errors, AllRoles, Goto, Fail
<1>1. CASE RunTransaction
  BY <1>1 DEF RunTransaction
<1>2. CASE TakeLock
  BY <1>2 DEF TakeLock
<1>3. CASE LockBusy
  BY <1>3 DEF LockBusy
<1>4. CASE RetryLock
  BY <1>4 DEF RetryLock, LocksTaken
<1>5. CASE LockWaitEnds
  <2>1. paused' \in BOOLEAN
    BY <1>5 DEF LockWaitEnds
  <2> QED BY <1>5, <2>1 DEF LockWaitEnds, LocksTaken
<1>6. CASE OpenCache
  BY <1>6 DEF OpenCache, FirstPlace
<1>7. CASE PrepareLists
  BY <1>7 DEF PrepareLists
<1>8. CASE MarkChanges
  BY <1>8 DEF MarkChanges
<1>9. CASE CollectArchives
  BY <1>9 DEF CollectArchives
<1>10. CASE PrepareTrusted
  BY <1>10 DEF PrepareTrusted
<1>11. CASE PrepareUntrusted
  <2>1. paused' \in BOOLEAN
    BY <1>11 DEF PrepareUntrusted
  <2> QED BY <1>11, <2>1 DEF PrepareUntrusted
<1>12. CASE UntrustedPromptEnds
  BY <1>12 DEF UntrustedPromptEnds
<1>13. CASE DecideUntrusted
  BY <1>13 DEF DecideUntrusted
<1>14. CASE FetchStart
  BY <1>14 DEF FetchStart
<1>15. CASE MediaChange
  BY <1>15 DEF MediaChange
<1>16. CASE MediumPromptEnds
  BY <1>16 DEF MediumPromptEnds
<1>17. CASE Pulse
  BY <1>17 DEF Pulse
<1>18. CASE FetchEnds
  BY <1>18 DEF FetchEnds
<1>19. CASE FetchStop
  <2>1. cancellable' \in BOOLEAN
    BY <1>19 DEF FetchStop
  <2> QED BY <1>19, <2>1 DEF FetchStop
<1>20. CASE ListsFetched
  BY <1>20 DEF ListsFetched, FetchFailed, IsCommit
<1>21. CASE ArchivesFetched
  BY <1>21 DEF ArchivesFetched, FetchFailed, IsCommit
<1>22. CASE CommitFetched
  BY <1>22 DEF CommitFetched, FetchFailed, IsCommit
<1>23. CASE StartInstall
  BY <1>23 DEF StartInstall
<1>24. CASE InstallNotStarted
  <2>1. silent' \in BOOLEAN  BY <1>24 DEF InstallNotStarted
  <2>. QED  BY <1>24, <2>1 DEF InstallNotStarted
<1>25. ASSUME NEW file \in ConfFiles, ConfFileConflict(file) PROVE TypeOK'
  <2>1. paused' \in BOOLEAN
    BY <1>25 DEF ConfFileConflict
  <2> QED BY <1>25, <2>1 DEF ConfFileConflict
<1>26. CASE AnswerDpkg
  BY <1>26 DEF AnswerDpkg
<1>27. CASE InstallEnds
  <2>1. silent' \in BOOLEAN  BY <1>27 DEF InstallEnds
  <2>. QED  BY <1>27, <2>1 DEF InstallEnds
<1>28. CASE ReopenCache
  BY <1>28 DEF ReopenCache
<1>29. CASE InstallFile
  BY <1>29 DEF InstallFile, AfterDeb
<1>30. CASE DpkgFinished
  BY <1>30 DEF DpkgFinished
<1>31. CASE ReleaseLocks
  BY <1>31 DEF ReleaseLocks
<1>32. CASE SetExitStatus
  BY <1>32 DEF SetExitStatus
<1> QED
  BY <1>1, <1>2, <1>3, <1>4, <1>5, <1>6, <1>7, <1>8, <1>9, <1>10, <1>11, <1>12, <1>13, <1>14, <1>15, <1>16, <1>17, <1>18, <1>19, <1>20, <1>21, <1>22, <1>23, <1>24, <1>25, <1>26, <1>27, <1>28, <1>29, <1>30, <1>31, <1>32
     DEF WorkerSteps, FetchResult

\* So does every step of the clients and of the other package managers.
LEMMA EnvironmentTypes ==
  ASSUME TypeOK, ConsentKept, Cancel \/ Replies \/ SetFrontendCaps \/ Others
  PROVE  TypeOK'
<1> USE DEF TypeOK
<1>1. CASE Cancel
  <2>1. cancelled' \in BOOLEAN /\ paused' \in BOOLEAN
    BY <1>1 DEF Cancel
  <2> QED BY <1>1, <2>1 DEF Cancel
<1>2. CASE ProvideMedium
  <2>1. paused' \in BOOLEAN /\ misled' \in BOOLEAN
    BY <1>2 DEF ProvideMedium, Misleads
  <2> QED BY <1>2, <2>1 DEF ProvideMedium
<1>3. ASSUME NEW approve \in BOOLEAN, ReplyUntrustedPrompt(approve)
      PROVE  TypeOK'
  <2>1. /\ paused' \in BOOLEAN /\ misled' \in BOOLEAN
        /\ allowUntrusted' \in BOOLEAN /\ approved' \in BOOLEAN
    BY <1>3 DEF ReplyUntrustedPrompt, Misleads
  <2> QED BY <1>3, <2>1 DEF ReplyUntrustedPrompt
<1>4. ASSUME NEW file \in ConfFiles \cup {None}, NEW replace \in BOOLEAN,
             ResolveConfigFileConflict(file, replace)
      PROVE  TypeOK'
  <2>1. /\ paused' \in BOOLEAN /\ misled' \in BOOLEAN
        /\ replaceConf' \in BOOLEAN
    BY <1>4 DEF ResolveConfigFileConflict, Misleads
  <2>2. consent' \subseteq asked
    BY <1>4 DEF ResolveConfigFileConflict, Consents, ConsentKept
  <2> QED BY <1>4, <2>1, <2>2 DEF ResolveConfigFileConflict
<1>5. ASSUME NEW l \in Contended, OthersLock(l) PROVE TypeOK'
  BY <1>5, ConstantsAssumption DEF OthersLock
<1>6. ASSUME NEW l \in Contended, OthersUnlock(l) PROVE TypeOK'
  BY <1>6 DEF OthersUnlock
<1>7. CASE SetFrontendCaps
  BY <1>7, ConstantsAssumption DEF SetFrontendCaps
<1> QED
  BY <1>1, <1>2, <1>3, <1>4, <1>5, <1>6, <1>7 DEF Replies, Others

-----------------------------------------------------------------------------
(* The inductive invariant *)

\* It holds when the job is created.
LEMMA InitInv == Init => IInv
<1> SUFFICES ASSUME Init PROVE IInv
  OBVIOUS
<1> USE ConstantsAssumption DEF Init
<1>1. TypeOK
  <2>1. /\ pc \in Places /\ error \in Errors
        /\ next \in 1..(NLocks + 1) /\ held \subseteq 1..NLocks
        /\ sessions \in 0..Sessions
    BY DEF Places, Errors
  <2>2. role \in AllRoles /\ declared \subseteq Capabilities
    BY DEF AllRoles
  <2>3. foreign \subseteq Contended \ held
    OBVIOUS
  <2>4. /\ cancellable \in BOOLEAN /\ cancelled \in BOOLEAN
        /\ paused \in BOOLEAN /\ medium \in BOOLEAN
        /\ allowUntrusted \in BOOLEAN /\ replaceConf \in BOOLEAN
        /\ untrusted \in BOOLEAN /\ approved \in BOOLEAN
        /\ misled \in BOOLEAN /\ silent \in BOOLEAN
    OBVIOUS
  <2> QED BY <2>1, <2>2, <2>3, <2>4 DEF TypeOK
<1>2. LocksTaken
  BY DEF LocksTaken, Working
<1>3. CancelClosed /\ TouchedUncancelled /\ ApprovalKept /\ ConsentKept
  BY DEF CancelClosed, TouchedUncancelled, ApprovalKept, ConsentKept
<1> QED BY <1>1, <1>2, <1>3 DEF IInv, Rest

\* The worker's steps keep what is beyond the types.
LEMMA WorkerInv ==
  ASSUME IInv, WorkerSteps
  PROVE  Rest'
<1> USE ConstantsAssumption
    DEF IInv, TypeOK, Rest, LocksTaken, CancelClosed, TouchedUncancelled,
        ApprovalKept, ConsentKept, Undecided, Working, Excused, IsCommit, Goto, Fail
<1>1. CASE RunTransaction
  BY <1>1 DEF RunTransaction
<1>2. CASE TakeLock
  BY <1>2 DEF TakeLock
<1>3. CASE LockBusy
  BY <1>3 DEF LockBusy
<1>4. CASE RetryLock
  BY <1>4 DEF RetryLock
<1>5. CASE LockWaitEnds
  BY <1>5 DEF LockWaitEnds
<1>6. CASE OpenCache
  <2>1. \/ pc' = "cleanup"
        \/ role = "UpdateCache" /\ pc' = "lists"
        \/ role = "UpgradeSystem" /\ pc' = "prepare"
        \/ role = "CommitChanges" /\ pc' = "mark"
        \/ role = "DownloadArchives" /\ pc' = "collect"
        \/ role = "InstallFile" /\ pc' = "deb"
    BY <1>6 DEF OpenCache, FirstPlace, AllRoles
  <2>2. held = 1..NLocks \/ Excused
    <3>1. next = NLocks + 1
      BY <1>6 DEF OpenCache
    <3>2. 1..(next - 1) = 1..NLocks
      BY <3>1
    <3>3. 1..(next - 1) \subseteq held \/ Excused
      BY <1>6 DEF OpenCache
    <3>4. held \subseteq 1..NLocks
      OBVIOUS
    <3> HIDE DEF Excused, LocksTaken, TypeOK
    <3> QED BY <3>2, <3>3, <3>4
  <2> QED BY <1>6, <2>1, <2>2 DEF OpenCache
<1>7. CASE PrepareLists
  BY <1>7 DEF PrepareLists
<1>8. CASE MarkChanges
  BY <1>8 DEF MarkChanges
<1>9. CASE CollectArchives
  BY <1>9 DEF CollectArchives
<1>10. CASE PrepareTrusted
  BY <1>10 DEF PrepareTrusted
<1>11. CASE PrepareUntrusted
  BY <1>11 DEF PrepareUntrusted
<1>12. CASE UntrustedPromptEnds
  BY <1>12 DEF UntrustedPromptEnds
<1>13. CASE DecideUntrusted
  BY <1>13 DEF DecideUntrusted
<1>14. CASE FetchStart
  BY <1>14 DEF FetchStart
<1>15. CASE MediaChange
  BY <1>15 DEF MediaChange
<1>16. CASE MediumPromptEnds
  BY <1>16 DEF MediumPromptEnds
<1>17. CASE Pulse
  BY <1>17 DEF Pulse
<1>18. CASE FetchEnds
  BY <1>18 DEF FetchEnds
<1>19. CASE FetchStop
  BY <1>19 DEF FetchStop
<1>20. CASE ListsFetched
  BY <1>20 DEF ListsFetched, FetchFailed
<1>21. CASE ArchivesFetched
  BY <1>21 DEF ArchivesFetched, FetchFailed
<1>22. CASE CommitFetched
  BY <1>22 DEF CommitFetched, FetchFailed
<1>23. CASE StartInstall
  BY <1>23 DEF StartInstall
<1>24. CASE InstallNotStarted
  BY <1>24 DEF InstallNotStarted
<1>25. ASSUME NEW file \in ConfFiles, ConfFileConflict(file) PROVE Rest'
  BY <1>25 DEF ConfFileConflict
<1>26. CASE AnswerDpkg
  BY <1>26 DEF AnswerDpkg
<1>27. CASE InstallEnds
  BY <1>27 DEF InstallEnds
<1>28. CASE ReopenCache
  BY <1>28 DEF ReopenCache
<1>29. CASE InstallFile
  BY <1>29 DEF InstallFile, AfterDeb
<1>30. CASE DpkgFinished
  BY <1>30 DEF DpkgFinished
<1>31. CASE ReleaseLocks
  BY <1>31 DEF ReleaseLocks
<1>32. CASE SetExitStatus
  BY <1>32 DEF SetExitStatus
<1> QED
  BY <1>1, <1>2, <1>3, <1>4, <1>5, <1>6, <1>7, <1>8, <1>9, <1>10, <1>11, <1>12, <1>13, <1>14, <1>15, <1>16, <1>17, <1>18, <1>19, <1>20, <1>21, <1>22, <1>23, <1>24, <1>25, <1>26, <1>27, <1>28, <1>29, <1>30, <1>31, <1>32
     DEF WorkerSteps, FetchResult

\* So do the steps of the clients and of the other package managers.
LEMMA EnvironmentInv ==
  ASSUME IInv, Cancel \/ Replies \/ SetFrontendCaps \/ Others
  PROVE  Rest'
<1> USE DEF IInv, TypeOK, Rest, LocksTaken, CancelClosed, TouchedUncancelled,
            ApprovalKept, ConsentKept, Undecided, Working, Excused, IsCommit
<1>1. CASE Cancel
  BY <1>1 DEF Cancel
<1>2. CASE ProvideMedium
  BY <1>2 DEF ProvideMedium, Misleads
<1>3. ASSUME NEW approve \in BOOLEAN, ReplyUntrustedPrompt(approve)
      PROVE  Rest'
  BY <1>3 DEF ReplyUntrustedPrompt, Misleads
<1>4. ASSUME NEW file \in ConfFiles \cup {None}, NEW replace \in BOOLEAN,
             ResolveConfigFileConflict(file, replace)
      PROVE  Rest'
  BY <1>4 DEF ResolveConfigFileConflict, Misleads, Consents
<1>5. ASSUME NEW l \in Contended, OthersLock(l) \/ OthersUnlock(l) PROVE Rest'
  BY <1>5 DEF OthersLock, OthersUnlock
<1>6. CASE SetFrontendCaps
  BY <1>6 DEF SetFrontendCaps
<1> QED
  BY <1>1, <1>2, <1>3, <1>4, <1>5, <1>6 DEF Replies, Others

\* Every step keeps it.
LEMMA NextInv == IInv /\ [Next]_vars => IInv'
<1> SUFFICES ASSUME IInv, [Next]_vars PROVE IInv'
  OBVIOUS
<1>1. CASE WorkerSteps
  BY <1>1, WorkerTypes, WorkerInv DEF IInv, Rest
<1>2. CASE Cancel \/ Replies \/ SetFrontendCaps \/ Others
  BY <1>2, EnvironmentTypes, EnvironmentInv DEF IInv, Rest
<1>3. CASE UNCHANGED vars
  <2>1. TypeOK'
    BY <1>3 DEF IInv, TypeOK
  <2>2. LocksTaken' /\ CancelClosed'
    BY <1>3 DEF IInv, Rest, LocksTaken, CancelClosed, Excused, IsCommit
  <2>3. TouchedUncancelled' /\ ApprovalKept' /\ ConsentKept'
    BY <1>3 DEF IInv, Rest, TouchedUncancelled, ApprovalKept, ConsentKept,
                Undecided, IsCommit
  <2> QED BY <2>1, <2>2, <2>3 DEF IInv, Rest
<1> QED BY <1>1, <1>2, <1>3 DEF Next

\* So it always holds.
LEMMA Invariance == Spec => []IInv
<1>1. Init => IInv
  BY InitInv
<1>2. IInv /\ [Next]_vars => IInv'
  BY NextInv
<1> QED BY <1>1, <1>2, PTL DEF Spec

-----------------------------------------------------------------------------
(* The theorems *)

\* A job's variables keep their types, and it never holds a lock at the same
\* time as another package manager (AptLock::acquire).
THEOREM TypeCorrect == Spec => []TypeOK
<1>1. IInv => TypeOK
  BY DEF IInv
<1> QED BY <1>1, Invariance, PTL

\* A commit only works on the package system under all the locks: whatever
\* ended waitForLocks early keeps the job from getting there.
THEOREM CommitsAlwaysLocked == Spec => []CommitsLocked
<1>1. IInv => CommitsLocked
  BY DEF IInv, Rest, CommitsLocked, Installing, LocksTaken, CancelClosed, Working,
         Excused, IsCommit
<1> QED BY <1>1, Invariance, PTL

\* A commit reported as cancelled has installed nothing.
THEOREM CancelledNeverCommits == Spec => []CancelledCommitsNothing
<1>1. IInv => CancelledCommitsNothing
  BY DEF IInv, Rest, CancelledCommitsNothing, TouchedUncancelled
<1> QED BY <1>1, Invariance, PTL

\* Nothing untrusted is installed unless the last reply about it, before the decision,
\* was an approval, whatever the client's capabilities are or become
\* (replyUntrustedPrompt looks at none).
THEOREM UntrustedAlwaysApproved == Spec => []UntrustedNeedsApproval
<1>1. IInv => UntrustedNeedsApproval
  BY DEF IInv, Rest, UntrustedNeedsApproval, Installing, ApprovalKept
<1> QED BY <1>1, Invariance, PTL

\* Of a file that clients were asked about, dpkg is told to replace it only with the
\* user's consent to that file (resolveConfigFileConflict's check of the path).
THEOREM ReplacesOnlyWithConsent == Spec => ReplacesWithConsent
<1>1. IInv /\ [Next]_vars =>
        [pc = "confPrompt" /\ confPath = conflict /\ pc' = "installing" /\ replaceConf
           => conflict \in consent \/ misled]_vars
  <2> SUFFICES ASSUME IInv, Next, pc = "confPrompt", confPath = conflict, pc' = "installing",
                      replaceConf, ~paused
               PROVE  conflict \in consent \/ misled
    <3>1. ASSUME Next, pc = "confPrompt", pc' = "installing" PROVE ~paused
      <4>1. CASE WorkerSteps
        BY <3>1, <4>1
           DEF WorkerSteps,
               RunTransaction, TakeLock, LockBusy, RetryLock,
               LockWaitEnds, OpenCache, PrepareLists, MarkChanges,
               CollectArchives, PrepareTrusted, PrepareUntrusted,
               UntrustedPromptEnds, DecideUntrusted, FetchStart,
               MediaChange, MediumPromptEnds, FetchResult, Pulse,
               FetchEnds, FetchStop, ListsFetched,
               ArchivesFetched, CommitFetched, StartInstall,
               InstallNotStarted, ConfFileConflict, AnswerDpkg,
               InstallEnds, ReopenCache, InstallFile,
               DpkgFinished, ReleaseLocks, SetExitStatus
      <4>2. CASE Cancel \/ Replies \/ SetFrontendCaps \/ Others
        BY <3>1, <4>2
           DEF Cancel, Replies, SetFrontendCaps, Others, ProvideMedium, ReplyUntrustedPrompt,
               ResolveConfigFileConflict, OthersLock, OthersUnlock
      <4> QED BY <3>1, <4>1, <4>2 DEF Next
    <3> QED BY <3>1
  <2> QED BY DEF IInv, Rest, ConsentKept
<1> QED BY <1>1, Invariance, PTL DEF Spec, ReplacesWithConsent

-----------------------------------------------------------------------------
(* What a commit has done when it reports success.  Both the clean-up and the *)
(* report rely on what came before: an installation that went through, an    *)
(* error, or a cancellation.                                                 *)

\* From the end of the installation on, success is not for nothing.
OutcomeKept ==
  /\ IsCommit /\ pc \in {"reopen", "cleanup", "report"}
       => cancelled \/ error # "Success" \/ system = "changed" \/ silent
  /\ exit # "Unfinished" => pc = "finished"
  /\ SuccessMeansInstalled

LEMMA OutcomeInit == Init => OutcomeKept
BY DEF Init, OutcomeKept, SuccessMeansInstalled

LEMMA OutcomeNext ==
  ASSUME IInv, OutcomeKept, [Next]_vars
  PROVE  OutcomeKept'
<1> USE DEF OutcomeKept, SuccessMeansInstalled, IsCommit, Goto, Fail
<1>1. CASE UNCHANGED vars
  BY <1>1
<1>2. CASE Cancel
  BY <1>2 DEF Cancel
<1>3. CASE Replies \/ SetFrontendCaps \/ Others
  BY <1>3 DEF Replies, SetFrontendCaps, Others, ProvideMedium, ReplyUntrustedPrompt, ResolveConfigFileConflict,
              OthersLock, OthersUnlock
<1>4. CASE RunTransaction \/ TakeLock \/ LockBusy \/ RetryLock \/ LockWaitEnds
  BY <1>4 DEF RunTransaction, TakeLock, LockBusy, RetryLock, LockWaitEnds
<1>5. CASE OpenCache
  <2>1. IsCommit /\ pc' \in {"reopen", "cleanup", "report"} => error' # "Success"
    BY <1>5 DEF OpenCache, FirstPlace
  <2> QED BY <1>5, <2>1 DEF OpenCache, FirstPlace
<1>6. CASE PrepareLists \/ MarkChanges \/ CollectArchives \/ PrepareTrusted \/ PrepareUntrusted
  BY <1>6 DEF IInv, Rest, CancelClosed, PrepareLists, MarkChanges, CollectArchives, PrepareTrusted,
              PrepareUntrusted
<1>7. CASE UntrustedPromptEnds \/ DecideUntrusted \/ FetchStart \/ MediaChange \/ MediumPromptEnds
           \/ FetchResult \/ FetchStop
  BY <1>7 DEF UntrustedPromptEnds, DecideUntrusted, FetchStart, MediaChange, MediumPromptEnds,
              FetchResult, FetchEnds, Pulse, FetchStop
<1>8. CASE ListsFetched \/ ArchivesFetched \/ CommitFetched
  BY <1>8 DEF ListsFetched, ArchivesFetched, CommitFetched, FetchFailed
<1>9. CASE StartInstall \/ AnswerDpkg \/ (\E file \in ConfFiles : ConfFileConflict(file))
  BY <1>9 DEF StartInstall, AnswerDpkg, ConfFileConflict
<1>10. CASE InstallNotStarted \/ InstallEnds
  BY <1>10 DEF InstallNotStarted, InstallEnds
<1>11. CASE ReopenCache
  BY <1>11 DEF ReopenCache
<1>12. CASE InstallFile \/ DpkgFinished
  <2>1. ~IsCommit
    BY <1>12 DEF InstallFile, DpkgFinished, IInv, Rest, CancelClosed
  <2> QED BY <1>12, <2>1 DEF InstallFile, DpkgFinished, AfterDeb
<1>13. CASE ReleaseLocks
  BY <1>13 DEF ReleaseLocks
<1>14. CASE SetExitStatus
  BY <1>14 DEF SetExitStatus
<1> QED BY <1>1, <1>2, <1>3, <1>4, <1>5, <1>6, <1>7, <1>8, <1>9, <1>10, <1>11, <1>12, <1>13, <1>14
        DEF Next, WorkerSteps

\* A commit that reports success has completed its installation, or dpkg's process did
\* not start or was killed, of which the code takes no notice; nothing else is passed
\* over between the marks and the report.
THEOREM SuccessIsInstalled == Spec => []SuccessMeansInstalled
<1>1. Init => OutcomeKept
  BY OutcomeInit
<1>2. IInv /\ OutcomeKept /\ [Next]_vars => OutcomeKept'
  BY OutcomeNext
<1>3. OutcomeKept => SuccessMeansInstalled
  BY DEF OutcomeKept
<1> QED BY <1>1, <1>2, <1>3, Invariance, PTL DEF Spec
=============================================================================
