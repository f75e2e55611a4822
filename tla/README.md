# A TLA+ verification project for libqapt

libqapt is a Qt wrapper around libapt-pkg. Applications link the library and
ask it about packages; whatever changes the system is done by a separate root
daemon, the *QApt worker*, to which the library talks over D-Bus. Three programs
for users, in `src/utils/`, are built on the library. This directory
holds TLA+ models of that system, the TLC configurations that check them on
small instances, and theorems about them that TLAPS proves for all instances.
Paths below are relative to the repository; those that begin with `src/worker`
or name a file only are below `src/src/`.

## 1. Inventory

| Component | State it keeps | Operations | Talks to |
|---|---|---|---|
| `WorkerDaemon` (`workerdaemon.cpp`) | the worker thread, idle timer | five D-Bus calls that create transactions, `checkIdle`, `quit`, two file operations | creates Transactions, stops AptWorker |
| `TransactionQueue` (`transactionqueue.cpp`) | `m_pending`, `m_queue`, `m_activeTransaction` | `addPending`, `removePending`, `enqueue`, `remove`, `onTransactionFinished`, `runNextTransaction` | posts `runTransaction` to AptWorker, reads its `currentTransaction()`, receives `finished()` |
| worker `Transaction` (`worker/transaction.cpp`) | role, status, error, exit status, cancel/pause flags, prompt data, idle timer; one mutex | `run` (with authorization), `setProperty`, `cancel`, `provideMedium`, `replyUntrustedPrompt`, `resolveConfigFileConflict`, setters for the job | D-Bus clients (main thread), AptWorker (worker thread), polkit |
| `AptWorker` + `AptLock` (`aptworker.cpp`, `aptlock.cpp`) | `m_trans`, `m_ready`, time stamp, locks, apt cache, `m_dpkgProcess` | `init`, `runTransaction` (one path for each role), `cleanupCurrentTransaction`, `quit`; `CacheOpenProgress` | libapt, dpkg, lock files shared with other package managers |
| `WorkerAcquire` (`workeracquire.cpp`) | progress of a fetch | `Start`, `MediaChange`, `Pulse`, `Stop`, item reports | called by libapt's fetcher inside a job |
| `WorkerInstallProgress` (`workerinstallprogress.cpp`) | dpkg child, pipes, a static buffer | `start`, `updateInterface` | forked dpkg, Transaction |
| `QApt::Transaction` (`transaction.cpp`) | client's mirror of a transaction | setters, `run`, `cancel`, replies, `sync`, `updateProperty`, `onCallFinished`, `serviceOwnerChanged` | D-Bus |
| `Backend` (`backend.cpp`) | apt cache, package list, undo and redo stacks, pins, event compression | marking, `undo`, `redo`, `reloadCache`, `commitChanges`, `stateChanges`, selections, pinning, search index | Package, Config, D-Bus |
| `Package` (`package.cpp`) | state flags, remembered answers | marking of one package, `setVersion`, some hundred queries | Backend's dep cache |
| `SourcesList`, `SourceEntry` (`sourceslist.cpp`, `sourceentry.cpp`) | entries for each file | parse, print, add, remove, `save`, `reload` | files, worker's `writeFileToDisk` |
| `Config` (`config.cpp`) | a copy of the text of apt.conf | read and write entries | libapt's configuration, worker's `writeFileToDisk` |
| `DependencyInfo` (`dependencyinfo.cpp`) | a relation | `parseDepends` | |
| `qapt-batch` (`utils/qapt-batch`) | one transaction, progress window | commit, install or update; answers prompts by message boxes | QApt::Transaction |
| `qapt-deb-installer` (`utils/qapt-deb-installer`) | a `.deb` file, its verdict, one or two transactions | `checkDeb`, `installDebFile`, the slots of two transactions | Backend, QApt::Transaction |
| `qapt-gst-helper` (`utils/qapt-gst-helper`) | requests, search thread, packages found, two transactions | parse, search, offer, commit; exit codes GStreamer reads | Backend, QApt::Transaction |
| `History`, `Changelog`, `DebFile`, `DownloadProgress`, `MarkingErrorInfo`, `Cache` | values | parsing, queries | files |
| runner, thumbnailer, example, autotests, packaging | | | |

What is hard here:

* **Two threads, three mutexes.** The main thread serves D-Bus and the queue;
  the worker thread runs one job at a time inside a blocking slot. They meet in
  posted calls (`runTransaction`), queued signals (`finished`), and mutex-guarded
  members that each side reads at arbitrary moments (`currentTransaction()`,
  `m_isPaused`, `m_isCancelled`, ...). No lock spans two accesses.
* **A blocked main thread.** polkit authorization is synchronous: while the
  user looks at a password dialog, the worker goes on and its signals wait, and
  calls of other clients time out.
* **A mirror over a bus.** The client's object copies all members once and
  subscribes afterwards; three sources write the same members: announcements,
  errors of its own calls, the end of the worker.
* **Nested event loops.** A message box inside a slot handles further signals
  before that slot goes on, `finished()` among them.
* **Object lifetimes** by timers (30 seconds for an unused transaction, five
  seconds after the end of a used one), and by `deleteLater` and `delete` in the
  programs.
* **Prompts** make the worker wait on a flag which cancellation, three kinds of
  replies and the worker itself all write.
* **Marks in two caches.** What the user sees is in the application's cache; what
  is done is what the worker marks, in another order, from a list of flags.
* **Files written as a whole** from copies in memory, with an authorization for
  each that may be refused, while others write them, too.
* **Failures**: locks held by others, a cache that does not open, missing
  archives, a refused authorization, a dpkg that does not start or is killed.

What makes each part correct, in a sentence: the queue runs each transaction
once, in order, and forgets none; the daemon leaves only when there is nothing
to do, and then does; a job changes the system only under its locks, only with
the user's consent, and reports what it has done, on a scale that does not go
back; the client's mirror converges to the worker's transaction and tells of its
end once and truthfully; the programs answer every prompt, touch no object that
is gone and leave with a code that is true; undo and redo are inverse; what was
shown before a commit is what it brings; what is saved to a configuration file is
what was set, and what was there otherwise stays. Where the code does not keep such a
promise, section 4 says so under *Other disagreements*, and under which conditions a
property holds its comment says.

## 2. Plan

Done, in this order; section 3 says what each part holds.

1. `TransactionQueue` against the abstract `SerialExecutor`; safety proofs.
2. `AptWorker`, the inside of a job; safety proofs.
3. The marks: `Package`'s setters, `Backend`'s marking slots, cache states,
   undo/redo and the commit list, against a timeline; proofs.
4. `QApt::Transaction`, the client's mirror, against the stream of signals that
   frontends rely on; proofs of its safety. The programs themselves.
5. What a job reports (`JobProgress`); proofs.
6. `SourcesList`/`SourceEntry`, `Config`, pins; proofs for the pins.
7. Ways to marks (selections, `.deb` files, plugins) and versions, through to the
   outcome of the commit; proofs for versions.
8. The queue without races in its handover: proofs that it is the serial executor,
   has nothing under way when it quits and uses nothing deleted.
9. Proofs about the programs; that a reported success is one; that the client catches
   up; undo and redo against the timeline, through the fold of `restoreCacheState`; the
   worker's marks, through the fold of `markChanges`; sources lists and apt.conf.
10. Proofs about the ways to marks: plugins, the verdict on a `.deb`, its details and
   what it is offered for, selections.

Left: event compression in `Backend` (a counter around signals), and `History`'s
reading of a file that grows.

## 3. Modules

| Module | Models | Role |
|---|---|---|
| `SerialExecutor` | what the daemon promises its clients | abstract specification |
| `TransactionQueue` | `TransactionQueue`, life of a worker `Transaction`, dispatch in `AptWorker`, `WorkerDaemon`'s exit | component composition: both threads |
| `MCTransactionQueue` | | instance of three transactions |
| `AptWorker` | one job, with `AptLock`, `WorkerAcquire`, `WorkerInstallProgress` and the client's calls on the `Transaction` | component composition |
| `MCAptWorker` | the frontends' declarations in `utils/` | instances |
| `AptWorkerProofs` | | theorems |
| `JobProgress` | progress and error details of jobs: `CacheOpenProgress`, `WorkerAcquire`, `WorkerInstallProgress`, the shares of `AptWorker` | component |
| `DaemonProofs` | | theorems about `TransactionQueue` and `JobProgress` |
| `SignalStream` | what a frontend may rely on | abstract specification |
| `ClientTransaction` | `QApt::Transaction`, the D-Bus side of the worker's `Transaction`, the bus | composition of both ends |
| `MCClientTransaction` | | creator and two observers |
| `ClientTransactionProofs` | | theorems |
| `Frontends` | `QAptBatch`, `PluginHelper`, `DebInstaller` with `DebCommitWidget` | three programs over `SignalStream` |
| `FrontendsProofs` | | theorems |
| `PackageMarks` | `Package`'s setters, `Backend`'s marking slots, `restoreCacheState`, `commitChanges`' list, `AptWorker::markChanges` | component; libapt's dependency cache is external |
| `MCPackageMarks` | | instance of four packages |
| `Timeline` | what undo and redo promise | abstract specification |
| `UndoHistory` | `Backend`'s undo and redo stacks, over `PackageMarks` | composition |
| `MCUndoHistory` | | instance of three packages |
| `FoldFacts` | | what a fold does, step by step, for the modules of proofs that need it |
| `UndoHistoryProofs` | | theorems about `PackageMarks` and `UndoHistory` |
| `CommitOutcome` | what becomes of committed marks | operators over `PackageMarks` |
| `Selections` | `saveSelections`, `saveInstalledPackagesList`, `loadSelections` | component over `PackageMarks` |
| `DebCheck` | `DebInstaller::checkDeb`, `DependencyInfo`, `Backend::stateChanges` | component over `CommitOutcome` |
| `PluginSearch` | `PluginInfo`, `PluginFinder`, `GstMatcher`, `PluginHelper`'s offer | component over `CommitOutcome` |
| `CandidateVersions` | `setVersion`, remembered answers, versions of a commit | component, one package |
| `Choices` | | the four before in one specification |
| `MCChoices` | | instance |
| `ChoicesProofs` | | theorems about the four |
| `SourceEntry` | parsing and printing of a line | operators |
| `SourcesList` | `SourcesList` and the files | component |
| `AptConf` | `Config` and apt.conf | component |
| `PinFiles` | `setPackagePinned`, `loadPackagePins` | component |
| `Settings` | | the three before in one specification |
| `MCSettings` | | instance |
| `SettingsProofs` | | theorems about the three |

The modules share boundaries. For `TransactionQueue` a job starts
(`RunTransaction`) and ends (`SetExitStatus`); `AptWorker` shows that the one
follows from the other (`JobEnds`) and what happens in between; `ClientTransaction`
has of a job what it announces; `Frontends` takes the order of a transaction's
signals from `SignalStream`, which `ClientTransaction` is shown to implement.

### TransactionQueue

Variables carry the names of the members they stand for: `pending`, `queue`,
`active`, `mTrans`, `status`, `idleTimer`. Beside those, `calls` is the worker
thread's event queue (posted `runTransaction` calls), `finished` the main
thread's (queued `finished()` signals), `asking` the transaction whose
authorization blocks the main thread, `daemon` the life of the process, `aged`
whether the time stamp is older than `IDLE_TIMEOUT`. `runs` and `rested` are
history. An action is what one thread does between two points where the other
can interfere: a slot or D-Bus handler of the main thread (`RunAuthorize` and
`AuthorizationGranted` are the two halves of `run()` around polkit), and for the
worker the entry of `runTransaction`, the emission of `finished()`,
`m_trans = nullptr`, and the time stamp, each by itself.

Deleting an object in use, or handling a signal of a deleted sender, makes
`daemon = "crashed"`.

**Races.** The program, unrestricted, violates several of the promises. Rather
than hiding this, the model names the timings that matter in the constant
`Races` (the list is at the top of the module). With all of them allowed the
environment is free; leaving one out assumes it away. Every run says which it
allows, so a passing run says exactly which timings its properties survive;
`queue_dialog` and `queue_stranded` allow a single race each and show the damage.
The race `exit` (requests between `checkIdle`'s decision and the end of the worker's
thread) is allowed in `queue_free` only: with it alone, a request is queued and never
started, and `ImplementsExecutor` fails. `setStatus` is a client that writes the status
property of its transaction, which the daemon lets it do like any other; a client that
does is told what it wrote (`Assigned` are the values), so that the properties about
statuses are checked without it, and all others with it.

One timing is assumed away always: that the five seconds between a job's last
signal and the deletion of its object are enough for the worker to go from
`setExitStatus` to the end of the cleanup (guard of `Delete`).

### AptWorker

`pc` is the place in `runTransaction` and what it calls; the other variables
are the members of `Transaction` and `AptLock`. Every role is in one module
because they share locks, fetch, prompts and cleanup. `Cancel`, `ProvideMedium`,
`ReplyUntrustedPrompt` and `ResolveConfigFileConflict` are the client's calls,
possible at any moment, early or late; none of them looks at the frontend's
capabilities, which `SetFrontendCaps` may change at any time. `OthersLock` and `OthersUnlock` are other
package managers. libapt's decisions (does the cache open, which archives arrive,
can missing ones be done without, does dpkg succeed) are nondeterministic.
`asked`, `consent`, `approved`, `misled`, `silent` are history. `misled` records that a
reply ended a wait it was not meant for, which the shared flag `m_isPaused`
permits and which no property here can exclude. `approved` is the last reply about
untrusted packages before the decision. `silent` records that `pipe` or `forkpty` failed,
or that a signal killed the child: in both cases the code takes the installation for
complete, which `SuccessMeansInstalled` names as the only exception.

What dpkg is answered about a configuration file is read from `m_replaceConfFile` whether
or not the frontend was asked, so that an earlier answer, or one that came before any
question, replaces a file nobody was asked about. `ReplacesWithConsent` is about files
that clients were asked about.

Two faults are constants: `DebFits` (a `.deb` of another architecture) and
`DpkgStarts` (whether `QProcess::start` finds its program).

Left out here: what a job reports (`JobProgress`), the client's side and the
foreign-user checks (`ClientTransaction`), `m_status` inside a job (a job sets it
and never reads it).

An observation the model depends on: `AptWorker::init` builds the third lock's
path with `QDir::absolutePath()`, which has no trailing slash, and `AptLock`
appends `lock`. The file is `/var/lib/dpkglock`, not dpkg's
`/var/lib/dpkg/lock`, so no other package manager contends for it. Hence
`Contended` is not all locks. `CommitsLocked` speaks of the daemon's three
lock files; it does not say that dpkg's own lock is held.

### JobProgress

`phase` is the part of a job that reports: opening the cache, fetching,
installing, opening again; `Begin` and `End` are the shares that `runTransaction`
gives to `openCache`, `WorkerAcquire` and `WorkerInstallProgress`, and `Share`
is `qRound` of a percentage within a share. `percent` is what libapt or dpkg comes
up with, `steps` and `last` are `CacheOpenProgress`' counting of its four parts.
`item` is the state of each thing fetched, `shown` what was last sent of it. `pipe`
holds the lines that the child wrote and `updateInterface` has not read; `garbled`
is its function-static buffer after a line that it gave up. `peak`, `failed`,
`lost` are history; `lost` records that a line with an error was closed unread or
spoilt. libapt's percentages do not fall within one step of opening or within one
installation (an assumption on libapt, in `OpenUpdate` and `ChildWrites`); those of a
fetch may, when more items come.

### ClientTransaction

`work` is the members of the worker's transaction, `mirror` the client's; `outbox`
and `inbox` are the two directions of one bus connection, in order. `phase` says
how far the client's object is: `SyncBegins` and `SyncEnds` are `sync()`, the answer to
`GetAll`, for which the daemon reads its members while the worker thread writes them
(two halves) and which gets no answer in time while a dialog of polkit blocks the daemon;
`Connect` is the subscription; a signal sent before it is not delivered and
goes to `missed` (history). `Deliver` is one turn of the client's event loop:
`updateProperty`, `onCallFinished`, `serviceOwnerChanged` or a prompt.
`HandleCall`, `Authorized`, `Unauthorized` are the daemon's D-Bus handlers with
the check of the caller's user; an authorization blocks them (`asking`), and a
call may time out then, its answer dropped later. `DaemonEnds` is a daemon that
leaves or dies at any moment, `CallFails` the calls that it has not answered.
`OtherRuns` and `OtherAnswers` are what other clients of the transaction
do. `heard` is the sequence of signals the object emitted.

The thirteen properties are names; those a job only reports are one of them. The library
never writes status or role by `setProperty`, so no client here does (`TransactionQueue`
has one that does).

`SignalStream` says what `heard` may be: for a creator's object one end at most,
told before the status that follows it, the four signals of a disappearance
together and only before an end, nothing but leftovers afterwards.

### Frontends

`tool` says which program; one behaviour is its life. `objects` are its
transactions: how far each is (`stage`), its role and result, whether it waits for
a prompt (`paused`), whether it was refused (`denied`), whether the C++ object
exists. `now` is the emission in progress and `stack` the slots below a message box,
each with what it still has to do (`Continuations`): a slot that opens a box pushes its
rest, `CloseBox` returns to the innermost. `Dispatch` hands the next signal to the
program's slot. The operators of the slots are named after them, with the program in
front where two have the same name. `fault` is a use of a missing object, `"null"`
for a null pointer, `"dangling"` for a deleted sender; `overtaken` is history. A
program that used one has `ended`.

Progress texts, the window's layout, icons and notifications are left out.

### PackageMarks

`dep` is libapt's mark of each package (mode, reinstall, purge, automatic);
`held` is the one flag that lives in `d->state` and changes,
`IsManuallyHeld`. The setters of `Package` and the marking slots of `Backend`
are actions; `Restored` is `restoreCacheState`, a fold over the packages in the
cache's order; `CommitList` is what `commitChanges` sends, and `WorkerMarks`
what `markChanges` makes of it, a fold over the list in the order of its keys.

libapt is external and kept small: packages require packages, installing pulls in
what is lacking, keeping keeps back a minimal set (any one). The problem resolver that
`setInstall` and `setRemove` call (`Settled`) removes any of what is broken, with what
needs it, and gets the rest what it lacks, but leaves the package of the call alone; that
removing takes the dependers along is its work. No conflicts or residual configurations;
versions are in `CandidateVersions` and `DebCheck`. `markPackages` loops over a list; here
a call has one package, and a list is several calls. `Used` says which calls the
application makes.

`CommitDoesWhatIsShown` has three provisos, each with the code behind it. A package that
is held and marked falls through the switch of `commitChanges` (`marks_held`, below). A
new automatic package that nothing needs any more is not in the list, and the worker's
libapt has no reason to install it (`LeftOver`). And what is wanted must not be broken.
The proof found this one: `markPackagesForAutoRemove` removes what only a left-over
package needs, and that is broken from then on; the resolver of the next `setInstall` or
`setRemove` settles it, but `markPackages(ToUpgrade)` and the slots for all packages
call no resolver, so that something wanted may come to need the broken package. Then
the worker, whose cache is not broken, brings in what the application has marked for
removal.

### UndoHistory

`undoStack`, `redoStack`, `maxStackSize` are the members of `BackendPrivate`;
the state that is saved is `CacheState(dep, held)`, so that restoring is the
real one, side effects included. `limit`, `garbled` and `before` are history.
`redo()` adds to the wrong end of the undo stack: from the first redo with a
non-empty undo stack on (`garbled`) the stacks are no timeline. The refinement
states this as `Timeline!Lose`.

A second end of the timeline was found by its proof. `restoreCacheState` goes through
the packages one after the other and lets `MarkInstall` pull in what is lacking. A state
in which a package stays whose requirement is to be removed cannot always be restored:
the loop removes the requirement, comes to the package that needs it, and brings the
requirement back. `Coherent` says that a state has all that it needs, and only such
states come back exactly. A state that is not is saved all the same; the timeline ends
there (`garbled`, `Lose`, `Restorable`), and `MovesForgetNothing` speaks of moves to
coherent states only, in whatever order the stacks are.

### Choices: Selections, DebCheck, PluginSearch, CandidateVersions

The first three come to marks of `PackageMarks` by other ways than package by
package, and `CommitOutcome` says what a commit makes of marks: the list, the
worker's marks, all or nothing; and what `setInstall` does among packages that cannot be
installed, which its resolver gives up unless the protected package needs them. `Choices` puts the four into one
specification; a behaviour is about one `kind`.

* `Selections`: `file` is a word for each of some names, by this program or
  another. This program writes `Package::name()` (`Bare`), without the architecture, under
  which a native package is found again and a foreign one is not. `LoadSelections` goes through them (`LoadEntry`) in the order of a hash table,
  which is any of `HashOrders`, stops half-way at a name that is no package, and otherwise
  lets the problem resolver settle the rest with the names of the file protected. `saved`
  is what a file of this program should mean. It is empty if something was broken as the
  file was written: next to the removal of a package that it needs, an installation
  takes the removal back if its line comes later.
* `DebCheck`: a `.deb` file is its architecture, its version and two fields of
  relations; `ParseDepends` is `DependencyInfo::parseDepends` with its or-groups,
  `Lookup` is `maybeAppendArchSuffix` and `Backend::package`, `CheckConflicts`,
  `CheckBreaksSystem` and `SatisfyDepends` are the functions of `checkDeb` in their
  order, `Details` what `DebViewer` is given of `stateChanges`, which leaves out the package
  that `Backend` finds under the name of the `.deb`: its own, or, if the `.deb` is of a
  foreign architecture, its native namesake (`Namesake`). `system` is what the
  commit of the additional packages comes to. `installDebFile`'s two transactions are
  in `Frontends`.
* `PluginSearch`: `requests` are what the program is started with;
  `PluginInfo` splits them and may find them invalid, `PluginFinder` looks for each
  in the order of the package list, `GstMatcher` compares architecture, version and
  field. `foundCodecs` and `partialFound` are the helper's members, `after` is what the
  commit comes to.
* `CandidateVersions`: one package of several versions. `installed`, `lists`,
  `idFile` belong to the system and change behind the application's back;
  `current`, `cand`, `mode` are its cache; `override`, `static`, `phase`,
  `machineId` are what `Package` and a function-static variable remember. `Leads` is what the
  worker's cache makes of an entry of the list: the version of a downgrade, where it is not
  found because the lists have changed, leaves an undefined candidate. `chosen` is history.

### Settings: SourcesList, AptConf, PinFiles

All three keep a text in memory and have the worker write it, whole, with
`writeFileToDisk`, which polkit may refuse and which may leave a truncated file. `Settings` puts them into one
specification; a behaviour is about one `topic`.

* `SourceEntry` has lines as records of what `parseData` tells apart and `toString`
  prints; `SourcesList` has the members `sourceFiles` and `list` and the `disk`. `save`
  is one step for each file (`saving`), between which others write or the next one is
  refused. `loaded`, `removed`, `synced` are history.
* `AptConf`: `buffer` and `newFile` belong to each `Config` object, of which a `Backend`
  has one and an application may have more, `conf` is libapt's configuration, which
  they share. A line is a sequence of statements, because `writeBufferEntry` looks at
  the first one only, replaces a line and adds at the end, even of a line that has no end;
  an indented line, or one that begins with a comment, has a first statement of its own.
  The file that the objects read (`Begins`) is any sequence of such lines. `writeEntry`
  does not wait: `sent` are the calls on their way, `WorkerWrites` the worker's part.
  `lastBy` and `fresh` are history.
* `PinFiles`: `pins` has the stanzas of each file, `isPinned` the flag that is read at
  a reload only. Files, also those of packages' names, may have any stanzas at first.
  Names are without the architecture (`PinName`), so that foreign packages share the file
  and the stanza of their native namesakes. `wanted`, `given` and `mixed` are history.

## 4. Runs

| Run | Properties | Shows |
|---|---|---|
| `queue_free` | QueueConsistent, StartsInOrder | all races allowed: the bookkeeping survives everything |
| `queue_executor` | NoUseAfterDelete, QuitsWithNothingUnderway, ImplementsExecutor | races `rerun`, `late`, `denied`, `timestamp`, `setStatus`: refinement of `SerialExecutor` with its liveness |
| `queue_quiet` | WaitingIsQueued, CompletionIsFinal, QuitsOnlyWhenRested, EventuallyExits | no races: what clients see, and the daemon's exit |
| `queue_dialog` | *CompletionIsFinal* | violated with the one race `unhandled`: a finished transaction is run again |
| `job` | CommitsLocked, CancelledCommitsNothing, UntrustedNeedsApproval, SuccessMeansInstalled, ReplacesWithConsent, JobEnds | all roles, client and other package manager interfering |
| `progress` | NeverGoesBack, FailuresAreTold | two jobs, with a child that dies before it is read |
| `client` | HonestEnd, CatchesUp, ImplementsStream, EndIsReported | the mirror against late subscription, time-outs, refusals and the worker's death |
| `frontends` | FaultsExplained, DeletesTheFinished, ExitCodeHonest, PromptsAreAnswered | the programs, with message boxes on top of each other |
| `marks` | CommitDoesWhatIsShown | any marking calls, in any order: the worker's marks are those the user saw |
| `undo` | StacksBounded, ImplementsTimeline, MovesForgetNothing | refinement of `Timeline`, with the real restoring |
| `choices` | OfferedIsMet, VerdictIsRight, DetailsAreComplete, RememberedIsTrue, PluginsAreProvided, SelectionsAreKept | marks from files, requests and versions, through to the outcome of the commit |
| `settings` | SavedIsReloaded, OnlyRemovedIsLost, NextProgramAgrees, PinsAsWanted | files written whole, with refusals and other writers |

Each module also has a type invariant (`TypeOK`, or the component's name in front of it).
Those of the queue, the job, the marks, undo, what a job reports and the versions are
theorems, those of the programs, the client and the settings parts of the invariants of
section 5; any of them is checked by adding them to the INVARIANTS of a configuration
(`SettingsTypeOK` is that of all three files).

**Bounds.** In the queue runs, three transactions: one running, one that is being
dispatched and one behind it, which is what an overtaking, a duplicate dispatch
and a stranding need; `NoAuth` contains at least one, so that both kinds of
`run()` occur. Nothing else is bounded there: `rerun` and duplicate dispatches
stay finite because a queue without repetitions and objects that die bound them.
`QuitsWithNothingUnderway` is more than the emptiness of the queue that `checkIdle` asks
for: with a duplicate dispatch (races `unhandled`, `handled`) a call for a finished
transaction is still posted when the queue is empty, and the property fails.
A client that writes a status writes one (`Assigned`), since no step depends on statuses.

In `job`: two locks, of which the first is contended by one foreign session (a holder
before, and one that comes while the job waits; each lock is taken by the same loop); two
configuration files, so that an answer can be late and for the other file; a
frontend that declares nothing, everything, or first the one and then the other; every role but
`UpgradeSystem`, which differs from `CommitChanges` by who makes the marks. The other two
configurations of jobs have three locks, and declarations of one capability
(`ExactFrontends`: `ExactAssumption` says that on these the bit test agrees with
what was declared; `ShippedFrontends` drops this).

In `progress`, two items (one done while the other is not), percentages 0, 30 and
100 (an end, an inner value that is rounded, the other end; 30 of a share of 5 or 40
falls between two integers or on one), two lines (one lost behind the other), and two
jobs, because the static buffer outlives a job.

In `client`, the creator with two calls (a setter before or after `run()`, or a
cancellation), an observer of the same user and one of another with one
call; one setting, since the setters differ in the member only, and one announcement of
the job between its start and its end. A prompt's answers are not bounded.

In `frontends`, two plugins (one found, one not), three transaction objects (both of the
helper's or the installer's, and one more after a missing reply) and two prompts for
each (one on top of the other); a progress dialog that resets itself and one that does
not.

In `marks`, four packages: a new application that needs a new plugin that needs an
installed, automatic and upgradeable base, which an installed tool needs too: every call,
mark, pulling in, going along and garbage occur, a left-over plugin that is broken, and
chains of requirements of which the worker is told the first package only. In `undo`, a new application that
needs an installed tool that needs an installed library, in an order of the cache that
has the library first and the application last, so that states without what they need
occur, and are restored differently; stacks of up to two states, enough for a redo with
something left to undo, and of none (a size of 0 after a size of 2).

In `choices`, five packages: installed and upgradeable, installed, new with a
requirement, new and impossible to install, foreign. The `.deb` files have up to two relations
(three, when the middle one cannot be read), each possibly an alternative to the next,
with every name and two sets of versions; fields of one group and of two occur. Three
orders of the hash; two requests out of all types; three versions with one that cannot be
installed, enough for an upgrade, a downgrade and a candidate between. The foreign package
has the name of an installed one.

In `settings`, two files and three contents (two entries equal for `operator==` but
not in text; invalid lines; nothing), a list of files that names one twice, three calls: a
removal after an addition, and another program's write before the save. Of apt.conf two
objects, three settings and three writes (a value that is refused, written along later by
the same object, or behind the write of the other one); the file does not exist, has no
last end, or has lines with several statements, comments and indented lines, tidy or not.
Of pins two native packages and a foreign namesake, two other files and four calls.

Deadlock is not checked (`CHECK_DEADLOCK FALSE`): the daemon, the job and the programs
really end, the library's client may do nothing, and where a counter bounds the calls a
behaviour ends with it.

**Fairness.** `TransactionQueue`: both event loops keep going (`Worker`,
`MainEvents`), polkit answers, time passes; strong fairness for the loops,
because Qt serves posted events in their order of arrival and a stream of
requests cannot keep one from being served. Clients owe nothing: they need not
create, run or reply. `AptWorker`: the worker thread runs (weak), a fetch ends
(strong: media prompts interrupt it, and the fetcher asks for a medium finitely
often), a foreign holder releases its lock. `FairSpec` adds that clients answer
the prompts of the kinds they declared, without which no job with a prompt ends;
`WorkerFairSpec`, used for `job_cancelprompt`, does not. `ClientTransaction`: the
client returns to its event loop (weak fairness of `Deliver`); neither the daemon, the
job nor other clients owe anything, for `EndIsReported` speaks of ends that have
happened. `Frontends`: a program goes on inside a slot (`Dispatch`, `ExecReturns`), and a
user closes the message box that is on top (`CloseBox`), because it is modal;
transactions need not end.

**Reading the violation.** `queue_dialog`: B's password dialog is open when A's
job ends; A's `finished()` waits; the user authorizes B; `enqueue` sees no current
transaction, and dispatches the head of the queue, which is still A. The finding in
`PROJECT.json` quotes the line of the repository that states the property.

**Other disagreements.** These configurations state what a line of the repository
says, and TLC finds it violated by what the code does. They are run by hand, as
`tlc -config <configuration>.cfg <module>`.

| Module, configuration | Property | The line | What happens |
|---|---|---|---|
| `MCTransactionQueue`, `queue_stranded` | QueuedIsProcessed | transaction.h:485 | race `handled`: A's `finished()` has been handled, the worker has not yet executed `m_trans = nullptr`; `run()` of B finds a current transaction and leaves it at queueing |
| `MCAptWorker`, `job_caps` | PromptsOnlyDeclared | workerinstallprogress.cpp:187 | `ConfigPromptCap` is 3, so `caps & ConfigPromptCap` holds for anyone who declared 1 or 2 |
| `MCAptWorker`, `job_cancelprompt` | CancelEndsPrompts | aptworker.cpp:507 | a prompt opened after a cancellation was accepted overwrites it |
| `MCPackageMarks`, `marks_held` | PendingIsCommitted | backend.h:621 | `setKeep` sets `IsManuallyHeld`, `markPackages(ToUpgrade)` does not clear it: the combination falls through `commitChanges`' switch |
| `MCUndoHistory`, `undo_redo` | UndoRevertsRedo | backend.h:555 | save, mark, save, mark, undo, redo, undo |
| `Frontends`, `frontends_deps` | DebAfterDependencies | DebInstaller.cpp:141 | the `.deb` is installed after whatever end of the first transaction |
| `MCSettings`, `conf_kept` | WritesAreKept | config.h:99 | a last line without an end is continued by the new setting |
| `MCSettings`, `pins_unpin` | UnpinUnpins | backend.h:788 | the remaining stanzas go to the package's own file, those of other files stay |
| `MCSettings`, `pins_unpin` with `PROPERTY OthersStayPinned` | OthersStayPinned | backend.h:788 | a file of a package's name is overwritten, whatever stanzas it has |

Others are a line away from a configuration of a run: the property takes the place of
those of `choices.cfg`, `settings.cfg`, `progress.cfg` or `client.cfg` (as an INVARIANT where nothing is said).

| Configuration | Property | The line | What happens |
|---|---|---|---|
| `choices` | UpgradesAreKept (PROPERTY) | backend.h:737, 753 | a saved upgrade is the word `install`, which does nothing to an installed package |
| `choices` | AdditionalAreInstalled | DebInstaller.cpp:251 | a package that cannot be installed is marked and counted, and the commit fails |
| `choices` | ConflictsAreFound | DebInstaller.cpp:341 | the test is inverted: a version that the relation names counts as no conflict |
| `choices` | ForeignAreKept (PROPERTY) | backend.h:753 | the line of a foreign package has the name without the architecture, under which the native one is found |
| `choices` | OfferedStaysMet | DebInstaller.cpp:241 | a later group upgrades what an earlier group wanted old |
| `choices` | OfferedCanBeMet | DebInstaller.cpp:241 | `wouldBreak` answers from before the marks |
| `choices` | VersionIsCommitted (PROPERTY) | package.h:576 | only a downgrade names its version in the list |
| `choices` | WouldBreakIsTrue | package.h:539 | a flag computed once |
| `choices` | UriSourcesAreFound | GstMatcher.cpp:36 | `parseDetails` gives requests for URI sources no type |
| `settings` | ObjectsAgree | config.h:99 | an object writes the copy that it read when it was made, over what another one has written |
| `progress` | InstallErrorsAreTold | aptworker.cpp:565 | the error line is closed unread |
| `client`, with `SPECIFICATION Spec` | PausesAreAnnounced | transaction.h:326 | no setter of `m_isPaused` announces it as `PausedProperty` |

## 5. Theorems

All are proved without bounds on the constants, and, but for the theorems about
`TransactionQueue` that state an assumption on `Races`, with every race and fault allowed,
from the assumptions that the modules name (`ConstantsAssumption` of the queue, the job,
and the client, the programs, the marks; `SizesAssumption`, `ProgressAssumption`,
`VersionsAssumption`, `SelectionsAssumption`, `UnmeetableAssumption`, `DebCheckAssumption`, `PluginsAssumption`,
`SourceEntryAssumption`, `SourcesListAssumption`, `AptConfAssumption`, `PinFilesAssumption`).

`DaemonProofs`, about the queue: `TypeCorrect`, `QueueAlwaysConsistent` (which joins
`QueueAlwaysSound` and `HandoverAlwaysSound`), `FirstStartsInOrder`. The inductive
invariant is `TypeOK /\ QueueSound /\ HandoverSound`. Neither of the latter is inductive
alone: that a `finished()` signal removes the head, and not somebody in the middle, needs
that only the head can have run (`HandoverSound`); that the next call is for the
head needs that the queue has no repetitions (`QueueSound`). The lemmas
`AppendFacts`, `TailFacts`, `RemoveAllFacts` are what the steps need of sequences.

What the code does not promise under every timing is proved under a stated
assumption on `Races`, for any set of transactions and roles:

* `InTime`, the races of run `queue_executor` and any subset of them:
  `NoUseAfterDeleteInTime`, `NothingUnderwayInTime`, and `ExecutorIsImplemented`, the step
  simulation of `SerialExecutor`. The invariant `Lockstep` names the only four situations
  the two threads can be in with each other (`Idle`, `Posted`, `Running`, `Over`: nothing
  queued, the head posted, the head running, its `finished()` on its way), and adds that
  what is pending or queued is alive, and that a daemon on its way out has
  nothing left. One lemma per step of the handover (`EnqueueStep`, `RunTransactionStep`,
  `SetExitStatusStep`, `FinishedStep`) leads from one situation to the next.
* `Quiet`, which in addition excludes a second `run()`: `WaitingIsQueuedQuietly` and
  `CompletionIsFinalQuietly`, by the invariant `Truthful` about what statuses say.
* Only `timestamp` excluded: `QuitsOnlyWhenRestedStamped`, by the invariant `Stamped`.

`AptWorkerProofs`: `TypeCorrect` (which includes that the job and another package
manager never hold the same lock), `CommitsAlwaysLocked`, `CancelledNeverCommits`,
`UntrustedAlwaysApproved`, `ReplacesOnlyWithConsent`. The inductive invariant
`IInv` adds to the types: `LocksTaken` (locks taken in order; none is skipped
without a cancellation or a misplaced reply), `CancelClosed` (from the end of the
fetch a commit cannot be cancelled, and from the check after it, is not: the two
together are why a skipped lock never reaches dpkg), `TouchedUncancelled`,
`ApprovalKept` (until the decision `m_allowUntrusted` is the last reply), `ConsentKept`.
`SuccessIsInstalled` is about commits. Its invariant `OutcomeKept` says that a commit which
has come as far as the end of its installation was
cancelled, has an error, has changed the system, or had a child that failed without a word, and that an exit status is set at
the end only.

`DaemonProofs`, about what a job reports: `ProgressTypeCorrect`, `ProgressNeverGoesBack`,
`FailuresAreAlwaysTold`. That progress never goes back is a fact about what is still to
be told: `ProgressInv` bounds the highest progress so far by where the current
percentage is on the scale (`Share`, or `StepShare` in a step of opening), and in an
installation also by every line in the pipe that is not yet read. Each part must
begin where the part before could end, roundings included, which `RoundedFacts`,
`ShareFacts` and `StepShareFacts` prove. `FailInv` says that of the failures only one of the
installation can be missing in the details, and then its line is lost or still in the
pipe.

`ClientTransactionProofs`: `ClientShapes`, `EndIsAlwaysHonest`, `StreamIsImplemented`,
`ClientCatchesUp`. `HonestEnd` looks at what
has arrived; `EndInv` says the same of what is on its way: an exit status in the inbox is
the worker's, news of its end are true, and (`Carried`) a client that has subscribed in
time has the announced exit status in its mirror or on its way *before* the news that
the worker is gone, since the bus keeps the order. This is why a disappearance does not
overwrite an end. `RunInv` (a transaction is run once, and has not ended before) is what
the worker's side adds. Most steps send nothing that matters, which the lemmas named
after the actions say once (`Harmless`).

`StreamIsImplemented` is the refinement `ImplementsStream` for any clients: every step
of `ClientTransaction` is a step of `SignalStream` or adds no signal. Its invariant
(`StreamInv`) gives each message a rank: 1 what a job tells of its course, 2 the exit
status, 3 the last status, 4 that the worker is gone, 0 replies and changes for which
the object emits nothing. The inbox is sorted by rank (`Orderly`; replies stand
anywhere), since the job tells these things in this order and the bus keeps it; once
the end has been heard nothing of rank 1 or 2 is on its way; and an owner who has
connected, as one must have that called `run()`, has heard the exit status, or has it
on its way, as soon as the job has set it. So whatever is taken from the inbox fits
what was heard. One lemma says what sending preserves (`SendStream`), one per
group of actions when it sends which rank.

`ClientCatchesUp`: once nothing is on its way, the mirror has the worker's values. The
invariant (`CatchInv`) says the same of a mirror with messages still on their way
(`WillKnow`): for each member, the last message on its way that is about it carries the
worker's value, or there is none and the mirror has it. That needs the order of the
bus, and that a step which changes a member announces it last with that value.

`FrontendsProofs`: `FaultsAreExplained` (a missing object is used in two situations
only: a prompt is answered after its transaction ended below the box, and the worker
disappears under the installer's commit), `ExitCodesAreHonest`, `OnlyFinishedAreDeleted`, for any number of plugins, prompts and refusals. The slots
below a message box go on in a state that the box has let others change, so the
invariant has a part for each program: `SoleInv` for the two with one transaction (what
`now`, each slot on `stack` and the object can be, together), `HelperInv` (which exit
codes are set when), `InstallerInv` (an emission outlives its object only where a
commit's worker disappeared; as long as nothing was denied, every transaction but the
last is finished and deleted). One lemma per group of actions and part.

`FoldFacts`: what a fold over a sequence does, without a theorem about every
operator. `FoldExists` proves that the recursive function behind the folds of the
community modules exists, for a step that is a function on given sets, and `WayOfFold`
that its result is the end of a *way*: a sequence of intermediate results, each by one
step from the one before (`IsWay`). A property of the result is then shown along the way
with `AllNumbers`, induction over the numbers up to n as a statement about a set.

`UndoHistoryProofs`, about the marks: `MarkTypeCorrect`, by the invariant `MarksInv` that adds
`AllSound` (only what is installed is removed, only what has another version
installed, only what is removed purged); and `RestoresThePackage`, which needs
`AllSound` of both the current and the saved marks: a package restored gets its mark and
flag back from any marks whatsoever. That the packages which come later in the loop do
not undo this needs the state to be coherent (`RestoredOneKeeps`): then all that is
pulled in stays in the saved state too, and all that goes along goes there too.
`RestoredFacts` puts both together along the way of the fold: *a coherent state is
restored exactly, for any packages, requirements and order of the cache.*

About the commit: `CommitAlwaysDoesWhatIsShown`. `MarksInv` implies it; the work is in the
fold of `markChanges`. Along its way two things hold. Nothing is marked otherwise than the
application marked it, and a new package has what it needs of new ones (`Underway`):
`RootNeeds` proves that an entry of the list can only pull in what the application has
marked for installation, since all that a root needs, a package there for its own sake
(`Roots`, `Wanted`, `Upright`), is there already or going to be. And what an entry
has done (`Done`) no later entry undoes (`Spares`), whatever the order of the names. The
automatic packages, which are in no entry, follow at the end: what is installed or marked by
the worker is closed under requirements and has all roots, hence all that they need.

About undo: `StacksAlwaysBounded`, `UndoTypeCorrect`, `MovesKeepWhatIsKnown`, and
`TimelineIsImplemented`, the step simulation of `Timeline`. The invariant `UndoInv` has
that the states on the stacks were saved from sound marks, that the current size is not
above the largest in use, and that, unless `garbled`, the states on the stacks are
coherent. Each call is a move along the line of states (`LineOf`), a lemma each
(`BackInLine`, `ForwardInLine`, `SaveInLine`).

`ChoicesProofs`, for any packages, requirements, requests, fields, files and orders of
the cache and of the hash table. Plugins and dependencies are marked one after the other in a
cache where nothing was marked, so that the marks are `Whole`: sound, nothing broken,
nothing removed, and nothing there that was not asked for or needed. `InstallWhole`: one
more `MarkInstall` keeps this, and what was marked stays marked (`Grown`).
`CommitWhole`: the list and `markChanges`, in another order, come to the same marks; it rests
on what `UndoHistoryProofs` shows of that fold. `OutcomeFacts`: so all of it is
committed, unless a package cannot be installed, and then nothing is.

* `PluginsAreAlwaysProvided`, by `SearchInv`: what has been found so far are matches for the
  requests so far, a request for which nothing was found has no match, and
  `partialFound` says whether there is such a request. What is found is then marked by a
  fold over `foundCodecs` (`BringingFacts`).
* `VerdictIsAlwaysRight`, `DetailsAreAlwaysComplete`, `OfferedIsAlwaysMet`, by `DebInv`.
  The groups that `parseDepends` builds by replacing the last list are the maximal runs
  of relations joined by `|` (`GroupsFit` for the first k relations, `ParseFacts`), so the
  verdict can speak of the relations that a relation has for alternatives. Inside a
  group the search stops at what is installed or can be marked (`TriesOne`,
  `TriesGroup`), and stops at the first group that fails (`HasMet`, `SatisfyFacts`). The
  verdict does not depend on the marks, the marks on the verdict only through what was
  tried. `OfferedIsAlwaysMet` is about a `.deb` that asks for nothing uninstallable (nobody
  looks whether what is marked can be installed, and the commit then fails). What an
  attempt has marked, later ones keep (`SetInstalledFine`, `TryFacts`), so that each group
  is met in the end, or was met by an installed version that a later group has upgraded
  (`Outdated`): such a group is not looked at again, see `OfferedStaysMet` above.
* `SelectionsAreAlwaysKept`, by `SelInv`: a file of this program comes from sound, unbroken
  marks, and if these are on native packages, it has a line for each of them (`Kept`,
  `OnlyLine`). `Loading` relates the marks after some of the lines to those that were saved:
  what is marked was marked like this, and what had its line already still has its mark,
  since no other line takes it back. After all lines (`LoadedFacts`) whatever the problem
  resolver removes was not there by the saved marks either (`ResolvedFacts`), and what it
  protects are the names of the file.
* `VersionTypeCorrect`, `RememberedAlwaysTrue`, for any number of versions and any phases.
  `RememberedIsTrue` is inductive with the types: the answer about the phase is remembered only
  once the machine id is known, and what is remembered is dropped when the cache is opened, the
  only time the candidate changes without `setVersion`. It speaks of the upgradeable flag and the
  phase; the flag that `wouldBreak` reads is not true (`WouldBreakIsTrue`), nor is anything
  remembered after `setVersion`.

Two properties were false as they had been checked before, and are stated as they are
now because a proof attempt showed why. `SelectionsAreKept` does not hold of a file
that was written while something was broken (an installation next to the
removal of what it needs). `PluginsAreProvided` does not hold if a package was found that
cannot be installed: the helper looks at what it has found, not at what that requires.

`SettingsProofs`, for any files, lines, calls, refusals and other writers:

* `SavedIsAlwaysReloaded`, `OnlyRemovedIsEverLost`, by `ListsInv`. Entries in hand are what
  can be parsed or made (`SoundEntries`), for which printing and parsing again gives the
  same entry (`WrittenFacts`; this is false of arbitrary records). A file not
  written by others since agrees with its list, position by position (`Agrees`), and each
  line that was loaded has its entry in the list, or one equal to it was removed
  (`LineKept`; `WithoutFacts` is about the fold of `removeEntry`).
  The second is about the lines on the disk at each save: one that disappears had an equal entry
  that was removed, or had not been loaded.
* `NextProgramAlwaysAgrees`, by `ConfInv`: the copy of the object that wrote a setting
  last has statements of it, all with the value of libapt's configuration (`Sets`), no
  other line sets it further down (`Tidy` is kept), the last call on its way of each object is of
  its current copy (`Carried`), and what is on the disk is the copy of the object that saved
  last, unless more of it is on its way (`Arrived`). It is about an apt.conf that began as
  tidy lines with ends, as the property is.
* `PinsAreAlwaysAsWanted`, by `PinInv`: the file of a pin that was asked for has its stanza;
  every stanza is of a name that had one; and, until a call to unpin copies other stanzas
  or if stanzas were in files of other names at first (`mixed`), each stanza was asked for.

Model-checked only: all liveness (`JobEnds`, `EventuallyExits`, `EndIsReported`, `PromptsAreAnswered`, the
fair part of `ImplementsExecutor`), which is beyond the prover.

## 6. Not modelled

* Of `Backend`: event compression (a counter around signals), the Xapian search index,
  groups, counts and searches (queries), `saveDownloadList` and `addArchiveToCache`
  (one file each). Of `Package` the read-only queries. Of the daemon
  `copyArchiveToCache`, one call of `QFile::copy`.
* `History`, `Changelog`, `DebFile`, `DownloadProgress`, `MarkingErrorInfo`, `Cache`:
  values and parsers of formats that others write. What a `.deb` file or an item of a
  download says is data of `DebCheck` and `JobProgress`.
* Runner, thumbnailer, example, tests, packaging; widgets, wording and layout of the
  programs.
* libapt, dpkg, polkit, Qt and D-Bus are environment.

Assumed of the environment: libapt's `MarkInstall` marks what it is told to and what that
lacks; its percentages do not fall within one step; the package of a
`.deb` file that is checked is none of those it needs; GStreamer asks for versions of
the form x.y; five seconds are enough for a job's cleanup (`TransactionQueue`). Of an application:
sizes of the undo stack are not negative (`setUndoRedoCacheSize` takes such a size, with
which `saveCacheState` would remove from a list that is empty).

Behaviour met while modelling that a model contains but no run states, most of it
with its line under "hazards" in `PROJECT.json`: a refused authorization keeps the
daemon alive for ever (`denied` of `Races`); `installFile` starts no process under Qt 6 and
reports success; after a `.deb` of another architecture the job waits for a process that was
never created; a child killed by a signal counts as success (`silent`); an answer stays in
`m_replaceConfFile` and counts for a file nobody was asked about; a sources list that
another program has written since `reload`, or that could not be read, is overwritten
(`OnlyRemovedIsLost` excepts lines that were not loaded); a machine whose number equals the percentage is in the phase, though the comment
above says "less than" (`package.cpp:835`).
