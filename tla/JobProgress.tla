---------------------------- MODULE JobProgress ----------------------------
(***************************************************************************)
(* What the worker tells about the progress and the failures of its jobs:  *)
(* CacheOpenProgress (aptworker.cpp), WorkerAcquire and                    *)
(* WorkerInstallProgress report to one transaction in turn, each in its    *)
(* own part of the scale, and add to one text of error details.  The child *)
(* that installs writes lines to a pipe, which the worker reads now and    *)
(* then as long as the child lives (updateInterface).                      *)
(*                                                                         *)
(* Locks, prompts and cancellations are those of AptWorker.                *)
(***************************************************************************)
EXTENDS Naturals, FiniteSets, SequencesExt

CONSTANTS
  Items,      \* what may be fetched
  Percents,   \* percentages that libapt comes up with
  MaxLines,   \* bound: lines of one child
  MaxJobs     \* bound: jobs of the worker

Roles == {"update", "commit", "download"}

ASSUME ProgressAssumption ==
  /\ IsFiniteSet(Items) /\ Percents \subseteq 0..100 /\ 0 \in Percents
  /\ MaxLines \in Nat /\ MaxJobs \in Nat \ {0}

Unknown == 101

Kinds == {"pmstatus", "pmerror", "pmconffile", "nopackage"}

VARIABLES
  role, phase,       \* the job, and where it is: "open", "fetch", "install", "reopen", "over"
  progress, error, details,   \* of its transaction; details are a set
  percent,           \* libapt's percentage
  steps,             \* how often CacheOpenProgress was told that a step is done
  last,              \* m_lastProgress
  item, shown,       \* status of each item, and the one last sent as downloadProgress
  pipe, child,       \* lines not read; the child "none", "alive", "failed", "completed"
  garbled,           \* the static buffer of updateInterface keeps an old line
  \* history
  peak,              \* highest progress of the job
  failed,            \* what went wrong: items, and "install" for an error of the child
  lost,              \* an error line was not read as a line
  lines, jobs        \* counted for the bounds

jobVars   == <<role, jobs>>
sentVars  == <<progress, peak>>
errorVars == <<error, details, failed, lost>>
openVars  == <<steps, last>>
fetchVars == <<item, shown>>
childVars == <<pipe, child, garbled, lines>>
progressVars == <<jobVars, phase, sentVars, errorVars, percent, openVars, fetchVars, childVars>>

-----------------------------------------------------------------------------
\* qRound(n / d)
Rounded(n, d) == (2 * n + d) \div (2 * d)

\* The part of the scale that a phase has.
Begin ==
  CASE phase = "open" -> 0
    [] phase = "fetch" -> IF role = "update" THEN 10 ELSE 15
    [] phase = "install" -> 50
    [] phase = "reopen" -> 91

End ==
  CASE phase = "open" -> 5
    [] phase = "fetch" -> (CASE role = "update" -> 90 [] role = "commit" -> 50 [] role = "download" -> 100)
    [] phase = "install" -> 90
    [] phase = "reopen" -> 95

\* Where a percentage of the phase is.
Share(p) == Rounded(100 * Begin + p * (End - Begin), 100)

\* setProgress
Report(p) ==
  /\ progress' = p
  /\ peak' = IF p # Unknown /\ p > peak THEN p ELSE peak

Enter(next) ==
  /\ phase' = next
  /\ steps' = 0 /\ last' = 0 /\ percent' = 0

\* cleanupCurrentTransaction
Cleanup ==
  /\ Enter("over")
  /\ Report(100)

NewJob ==
  /\ role' \in Roles
  /\ Enter("open")
  /\ progress' = 0 /\ peak' = 0
  /\ error' = "Success" /\ details' = {} /\ failed' = {} /\ lost' = FALSE
  /\ item' = [i \in Items |-> "idle"] /\ shown' = [i \in Items |-> "none"]
  /\ pipe' = <<>> /\ child' = "none" /\ lines' = 0

ProgressInit ==
  /\ role \in Roles /\ phase = "open"
  /\ steps = 0 /\ last = 0 /\ percent = 0
  /\ progress = 0 /\ peak = 0
  /\ error = "Success" /\ details = {} /\ failed = {} /\ lost = FALSE
  /\ item = [i \in Items |-> "idle"] /\ shown = [i \in Items |-> "none"]
  /\ pipe = <<>> /\ child = "none" /\ lines = 0
  /\ garbled = FALSE /\ jobs = 1

NextJob ==
  /\ phase = "over" /\ jobs < MaxJobs /\ jobs' = jobs + 1
  /\ NewJob
  /\ UNCHANGED garbled

-----------------------------------------------------------------------------
(* openCache, with libapt's four steps *)

Opening == phase \in {"open", "reopen"}

\* Where a step ends, in quarters of a percent.
Mark(k) == 4 * Begin + (End - Begin) * (IF k < 4 THEN k ELSE 4)

\* Where a percentage of step k is.
StepShare(k, p) == Rounded(100 * Mark(k) + p * (Mark(k + 1) - Mark(k)), 400)

OpenUpdate ==
  \E p \in Percents :
    /\ Opening /\ p >= percent /\ percent' = p
    /\ LET value == StepShare(steps, p)
       IN  IF value = last THEN UNCHANGED <<sentVars, last>> ELSE Report(value) /\ last' = value
    /\ UNCHANGED <<jobVars, phase, errorVars, steps, fetchVars, childVars>>

\* m_lastProgress = m_end drops the fraction.
OpenDone ==
  /\ Opening /\ steps < 4 /\ steps' = steps + 1
  /\ last' = Mark(steps + 1) \div 4
  /\ percent' = 0
  /\ UNCHANGED <<jobVars, phase, sentVars, errorVars, fetchVars, childVars>>

Opened ==
  /\ Opening
  /\ IF phase = "open" THEN Enter("fetch") /\ UNCHANGED sentVars ELSE Cleanup
  /\ UNCHANGED <<jobVars, errorVars, fetchVars, childVars>>

\* The details are replaced.
OpenFails ==
  /\ Opening
  /\ error' = "InitError" /\ details' = {"cache"}
  /\ Cleanup
  /\ UNCHANGED <<jobVars, failed, lost, fetchVars, childVars>>

-----------------------------------------------------------------------------
(* WorkerAcquire *)

Finished == {"done", "error", "authError", "networkError"}

\* updateStatus
UpdateStatus(i, status) == shown' = [shown EXCEPT ![i] = status]

FetchItem(i) ==
  /\ phase = "fetch"
  /\ \/ item[i] = "idle" /\ item' = [item EXCEPT ![i] = "fetching"] /\ UpdateStatus(i, "fetching")
     \/ item[i] = "done" /\ UNCHANGED fetchVars
  /\ UNCHANGED <<jobVars, phase, sentVars, errorVars, percent, openVars, childVars>>

\* Done, and IMSHit for what is up to date.
ItemDone(i) ==
  /\ phase = "fetch" /\ item[i] \in {"idle", "fetching"}
  /\ item' = [item EXCEPT ![i] = "done"] /\ UpdateStatus(i, "done")
  /\ UNCHANGED <<jobVars, phase, sentVars, errorVars, percent, openVars, childVars>>

\* Mutant: what another attempt may follow is not told, whatever it is.
ItemFailTolerant(i) ==
  /\ phase = "fetch" /\ item[i] \in {"idle", "fetching"}
  /\ \E status \in {"idle", "error", "authError", "networkError"} :
       /\ item' = [item EXCEPT ![i] = status]
       /\ details' = IF status \in {"idle", "networkError"} THEN details ELSE details \cup {i}
       /\ failed' = IF status = "idle" THEN failed ELSE failed \cup {i}
  /\ UNCHANGED <<jobVars, phase, sentVars, error, lost, percent, openVars, shown, childVars>>

\* Fail.  A failure is added to the details, but not sent as downloadProgress.
ItemFail(i) ==
  /\ phase = "fetch" /\ item[i] \in {"idle", "fetching"}
  /\ \E status \in {"idle", "error", "authError", "networkError"} :
       /\ item' = [item EXCEPT ![i] = status]
       /\ details' = IF status = "idle" THEN details ELSE details \cup {i}
       /\ failed' = IF status = "idle" THEN failed ELSE failed \cup {i}
  /\ UNCHANGED <<jobVars, phase, sentVars, error, lost, percent, openVars, shown, childVars>>

\* Mutant: what libapt says is sent.
PulseAnyway ==
  \E p \in Percents :
    /\ phase = "fetch" /\ percent' = p
    /\ LET value == Share(p)
       IN  Report(value) /\ last' = value
    /\ \E i \in {j \in Items : item[j] = "fetching"} : UpdateStatus(i, item[i])
    /\ UNCHANGED <<jobVars, phase, errorVars, steps, item, childVars>>

\* More items may come while others are fetched: the percentage, 100 whenever all items
\* of the moment are done, may go back.
Pulse ==
  \E p \in (IF \A i \in Items : item[i] \in Finished THEN {100} ELSE Percents) :
    /\ phase = "fetch" /\ percent' = p
    /\ LET value == Share(p)
       IN  IF last > value THEN Report(Unknown) /\ UNCHANGED last
                           ELSE Report(value) /\ last' = value
    /\ shown' = [i \in Items |-> IF item[i] = "fetching" THEN item[i] ELSE shown[i]]
    /\ UNCHANGED <<jobVars, phase, errorVars, steps, item, childVars>>

\* Stop, and how updateCache, commitChanges and downloadArchives go on.  FixMissing may
\* do without what failed.
FetchStop ==
  /\ phase = "fetch" /\ \A i \in Items : item[i] # "fetching"
  /\ \E ok \in BOOLEAN :
       /\ error' = IF ok THEN error ELSE "FetchError"
       /\ IF role = "update" \/ (role = "commit" /\ ok)
            THEN /\ Enter(IF role = "update" THEN "reopen" ELSE "install")
                 /\ Report(End)
            ELSE /\ Cleanup
       /\ child' = IF role = "commit" /\ ok THEN "alive" ELSE child
  /\ UNCHANGED <<jobVars, details, failed, lost, fetchVars, pipe, garbled, lines>>

-----------------------------------------------------------------------------
(* WorkerInstallProgress *)

Line(kind, p) == [kind |-> kind, percent |-> p]

\* The child writes a line, or ends.
ChildWrites ==
  \E kind \in Kinds, p \in Percents :
    /\ child = "alive" /\ lines < MaxLines /\ lines' = lines + 1
    /\ p >= percent /\ percent' = p
    /\ pipe' = Append(pipe, Line(kind, p))
    /\ failed' = IF kind = "pmerror" THEN failed \cup {"install"} ELSE failed
    /\ UNCHANGED <<jobVars, phase, sentVars, error, details, lost, openVars, fetchVars, child, garbled>>

ChildEnds ==
  /\ child = "alive" /\ child' \in {"failed", "completed"}
  /\ UNCHANGED <<jobVars, phase, sentVars, errorVars, percent, openVars, fetchVars, pipe, garbled, lines>>

\* A line without a package stays in the buffer, and those that follow are appended to it.
Readable(seq) ==
  LET bad == {k \in 1..Len(seq) : seq[k].kind = "nopackage"}
  IN  CASE garbled -> <<>>
        [] ~garbled /\ bad = {} -> seq
        [] ~garbled /\ bad # {} -> SubSeq(seq, 1, Min(bad) - 1)

\* updateInterface reads what there is, if waitpid found the child alive before.
UpdateInterface ==
  LET handled == Readable(pipe) IN
  /\ phase = "install" /\ child = "alive" /\ pipe # <<>>
  /\ pipe' = <<>>
  /\ garbled' = (handled # pipe)
  /\ details' = IF \E l \in ToSet(handled) : l.kind = "pmerror" THEN details \cup {"install"} ELSE details
  /\ lost' = (lost \/ \E k \in (Len(handled) + 1)..Len(pipe) : pipe[k].kind = "pmerror")
  /\ IF handled = <<>> THEN UNCHANGED sentVars
     ELSE Report(Share(Last(handled).percent))
  /\ UNCHANGED <<jobVars, phase, error, failed, percent, openVars, fetchVars, child, lines>>

\* waitpid reports the end of the child, and what is left in the pipe is closed with it.
InstallEnds ==
  /\ phase = "install" /\ child \in {"failed", "completed"}
  /\ error' = IF child = "failed" THEN "CommitError" ELSE error
  /\ lost' = (lost \/ \E l \in ToSet(pipe) : l.kind = "pmerror")
  /\ pipe' = <<>> /\ child' = "none"
  /\ Enter("reopen")
  /\ UNCHANGED <<jobVars, sentVars, details, failed, fetchVars, garbled, lines>>

-----------------------------------------------------------------------------
ProgressNext ==
  \/ NextJob
  \/ OpenUpdate \/ OpenDone \/ Opened \/ OpenFails
  \/ \E i \in Items : FetchItem(i) \/ ItemDone(i) \/ ItemFail(i)
  \/ Pulse \/ FetchStop
  \/ ChildWrites \/ ChildEnds \/ UpdateInterface \/ InstallEnds

ProgressSpec == ProgressInit /\ [][ProgressNext]_progressVars

-----------------------------------------------------------------------------
(* Properties *)

\* Over all phases of a job the progress that is told never goes back, unless it is told
\* to be unknown, and it reaches 100 at the end of the job and not before the last phase.
NeverGoesBack ==
  /\ progress \in {Unknown, peak}
  /\ phase = "over" => progress = 100
  /\ progress = 100 => phase = "over" \/ (phase = "fetch" /\ role = "download")

\* The details of a job that ended with a fetch or commit error name each item that
\* could not be fetched, and an error of the installation unless its line was lost;
\* an item that was fetched is shown as done.
FailuresAreTold ==
  phase = "over" /\ error # "InitError" =>
    /\ failed \ (IF lost THEN {"install"} ELSE {}) \subseteq details
    /\ \A i \in Items : item[i] = "done" => shown[i] = "done"

\* aptworker.cpp:565: after a failed installation "Error details set by
\* WorkerInstallProgress".
InstallErrorsAreTold ==
  phase = "over" /\ error = "CommitError" /\ "install" \in failed => "install" \in details
=============================================================================
