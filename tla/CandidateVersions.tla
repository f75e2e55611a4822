-------------------------- MODULE CandidateVersions --------------------------
(***************************************************************************)
(* A package with several versions, as Package and Backend (package.cpp,   *)
(* backend.cpp) know it: the candidate that setVersion overrides, what is  *)
(* remembered between two openings of the cache (flags "that cannot        *)
(* change", the answer of isInUpdatePhase, a static machine id), and the   *)
(* version that a commit brings: commitChanges names one for a downgrade   *)
(* only, and the worker (AptWorker::markChanges) has its own candidate.    *)
(***************************************************************************)
EXTENDS Naturals

CONSTANTS
  MaxVersion,   \* versions are numbers; 0 is none
  Unmet,        \* versions of which a dependency cannot be met
  Percentage,   \* Phased-Update-Percentage of a version, NoField without the field
  NoField,
  Roll          \* the number that this machine draws for a version, by its id

AllVersions == 1..MaxVersion

ASSUME VersionsAssumption ==
  /\ MaxVersion \in Nat \ {0} /\ Unmet \subseteq AllVersions
  /\ NoField \notin 0..100
  /\ Percentage \in [AllVersions -> 0..100 \cup {NoField}]
  /\ Roll \in [AllVersions -> 0..100]

VARIABLES
  \* the system
  installed,   \* installed version
  lists,       \* the version that the package lists and preferences make the candidate
  listsChanged,  \* the lists may have changed since the cache of the application was opened
  idFile,      \* /var/lib/dbus/machine-id: "null" if it cannot be read, "blank" or "id"
  \* the cache of the application, and libapt's mark in it
  current, cand, mode, reinstall,
  \* the Package object, and the function-static machine id
  override,    \* OverrideVersion
  static,      \* the flags of initStaticState, as a set: empty before
  phase,       \* the answer of isInUpdatePhase, likewise
  machineId,
  \* history
  chosen       \* setVersion was called after the Package had something to remember

systemVars  == <<installed, lists, listsChanged, idFile>>
cacheVars   == <<current, cand, mode, reinstall>>
packageVars == <<override, static, phase, machineId, chosen>>
versionVars == <<systemVars, cacheVars, packageVars>>

Opened ==
  /\ current' = installed /\ cand' = lists
  /\ mode' = "keep" /\ reinstall' = FALSE
  /\ override' = FALSE /\ static' = {} /\ phase' = {} /\ chosen' = FALSE

VersionInit ==
  /\ installed \in 0..MaxVersion /\ lists \in AllVersions /\ idFile \in {"null", "blank", "id"}
  /\ listsChanged = FALSE
  /\ current = installed /\ cand = lists
  /\ mode = "keep" /\ reinstall = FALSE
  /\ override = FALSE /\ static = {} /\ phase = {} /\ chosen = FALSE
  /\ machineId = "null"

-----------------------------------------------------------------------------
(* Package *)

\* initStaticState, of a package with candidate c marked with m; InstBroken is
\* among the flags although it follows the marks.
InitStaticState(m, c) ==
  [upgradeable |-> current # 0 /\ c > current, installBroken |-> m = "install" /\ c \in Unmet]

\* state() and staticState()
Flags(m, c) == IF static = {} THEN InitStaticState(m, c) ELSE CHOOSE s \in static : TRUE

\* Package::state, what is to happen.  Order matters.
ToDo ==
  CASE reinstall -> "ToReInstall"
    [] ~reinstall /\ mode = "install" /\ current = 0 -> "NewInstall"
    [] ~reinstall /\ mode = "install" /\ cand > current /\ current # 0 -> "ToUpgrade"
    [] ~reinstall /\ mode = "install" /\ cand < current -> "ToDowngrade"
    [] ~reinstall /\ mode = "delete" -> "ToRemove"
    [] OTHER -> "ToKeep"

\* setVersion compares with the candidate of the moment; what is remembered stays.
SetVersion ==
  /\ \E v \in AllVersions : cand' = v /\ override' = (v # cand)
  /\ chosen' = (chosen \/ static # {} \/ phase # {})
  /\ UNCHANGED <<systemVars, current, mode, reinstall, static, phase, machineId>>

\* MarkInstall takes back a removal of what is the candidate already.
Installing(m, c, cur) == IF c # cur THEN "install" ELSE IF m = "delete" THEN "keep" ELSE m

\* setInstall, setKeep, setRemove and setReInstall; the latter does not look at the flags.
MarkVersion(m, again) ==
  /\ mode' = m /\ reinstall' = again
  /\ static' = {Flags(m, cand)}
  /\ UNCHANGED <<systemVars, current, cand, override, phase, machineId, chosen>>

SetMark ==
  \/ MarkVersion(Installing(mode, cand, current), reinstall)
  \/ MarkVersion("keep", FALSE)
  \/ current # 0 /\ MarkVersion("delete", FALSE)
  \/ /\ current # 0 /\ reinstall' = TRUE
     /\ UNCHANGED <<systemVars, current, cand, mode, packageVars>>

\* Backend::markPackages(ToInstall) and upgradeablePackages() go by the flags.
MarkToInstall ==
  /\ LET s == Flags(mode, cand)
     IN  IF current = 0 \/ s.upgradeable
           THEN MarkVersion(Installing(mode, cand, current), reinstall)
           ELSE static' = {s} /\ UNCHANGED <<systemVars, cacheVars, override, phase, machineId, chosen>>

Due(v) == Percentage[v] = NoField \/ Roll[v] <= Percentage[v]

\* Mutant: "yes" is remembered although the machine is not known yet.
IsInUpdatePhaseHasty ==
  /\ static' = {Flags(mode, cand)}
  /\ IF ~Flags(mode, cand).upgradeable \/ phase # {}
       THEN UNCHANGED <<phase, machineId>>
       ELSE /\ machineId' = IF machineId = "null" /\ Percentage[cand] # NoField THEN idFile ELSE machineId
            /\ phase' = {machineId' # "id" \/ Due(cand)}
  /\ UNCHANGED <<systemVars, cacheVars, override, chosen>>

\* An answer without the machine id is not remembered.  A blank line is not tried again.
IsInUpdatePhase ==
  /\ static' = {Flags(mode, cand)}
  /\ IF ~Flags(mode, cand).upgradeable \/ phase # {}
       THEN UNCHANGED <<phase, machineId>>
       ELSE /\ machineId' = IF machineId = "null" /\ Percentage[cand] # NoField THEN idFile ELSE machineId
            /\ phase' = IF Percentage[cand] = NoField \/ machineId' = "id" THEN {Due(cand)} ELSE phase
  /\ UNCHANGED <<systemVars, cacheVars, override, chosen>>

-----------------------------------------------------------------------------
(* Backend and the worker *)

\* What commitChanges inserts into its list.
Entry == [what |-> ToDo, version |-> IF ToDo = "ToDowngrade" THEN cand ELSE 0]

\* The version that markChanges leads to, in a cache of its own, in which the version of
\* a downgrade may not be found: then what becomes the candidate is undefined.
Leads(e, v) ==
  CASE e.what \in {"NewInstall", "ToUpgrade"} -> v = lists
    [] e.what = "ToDowngrade" ->
         v = e.version \/ (listsChanged /\ e.version \notin {lists, installed} /\ v \in {lists, installed})
    [] e.what = "ToRemove" -> v = 0
    [] OTHER -> v = installed

WorkerInstalls(e) == \E v \in 0..MaxVersion : Leads(e, v) /\ installed' = v

CommitVersion ==
  /\ WorkerInstalls(Entry)
  /\ static' = {Flags(mode, cand)}
  /\ UNCHANGED <<lists, listsChanged, idFile, cacheVars, override, phase, machineId, chosen>>

\* installPackages and removePackages: a list of their own, whatever is marked.
CommitPackages ==
  /\ \E what \in {"NewInstall", "ToRemove"} : WorkerInstalls([what |-> what, version |-> 0])
  /\ UNCHANGED <<lists, listsChanged, idFile, cacheVars, packageVars>>

ReopenCache ==
  /\ Opened /\ listsChanged' = FALSE
  /\ UNCHANGED <<installed, lists, idFile, machineId>>

\* updateCache, or another program; and the machine gets its id.
SystemChanges ==
  /\ \/ lists' \in AllVersions /\ listsChanged' = TRUE /\ UNCHANGED idFile
     \/ idFile = "null" /\ idFile' = "id" /\ UNCHANGED <<lists, listsChanged>>
  /\ UNCHANGED <<installed, cacheVars, packageVars>>

VersionNext ==
  \/ SetVersion \/ SetMark \/ MarkToInstall \/ IsInUpdatePhase
  \/ CommitVersion \/ CommitPackages \/ ReopenCache \/ SystemChanges

VersionSpec == VersionInit /\ [][VersionNext]_versionVars

-----------------------------------------------------------------------------
(* Properties *)

\* Of what a Package remembers, that it is upgradeable and that the update has reached
\* this machine are what it would find out again, unless setVersion was called since it
\* has remembered them; in particular the answer about the phase is that of this machine,
\* not one given while the machine id was missing.  Of InstBroken see WouldBreakIsTrue.
RememberedIsTrue ==
  ~chosen =>
    /\ \A s \in static : s.upgradeable = InitStaticState(mode, cand).upgradeable
    /\ phase \subseteq {Due(cand)}

\* package.h:576: setVersion "overrides the candidate version, setting it to the
\* version string", so that this is the version a commit installs.  It is not so: only a
\* downgrade names its version in the list.
VersionIsCommitted ==
  [][CommitVersion /\ ~listsChanged /\ mode = "install" /\ override => installed' = cand]_versionVars

\* package.h:539: wouldBreak tells "whether the package would break if the current
\* potential changes are committed".  It tells what was so when the flags were first read.
WouldBreakIsTrue ==
  \A s \in static : s.installBroken = InitStaticState(mode, cand).installBroken
=============================================================================
