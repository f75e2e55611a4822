------------------------------ MODULE DebCheck ------------------------------
(***************************************************************************)
(* qapt-deb-installer: DebInstaller::checkDeb decides whether a .deb file  *)
(* can be installed and marks the packages that it needs, over the marks   *)
(* of PackageMarks; installDebFile commits those and the file.             *)
(*                                                                         *)
(* A version of a package is 1, the installed one or that of a new         *)
(* package, or 2, the candidate of an upgrade.  A relation is the set of   *)
(* versions that it allows.                                                *)
(***************************************************************************)
EXTENDS Naturals, CommitOutcome

CONSTANTS
  Debs,         \* .deb files, see DebRecords
  ArchAll,      \* packages for all architectures
  Variant,      \* the foreign variants of packages, which are packages, too
  MultiArch,    \* Multi-Arch field of a variant
  Needed,       \* versions of the .deb's package that an installed package allows
  Refused       \* versions that it is in conflict with

\* Fields of a control file are sequences of relations; "or" says that | follows, and
\* readable whether libapt can parse it.
Relation(n, versions, or) == [name |-> n, versions |-> versions, or |-> or, readable |-> TRUE]

IsField(f) ==
  f \in Seq(ToSet(f)) /\ \A r \in ToSet(f) : r.or \in BOOLEAN /\ r.readable \in BOOLEAN

ASSUME DebCheckAssumption ==
  /\ \A x \in Debs : x.arch \in {"native", "all", "foreign", "other"} /\ IsField(x.depends) /\ IsField(x.conflicts)
  /\ ArchAll \subseteq Packages
  /\ DOMAIN Variant \subseteq Packages /\ Variant \in [DOMAIN Variant -> Packages]
  /\ MultiArch \in [DOMAIN Variant -> {"no", "same", "foreign", "allowed"}]
  /\ DOMAIN Needed = Installed /\ DOMAIN Refused = Installed

VARIABLES
  deb,      \* m_debFile
  stage,    \* "open", then "refused" or "offered", then "done"
  system    \* history: what the commit of the dependencies comes to

debVars == <<deb, stage, system>>

-----------------------------------------------------------------------------
(* Fields *)

\* What ParseDepends gets to: it stops at what it cannot parse.
Parsed(field) ==
  LET bad == SelectInSeq(field, LAMBDA r : ~r.readable)
  IN  IF bad = 0 THEN field ELSE SubSeq(field, 1, bad - 1)

\* DependencyInfo::parseDepends: groups of alternatives.
ParseDepends(field) ==
  FoldLeft(LAMBDA acc, r :
             [hadOr  |-> r.or,
              groups |-> IF acc.hadOr THEN Append(Front(acc.groups), Append(Last(acc.groups), r))
                                      ELSE Append(acc.groups, <<r>>)],
           [hadOr |-> FALSE, groups |-> <<>>], Parsed(field)).groups

\* Backend::package(maybeAppendArchSuffix(name)): the packages of that name, one or none.
\* "all" leads libapt to the native package.
Lookup(name, checkingConflicts) ==
  IF name \notin Packages THEN {}
  ELSE IF deb.arch # "foreign" \/ name \in ArchAll THEN {name}
  ELSE IF name \notin DOMAIN Variant THEN {}
  ELSE IF MultiArch[name] = "foreign" \/ (checkingConflicts /\ MultiArch[name] = "same") THEN {name}
  ELSE {Variant[name]}

CandidateVersion(p) == IF p \in Upgradeable THEN 2 ELSE 1

-----------------------------------------------------------------------------
(* checkDeb *)

SupportedArch == deb.arch \in {"native", "all", "foreign"}

\* checkConflicts: a group is reported if its last alternative is a package, and no
\* package among them meets its relation.
CheckConflicts ==
  {p \in Packages : \E g \in ToSet(ParseDepends(deb.conflicts)) :
     /\ Lookup(Last(g).name, TRUE) = {p}
     /\ \A i \in DOMAIN g : Lookup(g[i].name, TRUE) # {} => 1 \notin g[i].versions}

\* checkBreaksSystem
CheckBreaksSystem ==
  {p \in Installed : deb.version \notin Needed[p] \/ deb.version \in Refused[p]}

\* Package::wouldBreak asks for a flag that does not change any more after the first call
\* of state(): setBackend has taken the state of all packages before anything is marked.
WouldBreak(p) == Fresh[p].mode = "install" /\ p \in Unmeetable

\* Mutant: the package is not marked.
TryAlternativeUnmarked(s, r) ==
  LET found == Lookup(r.name, FALSE) IN
  IF s.met \/ found = {} THEN s
  ELSE LET p == CHOOSE q \in found : TRUE IN
       [s EXCEPT !.met = \/ p \in Installed /\ 1 \in r.versions
                         \/ CandidateVersion(p) \in r.versions]

\* satisfyDepends, for one alternative.
TryAlternative(s, r) ==
  LET found == Lookup(r.name, FALSE) IN
  IF s.met \/ found = {} THEN s
  ELSE LET p == CHOOSE q \in found : TRUE IN
       IF p \in Installed /\ 1 \in r.versions THEN [s EXCEPT !.met = TRUE]
       ELSE IF CandidateVersion(p) \notin r.versions THEN s
       ELSE [met |-> ~WouldBreak(p), dep |-> SetInstalled(s.dep, p)]

\* Mutant: what one group has found is taken for the next one, too.
SatisfyDependsOnce ==
  FoldLeft(LAMBDA s, g : FoldLeft(TryAlternative, s, g),
           [met |-> ParseDepends(deb.depends) = <<>>, dep |-> dep], ParseDepends(deb.depends))

\* satisfyDepends ends at the first group of which no alternative can be met.
SatisfyDepends ==
  FoldLeft(LAMBDA s, g : IF ~s.met THEN s
                         ELSE FoldLeft(TryAlternative, [s EXCEPT !.met = FALSE], g),
           [met |-> TRUE, dep |-> dep], ParseDepends(deb.depends))

CheckDeb ==
  /\ stage = "open"
  /\ LET goesOn == SupportedArch /\ CheckConflicts = {} /\ CheckBreaksSystem = {}
         s      == SatisfyDepends
     IN  /\ dep' = IF goesOn THEN s.dep ELSE dep
         /\ stage' = IF goesOn /\ s.met THEN "offered" ELSE "refused"
  /\ UNCHANGED <<held, deb, system>>

-----------------------------------------------------------------------------
\* Mutant: what libapt chose itself is taken for no change.
StateChangesAsked(old, excluded) ==
  LET changed == {p \in Packages \ excluded : State(dep, held, p) # old[p] /\ Shown(dep, p) # "ToKeep" /\ ~dep[p].auto}
  IN  [p \in changed |-> IF Shown(dep, p) = "ToPurge" THEN "ToRemove" ELSE Shown(dep, p)]

\* Backend::stateChanges, with one flag for each package; what has none is left out.
StateChanges(old, excluded) ==
  LET changed == {p \in Packages \ excluded : State(dep, held, p) # old[p] /\ Shown(dep, p) # "ToKeep"}
  IN  [p \in changed |-> IF Shown(dep, p) = "ToPurge" THEN "ToRemove" ELSE Shown(dep, p)]

\* What Backend::package finds under the name of the .deb: the native package, of
\* whatever architecture the .deb is.
Namesake == {deb.name} \cap Packages

\* The details that DebViewer shows of an offer; the state it compares with is that of
\* setBackend.
Details == StateChanges(CacheState(Fresh, {}), Namesake)

\* installDebFile, if the commit of the dependencies is not cancelled and no download
\* fails.  The .deb follows (see Frontends).
InstallDebFile ==
  /\ stage = "offered" /\ stage' = "done"
  /\ system' = IF MarkedPackages = {} THEN Fresh ELSE CommitDone
  /\ UNCHANGED <<markVars, deb>>

DebInit == MarkInit /\ deb \in Debs /\ stage = "open" /\ system = Fresh

DebNext == CheckDeb \/ InstallDebFile

DebSpec == DebInit /\ [][DebNext]_<<markVars, debVars>>

-----------------------------------------------------------------------------
(* Properties *)

\* The alternatives of a group begin behind the last relation that is not followed
\* by |, or at the front.
Alternatives(field, i) ==
  {j \in DOMAIN field : \A k \in (IF i < j THEN i..(j - 1) ELSE j..(i - 1)) : field[k].or}

Version(d, p) == IF d[p].mode = "install" THEN CandidateVersion(p) ELSE 1

\* What a dependency asks for is there, by the marks d.
Met(d, r) == \E p \in Lookup(r.name, FALSE) : Present(d, p) /\ Version(d, p) \in r.versions

Found(r) ==
  \E p \in Lookup(r.name, FALSE) :
    \/ p \in Installed /\ 1 \in r.versions
    \/ CandidateVersion(p) \in r.versions

\* The installed version was allowed, and the package is upgraded for another relation.
Outdated(d, r) ==
  \E p \in Lookup(r.name, FALSE) : p \in Installed /\ 1 \in r.versions /\ d[p].mode = "install"

\* The .deb asks for nothing that cannot be installed.
AsksForInstallable ==
  \A r \in ToSet(Parsed(deb.depends)) : \A p \in Lookup(r.name, FALSE) : Installable(p)

\* Of a .deb that is offered for installation, all that was read of Depends is there
\* once its additional packages are installed, and nothing is broken: through the
\* marks, the list that is sent, and the worker's marks in another order.  Only what an
\* installed version met may have been upgraded for another group, in which the search
\* does not look back; and all this is so of a .deb that asks for nothing that cannot be
\* installed, since nobody notices that it cannot.
OfferedIsMet ==
  stage = "done" /\ AsksForInstallable =>
    LET field == Parsed(deb.depends)
    IN  /\ Committable(system)
        /\ \A i \in DOMAIN field : \E j \in Alternatives(field, i) :
             Met(system, field[j]) \/ Outdated(system, field[j])

\* A .deb without a Conflicts field is offered if and only if its architecture is
\* known, it breaks no installed package, and for each of its dependencies there is a
\* package, of any alternative, in a version that is allowed.
VerdictIsRight ==
  stage # "open" /\ deb.conflicts = <<>> =>
    LET field == Parsed(deb.depends)
    IN  stage \in {"offered", "done"} <=>
          /\ deb.arch # "other"
          /\ \A p \in Installed : deb.version \in Needed[p] \ Refused[p]
          /\ \A i \in DOMAIN field : \E j \in Alternatives(field, i) : Found(field[j])

\* Whatever the commit of the dependencies changes was in the details that the user
\* could look at, as what it becomes, but for the package that has the .deb's name: with
\* a .deb of a foreign architecture that is not its own package, and left out as well.
DetailsAreComplete ==
  stage = "done" =>
    \A p \in Packages \ Namesake :
      Shown(system, p) # "ToKeep" => p \in DOMAIN Details /\ Details[p] = Shown(system, p)

\* DebInstaller.cpp:241: of a .deb that is offered "all dependencies are satisfied", or
\* will be, in the end as well.
OfferedStaysMet ==
  stage = "done" /\ AsksForInstallable =>
    LET field == Parsed(deb.depends)
    IN  \A i \in DOMAIN field : \E j \in Alternatives(field, i) : Met(system, field[j])

\* DebInstaller.cpp:241: "Error: Cannot satisfy dependencies" is the verdict on a .deb
\* of which a dependency cannot be met.
OfferedCanBeMet ==
  stage \in {"offered", "done"} =>
    LET field == Parsed(deb.depends)
    IN  \A i \in DOMAIN field : \E j \in Alternatives(field, i) :
          \E p \in Lookup(field[j].name, FALSE) : p \notin Unmeetable

\* DebInstaller.cpp:251: "Requires the installation of %1 additional package", which
\* are installed then.
AdditionalAreInstalled ==
  stage = "done" => \A p \in MarkedPackages : Shown(system, p) = Shown(dep, p)

\* checkConflicts finds the installed packages that the .deb is in conflict with.
ConflictsAreFound ==
  stage \in {"offered", "done"} =>
    \A r \in ToSet(Parsed(deb.conflicts)) :
      \A p \in Lookup(r.name, TRUE) \cap Installed : 1 \notin r.versions
=============================================================================
