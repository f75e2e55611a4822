--------------------------- MODULE CommitOutcome ----------------------------
(***************************************************************************)
(* What becomes of marks that are committed, over those of PackageMarks,   *)
(* if nobody cancels and no download fails: all or nothing, and nothing    *)
(* with a package that cannot be installed at all.                         *)
(***************************************************************************)
EXTENDS PackageMarks

CONSTANT Unmeetable   \* new packages of which a dependency cannot be met

ASSUME UnmeetableAssumption == Unmeetable \subseteq Packages \ Installed

\* Whether the worker can commit marks: libapt finds nothing broken.
Committable(d) == Broken(d) = {} /\ \A p \in Unmeetable : ~Present(d, p)

\* Whether a package can be installed, with all that it needs.
Installable(p) == Reach({p}, Requires) \cap Unmeetable = {}

\* Package::setInstall, where nothing is broken but what cannot be installed: of that
\* the resolver, which protects p, gives up what p does not need, with what needs it.
SetInstalled(d, p) ==
  LET marked   == MarkInstall(d, {p}, TRUE)
      hopeless == {q \in Unmeetable : Present(marked, q) /\ p \notin Needing(marked, {q})}
  IN  MarkDelete(marked, Needing(marked, hopeless), FALSE)

\* Backend::markedPackages
MarkedPackages == {p \in Packages : dep[p].mode = "install" \/ Shown(dep, p) # "ToKeep"}

\* The marks that the worker has carried out.
CommitDone ==
  LET worker == WorkerMarks(CommitList(dep, held))
  IN  IF Committable(worker) THEN worker ELSE Fresh
=============================================================================
