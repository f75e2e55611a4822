---------------------------- MODULE PackageMarks ----------------------------
(***************************************************************************)
(* What an application intends to do with the packages: the marks that     *)
(* Package's setters (src/package.cpp) and Backend's marking slots         *)
(* (src/backend.cpp) make in libapt's dependency cache, what restoring a   *)
(* saved state does to them, and the list that commitChanges makes of them *)
(* for the worker, which marks a fresh cache accordingly                   *)
(* (AptWorker::markChanges, src/worker/aptworker.cpp).                     *)
(*                                                                         *)
(* libapt is external.  Packages require packages; there are no conflicts, *)
(* no residual configurations and one candidate version for each package.  *)
(***************************************************************************)
EXTENDS FiniteSets, SequencesExt

CONSTANTS
  Packages,
  CacheOrder, NameOrder,    \* the packages, as d->packages and as QVariantMap has them
  Installed, Upgradeable,
  AutoInstalled,            \* installed as dependencies
  Requires,                 \* Requires[p]: packages that p needs
  Used                      \* what the application calls, of Operations

Operations == {"setInstall", "setRemove", "setPurge", "setReInstall", "setKeep",
               "setAuto", "setAutoNew", "markUpgrade", "upgrade", "distUpgrade",
               "autoRemove"}

IsOrder(s) == s \in Seq(Packages) /\ Len(s) = Cardinality(Packages) /\ ToSet(s) = Packages

ASSUME ConstantsAssumption ==
  /\ IsFiniteSet(Packages)
  /\ IsOrder(CacheOrder) /\ IsOrder(NameOrder)
  /\ Upgradeable \subseteq Installed /\ AutoInstalled \subseteq Installed
  /\ Installed \subseteq Packages
  /\ Requires \in [Packages -> SUBSET Packages]
  /\ \A p \in Installed : Requires[p] \subseteq Installed
  /\ Used \subseteq Operations

VARIABLES
  dep,   \* libapt's mark of each package
  held   \* the packages with IsManuallyHeld in d->state

markVars == <<dep, held>>

Marks == [mode : {"keep", "install", "delete"},
          reinstall : BOOLEAN, purge : BOOLEAN, auto : BOOLEAN]

MarkTypeOK ==
  /\ dep \in [Packages -> Marks]
  /\ held \subseteq Packages

\* A cache as it is opened.
Fresh == [p \in Packages |-> [mode |-> "keep", reinstall |-> FALSE,
                              purge |-> FALSE, auto |-> p \in AutoInstalled]]

MarkInit == dep = Fresh /\ held = {}

-----------------------------------------------------------------------------
(* libapt's dependency cache *)

Present(d, p) ==
  IF p \in Installed THEN d[p].mode # "delete" ELSE d[p].mode = "install"

\* The packages that next leads to, from those of S.
Reach(S, next) ==
  {q \in Packages : \A T \in SUBSET Packages :
      S \subseteq T /\ (\A t \in T : next[t] \subseteq T) => q \in T}

Lacking(d) == [p \in Packages |-> {r \in Requires[p] : ~Present(d, r)}]

Broken(d) == {p \in Packages : Present(d, p) /\ Lacking(d)[p] # {}}

MarkKeep(d, S) ==
  [q \in Packages |->
     IF q \in S THEN [d[q] EXCEPT !.mode = "keep", !.purge = FALSE] ELSE d[q]]

MarkDelete(d, S, purge) ==
  [q \in Packages |->
     IF q \notin S THEN d[q]
     ELSE IF q \in Installed THEN [d[q] EXCEPT !.mode = "delete", !.purge = purge]
     ELSE [d[q] EXCEPT !.mode = "keep", !.purge = FALSE]]

\* MarkInstall with its dependencies.  What is in the wanted mode already is
\* left as it is; a new package is automatic unless the user asked for it.
MarkInstall(d, S, fromUser) ==
  LET wanted == Reach(S, Lacking(d))
      target(q) == IF q \in Installed \ Upgradeable THEN "keep" ELSE "install"
  IN  [q \in Packages |->
         IF q \notin wanted \/ d[q].mode = target(q) THEN d[q]
         ELSE [d[q] EXCEPT !.mode = target(q), !.purge = FALSE,
                           !.auto = IF q \in Installed THEN d[q].auto
                                    ELSE ~(fromUser /\ q \in S)]]

SetReInstall(d, p, flag) == [d EXCEPT ![p].reinstall = flag]

MarkAuto(d, p, flag) == [d EXCEPT ![p].auto = flag]

\* pkgProblemResolver::ResolveByKeep keeps what else must be kept, and no more.
KeptBack(d) ==
  LET repairs(K) == Broken(MarkKeep(d, K)) = {}
  IN  {K \in SUBSET Packages : repairs(K) /\ \A L \in SUBSET K : repairs(L) => L = K}

\* What will be there and needs one of S, with those of S.
Needing(d, S) ==
  Reach(S, [q \in Packages |-> {r \in Packages : q \in Requires[r] /\ Present(d, r)}])

\* pkgProblemResolver::Resolve, with p protected: of what is broken some is removed,
\* with all that needs it, and the rest gets what it lacks.
Settled(d, p) ==
  LET removed(S)  == MarkDelete(d, Needing(d, S), FALSE)
      resolved(S) == MarkInstall(removed(S), Broken(removed(S)), FALSE)
  IN  {e \in {resolved(S) : S \in SUBSET Broken(d)} :
         Broken(e) = {} /\ (Present(e, p) <=> Present(d, p))}

\* What will be there although it is automatic and nothing else needs it.
Garbage(d) ==
  {p \in Packages : Present(d, p)} \ Reach({p \in Packages : Present(d, p) /\ ~d[p].auto}, Requires)

-----------------------------------------------------------------------------
(* Package::state, and what can be told apart by it *)

\* The flag of a package that says what is to happen to it; order matters.
Shown(d, p) ==
  CASE d[p].reinstall -> "ToReInstall"
    [] ~d[p].reinstall /\ d[p].mode = "install" ->
         IF p \in Installed THEN "ToUpgrade" ELSE "NewInstall"
    [] ~d[p].reinstall /\ d[p].mode = "delete" ->
         IF d[p].purge THEN "ToPurge" ELSE "ToRemove"
    [] OTHER -> "ToKeep"

State(d, h, p) ==
  [mark |-> Shown(d, p), install |-> d[p].mode = "install",
   auto |-> d[p].auto, held |-> p \in h]

\* Backend::currentCacheState
CacheState(d, h) == [p \in Packages |-> State(d, h, p)]

\* Mutant: the reinstallation is not taken back.
RestoredReinstalling(state, d, p) ==
  LET old == state[p]
      marked ==
        CASE old.mark = "ToReInstall" ->
               SetReInstall(MarkInstall(d, {p}, TRUE), p, TRUE)
          [] old.mark # "ToReInstall" /\ old.install -> MarkInstall(d, {p}, TRUE)
          [] old.mark = "ToRemove" -> MarkDelete(d, {p}, FALSE)
          [] old.mark = "ToPurge" -> MarkDelete(d, {p}, TRUE)
          [] OTHER -> MarkKeep(d, {p})
  IN  MarkAuto(marked, p, old.auto)

\* Backend::restoreCacheState for one package that is not as it was; neither
\* d->state nor the dependencies it may have changed are looked at.
RestoredOne(state, d, p) ==
  LET old == state[p]
      cleared == IF d[p].reinstall /\ old.mark # "ToReInstall"
                  THEN SetReInstall(d, p, FALSE) ELSE d
      marked ==
        CASE old.mark = "ToReInstall" ->
               SetReInstall(MarkInstall(cleared, {p}, TRUE), p, TRUE)
          [] old.mark # "ToReInstall" /\ old.install -> MarkInstall(cleared, {p}, TRUE)
          [] old.mark = "ToRemove" -> MarkDelete(cleared, {p}, FALSE)
          [] old.mark = "ToPurge" -> MarkDelete(cleared, {p}, TRUE)
          [] OTHER -> MarkKeep(cleared, {p})
  IN  MarkAuto(marked, p, old.auto)

\* The marks that restoreCacheState(state) leaves, from those of d.
Restored(state, d, h) ==
  FoldLeft(LAMBDA e, p : IF State(e, h, p) = state[p] THEN e ELSE RestoredOne(state, e, p),
           d, CacheOrder)

-----------------------------------------------------------------------------
(* Backend::commitChanges and AptWorker::markChanges *)

\* The flags commitChanges looks at, "Cannot have any of these flags
\* simultaneously" (backend.cpp:1163).
StatusFlags(d, h, p) ==
  (IF p \in h THEN {"IsManuallyHeld"} ELSE {})
    \cup ({Shown(d, p)} \ {"ToKeep"})

\* Mutant: what libapt upgraded is left to the worker's libapt as well.
InstructionsOfUser(d, h, p) ==
  LET status == StatusFlags(d, h, p)
  IN  IF status = {"IsManuallyHeld"} THEN {"Held"}
      ELSE IF status \in {{"NewInstall"}, {"ToUpgrade"}} /\ d[p].auto THEN {}
      ELSE IF status = {"NewInstall"} THEN {"ToInstall"}
      ELSE IF Cardinality(status) = 1 THEN status
      ELSE {}

\* The instruction for one package; for no combination of flags there is one,
\* and new packages that libapt chose are left to the worker's libapt.
Instructions(d, h, p) ==
  LET status == StatusFlags(d, h, p)
  IN  IF status = {"IsManuallyHeld"} THEN {"Held"}
      ELSE IF status = {"NewInstall"} THEN IF d[p].auto THEN {} ELSE {"ToInstall"}
      ELSE IF Cardinality(status) = 1 THEN status
      ELSE {}

Listed(d, h) == {p \in Packages : Instructions(d, h, p) # {}}

CommitList(d, h) ==
  [p \in Listed(d, h) |-> CHOOSE i \in Instructions(d, h, p) : TRUE]

\* markChanges, for one entry.  The resolver it prepares is never run.
Marked(d, p, instruction) ==
  CASE instruction = "Held" -> SetReInstall(MarkKeep(d, {p}), p, FALSE)
    [] instruction = "ToUpgrade" -> MarkInstall(d, {p}, ~d[p].auto)
    [] instruction = "ToInstall" -> MarkInstall(d, {p}, TRUE)
    [] instruction = "ToReInstall" -> SetReInstall(d, p, TRUE)
    [] instruction = "ToRemove" -> MarkDelete(SetReInstall(d, p, FALSE), {p}, FALSE)
    [] instruction = "ToPurge" -> MarkDelete(SetReInstall(d, p, FALSE), {p}, TRUE)

\* The marks of the worker that was sent the list.
WorkerMarks(list) ==
  FoldLeft(LAMBDA d, p : IF p \in DOMAIN list THEN Marked(d, p, list[p]) ELSE d,
           Fresh, NameOrder)

-----------------------------------------------------------------------------
(* The setters of Package *)

SetInstall(p) ==
  /\ "setInstall" \in Used
  /\ dep' \in Settled(MarkInstall(dep, {p}, TRUE), p)
  /\ held' = held \ {p}

Removing(p, purge) ==
  /\ dep' \in Settled(MarkDelete(SetReInstall(dep, p, FALSE), {p}, purge), p)
  /\ held' = held \ {p}

SetRemove(p) == "setRemove" \in Used /\ Removing(p, FALSE)

SetPurge(p) == "setPurge" \in Used /\ Removing(p, TRUE)

\* Only what is installed can be reinstalled.
SetReInstalled(p) ==
  /\ "setReInstall" \in Used
  /\ p \in Installed
  /\ dep' = SetReInstall(dep, p, TRUE)
  /\ held' = held \ {p}

SetKeep(p) ==
  /\ "setKeep" \in Used
  /\ LET kept == SetReInstall(MarkKeep(dep, {p}), p, FALSE)
     IN  \E K \in KeptBack(kept) : dep' = MarkKeep(kept, K)
  /\ held' = held \cup {p}

SetAuto(p) ==
  /\ (IF p \in Installed THEN "setAuto" ELSE "setAutoNew") \in Used
  /\ \E flag \in BOOLEAN : dep' = MarkAuto(dep, p, flag)
  /\ UNCHANGED held

-----------------------------------------------------------------------------
(* The marking slots of Backend *)

\* markPackages, for one package of its list; it calls the setters of Package
\* under conditions, and for an upgrade libapt itself.
MarkPackages(p) ==
  \/ /\ p \notin Installed \/ p \in Upgradeable
     /\ SetInstall(p)
  \/ /\ p \in Installed
     /\ SetRemove(p) \/ SetPurge(p)
  \/ /\ "markUpgrade" \in Used
     /\ dep' = MarkInstall(dep, {p}, ~dep[p].auto)
     /\ UNCHANGED held
  \/ /\ p \in Installed \ Upgradeable
     /\ SetReInstalled(p)
  \/ SetKeep(p)

MarkPackagesForUpgrade ==
  /\ "upgrade" \in Used
  /\ dep' = MarkInstall(dep, {p \in Upgradeable : Present(dep, p)}, FALSE)
  /\ UNCHANGED held

MarkPackagesForDistUpgrade ==
  /\ "distUpgrade" \in Used
  /\ dep' = MarkInstall(dep, Installed, FALSE)
  /\ UNCHANGED held

MarkPackagesForAutoRemove ==
  /\ "autoRemove" \in Used
  /\ dep' = MarkDelete(dep, Garbage(dep) \cap Installed, FALSE)
  /\ UNCHANGED held

Marking ==
  \/ \E p \in Packages :
       \/ SetInstall(p) \/ SetRemove(p) \/ SetPurge(p) \/ SetReInstalled(p)
       \/ SetKeep(p) \/ SetAuto(p) \/ MarkPackages(p)
  \/ MarkPackagesForUpgrade \/ MarkPackagesForDistUpgrade \/ MarkPackagesForAutoRemove

MarkSpec == MarkInit /\ [][Marking]_markVars

-----------------------------------------------------------------------------
(* Properties *)

\* A new package that was chosen for another one that is no longer wanted.
LeftOver(p) ==
  /\ Shown(dep, p) = "NewInstall" /\ dep[p].auto
  /\ p \notin Reach({q \in Packages : /\ Present(dep, q)
                                      /\ q \in Installed \/ ~dep[q].auto}, Requires)

\* What the user sees is what a commit does: whatever was marked, in whatever
\* order, the worker comes to the same marks from the list it is sent, although
\* that has neither the order nor the automatic packages.  Left-over automatic
\* packages aside, and where no package is both held and marked, and nothing that is
\* wanted broken: markPackages(ToUpgrade) and the slots for all packages, other than
\* the setters, do not have the resolver settle what an automatic removal broke.
CommitDoesWhatIsShown ==
  (\A p \in held : Shown(dep, p) = "ToKeep") /\ (\A p \in Broken(dep) : LeftOver(p))
    => LET worker == WorkerMarks(CommitList(dep, held))
       IN  \A p \in Packages : LeftOver(p) \/ Shown(worker, p) = Shown(dep, p)

\* "Starts a transaction which will commit all pending package state changes
\* that have been made to the backend" (backend.h:621): no package that the user
\* marked is missing from the list.
PendingIsCommitted ==
  \A p \in Packages :
    Shown(dep, p) # "ToKeep" /\ ~(Shown(dep, p) = "NewInstall" /\ dep[p].auto)
      => p \in DOMAIN CommitList(dep, held)

=============================================================================
