----------------------------- MODULE Selections -----------------------------
(***************************************************************************)
(* Backend::saveSelections, saveInstalledPackagesList and loadSelections   *)
(* (src/backend.cpp): marks on their way through a text file into another  *)
(* cache, of this program or another one, over the marks of PackageMarks.  *)
(***************************************************************************)
EXTENDS PackageMarks

CONSTANTS
  Bare,        \* Bare[p]: Package::name(), without the architecture; an element of
               \* Packages is what FindPkg finds under it, for another name it finds nothing
  OtherFiles,  \* what others may have written: see Actions
  HashOrders   \* orders in which a hash table may have the names of a file

\* A file has one word for each of some names, of packages or not.
Actions == {"install", "deinstall", "purge"}

ASSUME SelectionsAssumption ==
  /\ \A p \in Packages : Bare[p] \in Packages => Bare[Bare[p]] = Bare[p]
  /\ \A f \in OtherFiles : \A n \in DOMAIN f : f[n] \in Actions
  /\ \A order \in HashOrders :
       /\ order \in Seq(ToSet(order)) /\ IsInjective(order)
       /\ Packages \cup {Bare[p] : p \in Packages} \subseteq ToSet(order)
       /\ \A f \in OtherFiles : DOMAIN f \subseteq ToSet(order)

VARIABLES
  file,   \* content of the file
  saved   \* history: the marks that saveSelections wrote, <<>> if the file is not its
          \* own or something was broken

selVars == <<file, saved>>

SelInit == MarkInit /\ file \in OtherFiles /\ saved = <<>>

-----------------------------------------------------------------------------
ShownMarks(d) == [p \in Packages |-> Shown(d, p)]

ToInstall == {p \in Packages : dep[p].mode = "install"}
ToRemove  == {p \in Packages : Shown(dep, p) \in {"ToRemove", "ToPurge"}}

\* Packages of one name have a line each; of these the last one is read.
LastOf(S) ==
  CHOOSE p \in S :
    \A q \in S : \E i, j \in DOMAIN CacheOrder : CacheOrder[i] = p /\ CacheOrder[j] = q /\ j <= i

EntryOf(S, n) == LastOf({p \in S : Bare[p] = n})

\* Nothing is written if nothing is marked.
SaveSelections ==
  LET marked == ToInstall \cup ToRemove
  IN  /\ marked # {}
      /\ file' = [n \in {Bare[p] : p \in marked} |->
                    IF EntryOf(marked, n) \in ToInstall THEN "install" ELSE "deinstall"]
      /\ saved' = IF Broken(dep) = {} THEN ShownMarks(dep) ELSE <<>>
      /\ UNCHANGED markVars

SaveInstalledPackagesList ==
  /\ Installed # {}
  /\ file' = [n \in {Bare[p] : p \in Installed} |-> "install"]
  /\ saved' = <<>>
  /\ UNCHANGED markVars

\* pkgProblemResolver::Resolve: what lacks something is removed, and what needs it,
\* unless it is protected.
Resolved(d, protected) ==
  MarkDelete(d, Needing(d, Broken(d)) \ protected, FALSE)

\* Mutant: of the words for a removal only Synaptic's purge is known.
AppliedPurges(d, p, action) ==
  IF action # "install" THEN IF action = "purge" THEN MarkDelete(d, {p}, TRUE) ELSE d
  ELSE IF p \in Installed THEN d
  ELSE MarkInstall(d, {p}, TRUE)

\* An installed package is not marked for an installation.
Applied(d, p, action) ==
  IF action # "install" THEN MarkDelete(d, {p}, action = "purge")
  ELSE IF p \in Installed THEN d
  ELSE MarkInstall(d, {p}, TRUE)

\* The entries are taken in the order of a hash table; a name that is not known ends it.
LoadEntry(s, n) ==
  IF s.ended \/ n \notin DOMAIN file THEN s
  ELSE IF n \notin Packages THEN [s EXCEPT !.ended = TRUE]
  ELSE [s EXCEPT !.marks = Applied(s.marks, n, file[n])]

\* What is marked already when it ends is not taken back.
LoadSelections ==
  /\ DOMAIN file # {}
  /\ \E order \in HashOrders :
       LET s == FoldLeft(LoadEntry, [ended |-> FALSE, marks |-> dep], order)
       IN  dep' = IF s.ended THEN s.marks ELSE Resolved(s.marks, DOMAIN file)
  /\ UNCHANGED <<held, selVars>>

\* reloadCache, or another program.
NewCache ==
  /\ dep' = Fresh /\ held' = {}
  /\ UNCHANGED selVars

SelNext ==
  \/ Marking /\ UNCHANGED selVars
  \/ SaveSelections \/ SaveInstalledPackagesList \/ LoadSelections \/ NewCache

SelSpec == SelInit /\ [][SelNext]_<<markVars, selVars>>

-----------------------------------------------------------------------------
(* Properties *)

\* All that was marked is what is found under its name.
NoneForeign == \A p \in Packages : saved[p] # "ToKeep" => Bare[p] = p

\* Loading what saveSelections wrote, in any order of its lines, marks in a new cache
\* the new packages that were marked, and for removal those that were, unless something
\* was broken or a package of a foreign architecture was marked.  An upgrade or a
\* reinstallation is not kept, and a purge becomes a removal.
SelectionsAreKept ==
  [][dep = Fresh /\ saved # <<>> /\ NoneForeign /\ LoadSelections =>
       \A p \in Packages :
         saved[p] # "ToReInstall" =>
           /\ Shown(dep', p) = "NewInstall" <=> saved[p] = "NewInstall"
           /\ Shown(dep', p) = "ToRemove" <=> saved[p] \in {"ToRemove", "ToPurge"}]_<<markVars, selVars>>

\* The same of any packages.  It is not so: the line of a foreign package has the name
\* without the architecture (backend.cpp:1346, package.cpp:218), under which loadSelections
\* finds the native one (backend.cpp:1420), or nothing.
ForeignAreKept ==
  [][dep = Fresh /\ saved # <<>> /\ LoadSelections =>
       \A p \in Packages : Shown(dep', p) = "NewInstall" <=> saved[p] = "NewInstall"]_<<markVars, selVars>>

\* "Writes a list of packages that have been marked for install, removal or upgrade"
\* (backend.h:737), which loadSelections "applies" (backend.h:753): so for upgrades.
UpgradesAreKept ==
  [][dep = Fresh /\ saved # <<>> /\ LoadSelections =>
       \A p \in Packages : saved[p] = "ToUpgrade" => Shown(dep', p) = "ToUpgrade"]_<<markVars, selVars>>
=============================================================================
