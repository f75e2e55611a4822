---------------------------- MODULE ChoicesProofs ----------------------------
(***************************************************************************)
(* Proofs about the ways to marks: the requests for plugins, the           *)
(* dependencies of a .deb and the file of selections, for any packages,    *)
(* requirements, requests, fields and files, and the choice of versions,   *)
(* for any number of versions and any phases.                              *)
(*                                                                         *)
(* What the first two mark is whole: nothing of it is broken, and all of   *)
(* it is needed by what the user asked for, so that the worker comes to    *)
(* the same marks (UndoHistoryProofs).  Every loop of the code that goes   *)
(* through a list is a fold; what it comes to is an induction over the     *)
(* list (FoldFacts).                                                       *)
(***************************************************************************)
EXTENDS Choices, UndoHistoryProofs

USE DEF Cache

-----------------------------------------------------------------------------
(* Marks that only bring in packages *)

\* Marks that install, and nothing else, with all that is needed, and nothing that
\* is not needed.
Whole(d) ==
  /\ d \in SoundCache
  /\ Broken(d) = {}
  /\ \A q \in Packages : /\ d[q].mode # "delete" /\ ~d[q].reinstall
                         /\ Present(d, q) => q \in Wanted(d)

\* What remains of that when the resolver gives something up.
Steady(d) ==
  /\ d \in SoundCache
  /\ Broken(d) = {}
  /\ \A q \in Packages : d[q].mode # "delete" /\ ~d[q].reinstall

\* Whole marks with nothing that cannot be installed.
Fine(d) == Whole(d) /\ \A q \in Unmeetable : d[q].mode # "install"

\* What is marked for its installation stays so.
Grown(d, new) == \A q \in Packages : d[q].mode = "install" => new[q].mode = "install"

LEMMA FreshWhole == Whole(Fresh)
<1>1. Fresh \in SoundCache
  BY FreshFacts DEF SoundCache
<1>2. \A q \in Packages : Fresh[q].mode = "keep" /\ Fresh[q].reinstall = FALSE
  BY DEF Fresh
<1>3. \A q \in Packages : Present(Fresh, q) <=> q \in Installed
  BY <1>2 DEF Present
<1>4. Broken(Fresh) = {}
  <2> SUFFICES ASSUME NEW q \in Packages, Present(Fresh, q), NEW r \in Lacking(Fresh)[q] PROVE FALSE
    BY DEF Broken
  <2>1. q \in Installed /\ r \in Requires[q] /\ ~Present(Fresh, r)
    BY <1>3 DEF Lacking
  <2>2. r \in Installed /\ r \in Packages
    BY <2>1, ConstantsAssumption
  <2> QED BY <1>3, <2>1, <2>2
<1>5. ASSUME NEW q \in Packages, Present(Fresh, q) PROVE q \in Wanted(Fresh)
  <2>1. q \in Roots(Fresh)
    BY <1>3, <1>5 DEF Roots
  <2> QED BY <2>1, ReachSelf DEF Wanted
<1> QED BY <1>1, <1>2, <1>4, <1>5 DEF Whole

\* MarkInstall leaves alone what is new and marked, and what the user asks for is not
\* automatic.
LEMMA InstallAuto ==
  ASSUME NEW d \in Cache, NEW p \in Packages, NEW q \in Packages, q \notin Installed
  PROVE  /\ d[q].mode = "install" => MarkInstall(d, {p}, TRUE)[q] = d[q]
         /\ d[p].mode # "install" /\ p = q => ~MarkInstall(d, {p}, TRUE)[q].auto
<1> DEFINE wanted == Reach({p}, Lacking(d))
           changed == [d[q] EXCEPT !.mode = "install", !.purge = FALSE, !.auto = ~(q = p)]
<1>1. MarkInstall(d, {p}, TRUE)[q] = IF q \notin wanted \/ d[q].mode = "install" THEN d[q]
       ELSE [d[q] EXCEPT !.mode = "install", !.purge = FALSE, !.auto = ~(TRUE /\ q \in {p})]
  BY DEF MarkInstall
<1>2. (TRUE /\ q \in {p}) = (q = p)
  OBVIOUS
<1>3. MarkInstall(d, {p}, TRUE)[q] = IF q \notin wanted \/ d[q].mode = "install" THEN d[q] ELSE changed
  BY <1>1, <1>2
<1>4. changed.auto = ~(q = p)
  BY DEF Marks
<1>5. p \in wanted
  BY ReachSelf
<1> HIDE DEF wanted, changed
<1> QED BY <1>3, <1>4, <1>5

\* More reach more.
LEMMA ReachMore ==
  ASSUME NEW S, NEW T, S \subseteq T, NEW to, NEW q \in Reach(S, to)
  PROVE  q \in Reach(T, to)
BY DEF Reach

\* Installing a package keeps the marks steady.
LEMMA InstallSteady ==
  ASSUME NEW d, Steady(d), NEW p \in Packages
  PROVE  /\ Steady(MarkInstall(d, {p}, TRUE)) /\ Grown(d, MarkInstall(d, {p}, TRUE))
         /\ Present(MarkInstall(d, {p}, TRUE), p)
         /\ p \notin Installed \ Upgradeable => MarkInstall(d, {p}, TRUE)[p].mode = "install"
         /\ \A q \in Packages : Present(d, q) => Present(MarkInstall(d, {p}, TRUE), q)
         /\ \A q \in Packages : q \in Reach({p}, Lacking(d)) \/ MarkInstall(d, {p}, TRUE)[q] = d[q]
<1> DEFINE new == MarkInstall(d, {p}, TRUE)
           pulled == Reach({p}, Lacking(d))
<1>1. d \in Cache /\ AllSound(d)
  BY DEF Steady, SoundCache
<1>2. new \in SoundCache
  BY <1>1, InstallFacts DEF SoundCache
<1>3. ASSUME NEW q \in Packages
      PROVE  /\ new[q].reinstall = d[q].reinstall
             /\ q \notin pulled => new[q] = d[q]
             /\ q \in pulled => new[q].mode = IF q \in Installed \ Upgradeable THEN "keep" ELSE "install"
  <2>1. \A u \in BOOLEAN :
          /\ MarkInstall(d, {p}, u)[q].reinstall = d[q].reinstall
          /\ q \notin pulled => MarkInstall(d, {p}, u)[q] = d[q]
          /\ q \in pulled => MarkInstall(d, {p}, u)[q].mode = IF q \in Installed \ Upgradeable THEN "keep" ELSE "install"
    BY <1>1, InstallEffect
  <2>2. TRUE \in BOOLEAN
    OBVIOUS
  <2> HIDE DEF pulled
  <2> QED BY <2>1, <2>2
<1>4. p \in pulled
  BY ReachSelf
<1>7. \A q \in Packages : d[q].mode # "delete" /\ ~d[q].reinstall
  BY DEF Steady
<1> HIDE DEF new
<1>8. ASSUME NEW q \in pulled, q \in Packages PROVE Present(new, q) /\ new[q].mode # "delete"
  BY <1>3, <1>8 DEF Present
<1>9. ASSUME NEW q \in Packages, Present(d, q) PROVE Present(new, q)
  <2>1. CASE q \in pulled
    BY <1>8, <2>1
  <2>2. CASE q \notin pulled
    BY <1>3, <1>9, <2>2 DEF Present
  <2> QED BY <2>1, <2>2
<1>10. Grown(d, new)
  <2> SUFFICES ASSUME NEW q \in Packages, d[q].mode = "install" PROVE new[q].mode = "install"
    BY DEF Grown
  <2>1. q \notin Installed \ Upgradeable
    BY <1>1 DEF AllSound, Sound
  <2> HIDE DEF pulled
  <2> QED BY <1>3, <2>1
<1>11. ASSUME NEW q \in Packages, Present(new, q), NEW r \in Lacking(new)[q] PROVE FALSE
  <2>1. r \in Requires[q] /\ ~Present(new, r) /\ r \in Packages
    BY ConstantsAssumption DEF Lacking
  <2>2. ~Present(d, r) /\ r \in Lacking(d)[q]
    BY <1>9, <2>1 DEF Lacking
  <2>3. CASE q \in pulled
    <3>1. r \in pulled
      BY <2>1, <2>2, <2>3, ReachClosed
    <3> QED BY <1>8, <2>1, <3>1
  <2>4. CASE q \notin pulled
    <3>1. Present(d, q)
      BY <1>3, <1>11, <2>4 DEF Present
    <3>2. q \in Broken(d)
      BY <2>2, <3>1 DEF Broken
    <3> QED BY <3>2 DEF Steady
  <2> QED BY <2>3, <2>4
<1>12. Broken(new) = {}
  BY <1>11 DEF Broken
<1>17. ASSUME NEW q \in Packages
       PROVE  new[q].mode # "delete" /\ ~new[q].reinstall /\ (q \in pulled \/ new[q] = d[q])
  BY <1>3, <1>7, <1>8
<1>18. Steady(new)
  BY <1>2, <1>12, <1>17 DEF Steady
<1>19. p \notin Installed \ Upgradeable => new[p].mode = "install"
  <2> HIDE DEF pulled
  <2> QED BY <1>3, <1>4
<1> QED BY <1>4, <1>8, <1>9, <1>10, <1>17, <1>18, <1>19 DEF new, pulled

\* Installing a package keeps the marks whole.
LEMMA InstallWhole ==
  ASSUME NEW d, Whole(d), NEW p \in Packages
  PROVE  /\ Whole(MarkInstall(d, {p}, TRUE)) /\ Grown(d, MarkInstall(d, {p}, TRUE))
         /\ Present(MarkInstall(d, {p}, TRUE), p)
         /\ p \notin Installed \ Upgradeable => MarkInstall(d, {p}, TRUE)[p].mode = "install"
<1> DEFINE new == MarkInstall(d, {p}, TRUE)
           pulled == Reach({p}, Lacking(d))
<1>1. d \in Cache /\ AllSound(d)
  BY DEF Whole, SoundCache
<1>2. new \in SoundCache
  BY <1>1, InstallFacts DEF SoundCache
<1>3. ASSUME NEW q \in Packages
      PROVE  /\ new[q].reinstall = d[q].reinstall
             /\ q \notin pulled => new[q] = d[q]
             /\ q \in pulled => new[q].mode = IF q \in Installed \ Upgradeable THEN "keep" ELSE "install"
             /\ q \notin Installed /\ d[q].mode = "install" => new[q] = d[q]
  <2>1. /\ new[q].reinstall = d[q].reinstall
        /\ q \notin pulled => new[q] = d[q]
        /\ q \in pulled => new[q].mode = IF q \in Installed \ Upgradeable THEN "keep" ELSE "install"
    <3>1. \A u \in BOOLEAN :
            /\ MarkInstall(d, {p}, u)[q].reinstall = d[q].reinstall
            /\ q \notin pulled => MarkInstall(d, {p}, u)[q] = d[q]
            /\ q \in pulled => MarkInstall(d, {p}, u)[q].mode = IF q \in Installed \ Upgradeable THEN "keep" ELSE "install"
      BY <1>1, InstallEffect
    <3>2. TRUE \in BOOLEAN
      OBVIOUS
    <3> HIDE DEF pulled
    <3> QED BY <3>1, <3>2
  <2>2. q \notin Installed /\ d[q].mode = "install" => new[q] = d[q]
    BY <1>1, InstallAuto
  <2> HIDE DEF new, pulled
  <2> QED BY <2>1, <2>2
<1>4. p \in pulled
  BY ReachSelf
<1>5. pulled \subseteq Packages
  BY DEF Reach
<1>6. p \notin Installed /\ d[p].mode # "install" => ~new[p].auto
  BY <1>1, InstallAuto
<1>7. \A q \in Packages : d[q].mode # "delete" /\ ~d[q].reinstall
  BY DEF Whole
<1> HIDE DEF new
<1>8. ASSUME NEW q \in pulled, q \in Packages PROVE Present(new, q) /\ new[q].mode # "delete"
  BY <1>3, <1>8 DEF Present
<1>9. /\ Steady(new) /\ Grown(d, new) /\ Present(new, p)
      /\ p \notin Installed \ Upgradeable => new[p].mode = "install"
      /\ \A q \in Packages : Present(d, q) => Present(new, q)
  BY InstallSteady DEF Whole, Steady, new
<1>13. Roots(d) \subseteq Roots(new)
  <2> SUFFICES ASSUME NEW q \in Roots(d) PROVE q \in Roots(new)
    OBVIOUS
  <2>1. q \in Packages /\ Present(d, q) /\ (q \in Installed \/ ~d[q].auto)
    BY DEF Roots
  <2>2. Present(new, q)
    BY <1>9, <2>1
  <2>3. q \notin Installed => new[q] = d[q]
    BY <1>3, <2>1 DEF Present
  <2> QED BY <2>1, <2>2, <2>3 DEF Roots
<1>14. ASSUME NEW q \in Packages, Present(d, q) PROVE q \in Wanted(new)
  <2>1. q \in Wanted(d)
    BY <1>14 DEF Whole
  <2> QED BY <1>13, <2>1, ReachMore DEF Wanted
<1>15. p \in Wanted(new)
  <2>1. CASE Present(d, p)
    BY <1>14, <2>1
  <2>2. CASE ~Present(d, p)
    <3>1. p \notin Installed /\ d[p].mode # "install"
      BY <1>7, <2>2 DEF Present
    <3>2. p \in Roots(new)
      BY <1>4, <1>6, <1>8, <3>1 DEF Roots
    <3> QED BY <3>2, ReachSelf DEF Wanted
  <2> QED BY <2>1, <2>2
<1>16. ASSUME NEW q \in pulled PROVE q \in Wanted(new)
  <2>1. Wanted(new) \subseteq Packages
    BY DEF Wanted, Reach
  <2>2. ASSUME NEW t \in Wanted(new), NEW r \in Lacking(d)[t] PROVE r \in Wanted(new)
    <3>1. t \in Packages
      BY <2>1
    <3>2. r \in Requires[t] /\ r \in Packages
      BY <3>1, ConstantsAssumption DEF Lacking
    <3> QED BY <2>2, <3>2, ReachClosed DEF Wanted
  <2>3. \A T \in SUBSET Packages :
          {p} \subseteq T /\ (\A t \in T : Lacking(d)[t] \subseteq T) => q \in T
    BY DEF Reach
  <2> HIDE DEF pulled
  <2> QED BY <1>15, <2>1, <2>2, <2>3
<1>17. ASSUME NEW q \in Packages
       PROVE  new[q].mode # "delete" /\ ~new[q].reinstall /\ (Present(new, q) => q \in Wanted(new))
  <2>1. CASE q \in pulled
    BY <1>3, <1>7, <1>8, <1>16, <2>1
  <2>2. CASE q \notin pulled
    <3>1. new[q] = d[q]
      BY <1>3, <2>2
    <3>2. Present(new, q) => Present(d, q)
      BY <3>1 DEF Present
    <3> QED BY <1>7, <1>14, <3>1, <3>2
  <2> QED BY <2>1, <2>2
<1>18. Whole(new)
  BY <1>2, <1>9, <1>17 DEF Whole, Steady
<1> QED BY <1>9, <1>18 DEF new

\* What is reached lies in every set that is closed.
LEMMA ReachLeast ==
  ASSUME NEW S, NEW to, NEW T \in SUBSET Packages, S \subseteq T, \A t \in T : to[t] \subseteq T
  PROVE  Reach(S, to) \subseteq T
BY DEF Reach

\* What the resolver gives up is nothing that is installed.
LEMMA GivenUpNew ==
  ASSUME NEW d, NEW S \in SUBSET (Packages \ Installed)
  PROVE  Needing(d, S) \subseteq Packages \ Installed
<1> DEFINE to == [q \in Packages |-> {r \in Packages : q \in Requires[r] /\ Present(d, r)}]
           T  == Packages \ Installed
<1>1. ASSUME NEW t \in T, NEW r \in to[t] PROVE r \in T
  BY ConstantsAssumption
<1>2. T \in SUBSET Packages /\ S \subseteq T /\ \A t \in T : to[t] \subseteq T
  BY <1>1
<1> HIDE DEF to, T
<1>3. Reach(S, to) \subseteq T
  BY <1>2, ReachLeast
<1> QED BY <1>3 DEF Needing, to, T

\* setInstall leaves steady marks.
LEMMA SetInstalledSteady ==
  ASSUME NEW d, Steady(d), NEW p \in Packages
  PROVE  Steady(SetInstalled(d, p))
<1> DEFINE marked   == MarkInstall(d, {p}, TRUE)
           hopeless == {q \in Unmeetable : Present(marked, q) /\ p \notin Needing(marked, {q})}
           gone     == Needing(marked, hopeless)
           new      == MarkDelete(marked, gone, FALSE)
<1>1. SetInstalled(d, p) = new
  BY DEF SetInstalled
<1>2. Steady(marked)
  BY InstallSteady
<1>3. hopeless \subseteq Packages \ Installed
  BY UnmeetableAssumption
<1> HIDE DEF marked, hopeless
<1>4. gone \subseteq Packages \ Installed
  BY <1>3, GivenUpNew
<1>5. ASSUME NEW q \in gone, NEW r \in Packages, q \in Requires[r], Present(marked, r) PROVE r \in gone
  <2> DEFINE to == [x \in Packages |-> {y \in Packages : x \in Requires[y] /\ Present(marked, y)}]
  <2>1. gone = Reach(hopeless, to)
    BY DEF Needing
  <2>2. r \in to[q]
    BY <1>4, <1>5
  <2> HIDE DEF gone, to
  <2> QED BY <1>5, <2>1, <2>2, ReachClosed
<1> HIDE DEF gone
<1>6. new \in SoundCache
  <2>1. marked \in Cache /\ AllSound(marked) /\ FALSE \in BOOLEAN
    BY <1>2 DEF Steady, SoundCache
  <2>2. new \in Cache /\ AllSound(new)
    BY <2>1, DeleteFacts
  <2> QED BY <2>2 DEF SoundCache
<1>7. ASSUME NEW q \in Packages
      PROVE  /\ q \notin gone => new[q] = marked[q]
             /\ q \in gone => new[q].mode = "keep" /\ new[q].reinstall = marked[q].reinstall
             /\ marked[q].mode # "delete" /\ ~marked[q].reinstall
  <2>1. marked[q] \in Marks
    BY <1>2 DEF Steady, SoundCache
  <2>2. new[q] = IF q \notin gone THEN marked[q]
                 ELSE [marked[q] EXCEPT !.mode = "keep", !.purge = FALSE]
    BY <1>4 DEF MarkDelete
  <2> HIDE DEF new
  <2> QED BY <1>2, <2>1, <2>2 DEF Marks, Steady
<1> HIDE DEF new
<1>8. \A q \in Packages : Present(new, q) <=> Present(marked, q) /\ q \notin gone
  BY <1>4, <1>7 DEF Present
<1>9. Broken(new) = {}
  <2> SUFFICES ASSUME NEW q \in Packages, Present(new, q), NEW r \in Lacking(new)[q] PROVE FALSE
    BY DEF Broken
  <2>1. r \in Requires[q] /\ ~Present(new, r) /\ r \in Packages /\ Present(marked, q) /\ q \notin gone
    BY <1>8, ConstantsAssumption DEF Lacking
  <2>2. Present(marked, r)
    <3>1. q \notin Broken(marked)
      BY <1>2 DEF Steady
    <3> QED BY <2>1, <3>1 DEF Broken, Lacking
  <2> QED BY <1>5, <1>8, <2>1, <2>2
<1>10. \A q \in Packages : new[q].mode # "delete" /\ ~new[q].reinstall
  BY <1>7
<1> QED BY <1>1, <1>6, <1>9, <1>10 DEF Steady

\* Where everything can be installed, setInstall is MarkInstall.
LEMMA SetInstalledFine ==
  ASSUME NEW d, Fine(d), NEW p \in Packages, Installable(p)
  PROVE  /\ Fine(SetInstalled(d, p)) /\ Grown(d, SetInstalled(d, p))
         /\ Present(SetInstalled(d, p), p)
         /\ p \notin Installed \ Upgradeable => SetInstalled(d, p)[p].mode = "install"
<1> DEFINE new == MarkInstall(d, {p}, TRUE)
           hopeless == {q \in Unmeetable : Present(new, q) /\ p \notin Needing(new, {q})}
<1>1. Whole(d) /\ Steady(d)
  BY DEF Fine, Whole, Steady
<1>2. Whole(new) /\ Grown(d, new) /\ Present(new, p) /\ (p \notin Installed \ Upgradeable => new[p].mode = "install")
  BY <1>1, InstallWhole
<1>3. Reach({p}, Lacking(d)) \subseteq Reach({p}, Requires)
  <2> DEFINE T == Reach({p}, Requires)
  <2>1. T \in SUBSET Packages /\ {p} \subseteq T
    BY ReachSelf DEF Reach
  <2>2. ASSUME NEW t \in T, NEW r \in Lacking(d)[t] PROVE r \in T
    <3>1. r \in Requires[t] /\ r \in Packages
      BY <2>1, ConstantsAssumption DEF Lacking
    <3> QED BY <3>1, ReachClosed
  <2> HIDE DEF T
  <2>3. \A t \in T : Lacking(d)[t] \subseteq T
    BY <2>2
  <2>4. Reach({p}, Lacking(d)) \subseteq T
    BY <2>1, <2>3, ReachLeast
  <2> QED BY <2>4 DEF T
<1>4. ASSUME NEW q \in Unmeetable PROVE new[q].mode # "install"
  <2>1. q \in Packages /\ q \notin Reach({p}, Lacking(d))
    BY <1>3, UnmeetableAssumption DEF Installable
  <2>2. new[q] = d[q]
    BY <1>1, <2>1, InstallSteady
  <2> QED BY <2>2 DEF Fine
<1>5. hopeless = {}
  BY <1>4, UnmeetableAssumption DEF Present
<1>6. SetInstalled(d, p) = new
  <2>1. SetInstalled(d, p) = MarkDelete(new, Needing(new, hopeless), FALSE)
    BY DEF SetInstalled
  <2> HIDE DEF hopeless
  <2>2. new \in [Packages -> Marks]
    BY <1>2 DEF Whole, SoundCache
  <2> HIDE DEF new
  <2>3. Needing(new, {}) = {}
    <3> DEFINE to == [q \in Packages |-> {r \in Packages : q \in Requires[r] /\ Present(new, r)}]
    <3>1. {} \in SUBSET Packages /\ {} \subseteq {} /\ \A t \in {} : to[t] \subseteq {}
      OBVIOUS
    <3> HIDE DEF to
    <3>2. Reach({}, to) \subseteq {}
      BY <3>1, ReachLeast
    <3> QED BY <3>2 DEF Needing, to
  <2>4. MarkDelete(new, {}, FALSE) = [q \in Packages |-> new[q]]
    BY DEF MarkDelete
  <2>5. MarkDelete(new, {}, FALSE) = new
    BY <2>2, <2>4
  <2> QED BY <1>5, <2>1, <2>3, <2>5
<1> HIDE DEF new
<1>7. Fine(new)
  BY <1>2, <1>4 DEF Fine
<1> QED BY <1>2, <1>6, <1>7

LEMMA FreshFine == Fine(Fresh)
BY FreshWhole, UnmeetableAssumption DEF Fine, Fresh

\* The worker makes the same marks of whole marks.
LEMMA CommitWhole ==
  ASSUME NEW d, Whole(d)
  PROVE  /\ Broken(WorkerMarks(CommitList(d, {}))) = {}
         /\ \A p \in Packages :
              /\ WorkerMarks(CommitList(d, {}))[p].mode = d[p].mode
              /\ Shown(WorkerMarks(CommitList(d, {})), p) = Shown(d, p)
<1> DEFINE c == WorkerMarks(CommitList(d, {}))
<1>1. d \in SoundCache /\ d \in Cache /\ Upright(d)
  BY DEF Whole, SoundCache, Upright
<1>2. Underway(d, c)
  BY <1>1, WorkerFacts
<1>3. \A p \in Packages : d[p].mode \in {"keep", "install"} /\ ~d[p].reinstall
  BY <1>1 DEF Whole, Marks
<1>4. ASSUME NEW p \in Packages PROVE Shown(c, p) = Shown(d, p)
  <2>1. \/ Shown(c, p) = Shown(d, p)
        \/ Shown(d, p) = "NewInstall" /\ d[p].auto /\ p \notin Wanted(d)
    BY <1>1, CommitFacts
  <2>2. ASSUME Shown(d, p) = "NewInstall", p \notin Wanted(d) PROVE FALSE
    <3>1. d[p].mode = "install" /\ p \notin Installed
      BY <1>1, <1>3, <2>2, ShownFacts
    <3>2. Present(d, p)
      BY <3>1 DEF Present
    <3> QED BY <2>2, <3>2 DEF Whole
  <2> QED BY <2>1, <2>2
<1> HIDE DEF c
<1>5. c \in Cache /\ \A p \in Packages : c[p].mode \in {"keep", d[p].mode} /\ ~c[p].reinstall
  BY <1>2, <1>3 DEF Underway
<1>6. ASSUME NEW p \in Packages PROVE c[p].mode = d[p].mode
  <2>1. CASE c[p].mode = d[p].mode
    BY <2>1
  <2>2. CASE c[p].mode = "keep" /\ d[p].mode = "install"
    <3>1. Shown(c, p) = "ToKeep"
      BY <1>5, <2>2, ShownFacts
    <3>2. Shown(d, p) \in {"ToUpgrade", "NewInstall"}
      BY <1>1, <1>3, <2>2, ShownFacts
    <3> QED BY <1>4, <3>1, <3>2
  <2> QED BY <1>3, <1>5, <2>1, <2>2
<1>7. \A p \in Packages : Present(c, p) <=> Present(d, p)
  BY <1>6 DEF Present
<1>8. Broken(c) = {}
  <2> SUFFICES ASSUME NEW p \in Packages, Present(c, p), NEW r \in Lacking(c)[p] PROVE FALSE
    BY DEF Broken
  <2>1. r \in Requires[p] /\ ~Present(c, r) /\ r \in Packages
    BY ConstantsAssumption DEF Lacking
  <2>2. p \in Broken(d)
    BY <1>7, <2>1 DEF Broken, Lacking
  <2> QED BY <2>2 DEF Whole
<1> QED BY <1>4, <1>6, <1>8 DEF c

\* What the commit of fine marks comes to.
LEMMA OutcomeFacts ==
  ASSUME Fine(dep), held = {}
  PROVE  /\ Committable(CommitDone)
         /\ \A p \in Packages : CommitDone[p].mode = dep[p].mode
<1> DEFINE c == WorkerMarks(CommitList(dep, {}))
<1>. Whole(dep)
  BY DEF Fine
<1>1. /\ Broken(c) = {}
      /\ \A p \in Packages : c[p].mode = dep[p].mode /\ Shown(c, p) = Shown(dep, p)
  BY CommitWhole
<1>2. CommitDone = IF Committable(c) THEN c ELSE Fresh
  BY DEF CommitDone
<1> HIDE DEF c
<1>3. Committable(c)
  <2>1. ASSUME NEW p \in Unmeetable, Present(c, p) PROVE FALSE
    <3>1. p \in Packages /\ p \notin Installed
      BY UnmeetableAssumption
    <3>2. dep[p].mode = "install"
      BY <1>1, <2>1, <3>1 DEF Present
    <3> QED BY <3>2 DEF Fine
  <2> QED BY <1>1, <2>1 DEF Committable
<1> QED BY <1>1, <1>2, <1>3

\* And of steady ones: nothing else than what they show.
LEMMA SteadyOutcome ==
  ASSUME Steady(dep), held = {}, NEW p \in Packages, Shown(CommitDone, p) # "ToKeep"
  PROVE  Shown(CommitDone, p) = Shown(dep, p)
<1> DEFINE c == WorkerMarks(CommitList(dep, {}))
<1>1. dep \in SoundCache /\ dep \in Cache /\ Upright(dep)
  BY DEF Steady, SoundCache, Upright
<1>2. Underway(dep, c)
  BY <1>1, WorkerFacts
<1>3. CommitDone = IF Committable(c) THEN c ELSE Fresh
  BY DEF CommitDone
<1>4. Shown(Fresh, p) = "ToKeep"
  BY DEF Shown, Fresh
<1> HIDE DEF c
<1>5. CommitDone = c
  BY <1>3, <1>4
<1>6. c \in Cache /\ c[p].mode \in {"keep", dep[p].mode} /\ ~c[p].reinstall /\ ~dep[p].reinstall
      /\ dep[p].mode \in {"keep", "install"}
  BY <1>1, <1>2 DEF Underway, Steady, Marks
<1>7. c[p].mode = "install" /\ dep[p].mode = "install"
  BY <1>5, <1>6, ShownFacts
<1> QED BY <1>5, <1>6, <1>7 DEF Shown

-----------------------------------------------------------------------------
(* Plugins *)

\* What the offer marks, one package after the other.
Bringing(d, s) == FoldLeft(SetInstalled, d, s)

FineCache == {c \in SoundCache : Fine(c)}

Able == {p \in Packages : Installable(p)}

AreInstallings(e, d, s) ==
  e[0] = d /\ \A k \in 0..(Len(s) - 1) : e[k + 1] = SetInstalled(e[k], s[k + 1])

LEMMA InstallingSteps ==
  ASSUME NEW d \in FineCache, NEW s \in Seq(Able)
  PROVE  \E e \in [0..Len(s) -> FineCache] : AreInstallings(e, d, s) /\ Bringing(d, s) = e[Len(s)]
<1> DEFINE n == Len(s)
           step == [x \in FineCache \X (1..n) |-> SetInstalled(x[1], s[x[2]])]
           Body(g) == [T \in SUBSET DOMAIN s |->
                         IF T = {} THEN d ELSE SetInstalled(g[T \ {Max(T)}], s[Max(T)])]
           iter == CHOOSE g : g = Body(g)
<1>1. n \in Nat /\ DOMAIN s = 1..n /\ \A k \in 1..n : s[k] \in Able
  OBVIOUS
<1>2. Bringing(d, s) = iter[DOMAIN s]
  BY DEF Bringing, FoldLeft, MapThenFoldSet
<1>3. step \in [FineCache \X (1..n) -> FineCache]
  <2>1. ASSUME NEW c \in FineCache, NEW k \in 1..n PROVE SetInstalled(c, s[k]) \in FineCache
    BY <1>1, SetInstalledFine DEF FineCache, Fine, Whole, Able
  <2> HIDE DEF n
  <2> QED BY <2>1
<1>4. \A c \in FineCache, k \in 1..n : step[<<c, k>>] = SetInstalled(c, s[k])
  <2> HIDE DEF n
  <2> QED OBVIOUS
<1> HIDE DEF step, n, Body
<1>5. PICK f \in [SUBSET (1..n) -> FineCache] : IsFold(f, n, d, step)
  <2> HIDE DEF iter
  <2> QED BY <1>1, <1>3, FoldExists
<1>6. f = Body(f)
  <2>1. ASSUME NEW T \in SUBSET (1..n), T # {}
        PROVE  f[T] = SetInstalled(f[T \ {Max(T)}], s[Max(T)])
    <3>1. Max(T) \in 1..n /\ T \ {Max(T)} \in SUBSET (1..n)
      BY <1>1, <2>1, MaxFacts
    <3>2. f[T \ {Max(T)}] \in FineCache
      BY <3>1
    <3>3. f[T] = step[<<f[T \ {Max(T)}], Max(T)>>]
      BY <1>5, <2>1 DEF IsFold
    <3> QED BY <1>4, <3>1, <3>2, <3>3
  <2>2. f[{}] = d
    BY <1>5 DEF IsFold
  <2>3. f = [T \in SUBSET (1..n) |-> f[T]]
    OBVIOUS
  <2> QED BY <1>1, <2>1, <2>2, <2>3 DEF Body
<1>7. iter = Body(iter)
  BY <1>6
<1> HIDE DEF iter
<1>8. Follows(iter, n, FineCache, d, step)
  <2>1. ASSUME NEW T \in SUBSET (1..n), T # {}, iter[T \ {Max(T)}] \in FineCache
        PROVE  iter[T] = step[<<iter[T \ {Max(T)}], Max(T)>>]
    <3>1. Max(T) \in 1..n
      BY <1>1, <2>1, MaxFacts
    <3>2. iter[T] = SetInstalled(iter[T \ {Max(T)}], s[Max(T)])
      BY <1>1, <1>7, <2>1 DEF Body
    <3> QED BY <1>4, <2>1, <3>1, <3>2
  <2>2. ASSUME NEW T \in SUBSET (1..n), T = {} PROVE iter[T] = d
    BY <1>1, <1>7, <2>2 DEF Body
  <2> QED BY <2>1, <2>2 DEF Follows
<1>9. PICK e \in [0..n -> FineCache] : IsWay(e, n, d, step, iter[1..n])
  BY <1>1, <1>3, <1>8, WayOfFold
<1>10. ASSUME NEW k \in 0..(n - 1) PROVE e[k + 1] = SetInstalled(e[k], s[k + 1])
  <2>1. k \in 0..n /\ k + 1 \in 1..n
    BY <1>1
  <2> QED BY <1>4, <1>9, <2>1 DEF IsWay
<1>11. e[0] = d /\ Bringing(d, s) = e[n]
  BY <1>1, <1>2, <1>9 DEF IsWay
<1> QED BY <1>9, <1>10, <1>11 DEF n, AreInstallings

\* What is there stays there.
LEMMA GrownPresent ==
  ASSUME NEW d, NEW new, Whole(new), Grown(d, new), NEW q \in Packages, Present(d, q)
  PROVE  Present(new, q)
BY DEF Whole, Grown, Present

\* All that is offered is there, and nothing is broken.
LEMMA BringingFacts ==
  ASSUME NEW d, Fine(d), NEW s \in Seq(Able)
  PROVE  Fine(Bringing(d, s)) /\ \A k \in 1..Len(s) : Present(Bringing(d, s), s[k])
<1> DEFINE n == Len(s)
<1>1. n \in Nat /\ \A k \in 1..n : s[k] \in Able
  OBVIOUS
<1>2. d \in FineCache
  BY DEF FineCache, Fine, Whole
<1>3. PICK e \in [0..n -> FineCache] : AreInstallings(e, d, s) /\ Bringing(d, s) = e[n]
  BY <1>2, InstallingSteps
<1> HIDE DEF n
<1> DEFINE Good == {k \in 0..n : \A i \in 1..k : Present(e[k], s[i])}
<1>4. 0 \in Good
  BY <1>1
<1>5. ASSUME NEW k \in 0..(n - 1), k \in Good PROVE k + 1 \in Good
  <2>1. k \in 0..n /\ k + 1 \in 0..n /\ k + 1 \in 1..n /\ k \in Nat
    BY <1>1
  <2>2. e[k + 1] = SetInstalled(e[k], s[k + 1]) /\ Fine(e[k])
    BY <1>3, <2>1 DEF AreInstallings, FineCache, n
  <2>3. Fine(e[k + 1]) /\ Grown(e[k], e[k + 1]) /\ Present(e[k + 1], s[k + 1])
    BY <1>1, <2>1, <2>2, SetInstalledFine DEF Able
  <2>4. ASSUME NEW i \in 1..(k + 1) PROVE Present(e[k + 1], s[i])
    <3>1. CASE i = k + 1
      BY <2>3, <3>1
    <3>2. CASE i # k + 1
      <4>1. i \in 1..k /\ i \in 1..n
        BY <1>1, <2>1, <3>2
      <4>2. Present(e[k], s[i]) /\ s[i] \in Packages
        BY <1>1, <1>5, <4>1 DEF Able
      <4> QED BY <2>3, <4>2, GrownPresent DEF Fine
    <3> QED BY <3>1, <3>2
  <2> QED BY <2>1, <2>4
<1>6. \A k \in 0..n : k \in Good
  <2> HIDE DEF Good
  <2> QED BY <1>1, <1>4, <1>5, AllNumbers
<1>7. n \in 0..n
  BY <1>1
<1>8. Fine(e[n])
  BY <1>7 DEF FineCache
<1> QED BY <1>3, <1>6, <1>7, <1>8 DEF n

\* The requests that are searched for are some of those that were made.
LEMMA ValidFacts ==
  ASSUME NEW S, NEW rs \in Seq(S)
  PROVE  ValidOnes(rs) \in Seq(S)
<1> DEFINE n == Len(rs)
           A == Seq(S)
           Taken(list, r) == IF IsValid(r) THEN Append(list, r) ELSE list
           step == [x \in A \X (1..n) |-> Taken(x[1], rs[x[2]])]
           Body(g) == [T \in SUBSET DOMAIN rs |->
                         IF T = {} THEN <<>>
                         ELSE LET x == Max(T) IN
                              IF IsValid(rs[x]) THEN Append(g[T \ {x}], rs[x]) ELSE g[T \ {x}]]
           iter == CHOOSE g : g = Body(g)
<1>1. n \in Nat /\ DOMAIN rs = 1..n /\ \A k \in 1..n : rs[k] \in S
  OBVIOUS
<1>2. ValidOnes(rs) = iter[DOMAIN rs]
  BY DEF ValidOnes, FoldLeft, MapThenFoldSet
<1>3. step \in [A \X (1..n) -> A] /\ <<>> \in A
  <2>1. ASSUME NEW list \in A, NEW k \in 1..n PROVE Taken(list, rs[k]) \in A
    BY <1>1
  <2> HIDE DEF n, A, Taken
  <2>2. step \in [A \X (1..n) -> A]
    BY <2>1
  <2> QED BY <2>2 DEF A
<1>4. \A list \in A, k \in 1..n : step[<<list, k>>] = Taken(list, rs[k])
  <2> HIDE DEF n, A, Taken
  <2> QED OBVIOUS
<1> HIDE DEF step, n, A, Body
<1>5. PICK f \in [SUBSET (1..n) -> A] : IsFold(f, n, <<>>, step)
  <2> HIDE DEF iter
  <2> QED BY <1>1, <1>3, FoldExists
<1>6. f = Body(f)
  <2>1. ASSUME NEW T \in SUBSET (1..n), T # {}
        PROVE  f[T] = LET x == Max(T) IN
                      IF IsValid(rs[x]) THEN Append(f[T \ {x}], rs[x]) ELSE f[T \ {x}]
    <3>1. Max(T) \in 1..n /\ T \ {Max(T)} \in SUBSET (1..n)
      BY <1>1, <2>1, MaxFacts
    <3>2. f[T \ {Max(T)}] \in A
      BY <3>1
    <3>3. f[T] = step[<<f[T \ {Max(T)}], Max(T)>>]
      BY <1>5, <2>1 DEF IsFold
    <3> QED BY <1>4, <3>1, <3>2, <3>3
  <2>2. f[{}] = <<>>
    BY <1>5 DEF IsFold
  <2>3. f = [T \in SUBSET (1..n) |-> f[T]]
    OBVIOUS
  <2> QED BY <1>1, <2>1, <2>2, <2>3 DEF Body
<1>7. iter = Body(iter)
  BY <1>6
<1> HIDE DEF iter
<1>8. Follows(iter, n, A, <<>>, step)
  <2>1. ASSUME NEW T \in SUBSET (1..n), T # {}, iter[T \ {Max(T)}] \in A
        PROVE  iter[T] = step[<<iter[T \ {Max(T)}], Max(T)>>]
    <3>1. Max(T) \in 1..n
      BY <1>1, <2>1, MaxFacts
    <3>2. iter[T] = Taken(iter[T \ {Max(T)}], rs[Max(T)])
      BY <1>1, <1>7, <2>1 DEF Body
    <3> QED BY <1>4, <2>1, <3>1, <3>2
  <2>2. ASSUME NEW T \in SUBSET (1..n), T = {} PROVE iter[T] = <<>>
    BY <1>1, <1>7, <2>2 DEF Body
  <2> QED BY <2>1, <2>2 DEF Follows
<1>9. PICK e \in [0..n -> A] : IsWay(e, n, <<>>, step, iter[1..n])
  BY <1>1, <1>3, <1>8, WayOfFold
<1>10. n \in 0..n
  BY <1>1
<1> QED BY <1>1, <1>2, <1>9, <1>10 DEF IsWay, A

\* What the finder takes for a request.
Suits(p, r) == Matches(p, r) /\ p \in Native

\* It is what provides the request, if that is of a type which the program knows.
LEMMA SuitsProvides ==
  ASSUME NEW p \in Packages, NEW r, Len(r.version) = 2, r.type \in {"encoder", "decoder", "element"}
  PROVE  Suits(p, r) <=> Provides(p, r)
<1>1. TypeRead(r) = r.type
  BY DEF TypeRead
<1>2. GstVersion[p] \in Seq(Nat)
  BY PluginsAssumption
<1> DEFINE v == GstVersion[p]
           f == FieldOf(p, r.type) \cap r.caps # {}
<1>3. Suits(p, r) <=> p \in Native /\ p \notin Installed /\ VersionMatches(p, r) /\ f
  BY <1>1 DEF Suits, Matches
<1>4. Provides(p, r) <=>
        /\ p \in Native /\ p \notin Installed /\ f
        /\ Len(v) = 2 /\ v[1] = r.version[1] /\ v[2] >= r.version[2]
        /\ strict => v = r.version
  BY DEF Provides
<1>5. VersionMatches(p, r) <=> IF strict THEN v = r.version
                               ELSE Len(v) = 2 /\ v[1] = r.version[1] /\ v[2] >= r.version[2]
  BY DEF VersionMatches
<1>6. v = r.version => Len(v) = 2 /\ v[1] = r.version[1] /\ v[2] >= r.version[2]
  <2>1. Len(v) = 2 => v[2] \in Nat
    BY <1>2
  <2> QED BY <2>1
<1> HIDE DEF v, f
<1> QED BY <1>3, <1>4, <1>5, <1>6

\* Everything that was found can be installed.
FoundAble == \A k \in 1..Len(foundCodecs) : Installable(foundCodecs[k])

\* The search as far as it has come, and what is made of it.
SearchInv ==
  /\ requests \in Requests
  /\ next \in 1..(Len(SearchList) + 1)
  /\ foundCodecs \in Seq(Packages)
  /\ \A i \in 1..(next - 1) :
       \/ \E k \in 1..Len(foundCodecs) : Suits(foundCodecs[k], SearchList[i])
       \/ ~\E p \in Packages : Suits(p, SearchList[i])
  /\ partialFound \in BOOLEAN
  /\ partialFound <=> \E i \in 1..(next - 1) : ~\E p \in Packages : Suits(p, SearchList[i])
  /\ held = {}
  /\ search \in {"reading", "finding"} => dep = Fresh
  /\ search \in {"offered", "committed"} =>
       /\ next = Len(SearchList) + 1
       /\ FoundAble => /\ Fine(dep)
                       /\ \A k \in 1..Len(foundCodecs) : Present(dep, foundCodecs[k])
  /\ search = "committed" => after = CommitDone

LEMMA SearchFacts ==
  ASSUME requests \in Requests
  PROVE  /\ SearchList \in Seq(ToSet(requests)) /\ Len(SearchList) \in Nat
         /\ \A i \in 1..Len(SearchList) : Len(SearchList[i].version) = 2
<1>1. requests \in Seq(ToSet(requests)) /\ \A r \in ToSet(requests) : Len(r.version) = 2
  BY PluginsAssumption
<1>2. SearchList \in Seq(ToSet(requests))
  BY <1>1, ValidFacts DEF SearchList
<1>3. Len(SearchList) \in Nat /\ \A i \in 1..Len(SearchList) : SearchList[i] \in ToSet(requests)
  BY <1>2
<1> QED BY <1>1, <1>2, <1>3

LEMMA SearchInitInv == PluginInit => SearchInv
<1> SUFFICES ASSUME PluginInit PROVE SearchInv
  OBVIOUS
<1>1. /\ dep = Fresh /\ held = {} /\ requests \in Requests /\ search = "reading" /\ next = 1
      /\ foundCodecs = <<>> /\ partialFound = FALSE
  BY DEF PluginInit, MarkInit
<1>2. Len(SearchList) \in Nat
  BY <1>1, SearchFacts
<1>3. next \in 1..(Len(SearchList) + 1) /\ \A i \in 1..(next - 1) : FALSE
  BY <1>1, <1>2
<1>4. foundCodecs \in Seq(Packages)
  BY <1>1
<1>5. partialFound <=> \E i \in 1..(next - 1) : ~\E p \in Packages : Suits(p, SearchList[i])
  BY <1>1, <1>3
<1> QED BY <1>1, <1>3, <1>4, <1>5 DEF SearchInv

\* One request is searched for.
LEMMA FindStep ==
  ASSUME SearchInv, Find
  PROVE  SearchInv'
<1> DEFINE r == SearchList[next]
           I == {i \in 1..Len(CacheOrder) : Matches(CacheOrder[i], r) /\ CacheOrder[i] \in Native}
           at == SelectInSeq(CacheOrder, LAMBDA p : Matches(p, r) /\ p \in Native)
<1>1. /\ Len(CacheOrder) \in Nat /\ \A i \in 1..Len(CacheOrder) : CacheOrder[i] \in Packages
      /\ \A p \in Packages : \E i \in 1..Len(CacheOrder) : CacheOrder[i] = p
  BY ConstantsAssumption DEF IsOrder, ToSet
<1>2. at = IF I # {} THEN Min(I) ELSE 0
  BY DEF SelectInSeq
<1>3. /\ foundCodecs' = IF at = 0 THEN foundCodecs ELSE Append(foundCodecs, CacheOrder[at])
      /\ partialFound' = (partialFound \/ at = 0)
      /\ next' = next + 1 /\ next <= Len(SearchList) /\ search = "finding"
      /\ dep' = dep /\ held' = held /\ requests' = requests /\ strict' = strict /\ search' = search
  BY DEF Find, markVars
<1>4. SearchList' = SearchList /\ next \in 1..Len(SearchList) /\ Len(SearchList) \in Nat
  BY <1>3, SearchFacts DEF SearchList, SearchInv
<1>5. \A p, x : Suits(p, x)' <=> Suits(p, x)
  BY <1>3 DEF Suits, Matches, VersionMatches
<1> DEFINE n == Len(foundCodecs)
<1>6. n \in Nat /\ foundCodecs \in Seq(Packages)
  BY DEF SearchInv
<1>7. CASE I = {}
  <2>1. at = 0 /\ foundCodecs' = foundCodecs /\ partialFound' = TRUE
    BY <1>2, <1>3, <1>7
  <2>2. ~\E p \in Packages : Suits(p, r)
    <3> HIDE DEF r
    <3> QED BY <1>1, <1>7 DEF Suits
  <2>3. \A i \in 1..(next' - 1) : i \in 1..(next - 1) \/ i = next
    BY <1>3, <1>4
  <2>4. next \in 1..(next' - 1) /\ next' \in 1..(Len(SearchList) + 1)
    BY <1>3, <1>4
  <2> HIDE DEF I, at
  <2> QED BY <1>3, <1>4, <1>5, <2>1, <2>2, <2>3, <2>4 DEF SearchInv
<1>8. CASE I # {}
  <2>1. at \in I /\ at # 0
    <3>1. Min(I) \in I
      BY <1>1, <1>8, MinFacts
    <3> QED BY <1>2, <1>8, <3>1
  <2>2. CacheOrder[at] \in Packages /\ Suits(CacheOrder[at], r)
    BY <1>1, <2>1 DEF Suits
  <2> DEFINE q == CacheOrder[at]
  <2> HIDE DEF at, I, r
  <2>3. foundCodecs' = Append(foundCodecs, q) /\ partialFound' = partialFound
    BY <1>3, <2>1 DEF SearchInv
  <2> HIDE DEF q
  <2>4. /\ foundCodecs' \in Seq(Packages) /\ Len(foundCodecs') = n + 1
        /\ \A k \in 1..n : foundCodecs'[k] = foundCodecs[k]
        /\ foundCodecs'[n + 1] = q
    BY <1>6, <2>2, <2>3 DEF q
  <2>5. \A i \in 1..(next' - 1) : i \in 1..(next - 1) \/ i = next
    BY <1>3, <1>4
  <2>6. next' \in 1..(Len(SearchList) + 1) /\ 1..(next - 1) \subseteq 1..(next' - 1)
    BY <1>3, <1>4
  <2>7. n + 1 \in 1..(n + 1) /\ 1..n \subseteq 1..(n + 1)
    BY <1>6
  <2>8. \A i \in 1..(next - 1) :
          \/ \E k \in 1..n : Suits(foundCodecs[k], SearchList[i])
          \/ ~\E p \in Packages : Suits(p, SearchList[i])
    BY DEF SearchInv
  <2>9. partialFound <=> \E i \in 1..(next - 1) : ~\E p \in Packages : Suits(p, SearchList[i])
    BY DEF SearchInv
  <2> HIDE DEF n
  <2>10. \A i \in 1..(next' - 1) :
          \/ \E k \in 1..Len(foundCodecs') : Suits(foundCodecs'[k], SearchList[i])
          \/ ~\E p \in Packages : Suits(p, SearchList[i])
    BY <2>2, <2>4, <2>5, <2>7, <2>8 DEF q, r
  <2>11. partialFound' <=> \E i \in 1..(next' - 1) : ~\E p \in Packages : Suits(p, SearchList[i])
    BY <2>2, <2>3, <2>5, <2>6, <2>9 DEF q, r
  <2> QED BY <1>3, <1>4, <1>5, <2>4, <2>6, <2>10, <2>11 DEF SearchInv
<1> QED BY <1>7, <1>8

LEMMA SearchNextInv == SearchInv /\ [PluginNext]_<<markVars, pluginVars>> => SearchInv'
<1> SUFFICES ASSUME SearchInv, [PluginNext]_<<markVars, pluginVars>> PROVE SearchInv'
  OBVIOUS
<1>1. ASSUME UNCHANGED <<requests, strict, next, foundCodecs, partialFound, held>>
      PROVE  /\ SearchList' = SearchList /\ \A p, x : Suits(p, x)' <=> Suits(p, x)
  BY <1>1 DEF SearchList, Suits, Matches, VersionMatches
<1>2. CASE ReadRequests
  <2>1. UNCHANGED <<dep, held, requests, strict, next, foundCodecs, partialFound, after>> /\ search = "reading"
          /\ search' \in {"nothing", "finding"}
    BY <1>2 DEF ReadRequests, markVars
  <2> QED BY <1>1, <2>1 DEF SearchInv
<1>3. CASE Find
  BY <1>3, FindStep
<1>4. CASE OfferInstallPackages
  <2>1. /\ search = "finding" /\ dep' = Bringing(dep, foundCodecs) /\ next > Len(SearchList)
        /\ UNCHANGED <<held, requests, strict, next, foundCodecs, partialFound>>
        /\ search' \in {"nothing", "offered"}
    BY <1>4 DEF OfferInstallPackages, Bringing
  <2>2. Fine(dep) /\ foundCodecs \in Seq(Packages) /\ requests \in Requests
        /\ next \in 1..(Len(SearchList) + 1)
    BY <2>1, FreshFine DEF SearchInv
  <2>3. ASSUME FoundAble
        PROVE  /\ Fine(Bringing(dep, foundCodecs))
               /\ \A k \in 1..Len(foundCodecs) : Present(Bringing(dep, foundCodecs), foundCodecs[k])
    <3>1. foundCodecs \in Seq(Able)
      BY <2>2, <2>3 DEF FoundAble, Able
    <3> QED BY <2>2, <3>1, BringingFacts
  <2>4. next = Len(SearchList) + 1
    BY <2>1, <2>2, SearchFacts
  <2> QED BY <1>1, <2>1, <2>3, <2>4 DEF SearchInv, FoundAble
<1>5. CASE InstallPlugins
  <2>1. /\ search = "offered" /\ search' = "committed" /\ after' = CommitDone
        /\ UNCHANGED <<dep, held, requests, strict, next, foundCodecs, partialFound>>
    BY <1>5 DEF InstallPlugins, markVars
  <2>2. CommitDone' = CommitDone
    BY <2>1 DEF CommitDone
  <2> QED BY <1>1, <2>1, <2>2 DEF SearchInv, FoundAble
<1>6. CASE UNCHANGED <<markVars, pluginVars>>
  <2>1. UNCHANGED <<dep, held, requests, strict, search, next, foundCodecs, partialFound, after>>
    BY <1>6 DEF markVars, pluginVars
  <2>2. CommitDone' = CommitDone
    BY <2>1 DEF CommitDone
  <2> QED BY <1>1, <2>1, <2>2 DEF SearchInv, FoundAble
<1> QED BY <1>2, <1>3, <1>4, <1>5, <1>6 DEF PluginNext

\* Each request for an encoder, a decoder or an element that some package provides is
\* provided once the offer is committed, and "partial" is told if and only if something
\* is missing, for any packages, requirements, fields and requests.
THEOREM PluginsAreAlwaysProvided == PluginSpec => []PluginsAreProvided
<1>1. SearchInv => PluginsAreProvided
  <2> SUFFICES ASSUME SearchInv, search = "committed", FoundAble
               PROVE  PluginsAreProvided
    <3>1. DOMAIN foundCodecs = 1..Len(foundCodecs)
      BY DEF SearchInv
    <3> QED BY <3>1 DEF PluginsAreProvided, FoundAble
  <2> DEFINE asked   == {SearchList[i] : i \in DOMAIN SearchList}
             known   == {r \in asked : r.type \in {"encoder", "decoder", "element"}}
             missing == {r \in known : ~\E p \in Packages : Provides(p, r)}
  <2>1. /\ requests \in Requests /\ held = {} /\ Fine(dep) /\ after = CommitDone
        /\ next = Len(SearchList) + 1 /\ foundCodecs \in Seq(Packages)
        /\ \A k \in 1..Len(foundCodecs) : Present(dep, foundCodecs[k])
    BY DEF SearchInv
  <2>2. /\ Len(SearchList) \in Nat /\ DOMAIN SearchList = 1..Len(SearchList)
        /\ \A i \in 1..Len(SearchList) : Len(SearchList[i].version) = 2
    BY <2>1, SearchFacts
  <2>3. next - 1 = Len(SearchList)
    BY <2>1, <2>2
  <2>4. Broken(after) = {} /\ \A p \in Packages : after[p].mode = dep[p].mode
    BY <2>1, OutcomeFacts DEF Committable
  <2>5. ASSUME NEW i \in 1..Len(SearchList), SearchList[i].type \in {"encoder", "decoder", "element"}, NEW p \in Packages
        PROVE  Suits(p, SearchList[i]) <=> Provides(p, SearchList[i])
    BY <2>2, <2>5, SuitsProvides
  <2>6. /\ \A i \in 1..Len(SearchList) :
             \/ \E k \in 1..Len(foundCodecs) : Suits(foundCodecs[k], SearchList[i])
             \/ ~\E p \in Packages : Suits(p, SearchList[i])
        /\ partialFound <=> \E i \in 1..Len(SearchList) : ~\E p \in Packages : Suits(p, SearchList[i])
    BY <2>3 DEF SearchInv
  <2>7. ASSUME NEW k \in 1..Len(foundCodecs) PROVE foundCodecs[k] \in Packages /\ Present(after, foundCodecs[k])
    BY <2>1, <2>4 DEF Present
  <2>8. ASSUME NEW r \in known \ missing PROVE \E p \in Packages : Provides(p, r) /\ Present(after, p)
    <3>1. PICK i \in 1..Len(SearchList) : r = SearchList[i]
      BY <2>2
    <3>2. \E p \in Packages : Suits(p, SearchList[i])
      BY <2>5, <3>1
    <3> QED BY <2>5, <2>6, <2>7, <3>1, <3>2
  <2>9. ASSUME NEW r \in missing PROVE partialFound
    <3>1. PICK i \in 1..Len(SearchList) : r = SearchList[i]
      BY <2>2
    <3> QED BY <2>5, <2>6, <3>1
  <2>10. ASSUME partialFound PROVE missing \cup (asked \ known) # {}
    <3>1. PICK i \in 1..Len(SearchList) : ~\E p \in Packages : Suits(p, SearchList[i])
      BY <2>6, <2>10
    <3>2. SearchList[i] \in asked
      BY <2>2
    <3> QED BY <2>5, <3>1, <3>2
  <2>11. /\ \A r \in known \ missing : \E p \in Packages : Provides(p, r) /\ Present(after, p)
         /\ missing # {} => partialFound
         /\ partialFound => missing \cup (asked \ known) # {}
    BY <2>8, <2>9, <2>10
  <2> HIDE DEF asked, known, missing
  <2> QED BY <2>4, <2>11 DEF PluginsAreProvided, asked, known, missing
<1> QED BY SearchInitInv, SearchNextInv, <1>1, PTL DEF PluginSpec

-----------------------------------------------------------------------------
(* Groups of alternatives *)

\* What is read of a field is made of its relations.
LEMMA ParsedFacts ==
  ASSUME NEW S, NEW f \in Seq(S)
  PROVE  Parsed(f) \in Seq(S)
<1> DEFINE I == {i \in 1..Len(f) : ~f[i].readable}
           bad == SelectInSeq(f, LAMBDA r : ~r.readable)
<1>1. bad = IF I # {} THEN Min(I) ELSE 0
  BY DEF SelectInSeq
<1>2. Len(f) \in Nat
  OBVIOUS
<1>3. CASE I = {}
  <2>1. bad = 0
    BY <1>1, <1>3
  <2> QED BY <2>1 DEF Parsed
<1>4. CASE I # {}
  <2>1. Min(I) \in I
    BY <1>2, <1>4, MinFacts
  <2>2. bad \in 1..Len(f)
    BY <1>1, <1>4, <2>1
  <2>3. Parsed(f) = IF bad = 0 THEN f ELSE SubSeq(f, 1, bad - 1)
    BY DEF Parsed
  <2> HIDE DEF bad
  <2>4. SubSeq(f, 1, bad - 1) \in Seq(S)
    <3>1. \A i \in 1..(bad - 1) : f[i] \in S
      BY <1>2, <2>2
    <3> QED BY <1>2, <2>2, <3>1
  <2> QED BY <2>2, <2>3, <2>4
<1> QED BY <1>3, <1>4

\* The alternatives to the i-th relation among the first k, and what they are.
Alts(f, k, i) == {j \in 1..k : \A m \in (IF i < j THEN i..(j - 1) ELSE j..(i - 1)) : f[m].or}

Those(f, J) == {f[j] : j \in J}

\* What the next relation changes of that.
LEMMA AltsNext ==
  ASSUME NEW f, NEW k \in Nat, NEW i \in 1..k
  PROVE  Alts(f, k + 1, i) = IF k \in Alts(f, k, i) /\ f[k].or THEN Alts(f, k, i) \cup {k + 1} ELSE Alts(f, k, i)
<1>1. \A j \in 1..k : j \in Alts(f, k + 1, i) <=> j \in Alts(f, k, i)
  BY DEF Alts
<1>2. k + 1 \in Alts(f, k + 1, i) <=> \A m \in i..k : f[m].or
  BY DEF Alts
<1>3. k \in Alts(f, k, i) <=> \A m \in i..(k - 1) : f[m].or
  <2>1. CASE i < k
    BY <2>1 DEF Alts
  <2>2. CASE i = k
    BY <2>2 DEF Alts
  <2> QED BY <2>1, <2>2
<1>4. (\A m \in i..k : f[m].or) <=> f[k].or /\ \A m \in i..(k - 1) : f[m].or
  <2>1. \A m \in i..k : m = k \/ m \in i..(k - 1)
    OBVIOUS
  <2>2. k \in i..k /\ \A m \in i..(k - 1) : m \in i..k
    OBVIOUS
  <2> QED BY <2>1, <2>2
<1>5. Alts(f, k + 1, i) \subseteq 1..k \cup {k + 1} /\ Alts(f, k, i) \subseteq 1..k /\ k + 1 \notin 1..k
  BY DEF Alts
<1>6. k + 1 \in Alts(f, k + 1, i) <=> f[k].or /\ k \in Alts(f, k, i)
  BY <1>2, <1>3, <1>4
<1> QED BY <1>1, <1>5, <1>6

\* The alternatives to the last one.
LEMMA AltsLast ==
  ASSUME NEW f, NEW k \in Nat
  PROVE  /\ k > 0 /\ f[k].or => Alts(f, k + 1, k + 1) = Alts(f, k, k) \cup {k + 1}
         /\ k = 0 \/ ~f[k].or => Alts(f, k + 1, k + 1) = {k + 1}
         /\ k > 0 => k \in Alts(f, k, k)
<1>1. \A j \in 1..k : j \in Alts(f, k + 1, k + 1) <=> \A m \in j..k : f[m].or
  BY DEF Alts
<1>2. \A j \in 1..k : j \in Alts(f, k, k) <=> \A m \in j..(k - 1) : f[m].or
  BY DEF Alts
<1>3. ASSUME NEW j \in 1..k
      PROVE  (\A m \in j..k : f[m].or) <=> f[k].or /\ \A m \in j..(k - 1) : f[m].or
  <2>1. \A m \in j..k : m = k \/ m \in j..(k - 1)
    OBVIOUS
  <2>2. k \in j..k /\ \A m \in j..(k - 1) : m \in j..k
    OBVIOUS
  <2> QED BY <2>1, <2>2
<1>4. /\ Alts(f, k + 1, k + 1) \subseteq 1..k \cup {k + 1} /\ Alts(f, k, k) \subseteq 1..k
      /\ k + 1 \in Alts(f, k + 1, k + 1)
  BY DEF Alts
<1>5. k = 0 => 1..k = {}
  OBVIOUS
<1>6. k > 0 => k \in Alts(f, k, k)
  BY DEF Alts
<1>7. \A j \in 1..k : j \in Alts(f, k + 1, k + 1) <=> f[k].or /\ j \in Alts(f, k, k)
  BY <1>1, <1>2, <1>3
<1> QED BY <1>4, <1>5, <1>6, <1>7

\* Those of which the last one is an alternative have the same ones.
LEMMA AltsSame ==
  ASSUME NEW f, NEW k \in Nat, NEW i \in 1..k, k \in Alts(f, k, i)
  PROVE  Alts(f, k, i) = Alts(f, k, k)
<1>1. \A m \in i..(k - 1) : f[m].or
  <2>1. CASE i < k
    BY <2>1 DEF Alts
  <2>2. CASE i = k
    BY <2>2
  <2> QED BY <2>1, <2>2
<1>2. ASSUME NEW j \in 1..k PROVE j \in Alts(f, k, i) <=> j \in Alts(f, k, k)
  <2>1. j \in Alts(f, k, k) <=> \A m \in j..(k - 1) : f[m].or
    BY DEF Alts
  <2>2. CASE i < j
    <3>1. \A m \in j..(k - 1) : m \in i..(k - 1)
      BY <2>2
    <3>2. \A m \in i..(j - 1) : m \in i..(k - 1)
      BY <2>2
    <3>3. j \in Alts(f, k, i)
      BY <1>1, <2>2, <3>2 DEF Alts
    <3> QED BY <1>1, <2>1, <3>1, <3>3
  <2>3. CASE ~(i < j)
    <3>1. j \in Alts(f, k, i) <=> \A m \in j..(i - 1) : f[m].or
      BY <2>3 DEF Alts
    <3>2. \A m \in j..(k - 1) : m \in j..(i - 1) \/ m \in i..(k - 1)
      BY <2>3
    <3>3. \A m \in j..(i - 1) : m \in j..(k - 1)
      BY <2>3
    <3> QED BY <1>1, <2>1, <3>1, <3>2, <3>3
  <2> QED BY <2>2, <2>3
<1>3. Alts(f, k, i) \subseteq 1..k /\ Alts(f, k, k) \subseteq 1..k
  BY DEF Alts
<1> QED BY <1>2, <1>3


\* Another last element.
IsOtherLast(h, g, x) ==
  /\ Len(h) = Len(g) /\ Len(g) \in Nat \ {0}
  /\ \A m \in 1..(Len(g) - 1) : h[m] = g[m]
  /\ h[Len(g)] = x

LEMMA LastReplaced ==
  ASSUME NEW T, NEW g \in Seq(T), g # <<>>, NEW x \in T
  PROVE  /\ Append(Front(g), x) \in Seq(T)
         /\ IsOtherLast(Append(Front(g), x), g, x)
<1> DEFINE n == Len(g)
           f == SubSeq(g, 1, n - 1)
<1>1. n \in Nat /\ n # 0 /\ \A m \in 1..n : g[m] \in T
  OBVIOUS
<1>2. f \in Seq(T) /\ Len(f) = n - 1 /\ \A m \in 1..(n - 1) : f[m] = g[m]
  <2>1. 1 \in 1..(Len(g) + 1) /\ n - 1 \in 0..Len(g) /\ n - 1 - 1 + 1 = n - 1
    BY <1>1
  <2>2. f \in Seq(T) /\ Len(f) = n - 1
    BY <2>1, SubSeqProperties
  <2>3. \A m \in 1..(n - 1) : f[m] = g[m]
    BY <1>1
  <2> QED BY <2>2, <2>3
<1>3. Front(g) = f /\ Last(g) = g[n]
  BY DEF Front, Last
<1> HIDE DEF f
<1>4. /\ Append(f, x) \in Seq(T) /\ Len(Append(f, x)) = n
      /\ \A m \in 1..(n - 1) : Append(f, x)[m] = f[m]
      /\ Append(f, x)[n] = x
  BY <1>1, <1>2
<1> QED BY <1>1, <1>2, <1>3, <1>4 DEF IsOtherLast

LEMMA LastElement ==
  ASSUME NEW T, NEW g \in Seq(T), g # <<>>
  PROVE  Last(g) = g[Len(g)] /\ Last(g) \in T
BY DEF Last

\* What the parser makes of one more relation.
Grouping(a, r) ==
  [hadOr  |-> r.or,
   groups |-> IF a.hadOr THEN Append(Front(a.groups), Append(Last(a.groups), r))
                         ELSE Append(a.groups, <<r>>)]

Groups(S) == {a \in [hadOr : BOOLEAN, groups : Seq(Seq(S))] : a.hadOr => a.groups # <<>>}

NoGroups == [hadOr |-> FALSE, groups |-> <<>>]

\* The groups of the first k relations; the last one can still grow.
GroupsFit(f, a, k) ==
  LET g == a.groups
  IN  /\ k = 0 => ~a.hadOr /\ g = <<>>
      /\ k > 0 => /\ a.hadOr <=> f[k].or
                  /\ Len(g) > 0 /\ ToSet(g[Len(g)]) = Those(f, Alts(f, k, k))
      /\ \A m \in 1..(Len(g) - 1) :
           \E i \in 1..k : k \notin Alts(f, k, i) /\ ToSet(g[m]) = Those(f, Alts(f, k, i))
      /\ \A i \in 1..k :
           k \notin Alts(f, k, i) => \E m \in 1..(Len(g) - 1) : ToSet(g[m]) = Those(f, Alts(f, k, i))

LEMMA GroupingType ==
  ASSUME NEW S, NEW a \in Groups(S), NEW r \in S, r.or \in BOOLEAN
  PROVE  Grouping(a, r) \in Groups(S)
<1> DEFINE g == a.groups
<1>1. g \in Seq(Seq(S)) /\ a.hadOr \in BOOLEAN /\ (a.hadOr => g # <<>>)
  BY DEF Groups
<1>2. Grouping(a, r) = [hadOr |-> r.or, groups |-> IF a.hadOr THEN Append(Front(g), Append(Last(g), r))
                                                   ELSE Append(g, <<r>>)]
  BY DEF Grouping
<1> HIDE DEF g
<1>3. CASE a.hadOr
  <2>1. Last(g) \in Seq(S)
    BY <1>1, <1>3, LastElement
  <2> DEFINE x == Append(Last(g), r)
  <2>2. x \in Seq(S)
    BY <2>1
  <2> HIDE DEF x
  <2>3. g \in Seq(Seq(S)) /\ g # <<>>
    BY <1>1, <1>3
  <2>4. Append(Front(g), x) \in Seq(Seq(S)) /\ IsOtherLast(Append(Front(g), x), g, x)
    BY <2>2, <2>3, LastReplaced
  <2>5. Append(Front(g), x) # <<>>
    BY <2>4 DEF IsOtherLast
  <2>6. Grouping(a, r) = [hadOr |-> r.or, groups |-> Append(Front(g), x)]
    BY <1>2, <1>3 DEF x
  <2> QED BY <2>4, <2>5, <2>6 DEF Groups
<1>4. CASE ~a.hadOr
  <2>1. Append(g, <<r>>) \in Seq(Seq(S)) /\ Append(g, <<r>>) # <<>>
    BY <1>1
  <2>2. Grouping(a, r) = [hadOr |-> r.or, groups |-> Append(g, <<r>>)]
    BY <1>2, <1>4
  <2> QED BY <2>1, <2>2 DEF Groups
<1> QED BY <1>1, <1>3, <1>4

LEMMA AppendedSet ==
  ASSUME NEW S, NEW s \in Seq(S), NEW x
  PROVE  ToSet(Append(s, x)) = ToSet(s) \cup {x}
<1> DEFINE n == Len(s)
           e == Append(s, x)
<1>1. n \in Nat /\ DOMAIN s = 1..n /\ DOMAIN e = 1..(n + 1) /\ e[n + 1] = x /\ \A i \in 1..n : e[i] = s[i]
  OBVIOUS
<1>2. \A i \in 1..(n + 1) : i \in 1..n \/ i = n + 1
  BY <1>1
<1>3. 1..n \subseteq 1..(n + 1) /\ n + 1 \in 1..(n + 1)
  BY <1>1
<1> HIDE DEF n, e
<1>4. ToSet(e) = {e[i] : i \in 1..(n + 1)} /\ ToSet(s) = {s[i] : i \in 1..n}
  BY <1>1 DEF ToSet
<1>5. \A y : y \in ToSet(e) <=> y \in ToSet(s) \cup {x}
  BY <1>1, <1>2, <1>3, <1>4
<1> QED BY <1>5 DEF e


LEMMA GroupingStep ==
  ASSUME NEW S, NEW f, NEW k \in Nat, NEW a \in Groups(S), f[k + 1] \in S, f[k + 1].or \in BOOLEAN,
         GroupsFit(f, a, k)
  PROVE  GroupsFit(f, Grouping(a, f[k + 1]), k + 1)
<1> DEFINE g == a.groups
           r == f[k + 1]
           b == Grouping(a, r)
           h == b.groups
           n == Len(g)
<1>1. g \in Seq(Seq(S)) /\ a.hadOr \in BOOLEAN /\ (a.hadOr => g # <<>>) /\ n \in Nat
  BY DEF Groups
<1>2. /\ b.hadOr = r.or
      /\ h = IF a.hadOr THEN Append(Front(g), Append(Last(g), r)) ELSE Append(g, <<r>>)
  BY DEF Grouping
<1>3. /\ k = 0 => ~a.hadOr /\ g = <<>>
      /\ k > 0 => (a.hadOr <=> f[k].or) /\ n > 0 /\ ToSet(g[n]) = Those(f, Alts(f, k, k))
      /\ \A m \in 1..(n - 1) :
           \E i \in 1..k : k \notin Alts(f, k, i) /\ ToSet(g[m]) = Those(f, Alts(f, k, i))
      /\ \A i \in 1..k :
           k \notin Alts(f, k, i) => \E m \in 1..(n - 1) : ToSet(g[m]) = Those(f, Alts(f, k, i))
  BY DEF GroupsFit
<1>4. \A i \in 1..(k + 1) : i \in 1..k \/ i = k + 1
  OBVIOUS
<1>5. \A i \in 1..k : i \in 1..(k + 1)
  OBVIOUS
<1>6. ASSUME NEW i \in 1..k
      PROVE  /\ ~(k \in Alts(f, k, i) /\ f[k].or) =>
                  Alts(f, k + 1, i) = Alts(f, k, i) /\ k + 1 \notin Alts(f, k + 1, i)
             /\ k \in Alts(f, k, i) /\ f[k].or => k + 1 \in Alts(f, k + 1, i)
  <2>1. k + 1 \notin Alts(f, k, i)
    BY DEF Alts
  <2> QED BY <2>1, AltsNext
<1>7. k + 1 \in Alts(f, k + 1, k + 1)
  BY AltsLast
<1> HIDE DEF n, b
<1> SUFFICES /\ Len(h) > 0 /\ ToSet(h[Len(h)]) = Those(f, Alts(f, k + 1, k + 1))
             /\ \A m \in 1..(Len(h) - 1) :
                  \E i \in 1..(k + 1) : k + 1 \notin Alts(f, k + 1, i) /\ ToSet(h[m]) = Those(f, Alts(f, k + 1, i))
             /\ \A i \in 1..(k + 1) :
                  k + 1 \notin Alts(f, k + 1, i) =>
                    \E m \in 1..(Len(h) - 1) : ToSet(h[m]) = Those(f, Alts(f, k + 1, i))
  <2>1. k + 1 # 0 /\ (b.hadOr <=> f[k + 1].or)
    BY <1>2
  <2> QED BY <2>1 DEF GroupsFit, b
<1>8. CASE a.hadOr
  <2>1. k > 0 /\ f[k].or /\ g # <<>> /\ n > 0
    BY <1>1, <1>3, <1>8
  <2> DEFINE x == Append(Last(g), r)
  <2>2. Last(g) = g[n] /\ Last(g) \in Seq(S)
    BY <1>1, <2>1, LastElement DEF n
  <2>3. x \in Seq(S) /\ ToSet(x) = ToSet(g[n]) \cup {r}
    BY <2>2, AppendedSet
  <2>4. h = Append(Front(g), x)
    BY <1>2, <1>8
  <2> HIDE DEF x, h, g
  <2>5. IsOtherLast(h, g, x)
    BY <1>1, <2>1, <2>3, <2>4, LastReplaced
  <2>6. Len(h) = n /\ (\A m \in 1..(n - 1) : h[m] = g[m]) /\ h[n] = x
    BY <2>5 DEF IsOtherLast, n
  <2>7. Alts(f, k + 1, k + 1) = Alts(f, k, k) \cup {k + 1}
    BY <2>1, AltsLast
  <2>8. ToSet(h[n]) = Those(f, Alts(f, k + 1, k + 1))
    BY <1>3, <2>1, <2>3, <2>6, <2>7 DEF Those, r
  <2>9. ASSUME NEW m \in 1..(n - 1)
        PROVE  \E i \in 1..(k + 1) : k + 1 \notin Alts(f, k + 1, i) /\ ToSet(h[m]) = Those(f, Alts(f, k + 1, i))
    <3>1. PICK i \in 1..k : k \notin Alts(f, k, i) /\ ToSet(g[m]) = Those(f, Alts(f, k, i))
      BY <1>3
    <3> QED BY <1>5, <1>6, <2>6, <3>1
  <2>10. ASSUME NEW i \in 1..(k + 1), k + 1 \notin Alts(f, k + 1, i)
         PROVE  \E m \in 1..(n - 1) : ToSet(h[m]) = Those(f, Alts(f, k + 1, i))
    <3>1. i \in 1..k
      BY <1>4, <1>7, <2>10
    <3>2. k \notin Alts(f, k, i) /\ Alts(f, k + 1, i) = Alts(f, k, i)
      BY <1>6, <2>1, <2>10, <3>1
    <3> QED BY <1>3, <2>6, <3>1, <3>2
  <2> QED BY <2>1, <2>6, <2>8, <2>9, <2>10
<1>9. CASE ~a.hadOr
  <2>1. k = 0 \/ ~f[k].or
    BY <1>3, <1>9
  <2>2. h = Append(g, <<r>>)
    BY <1>2, <1>9
  <2>3. Len(h) = n + 1 /\ (\A m \in 1..n : h[m] = g[m]) /\ h[n + 1] = <<r>>
    BY <1>1, <2>2 DEF n
  <2> HIDE DEF h, g
  <2>4. Alts(f, k + 1, k + 1) = {k + 1}
    BY <2>1, AltsLast
  <2>5. ToSet(h[n + 1]) = Those(f, Alts(f, k + 1, k + 1))
    BY <2>3, <2>4 DEF Those, r, ToSet
  <2>6. k = 0 => n = 0
    BY <1>3 DEF n, g
  <2>7. ASSUME NEW m \in 1..n
        PROVE  \E i \in 1..(k + 1) : k + 1 \notin Alts(f, k + 1, i) /\ ToSet(h[m]) = Those(f, Alts(f, k + 1, i))
    <3>1. k > 0 /\ ~f[k].or
      BY <1>1, <2>1, <2>6
    <3>2. CASE m \in 1..(n - 1)
      <4>1. PICK i \in 1..k : k \notin Alts(f, k, i) /\ ToSet(g[m]) = Those(f, Alts(f, k, i))
        BY <1>3, <3>2
      <4> QED BY <1>5, <1>6, <2>3, <4>1
    <3>3. CASE m = n
      <4>1. k \in 1..k /\ ToSet(g[n]) = Those(f, Alts(f, k, k))
        BY <1>3, <3>1
      <4> QED BY <1>5, <1>6, <2>3, <3>1, <3>3, <4>1
    <3>4. m \in 1..(n - 1) \/ m = n
      BY <1>1
    <3> QED BY <3>2, <3>3, <3>4
  <2>8. ASSUME NEW i \in 1..(k + 1), k + 1 \notin Alts(f, k + 1, i)
        PROVE  \E m \in 1..n : ToSet(h[m]) = Those(f, Alts(f, k + 1, i))
    <3>1. i \in 1..k
      BY <1>4, <1>7, <2>8
    <3>2. k > 0 /\ ~f[k].or /\ Alts(f, k + 1, i) = Alts(f, k, i)
      BY <1>6, <2>1, <3>1
    <3>3. CASE k \notin Alts(f, k, i)
      <4>1. PICK m \in 1..(n - 1) : ToSet(g[m]) = Those(f, Alts(f, k, i))
        BY <1>3, <3>1, <3>3
      <4>2. m \in 1..n
        BY <1>1
      <4> QED BY <2>3, <3>2, <4>1, <4>2
    <3>4. CASE k \in Alts(f, k, i)
      <4>1. n \in 1..n /\ ToSet(g[n]) = Those(f, Alts(f, k, k))
        BY <1>1, <1>3, <3>2
      <4>2. Alts(f, k, i) = Alts(f, k, k)
        BY <3>1, <3>4, AltsSame
      <4> QED BY <2>3, <3>2, <4>1, <4>2
    <3> QED BY <3>3, <3>4
  <2>9. Len(h) > 0 /\ Len(h) - 1 = n
    BY <1>1, <2>3
  <2> QED BY <2>3, <2>5, <2>7, <2>8, <2>9
<1> QED BY <1>1, <1>8, <1>9


\* The groups of a field, and what the parser has of the first k relations.
GroupsOf(f) == FoldLeft(LAMBDA acc, r :
             [hadOr  |-> r.or,
              groups |-> IF acc.hadOr THEN Append(Front(acc.groups), Append(Last(acc.groups), r))
                                      ELSE Append(acc.groups, <<r>>)],
           [hadOr |-> FALSE, groups |-> <<>>], f)

AreGroupings(e, f) ==
  e[0] = NoGroups /\ \A k \in 0..(Len(f) - 1) : e[k + 1] = Grouping(e[k], f[k + 1])

LEMMA GroupingSteps ==
  ASSUME NEW S, NEW f \in Seq(S), \A r \in S : r.or \in BOOLEAN
  PROVE  \E e \in [0..Len(f) -> Groups(S)] : AreGroupings(e, f) /\ GroupsOf(f) = e[Len(f)]
<1> DEFINE n == Len(f)
           A == Groups(S)
           step == [x \in A \X (1..n) |-> Grouping(x[1], f[x[2]])]
           Body(g) == [T \in SUBSET DOMAIN f |->
                         IF T = {} THEN NoGroups ELSE Grouping(g[T \ {Max(T)}], f[Max(T)])]
           iter == CHOOSE g : g = Body(g)
<1>1. n \in Nat /\ DOMAIN f = 1..n /\ \A k \in 1..n : f[k] \in S
  OBVIOUS
<1>2. GroupsOf(f) = iter[DOMAIN f]
  BY DEF GroupsOf, FoldLeft, MapThenFoldSet, Grouping, NoGroups
<1>3. step \in [A \X (1..n) -> A] /\ NoGroups \in A
  <2>1. ASSUME NEW a \in A, NEW k \in 1..n PROVE Grouping(a, f[k]) \in A
    BY <1>1, GroupingType
  <2>2. NoGroups \in A
    BY DEF NoGroups, Groups
  <2> HIDE DEF n, A
  <2> QED BY <2>1, <2>2
<1>4. \A a \in A, k \in 1..n : step[<<a, k>>] = Grouping(a, f[k])
  <2> HIDE DEF n, A
  <2> QED OBVIOUS
<1> HIDE DEF step, n, A, Body
<1>5. PICK g \in [SUBSET (1..n) -> A] : IsFold(g, n, NoGroups, step)
  <2> HIDE DEF iter
  <2> QED BY <1>1, <1>3, FoldExists
<1>6. g = Body(g)
  <2>1. ASSUME NEW T \in SUBSET (1..n), T # {}
        PROVE  g[T] = Grouping(g[T \ {Max(T)}], f[Max(T)])
    <3>1. Max(T) \in 1..n /\ T \ {Max(T)} \in SUBSET (1..n)
      BY <1>1, <2>1, MaxFacts
    <3>2. g[T \ {Max(T)}] \in A
      BY <3>1
    <3>3. g[T] = step[<<g[T \ {Max(T)}], Max(T)>>]
      BY <1>5, <2>1 DEF IsFold
    <3> QED BY <1>4, <3>1, <3>2, <3>3
  <2>2. g[{}] = NoGroups
    BY <1>5 DEF IsFold
  <2>3. g = [T \in SUBSET (1..n) |-> g[T]]
    OBVIOUS
  <2> QED BY <1>1, <2>1, <2>2, <2>3 DEF Body
<1>7. iter = Body(iter)
  BY <1>6
<1> HIDE DEF iter
<1>8. Follows(iter, n, A, NoGroups, step)
  <2>1. ASSUME NEW T \in SUBSET (1..n), T # {}, iter[T \ {Max(T)}] \in A
        PROVE  iter[T] = step[<<iter[T \ {Max(T)}], Max(T)>>]
    <3>1. Max(T) \in 1..n
      BY <1>1, <2>1, MaxFacts
    <3>2. iter[T] = Grouping(iter[T \ {Max(T)}], f[Max(T)])
      BY <1>1, <1>7, <2>1 DEF Body
    <3> QED BY <1>4, <2>1, <3>1, <3>2
  <2>2. ASSUME NEW T \in SUBSET (1..n), T = {} PROVE iter[T] = NoGroups
    BY <1>1, <1>7, <2>2 DEF Body
  <2> QED BY <2>1, <2>2 DEF Follows
<1>9. PICK e \in [0..n -> A] : IsWay(e, n, NoGroups, step, iter[1..n])
  BY <1>1, <1>3, <1>8, WayOfFold
<1>10. ASSUME NEW k \in 0..(n - 1) PROVE e[k + 1] = Grouping(e[k], f[k + 1])
  <2>1. k \in 0..n /\ k + 1 \in 1..n
    BY <1>1
  <2> QED BY <1>4, <1>9, <2>1 DEF IsWay
<1>11. e[0] = NoGroups /\ GroupsOf(f) = e[n]
  BY <1>1, <1>2, <1>9 DEF IsWay
<1> QED BY <1>9, <1>10, <1>11 DEF n, AreGroupings, A

\* The groups are sets of relations that are alternatives, and each relation is in
\* the one of its alternatives.
AreTheGroups(gs, f) ==
  /\ \A i \in DOMAIN f : \E m \in DOMAIN gs : ToSet(gs[m]) = Those(f, Alternatives(f, i))
  /\ \A m \in DOMAIN gs : \E i \in DOMAIN f : ToSet(gs[m]) = Those(f, Alternatives(f, i))

LEMMA GroupsFacts ==
  ASSUME NEW S, NEW f \in Seq(S), \A r \in S : r.or \in BOOLEAN
  PROVE  GroupsOf(f).groups \in Seq(Seq(S)) /\ AreTheGroups(GroupsOf(f).groups, f)
<1> DEFINE n == Len(f)
<1>1. n \in Nat /\ DOMAIN f = 1..n /\ \A k \in 1..n : f[k] \in S
  OBVIOUS
<1>2. PICK e \in [0..n -> Groups(S)] : AreGroupings(e, f) /\ GroupsOf(f) = e[n]
  BY GroupingSteps
<1> HIDE DEF n
<1> DEFINE Good == {k \in 0..n : GroupsFit(f, e[k], k)}
<1>3. 0 \in Good
  <2>1. e[0] = NoGroups
    BY <1>2 DEF AreGroupings
  <2>2. GroupsFit(f, NoGroups, 0)
    BY DEF GroupsFit, NoGroups
  <2> QED BY <1>1, <2>1, <2>2
<1>4. ASSUME NEW k \in 0..(n - 1), k \in Good PROVE k + 1 \in Good
  <2>1. k \in 0..n /\ k + 1 \in 0..n /\ k + 1 \in 1..n /\ k \in Nat
    BY <1>1
  <2>2. e[k + 1] = Grouping(e[k], f[k + 1]) /\ e[k] \in Groups(S)
    BY <1>2, <2>1 DEF AreGroupings, n
  <2>3. f[k + 1] \in S /\ f[k + 1].or \in BOOLEAN /\ GroupsFit(f, e[k], k)
    BY <1>1, <1>4, <2>1
  <2>4. GroupsFit(f, Grouping(e[k], f[k + 1]), k + 1)
    BY <2>1, <2>2, <2>3, GroupingStep
  <2> QED BY <2>1, <2>2, <2>4
<1>5. \A k \in 0..n : k \in Good
  <2> HIDE DEF Good
  <2> QED BY <1>1, <1>3, <1>4, AllNumbers
<1> DEFINE gs == e[n].groups
           c  == Len(gs)
<1>6. e[n] \in Groups(S) /\ GroupsFit(f, e[n], n)
  BY <1>1, <1>5
<1>7. gs \in Seq(Seq(S)) /\ c \in Nat /\ DOMAIN gs = 1..c
  BY <1>6 DEF Groups
<1>8. /\ n = 0 => gs = <<>>
      /\ n > 0 => c > 0 /\ ToSet(gs[c]) = Those(f, Alts(f, n, n))
      /\ \A m \in 1..(c - 1) : \E i \in 1..n : ToSet(gs[m]) = Those(f, Alts(f, n, i))
      /\ \A i \in 1..n :
           n \notin Alts(f, n, i) => \E m \in 1..(c - 1) : ToSet(gs[m]) = Those(f, Alts(f, n, i))
  BY <1>6 DEF GroupsFit
<1>9. ASSUME NEW i \in 1..n PROVE Alternatives(f, i) = Alts(f, n, i)
  BY <1>1 DEF Alternatives, Alts
<1>10. n = 0 => c = 0
  BY <1>8
<1> HIDE DEF gs, c
<1>11. ASSUME NEW i \in 1..n PROVE \E m \in 1..c : ToSet(gs[m]) = Those(f, Alts(f, n, i))
  <2>1. CASE n \notin Alts(f, n, i)
    <3>1. \A m \in 1..(c - 1) : m \in 1..c
      BY <1>7
    <3> QED BY <1>8, <2>1, <3>1
  <2>2. CASE n \in Alts(f, n, i)
    <3>1. Alts(f, n, i) = Alts(f, n, n)
      BY <1>1, <2>2, AltsSame
    <3>2. n > 0
      BY <1>1
    <3>3. c \in 1..c
      BY <1>7, <1>8, <3>2
    <3> QED BY <1>8, <3>1, <3>2, <3>3
  <2> QED BY <2>1, <2>2
<1>12. ASSUME NEW m \in 1..c PROVE \E i \in 1..n : ToSet(gs[m]) = Those(f, Alts(f, n, i))
  <2>1. n > 0 /\ n \in 1..n
    BY <1>1, <1>7, <1>10
  <2>2. m \in 1..(c - 1) \/ m = c
    BY <1>7
  <2> QED BY <1>8, <2>1, <2>2
<1>13. AreTheGroups(gs, f)
  BY <1>1, <1>7, <1>9, <1>11, <1>12 DEF AreTheGroups
<1> QED BY <1>2, <1>7, <1>13 DEF gs

\* A field without relations that can be read has no groups, and others have.
LEMMA ParseFacts ==
  ASSUME NEW S, NEW f \in Seq(S), \A r \in S : r.or \in BOOLEAN
  PROVE  /\ Parsed(f) \in Seq(S)
         /\ ParseDepends(f) \in Seq(Seq(S)) /\ AreTheGroups(ParseDepends(f), Parsed(f))
<1>1. Parsed(f) \in Seq(S)
  BY ParsedFacts
<1>2. ParseDepends(f) = GroupsOf(Parsed(f)).groups
  BY DEF ParseDepends, GroupsOf
<1>3. GroupsOf(Parsed(f)).groups \in Seq(Seq(S)) /\ AreTheGroups(GroupsOf(Parsed(f)).groups, Parsed(f))
  BY <1>1, GroupsFacts
<1> QED BY <1>1, <1>2, <1>3

-----------------------------------------------------------------------------
(* What a .deb depends on *)

\* The state of the search for alternatives.
SteadyCache == {c \in SoundCache : Steady(c)}

Tries == [met : BOOLEAN, dep : SteadyCache]

\* What a relation asks for is installed or marked, in a version that it allows.
Meets(d, r) ==
  \E p \in Lookup(r.name, FALSE) :
    \/ p \in Installed /\ 1 \in r.versions
    \/ d[p].mode = "install" /\ CandidateVersion(p) \in r.versions

LEMMA LookupFacts ==
  ASSUME NEW n
  PROVE  Lookup(n, FALSE) \subseteq Packages /\ \A p, q \in Lookup(n, FALSE) : p = q
<1>1. \A m \in DOMAIN Variant : Variant[m] \in Packages
  BY DebCheckAssumption
<1> QED BY <1>1, Zenon DEF Lookup

LEMMA MeetsGrown ==
  ASSUME NEW d, NEW new, Grown(d, new), NEW r, Meets(d, r)
  PROVE  Meets(new, r)
BY LookupFacts DEF Meets, Grown

\* What a relation asks for can be installed.
IsAble(r) == \A p \in Lookup(r.name, FALSE) : Installable(p)

\* The marks stay fine, and nothing of them is given up.
Brings(d, e) == Fine(e) /\ Grown(d, e)

\* What one alternative does to the search.
TriesOne(s, t, r) ==
  /\ t.met <=> s.met \/ Found(r)
  /\ s.met => t = s
  /\ Fine(s.dep) /\ IsAble(r) =>
       /\ Brings(s.dep, t.dep)
       /\ t.met /\ ~s.met => Meets(t.dep, r)

LEMMA TryFacts ==
  ASSUME NEW s \in Tries, NEW r
  PROVE  TryAlternative(s, r) \in Tries /\ TriesOne(s, TryAlternative(s, r), r)
<1> DEFINE t == TryAlternative(s, r)
           found == Lookup(r.name, FALSE)
           p == CHOOSE q \in found : TRUE
<1>1. s.met \in BOOLEAN /\ s.dep \in SteadyCache /\ Steady(s.dep) /\ s = [met |-> s.met, dep |-> s.dep]
  BY DEF Tries, SteadyCache
<1>2. found \subseteq Packages /\ \A x, y \in found : x = y
  BY LookupFacts
<1>3. t = IF s.met \/ found = {} THEN s
          ELSE IF p \in Installed /\ 1 \in r.versions THEN [s EXCEPT !.met = TRUE]
          ELSE IF CandidateVersion(p) \notin r.versions THEN s
          ELSE [met |-> ~WouldBreak(p), dep |-> SetInstalled(s.dep, p)]
  BY DEF TryAlternative
<1>4. Found(r) <=> \E q \in found : (p \in Installed /\ 1 \in r.versions) \/ CandidateVersion(p) \in r.versions
  <2>1. \A q \in found : q = p
    BY <1>2
  <2> QED BY <2>1 DEF Found
<1>5. Fine(s.dep) => Brings(s.dep, s.dep)
  BY DEF Brings, Grown
<1> HIDE DEF found
<1>6. CASE s.met \/ found = {}
  <2>1. t = s
    BY <1>3, <1>6
  <2>2. s.met \/ ~Found(r)
    BY <1>4, <1>6
  <2> QED BY <1>1, <1>5, <2>1, <2>2 DEF TriesOne
<1>7. CASE ~s.met /\ found # {} /\ p \in Installed /\ 1 \in r.versions
  <2>1. t = [met |-> TRUE, dep |-> s.dep]
    BY <1>1, <1>3, <1>7
  <2>2. p \in found /\ Found(r)
    BY <1>4, <1>7
  <2>3. Meets(s.dep, r)
    BY <1>7, <2>2 DEF Meets, found
  <2> HIDE DEF t, p
  <2>4. t.met = TRUE /\ t.dep = s.dep /\ t \in Tries
    BY <1>1, <2>1 DEF Tries
  <2>5. Meets(t.dep, r) /\ (Fine(s.dep) => Brings(s.dep, t.dep))
    BY <1>5, <2>3, <2>4
  <2>6. TriesOne(s, t, r)
    BY <1>7, <2>2, <2>4, <2>5 DEF TriesOne
  <2> QED BY <2>4, <2>6 DEF t
<1>8. CASE ~s.met /\ found # {} /\ ~(p \in Installed /\ 1 \in r.versions) /\ CandidateVersion(p) \notin r.versions
  <2>1. t = s
    BY <1>3, <1>8
  <2>2. ~Found(r)
    BY <1>4, <1>8
  <2> QED BY <1>1, <1>5, <2>1, <2>2 DEF TriesOne
<1>9. CASE ~s.met /\ found # {} /\ ~(p \in Installed /\ 1 \in r.versions) /\ CandidateVersion(p) \in r.versions
  <2> DEFINE new == SetInstalled(s.dep, p)
  <2>1. p \in found /\ p \in Packages /\ Found(r)
    BY <1>2, <1>4, <1>9
  <2>2. ~WouldBreak(p)
    BY <2>1 DEF WouldBreak, Fresh
  <2>3. t = [met |-> TRUE, dep |-> new]
    BY <1>3, <1>9, <2>2
  <2>4. p \notin Installed \ Upgradeable
    BY <1>9 DEF CandidateVersion
  <2>5. ASSUME Fine(s.dep), IsAble(r)
        PROVE  Brings(s.dep, new) /\ new[p].mode = "install"
    <3>1. Installable(p)
      BY <2>1, <2>5 DEF IsAble, found
    <3> QED BY <2>1, <2>4, <2>5, <3>1, SetInstalledFine DEF Brings
  <2>6. new \in SteadyCache
    <3>1. Steady(new)
      BY <1>1, <2>1, SetInstalledSteady
    <3> QED BY <3>1 DEF SteadyCache, Steady
  <2> HIDE DEF t, p, new
  <2>7. ASSUME Fine(s.dep), IsAble(r) PROVE Meets(new, r)
    BY <1>9, <2>1, <2>5, <2>7 DEF Meets, found
  <2>8. t.met = TRUE /\ t.dep = new /\ t \in Tries
    BY <2>3, <2>6 DEF Tries
  <2>9. Fine(s.dep) /\ IsAble(r) => Meets(t.dep, r) /\ Brings(s.dep, t.dep)
    BY <2>5, <2>7, <2>8
  <2>10. TriesOne(s, t, r)
    BY <1>9, <2>1, <2>8, <2>9 DEF TriesOne
  <2> QED BY <2>8, <2>10 DEF t
<1> QED BY <1>6, <1>7, <1>8, <1>9

\* The alternatives of a group, one after the other.
TryGroup(s, g) == FoldLeft(TryAlternative, s, g)

AreTries(e, s, g) ==
  e[0] = s /\ \A k \in 0..(Len(g) - 1) : e[k + 1] = TryAlternative(e[k], g[k + 1])

LEMMA TrySteps ==
  ASSUME NEW S, NEW g \in Seq(S), NEW s \in Tries
  PROVE  \E e \in [0..Len(g) -> Tries] : AreTries(e, s, g) /\ TryGroup(s, g) = e[Len(g)]
<1> DEFINE n == Len(g)
           step == [x \in Tries \X (1..n) |-> TryAlternative(x[1], g[x[2]])]
           Body(h) == [T \in SUBSET DOMAIN g |->
                         IF T = {} THEN s ELSE TryAlternative(h[T \ {Max(T)}], g[Max(T)])]
           iter == CHOOSE h : h = Body(h)
<1>1. n \in Nat /\ DOMAIN g = 1..n
  OBVIOUS
<1>2. TryGroup(s, g) = iter[DOMAIN g]
  BY DEF TryGroup, FoldLeft, MapThenFoldSet
<1>3. step \in [Tries \X (1..n) -> Tries]
  <2>1. ASSUME NEW t \in Tries, NEW k \in 1..n PROVE TryAlternative(t, g[k]) \in Tries
    BY TryFacts
  <2> HIDE DEF n
  <2> QED BY <2>1
<1>4. \A t \in Tries, k \in 1..n : step[<<t, k>>] = TryAlternative(t, g[k])
  <2> HIDE DEF n
  <2> QED OBVIOUS
<1> HIDE DEF step, n, Body
<1>5. PICK h \in [SUBSET (1..n) -> Tries] : IsFold(h, n, s, step)
  <2> HIDE DEF iter
  <2> QED BY <1>1, <1>3, FoldExists
<1>6. h = Body(h)
  <2>1. ASSUME NEW T \in SUBSET (1..n), T # {}
        PROVE  h[T] = TryAlternative(h[T \ {Max(T)}], g[Max(T)])
    <3>1. Max(T) \in 1..n /\ T \ {Max(T)} \in SUBSET (1..n)
      BY <1>1, <2>1, MaxFacts
    <3>2. h[T \ {Max(T)}] \in Tries
      BY <3>1
    <3>3. h[T] = step[<<h[T \ {Max(T)}], Max(T)>>]
      BY <1>5, <2>1 DEF IsFold
    <3> QED BY <1>4, <3>1, <3>2, <3>3
  <2>2. h[{}] = s
    BY <1>5 DEF IsFold
  <2>3. h = [T \in SUBSET (1..n) |-> h[T]]
    OBVIOUS
  <2> QED BY <1>1, <2>1, <2>2, <2>3 DEF Body
<1>7. iter = Body(iter)
  BY <1>6
<1> HIDE DEF iter
<1>8. Follows(iter, n, Tries, s, step)
  <2>1. ASSUME NEW T \in SUBSET (1..n), T # {}, iter[T \ {Max(T)}] \in Tries
        PROVE  iter[T] = step[<<iter[T \ {Max(T)}], Max(T)>>]
    <3>1. Max(T) \in 1..n
      BY <1>1, <2>1, MaxFacts
    <3>2. iter[T] = TryAlternative(iter[T \ {Max(T)}], g[Max(T)])
      BY <1>1, <1>7, <2>1 DEF Body
    <3> QED BY <1>4, <2>1, <3>1, <3>2
  <2>2. ASSUME NEW T \in SUBSET (1..n), T = {} PROVE iter[T] = s
    BY <1>1, <1>7, <2>2 DEF Body
  <2> QED BY <2>1, <2>2 DEF Follows
<1>9. PICK e \in [0..n -> Tries] : IsWay(e, n, s, step, iter[1..n])
  BY <1>1, <1>3, <1>8, WayOfFold
<1>10. ASSUME NEW k \in 0..(n - 1) PROVE e[k + 1] = TryAlternative(e[k], g[k + 1])
  <2>1. k \in 0..n /\ k + 1 \in 1..n
    BY <1>1
  <2> QED BY <1>4, <1>9, <2>1 DEF IsWay
<1>11. e[0] = s /\ TryGroup(s, g) = e[n]
  BY <1>1, <1>2, <1>9 DEF IsWay
<1> QED BY <1>9, <1>10, <1>11 DEF n, AreTries

\* What a group does to the search.
TriesGroup(s, t, G) ==
  /\ t.met <=> \E r \in G : Found(r)
  /\ Fine(s.dep) /\ (\A r \in G : IsAble(r)) =>
       /\ Brings(s.dep, t.dep)
       /\ t.met => \E r \in G : Meets(t.dep, r)

LEMMA GrownTwice ==
  ASSUME NEW d, NEW e, NEW f, Grown(d, e), Grown(e, f)
  PROVE  Grown(d, f)
BY DEF Grown

LEMMA TryGroupFacts ==
  ASSUME NEW S, NEW g \in Seq(S), NEW s \in Tries, ~s.met
  PROVE  TryGroup(s, g) \in Tries /\ TriesGroup(s, TryGroup(s, g), ToSet(g))
<1> DEFINE n == Len(g)
           First(k) == {g[i] : i \in 1..k}
<1>1. n \in Nat /\ DOMAIN g = 1..n
  OBVIOUS
<1>2. PICK e \in [0..n -> Tries] : AreTries(e, s, g) /\ TryGroup(s, g) = e[n]
  BY TrySteps
<1>3. ToSet(g) = First(n)
  BY <1>1 DEF ToSet
<1> HIDE DEF n
<1> DEFINE Good == {k \in 0..n : TriesGroup(s, e[k], First(k))}
<1>4. 0 \in Good
  <2>1. e[0] = s /\ First(0) = {} /\ 0 \in 0..n
    BY <1>1, <1>2 DEF AreTries
  <2> HIDE DEF First
  <2>2. TriesGroup(s, s, {})
    BY DEF TriesGroup, Brings, Grown
  <2> QED BY <2>1, <2>2
<1>5. ASSUME NEW k \in 0..(n - 1), k \in Good PROVE k + 1 \in Good
  <2>1. k \in 0..n /\ k + 1 \in 0..n /\ k + 1 \in 1..n /\ k \in Nat
    BY <1>1
  <2>2. e[k + 1] = TryAlternative(e[k], g[k + 1]) /\ e[k] \in Tries
    BY <1>2, <2>1 DEF AreTries, n
  <2>3. TriesOne(e[k], e[k + 1], g[k + 1])
    BY <2>2, TryFacts
  <2>4. First(k + 1) = First(k) \cup {g[k + 1]}
    <3>1. \A i \in 1..(k + 1) : i \in 1..k \/ i = k + 1
      BY <2>1
    <3>2. 1..k \subseteq 1..(k + 1) /\ k + 1 \in 1..(k + 1)
      BY <2>1
    <3> QED BY <3>1, <3>2
  <2> HIDE DEF First
  <2>5. TriesGroup(s, e[k], First(k))
    BY <1>5
  <2> DEFINE a == e[k]
             b == e[k + 1]
             r == g[k + 1]
  <2>6. a.met \in BOOLEAN
    BY <2>2 DEF Tries
  <2> HIDE DEF a, b, r
  <2>7. /\ (b.met <=> a.met \/ Found(r)) /\ (a.met => b = a)
        /\ Fine(a.dep) /\ IsAble(r) => Brings(a.dep, b.dep) /\ (b.met /\ ~a.met => Meets(b.dep, r))
    BY <2>3 DEF TriesOne, a, b, r
  <2>8. /\ (a.met <=> \E x \in First(k) : Found(x))
        /\ Fine(s.dep) /\ (\A x \in First(k) : IsAble(x)) =>
             Brings(s.dep, a.dep) /\ (a.met => \E x \in First(k) : Meets(a.dep, x))
    BY <2>5 DEF TriesGroup, a
  <2>9. First(k + 1) = First(k) \cup {r}
    BY <2>4 DEF r
  <2>10. ASSUME Fine(s.dep), \A x \in First(k + 1) : IsAble(x)
         PROVE  Brings(s.dep, b.dep) /\ (b.met => \E x \in First(k + 1) : Meets(b.dep, x))
    <3>1. IsAble(r) /\ \A x \in First(k) : IsAble(x)
      BY <2>9, <2>10
    <3>2. Brings(s.dep, a.dep) /\ (a.met => \E x \in First(k) : Meets(a.dep, x))
      BY <2>8, <2>10, <3>1
    <3>3. Brings(a.dep, b.dep) /\ (b.met /\ ~a.met => Meets(b.dep, r))
      BY <2>7, <3>1, <3>2 DEF Brings
    <3>4. Brings(s.dep, b.dep)
      BY <3>2, <3>3, GrownTwice DEF Brings
    <3> QED BY <2>7, <2>9, <3>2, <3>3, <3>4
  <2>11. b.met <=> \E x \in First(k + 1) : Found(x)
    BY <2>7, <2>8, <2>9
  <2>13. TriesGroup(s, b, First(k + 1))
    BY <2>10, <2>11 DEF TriesGroup
  <2> QED BY <2>1, <2>13 DEF b
<1>6. \A k \in 0..n : k \in Good
  <2> HIDE DEF Good
  <2> QED BY <1>1, <1>4, <1>5, AllNumbers
<1>7. n \in 0..n
  BY <1>1
<1> HIDE DEF First
<1> QED BY <1>2, <1>3, <1>6, <1>7


\* What the search does for one group, and for all of a sequence.
Satisfying(s, g) == IF ~s.met THEN s ELSE TryGroup([s EXCEPT !.met = FALSE], g)

SatisfyAll(s, gs) ==
  FoldLeft(LAMBDA t, g : IF ~t.met THEN t
                         ELSE FoldLeft(TryAlternative, [t EXCEPT !.met = FALSE], g), s, gs)

LEMMA Satisfied ==
  ASSUME NEW S, NEW g \in Seq(S), NEW s \in Tries
  PROVE  /\ Satisfying(s, g) \in Tries
         /\ ~s.met => Satisfying(s, g) = s
         /\ s.met => TriesGroup(s, Satisfying(s, g), ToSet(g))
<1>1. CASE ~s.met
  BY <1>1 DEF Satisfying
<1>2. CASE s.met
  <2> DEFINE t == [s EXCEPT !.met = FALSE]
  <2>1. t \in Tries /\ ~t.met /\ t.dep = s.dep
    BY DEF Tries
  <2>2. Satisfying(s, g) = TryGroup(t, g)
    BY <1>2 DEF Satisfying
  <2> HIDE DEF t
  <2>3. TryGroup(t, g) \in Tries /\ TriesGroup(t, TryGroup(t, g), ToSet(g))
    BY <2>1, TryGroupFacts
  <2>4. TriesGroup(s, TryGroup(t, g), ToSet(g))
    BY <2>1, <2>3 DEF TriesGroup
  <2> QED BY <1>2, <2>2, <2>3, <2>4
<1> QED BY <1>1, <1>2

AreSatisfyings(e, s, gs) ==
  e[0] = s /\ \A k \in 0..(Len(gs) - 1) : e[k + 1] = Satisfying(e[k], gs[k + 1])

LEMMA SatisfySteps ==
  ASSUME NEW S, NEW gs \in Seq(Seq(S)), NEW s \in Tries
  PROVE  \E e \in [0..Len(gs) -> Tries] : AreSatisfyings(e, s, gs) /\ SatisfyAll(s, gs) = e[Len(gs)]
<1> DEFINE n == Len(gs)
           step == [x \in Tries \X (1..n) |-> Satisfying(x[1], gs[x[2]])]
           Body(h) == [T \in SUBSET DOMAIN gs |->
                         IF T = {} THEN s ELSE Satisfying(h[T \ {Max(T)}], gs[Max(T)])]
           iter == CHOOSE h : h = Body(h)
<1>1. n \in Nat /\ DOMAIN gs = 1..n /\ \A k \in 1..n : gs[k] \in Seq(S)
  OBVIOUS
<1>2. SatisfyAll(s, gs) = iter[DOMAIN gs]
  BY DEF SatisfyAll, FoldLeft, MapThenFoldSet, Satisfying, TryGroup
<1>3. step \in [Tries \X (1..n) -> Tries]
  <2>1. ASSUME NEW t \in Tries, NEW k \in 1..n PROVE Satisfying(t, gs[k]) \in Tries
    BY <1>1, Satisfied
  <2> HIDE DEF n
  <2> QED BY <2>1
<1>4. \A t \in Tries, k \in 1..n : step[<<t, k>>] = Satisfying(t, gs[k])
  <2> HIDE DEF n
  <2> QED OBVIOUS
<1> HIDE DEF step, n, Body
<1>5. PICK h \in [SUBSET (1..n) -> Tries] : IsFold(h, n, s, step)
  <2> HIDE DEF iter
  <2> QED BY <1>1, <1>3, FoldExists
<1>6. h = Body(h)
  <2>1. ASSUME NEW T \in SUBSET (1..n), T # {}
        PROVE  h[T] = Satisfying(h[T \ {Max(T)}], gs[Max(T)])
    <3>1. Max(T) \in 1..n /\ T \ {Max(T)} \in SUBSET (1..n)
      BY <1>1, <2>1, MaxFacts
    <3>2. h[T \ {Max(T)}] \in Tries
      BY <3>1
    <3>3. h[T] = step[<<h[T \ {Max(T)}], Max(T)>>]
      BY <1>5, <2>1 DEF IsFold
    <3> QED BY <1>4, <3>1, <3>2, <3>3
  <2>2. h[{}] = s
    BY <1>5 DEF IsFold
  <2>3. h = [T \in SUBSET (1..n) |-> h[T]]
    OBVIOUS
  <2> QED BY <1>1, <2>1, <2>2, <2>3 DEF Body
<1>7. iter = Body(iter)
  BY <1>6
<1> HIDE DEF iter
<1>8. Follows(iter, n, Tries, s, step)
  <2>1. ASSUME NEW T \in SUBSET (1..n), T # {}, iter[T \ {Max(T)}] \in Tries
        PROVE  iter[T] = step[<<iter[T \ {Max(T)}], Max(T)>>]
    <3>1. Max(T) \in 1..n
      BY <1>1, <2>1, MaxFacts
    <3>2. iter[T] = Satisfying(iter[T \ {Max(T)}], gs[Max(T)])
      BY <1>1, <1>7, <2>1 DEF Body
    <3> QED BY <1>4, <2>1, <3>1, <3>2
  <2>2. ASSUME NEW T \in SUBSET (1..n), T = {} PROVE iter[T] = s
    BY <1>1, <1>7, <2>2 DEF Body
  <2> QED BY <2>1, <2>2 DEF Follows
<1>9. PICK e \in [0..n -> Tries] : IsWay(e, n, s, step, iter[1..n])
  BY <1>1, <1>3, <1>8, WayOfFold
<1>10. ASSUME NEW k \in 0..(n - 1) PROVE e[k + 1] = Satisfying(e[k], gs[k + 1])
  <2>1. k \in 0..n /\ k + 1 \in 1..n
    BY <1>1
  <2> QED BY <1>4, <1>9, <2>1 DEF IsWay
<1>11. e[0] = s /\ SatisfyAll(s, gs) = e[n]
  BY <1>1, <1>2, <1>9 DEF IsWay
<1> QED BY <1>9, <1>10, <1>11 DEF n, AreSatisfyings

\* The search has met groups: what it says, and what is there then.
HasMet(t, gs, M) ==
  /\ t.met <=> \A m \in M : \E r \in ToSet(gs[m]) : Found(r)
  /\ (\A m \in M : \A r \in ToSet(gs[m]) : IsAble(r)) =>
       /\ Fine(t.dep)
       /\ t.met => \A m \in M : \E r \in ToSet(gs[m]) : Meets(t.dep, r)

LEMMA SatisfyFacts ==
  ASSUME NEW S, NEW gs \in Seq(Seq(S)), NEW s \in Tries, s.met, Fine(s.dep)
  PROVE  SatisfyAll(s, gs) \in Tries /\ HasMet(SatisfyAll(s, gs), gs, DOMAIN gs)
<1> DEFINE n == Len(gs)
<1>1. n \in Nat /\ DOMAIN gs = 1..n /\ \A m \in 1..n : gs[m] \in Seq(S)
  OBVIOUS
<1>2. PICK e \in [0..n -> Tries] : AreSatisfyings(e, s, gs) /\ SatisfyAll(s, gs) = e[n]
  BY SatisfySteps
<1> HIDE DEF n
<1> DEFINE Good == {k \in 0..n : HasMet(e[k], gs, 1..k)}
<1>3. 0 \in Good
  <2>1. e[0] = s /\ 1..0 = {} /\ 0 \in 0..n
    BY <1>1, <1>2 DEF AreSatisfyings
  <2>2. HasMet(s, gs, {})
    BY DEF HasMet
  <2> QED BY <2>1, <2>2
<1>4. ASSUME NEW k \in 0..(n - 1), k \in Good PROVE k + 1 \in Good
  <2>1. k \in 0..n /\ k + 1 \in 0..n /\ k + 1 \in 1..n /\ k \in Nat
    BY <1>1
  <2>2. e[k + 1] = Satisfying(e[k], gs[k + 1]) /\ e[k] \in Tries
    BY <1>2, <2>1 DEF AreSatisfyings, n
  <2> DEFINE a == e[k]
             b == e[k + 1]
             G == ToSet(gs[k + 1])
  <2>3. (~a.met => b = a) /\ (a.met => TriesGroup(a, b, G))
    BY <1>1, <2>1, <2>2, Satisfied
  <2>4. HasMet(a, gs, 1..k)
    BY <1>4
  <2>5. \A m \in 1..(k + 1) : m \in 1..k \/ m = k + 1
    BY <2>1
  <2>6. 1..k \subseteq 1..(k + 1) /\ k + 1 \in 1..(k + 1)
    BY <2>1
  <2>7. HasMet(b, gs, 1..(k + 1))
    <3> HIDE DEF a, b
    <3>1. CASE ~a.met
      <4>1. b = a /\ ~\A m \in 1..k : \E r \in ToSet(gs[m]) : Found(r)
        BY <2>3, <2>4, <3>1 DEF HasMet
      <4>2. (\A m \in 1..(k + 1) : \A r \in ToSet(gs[m]) : IsAble(r)) => Fine(a.dep)
        BY <2>4, <2>6 DEF HasMet
      <4> QED BY <2>6, <3>1, <4>1, <4>2 DEF HasMet
    <3>2. CASE a.met
      <4>1. /\ b.met <=> \E r \in G : Found(r)
            /\ Fine(a.dep) /\ (\A r \in G : IsAble(r)) => Brings(a.dep, b.dep) /\ (b.met => \E r \in G : Meets(b.dep, r))
        BY <2>3, <3>2 DEF TriesGroup
      <4>2. /\ \A m \in 1..k : \E r \in ToSet(gs[m]) : Found(r)
            /\ (\A m \in 1..k : \A r \in ToSet(gs[m]) : IsAble(r)) =>
                 Fine(a.dep) /\ \A m \in 1..k : \E r \in ToSet(gs[m]) : Meets(a.dep, r)
        BY <2>4, <3>2 DEF HasMet
      <4>4. b.met <=> \A m \in 1..(k + 1) : \E r \in ToSet(gs[m]) : Found(r)
        BY <2>5, <2>6, <4>1, <4>2
      <4>5. ASSUME \A m \in 1..(k + 1) : \A r \in ToSet(gs[m]) : IsAble(r)
            PROVE  Fine(b.dep) /\ (b.met => \A m \in 1..(k + 1) : \E r \in ToSet(gs[m]) : Meets(b.dep, r))
        <5>1. Fine(a.dep) /\ \A m \in 1..k : \E r \in ToSet(gs[m]) : Meets(a.dep, r)
          BY <2>6, <4>2, <4>5
        <5>2. Brings(a.dep, b.dep) /\ (b.met => \E r \in G : Meets(b.dep, r))
          BY <2>6, <4>1, <4>5, <5>1
        <5>3. Fine(b.dep) /\ Grown(a.dep, b.dep)
          BY <5>2 DEF Brings
        <5>4. \A m \in 1..k : \E r \in ToSet(gs[m]) : Meets(b.dep, r)
          BY <5>1, <5>3, MeetsGrown
        <5> QED BY <2>5, <5>2, <5>3, <5>4
      <4> QED BY <4>4, <4>5 DEF HasMet
    <3> QED BY <3>1, <3>2
  <2> QED BY <2>1, <2>7
<1>5. \A k \in 0..n : k \in Good
  <2> HIDE DEF Good
  <2> QED BY <1>1, <1>3, <1>4, AllNumbers
<1>6. n \in 0..n
  BY <1>1
<1> QED BY <1>1, <1>2, <1>5, <1>6

\* Each relation that could be read has an alternative for which there is a package,
\* and one that the marks d meet.
AllFound ==
  LET field == Parsed(deb.depends)
  IN  \A i \in DOMAIN field : \E j \in Alternatives(field, i) : Found(field[j])

AllMeet(d) ==
  LET field == Parsed(deb.depends)
  IN  \A i \in DOMAIN field : \E j \in Alternatives(field, i) : Meets(d, field[j])

LEMMA SearchedFacts ==
  ASSUME deb \in Debs, Fine(dep)
  PROVE  /\ SatisfyDepends \in Tries
         /\ SatisfyDepends.met <=> AllFound
         /\ AsksForInstallable =>
              /\ Fine(SatisfyDepends.dep)
              /\ SatisfyDepends.met => AllMeet(SatisfyDepends.dep)
<1> DEFINE F  == Parsed(deb.depends)
           gs == ParseDepends(deb.depends)
           S  == ToSet(deb.depends)
           s  == [met |-> TRUE, dep |-> dep]
           t  == SatisfyAll(s, gs)
<1>1. deb.depends \in Seq(S) /\ \A r \in S : r.or \in BOOLEAN
  BY DebCheckAssumption DEF IsField
<1> HIDE DEF S
<1>2. gs \in Seq(Seq(S)) /\ AreTheGroups(gs, F)
  BY <1>1, ParseFacts
<1>3. SatisfyDepends = t
  BY DEF SatisfyDepends, SatisfyAll
<1>4. s \in Tries /\ s.met /\ Fine(s.dep)
  BY DEF Tries, SteadyCache, Fine, Whole, Steady
<1> HIDE DEF gs, F, s
<1>5. t \in Tries /\ HasMet(t, gs, DOMAIN gs)
  BY <1>2, <1>4, SatisfyFacts
<1> HIDE DEF t
<1>6. ASSUME NEW i \in DOMAIN F
      PROVE  \E m \in DOMAIN gs : ToSet(gs[m]) = {F[j] : j \in Alternatives(F, i)}
  BY <1>2 DEF AreTheGroups, Those
<1>7. ASSUME NEW m \in DOMAIN gs
      PROVE  \E i \in DOMAIN F : ToSet(gs[m]) = {F[j] : j \in Alternatives(F, i)}
  BY <1>2 DEF AreTheGroups, Those
<1>8. ASSUME t.met
      PROVE  \A i \in DOMAIN F : \E j \in Alternatives(F, i) : Found(F[j])
  <2>1. \A m \in DOMAIN gs : \E r \in ToSet(gs[m]) : Found(r)
    BY <1>5, <1>8 DEF HasMet
  <2> QED BY <1>6, <2>1
<1>9. ASSUME \A i \in DOMAIN F : \E j \in Alternatives(F, i) : Found(F[j])
      PROVE  t.met
  <2>1. \A m \in DOMAIN gs : \E r \in ToSet(gs[m]) : Found(r)
    BY <1>7, <1>9
  <2> QED BY <1>5, <2>1 DEF HasMet
<1>a. ASSUME AsksForInstallable PROVE \A m \in DOMAIN gs : \A r \in ToSet(gs[m]) : IsAble(r)
  <2>1. \A j \in DOMAIN F : F[j] \in ToSet(F)
    BY DEF ToSet
  <2>2. \A r \in ToSet(F) : IsAble(r)
    BY <1>a DEF AsksForInstallable, IsAble, F
  <2>3. \A i : Alternatives(F, i) \subseteq DOMAIN F
    BY DEF Alternatives
  <2>4. ASSUME NEW m \in DOMAIN gs, NEW r \in ToSet(gs[m]) PROVE IsAble(r)
    <3>1. PICK i \in DOMAIN F : ToSet(gs[m]) = {F[j] : j \in Alternatives(F, i)}
      BY <1>7
    <3>2. PICK j \in Alternatives(F, i) : r = F[j]
      BY <2>4, <3>1
    <3> QED BY <2>1, <2>2, <2>3, <3>2
  <2> QED BY <2>4
<1>10. ASSUME AsksForInstallable
       PROVE  Fine(t.dep) /\ (t.met => \A i \in DOMAIN F : \E j \in Alternatives(F, i) : Meets(t.dep, F[j]))
  <2>1. Fine(t.dep) /\ (t.met => \A m \in DOMAIN gs : \E r \in ToSet(gs[m]) : Meets(t.dep, r))
    BY <1>5, <1>10, <1>a DEF HasMet
  <2> QED BY <1>6, <2>1
<1>11. AllFound <=> \A i \in DOMAIN F : \E j \in Alternatives(F, i) : Found(F[j])
  BY DEF AllFound, F
<1>12. AllMeet(t.dep) <=> \A i \in DOMAIN F : \E j \in Alternatives(F, i) : Meets(t.dep, F[j])
  BY DEF AllMeet, F
<1> QED BY <1>3, <1>5, <1>8, <1>9, <1>10, <1>11, <1>12

\* What the verdict on a .deb is.
Acceptable == SupportedArch /\ CheckConflicts = {} /\ CheckBreaksSystem = {} /\ AllFound

DebInv ==
  /\ deb \in Debs /\ held = {} /\ Steady(dep)
  /\ stage \in {"open", "refused", "offered", "done"}
  /\ stage = "open" => dep = Fresh
  /\ stage # "open" => (stage \in {"offered", "done"} <=> Acceptable)
  /\ stage \in {"offered", "done"} /\ AsksForInstallable => Fine(dep) /\ AllMeet(dep)
  /\ stage = "done" => system = IF MarkedPackages = {} THEN Fresh ELSE CommitDone

LEMMA DebInitInv == DebInit => DebInv
<1>1. Steady(Fresh)
  BY FreshWhole DEF Whole, Steady
<1> QED BY <1>1 DEF DebInit, MarkInit, DebInv

LEMMA DebNextInv == DebInv /\ [DebNext]_<<markVars, debVars>> => DebInv'
<1> SUFFICES ASSUME DebInv, [DebNext]_<<markVars, debVars>> PROVE DebInv'
  OBVIOUS
<1>1. ASSUME deb' = deb
      PROVE  /\ Acceptable' <=> Acceptable
             /\ AsksForInstallable' <=> AsksForInstallable
             /\ \A d : AllMeet(d)' <=> AllMeet(d)
  <2>1. \A n, c : Lookup(n, c)' = Lookup(n, c)
    BY <1>1 DEF Lookup
  <2>2. \A r : Found(r)' <=> Found(r)
    BY <2>1 DEF Found
  <2>3. \A d, r : Meets(d, r)' <=> Meets(d, r)
    BY <2>1 DEF Meets
  <2>4. AllFound' <=> AllFound
    BY <1>1, <2>2 DEF AllFound
  <2>5. CheckConflicts' = CheckConflicts
    BY <1>1, <2>1 DEF CheckConflicts
  <2>6. CheckBreaksSystem' = CheckBreaksSystem /\ SupportedArch' = SupportedArch
    BY <1>1 DEF CheckBreaksSystem, SupportedArch
  <2>7. \A d : AllMeet(d)' <=> AllMeet(d)
    BY <1>1, <2>3 DEF AllMeet
  <2>8. AsksForInstallable' <=> AsksForInstallable
    BY <1>1, <2>1 DEF AsksForInstallable
  <2> QED BY <2>4, <2>5, <2>6, <2>7, <2>8 DEF Acceptable
<1>2. CASE CheckDeb
  <2> DEFINE goesOn == SupportedArch /\ CheckConflicts = {} /\ CheckBreaksSystem = {}
             s      == SatisfyDepends
  <2>1. /\ stage = "open" /\ dep' = (IF goesOn THEN s.dep ELSE dep)
        /\ stage' = (IF goesOn /\ s.met THEN "offered" ELSE "refused")
        /\ held' = held /\ deb' = deb
    BY <1>2 DEF CheckDeb
  <2>2. deb \in Debs /\ held = {} /\ Steady(dep) /\ Fine(dep)
    BY <2>1, FreshFine DEF DebInv
  <2>3. s \in Tries /\ (s.met <=> AllFound) /\ (AsksForInstallable => Fine(s.dep) /\ (s.met => AllMeet(s.dep)))
    BY <2>2, SearchedFacts
  <2> HIDE DEF s
  <2>4. Steady(s.dep)
    BY <2>3 DEF Tries, SteadyCache
  <2>5. Acceptable <=> goesOn /\ s.met
    BY <2>3 DEF Acceptable
  <2> HIDE DEF goesOn
  <2>6. CASE goesOn /\ s.met
    <3>1. dep' = s.dep /\ stage' = "offered" /\ Acceptable'
      BY <1>1, <2>1, <2>5, <2>6
    <3>2. AsksForInstallable' => Fine(dep') /\ AllMeet(dep)'
      <4>1. AsksForInstallable => Fine(s.dep) /\ AllMeet(s.dep)
        BY <2>3, <2>6
      <4>2. AsksForInstallable' <=> AsksForInstallable
        BY <1>1, <2>1
      <4>3. AllMeet(dep)' <=> AllMeet(s.dep)
        BY <2>1, <3>1 DEF AllMeet, Meets, Lookup
      <4> QED BY <3>1, <4>1, <4>2, <4>3
    <3> QED BY <2>1, <2>2, <2>4, <3>1, <3>2 DEF DebInv
  <2>7. CASE ~(goesOn /\ s.met)
    <3>1. stage' = "refused" /\ ~Acceptable' /\ Steady(dep')
      BY <1>1, <2>1, <2>2, <2>4, <2>5, <2>7
    <3> QED BY <2>1, <2>2, <3>1 DEF DebInv
  <2> QED BY <2>6, <2>7
<1>3. CASE InstallDebFile
  <2>1. /\ stage = "offered" /\ stage' = "done" /\ UNCHANGED <<dep, held, deb>>
        /\ system' = IF MarkedPackages = {} THEN Fresh ELSE CommitDone
    BY <1>3 DEF InstallDebFile, markVars
  <2>2. CommitDone' = CommitDone /\ MarkedPackages' = MarkedPackages
    BY <2>1 DEF CommitDone, MarkedPackages
  <2>3. Acceptable' /\ (AsksForInstallable' => Fine(dep) /\ AllMeet(dep)')
    BY <1>1, <2>1 DEF DebInv
  <2> QED BY <2>1, <2>2, <2>3 DEF DebInv
<1>4. CASE UNCHANGED <<markVars, debVars>>
  <2>1. UNCHANGED <<dep, held, deb, stage, system>>
    BY <1>4 DEF markVars, debVars
  <2>2. CommitDone' = CommitDone /\ MarkedPackages' = MarkedPackages
    BY <2>1 DEF CommitDone, MarkedPackages
  <2>3. (Acceptable' <=> Acceptable) /\ (AllMeet(dep)' <=> AllMeet(dep)) /\ (AsksForInstallable' <=> AsksForInstallable)
    BY <1>1, <2>1
  <2> QED BY <2>1, <2>2, <2>3 DEF DebInv
<1> QED BY <1>2, <1>3, <1>4 DEF DebNext

\* What the commit of the dependencies comes to.
LEMMA SystemFacts ==
  ASSUME DebInv, stage = "done"
  PROVE  /\ \A p \in Packages : Shown(system, p) \in {"ToKeep", Shown(dep, p)}
         /\ AsksForInstallable => /\ Committable(system)
                                 /\ \A p \in Packages : system[p].mode = dep[p].mode
<1>1. /\ Steady(dep) /\ held = {} /\ system = IF MarkedPackages = {} THEN Fresh ELSE CommitDone
      /\ AsksForInstallable => Fine(dep)
  BY DEF DebInv
<1>2. CASE MarkedPackages # {}
  <2>1. \A p \in Packages : Shown(system, p) \in {"ToKeep", Shown(dep, p)}
    BY <1>1, <1>2, SteadyOutcome
  <2>2. AsksForInstallable => Committable(system) /\ \A p \in Packages : system[p].mode = dep[p].mode
    BY <1>1, <1>2, OutcomeFacts
  <2> QED BY <2>1, <2>2
<1>3. CASE MarkedPackages = {}
  <2>1. system = Fresh
    BY <1>1, <1>3
  <2>2. Broken(Fresh) = {} /\ \A p \in Packages : Shown(Fresh, p) = "ToKeep"
    BY FreshWhole DEF Whole, Shown, Fresh
  <2>3. \A p \in Unmeetable : ~Present(Fresh, p)
    BY UnmeetableAssumption DEF Present, Fresh
  <2>4. ASSUME NEW p \in Packages PROVE Fresh[p].mode = dep[p].mode
    <3>1. dep[p].mode \in {"keep", "install"}
      BY <1>1 DEF Steady, SoundCache, Marks
    <3>2. dep[p].mode # "install"
      BY <1>3 DEF MarkedPackages
    <3> QED BY <3>1, <3>2 DEF Fresh
  <2> QED BY <2>1, <2>2, <2>3, <2>4 DEF Committable
<1> QED BY <1>2, <1>3

\* A .deb without a Conflicts field is offered if and only if it should be: for any
\* packages and any fields, whatever the alternatives and how they are grouped.
THEOREM VerdictIsAlwaysRight == DebSpec => []VerdictIsRight
<1>1. DebInv => VerdictIsRight
  <2> SUFFICES ASSUME DebInv, stage # "open", deb.conflicts = <<>> PROVE VerdictIsRight
    BY DEF VerdictIsRight
  <2>1. deb \in Debs /\ (stage \in {"offered", "done"} <=> Acceptable)
    BY DEF DebInv
  <2>2. CheckConflicts = {}
    <3> DEFINE gs == ParseDepends(deb.conflicts)
               F  == Parsed(deb.conflicts)
               S  == {}
    <3>1. deb.conflicts \in Seq(S) /\ \A r \in S : r.or \in BOOLEAN
      OBVIOUS
    <3>2. F \in Seq(S) /\ gs \in Seq(Seq(S)) /\ AreTheGroups(gs, F)
      <4> HIDE DEF S
      <4> QED BY <3>1, ParseFacts
    <3>3. DOMAIN F = {}
      BY <3>2
    <3> HIDE DEF F, gs
    <3>4. DOMAIN gs = {}
      BY <3>2, <3>3 DEF AreTheGroups
    <3>5. ToSet(gs) = {}
      BY <3>4 DEF ToSet
    <3> QED BY <3>5 DEF CheckConflicts, gs
  <2>3. SupportedArch <=> deb.arch # "other"
    BY <2>1, DebCheckAssumption DEF SupportedArch
  <2>4. CheckBreaksSystem = {} <=> \A p \in Installed : deb.version \in Needed[p] \ Refused[p]
    BY DEF CheckBreaksSystem
  <2> QED BY <2>1, <2>2, <2>3, <2>4 DEF VerdictIsRight, Acceptable, AllFound
<1> QED BY DebInitInv, DebNextInv, <1>1, PTL DEF DebSpec

\* The details of an offer leave out nothing that the commit changes, but what has the
\* name of the .deb: for any packages, requirements and fields.
THEOREM DetailsAreAlwaysComplete == DebSpec => []DetailsAreComplete
<1>1. DebInv => DetailsAreComplete
  <2> SUFFICES ASSUME DebInv, stage = "done", NEW p \in Packages \ Namesake, Shown(system, p) # "ToKeep"
               PROVE  p \in DOMAIN Details /\ Details[p] = Shown(system, p)
    BY DEF DetailsAreComplete
  <2>1. Shown(Fresh, p) = "ToKeep"
    BY DEF Shown, Fresh
  <2>2. Shown(system, p) = Shown(dep, p)
    BY SystemFacts
  <2>3. dep \in Cache /\ dep[p].mode # "delete" /\ ~dep[p].reinstall
    BY DEF DebInv, Steady, SoundCache
  <2>4. Shown(dep, p) # "ToPurge"
    <3>1. dep[p].mode \in {"keep", "install"}
      BY <2>3 DEF Marks
    <3> QED BY <2>3, <3>1, ShownFacts
  <2> DEFINE old == CacheState(Fresh, {})
             changed == {q \in Packages \ Namesake : State(dep, held, q) # old[q] /\ Shown(dep, q) # "ToKeep"}
  <2>5. old[p].mark = "ToKeep" /\ State(dep, held, p).mark = Shown(dep, p)
    BY <2>1 DEF CacheState, State
  <2>6. p \in changed
    BY <2>2, <2>5
  <2>7. Details = [q \in changed |-> IF Shown(dep, q) = "ToPurge" THEN "ToRemove" ELSE Shown(dep, q)]
    BY DEF Details, StateChanges
  <2> HIDE DEF changed
  <2> QED BY <2>2, <2>4, <2>6, <2>7
<1> QED BY DebInitInv, DebNextInv, <1>1, PTL DEF DebSpec

\* What was offered is met once it is committed, for any packages, requirements and
\* fields, but for what another group had upgraded.
THEOREM OfferedIsAlwaysMet == DebSpec => []OfferedIsMet
<1>1. DebInv => OfferedIsMet
  <2> SUFFICES ASSUME DebInv, stage = "done", AsksForInstallable PROVE OfferedIsMet
    BY DEF OfferedIsMet
  <2> DEFINE F == Parsed(deb.depends)
  <2>1. AllMeet(dep) /\ Fine(dep) /\ Steady(dep)
    BY DEF DebInv
  <2>2. Committable(system) /\ \A p \in Packages : system[p].mode = dep[p].mode
    BY SystemFacts
  <2>3. \A i \in DOMAIN F : \E j \in Alternatives(F, i) : Meets(dep, F[j])
    BY <2>1 DEF AllMeet
  <2> HIDE DEF F
  <2>4. ASSUME NEW r, Meets(dep, r) PROVE Met(system, r) \/ Outdated(system, r)
    <3>1. PICK p \in Lookup(r.name, FALSE) :
            (p \in Installed /\ 1 \in r.versions) \/ (dep[p].mode = "install" /\ CandidateVersion(p) \in r.versions)
      BY <2>4 DEF Meets
    <3>2. p \in Packages
      BY LookupFacts
    <3>3. system[p].mode = dep[p].mode /\ dep[p].mode # "delete"
      BY <2>1, <2>2, <3>2 DEF Steady
    <3>4. CASE dep[p].mode = "install" /\ CandidateVersion(p) \in r.versions
      <4>1. Present(system, p) /\ Version(system, p) = CandidateVersion(p)
        BY <3>3, <3>4 DEF Present, Version
      <4> QED BY <3>4, <4>1 DEF Met
    <3>5. CASE dep[p].mode = "install" /\ CandidateVersion(p) \notin r.versions
      BY <3>1, <3>3, <3>5 DEF Outdated
    <3>6. CASE dep[p].mode # "install"
      <4>1. Present(system, p) /\ Version(system, p) = 1 /\ 1 \in r.versions
        BY <3>1, <3>3, <3>6 DEF Present, Version
      <4> QED BY <4>1 DEF Met
    <3> QED BY <3>4, <3>5, <3>6
  <2>5. \A i \in DOMAIN F : \E j \in Alternatives(F, i) : Met(system, F[j]) \/ Outdated(system, F[j])
    BY <2>3, <2>4
  <2> QED BY <2>2, <2>5 DEF OfferedIsMet, F
<1> QED BY DebInitInv, DebNextInv, <1>1, PTL DEF DebSpec

-----------------------------------------------------------------------------
(* Selections *)

\* What saveSelections writes of marks.
Written(d) == {p \in Packages : d[p].mode = "install" \/ Shown(d, p) \in {"ToRemove", "ToPurge"}}

FileOf(d) == [p \in Written(d) |-> IF d[p].mode = "install" THEN "install" ELSE "deinstall"]

\* What the file has of marks on native packages.
Kept(d) == (\A p \in Written(d) : Bare[p] = p) => file = FileOf(d)

Unbroken == {d \in SoundCache : Broken(d) = {}}

SelInv ==
  /\ dep \in SoundCache /\ held \in SUBSET Packages
  /\ saved # <<>> => \E d \in Unbroken : saved = ShownMarks(d) /\ Kept(d)

\* What has become of the first names of a file.
Loads == [ended : BOOLEAN, marks : SoundCache]

LEMMA AppliedSound ==
  ASSUME NEW c \in SoundCache, NEW p \in Packages, NEW action
  PROVE  Applied(c, p, action) \in SoundCache
<1>1. c \in Cache /\ AllSound(c)
  BY DEF SoundCache
<1>2. \A purge \in BOOLEAN : MarkDelete(c, {p}, purge) \in SoundCache
  BY <1>1, DeleteFacts DEF SoundCache
<1>3. (action = "purge") \in BOOLEAN
  OBVIOUS
<1>4. MarkInstall(c, {p}, TRUE) \in SoundCache
  BY <1>1, InstallFacts DEF SoundCache
<1> QED BY <1>2, <1>3, <1>4 DEF Applied

LEMMA LoadType ==
  ASSUME NEW s \in Loads, NEW n
  PROVE  LoadEntry(s, n) \in Loads
<1>1. s.ended \in BOOLEAN /\ s.marks \in SoundCache /\ s = [ended |-> s.ended, marks |-> s.marks]
  BY DEF Loads
<1>2. CASE s.ended \/ n \notin DOMAIN file
  BY <1>2 DEF LoadEntry
<1>3. CASE ~(s.ended \/ n \notin DOMAIN file) /\ n \notin Packages
  BY <1>1, <1>3 DEF LoadEntry, Loads
<1>4. CASE ~(s.ended \/ n \notin DOMAIN file) /\ n \in Packages
  <2>1. LoadEntry(s, n) = [s EXCEPT !.marks = Applied(s.marks, n, file[n])]
    BY <1>4 DEF LoadEntry
  <2>2. Applied(s.marks, n, file[n]) \in SoundCache
    BY <1>1, <1>4, AppliedSound
  <2> QED BY <1>1, <2>1, <2>2 DEF Loads
<1> QED BY <1>2, <1>3, <1>4

LoadAll(s, order) == FoldLeft(LoadEntry, s, order)

AreLoads(e, s, order) ==
  e[0] = s /\ \A k \in 0..(Len(order) - 1) : e[k + 1] = LoadEntry(e[k], order[k + 1])

LEMMA LoadSteps ==
  ASSUME NEW S, NEW order \in Seq(S), NEW s \in Loads
  PROVE  \E e \in [0..Len(order) -> Loads] : AreLoads(e, s, order) /\ LoadAll(s, order) = e[Len(order)]
<1> DEFINE n == Len(order)
           step == [x \in Loads \X (1..n) |-> LoadEntry(x[1], order[x[2]])]
           Body(h) == [T \in SUBSET DOMAIN order |->
                         IF T = {} THEN s ELSE LoadEntry(h[T \ {Max(T)}], order[Max(T)])]
           iter == CHOOSE h : h = Body(h)
<1>1. n \in Nat /\ DOMAIN order = 1..n
  OBVIOUS
<1>2. LoadAll(s, order) = iter[DOMAIN order]
  BY DEF LoadAll, FoldLeft, MapThenFoldSet
<1>3. step \in [Loads \X (1..n) -> Loads]
  <2>1. ASSUME NEW t \in Loads, NEW k \in 1..n PROVE LoadEntry(t, order[k]) \in Loads
    BY LoadType
  <2> HIDE DEF n
  <2> QED BY <2>1
<1>4. \A t \in Loads, k \in 1..n : step[<<t, k>>] = LoadEntry(t, order[k])
  <2> HIDE DEF n
  <2> QED OBVIOUS
<1> HIDE DEF step, n, Body
<1>5. PICK h \in [SUBSET (1..n) -> Loads] : IsFold(h, n, s, step)
  <2> HIDE DEF iter
  <2> QED BY <1>1, <1>3, FoldExists
<1>6. h = Body(h)
  <2>1. ASSUME NEW T \in SUBSET (1..n), T # {}
        PROVE  h[T] = LoadEntry(h[T \ {Max(T)}], order[Max(T)])
    <3>1. Max(T) \in 1..n /\ T \ {Max(T)} \in SUBSET (1..n)
      BY <1>1, <2>1, MaxFacts
    <3>2. h[T \ {Max(T)}] \in Loads
      BY <3>1
    <3>3. h[T] = step[<<h[T \ {Max(T)}], Max(T)>>]
      BY <1>5, <2>1 DEF IsFold
    <3> QED BY <1>4, <3>1, <3>2, <3>3
  <2>2. h[{}] = s
    BY <1>5 DEF IsFold
  <2>3. h = [T \in SUBSET (1..n) |-> h[T]]
    OBVIOUS
  <2> QED BY <1>1, <2>1, <2>2, <2>3 DEF Body
<1>7. iter = Body(iter)
  BY <1>6
<1> HIDE DEF iter
<1>8. Follows(iter, n, Loads, s, step)
  <2>1. ASSUME NEW T \in SUBSET (1..n), T # {}, iter[T \ {Max(T)}] \in Loads
        PROVE  iter[T] = step[<<iter[T \ {Max(T)}], Max(T)>>]
    <3>1. Max(T) \in 1..n
      BY <1>1, <2>1, MaxFacts
    <3>2. iter[T] = LoadEntry(iter[T \ {Max(T)}], order[Max(T)])
      BY <1>1, <1>7, <2>1 DEF Body
    <3> QED BY <1>4, <2>1, <3>1, <3>2
  <2>2. ASSUME NEW T \in SUBSET (1..n), T = {} PROVE iter[T] = s
    BY <1>1, <1>7, <2>2 DEF Body
  <2> QED BY <2>1, <2>2 DEF Follows
<1>9. PICK e \in [0..n -> Loads] : IsWay(e, n, s, step, iter[1..n])
  BY <1>1, <1>3, <1>8, WayOfFold
<1>10. ASSUME NEW k \in 0..(n - 1) PROVE e[k + 1] = LoadEntry(e[k], order[k + 1])
  <2>1. k \in 0..n /\ k + 1 \in 1..n
    BY <1>1
  <2> QED BY <1>4, <1>9, <2>1 DEF IsWay
<1>11. e[0] = s /\ LoadAll(s, order) = e[n]
  BY <1>1, <1>2, <1>9 DEF IsWay
<1> QED BY <1>9, <1>10, <1>11 DEF n, AreLoads

\* The marks c have come from those that were saved as far as the names of done.
Loading(d, c, done) ==
  /\ c \in SoundCache
  /\ \A q \in Packages :
       /\ c[q].mode \in {"keep", d[q].mode} /\ ~c[q].reinstall /\ ~c[q].purge
       /\ q \in Installed => c[q].mode # "install"
       /\ c[q].mode = "delete" => q \in Written(d)
       /\ q \in done /\ q \in Written(d) =>
            IF d[q].mode # "install" THEN c[q].mode = "delete"
            ELSE q \notin Installed => c[q].mode = "install"

LEMMA WrittenFacts ==
  ASSUME NEW d \in SoundCache, NEW p \in Packages
  PROVE  /\ d[p].mode = "install" => p \in Written(d)
         /\ p \in Written(d) /\ d[p].mode # "install" => d[p].mode = "delete" /\ p \in Installed /\ ~d[p].reinstall
         /\ d[p].mode = "delete" /\ ~d[p].reinstall => p \in Written(d)
         /\ ~d[p].reinstall /\ d[p].mode = "delete" => Shown(d, p) \in {"ToRemove", "ToPurge"}
<1>1. d \in Cache /\ d[p].mode \in {"keep", "install", "delete"} /\ Sound(d, p)
  BY DEF SoundCache, Marks, AllSound
<1>2. /\ d[p].reinstall => Shown(d, p) = "ToReInstall"
      /\ ~d[p].reinstall /\ d[p].mode = "install" => Shown(d, p) \in {"ToUpgrade", "NewInstall"}
      /\ ~d[p].reinstall /\ d[p].mode = "delete" => Shown(d, p) \in {"ToRemove", "ToPurge"}
      /\ ~d[p].reinstall /\ d[p].mode = "keep" => Shown(d, p) = "ToKeep"
  BY <1>1, ShownFacts
<1> QED BY <1>1, <1>2 DEF Written, Sound

\* What was installed is there as long as it is to stay.
LEMMA LoadingPresent ==
  ASSUME NEW d \in SoundCache, NEW c, NEW done, Loading(d, c, done),
         NEW q \in Packages, q \in Installed, Present(d, q)
  PROVE  Present(c, q)
BY DEF Loading, Present

\* One more name.
LEMMA LoadingNext ==
  ASSUME NEW d \in Unbroken, NEW c, NEW done, Loading(d, c, done), file = FileOf(d), NEW p \in Written(d)
  PROVE  Loading(d, Applied(c, p, file[p]), done \cup {p})
<1>1. /\ d \in SoundCache /\ Broken(d) = {} /\ p \in Packages
      /\ file[p] = IF d[p].mode = "install" THEN "install" ELSE "deinstall"
  BY DEF Unbroken, Written, FileOf
<1>2. c \in SoundCache /\ c \in Cache /\ AllSound(c)
  BY DEF Loading, SoundCache
<1> DEFINE new == Applied(c, p, file[p])
<1>3. new \in SoundCache
  BY <1>1, <1>2, AppliedSound
<1>4. ASSUME NEW q \in Packages
      PROVE  /\ c[q].mode \in {"keep", d[q].mode} /\ ~c[q].reinstall /\ ~c[q].purge
             /\ q \in Installed => c[q].mode # "install"
             /\ c[q].mode = "delete" => q \in Written(d)
             /\ q \in done /\ q \in Written(d) =>
                  IF d[q].mode # "install" THEN c[q].mode = "delete"
                  ELSE q \notin Installed => c[q].mode = "install"
  BY DEF Loading
<1>5. CASE d[p].mode = "install" /\ p \in Installed
  <2>1. new = c
    BY <1>1, <1>5 DEF Applied
  <2> QED BY <1>2, <1>4, <1>5, <2>1 DEF Loading
<1>6. CASE d[p].mode = "install" /\ p \notin Installed
  <2> DEFINE pulled == Reach({p}, Lacking(c))
             T == {q \in Packages : q \notin Installed /\ d[q].mode = "install"}
  <2>1. new = MarkInstall(c, {p}, TRUE)
    BY <1>1, <1>6 DEF Applied
  <2>2. ASSUME NEW q \in pulled PROVE q \in T
    <3>1. {p} \subseteq T /\ T \in SUBSET Packages
      BY <1>1, <1>6
    <3>2. ASSUME NEW t \in T, NEW r \in Lacking(c)[t] PROVE r \in T
      <4>1. r \in Requires[t] /\ ~Present(c, r) /\ r \in Packages
        BY ConstantsAssumption DEF Lacking
      <4>2. Present(d, t)
        BY DEF Present
      <4>3. Present(d, r)
        BY <1>1, <4>1, <4>2 DEF Broken, Lacking
      <4>4. r \notin Installed
        BY <1>1, <4>1, <4>3, LoadingPresent
      <4> QED BY <4>1, <4>3, <4>4 DEF Present
    <3> QED BY <3>1, <3>2 DEF Reach
  <2>3. p \in pulled
    BY <1>1, ReachSelf
  <2>4. ASSUME NEW q \in Packages
        PROVE  /\ new[q].reinstall = c[q].reinstall
               /\ q \notin pulled => new[q] = c[q]
               /\ q \in pulled => new[q].mode = IF q \in Installed \ Upgradeable THEN "keep" ELSE "install"
    <3>1. \A u \in BOOLEAN :
            /\ MarkInstall(c, {p}, u)[q].reinstall = c[q].reinstall
            /\ q \notin pulled => MarkInstall(c, {p}, u)[q] = c[q]
            /\ q \in pulled => MarkInstall(c, {p}, u)[q].mode = IF q \in Installed \ Upgradeable THEN "keep" ELSE "install"
      BY <1>2, InstallEffect
    <3>2. TRUE \in BOOLEAN
      OBVIOUS
    <3> HIDE DEF pulled
    <3> QED BY <2>1, <3>1, <3>2
  <2> HIDE DEF new, pulled
  <2>5. ASSUME NEW q \in Packages
        PROVE  /\ new[q].mode \in {"keep", d[q].mode} /\ ~new[q].reinstall /\ ~new[q].purge
               /\ q \in Installed => new[q].mode # "install"
               /\ new[q].mode = "delete" => q \in Written(d)
               /\ q \in done \cup {p} /\ q \in Written(d) =>
                    IF d[q].mode # "install" THEN new[q].mode = "delete"
                    ELSE q \notin Installed => new[q].mode = "install"
    <3>1. CASE q \in pulled
      <4>1. q \notin Installed /\ d[q].mode = "install"
        BY <2>2, <3>1
      <4>2. new[q].mode = "install" /\ ~new[q].reinstall
        BY <1>4, <2>4, <3>1, <4>1
      <4>3. ~new[q].purge
        BY <1>3, <4>2 DEF SoundCache, AllSound, Sound, new
      <4> QED BY <4>1, <4>2, <4>3
    <3>2. CASE q \notin pulled
      <4>1. new[q] = c[q] /\ q # p
        BY <2>3, <2>4, <3>2
      <4> QED BY <1>4, <4>1
    <3> QED BY <3>1, <3>2
  <2>6. new \in SoundCache
    BY <1>3 DEF new
  <2>7. Loading(d, new, done \cup {p})
    BY <2>5, <2>6 DEF Loading
  <2> QED BY <2>7 DEF new
<1>7. CASE d[p].mode # "install"
  <2>1. d[p].mode = "delete" /\ p \in Installed
    BY <1>1, <1>7, WrittenFacts
  <2>2. new = MarkDelete(c, {p}, FALSE)
    <3>1. file[p] = "deinstall" /\ ("deinstall" = "purge") = FALSE
      BY <1>1, <1>7
    <3> QED BY <3>1 DEF Applied
  <2>3. ASSUME NEW q \in Packages
        PROVE  new[q] = IF q = p THEN [c[q] EXCEPT !.mode = "delete", !.purge = FALSE] ELSE c[q]
    BY <2>1, <2>2 DEF MarkDelete
  <2>4. c[p] \in Marks
    BY <1>1, <1>2
  <2>5. new[p].mode = "delete" /\ new[p].purge = FALSE /\ new[p].reinstall = c[p].reinstall
    BY <1>1, <2>3, <2>4 DEF Marks
  <2> HIDE DEF new
  <2>6. ASSUME NEW q \in Packages
        PROVE  /\ new[q].mode \in {"keep", d[q].mode} /\ ~new[q].reinstall /\ ~new[q].purge
               /\ q \in Installed => new[q].mode # "install"
               /\ new[q].mode = "delete" => q \in Written(d)
               /\ q \in done \cup {p} /\ q \in Written(d) =>
                    IF d[q].mode # "install" THEN new[q].mode = "delete"
                    ELSE q \notin Installed => new[q].mode = "install"
    <3>1. CASE q = p
      BY <1>4, <1>7, <2>1, <2>5, <3>1
    <3>2. CASE q # p
      <4>1. new[q] = c[q]
        BY <2>3, <3>2
      <4> QED BY <1>4, <3>2, <4>1
    <3> QED BY <3>1, <3>2
  <2>7. new \in SoundCache
    BY <1>3 DEF new
  <2>8. Loading(d, new, done \cup {p})
    BY <2>6, <2>7 DEF Loading
  <2> QED BY <2>8 DEF new
<1> QED BY <1>5, <1>6, <1>7

\* All names.
LEMMA LoadedFacts ==
  ASSUME NEW d \in Unbroken, file = FileOf(d), NEW S, NEW order \in Seq(S), NEW s, s = [ended |-> FALSE, marks |-> Fresh]
  PROVE  LoadAll(s, order).ended = FALSE /\ Loading(d, LoadAll(s, order).marks, ToSet(order))
<1> DEFINE n == Len(order)
           First(k) == {order[i] : i \in 1..k}
<1>1. n \in Nat /\ DOMAIN order = 1..n
  OBVIOUS
<1>2. Fresh \in SoundCache /\ d \in SoundCache
  BY FreshFacts DEF SoundCache, Unbroken
<1>3. s \in Loads
  BY <1>2 DEF Loads
<1>4. PICK e \in [0..n -> Loads] : AreLoads(e, s, order) /\ LoadAll(s, order) = e[n]
  BY <1>3, LoadSteps
<1>5. ToSet(order) = First(n)
  BY <1>1 DEF ToSet
<1>6. DOMAIN file = Written(d) /\ Written(d) \subseteq Packages
  BY DEF FileOf, Written
<1> HIDE DEF n
<1> DEFINE Good == {k \in 0..n : e[k].ended = FALSE /\ Loading(d, e[k].marks, First(k))}
<1>7. 0 \in Good
  <2>1. e[0] = s /\ First(0) = {} /\ 0 \in 0..n
    BY <1>1, <1>4 DEF AreLoads
  <2> HIDE DEF First
  <2>2. \A q \in Packages : Fresh[q].mode = "keep" /\ ~Fresh[q].reinstall /\ ~Fresh[q].purge
    BY DEF Fresh
  <2>3. Loading(d, Fresh, {})
    BY <1>2, <2>2 DEF Loading
  <2>4. e[0].ended = FALSE /\ e[0].marks = Fresh
    BY <2>1
  <2>5. Loading(d, e[0].marks, First(0))
    BY <2>1, <2>3, <2>4
  <2> QED BY <2>1, <2>4, <2>5
<1>8. ASSUME NEW k \in 0..(n - 1), k \in Good PROVE k + 1 \in Good
  <2>1. k \in 0..n /\ k + 1 \in 0..n /\ k + 1 \in 1..n /\ k \in Nat
    BY <1>1
  <2> DEFINE a == e[k]
             b == e[k + 1]
             p == order[k + 1]
  <2>2. b = LoadEntry(a, p) /\ a \in Loads
    BY <1>4, <2>1 DEF AreLoads, n
  <2>3. First(k + 1) = First(k) \cup {p}
    <3>1. \A i \in 1..(k + 1) : i \in 1..k \/ i = k + 1
      BY <2>1
    <3>2. 1..k \subseteq 1..(k + 1) /\ k + 1 \in 1..(k + 1)
      BY <2>1
    <3> QED BY <3>1, <3>2
  <2> HIDE DEF First
  <2>4. a.ended = FALSE /\ Loading(d, a.marks, First(k))
    BY <1>8
  <2> HIDE DEF a, b, p
  <2>5. CASE p \notin Written(d)
    <3>1. b = a
      BY <1>6, <2>2, <2>5 DEF LoadEntry
    <3>2. Loading(d, a.marks, First(k) \cup {p})
      BY <2>4, <2>5 DEF Loading
    <3> QED BY <2>1, <2>3, <2>4, <3>1, <3>2 DEF b
  <2>6. CASE p \in Written(d)
    <3>1. p \in DOMAIN file /\ p \in Packages
      BY <1>6, <2>6
    <3>2. b = [a EXCEPT !.marks = Applied(a.marks, p, file[p])]
      BY <2>2, <2>4, <3>1 DEF LoadEntry
    <3>3. b.ended = FALSE /\ b.marks = Applied(a.marks, p, file[p])
      BY <2>2, <2>4, <3>2 DEF Loads
    <3>4. Loading(d, b.marks, First(k) \cup {p})
      <4>1. Loading(d, Applied(a.marks, p, file[p]), First(k) \cup {p})
        BY <2>4, <2>6, LoadingNext
      <4> QED BY <3>3, <4>1
    <3> QED BY <2>1, <2>3, <3>3, <3>4 DEF b
  <2> QED BY <2>5, <2>6
<1>9. \A k \in 0..n : k \in Good
  <2> HIDE DEF Good
  <2> QED BY <1>1, <1>7, <1>8, AllNumbers
<1>10. n \in 0..n
  BY <1>1
<1> HIDE DEF First
<1> QED BY <1>4, <1>5, <1>9, <1>10

\* What the resolver removes of that is not there in what was saved either.
LEMMA ResolvedFacts ==
  ASSUME NEW d \in Unbroken, NEW c, NEW done, Packages \subseteq done, Loading(d, c, done),
         NEW p \in Needing(c, Broken(c))
  PROVE  ~Present(d, p)
<1> DEFINE U == {q \in Packages : ~Present(d, q)}
           to == [q \in Packages |-> {r \in Packages : q \in Requires[r] /\ Present(c, r)}]
<1>1. d \in SoundCache /\ Broken(d) = {} /\ c \in SoundCache
  BY DEF Unbroken, Loading
<1>2. ASSUME NEW q \in Packages, Present(d, q) PROVE Present(c, q)
  <2>1. CASE q \in Installed
    BY <1>1, <1>2, <2>1, LoadingPresent
  <2>2. CASE q \notin Installed
    <3>1. d[q].mode = "install"
      BY <1>2, <2>2 DEF Present
    <3>2. q \in Written(d)
      BY <3>1 DEF Written
    <3>3. c[q].mode = "install"
      BY <2>2, <3>1, <3>2 DEF Loading
    <3> QED BY <2>2, <3>3 DEF Present
  <2> QED BY <2>1, <2>2
<1>3. ASSUME NEW q \in Packages, NEW r \in Packages, r \in Requires[q], Present(d, q) PROVE Present(d, r)
  BY <1>1, <1>3 DEF Broken, Lacking
<1>4. Broken(c) \subseteq U
  <2> SUFFICES ASSUME NEW q \in Broken(c), Present(d, q) PROVE FALSE
    BY DEF Broken
  <2>1. PICK r \in Lacking(c)[q] : q \in Packages
    BY DEF Broken
  <2>2. r \in Requires[q] /\ ~Present(c, r) /\ r \in Packages
    BY <2>1, ConstantsAssumption DEF Lacking
  <2> QED BY <1>2, <1>3, <2>1, <2>2
<1>5. \A t \in U : to[t] \subseteq U
  BY <1>3
<1>6. U \in SUBSET Packages
  OBVIOUS
<1>7. p \in Reach(Broken(c), to)
  BY DEF Needing
<1> HIDE DEF to, U
<1>8. p \in U
  BY <1>4, <1>5, <1>6, <1>7 DEF Reach
<1> QED BY <1>8 DEF U

\* Loading keeps the marks sound, whatever the file has.
LEMMA LoadSound ==
  ASSUME dep \in SoundCache, NEW S, NEW order \in Seq(S)
  PROVE  LET s == LoadAll([ended |-> FALSE, marks |-> dep], order)
         IN  s.marks \in SoundCache /\ Resolved(s.marks, DOMAIN file) \in SoundCache
<1> DEFINE s0 == [ended |-> FALSE, marks |-> dep]
           s  == LoadAll(s0, order)
<1>1. s0 \in Loads
  BY DEF Loads
<1> HIDE DEF s0
<1>2. Len(order) \in Nat
  OBVIOUS
<1>3. PICK e \in [0..Len(order) -> Loads] : s = e[Len(order)]
  BY <1>1, LoadSteps
<1>4. s \in Loads
  BY <1>2, <1>3
<1> HIDE DEF s
<1>5. s.marks \in SoundCache /\ s.marks \in Cache /\ AllSound(s.marks)
  BY <1>4 DEF Loads, SoundCache
<1>6. \A u \in BOOLEAN : MarkDelete(s.marks, Needing(s.marks, Broken(s.marks)) \ DOMAIN file, u) \in SoundCache
  BY <1>5, DeleteFacts DEF SoundCache
<1>7. Resolved(s.marks, DOMAIN file) \in SoundCache
  BY <1>6 DEF Resolved
<1> QED BY <1>5, <1>7 DEF s, s0

LEMMA OnlyLine ==
  ASSUME NEW W \in SUBSET Packages, NEW n \in W, \A p \in W : Bare[p] = p
  PROVE  EntryOf(W, n) = n
<1> DEFINE S == {p \in W : Bare[p] = n}
<1>1. S = {n}
  OBVIOUS
<1>2. PICK i \in DOMAIN CacheOrder : CacheOrder[i] = n /\ i <= i
  <2>1. \E i \in DOMAIN CacheOrder : CacheOrder[i] = n
    <3>1. n \in ToSet(CacheOrder)
      BY ConstantsAssumption DEF IsOrder
    <3> QED BY <3>1 DEF ToSet
  <2>2. DOMAIN CacheOrder = 1..Len(CacheOrder) /\ Len(CacheOrder) \in Nat
    BY ConstantsAssumption DEF IsOrder
  <2> QED BY <2>1, <2>2
<1>3. LastOf({n}) = n
  BY <1>2 DEF LastOf
<1> QED BY <1>1, <1>3 DEF EntryOf

LEMMA SelInitInv == SelInit => SelInv
BY FreshFacts DEF SelInit, MarkInit, SelInv, SoundCache

LEMMA SelNextInv == SelInv /\ [SelNext]_<<markVars, selVars>> => SelInv'
<1> SUFFICES ASSUME SelInv, [SelNext]_<<markVars, selVars>> PROVE SelInv'
  OBVIOUS
<1>1. /\ dep \in SoundCache /\ held \in SUBSET Packages
      /\ saved # <<>> => \E d \in Unbroken : saved = ShownMarks(d) /\ Kept(d)
  BY DEF SelInv
<1>2. CASE Marking /\ UNCHANGED selVars
  <2>1. dep' \in SoundCache /\ held' \in SUBSET Packages /\ file' = file /\ saved' = saved
    BY <1>1, <1>2, MarkingSound DEF selVars
  <2> QED BY <1>1, <2>1 DEF SelInv, Kept
<1>3. CASE SaveSelections
  <2>1. /\ saved' = IF Broken(dep) = {} THEN ShownMarks(dep) ELSE <<>>
        /\ dep' = dep /\ held' = held
    BY <1>3 DEF SaveSelections, markVars
  <2>2. (\A p \in Written(dep) : Bare[p] = p) => file' = FileOf(dep)
    <3>1. ToInstall \cup ToRemove = Written(dep)
      BY DEF ToInstall, ToRemove, Written
    <3>2. \A p \in Written(dep) : p \in ToInstall <=> dep[p].mode = "install"
      BY DEF ToInstall, Written
    <3>3. file' = [n \in {Bare[p] : p \in Written(dep)} |->
                     IF EntryOf(Written(dep), n) \in ToInstall THEN "install" ELSE "deinstall"]
      BY <1>3, <3>1 DEF SaveSelections
    <3>4. ASSUME \A p \in Written(dep) : Bare[p] = p
          PROVE  file' = FileOf(dep)
      <4>1. {Bare[p] : p \in Written(dep)} = Written(dep)
        BY <3>4
      <4>2. \A n \in Written(dep) : EntryOf(Written(dep), n) = n
        BY <3>4, OnlyLine DEF Written
      <4> QED BY <3>2, <3>3, <4>1, <4>2 DEF FileOf
    <3> QED BY <3>4
  <2>3. Kept(dep)'
    BY <2>1, <2>2 DEF Kept, Written, FileOf, Shown
  <2> QED BY <1>1, <2>1, <2>3 DEF SelInv, Unbroken
<1>4. CASE SaveInstalledPackagesList
  BY <1>1, <1>4 DEF SaveInstalledPackagesList, SelInv, markVars
<1>5. CASE LoadSelections
  <2>1. PICK order \in HashOrders :
          dep' = LET s == LoadAll([ended |-> FALSE, marks |-> dep], order)
                 IN  IF s.ended THEN s.marks ELSE Resolved(s.marks, DOMAIN file)
    BY <1>5 DEF LoadSelections, LoadAll
  <2>2. order \in Seq(ToSet(order))
    BY SelectionsAssumption
  <2> DEFINE s == LoadAll([ended |-> FALSE, marks |-> dep], order)
  <2>3. s.marks \in SoundCache /\ Resolved(s.marks, DOMAIN file) \in SoundCache
    BY <1>1, <2>2, LoadSound
  <2>4. dep' = IF s.ended THEN s.marks ELSE Resolved(s.marks, DOMAIN file)
    BY <2>1
  <2> HIDE DEF s
  <2>5. dep' \in SoundCache /\ UNCHANGED <<held, file, saved>>
    BY <1>5, <2>3, <2>4 DEF LoadSelections, selVars
  <2> QED BY <1>1, <2>5 DEF SelInv, Kept
<1>6. CASE NewCache
  <2>1. dep' \in SoundCache /\ held' = {} /\ file' = file /\ saved' = saved
    BY <1>6, FreshFacts DEF NewCache, selVars, SoundCache
  <2> QED BY <1>1, <2>1 DEF SelInv, Kept
<1>7. CASE UNCHANGED <<markVars, selVars>>
  BY <1>1, <1>7 DEF SelInv, Kept, markVars, selVars
<1> QED BY <1>2, <1>3, <1>4, <1>5, <1>6, <1>7 DEF SelNext

\* Loading what was saved keeps it.
LEMMA LoadKeeps ==
  ASSUME SelInv, dep = Fresh, saved # <<>>, NoneForeign, LoadSelections, NEW p \in Packages,
         saved[p] # "ToReInstall"
  PROVE  /\ Shown(dep', p) = "NewInstall" <=> saved[p] = "NewInstall"
         /\ Shown(dep', p) = "ToRemove" <=> saved[p] \in {"ToRemove", "ToPurge"}
<1>1. PICK d \in Unbroken : file = FileOf(d) /\ saved = ShownMarks(d)
  <2>1. PICK d \in Unbroken : saved = ShownMarks(d) /\ Kept(d)
    BY DEF SelInv
  <2>2. \A q \in Written(d) : q \in Packages /\ saved[q] = Shown(d, q)
    BY <2>1 DEF Written, ShownMarks
  <2>3. \A q \in Written(d) : Shown(d, q) # "ToKeep"
    BY DEF Written, Shown
  <2>4. \A q \in Written(d) : Bare[q] = q
    BY <2>2, <2>3 DEF NoneForeign
  <2> QED BY <2>1, <2>4 DEF Kept
<1>2. PICK order \in HashOrders :
        dep' = LET s == LoadAll([ended |-> FALSE, marks |-> dep], order)
               IN  IF s.ended THEN s.marks ELSE Resolved(s.marks, DOMAIN file)
  BY DEF LoadSelections, LoadAll
<1>3. order \in Seq(ToSet(order)) /\ Packages \subseteq ToSet(order)
  BY SelectionsAssumption
<1> DEFINE s0 == [ended |-> FALSE, marks |-> Fresh]
           s == LoadAll(s0, order)
           c == s.marks
           gone == Needing(c, Broken(c)) \ DOMAIN file
<1>4. s.ended = FALSE /\ Loading(d, c, ToSet(order))
  BY <1>1, <1>3, LoadedFacts
<1>5. dep' = IF s.ended THEN c ELSE Resolved(c, DOMAIN file)
  BY <1>2
<1> HIDE DEF s
<1>6. dep' = MarkDelete(c, gone, FALSE)
  BY <1>4, <1>5 DEF Resolved
<1>7. DOMAIN file = Written(d) /\ d \in SoundCache /\ d \in Cache /\ Sound(d, p)
  BY <1>1 DEF FileOf, Unbroken, SoundCache, AllSound
<1> HIDE DEF c
<1>8. /\ c \in Cache /\ c[p] \in Marks /\ c[p].mode \in {"keep", d[p].mode} /\ ~c[p].reinstall /\ ~c[p].purge
      /\ p \in Installed => c[p].mode # "install"
      /\ c[p].mode = "delete" => p \in Written(d)
      /\ p \in Written(d) => IF d[p].mode # "install" THEN c[p].mode = "delete"
                             ELSE p \notin Installed => c[p].mode = "install"
  BY <1>3, <1>4 DEF Loading, SoundCache
<1>9. ~d[p].reinstall /\ saved[p] = Shown(d, p)
  <2>1. saved[p] = Shown(d, p)
    BY <1>1 DEF ShownMarks
  <2> QED BY <1>7, <2>1, ShownFacts
<1>10. d[p].mode \in {"keep", "install", "delete"}
  BY <1>7 DEF Marks
<1>11. /\ saved[p] = "NewInstall" <=> d[p].mode = "install" /\ p \notin Installed
       /\ saved[p] \in {"ToRemove", "ToPurge"} <=> d[p].mode = "delete"
  BY <1>7, <1>9, <1>10, ShownFacts
<1>12. CASE p \in gone
  <2>1. ~Present(d, p) /\ p \notin Written(d)
    BY <1>3, <1>4, <1>7, <1>12, ResolvedFacts
  <2>2. d[p].mode = "keep" /\ p \notin Installed
    BY <1>7, <1>9, <1>10, <2>1, WrittenFacts DEF Present
  <2>3. dep'[p] = [c[p] EXCEPT !.mode = "keep", !.purge = FALSE]
    BY <1>6, <1>12, <2>2 DEF MarkDelete
  <2>4. Shown(dep', p) = "ToKeep"
    BY <1>8, <2>3 DEF Shown, Marks
  <2> QED BY <1>11, <2>2, <2>4
<1>13. CASE p \notin gone
  <2>1. dep'[p] = c[p]
    BY <1>6, <1>13 DEF MarkDelete
  <2>2. Shown(dep', p) = Shown(c, p)
    BY <2>1 DEF Shown
  <2>3. /\ Shown(c, p) = "NewInstall" <=> c[p].mode = "install" /\ p \notin Installed
        /\ Shown(c, p) = "ToRemove" <=> c[p].mode = "delete"
    <3>1. c[p].mode \in {"keep", "install", "delete"}
      BY <1>8 DEF Marks
    <3> QED BY <1>8, <3>1, ShownFacts
  <2>4. d[p].mode \in {"install", "delete"} => p \in Written(d)
    BY <1>7, <1>9, WrittenFacts
  <2>5. /\ c[p].mode = "install" /\ p \notin Installed <=> d[p].mode = "install" /\ p \notin Installed
        /\ c[p].mode = "delete" <=> d[p].mode = "delete"
    BY <1>8, <1>10, <2>4
  <2> QED BY <1>11, <2>2, <2>3, <2>5
<1> QED BY <1>12, <1>13

\* What saveSelections has written of marks on native packages of which nothing is broken,
\* loadSelections marks in a new cache, in whatever order it takes the names.
THEOREM SelectionsAreAlwaysKept == SelSpec => SelectionsAreKept
<1>1. SelInv =>
        [dep = Fresh /\ saved # <<>> /\ NoneForeign /\ LoadSelections =>
           \A p \in Packages :
             saved[p] # "ToReInstall" =>
               /\ Shown(dep', p) = "NewInstall" <=> saved[p] = "NewInstall"
               /\ Shown(dep', p) = "ToRemove" <=> saved[p] \in {"ToRemove", "ToPurge"}]_<<markVars, selVars>>
  BY LoadKeeps
<1> QED BY SelInitInv, SelNextInv, <1>1, PTL DEF SelSpec, SelectionsAreKept

-----------------------------------------------------------------------------
(* Versions *)

VersionMarks == {"keep", "install", "delete"}

StaticFlags == [upgradeable : BOOLEAN, installBroken : BOOLEAN]

\* The types that the proofs need.
VersionTypeOK ==
  /\ installed \in 0..MaxVersion /\ lists \in AllVersions
  /\ current \in 0..MaxVersion /\ cand \in AllVersions
  /\ mode \in VersionMarks /\ reinstall \in BOOLEAN
  /\ static \subseteq StaticFlags

\* What initStaticState computes, and what staticState returns, are flags.
LEMMA FlagsType ==
  ASSUME VersionTypeOK, NEW m, NEW c
  PROVE  Flags(m, c) \in StaticFlags
<1>1. InitStaticState(m, c) \in StaticFlags
  BY DEF InitStaticState, StaticFlags
<1>2. CASE static = {}
  BY <1>1, <1>2 DEF Flags
<1>3. CASE static # {}
  BY <1>3 DEF Flags, VersionTypeOK
<1> QED BY <1>2, <1>3

\* The flag Upgradeable that staticState returns is that of the moment, if the
\* remembered one is.
LEMMA FlagsTrue ==
  ASSUME \A s \in static : s.upgradeable = (current # 0 /\ cand > current), NEW m
  PROVE  Flags(m, cand).upgradeable = (current # 0 /\ cand > current)
<1>1. CASE static = {}
  BY <1>1 DEF Flags, InitStaticState
<1>2. CASE static # {}
  BY <1>2 DEF Flags
<1> QED BY <1>1, <1>2

\* What MarkInstall makes of a mark is a mark.
LEMMA InstallingType ==
  ASSUME NEW m \in VersionMarks, NEW c, NEW cur
  PROVE  Installing(m, c, cur) \in VersionMarks
BY DEF Installing, VersionMarks

\* A marking call keeps the types, for the marks that the calls make.
LEMMA MarkVersionType ==
  ASSUME VersionTypeOK, NEW m \in VersionMarks, NEW again \in BOOLEAN, MarkVersion(m, again)
  PROVE  VersionTypeOK'
BY FlagsType DEF MarkVersion, VersionTypeOK, systemVars

\* The types hold always.
THEOREM VersionTypeCorrect == VersionSpec => []VersionTypeOK
<1>1. VersionInit => VersionTypeOK
  BY DEF VersionInit, VersionTypeOK, VersionMarks
<1>2. VersionTypeOK /\ [VersionNext]_versionVars => VersionTypeOK'
  <2> SUFFICES ASSUME VersionTypeOK, [VersionNext]_versionVars
               PROVE  VersionTypeOK'
    OBVIOUS
  <2>1. CASE SetVersion
    BY <2>1 DEF SetVersion, VersionTypeOK, systemVars
  <2>2. CASE SetMark
    <3>1. CASE MarkVersion(Installing(mode, cand, current), reinstall)
      BY <3>1, MarkVersionType, InstallingType DEF VersionTypeOK
    <3>2. CASE MarkVersion("keep", FALSE) \/ MarkVersion("delete", FALSE)
      BY <3>2, MarkVersionType DEF VersionMarks
    <3>3. CASE current # 0 /\ reinstall' = TRUE /\ UNCHANGED <<systemVars, current, cand, mode, packageVars>>
      BY <3>3 DEF VersionTypeOK, systemVars, packageVars
    <3> QED BY <2>2, <3>1, <3>2, <3>3 DEF SetMark
  <2>3. CASE MarkToInstall
    <3>1. CASE MarkVersion(Installing(mode, cand, current), reinstall)
      BY <3>1, MarkVersionType, InstallingType DEF VersionTypeOK
    <3>2. CASE /\ static' = {Flags(mode, cand)}
               /\ UNCHANGED <<systemVars, cacheVars, override, phase, machineId, chosen>>
      BY <3>2, FlagsType DEF VersionTypeOK, systemVars, cacheVars
    <3> QED BY <2>3, <3>1, <3>2 DEF MarkToInstall
  <2>4. CASE IsInUpdatePhase
    BY <2>4, FlagsType DEF IsInUpdatePhase, VersionTypeOK, systemVars, cacheVars
  <2>5. CASE CommitVersion
    <3>1. installed' \in 0..MaxVersion
      BY <2>5 DEF CommitVersion, WorkerInstalls
    <3> QED BY <2>5, <3>1, FlagsType DEF CommitVersion, VersionTypeOK, cacheVars
  <2>6. CASE CommitPackages
    <3>1. installed' \in 0..MaxVersion
      BY <2>6 DEF CommitPackages, WorkerInstalls
    <3> QED BY <2>6, <3>1 DEF CommitPackages, VersionTypeOK, cacheVars, packageVars
  <2>7. CASE ReopenCache
    BY <2>7 DEF ReopenCache, Opened, VersionTypeOK, systemVars, VersionMarks
  <2>8. CASE SystemChanges
    BY <2>8 DEF SystemChanges, VersionTypeOK, cacheVars, packageVars
  <2>9. CASE UNCHANGED versionVars
    BY <2>9 DEF versionVars, systemVars, cacheVars, packageVars, VersionTypeOK
  <2> QED BY <2>1, <2>2, <2>3, <2>4, <2>5, <2>6, <2>7, <2>8, <2>9 DEF VersionNext
<1> QED BY <1>1, <1>2, PTL DEF VersionSpec

\* What a Package remembers about being upgradeable and about the update phase is what it
\* would find out again, unless setVersion was called since; in particular the answer about
\* the phase is never one given without a machine id.
THEOREM RememberedAlwaysTrue == VersionSpec => []RememberedIsTrue
<1>1. VersionInit => RememberedIsTrue
  BY DEF VersionInit, RememberedIsTrue
<1>2. VersionTypeOK /\ RememberedIsTrue /\ [VersionNext]_versionVars => RememberedIsTrue'
  <2> SUFFICES ASSUME VersionTypeOK, RememberedIsTrue, [VersionNext]_versionVars, ~chosen'
               PROVE  /\ \A s \in static' : s.upgradeable = (current' # 0 /\ cand' > current')
                      /\ phase' \subseteq {Due(cand')}
    BY DEF RememberedIsTrue, InitStaticState
  <2> DEFINE Same == UNCHANGED <<current, cand, chosen>>
  <2>1. ASSUME Same, NEW m PROVE Flags(m, cand).upgradeable = (current # 0 /\ cand > current)
    <3>1. \A s \in static : s.upgradeable = (current # 0 /\ cand > current)
      BY <2>1 DEF RememberedIsTrue, InitStaticState
    <3> QED BY <3>1, FlagsTrue
  <2>2. CASE /\ Same
             /\ static' = static \/ \E m \in VersionMarks : static' = {Flags(m, cand)}
             /\ phase' \in {phase, {Due(cand)}}
    <3>1. phase \subseteq {Due(cand)} /\ \A s \in static : s.upgradeable = (current # 0 /\ cand > current)
      BY <2>2 DEF RememberedIsTrue, InitStaticState
    <3>2. \A s \in static' : s.upgradeable = (current # 0 /\ cand > current)
      BY <2>1, <2>2, <3>1
    <3> QED BY <2>2, <3>1, <3>2
  <2>3. CASE SetVersion
    <3>1. static' = {} /\ phase' = {}
      BY <2>3 DEF SetVersion
    <3> QED BY <3>1
  <2>4. CASE SetMark \/ MarkToInstall
    <3>1. ASSUME NEW m \in VersionMarks, NEW again, MarkVersion(m, again)
          PROVE  Same /\ phase' = phase /\ static' = {Flags(m, cand)}
      BY <3>1 DEF MarkVersion
    <3>2. Installing(mode, cand, current) \in VersionMarks /\ {"keep", "delete", mode} \subseteq VersionMarks
      BY InstallingType DEF VersionTypeOK, VersionMarks
    <3>3. CASE SetMark
      BY <2>2, <3>1, <3>2, <3>3 DEF SetMark, packageVars
    <3>4. CASE MarkToInstall
      BY <2>2, <3>1, <3>2, <3>4 DEF MarkToInstall, cacheVars
    <3> QED BY <2>4, <3>3, <3>4
  <2>5. CASE CommitVersion \/ CommitPackages \/ SystemChanges
    BY <2>2, <2>5 DEF CommitVersion, CommitPackages, SystemChanges, cacheVars, packageVars, VersionTypeOK
  <2>8. CASE IsInUpdatePhase
    BY <2>2, <2>8 DEF IsInUpdatePhase, cacheVars, VersionTypeOK
  <2>6. CASE ReopenCache
    BY <2>6 DEF ReopenCache, Opened
  <2>7. CASE UNCHANGED versionVars
    BY <2>2, <2>7 DEF versionVars, cacheVars, packageVars
  <2> QED BY <2>3, <2>4, <2>5, <2>6, <2>7, <2>8 DEF VersionNext
<1> QED BY <1>1, <1>2, VersionTypeCorrect, PTL DEF VersionSpec
=============================================================================
