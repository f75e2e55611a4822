-------------------------- MODULE UndoHistoryProofs --------------------------
(***************************************************************************)
(* Proofs about the marks and about the undo and redo stacks, for any      *)
(* packages, requirements, marks and sizes.                                *)
(*                                                                         *)
(* restoreCacheState goes through the packages; what it leaves is a fold.  *)
(* That it gives back what was saved is an induction over the packages     *)
(* which it has come to, for states that lack nothing: then no package     *)
(* that it restores brings in one that is to be restored otherwise.        *)
(*                                                                         *)
(* markChanges goes through the packages of the list.  That it comes to    *)
(* what is shown is an induction over them, too: it marks nothing that is  *)
(* not shown, and what is done stays done.                                 *)
(***************************************************************************)
EXTENDS UndoHistory, FoldFacts, FiniteSetTheorems, SequenceTheorems, TLAPS

-----------------------------------------------------------------------------
(* Marks *)

Cache == [Packages -> Marks]

\* libapt removes only what is installed, installs only what is new or can be
\* upgraded, purges only what it removes, and reinstalls only what is installed.
Sound(d, p) ==
  /\ d[p].mode = "delete" => p \in Installed
  /\ d[p].mode = "install" => p \notin Installed \/ p \in Upgradeable
  /\ d[p].purge => d[p].mode = "delete"
  /\ d[p].reinstall => p \in Installed

AllSound(d) == \A p \in Packages : Sound(d, p)

MarksInv == MarkTypeOK /\ AllSound(dep)

USE DEF Cache

\* What a cache is marked with, one package at a time.
LEMMA FreshFacts == Fresh \in Cache /\ AllSound(Fresh)
  BY ConstantsAssumption DEF Fresh, Marks, AllSound, Sound

\* What each way of marking does to the packages it is about, and that it keeps the rest
\* sound: keeping,
LEMMA KeepFacts ==
  ASSUME NEW d \in Cache, NEW S
  PROVE  /\ MarkKeep(d, S) \in Cache
         /\ AllSound(d) => AllSound(MarkKeep(d, S))
         /\ \A q \in Packages : q \in S =>
              /\ MarkKeep(d, S)[q].mode = "keep"
              /\ MarkKeep(d, S)[q].reinstall = d[q].reinstall
  BY DEF MarkKeep, Marks, AllSound, Sound

\* deleting,
LEMMA DeleteFacts ==
  ASSUME NEW d \in Cache, NEW S, NEW purge \in BOOLEAN
  PROVE  /\ MarkDelete(d, S, purge) \in Cache
         /\ AllSound(d) => AllSound(MarkDelete(d, S, purge))
         /\ \A q \in Packages : q \in S /\ q \in Installed =>
              /\ MarkDelete(d, S, purge)[q].mode = "delete"
              /\ MarkDelete(d, S, purge)[q].purge = purge
              /\ MarkDelete(d, S, purge)[q].reinstall = d[q].reinstall
  BY DEF MarkDelete, Marks, AllSound, Sound

\* reinstalling,
LEMMA ReInstallFacts ==
  ASSUME NEW d \in Cache, NEW p \in Packages, NEW flag \in BOOLEAN
  PROVE  /\ SetReInstall(d, p, flag) \in Cache
         /\ AllSound(d) /\ (flag => p \in Installed) => AllSound(SetReInstall(d, p, flag))
         /\ SetReInstall(d, p, flag)[p].reinstall = flag
  BY DEF SetReInstall, Marks, AllSound, Sound

\* the automatic flag,
LEMMA AutoFacts ==
  ASSUME NEW d \in Cache, NEW p \in Packages, NEW flag \in BOOLEAN
  PROVE  /\ MarkAuto(d, p, flag) \in Cache
         /\ AllSound(d) => AllSound(MarkAuto(d, p, flag))
         /\ MarkAuto(d, p, flag)[p] = [d[p] EXCEPT !.auto = flag]
  BY DEF MarkAuto, Marks, AllSound, Sound

\* Everything reaches itself.
LEMMA ReachSelf ==
  ASSUME NEW S, NEW next, NEW q \in Packages, q \in S
  PROVE  q \in Reach(S, next)
  BY DEF Reach

\* and installing with what is required.
LEMMA InstallFacts ==
  ASSUME NEW d \in Cache, NEW S, NEW fromUser \in BOOLEAN
  PROVE  /\ MarkInstall(d, S, fromUser) \in Cache
         /\ AllSound(d) => AllSound(MarkInstall(d, S, fromUser))
<1> DEFINE wanted == Reach(S, Lacking(d))
           target(q) == IF q \in Installed \ Upgradeable THEN "keep" ELSE "install"
           changed(q) ==
             [d[q] EXCEPT !.mode = target(q), !.purge = FALSE,
                          !.auto = IF q \in Installed THEN d[q].auto
                                   ELSE ~(fromUser /\ q \in S)]
           new == MarkInstall(d, S, fromUser)
<1>1. new = [q \in Packages |-> IF q \notin wanted \/ d[q].mode = target(q)
                                  THEN d[q] ELSE changed(q)]
  BY DEF MarkInstall
<1>2. ASSUME NEW q \in Packages
      PROVE  changed(q) \in Marks
  <2>1. d[q] \in Marks
    OBVIOUS
  <2>2. target(q) \in {"keep", "install", "delete"}
    OBVIOUS
  <2>3. (IF q \in Installed THEN d[q].auto ELSE ~(fromUser /\ q \in S)) \in BOOLEAN
    <3>1. d[q].auto \in BOOLEAN
      BY <2>1 DEF Marks
    <3> QED BY <3>1
  <2> DEFINE auto == IF q \in Installed THEN d[q].auto ELSE ~(fromUser /\ q \in S)
  <2>4. auto \in BOOLEAN
    BY <2>3
  <2> HIDE DEF auto, target
  <2>5. [d[q] EXCEPT !.mode = target(q), !.purge = FALSE, !.auto = auto] \in Marks
    BY <2>1, <2>2, <2>4 DEF Marks
  <2> QED BY <2>5 DEF auto, target
<1>3. ASSUME NEW q \in Packages
      PROVE  /\ changed(q).mode = target(q) /\ changed(q).purge = FALSE
             /\ changed(q).reinstall = d[q].reinstall
  BY DEF Marks
<1>4. \A q \in Packages : \/ new[q] = d[q] /\ (q \notin wanted \/ d[q].mode = target(q))
                          \/ new[q] = changed(q)
  BY <1>1
<1> HIDE DEF new, changed, wanted
<1>5. new \in Cache
  <2>1. \A q \in Packages : new[q] \in Marks
    BY <1>2, <1>4
  <2>2. new = [q \in Packages |-> new[q]]
    BY <1>1
  <2> QED BY <2>1, <2>2
<1>6. ASSUME AllSound(d), NEW q \in Packages PROVE Sound(new, q)
  <2>1. CASE new[q] = d[q]
    BY <1>6, <2>1 DEF AllSound, Sound
  <2>2. CASE new[q] = changed(q)
    BY <1>3, <1>6, <2>2 DEF AllSound, Sound
  <2> QED BY <1>4, <2>1, <2>2
<1> QED BY <1>5, <1>6 DEF AllSound, new

\* MarkInstall marks the package it is asked for, unless there is no other
\* version of it, and leaves its reinstallation alone.
LEMMA InstallOne ==
  ASSUME NEW d \in Cache, NEW p \in Packages, p \notin Installed \ Upgradeable
  PROVE  /\ MarkInstall(d, {p}, TRUE)[p].mode = "install"
         /\ MarkInstall(d, {p}, TRUE)[p].reinstall = d[p].reinstall
<1> DEFINE wanted == Reach({p}, Lacking(d))
           changed ==
             [d[p] EXCEPT !.mode = "install", !.purge = FALSE,
                          !.auto = IF p \in Installed THEN d[p].auto
                                   ELSE ~(TRUE /\ p \in {p})]
<1>1. p \in wanted
  BY ReachSelf
<1> HIDE DEF wanted
<1>2. MarkInstall(d, {p}, TRUE)[p] =
        IF p \notin wanted \/ d[p].mode = "install" THEN d[p] ELSE changed
  BY DEF MarkInstall, wanted
<1>3. changed.mode = "install" /\ changed.reinstall = d[p].reinstall
  BY DEF Marks
<1> QED BY <1>1, <1>2, <1>3

-----------------------------------------------------------------------------
\* Each way of marking keeps the types and the soundness.
LEMMA MarkInitInv == MarkInit => MarksInv
  BY FreshFacts DEF MarkInit, MarksInv, MarkTypeOK

\* Nor does the resolver.
LEMMA SettledFacts ==
  ASSUME NEW d \in Cache, AllSound(d), NEW p, NEW e \in Settled(d, p)
  PROVE  e \in Cache /\ AllSound(e)
<1>1. PICK S \in SUBSET Broken(d) :
        LET removed == MarkDelete(d, Needing(d, S), FALSE)
        IN  e = MarkInstall(removed, Broken(removed), FALSE)
  BY DEF Settled
<1> DEFINE removed == MarkDelete(d, Needing(d, S), FALSE)
<1>2. removed \in Cache /\ AllSound(removed)
  BY DeleteFacts
<1> HIDE DEF removed
<1>3. MarkInstall(removed, Broken(removed), FALSE) \in Cache /\ AllSound(MarkInstall(removed, Broken(removed), FALSE))
  BY <1>2, InstallFacts
<1>4. e = MarkInstall(removed, Broken(removed), FALSE)
  BY <1>1 DEF removed
<1> QED BY <1>3, <1>4

\* No call leaves them.
LEMMA MarkNextInv == MarksInv /\ [Marking]_markVars => MarksInv'
<1> SUFFICES ASSUME MarksInv, [Marking]_markVars PROVE MarksInv'
  OBVIOUS
<1> USE DEF MarksInv, MarkTypeOK
<1>0. dep \in Cache /\ AllSound(dep)
  OBVIOUS
<1>1. ASSUME NEW p \in Packages, SetInstall(p) PROVE MarksInv'
  <2> DEFINE marked == MarkInstall(dep, {p}, TRUE)
  <2>1. marked \in Cache /\ AllSound(marked)
    BY <1>0, InstallFacts
  <2>2. dep' \in Settled(marked, p) /\ held' = held \ {p}
    BY <1>1 DEF SetInstall
  <2> QED BY <2>1, <2>2, SettledFacts
<1>2. ASSUME NEW p \in Packages, NEW purge \in BOOLEAN, Removing(p, purge) PROVE MarksInv'
  <2> DEFINE unmarked == SetReInstall(dep, p, FALSE)
             marked   == MarkDelete(unmarked, {p}, purge)
  <2>1. unmarked \in Cache /\ AllSound(unmarked)
    BY <1>0, ReInstallFacts
  <2>2. marked \in Cache /\ AllSound(marked)
    BY <2>1, DeleteFacts
  <2>3. dep' \in Settled(marked, p) /\ held' = held \ {p}
    BY <1>2 DEF Removing
  <2> QED BY <2>2, <2>3, SettledFacts
<1>3. ASSUME NEW p \in Packages, SetReInstalled(p) PROVE MarksInv'
  BY <1>0, <1>3, ReInstallFacts DEF SetReInstalled
<1>4. ASSUME NEW p \in Packages, SetKeep(p) PROVE MarksInv'
  <2> DEFINE first == MarkKeep(dep, {p})
             kept  == SetReInstall(first, p, FALSE)
  <2>1. first \in Cache /\ AllSound(first)
    BY <1>0, KeepFacts
  <2>2. kept \in Cache /\ AllSound(kept)
    BY <2>1, ReInstallFacts
  <2>3. PICK K \in KeptBack(kept) : dep' = MarkKeep(kept, K)
    BY <1>4 DEF SetKeep
  <2>4. dep' \in Cache /\ AllSound(dep')
    BY <2>2, <2>3, KeepFacts
  <2>5. held' \subseteq Packages
    BY <1>4 DEF SetKeep
  <2> QED BY <2>4, <2>5
<1>5. ASSUME NEW p \in Packages, SetAuto(p) PROVE MarksInv'
  <2>1. PICK flag \in BOOLEAN : dep' = MarkAuto(dep, p, flag)
    BY <1>5 DEF SetAuto
  <2>2. held' = held
    BY <1>5 DEF SetAuto
  <2> QED BY <1>0, <2>1, <2>2, AutoFacts
<1>6. ASSUME NEW p \in Packages, MarkPackages(p) PROVE MarksInv'
  <2>1. CASE SetInstall(p)
    BY <1>1, <2>1
  <2>2. CASE SetRemove(p) \/ SetPurge(p)
    BY <1>2, <2>2 DEF SetRemove, SetPurge
  <2>3. CASE dep' = MarkInstall(dep, {p}, ~dep[p].auto) /\ UNCHANGED held
    BY <1>0, <2>3, InstallFacts
  <2>4. CASE SetReInstalled(p)
    BY <1>3, <2>4
  <2>5. CASE SetKeep(p)
    BY <1>4, <2>5
  <2> QED BY <1>6, <2>1, <2>2, <2>3, <2>4, <2>5 DEF MarkPackages
<1>7. CASE MarkPackagesForUpgrade
  BY <1>0, <1>7, InstallFacts DEF MarkPackagesForUpgrade
<1>8. CASE MarkPackagesForDistUpgrade
  BY <1>0, <1>8, InstallFacts DEF MarkPackagesForDistUpgrade
<1>9. CASE MarkPackagesForAutoRemove
  BY <1>0, <1>9, DeleteFacts DEF MarkPackagesForAutoRemove
<1>10. CASE UNCHANGED markVars
  BY <1>10 DEF markVars, AllSound, Sound
<1>11. ASSUME NEW p \in Packages, SetRemove(p) \/ SetPurge(p) PROVE MarksInv'
  BY <1>2, <1>11 DEF SetRemove, SetPurge
<1> QED BY <1>1, <1>3, <1>4, <1>5, <1>6, <1>7, <1>8, <1>9, <1>10, <1>11 DEF Marking

\* The type invariant of the marks, for any packages, requirements and calls.
THEOREM MarkTypeCorrect == MarkSpec => []MarkTypeOK
<1>1. MarksInv => MarkTypeOK
  BY DEF MarksInv
<1> QED BY MarkInitInv, MarkNextInv, <1>1, PTL DEF MarkSpec

-----------------------------------------------------------------------------
\* What Shown is, case by case.
LEMMA ShownFacts ==
  ASSUME NEW d \in Cache, NEW p \in Packages
  PROVE  /\ d[p].reinstall => Shown(d, p) = "ToReInstall"
         /\ ~d[p].reinstall /\ d[p].mode = "install"
              => Shown(d, p) = IF p \in Installed THEN "ToUpgrade" ELSE "NewInstall"
         /\ ~d[p].reinstall /\ d[p].mode = "delete"
              => Shown(d, p) = IF d[p].purge THEN "ToPurge" ELSE "ToRemove"
         /\ ~d[p].reinstall /\ d[p].mode = "keep" => Shown(d, p) = "ToKeep"
<1>1. d[p].reinstall \in BOOLEAN /\ d[p].mode \in {"keep", "install", "delete"}
  BY DEF Marks
<1> QED BY <1>1 DEF Shown

\* restoreCacheState gives a package back the mark and the automatic flag it had
\* when the state was saved, whatever it is marked with now and whatever it
\* requires.
THEOREM RestoresThePackage ==
  ASSUME NEW d \in Cache, AllSound(d), NEW e \in Cache, AllSound(e),
         NEW h, NEW p \in Packages
  PROVE  /\ Shown(RestoredOne(CacheState(e, h), d, p), p) = Shown(e, p)
         /\ RestoredOne(CacheState(e, h), d, p)[p].auto = e[p].auto
<1> DEFINE old  == CacheState(e, h)[p]
           cleared == IF d[p].reinstall /\ old.mark # "ToReInstall"
                     THEN SetReInstall(d, p, FALSE) ELSE d
           marked ==
             CASE old.mark = "ToReInstall" ->
                    SetReInstall(MarkInstall(cleared, {p}, TRUE), p, TRUE)
               [] old.mark # "ToReInstall" /\ old.install -> MarkInstall(cleared, {p}, TRUE)
               [] old.mark = "ToRemove" -> MarkDelete(cleared, {p}, FALSE)
               [] old.mark = "ToPurge" -> MarkDelete(cleared, {p}, TRUE)
               [] OTHER -> MarkKeep(cleared, {p})
           restored == RestoredOne(CacheState(e, h), d, p)
<1>1. /\ old.mark = Shown(e, p) /\ old.auto = e[p].auto
      /\ old.install = (e[p].mode = "install")
  BY DEF CacheState, State
<1>2. restored = MarkAuto(marked, p, old.auto)
  BY DEF RestoredOne
<1>3. /\ e[p].reinstall \in BOOLEAN /\ e[p].auto \in BOOLEAN /\ e[p].purge \in BOOLEAN
      /\ e[p].mode \in {"keep", "install", "delete"}
  BY DEF Marks
<1> HIDE DEF old, restored
<1>4. cleared \in Cache /\ (Shown(e, p) # "ToReInstall" => cleared[p].reinstall = FALSE)
  <2>1. d[p].reinstall \in BOOLEAN
    BY DEF Marks
  <2>2. SetReInstall(d, p, FALSE) \in Cache /\ SetReInstall(d, p, FALSE)[p].reinstall = FALSE
    BY ReInstallFacts
  <2> QED BY <1>1, <2>1, <2>2
<1> HIDE DEF cleared
\* It is enough that the package has the mark before the flag is set.
<1>5. ASSUME marked \in Cache, Shown(marked, p) = Shown(e, p)
      PROVE  Shown(restored, p) = Shown(e, p) /\ restored[p].auto = e[p].auto
  <2> HIDE DEF marked
  <2>1. restored[p] = [marked[p] EXCEPT !.auto = e[p].auto]
    BY <1>1, <1>2, <1>3, <1>5, AutoFacts
  <2>2. marked[p] \in Marks
    BY <1>5
  <2>3. /\ restored[p].reinstall = marked[p].reinstall /\ restored[p].mode = marked[p].mode
        /\ restored[p].purge = marked[p].purge /\ restored[p].auto = e[p].auto
    BY <2>1, <2>2 DEF Marks
  <2> QED BY <1>5, <2>3 DEF Shown
<1>6. CASE e[p].reinstall
  <2> DEFINE installed == MarkInstall(cleared, {p}, TRUE)
  <2>1. Shown(e, p) = "ToReInstall"
    BY <1>6, ShownFacts
  <2>2. marked = SetReInstall(installed, p, TRUE)
    BY <1>1, <2>1
  <2>3. installed \in Cache
    BY <1>4, InstallFacts
  <2>4. SetReInstall(installed, p, TRUE) \in Cache
          /\ SetReInstall(installed, p, TRUE)[p].reinstall = TRUE
    BY <2>3, ReInstallFacts
  <2>5. marked \in Cache /\ Shown(marked, p) = "ToReInstall"
    <3> HIDE DEF marked, installed
    <3> QED BY <2>2, <2>4, ShownFacts
  <2> QED BY <1>5, <2>1, <2>5 DEF restored
<1>7. CASE ~e[p].reinstall /\ e[p].mode = "install"
  <2>1. Shown(e, p) = IF p \in Installed THEN "ToUpgrade" ELSE "NewInstall"
    BY <1>7, ShownFacts
  <2>2. marked = MarkInstall(cleared, {p}, TRUE)
    BY <1>1, <1>7, <2>1
  <2>3. p \notin Installed \ Upgradeable
    BY <1>7 DEF AllSound, Sound
  <2>4. /\ MarkInstall(cleared, {p}, TRUE) \in Cache
        /\ MarkInstall(cleared, {p}, TRUE)[p].mode = "install"
        /\ MarkInstall(cleared, {p}, TRUE)[p].reinstall = cleared[p].reinstall
    <3>1. MarkInstall(cleared, {p}, TRUE) \in Cache
      BY <1>4, InstallFacts
    <3>2. /\ MarkInstall(cleared, {p}, TRUE)[p].mode = "install"
          /\ MarkInstall(cleared, {p}, TRUE)[p].reinstall = cleared[p].reinstall
      BY <1>4, <2>3, InstallOne
    <3> QED BY <3>1, <3>2
  <2>6. marked \in Cache /\ marked[p].mode = "install" /\ marked[p].reinstall = FALSE
    <3> HIDE DEF marked
    <3> QED BY <1>4, <2>1, <2>2, <2>4
  <2>5. Shown(marked, p) = Shown(e, p)
    <3> HIDE DEF marked
    <3> QED BY <2>1, <2>6, ShownFacts
  <2> QED BY <1>5, <2>5, <2>6 DEF restored
<1>8. CASE ~e[p].reinstall /\ e[p].mode = "delete"
  <2>1. Shown(e, p) = IF e[p].purge THEN "ToPurge" ELSE "ToRemove"
    BY <1>8, ShownFacts
  <2>2. marked = MarkDelete(cleared, {p}, e[p].purge)
    BY <1>1, <1>3, <1>8, <2>1
  <2>3. p \in Installed
    BY <1>8 DEF AllSound, Sound
  <2>4. MarkDelete(cleared, {p}, e[p].purge) \in Cache
          /\ MarkDelete(cleared, {p}, e[p].purge)[p].mode = "delete"
          /\ MarkDelete(cleared, {p}, e[p].purge)[p].purge = e[p].purge
          /\ MarkDelete(cleared, {p}, e[p].purge)[p].reinstall = cleared[p].reinstall
    BY <1>3, <1>4, <2>3, DeleteFacts
  <2>6. /\ marked \in Cache /\ marked[p].mode = "delete"
        /\ marked[p].purge = e[p].purge /\ marked[p].reinstall = FALSE
    BY <1>4, <2>1, <2>2, <2>4
  <2>7. Shown(marked, p) = Shown(e, p)
    <3> HIDE DEF marked
    <3> QED BY <2>1, <2>6, ShownFacts
  <2> QED BY <1>5, <2>6, <2>7 DEF restored
<1>9. CASE ~e[p].reinstall /\ e[p].mode = "keep"
  <2>1. Shown(e, p) = "ToKeep"
    BY <1>9, ShownFacts
  <2>2. marked = MarkKeep(cleared, {p})
    BY <1>1, <1>9, <2>1
  <2>3. MarkKeep(cleared, {p}) \in Cache
          /\ MarkKeep(cleared, {p})[p].mode = "keep"
          /\ MarkKeep(cleared, {p})[p].reinstall = cleared[p].reinstall
    BY <1>4, KeepFacts
  <2>5. marked \in Cache /\ marked[p].mode = "keep" /\ marked[p].reinstall = FALSE
    BY <1>4, <2>1, <2>2, <2>3
  <2>6. Shown(marked, p) = Shown(e, p)
    <3> HIDE DEF marked
    <3> QED BY <2>1, <2>5, ShownFacts
  <2> QED BY <1>5, <2>5, <2>6 DEF restored
<1> QED BY <1>3, <1>6, <1>7, <1>8, <1>9 DEF restored

-----------------------------------------------------------------------------
(* Restoring *)

\* The caches libapt can be in, and the states that can be saved.
SoundCache == {d \in Cache : AllSound(d)}

SavedStates == {CacheState(d, h) : d \in SoundCache, h \in SUBSET Packages}

\* What a saved state says of a package.
LEMMA SavedFacts ==
  ASSUME NEW state \in SavedStates, NEW p \in Packages
  PROVE  \E e \in SoundCache :
           /\ state[p].mark = Shown(e, p) /\ state[p].auto = e[p].auto
           /\ state[p].install = (e[p].mode = "install")
           /\ state[p].auto \in BOOLEAN
           /\ state[p].mark \in {"ToKeep", "NewInstall", "ToUpgrade", "ToReInstall", "ToRemove", "ToPurge"}
           /\ state[p].mark = "ToReInstall" => p \in Installed
           /\ state[p].mark # "ToReInstall" =>
                /\ state[p].install <=> state[p].mark \in {"NewInstall", "ToUpgrade"}
                /\ state[p].mark = "NewInstall" => p \notin Installed
                /\ state[p].mark = "ToUpgrade" => p \in Upgradeable
                /\ state[p].mark \in {"ToRemove", "ToPurge"} => p \in Installed
<1>1. PICK e \in SoundCache, h \in SUBSET Packages : state = CacheState(e, h)
  BY DEF SavedStates
<1>2. e \in Cache /\ Sound(e, p)
  BY DEF SoundCache, AllSound
<1>3. /\ e[p].reinstall \in BOOLEAN /\ e[p].auto \in BOOLEAN /\ e[p].purge \in BOOLEAN
      /\ e[p].mode \in {"keep", "install", "delete"}
  BY <1>2 DEF Marks, Cache
<1>4. /\ state[p].mark = Shown(e, p) /\ state[p].auto = e[p].auto
      /\ state[p].install = (e[p].mode = "install")
  BY <1>1 DEF CacheState, State
<1>5. \/ e[p].reinstall /\ Shown(e, p) = "ToReInstall"
      \/ /\ ~e[p].reinstall /\ e[p].mode = "install"
         /\ Shown(e, p) = IF p \in Installed THEN "ToUpgrade" ELSE "NewInstall"
      \/ ~e[p].reinstall /\ e[p].mode = "delete" /\ Shown(e, p) \in {"ToRemove", "ToPurge"}
      \/ ~e[p].reinstall /\ e[p].mode = "keep" /\ Shown(e, p) = "ToKeep"
  BY <1>2, <1>3, ShownFacts
<1> QED BY <1>2, <1>3, <1>4, <1>5 DEF Sound

\* The ways in which restoreCacheState marks one package: what is marked, and how.
Way(state, d, p, cleared, marked) ==
  /\ cleared = d \/ cleared = SetReInstall(d, p, FALSE)
  /\ RestoredOne(state, d, p) = MarkAuto(marked, p, state[p].auto)
  /\ \/ /\ state[p].mark = "ToReInstall"
        /\ marked = SetReInstall(MarkInstall(cleared, {p}, TRUE), p, TRUE)
     \/ /\ state[p].mark \in {"NewInstall", "ToUpgrade"}
        /\ marked = MarkInstall(cleared, {p}, TRUE)
     \/ \E purge \in BOOLEAN : marked = MarkDelete(cleared, {p}, purge)
     \/ marked = MarkKeep(cleared, {p})

LEMMA RestoredOneWays ==
  ASSUME NEW state \in SavedStates, NEW d \in SoundCache, NEW p \in Packages
  PROVE  \E cleared, marked \in SoundCache : Way(state, d, p, cleared, marked)
<1> DEFINE old == state[p]
           cleared == IF d[p].reinstall /\ old.mark # "ToReInstall"
                        THEN SetReInstall(d, p, FALSE) ELSE d
           marked ==
             CASE old.mark = "ToReInstall" ->
                    SetReInstall(MarkInstall(cleared, {p}, TRUE), p, TRUE)
               [] old.mark # "ToReInstall" /\ old.install -> MarkInstall(cleared, {p}, TRUE)
               [] old.mark = "ToRemove" -> MarkDelete(cleared, {p}, FALSE)
               [] old.mark = "ToPurge" -> MarkDelete(cleared, {p}, TRUE)
               [] OTHER -> MarkKeep(cleared, {p})
<1>1. RestoredOne(state, d, p) = MarkAuto(marked, p, old.auto)
  BY DEF RestoredOne
<1>2. /\ old.mark = "ToReInstall" => p \in Installed
      /\ old.mark # "ToReInstall" => (old.install <=> old.mark \in {"NewInstall", "ToUpgrade"})
  BY SavedFacts
<1>3. cleared \in SoundCache
  <2>1. d \in Cache /\ AllSound(d)
    BY DEF SoundCache
  <2>2. SetReInstall(d, p, FALSE) \in Cache /\ AllSound(SetReInstall(d, p, FALSE))
    BY <2>1, ReInstallFacts
  <2> QED BY <2>1, <2>2 DEF SoundCache
<1>4. \/ cleared = d
      \/ cleared = SetReInstall(d, p, FALSE)
  OBVIOUS
<1> HIDE DEF cleared
<1> DEFINE installed == MarkInstall(cleared, {p}, TRUE)
<1>5. cleared \in Cache /\ AllSound(cleared)
  BY <1>3 DEF SoundCache
<1>6. installed \in SoundCache
  BY <1>5, InstallFacts DEF SoundCache
<1>7. \/ old.mark = "ToReInstall" /\ marked = SetReInstall(installed, p, TRUE)
      \/ old.mark \in {"NewInstall", "ToUpgrade"} /\ marked = installed
      \/ \E purge \in BOOLEAN : marked = MarkDelete(cleared, {p}, purge)
      \/ marked = MarkKeep(cleared, {p})
  <2> HIDE DEF old
  <2>1. CASE old.mark = "ToReInstall"
    BY <2>1
  <2>2. CASE old.mark \in {"NewInstall", "ToUpgrade"}
    BY <1>2, <2>2
  <2>3. CASE old.mark = "ToRemove"
    BY <1>2, <2>3
  <2>4. CASE old.mark = "ToPurge"
    BY <1>2, <2>4
  <2>5. CASE old.mark \notin {"ToReInstall", "NewInstall", "ToUpgrade", "ToRemove", "ToPurge"}
    BY <1>2, <2>5
  <2> QED BY <2>1, <2>2, <2>3, <2>4, <2>5
<1> HIDE DEF marked
<1>8. marked \in SoundCache
  <2>1. ASSUME old.mark = "ToReInstall"
        PROVE  SetReInstall(installed, p, TRUE) \in SoundCache
    <3> HIDE DEF installed
    <3>1. installed \in Cache /\ AllSound(installed)
      BY <1>6 DEF SoundCache
    <3>2. p \in Installed
      BY <1>2, <2>1
    <3>3. SetReInstall(installed, p, TRUE) \in Cache /\ AllSound(SetReInstall(installed, p, TRUE))
      BY <3>1, <3>2, ReInstallFacts
    <3> QED BY <3>3 DEF SoundCache
  <2>2. ASSUME NEW purge \in BOOLEAN
        PROVE  MarkDelete(cleared, {p}, purge) \in SoundCache
    <3>1. MarkDelete(cleared, {p}, purge) \in Cache /\ AllSound(MarkDelete(cleared, {p}, purge))
      BY <1>5, DeleteFacts
    <3> QED BY <3>1 DEF SoundCache
  <2>3. MarkKeep(cleared, {p}) \in SoundCache
    BY <1>5, KeepFacts DEF SoundCache
  <2> HIDE DEF old, installed
  <2> QED BY <1>6, <1>7, <2>1, <2>2, <2>3
<1> QED BY <1>1, <1>3, <1>4, <1>7, <1>8 DEF Way

\* Restoring one package leaves a cache libapt can be in.
LEMMA RestoredOneSound ==
  ASSUME NEW state \in SavedStates, NEW d \in SoundCache, NEW p \in Packages
  PROVE  RestoredOne(state, d, p) \in SoundCache
<1>1. PICK marked \in SoundCache : RestoredOne(state, d, p) = MarkAuto(marked, p, state[p].auto)
  BY RestoredOneWays DEF Way
<1>2. state[p].auto \in BOOLEAN
  BY SavedFacts
<1>3. marked \in Cache /\ AllSound(marked)
  BY DEF SoundCache
<1>4. MarkAuto(marked, p, state[p].auto) \in Cache /\ AllSound(MarkAuto(marked, p, state[p].auto))
  BY <1>2, <1>3, AutoFacts
<1> QED BY <1>1, <1>4 DEF SoundCache

\* What restoreCacheState does when it comes to a package.
RestoredNext(state, h, d, p) ==
  IF State(d, h, p) = state[p] THEN d ELSE RestoredOne(state, d, p)

\* The marks after each package, in the order of the cache.
AreSteps(e, state, d, h) ==
  /\ e[0] = d
  /\ \A k \in 0..(Len(CacheOrder) - 1) :
       e[k + 1] = RestoredNext(state, h, e[k], CacheOrder[k + 1])

\* restoreCacheState goes through the packages in the order of the cache.
LEMMA RestoredSteps ==
  ASSUME NEW state \in SavedStates, NEW d \in SoundCache, NEW h
  PROVE  \E e \in [0..Len(CacheOrder) -> SoundCache] :
           AreSteps(e, state, d, h) /\ Restored(state, d, h) = e[Len(CacheOrder)]
<1> DEFINE n == Len(CacheOrder)
           step == [x \in SoundCache \X (1..n) |-> RestoredNext(state, h, x[1], CacheOrder[x[2]])]
           Body(g) == [T \in SUBSET DOMAIN CacheOrder |->
                         IF T = {} THEN d
                         ELSE LET x == Max(T) IN
                              IF State(g[T \ {x}], h, CacheOrder[x]) = state[CacheOrder[x]]
                                THEN g[T \ {x}] ELSE RestoredOne(state, g[T \ {x}], CacheOrder[x])]
           iter == CHOOSE g : g = Body(g)
<1>1. n \in Nat /\ DOMAIN CacheOrder = 1..n /\ \A k \in 1..n : CacheOrder[k] \in Packages
  BY ConstantsAssumption DEF IsOrder
<1>2. Restored(state, d, h) = iter[DOMAIN CacheOrder]
  BY DEF Restored, FoldLeft, MapThenFoldSet
<1>3. ASSUME NEW c \in SoundCache, NEW k \in 1..n
      PROVE  RestoredNext(state, h, c, CacheOrder[k]) \in SoundCache
  BY <1>1, RestoredOneSound DEF RestoredNext
<1>4. step \in [SoundCache \X (1..n) -> SoundCache]
  <2> HIDE DEF n
  <2> QED BY <1>3
<1>5. \A c \in SoundCache, k \in 1..n : step[<<c, k>>] = RestoredNext(state, h, c, CacheOrder[k])
  <2> HIDE DEF n
  <2> QED OBVIOUS
<1> HIDE DEF step, n, Body
<1>6. PICK f \in [SUBSET (1..n) -> SoundCache] : IsFold(f, n, d, step)
  <2> HIDE DEF iter
  <2> QED BY <1>1, <1>4, FoldExists
<1>7. f = Body(f)
  <2>1. ASSUME NEW T \in SUBSET (1..n), T # {}
        PROVE  f[T] = LET x == Max(T) IN
                      IF State(f[T \ {x}], h, CacheOrder[x]) = state[CacheOrder[x]]
                        THEN f[T \ {x}] ELSE RestoredOne(state, f[T \ {x}], CacheOrder[x])
    <3>1. Max(T) \in 1..n /\ T \ {Max(T)} \in SUBSET (1..n)
      BY <1>1, <2>1, MaxFacts
    <3>2. f[T \ {Max(T)}] \in SoundCache
      BY <3>1
    <3>3. f[T] = step[<<f[T \ {Max(T)}], Max(T)>>]
      BY <1>6, <2>1 DEF IsFold
    <3> QED BY <1>5, <3>1, <3>2, <3>3 DEF RestoredNext
  <2>2. f[{}] = d
    BY <1>6 DEF IsFold
  <2>3. f = [T \in SUBSET (1..n) |-> f[T]]
    OBVIOUS
  <2> QED BY <1>1, <2>1, <2>2, <2>3 DEF Body
<1>8. iter = Body(iter)
  BY <1>7
<1> HIDE DEF iter
<1>9. Follows(iter, n, SoundCache, d, step)
  <2>1. ASSUME NEW T \in SUBSET (1..n), T # {}, iter[T \ {Max(T)}] \in SoundCache
        PROVE  iter[T] = step[<<iter[T \ {Max(T)}], Max(T)>>]
    <3>1. Max(T) \in 1..n
      BY <1>1, <2>1, MaxFacts
    <3>2. iter[T] = RestoredNext(state, h, iter[T \ {Max(T)}], CacheOrder[Max(T)])
      BY <1>1, <1>8, <2>1 DEF Body, RestoredNext
    <3> QED BY <1>5, <2>1, <3>1, <3>2
  <2>2. ASSUME NEW T \in SUBSET (1..n), T = {} PROVE iter[T] = d
    BY <1>1, <1>8, <2>2 DEF Body
  <2> QED BY <2>1, <2>2 DEF Follows
<1>10. PICK e \in [0..n -> SoundCache] : IsWay(e, n, d, step, iter[1..n])
  BY <1>1, <1>4, <1>9, WayOfFold
<1>11. ASSUME NEW k \in 0..(n - 1) PROVE e[k + 1] = RestoredNext(state, h, e[k], CacheOrder[k + 1])
  <2>1. k \in 0..n /\ k + 1 \in 1..n
    BY <1>1
  <2> QED BY <1>5, <1>10, <2>1 DEF IsWay
<1>12. e[0] = d /\ Restored(state, d, h) = e[n]
  BY <1>1, <1>2, <1>10 DEF IsWay
<1> QED BY <1>10, <1>11, <1>12 DEF n, AreSteps

\* A package is marked as the state says.
MarkedAs(state, d, p) == Shown(d, p) = state[p].mark /\ d[p].auto = state[p].auto

\* Restoring a package that stays brings in only what the state says stays and is
\* not there, if the state lacks nothing.
LEMMA OnlyWhatStays ==
  ASSUME NEW state \in SavedStates, Coherent(state), NEW d \in SoundCache,
         NEW p \in Packages, Stays(state, p),
         NEW q \in Reach({p}, Lacking(d)), q # p
  PROVE  Stays(state, q) /\ ~Present(d, q)
<1> DEFINE T == {p} \cup {x \in Packages : Stays(state, x) /\ ~Present(d, x)}
<1>1. ASSUME NEW t \in T, NEW r \in Lacking(d)[t] PROVE r \in T
  <2>1. t \in Packages /\ Stays(state, t)
    OBVIOUS
  <2>2. r \in Requires[t] /\ ~Present(d, r)
    BY <2>1 DEF Lacking
  <2>3. r \in Packages
    BY <2>1, <2>2, ConstantsAssumption
  <2>4. Stays(state, r)
    BY <2>1, <2>2, <2>3 DEF Coherent
  <2> QED BY <2>2, <2>3, <2>4
<1>2. T \in SUBSET Packages /\ {p} \subseteq T
  OBVIOUS
<1>3. q \in T
  BY <1>1, <1>2 DEF Reach
<1> QED BY <1>3

\* so that the packages which have their marks keep them.
LEMMA RestoredOneKeeps ==
  ASSUME NEW state \in SavedStates, Coherent(state), NEW d \in SoundCache,
         NEW p \in Packages, NEW q \in Packages, q # p, MarkedAs(state, d, q)
  PROVE  MarkedAs(state, RestoredOne(state, d, p), q)
<1>1. PICK cleared, marked \in SoundCache : Way(state, d, p, cleared, marked)
  BY RestoredOneWays
<1>2. d \in Cache /\ cleared \in Cache /\ marked \in Cache /\ Sound(cleared, q)
  BY DEF SoundCache, AllSound
<1>3. cleared[q] = d[q]
  BY <1>1, <1>2 DEF Way, SetReInstall, Cache
<1>4. RestoredOne(state, d, p)[q] = marked[q]
  BY <1>1, <1>2 DEF Way, MarkAuto, Cache
<1>5. SUFFICES ASSUME marked[q] # cleared[q]
               PROVE  Shown(marked, q) = state[q].mark /\ marked[q].auto = state[q].auto
  BY <1>3, <1>4 DEF MarkedAs, Shown
<1>6. /\ state[p].mark \in {"NewInstall", "ToUpgrade", "ToReInstall"}
      /\ marked[q] = MarkInstall(cleared, {p}, TRUE)[q]
  <2>1. \A purge \in BOOLEAN : MarkDelete(cleared, {p}, purge)[q] = cleared[q]
    BY DEF MarkDelete
  <2>2. MarkKeep(cleared, {p})[q] = cleared[q]
    BY DEF MarkKeep
  <2>3. MarkInstall(cleared, {p}, TRUE) \in Cache
    BY <1>2, InstallFacts
  <2>4. SetReInstall(MarkInstall(cleared, {p}, TRUE), p, TRUE)[q] = MarkInstall(cleared, {p}, TRUE)[q]
    BY <2>3 DEF SetReInstall, Cache
  <2> QED BY <1>1, <1>5, <2>1, <2>2, <2>4 DEF Way
<1>7. Stays(state, p)
  BY <1>6, SavedFacts, ConstantsAssumption DEF Stays
<1> DEFINE wanted == Reach({p}, Lacking(cleared))
           target == IF q \in Installed \ Upgradeable THEN "keep" ELSE "install"
           changed == [cleared[q] EXCEPT !.mode = target, !.purge = FALSE,
                         !.auto = IF q \in Installed THEN cleared[q].auto
                                  ELSE ~(TRUE /\ q \in {p})]
<1>8. MarkInstall(cleared, {p}, TRUE)[q] =
        IF q \notin wanted \/ cleared[q].mode = target THEN cleared[q] ELSE changed
  BY DEF MarkInstall
<1>9. q \in wanted /\ marked[q] = changed
  BY <1>5, <1>6, <1>8
<1>10. Stays(state, q) /\ ~Present(cleared, q)
  BY <1>7, <1>9, OnlyWhatStays
<1>11. cleared[q] \in Marks
  BY <1>2 DEF Cache
<1>12. Shown(cleared, q) = state[q].mark /\ cleared[q].auto = state[q].auto
  BY <1>3 DEF MarkedAs, Shown
<1>13. /\ cleared[q].reinstall \in BOOLEAN /\ cleared[q].purge \in BOOLEAN
       /\ cleared[q].mode \in {"keep", "install", "delete"}
  BY <1>11 DEF Marks
<1>14. q \in Installed
  <2> SUFFICES ASSUME q \notin Installed PROVE FALSE
    OBVIOUS
  <2>1. cleared[q].mode # "install" /\ state[q].mark = "NewInstall"
    BY <1>10 DEF Present, Stays
  <2> QED BY <1>2, <1>12, <1>13, <2>1, ShownFacts
<1>15. cleared[q].reinstall
  <2>1. cleared[q].mode = "delete" /\ state[q].mark \notin {"ToRemove", "ToPurge"}
    BY <1>10, <1>14 DEF Present, Stays
  <2> QED BY <1>2, <1>12, <1>13, <2>1, ShownFacts
<1>16. changed.reinstall = cleared[q].reinstall /\ changed.auto = cleared[q].auto
  <2> HIDE DEF target
  <2> QED BY <1>11, <1>14 DEF Marks
<1>17. Shown(cleared, q) = "ToReInstall"
  BY <1>2, <1>15, ShownFacts
<1>18. marked[q].reinstall /\ marked[q].auto = cleared[q].auto
  BY <1>9, <1>15, <1>16
<1> QED BY <1>2, <1>12, <1>17, <1>18, ShownFacts

\* A saved state that lacks nothing is given back by restoreCacheState, whatever the
\* packages are marked with and in whatever order they come.
LEMMA RestoredFacts ==
  ASSUME NEW state \in SavedStates, NEW d \in SoundCache, NEW h
  PROVE  /\ Restored(state, d, h) \in SoundCache
         /\ Coherent(state) => \A p \in Packages : MarkedAs(state, Restored(state, d, h), p)
<1> DEFINE n == Len(CacheOrder)
<1>1. PICK e \in [0..n -> SoundCache] : AreSteps(e, state, d, h) /\ Restored(state, d, h) = e[n]
  BY RestoredSteps
<1>2. n \in Nat /\ \A k \in 1..n : CacheOrder[k] \in Packages
  BY ConstantsAssumption DEF IsOrder
<1>3. \A p \in Packages : \E k \in 1..n : CacheOrder[k] = p
  BY ConstantsAssumption DEF IsOrder, ToSet
<1> HIDE DEF n
<1>4. e[n] \in SoundCache
  BY <1>2
<1>5. ASSUME Coherent(state), NEW p \in Packages PROVE MarkedAs(state, e[n], p)
  <2> DEFINE Good == {k \in 0..n : \A i \in 1..k : MarkedAs(state, e[k], CacheOrder[i])}
  <2>1. 0 \in Good
    <3>1. 0 \in 0..n /\ \A i \in 1..0 : FALSE
      BY <1>2
    <3> QED BY <3>1
  <2>2. ASSUME NEW k \in 0..(n - 1), k \in Good PROVE k + 1 \in Good
    <3>1. k + 1 \in 1..n /\ k + 1 \in 0..n /\ k \in 0..n
      BY <1>2
    <3> DEFINE new == CacheOrder[k + 1]
    <3>2. new \in Packages /\ e[k] \in SoundCache /\ e[k + 1] = RestoredNext(state, h, e[k], new)
      BY <1>1, <1>2, <3>1 DEF AreSteps, n
    <3>3. MarkedAs(state, e[k + 1], new)
      <4>1. CASE State(e[k], h, new) = state[new]
        <5>1. e[k + 1] = e[k]
          BY <3>2, <4>1 DEF RestoredNext
        <5>2. Shown(e[k], new) = state[new].mark /\ e[k][new].auto = state[new].auto
          BY <4>1 DEF State
        <5> QED BY <5>1, <5>2 DEF MarkedAs
      <4>2. CASE State(e[k], h, new) # state[new]
        <5>1. e[k + 1] = RestoredOne(state, e[k], new)
          BY <3>2, <4>2 DEF RestoredNext
        <5>2. PICK f \in SoundCache, g \in SUBSET Packages : state = CacheState(f, g)
          BY DEF SavedStates
        <5>3. f \in Cache /\ AllSound(f) /\ e[k] \in Cache /\ AllSound(e[k])
          BY <3>2 DEF SoundCache
        <5>4. /\ Shown(RestoredOne(state, e[k], new), new) = Shown(f, new)
              /\ RestoredOne(state, e[k], new)[new].auto = f[new].auto
          BY <3>2, <5>2, <5>3, RestoresThePackage
        <5>5. state[new].mark = Shown(f, new) /\ state[new].auto = f[new].auto
          BY <3>2, <5>2 DEF CacheState, State
        <5> QED BY <5>1, <5>4, <5>5 DEF MarkedAs
      <4> QED BY <4>1, <4>2
    <3>4. ASSUME NEW i \in 1..k PROVE MarkedAs(state, e[k + 1], CacheOrder[i])
      <4>1. MarkedAs(state, e[k], CacheOrder[i]) /\ CacheOrder[i] \in Packages
        BY <1>2, <2>2, <3>1
      <4>2. CASE CacheOrder[i] = new
        BY <3>3, <4>2
      <4>3. CASE CacheOrder[i] # new
        BY <1>5, <3>2, <4>1, <4>3, RestoredOneKeeps DEF RestoredNext
      <4> QED BY <4>2, <4>3
    <3>5. ASSUME NEW i \in 1..(k + 1) PROVE MarkedAs(state, e[k + 1], CacheOrder[i])
      <4>1. i \in 1..k \/ i = k + 1
        BY <3>1
      <4> QED BY <3>3, <3>4, <4>1
    <3> QED BY <3>1, <3>5
  <2> HIDE DEF Good
  <2>3. \A k \in 0..n : k \in Good
    BY <1>2, <2>1, <2>2, AllNumbers
  <2>4. n \in Good
    BY <1>2, <2>3
  <2>5. PICK i \in 1..n : CacheOrder[i] = p
    BY <1>3
  <2> QED BY <2>4, <2>5 DEF Good
<1> QED BY <1>1, <1>4, <1>5

-----------------------------------------------------------------------------
(* Stacks *)

\* What is on a stack onto which something is pushed,
LEMMA PushElements ==
  ASSUME NEW S, NEW s \in Seq(S), NEW x \in S
  PROVE  /\ Push(x, s) \in Seq(S) /\ Len(Push(x, s)) = Len(s) + 1
         /\ \A i \in 1..(Len(s) + 1) : Push(x, s)[i] = IF i = 1 THEN x ELSE s[i - 1]
         /\ ToSet(Push(x, s)) = {x} \cup ToSet(s)
<1>1. <<x>> \in Seq(S) /\ Len(<<x>>) = 1 /\ <<x>>[1] = x /\ Len(s) \in Nat
  OBVIOUS
<1>2. /\ <<x>> \o s \in Seq(S) /\ Len(<<x>> \o s) = Len(s) + 1
      /\ \A i \in 1..(Len(s) + 1) : (<<x>> \o s)[i] = IF i <= 1 THEN <<x>>[i] ELSE s[i - 1]
  BY <1>1, ConcatProperties
<1>3. \A i \in 1..(Len(s) + 1) : (<<x>> \o s)[i] = IF i = 1 THEN x ELSE s[i - 1]
  <2> SUFFICES ASSUME NEW i \in 1..(Len(s) + 1)
               PROVE  (<<x>> \o s)[i] = IF i = 1 THEN x ELSE s[i - 1]
    OBVIOUS
  <2>1. i <= 1 <=> i = 1
    OBVIOUS
  <2> QED BY <1>1, <1>2, <2>1
<1>4. ToSet(<<x>> \o s) = {x} \cup ToSet(s)
  <2> DEFINE t == <<x>> \o s
  <2>1. DOMAIN t = 1..(Len(s) + 1) /\ DOMAIN s = 1..Len(s)
    BY <1>2, LenProperties
  <2>2. \A i \in 1..(Len(s) + 1) : t[i] = IF i = 1 THEN x ELSE s[i - 1]
    BY <1>3
  <2> HIDE DEF t
  <2>3. ASSUME NEW y \in ToSet(t) PROVE y \in {x} \cup ToSet(s)
    <3>1. PICK i \in 1..(Len(s) + 1) : t[i] = y
      BY <2>1 DEF ToSet
    <3>2. i # 1 => i - 1 \in 1..Len(s)
      BY <1>1
    <3> QED BY <2>1, <2>2, <3>1, <3>2 DEF ToSet
  <2>4. x \in ToSet(t)
    <3>1. 1 \in 1..(Len(s) + 1)
      BY <1>1
    <3> QED BY <2>1, <2>2, <3>1 DEF ToSet
  <2>5. ASSUME NEW y \in ToSet(s) PROVE y \in ToSet(t)
    <3>1. PICK i \in 1..Len(s) : s[i] = y
      BY <2>1 DEF ToSet
    <3>2. i + 1 \in 1..(Len(s) + 1) /\ i + 1 # 1 /\ (i + 1) - 1 = i
      BY <1>1
    <3>3. t[i + 1] = y
      BY <2>2, <3>1, <3>2
    <3> QED BY <2>1, <3>2, <3>3 DEF ToSet
  <2> QED BY <2>3, <2>4, <2>5 DEF t
<1> QED BY <1>2, <1>3, <1>4 DEF Push

\* and of which the top is taken.
LEMMA PopElements ==
  ASSUME NEW S, NEW s \in Seq(S), s # <<>>
  PROVE  /\ Head(s) \in S /\ Head(s) = s[1] /\ Tail(s) \in Seq(S)
         /\ Len(s) >= 1 /\ Len(Tail(s)) = Len(s) - 1
         /\ \A i \in 1..(Len(s) - 1) : Tail(s)[i] = s[i + 1]
         /\ ToSet(s) = {Head(s)} \cup ToSet(Tail(s))
<1>1. /\ Head(s) \in S /\ Tail(s) \in Seq(S) /\ Len(Tail(s)) = Len(s) - 1
      /\ \A i \in 1..Len(Tail(s)) : Tail(s)[i] = s[i + 1]
  BY HeadTailProperties
<1>2. Len(s) \in Nat /\ Len(s) >= 1 /\ Head(s) = s[1]
  OBVIOUS
<1>3. ToSet(s) = {Head(s)} \cup ToSet(Tail(s))
  <2> DEFINE t == Tail(s)
  <2>1. DOMAIN t = 1..(Len(s) - 1) /\ DOMAIN s = 1..Len(s)
    BY <1>1, LenProperties
  <2>2. \A i \in 1..(Len(s) - 1) : t[i] = s[i + 1]
    BY <1>1
  <2> HIDE DEF t
  <2>3. ASSUME NEW y \in ToSet(s) PROVE y \in {s[1]} \cup ToSet(t)
    <3>1. PICK i \in 1..Len(s) : s[i] = y
      BY <2>1 DEF ToSet
    <3>2. i # 1 => i - 1 \in 1..(Len(s) - 1) /\ (i - 1) + 1 = i
      BY <1>2
    <3>3. i # 1 => t[i - 1] = s[i]
      BY <2>2, <3>2
    <3> QED BY <2>1, <3>1, <3>2, <3>3 DEF ToSet
  <2>4. s[1] \in ToSet(s)
    <3>1. 1 \in 1..Len(s)
      BY <1>2
    <3> QED BY <2>1, <3>1 DEF ToSet
  <2>5. ASSUME NEW y \in ToSet(t) PROVE y \in ToSet(s)
    <3>1. PICK i \in 1..(Len(s) - 1) : t[i] = y
      BY <2>1 DEF ToSet
    <3>2. i + 1 \in 1..Len(s)
      BY <1>2
    <3>3. s[i + 1] = y
      BY <2>2, <3>1
    <3> QED BY <2>1, <3>2, <3>3 DEF ToSet
  <2> QED BY <1>2, <2>3, <2>4, <2>5 DEF t
<1> QED BY <1>1, <1>2, <1>3

\* A stack onto the end of which something is put.
LEMMA AppendElements ==
  ASSUME NEW S, NEW s \in Seq(S), NEW x \in S
  PROVE  /\ Append(s, x) \in Seq(S) /\ Len(Append(s, x)) = Len(s) + 1
         /\ \A i \in 1..(Len(s) + 1) : Append(s, x)[i] = IF i = Len(s) + 1 THEN x ELSE s[i]
         /\ ToSet(Append(s, x)) = {x} \cup ToSet(s)
<1>1. /\ Append(s, x) \in Seq(S) /\ Len(Append(s, x)) = Len(s) + 1 /\ Len(s) \in Nat
      /\ \A i \in 1..Len(s) : Append(s, x)[i] = s[i]
      /\ Append(s, x)[Len(s) + 1] = x
  BY AppendProperties
<1>2. \A i \in 1..(Len(s) + 1) : Append(s, x)[i] = IF i = Len(s) + 1 THEN x ELSE s[i]
  <2> SUFFICES ASSUME NEW i \in 1..(Len(s) + 1)
               PROVE  Append(s, x)[i] = IF i = Len(s) + 1 THEN x ELSE s[i]
    OBVIOUS
  <2>1. i = Len(s) + 1 \/ (i \in 1..Len(s) /\ i # Len(s) + 1)
    BY <1>1
  <2> QED BY <1>1, <2>1
<1>3. ToSet(Append(s, x)) = {x} \cup ToSet(s)
  <2> DEFINE t == Append(s, x)
  <2>1. DOMAIN t = 1..(Len(s) + 1) /\ DOMAIN s = 1..Len(s)
    BY <1>1, LenProperties
  <2>2. \A i \in 1..(Len(s) + 1) : t[i] = IF i = Len(s) + 1 THEN x ELSE s[i]
    BY <1>2
  <2> HIDE DEF t
  <2>3. \A y \in ToSet(t) : y \in {x} \cup ToSet(s)
    <3> SUFFICES ASSUME NEW y \in ToSet(t) PROVE y \in {x} \cup ToSet(s)
      OBVIOUS
    <3>1. PICK i \in 1..(Len(s) + 1) : t[i] = y
      BY <2>1 DEF ToSet
    <3>2. i = Len(s) + 1 \/ i \in 1..Len(s)
      BY <1>1
    <3> QED BY <2>1, <2>2, <3>1, <3>2 DEF ToSet
  <2>4. x \in ToSet(t)
    <3>1. Len(s) + 1 \in 1..(Len(s) + 1)
      BY <1>1
    <3> QED BY <2>1, <2>2, <3>1 DEF ToSet
  <2>5. \A y \in ToSet(s) : y \in ToSet(t)
    <3> SUFFICES ASSUME NEW y \in ToSet(s) PROVE y \in ToSet(t)
      OBVIOUS
    <3>1. PICK i \in 1..Len(s) : s[i] = y
      BY <2>1 DEF ToSet
    <3>2. i \in 1..(Len(s) + 1) /\ i # Len(s) + 1
      BY <1>1
    <3>3. t[i] = y
      BY <2>2, <3>1, <3>2
    <3> QED BY <2>1, <3>2, <3>3 DEF ToSet
  <2> QED BY <2>3, <2>4, <2>5 DEF t
<1> QED BY <1>1, <1>2, <1>3

-----------------------------------------------------------------------------
\* What the states of a line are meant for, those that can be undone first.
LineOf(u, c, r) ==
  [i \in 1..(Len(u) + 1 + Len(r)) |->
     Intent(IF i <= Len(u) THEN u[Len(u) + 1 - i]
            ELSE IF i = Len(u) + 1 THEN c ELSE r[i - Len(u) - 1])]

\* A saved state is meant for something, and as much can be seen of it whether it can
\* be restored.
LEMMA IntentFacts ==
  ASSUME NEW s \in SavedStates
  PROVE  /\ Intent(s) \in Intents
         /\ Coherent([p \in Packages |-> [mark |-> Intent(s)[p][1]]]) <=> Coherent(s)
<1>1. \A p \in Packages : /\ Intent(s)[p] = <<s[p].mark, s[p].auto>>
                          /\ Intent(s)[p][1] = s[p].mark
  BY DEF Intent
<1>2. Intent(s) \in Intents
  BY SavedFacts DEF Intent, Intents
<1> DEFINE t == [p \in Packages |-> [mark |-> Intent(s)[p][1]]]
<1>3. \A p \in Packages : t[p].mark = s[p].mark
  BY <1>1
<1>4. \A p \in Packages : Stays(t, p) <=> Stays(s, p)
  BY <1>3 DEF Stays
<1> HIDE DEF t
<1>5. \A p \in Packages : \A r \in Requires[p] : r \in Packages
  BY ConstantsAssumption
<1>6. Coherent(t) <=> Coherent(s)
  BY <1>4, <1>5 DEF Coherent
<1> QED BY <1>2, <1>6 DEF t

\* A line is a sequence, of which the current state has its place.
LEMMA LineFacts ==
  ASSUME NEW u \in Seq(SavedStates), NEW c \in SavedStates, NEW r \in Seq(SavedStates)
  PROVE  /\ LineOf(u, c, r) \in Seq(Intents)
         /\ Len(LineOf(u, c, r)) = Len(u) + 1 + Len(r)
         /\ DOMAIN LineOf(u, c, r) = 1..(Len(u) + 1 + Len(r))
         /\ Len(u) + 1 \in 1..(Len(u) + 1 + Len(r))
         /\ LineOf(u, c, r)[Len(u) + 1] = Intent(c)
<1>1. Len(u) \in Nat /\ Len(r) \in Nat
  OBVIOUS
<1> DEFINE n == Len(u) + 1 + Len(r)
           at(i) == IF i <= Len(u) THEN u[Len(u) + 1 - i]
                    ELSE IF i = Len(u) + 1 THEN c ELSE r[i - Len(u) - 1]
<1>2. ASSUME NEW i \in 1..n PROVE at(i) \in SavedStates
  <2>1. i <= Len(u) => Len(u) + 1 - i \in 1..Len(u)
    BY <1>1
  <2>2. ~(i <= Len(u)) /\ i # Len(u) + 1 => i - Len(u) - 1 \in 1..Len(r)
    BY <1>1
  <2> QED BY <2>1, <2>2, ElementOfSeq
<1>3. n \in Nat /\ Len(u) + 1 \in 1..n /\ at(Len(u) + 1) = c
  BY <1>1
<1>4. LineOf(u, c, r) = [i \in 1..n |-> Intent(at(i))]
  BY DEF LineOf
<1> HIDE DEF n, at
<1>5. \A i \in 1..n : Intent(at(i)) \in Intents
  BY <1>2, IntentFacts
<1>6. LineOf(u, c, r) \in [1..n -> Intents]
  BY <1>4, <1>5
<1>7. LineOf(u, c, r) \in Seq(Intents) /\ Len(LineOf(u, c, r)) = n
  BY <1>3, <1>6
<1>8. DOMAIN LineOf(u, c, r) = 1..n
  BY <1>4
<1> QED BY <1>3, <1>4, <1>7, <1>8 DEF n

\* Undoing what restores the top of the stack is a move in the same line,
LEMMA BackInLine ==
  ASSUME NEW u \in Seq(SavedStates), u # <<>>, NEW r \in Seq(SavedStates),
         NEW c \in SavedStates, NEW d \in SavedStates, Intent(d) = Intent(Head(u))
  PROVE  LineOf(Tail(u), d, Push(c, r)) = LineOf(u, c, r)
<1>1. /\ Head(u) = u[1] /\ Len(Tail(u)) = Len(u) - 1 /\ Len(u) >= 1
      /\ \A i \in 1..(Len(u) - 1) : Tail(u)[i] = u[i + 1]
  BY PopElements
<1>2. /\ Len(Push(c, r)) = Len(r) + 1
      /\ \A i \in 1..(Len(r) + 1) : Push(c, r)[i] = IF i = 1 THEN c ELSE r[i - 1]
  BY PushElements
<1>3. Len(u) \in Nat /\ Len(r) \in Nat
  OBVIOUS
<1> DEFINE v == Tail(u)
           w == Push(c, r)
<1> HIDE DEF v, w
<1>4. Len(v) + 1 + Len(w) = Len(u) + 1 + Len(r) /\ Len(v) = Len(u) - 1 /\ Len(u) >= 1
  BY <1>1, <1>2, <1>3 DEF v, w
<1>6. Len(v) \in Nat
  BY <1>3, <1>4
<1>5. ASSUME NEW i \in 1..(Len(u) + 1 + Len(r))
      PROVE  Intent(IF i <= Len(v) THEN v[Len(v) + 1 - i]
                    ELSE IF i = Len(v) + 1 THEN d ELSE w[i - Len(v) - 1])
             = Intent(IF i <= Len(u) THEN u[Len(u) + 1 - i]
                      ELSE IF i = Len(u) + 1 THEN c ELSE r[i - Len(u) - 1])
  <2>1. CASE i <= Len(v)
    <3>1. Len(v) + 1 - i \in 1..(Len(u) - 1) /\ (Len(v) + 1 - i) + 1 = Len(u) + 1 - i /\ i <= Len(u)
      BY <1>1, <1>3, <1>4, <2>1
    <3>2. v[Len(v) + 1 - i] = u[Len(u) + 1 - i]
      BY <1>1, <3>1 DEF v
    <3> QED BY <2>1, <3>1, <3>2
  <2>2. CASE i = Len(v) + 1
    <3>1. ~(i <= Len(v)) /\ i <= Len(u) /\ Len(u) + 1 - i = 1
      BY <1>1, <1>3, <1>4, <2>2
    <3> QED BY <1>1, <2>2, <3>1
  <2>3. CASE i = Len(u) + 1
    <3>1. ~(i <= Len(v)) /\ i # Len(v) + 1 /\ i - Len(v) - 1 = 1 /\ ~(i <= Len(u))
      BY <1>3, <1>4, <1>6, <2>3
    <3>2. 1 \in 1..(Len(r) + 1)
      BY <1>3
    <3>3. w[1] = c
      BY <1>2, <3>2 DEF w
    <3> QED BY <2>3, <3>1, <3>3
  <2>4. CASE i > Len(u) + 1
    <3>1. /\ ~(i <= Len(v)) /\ i # Len(v) + 1 /\ i - Len(v) - 1 \in 1..(Len(r) + 1)
          /\ i - Len(v) - 1 # 1 /\ (i - Len(v) - 1) - 1 = i - Len(u) - 1
          /\ ~(i <= Len(u)) /\ i # Len(u) + 1
      BY <1>3, <1>4, <1>6, <2>4
    <3>2. w[i - Len(v) - 1] = r[i - Len(u) - 1]
      BY <1>2, <3>1 DEF w
    <3> QED BY <3>1, <3>2
  <2>5. i <= Len(v) \/ i = Len(v) + 1 \/ i = Len(u) + 1 \/ i > Len(u) + 1
    BY <1>3, <1>4, <1>6
  <2> QED BY <2>1, <2>2, <2>3, <2>4, <2>5
<1>7. LineOf(v, d, w) = LineOf(u, c, r)
  BY <1>4, <1>5 DEF LineOf
<1> QED BY <1>7 DEF v, w

\* and so is redoing.
LEMMA ForwardInLine ==
  ASSUME NEW u \in Seq(SavedStates), NEW r \in Seq(SavedStates), r # <<>>,
         NEW c \in SavedStates, NEW d \in SavedStates, Intent(d) = Intent(Head(r))
  PROVE  LineOf(Push(c, u), d, Tail(r)) = LineOf(u, c, r)
<1>1. /\ Head(r) = r[1] /\ Len(Tail(r)) = Len(r) - 1 /\ Len(r) >= 1
      /\ \A i \in 1..(Len(r) - 1) : Tail(r)[i] = r[i + 1]
  BY PopElements
<1>2. /\ Len(Push(c, u)) = Len(u) + 1
      /\ \A i \in 1..(Len(u) + 1) : Push(c, u)[i] = IF i = 1 THEN c ELSE u[i - 1]
  BY PushElements
<1>3. Len(u) \in Nat /\ Len(r) \in Nat
  OBVIOUS
<1> DEFINE v == Push(c, u)
           w == Tail(r)
<1> HIDE DEF v, w
<1>4. Len(v) + 1 + Len(w) = Len(u) + 1 + Len(r) /\ Len(v) = Len(u) + 1
  BY <1>1, <1>2, <1>3 DEF v, w
<1>5. ASSUME NEW i \in 1..(Len(u) + 1 + Len(r))
      PROVE  Intent(IF i <= Len(v) THEN v[Len(v) + 1 - i]
                    ELSE IF i = Len(v) + 1 THEN d ELSE w[i - Len(v) - 1])
             = Intent(IF i <= Len(u) THEN u[Len(u) + 1 - i]
                      ELSE IF i = Len(u) + 1 THEN c ELSE r[i - Len(u) - 1])
  <2>1. CASE i <= Len(u)
    <3>1. /\ Len(v) + 1 - i \in 1..(Len(u) + 1) /\ Len(v) + 1 - i # 1
          /\ (Len(v) + 1 - i) - 1 = Len(u) + 1 - i /\ i <= Len(v)
      BY <1>3, <1>4, <2>1
    <3>2. v[Len(v) + 1 - i] = u[Len(u) + 1 - i]
      BY <1>2, <3>1 DEF v
    <3> QED BY <2>1, <3>1, <3>2
  <2>2. CASE i = Len(u) + 1
    <3>1. i <= Len(v) /\ ~(i <= Len(u)) /\ Len(v) + 1 - i = 1 /\ 1 \in 1..(Len(u) + 1)
      BY <1>3, <1>4, <2>2
    <3>2. v[1] = c
      BY <1>2, <3>1 DEF v
    <3> QED BY <2>2, <3>1, <3>2
  <2>3. CASE i = Len(u) + 2
    <3>1. ~(i <= Len(v)) /\ i = Len(v) + 1 /\ ~(i <= Len(u)) /\ i # Len(u) + 1 /\ i - Len(u) - 1 = 1
      BY <1>3, <1>4, <2>3
    <3> QED BY <1>1, <2>3, <3>1
  <2>4. CASE i > Len(u) + 2
    <3>1. /\ ~(i <= Len(v)) /\ i # Len(v) + 1 /\ i - Len(v) - 1 \in 1..(Len(r) - 1)
          /\ (i - Len(v) - 1) + 1 = i - Len(u) - 1
          /\ ~(i <= Len(u)) /\ i # Len(u) + 1
      BY <1>1, <1>3, <1>4, <2>4
    <3>2. w[i - Len(v) - 1] = r[i - Len(u) - 1]
      BY <1>1, <3>1 DEF w
    <3> QED BY <3>1, <3>2
  <2>5. i <= Len(u) \/ i = Len(u) + 1 \/ i = Len(u) + 2 \/ i > Len(u) + 2
    BY <1>3
  <2> QED BY <2>1, <2>2, <2>3, <2>4, <2>5
<1>6. LineOf(v, d, w) = LineOf(u, c, r)
  BY <1>4, <1>5 DEF LineOf
<1> QED BY <1>6 DEF v, w

\* Saving starts the line anew after the current state, with the latest of the older
\* ones that fit.
LEMMA SaveInLine ==
  ASSUME NEW u \in Seq(SavedStates), NEW c \in SavedStates, NEW r \in Seq(SavedStates),
         NEW v \in Seq(SavedStates), Len(v) <= Len(u) + 1,
         \A i \in 1..Len(v) : v[i] = Push(c, u)[i]
  PROVE  LineOf(v, c, <<>>) =
           Append(SubSeq(LineOf(u, c, r), Len(u) + 1 - Len(v) + 1, Len(u) + 1),
                  LineOf(u, c, r)[Len(u) + 1])
<1> DEFINE k == Len(v)
           n == Len(u) + 1
           line == LineOf(u, c, r)
           kept == SubSeq(line, n - k + 1, n)
           new == LineOf(v, c, <<>>)
<1>0. k \in Nat /\ k <= Len(u) + 1 /\ Len(v) = k /\ \A i \in 1..k : v[i] = Push(c, u)[i]
  OBVIOUS
<1> HIDE DEF k
<1>1. Len(u) \in Nat /\ Len(r) \in Nat /\ <<>> \in Seq(SavedStates) /\ Len(<<>>) = 0
  OBVIOUS
<1>2. /\ line \in Seq(Intents) /\ Len(line) = Len(u) + 1 + Len(r) /\ n \in 1..Len(line)
      /\ line[n] = Intent(c)
  BY LineFacts
<1>3. new \in Seq(Intents) /\ Len(new) = k + 1
  <2>1. new \in Seq(Intents) /\ Len(new) = Len(v) + 1 + Len(<<>>)
    BY <1>0, <1>1, LineFacts
  <2>2. Len(v) + 1 + Len(<<>>) = k + 1
    BY <1>0, <1>1
  <2> QED BY <2>1, <2>2
<1>4. kept \in Seq(Intents) /\ Len(kept) = k /\ \A i \in 1..k : kept[i] = line[n - k + i]
  <2>1. \A i \in (n - k + 1)..n : line[i] \in Intents
    <3> SUFFICES ASSUME NEW i \in (n - k + 1)..n PROVE line[i] \in Intents
      OBVIOUS
    <3>1. i \in 1..Len(line)
      BY <1>0, <1>1, <1>2
    <3> HIDE DEF line
    <3> QED BY <1>2, <3>1, ElementOfSeq
  <2>2. n - k + 1 \in Int /\ n \in Int /\ n - k + 1 <= n + 1
    BY <1>0, <1>1
  <2> HIDE DEF line, n
  <2>3. /\ kept \in Seq(Intents)
        /\ Len(kept) = IF n - k + 1 <= n THEN n - (n - k + 1) + 1 ELSE 0
        /\ \A i \in 1..(n - (n - k + 1) + 1) : kept[i] = line[(n - k + 1) + i - 1]
    BY <2>1, <2>2, SubSeqProperties
  <2>4. n - (n - k + 1) + 1 = k /\ (IF n - k + 1 <= n THEN n - (n - k + 1) + 1 ELSE 0) = k
    BY <1>0, <2>2
  <2>5. \A i \in 1..k : (n - k + 1) + i - 1 = n - k + i
    BY <1>0, <2>2
  <2> HIDE DEF kept
  <2> QED BY <2>3, <2>4, <2>5
<1> HIDE DEF kept
<1>5. /\ Append(kept, line[n]) \in Seq(Intents) /\ Len(Append(kept, line[n])) = k + 1
      /\ \A i \in 1..(k + 1) : Append(kept, line[n])[i] = IF i = k + 1 THEN line[n] ELSE kept[i]
  <2>1. line[n] \in Intents
    <3> HIDE DEF line, n
    <3> QED BY <1>2, ElementOfSeq
  <2> QED BY <1>4, <2>1, AppendElements
<1>6. \A i \in 1..(Len(u) + 1) : Push(c, u)[i] = IF i = 1 THEN c ELSE u[i - 1]
  BY PushElements
<1>7. ASSUME NEW i \in 1..(k + 1) PROVE new[i] = Append(kept, line[n])[i]
  <2>1. CASE i = k + 1
    <3>1. new[k + 1] = Intent(c)
      BY <1>0, <1>1, LineFacts
    <3> QED BY <1>0, <1>2, <1>5, <2>1, <3>1
  <2>2. CASE i <= k
    <3>1. i \in 1..k /\ i # k + 1 /\ i \in 1..(Len(v) + 1 + Len(<<>>)) /\ i <= Len(v)
            /\ Len(v) + 1 - i \in 1..k /\ k + 1 - i \in 1..(Len(u) + 1)
      BY <1>0, <1>1, <2>2
    <3>2. new[i] = Intent(v[k + 1 - i])
      BY <1>0, <3>1 DEF LineOf
    <3>3. v[k + 1 - i] = IF k + 1 - i = 1 THEN c ELSE u[(k + 1 - i) - 1]
      BY <1>0, <1>6, <3>1
    <3>4. Append(kept, line[n])[i] = line[n - k + i]
      BY <1>4, <1>5, <3>1
    <3>5. n - k + i \in 1..(Len(u) + 1 + Len(r))
      BY <1>0, <1>1, <3>1
    <3>6. line[n - k + i] =
            Intent(IF n - k + i <= Len(u) THEN u[Len(u) + 1 - (n - k + i)]
                   ELSE IF n - k + i = Len(u) + 1 THEN c ELSE r[n - k + i - Len(u) - 1])
      BY <1>0, <1>1, <3>1, <3>5 DEF LineOf
    <3>7. CASE i = k
      <4>1. k + 1 - i = 1 /\ ~(n - k + i <= Len(u)) /\ n - k + i = Len(u) + 1
        BY <1>0, <1>1, <3>7
      <4> HIDE DEF new, line, n
      <4> QED BY <3>2, <3>3, <3>4, <3>6, <4>1
    <3>8. CASE i # k
      <4>1. /\ k + 1 - i # 1 /\ n - k + i <= Len(u)
            /\ Len(u) + 1 - (n - k + i) = (k + 1 - i) - 1
        BY <1>0, <1>1, <3>1, <3>8
      <4> HIDE DEF new, line, n
      <4> QED BY <3>2, <3>3, <3>4, <3>6, <4>1
    <3> QED BY <3>7, <3>8
  <2>3. i = k + 1 \/ i <= k
    BY <1>0
  <2> QED BY <2>1, <2>2, <2>3
<1>8. new = Append(kept, line[n])
  <2> HIDE DEF new, line, n
  <2>1. \A i \in 1..Len(new) : new[i] = Append(kept, line[n])[i]
    BY <1>3, <1>7
  <2>2. Len(new) = Len(Append(kept, line[n]))
    BY <1>3, <1>5
  <2> QED BY <1>3, <1>5, <2>1, <2>2, SeqEqual
<1> QED BY <1>8 DEF kept, k

\* A stack trimmed to the current size keeps what is on top.
LEMMA TrimmedElements ==
  ASSUME NEW S, NEW s \in Seq(S), maxStackSize \in Nat
  PROVE  /\ Trimmed(s) \in Seq(S)
         /\ Len(Trimmed(s)) = IF Len(s) > maxStackSize THEN maxStackSize ELSE Len(s)
         /\ \A i \in 1..Len(Trimmed(s)) : Trimmed(s)[i] = s[i]
         /\ ToSet(Trimmed(s)) \subseteq ToSet(s)
<1>1. Len(s) \in Nat /\ DOMAIN s = 1..Len(s)
  BY LenProperties
<1>2. CASE Len(s) > maxStackSize
  <2> DEFINE t == SubSeq(s, 1, maxStackSize)
  <2>1. 1..maxStackSize \subseteq 1..Len(s)
    BY <1>1, <1>2
  <2>2. \A i \in 1..maxStackSize : s[i] \in S
    BY <2>1, ElementOfSeq
  <2>3. /\ t \in Seq(S)
        /\ Len(t) = IF 1 <= maxStackSize THEN maxStackSize - 1 + 1 ELSE 0
        /\ \A i \in 1..(maxStackSize - 1 + 1) : t[i] = s[1 + i - 1]
    BY <1>1, <1>2, <2>2, SubSeqProperties
  <2> HIDE DEF t
  <2>4. Len(t) = maxStackSize /\ \A i \in 1..maxStackSize : t[i] = s[i]
    BY <2>3
  <2>5. DOMAIN t = 1..maxStackSize
    BY <2>3, <2>4, LenProperties
  <2>6. ToSet(t) \subseteq ToSet(s)
    BY <1>1, <2>1, <2>4, <2>5 DEF ToSet
  <2>7. Trimmed(s) = t
    BY <1>2 DEF Trimmed, t
  <2> QED BY <1>2, <2>3, <2>4, <2>6, <2>7
<1>3. CASE Len(s) <= maxStackSize
  BY <1>1, <1>3 DEF Trimmed
<1> QED BY <1>1, <1>2, <1>3

-----------------------------------------------------------------------------
\* The invariant.  Packages have sound marks, now and in every state on the stacks, and as
\* long as the history is not garbled these states lack nothing; the current size is not
\* above the limit, which is what bounds the stack that is trimmed.
UndoInv ==
  /\ dep \in SoundCache /\ held \in SUBSET Packages
  /\ undoStack \in Seq(SavedStates) /\ redoStack \in Seq(SavedStates)
  /\ maxStackSize \in Sizes /\ limit \in Sizes /\ maxStackSize <= limit
  /\ garbled \in BOOLEAN
  /\ before \in SavedStates \cup {None}
  /\ StacksBounded
  /\ ~garbled => \A s \in ToSet(undoStack) \cup ToSet(redoStack) : Coherent(s)

\* What is meant by the marks.
LEMMA CurrentFacts == dep \in SoundCache /\ held \in SUBSET Packages => CurrentState \in SavedStates
  BY DEF CurrentState, SavedStates

\* Restoring a state that can be restored makes it the current one.
LEMMA RestoresCurrent ==
  ASSUME dep \in SoundCache, held \in SUBSET Packages, NEW state \in SavedStates,
         RestoreCacheState(state)
  PROVE  /\ dep' \in SoundCache /\ held' = held
         /\ CurrentState' \in SavedStates
         /\ Coherent(state) => Intent(CurrentState') = Intent(state)
<1>1. dep' = Restored(state, dep, held) /\ held' = held
  BY DEF RestoreCacheState
<1>2. dep' \in SoundCache /\ (Coherent(state) => \A p \in Packages : MarkedAs(state, dep', p))
  BY <1>1, RestoredFacts
<1>3. CurrentState' = CacheState(dep', held')
  BY DEF CurrentState
<1>4. CurrentState' \in SavedStates
  BY <1>1, <1>2, <1>3 DEF SavedStates
<1>5. \A p \in Packages : CacheState(dep', held')[p].mark = Shown(dep', p)
                            /\ CacheState(dep', held')[p].auto = dep'[p].auto
  BY DEF CacheState, State
<1>6. ASSUME Coherent(state) PROVE Intent(CacheState(dep', held')) = Intent(state)
  BY <1>2, <1>5, <1>6 DEF Intent, MarkedAs
<1> QED BY <1>1, <1>2, <1>3, <1>4, <1>6

\* No mark leaves what is sound.
LEMMA MarkingSound ==
  dep \in SoundCache /\ held \in SUBSET Packages /\ Marking
    => dep' \in SoundCache /\ held' \in SUBSET Packages
  BY MarkNextInv DEF MarksInv, MarkTypeOK, SoundCache, Cache

\* Init establishes the invariant.
LEMMA InitInv == Init => UndoInv
<1> SUFFICES ASSUME Init PROVE UndoInv
  OBVIOUS
<1>1. dep \in SoundCache /\ held \in SUBSET Packages
  BY FreshFacts DEF Init, MarkInit, SoundCache
<1>2. undoStack = <<>> /\ redoStack = <<>> /\ maxStackSize \in Sizes /\ limit = maxStackSize
        /\ garbled = FALSE /\ before = None
  BY DEF Init
<1>3. <<>> \in Seq(SavedStates) /\ Len(<<>>) = 0 /\ ToSet(<<>>) = {}
  BY DEF ToSet
<1>4. maxStackSize \in Nat
  BY <1>2, SizesAssumption
<1>5. StacksBounded /\ maxStackSize <= limit
  BY <1>2, <1>3, <1>4 DEF StacksBounded
<1>6. \A s \in ToSet(undoStack) \cup ToSet(redoStack) : Coherent(s)
  BY <1>2, <1>3
<1> QED BY <1>1, <1>2, <1>3, <1>5, <1>6 DEF UndoInv

\* Each step keeps it.
LEMMA NextInv == UndoInv /\ [Next]_vars => UndoInv'
<1> SUFFICES ASSUME UndoInv, [Next]_vars PROVE UndoInv'
  OBVIOUS
<1> USE DEF UndoInv
<1>0. Len(undoStack) \in Nat /\ Len(redoStack) \in Nat /\ maxStackSize \in Nat /\ limit \in Nat
  BY LenProperties, SizesAssumption
<1>c. CurrentState \in SavedStates
  BY CurrentFacts
<1>e. <<>> \in Seq(SavedStates) /\ Len(<<>>) = 0 /\ ToSet(<<>>) = {}
  BY DEF ToSet
<1>1. CASE MarkPackagesNow
  <2>1. dep' \in SoundCache /\ held' \in SUBSET Packages
    BY <1>1, MarkingSound DEF MarkPackagesNow
  <2>2. UNCHANGED <<stackVars, maxStackSize, limit, garbled>> /\ before' = None
    BY <1>1 DEF MarkPackagesNow
  <2> QED BY <2>1, <2>2 DEF stackVars, StacksBounded
<1>2. CASE RestoreLoaded
  <2>1. CacheState(Fresh, {}) \in SavedStates
    BY FreshFacts DEF SavedStates, SoundCache
  <2>2. RestoreCacheState(CacheState(Fresh, {}))
    BY <1>2 DEF RestoreLoaded
  <2>3. dep' \in SoundCache /\ held' = held
    BY <2>1, <2>2, RestoresCurrent
  <2>4. UNCHANGED <<stackVars, maxStackSize, limit, garbled>> /\ before' = None
    BY <1>2 DEF RestoreLoaded
  <2> QED BY <2>3, <2>4 DEF stackVars, StacksBounded
<1>3. CASE SaveCacheState
  <2> DEFINE pushed == Push(CurrentState, undoStack)
             new == Trimmed(pushed)
  <2>1. pushed \in Seq(SavedStates) /\ ToSet(pushed) = {CurrentState} \cup ToSet(undoStack)
    BY <1>c, PushElements
  <2>2. /\ undoStack' = new /\ redoStack' = <<>> /\ garbled' = (garbled \/ ~Coherent(CurrentState))
        /\ before' = None /\ UNCHANGED <<markVars, maxStackSize, limit>>
    BY <1>3 DEF SaveCacheState
  <2> HIDE DEF pushed
  <2>3. /\ new \in Seq(SavedStates) /\ ToSet(new) \subseteq ToSet(pushed)
        /\ Len(new) = IF Len(pushed) > maxStackSize THEN maxStackSize ELSE Len(pushed)
    BY <1>0, <2>1, TrimmedElements
  <2> HIDE DEF new
  <2>4. Len(new) <= maxStackSize /\ Len(new) \in Nat
    BY <1>0, <2>1, <2>3, LenProperties
  <2>5. StacksBounded'
    BY <1>0, <1>e, <2>2, <2>4 DEF StacksBounded
  <2>6. ASSUME ~garbled' PROVE \A s \in ToSet(undoStack') \cup ToSet(redoStack') : Coherent(s)
    BY <1>e, <2>1, <2>2, <2>3, <2>6
  <2>7. garbled' \in BOOLEAN
    BY <2>2, Zenon
  <2>8. dep' = dep /\ held' = held
    BY <2>2 DEF markVars
  <2>9. undoStack' \in Seq(SavedStates) /\ redoStack' \in Seq(SavedStates)
    BY <1>e, <2>2, <2>3
  <2> QED BY <2>2, <2>5, <2>6, <2>7, <2>8, <2>9
<1>4. CASE Undo
  <2>1. /\ undoStack # <<>> /\ redoStack' = Push(CurrentState, redoStack)
        /\ undoStack' = Tail(undoStack) /\ RestoreCacheState(Head(undoStack))
        /\ garbled' = (garbled \/ ~Coherent(CurrentState))
        /\ before' = None /\ UNCHANGED <<maxStackSize, limit>>
    BY <1>4 DEF Undo
  <2>2. /\ Head(undoStack) \in SavedStates /\ undoStack' \in Seq(SavedStates)
        /\ Len(undoStack') = Len(undoStack) - 1 /\ ToSet(undoStack') \subseteq ToSet(undoStack)
    BY <2>1, PopElements
  <2>3. /\ redoStack' \in Seq(SavedStates) /\ Len(redoStack') = Len(redoStack) + 1
        /\ ToSet(redoStack') = {CurrentState} \cup ToSet(redoStack)
    BY <1>c, <2>1, PushElements
  <2>4. dep' \in SoundCache /\ held' = held
    BY <2>1, <2>2, RestoresCurrent
  <2>5. StacksBounded'
    BY <1>0, <2>1, <2>2, <2>3 DEF StacksBounded
  <2>6. ASSUME ~garbled' PROVE \A s \in ToSet(undoStack') \cup ToSet(redoStack') : Coherent(s)
    BY <2>1, <2>2, <2>3, <2>6
  <2>7. garbled' \in BOOLEAN
    BY <2>1, Zenon
  <2> QED BY <2>1, <2>2, <2>3, <2>4, <2>5, <2>6, <2>7
<1>5. CASE Redo
  <2>1. /\ redoStack # <<>> /\ undoStack' = Append(undoStack, CurrentState)
        /\ redoStack' = Tail(redoStack) /\ RestoreCacheState(Head(redoStack))
        /\ garbled' = (garbled \/ undoStack # <<>> \/ ~Coherent(CurrentState))
        /\ before' = CurrentState /\ UNCHANGED <<maxStackSize, limit>>
    BY <1>5 DEF Redo
  <2>2. /\ Head(redoStack) \in SavedStates /\ redoStack' \in Seq(SavedStates)
        /\ Len(redoStack') = Len(redoStack) - 1 /\ ToSet(redoStack') \subseteq ToSet(redoStack)
    BY <2>1, PopElements
  <2>3. /\ undoStack' \in Seq(SavedStates) /\ Len(undoStack') = Len(undoStack) + 1
        /\ ToSet(undoStack') = {CurrentState} \cup ToSet(undoStack)
    BY <1>c, <2>1, AppendElements
  <2>4. dep' \in SoundCache /\ held' = held
    BY <2>1, <2>2, RestoresCurrent
  <2>5. StacksBounded'
    BY <1>0, <2>1, <2>2, <2>3 DEF StacksBounded
  <2>6. ASSUME ~garbled' PROVE \A s \in ToSet(undoStack') \cup ToSet(redoStack') : Coherent(s)
    BY <2>1, <2>2, <2>3, <2>6
  <2>7. garbled' \in BOOLEAN
    BY <2>1, Zenon
  <2> QED BY <1>c, <2>1, <2>2, <2>3, <2>4, <2>5, <2>6, <2>7
<1>6. CASE ReloadCache
  <2>1. /\ dep' = Fresh /\ held' = {} /\ undoStack' = <<>> /\ redoStack' = <<>>
        /\ limit' = maxStackSize /\ maxStackSize' = maxStackSize
        /\ garbled' = FALSE /\ before' = None
    BY <1>6 DEF ReloadCache
  <2>2. Fresh \in SoundCache
    BY FreshFacts DEF SoundCache
  <2>3. StacksBounded'
    BY <1>0, <1>e, <2>1 DEF StacksBounded
  <2>4. maxStackSize' <= limit'
    BY <1>0, <2>1
  <2>5. \A s \in ToSet(undoStack') \cup ToSet(redoStack') : Coherent(s)
    BY <1>e, <2>1
  <2> QED BY <1>e, <2>1, <2>2, <2>3, <2>4, <2>5
<1>7. ASSUME NEW n \in Sizes, SetUndoRedoCacheSize(n) PROVE UndoInv'
  <2>1. n \in Nat
    BY SizesAssumption
  <2>2. /\ maxStackSize' = n /\ limit' = (IF n > limit THEN n ELSE limit)
        /\ undoStack' = undoStack /\ redoStack' = redoStack
        /\ dep' = dep /\ held' = held /\ garbled' = garbled /\ before' = None
    BY <1>7 DEF SetUndoRedoCacheSize, stackVars, markVars
  <2>3. limit' \in Sizes /\ maxStackSize' <= limit' /\ limit <= limit' /\ limit' \in Nat
    BY <1>0, <2>1, <2>2
  <2>4. StacksBounded'
    BY <1>0, <2>2, <2>3 DEF StacksBounded
  <2> QED BY <2>2, <2>3, <2>4
<1>8. CASE UNCHANGED vars
  BY <1>8 DEF vars, stackVars, markVars, StacksBounded
<1> QED BY <1>1, <1>2, <1>3, <1>4, <1>5, <1>6, <1>7, <1>8 DEF Next

\* It holds in every behaviour.
LEMMA UndoInvariance == Spec => []UndoInv
  BY InitInv, NextInv, PTL DEF Spec

\* The undo and redo stacks of Backend together hold at most as many states as
\* the largest size in use since the cache was loaded, although undo and redo
\* push without trimming.
THEOREM StacksAlwaysBounded == Spec => []StacksBounded
<1>1. UndoInv => StacksBounded
  BY DEF UndoInv
<1> QED BY UndoInvariance, <1>1, PTL

\* Moving through the history to a state that lacks nothing forgets no state.
LEMMA MoveKnows ==
  ASSUME UndoInv, \/ Undo /\ Coherent(Head(undoStack))
                  \/ Redo /\ Coherent(Head(redoStack))
  PROVE  Known' = Known
<1> USE DEF UndoInv
<1>1. CurrentState \in SavedStates
  BY CurrentFacts
<1> DEFINE I(T) == {Intent(s) : s \in T}
<1>2. Known = I({CurrentState} \cup ToSet(undoStack) \cup ToSet(redoStack))
  BY DEF Known
<1>3. Known' = I({CurrentState'} \cup ToSet(undoStack') \cup ToSet(redoStack'))
  BY DEF Known
<1>4. CASE Undo /\ Coherent(Head(undoStack))
  <2>1. /\ undoStack # <<>> /\ redoStack' = Push(CurrentState, redoStack)
        /\ undoStack' = Tail(undoStack) /\ RestoreCacheState(Head(undoStack))
    BY <1>4 DEF Undo
  <2>2. /\ Head(undoStack) \in SavedStates
        /\ ToSet(undoStack) = {Head(undoStack)} \cup ToSet(undoStack')
    BY <2>1, PopElements
  <2>3. ToSet(redoStack') = {CurrentState} \cup ToSet(redoStack)
    BY <1>1, <2>1, PushElements
  <2>4. Intent(CurrentState') = Intent(Head(undoStack))
    BY <1>4, <2>1, <2>2, RestoresCurrent
  <2> DEFINE now == CurrentState
             next == CurrentState'
  <2> HIDE DEF now, next
  <2>5. I({next} \cup ToSet(undoStack') \cup ToSet(redoStack'))
          = I({now} \cup ToSet(undoStack) \cup ToSet(redoStack))
    BY <2>2, <2>3, <2>4 DEF now, next
  <2> QED BY <1>2, <1>3, <2>5 DEF now, next
<1>5. CASE Redo /\ Coherent(Head(redoStack))
  <2>1. /\ redoStack # <<>> /\ undoStack' = Append(undoStack, CurrentState)
        /\ redoStack' = Tail(redoStack) /\ RestoreCacheState(Head(redoStack))
    BY <1>5 DEF Redo
  <2>2. /\ Head(redoStack) \in SavedStates
        /\ ToSet(redoStack) = {Head(redoStack)} \cup ToSet(redoStack')
    BY <2>1, PopElements
  <2>3. ToSet(undoStack') = {CurrentState} \cup ToSet(undoStack)
    BY <1>1, <2>1, AppendElements
  <2>4. Intent(CurrentState') = Intent(Head(redoStack))
    BY <1>5, <2>1, <2>2, RestoresCurrent
  <2> DEFINE now == CurrentState
             next == CurrentState'
  <2> HIDE DEF now, next
  <2>5. I({next} \cup ToSet(undoStack') \cup ToSet(redoStack'))
          = I({now} \cup ToSet(undoStack) \cup ToSet(redoStack))
    BY <2>2, <2>3, <2>4 DEF now, next
  <2> QED BY <1>2, <1>3, <2>5 DEF now, next
<1> QED BY <1>4, <1>5

\* undo and redo forget no state, in whatever order the stacks have come to be: what they
\* replace is on the other stack, and what they restore is current.
THEOREM MovesKeepWhatIsKnown == Spec => MovesForgetNothing
<1>1. UndoInv => [(Undo /\ Coherent(Head(undoStack))) \/ (Redo /\ Coherent(Head(redoStack)))
                    => Known' = Known]_vars
  BY MoveKnows
<1> QED BY UndoInvariance, <1>1, PTL DEF MovesForgetNothing

\* The type invariant, for any packages, marks and sizes.
THEOREM UndoTypeCorrect == Spec => []TypeOK
<1>1. SavedStates \subseteq [Packages -> Saved]
  <2> SUFFICES ASSUME NEW s \in SavedStates PROVE s \in [Packages -> Saved]
    OBVIOUS
  <2>1. PICK e \in SoundCache, h \in SUBSET Packages : s = CacheState(e, h)
    BY DEF SavedStates
  <2>2. s = [p \in Packages |-> s[p]]
    BY <2>1 DEF CacheState
  <2>3. ASSUME NEW p \in Packages PROVE s[p] \in Saved
    <3>1. s[p] = [mark |-> Shown(e, p), install |-> e[p].mode = "install",
                  auto |-> e[p].auto, held |-> p \in h]
      BY <2>1 DEF CacheState, State
    <3>2. /\ Shown(e, p) \in {"ToKeep", "NewInstall", "ToUpgrade", "ToReInstall", "ToRemove", "ToPurge"}
          /\ e[p].auto \in BOOLEAN
      <4>1. s[p].mark = Shown(e, p) /\ s[p].auto = e[p].auto
        BY <3>1
      <4> QED BY <4>1, SavedFacts
    <3> QED BY <3>1, <3>2 DEF Saved
  <2> QED BY <2>2, <2>3
<1>2. UndoInv => TypeOK
  BY <1>1 DEF UndoInv, TypeOK, MarkTypeOK, SoundCache, Cache
<1> QED BY UndoInvariance, <1>2, PTL

-----------------------------------------------------------------------------
(* The stacks are a line of states *)

\* The line is one, and the current state has its place in it.
LEMMA HereFacts ==
  ASSUME UndoInv
  PROVE  /\ CurrentState \in SavedStates
         /\ Line = LineOf(undoStack, CurrentState, redoStack)
         /\ Line \in Seq(Intents) /\ Len(Line) = Len(undoStack) + 1 + Len(redoStack)
         /\ DOMAIN Line = 1..Len(Line) /\ Len(undoStack) + 1 \in 1..Len(Line)
         /\ Line[Len(undoStack) + 1] = Intent(CurrentState)
         /\ Len(undoStack) \in Nat /\ Len(redoStack) \in Nat
<1>1. CurrentState \in SavedStates
  BY CurrentFacts DEF UndoInv
<1>2. Line = LineOf(undoStack, CurrentState, redoStack)
  BY DEF Line, LineOf
<1>3. undoStack \in Seq(SavedStates) /\ redoStack \in Seq(SavedStates)
  BY DEF UndoInv
<1>4. Len(undoStack) \in Nat /\ Len(redoStack) \in Nat
  BY <1>3, LenProperties
<1> QED BY <1>1, <1>2, <1>3, <1>4, LineFacts

\* after a step, too.
LEMMA HereNext ==
  ASSUME UndoInv'
  PROVE  Line' \in Seq(Intents) /\ Len(Line') = Len(undoStack') + 1 + Len(redoStack')
<1> DEFINE u == undoStack'
           c == CurrentState'
           r == redoStack'
<1>1. c = CacheState(dep', held')
  BY DEF CurrentState
<1>2. dep' \in SoundCache /\ held' \in SUBSET Packages /\ u \in Seq(SavedStates) /\ r \in Seq(SavedStates)
  BY DEF UndoInv
<1>3. c \in SavedStates
  BY <1>1, <1>2 DEF SavedStates
<1>4. Line' = LineOf(u, c, r)
  BY DEF Line, LineOf
<1> HIDE DEF u, c, r
<1>5. LineOf(u, c, r) \in Seq(Intents) /\ Len(LineOf(u, c, r)) = Len(u) + 1 + Len(r)
  BY <1>2, <1>3, LineFacts
<1> QED BY <1>4, <1>5 DEF u, r

\* What can be restored.
Restorable == {n \in Intents : Coherent([p \in Packages |-> [mark |-> n[p][1]]])}

\* Whether the current state can be restored can be seen in the line.
LEMMA HereRestorable ==
  ASSUME UndoInv
  PROVE  Line[Len(undoStack) + 1] \in Restorable <=> Coherent(CurrentState)
<1>1. CurrentState \in SavedStates /\ Line[Len(undoStack) + 1] = Intent(CurrentState)
  BY HereFacts
<1> QED BY <1>1, IntentFacts DEF Restorable

\* The steps of Timeline, where the history is not garbled.
LEMMA ChangeStep ==
  ASSUME UndoInv, UndoInv', ~garbled, ~garbled', UNCHANGED stackVars
  PROVE  History!Change
<1>1. undoStack' = undoStack /\ redoStack' = redoStack
  BY DEF stackVars
<1> DEFINE here == Len(undoStack) + 1
<1>2. /\ Line \in Seq(Intents) /\ Len(Line) = Len(undoStack) + 1 + Len(redoStack)
      /\ DOMAIN Line = 1..Len(Line) /\ here \in 1..Len(Line)
  BY HereFacts
<1>3. Line' \in Seq(Intents) /\ Len(Line') = Len(undoStack') + 1 + Len(redoStack')
  BY HereNext
<1>4. \A i \in DOMAIN Line \ {here} : Line'[i] = Line[i]
  <2> SUFFICES ASSUME NEW i \in 1..(Len(undoStack) + 1 + Len(redoStack)), i # here
               PROVE  Line'[i] = Line[i]
    BY <1>2
  <2>1. Line'[i] = Intent(IF i <= Len(undoStack) THEN undoStack[Len(undoStack) + 1 - i]
                          ELSE IF i = Len(undoStack) + 1 THEN CurrentState'
                          ELSE redoStack[i - Len(undoStack) - 1])
    BY <1>1 DEF Line
  <2>2. Line[i] = Intent(IF i <= Len(undoStack) THEN undoStack[Len(undoStack) + 1 - i]
                         ELSE IF i = Len(undoStack) + 1 THEN CurrentState
                         ELSE redoStack[i - Len(undoStack) - 1])
    BY DEF Line
  <2>3. i # Len(undoStack) + 1
    OBVIOUS
  <2> QED BY <2>1, <2>2, <2>3
<1>5. here > 0 /\ here' = here /\ Len(Line') = Len(Line)
  BY <1>1, <1>2, <1>3
<1> HIDE DEF here
<1>6. (IF garbled THEN <<>> ELSE Line) = Line /\ (IF garbled THEN 0 ELSE Len(undoStack) + 1) = here
  BY DEF here
<1>7. (IF garbled THEN <<>> ELSE Line)' = Line' /\ (IF garbled THEN 0 ELSE Len(undoStack) + 1)' = here'
  BY DEF here
<1> QED BY <1>3, <1>4, <1>5, <1>6, <1>7 DEF History!Change

LEMMA SaveStep ==
  ASSUME UndoInv, UndoInv', ~garbled, ~garbled', SaveCacheState
  PROVE  \E n \in Sizes : History!Save(n)
<1> DEFINE here == Len(undoStack) + 1
           n == maxStackSize
           kept == IF n < here THEN n ELSE here
           pushed == Push(CurrentState, undoStack)
<1>1. /\ undoStack' = Trimmed(pushed) /\ redoStack' = <<>>
      /\ garbled' = (garbled \/ ~Coherent(CurrentState)) /\ UNCHANGED markVars
  BY DEF SaveCacheState
<1>2. /\ CurrentState \in SavedStates /\ Line = LineOf(undoStack, CurrentState, redoStack)
      /\ Len(undoStack) \in Nat /\ here > 0
  BY HereFacts
<1>3. undoStack \in Seq(SavedStates) /\ redoStack \in Seq(SavedStates) /\ n \in Nat /\ n \in Sizes
  BY SizesAssumption DEF UndoInv
<1>4. pushed \in Seq(SavedStates) /\ Len(pushed) = here
  BY <1>2, <1>3, PushElements
<1>5. /\ undoStack' \in Seq(SavedStates) /\ \A i \in 1..Len(undoStack') : undoStack'[i] = pushed[i]
      /\ Len(undoStack') = IF Len(pushed) > n THEN n ELSE Len(pushed)
  <2> HIDE DEF pushed
  <2> QED BY <1>1, <1>3, <1>4, TrimmedElements
<1>6. Len(undoStack') = kept /\ kept \in Nat /\ kept <= here
  BY <1>2, <1>3, <1>4, <1>5
<1>7. CurrentState' = CurrentState
  BY <1>1 DEF CurrentState, markVars
<1>8. Line' = LineOf(undoStack', CurrentState, <<>>)
  BY <1>1, <1>7 DEF Line, LineOf
<1>9. Line' = Append(SubSeq(Line, here - kept + 1, here), Line[here])
  <2> DEFINE v == undoStack'
  <2>1. /\ v \in Seq(SavedStates) /\ Len(v) <= Len(undoStack) + 1
        /\ \A i \in 1..Len(v) : v[i] = Push(CurrentState, undoStack)[i]
    BY <1>5, <1>6
  <2>2. Line' = LineOf(v, CurrentState, <<>>)
    BY <1>8
  <2>3. Len(v) = kept
    BY <1>6
  <2> HIDE DEF v
  <2>4. LineOf(v, CurrentState, <<>>) =
          Append(SubSeq(LineOf(undoStack, CurrentState, redoStack),
                        Len(undoStack) + 1 - Len(v) + 1, Len(undoStack) + 1),
                 LineOf(undoStack, CurrentState, redoStack)[Len(undoStack) + 1])
    BY <1>2, <1>3, <2>1, SaveInLine
  <2> DEFINE line == LineOf(undoStack, CurrentState, redoStack)
  <2>6. Line = line
    BY <1>2
  <2>7. LineOf(v, CurrentState, <<>>) = Append(SubSeq(line, here - Len(v) + 1, here), line[here])
    BY <2>4
  <2> HIDE DEF line
  <2>5. LineOf(v, CurrentState, <<>>) = Append(SubSeq(Line, here - Len(v) + 1, here), Line[here])
    BY <2>6, <2>7
  <2> HIDE DEF here, kept
  <2> QED BY <2>2, <2>3, <2>5
<1>10. Line[here] \in Restorable
  BY <1>1, HereRestorable
<1>11. Len(undoStack') + 1 = kept + 1
  BY <1>6
<1> HIDE DEF here, kept
<1>12. (IF garbled THEN <<>> ELSE Line) = Line /\ (IF garbled THEN 0 ELSE Len(undoStack) + 1) = here
  BY DEF here
<1>13. (IF garbled THEN <<>> ELSE Line)' = Line' /\ (IF garbled THEN 0 ELSE Len(undoStack) + 1)' = kept + 1
  BY <1>11
<1>14. History!Save(n)
  BY <1>2, <1>9, <1>10, <1>12, <1>13 DEF History!Save, Restorable, kept
<1> QED BY <1>3, <1>14

LEMMA BackStep ==
  ASSUME UndoInv, UndoInv', ~garbled, ~garbled', Undo
  PROVE  History!Back
<1> DEFINE here == Len(undoStack) + 1
<1>1. /\ undoStack # <<>> /\ redoStack' = Push(CurrentState, redoStack)
      /\ undoStack' = Tail(undoStack) /\ RestoreCacheState(Head(undoStack))
      /\ garbled' = (garbled \/ ~Coherent(CurrentState))
  BY DEF Undo
<1>2. /\ CurrentState \in SavedStates /\ Line = LineOf(undoStack, CurrentState, redoStack)
      /\ Len(undoStack) \in Nat
  BY HereFacts
<1>3. /\ undoStack \in Seq(SavedStates) /\ redoStack \in Seq(SavedStates)
      /\ dep \in SoundCache /\ held \in SUBSET Packages
  BY DEF UndoInv
<1>4. /\ Head(undoStack) \in SavedStates /\ Len(undoStack') = Len(undoStack) - 1
      /\ Len(undoStack) >= 1 /\ Head(undoStack) \in ToSet(undoStack)
  BY <1>1, <1>3, PopElements
<1>5. CurrentState' \in SavedStates /\ Intent(CurrentState') = Intent(Head(undoStack))
  <2>1. Coherent(Head(undoStack))
    BY <1>4 DEF UndoInv
  <2> QED BY <1>1, <1>3, <1>4, <2>1, RestoresCurrent
<1>6. Line' = LineOf(undoStack', CurrentState', redoStack')
  BY DEF Line, LineOf
<1>7. Line' = Line
  <2> DEFINE d == CurrentState'
  <2>1. d \in SavedStates /\ Intent(d) = Intent(Head(undoStack))
    BY <1>5
  <2> HIDE DEF d
  <2>2. LineOf(Tail(undoStack), d, Push(CurrentState, redoStack)) =
          LineOf(undoStack, CurrentState, redoStack)
    BY <1>1, <1>2, <1>3, <2>1, BackInLine
  <2> QED BY <1>1, <1>2, <1>6, <2>2 DEF d
<1>8. Line[here] \in Restorable
  BY <1>1, HereRestorable
<1>9. here > 1 /\ Len(undoStack') + 1 = here - 1
  BY <1>2, <1>4
<1> HIDE DEF here
<1>10. (IF garbled THEN <<>> ELSE Line) = Line /\ (IF garbled THEN 0 ELSE Len(undoStack) + 1) = here
  BY DEF here
<1>11. (IF garbled THEN <<>> ELSE Line)' = Line /\ (IF garbled THEN 0 ELSE Len(undoStack) + 1)' = here - 1
  BY <1>7, <1>9
<1> QED BY <1>8, <1>9, <1>10, <1>11 DEF History!Back, Restorable

LEMMA ForwardStep ==
  ASSUME UndoInv, UndoInv', ~garbled, ~garbled', Redo
  PROVE  History!Forward
<1> DEFINE here == Len(undoStack) + 1
<1>1. /\ redoStack # <<>> /\ undoStack' = Append(undoStack, CurrentState)
      /\ redoStack' = Tail(redoStack) /\ RestoreCacheState(Head(redoStack))
      /\ garbled' = (garbled \/ undoStack # <<>> \/ ~Coherent(CurrentState))
  BY DEF Redo
<1>2. /\ CurrentState \in SavedStates /\ Line = LineOf(undoStack, CurrentState, redoStack)
      /\ Len(undoStack) \in Nat /\ Len(Line) = Len(undoStack) + 1 + Len(redoStack)
  BY HereFacts
<1>3. /\ undoStack \in Seq(SavedStates) /\ redoStack \in Seq(SavedStates)
      /\ dep \in SoundCache /\ held \in SUBSET Packages
  BY DEF UndoInv
<1>4. /\ Head(redoStack) \in SavedStates /\ Len(redoStack) >= 1 /\ Len(redoStack) \in Nat
      /\ Head(redoStack) \in ToSet(redoStack)
  BY <1>1, <1>3, PopElements, LenProperties
<1>5. CurrentState' \in SavedStates /\ Intent(CurrentState') = Intent(Head(redoStack))
  <2>1. Coherent(Head(redoStack))
    BY <1>4 DEF UndoInv
  <2> QED BY <1>1, <1>3, <1>4, <2>1, RestoresCurrent
\* There is nothing to undo, so that the end of the stack is its top.
<1>6. undoStack = <<>> /\ Coherent(CurrentState)
  BY <1>1
<1>7. undoStack' = Push(CurrentState, undoStack) /\ Len(undoStack') = Len(undoStack) + 1
  <2>1. Append(<<>>, CurrentState) = <<CurrentState>> /\ <<CurrentState>> \o <<>> = <<CurrentState>>
    BY <1>2
  <2>2. Len(undoStack') = Len(undoStack) + 1
    BY <1>1, <1>2, <1>3, AppendElements
  <2> QED BY <1>1, <1>6, <2>1, <2>2 DEF Push
<1>8. Line' = LineOf(undoStack', CurrentState', redoStack')
  BY DEF Line, LineOf
<1>9. Line' = Line
  <2> DEFINE d == CurrentState'
  <2>1. d \in SavedStates /\ Intent(d) = Intent(Head(redoStack))
    BY <1>5
  <2> HIDE DEF d
  <2>2. LineOf(Push(CurrentState, undoStack), d, Tail(redoStack)) =
          LineOf(undoStack, CurrentState, redoStack)
    BY <1>1, <1>2, <1>3, <2>1, ForwardInLine
  <2> QED BY <1>1, <1>2, <1>7, <1>8, <2>2 DEF d
<1>10. Line[here] \in Restorable
  BY <1>6, HereRestorable
<1>11. here > 0 /\ here < Len(Line) /\ Len(undoStack') + 1 = here + 1
  BY <1>2, <1>4, <1>7
<1> HIDE DEF here
<1>12. (IF garbled THEN <<>> ELSE Line) = Line /\ (IF garbled THEN 0 ELSE Len(undoStack) + 1) = here
  BY DEF here
<1>13. (IF garbled THEN <<>> ELSE Line)' = Line /\ (IF garbled THEN 0 ELSE Len(undoStack) + 1)' = here + 1
  BY <1>9, <1>11
<1> QED BY <1>10, <1>11, <1>12, <1>13 DEF History!Forward, Restorable

LEMMA LoseStep ==
  ASSUME UndoInv, UndoInv', ~garbled, garbled',
         \/ ~Coherent(CurrentState)
         \/ undoStack # <<>> /\ redoStack # <<>>
  PROVE  History!Lose
<1> DEFINE here == Len(undoStack) + 1
<1>1. /\ Len(Line) = Len(undoStack) + 1 + Len(redoStack)
      /\ Len(undoStack) \in Nat /\ Len(redoStack) \in Nat
  BY HereFacts
<1>2. undoStack \in Seq(SavedStates) /\ redoStack \in Seq(SavedStates)
  BY DEF UndoInv
<1>3. (undoStack # <<>> /\ redoStack # <<>>) => Len(undoStack) >= 1 /\ Len(redoStack) >= 1
  BY <1>2, PopElements
<1>4. (here > 1 /\ here < Len(Line)) \/ Line[here] \notin Restorable
  BY <1>1, <1>3, HereRestorable
<1>5. here > 0
  BY <1>1
<1> HIDE DEF here
<1>6. (IF garbled THEN <<>> ELSE Line) = Line /\ (IF garbled THEN 0 ELSE Len(undoStack) + 1) = here
  BY DEF here
<1>7. (IF garbled THEN <<>> ELSE Line)' = <<>> /\ (IF garbled THEN 0 ELSE Len(undoStack) + 1)' = 0
  OBVIOUS
<1> QED BY <1>4, <1>5, <1>6, <1>7 DEF History!Lose, Restorable

LEMMA LoadStep ==
  ASSUME UndoInv', ~garbled', undoStack' = <<>>, redoStack' = <<>>
  PROVE  History!Load
<1>1. Line' \in Seq(Intents) /\ Len(Line') = Len(undoStack') + 1 + Len(redoStack')
  BY HereNext
<1>2. Len(Line') = 1 /\ Len(undoStack') + 1 = 1
  BY <1>1
<1>3. (IF garbled THEN <<>> ELSE Line)' = Line' /\ (IF garbled THEN 0 ELSE Len(undoStack) + 1)' = 1
  BY <1>2
<1> QED BY <1>1, <1>2, <1>3 DEF History!Load

\* Every step is one in the history, or leaves it alone.
LEMMA HistoryStep ==
  ASSUME UndoInv, UndoInv', [Next]_vars
  PROVE  [History!Next]_(History!vars)
<1> SUFFICES History!Next \/ UNCHANGED History!vars
  OBVIOUS
<1>1. ASSUME undoStack' = undoStack, redoStack' = redoStack, garbled' = garbled
      PROVE  History!Next \/ UNCHANGED History!vars
  <2>1. CASE garbled
    <3>1. (IF garbled THEN <<>> ELSE Line) = <<>> /\ (IF garbled THEN 0 ELSE Len(undoStack) + 1) = 0
      BY <2>1
    <3>2. (IF garbled THEN <<>> ELSE Line)' = <<>> /\ (IF garbled THEN 0 ELSE Len(undoStack) + 1)' = 0
      BY <1>1, <2>1
    <3> QED BY <3>1, <3>2 DEF History!vars
  <2>2. CASE ~garbled
    <3>1. UNCHANGED stackVars /\ ~garbled'
      BY <1>1, <2>2 DEF stackVars
    <3> QED BY <2>2, <3>1, ChangeStep DEF History!Next
  <2> QED BY <2>1, <2>2
<1>2. ASSUME garbled, garbled' PROVE UNCHANGED History!vars
  <2>1. (IF garbled THEN <<>> ELSE Line) = <<>> /\ (IF garbled THEN 0 ELSE Len(undoStack) + 1) = 0
    BY <1>2
  <2>2. (IF garbled THEN <<>> ELSE Line)' = <<>> /\ (IF garbled THEN 0 ELSE Len(undoStack) + 1)' = 0
    BY <1>2
  <2> QED BY <2>1, <2>2 DEF History!vars
<1>3. CASE MarkPackagesNow
  BY <1>1, <1>3 DEF MarkPackagesNow, stackVars
<1>4. CASE RestoreLoaded
  BY <1>1, <1>4 DEF RestoreLoaded, stackVars
<1>5. CASE SaveCacheState
  <2>1. garbled' = (garbled \/ ~Coherent(CurrentState))
    BY <1>5 DEF SaveCacheState
  <2>2. CASE ~garbled /\ ~garbled'
    BY <1>5, <2>2, SaveStep DEF History!Next
  <2>3. CASE ~garbled /\ garbled'
    BY <2>1, <2>3, LoseStep DEF History!Next
  <2> QED BY <1>2, <2>1, <2>2, <2>3
<1>6. CASE Undo
  <2>1. garbled' = (garbled \/ ~Coherent(CurrentState))
    BY <1>6 DEF Undo
  <2>2. CASE ~garbled /\ ~garbled'
    BY <1>6, <2>2, BackStep DEF History!Next
  <2>3. CASE ~garbled /\ garbled'
    BY <2>1, <2>3, LoseStep DEF History!Next
  <2> QED BY <1>2, <2>1, <2>2, <2>3
<1>7. CASE Redo
  <2>1. redoStack # <<>> /\ garbled' = (garbled \/ undoStack # <<>> \/ ~Coherent(CurrentState))
    BY <1>7 DEF Redo
  <2>2. CASE ~garbled /\ ~garbled'
    BY <1>7, <2>2, ForwardStep DEF History!Next
  <2>3. CASE ~garbled /\ garbled'
    BY <2>1, <2>3, LoseStep DEF History!Next
  <2> QED BY <1>2, <2>1, <2>2, <2>3
<1>8. CASE ReloadCache
  BY <1>8, LoadStep DEF ReloadCache, History!Next
<1>9. ASSUME NEW n \in Sizes, SetUndoRedoCacheSize(n) PROVE History!Next \/ UNCHANGED History!vars
  BY <1>1, <1>9 DEF SetUndoRedoCacheSize, stackVars
<1>10. CASE UNCHANGED vars
  BY <1>1, <1>10 DEF vars, stackVars
<1> QED BY <1>3, <1>4, <1>5, <1>6, <1>7, <1>8, <1>9, <1>10 DEF Next

\* The stacks of Backend are the line of states that undo and redo promise: until a redo
\* comes while there is something to undo, or a state is saved that lacks something, undo
\* and redo move in it and bring back the marks that were saved.
THEOREM TimelineIsImplemented == Spec => ImplementsTimeline
<1>1. Init => History!Init
  <2> SUFFICES ASSUME Init PROVE History!Init
    OBVIOUS
  <2>1. undoStack = <<>> /\ redoStack = <<>> /\ garbled = FALSE /\ UndoInv
    BY InitInv DEF Init
  <2>2. Line \in Seq(Intents) /\ Len(Line) = Len(undoStack) + 1 + Len(redoStack)
    BY <2>1, HereFacts
  <2>3. Len(Line) = 1 /\ Len(undoStack) + 1 = 1
    BY <2>1, <2>2
  <2>4. (IF garbled THEN <<>> ELSE Line) = Line /\ (IF garbled THEN 0 ELSE Len(undoStack) + 1) = 1
    BY <2>1, <2>3
  <2> QED BY <2>2, <2>3, <2>4 DEF History!Init
<1>2. UndoInv /\ UndoInv' /\ [Next]_vars => [History!Next]_(History!vars)
  BY HistoryStep
<1> QED BY UndoInvariance, <1>1, <1>2, PTL DEF Spec, ImplementsTimeline, History!Spec

-----------------------------------------------------------------------------
(* Commits *)

\* What Reach has, it has with all that follows.
LEMMA ReachClosed ==
  ASSUME NEW S, NEW next, NEW q \in Reach(S, next), NEW r \in next[q], r \in Packages
  PROVE  r \in Reach(S, next)
BY DEF Reach

\* What MarkInstall does to one package.
LEMMA InstallEffect ==
  ASSUME NEW d \in Cache, NEW S, NEW fromUser \in BOOLEAN, NEW q \in Packages
  PROVE  /\ MarkInstall(d, S, fromUser)[q].reinstall = d[q].reinstall
         /\ q \notin Reach(S, Lacking(d)) => MarkInstall(d, S, fromUser)[q] = d[q]
         /\ q \in Reach(S, Lacking(d)) =>
              MarkInstall(d, S, fromUser)[q].mode = IF q \in Installed \ Upgradeable THEN "keep" ELSE "install"
<1> DEFINE wanted == Reach(S, Lacking(d))
           target == IF q \in Installed \ Upgradeable THEN "keep" ELSE "install"
           changed == [d[q] EXCEPT !.mode = target, !.purge = FALSE,
                                   !.auto = IF q \in Installed THEN d[q].auto ELSE ~(fromUser /\ q \in S)]
<1>1. MarkInstall(d, S, fromUser)[q] = IF q \notin wanted \/ d[q].mode = target THEN d[q] ELSE changed
  BY DEF MarkInstall
<1>2. changed.mode = target /\ changed.reinstall = d[q].reinstall
  <2> HIDE DEF target
  <2> QED BY DEF Marks
<1> HIDE DEF wanted, target, changed
<1> QED BY <1>1, <1>2 DEF wanted, target

\* The instruction for a package says what it shows, but for what is held and for new
\* packages that are automatic.
LEMMA ListFacts ==
  ASSUME NEW d \in SoundCache, NEW h \in SUBSET Packages, \A p \in h : Shown(d, p) = "ToKeep",
         NEW p \in Packages
  PROVE  /\ Shown(d, p) \in {"ToUpgrade", "ToReInstall", "ToRemove", "ToPurge"}
              \/ (Shown(d, p) = "NewInstall" /\ ~d[p].auto)
            => p \in DOMAIN CommitList(d, h)
         /\ p \in DOMAIN CommitList(d, h) =>
              \/ CommitList(d, h)[p] = "Held" /\ Shown(d, p) = "ToKeep"
              \/ CommitList(d, h)[p] = "ToInstall" /\ Shown(d, p) = "NewInstall" /\ ~d[p].auto
              \/ /\ CommitList(d, h)[p] = Shown(d, p)
                 /\ Shown(d, p) \in {"ToUpgrade", "ToReInstall", "ToRemove", "ToPurge"}
<1> DEFINE mark == Shown(d, p)
           all  == Instructions(d, h, p)
<1>1. /\ p \in DOMAIN CommitList(d, h) <=> all # {}
      /\ p \in DOMAIN CommitList(d, h) => CommitList(d, h)[p] = CHOOSE i \in all : TRUE
  BY DEF CommitList, Listed
<1>2. mark \in {"ToKeep", "NewInstall", "ToUpgrade", "ToReInstall", "ToRemove", "ToPurge"}
  BY DEF Shown
<1>3. CASE p \in h
  <2>1. mark = "ToKeep" /\ StatusFlags(d, h, p) = {"IsManuallyHeld"}
    BY <1>3 DEF StatusFlags
  <2>2. all = {"Held"}
    BY <2>1 DEF Instructions
  <2> QED BY <1>1, <2>1, <2>2
<1>4. CASE p \notin h
  <2> DEFINE status == StatusFlags(d, h, p)
  <2>1. status = {mark} \ {"ToKeep"}
    BY <1>4 DEF StatusFlags
  <2>2. all = IF status = {"IsManuallyHeld"} THEN {"Held"}
              ELSE IF status = {"NewInstall"} THEN IF d[p].auto THEN {} ELSE {"ToInstall"}
              ELSE IF Cardinality(status) = 1 THEN status
              ELSE {}
    BY DEF Instructions
  <2> HIDE DEF mark, all, status
  <2>3. CASE mark = "ToKeep"
    <3>1. status = {} /\ Cardinality({}) = 0
      BY <2>1, <2>3, FS_EmptySet
    <3>2. all = {}
      BY <2>2, <3>1
    <3> QED BY <1>1, <2>3, <3>2 DEF mark
  <2>4. CASE mark = "NewInstall"
    <3>1. all = IF d[p].auto THEN {} ELSE {"ToInstall"}
      BY <2>1, <2>2, <2>4
    <3> QED BY <1>1, <2>4, <3>1 DEF mark
  <2>5. CASE mark \in {"ToUpgrade", "ToReInstall", "ToRemove", "ToPurge"}
    <3>1. status = {mark} /\ Cardinality({mark}) = 1
      BY <2>1, <2>5, FS_Singleton
    <3>2. all = {mark}
      BY <2>2, <2>5, <3>1
    <3> QED BY <1>1, <2>5, <3>2 DEF mark
  <2> QED BY <1>2, <2>3, <2>4, <2>5 DEF mark
<1> QED BY <1>3, <1>4

\* What is there for its own sake, and what that needs.
Roots(d) == {q \in Packages : Present(d, q) /\ (q \in Installed \/ ~d[q].auto)}

Wanted(d) == Reach(Roots(d), Requires)

\* What is needed and there is not broken.
Upright(d) == \A q \in Wanted(d) : Present(d, q) => q \notin Broken(d)

\* What a root needs is there.
LEMMA RootNeeds ==
  ASSUME NEW d \in SoundCache, Upright(d), NEW c, NEW p \in Roots(d), NEW q \in Reach({p}, Lacking(c))
  PROVE  Present(d, q) /\ (q = p \/ ~Present(c, q))
<1> DEFINE T == {p} \cup {x \in Wanted(d) : Present(d, x) /\ ~Present(c, x)}
<1>1. p \in Packages /\ p \in Wanted(d) /\ Present(d, p)
  BY ReachSelf DEF Roots, Wanted
<1>2. T \in SUBSET Packages /\ \A t \in T : t \in Wanted(d) /\ Present(d, t) /\ t \in Packages
  BY <1>1 DEF Wanted, Reach
<1>3. ASSUME NEW t \in T, NEW r \in Lacking(c)[t] PROVE r \in T
  <2>1. t \in Wanted(d) /\ Present(d, t) /\ t \in Packages
    BY <1>2
  <2>2. r \in Requires[t] /\ ~Present(c, r)
    BY <2>1 DEF Lacking
  <2>3. r \in Packages
    BY <2>1, <2>2, ConstantsAssumption
  <2>4. r \in Wanted(d)
    BY <2>1, <2>2, <2>3, ReachClosed DEF Wanted
  <2>5. Present(d, r)
    BY <2>1, <2>2 DEF Upright, Broken, Lacking
  <2> QED BY <2>2, <2>4, <2>5
<1>4. q \in T
  BY <1>2, <1>3 DEF Reach
<1> QED BY <1>1, <1>4

\* The worker's marks underway: nothing is marked otherwise than the application
\* marked it, and what is new has what it needs of what is new.
Underway(d, c) ==
  /\ c \in Cache
  /\ \A q \in Packages :
       /\ c[q].mode \in {"keep", d[q].mode}
       /\ c[q].reinstall => d[q].reinstall
       /\ q \notin Installed /\ c[q].mode = "install" =>
            \A r \in Requires[q] \ Installed : c[r].mode = "install"

\* What is done with a package when the worker has come to its entry.
Done(list, c, p) ==
  p \in DOMAIN list =>
    /\ list[p] = "ToReInstall" => c[p].reinstall
    /\ list[p] \in {"ToInstall", "ToUpgrade"} => c[p].mode = "install"
    /\ list[p] \in {"ToRemove", "ToPurge"} =>
         p \in Installed /\ c[p].mode = "delete" /\ c[p].purge = (list[p] = "ToPurge")

\* What an entry changes of other packages: new ones may be installed.
Spares(c, new, p) ==
  \A q \in Packages \ {p} :
    /\ new[q].reinstall = c[q].reinstall
    /\ new[q] = c[q] \/ (q \notin Installed /\ new[q].mode = "install")

\* An entry that marks a root for its installation brings in new packages only,
\* which the application has marked, too.
LEMMA InstallUnderway ==
  ASSUME NEW d \in SoundCache, Upright(d), NEW c, Underway(d, c), NEW fromUser \in BOOLEAN,
         NEW p \in Roots(d), p \notin Installed \ Upgradeable, d[p].mode = "install"
  PROVE  /\ Underway(d, MarkInstall(c, {p}, fromUser))
         /\ Spares(c, MarkInstall(c, {p}, fromUser), p)
         /\ MarkInstall(c, {p}, fromUser)[p].mode = "install"
<1> DEFINE new == MarkInstall(c, {p}, fromUser)
           wanted == Reach({p}, Lacking(c))
<1>1. c \in Cache /\ p \in Packages /\ d \in Cache
  BY DEF Underway, Roots, SoundCache
<1>2. new \in Cache
  BY <1>1, InstallFacts
<1>3. ASSUME NEW q \in Packages
      PROVE  /\ new[q].reinstall = c[q].reinstall
             /\ q \notin wanted => new[q] = c[q]
             /\ q \in wanted => new[q].mode = IF q \in Installed \ Upgradeable THEN "keep" ELSE "install"
  BY <1>1, InstallEffect
<1>4. p \in wanted
  BY <1>1, ReachSelf
<1>5. ASSUME NEW q \in wanted, q # p
      PROVE  q \in Packages /\ q \notin Installed /\ d[q].mode = "install"
  <2>1. q \in Packages
    BY DEF Reach
  <2>2. Present(d, q) /\ ~Present(c, q)
    BY <1>5, RootNeeds
  <2>3. c[q].mode \in {"keep", d[q].mode}
    BY <2>1 DEF Underway
  <2> QED BY <2>1, <2>2, <2>3 DEF Present
<1> HIDE DEF new
<1>6. ASSUME NEW q \in wanted
      PROVE  q \in Packages /\ new[q].mode = "install" /\ d[q].mode = "install"
  <2>1. q \in Packages
    BY DEF Reach
  <2> QED BY <1>3, <1>5, <2>1
<1>7. ASSUME NEW q \in Packages, q \notin Installed, new[q].mode = "install",
             NEW r \in Requires[q] \ Installed
      PROVE  new[r].mode = "install"
  <2>1. r \in Packages
    BY ConstantsAssumption
  <2>2. CASE r \in wanted
    BY <1>6, <2>2
  <2>3. CASE r \notin wanted
    <3>1. new[r] = c[r]
      BY <1>3, <2>1, <2>3
    <3>2. CASE q \in wanted
      <4>1. r \notin Lacking(c)[q]
        BY <2>1, <2>3, <3>2, ReachClosed
      <4>2. Present(c, r)
        BY <1>7, <2>1, <4>1 DEF Lacking
      <4> QED BY <3>1, <4>2 DEF Present
    <3>3. CASE q \notin wanted
      <4>1. c[q].mode = "install"
        BY <1>3, <1>7, <3>3
      <4>2. c[r].mode = "install"
        BY <1>7, <4>1 DEF Underway
      <4> QED BY <3>1, <4>2
    <3> QED BY <3>2, <3>3
  <2> QED BY <2>2, <2>3
<1>8. ASSUME NEW q \in Packages
      PROVE  new[q].mode \in {"keep", d[q].mode} /\ (new[q].reinstall => d[q].reinstall)
  <2>1. c[q].mode \in {"keep", d[q].mode} /\ (c[q].reinstall => d[q].reinstall)
    BY DEF Underway
  <2> HIDE DEF wanted
  <2> QED BY <1>3, <1>6, <2>1
<1>9. Underway(d, new)
  BY <1>2, <1>7, <1>8 DEF Underway
<1>10. Spares(c, new, p)
  <2> HIDE DEF wanted
  <2> QED BY <1>3, <1>5, <1>6 DEF Spares
<1> QED BY <1>4, <1>6, <1>9, <1>10 DEF new

\* What the worker does when it comes to a package.
WorkerNext(list, c, p) == IF p \in DOMAIN list THEN Marked(c, p, list[p]) ELSE c

\* What is marked for its installation by an entry is a root.
LEMMA EntryIsRoot ==
  ASSUME NEW d \in SoundCache, NEW p \in Packages,
         Shown(d, p) = "ToUpgrade" \/ (Shown(d, p) = "NewInstall" /\ ~d[p].auto)
  PROVE  p \in Roots(d) /\ p \notin Installed \ Upgradeable /\ d[p].mode = "install"
<1>1. d \in Cache /\ Sound(d, p)
  BY DEF SoundCache, AllSound
<1>2. d[p].reinstall \in BOOLEAN /\ d[p].auto \in BOOLEAN /\ d[p].mode \in {"keep", "install", "delete"}
  BY <1>1 DEF Marks
<1>3. ~d[p].reinstall /\ d[p].mode = "install"
      /\ Shown(d, p) = IF p \in Installed THEN "ToUpgrade" ELSE "NewInstall"
  BY <1>1, <1>2, ShownFacts
<1> QED BY <1>1, <1>3 DEF Roots, Present, Sound

\* Each entry is done when the worker has come to it, and spares what is done.
LEMMA EntryUnderway ==
  ASSUME NEW d \in SoundCache, Upright(d), NEW h \in SUBSET Packages,
         \A p \in h : Shown(d, p) = "ToKeep",
         NEW c, Underway(d, c), NEW p \in Packages
  PROVE  LET new == WorkerNext(CommitList(d, h), c, p)
         IN  Underway(d, new) /\ Spares(c, new, p) /\ Done(CommitList(d, h), new, p)
<1> DEFINE list == CommitList(d, h)
           new  == WorkerNext(list, c, p)
           i    == list[p]
<1>1. c \in Cache /\ d \in Cache /\ Sound(d, p) /\ c[p] \in Marks /\ d[p] \in Marks
  BY DEF Underway, SoundCache, AllSound
<1>2. \/ p \notin DOMAIN list
      \/ i = "Held" /\ Shown(d, p) = "ToKeep"
      \/ i = "ToInstall" /\ Shown(d, p) = "NewInstall" /\ ~d[p].auto
      \/ i = Shown(d, p) /\ Shown(d, p) \in {"ToUpgrade", "ToReInstall", "ToRemove", "ToPurge"}
  BY ListFacts
<1>3. CASE p \notin DOMAIN list
  <2>1. new = c
    BY <1>3 DEF WorkerNext
  <2> HIDE DEF new, list
  <2>2. Spares(c, c, p)
    BY DEF Spares
  <2> QED BY <1>3, <2>1, <2>2 DEF Done, new, list
<1>4. p \in DOMAIN list => new = Marked(c, p, i)
  BY DEF WorkerNext
<1> HIDE DEF new, list, i
\* An entry that changes its package only.
<1>5. ASSUME p \in DOMAIN list, NEW mark \in Marks, new = [c EXCEPT ![p] = mark],
             mark.mode \in {"keep", d[p].mode}, mark.reinstall => d[p].reinstall,
             p \in Installed \/ (c[p].mode = "keep" /\ mark.mode = "keep"),
             /\ i = "ToReInstall" => mark.reinstall
             /\ i \notin {"ToInstall", "ToUpgrade"}
             /\ i \in {"ToRemove", "ToPurge"} =>
                  p \in Installed /\ mark.mode = "delete" /\ mark.purge = (i = "ToPurge")
      PROVE  Underway(d, new) /\ Spares(c, new, p) /\ Done(list, new, p)
  <2>1. new \in Cache /\ new[p] = mark /\ \A q \in Packages \ {p} : new[q] = c[q]
    BY <1>1, <1>5
  <2>2. Spares(c, new, p)
    BY <2>1 DEF Spares
  <2>3. Done(list, new, p)
    BY <1>5, <2>1 DEF Done, i
  <2>4. ASSUME NEW q \in Packages
        PROVE  new[q].mode \in {"keep", d[q].mode} /\ (new[q].reinstall => d[q].reinstall)
    <3>1. CASE q = p
      BY <1>5, <2>1, <3>1
    <3>2. CASE q # p
      BY <2>1, <3>2 DEF Underway
    <3> QED BY <3>1, <3>2
  <2>5. ASSUME NEW q \in Packages, q \notin Installed, new[q].mode = "install",
               NEW r \in Requires[q] \ Installed
        PROVE  new[r].mode = "install"
    <3>1. r \in Packages
      BY ConstantsAssumption
    <3>2. q # p
      BY <1>5, <2>1, <2>5
    <3>3. c[r].mode = "install"
      BY <2>1, <2>5, <3>2 DEF Underway
    <3>4. r # p
      BY <1>5, <2>5, <3>3
    <3> QED BY <2>1, <3>1, <3>3, <3>4
  <2> QED BY <2>1, <2>2, <2>3, <2>4, <2>5 DEF Underway
<1>6. c[p].mode \in {"keep", d[p].mode} /\ (c[p].reinstall => d[p].reinstall)
  BY DEF Underway
<1>7. /\ c[p].mode \in {"keep", "install", "delete"} /\ d[p].mode \in {"keep", "install", "delete"}
      /\ d[p].reinstall \in BOOLEAN /\ d[p].purge \in BOOLEAN
  BY <1>1 DEF Marks
<1>8. CASE p \in DOMAIN list /\ i = "Held" /\ Shown(d, p) = "ToKeep"
  <2>1. ~d[p].reinstall /\ d[p].mode = "keep"
    BY <1>1, <1>7, <1>8, ShownFacts
  <2> DEFINE mark == [c[p] EXCEPT !.mode = "keep", !.purge = FALSE, !.reinstall = FALSE]
  <2>2. new = SetReInstall(MarkKeep(c, {p}), p, FALSE)
    BY <1>4, <1>8 DEF Marked
  <2>3. new = [c EXCEPT ![p] = mark]
    BY <1>1, <2>2 DEF SetReInstall, MarkKeep, Marks
  <2>4. mark \in Marks /\ mark.mode = "keep" /\ mark.reinstall = FALSE
    BY <1>1 DEF Marks
  <2> HIDE DEF mark
  <2> QED BY <1>5, <1>6, <1>8, <2>1, <2>3, <2>4 DEF new, list
<1>9. CASE p \in DOMAIN list /\ i = "ToReInstall" /\ Shown(d, p) = "ToReInstall"
  <2>1. d[p].reinstall
    BY <1>1, <1>7, <1>9, ShownFacts
  <2> DEFINE mark == [c[p] EXCEPT !.reinstall = TRUE]
  <2>2. new = [c EXCEPT ![p] = mark]
    BY <1>4, <1>9 DEF Marked, SetReInstall
  <2>3. mark \in Marks /\ mark.mode = c[p].mode /\ mark.reinstall = TRUE
    BY <1>1 DEF Marks
  <2>4. p \in Installed
    BY <1>1, <2>1 DEF Sound
  <2> HIDE DEF mark
  <2> QED BY <1>5, <1>6, <1>9, <2>1, <2>2, <2>3, <2>4 DEF new, list
<1>10. CASE p \in DOMAIN list /\ i = Shown(d, p) /\ i \in {"ToRemove", "ToPurge"}
  <2>1. d[p].mode = "delete" /\ p \in Installed
    BY <1>1, <1>7, <1>10, ShownFacts DEF Sound
  <2> DEFINE mark == [c[p] EXCEPT !.reinstall = FALSE, !.mode = "delete", !.purge = (i = "ToPurge")]
  <2>2. new = MarkDelete(SetReInstall(c, p, FALSE), {p}, i = "ToPurge")
    BY <1>4, <1>10 DEF Marked
  <2>3. new = [c EXCEPT ![p] = mark]
    BY <1>1, <2>1, <2>2 DEF SetReInstall, MarkDelete, Marks
  <2>4. mark \in Marks /\ mark.mode = "delete" /\ mark.reinstall = FALSE /\ mark.purge = (i = "ToPurge")
    BY <1>1 DEF Marks
  <2> HIDE DEF mark
  <2> QED BY <1>5, <1>10, <2>1, <2>3, <2>4 DEF new, list
<1>11. CASE p \in DOMAIN list /\ i \in {"ToInstall", "ToUpgrade"}
  <2>1. p \in Roots(d) /\ p \notin Installed \ Upgradeable /\ d[p].mode = "install"
    BY <1>2, <1>11, EntryIsRoot
  <2>2. \E fromUser \in BOOLEAN : new = MarkInstall(c, {p}, fromUser)
    <3>1. TRUE \in BOOLEAN /\ (~c[p].auto) \in BOOLEAN
      BY <1>1 DEF Marks
    <3> QED BY <1>4, <1>11, <3>1 DEF Marked
  <2>3. Underway(d, new) /\ Spares(c, new, p) /\ new[p].mode = "install"
    BY <2>1, <2>2, InstallUnderway
  <2>4. Done(list, new, p)
    BY <1>11, <2>3 DEF Done, i
  <2> QED BY <2>3, <2>4 DEF new, list
<1> QED BY <1>2, <1>3, <1>8, <1>9, <1>10, <1>11 DEF new, list

\* What is done stays done.
LEMMA DoneStays ==
  ASSUME NEW list, NEW c, NEW new, NEW p, Spares(c, new, p), NEW q \in Packages, q # p, Done(list, c, q)
  PROVE  Done(list, new, q)
BY DEF Done, Spares

\* The marks after each entry of the list, in the order of the names.
AreMarkings(e, list) ==
  /\ e[0] = Fresh
  /\ \A k \in 0..(Len(NameOrder) - 1) : e[k + 1] = WorkerNext(list, e[k], NameOrder[k + 1])

\* markChanges goes through the list in the order of the names.
LEMMA WorkerSteps ==
  ASSUME NEW list, NEW A, Fresh \in A, \A c \in A, p \in Packages : WorkerNext(list, c, p) \in A
  PROVE  \E e \in [0..Len(NameOrder) -> A] :
           AreMarkings(e, list) /\ WorkerMarks(list) = e[Len(NameOrder)]
<1> DEFINE n == Len(NameOrder)
           step == [x \in A \X (1..n) |-> WorkerNext(list, x[1], NameOrder[x[2]])]
           Body(g) == [T \in SUBSET DOMAIN NameOrder |->
                         IF T = {} THEN Fresh
                         ELSE LET x == Max(T) IN
                              IF NameOrder[x] \in DOMAIN list
                                THEN Marked(g[T \ {x}], NameOrder[x], list[NameOrder[x]])
                                ELSE g[T \ {x}]]
           iter == CHOOSE g : g = Body(g)
<1>1. n \in Nat /\ DOMAIN NameOrder = 1..n /\ \A k \in 1..n : NameOrder[k] \in Packages
  BY ConstantsAssumption DEF IsOrder
<1>2. WorkerMarks(list) = iter[DOMAIN NameOrder]
  BY DEF WorkerMarks, FoldLeft, MapThenFoldSet
<1>3. step \in [A \X (1..n) -> A]
  <2> HIDE DEF n
  <2> QED BY <1>1
<1>4. \A c \in A, k \in 1..n : step[<<c, k>>] = WorkerNext(list, c, NameOrder[k])
  <2> HIDE DEF n
  <2> QED OBVIOUS
<1> HIDE DEF step, n, Body
<1>5. PICK f \in [SUBSET (1..n) -> A] : IsFold(f, n, Fresh, step)
  <2> HIDE DEF iter
  <2> QED BY <1>1, <1>3, FoldExists
<1>6. f = Body(f)
  <2>1. ASSUME NEW T \in SUBSET (1..n), T # {}
        PROVE  f[T] = LET x == Max(T) IN
                      IF NameOrder[x] \in DOMAIN list
                        THEN Marked(f[T \ {x}], NameOrder[x], list[NameOrder[x]])
                        ELSE f[T \ {x}]
    <3>1. Max(T) \in 1..n /\ T \ {Max(T)} \in SUBSET (1..n)
      BY <1>1, <2>1, MaxFacts
    <3>2. f[T \ {Max(T)}] \in A
      BY <3>1
    <3>3. f[T] = step[<<f[T \ {Max(T)}], Max(T)>>]
      BY <1>5, <2>1 DEF IsFold
    <3> QED BY <1>4, <3>1, <3>2, <3>3 DEF WorkerNext
  <2>2. f[{}] = Fresh
    BY <1>5 DEF IsFold
  <2>3. f = [T \in SUBSET (1..n) |-> f[T]]
    OBVIOUS
  <2> QED BY <1>1, <2>1, <2>2, <2>3 DEF Body
<1>7. iter = Body(iter)
  BY <1>6
<1> HIDE DEF iter
<1>8. Follows(iter, n, A, Fresh, step)
  <2>1. ASSUME NEW T \in SUBSET (1..n), T # {}, iter[T \ {Max(T)}] \in A
        PROVE  iter[T] = step[<<iter[T \ {Max(T)}], Max(T)>>]
    <3>1. Max(T) \in 1..n
      BY <1>1, <2>1, MaxFacts
    <3>2. iter[T] = WorkerNext(list, iter[T \ {Max(T)}], NameOrder[Max(T)])
      BY <1>1, <1>7, <2>1 DEF Body, WorkerNext
    <3> QED BY <1>4, <2>1, <3>1, <3>2
  <2>2. ASSUME NEW T \in SUBSET (1..n), T = {} PROVE iter[T] = Fresh
    BY <1>1, <1>7, <2>2 DEF Body
  <2> QED BY <2>1, <2>2 DEF Follows
<1>9. PICK e \in [0..n -> A] : IsWay(e, n, Fresh, step, iter[1..n])
  BY <1>1, <1>3, <1>8, WayOfFold
<1>10. ASSUME NEW k \in 0..(n - 1) PROVE e[k + 1] = WorkerNext(list, e[k], NameOrder[k + 1])
  <2>1. k \in 0..n /\ k + 1 \in 1..n
    BY <1>1
  <2> QED BY <1>4, <1>9, <2>1 DEF IsWay
<1>11. e[0] = Fresh /\ WorkerMarks(list) = e[n]
  BY <1>1, <1>2, <1>9 DEF IsWay
<1> QED BY <1>9, <1>10, <1>11 DEF n, AreMarkings

\* A fresh cache is marked with nothing.
LEMMA FreshUnderway == ASSUME NEW d \in SoundCache PROVE Underway(d, Fresh)
<1>1. \A q \in Packages : Fresh[q].mode = "keep" /\ Fresh[q].reinstall = FALSE
  BY DEF Fresh
<1>2. Fresh \in Cache
  BY FreshFacts
<1> QED BY <1>1, <1>2 DEF Underway

\* The worker marks nothing that is not shown, and does what its list says.
LEMMA WorkerFacts ==
  ASSUME NEW d \in SoundCache, Upright(d), NEW h \in SUBSET Packages,
         \A p \in h : Shown(d, p) = "ToKeep"
  PROVE  /\ Underway(d, WorkerMarks(CommitList(d, h)))
         /\ \A p \in Packages : Done(CommitList(d, h), WorkerMarks(CommitList(d, h)), p)
<1> DEFINE list == CommitList(d, h)
           n == Len(NameOrder)
           A == {c \in Cache : Underway(d, c)}
<1>1. n \in Nat /\ \A p \in Packages : \E k \in 1..n : NameOrder[k] = p
  BY ConstantsAssumption DEF IsOrder, ToSet
<1>2. \A k \in 1..n : NameOrder[k] \in Packages
  BY ConstantsAssumption DEF IsOrder
<1>3. \A k, i \in 1..n : k # i => NameOrder[k] # NameOrder[i]
  <2>1. IsFiniteSet(Packages) /\ NameOrder \in Seq(Packages) /\ n = Cardinality(Packages)
    BY ConstantsAssumption DEF IsOrder
  <2>2. NameOrder \in Surjection(1..n, Packages)
    <3>1. NameOrder \in [1..n -> Packages]
      BY <2>1
    <3> HIDE DEF n
    <3> QED BY <1>1, <3>1 DEF Surjection
  <2>3. IsFiniteSet(1..n) /\ Cardinality(1..n) = n
    <3> HIDE DEF n
    <3>1. n \in Nat /\ 1 \in Int /\ n \in Int
      BY <1>1
    <3>2. IsFiniteSet(1..n) /\ Cardinality(1..n) = IF 1 > n THEN 0 ELSE n - 1 + 1
      BY <3>1, FS_Interval
    <3> QED BY <3>1, <3>2
  <2>4. NameOrder \in Injection(1..n, Packages)
    BY <2>1, <2>2, <2>3, FS_SurjSameCardinalityImpliesInj
  <2> QED BY <2>4 DEF Injection, IsInjective
<1>4. Fresh \in A
  BY FreshUnderway, FreshFacts
<1>5. ASSUME NEW c \in A, NEW p \in Packages PROVE WorkerNext(list, c, p) \in A
  BY EntryUnderway DEF Underway
<1>6. PICK e \in [0..n -> A] : AreMarkings(e, list) /\ WorkerMarks(list) = e[n]
  <2> HIDE DEF list, n, A
  <2> QED BY <1>4, <1>5, WorkerSteps DEF n
<1> DEFINE Good == {k \in 0..n : \A i \in 1..k : Done(list, e[k], NameOrder[i])}
<1>7. 0 \in Good
  BY <1>1
<1>8. ASSUME NEW k \in 0..(n - 1), k \in Good PROVE k + 1 \in Good
  <2>1. k \in 0..n /\ k + 1 \in 1..n /\ k + 1 \in 0..n /\ k \in Nat
    BY <1>1
  <2>2. e[k + 1] = WorkerNext(list, e[k], NameOrder[k + 1]) /\ e[k] \in A
    BY <1>6, <2>1 DEF AreMarkings
  <2>3. /\ Spares(e[k], e[k + 1], NameOrder[k + 1])
        /\ Done(list, e[k + 1], NameOrder[k + 1])
    BY <1>2, <2>1, <2>2, EntryUnderway
  <2>4. ASSUME NEW i \in 1..(k + 1) PROVE Done(list, e[k + 1], NameOrder[i])
    <3>1. CASE i = k + 1
      BY <2>3, <3>1
    <3>2. CASE i # k + 1
      <4>1. i \in 1..k /\ i \in 1..n
        BY <2>1, <3>2
      <4>2. Done(list, e[k], NameOrder[i])
        BY <1>8, <4>1
      <4>3. NameOrder[i] # NameOrder[k + 1] /\ NameOrder[i] \in Packages
        BY <1>2, <1>3, <2>1, <3>2, <4>1
      <4> HIDE DEF list
      <4> QED BY <2>3, <4>2, <4>3, DoneStays
    <3> QED BY <3>1, <3>2
  <2> QED BY <2>1, <2>4
<1>9. \A k \in 0..n : k \in Good
  <2> HIDE DEF Good
  <2> QED BY <1>1, <1>7, <1>8, AllNumbers
<1>10. \A i \in 1..n : Done(list, e[n], NameOrder[i])
  <2>1. n \in 0..n
    BY <1>1
  <2> QED BY <1>9, <2>1
<1>11. e[n] \in A
  BY <1>1, <1>6
<1> QED BY <1>1, <1>6, <1>10, <1>11

\* What the worker comes to is what is shown, but for automatic packages that nothing needs.
LEMMA CommitFacts ==
  ASSUME NEW d \in SoundCache, Upright(d), NEW h \in SUBSET Packages,
         \A q \in h : Shown(d, q) = "ToKeep", NEW p \in Packages
  PROVE  \/ Shown(WorkerMarks(CommitList(d, h)), p) = Shown(d, p)
         \/ Shown(d, p) = "NewInstall" /\ d[p].auto /\ p \notin Wanted(d)
<1> DEFINE list == CommitList(d, h)
           c == WorkerMarks(list)
<1>1. Underway(d, c) /\ \A q \in Packages : Done(list, c, q)
  BY WorkerFacts
<1>2. d \in Cache /\ \A q \in Packages : Sound(d, q)
  BY DEF SoundCache, AllSound
<1>3. \A q \in Packages :
        Shown(d, q) \in {"ToUpgrade", "ToReInstall", "ToRemove", "ToPurge"}
          \/ (Shown(d, q) = "NewInstall" /\ ~d[q].auto)
        => /\ q \in DOMAIN list
           /\ \/ list[q] = "ToInstall" /\ Shown(d, q) = "NewInstall"
              \/ list[q] = Shown(d, q) /\ Shown(d, q) # "NewInstall"
  <2> TAKE q \in Packages
  <2>1. /\ Shown(d, q) \in {"ToUpgrade", "ToReInstall", "ToRemove", "ToPurge"}
             \/ (Shown(d, q) = "NewInstall" /\ ~d[q].auto)
           => q \in DOMAIN list
        /\ q \in DOMAIN list =>
             \/ list[q] = "Held" /\ Shown(d, q) = "ToKeep"
             \/ list[q] = "ToInstall" /\ Shown(d, q) = "NewInstall" /\ ~d[q].auto
             \/ /\ list[q] = Shown(d, q)
                /\ Shown(d, q) \in {"ToUpgrade", "ToReInstall", "ToRemove", "ToPurge"}
    BY ListFacts
  <2> HIDE DEF list
  <2> QED BY <2>1
<1> HIDE DEF c, list
<1>4. c \in Cache /\ \A q \in Packages :
        c[q].mode \in {"keep", d[q].mode} /\ (c[q].reinstall => d[q].reinstall)
  BY <1>1 DEF Underway
<1>5. \A q \in Packages :
        /\ d[q].mode \in {"keep", "install", "delete"} /\ d[q].reinstall \in BOOLEAN
        /\ c[q].reinstall \in BOOLEAN /\ c[q].purge \in BOOLEAN /\ d[q].purge \in BOOLEAN
        /\ d[q].auto \in BOOLEAN
  BY <1>2, <1>4 DEF Marks
\* What the user installed and what that needs is marked.
<1>6. ASSUME NEW q \in Packages, Shown(d, q) = "NewInstall", ~d[q].auto PROVE c[q].mode = "install"
  <2>1. q \in DOMAIN list /\ list[q] = "ToInstall"
    BY <1>3, <1>6
  <2> QED BY <1>1, <2>1 DEF Done
<1>7. ASSUME NEW q \in Wanted(d), q \notin Installed PROVE c[q].mode = "install"
  <2> DEFINE T == Installed \cup {r \in Packages : r \notin Installed /\ c[r].mode = "install"}
  <2>1. T \in SUBSET Packages /\ q \in Packages
    BY ConstantsAssumption DEF Wanted, Reach
  <2>2. ASSUME NEW r \in Roots(d) PROVE r \in T
    <3>1. r \in Packages /\ Present(d, r) /\ (r \in Installed \/ ~d[r].auto)
      BY DEF Roots
    <3>2. CASE r \notin Installed
      <4>1. d[r].mode = "install" /\ ~d[r].reinstall
        BY <1>2, <3>1, <3>2 DEF Present, Sound
      <4>2. Shown(d, r) = "NewInstall"
        BY <1>2, <3>1, <3>2, <4>1, ShownFacts
      <4> QED BY <1>6, <3>1, <3>2, <4>2
    <3> QED BY <3>2
  <2>3. ASSUME NEW t \in T, NEW r \in Requires[t] PROVE r \in T
    <3>1. t \in Packages /\ r \in Packages
      BY <2>1, ConstantsAssumption
    <3>2. CASE t \in Installed
      BY <3>2, ConstantsAssumption
    <3>3. CASE t \notin Installed
      BY <1>1, <3>1, <3>3 DEF Underway
    <3> QED BY <3>2, <3>3
  <2>4. q \in T
    BY <2>1, <2>2, <2>3 DEF Wanted, Reach
  <2> QED BY <1>7, <2>4
<1>8. CASE d[p].reinstall
  <2>1. Shown(d, p) = "ToReInstall"
    BY <1>2, <1>8, ShownFacts
  <2>2. c[p].reinstall
    BY <1>1, <1>3, <2>1 DEF Done
  <2>3. Shown(c, p) = "ToReInstall"
    BY <1>4, <2>2, ShownFacts
  <2> QED BY <2>1, <2>3 DEF c, list
<1>9. CASE ~d[p].reinstall /\ d[p].mode = "install"
  <2>1. Shown(d, p) = IF p \in Installed THEN "ToUpgrade" ELSE "NewInstall"
    BY <1>2, <1>9, ShownFacts
  <2>2. ~c[p].reinstall
    BY <1>4, <1>9
  <2>3. c[p].mode = "install" => Shown(c, p) = Shown(d, p)
    BY <1>4, <2>1, <2>2, ShownFacts
  <2>4. CASE p \in Installed
    <3>1. p \in DOMAIN list /\ list[p] = "ToUpgrade"
      BY <1>3, <2>1, <2>4
    <3>2. c[p].mode = "install"
      BY <1>1, <3>1 DEF Done
    <3> QED BY <2>3, <3>2 DEF c, list
  <2>5. CASE p \notin Installed
    <3>1. ~d[p].auto => c[p].mode = "install"
      BY <1>6, <2>1, <2>5
    <3>2. p \in Wanted(d) => c[p].mode = "install"
      BY <1>7, <2>5
    <3> QED BY <2>1, <2>3, <2>5, <3>1, <3>2 DEF c, list
  <2> QED BY <2>4, <2>5
<1>10. CASE ~d[p].reinstall /\ d[p].mode = "delete"
  <2>1. Shown(d, p) = IF d[p].purge THEN "ToPurge" ELSE "ToRemove"
    BY <1>2, <1>10, ShownFacts
  <2>2. p \in DOMAIN list /\ list[p] = Shown(d, p)
    BY <1>3, <2>1
  <2>3. c[p].mode = "delete" /\ c[p].purge = (list[p] = "ToPurge")
    BY <1>1, <2>1, <2>2 DEF Done
  <2>4. ~c[p].reinstall
    BY <1>4, <1>10
  <2>5. Shown(c, p) = IF c[p].purge THEN "ToPurge" ELSE "ToRemove"
    BY <1>4, <2>3, <2>4, ShownFacts
  <2>6. Shown(c, p) = Shown(d, p)
    BY <1>5, <2>1, <2>2, <2>3, <2>5
  <2> QED BY <2>6 DEF c, list
<1>11. CASE ~d[p].reinstall /\ d[p].mode = "keep"
  <2>1. Shown(d, p) = "ToKeep"
    BY <1>2, <1>11, ShownFacts
  <2>2. c[p].mode = "keep" /\ ~c[p].reinstall
    BY <1>4, <1>11
  <2>3. Shown(c, p) = "ToKeep"
    BY <1>4, <2>2, ShownFacts
  <2> QED BY <2>1, <2>3 DEF c, list
<1> QED BY <1>5, <1>8, <1>9, <1>10, <1>11

\* Whatever was marked, in whatever order, for any packages and requirements: the worker
\* comes to the marks that the user sees.
THEOREM CommitAlwaysDoesWhatIsShown == MarkSpec => []CommitDoesWhatIsShown
<1>1. MarksInv => CommitDoesWhatIsShown
  <2> SUFFICES ASSUME MarksInv, \A p \in held : Shown(dep, p) = "ToKeep",
                      \A p \in Broken(dep) : LeftOver(p), NEW p \in Packages
               PROVE  LeftOver(p) \/ Shown(WorkerMarks(CommitList(dep, held)), p) = Shown(dep, p)
    BY DEF CommitDoesWhatIsShown
  <2>1. dep \in SoundCache /\ held \in SUBSET Packages
    BY DEF MarksInv, MarkTypeOK, SoundCache
  <2>2. Wanted(dep) = Reach({q \in Packages : Present(dep, q) /\ (q \in Installed \/ ~dep[q].auto)}, Requires)
    BY DEF Wanted, Roots
  <2>3. \A q : LeftOver(q) <=> Shown(dep, q) = "NewInstall" /\ dep[q].auto /\ q \notin Wanted(dep)
    BY <2>2 DEF LeftOver
  <2>4. Upright(dep)
    BY <2>3 DEF Upright
  <2> QED BY <2>1, <2>3, <2>4, CommitFacts
<1> QED BY MarkInitInv, MarkNextInv, <1>1, PTL DEF MarkSpec

=============================================================================
