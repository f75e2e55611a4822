----------------------------- MODULE UndoHistory -----------------------------
(***************************************************************************)
(* The undo and redo stacks of QApt::Backend (src/backend.cpp), over the   *)
(* marks of PackageMarks.                                                  *)
(*                                                                         *)
(* Applications call saveCacheState() before they mark packages, and the   *)
(* slots undo(), redo() and restoreCacheState() at any time.               *)
(***************************************************************************)
EXTENDS Naturals, PackageMarks

CONSTANTS
  Sizes,    \* sizes an application may ask for
  None      \* no state

ASSUME SizesAssumption == Sizes \subseteq Nat

VARIABLES
  undoStack, redoStack, maxStackSize,
  \* history
  limit,         \* the largest size in use since the cache was loaded
  garbled,       \* a redo has been called while there was something to undo, or
                 \* a state saved that cannot be restored
  before         \* the state before the last call, if that was a redo

stackVars == <<undoStack, redoStack>>
vars == <<markVars, stackVars, maxStackSize, limit, garbled, before>>

CurrentState == CacheState(dep, held)

\* What a state says will be there, and whether that is all that it needs.
Stays(state, p) ==
  IF p \in Installed THEN state[p].mark \notin {"ToRemove", "ToPurge"}
                     ELSE state[p].mark = "NewInstall"

Coherent(state) ==
  \A p \in Packages : Stays(state, p) => \A r \in Requires[p] : Stays(state, r)

Saved == [mark : {"ToKeep", "NewInstall", "ToUpgrade", "ToReInstall", "ToRemove", "ToPurge"},
          install : BOOLEAN, auto : BOOLEAN, held : BOOLEAN]

TypeOK ==
  /\ MarkTypeOK
  /\ undoStack \in Seq([Packages -> Saved]) /\ redoStack \in Seq([Packages -> Saved])
  /\ maxStackSize \in Sizes /\ limit \in Sizes
  /\ garbled \in BOOLEAN
  /\ before \in [Packages -> Saved] \cup {None}

Init ==
  /\ MarkInit
  /\ undoStack = <<>> /\ redoStack = <<>>
  /\ maxStackSize \in Sizes /\ limit = maxStackSize
  /\ garbled = FALSE /\ before = None

-----------------------------------------------------------------------------
Push(s, stack) == <<s>> \o stack

\* The states that do not fit are removed, the oldest first.
Trimmed(stack) ==
  IF Len(stack) > maxStackSize THEN SubSeq(stack, 1, maxStackSize) ELSE stack

\* d->state keeps IsManuallyHeld, whatever is restored.
RestoreCacheState(state) ==
  /\ dep' = Restored(state, dep, held)
  /\ UNCHANGED held

\* An application marks packages.
MarkPackagesNow ==
  /\ Marking
  /\ before' = None
  /\ UNCHANGED <<stackVars, maxStackSize, limit, garbled>>

\* Mutant: what was undone remains on the redo stack.
SaveKeepingRedo ==
  /\ undoStack' = Trimmed(Push(CurrentState, undoStack))
  /\ garbled' = (garbled \/ ~Coherent(CurrentState))
  /\ before' = None
  /\ UNCHANGED <<markVars, redoStack, maxStackSize, limit>>

SaveCacheState ==
  /\ undoStack' = Trimmed(Push(CurrentState, undoStack))
  /\ redoStack' = <<>>
  /\ garbled' = (garbled \/ ~Coherent(CurrentState))
  /\ before' = None
  /\ UNCHANGED <<markVars, maxStackSize, limit>>

\* Mutant: the current state is not put on the redo stack.
UndoForgetting ==
  /\ undoStack # <<>>
  /\ RestoreCacheState(Head(undoStack))
  /\ undoStack' = Tail(undoStack)
  /\ garbled' = (garbled \/ ~Coherent(CurrentState))
  /\ before' = None
  /\ UNCHANGED <<redoStack, maxStackSize, limit>>

Undo ==
  /\ undoStack # <<>>
  /\ redoStack' = Push(CurrentState, redoStack)
  /\ RestoreCacheState(Head(undoStack))
  /\ undoStack' = Tail(undoStack)
  /\ garbled' = (garbled \/ ~Coherent(CurrentState))
  /\ before' = None
  /\ UNCHANGED <<maxStackSize, limit>>

\* redo, which puts the current state at the end of the undo stack.
Redo ==
  /\ redoStack # <<>>
  /\ undoStack' = Append(undoStack, CurrentState)
  /\ RestoreCacheState(Head(redoStack))
  /\ redoStack' = Tail(redoStack)
  /\ garbled' = (garbled \/ undoStack # <<>> \/ ~Coherent(CurrentState))
  /\ before' = CurrentState
  /\ UNCHANGED <<maxStackSize, limit>>

\* An application restores the state it remembers from when the cache was loaded.
RestoreLoaded ==
  /\ RestoreCacheState(CacheState(Fresh, {}))
  /\ before' = None
  /\ UNCHANGED <<stackVars, maxStackSize, limit, garbled>>

SetUndoRedoCacheSize(n) ==
  /\ maxStackSize' = n
  /\ limit' = IF n > limit THEN n ELSE limit
  /\ before' = None
  /\ UNCHANGED <<markVars, stackVars, garbled>>

\* reloadCache: the packages are created anew, and nothing is marked.
ReloadCache ==
  /\ dep' = Fresh /\ held' = {}
  /\ undoStack' = <<>> /\ redoStack' = <<>>
  /\ limit' = maxStackSize
  /\ garbled' = FALSE /\ before' = None
  /\ UNCHANGED maxStackSize

Next ==
  \/ MarkPackagesNow \/ RestoreLoaded
  \/ SaveCacheState \/ Undo \/ Redo \/ ReloadCache
  \/ \E n \in Sizes : SetUndoRedoCacheSize(n)

Spec == Init /\ [][Next]_vars

-----------------------------------------------------------------------------
(* Properties *)

\* The two stacks together never hold more states than the largest size in
\* use ("the maximum size of the undo and redo stacks", backend.h:533),
\* although only saveCacheState removes what does not fit.
StacksBounded == Len(undoStack) + Len(redoStack) <= limit

\* What is to be restored of a state: IsManuallyHeld is not.
Intent(state) == [p \in Packages |-> <<state[p].mark, state[p].auto>>]

\* Until a redo is called while there is something to undo, the stacks hold the
\* states before and after the current one, in order, and undo and redo bring
\* back exactly the marks that were saved: they are moves in a history.  Only a
\* state that lacks what it needs may be restored as another one: restoring what
\* needs a package brings that back if it has been removed before.
Line ==
  [i \in 1..(Len(undoStack) + 1 + Len(redoStack)) |->
     Intent(IF i <= Len(undoStack) THEN undoStack[Len(undoStack) + 1 - i]
            ELSE IF i = Len(undoStack) + 1 THEN CurrentState
            ELSE redoStack[i - Len(undoStack) - 1])]

Intents == [Packages -> {"ToKeep", "NewInstall", "ToUpgrade", "ToReInstall",
                         "ToRemove", "ToPurge"} \X BOOLEAN]

History == INSTANCE Timeline WITH
  States <- Intents,
  Restorable <- {n \in Intents : Coherent([p \in Packages |-> [mark |-> n[p][1]]])},
  states <- IF garbled THEN <<>> ELSE Line,
  here   <- IF garbled THEN 0 ELSE Len(undoStack) + 1

ImplementsTimeline == History!Spec

\* Moving through the history to a state with all that it needs forgets no state,
\* in whatever order the stacks are: each is still current or on one of them.
Known == {Intent(s) : s \in {CurrentState} \cup ToSet(undoStack) \cup ToSet(redoStack)}

MovesForgetNothing ==
  [][(Undo /\ Coherent(Head(undoStack))) \/ (Redo /\ Coherent(Head(redoStack)))
       => Known' = Known]_vars

\* An undo that follows a redo reverts it ("Un-performs the last action
\* performed to the package cache", backend.h:555).
UndoRevertsRedo ==
  [][Undo /\ before # None => Intent(CurrentState)' = Intent(before)]_vars
=============================================================================
