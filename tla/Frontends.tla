----------------------------- MODULE Frontends -----------------------------
(***************************************************************************)
(* The three programs that run transactions for a user: qapt-batch         *)
(* (QAptBatch), qapt-gst-helper (PluginHelper) and qapt-deb-installer      *)
(* (DebInstaller with its DebCommitWidget).  One behaviour is the life of  *)
(* one of them.                                                            *)
(*                                                                         *)
(* Each is a single-threaded Qt program: slots run one after the other     *)
(* when a QApt::Transaction emits a signal (in the order that SignalStream *)
(* promises), but a message box inside a slot runs an event loop of its    *)
(* own, so that further signals are handled before the slot goes on.       *)
(* What is left to do after each open box is kept on a stack.              *)
(***************************************************************************)
EXTENDS SequencesExt

CONSTANTS
  Tools,      \* the programs considered, out of AllTools
  Plugins,    \* how many plugins qapt-gst-helper is asked for
  AutoReset,  \* whether the progress dialog resets itself at its maximum
  MaxObjects, \* bound: transaction objects of one program
  MaxPrompts  \* bound: prompts for one transaction

AllTools == {"batch", "gst", "deb"}

ASSUME ConstantsAssumption ==
  /\ Tools \subseteq AllTools
  /\ Plugins \in Nat \ {0}
  /\ AutoReset \subseteq BOOLEAN
  /\ MaxObjects \in Nat \ {0} /\ MaxPrompts \in Nat

VARIABLES
  \* the program
  tool,       \* which one it is
  ended,      \* the process is gone
  code,       \* the exit code that its event loop is to return, or "none"
  quitting,   \* QCoreApplication::exit was called: no event loop goes on
  visible,    \* the main window was not closed
  mTrans,     \* m_trans, an index into objects; 0 is nullptr
  done,       \* m_done
  apply,      \* Apply button of the installer
  needs,      \* the .deb file needs packages that are to be installed first
  left, found, partial, resets,   \* search of the helper (m_partialFound)
  \* its transaction objects, and how far their transactions are
  objects,
  \* its call stack
  now,        \* the emission in progress: sender and signals still to come
  stack,      \* slots that wait for a message box
  \* history
  fault,      \* a transaction object used that is missing
  overtaken   \* a transaction ended while one of its prompts was open

searchVars  == <<left, found, partial, resets>>
programVars == <<tool, needs, ended, code, quitting, visible, mTrans, done, apply>>
vars == <<programVars, searchVars, objects, now, stack, fault, overtaken>>

JobErrors == {"InitError", "FetchError", "CommitError"}
Errors    == JobErrors \cup {"Success", "AuthError", "WorkerDisappeared"}
Exits     == {"Unfinished", "Success", "Cancelled", "Failed"}
Prompts   == {"medium", "untrusted"}
Signals   == (Errors \ {"Success"}) \cup Prompts \cup {"Finished", "exit"}

\* What a slot does once its message box is closed.
Continuations == {"provideMedium", "replyUntrusted", "close", "quit", "fail",
                  "offer", "search", "nothing"}

Codes == {"none", "0", "1", "noPlugins", "randomError", "partialSuccess", "cancel", "crash"}

Quiet == [sender |-> 0, signals |-> <<>>]

TypeOK ==
  /\ tool \in Tools /\ needs \in BOOLEAN
  /\ ended \in BOOLEAN /\ quitting \in BOOLEAN /\ visible \in BOOLEAN
  /\ code \in Codes
  /\ Len(objects) <= MaxObjects /\ mTrans \in 0..Len(objects)
  /\ done \in BOOLEAN /\ apply \in {"enabled", "disabled", "removed"}
  /\ left \in 0..Plugins /\ found \in 0..Plugins /\ partial \in BOOLEAN /\ resets \in BOOLEAN
  /\ \A i \in DOMAIN objects : objects[i] \in
       [role : {"CommitChanges", "InstallFile"},
        stage : {"running", "stuck", "ended", "over"},
        object : {"alive", "doomed", "deleted"}, level : Nat,
        error : Errors, exit : Exits, paused : BOOLEAN, prompts : 0..MaxPrompts,
        denied : BOOLEAN]
  /\ now.sender \in 0..Len(objects) /\ \A i \in DOMAIN now.signals : now.signals[i] \in Signals
  /\ \A i \in DOMAIN stack : /\ stack[i].cont \in Continuations
                             /\ stack[i].rest.sender \in 0..Len(objects)
  /\ fault \in {"none", "null", "dangling"} /\ overtaken \in BOOLEAN

NewObject(role) ==
  [role |-> role, stage |-> "running", object |-> "alive", level |-> 0, error |-> "Success",
   exit |-> "Unfinished", paused |-> FALSE, prompts |-> 0, denied |-> FALSE]

\* The batch program runs its transaction when it starts; the helper first asks
\* whether it may search; the installer waits for its Apply button.
Init ==
  /\ tool \in Tools /\ needs \in IF tool = "deb" THEN BOOLEAN ELSE {FALSE}
  /\ ended = FALSE /\ code = "none" /\ quitting = FALSE /\ visible = TRUE
  /\ objects = IF tool = "batch" THEN <<NewObject("CommitChanges")>> ELSE <<>>
  /\ mTrans = Len(objects)
  /\ done = FALSE /\ apply = IF tool = "deb" THEN "enabled" ELSE "removed"
  /\ left = Plugins /\ found = 0 /\ partial = FALSE
  /\ resets \in IF tool = "gst" THEN AutoReset ELSE {FALSE}
  /\ now = Quiet
  /\ stack = IF tool = "gst" THEN <<[cont |-> "search", rest |-> Quiet]>> ELSE <<>>
  /\ fault = "none" /\ overtaken = FALSE

-----------------------------------------------------------------------------
(* Event loop *)

\* An event loop runs: the main one, or that of the topmost message box.
LoopRuns ==
  /\ ~ended /\ ~quitting /\ now.signals = <<>>
  /\ code = "none" \/ stack # <<>>

\* The main window takes input, no box being open.
WindowActive == LoopRuns /\ stack = <<>> /\ visible /\ code = "none"

Alive(i) == objects[i].object # "deleted"

\* The rest of the emission in progress.
Rest == [now EXCEPT !.signals = Tail(now.signals)]

\* A slot opens a message box and goes on with cont when it is closed.
Open(cont) ==
  /\ stack' = Append(stack, [cont |-> cont, rest |-> Rest])
  /\ now' = Quiet
  /\ UNCHANGED <<programVars, objects, fault, overtaken>>

\* A slot returns.
Return == now' = Rest /\ UNCHANGED stack

\* A missing object is used: the process crashes.
Crash(how) ==
  /\ fault' = how /\ ended' = TRUE /\ code' = "crash"
  /\ UNCHANGED <<tool, needs, quitting, visible, mTrans, done, apply, objects,
                 now, stack, overtaken>>

\* m_trans->errorDetails() and the like come first.
WithTrans(Slot) == IF mTrans = 0 THEN Crash("null") ELSE Slot

\* deleteLater() takes effect in the event loop of the same level.
DeferredDelete ==
  /\ LoopRuns
  /\ \E i \in DOMAIN objects :
       /\ objects[i].object = "doomed" /\ Len(stack) <= objects[i].level
       /\ objects' = [objects EXCEPT ![i].object = "deleted"]
  /\ UNCHANGED <<programVars, searchVars, now, stack, fault, overtaken>>

\* exec() returns when no box is open any more.
ExecReturns ==
  /\ ~ended /\ code # "none" /\ stack = <<>> /\ now.signals = <<>>
  /\ ended' = TRUE
  /\ UNCHANGED <<tool, needs, code, quitting, visible, mTrans, done, apply,
                 searchVars, objects, now, stack, fault, overtaken>>

-----------------------------------------------------------------------------
(* The transactions: what SignalStream lets their objects emit *)

\* Transaction i goes on as r and its object emits signals.
Emit(i, r, signals) ==
  /\ LoopRuns
  /\ Alive(i)
  /\ objects' = [objects EXCEPT ![i] = r]
  /\ now' = IF signals = <<>> THEN now ELSE [sender |-> i, signals |-> signals]
  /\ UNCHANGED <<programVars, searchVars, stack, fault, overtaken>>

\* The worker asks those who can answer (no such capability in the installer).
Prompt(i) ==
  LET o == objects[i] IN
    /\ o.stage = "running" /\ ~o.paused /\ o.prompts < MaxPrompts /\ tool # "deb"
    /\ \E k \in Prompts :
         Emit(i, [o EXCEPT !.paused = TRUE, !.prompts = @ + 1], <<k>>)

\* Another client cancels it, or answers.
OthersAct(i) == objects[i].paused /\ Emit(i, [objects[i] EXCEPT !.paused = FALSE], <<>>)

JobError(i) ==
  LET o == objects[i] IN
    /\ o.stage = "running" /\ ~o.paused /\ o.error = "Success"
    /\ \E e \in JobErrors : Emit(i, [o EXCEPT !.error = e], <<e>>)

\* run() is refused, and the transaction goes no further.
Refused(i) ==
  LET o == objects[i] IN
    /\ o.stage = "running" /\ o.error = "Success" /\ o.prompts = 0
    /\ Emit(i, [o EXCEPT !.stage = "stuck", !.error = "AuthError", !.denied = TRUE],
            <<"AuthError">>)

\* A call gets no reply, which looks the same.
NoReply(i) ==
  LET o == objects[i] IN
    /\ o.stage \in {"running", "over"} /\ ~o.denied
    /\ Emit(i, [o EXCEPT !.error = "AuthError", !.denied = TRUE], <<"AuthError">>)

Ends(i) ==
  LET o == objects[i] IN
    /\ o.stage = "running" /\ ~o.paused
    /\ \E x \in Exits \ {"Unfinished"} :
         /\ o.error \in JobErrors => x # "Success"
         /\ Emit(i, [o EXCEPT !.stage = "ended", !.exit = x], <<>>)

LastStatus(i) ==
  /\ objects[i].stage = "ended"
  /\ Emit(i, [objects[i] EXCEPT !.stage = "over"], <<"Finished">>)

\* The worker disappears: the exit status is set last.
Disappears(i) ==
  LET o == objects[i] IN
    /\ o.stage \in {"running", "stuck"}
    /\ Emit(i, [o EXCEPT !.stage = "over", !.error = "WorkerDisappeared", !.paused = FALSE],
            <<"WorkerDisappeared", "Finished", "exit">>)

Event ==
  \E i \in DOMAIN objects :
    \/ Prompt(i) \/ OthersAct(i) \/ JobError(i) \/ Refused(i) \/ NoReply(i)
    \/ Ends(i) \/ LastStatus(i) \/ Disappears(i)

-----------------------------------------------------------------------------
(* Leaving *)

\* QCoreApplication::exit: all event loops, those of message boxes too, return.
ExitLoops(c) == code' = c /\ quitting' = TRUE

\* close(), which reaches QAptBatch::reject: accept when all is done, otherwise
\* reject, whose signal cancels the transaction.
Close ==
  IF visible
    THEN visible' = FALSE /\ code' = IF done THEN "0" ELSE "1"
    ELSE UNCHANGED <<visible, code>>

\* PluginHelper::reject.  exit() ends the process at once.
RejectHelper ==
  IF done
    THEN ExitLoops("0") /\ UNCHANGED ended
    ELSE /\ code' = IF partial THEN "partialSuccess" ELSE "cancel"
         /\ ended' = TRUE
         /\ UNCHANGED quitting

\* The user closes the main window.
UserCloses ==
  /\ WindowActive
  /\ \/ tool = "batch" /\ Close /\ UNCHANGED <<quitting, ended>>
     \/ tool = "gst" /\ RejectHelper /\ UNCHANGED visible
     \/ tool = "deb" /\ code' = "1" /\ visible' = FALSE /\ UNCHANGED <<quitting, ended>>
  /\ UNCHANGED <<tool, needs, mTrans, done, apply, searchVars, objects, now,
                 stack, fault, overtaken>>

-----------------------------------------------------------------------------
(* Slots: what all programs share *)

Keep == UNCHANGED <<objects, mTrans, done>>
Stay == UNCHANGED <<tool, needs, ended, code, quitting, visible, apply, fault>>

PromptOpen == \E i \in DOMAIN stack : stack[i].cont \in {"provideMedium", "replyUntrusted"}

\* Mutant: the object is deleted at once.
DropTransNow ==
  /\ objects' = [objects EXCEPT ![mTrans].object = "deleted"]
  /\ mTrans' = 0

\* m_trans->deleteLater(); m_trans = 0;
DropTrans ==
  /\ objects' = [objects EXCEPT ![mTrans].object = "doomed", ![mTrans].level = Len(stack)]
  /\ mTrans' = 0

-----------------------------------------------------------------------------
(* Slots: qapt-batch *)

\* transactionStatusChanged(FinishedStatus)
BatchFinished ==
  WithTrans(/\ done' = TRUE
            /\ DropTrans
            /\ overtaken' = (overtaken \/ PromptOpen)
            /\ Return /\ Stay)

\* errorOccurred, provideMedium, untrustedPrompt up to their message boxes.
BatchSlot(s) ==
  CASE s = "medium"      -> Open("provideMedium")
    [] s = "untrusted"   -> Open("replyUntrusted")
    [] s = "InitError"   -> WithTrans(Open("quit"))
    [] s = "CommitError" -> WithTrans(Open("nothing"))
    [] s \in {"FetchError", "AuthError", "WorkerDisappeared"} -> Open("close")
    [] s = "Finished"    -> BatchFinished
    [] s = "exit"        -> Return /\ Keep /\ Stay /\ UNCHANGED overtaken

-----------------------------------------------------------------------------
(* Slots: qapt-gst-helper *)

\* Mutant: whatever happened, the helper is done.
GstFinishedAlways ==
  WithTrans(/\ done' = TRUE
            /\ DropTrans
            /\ overtaken' = (overtaken \/ PromptOpen)
            /\ Return /\ Stay)

\* transactionStatusChanged(FinishedStatus)
GstFinished ==
  WithTrans(
    IF objects[mTrans].exit = "Cancelled"
      THEN /\ ExitLoops("cancel")
           /\ Return /\ Keep
           /\ UNCHANGED <<tool, needs, ended, visible, apply, fault, overtaken>>
      ELSE /\ done' = (objects[mTrans].exit = "Success")
           /\ DropTrans
           /\ overtaken' = (overtaken \/ PromptOpen)
           /\ Return /\ Stay)

\* transactionErrorOccurred, provideMedium, untrustedPrompt.
GstSlot(s) ==
  CASE s = "medium"      -> Open("provideMedium")
    [] s = "untrusted"   -> Open("replyUntrusted")
    [] s \in JobErrors   -> WithTrans(Open("fail"))
    [] s \in {"AuthError", "WorkerDisappeared"} -> Open("fail")
    [] s = "Finished"    -> GstFinished
    [] s = "exit"        -> Return /\ Keep /\ Stay /\ UNCHANGED overtaken

\* PluginFinder tells of one plugin, and incrementProgress counts it: at the
\* maximum, packages are offered.  A dialog that has reset itself is hidden and
\* no longer at its maximum.
FinderReports ==
  /\ tool = "gst" /\ LoopRuns /\ stack = <<>> /\ left > 0
  /\ left' = left - 1
  /\ \/ found' = found + 1 /\ UNCHANGED partial
     \/ partial' = TRUE /\ UNCHANGED found
  /\ IF left' > 0
       THEN UNCHANGED <<stack, ended, code, visible>>
       ELSE IF resets
         THEN visible' = FALSE /\ UNCHANGED <<stack, ended, code>>
         ELSE \/ /\ ended' = TRUE /\ code' = "noPlugins"   \* also if none can be marked
                 /\ UNCHANGED <<stack, visible>>
              \/ /\ found' > 0
                 /\ stack' = <<[cont |-> "offer", rest |-> Quiet]>>
                 /\ UNCHANGED <<ended, code, visible>>
  /\ UNCHANGED <<tool, needs, quitting, mTrans, done, apply, resets, objects, now,
                 fault, overtaken>>

-----------------------------------------------------------------------------
(* Slots: qapt-deb-installer *)

\* Room for the objects that an Apply leads to (a bound).
Room == Len(objects) + (IF needs THEN 2 ELSE 1) <= MaxObjects

\* A transaction is created, set up and run.
RunNew(objs, role) ==
  /\ objects' = Append(objs, NewObject(role))
  /\ mTrans' = Len(objs) + 1

\* installDebFile: first the packages that satisfyDepends marked, if any.
InstallDebFile ==
  /\ tool = "deb" /\ WindowActive /\ apply = "enabled" /\ Room
  /\ apply' = "disabled"
  /\ RunNew(objects, IF needs THEN "CommitChanges" ELSE "InstallFile")
  /\ UNCHANGED <<tool, needs, ended, code, quitting, visible, done, searchVars, now,
                 stack, fault, overtaken>>

\* transactionStatusChanged(FinishedStatus) looks at m_trans, whoever sent the
\* signal: after a commit, however it ended, the object is deleted and the .deb
\* file is installed.
DebFinished ==
  IF ~Alive(mTrans)
    THEN Crash("dangling")
    ELSE /\ IF objects[mTrans].role = "CommitChanges"
              THEN /\ RunNew([objects EXCEPT ![mTrans].object = "deleted"], "InstallFile")
                   /\ UNCHANGED apply
              ELSE apply' = "removed" /\ UNCHANGED <<objects, mTrans>>
         /\ Return
         /\ UNCHANGED <<tool, needs, ended, code, quitting, visible, done, fault, overtaken>>

\* Mutant: the installer gives its transaction up at an error.
DebSlotGivesUp(s) ==
  CASE s = "InitError" ->
         /\ objects' = [objects EXCEPT ![mTrans].object = "deleted"]
         /\ Return /\ Stay /\ UNCHANGED <<mTrans, done, overtaken>>
    [] s = "Finished"  -> DebFinished
    [] OTHER           -> Return /\ Keep /\ Stay /\ UNCHANGED overtaken

\* errorOccurred of DebCommitWidget, then of DebInstaller.
DebSlot(s) ==
  CASE s = "InitError" -> Open("nothing")
    [] s = "AuthError" ->
         /\ apply' = IF apply = "removed" THEN apply ELSE "enabled"
         /\ Return /\ Keep
         /\ UNCHANGED <<tool, needs, ended, code, quitting, visible, fault, overtaken>>
    [] s = "Finished"  -> DebFinished
    [] OTHER           -> Return /\ Keep /\ Stay /\ UNCHANGED overtaken

-----------------------------------------------------------------------------
(* The next signal of the emission in progress reaches its slot.  Between two *)
(* signals of a disappearance the object is used itself.                      *)
Dispatch ==
  /\ ~ended /\ now.signals # <<>>
  /\ IF ~Alive(now.sender)
       THEN Crash("dangling")
       ELSE \/ tool = "batch" /\ BatchSlot(Head(now.signals))
            \/ tool = "gst" /\ GstSlot(Head(now.signals))
            \/ tool = "deb" /\ DebSlot(Head(now.signals))
  /\ UNCHANGED searchVars

-----------------------------------------------------------------------------
(* Message boxes are closed, and their slots go on *)

Answered == objects' = [objects EXCEPT ![mTrans].paused = FALSE]

\* Mutant: only a refusal is sent.
ReplyRefusal(yes) ==
  /\ IF yes THEN UNCHANGED objects ELSE Answered
  /\ IF yes
       THEN UNCHANGED <<visible, code, quitting>>
       ELSE \/ tool = "batch" /\ Close /\ UNCHANGED quitting
            \/ tool = "gst" /\ ExitLoops("cancel") /\ UNCHANGED visible

\* replyUntrustedPrompt; who does not approve leaves, too.
Reply(yes) ==
  /\ Answered
  /\ IF yes
       THEN UNCHANGED <<visible, code, quitting>>
       ELSE \/ tool = "batch" /\ Close /\ UNCHANGED quitting
            \/ tool = "gst" /\ ExitLoops("cancel") /\ UNCHANGED visible

Continue(cont) ==
  \/ /\ cont = "provideMedium" /\ mTrans # 0
     /\ Answered
     /\ UNCHANGED <<ended, code, quitting, visible, mTrans, fault>>
  \/ /\ cont = "replyUntrusted" /\ mTrans # 0
     /\ \E yes \in IF quitting THEN {FALSE} ELSE BOOLEAN : Reply(yes)
     /\ UNCHANGED <<ended, mTrans, fault>>
  \/ /\ cont \in {"provideMedium", "replyUntrusted"} /\ mTrans = 0
     /\ fault' = "null" /\ ended' = TRUE /\ code' = "crash"
     /\ UNCHANGED <<quitting, visible, mTrans, objects>>
  \/ /\ cont = "close" /\ Close
     /\ UNCHANGED <<ended, quitting, mTrans, objects, fault>>
  \/ /\ cont = "quit" /\ ExitLoops("1")
     /\ UNCHANGED <<ended, visible, mTrans, objects, fault>>
  \/ /\ cont = "fail" /\ ExitLoops("randomError")
     /\ UNCHANGED <<ended, visible, mTrans, objects, fault>>
  \/ /\ cont = "offer" /\ ~quitting
     /\ RunNew(objects, "CommitChanges")
     /\ UNCHANGED <<ended, code, quitting, visible, fault>>
  \/ /\ cont = "offer" /\ ExitLoops("cancel")
     /\ UNCHANGED <<ended, visible, mTrans, objects, fault>>
  \/ /\ cont = "search" /\ RejectHelper
     /\ UNCHANGED <<visible, mTrans, objects, fault>>
  \/ /\ cont \in {"search", "nothing"}
     /\ UNCHANGED <<ended, code, quitting, visible, mTrans, objects, fault>>

\* The user closes the topmost box, or the event loops are told to return.
CloseBox ==
  /\ ~ended /\ now.signals = <<>> /\ stack # <<>>
  /\ Continue(Last(stack).cont)
  /\ stack' = Front(stack) /\ now' = Last(stack).rest
  /\ UNCHANGED <<tool, needs, done, apply, searchVars, overtaken>>

-----------------------------------------------------------------------------
Next ==
  \/ Event \/ Dispatch \/ DeferredDelete \/ CloseBox \/ ExecReturns
  \/ UserCloses \/ FinderReports \/ InstallDebFile

Spec == Init /\ [][Next]_vars

\* The program does not stop inside a slot, and users close message boxes.
FairSpec == Spec /\ WF_vars(Dispatch) /\ WF_vars(CloseBox) /\ WF_vars(ExecReturns)

-----------------------------------------------------------------------------
(* Properties *)

\* A transaction object is used that is missing only where qapt-batch or the
\* helper answer a prompt of a transaction that ended while the box was open, or
\* where the worker disappears under the installer's commit (which deletes the
\* object that is still emitting).
FaultsExplained ==
  /\ fault = "null" => tool \in {"batch", "gst"} /\ overtaken
  /\ fault = "dangling" =>
       /\ tool = "deb" /\ needs
       /\ \E i \in DOMAIN objects : objects[i].error = "WorkerDisappeared"

\* The installer deletes the object of a transaction only after that one's last status,
\* unless it was once told that one was not authorized: then m_trans may be
\* another transaction than the one whose signal the slot handles.
DeletesTheFinished ==
  (\A i \in DOMAIN objects : ~objects[i].denied) =>
    \A i \in DOMAIN objects : objects[i].object # "alive" => objects[i].stage = "over"

\* The codes with which qapt-gst-helper ends tell the truth: success only after a
\* successful transaction, no plugins only if the search is over and nothing was
\* begun, partial success only if a plugin was missing.
ExitCodeHonest ==
  tool = "gst" =>
    /\ code = "0" => \E i \in DOMAIN objects : objects[i].exit = "Success"
    /\ code = "noPlugins" => left = 0 /\ objects = <<>>
    /\ code = "partialSuccess" => found < Plugins - left

\* Every prompt is answered, if the transaction does not end otherwise and the
\* program does not leave, however many boxes are opened on top of it.
PromptsAreAnswered ==
  \A i \in 1..MaxObjects :
    (i \in DOMAIN objects /\ objects[i].paused)
      ~> ended \/ (i \in DOMAIN objects /\ ~objects[i].paused)

\* DebInstaller.cpp:141: "Dependencies installed, now go for the deb file".
DebAfterDependencies ==
  tool = "deb" /\ needs =>
    \A i \in DOMAIN objects :
      objects[i].role = "InstallFile" =>
        \E j \in 1..(i - 1) : objects[j].role = "CommitChanges" /\ objects[j].exit = "Success"
=============================================================================
