-------------------------- MODULE FrontendsProofs --------------------------
(***************************************************************************)
(* Proofs about Frontends, for any transactions, errors and choices of the *)
(* user.                                                                   *)
(*                                                                         *)
(* The three properties follow from one invariant: it says of each         *)
(* frontend, from the part it has come to, which transaction it holds,     *)
(* which signals can still reach it, and what it must have been told.      *)
(***************************************************************************)
EXTENDS Frontends, SequenceTheorems, TLAPS

\* Emissions: the signals of a disappearance, those behind the first, and single ones.
Whole   == <<"WorkerDisappeared", "Finished", "exit">>
Half    == <<"Finished", "exit">>
Shapes  == {<<>>, Whole, Half} \cup {<<s>> : s \in Signals}

Object ==
  [role : {"CommitChanges", "InstallFile"}, stage : {"running", "stuck", "ended", "over"},
   object : {"alive", "doomed", "deleted"}, level : Nat, error : Errors, exit : Exits,
   paused : BOOLEAN, prompts : Nat, denied : BOOLEAN]
Emission == [sender : Nat, signals : Shapes]
Frame    == [cont : Continuations, rest : Emission]

TypeInv ==
  /\ tool \in AllTools /\ needs \in BOOLEAN
  /\ objects \in Seq(Object) /\ mTrans \in 0..Len(objects)
  /\ now \in Emission /\ stack \in Seq(Frame)
  /\ left \in Nat /\ found \in Nat /\ partial \in BOOLEAN
  /\ overtaken \in BOOLEAN /\ done \in BOOLEAN

\* An emission that still has the last status to tell.
Telling(signals) == signals \in {Whole, Half, <<"Finished">>}

\* A signal that tells of something in the middle of a job.
Midway == JobErrors \cup Prompts

PromptFrame(f) == f.cont \in {"provideMedium", "replyUntrusted"}

-----------------------------------------------------------------------------
\* The top of a stack, and what is below it.
LEMMA FrontFacts ==
  ASSUME NEW T, NEW s \in Seq(T), s # <<>>
  PROVE  /\ Len(s) \in Nat \ {0}
         /\ Front(s) \in Seq(T) /\ Len(Front(s)) = Len(s) - 1
         /\ \A k \in DOMAIN Front(s) : k \in DOMAIN s /\ k # Len(s) /\ Front(s)[k] = s[k]
         /\ Len(s) \in DOMAIN s /\ Last(s) = s[Len(s)] /\ Last(s) \in T
<1>1. Len(s) \in Nat \ {0} /\ DOMAIN s = 1..Len(s) /\ \A k \in 1..Len(s) : s[k] \in T
  OBVIOUS
<1>2. Front(s) = SubSeq(s, 1, Len(s) - 1)
  BY <1>1 DEF Front
<1>3. /\ Front(s) \in Seq(T)
      /\ Len(Front(s)) = Len(s) - 1
      /\ \A k \in 1..Len(s) - 1 : Front(s)[k] = s[k]
  <2>1. \A k \in 1..Len(s) - 1 : s[k] \in T
    BY <1>1
  <2> HIDE <1>2
  <2>2. /\ SubSeq(s, 1, Len(s) - 1) \in Seq(T)
        /\ Len(SubSeq(s, 1, Len(s) - 1)) = IF 1 <= Len(s) - 1 THEN Len(s) - 1 - 1 + 1 ELSE 0
        /\ \A k \in 1..Len(s) - 1 - 1 + 1 : SubSeq(s, 1, Len(s) - 1)[k] = s[1 + k - 1]
    BY <1>1, <2>1, SubSeqProperties
  <2> QED BY <1>1, <1>2, <2>2
<1>4. Last(s) = s[Len(s)]
  BY DEF Last
<1> QED BY <1>1, <1>3, <1>4

\* Shapes and what is left of them after the first signal.
LEMMA ShapeFacts ==
  ASSUME NEW e \in Shapes, e # <<>>
  PROVE  /\ Tail(e) \in Shapes /\ Tail(e) \in {<<>>, Half, <<"exit">>}
         /\ Head(e) \in Signals
         /\ e = Whole => Head(e) = "WorkerDisappeared" /\ Tail(e) = Half
         /\ e = Half => Head(e) = "Finished" /\ Tail(e) = <<"exit">>
         /\ e \notin {Whole, Half} => e = <<Head(e)>> /\ Tail(e) = <<>>
         /\ Half # Whole /\ Half # <<>> /\ Whole # <<>>
         /\ \A s : <<s>> # Half /\ <<s>> # Whole /\ <<s>> # <<>>
<1>1. /\ Head(Whole) = "WorkerDisappeared" /\ Tail(Whole) = Half
      /\ Head(Half) = "Finished" /\ Tail(Half) = <<"exit">>
  BY DEF Whole, Half
<1>2. /\ Len(Half) = 2 /\ Len(Whole) = 3 /\ \A s : Len(<<s>>) = 1 /\ <<s>> # <<>> /\ Head(<<s>>) = s /\ Tail(<<s>>) = <<>>
      /\ Half # <<>> /\ Whole # <<>>
  BY DEF Whole, Half
<1>3. {"WorkerDisappeared", "Finished", "exit"} \subseteq Signals
  BY DEF Signals, Errors, JobErrors
<1> QED BY <1>1, <1>2, <1>3 DEF Shapes

\* What an event does to an object o, which becomes r, and what it makes it emit.
Effect(o, r, e) ==
  /\ r.role = o.role /\ r.object = o.object
  /\ o.denied => r.denied
  /\ o.stage = "over" => r.stage = "over" /\ ~Telling(e) /\ r.exit = o.exit
  /\ Telling(e) => r.stage = "over"
  /\ e \in {<<>>, Whole} \cup {<<s>> : s \in Midway \cup {"AuthError", "Finished"}}
  /\ e = Whole => r.error = "WorkerDisappeared"
  /\ e = <<"AuthError">> => r.denied
  /\ \A s \in Midway : e = <<s>> => r.stage = "running"
  /\ \A s \in Prompts : e = <<s>> => tool # "deb"

LEMMA EventFacts ==
  ASSUME TypeInv, Event
  PROVE  \E i \in DOMAIN objects, r \in Object, e \in Shapes : Emit(i, r, e) /\ Effect(objects[i], r, e)
<1>1. PICK i \in DOMAIN objects :
        \/ Prompt(i) \/ OthersAct(i) \/ JobError(i) \/ Refused(i) \/ NoReply(i)
        \/ Ends(i) \/ LastStatus(i) \/ Disappears(i)
  BY DEF Event
<1> DEFINE o == objects[i]
<1> SUFFICES \E r \in Object, e \in Shapes : Emit(i, r, e) /\ Effect(o, r, e)
  OBVIOUS
<1>2. o \in Object
  BY DEF TypeInv
<1>3. /\ \A s, t : <<s>> = <<t>> <=> s = t
      /\ \A s : <<s>> # Half /\ <<s>> # Whole /\ <<s>> # <<>>
      /\ <<>> # Half /\ <<>> # Whole /\ Half # Whole
  <2>1. Len(Half) = 2 /\ Len(Whole) = 3 /\ Len(<<>>) = 0
    BY DEF Whole, Half
  <2>2. \A s : Len(<<s>>) = 1 /\ <<s>>[1] = s
    OBVIOUS
  <2>3. ASSUME NEW s, NEW t, <<s>> = <<t>> PROVE s = t
    BY <2>3
  <2>4. \A s : <<s>> # Half /\ <<s>> # Whole
    BY <2>1, <2>2
  <2>5. \A s : <<s>> # <<>>
    OBVIOUS
  <2>6. \A s, t : <<s>> = <<t>> <=> s = t
    BY <2>3
  <2>7. Half # Whole
    BY <2>1
  <2>8. <<>> # Half /\ <<>> # Whole
    BY DEF Half, Whole
  <2> QED BY <2>4, <2>5, <2>6, <2>7, <2>8
<1>4. /\ <<>> \in Shapes /\ Whole \in Shapes
      /\ \A s \in Midway \cup {"AuthError", "Finished"} : <<s>> \in Shapes
  BY DEF Shapes, Midway, Signals, Errors, JobErrors, Prompts
<1> HIDE DEF o
<1>5. CASE Prompt(i)
  <2>1. PICK k \in Prompts : Emit(i, [o EXCEPT !.paused = TRUE, !.prompts = @ + 1], <<k>>)
    BY <1>5 DEF Prompt, o
  <2> DEFINE r == [o EXCEPT !.paused = TRUE, !.prompts = @ + 1]
  <2>0. o.stage = "running" /\ o.prompts \in Nat /\ o.prompts + 1 \in Nat
    BY <1>2, <1>5 DEF Prompt, o, Object
  <2> DEFINE n == o.prompts + 1
  <2>5. n \in Nat
    BY <2>0
  <2>6. r = [o EXCEPT !.paused = TRUE, !.prompts = n]
    OBVIOUS
  <2> HIDE DEF n, r
  <2>2. r \in Object /\ r.role = o.role /\ r.object = o.object /\ r.denied = o.denied /\ r.stage = "running" /\ o.stage = "running"
    BY <1>2, <2>0, <2>5, <2>6 DEF Object
  <2>3. tool # "deb" /\ k \notin {"AuthError", "Finished"}
    BY <1>5 DEF Prompt, Prompts
  <2>4. Effect(o, r, <<k>>)
    BY <1>3, <2>2, <2>3 DEF Effect, Telling, Midway
  <2> QED BY <1>4, <2>1, <2>2, <2>4 DEF Midway, r
<1>6. CASE OthersAct(i)
  <2> DEFINE r == [o EXCEPT !.paused = FALSE]
  <2>1. Emit(i, r, <<>>)
    BY <1>6 DEF OthersAct, o
  <2>2. r \in Object /\ Effect(o, r, <<>>)
    BY <1>2, <1>3 DEF Object, Effect, Telling
  <2> QED BY <1>4, <2>1, <2>2
<1>7. CASE JobError(i)
  <2>1. PICK x \in JobErrors : Emit(i, [o EXCEPT !.error = x], <<x>>)
    BY <1>7 DEF JobError, o
  <2> DEFINE r == [o EXCEPT !.error = x]
  <2>2. r \in Object /\ r.role = o.role /\ r.object = o.object /\ r.denied = o.denied /\ r.stage = "running" /\ o.stage = "running"
    BY <1>2, <1>7 DEF Object, JobError, o, Errors
  <2>3. x \notin {"AuthError", "Finished"} \cup Prompts
    BY DEF Prompts, JobErrors
  <2>4. Effect(o, r, <<x>>)
    BY <1>3, <2>2, <2>3 DEF Effect, Telling, Midway
  <2> QED BY <1>4, <2>1, <2>2, <2>4 DEF Midway
<1>8. CASE Refused(i)
  <2> DEFINE r == [o EXCEPT !.stage = "stuck", !.error = "AuthError", !.denied = TRUE]
  <2>1. Emit(i, r, <<"AuthError">>) /\ o.stage = "running"
    BY <1>8 DEF Refused, o
  <2>2. r \in Object /\ r.role = o.role /\ r.object = o.object /\ r.denied
    BY <1>2 DEF Object, Errors
  <2>3. Effect(o, r, <<"AuthError">>)
    BY <1>3, <2>1, <2>2 DEF Effect, Telling, Midway, JobErrors, Prompts
  <2> QED BY <1>4, <2>1, <2>2, <2>3
<1>9. CASE NoReply(i)
  <2> DEFINE r == [o EXCEPT !.error = "AuthError", !.denied = TRUE]
  <2>1. Emit(i, r, <<"AuthError">>)
    BY <1>9 DEF NoReply, o
  <2>2. r \in Object /\ r.role = o.role /\ r.object = o.object /\ r.denied /\ r.stage = o.stage /\ r.exit = o.exit
    BY <1>2 DEF Object, Errors
  <2>3. Effect(o, r, <<"AuthError">>)
    BY <1>3, <2>1, <2>2 DEF Effect, Telling, Midway, JobErrors, Prompts
  <2> QED BY <1>4, <2>1, <2>2, <2>3
<1>10. CASE Ends(i)
  <2>1. PICK x \in Exits \ {"Unfinished"} : Emit(i, [o EXCEPT !.stage = "ended", !.exit = x], <<>>)
    BY <1>10 DEF Ends, o
  <2> DEFINE r == [o EXCEPT !.stage = "ended", !.exit = x]
  <2>2. o.stage = "running"
    BY <1>10 DEF Ends, o
  <2>3. r \in Object /\ Effect(o, r, <<>>)
    BY <1>2, <1>3, <2>2 DEF Object, Effect, Telling
  <2> QED BY <1>4, <2>1, <2>3
<1>11. CASE LastStatus(i)
  <2> DEFINE r == [o EXCEPT !.stage = "over"]
  <2>1. Emit(i, r, <<"Finished">>) /\ o.stage = "ended"
    BY <1>11 DEF LastStatus, o
  <2>2. r \in Object /\ r.role = o.role /\ r.object = o.object /\ r.denied = o.denied /\ r.stage = "over"
    BY <1>2 DEF Object
  <2>3. Effect(o, r, <<"Finished">>)
    BY <1>3, <2>1, <2>2 DEF Effect, Telling, Midway, JobErrors, Prompts
  <2> QED BY <1>4, <2>1, <2>2, <2>3
<1>12. CASE Disappears(i)
  <2> DEFINE r == [o EXCEPT !.stage = "over", !.error = "WorkerDisappeared", !.paused = FALSE]
  <2>1. Emit(i, r, Whole) /\ o.stage # "over"
    BY <1>12 DEF Disappears, o, Whole
  <2>2. /\ r \in Object /\ r.role = o.role /\ r.object = o.object /\ r.denied = o.denied
        /\ r.stage = "over" /\ r.error = "WorkerDisappeared"
    BY <1>2 DEF Object, Errors
  <2>3. Effect(o, r, Whole)
    BY <1>3, <2>1, <2>2 DEF Effect, Telling
  <2> QED BY <1>4, <2>1, <2>2, <2>3
<1> QED BY <1>1, <1>5, <1>6, <1>7, <1>8, <1>9, <1>10, <1>11, <1>12

-----------------------------------------------------------------------------
\* Updates of the sequences.
LEMMA UpdateFacts ==
  ASSUME NEW T, NEW s \in Seq(T), NEW i \in DOMAIN s, NEW r \in T
  PROVE  /\ [s EXCEPT ![i] = r] \in Seq(T)
         /\ Len([s EXCEPT ![i] = r]) = Len(s)
         /\ DOMAIN [s EXCEPT ![i] = r] = DOMAIN s
         /\ \A j \in DOMAIN s : [s EXCEPT ![i] = r][j] = IF j = i THEN r ELSE s[j]
  BY ExceptSeq

LEMMA AppendFacts ==
  ASSUME NEW T, NEW s \in Seq(T), NEW x \in T
  PROVE  /\ Append(s, x) \in Seq(T)
         /\ Len(Append(s, x)) = Len(s) + 1 /\ Len(s) \in Nat
         /\ DOMAIN s = 1..Len(s) /\ DOMAIN Append(s, x) = 1..(Len(s) + 1)
         /\ \A j \in DOMAIN s : Append(s, x)[j] = s[j]
         /\ Append(s, x)[Len(s) + 1] = x
  BY AppendProperties

\* Object i becomes r.
Becomes(i, r) == objects' = [objects EXCEPT ![i] = r]

\* What only the transaction itself changes.
Alike(r, o) ==
  /\ r.role = o.role /\ r.stage = o.stage /\ r.error = o.error
  /\ r.exit = o.exit /\ r.denied = o.denied

LEMMA BecomesFacts ==
  ASSUME TypeInv, NEW i \in DOMAIN objects, NEW r \in Object, Becomes(i, r)
  PROVE  /\ objects' \in Seq(Object)
         /\ Len(objects') = Len(objects) /\ DOMAIN objects' = DOMAIN objects
         /\ \A j \in DOMAIN objects : objects'[j] = IF j = i THEN r ELSE objects[j]
<1>1. objects \in Seq(Object)
  BY DEF TypeInv
<1> QED BY <1>1, UpdateFacts DEF Becomes

LEMMA DropFacts ==
  ASSUME TypeInv, mTrans # 0, DropTrans
  PROVE  /\ mTrans \in DOMAIN objects /\ mTrans' = 0
         /\ \E r \in Object : /\ Becomes(mTrans, r) /\ Alike(r, objects[mTrans])
                              /\ r.object = "doomed"
<1>1. /\ objects \in Seq(Object) /\ stack \in Seq(Frame)
      /\ mTrans \in 1..Len(objects)
  BY DEF TypeInv
<1>2. mTrans \in DOMAIN objects /\ objects[mTrans] \in Object /\ Len(stack) \in Nat
  BY <1>1
<1> DEFINE r == [objects[mTrans] EXCEPT !.object = "doomed", !.level = Len(stack)]
<1>3. r \in Object /\ Alike(r, objects[mTrans]) /\ r.object = "doomed"
  BY <1>2 DEF Object, Alike
<1>4. Becomes(mTrans, r)
  BY <1>2 DEF Becomes, DropTrans, Object
<1> QED BY <1>2, <1>3, <1>4 DEF DropTrans

LEMMA AnswerFacts ==
  ASSUME TypeInv, mTrans # 0, Answered
  PROVE  /\ mTrans \in DOMAIN objects
         /\ \E r \in Object : /\ Becomes(mTrans, r) /\ Alike(r, objects[mTrans])
                              /\ r.object = objects[mTrans].object
<1>1. /\ objects \in Seq(Object) /\ mTrans \in 1..Len(objects)
  BY DEF TypeInv
<1>2. mTrans \in DOMAIN objects /\ objects[mTrans] \in Object
  BY <1>1
<1> DEFINE r == [objects[mTrans] EXCEPT !.paused = FALSE]
<1>3. r \in Object /\ Alike(r, objects[mTrans]) /\ r.object = objects[mTrans].object
  BY <1>2 DEF Object, Alike
<1>4. Becomes(mTrans, r)
  BY <1>2 DEF Becomes, Answered
<1> QED BY <1>2, <1>3, <1>4

LEMMA DeferredFacts ==
  ASSUME TypeInv, DeferredDelete
  PROVE  \E i \in DOMAIN objects, r \in Object :
           /\ Becomes(i, r) /\ Alike(r, objects[i])
           /\ objects[i].object = "doomed" /\ r.object = "deleted"
<1>1. PICK i \in DOMAIN objects : /\ objects[i].object = "doomed"
                                  /\ objects' = [objects EXCEPT ![i].object = "deleted"]
  BY DEF DeferredDelete
<1>2. objects[i] \in Object
  BY DEF TypeInv
<1> DEFINE r == [objects[i] EXCEPT !.object = "deleted"]
<1>3. r \in Object /\ Alike(r, objects[i]) /\ r.object = "deleted"
  BY <1>2 DEF Object, Alike
<1>4. Becomes(i, r)
  BY <1>1 DEF Becomes
<1> QED BY <1>1, <1>3, <1>4

LEMMA NewObjectFacts ==
  ASSUME NEW role \in {"CommitChanges", "InstallFile"}
  PROVE  /\ NewObject(role) \in Object /\ NewObject(role).role = role
         /\ NewObject(role).object = "alive" /\ ~NewObject(role).denied
         /\ NewObject(role).stage = "running" /\ NewObject(role).exit = "Unfinished"
BY DEF NewObject, Object, Errors, Exits

\* Nothing happens in a program that has ended.
LEMMA EndedStops ==
  ASSUME ended PROVE ~Next
BY DEF Next, Event, Prompt, OthersAct, JobError, Refused, NoReply, Ends, LastStatus,
       Disappears, Emit, Dispatch, DeferredDelete, CloseBox, ExecReturns, UserCloses,
       FinderReports, InstallDebFile, WindowActive, LoopRuns

-----------------------------------------------------------------------------
(* What the slots of qapt-batch and qapt-gst-helper do *)

\* The signal of the step.
Now == Head(now.signals)

Opens(conts) == \E c \in conts : Open(c)

\* A frame that a slot of the two programs may leave.
NewFrame(f) == f.cont # "offer" /\ (tool = "gst" => f.cont # "close")

LEMMA SoleSlots ==
  ASSUME TypeInv, Dispatch, tool # "deb"
  PROVE  \/ ~Alive(now.sender) /\ Crash("dangling")
         \/ mTrans = 0 /\ Now \in JobErrors \cup {"Finished"} /\ Crash("null")
         \/ Now \in Prompts /\ Opens({"provideMedium", "replyUntrusted"})
         \/ Now \notin Prompts \cup {"Finished", "exit"} /\ Opens(IF tool = "gst" THEN {"fail"} ELSE {"quit", "nothing", "close"})
         \/ /\ Now = "Finished" /\ mTrans # 0
            /\ done' \in BOOLEAN
            /\ tool = "gst" => done' = (objects[mTrans].exit = "Success")
            /\ DropTrans /\ overtaken' = (overtaken \/ PromptOpen)
            /\ Return /\ Stay
         \/ /\ Now = "Finished" /\ tool = "gst" /\ ExitLoops("cancel") /\ Return /\ Keep
            /\ UNCHANGED <<tool, needs, ended, visible, apply, fault, overtaken>>
         \/ Now = "exit" /\ Return /\ Keep /\ Stay /\ UNCHANGED overtaken
<1> DEFINE e == now.signals
<1>1. now.signals # <<>> /\ now.signals \in Shapes /\ tool \in AllTools
  BY DEF Dispatch, TypeInv, Emission
<1>2. Now \in Signals
  BY <1>1, ShapeFacts DEF Now
<1>3. CASE ~Alive(now.sender)
  BY <1>3 DEF Dispatch
<1>4. CASE Alive(now.sender) /\ tool = "batch"
  <2>1. BatchSlot(Now)
    BY <1>4 DEF Dispatch, Now
  <2>2. Now \in {"medium", "untrusted"} \/ Now \in JobErrors \/ Now \in {"AuthError", "WorkerDisappeared"}
        \/ Now = "Finished" \/ Now = "exit"
    BY <1>2 DEF Signals, Errors, Prompts
  <2>3. CASE Now = "medium"
    BY <2>1, <2>3 DEF BatchSlot, Opens, Prompts
  <2>4. CASE Now = "untrusted"
    BY <2>1, <2>4 DEF BatchSlot, Opens, Prompts
  <2>5. CASE Now = "InitError"
    BY <1>4, <2>1, <2>5 DEF BatchSlot, WithTrans, Opens, Prompts, JobErrors
  <2>6. CASE Now = "CommitError"
    BY <1>4, <2>1, <2>6 DEF BatchSlot, WithTrans, Opens, Prompts, JobErrors
  <2>7. CASE Now \in {"FetchError", "AuthError", "WorkerDisappeared"}
    BY <1>4, <2>1, <2>7 DEF BatchSlot, Opens, Prompts
  <2>8. CASE Now = "Finished"
    <3>1. BatchFinished
      BY <2>1, <2>8 DEF BatchSlot
    <3>2. CASE mTrans = 0
      BY <2>8, <3>1, <3>2 DEF BatchFinished, WithTrans
    <3>3. CASE mTrans # 0
      <4>1. done' = TRUE /\ DropTrans /\ overtaken' = (overtaken \/ PromptOpen) /\ Return /\ Stay
        BY <3>1, <3>3 DEF BatchFinished, WithTrans
      <4> QED BY <1>4, <2>8, <3>3, <4>1
    <3> QED BY <3>2, <3>3
  <2>9. CASE Now = "exit"
    BY <2>1, <2>9 DEF BatchSlot
  <2> QED BY <2>2, <2>3, <2>4, <2>5, <2>6, <2>7, <2>8, <2>9 DEF JobErrors
<1>5. CASE Alive(now.sender) /\ tool = "gst"
  <2>1. GstSlot(Now)
    BY <1>5 DEF Dispatch, Now
  <2>2. Now \in {"medium", "untrusted"} \/ Now \in JobErrors \/ Now \in {"AuthError", "WorkerDisappeared"}
        \/ Now = "Finished" \/ Now = "exit"
    BY <1>2 DEF Signals, Errors, Prompts
  <2>3. CASE Now = "medium"
    BY <2>1, <2>3 DEF GstSlot, Opens, Prompts, JobErrors
  <2>4. CASE Now = "untrusted"
    BY <2>1, <2>4 DEF GstSlot, Opens, Prompts, JobErrors
  <2>5. CASE Now \in JobErrors
    <3>1. Now \notin {"medium", "untrusted", "AuthError", "WorkerDisappeared", "Finished", "exit"}
      BY <2>5 DEF JobErrors
    <3>2. WithTrans(Open("fail"))
      BY <2>1, <2>5, <3>1 DEF GstSlot
    <3> QED BY <1>5, <2>5, <3>1, <3>2 DEF WithTrans, Opens, Prompts
  <2>7. CASE Now \in {"AuthError", "WorkerDisappeared"}
    BY <1>5, <2>1, <2>7 DEF GstSlot, Opens, Prompts, JobErrors
  <2>8. CASE Now = "Finished"
    <3>1. GstFinished
      BY <2>1, <2>8 DEF GstSlot, JobErrors
    <3>2. CASE mTrans = 0
      BY <2>8, <3>1, <3>2 DEF GstFinished, WithTrans
    <3>3. CASE mTrans # 0 /\ objects[mTrans].exit = "Cancelled"
      BY <1>5, <2>8, <3>1, <3>3 DEF GstFinished, WithTrans
    <3>4. CASE mTrans # 0 /\ objects[mTrans].exit # "Cancelled"
      <4>1. /\ done' = (objects[mTrans].exit = "Success")
            /\ DropTrans /\ overtaken' = (overtaken \/ PromptOpen) /\ Return /\ Stay
        BY <3>1, <3>4 DEF GstFinished, WithTrans
      <4> QED BY <2>8, <3>4, <4>1
    <3> QED BY <3>2, <3>3, <3>4
  <2>9. CASE Now = "exit"
    BY <2>1, <2>9 DEF GstSlot, JobErrors
  <2> QED BY <2>2, <2>3, <2>4, <2>5, <2>7, <2>8, <2>9
<1> QED BY <1>1, <1>3, <1>4, <1>5 DEF AllTools

-----------------------------------------------------------------------------
(* The invariant of the two programs with one transaction at most *)

\* The helper has no transaction before packages were offered.
BeforeOffer ==
  /\ now.signals = <<>> /\ Len(stack) <= 1
  /\ \A k \in DOMAIN stack : stack[k].cont \in {"offer", "search"} /\ stack[k].rest.signals = <<>>

\* m_trans, until the last status was told.
SoleTrans ==
  /\ mTrans = 0 => objects[1].stage = "over"
  /\ objects[1].object # "alive" => mTrans = 0

\* The emission in progress, which no one but its slots can follow.
SoleNow ==
  /\ now.signals # <<>> => now.sender = 1 /\ objects[1].object # "deleted"
  /\ Telling(now.signals) => objects[1].stage = "over" /\ mTrans = 1
  /\ \A s \in Midway : now.signals = <<s>> => objects[1].stage = "running"

\* What a message box interrupts: at most once the last status is still to be told.
SoleStack ==
  \A k \in DOMAIN stack :
    /\ stack[k].cont \notin {"offer", "search"}
    /\ stack[k].rest.signals \in {<<>>, Half}
    /\ stack[k].rest.signals = Half =>
         /\ stack[k].rest.sender = 1 /\ objects[1].stage = "over" /\ mTrans = 1
         /\ ~Telling(now.signals)
         /\ \A j \in DOMAIN stack \ {k} : stack[j].rest.signals = <<>>
    /\ PromptFrame(stack[k]) /\ mTrans = 0 => overtaken

SoleInv ==
  /\ Len(objects) <= 1
  /\ objects = <<>> => BeforeOffer
  /\ objects # <<>> => SoleTrans /\ SoleNow /\ SoleStack

\* The exit codes of the helper.
HelperInv ==
  /\ done => objects # <<>> /\ objects[1].exit = "Success" /\ objects[1].stage = "over"
  /\ objects # <<>> => left = 0
  /\ \A k \in DOMAIN stack : stack[k].cont # "close" /\ (stack[k].cont = "offer" => left = 0)
  /\ code # "none" => quitting \/ ended
  /\ code \in {"noPlugins", "partialSuccess"} => ended
  /\ found + left <= Plugins /\ (partial => found + left < Plugins)

-----------------------------------------------------------------------------
(* The invariant of the installer *)

\* The emission in progress may outlive its object only where a commit's worker
\* disappeared.
InstallerNow ==
  now.signals # <<>> =>
    /\ now.sender \in DOMAIN objects
    /\ ~Alive(now.sender) => needs /\ now.signals = <<"exit">>
    /\ now.signals \in {Whole, Half, <<"exit">>} => objects[now.sender].error = "WorkerDisappeared"
    /\ Telling(now.signals) => objects[now.sender].stage = "over"
    /\ now.signals = <<"AuthError">> => objects[now.sender].denied

\* As long as nothing was denied, every transaction but the last is finished and deleted.
OneAfterTheOther ==
  (\A i \in DOMAIN objects : ~objects[i].denied) =>
    /\ apply = "enabled" => objects = <<>>
    /\ \A i \in DOMAIN objects : i < Len(objects) => objects[i].object = "deleted" /\ objects[i].stage = "over"

InstallerInv ==
  /\ mTrans = Len(objects)
  /\ \A k \in DOMAIN stack : stack[k].cont = "nothing" /\ stack[k].rest.signals = <<>>
  /\ objects # <<>> => objects[mTrans].object = "alive"
  /\ \A i \in DOMAIN objects : objects[i].role = "CommitChanges" => needs
  /\ InstallerNow
  /\ OneAfterTheOther

IInv ==
  /\ TypeInv
  /\ tool # "deb" => SoleInv
  /\ tool = "gst" => HelperInv
  /\ tool = "deb" => InstallerInv
  /\ fault # "none" => ended
  /\ FaultsExplained
  /\ ExitCodeHonest

-----------------------------------------------------------------------------
(* Type correctness *)

LEMMA TypeInit == Init => TypeInv
<1> SUFFICES ASSUME Init PROVE TypeInv
  OBVIOUS
<1>1. Plugins \in Nat /\ Tools \subseteq AllTools
  BY ConstantsAssumption
<1>2. Quiet \in Emission
  BY DEF Quiet, Emission, Shapes
<1>3. objects \in Seq(Object) /\ mTrans \in 0..Len(objects)
  <2>1. CASE tool = "batch"
    BY <2>1, NewObjectFacts DEF Init
  <2>2. CASE tool # "batch"
    BY <2>2 DEF Init
  <2> QED BY <2>1, <2>2
<1>4. stack \in Seq(Frame)
  <2>1. [cont |-> "search", rest |-> Quiet] \in Frame
    BY <1>2 DEF Frame, Continuations
  <2> QED BY <2>1 DEF Init
<1> QED BY <1>1, <1>2, <1>3, <1>4 DEF Init, TypeInv

\* What Rest is.
LEMMA RestFacts ==
  ASSUME TypeInv, now.signals # <<>>
  PROVE  Rest \in Emission /\ Rest.sender = now.sender /\ Rest.signals = Tail(now.signals)
<1>1. Tail(now.signals) \in Shapes
  BY ShapeFacts DEF TypeInv, Emission
<1> QED BY <1>1 DEF Rest, TypeInv, Emission

LEMMA OpenFacts ==
  ASSUME TypeInv, now.signals # <<>>, NEW c \in Continuations, Open(c)
  PROVE  /\ stack' \in Seq(Frame) /\ now' \in Emission /\ now'.signals = <<>>
         /\ stack' = Append(stack, [cont |-> c, rest |-> Rest])
         /\ UNCHANGED <<programVars, objects, fault, overtaken>>
<1>1. [cont |-> c, rest |-> Rest] \in Frame
  BY RestFacts DEF Frame
<1>2. stack \in Seq(Frame)
  BY DEF TypeInv
<1>3. Quiet \in Emission /\ Quiet.signals = <<>>
  BY DEF Quiet, Emission, Shapes
<1>4. Append(stack, [cont |-> c, rest |-> Rest]) \in Seq(Frame)
  BY <1>1, <1>2, AppendFacts
<1> QED BY <1>3, <1>4 DEF Open

\* A new transaction comes last.
LEMMA RunFacts ==
  ASSUME NEW objs \in Seq(Object), NEW role \in {"CommitChanges", "InstallFile"}, RunNew(objs, role)
  PROVE  /\ objects' \in Seq(Object) /\ Len(objects') = Len(objs) + 1 /\ Len(objs) \in Nat
         /\ mTrans' = Len(objs) + 1 /\ mTrans' \in 0..Len(objects')
         /\ DOMAIN objs = 1..Len(objs) /\ DOMAIN objects' = 1..(Len(objs) + 1)
         /\ \A j \in DOMAIN objs : objects'[j] = objs[j]
         /\ objects'[mTrans'] = NewObject(role)
<1>1. NewObject(role) \in Object
  BY NewObjectFacts
<1>2. objects' = Append(objs, NewObject(role)) /\ mTrans' = Len(objs) + 1
  BY DEF RunNew
<1> QED BY <1>1, <1>2, AppendFacts

-----------------------------------------------------------------------------
(* What the slots of qapt-deb-installer and the message boxes do *)

LEMMA DebSlots ==
  ASSUME TypeInv, Dispatch, tool = "deb"
  PROVE  \/ ~Alive(now.sender) /\ Crash("dangling")
         \/ Now = "Finished" /\ Alive(now.sender) /\ ~Alive(mTrans) /\ Crash("dangling")
         \/ Now = "InitError" /\ Alive(now.sender) /\ Open("nothing")
         \/ /\ Now = "AuthError" /\ Alive(now.sender)
            /\ Return /\ Keep
            /\ UNCHANGED <<tool, needs, ended, code, quitting, visible, fault, overtaken>>
            /\ apply' \in {apply, "enabled"}
         \/ /\ Now = "Finished" /\ Alive(now.sender) /\ Alive(mTrans) /\ objects[mTrans].role = "CommitChanges"
            /\ RunNew([objects EXCEPT ![mTrans].object = "deleted"], "InstallFile")
            /\ Return
            /\ UNCHANGED <<apply, tool, needs, ended, code, quitting, visible, done, fault, overtaken>>
         \/ /\ Now = "Finished" /\ Alive(now.sender)
            /\ apply' = "removed" /\ UNCHANGED <<objects, mTrans>> /\ Return
            /\ UNCHANGED <<tool, needs, ended, code, quitting, visible, done, fault, overtaken>>
         \/ /\ Now \notin {"Finished", "AuthError"} /\ Alive(now.sender)
            /\ Return /\ Keep /\ Stay /\ UNCHANGED overtaken
<1>1. CASE ~Alive(now.sender)
  BY <1>1 DEF Dispatch
<1>2. CASE Alive(now.sender)
  <2>1. DebSlot(Now)
    BY <1>2 DEF Dispatch, Now
  <2>2. CASE Now = "InitError"
    BY <1>2, <2>1, <2>2 DEF DebSlot
  <2>3. CASE Now = "AuthError"
    BY <1>2, <2>1, <2>3 DEF DebSlot
  <2>4. CASE Now = "Finished"
    <3>1. DebFinished
      BY <2>1, <2>4 DEF DebSlot
    <3>2. CASE ~Alive(mTrans)
      BY <1>2, <2>4, <3>1, <3>2 DEF DebFinished
    <3>3. CASE Alive(mTrans) /\ objects[mTrans].role = "CommitChanges"
      <4>1. /\ RunNew([objects EXCEPT ![mTrans].object = "deleted"], "InstallFile")
            /\ UNCHANGED apply /\ Return
            /\ UNCHANGED <<tool, needs, ended, code, quitting, visible, done, fault, overtaken>>
        BY <3>1, <3>3 DEF DebFinished
      <4> QED BY <1>2, <2>4, <3>3, <4>1
    <3>4. CASE Alive(mTrans) /\ objects[mTrans].role # "CommitChanges"
      <4>1. /\ apply' = "removed" /\ UNCHANGED <<objects, mTrans>> /\ Return
            /\ UNCHANGED <<tool, needs, ended, code, quitting, visible, done, fault, overtaken>>
        BY <3>1, <3>4 DEF DebFinished
      <4> QED BY <1>2, <2>4, <4>1
    <3> QED BY <3>2, <3>3, <3>4
  <2>5. CASE Now \notin {"InitError", "AuthError", "Finished"}
    BY <1>2, <2>1, <2>5 DEF DebSlot
  <2> QED BY <2>2, <2>3, <2>4, <2>5
<1> QED BY <1>1, <1>2

\* The installer goes on from a commit to the .deb file.
LEMMA DebFileFacts ==
  ASSUME TypeInv, mTrans \in DOMAIN objects,
         RunNew([objects EXCEPT ![mTrans].object = "deleted"], "InstallFile")
  PROVE  /\ objects' \in Seq(Object) /\ Len(objects') = Len(objects) + 1
         /\ DOMAIN objects' = 1..(Len(objects) + 1) /\ DOMAIN objects = 1..Len(objects)
         /\ Len(objects) \in Nat
         /\ mTrans' = Len(objects) + 1 /\ mTrans' \in 0..Len(objects')
         /\ objects'[mTrans'] = NewObject("InstallFile")
         /\ \A j \in DOMAIN objects :
              /\ Alike(objects'[j], objects[j])
              /\ objects'[j].object = IF j = mTrans THEN "deleted" ELSE objects[j].object
<1>1. objects \in Seq(Object) /\ objects[mTrans] \in Object
  BY DEF TypeInv
<1> DEFINE r == [objects[mTrans] EXCEPT !.object = "deleted"]
           objs == [objects EXCEPT ![mTrans] = r]
<1>2. r \in Object /\ Alike(r, objects[mTrans]) /\ r.object = "deleted"
  BY <1>1 DEF Object, Alike
<1>3. [objects EXCEPT ![mTrans].object = "deleted"] = objs
  OBVIOUS
<1> HIDE DEF r
<1>4. /\ objs \in Seq(Object) /\ Len(objs) = Len(objects) /\ DOMAIN objs = DOMAIN objects
      /\ \A j \in DOMAIN objects : objs[j] = IF j = mTrans THEN r ELSE objects[j]
  BY <1>1, <1>2, UpdateFacts
<1> HIDE DEF objs
<1>5. RunNew(objs, "InstallFile")
  BY <1>3
<1>6. /\ objects' \in Seq(Object) /\ Len(objects') = Len(objs) + 1 /\ Len(objs) \in Nat
      /\ mTrans' = Len(objs) + 1 /\ mTrans' \in 0..Len(objects')
      /\ DOMAIN objs = 1..Len(objs) /\ DOMAIN objects' = 1..(Len(objs) + 1)
      /\ \A j \in DOMAIN objs : objects'[j] = objs[j]
      /\ objects'[mTrans'] = NewObject("InstallFile")
  BY <1>4, <1>5, RunFacts
<1>7. \A j \in DOMAIN objects : /\ Alike(objects'[j], objects[j])
              /\ objects'[j].object = IF j = mTrans THEN "deleted" ELSE objects[j].object
  BY <1>2, <1>4, <1>6 DEF Alike
<1> QED BY <1>4, <1>6, <1>7

\* The slot that goes on when a box is closed.
Top == stack[Len(stack)]

LEMMA CloseFacts ==
  ASSUME TypeInv, CloseBox
  PROVE  /\ now.signals = <<>> /\ ~ended
         /\ Len(stack) \in Nat \ {0} /\ Top \in Frame
         /\ stack' \in Seq(Frame) /\ now' \in Emission /\ now' = Top.rest
         /\ Len(stack') = Len(stack) - 1
         /\ \A k \in DOMAIN stack' : k \in DOMAIN stack /\ k # Len(stack) /\ stack'[k] = stack[k]
         /\ Len(stack) \in DOMAIN stack
         /\ \/ UNCHANGED <<objects, mTrans>>
            \/ mTrans # 0 /\ Answered /\ UNCHANGED mTrans
            \/ Top.cont = "offer" /\ ~quitting /\ RunNew(objects, "CommitChanges") /\ UNCHANGED <<code, quitting, ended>>
         /\ \/ UNCHANGED fault
            \/ PromptFrame(Top) /\ mTrans = 0 /\ fault' = "null" /\ ended'
<1>1. stack \in Seq(Frame) /\ stack # <<>>
  BY DEF CloseBox, TypeInv
<1>2. /\ Len(stack) \in Nat \ {0}
      /\ Front(stack) \in Seq(Frame) /\ Len(Front(stack)) = Len(stack) - 1
      /\ \A k \in DOMAIN Front(stack) : k \in DOMAIN stack /\ k # Len(stack) /\ Front(stack)[k] = stack[k]
      /\ Len(stack) \in DOMAIN stack /\ Last(stack) = Top /\ Last(stack) \in Frame
  BY <1>1, FrontFacts DEF Top
<1>3. stack' = Front(stack) /\ now' = Top.rest /\ Continue(Top.cont) /\ now.signals = <<>> /\ ~ended
  BY <1>2 DEF CloseBox
<1>4. Top.rest \in Emission
  BY <1>2 DEF Frame
<1>5. /\ \/ UNCHANGED <<objects, mTrans>>
         \/ mTrans # 0 /\ Answered /\ UNCHANGED mTrans
         \/ Top.cont = "offer" /\ ~quitting /\ RunNew(objects, "CommitChanges") /\ UNCHANGED <<code, quitting, ended>>
      /\ \/ UNCHANGED fault
         \/ PromptFrame(Top) /\ mTrans = 0 /\ fault' = "null" /\ ended'
  BY <1>3 DEF Continue, Reply, PromptFrame
<1> QED BY <1>2, <1>3, <1>4, <1>5

\* PluginFinder tells of one plugin.
LEMMA FinderFacts ==
  ASSUME FinderReports
  PROVE  /\ tool = "gst" /\ LoopRuns /\ stack = <<>> /\ left > 0 /\ left' = left - 1
         /\ \/ found' = found + 1 /\ partial' = partial
            \/ partial' = TRUE /\ found' = found
         /\ \/ UNCHANGED <<stack, ended, code>>
            \/ UNCHANGED stack /\ ~(left' > 0) /\ ended' = TRUE /\ code' = "noPlugins"
            \/ /\ ~(left' > 0) /\ stack' = <<[cont |-> "offer", rest |-> Quiet]>>
               /\ UNCHANGED <<ended, code>>
         /\ UNCHANGED <<tool, needs, quitting, mTrans, done, apply, objects, now, fault, overtaken>>
<1>1. /\ tool = "gst" /\ LoopRuns /\ stack = <<>> /\ left > 0 /\ left' = left - 1
      /\ \/ found' = found + 1 /\ partial' = partial
         \/ partial' = TRUE /\ found' = found
      /\ tool' = tool /\ needs' = needs /\ quitting' = quitting /\ mTrans' = mTrans
      /\ done' = done /\ apply' = apply /\ objects' = objects /\ now' = now
      /\ fault' = fault /\ overtaken' = overtaken
  BY Zenon DEF FinderReports
<1>2. \/ stack' = stack /\ ended' = ended /\ code' = code
      \/ stack' = stack /\ ~(left' > 0) /\ ended' = TRUE /\ code' = "noPlugins"
      \/ /\ ~(left' > 0) /\ stack' = <<[cont |-> "offer", rest |-> Quiet]>>
         /\ ended' = ended /\ code' = code
  BY Zenon DEF FinderReports
<1> QED BY <1>1, <1>2

LEMMA TypeNext ==
  ASSUME IInv, [Next]_vars
  PROVE  TypeInv'
<1> USE DEF IInv
<1>1. /\ tool \in AllTools /\ needs \in BOOLEAN
      /\ objects \in Seq(Object) /\ mTrans \in 0..Len(objects)
      /\ now \in Emission /\ stack \in Seq(Frame)
      /\ left \in Nat /\ found \in Nat /\ partial \in BOOLEAN
      /\ overtaken \in BOOLEAN /\ done \in BOOLEAN
  BY DEF TypeInv
<1>2. CASE UNCHANGED vars
  BY <1>2 DEF TypeInv, vars, programVars, searchVars
<1>3. CASE Event
  <2>1. PICK i \in DOMAIN objects, r \in Object, e \in Shapes : Emit(i, r, e)
    BY <1>3, EventFacts
  <2>2. Becomes(i, r) /\ UNCHANGED <<programVars, searchVars, stack, overtaken>>
    BY <2>1 DEF Emit, Becomes
  <2>3. objects' \in Seq(Object) /\ Len(objects') = Len(objects)
    BY <2>2, BecomesFacts
  <2>4. now' \in Emission
    <3>1. i \in Nat
      BY <1>1
    <3> QED BY <1>1, <2>1, <3>1 DEF Emit, Emission
  <2> QED BY <1>1, <2>2, <2>3, <2>4 DEF TypeInv, programVars, searchVars
<1>4. CASE Dispatch
  <2>1. now.signals # <<>> /\ UNCHANGED searchVars
    BY <1>4 DEF Dispatch
  <2>2. Rest \in Emission
    BY <2>1, RestFacts
  <2>3. ASSUME NEW how, Crash(how) PROVE TypeInv'
    BY <1>1, <2>1, <2>3 DEF Crash, TypeInv, searchVars
  <2>4. ASSUME NEW c \in Continuations, Open(c) PROVE TypeInv'
    <3>1. /\ stack' \in Seq(Frame) /\ now' \in Emission
          /\ UNCHANGED <<programVars, objects, overtaken>>
      BY <2>1, <2>4, OpenFacts
    <3> QED BY <1>1, <2>1, <3>1 DEF TypeInv, searchVars, programVars
  <2>5. ASSUME Return, Keep, UNCHANGED <<tool, needs, overtaken>> PROVE TypeInv'
    BY <1>1, <2>1, <2>2, <2>5 DEF TypeInv, searchVars, Return, Keep
  <2>6. CASE tool # "deb"
    <3>1. ASSUME mTrans # 0, done' \in BOOLEAN, DropTrans, overtaken' = (overtaken \/ PromptOpen), Return, Stay
          PROVE  TypeInv'
      <4>1. objects' \in Seq(Object) /\ Len(objects') \in Nat /\ mTrans' = 0
        BY <3>1, DropFacts, BecomesFacts
      <4>2. overtaken' \in BOOLEAN
        BY <1>1, <3>1 DEF PromptOpen
      <4> QED BY <1>1, <2>1, <2>2, <3>1, <4>1, <4>2 DEF TypeInv, searchVars, Return, Stay
    <3> QED BY <1>4, <2>3, <2>4, <2>5, <2>6, <3>1, SoleSlots DEF Opens, Continuations, Stay
  <2>7. CASE tool = "deb"
    <3>1. mTrans \in DOMAIN objects
      BY <1>1, <2>1, <2>7 DEF InstallerInv, InstallerNow
    <3>2. ASSUME RunNew([objects EXCEPT ![mTrans].object = "deleted"], "InstallFile"), Return,
                 UNCHANGED <<tool, needs, done, overtaken>>
          PROVE  TypeInv'
      <4>1. objects' \in Seq(Object) /\ mTrans' \in 0..Len(objects')
        BY <3>1, <3>2, DebFileFacts
      <4> QED BY <1>1, <2>1, <2>2, <3>2, <4>1 DEF TypeInv, searchVars, Return
    <3>3. ASSUME Return, UNCHANGED <<objects, mTrans, tool, needs, done, overtaken>> PROVE TypeInv'
      BY <1>1, <2>1, <2>2, <3>3 DEF TypeInv, searchVars, Return
    <3> QED BY <1>4, <2>3, <2>4, <2>5, <2>7, <3>2, <3>3, DebSlots DEF Continuations, Stay
  <2> QED BY <2>6, <2>7
<1>5. CASE DeferredDelete
  <2>1. PICK i \in DOMAIN objects, r \in Object : Becomes(i, r)
    BY <1>5, DeferredFacts
  <2>2. objects' \in Seq(Object) /\ Len(objects') = Len(objects)
    BY <2>1, BecomesFacts
  <2> QED BY <1>1, <1>5, <2>2 DEF TypeInv, DeferredDelete, programVars, searchVars
<1>6. CASE CloseBox
  <2>1. stack' \in Seq(Frame) /\ now' \in Emission
    BY <1>6, CloseFacts
  <2>2. UNCHANGED <<tool, needs, done, apply, searchVars, overtaken>>
    BY <1>6 DEF CloseBox
  <2>3. objects' \in Seq(Object) /\ mTrans' \in 0..Len(objects')
    <3>1. CASE UNCHANGED <<objects, mTrans>>
      BY <1>1, <3>1
    <3>2. CASE mTrans # 0 /\ Answered /\ UNCHANGED mTrans
      BY <1>1, <3>2, AnswerFacts, BecomesFacts
    <3>3. CASE RunNew(objects, "CommitChanges")
      BY <1>1, <3>3, RunFacts
    <3> QED BY <1>6, <3>1, <3>2, <3>3, CloseFacts
  <2> QED BY <1>1, <2>1, <2>2, <2>3 DEF TypeInv, searchVars
<1>7. CASE ExecReturns
  BY <1>1, <1>7 DEF ExecReturns, TypeInv, searchVars
<1>8. CASE UserCloses
  BY <1>1, <1>8 DEF UserCloses, TypeInv, searchVars
<1>9. CASE FinderReports
  <2>1. stack' \in Seq(Frame)
    <3>1. Quiet \in Emission
      BY DEF Quiet, Emission, Shapes
    <3>2. [cont |-> "offer", rest |-> Quiet] \in Frame
      BY <3>1 DEF Frame, Continuations
    <3> DEFINE f == [cont |-> "offer", rest |-> Quiet]
    <3>3. stack' = stack \/ stack' = <<f>>
      BY <1>9, FinderFacts
    <3>4. <<f>> \in Seq(Frame)
      <4>1. f \in Frame
        BY <3>2
      <4> HIDE DEF f
      <4> QED BY <4>1
    <3> QED BY <1>1, <3>3, <3>4
  <2>2. left' \in Nat /\ found' \in Nat /\ partial' \in BOOLEAN
    <3>1. /\ left > 0 /\ left' = left - 1
          /\ \/ found' = found + 1 /\ partial' = partial
             \/ partial' = TRUE /\ found' = found
      BY <1>9, FinderFacts
    <3>2. left' \in Nat /\ found' \in Nat
      BY <1>1, <3>1
    <3>3. partial' \in BOOLEAN
      BY <1>1, <3>1, Zenon
    <3> QED BY <3>2, <3>3
  <2>3. UNCHANGED <<tool, needs, mTrans, done, objects, now, overtaken>>
    BY <1>9, FinderFacts
  <2> QED BY <1>1, <2>1, <2>2, <2>3 DEF TypeInv
<1>10. CASE InstallDebFile
  <2>1. PICK role \in {"CommitChanges", "InstallFile"} : RunNew(objects, role)
    BY <1>10 DEF InstallDebFile
  <2>2. objects' \in Seq(Object) /\ mTrans' \in 0..Len(objects')
    BY <1>1, <2>1, RunFacts
  <2> QED BY <1>1, <1>10, <2>2 DEF InstallDebFile, TypeInv, searchVars
<1> QED BY <1>2, <1>3, <1>4, <1>5, <1>6, <1>7, <1>8, <1>9, <1>10 DEF Next

-----------------------------------------------------------------------------
(* qapt-batch and qapt-gst-helper: their one transaction *)

LEMMA OneObject ==
  ASSUME TypeInv, Len(objects) <= 1
  PROVE  /\ objects # <<>> => DOMAIN objects = {1} /\ objects[1] \in Object /\ mTrans \in {0, 1}
         /\ objects = <<>> => DOMAIN objects = {} /\ mTrans = 0
         /\ \A i \in DOMAIN objects : i = 1 /\ objects # <<>>
<1>1. /\ objects \in Seq(Object) /\ Len(objects) \in {0, 1} /\ DOMAIN objects = 1..Len(objects)
      /\ mTrans \in 0..Len(objects)
  <2>1. objects \in Seq(Object) /\ mTrans \in 0..Len(objects)
    BY DEF TypeInv
  <2>2. Len(objects) \in Nat /\ DOMAIN objects = 1..Len(objects)
    BY <2>1
  <2>3. Len(objects) \in {0, 1}
    BY <2>2
  <2> QED BY <2>1, <2>2, <2>3
<1>2. CASE Len(objects) = 0
  <2>1. objects = <<>>
    BY <1>1, <1>2
  <2>2. DOMAIN objects = {} /\ mTrans = 0
    BY <1>1, <1>2
  <2> QED BY <2>1, <2>2
<1>3. CASE Len(objects) = 1
  BY <1>1, <1>3
<1> QED BY <1>1, <1>2, <1>3

LEMMA SoleEvent ==
  ASSUME TypeInv, tool # "deb", SoleInv, Event
  PROVE  SoleInv' /\ UNCHANGED <<tool, code>> /\ objects' # <<>>
<1>1. PICK i \in DOMAIN objects, r \in Object, e \in Shapes : Emit(i, r, e) /\ Effect(objects[i], r, e)
  BY EventFacts
<1>2. i = 1 /\ objects # <<>> /\ mTrans \in {0, 1} /\ DOMAIN objects = {1}
  BY OneObject DEF SoleInv
<1>3. /\ Becomes(i, r) /\ now.signals = <<>> /\ Alive(1)
      /\ now' = IF e = <<>> THEN now ELSE [sender |-> 1, signals |-> e]
      /\ UNCHANGED <<mTrans, stack, overtaken, tool, code>>
  BY <1>1, <1>2 DEF Emit, Becomes, LoopRuns, programVars
<1>4. objects' # <<>> /\ objects'[1] = r /\ Len(objects') <= 1
  BY <1>2, <1>3, BecomesFacts DEF SoleInv
<1>5. /\ r.object = objects[1].object /\ (objects[1].stage = "over" => r.stage = "over" /\ ~Telling(e))
      /\ Telling(e) => r.stage = "over"
      /\ \A s \in Midway : e = <<s>> => r.stage = "running"
  BY <1>1, <1>2 DEF Effect
<1>6. SoleTrans'
  BY <1>2, <1>3, <1>4, <1>5 DEF SoleInv, SoleTrans
<1>7. now'.signals = e /\ (e # <<>> => now'.sender = 1)
  BY <1>3
<1>8. SoleNow'
  <2>1. Telling(e) => mTrans = 1
    BY <1>2, <1>5 DEF SoleInv, SoleTrans
  <2> QED BY <1>3, <1>4, <1>5, <1>7, <2>1 DEF SoleNow, Alive, Telling
<1>9. SoleStack'
  BY <1>2, <1>3, <1>4, <1>5, <1>7 DEF SoleInv, SoleStack, PromptFrame, Telling
<1> QED BY <1>3, <1>4, <1>6, <1>8, <1>9 DEF SoleInv

\* When a signal is told there is an object, and it is used in time.
LEMMA SoleTells ==
  ASSUME TypeInv, tool # "deb", SoleInv, Dispatch
  PROVE  /\ objects # <<>> /\ now.sender = 1 /\ Alive(1) /\ mTrans \in {0, 1}
         /\ now.signals \in Shapes /\ now.signals # <<>>
         /\ Now \in Prompts \cup JobErrors => objects[1].stage = "running" /\ mTrans = 1
         /\ Now = "Finished" => Telling(now.signals) /\ objects[1].stage = "over" /\ mTrans = 1
         /\ Now = "exit" => Tail(now.signals) = <<>>
         /\ Now \notin {"Finished", "exit"} => Tail(now.signals) \in {<<>>, Half}
         /\ Tail(now.signals) = Half => now.signals = Whole
<1>1. now.signals # <<>> /\ now.signals \in Shapes
  BY DEF Dispatch, TypeInv, Emission
<1>2. objects # <<>> /\ SoleNow /\ SoleTrans
  BY <1>1 DEF SoleInv, BeforeOffer
<1>3. now.sender = 1 /\ Alive(1) /\ mTrans \in {0, 1}
  BY <1>1, <1>2, OneObject DEF SoleInv, SoleNow, Alive
<1>4. /\ now.signals = Whole => Now = "WorkerDisappeared" /\ Tail(now.signals) = Half
      /\ now.signals = Half => Now = "Finished" /\ Tail(now.signals) = <<"exit">>
      /\ now.signals \notin {Whole, Half} => now.signals = <<Now>> /\ Tail(now.signals) = <<>>
      /\ Half # <<>>
      /\ \A s : <<s>> # Half
  BY <1>1, ShapeFacts DEF Now
<1>5. Now \in Prompts \cup JobErrors => now.signals = <<Now>> /\ Now \in Midway
  BY <1>4 DEF Prompts, JobErrors, Midway
<1>6. Now \in Prompts \cup JobErrors => objects[1].stage = "running" /\ mTrans = 1
  BY <1>2, <1>3, <1>5 DEF SoleNow, SoleTrans
<1>7. Now = "Finished" => Telling(now.signals)
  BY <1>4 DEF Telling
<1> QED BY <1>1, <1>2, <1>3, <1>4, <1>6, <1>7 DEF SoleNow

LEMMA SoleDispatch ==
  ASSUME TypeInv, tool # "deb", SoleInv, Dispatch
  PROVE  /\ SoleInv' /\ UNCHANGED <<fault, searchVars, tool>> /\ overtaken' \in {overtaken, TRUE}
         /\ objects' # <<>> /\ objects # <<>> /\ Alike(objects'[1], objects[1])
         /\ \A k \in DOMAIN stack' : (k \in DOMAIN stack /\ stack'[k] = stack[k]) \/ NewFrame(stack'[k])
         /\ \/ UNCHANGED <<ended, code, quitting, done>>
            \/ UNCHANGED <<ended, done>> /\ quitting' /\ code' = "cancel"
            \/ /\ UNCHANGED <<ended, code, quitting>> /\ objects[1].stage = "over"
               /\ tool = "gst" => done' = (objects[1].exit = "Success")
<1> DEFINE o == objects[1]
<1>1. /\ objects # <<>> /\ now.sender = 1 /\ Alive(1) /\ mTrans \in {0, 1}
      /\ now.signals \in Shapes /\ now.signals # <<>>
      /\ Now \in Prompts \cup JobErrors => o.stage = "running" /\ mTrans = 1
      /\ Now = "Finished" => Telling(now.signals) /\ o.stage = "over" /\ mTrans = 1
      /\ Now = "exit" => Tail(now.signals) = <<>>
      /\ Now \notin {"Finished", "exit"} => Tail(now.signals) \in {<<>>, Half}
      /\ Tail(now.signals) = Half => now.signals = Whole
  BY SoleTells
<1>2. SoleTrans /\ SoleNow /\ SoleStack /\ Len(objects) <= 1 /\ UNCHANGED searchVars
  BY <1>1 DEF SoleInv, Dispatch
<1>3. /\ Rest.sender = 1 /\ Rest.signals = Tail(now.signals)
      /\ Tail(now.signals) \in {<<>>, Half, <<"exit">>}
      /\ ~Telling(<<>>) /\ ~Telling(<<"exit">>)
      /\ \A s \in Midway : <<s>> # <<>> /\ <<s>> # <<"exit">> /\ <<s>> # Half
      /\ Half # <<>> /\ Half # <<"exit">> /\ <<"exit">> # <<>>
  <2>1. \A s : <<s>> # Half /\ <<s>> # Whole /\ <<s>> # <<>> /\ Half # <<>> /\ Whole # <<>>
    BY <1>1, ShapeFacts
  <2>2. \A s \in Midway \cup {"Finished"} : <<s>> # <<"exit">>
    BY DEF Midway, JobErrors, Prompts
  <2> QED BY <1>1, <2>1, <2>2, RestFacts, ShapeFacts DEF Telling
<1>4. Alike(o, o) /\ stack \in Seq(Frame)
  BY DEF Alike, TypeInv
<1>5. ASSUME NEW c \in {"provideMedium", "replyUntrusted", "quit", "nothing", "close", "fail"}, Open(c),
             Now \notin {"Finished", "exit"},
             c \in {"provideMedium", "replyUntrusted"} => mTrans # 0,
             tool = "gst" => c # "close"
      PROVE  /\ SoleInv' /\ UNCHANGED <<fault, ended, code, quitting, done, objects, overtaken, tool>>
             /\ \A k \in DOMAIN stack' : (k \in DOMAIN stack /\ stack'[k] = stack[k]) \/ NewFrame(stack'[k])
  <2> DEFINE f == [cont |-> c, rest |-> Rest]
  <2>1. /\ now'.signals = <<>> /\ stack' = Append(stack, f)
        /\ UNCHANGED <<programVars, objects, fault, overtaken>>
    BY <1>1, <1>5, OpenFacts DEF Continuations
  <2>2. f \in Frame
    BY <1>1, RestFacts DEF Frame, Continuations
  <2>3. /\ DOMAIN stack' = 1..(Len(stack) + 1) /\ DOMAIN stack = 1..Len(stack) /\ Len(stack) \in Nat
        /\ \A k \in DOMAIN stack : stack'[k] = stack[k]
        /\ stack'[Len(stack) + 1] = f
    BY <1>4, <2>1, <2>2, AppendFacts
  <2>4. \A k \in DOMAIN stack' : (k \in DOMAIN stack /\ stack'[k] = stack[k]) \/ (k = Len(stack) + 1 /\ stack'[k] = f)
    BY <2>3
  <2>5. SoleTrans' /\ SoleNow'
    BY <1>2, <1>3, <2>1 DEF SoleTrans, SoleNow, programVars
  <2>6. f.cont = c /\ f.rest.sender = 1 /\ f.rest.signals \in {<<>>, Half}
    BY <1>1, <1>3, <1>5
  <2>7. f.rest.signals = Half => /\ o.stage = "over" /\ mTrans = 1
                                 /\ \A j \in DOMAIN stack : stack[j].rest.signals # Half
    <3>1. f.rest.signals = Half => Telling(now.signals)
      BY <1>1, <1>3 DEF Telling
    <3> QED BY <1>2, <3>1 DEF SoleNow, SoleStack
  <2> HIDE DEF f
  <2>8. SoleStack'
    <3> SUFFICES ASSUME NEW k \in DOMAIN stack'
                 PROVE  /\ stack'[k].cont \notin {"offer", "search"}
                        /\ stack'[k].rest.signals \in {<<>>, Half}
                        /\ stack'[k].rest.signals = Half =>
                             /\ stack'[k].rest.sender = 1 /\ o.stage = "over" /\ mTrans = 1
                             /\ \A j \in DOMAIN stack' \ {k} : stack'[j].rest.signals = <<>>
                        /\ PromptFrame(stack'[k]) /\ mTrans = 0 => overtaken
      BY <1>3, <2>1 DEF SoleStack, programVars, PromptFrame
    <3>1. CASE k \in DOMAIN stack /\ stack'[k] = stack[k]
      <4>1. stack[k].rest.signals = Half => f.rest.signals = <<>>
        BY <2>6, <2>7, <3>1
      <4> QED BY <1>2, <2>4, <3>1, <4>1 DEF SoleStack
    <3>2. CASE k = Len(stack) + 1 /\ stack'[k] = f
      <4>1. ASSUME NEW j \in DOMAIN stack' \ {k}, f.rest.signals = Half
            PROVE  stack'[j].rest.signals = <<>>
        <5>1. j \in DOMAIN stack /\ stack'[j] = stack[j]
          BY <2>4, <3>2
        <5> QED BY <1>2, <2>7, <4>1, <5>1 DEF SoleStack
      <4> QED BY <1>5, <2>6, <2>7, <3>2, <4>1 DEF PromptFrame
    <3> QED BY <2>4, <3>1, <3>2
  <2>9. NewFrame(f)
    BY <1>5, <2>6 DEF NewFrame
  <2>10. \A k \in DOMAIN stack' : (k \in DOMAIN stack /\ stack'[k] = stack[k]) \/ NewFrame(stack'[k])
    BY <2>4, <2>9
  <2> QED BY <1>1, <1>2, <1>5, <2>1, <2>5, <2>6, <2>8, <2>10 DEF SoleInv, programVars
<1>6. ASSUME Now = "Finished", DropTrans, overtaken' = (overtaken \/ PromptOpen), Return
      PROVE  SoleInv' /\ objects' # <<>> /\ Alike(objects'[1], o) /\ UNCHANGED stack
  <2>1. PICK r \in Object : Becomes(mTrans, r) /\ Alike(r, o) /\ r.object = "doomed"
    BY <1>1, <1>6, DropFacts
  <2>2. objects' # <<>> /\ objects'[1] = r /\ Len(objects') <= 1 /\ mTrans' = 0
    BY <1>1, <1>2, <1>6, <2>1, BecomesFacts, DropFacts
  <2>3. now' = Rest /\ UNCHANGED stack /\ Rest.signals \in {<<>>, <<"exit">>}
    BY <1>1, <1>3, <1>6, ShapeFacts DEF Return, Now
  <2>4. SoleTrans'
    BY <1>1, <1>6, <2>1, <2>2 DEF SoleTrans, Alike
  <2>5. SoleNow'
    BY <1>3, <2>1, <2>2, <2>3 DEF SoleNow
  <2>6. SoleStack'
    <3>1. \A k \in DOMAIN stack : stack[k].rest.signals # Half
      BY <1>1, <1>2, <1>6 DEF SoleStack
    <3>2. \A k \in DOMAIN stack : PromptFrame(stack[k]) => overtaken'
      BY <1>6 DEF PromptOpen, PromptFrame
    <3> QED BY <1>2, <2>3, <3>1, <3>2 DEF SoleStack, PromptFrame
  <2> QED BY <2>1, <2>2, <2>3, <2>4, <2>5, <2>6 DEF SoleInv
<1>7. ASSUME Return, UNCHANGED <<objects, mTrans, overtaken>>, Now \in {"Finished", "exit"}
      PROVE  SoleInv' /\ UNCHANGED stack
  <2>1. now' = Rest /\ UNCHANGED stack /\ Rest.signals \in {<<>>, <<"exit">>}
    BY <1>1, <1>3, <1>7, ShapeFacts DEF Return, Now
  <2>2. SoleTrans' /\ SoleNow'
    BY <1>1, <1>2, <1>3, <1>7, <2>1 DEF SoleTrans, SoleNow, Alive
  <2>3. SoleStack'
    BY <1>2, <1>3, <1>7, <2>1 DEF SoleStack, PromptFrame
  <2> QED BY <1>1, <1>2, <1>7, <2>1, <2>2, <2>3 DEF SoleInv
<1>8. CASE Now \in Prompts /\ Opens({"provideMedium", "replyUntrusted"})
  <2>1. Now \notin {"Finished", "exit"} /\ mTrans # 0
    BY <1>1, <1>8 DEF Prompts
  <2> QED BY <1>1, <1>2, <1>4, <1>5, <1>8, <2>1 DEF Opens
<1>9. CASE Now \notin Prompts \cup {"Finished", "exit"} /\ Opens(IF tool = "gst" THEN {"fail"} ELSE {"quit", "nothing", "close"})
  BY <1>1, <1>2, <1>4, <1>5, <1>9 DEF Opens
<1>10. CASE /\ Now = "Finished" /\ mTrans # 0
            /\ done' \in BOOLEAN
            /\ tool = "gst" => done' = (objects[mTrans].exit = "Success")
            /\ DropTrans /\ overtaken' = (overtaken \/ PromptOpen)
            /\ Return /\ Stay
  <2>1. SoleInv' /\ objects' # <<>> /\ Alike(objects'[1], o) /\ UNCHANGED stack
    BY <1>6, <1>10
  <2>2. UNCHANGED <<ended, code, quitting, fault, tool>>
    BY <1>10 DEF Stay
  <2>3. mTrans = 1 /\ o.stage = "over"
    BY <1>1, <1>10
  <2>4. overtaken' \in {overtaken, TRUE}
    BY <1>10 DEF TypeInv, PromptOpen
  <2> QED BY <1>1, <1>2, <1>10, <2>1, <2>2, <2>3, <2>4
<1>11. CASE /\ Now = "Finished" /\ tool = "gst" /\ ExitLoops("cancel") /\ Return /\ Keep
            /\ UNCHANGED <<tool, needs, ended, visible, apply, fault, overtaken>>
  BY <1>1, <1>2, <1>4, <1>7, <1>11 DEF Keep, ExitLoops
<1>12. CASE Now = "exit" /\ Return /\ Keep /\ Stay /\ UNCHANGED overtaken
  BY <1>1, <1>2, <1>4, <1>7, <1>12 DEF Keep, Stay
<1>13. CASE mTrans = 0 /\ Now \in JobErrors \cup {"Finished"} /\ Crash("null")
  BY <1>1, <1>13
<1>14. CASE ~Alive(now.sender) /\ Crash("dangling")
  BY <1>1, <1>14
<1> QED BY <1>8, <1>9, <1>10, <1>11, <1>12, <1>13, <1>14, SoleSlots

\* A deferred deletion, and the end of a message box.
LEMMA SoleDelete ==
  ASSUME TypeInv, tool # "deb", SoleInv, DeferredDelete
  PROVE  /\ SoleInv' /\ UNCHANGED <<programVars, searchVars, stack, fault, overtaken>>
         /\ objects # <<>> /\ objects' # <<>> /\ Alike(objects'[1], objects[1])
<1>1. PICK i \in DOMAIN objects, r \in Object :
           /\ Becomes(i, r) /\ Alike(r, objects[i])
           /\ objects[i].object = "doomed" /\ r.object = "deleted"
  BY DeferredFacts
<1>2. i = 1 /\ objects # <<>> /\ mTrans \in {0, 1}
  BY OneObject DEF SoleInv
<1>3. objects' # <<>> /\ objects'[1] = r /\ Len(objects') <= 1
  BY <1>1, <1>2, BecomesFacts DEF SoleInv
<1>4. now.signals = <<>> /\ UNCHANGED <<programVars, searchVars, now, stack, fault, overtaken>>
  BY DEF DeferredDelete, LoopRuns
<1>5. SoleTrans /\ SoleNow /\ SoleStack
  BY <1>2 DEF SoleInv
<1>6. SoleTrans' /\ SoleNow' /\ SoleStack'
  BY <1>1, <1>2, <1>3, <1>4, <1>5 DEF SoleTrans, SoleNow, SoleStack, Alike, programVars, PromptFrame
<1> QED BY <1>1, <1>2, <1>3, <1>4, <1>6 DEF SoleInv

LEMMA SoleClose ==
  ASSUME TypeInv, tool # "deb", SoleInv, CloseBox
  PROVE  /\ SoleInv' /\ (objects # <<>> => objects' # <<>> /\ Alike(objects'[1], objects[1]))
         /\ objects = <<>> /\ objects' # <<>> => Top.cont = "offer"
         /\ fault' = fault \/ (fault' = "null" /\ overtaken)
<1> DEFINE o == objects[1]
<1>1. /\ now.signals = <<>> /\ UNCHANGED <<tool, overtaken>>
      /\ Len(stack) \in Nat \ {0} /\ Top \in Frame
      /\ now' = Top.rest
      /\ Len(stack') = Len(stack) - 1
      /\ \A k \in DOMAIN stack' : k \in DOMAIN stack /\ k # Len(stack) /\ stack'[k] = stack[k]
      /\ Len(stack) \in DOMAIN stack
      /\ \/ UNCHANGED <<objects, mTrans>>
         \/ mTrans # 0 /\ Answered /\ UNCHANGED mTrans
         \/ Top.cont = "offer" /\ RunNew(objects, "CommitChanges")
      /\ \/ UNCHANGED fault
         \/ PromptFrame(Top) /\ mTrans = 0 /\ fault' = "null"
  BY CloseFacts DEF CloseBox
<1>2. CASE objects = <<>>
  <2>1. BeforeOffer /\ mTrans = 0
    BY <1>2, OneObject DEF SoleInv
  <2>2. Len(stack) = 1 /\ DOMAIN stack' = {} /\ Len(stack') <= 1
    <3>1. Len(stack) = 1
      BY <1>1, <2>1 DEF BeforeOffer
    <3> QED BY <1>1, <3>1, CloseFacts
  <2>3. Top.cont \in {"offer", "search"} /\ now'.signals = <<>>
    BY <1>1, <2>1 DEF BeforeOffer, Top
  <2>4. fault' = fault
    BY <1>1, <2>3 DEF PromptFrame
  <2>5. CASE UNCHANGED <<objects, mTrans>>
    <3>1. BeforeOffer'
      BY <2>2, <2>3 DEF BeforeOffer
    <3> QED BY <1>2, <2>4, <2>5, <3>1 DEF SoleInv
  <2>6. CASE Top.cont = "offer" /\ RunNew(objects, "CommitChanges")
    <3>1. /\ Len(objects') = Len(objects) + 1 /\ mTrans' = Len(objects) + 1
          /\ objects'[mTrans'] = NewObject("CommitChanges") /\ objects' \in Seq(Object)
      BY <2>6, RunFacts DEF TypeInv
    <3>2. Len(objects) = 0
      BY <1>2
    <3>3. Len(objects') = 1 /\ mTrans' = 1 /\ objects'[1].stage = "running" /\ objects'[1].object = "alive"
      BY <3>1, <3>2, NewObjectFacts
    <3>4. ~Telling(<<>>) /\ \A s : <<s>> # <<>>
      BY DEF Telling, Whole, Half
    <3>5. SoleTrans' /\ SoleNow' /\ SoleStack'
      BY <2>2, <2>3, <3>3, <3>4 DEF SoleTrans, SoleNow, SoleStack
    <3>6. objects' # <<>>
      BY <3>3
    <3> QED BY <1>2, <2>4, <2>6, <3>3, <3>5, <3>6 DEF SoleInv
  <2> QED BY <1>1, <2>1, <2>5, <2>6
<1>3. CASE objects # <<>>
  <2>1. SoleTrans /\ SoleNow /\ SoleStack /\ mTrans \in {0, 1} /\ o \in Object
    BY <1>3, OneObject DEF SoleInv
  <2>2. /\ Top.cont \notin {"offer", "search"} /\ now'.signals \in {<<>>, Half}
        /\ PromptFrame(Top) /\ mTrans = 0 => overtaken
        /\ now'.signals = Half =>
             /\ now'.sender = 1 /\ o.stage = "over" /\ mTrans = 1
             /\ \A j \in DOMAIN stack' : stack'[j].rest.signals = <<>>
    BY <1>1, <2>1 DEF SoleStack, Top
  <2>3. \E r \in Object : /\ objects' # <<>> /\ objects'[1] = r /\ Len(objects') <= 1
                          /\ Alike(r, o) /\ r.object = o.object /\ UNCHANGED mTrans
    <3>1. CASE UNCHANGED <<objects, mTrans>>
      BY <1>3, <2>1, <3>1 DEF SoleInv, Alike
    <3>2. CASE mTrans # 0 /\ Answered /\ UNCHANGED mTrans
      <4>1. PICK r \in Object : Becomes(mTrans, r) /\ Alike(r, o) /\ r.object = o.object
        BY <2>1, <3>2, AnswerFacts
      <4>2. mTrans \in DOMAIN objects /\ mTrans = 1
        BY <2>1, <3>2, AnswerFacts
      <4> QED BY <1>3, <3>2, <4>1, <4>2, BecomesFacts DEF SoleInv
    <3> QED BY <1>1, <2>2, <3>1, <3>2
  <2>4. /\ ~Telling(<<>>) /\ Telling(Half) /\ Half # <<>>
        /\ \A s : <<s>> # <<>> /\ <<s>> # Half
    <3>1. Half # <<>> /\ \A s : <<s>> # <<>>
      BY DEF Half
    <3>2. Len(Half) = 2 /\ \A s : Len(<<s>>) = 1
      BY DEF Half
    <3>3. ~Telling(<<>>) /\ Telling(Half)
      BY DEF Telling, Whole, Half
    <3> QED BY <3>1, <3>2, <3>3
  <2>5. SoleTrans'
    BY <2>1, <2>3 DEF SoleTrans, Alike
  <2>6. SoleNow'
    <3>1. PICK r \in Object : objects'[1] = r /\ r.stage = o.stage /\ r.object = o.object /\ mTrans' = mTrans
      BY <2>3 DEF Alike
    <3>2. CASE now'.signals = <<>>
      <4>1. ~Telling(now'.signals) /\ \A s : now'.signals # <<s>>
        BY <2>4, <3>2
      <4> QED BY <3>2, <4>1 DEF SoleNow, Telling
    <3>3. CASE now'.signals = Half
      <4>1. now'.sender = 1 /\ o.stage = "over" /\ mTrans = 1 /\ o.object = "alive" /\ \A s : now'.signals # <<s>>
        BY <2>1, <2>2, <2>4, <3>3 DEF SoleTrans
      <4> QED BY <3>1, <4>1 DEF SoleNow
    <3> QED BY <2>2, <3>2, <3>3
  <2>7. SoleStack'
    <3> SUFFICES ASSUME NEW k \in DOMAIN stack'
                 PROVE  /\ stack'[k].cont \notin {"offer", "search"}
                        /\ stack'[k].rest.signals \in {<<>>, Half}
                        /\ stack'[k].rest.signals = Half =>
                             /\ stack'[k].rest.sender = 1 /\ objects'[1].stage = "over" /\ mTrans' = 1
                             /\ ~Telling(now'.signals)
                             /\ \A j \in DOMAIN stack' \ {k} : stack'[j].rest.signals = <<>>
                        /\ PromptFrame(stack'[k]) /\ mTrans' = 0 => overtaken'
      BY DEF SoleStack, PromptFrame
    <3>1. k \in DOMAIN stack /\ stack'[k] = stack[k]
      BY <1>1
    <3>2. stack[k].rest.signals = Half =>
             /\ now'.signals = <<>>
             /\ \A j \in DOMAIN stack' \ {k} : stack'[j].rest.signals = <<>>
      BY <1>1, <2>1, <3>1 DEF SoleStack, Top
    <3> QED BY <1>1, <2>1, <2>3, <2>4, <3>1, <3>2 DEF SoleStack, Alike, PromptFrame
  <2> QED BY <1>1, <1>3, <2>2, <2>3, <2>5, <2>6, <2>7 DEF SoleInv
<1> QED BY <1>2, <1>3

LEMMA SoleFinder ==
  ASSUME TypeInv, SoleInv, HelperInv, FinderReports
  PROVE  SoleInv' /\ objects = <<>>
<1>1. /\ stack = <<>> /\ left > 0 /\ now.signals = <<>>
      /\ UNCHANGED <<mTrans, objects, now>>
      /\ stack' = stack \/ stack' = <<[cont |-> "offer", rest |-> Quiet]>>
  BY FinderFacts DEF LoopRuns
<1>2. objects = <<>>
  BY <1>1 DEF HelperInv, TypeInv
<1> DEFINE f == [cont |-> "offer", rest |-> Quiet]
<1>3. f.cont = "offer" /\ f.rest.signals = <<>>
  BY DEF Quiet
<1> HIDE DEF f
<1>4. Len(stack') <= 1 /\ \A k \in DOMAIN stack' : stack'[k] = f
  <2>1. CASE stack' = <<>>
    BY <2>1
  <2>2. CASE stack' = <<f>>
    BY <2>2
  <2> QED BY <1>1, <2>1, <2>2 DEF f
<1>5. BeforeOffer'
  BY <1>1, <1>3, <1>4 DEF BeforeOffer
<1> QED BY <1>1, <1>2, <1>5 DEF SoleInv

LEMMA SoleNext ==
  ASSUME IInv, tool # "deb", [Next]_vars
  PROVE  SoleInv' /\ UNCHANGED tool
<1>1. TypeInv /\ SoleInv /\ (tool = "gst" => HelperInv)
  BY DEF IInv
<1>2. ASSUME UNCHANGED <<objects, mTrans, now, stack, overtaken>> PROVE SoleInv'
  BY <1>1, <1>2 DEF SoleInv, BeforeOffer, SoleTrans, SoleNow, SoleStack, PromptFrame
<1>3. CASE UNCHANGED vars
  BY <1>2, <1>3 DEF vars, programVars
<1>4. CASE Event
  BY <1>1, <1>4, SoleEvent
<1>5. CASE Dispatch
  BY <1>1, <1>5, SoleDispatch
<1>6. CASE DeferredDelete
  BY <1>1, <1>6, SoleDelete DEF programVars
<1>7. CASE CloseBox
  BY <1>1, <1>7, SoleClose DEF CloseBox
<1>8. CASE ExecReturns
  BY <1>2, <1>8 DEF ExecReturns
<1>9. CASE UserCloses
  BY <1>2, <1>9 DEF UserCloses
<1>10. CASE FinderReports
  BY <1>1, <1>10, SoleFinder, FinderFacts
<1>11. CASE InstallDebFile
  BY <1>11 DEF InstallDebFile
<1> QED BY <1>3, <1>4, <1>5, <1>6, <1>7, <1>8, <1>9, <1>10, <1>11 DEF Next

-----------------------------------------------------------------------------
(* qapt-gst-helper: its exit codes *)

\* The exit codes of message boxes and of the main window.
LEMMA LeaveFacts ==
  ASSUME tool = "gst", UserCloses \/ CloseBox
  PROVE  /\ ~ended
         /\ \/ UNCHANGED <<ended, code, quitting>>
            \/ UNCHANGED ended /\ quitting' = TRUE /\ code' \in {"1", "randomError", "cancel"}
            \/ done /\ UNCHANGED ended /\ quitting' = TRUE /\ code' = "0"
            \/ ended' = TRUE /\ code' \in {"cancel", "crash"}
            \/ partial /\ ended' = TRUE /\ code' = "partialSuccess"
            \/ CloseBox /\ Last(stack).cont = "close"
         /\ UNCHANGED <<tool, done, left, found, partial>>
<1>1. ASSUME RejectHelper
      PROVE  \/ done /\ UNCHANGED ended /\ quitting' = TRUE /\ code' = "0"
             \/ ended' = TRUE /\ code' \in {"cancel", "crash"}
             \/ partial /\ ended' = TRUE /\ code' = "partialSuccess"
  <2>1. CASE done
    BY <1>1, <2>1 DEF RejectHelper, ExitLoops
  <2>2. CASE ~done /\ partial
    BY <1>1, <2>2 DEF RejectHelper
  <2>3. CASE ~done /\ ~partial
    BY <1>1, <2>3 DEF RejectHelper
  <2> QED BY <2>1, <2>2, <2>3
<1>2. CASE UserCloses
  <2>1. /\ ~ended /\ RejectHelper
        /\ UNCHANGED <<tool, done, left, found, partial>>
    BY <1>2 DEF UserCloses, WindowActive, LoopRuns, searchVars
  <2> QED BY <1>1, <2>1
<1>3. CASE CloseBox
  <2>1. /\ ~ended /\ Continue(Last(stack).cont)
        /\ UNCHANGED <<tool, done, left, found, partial>>
    BY <1>3 DEF CloseBox, searchVars
  <2>2. ASSUME NEW yes \in BOOLEAN, Reply(yes), UNCHANGED ended
        PROVE  \/ UNCHANGED <<ended, code, quitting>>
               \/ UNCHANGED ended /\ quitting' = TRUE /\ code' \in {"1", "randomError", "cancel"}
    <3>1. CASE yes
      BY <2>2, <3>1 DEF Reply
    <3>2. CASE ~yes
      BY <2>2, <3>2 DEF Reply, ExitLoops
    <3> QED BY <3>1, <3>2
  <2>3. \/ UNCHANGED <<ended, code, quitting>>
        \/ \E yes \in BOOLEAN : Reply(yes) /\ UNCHANGED ended
        \/ ended' = TRUE /\ code' = "crash"
        \/ Last(stack).cont = "close"
        \/ UNCHANGED ended /\ quitting' = TRUE /\ code' \in {"1", "randomError", "cancel"}
        \/ RejectHelper
    BY <2>1 DEF Continue, ExitLoops
  <2> QED BY <1>1, <1>3, <2>1, <2>2, <2>3
<1> QED BY <1>2, <1>3

\* What an exit code of the helper rests on is true for good.
HelperKeeps ==
  /\ done' => objects' # <<>> /\ objects'[1].exit = "Success" /\ objects'[1].stage = "over"
  /\ objects' # <<>> => left' = 0
  /\ \A k \in DOMAIN stack' : stack'[k].cont # "close" /\ (stack'[k].cont = "offer" => left' = 0)

LEMMA HelperNext ==
  ASSUME IInv, tool = "gst", [Next]_vars
  PROVE  HelperInv' /\ UNCHANGED tool
<1>1. TypeInv /\ SoleInv /\ HelperInv
  BY DEF IInv
<1>2. left \in Nat /\ found \in Nat /\ Plugins \in Nat
  BY <1>1, ConstantsAssumption DEF TypeInv
<1>3. ASSUME HelperKeeps, UNCHANGED <<left, found, partial>>,
             code' # "none" => quitting' \/ ended',
             code' \in {"noPlugins", "partialSuccess"} => ended'
      PROVE  HelperInv'
  BY <1>1, <1>3 DEF HelperInv, HelperKeeps
<1>4. ASSUME UNCHANGED <<done, objects, stack, left, found, partial>>,
             code' # "none" => quitting' \/ ended',
             code' \in {"noPlugins", "partialSuccess"} => ended'
      PROVE  HelperInv'
  BY <1>1, <1>4 DEF HelperInv
<1>5. ASSUME UNCHANGED <<ended, code, quitting>>
      PROVE  /\ code' # "none" => quitting' \/ ended'
             /\ code' \in {"noPlugins", "partialSuccess"} => ended'
  BY <1>1, <1>5 DEF HelperInv
<1>6. CASE UNCHANGED vars
  BY <1>4, <1>5, <1>6 DEF vars, programVars, searchVars
<1>7. CASE Event
  <2>1. PICK i \in DOMAIN objects, r \in Object, e \in Shapes : Emit(i, r, e) /\ Effect(objects[i], r, e)
    BY <1>1, <1>7, EventFacts
  <2>2. i = 1 /\ objects # <<>>
    BY <1>1, OneObject DEF SoleInv
  <2>3. Becomes(1, r) /\ UNCHANGED <<programVars, searchVars, stack>>
    BY <2>1, <2>2 DEF Emit, Becomes
  <2>4. objects' # <<>> /\ objects'[1] = r
    <3>1. 1 \in DOMAIN objects
      BY <2>2
    <3>2. objects'[1] = r
      BY <1>1, <2>3, <3>1, BecomesFacts
    <3> QED BY <1>1, <1>7, <3>2, SoleEvent
  <2>5. objects[1].stage = "over" => r.stage = "over" /\ r.exit = objects[1].exit
    BY <2>1, <2>2 DEF Effect
  <2>6. HelperKeeps
    BY <1>1, <2>2, <2>3, <2>4, <2>5 DEF HelperInv, HelperKeeps, programVars, searchVars
  <2>7. UNCHANGED <<tool, ended, code, quitting, left, found, partial>>
    BY <2>3 DEF programVars, searchVars
  <2> QED BY <1>3, <1>5, <2>6, <2>7
<1>8. CASE Dispatch
  <2>1. /\ UNCHANGED <<tool, searchVars>>
        /\ objects' # <<>> /\ objects # <<>> /\ Alike(objects'[1], objects[1])
        /\ \A k \in DOMAIN stack' : (k \in DOMAIN stack /\ stack'[k] = stack[k]) \/ NewFrame(stack'[k])
        /\ \/ UNCHANGED <<ended, code, quitting, done>>
           \/ UNCHANGED <<ended, done>> /\ quitting' /\ code' = "cancel"
           \/ /\ UNCHANGED <<ended, code, quitting>> /\ objects[1].stage = "over"
              /\ done' = (objects[1].exit = "Success")
    BY <1>1, <1>8, SoleDispatch
  <2>2. \A k \in DOMAIN stack' : stack'[k].cont # "close" /\ (stack'[k].cont = "offer" => left' = 0)
    BY <1>1, <2>1 DEF HelperInv, NewFrame, searchVars
  <2>3. done' => objects'[1].exit = "Success" /\ objects'[1].stage = "over"
    BY <1>1, <2>1 DEF HelperInv, Alike
  <2>4. HelperKeeps
    BY <1>1, <2>1, <2>2, <2>3 DEF HelperKeeps, HelperInv, searchVars
  <2>5. /\ code' # "none" => quitting' \/ ended'
        /\ code' \in {"noPlugins", "partialSuccess"} => ended'
    BY <1>1, <2>1 DEF HelperInv
  <2> QED BY <1>3, <2>1, <2>4, <2>5 DEF searchVars
<1>9. CASE DeferredDelete
  <2>1. /\ UNCHANGED <<programVars, searchVars, stack>>
        /\ objects # <<>> /\ objects' # <<>> /\ Alike(objects'[1], objects[1])
    BY <1>1, <1>9, SoleDelete
  <2>2. HelperKeeps
    BY <1>1, <2>1 DEF HelperKeeps, HelperInv, Alike, programVars, searchVars
  <2> QED BY <1>3, <1>5, <2>1, <2>2 DEF programVars, searchVars
<1>10. CASE CloseBox
  <2>1. /\ objects # <<>> => objects' # <<>> /\ Alike(objects'[1], objects[1])
        /\ objects = <<>> /\ objects' # <<>> => Top.cont = "offer"
        /\ \A k \in DOMAIN stack' : k \in DOMAIN stack /\ stack'[k] = stack[k]
        /\ Len(stack) \in DOMAIN stack /\ Last(stack) = Top
    <3>1. Last(stack) = Top
      BY DEF Last, Top
    <3> QED BY <1>1, <1>10, <3>1, SoleClose, CloseFacts
  <2>2. /\ \/ UNCHANGED <<ended, code, quitting>>
           \/ UNCHANGED ended /\ quitting' = TRUE /\ code' \in {"1", "randomError", "cancel"}
           \/ done /\ UNCHANGED ended /\ quitting' = TRUE /\ code' = "0"
           \/ ended' = TRUE /\ code' \in {"cancel", "crash"}
           \/ partial /\ ended' = TRUE /\ code' = "partialSuccess"
        /\ UNCHANGED <<tool, done, left, found, partial>>
    BY <1>1, <1>10, <2>1, LeaveFacts DEF HelperInv, Top
  <2>3. HelperKeeps
    BY <1>1, <2>1, <2>2 DEF HelperKeeps, HelperInv, Alike, Top
  <2>4. /\ code' # "none" => quitting' \/ ended'
        /\ code' \in {"noPlugins", "partialSuccess"} => ended'
    BY <1>1, <2>2 DEF HelperInv
  <2> QED BY <1>3, <2>2, <2>3, <2>4
<1>11. CASE ExecReturns
  BY <1>4, <1>11 DEF ExecReturns, searchVars
<1>12. CASE UserCloses
  <2>1. /\ \/ UNCHANGED <<ended, code, quitting>>
           \/ UNCHANGED ended /\ quitting' = TRUE /\ code' \in {"1", "randomError", "cancel"}
           \/ done /\ UNCHANGED ended /\ quitting' = TRUE /\ code' = "0"
           \/ ended' = TRUE /\ code' \in {"cancel", "crash"}
           \/ partial /\ ended' = TRUE /\ code' = "partialSuccess"
        /\ UNCHANGED <<tool, done, left, found, partial>>
    <3>1. ~CloseBox
      BY <1>12 DEF CloseBox, UserCloses, WindowActive
    <3> QED BY <1>12, <3>1, LeaveFacts
  <2>2. UNCHANGED <<objects, stack>>
    BY <1>12 DEF UserCloses
  <2>3. /\ code' # "none" => quitting' \/ ended'
        /\ code' \in {"noPlugins", "partialSuccess"} => ended'
    BY <1>1, <2>1 DEF HelperInv
  <2> QED BY <1>4, <2>1, <2>2, <2>3
<1>13. CASE FinderReports
  <2>1. /\ stack = <<>> /\ left > 0 /\ left' = left - 1
        /\ \/ found' = found + 1 /\ partial' = partial
           \/ partial' = TRUE /\ found' = found
        /\ \/ UNCHANGED <<stack, ended, code>>
           \/ UNCHANGED stack /\ ~(left' > 0) /\ ended' = TRUE /\ code' = "noPlugins"
           \/ /\ ~(left' > 0) /\ stack' = <<[cont |-> "offer", rest |-> Quiet]>>
              /\ UNCHANGED <<ended, code>>
        /\ UNCHANGED <<tool, quitting, done, objects>>
    BY <1>13, FinderFacts
  <2>2. objects = <<>> /\ ~done
    BY <1>1, <1>2, <2>1 DEF HelperInv
  <2>3. \A k \in DOMAIN stack' : stack'[k].cont # "close" /\ (stack'[k].cont = "offer" => left' = 0)
    <3>1. CASE stack' = <<>>
      BY <3>1
    <3>2. CASE ~(left' > 0) /\ stack' = <<[cont |-> "offer", rest |-> Quiet]>>
      <4>1. left' = 0
        BY <1>2, <2>1, <3>2
      <4> QED BY <3>2, <4>1
    <3> QED BY <2>1, <3>1, <3>2
  <2>4. found' + left' <= Plugins
    BY <1>1, <1>2, <2>1 DEF HelperInv
  <2>5. partial' => found' + left' < Plugins
    <3>1. CASE found' = found + 1 /\ partial' = partial
      <4>1. partial' => found + left < Plugins
        BY <1>1, <3>1, Zenon DEF HelperInv
      <4>2. found' + left' = found + left
        BY <1>2, <2>1, <3>1
      <4> QED BY <4>1, <4>2
    <3>2. CASE found' = found
      BY <1>1, <1>2, <2>1, <3>2 DEF HelperInv
    <3> QED BY <2>1, <3>1, <3>2
  <2>6. /\ code' # "none" => quitting' \/ ended'
        /\ code' \in {"noPlugins", "partialSuccess"} => ended'
    BY <1>1, <2>1 DEF HelperInv
  <2> QED BY <2>1, <2>2, <2>3, <2>4, <2>5, <2>6 DEF HelperInv
<1>14. CASE InstallDebFile
  BY <1>14 DEF InstallDebFile
<1> QED BY <1>6, <1>7, <1>8, <1>9, <1>10, <1>11, <1>12, <1>13, <1>14 DEF Next, vars, programVars, ExecReturns

-----------------------------------------------------------------------------
(* qapt-deb-installer: one transaction after the other *)

LEMMA InstallerObjects ==
  ASSUME TypeInv, InstallerInv
  PROVE  /\ Len(objects) \in Nat /\ DOMAIN objects = 1..Len(objects)
         /\ objects # <<>> => mTrans \in DOMAIN objects
         /\ \A i \in DOMAIN objects : objects[i] \in Object /\ objects # <<>> /\ i <= mTrans
<1>1. objects \in Seq(Object) /\ mTrans = Len(objects)
  BY DEF TypeInv, InstallerInv
<1>2. Len(objects) \in Nat /\ DOMAIN objects = 1..Len(objects) /\ (objects # <<>> => Len(objects) # 0)
  BY <1>1
<1>3. \A i \in DOMAIN objects : objects[i] \in Object /\ objects # <<>>
  BY <1>1
<1> QED BY <1>1, <1>2, <1>3

LEMMA InstallerEvent ==
  ASSUME TypeInv, tool = "deb", InstallerInv, Event
  PROVE  InstallerInv' /\ UNCHANGED tool
<1>1. PICK i \in DOMAIN objects, r \in Object, e \in Shapes : Emit(i, r, e) /\ Effect(objects[i], r, e)
  BY EventFacts
<1>2. /\ Becomes(i, r) /\ now.signals = <<>> /\ Alive(i)
      /\ now' = IF e = <<>> THEN now ELSE [sender |-> i, signals |-> e]
      /\ UNCHANGED <<mTrans, stack, tool, needs, apply>>
  BY <1>1 DEF Emit, Becomes, LoopRuns, programVars
<1>3. /\ Len(objects') = Len(objects) /\ DOMAIN objects' = DOMAIN objects
      /\ \A j \in DOMAIN objects : objects'[j] = IF j = i THEN r ELSE objects[j]
  BY <1>2, BecomesFacts
<1>4. /\ r.role = objects[i].role /\ r.object = objects[i].object
      /\ objects[i].denied => r.denied
      /\ objects[i].stage = "over" => r.stage = "over"
      /\ Telling(e) => r.stage = "over"
      /\ e = Whole => r.error = "WorkerDisappeared"
      /\ e = <<"AuthError">> => r.denied
      /\ e \in {<<>>, Whole} \cup {<<s>> : s \in Midway \cup {"AuthError", "Finished"}}
  BY <1>1 DEF Effect
<1>5. now'.signals = e /\ (e # <<>> => now'.sender = i)
  BY <1>2
<1>6. e # Half /\ e # <<"exit">>
  <2>1. Len(Half) = 2 /\ Len(Whole) = 3 /\ Half # <<>> /\ \A s : Len(<<s>>) = 1 /\ <<s>>[1] = s /\ <<s>> # <<>>
    BY DEF Half, Whole
  <2>2. "exit" \notin Midway \cup {"AuthError", "Finished"}
    BY DEF Midway, JobErrors, Prompts
  <2>3. CASE e = <<>>
    <3>1. e # Half
      BY <2>1, <2>3
    <3>2. e # <<"exit">>
      <4>1. Len(<<"exit">>) = 1 /\ Len(<<>>) = 0
        OBVIOUS
      <4>2. <<>> # <<"exit">>
        BY <4>1
      <4> QED BY <2>3, <4>2
    <3> QED BY <3>1, <3>2
  <2>4. CASE e = Whole
    <3>1. Len(e) = 3
      BY <2>1, <2>4
    <3>2. e # Half
      BY <2>1, <3>1
    <3>3. e # <<"exit">>
      BY <3>1
    <3> QED BY <3>2, <3>3
  <2>5. ASSUME NEW s \in Midway \cup {"AuthError", "Finished"}, e = <<s>>
        PROVE  e # Half /\ e # <<"exit">>
    <3>1. Len(e) = 1 /\ e[1] = s /\ s # "exit"
      BY <2>1, <2>2, <2>5
    <3>2. <<"exit">>[1] = "exit"
      OBVIOUS
    <3> QED BY <2>1, <3>1, <3>2
  <2> QED BY <1>4, <2>3, <2>4, <2>5
<1>7. InstallerNow'
  BY <1>2, <1>3, <1>4, <1>5, <1>6 DEF InstallerNow, Alive, Telling
<1>8. i = mTrans \/ (\E j \in DOMAIN objects : objects[j].denied)
  BY <1>2, InstallerObjects DEF InstallerInv, OneAfterTheOther, Alive
<1>9. OneAfterTheOther'
  <2> SUFFICES ASSUME \A j \in DOMAIN objects' : ~objects'[j].denied
               PROVE  /\ apply' = "enabled" => objects' = <<>>
                      /\ \A j \in DOMAIN objects' :
                           j < Len(objects') => objects'[j].object = "deleted" /\ objects'[j].stage = "over"
    BY DEF OneAfterTheOther
  <2>1. \A j \in DOMAIN objects : ~objects[j].denied
    BY <1>3, <1>4
  <2>2. i = mTrans /\ i = Len(objects)
    BY <1>8, <2>1 DEF InstallerInv
  <2>3. apply # "enabled"
    BY <2>1, InstallerObjects DEF InstallerInv, OneAfterTheOther
  <2>4. \A j \in DOMAIN objects :
          j < Len(objects) => objects[j].object = "deleted" /\ objects[j].stage = "over"
    BY <2>1 DEF InstallerInv, OneAfterTheOther
  <2> QED BY <1>2, <1>3, <2>2, <2>3, <2>4
<1>10. objects # <<>> /\ mTrans \in DOMAIN objects
  BY InstallerObjects
<1>11. objects'[mTrans].object = "alive"
  BY <1>3, <1>4, <1>10 DEF InstallerInv
<1>12. \A j \in DOMAIN objects' : objects'[j].role = "CommitChanges" => needs'
  BY <1>2, <1>3, <1>4 DEF InstallerInv
<1> QED BY <1>2, <1>3, <1>7, <1>9, <1>11, <1>12 DEF InstallerInv

\* What is told, and to whom.
LEMMA InstallerTells ==
  ASSUME TypeInv, tool = "deb", InstallerInv, Dispatch
  PROVE  /\ now.signals # <<>> /\ now.signals \in Shapes /\ UNCHANGED searchVars
         /\ now.sender \in DOMAIN objects /\ mTrans \in DOMAIN objects /\ objects # <<>>
         /\ Alive(mTrans)
         /\ Now = "Finished" =>
              /\ Telling(now.signals) /\ objects[now.sender].stage = "over"
              /\ Tail(now.signals) \in {<<>>, <<"exit">>}
              /\ Tail(now.signals) = <<"exit">> => objects[now.sender].error = "WorkerDisappeared"
         /\ Now = "AuthError" => objects[now.sender].denied
         /\ Now # "WorkerDisappeared" => Tail(now.signals) \in {<<>>, <<"exit">>}
         /\ Now \notin {"Finished", "WorkerDisappeared"} => Tail(now.signals) = <<>>
         /\ Now = "WorkerDisappeared" /\ Tail(now.signals) # <<>> =>
              /\ Tail(now.signals) = Half /\ objects[now.sender].error = "WorkerDisappeared"
              /\ objects[now.sender].stage = "over"
<1>1. now.signals # <<>> /\ now.signals \in Shapes /\ UNCHANGED searchVars
  BY DEF Dispatch, TypeInv, Emission
<1>2. InstallerNow /\ now.sender \in DOMAIN objects
  BY <1>1 DEF InstallerInv, InstallerNow
<1>3. objects # <<>> /\ mTrans \in DOMAIN objects /\ Alive(mTrans)
  BY <1>2, InstallerObjects DEF InstallerInv, Alive
<1>4. /\ now.signals = Whole => Now = "WorkerDisappeared" /\ Tail(now.signals) = Half
      /\ now.signals = Half => Now = "Finished" /\ Tail(now.signals) = <<"exit">>
      /\ now.signals \notin {Whole, Half} => now.signals = <<Now>> /\ Tail(now.signals) = <<>>
      /\ Half # <<>> /\ <<"exit">> # <<>>
  BY <1>1, ShapeFacts DEF Now
<1>5. Now = "Finished" => Telling(now.signals) /\ (Tail(now.signals) = <<"exit">> => now.signals = Half)
  BY <1>4 DEF Telling
<1>6. Now = "WorkerDisappeared" /\ Tail(now.signals) # <<>> => now.signals = Whole
  BY <1>4
<1>7. Now = "AuthError" => now.signals = <<"AuthError">>
  BY <1>4
<1>8. Telling(Whole)
  BY DEF Telling
<1> QED BY <1>1, <1>2, <1>3, <1>4, <1>5, <1>6, <1>7, <1>8 DEF InstallerNow

LEMMA InstallerDispatch ==
  ASSUME TypeInv, tool = "deb", InstallerInv, Dispatch
  PROVE  /\ InstallerInv' /\ UNCHANGED tool
         /\ \/ UNCHANGED fault
            \/ /\ fault' = "dangling" /\ needs' /\ UNCHANGED objects
               /\ now.sender \in DOMAIN objects /\ objects[now.sender].error = "WorkerDisappeared"
<1>1. /\ now.signals # <<>> /\ now.signals \in Shapes /\ UNCHANGED searchVars
      /\ now.sender \in DOMAIN objects /\ mTrans \in DOMAIN objects /\ objects # <<>>
      /\ Alive(mTrans)
      /\ Now = "Finished" =>
           /\ Telling(now.signals) /\ objects[now.sender].stage = "over"
           /\ Tail(now.signals) \in {<<>>, <<"exit">>}
           /\ Tail(now.signals) = <<"exit">> => objects[now.sender].error = "WorkerDisappeared"
      /\ Now = "AuthError" => objects[now.sender].denied
      /\ Now # "WorkerDisappeared" => Tail(now.signals) \in {<<>>, <<"exit">>}
      /\ Now \notin {"Finished", "WorkerDisappeared"} => Tail(now.signals) = <<>>
      /\ Now = "WorkerDisappeared" /\ Tail(now.signals) # <<>> =>
           /\ Tail(now.signals) = Half /\ objects[now.sender].error = "WorkerDisappeared"
           /\ objects[now.sender].stage = "over"
  BY InstallerTells
<1>2. /\ mTrans = Len(objects) /\ objects[mTrans].object = "alive"
      /\ \A k \in DOMAIN stack : stack[k].cont = "nothing" /\ stack[k].rest.signals = <<>>
      /\ \A i \in DOMAIN objects : objects[i].role = "CommitChanges" => needs
      /\ InstallerNow /\ OneAfterTheOther
  BY <1>1 DEF InstallerInv
<1>3. /\ Rest.sender = now.sender /\ Rest.signals = Tail(now.signals)
      /\ ~Telling(<<>>) /\ ~Telling(<<"exit">>) /\ <<"exit">> # <<"AuthError">>
      /\ Half # <<"AuthError">> /\ \A s : <<s>> # Half /\ <<s>> # Whole /\ <<s>> # <<>>
  <2>1. \A s : <<s>> # Half /\ <<s>> # Whole /\ <<s>> # <<>> /\ <<s>>[1] = s
    BY <1>1, ShapeFacts
  <2>2. <<"exit">> # <<"AuthError">> /\ <<"exit">> # <<"Finished">>
    BY <2>1
  <2>3. ~Telling(<<>>)
    BY DEF Telling, Whole, Half
  <2> QED BY <1>1, <2>1, <2>2, <2>3, RestFacts DEF Telling
<1>4. ASSUME NEW how, Crash(how) PROVE InstallerInv' /\ UNCHANGED <<tool, needs, objects>> /\ fault' = how
  BY <1>2, <1>4 DEF Crash, InstallerInv, InstallerNow, OneAfterTheOther, Alive, Telling
\* A slot that looks at nothing but the signal.
<1>5. ASSUME Return, UNCHANGED <<objects, mTrans, needs>>, Alive(now.sender),
             apply' = apply \/ apply' # "enabled" \/ objects[now.sender].denied
      PROVE  InstallerInv'
  <2>1. now' = Rest /\ UNCHANGED stack
    BY <1>5 DEF Return
  <2>2. InstallerNow'
    <3>1. CASE Tail(now.signals) = <<>>
      BY <1>3, <2>1, <3>1 DEF InstallerNow
    <3>2. CASE Now = "Finished" /\ Tail(now.signals) = <<"exit">>
      BY <1>1, <1>3, <1>5, <2>1, <3>2 DEF InstallerNow, Alive
    <3>3. CASE Now = "WorkerDisappeared" /\ Tail(now.signals) # <<>>
      BY <1>1, <1>3, <1>5, <2>1, <3>3 DEF InstallerNow, Alive
    <3> QED BY <1>1, <3>1, <3>2, <3>3
  <2>3. OneAfterTheOther'
    BY <1>1, <1>2, <1>5 DEF OneAfterTheOther
  <2> QED BY <1>2, <1>5, <2>1, <2>2, <2>3 DEF InstallerInv
<1>6. CASE ~Alive(now.sender) /\ Crash("dangling")
  <2>1. needs /\ now.signals = <<"exit">> /\ objects[now.sender].error = "WorkerDisappeared"
    BY <1>1, <1>2, <1>6 DEF InstallerNow
  <2> QED BY <1>1, <1>4, <1>6, <2>1
<1>7. CASE Now = "InitError" /\ Alive(now.sender) /\ Open("nothing")
  <2>1. /\ now'.signals = <<>> /\ stack' = Append(stack, [cont |-> "nothing", rest |-> Rest])
        /\ UNCHANGED <<programVars, objects, fault>>
    BY <1>1, <1>7, OpenFacts DEF Continuations
  <2> DEFINE f == [cont |-> "nothing", rest |-> Rest]
  <2>2. f.cont = "nothing" /\ f.rest.signals = <<>>
    BY <1>1, <1>3, <1>7
  <2>3. f \in Frame /\ stack \in Seq(Frame)
    BY <1>1, RestFacts DEF Frame, Continuations, TypeInv
  <2> HIDE DEF f
  <2>4. \A k \in DOMAIN stack' : stack'[k] = f \/ (k \in DOMAIN stack /\ stack'[k] = stack[k])
    <3>1. stack' = Append(stack, f)
      BY <2>1 DEF f
    <3> QED BY <2>3, <3>1, AppendFacts
  <2> QED BY <1>2, <2>1, <2>2, <2>4 DEF InstallerInv, InstallerNow, OneAfterTheOther, programVars
<1>8. CASE /\ Now = "AuthError" /\ Alive(now.sender)
           /\ Return /\ Keep
           /\ UNCHANGED <<tool, needs, ended, code, quitting, visible, fault, overtaken>>
           /\ apply' \in {apply, "enabled"}
  BY <1>1, <1>5, <1>8 DEF Keep
<1>9. CASE /\ Now = "Finished" /\ Alive(now.sender) /\ Alive(mTrans) /\ objects[mTrans].role = "CommitChanges"
           /\ RunNew([objects EXCEPT ![mTrans].object = "deleted"], "InstallFile")
           /\ Return
           /\ UNCHANGED <<apply, tool, needs, ended, code, quitting, visible, done, fault, overtaken>>
  <2>1. /\ Len(objects') = Len(objects) + 1
        /\ DOMAIN objects' = 1..(Len(objects) + 1) /\ DOMAIN objects = 1..Len(objects)
        /\ Len(objects) \in Nat
        /\ mTrans' = Len(objects) + 1
        /\ objects'[mTrans'] = NewObject("InstallFile")
        /\ \A j \in DOMAIN objects :
             /\ Alike(objects'[j], objects[j])
             /\ objects'[j].object = IF j = mTrans THEN "deleted" ELSE objects[j].object
    BY <1>1, <1>9, DebFileFacts
  <2>2. now' = Rest /\ UNCHANGED stack /\ needs
    BY <1>1, <1>2, <1>9 DEF Return
  <2>3. /\ objects'[mTrans'].role = "InstallFile" /\ objects'[mTrans'].object = "alive"
        /\ ~objects'[mTrans'].denied
    BY <2>1, NewObjectFacts
  <2>4. InstallerNow'
    <3>1. CASE Tail(now.signals) = <<>>
      BY <1>3, <2>2, <3>1 DEF InstallerNow
    <3>2. CASE Tail(now.signals) = <<"exit">>
      <4>1. now.sender \in DOMAIN objects' /\ objects'[now.sender].error = "WorkerDisappeared"
        BY <1>1, <1>9, <2>1, <3>2 DEF Alike
      <4> QED BY <1>3, <1>9, <2>2, <3>2, <4>1 DEF InstallerNow
    <3> QED BY <1>1, <1>9, <3>1, <3>2
  <2>5. OneAfterTheOther'
    <3> SUFFICES ASSUME \A j \in DOMAIN objects' : ~objects'[j].denied
                 PROVE  /\ apply' = "enabled" => objects' = <<>>
                        /\ \A j \in DOMAIN objects' :
                             j < Len(objects') => objects'[j].object = "deleted" /\ objects'[j].stage = "over"
      BY DEF OneAfterTheOther
    <3>1. \A j \in DOMAIN objects : ~objects[j].denied
      BY <2>1 DEF Alike
    <3>2. /\ apply # "enabled"
          /\ \A j \in DOMAIN objects : j < Len(objects) => objects[j].object = "deleted" /\ objects[j].stage = "over"
      BY <1>1, <1>2, <3>1 DEF OneAfterTheOther
    <3>3. now.sender = mTrans
      BY <1>2, <1>9, <2>1, <1>1, <3>2 DEF Alive
    <3>4. objects[mTrans].stage = "over"
      BY <1>1, <1>9, <3>3
    <3>5. ASSUME NEW j \in DOMAIN objects', j < Len(objects')
          PROVE  objects'[j].object = "deleted" /\ objects'[j].stage = "over"
      <4>1. j \in DOMAIN objects /\ (j # mTrans => j < Len(objects))
        BY <1>2, <2>1, <3>5
      <4> QED BY <2>1, <3>2, <3>4, <4>1 DEF Alike
    <3> QED BY <1>9, <3>2, <3>5
  <2>6. \A j \in DOMAIN objects' : objects'[j].role = "CommitChanges" => needs'
    BY <1>9, <2>2
  <2> QED BY <1>2, <1>9, <2>1, <2>2, <2>3, <2>4, <2>5, <2>6 DEF InstallerInv
<1>10. CASE /\ Now = "Finished" /\ Alive(now.sender)
            /\ apply' = "removed" /\ UNCHANGED <<objects, mTrans>> /\ Return
            /\ UNCHANGED <<tool, needs, ended, code, quitting, visible, done, fault, overtaken>>
  BY <1>5, <1>10
<1>11. CASE /\ Now \notin {"Finished", "AuthError"} /\ Alive(now.sender)
            /\ Return /\ Keep /\ Stay /\ UNCHANGED overtaken
  BY <1>5, <1>11 DEF Keep, Stay
<1>12. ~(Now = "Finished" /\ Alive(now.sender) /\ ~Alive(mTrans) /\ Crash("dangling"))
  BY <1>1
<1> QED BY <1>6, <1>7, <1>8, <1>9, <1>10, <1>11, <1>12, DebSlots

LEMMA InstallerNext ==
  ASSUME IInv, tool = "deb", [Next]_vars
  PROVE  InstallerInv' /\ UNCHANGED tool
<1>1. TypeInv /\ InstallerInv
  BY DEF IInv
<1>2. ASSUME UNCHANGED <<objects, mTrans, now, stack, needs, apply>> PROVE InstallerInv'
  BY <1>1, <1>2 DEF InstallerInv, InstallerNow, OneAfterTheOther, Alive
<1>3. CASE UNCHANGED vars
  BY <1>2, <1>3 DEF vars, programVars
<1>4. CASE Event
  BY <1>1, <1>4, InstallerEvent
<1>5. CASE Dispatch
  BY <1>1, <1>5, InstallerDispatch
<1>6. CASE DeferredDelete
  <2>1. PICK i \in DOMAIN objects, r \in Object :
           /\ Becomes(i, r) /\ Alike(r, objects[i])
           /\ objects[i].object = "doomed" /\ r.object = "deleted"
    BY <1>1, <1>6, DeferredFacts
  <2>2. /\ Len(objects') = Len(objects) /\ DOMAIN objects' = DOMAIN objects
        /\ \A j \in DOMAIN objects : objects'[j] = IF j = i THEN r ELSE objects[j]
    BY <1>1, <2>1, BecomesFacts
  <2>3. /\ now.signals = <<>> /\ UNCHANGED <<tool, needs, apply, mTrans, now, stack>>
        /\ objects # <<>> /\ mTrans \in DOMAIN objects
    BY <1>1, <1>6, InstallerObjects DEF DeferredDelete, LoopRuns, programVars
  <2>4. i # mTrans
    BY <1>1, <2>1, <2>3 DEF InstallerInv
  <2>5. InstallerNow'
    BY <2>3 DEF InstallerNow
  <2>6. OneAfterTheOther'
    BY <1>1, <2>1, <2>2, <2>3 DEF InstallerInv, OneAfterTheOther, Alike
  <2>7. \A j \in DOMAIN objects' : objects'[j].role = "CommitChanges" => needs'
    BY <1>1, <2>1, <2>2, <2>3 DEF InstallerInv, Alike
  <2> QED BY <1>1, <2>1, <2>2, <2>3, <2>4, <2>5, <2>6, <2>7 DEF InstallerInv
<1>7. CASE CloseBox
  <2>1. /\ now' = Top.rest /\ Len(stack) \in DOMAIN stack
        /\ \A k \in DOMAIN stack' : k \in DOMAIN stack /\ stack'[k] = stack[k]
        /\ \/ UNCHANGED <<objects, mTrans>>
           \/ mTrans # 0 /\ Answered /\ UNCHANGED mTrans
           \/ Top.cont = "offer" /\ RunNew(objects, "CommitChanges")
        /\ UNCHANGED <<tool, needs, apply>>
    BY <1>1, <1>7, CloseFacts DEF CloseBox
  <2>2. Top.cont = "nothing" /\ now'.signals = <<>>
    BY <1>1, <2>1 DEF InstallerInv, Top
  <2>3. UNCHANGED <<objects, mTrans>>
    BY <1>7, <2>2 DEF CloseBox, Continue, Top, Last
  <2>4. \A k \in DOMAIN stack' : stack'[k].cont = "nothing" /\ stack'[k].rest.signals = <<>>
    BY <1>1, <2>1 DEF InstallerInv
  <2> QED BY <1>1, <2>1, <2>2, <2>3, <2>4 DEF InstallerInv, InstallerNow, OneAfterTheOther
<1>8. CASE ExecReturns
  BY <1>2, <1>8 DEF ExecReturns
<1>9. CASE UserCloses
  BY <1>2, <1>9 DEF UserCloses
<1>10. CASE FinderReports
  BY <1>10, FinderFacts
<1>11. CASE InstallDebFile
  <2>1. /\ now.signals = <<>> /\ stack = <<>> /\ apply = "enabled" /\ apply' = "disabled"
        /\ UNCHANGED <<tool, needs, now, stack>>
        /\ RunNew(objects, IF needs THEN "CommitChanges" ELSE "InstallFile")
    BY <1>11 DEF InstallDebFile, WindowActive, LoopRuns
  <2> DEFINE role == IF needs THEN "CommitChanges" ELSE "InstallFile"
  <2>2. role \in {"CommitChanges", "InstallFile"} /\ (role = "CommitChanges" => needs)
    BY <1>1 DEF TypeInv
  <2> HIDE DEF role
  <2>3. /\ Len(objects') = Len(objects) + 1 /\ Len(objects) \in Nat
        /\ mTrans' = Len(objects) + 1
        /\ DOMAIN objects = 1..Len(objects) /\ DOMAIN objects' = 1..(Len(objects) + 1)
        /\ \A j \in DOMAIN objects : objects'[j] = objects[j]
        /\ objects'[mTrans'] = NewObject(role)
    BY <1>1, <2>1, <2>2, RunFacts DEF TypeInv, role
  <2>4. NewObject(role).role = role /\ NewObject(role).object = "alive"
    BY <2>2, NewObjectFacts
  <2>5. InstallerNow'
    BY <2>1 DEF InstallerNow
  <2>6. OneAfterTheOther'
    <3> SUFFICES ASSUME \A j \in DOMAIN objects' : ~objects'[j].denied
                 PROVE  \A j \in DOMAIN objects' : ~(j < Len(objects'))
      BY <2>1 DEF OneAfterTheOther
    <3>1. objects = <<>>
      BY <1>1, <2>1, <2>3 DEF InstallerInv, OneAfterTheOther
    <3>2. Len(objects) = 0
      BY <3>1
    <3> QED BY <2>3, <3>2
  <2>7. \A j \in DOMAIN objects' : objects'[j].role = "CommitChanges" => needs'
    BY <1>1, <2>1, <2>2, <2>3, <2>4 DEF InstallerInv
  <2>8. UNCHANGED tool /\ mTrans' = Len(objects')
    BY <2>1, <2>3
  <2> QED BY <1>1, <2>1, <2>3, <2>4, <2>5, <2>6, <2>7, <2>8 DEF InstallerInv
<1> QED BY <1>3, <1>4, <1>5, <1>6, <1>7, <1>8, <1>9, <1>10, <1>11 DEF Next, vars, programVars, ExecReturns, UserCloses

-----------------------------------------------------------------------------
(* What goes wrong, and what the helper tells *)

LEMMA FaultsNext ==
  ASSUME IInv, [Next]_vars, tool' = tool
  PROVE  FaultsExplained' /\ (fault' # "none" => ended')
<1>1. TypeInv /\ (fault # "none" => ended) /\ FaultsExplained
  BY DEF IInv
<1>2. CASE UNCHANGED vars
  BY <1>1, <1>2 DEF FaultsExplained, vars, programVars
<1> SUFFICES ASSUME Next PROVE FaultsExplained' /\ (fault' # "none" => ended')
  BY <1>2
<1>3. ~ended /\ fault = "none"
  BY <1>1, EndedStops
<1>4. CASE UNCHANGED fault
  BY <1>3, <1>4 DEF FaultsExplained
<1>5. CASE Dispatch
  <2>1. CASE tool # "deb"
    BY <1>1, <1>4, <1>5, <2>1, SoleDispatch DEF IInv
  <2>2. CASE tool = "deb" /\ fault' # fault
    <3>1. /\ fault' = "dangling" /\ needs' /\ UNCHANGED objects
          /\ now.sender \in DOMAIN objects /\ objects[now.sender].error = "WorkerDisappeared"
      BY <1>1, <1>5, <2>2, InstallerDispatch DEF IInv
    <3>2. ended'
      <4>1. \/ \E how : Crash(how)
            \/ UNCHANGED fault
        BY <1>5, <2>2, DebSlots, <1>1 DEF Open, Stay
      <4> QED BY <2>2, <4>1 DEF Crash
    <3> QED BY <2>2, <3>1, <3>2 DEF FaultsExplained
  <2> QED BY <1>4, <2>1, <2>2
<1>6. CASE CloseBox
  <2>1. CASE fault' # fault
    <3>1. PromptFrame(Top) /\ fault' = "null" /\ ended' /\ UNCHANGED overtaken
      BY <1>1, <1>6, <2>1, CloseFacts DEF CloseBox
    <3>2. tool # "deb"
      <4>1. tool = "deb" => Top.cont = "nothing"
        BY <1>1, <1>6, CloseFacts DEF IInv, InstallerInv, Top
      <4> QED BY <3>1, <4>1 DEF PromptFrame
    <3>3. overtaken
      BY <1>1, <1>6, <2>1, <3>2, SoleClose DEF IInv
    <3>4. tool' \in {"batch", "gst"}
      BY <1>1, <3>2 DEF TypeInv, AllTools
    <3> QED BY <3>1, <3>3, <3>4 DEF FaultsExplained
  <2> QED BY <1>4, <2>1
<1>7. CASE Event
  <2>1. UNCHANGED fault
    BY <1>1, <1>7, EventFacts DEF Emit
  <2> QED BY <1>4, <2>1
<1>8. CASE DeferredDelete \/ ExecReturns \/ UserCloses \/ FinderReports \/ InstallDebFile
  <2>1. UNCHANGED fault
    BY <1>8, FinderFacts DEF DeferredDelete, ExecReturns, UserCloses, InstallDebFile
  <2> QED BY <1>4, <2>1
<1> QED BY <1>5, <1>6, <1>7, <1>8 DEF Next

LEMMA ExitCodeNext ==
  ASSUME IInv, [Next]_vars, tool' = tool
  PROVE  ExitCodeHonest'
<1> SUFFICES ASSUME tool = "gst" PROVE ExitCodeHonest'
  BY DEF ExitCodeHonest
<1>1. TypeInv /\ SoleInv /\ HelperInv /\ ExitCodeHonest /\ TypeInv'
  BY TypeNext DEF IInv
<1>2. CASE UNCHANGED vars
  BY <1>1, <1>2 DEF ExitCodeHonest, vars, programVars, searchVars
<1> SUFFICES ASSUME Next PROVE ExitCodeHonest'
  BY <1>2
<1>3. ~ended /\ code \notin {"noPlugins", "partialSuccess"}
  BY <1>1, EndedStops DEF HelperInv
<1>4. left \in Nat /\ found \in Nat /\ Plugins \in Nat
  BY <1>1, ConstantsAssumption DEF TypeInv
\* Success stays the exit of the transaction.
<1>5. CASE Event
  <2>1. LoopRuns /\ UNCHANGED code
    BY <1>1, <1>5, EventFacts DEF Emit, programVars
  <2>2. code = "none"
    BY <1>1, <2>1 DEF LoopRuns, HelperInv
  <2> QED BY <2>1, <2>2 DEF ExitCodeHonest
<1>6. ASSUME objects # <<>> => objects' # <<>> /\ objects'[1].exit = objects[1].exit,
             code' = "0" => code = "0" \/ done,
             code' \notin {"noPlugins", "partialSuccess"}
      PROVE  ExitCodeHonest'
  <2>1. ASSUME code' = "0" PROVE \E i \in DOMAIN objects' : objects'[i].exit = "Success"
    <3>1. objects # <<>> /\ objects[1].exit = "Success"
      <4>1. CASE code = "0"
        <5>1. PICK i \in DOMAIN objects : objects[i].exit = "Success"
          BY <1>1, <4>1 DEF ExitCodeHonest
        <5> QED BY <1>1, <5>1, OneObject DEF SoleInv
      <4>2. CASE done
        BY <1>1, <4>2 DEF HelperInv
      <4> QED BY <1>6, <2>1, <4>1, <4>2
    <3>2. objects' # <<>> /\ objects'[1].exit = "Success"
      BY <1>6, <3>1
    <3>3. 1 \in DOMAIN objects'
      BY <1>1, <3>2 DEF TypeInv
    <3> QED BY <3>2, <3>3
  <2> QED BY <1>6, <2>1 DEF ExitCodeHonest
<1>7. CASE Dispatch
  <2>1. /\ objects' # <<>> /\ Alike(objects'[1], objects[1])
        /\ UNCHANGED code \/ code' = "cancel"
    BY <1>1, <1>7, SoleDispatch
  <2> QED BY <1>3, <1>6, <2>1 DEF Alike
<1>8. CASE DeferredDelete
  <2>1. /\ UNCHANGED <<programVars, searchVars, stack>>
        /\ objects # <<>> /\ objects' # <<>> /\ Alike(objects'[1], objects[1])
    BY <1>1, <1>8, SoleDelete
  <2> QED BY <1>3, <1>6, <2>1 DEF Alike, programVars
<1>9. CASE CloseBox \/ UserCloses
  <2>1. objects # <<>> => objects' # <<>> /\ Alike(objects'[1], objects[1])
    BY <1>1, <1>9, SoleClose DEF UserCloses, Alike
  <2>2. CloseBox => Last(stack).cont # "close"
    <3>1. Last(stack) = Top
      BY DEF Last, Top
    <3> QED BY <1>1, <3>1, CloseFacts DEF HelperInv, Top
  <2>3. /\ \/ UNCHANGED <<ended, code, quitting>>
           \/ UNCHANGED ended /\ quitting' = TRUE /\ code' \in {"1", "randomError", "cancel"}
           \/ done /\ UNCHANGED ended /\ quitting' = TRUE /\ code' = "0"
           \/ ended' = TRUE /\ code' \in {"cancel", "crash"}
           \/ partial /\ ended' = TRUE /\ code' = "partialSuccess"
        /\ UNCHANGED <<tool, done, left, found, partial>>
    BY <1>9, <2>2, LeaveFacts
  <2>4. CASE partial /\ code' = "partialSuccess"
    <3>1. found' + left' < Plugins
      BY <1>1, <2>3, <2>4 DEF HelperInv
    <3>2. found' < Plugins - left'
      BY <1>4, <2>3, <3>1
    <3> QED BY <2>4, <3>2 DEF ExitCodeHonest
  <2>5. CASE code' # "partialSuccess"
    BY <1>3, <1>6, <2>1, <2>3, <2>5 DEF Alike
  <2> QED BY <2>3, <1>3, <2>4, <2>5
<1>10. CASE ExecReturns
  BY <1>1, <1>10 DEF ExecReturns, ExitCodeHonest, searchVars
<1>11. CASE FinderReports
  <2>1. /\ \/ UNCHANGED code
           \/ ~(left' > 0) /\ code' = "noPlugins"
        /\ UNCHANGED objects
    BY <1>11, FinderFacts
  <2>2. objects = <<>> /\ left' \in Nat
    BY <1>1, <1>11, SoleFinder DEF TypeInv
  <2>3. code' # "0"
    BY <1>1, <2>1, <2>2 DEF ExitCodeHonest
  <2> QED BY <1>3, <2>1, <2>2, <2>3 DEF ExitCodeHonest
<1>12. CASE InstallDebFile
  BY <1>12 DEF InstallDebFile
<1> QED BY <1>5, <1>7, <1>8, <1>9, <1>10, <1>11, <1>12 DEF Next

-----------------------------------------------------------------------------
(* The invariant of the three programs, and what follows from it *)

LEMMA InvInit == Init => IInv
<1> SUFFICES ASSUME Init PROVE IInv
  OBVIOUS
<1>1. TypeInv
  BY TypeInit
<1>2. /\ fault = "none" /\ code = "none" /\ now.signals = <<>> /\ ~done /\ partial = FALSE
      /\ left = Plugins /\ found = 0 /\ mTrans = Len(objects)
      /\ ~Telling(<<>>) /\ \A s : <<>> # <<s>>
  BY DEF Init, Quiet, Telling, Whole, Half
<1>3. CASE tool = "batch"
  <2>1. objects = <<NewObject("CommitChanges")>> /\ stack = <<>>
    BY <1>3 DEF Init
  <2>2. Len(objects) = 1 /\ objects[1].object = "alive" /\ objects # <<>>
    BY <2>1, NewObjectFacts
  <2>3. SoleInv
    BY <1>2, <2>1, <2>2 DEF SoleInv, SoleTrans, SoleNow, SoleStack
  <2> QED BY <1>1, <1>2, <1>3, <2>3 DEF IInv, FaultsExplained, ExitCodeHonest
<1>4. CASE tool = "gst"
  <2>1. objects = <<>> /\ stack = <<[cont |-> "search", rest |-> Quiet]>>
    BY <1>4 DEF Init
  <2>2. SoleInv
    BY <1>2, <2>1 DEF SoleInv, BeforeOffer, Quiet
  <2>3. Plugins \in Nat
    BY ConstantsAssumption
  <2>4. HelperInv
    BY <1>2, <2>1, <2>3 DEF HelperInv
  <2> QED BY <1>1, <1>2, <1>4, <2>2, <2>4 DEF IInv, FaultsExplained, ExitCodeHonest
<1>5. CASE tool = "deb"
  <2>1. objects = <<>> /\ stack = <<>>
    BY <1>5 DEF Init
  <2>2. InstallerInv
    BY <1>2, <2>1 DEF InstallerInv, InstallerNow, OneAfterTheOther
  <2> QED BY <1>1, <1>2, <1>5, <2>2 DEF IInv, FaultsExplained, ExitCodeHonest
<1> QED BY <1>1, <1>3, <1>4, <1>5 DEF TypeInv, AllTools

LEMMA InvNext == IInv /\ [Next]_vars => IInv'
<1> SUFFICES ASSUME IInv, [Next]_vars PROVE IInv'
  OBVIOUS
<1>1. TypeInv'
  BY TypeNext
<1>2. tool' = tool /\ (tool # "deb" => SoleInv') /\ (tool = "deb" => InstallerInv')
  BY SoleNext, InstallerNext
<1>3. tool = "gst" => HelperInv'
  BY HelperNext
<1>4. FaultsExplained' /\ (fault' # "none" => ended')
  BY <1>2, FaultsNext
<1>5. ExitCodeHonest'
  BY <1>2, ExitCodeNext
<1> QED BY <1>1, <1>2, <1>3, <1>4, <1>5 DEF IInv

LEMMA Invariance == Spec => []IInv
BY InvInit, InvNext, PTL DEF Spec

\* A transaction object that is missing is used only where a prompt is answered after
\* its transaction ended, or where the worker disappears under the installer's commit.
THEOREM FaultsAreExplained == Spec => []FaultsExplained
<1>1. IInv => FaultsExplained
  BY DEF IInv
<1> QED BY <1>1, Invariance, PTL

\* The exit codes of qapt-gst-helper tell the truth.
THEOREM ExitCodesAreHonest == Spec => []ExitCodeHonest
<1>1. IInv => ExitCodeHonest
  BY DEF IInv
<1> QED BY <1>1, Invariance, PTL

\* As long as nothing is denied, the programs give only finished transactions up.
THEOREM OnlyFinishedAreDeleted == Spec => []DeletesTheFinished
<1>1. ASSUME IInv PROVE DeletesTheFinished
  <2> SUFFICES ASSUME \A i \in DOMAIN objects : ~objects[i].denied,
                      NEW i \in DOMAIN objects, objects[i].object # "alive"
               PROVE  objects[i].stage = "over"
    BY DEF DeletesTheFinished
  <2>1. CASE tool = "deb"
    <3>1. TypeInv /\ InstallerInv
      BY <1>1, <2>1 DEF IInv
    <3>2. i < Len(objects)
      BY <3>1, InstallerObjects DEF InstallerInv
    <3> QED BY <3>1, <3>2 DEF InstallerInv, OneAfterTheOther
  <2>2. CASE tool # "deb"
    <3>1. TypeInv /\ SoleInv
      BY <1>1, <2>2 DEF IInv
    <3> QED BY <3>1, OneObject DEF SoleInv, SoleTrans
  <2> QED BY <2>1, <2>2
<1> QED BY <1>1, Invariance, PTL
====
