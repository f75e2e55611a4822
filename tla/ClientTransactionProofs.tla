----------------------- MODULE ClientTransactionProofs -----------------------
(***************************************************************************)
(* Proofs about ClientTransaction, for any clients, calls and lengths of   *)
(* jobs, and any number of messages on their way.                          *)
(***************************************************************************)
EXTENDS ClientTransaction, TLAPS

Words == (UNION {Values(p) : p \in Property}) \cup ReplyErrors \cup {"-"}

Messages == [kind : {"changed", "reply", "prompt", "gone"},
             what : Property \cup Nat \cup {"none", "prompt", "owner"}, value : Words]

\* The types that the proofs need.
Shapes ==
  /\ outbox \in Seq(Calls) /\ asking \in Calls \cup {NoCall}
  /\ inbox \in Seq(Messages)
  /\ DOMAIN mirror = Property /\ DOMAIN work = Property
  /\ calls \in Nat /\ phase \in {"new", "half", "synced", "connected"}

IsEnd(m) == m.kind = "changed" /\ m.what = "exitStatus"

IsGone(m) == m.kind = "gone"

\* A job is run once, and has no exit status before it exits.
RunsOut == {i \in 1..Len(outbox) : outbox[i].op = "run"}

RunInv ==
  /\ ~hasRun => job = "pending" /\ asking.op # "run" /\ RunsOut = {}
  /\ asking.op = "run" \/ RunsOut # {} => job = "pending"
  /\ asking.op = "run" => RunsOut = {}
  /\ \A i, j \in RunsOut : i = j
  /\ job \in {"pending", "queued", "running", "leaving"} => work.exitStatus = "Unfinished"

\* The exit status that was announced is in the mirror or on its way, before the news
\* that the worker is gone.
Carried ==
  \/ mirror.exitStatus = work.exitStatus
  \/ \E j \in 1..Len(inbox) : IsEnd(inbox[j]) /\ \A k \in 1..(j - 1) : ~IsGone(inbox[k])

EndInv ==
  /\ phase # "connected" => inbox = <<>>
  /\ phase \in {"new", "half"} => mirror.exitStatus = "Unfinished"
  /\ \A i \in 1..Len(inbox) :
       /\ IsEnd(inbox[i]) => inbox[i].value = work.exitStatus /\ work.exitStatus # "Unfinished"
       /\ IsGone(inbox[i]) => ~alive
  /\ phase \in {"synced", "connected"} /\ "exitStatus" \notin missed /\ work.exitStatus # "Unfinished" => Carried
  /\ HonestEnd

-----------------------------------------------------------------------------
(* Messages *)

\* What the values of the properties are.
LEMMA WordFacts ==
  /\ Status \subseteq Words /\ Errors \subseteq Words /\ Exits \subseteq Words
  /\ BOOLEAN \subseteq Words /\ 100 \in Words /\ "given" \in Words
  /\ ReplyErrors \subseteq Words /\ "-" \in Words
<1>1. \A p \in Property : Values(p) \subseteq Words
  BY DEF Words
<1>2. {"status", "error", "exitStatus", "progress", "cancellable", "locale"} \subseteq Property
  BY DEF Property, Settings
<1>3. /\ Values("status") = Status /\ Values("error") = Errors /\ Values("exitStatus") = Exits
      /\ Values("progress") = {0, 100} /\ Values("cancellable") = BOOLEAN /\ "given" \in Values("locale")
  BY DEF Values
<1>4. ReplyErrors \subseteq Words /\ "-" \in Words
  BY DEF Words
<1> QED BY <1>1, <1>2, <1>3, <1>4

\* Messages that tell neither the end nor that the worker is gone.
Harmless(ms) ==
  /\ ms \in Seq(Messages)
  /\ \A i \in 1..Len(ms) : ~IsEnd(ms[i]) /\ ~IsGone(ms[i])

\* No message, and one that is harmless.
LEMMA NoneHarmless == Harmless(<<>>)
BY DEF Harmless

\* A change of anything but the exit status is harmless.
LEMMA ChangedHarmless ==
  ASSUME NEW p \in Property \cup {"none"}, p # "exitStatus", NEW v \in Words
  PROVE  Harmless(<<Changed(p, v)>>)
<1>1. Changed(p, v) \in Messages /\ ~IsEnd(Changed(p, v)) /\ ~IsGone(Changed(p, v))
  BY DEF Changed, Message, Messages, IsEnd, IsGone
<1> HIDE DEF Changed
<1> QED BY <1>1 DEF Harmless

\* So are prompts and replies.
LEMMA PromptHarmless == Harmless(<<Prompt>>)
<1>1. Prompt \in Messages /\ ~IsEnd(Prompt) /\ ~IsGone(Prompt)
  BY WordFacts DEF Prompt, Message, Messages, IsEnd, IsGone
<1> HIDE DEF Prompt
<1> QED BY <1>1 DEF Harmless

\* A reply tells neither the end nor that the worker is gone.
LEMMA ReplyFacts ==
  ASSUME NEW c \in Calls \cup {NoCall}, NEW error \in ReplyErrors
  PROVE  Reply(c, error) \in Messages /\ ~IsEnd(Reply(c, error)) /\ ~IsGone(Reply(c, error))
<1>1. c.number \in Nat
  BY DEF Calls, NoCall
<1> QED BY <1>1, WordFacts DEF Reply, Message, Messages, IsEnd, IsGone

\* So is the answer to a caller, if there is one.
LEMMA ToCallerHarmless ==
  ASSUME NEW c \in Calls \cup {NoCall}, NEW error \in ReplyErrors
  PROVE  Harmless(ToCaller(c, error))
<1>1. CASE c.number = 0
  BY <1>1, NoneHarmless DEF ToCaller
<1>2. CASE c.number # 0
  <2>1. ToCaller(c, error) = <<Reply(c, error)>>
    BY <1>2 DEF ToCaller
  <2> QED BY <2>1, ReplyFacts DEF Harmless
<1> QED BY <1>1, <1>2

\* One after the other, they still are.
LEMMA CatHarmless ==
  ASSUME NEW a, NEW b, Harmless(a), Harmless(b)
  PROVE  Harmless(a \o b)
<1>1. a \in Seq(Messages) /\ b \in Seq(Messages)
  BY DEF Harmless
<1>2. a \o b \in Seq(Messages) /\ Len(a \o b) = Len(a) + Len(b)
  BY <1>1
<1>3. ASSUME NEW i \in 1..Len(a \o b)
      PROVE  ~IsEnd((a \o b)[i]) /\ ~IsGone((a \o b)[i])
  <2>1. CASE i \in 1..Len(a)
    <3>1. (a \o b)[i] = a[i]
      BY <1>1, <2>1
    <3> QED BY <2>1, <3>1 DEF Harmless
  <2>2. CASE i \notin 1..Len(a)
    <3>1. i - Len(a) \in 1..Len(b) /\ (a \o b)[i] = b[i - Len(a)]
      BY <1>1, <1>2, <2>2
    <3> QED BY <3>1 DEF Harmless
  <2> QED BY <2>1, <2>2
<1> QED BY <1>2, <1>3 DEF Harmless

\* What is sent is on its way to a client that is connected, and else, if it is too late
\* to be read, missed.
LEMMA SendFacts ==
  ASSUME Shapes, NEW ms \in Seq(Messages), Send(ms)
  PROVE  /\ inbox' \in Seq(Messages) /\ missed \subseteq missed'
         /\ phase = "connected" => inbox' = inbox \o ms
         /\ phase # "connected" => inbox' = inbox
         /\ phase = "synced" /\ (\E i \in 1..Len(ms) : IsEnd(ms[i])) => "exitStatus" \in missed'
<1>1. CASE phase = "connected"
  <2>1. inbox' = inbox \o ms /\ missed' = missed
    BY <1>1 DEF Send
  <2>2. inbox \o ms \in Seq(Messages)
    BY DEF Shapes
  <2> QED BY <1>1, <2>1, <2>2
<1>2. CASE phase # "connected"
  <2>1. inbox' = inbox /\ missed' = missed \cup ({ms[i].what : i \in DOMAIN ms} \cap AlreadyRead)
    BY <1>2 DEF Send
  <2>2. ASSUME phase = "synced", NEW i \in 1..Len(ms), IsEnd(ms[i]) PROVE "exitStatus" \in missed'
    <3>1. "exitStatus" \in AlreadyRead
      BY <2>2 DEF AlreadyRead, Property
    <3>2. "exitStatus" \in {ms[j].what : j \in DOMAIN ms}
      BY <2>2 DEF IsEnd
    <3> QED BY <2>1, <3>1, <3>2
  <2> QED BY <1>2, <2>1, <2>2 DEF Shapes
<1> QED BY <1>1, <1>2

-----------------------------------------------------------------------------
(* Calls and jobs *)

\* Nothing is said of the end, and the exit status stays.
Quiet ==
  /\ \E ms \in Seq(Messages) : Harmless(ms) /\ Send(ms)
  /\ DOMAIN work' = Property /\ work'.exitStatus = work.exitStatus

\* A member that is not the exit status is announced.
LEMMA AnnounceQuiet ==
  ASSUME Shapes, NEW p \in Property, p # "exitStatus", NEW v \in Words, Announce(p, v)
  PROVE  Quiet
<1>1. Harmless(<<Changed(p, v)>>) /\ Send(<<Changed(p, v)>>)
  BY ChangedHarmless DEF Announce
<1>2. work' = [work EXCEPT ![p] = v]
  BY DEF Announce
<1>3. DOMAIN work' = Property /\ work'.exitStatus = work.exitStatus
  BY <1>2 DEF Shapes, Property
<1>4. <<Changed(p, v)>> \in Seq(Messages)
  BY <1>1 DEF Harmless
<1> QED BY <1>1, <1>3, <1>4 DEF Quiet

\* Harmless messages with a change of work that leaves the exit status.
LEMMA HarmlessQuiet ==
  ASSUME NEW ms, Harmless(ms), Send(ms), DOMAIN work' = Property, work'.exitStatus = work.exitStatus
  PROVE  Quiet
BY DEF Quiet, Harmless

\* A call that is only answered.
LEMMA RefuseQuiet ==
  ASSUME Shapes, NEW c \in Calls \cup {NoCall}, NEW error \in ReplyErrors,
         Send(ToCaller(c, error)), UNCHANGED work
  PROVE  Quiet
BY ToCallerHarmless, HarmlessQuiet DEF Shapes

\* The calls, one by one.
LEMMA SetQuiet ==
  ASSUME Shapes, NEW c \in Calls, Set(c)
  PROVE  Quiet /\ UNCHANGED <<asking, job>>
<1>1. {"AccessDenied", "Failed", "InvalidArgs", "none"} \subseteq ReplyErrors
  BY DEF ReplyErrors
<1>2. ASSUME NEW e \in ReplyErrors, Refuse(c, e) PROVE Quiet /\ UNCHANGED <<asking, job>>
  BY <1>2, RefuseQuiet DEF Refuse
<1>3. CASE /\ work' = [work EXCEPT ![c.arg] = "given"]
           /\ Send(<<Changed(c.arg, "given")>> \o ToCaller(c, "none"))
           /\ UNCHANGED <<asking, job>>
  <2>1. c.arg \in Settings \cup {"none"}
    BY DEF Calls
  <2>2. c.arg \in Property \cup {"none"} /\ c.arg # "exitStatus"
    BY <2>1 DEF Settings, Property
  <2>3. DOMAIN work' = Property /\ work'.exitStatus = work.exitStatus
    BY <1>3, <2>2 DEF Shapes, Property
  <2>4. "given" \in Words
    BY WordFacts
  <2>5. Harmless(<<Changed(c.arg, "given")>>)
    BY <2>2, <2>4, ChangedHarmless
  <2>6. Harmless(ToCaller(c, "none"))
    BY <1>1, ToCallerHarmless
  <2>7. Harmless(<<Changed(c.arg, "given")>> \o ToCaller(c, "none"))
    BY <2>5, <2>6, CatHarmless
  <2> QED BY <1>3, <2>3, <2>7, HarmlessQuiet
<1> QED BY <1>1, <1>2, <1>3 DEF Set

\* setProperty with the capabilities, and the answers to prompts.
LEMMA SetFrontendCapsQuiet ==
  ASSUME Shapes, NEW c \in Calls, SetFrontendCaps(c) \/ Answer(c)
  PROVE  Quiet /\ UNCHANGED <<asking, job>>
<1>1. {"AccessDenied", "Failed", "none"} \subseteq ReplyErrors
  BY DEF ReplyErrors
<1>2. CASE Refuse(c, "AccessDenied") \/ Refuse(c, "Failed")
  BY <1>1, <1>2, RefuseQuiet DEF Refuse
<1>3. CASE ~(Refuse(c, "AccessDenied") \/ Refuse(c, "Failed"))
  <2>1. Send(ToCaller(c, "none")) /\ UNCHANGED <<asking, job>>
    BY <1>3 DEF SetFrontendCaps, Answer, TakeAnswer
  <2>2. DOMAIN work' = Property /\ work'.exitStatus = work.exitStatus
    BY <1>3 DEF SetFrontendCaps, Answer, TakeAnswer, Shapes, Property
  <2> QED BY <1>1, <2>1, <2>2, ToCallerHarmless, HarmlessQuiet
<1> QED BY <1>2, <1>3

\* The authorized end of run().
LEMMA EnqueueQuiet ==
  ASSUME Shapes, NEW c \in Calls \cup {NoCall}, Enqueue(c)
  PROVE  Quiet /\ job' = "queued"
<1> DEFINE waiting == Changed("status", "Waiting")
<1>1. "status" \in Property /\ "Waiting" \in Words
  BY WordFacts DEF Property, Status
<1>2. Harmless(<<waiting>>)
  BY <1>1, ChangedHarmless
<1>3. Harmless(ToCaller(c, "none"))
  BY ToCallerHarmless DEF ReplyErrors
<1>4. /\ job' = "queued" /\ work' = [work EXCEPT !["status"] = "Waiting"]
      /\ Send(<<waiting, waiting>> \o ToCaller(c, "none"))
  BY DEF Enqueue
<1>5. DOMAIN work' = Property /\ work'.exitStatus = work.exitStatus
  BY <1>4 DEF Shapes, Property
<1> HIDE DEF waiting
<1>6. <<waiting, waiting>> = <<waiting>> \o <<waiting>>
  OBVIOUS
<1>7. Harmless(<<waiting, waiting>>)
  BY <1>2, <1>6, CatHarmless
<1>8. Harmless(<<waiting, waiting>> \o ToCaller(c, "none"))
  BY <1>3, <1>7, CatHarmless
<1> QED BY <1>4, <1>5, <1>8, HarmlessQuiet

\* cancel().
LEMMA CancelQuiet ==
  ASSUME Shapes, NEW c \in Calls \cup {NoCall}, CancelIfPossible(c)
  PROVE  Quiet
<1>1. CASE Send(ToCaller(c, "Failed")) /\ UNCHANGED work
  BY <1>1, RefuseQuiet DEF ReplyErrors
<1>2. CASE Accept(c)
  <2>1. /\ work' = [work EXCEPT !["cancelled"] = TRUE, !["paused"] = FALSE]
        /\ Send(<<Changed("cancelled", TRUE)>> \o ToCaller(c, "none"))
    BY <1>2 DEF Accept
  <2>2. DOMAIN work' = Property /\ work'.exitStatus = work.exitStatus
    BY <2>1 DEF Shapes, Property
  <2>3. "cancelled" \in Property /\ TRUE \in Words
    BY WordFacts DEF Property
  <2>4. Harmless(<<Changed("cancelled", TRUE)>>)
    BY <2>3, ChangedHarmless
  <2>5. Harmless(ToCaller(c, "none"))
    BY ToCallerHarmless DEF ReplyErrors
  <2>6. Harmless(<<Changed("cancelled", TRUE)>> \o ToCaller(c, "none"))
    BY <2>4, <2>5, CatHarmless
  <2> QED BY <2>1, <2>2, <2>6, HarmlessQuiet
<1> QED BY <1>1, <1>2 DEF CancelIfPossible

\* The next call is served: only run() lets the job go on, at once or authorized.
LEMMA HandleCallFacts ==
  ASSUME Shapes, HandleCall
  PROVE  /\ Quiet /\ asking = NoCall /\ outbox # <<>> /\ outbox' = Tail(outbox)
         /\ UNCHANGED <<alive, objectVars>>
         /\ \/ UNCHANGED <<asking, job>>
            \/ asking' = Head(outbox) /\ job' = job
            \/ asking' = NoCall /\ job' = "queued" /\ Head(outbox).op = "run"
<1> DEFINE c == Head(outbox)
<1>1. /\ asking = NoCall /\ outbox # <<>> /\ outbox' = Tail(outbox) /\ UNCHANGED <<alive, objectVars>>
      /\ \/ Refuse(c, "UnknownObject")
         \/ Set(c)
         \/ SetFrontendCaps(c) \/ Answer(c)
         \/ c.op = "run" /\ Run(c)
         \/ Cancel(c)
  BY DEF HandleCall
<1>2. c \in Calls
  BY <1>1 DEF Shapes
<1> HIDE DEF c
<1>3. CASE Refuse(c, "UnknownObject")
  BY <1>1, <1>2, <1>3, RefuseQuiet DEF Refuse, ReplyErrors
<1>4. CASE Set(c)
  BY <1>1, <1>2, <1>4, SetQuiet
<1>5. CASE SetFrontendCaps(c) \/ Answer(c)
  BY <1>1, <1>2, <1>5, SetFrontendCapsQuiet
<1>6. CASE c.op = "run" /\ Run(c)
  <2>1. CASE Enqueue(c) /\ UNCHANGED asking
    BY <1>1, <1>2, <1>6, <2>1, EnqueueQuiet DEF c
  <2>2. CASE Announce("status", "Authentication") /\ asking' = c /\ UNCHANGED job
    <3>1. "status" \in Property /\ "Authentication" \in Words
      BY WordFacts DEF Property, Status
    <3> QED BY <1>1, <2>2, <3>1, AnnounceQuiet DEF c
  <2> QED BY <1>6, <2>1, <2>2 DEF Run
<1>7. CASE Cancel(c)
  <2>1. CASE asking' = c /\ Send(<<>>) /\ UNCHANGED <<work, job>>
    BY <1>1, <2>1, NoneHarmless, HarmlessQuiet DEF c, Shapes
  <2>2. CASE CancelIfPossible(c) /\ UNCHANGED <<asking, job>>
    BY <1>1, <1>2, <2>2, CancelQuiet
  <2> QED BY <1>7, <2>1, <2>2 DEF Cancel
<1> QED BY <1>1, <1>3, <1>4, <1>5, <1>6, <1>7

\* polkit's answer lets the call go on ...
LEMMA AuthorizedFacts ==
  ASSUME Shapes, Authorized
  PROVE  /\ Quiet /\ asking' = NoCall /\ UNCHANGED <<alive, outbox, objectVars>>
         /\ job' = job \/ (job' = "queued" /\ asking.op = "run")
<1>1. asking \in Calls \cup {NoCall}
  BY DEF Shapes
<1>2. CASE asking.op = "run" /\ Enqueue(asking)
  BY <1>1, <1>2, EnqueueQuiet DEF Authorized
<1>3. CASE CancelIfPossible(asking) /\ UNCHANGED job
  BY <1>1, <1>3, CancelQuiet DEF Authorized
<1> QED BY <1>2, <1>3 DEF Authorized

\* ... or refuses it.
LEMMA UnauthorizedFacts ==
  ASSUME Shapes, Unauthorized
  PROVE  Quiet /\ asking' = NoCall /\ UNCHANGED <<alive, job, outbox, objectVars>>
<1>1. Send(ToCaller(asking, "AccessDenied")) /\ UNCHANGED work
  BY DEF Unauthorized
<1>2. asking \in Calls \cup {NoCall} /\ "AccessDenied" \in ReplyErrors
  BY DEF Shapes, ReplyErrors
<1> QED BY <1>1, <1>2, RefuseQuiet DEF Unauthorized

\* The job, but for the step that sets the exit status.
LEMMA JobFacts ==
  ASSUME Shapes, JobStarts \/ JobAnnounces \/ JobPrompts \/ JobLeaves \/ JobFinishes
  PROVE  /\ Quiet /\ UNCHANGED <<alive, asking, outbox, objectVars>>
         /\ job # "pending" /\ job' # "pending"
         /\ job' = "done" \/ job \in {"queued", "running", "leaving"}
<1>1. /\ UNCHANGED <<alive, asking, outbox, objectVars>> /\ job # "pending" /\ job' # "pending"
      /\ job' = "done" \/ job \in {"queued", "running", "leaving"}
  BY DEF JobStarts, JobAnnounces, JobPrompts, JobLeaves, JobFinishes, JobGoesOn
<1>2. /\ "status" \in Property /\ "cancellable" \in Property
      /\ "error" \in Property /\ "progress" \in Property
  BY DEF Property
<1>3. "Running" \in Words /\ "Committing" \in Words /\ "Finished" \in Words /\ "JobError" \in Words /\ 100 \in Words
  BY WordFacts DEF Status, Errors
<1>4. /\ Announce("status", "Running") \/ Announce("status", "Committing") \/ Announce("status", "Finished") => Quiet
      /\ Announce("error", "JobError") => Quiet
      /\ Announce("progress", 100) => Quiet
      /\ \A b \in BOOLEAN : Announce("cancellable", b) => Quiet
  BY <1>2, <1>3, WordFacts, AnnounceQuiet
<1>5. CASE JobStarts
  BY <1>1, <1>4, <1>5 DEF JobStarts
<1>6. CASE JobAnnounces
  BY <1>1, <1>4, <1>6 DEF JobAnnounces
<1>7. CASE JobPrompts
  <2>1. work' = [work EXCEPT !["paused"] = TRUE] /\ Send(<<Prompt>>)
    BY <1>7 DEF JobPrompts
  <2>2. DOMAIN work' = Property /\ work'.exitStatus = work.exitStatus
    BY <2>1 DEF Shapes, Property
  <2> HIDE DEF Prompt
  <2>3. Harmless(<<Prompt>>)
    BY PromptHarmless
  <2> QED BY <1>1, <2>1, <2>2, <2>3, HarmlessQuiet
<1>8. CASE JobLeaves
  BY <1>1, <1>4, <1>8 DEF JobLeaves
<1>9. CASE JobFinishes
  BY <1>1, <1>4, <1>9 DEF JobFinishes, SetFinished
<1> QED BY <1>1, <1>5, <1>6, <1>7, <1>8, <1>9

\* The exit status is announced once the job leaves.
LEMMA JobExitsFacts ==
  ASSUME Shapes, JobExits
  PROVE  \E x \in Exits \ {"Unfinished"} :
           /\ Send(<<Changed("exitStatus", x)>>) /\ Changed("exitStatus", x) \in Messages
           /\ DOMAIN work' = Property /\ work'.exitStatus = x
           /\ alive /\ job = "leaving" /\ job' = "exiting"
           /\ UNCHANGED <<alive, asking, outbox, objectVars>>
<1>1. PICK x \in Exits \ {"Unfinished"} :
        work' = [work EXCEPT !["exitStatus"] = x] /\ Send(<<Changed("exitStatus", x)>>)
  <2>1. ASSUME NEW x, SetExitStatus(x)
        PROVE  work' = [work EXCEPT !["exitStatus"] = x] /\ Send(<<Changed("exitStatus", x)>>)
    BY <2>1 DEF SetExitStatus, Announce
  <2>2. CASE work.cancelled
    BY <2>1, <2>2 DEF JobExits, Exits
  <2>3. CASE ~work.cancelled /\ work.error # "Success"
    BY <2>1, <2>3 DEF JobExits, Exits
  <2>4. CASE ~work.cancelled /\ work.error = "Success"
    BY <2>1, <2>4 DEF JobExits, Exits
  <2> QED BY <2>2, <2>3, <2>4
<1>2. DOMAIN work' = Property /\ work'.exitStatus = x
  BY <1>1 DEF Shapes, Property
<1>3. Changed("exitStatus", x) \in Messages
  BY WordFacts DEF Changed, Message, Messages, Property
<1> QED BY <1>1, <1>2, <1>3 DEF JobExits, JobGoesOn

-----------------------------------------------------------------------------
(* Shapes and runs *)

\* What is said keeps its type.
LEMMA QuietShapes ==
  ASSUME Shapes, Quiet
  PROVE  inbox' \in Seq(Messages) /\ DOMAIN work' = Property
BY SendFacts DEF Quiet

\* The calls behind the first one ...
LEMMA TailRuns ==
  ASSUME Shapes, RunInv, outbox # <<>>, outbox' = Tail(outbox)
  PROVE  /\ outbox' \in Seq(Calls) /\ Head(outbox) \in Calls
         /\ \A i, j \in RunsOut' : i = j
         /\ RunsOut' # {} => RunsOut # {} /\ Head(outbox).op # "run"
         /\ Head(outbox).op = "run" => RunsOut # {}
<1>1. outbox \in Seq(Calls)
  BY DEF Shapes
<1>2. /\ outbox' \in Seq(Calls) /\ Len(outbox') = Len(outbox) - 1 /\ Len(outbox) \in Nat \ {0}
      /\ \A i \in 1..Len(outbox') : outbox'[i] = outbox[i + 1]
      /\ Head(outbox) = outbox[1] /\ Head(outbox) \in Calls
  BY <1>1
<1>3. ASSUME NEW i \in RunsOut' PROVE i \in Nat \ {0} /\ i + 1 \in RunsOut
  BY <1>2, <1>3 DEF RunsOut
<1>4. \A i, j \in RunsOut : i = j
  BY DEF RunInv
<1>5. Head(outbox).op = "run" => 1 \in RunsOut
  BY <1>2 DEF RunsOut
<1>6. ASSUME NEW i \in RunsOut', NEW j \in RunsOut' PROVE i = j
  BY <1>3, <1>4
<1>7. ASSUME NEW i \in RunsOut' PROVE RunsOut # {} /\ Head(outbox).op # "run"
  <2>1. i + 1 \in RunsOut /\ i + 1 # 1
    BY <1>3
  <2> QED BY <1>4, <1>5, <2>1
<1> QED BY <1>2, <1>5, <1>6, <1>7

\* ... and with another one.
LEMMA AppendRuns ==
  ASSUME Shapes, RunInv, NEW c \in Calls, outbox' = Append(outbox, c)
  PROVE  /\ outbox' \in Seq(Calls)
         /\ c.op # "run" => RunsOut' = RunsOut
         /\ RunsOut = {} => \A i, j \in RunsOut' : i = j
<1>1. outbox \in Seq(Calls)
  BY DEF Shapes
<1>2. /\ outbox' \in Seq(Calls) /\ Len(outbox') = Len(outbox) + 1 /\ Len(outbox) \in Nat
      /\ \A i \in 1..Len(outbox) : outbox'[i] = outbox[i]
      /\ outbox'[Len(outbox) + 1] = c
  BY <1>1
<1>3. RunsOut \subseteq RunsOut'
  BY <1>2 DEF RunsOut
<1>4. ASSUME NEW i \in RunsOut' PROVE i \in RunsOut \/ (i = Len(outbox) + 1 /\ c.op = "run")
  BY <1>2, <1>4 DEF RunsOut
<1> QED BY <1>2, <1>3, <1>4

\* The answer to a call leaves the exit status.
LEMMA OnCallFinishedFacts ==
  ASSUME Shapes, NEW n, NEW error, OnCallFinished(n, error)
  PROVE  DOMAIN mirror' = Property /\ mirror'.exitStatus = mirror.exitStatus
<1>1. mirror' = mirror \/ mirror' = [mirror EXCEPT !["error"] = "AuthError"]
  BY DEF OnCallFinished, FailCall, Update
<1> QED BY <1>1 DEF Shapes, Property

\* A call without an answer is no end.
LEMMA TimeOutFacts ==
  ASSUME Shapes, CallTimesOut
  PROVE  DOMAIN mirror' = Property /\ mirror'.exitStatus = mirror.exitStatus
BY OnCallFinishedFacts DEF CallTimesOut

\* The client takes a message: of the exit status only the end and the loss of the
\* worker tell.
LEMMA DeliverFacts ==
  ASSUME Shapes, Deliver
  PROVE  /\ DOMAIN mirror' = Property
         /\ IsEnd(Head(inbox)) => mirror'.exitStatus = Head(inbox).value
         /\ IsGone(Head(inbox)) =>
              mirror'.exitStatus = IF mirror.exitStatus = "Unfinished" THEN "Failed" ELSE mirror.exitStatus
         /\ ~IsEnd(Head(inbox)) /\ ~IsGone(Head(inbox)) => mirror'.exitStatus = mirror.exitStatus
<1> DEFINE m == Head(inbox)
<1>a. DOMAIN mirror = Property /\ "exitStatus" \in Property
  BY DEF Shapes, Property
<1>1. CASE m.kind = "changed" /\ UpdateProperty(m.what, m.value)
  <2>1. mirror' = [mirror EXCEPT ![m.what] = m.value]
    BY <1>1 DEF UpdateProperty, Update
  <2> QED BY <1>1, <1>a, <2>1 DEF IsEnd, IsGone
<1>2. CASE m.kind = "reply" /\ OnCallFinished(m.what, m.value)
  BY <1>2, OnCallFinishedFacts DEF IsEnd, IsGone
<1>3. CASE m.kind = "gone" /\ ServiceGone
  <2>1. CASE mirror.exitStatus = "Unfinished"
    <3>1. mirror' = [mirror EXCEPT !["error"] = "WorkerDisappeared", !["cancellable"] = FALSE,
                                   !["status"] = "Finished", !["exitStatus"] = "Failed"]
      BY <1>3, <2>1 DEF ServiceGone
    <3> QED BY <1>3, <1>a, <2>1, <3>1 DEF IsEnd, IsGone
  <2>2. CASE mirror.exitStatus # "Unfinished"
    BY <1>3, <1>a, <2>2 DEF ServiceGone, IsEnd, IsGone
  <2> QED BY <2>1, <2>2
<1>4. CASE m.kind = "prompt" /\ UNCHANGED mirror
  BY <1>4, <1>a DEF IsEnd, IsGone
<1> QED BY <1>1, <1>2, <1>3, <1>4 DEF Deliver

\* The worker's death is told to the client.
LEMMA DaemonEndsFacts ==
  ASSUME Shapes, DaemonEnds
  PROVE  /\ <<OwnerGone>> \o ToCaller(asking, "NoReply") \in Seq(Messages)
         /\ Send(<<OwnerGone>> \o ToCaller(asking, "NoReply"))
         /\ \A i \in 1..Len(<<OwnerGone>> \o ToCaller(asking, "NoReply")) :
              ~IsEnd((<<OwnerGone>> \o ToCaller(asking, "NoReply"))[i])
<1>1. OwnerGone \in Messages /\ ~IsEnd(OwnerGone)
  BY WordFacts DEF OwnerGone, Message, Messages, IsEnd
<1>2. Harmless(ToCaller(asking, "NoReply"))
  BY ToCallerHarmless DEF Shapes, ReplyErrors
<1> DEFINE ms == ToCaller(asking, "NoReply")
<1>3. Send(<<OwnerGone>> \o ms)
  BY DEF DaemonEnds
<1> HIDE DEF ms, OwnerGone
<1>4. ms \in Seq(Messages) /\ \A i \in 1..Len(ms) : ~IsEnd(ms[i])
  BY <1>2 DEF Harmless, ms
<1>5. /\ <<OwnerGone>> \o ms \in Seq(Messages) /\ Len(<<OwnerGone>> \o ms) = 1 + Len(ms)
      /\ (<<OwnerGone>> \o ms)[1] = OwnerGone
      /\ \A i \in 1..Len(ms) : (<<OwnerGone>> \o ms)[i + 1] = ms[i]
  BY <1>1, <1>4
<1>6. ASSUME NEW i \in 1..Len(<<OwnerGone>> \o ms) PROVE ~IsEnd((<<OwnerGone>> \o ms)[i])
  <2>1. CASE i = 1
    BY <1>1, <1>5, <2>1
  <2>2. CASE i # 1
    <3>1. i - 1 \in 1..Len(ms) /\ i = (i - 1) + 1
      BY <1>4, <1>5, <2>2
    <3>2. (<<OwnerGone>> \o ms)[i] = ms[i - 1]
      BY <1>5, <3>1
    <3> QED BY <1>4, <3>1, <3>2
  <2> QED BY <2>1, <2>2
<1> QED BY <1>3, <1>5, <1>6 DEF ms

\* Its later calls are answered for it.
LEMMA CallFailsFacts ==
  ASSUME Shapes, CallFails
  PROVE  /\ Quiet /\ outbox # <<>> /\ outbox' = Tail(outbox)
         /\ UNCHANGED <<alive, asking, job, work, hasRun, calls, phase, mirror>>
<1>1. PICK error \in ReplyErrors : Send(ToCaller(Head(outbox), error))
  BY DEF CallFails, ReplyErrors
<1>2. outbox # <<>> /\ outbox' = Tail(outbox) /\ UNCHANGED <<alive, asking, job, work, hasRun, calls, phase, mirror>>
  BY DEF CallFails, daemonVars, objectVars
<1>3. Head(outbox) \in Calls
  BY <1>2 DEF Shapes
<1> QED BY <1>1, <1>2, <1>3, RefuseQuiet

\* A job is run once, and only what was run exits.
THEOREM ClientShapes == Spec => [](Shapes /\ RunInv)
<1>1. Init => Shapes /\ RunInv
  <2> SUFFICES ASSUME Init PROVE Shapes /\ RunInv
    OBVIOUS
  <2>1. DOMAIN Fresh = Property /\ Fresh.exitStatus = "Unfinished"
    BY DEF Fresh, Property
  <2>2. RunsOut = {}
    BY DEF Init, RunsOut
  <2> QED BY <2>1, <2>2 DEF Init, Shapes, RunInv, NoCall
<1>2. Shapes /\ RunInv /\ [Next]_vars => (Shapes /\ RunInv)'
  <2> SUFFICES ASSUME Shapes, RunInv, [Next]_vars PROVE Shapes' /\ RunInv'
    OBVIOUS
  <2>a. /\ outbox \in Seq(Calls) /\ asking \in Calls \cup {NoCall} /\ NoCall.op # "run"
        /\ DOMAIN mirror = Property /\ DOMAIN work = Property
        /\ calls \in Nat /\ phase \in {"new", "half", "synced", "connected"}
    BY DEF Shapes, NoCall
  <2>b. outbox' = outbox => RunsOut' = RunsOut
    BY DEF RunsOut
  <2>1. CASE HandleCall
    <3>1. Shapes'
      BY <2>1, <2>a, HandleCallFacts, QuietShapes, TailRuns DEF Shapes, objectVars
    <3>2. asking = NoCall /\ hasRun' = hasRun /\ work'.exitStatus = work.exitStatus
      BY <2>1, HandleCallFacts DEF Quiet, objectVars
    <3>3. /\ \A i, j \in RunsOut' : i = j
          /\ RunsOut' # {} => RunsOut # {} /\ Head(outbox).op # "run"
          /\ Head(outbox).op = "run" => RunsOut # {}
      BY <2>1, HandleCallFacts, TailRuns
    <3>4. RunInv'
      <4>1. CASE UNCHANGED <<asking, job>>
        BY <2>a, <3>2, <3>3, <4>1 DEF RunInv
      <4>2. CASE asking' = Head(outbox) /\ job' = job
        BY <2>a, <3>2, <3>3, <4>2 DEF RunInv
      <4>3. CASE asking' = NoCall /\ job' = "queued" /\ Head(outbox).op = "run"
        BY <2>a, <3>2, <3>3, <4>3 DEF RunInv
      <4> QED BY <2>1, <4>1, <4>2, <4>3, HandleCallFacts
    <3> QED BY <3>1, <3>4
  <2>2. CASE Authorized
    <3>1. Shapes'
      BY <2>2, <2>a, AuthorizedFacts, QuietShapes DEF Shapes, objectVars
    <3>2. hasRun' = hasRun /\ work'.exitStatus = work.exitStatus
      BY <2>2, AuthorizedFacts DEF Quiet, objectVars
    <3> QED BY <2>2, <2>a, <2>b, <3>1, <3>2, AuthorizedFacts DEF RunInv
  <2>3. CASE Unauthorized
    <3>1. Shapes'
      BY <2>3, <2>a, UnauthorizedFacts, QuietShapes DEF Shapes, objectVars
    <3>2. hasRun' = hasRun /\ work'.exitStatus = work.exitStatus
      BY <2>3, UnauthorizedFacts DEF Quiet, objectVars
    <3> QED BY <2>3, <2>a, <2>b, <3>1, <3>2, UnauthorizedFacts DEF RunInv
  <2>4. CASE Unregister
    BY <2>4, <2>b DEF Unregister, Shapes, RunInv, objectVars
  <2>5. CASE JobStarts \/ JobAnnounces \/ JobPrompts \/ JobLeaves \/ JobFinishes
    <3>1. Shapes'
      BY <2>5, <2>a, JobFacts, QuietShapes DEF Shapes, objectVars
    <3>2. hasRun' = hasRun /\ work'.exitStatus = work.exitStatus
      BY <2>5, JobFacts DEF Quiet, objectVars
    <3> QED BY <2>5, <2>a, <2>b, <3>1, <3>2, JobFacts DEF RunInv
  <2>6. CASE JobExits
    <3>1. PICK x \in Exits \ {"Unfinished"} :
            /\ Send(<<Changed("exitStatus", x)>>) /\ Changed("exitStatus", x) \in Messages
            /\ DOMAIN work' = Property /\ job = "leaving" /\ job' = "exiting"
            /\ UNCHANGED <<asking, outbox, objectVars>>
      BY <2>6, JobExitsFacts
    <3>2. inbox' \in Seq(Messages)
      <4>1. <<Changed("exitStatus", x)>> \in Seq(Messages)
        BY <3>1
      <4> QED BY <3>1, <4>1, SendFacts
    <3>3. Shapes'
      BY <2>a, <3>1, <3>2 DEF Shapes, objectVars
    <3> QED BY <2>b, <3>1, <3>3 DEF RunInv, objectVars
  <2>7. CASE SyncBegins \/ SyncEnds \/ Connect
    BY <2>7, <2>b DEF SyncBegins, SyncEnds, Connect, Shapes, RunInv, daemonVars
  <2>8. ASSUME NEW op \in {"set", "setFrontendCaps", "cancel", "answer"}, NEW arg \in Settings \cup {"none"},
               Call(op, arg), UNCHANGED hasRun
        PROVE  Shapes' /\ RunInv'
    <3> DEFINE c == [number |-> calls + 1, op |-> op, arg |-> arg]
    <3>1. c \in Calls /\ c.op # "run"
      BY <2>a DEF Calls
    <3>2. outbox' = Append(outbox, c) /\ calls' = calls + 1 /\ UNCHANGED <<daemonVars, inbox, phase, mirror>>
      BY <2>8 DEF Call
    <3>3. outbox' \in Seq(Calls) /\ RunsOut' = RunsOut
      BY <3>1, <3>2, AppendRuns
    <3> QED BY <2>8, <3>2, <3>3 DEF Shapes, RunInv, daemonVars
  <2>9. CASE ClientChanges
    <3>1. CASE Call("setFrontendCaps", "none") \/ Call("cancel", "none")
      BY <2>8, <2>9, <3>1 DEF ClientChanges
    <3>2. CASE \E s \in Settable : Call("set", s)
      BY <2>8, <2>9, <3>2, ConstantsAssumption DEF ClientChanges, ConstantsAssumption
    <3> QED BY <2>9, <3>1, <3>2 DEF ClientChanges
  <2>10. CASE ClientAnswers
    BY <2>8, <2>10 DEF ClientAnswers
  <2>11. CASE ClientRuns
    <3> DEFINE c == [number |-> calls + 1, op |-> "run", arg |-> "none"]
    <3>1. c \in Calls
      BY <2>a DEF Calls
    <3>2. /\ outbox' = Append(outbox, c) /\ calls' = calls + 1 /\ UNCHANGED <<daemonVars, inbox, phase, mirror>>
          /\ ~hasRun /\ hasRun'
      BY <2>11 DEF ClientRuns, Call
    <3>3. RunsOut = {} /\ asking.op # "run" /\ job = "pending"
      BY <3>2 DEF RunInv
    <3>4. outbox' \in Seq(Calls) /\ \A i, j \in RunsOut' : i = j
      BY <3>1, <3>2, <3>3, AppendRuns
    <3> QED BY <3>2, <3>3, <3>4 DEF Shapes, RunInv, daemonVars
  <2>12. CASE OtherRuns
    <3> DEFINE c == [number |-> 0, op |-> "run", arg |-> "none"]
    <3>1. c \in Calls
      BY DEF Calls
    <3>2. /\ outbox' = Append(outbox, c) /\ UNCHANGED <<daemonVars, inbox, phase, mirror, calls>>
          /\ ~hasRun /\ hasRun'
      BY <2>12 DEF OtherRuns, OtherCalls
    <3>3. RunsOut = {} /\ asking.op # "run" /\ job = "pending"
      BY <3>2 DEF RunInv
    <3>4. outbox' \in Seq(Calls) /\ \A i, j \in RunsOut' : i = j
      BY <3>1, <3>2, <3>3, AppendRuns
    <3> QED BY <3>2, <3>3, <3>4 DEF Shapes, RunInv, daemonVars
  <2>13. CASE OtherAnswers
    <3> DEFINE c == [number |-> 0, op |-> "answer", arg |-> "none"]
    <3>1. c \in Calls /\ c.op # "run"
      BY DEF Calls
    <3>2. outbox' = Append(outbox, c) /\ UNCHANGED <<daemonVars, inbox, phase, mirror, calls, hasRun>>
      BY <2>13 DEF OtherAnswers, OtherCalls
    <3>3. outbox' \in Seq(Calls) /\ RunsOut' = RunsOut
      BY <3>1, <3>2, AppendRuns
    <3> QED BY <3>2, <3>3 DEF Shapes, RunInv, daemonVars
  <2>14. CASE Deliver
    <3>1. inbox # <<>> /\ inbox' = Tail(inbox) /\ UNCHANGED <<daemonVars, outbox, phase, calls, hasRun>>
      BY <2>14 DEF Deliver
    <3>2. DOMAIN mirror' = Property
      BY <2>14, DeliverFacts
    <3>3. inbox' \in Seq(Messages)
      BY <3>1 DEF Shapes
    <3> QED BY <2>b, <3>1, <3>2, <3>3 DEF Shapes, RunInv, daemonVars
  <2>15. CASE CallTimesOut
    <3>1. DOMAIN mirror' = Property
      BY <2>15, TimeOutFacts
    <3> QED BY <2>15, <2>b, <3>1 DEF CallTimesOut, Shapes, RunInv, daemonVars
  <2>16. CASE DaemonEnds
    <3>1. /\ asking' = NoCall /\ UNCHANGED <<work, job, outbox, objectVars>>
          /\ inbox' \in Seq(Messages)
      BY <2>16, DaemonEndsFacts, SendFacts DEF DaemonEnds
    <3> QED BY <2>a, <2>b, <3>1 DEF Shapes, RunInv, objectVars
  <2>17. CASE CallFails
    <3>1. /\ Quiet /\ outbox # <<>> /\ outbox' = Tail(outbox)
          /\ UNCHANGED <<asking, job, work, hasRun, calls, phase, mirror>>
      BY <2>17, CallFailsFacts
    <3>2. Shapes'
      BY <2>a, <3>1, QuietShapes, TailRuns DEF Shapes
    <3> QED BY <3>1, <3>2, TailRuns DEF RunInv
  <2>18. CASE UNCHANGED vars
    BY <2>18, <2>b DEF vars, daemonVars, objectVars, Shapes, RunInv
  <2> QED BY <2>1, <2>2, <2>3, <2>4, <2>5, <2>6, <2>7, <2>9, <2>10, <2>11, <2>12, <2>13, <2>14, <2>15,
             <2>16, <2>17, <2>18 DEF Next, Daemon, Job, Client, Other
<1> QED BY <1>1, <1>2, PTL DEF Spec

-----------------------------------------------------------------------------
(* The end that the client tells of *)

\* Nothing changes that it depends on, or something harmless is sent.
LEMMA SameEnd ==
  ASSUME EndInv, UNCHANGED <<alive, inbox, phase, missed>>,
         mirror'.exitStatus = mirror.exitStatus, work'.exitStatus = work.exitStatus
  PROVE  EndInv'
BY DEF EndInv, Carried, HonestEnd

\* What is on its way stays in front of what is sent.
LEMMA SentBehind ==
  ASSUME NEW s \in Seq(Messages), NEW ms \in Seq(Messages)
  PROVE  /\ Len(s) \in Nat /\ Len(s \o ms) = Len(s) + Len(ms) /\ Len(ms) \in Nat
         /\ \A i \in 1..Len(s) : (s \o ms)[i] = s[i] /\ i \in 1..Len(s \o ms)
         /\ \A i \in 1..Len(s \o ms) :
              i \in 1..Len(s) \/ (i - Len(s) \in 1..Len(ms) /\ (s \o ms)[i] = ms[i - Len(s)])
<1>1. Len(s) \in Nat /\ Len(ms) \in Nat /\ Len(s \o ms) = Len(s) + Len(ms)
  OBVIOUS
<1>2. ASSUME NEW i \in 1..Len(s) PROVE (s \o ms)[i] = s[i] /\ i \in 1..Len(s \o ms)
  BY <1>1
<1>3. ASSUME NEW i \in 1..Len(s \o ms), i \notin 1..Len(s)
      PROVE  i - Len(s) \in 1..Len(ms) /\ (s \o ms)[i] = ms[i - Len(s)]
  BY <1>1, <1>3
<1> QED BY <1>1, <1>2, <1>3

\* What is carried is not overtaken by what is sent.
LEMMA CarriedFurther ==
  ASSUME Shapes, NEW ms \in Seq(Messages), inbox' = inbox \o ms, Carried,
         mirror'.exitStatus = mirror.exitStatus, work'.exitStatus = work.exitStatus
  PROVE  Carried'
<1>1. CASE mirror.exitStatus = work.exitStatus
  BY <1>1 DEF Carried
<1>2. CASE \E j \in 1..Len(inbox) : IsEnd(inbox[j]) /\ \A k \in 1..(j - 1) : ~IsGone(inbox[k])
  <2>1. PICK j \in 1..Len(inbox) : IsEnd(inbox[j]) /\ \A k \in 1..(j - 1) : ~IsGone(inbox[k])
    BY <1>2
  <2>2. inbox \in Seq(Messages)
    BY DEF Shapes
  <2>3. /\ Len(inbox) \in Nat
        /\ \A i \in 1..Len(inbox) : inbox'[i] = inbox[i] /\ i \in 1..Len(inbox')
    BY <2>2, SentBehind
  <2>4. ASSUME NEW k \in 1..(j - 1) PROVE ~IsGone(inbox'[k])
    BY <2>1, <2>3
  <2>5. IsEnd(inbox'[j]) /\ j \in 1..Len(inbox')
    BY <2>1, <2>3
  <2> QED BY <2>4, <2>5 DEF Carried, IsEnd, IsGone
<1> QED BY <1>1, <1>2 DEF Carried

\* Harmless messages leave the end as it is.
LEMMA QuietEnd ==
  ASSUME Shapes, EndInv, Quiet, UNCHANGED <<alive, phase, mirror>>
  PROVE  EndInv'
<1>1. PICK ms \in Seq(Messages) : Harmless(ms) /\ Send(ms)
  BY DEF Quiet
<1>2. work'.exitStatus = work.exitStatus /\ missed \subseteq missed'
  BY <1>1, SendFacts DEF Quiet
<1>3. HonestEnd'
  BY <1>2 DEF EndInv, HonestEnd
<1>4. CASE phase # "connected"
  <2>1. inbox' = inbox
    BY <1>1, <1>4, SendFacts
  <2> QED BY <1>2, <1>3, <1>4, <2>1 DEF EndInv, Carried
<1>5. CASE phase = "connected"
  <2>1. inbox' = inbox \o ms /\ inbox \in Seq(Messages)
    BY <1>1, <1>5, SendFacts DEF Shapes
  <2>2. ASSUME NEW i \in 1..Len(inbox')
        PROVE  /\ IsEnd(inbox'[i]) => inbox'[i].value = work.exitStatus /\ work.exitStatus # "Unfinished"
               /\ IsGone(inbox'[i]) => ~alive
    <3>1. CASE i \in 1..Len(inbox)
      <4>1. inbox'[i] = inbox[i]
        BY <2>1, <3>1, SentBehind
      <4> QED BY <3>1, <4>1 DEF EndInv
    <3>2. CASE i \notin 1..Len(inbox)
      <4>1. i - Len(inbox) \in 1..Len(ms) /\ inbox'[i] = ms[i - Len(inbox)]
        BY <2>1, <3>2, SentBehind
      <4> QED BY <1>1, <4>1 DEF Harmless
    <3> QED BY <3>1, <3>2
  <2>3. Carried => Carried'
    BY <1>2, <2>1, CarriedFurther
  <2>4. \A i \in 1..Len(inbox') :
          /\ IsEnd(inbox[i])' => inbox'[i].value = work'.exitStatus /\ work'.exitStatus # "Unfinished"
          /\ IsGone(inbox[i])' => ~alive'
    BY <1>2, <2>2 DEF IsEnd, IsGone
  <2> QED BY <1>2, <1>3, <1>5, <2>3, <2>4 DEF EndInv
<1> QED BY <1>4, <1>5

\* What is told of the end, and what is on its way, in every state.
LEMMA EndInvariance == Spec => []EndInv
<1>1. Init => EndInv
  <2> SUFFICES ASSUME Init PROVE EndInv
    OBVIOUS
  <2>1. Fresh.exitStatus = "Unfinished"
    BY DEF Fresh, Property
  <2> QED BY <2>1 DEF Init, EndInv, HonestEnd
<1>2. Shapes /\ RunInv /\ EndInv /\ [Next]_vars => EndInv'
  <2> SUFFICES ASSUME Shapes, RunInv, EndInv, [Next]_vars PROVE EndInv'
    OBVIOUS
  <2>a. Len(inbox) \in Nat /\ inbox \in Seq(Messages) /\ phase \in {"new", "half", "synced", "connected"}
    BY DEF Shapes
  <2>1. CASE HandleCall
    BY <2>1, HandleCallFacts, QuietEnd DEF objectVars
  <2>2. CASE Authorized
    BY <2>2, AuthorizedFacts, QuietEnd DEF objectVars
  <2>3. CASE Unauthorized
    BY <2>3, UnauthorizedFacts, QuietEnd DEF objectVars
  <2>4. CASE JobStarts \/ JobAnnounces \/ JobPrompts \/ JobLeaves \/ JobFinishes
    BY <2>4, JobFacts, QuietEnd DEF objectVars
  <2>5. CASE CallFails
    BY <2>5, CallFailsFacts, QuietEnd
  <2>6. CASE JobExits
    <3>1. PICK x \in Exits \ {"Unfinished"} :
            /\ Send(<<Changed("exitStatus", x)>>) /\ Changed("exitStatus", x) \in Messages
            /\ work'.exitStatus = x /\ alive /\ job = "leaving"
            /\ UNCHANGED <<alive, objectVars>>
      BY <2>6, JobExitsFacts
    <3> DEFINE end == Changed("exitStatus", x)
    <3>2. IsEnd(end) /\ ~IsGone(end) /\ end.value = x
      BY DEF Changed, Message, IsEnd, IsGone
    <3>3. Send(<<end>>) /\ end \in Messages /\ UNCHANGED <<alive, phase, mirror>>
      BY <3>1 DEF objectVars
    <3>4. work.exitStatus = "Unfinished"
      BY <3>1 DEF RunInv
    <3>5. "exitStatus" \notin missed => mirror.exitStatus = "Unfinished"
      BY <3>1, <3>4 DEF EndInv, HonestEnd
    <3> HIDE DEF end
    <3>6. <<end>> \in Seq(Messages) /\ Len(<<end>>) = 1 /\ <<end>>[1] = end
      BY <3>3
    <3>7. missed \subseteq missed' /\ HonestEnd'
      <4>1. missed \subseteq missed'
        BY <3>3, <3>6, SendFacts
      <4> QED BY <3>3, <3>5, <4>1 DEF HonestEnd
    <3>8. CASE phase # "connected"
      <4>1. inbox' = inbox /\ inbox = <<>>
        BY <3>3, <3>6, <3>8, SendFacts DEF EndInv
      <4>2. phase = "synced" => "exitStatus" \in missed'
        <5>1. \E i \in 1..Len(<<end>>) : IsEnd(<<end>>[i])
          BY <3>2, <3>6
        <5> QED BY <3>3, <3>6, <5>1, SendFacts
      <4> QED BY <3>3, <3>7, <3>8, <4>1, <4>2 DEF EndInv
    <3>9. CASE phase = "connected"
      <4>1. inbox' = inbox \o <<end>>
        BY <3>3, <3>6, <3>9, SendFacts
      <4>2. ASSUME NEW i \in 1..Len(inbox) PROVE ~IsEnd(inbox[i]) /\ ~IsGone(inbox[i])
        BY <3>1, <3>4 DEF EndInv
      <4>3. /\ Len(inbox') = Len(inbox) + 1 /\ inbox'[Len(inbox) + 1] = end
            /\ \A i \in 1..Len(inbox) : inbox'[i] = inbox[i]
        BY <2>a, <3>3, <4>1
      <4>4. ASSUME NEW i \in 1..Len(inbox')
            PROVE  /\ IsEnd(inbox'[i]) => inbox'[i].value = x
                   /\ ~IsGone(inbox'[i])
        <5>1. CASE i \in 1..Len(inbox)
          BY <4>2, <4>3, <5>1
        <5>2. CASE i \notin 1..Len(inbox)
          <6>1. i = Len(inbox) + 1
            BY <2>a, <4>3, <5>2
          <6> QED BY <3>2, <4>3, <6>1
        <5> QED BY <5>1, <5>2
      <4>5. /\ Len(inbox) + 1 \in 1..Len(inbox') /\ IsEnd(inbox'[Len(inbox) + 1])
            /\ \A k \in 1..((Len(inbox) + 1) - 1) : ~IsGone(inbox'[k])
        BY <2>a, <3>2, <4>2, <4>3
      <4>6. Carried'
        BY <4>5 DEF Carried, IsEnd, IsGone
      <4>7. \A i \in 1..Len(inbox') :
              /\ IsEnd(inbox[i])' => inbox'[i].value = work'.exitStatus /\ work'.exitStatus # "Unfinished"
              /\ IsGone(inbox[i])' => ~alive'
        BY <3>1, <4>4 DEF IsEnd, IsGone
      <4> QED BY <3>3, <3>7, <3>9, <4>6, <4>7 DEF EndInv
    <3> QED BY <3>8, <3>9
  <2>7. CASE DaemonEnds
    <3> DEFINE ms == <<OwnerGone>> \o ToCaller(asking, "NoReply")
    <3>1. ms \in Seq(Messages) /\ Send(ms) /\ \A i \in 1..Len(ms) : ~IsEnd(ms[i])
      BY <2>7, DaemonEndsFacts
    <3>2. alive /\ ~alive' /\ UNCHANGED <<work, phase, mirror>>
      BY <2>7 DEF DaemonEnds, objectVars
    <3> HIDE DEF ms
    <3>3. missed \subseteq missed' /\ HonestEnd'
      <4>1. missed \subseteq missed'
        BY <3>1, SendFacts
      <4> QED BY <3>2, <4>1 DEF EndInv, HonestEnd
    <3>4. CASE phase # "connected"
      <4>1. inbox' = inbox
        BY <3>1, <3>4, SendFacts
      <4> QED BY <3>2, <3>3, <3>4, <4>1 DEF EndInv, Carried
    <3>5. CASE phase = "connected"
      <4>1. inbox' = inbox \o ms
        BY <3>1, <3>5, SendFacts
      <4>2. ASSUME NEW i \in 1..Len(inbox'), IsEnd(inbox'[i])
            PROVE  inbox'[i].value = work.exitStatus /\ work.exitStatus # "Unfinished"
        <5>1. CASE i \in 1..Len(inbox)
          <6>1. inbox'[i] = inbox[i]
            BY <2>a, <3>1, <4>1, <5>1, SentBehind
          <6> QED BY <4>2, <5>1, <6>1 DEF EndInv
        <5>2. CASE i \notin 1..Len(inbox)
          <6>1. i - Len(inbox) \in 1..Len(ms) /\ inbox'[i] = ms[i - Len(inbox)]
            BY <2>a, <3>1, <4>1, <5>2, SentBehind
          <6> QED BY <3>1, <4>2, <6>1
        <5> QED BY <5>1, <5>2
      <4>3. Carried => Carried'
        BY <3>1, <3>2, <4>1, CarriedFurther
      <4>4. \A i \in 1..Len(inbox') :
              /\ IsEnd(inbox[i])' => inbox'[i].value = work'.exitStatus /\ work'.exitStatus # "Unfinished"
              /\ IsGone(inbox[i])' => ~alive'
        BY <3>2, <4>2 DEF IsEnd
      <4> QED BY <3>2, <3>3, <3>5, <4>3, <4>4 DEF EndInv
    <3> QED BY <3>4, <3>5
  <2>8. CASE SyncBegins
    <3>1. phase = "new" /\ UNCHANGED <<alive, work, inbox>>
      BY <2>8 DEF SyncBegins, daemonVars
    <3>2. inbox = <<>> /\ mirror.exitStatus = "Unfinished"
      BY <3>1 DEF EndInv
    <3>3. CASE phase' = "half"
      <4>1. phase' = "half" /\ missed' = missed
            /\ mirror' = [p \in Property |-> IF p \in FirstHalf THEN work[p] ELSE Fresh[p]]
        BY <2>8, <3>3 DEF SyncBegins
      <4>2. mirror'.exitStatus = "Unfinished"
        BY <4>1 DEF Fresh, FirstHalf, Settings, Property
      <4> QED BY <3>1, <3>2, <4>1, <4>2 DEF EndInv, HonestEnd
    <3>4. CASE phase' # "half"
      <4>1. phase' = "synced" /\ "exitStatus" \in missed'
        BY <2>8, <3>4 DEF SyncBegins, Property
      <4> QED BY <3>1, <3>2, <4>1 DEF EndInv, HonestEnd
    <3> QED BY <3>3, <3>4
  <2>9. CASE SyncEnds
    <3>1. /\ phase = "half" /\ phase' = "synced" /\ UNCHANGED <<alive, work, inbox>>
          /\ mirror' = [p \in Property |-> IF p \in FirstHalf THEN mirror[p] ELSE work[p]]
      BY <2>9 DEF SyncEnds, daemonVars
    <3>2. mirror'.exitStatus = work.exitStatus
      BY <3>1 DEF FirstHalf, Settings, Property
    <3>3. inbox = <<>>
      BY <3>1 DEF EndInv
    <3> QED BY <3>1, <3>2, <3>3 DEF EndInv, HonestEnd, Carried
  <2>10. CASE Connect
    <3>1. phase = "synced" /\ phase' = "connected" /\ UNCHANGED <<alive, work, inbox, mirror, missed>>
      BY <2>10 DEF Connect, daemonVars
    <3> QED BY <3>1 DEF EndInv, HonestEnd, Carried
  <2>11. CASE ClientChanges \/ ClientRuns \/ ClientAnswers
    BY <2>11, SameEnd DEF ClientChanges, ClientRuns, ClientAnswers, Call, daemonVars
  <2>12. CASE OtherRuns \/ OtherAnswers
    BY <2>12, SameEnd DEF OtherRuns, OtherAnswers, OtherCalls, daemonVars
  <2>13. CASE Unregister
    BY <2>13, SameEnd DEF Unregister, objectVars
  <2>14. CASE CallTimesOut
    BY <2>14, SameEnd, TimeOutFacts DEF CallTimesOut, daemonVars
  <2>15. CASE Deliver
    <3>1. inbox # <<>> /\ inbox' = Tail(inbox) /\ UNCHANGED <<alive, work, phase, missed>>
      BY <2>15 DEF Deliver, daemonVars
    <3>2. /\ Len(inbox') = Len(inbox) - 1 /\ Head(inbox) = inbox[1] /\ Len(inbox) \in Nat \ {0}
          /\ \A i \in 1..Len(inbox') : inbox'[i] = inbox[i + 1]
      BY <2>a, <3>1
    <3>3. phase = "connected"
      BY <3>1 DEF EndInv
    <3>4. \A i \in 1..Len(inbox') :
            /\ IsEnd(inbox[i])' => inbox'[i].value = work'.exitStatus /\ work'.exitStatus # "Unfinished"
            /\ IsGone(inbox[i])' => ~alive'
      <4>1. ASSUME NEW i \in 1..Len(inbox')
            PROVE  /\ IsEnd(inbox'[i]) => inbox'[i].value = work.exitStatus /\ work.exitStatus # "Unfinished"
                   /\ IsGone(inbox'[i]) => ~alive
        <5>1. i + 1 \in 1..Len(inbox) /\ inbox'[i] = inbox[i + 1]
          BY <3>2
        <5> QED BY <5>1 DEF EndInv
      <4> QED BY <3>1, <4>1 DEF IsEnd, IsGone
    <3>5. 1 \in 1..Len(inbox)
      BY <3>2
    <3>6. CASE IsEnd(Head(inbox))
      <4>1. mirror'.exitStatus = work.exitStatus
        BY <2>15, <3>2, <3>5, <3>6, DeliverFacts DEF EndInv
      <4> QED BY <3>1, <3>3, <3>4, <4>1 DEF EndInv, Carried, HonestEnd
    <3>7. CASE IsGone(Head(inbox))
      <4>1. /\ ~alive
            /\ mirror'.exitStatus = IF mirror.exitStatus = "Unfinished" THEN "Failed" ELSE mirror.exitStatus
        BY <2>15, <3>2, <3>5, <3>7, DeliverFacts DEF EndInv
      <4>2. Carried => mirror.exitStatus = work.exitStatus
        <5> SUFFICES ASSUME NEW j \in 1..Len(inbox), IsEnd(inbox[j]), \A k \in 1..(j - 1) : ~IsGone(inbox[k])
                     PROVE  FALSE
          BY DEF Carried
        <5>1. j # 1
          BY <3>2, <3>7 DEF IsEnd, IsGone
        <5>2. 1 \in 1..(j - 1)
          BY <3>2, <5>1
        <5> QED BY <3>2, <3>7, <5>2
      <4>3. "exitStatus" \notin missed /\ work.exitStatus # "Unfinished" => mirror.exitStatus = work.exitStatus
        BY <3>3, <4>2 DEF EndInv
      <4> QED BY <3>1, <3>3, <3>4, <4>1, <4>3 DEF EndInv, Carried, HonestEnd
    <3>8. CASE ~IsEnd(Head(inbox)) /\ ~IsGone(Head(inbox))
      <4>1. mirror'.exitStatus = mirror.exitStatus
        BY <2>15, <3>8, DeliverFacts
      <4>2. Carried => Carried'
        <5>1. CASE mirror.exitStatus = work.exitStatus
          BY <3>1, <4>1, <5>1 DEF Carried
        <5>2. ASSUME NEW j \in 1..Len(inbox), IsEnd(inbox[j]), \A k \in 1..(j - 1) : ~IsGone(inbox[k])
              PROVE  Carried'
          <6>1. j # 1
            BY <3>2, <3>8, <5>2
          <6>2. j - 1 \in 1..Len(inbox') /\ inbox'[j - 1] = inbox[j]
            BY <3>2, <6>1
          <6>3. ASSUME NEW k \in 1..((j - 1) - 1) PROVE ~IsGone(inbox'[k])
            <7>1. k + 1 \in 1..(j - 1) /\ inbox'[k] = inbox[k + 1]
              BY <3>2
            <7> QED BY <5>2, <7>1
          <6> QED BY <5>2, <6>2, <6>3 DEF Carried, IsEnd, IsGone
        <5> QED BY <5>1, <5>2 DEF Carried
      <4> QED BY <3>1, <3>3, <3>4, <4>1, <4>2 DEF EndInv, HonestEnd
    <3> QED BY <3>6, <3>7, <3>8
  <2>16. CASE UNCHANGED vars
    BY <2>16, SameEnd DEF vars, daemonVars, objectVars
  <2> QED BY <2>1, <2>2, <2>3, <2>4, <2>5, <2>6, <2>7, <2>8, <2>9, <2>10, <2>11, <2>12, <2>13, <2>14,
             <2>15, <2>16 DEF Next, Daemon, Job, Client, Other
<1> QED BY <1>1, <1>2, ClientShapes, PTL DEF Spec

\* The client's copy never tells of another end than there was.
THEOREM EndIsAlwaysHonest == Spec => []HonestEnd
<1>1. EndInv => HonestEnd
  BY DEF EndInv
<1> QED BY <1>1, EndInvariance, PTL

-----------------------------------------------------------------------------
(* The stream of signals *)

IsLast(m) == m.kind = "changed" /\ m.what = "status" /\ m.value = "Finished"

IsPlain(m) ==
  m.kind = "reply" \/ (m.kind = "changed" /\ m.what \in Settings \cup {"none", "cancelled"})

\* The order in which the news are sent: what happens until the end of the job, the
\* end, the last status, and that the worker is gone.  Replies come at any time.
Rank(m) ==
  IF IsPlain(m) THEN 0 ELSE IF IsGone(m) THEN 4 ELSE IF IsLast(m) THEN 3 ELSE IF IsEnd(m) THEN 2 ELSE 1

Known(m) ==
  /\ m.kind = "changed" => m.what # "paused"
  /\ Rank(m) = 2 => m.value \in Exits \ {"Unfinished"}

RanksIn(q) == {Rank(q[i]) : i \in 1..Len(q)}

Orderly(q) ==
  /\ \A i \in 1..Len(q) : Known(q[i])
  /\ \A i, j \in 1..Len(q) :
       i < j /\ Rank(q[i]) > 0 /\ Rank(q[j]) > 0 =>
         Rank(q[i]) < Rank(q[j]) \/ (Rank(q[i]) = 1 /\ Rank(q[j]) = 1)

\* Of what rank the messages on their way are, and that they are in order.
Ranks == RanksIn(inbox)

InOrder == Orderly(inbox)

JobOver == job \in {"exiting", "done"}

Names == {"statusChanged", "errorOccurred", "cancellableChanged", "progressChanged", "finished", "prompt"}

Signals == Names \X Words

HeardEnd  == \E i \in 1..Len(heard) : heard[i][1] = "finished"
HeardLast == \E i \in 1..Len(heard) : heard[i][1] = "statusChanged" /\ heard[i][2] = "Finished"

HeardSeq ==
  /\ heard \in Seq(Signals)
  /\ \A i \in 1..Len(heard) : heard[i][1] = "finished" => heard[i][2] \in Exits \ {"Unfinished"}

\* Nothing is sent that has been heard, and the end of one's own job is heard before the
\* last status.
StreamInv ==
  /\ InOrder /\ HeardSeq
  /\ 2 \in Ranks => JobOver
  /\ 3 \in Ranks => job = "done"
  /\ 4 \in Ranks => ~alive
  /\ phase # "connected" => heard = <<>> /\ awaiting = {} /\ (client.owner => ~hasRun)
  /\ HeardEnd =>
       /\ JobOver \/ ~alive
       /\ mirror.exitStatus # "Unfinished"
       /\ 1 \notin Ranks /\ 2 \notin Ranks
  /\ client.owner =>
       /\ JobOver => HeardEnd \/ 2 \in Ranks
       /\ HeardLast => HeardEnd /\ (job = "done" \/ ~alive) /\ 3 \notin Ranks

-----------------------------------------------------------------------------
(* News in order *)

\* Of what rank the messages are that are sent.
LEMMA RankFacts ==
  /\ \A m : Rank(m) \in 0..4
  /\ \A v : v # "Finished" => Rank(Changed("status", v)) = 1 /\ Known(Changed("status", v))
  /\ \A p \in {"error", "cancellable", "progress"} : \A v :
       Rank(Changed(p, v)) = 1 /\ Known(Changed(p, v))
  /\ \A p \in Settings \cup {"none", "cancelled"} : \A v :
       Rank(Changed(p, v)) = 0 /\ Known(Changed(p, v))
  /\ \A c, error : Rank(Reply(c, error)) = 0 /\ Known(Reply(c, error))
  /\ Rank(Prompt) = 1 /\ Known(Prompt)
  /\ \A x \in Exits \ {"Unfinished"} :
       Rank(Changed("exitStatus", x)) = 2 /\ Known(Changed("exitStatus", x))
  /\ Rank(Changed("status", "Finished")) = 3 /\ Known(Changed("status", "Finished"))
  /\ Rank(OwnerGone) = 4 /\ Known(OwnerGone)
<1>1. \A m : Rank(m) \in 0..4
  BY DEF Rank
<1>2. ASSUME NEW v, v # "Finished"
      PROVE  Rank(Changed("status", v)) = 1 /\ Known(Changed("status", v))
  BY <1>2 DEF Rank, Known, Changed, Message, IsPlain, IsGone, IsLast, IsEnd, Settings
<1>3. ASSUME NEW p \in {"error", "cancellable", "progress"}, NEW v
      PROVE  Rank(Changed(p, v)) = 1 /\ Known(Changed(p, v))
  BY DEF Rank, Known, Changed, Message, IsPlain, IsGone, IsLast, IsEnd, Settings
<1>4. ASSUME NEW p \in Settings \cup {"none", "cancelled"}, NEW v
      PROVE  Rank(Changed(p, v)) = 0 /\ Known(Changed(p, v))
  BY DEF Rank, Known, Changed, Message, IsPlain, Settings
<1>5. ASSUME NEW c, NEW error PROVE Rank(Reply(c, error)) = 0 /\ Known(Reply(c, error))
  BY DEF Rank, Known, Reply, Message, IsPlain
<1>6. Rank(Prompt) = 1 /\ Known(Prompt)
  BY DEF Rank, Known, Prompt, Message, IsPlain, IsGone, IsLast, IsEnd
<1>7. ASSUME NEW x \in Exits \ {"Unfinished"}
      PROVE  Rank(Changed("exitStatus", x)) = 2 /\ Known(Changed("exitStatus", x))
  BY DEF Rank, Known, Changed, Message, IsPlain, IsGone, IsLast, IsEnd, Settings
<1>8. Rank(Changed("status", "Finished")) = 3 /\ Known(Changed("status", "Finished"))
  BY DEF Rank, Known, Changed, Message, IsPlain, IsGone, IsLast, IsEnd, Settings
<1>9. Rank(OwnerGone) = 4 /\ Known(OwnerGone)
  BY DEF Rank, Known, OwnerGone, Message, IsPlain, IsGone, IsLast, IsEnd, Settings
<1> QED BY <1>1, <1>2, <1>3, <1>4, <1>5, <1>6, <1>7, <1>8, <1>9

\* The same of the next state.
LEMMA RanksNext == Ranks' = RanksIn(inbox') /\ (InOrder' <=> Orderly(inbox'))
BY DEF Ranks, InOrder, RanksIn, Orderly, Known, Rank, IsPlain, IsGone, IsLast, IsEnd

\* Messages sent behind others, if they are in order and none of them comes too late.
LEMMA OrderlyCat ==
  ASSUME NEW q \in Seq(Messages), NEW ms \in Seq(Messages), Orderly(q), Orderly(ms),
         \A a \in RanksIn(q), b \in RanksIn(ms) : a > 0 /\ b > 0 => a < b \/ (a = 1 /\ b = 1)
  PROVE  Orderly(q \o ms) /\ RanksIn(q \o ms) = RanksIn(q) \cup RanksIn(ms)
<1> DEFINE r == q \o ms
<1>1. /\ r \in Seq(Messages) /\ Len(r) = Len(q) + Len(ms) /\ Len(q) \in Nat /\ Len(ms) \in Nat
      /\ \A i \in 1..Len(q) : r[i] = q[i] /\ i \in 1..Len(r)
      /\ \A i \in 1..Len(ms) : r[i + Len(q)] = ms[i] /\ i + Len(q) \in 1..Len(r)
      /\ \A i \in 1..Len(r) : i \in 1..Len(q) \/ (i - Len(q) \in 1..Len(ms) /\ r[i] = ms[i - Len(q)])
  OBVIOUS
<1> HIDE DEF r
<1>2. RanksIn(r) = RanksIn(q) \cup RanksIn(ms)
  <2>1. RanksIn(q) \subseteq RanksIn(r) /\ RanksIn(ms) \subseteq RanksIn(r)
    BY <1>1 DEF RanksIn
  <2>2. RanksIn(r) \subseteq RanksIn(q) \cup RanksIn(ms)
    BY <1>1 DEF RanksIn
  <2> QED BY <2>1, <2>2
<1>3. ASSUME NEW i \in 1..Len(r) PROVE Known(r[i])
  BY <1>1 DEF Orderly
<1>4. ASSUME NEW i \in 1..Len(r), NEW j \in 1..Len(r), i < j, Rank(r[i]) > 0, Rank(r[j]) > 0
      PROVE  Rank(r[i]) < Rank(r[j]) \/ (Rank(r[i]) = 1 /\ Rank(r[j]) = 1)
  <2>1. CASE j \in 1..Len(q)
    <3>1. i \in 1..Len(q) /\ r[i] = q[i] /\ r[j] = q[j]
      BY <1>1, <1>4, <2>1
    <3> QED BY <1>4, <2>1, <3>1 DEF Orderly
  <2>2. CASE i \in 1..Len(q) /\ j \notin 1..Len(q)
    <3>1. r[i] = q[i] /\ j - Len(q) \in 1..Len(ms) /\ r[j] = ms[j - Len(q)]
      BY <1>1, <2>2
    <3>2. Rank(r[i]) \in RanksIn(q) /\ Rank(r[j]) \in RanksIn(ms)
      BY <2>2, <3>1 DEF RanksIn
    <3> QED BY <1>4, <3>2
  <2>3. CASE i \notin 1..Len(q) /\ j \notin 1..Len(q)
    <3>1. /\ i - Len(q) \in 1..Len(ms) /\ r[i] = ms[i - Len(q)]
          /\ j - Len(q) \in 1..Len(ms) /\ r[j] = ms[j - Len(q)]
          /\ i - Len(q) < j - Len(q)
      BY <1>1, <1>4, <2>3
    <3> QED BY <1>4, <3>1 DEF Orderly
  <2> QED BY <2>1, <2>2, <2>3
<1> QED BY <1>2, <1>3, <1>4 DEF Orderly, r

\* What is left when the first message is taken.
LEMMA OrderlyTail ==
  ASSUME NEW q \in Seq(Messages), q # <<>>, Orderly(q)
  PROVE  /\ Orderly(Tail(q)) /\ Known(Head(q)) /\ Head(q) \in Messages
         /\ RanksIn(q) = {Rank(Head(q))} \cup RanksIn(Tail(q))
         /\ Rank(Head(q)) > 0 => \A b \in RanksIn(Tail(q)) :
              b > 0 => Rank(Head(q)) < b \/ (Rank(Head(q)) = 1 /\ b = 1)
<1>1. /\ Len(q) \in Nat \ {0} /\ Len(Tail(q)) = Len(q) - 1 /\ Head(q) = q[1] /\ Head(q) \in Messages
      /\ \A i \in 1..Len(Tail(q)) : Tail(q)[i] = q[i + 1] /\ i + 1 \in 1..Len(q)
  OBVIOUS
<1>2. 1 \in 1..Len(q)
  BY <1>1
<1>3. Known(Head(q)) /\ Rank(Head(q)) \in RanksIn(q)
  BY <1>1, <1>2 DEF Orderly, RanksIn
<1>4. RanksIn(q) = {Rank(Head(q))} \cup RanksIn(Tail(q))
  <2>1. RanksIn(Tail(q)) \subseteq RanksIn(q)
    BY <1>1 DEF RanksIn
  <2>2. ASSUME NEW i \in 1..Len(q), i # 1 PROVE Rank(q[i]) \in RanksIn(Tail(q))
    <3>1. i - 1 \in 1..Len(Tail(q)) /\ Tail(q)[i - 1] = q[i]
      BY <1>1, <2>2
    <3> QED BY <3>1 DEF RanksIn
  <2>3. RanksIn(q) \subseteq {Rank(Head(q))} \cup RanksIn(Tail(q))
    BY <1>1, <2>2 DEF RanksIn
  <2> QED BY <1>3, <2>1, <2>3
<1>5. ASSUME NEW b \in RanksIn(Tail(q)), b > 0, Rank(Head(q)) > 0
      PROVE  Rank(Head(q)) < b \/ (Rank(Head(q)) = 1 /\ b = 1)
  <2>1. PICK i \in 1..Len(Tail(q)) : b = Rank(Tail(q)[i])
    BY DEF RanksIn
  <2>2. i + 1 \in 1..Len(q) /\ 1 < i + 1 /\ b = Rank(q[i + 1])
    BY <1>1, <2>1
  <2> QED BY <1>1, <1>2, <1>5, <2>2 DEF Orderly
<1>6. \A i \in 1..Len(Tail(q)) : Known(Tail(q)[i])
  BY <1>1 DEF Orderly
<1>7. ASSUME NEW i \in 1..Len(Tail(q)), NEW j \in 1..Len(Tail(q)), i < j,
             Rank(Tail(q)[i]) > 0, Rank(Tail(q)[j]) > 0
      PROVE  \/ Rank(Tail(q)[i]) < Rank(Tail(q)[j])
             \/ Rank(Tail(q)[i]) = 1 /\ Rank(Tail(q)[j]) = 1
  <2>1. /\ i + 1 \in 1..Len(q) /\ j + 1 \in 1..Len(q) /\ i + 1 < j + 1
        /\ Tail(q)[i] = q[i + 1] /\ Tail(q)[j] = q[j + 1]
    BY <1>1, <1>7
  <2> QED BY <1>7, <2>1 DEF Orderly
<1> QED BY <1>1, <1>3, <1>4, <1>5, <1>6, <1>7 DEF Orderly

\* A message, and replies behind it.
Replies(ms) == ms \in Seq(Messages) /\ \A i \in 1..Len(ms) : Known(ms[i]) /\ Rank(ms[i]) = 0

\* The answer to a caller.
LEMMA ToCallerReplies ==
  ASSUME NEW c \in Calls \cup {NoCall}, NEW error \in ReplyErrors
  PROVE  Replies(ToCaller(c, error))
<1>1. CASE c.number = 0
  BY <1>1 DEF ToCaller, Replies
<1>2. CASE c.number # 0
  <2>1. ToCaller(c, error) = <<Reply(c, error)>>
    BY <1>2 DEF ToCaller
  <2> QED BY <2>1, ReplyFacts, RankFacts DEF Replies
<1> QED BY <1>1, <1>2

\* No message, and replies alone.
LEMMA RepliesOrderly ==
  ASSUME NEW ms, Replies(ms)
  PROVE  Orderly(ms) /\ ms \in Seq(Messages) /\ RanksIn(ms) \subseteq {0}
BY DEF Replies, Orderly, RanksIn

\* A message, and replies behind it.
LEMMA NewsOrderly ==
  ASSUME NEW m \in Messages, Known(m), NEW ms, Replies(ms)
  PROVE  /\ Orderly(<<m>> \o ms) /\ <<m>> \o ms \in Seq(Messages)
         /\ RanksIn(<<m>> \o ms) \subseteq {0, Rank(m)} /\ Rank(m) \in RanksIn(<<m>> \o ms)
<1>1. <<m>> \in Seq(Messages) /\ Len(<<m>>) = 1 /\ <<m>>[1] = m
  OBVIOUS
<1>2. Orderly(<<m>>)
  BY <1>1 DEF Orderly
<1>3. RanksIn(<<m>>) = {Rank(m)}
  BY <1>1 DEF RanksIn
<1>4. Orderly(ms) /\ ms \in Seq(Messages) /\ RanksIn(ms) \subseteq {0}
  BY RepliesOrderly
<1>5. Orderly(<<m>> \o ms) /\ RanksIn(<<m>> \o ms) = {Rank(m)} \cup RanksIn(ms)
  <2>1. \A a \in RanksIn(<<m>>), b \in RanksIn(ms) : a > 0 /\ b > 0 => a < b \/ (a = 1 /\ b = 1)
    BY <1>4
  <2> QED BY <1>1, <1>2, <1>3, <1>4, <2>1, OrderlyCat
<1>6. <<m>> \o ms \in Seq(Messages)
  BY <1>1, <1>4
<1> QED BY <1>3, <1>4, <1>5, <1>6

-----------------------------------------------------------------------------
(* What is sent *)

\* Messages of which the first may be of rank l.
Sent(l) ==
  \E ms \in Seq(Messages) :
    /\ Send(ms) /\ Orderly(ms)
    /\ RanksIn(ms) \subseteq {0, l} /\ (l = 2 => 2 \in RanksIn(ms))

\* When the worker sends them.
Moves(l) ==
  /\ UNCHANGED <<objectVars, heard>>
  /\ l # 4 => alive' = alive
  /\ l # 0 => alive
  /\ l \in {0, 1} => (JobOver' <=> JobOver) /\ (job' = "done" <=> job = "done")
  /\ l = 1 => ~JobOver
  /\ l = 2 => job = "leaving" /\ job' = "exiting"
  /\ l = 3 => job = "exiting" /\ job' = "done"
  /\ l = 4 => job' = job /\ ~alive'

\* Replies.
LEMMA RepliesSent ==
  ASSUME NEW ms, Replies(ms), Send(ms)
  PROVE  Sent(0)
<1>1. Orderly(ms) /\ ms \in Seq(Messages) /\ RanksIn(ms) \subseteq {0}
  BY RepliesOrderly
<1> QED BY <1>1 DEF Sent

\* News, and replies behind them.
LEMMA NewsSent ==
  ASSUME NEW m \in Messages, Known(m), NEW ms, Replies(ms), Send(<<m>> \o ms)
  PROVE  Sent(Rank(m))
<1>1. /\ Orderly(<<m>> \o ms) /\ <<m>> \o ms \in Seq(Messages)
      /\ RanksIn(<<m>> \o ms) \subseteq {0, Rank(m)} /\ Rank(m) \in RanksIn(<<m>> \o ms)
  BY NewsOrderly
<1> QED BY <1>1 DEF Sent

\* News alone.
LEMMA OneSent ==
  ASSUME NEW m \in Messages, Known(m), Send(<<m>>)
  PROVE  Sent(Rank(m))
<1>1. <<m>> \o <<>> = <<m>> /\ Replies(<<>>)
  BY DEF Replies
<1> QED BY <1>1, NewsSent

\* Changes are messages.
LEMMA ChangedMessage ==
  ASSUME NEW p \in Property \cup {"none"}, NEW v \in Words
  PROVE  Changed(p, v) \in Messages
BY DEF Changed, Message, Messages

\* What is sent is behind what was sent before.
LEMMA SendStream ==
  ASSUME Shapes, RunInv, EndInv, StreamInv, NEW l \in 0..4, Sent(l), Moves(l)
  PROVE  StreamInv'
<1>1. PICK ms \in Seq(Messages) :
        /\ Send(ms) /\ Orderly(ms)
        /\ RanksIn(ms) \subseteq {0, l} /\ (l = 2 => 2 \in RanksIn(ms))
  BY DEF Sent
<1>2. UNCHANGED <<client, phase, mirror, awaiting, hasRun, heard>>
  BY DEF Moves, objectVars
<1>3. Ranks' = RanksIn(inbox') /\ (InOrder' <=> Orderly(inbox'))
  BY RanksNext
<1>4. /\ JobOver => JobOver'
      /\ job = "done" => job' = "done"
      /\ ~alive => ~alive'
      /\ l = 1 => ~JobOver' /\ alive
      /\ l = 2 => JobOver' /\ ~JobOver /\ alive
      /\ l = 3 => job' = "done" /\ job # "done" /\ alive
      /\ l = 4 => alive /\ ~alive'
      /\ JobOver' /\ ~JobOver => l = 2
      /\ job' = "done" /\ job # "done" => l = 3
      /\ JobOver => job # "pending"
      /\ l = 2 => job # "pending"
  BY DEF Moves, JobOver
<1>5. (HeardEnd' <=> HeardEnd) /\ (HeardLast' <=> HeardLast) /\ (HeardSeq' <=> HeardSeq)
  BY <1>2 DEF HeardEnd, HeardLast, HeardSeq
<1>6. CASE phase # "connected"
  <2>1. inbox' = inbox
    BY <1>1, <1>6, SendFacts
  <2>2. Ranks' = Ranks /\ (InOrder' <=> InOrder)
    BY <1>3, <2>1 DEF Ranks, InOrder
  <2>3. heard = <<>> /\ ~HeardEnd /\ ~HeardLast
    BY <1>6 DEF StreamInv, HeardEnd, HeardLast
  <2>4. client.owner => ~JobOver'
    BY <1>4, <1>6 DEF StreamInv, RunInv
  <2>5. inbox = <<>> /\ Ranks = {}
    BY <1>6 DEF EndInv, Ranks, RanksIn
  <2> QED BY <1>2, <1>5, <2>2, <2>3, <2>4, <2>5 DEF StreamInv
<1>7. CASE phase = "connected"
  <2>1. inbox' = inbox \o ms
    BY <1>1, <1>7, SendFacts
  <2>2. Ranks \subseteq 0..4
    BY RankFacts DEF Ranks, RanksIn
  <2>3. \A a \in Ranks, b \in RanksIn(ms) : a > 0 /\ b > 0 => a < b \/ (a = 1 /\ b = 1)
    <3> SUFFICES ASSUME NEW a \in Ranks, NEW b \in RanksIn(ms), a > 0, b > 0
                 PROVE  a < b \/ (a = 1 /\ b = 1)
      OBVIOUS
    <3>1. b = l /\ a \in 1..4 /\ l \in 1..4
      BY <1>1, <2>2
    <3>2. /\ a = 2 => JobOver
          /\ a = 3 => job = "done"
          /\ a = 4 => ~alive
          /\ job = "done" => JobOver
      BY DEF StreamInv, JobOver
    <3>3. a # 4 /\ (l = 1 => a = 1) /\ (l = 2 => a = 1) /\ (l = 3 => a # 3)
      BY <1>4, <3>1, <3>2 DEF Moves
    <3> QED BY <3>1, <3>3
  <2>4. InOrder' /\ Ranks' = Ranks \cup RanksIn(ms)
    <3>1. inbox \in Seq(Messages) /\ Orderly(inbox)
      BY DEF Shapes, StreamInv, InOrder
    <3> QED BY <1>1, <1>3, <2>1, <2>3, <3>1, OrderlyCat DEF Ranks
  <2>5. /\ 2 \in Ranks' => JobOver'
        /\ 3 \in Ranks' => job' = "done"
        /\ 4 \in Ranks' => ~alive'
    BY <1>1, <1>4, <2>4 DEF StreamInv
  <2>6. HeardEnd => /\ JobOver' \/ ~alive'
                    /\ 1 \notin Ranks' /\ 2 \notin Ranks'
    BY <1>1, <1>4, <2>4 DEF StreamInv
  <2>7. client.owner =>
          /\ JobOver' => HeardEnd \/ 2 \in Ranks'
          /\ HeardLast => HeardEnd /\ (job' = "done" \/ ~alive') /\ 3 \notin Ranks'
    BY <1>1, <1>4, <2>4 DEF StreamInv
  <2> QED BY <1>2, <1>5, <1>7, <2>4, <2>5, <2>6, <2>7 DEF StreamInv
<1> QED BY <1>6, <1>7

\* A change of what is no end, during a job.
LEMMA NewsAnnounced ==
  ASSUME NEW p \in {"status", "error", "cancellable", "progress"}, NEW v \in Words,
         p = "status" => v # "Finished", NEW ms, Replies(ms), Send(<<Changed(p, v)>> \o ms)
  PROVE  Sent(1)
<1>1. Changed(p, v) \in Messages
  BY ChangedMessage DEF Property
<1>2. Rank(Changed(p, v)) = 1 /\ Known(Changed(p, v))
  BY RankFacts
<1> HIDE DEF Changed
<1> QED BY <1>1, <1>2, NewsSent

\* The same without a reply.
LEMMA NewsAnnouncedAlone ==
  ASSUME NEW p \in {"status", "error", "cancellable", "progress"}, NEW v \in Words,
         p = "status" => v # "Finished", Announce(p, v)
  PROVE  Sent(1)
<1>1. Changed(p, v) \in Messages /\ Send(<<Changed(p, v)>>)
  BY ChangedMessage DEF Property, Announce
<1>2. Rank(Changed(p, v)) = 1 /\ Known(Changed(p, v))
  BY RankFacts
<1> HIDE DEF Changed
<1> QED BY <1>1, <1>2, OneSent

\* A change of what the client emits no signal for.
LEMMA PlainSent ==
  ASSUME NEW p \in Settings \cup {"none", "cancelled"}, NEW v \in Words,
         NEW ms, Replies(ms), Send(<<Changed(p, v)>> \o ms)
  PROVE  Sent(0)
<1>1. Changed(p, v) \in Messages
  BY ChangedMessage DEF Property
<1>2. Rank(Changed(p, v)) = 0 /\ Known(Changed(p, v))
  BY RankFacts
<1> HIDE DEF Changed
<1> QED BY <1>1, <1>2, NewsSent

\* cancel() is refused or told; the client emits no signal for it.
LEMMA CancelSent ==
  ASSUME NEW c \in Calls \cup {NoCall}, CancelIfPossible(c)
  PROVE  Sent(0)
<1>1. "Failed" \in ReplyErrors /\ "none" \in ReplyErrors /\ TRUE \in Words
  BY WordFacts DEF ReplyErrors
<1>2. Replies(ToCaller(c, "Failed")) /\ Replies(ToCaller(c, "none"))
  BY <1>1, ToCallerReplies
<1>3. CASE Send(ToCaller(c, "Failed"))
  BY <1>2, <1>3, RepliesSent
<1>4. CASE Send(<<Changed("cancelled", TRUE)>> \o ToCaller(c, "none"))
  BY <1>1, <1>2, <1>4, PlainSent
<1> QED BY <1>3, <1>4 DEF CancelIfPossible, Accept

\* The calls that end at once.
LEMMA CallSent ==
  ASSUME NEW c \in Calls,
         Refuse(c, "UnknownObject") \/ Set(c) \/ SetFrontendCaps(c) \/ Answer(c) \/ Cancel(c)
  PROVE  Sent(0) /\ UNCHANGED job
<1>1. ASSUME NEW e \in ReplyErrors, Send(ToCaller(c, e)) PROVE Sent(0)
  BY <1>1, ToCallerReplies, RepliesSent
<1>2. {"UnknownObject", "AccessDenied", "Failed", "InvalidArgs", "none"} \subseteq ReplyErrors
  BY DEF ReplyErrors
<1>3. CASE Refuse(c, "UnknownObject")
  BY <1>1, <1>2, <1>3 DEF Refuse
<1>4. CASE Set(c)
  <2>1. CASE Refuse(c, "AccessDenied") \/ Refuse(c, "Failed") \/ Refuse(c, "InvalidArgs")
    BY <1>1, <1>2, <2>1 DEF Refuse
  <2>2. CASE Send(<<Changed(c.arg, "given")>> \o ToCaller(c, "none")) /\ UNCHANGED job
    <3>1. c.arg \in Settings \cup {"none", "cancelled"} /\ "given" \in Words
      BY WordFacts DEF Calls
    <3>2. Replies(ToCaller(c, "none"))
      BY <1>2, ToCallerReplies
    <3> QED BY <2>2, <3>1, <3>2, PlainSent
  <2> QED BY <1>4, <2>1, <2>2 DEF Set
<1>5. CASE SetFrontendCaps(c) \/ Answer(c)
  BY <1>1, <1>2, <1>5 DEF SetFrontendCaps, Answer, TakeAnswer, Refuse
<1>6. CASE Cancel(c)
  <2>1. CASE Send(<<>>) /\ UNCHANGED job
    <3>1. Replies(<<>>)
      BY DEF Replies
    <3> QED BY <2>1, <3>1, RepliesSent
  <2>2. CASE CancelIfPossible(c) /\ UNCHANGED job
    BY <2>2, CancelSent
  <2> QED BY <1>6, <2>1, <2>2 DEF Cancel
<1> QED BY <1>3, <1>4, <1>5, <1>6

\* The authorized end of run() announces that the job waits.
LEMMA EnqueueSent ==
  ASSUME NEW c \in Calls \cup {NoCall}, Enqueue(c)
  PROVE  Sent(1) /\ job' = "queued"
<1> DEFINE waiting == Changed("status", "Waiting")
           ms == ToCaller(c, "none")
<1>1. waiting \in Messages /\ Rank(waiting) = 1 /\ Known(waiting)
  BY WordFacts, RankFacts, ChangedMessage DEF Property, Status
<1>2. Replies(ms)
  BY ToCallerReplies DEF ReplyErrors
<1>3. Send(<<waiting, waiting>> \o ms) /\ job' = "queued"
  BY DEF Enqueue
<1> HIDE DEF waiting, ms
<1>4. Orderly(<<waiting>>) /\ <<waiting>> \in Seq(Messages) /\ RanksIn(<<waiting>>) \subseteq {0, 1}
  <2>1. <<waiting>> \o <<>> = <<waiting>> /\ Replies(<<>>)
    BY <1>1 DEF Replies
  <2> QED BY <1>1, <2>1, NewsOrderly
<1>5. ms \in Seq(Messages) /\ Orderly(ms) /\ RanksIn(ms) \subseteq {0}
  BY <1>2, RepliesOrderly
<1>6. /\ Orderly(<<waiting, waiting>>) /\ <<waiting, waiting>> \in Seq(Messages)
      /\ RanksIn(<<waiting, waiting>>) \subseteq {0, 1}
  <2>1. <<waiting, waiting>> = <<waiting>> \o <<waiting>>
    OBVIOUS
  <2>2. \A a, b \in RanksIn(<<waiting>>) : a > 0 /\ b > 0 => a < b \/ (a = 1 /\ b = 1)
    BY <1>4
  <2>3. /\ Orderly(<<waiting>> \o <<waiting>>)
        /\ RanksIn(<<waiting>> \o <<waiting>>) = RanksIn(<<waiting>>) \cup RanksIn(<<waiting>>)
    BY <1>4, <2>2, OrderlyCat
  <2>4. <<waiting, waiting>> \in Seq(Messages)
    BY <1>1
  <2> QED BY <1>4, <2>1, <2>3, <2>4
<1>7. \A a \in RanksIn(<<waiting, waiting>>), b \in RanksIn(ms) :
        a > 0 /\ b > 0 => a < b \/ (a = 1 /\ b = 1)
  BY <1>5
<1>8. /\ Orderly(<<waiting, waiting>> \o ms)
      /\ RanksIn(<<waiting, waiting>> \o ms) \subseteq {0, 1}
  BY <1>5, <1>6, <1>7, OrderlyCat
<1>9. <<waiting, waiting>> \o ms \in Seq(Messages)
  <2> DEFINE two == <<waiting, waiting>>
  <2>1. two \in Seq(Messages)
    BY <1>6
  <2> HIDE DEF two
  <2> QED BY <1>5, <2>1 DEF two
<1> DEFINE all == <<waiting, waiting>> \o ms
<1>10. all \in Seq(Messages) /\ Orderly(all) /\ RanksIn(all) \subseteq {0, 1} /\ Send(all)
  BY <1>3, <1>8, <1>9
<1> HIDE DEF all
<1> QED BY <1>3, <1>10 DEF Sent

\* The next call is served.
LEMMA HandleCallSends ==
  ASSUME Shapes, RunInv, HandleCall
  PROVE  \E l \in 0..4 : Sent(l) /\ Moves(l)
<1> DEFINE c == Head(outbox)
<1>1. /\ outbox # <<>> /\ outbox' = Tail(outbox) /\ alive /\ alive' = alive /\ UNCHANGED <<objectVars, heard>>
      /\ \/ Refuse(c, "UnknownObject") \/ Set(c) \/ SetFrontendCaps(c) \/ Answer(c) \/ Cancel(c)
         \/ c.op = "run" /\ Run(c)
  BY DEF HandleCall
<1>2. c \in Calls /\ (c.op = "run" => job = "pending")
  BY <1>1, TailRuns DEF RunInv
<1> HIDE DEF c
<1>3. CASE Refuse(c, "UnknownObject") \/ Set(c) \/ SetFrontendCaps(c) \/ Answer(c) \/ Cancel(c)
  <2>1. Sent(0) /\ job' = job
    BY <1>2, <1>3, CallSent
  <2>2. Moves(0)
    BY <1>1, <2>1 DEF Moves, JobOver
  <2> QED BY <2>1, <2>2
<1>4. CASE c.op = "run" /\ Enqueue(c)
  <2>1. Sent(1) /\ job' = "queued"
    BY <1>2, <1>4, EnqueueSent
  <2>2. Moves(1)
    BY <1>1, <1>2, <1>4, <2>1 DEF Moves, JobOver
  <2> QED BY <2>1, <2>2
<1>5. CASE c.op = "run" /\ Announce("status", "Authentication") /\ UNCHANGED job
  <2>1. Sent(1)
    BY <1>5, WordFacts, NewsAnnouncedAlone DEF Status
  <2>2. Moves(1)
    BY <1>1, <1>2, <1>5 DEF Moves, JobOver
  <2> QED BY <2>1, <2>2
<1> QED BY <1>1, <1>3, <1>4, <1>5 DEF Run

\* polkit answers.
LEMMA AuthorizedSends ==
  ASSUME Shapes, RunInv, Authorized \/ Unauthorized
  PROVE  \E l \in 0..4 : Sent(l) /\ Moves(l)
<1>1. /\ alive /\ alive' = alive /\ UNCHANGED <<objectVars, heard>>
      /\ asking \in Calls \cup {NoCall} /\ (asking.op = "run" => job = "pending")
  BY DEF Authorized, Unauthorized, Shapes, RunInv
<1>2. CASE asking.op = "run" /\ Enqueue(asking)
  <2>1. Sent(1) /\ job' = "queued"
    BY <1>1, <1>2, EnqueueSent
  <2>2. Moves(1)
    BY <1>1, <1>2, <2>1 DEF Moves, JobOver
  <2> QED BY <2>1, <2>2
<1>3. ASSUME Sent(0), UNCHANGED job PROVE \E l \in 0..4 : Sent(l) /\ Moves(l)
  <2>1. Moves(0)
    BY <1>1, <1>3 DEF Moves, JobOver
  <2> QED BY <1>3, <2>1
<1>4. CASE CancelIfPossible(asking) /\ UNCHANGED job
  BY <1>1, <1>3, <1>4, CancelSent
<1>5. CASE Unauthorized
  <2>1. Replies(ToCaller(asking, "AccessDenied"))
    BY <1>1, ToCallerReplies DEF ReplyErrors
  <2> QED BY <1>3, <1>5, <2>1, RepliesSent DEF Unauthorized
<1> QED BY <1>2, <1>4, <1>5 DEF Authorized

\* The job tells what it does ...
LEMMA JobSends ==
  ASSUME JobStarts \/ JobAnnounces \/ JobPrompts \/ JobLeaves
  PROVE  \E l \in 0..4 : Sent(l) /\ Moves(l)
<1>1. Moves(1)
  BY DEF Moves, JobOver, JobStarts, JobAnnounces, JobPrompts, JobLeaves, JobGoesOn
<1>2. "Running" \in Words /\ "Committing" \in Words /\ "JobError" \in Words /\ 100 \in Words
  BY WordFacts DEF Status, Errors
<1>3. ASSUME Announce("status", "Running") \/ Announce("status", "Committing")
      PROVE  Sent(1)
  BY <1>2, <1>3, NewsAnnouncedAlone
<1>4. ASSUME NEW b \in BOOLEAN, Announce("cancellable", b) PROVE Sent(1)
  BY <1>4, WordFacts, NewsAnnouncedAlone
<1>5. ASSUME Announce("error", "JobError") \/ Announce("progress", 100) PROVE Sent(1)
  BY <1>2, <1>5, NewsAnnouncedAlone
<1>6. CASE JobStarts
  BY <1>1, <1>3, <1>6 DEF JobStarts
<1>7. CASE JobAnnounces
  BY <1>1, <1>3, <1>4, <1>5, <1>7 DEF JobAnnounces
<1>8. CASE JobPrompts
  <2>1. Prompt \in Messages /\ Rank(Prompt) = 1 /\ Known(Prompt)
    BY WordFacts, RankFacts DEF Prompt, Message, Messages
  <2>2. Send(<<Prompt>>)
    BY <1>8 DEF JobPrompts
  <2> HIDE DEF Prompt
  <2>3. Sent(1)
    BY <2>1, <2>2, OneSent
  <2> QED BY <1>1, <2>3
<1>9. CASE JobLeaves
  BY <1>1, <1>5, <1>9 DEF JobLeaves
<1> QED BY <1>6, <1>7, <1>8, <1>9

\* ... how it ended, and that it did.
LEMMA EndSends ==
  ASSUME Shapes, JobExits \/ JobFinishes
  PROVE  \E l \in 0..4 : Sent(l) /\ Moves(l)
<1>1. CASE JobExits
  <2>1. PICK x \in Exits \ {"Unfinished"} :
          /\ Send(<<Changed("exitStatus", x)>>) /\ Changed("exitStatus", x) \in Messages
          /\ alive /\ job = "leaving" /\ job' = "exiting"
    BY <1>1, JobExitsFacts
  <2>2. Rank(Changed("exitStatus", x)) = 2 /\ Known(Changed("exitStatus", x))
    BY RankFacts
  <2>3. Moves(2)
    BY <1>1, <2>1 DEF Moves, JobExits, JobGoesOn
  <2> HIDE DEF Changed
  <2>4. Sent(2)
    BY <2>1, <2>2, OneSent
  <2> QED BY <2>3, <2>4
<1>2. CASE JobFinishes
  <2>1. Changed("status", "Finished") \in Messages
    BY WordFacts, ChangedMessage DEF Property, Status
  <2>2. Rank(Changed("status", "Finished")) = 3 /\ Known(Changed("status", "Finished"))
    BY RankFacts
  <2>3. Moves(3) /\ Send(<<Changed("status", "Finished")>>)
    BY <1>2 DEF Moves, JobFinishes, JobGoesOn, SetFinished, Announce
  <2> HIDE DEF Changed
  <2>4. Sent(3)
    BY <2>1, <2>2, <2>3, OneSent
  <2> QED BY <2>3, <2>4
<1> QED BY <1>1, <1>2

\* The bus tells of the worker's end, and answers for it.
LEMMA BusSends ==
  ASSUME Shapes, DaemonEnds \/ CallFails
  PROVE  \E l \in 0..4 : Sent(l) /\ Moves(l)
<1>1. CASE DaemonEnds
  <2>1. OwnerGone \in Messages /\ Rank(OwnerGone) = 4 /\ Known(OwnerGone)
    BY WordFacts, RankFacts DEF OwnerGone, Message, Messages
  <2>2. Replies(ToCaller(asking, "NoReply"))
    BY ToCallerReplies DEF Shapes, ReplyErrors
  <2>3. Moves(4) /\ Send(<<OwnerGone>> \o ToCaller(asking, "NoReply"))
    BY <1>1 DEF Moves, DaemonEnds
  <2> HIDE DEF OwnerGone
  <2>4. Sent(4)
    BY <2>1, <2>2, <2>3, NewsSent
  <2> QED BY <2>3, <2>4
<1>2. CASE CallFails
  <2>1. PICK error \in ReplyErrors : Send(ToCaller(Head(outbox), error))
    BY <1>2 DEF CallFails, ReplyErrors
  <2>2. Head(outbox) \in Calls
    BY <1>2 DEF CallFails, Shapes
  <2>3. Sent(0)
    BY <2>1, <2>2, ToCallerReplies, RepliesSent
  <2>4. Moves(0)
    BY <1>2 DEF Moves, CallFails, JobOver, daemonVars
  <2> QED BY <2>3, <2>4
<1> QED BY <1>1, <1>2

-----------------------------------------------------------------------------
(* What is heard *)

\* One more signal.
LEMMA HeardMore ==
  ASSUME HeardSeq, NEW n \in Names, NEW w \in Words, n = "finished" => w \in Exits \ {"Unfinished"},
         heard' = Append(heard, <<n, w>>)
  PROVE  /\ HeardSeq'
         /\ HeardEnd' <=> HeardEnd \/ n = "finished"
         /\ HeardLast' <=> HeardLast \/ (n = "statusChanged" /\ w = "Finished")
<1>1. heard \in Seq(Signals) /\ <<n, w>> \in Signals
  BY DEF HeardSeq, Signals
<1>2. /\ heard' \in Seq(Signals) /\ Len(heard') = Len(heard) + 1 /\ Len(heard) \in Nat
      /\ \A i \in 1..Len(heard) : heard'[i] = heard[i] /\ i \in 1..Len(heard')
      /\ heard'[Len(heard) + 1] = <<n, w>> /\ Len(heard) + 1 \in 1..Len(heard')
      /\ \A i \in 1..Len(heard') : i \in 1..Len(heard) \/ i = Len(heard) + 1
  BY <1>1
<1>3. HeardSeq'
  BY <1>2 DEF HeardSeq
<1>4. HeardEnd' <=> HeardEnd \/ n = "finished"
  BY <1>2 DEF HeardEnd
<1>5. HeardLast' <=> HeardLast \/ (n = "statusChanged" /\ w = "Finished")
  BY <1>2 DEF HeardLast
<1> QED BY <1>3, <1>4, <1>5

\* One sequence behind another.
LEMMA CatFacts ==
  ASSUME NEW S, NEW a \in Seq(S), NEW b \in Seq(S)
  PROVE  /\ a \o b \in Seq(S) /\ Len(a \o b) = Len(a) + Len(b) /\ Len(a) \in Nat
         /\ \A i \in 1..Len(a) : (a \o b)[i] = a[i]
         /\ \A i \in (Len(a) + 1)..(Len(a) + Len(b)) : (a \o b)[i] = b[i - Len(a)]
OBVIOUS

\* The signals of the worker's death.
LEMMA HeardDeath ==
  ASSUME HeardSeq, heard' = heard \o Stream!Disappearance
  PROVE  HeardSeq' /\ HeardEnd' /\ HeardLast'
<1> DEFINE d == << <<"errorOccurred", "WorkerDisappeared">>, <<"cancellableChanged", FALSE>>,
                   <<"statusChanged", "Finished">>, <<"finished", "Failed">> >>
<1>1. /\ <<"errorOccurred", "WorkerDisappeared">> \in Signals
      /\ <<"cancellableChanged", FALSE>> \in Signals
      /\ <<"statusChanged", "Finished">> \in Signals
      /\ <<"finished", "Failed">> \in Signals
  BY WordFacts DEF Signals, Names, Errors, Status, Exits
<1>2. d \in Seq(Signals) /\ Len(d) = 4
  BY <1>1
<1>3. /\ d[1][1] # "finished" /\ d[2][1] # "finished" /\ d[3][1] # "finished"
      /\ d[3] = <<"statusChanged", "Finished">> /\ d[4] = <<"finished", "Failed">>
  OBVIOUS
<1>4. heard \in Seq(Signals) /\ heard' = heard \o d
  BY DEF HeardSeq, Stream!Disappearance
<1> HIDE DEF d
<1>5. /\ heard' \in Seq(Signals) /\ Len(heard') = Len(heard) + 4 /\ Len(heard) \in Nat
      /\ \A i \in 1..Len(heard) : heard'[i] = heard[i]
      /\ \A i \in (Len(heard) + 1)..(Len(heard) + 4) : heard'[i] = d[i - Len(heard)]
  <2>1. /\ heard \o d \in Seq(Signals) /\ Len(heard \o d) = Len(heard) + Len(d) /\ Len(heard) \in Nat
        /\ \A i \in 1..Len(heard) : (heard \o d)[i] = heard[i]
        /\ \A i \in (Len(heard) + 1)..(Len(heard) + Len(d)) : (heard \o d)[i] = d[i - Len(heard)]
    BY <1>2, <1>4, CatFacts
  <2> QED BY <1>2, <1>4, <2>1
<1>6. /\ Len(heard) + 3 \in 1..Len(heard') /\ heard'[Len(heard) + 3] = d[3]
      /\ Len(heard) + 4 \in 1..Len(heard') /\ heard'[Len(heard) + 4] = d[4]
  BY <1>5
<1>7. HeardEnd'
  <2>1. heard'[Len(heard) + 4][1] = "finished"
    BY <1>3, <1>6
  <2> QED BY <1>6, <2>1 DEF HeardEnd
<1>8. HeardLast'
  <2>1. heard'[Len(heard) + 3][1] = "statusChanged" /\ heard'[Len(heard) + 3][2] = "Finished"
    BY <1>3, <1>6
  <2> QED BY <1>6, <2>1 DEF HeardLast
<1>9. ASSUME NEW i \in 1..Len(heard'), heard'[i][1] = "finished"
      PROVE  heard'[i][2] \in Exits \ {"Unfinished"}
  <2>1. CASE i \in 1..Len(heard)
    BY <1>5, <1>9, <2>1 DEF HeardSeq
  <2>2. CASE i \notin 1..Len(heard)
    <3>1. i - Len(heard) \in 1..4 /\ heard'[i] = d[i - Len(heard)]
      BY <1>5, <2>2
    <3>2. i - Len(heard) = 4
      BY <1>3, <1>9, <3>1
    <3> QED BY <1>3, <3>1, <3>2 DEF Exits
  <2> QED BY <2>1, <2>2
<1> QED BY <1>5, <1>7, <1>8, <1>9 DEF HeardSeq

\* What the stream of signals knows of them.
LEMMA StreamHears ==
  ASSUME HeardSeq
  PROVE  (Stream!HasFinished <=> HeardEnd) /\ (Stream!Heard("statusChanged", {"Finished"}) <=> HeardLast)
<1>1. DOMAIN heard = 1..Len(heard)
  BY DEF HeardSeq
<1>2. Stream!HasFinished <=> HeardEnd
  BY <1>1 DEF HeardSeq, HeardEnd, Exits, Stream!HasFinished, Stream!Heard, Stream!ExitStatuses
<1>3. Stream!Heard("statusChanged", {"Finished"}) <=> HeardLast
  BY <1>1 DEF HeardLast, Stream!Heard
<1> QED BY <1>2, <1>3

\* What is emitted for a message.
Emits(m) ==
  /\ Rank(m) \in {0, 1} =>
       /\ mirror'.exitStatus = mirror.exitStatus
       /\ \/ heard' = heard
          \/ \E n \in Names \ {"finished"}, w \in Words :
               /\ heard' = Append(heard, <<n, w>>)
               /\ n = "statusChanged" => w # "Finished"
               /\ Rank(m) = 0 => n = "errorOccurred" /\ w = "AuthError"
  /\ Rank(m) = 2 =>
       mirror'.exitStatus = m.value /\ heard' = Append(heard, <<"finished", m.value>>)
  /\ Rank(m) = 3 =>
       /\ mirror'.exitStatus = mirror.exitStatus
       /\ heard' = Append(heard, <<"statusChanged", "Finished">>)
  /\ Rank(m) = 4 =>
       IF mirror.exitStatus = "Unfinished"
         THEN mirror'.exitStatus = "Failed" /\ heard' = heard \o Stream!Disappearance
         ELSE mirror'.exitStatus = mirror.exitStatus /\ heard' = heard

\* An answer to a call.
LEMMA FinishedEmits ==
  ASSUME Shapes, NEW n, NEW error, OnCallFinished(n, error)
  PROVE  /\ mirror'.exitStatus = mirror.exitStatus
         /\ heard' = heard \/ heard' = Append(heard, <<"errorOccurred", "AuthError">>)
<1>1. heard' = heard \/ heard' = heard \o << <<"errorOccurred", "AuthError">> >>
  BY DEF OnCallFinished, FailCall, Emit
<1>2. heard \o << <<"errorOccurred", "AuthError">> >> = Append(heard, <<"errorOccurred", "AuthError">>)
  OBVIOUS
<1> QED BY <1>1, <1>2, OnCallFinishedFacts

\* A change is emitted as what it is.
LEMMA ChangeEmits ==
  ASSUME Shapes, HeardSeq, NEW m \in Messages, Known(m), m.kind = "changed",
         UpdateProperty(m.what, m.value)
  PROVE  Emits(m)
<1> DEFINE p == m.what
           v == m.value
<1>1. p # "paused" /\ v \in Words
  BY DEF Known, Messages
<1>2. /\ mirror' = [mirror EXCEPT ![p] = v] /\ heard' = heard \o Emission(p, v)
      /\ DOMAIN mirror = Property /\ heard \in Seq(Signals)
  BY DEF UpdateProperty, Update, Emit, Shapes, HeardSeq
<1>3. heard \o <<>> = heard /\ \A x : heard \o <<x>> = Append(heard, x)
  BY <1>2
<1>4. p # "exitStatus" => mirror'.exitStatus = mirror.exitStatus
  BY <1>2 DEF Property
<1>5. p = "exitStatus" => mirror'.exitStatus = v
  BY <1>2 DEF Property
<1>6. CASE p = "exitStatus"
  <2>1. Rank(m) = 2
    BY <1>6 DEF Rank, IsPlain, IsGone, IsLast, IsEnd, Settings
  <2>2. v # "Unfinished"
    BY <2>1 DEF Known
  <2>3. Emission(p, v) = << <<"finished", v>> >>
    BY <1>6, <2>2 DEF Emission
  <2>4. heard' = Append(heard, <<"finished", m.value>>)
    BY <1>2, <1>3, <2>3
  <2> QED BY <1>5, <1>6, <2>1, <2>4 DEF Emits
<1>7. CASE p = "status"
  <2>1. Rank(m) = IF v = "Finished" THEN 3 ELSE 1
    BY <1>7 DEF Rank, IsPlain, IsGone, IsLast, IsEnd, Settings
  <2>2. Emission(p, v) = << <<"statusChanged", v>> >>
    BY <1>7 DEF Emission
  <2>3. heard' = Append(heard, <<"statusChanged", v>>)
    BY <1>2, <1>3, <2>2
  <2>4. "statusChanged" \in Names \ {"finished"}
    BY DEF Names
  <2> QED BY <1>1, <1>4, <1>7, <2>1, <2>3, <2>4 DEF Emits
<1>8. CASE p \in {"error", "cancellable", "progress"}
  <2>1. Rank(m) = 1
    BY <1>8 DEF Rank, IsPlain, IsGone, IsLast, IsEnd, Settings
  <2>2. \/ Emission(p, v) = << <<"errorOccurred", v>> >>
        \/ Emission(p, v) = << <<"cancellableChanged", v>> >>
        \/ Emission(p, v) = << <<"progressChanged", v>> >>
        \/ Emission(p, v) = <<>>
    BY <1>8 DEF Emission
  <2>3. heard' = heard \/ \E n \in {"errorOccurred", "cancellableChanged", "progressChanged"} :
                            heard' = Append(heard, <<n, v>>)
    BY <1>2, <1>3, <2>2
  <2>4. {"errorOccurred", "cancellableChanged", "progressChanged"} \subseteq Names \ {"finished"}
    BY DEF Names
  <2> QED BY <1>1, <1>4, <1>8, <2>1, <2>3, <2>4 DEF Emits
<1>9. CASE p \notin {"exitStatus", "status", "error", "cancellable", "progress"}
  <2>1. Rank(m) \in {0, 1}
    BY <1>9 DEF Rank, IsPlain, IsGone, IsLast, IsEnd
  <2>2. Emission(p, v) = <<>>
    BY <1>1, <1>9 DEF Emission
  <2> QED BY <1>2, <1>3, <1>4, <1>9, <2>1, <2>2 DEF Emits
<1> QED BY <1>6, <1>7, <1>8, <1>9

\* The message that is taken is emitted as what it is.
LEMMA DeliverEmits ==
  ASSUME Shapes, HeardSeq, Deliver, Head(inbox) \in Messages, Known(Head(inbox))
  PROVE  Emits(Head(inbox))
<1> DEFINE m == Head(inbox)
<1>a. m \in Messages /\ Known(m) /\ (mirror' = mirror => mirror'.exitStatus = mirror.exitStatus)
  OBVIOUS
<1>b. heard \in Seq(Signals)
  BY DEF HeardSeq
<1>c. \/ m.kind = "changed" /\ UpdateProperty(m.what, m.value)
      \/ m.kind = "reply" /\ OnCallFinished(m.what, m.value)
      \/ m.kind = "gone" /\ ServiceGone
      \/ m.kind = "prompt" /\ Emit(<< <<"prompt", "-">> >>) /\ UNCHANGED mirror
  BY DEF Deliver
<1> SUFFICES Emits(m)
  OBVIOUS
<1> HIDE DEF m
<1>1. CASE m.kind = "changed" /\ UpdateProperty(m.what, m.value)
  BY <1>a, <1>1, ChangeEmits
<1>2. CASE m.kind = "reply" /\ OnCallFinished(m.what, m.value)
  <2>1. Rank(m) = 0
    BY <1>2 DEF Rank, IsPlain
  <2>2. "errorOccurred" \in Names \ {"finished"} /\ "AuthError" \in Words
    BY WordFacts DEF Names, Errors
  <2> QED BY <1>2, <2>1, <2>2, FinishedEmits DEF Emits
<1>3. CASE m.kind = "gone" /\ ServiceGone
  <2>1. Rank(m) = 4
    BY <1>3 DEF Rank, IsPlain, IsGone
  <2>2. CASE mirror.exitStatus = "Unfinished"
    <3>1. /\ mirror' = [mirror EXCEPT !["error"] = "WorkerDisappeared", !["cancellable"] = FALSE,
                                     !["status"] = "Finished", !["exitStatus"] = "Failed"]
          /\ heard' = heard \o Stream!Disappearance
      BY <1>3, <2>2 DEF ServiceGone, Emit, Stream!Disappearance
    <3>2. mirror'.exitStatus = "Failed"
      BY <3>1 DEF Shapes, Property
    <3> QED BY <2>1, <2>2, <3>1, <3>2 DEF Emits
  <2>3. CASE mirror.exitStatus # "Unfinished"
    BY <1>3, <2>1, <2>3 DEF ServiceGone, Emits
  <2> QED BY <2>2, <2>3
<1>4. CASE m.kind = "prompt" /\ Emit(<< <<"prompt", "-">> >>) /\ UNCHANGED mirror
  <2>1. Rank(m) = 1
    BY <1>4 DEF Rank, IsPlain, IsGone, IsLast, IsEnd
  <2>2. heard' = heard \o << <<"prompt", "-">> >>
    BY <1>4 DEF Emit
  <2>3. heard' = Append(heard, <<"prompt", "-">>)
    BY <1>b, <2>2
  <2>4. "prompt" \in Names \ {"finished"} /\ "-" \in Words
    BY WordFacts DEF Names
  <2> QED BY <1>4, <2>1, <2>3, <2>4 DEF Emits
<1> QED BY <1>c, <1>1, <1>2, <1>3, <1>4

\* One more signal is a step of the stream, if it fits what was heard.
LEMMA StreamStep ==
  ASSUME HeardSeq, UNCHANGED client, NEW n \in Names, NEW w \in Words,
         heard' = Append(heard, <<n, w>>),
         \/ ~HeardEnd /\ n # "finished" /\ (client.owner /\ n = "statusChanged" => w # "Finished")
         \/ ~HeardEnd /\ n = "finished" /\ w \in Exits \ {"Unfinished"}
         \/ HeardEnd /\ n = "statusChanged" /\ w = "Finished" /\ (client.owner => ~HeardLast)
         \/ HeardEnd /\ n = "errorOccurred" /\ w = "AuthError"
  PROVE  Stream!Next
<1>1. (Stream!HasFinished <=> HeardEnd) /\ (Stream!Heard("statusChanged", {"Finished"}) <=> HeardLast)
  BY StreamHears
<1>2. /\ heard \in Seq(Signals) /\ Len(heard') = Len(heard) + 1 /\ heard'[Len(heard')] = <<n, w>>
  BY DEF HeardSeq
<1>3. client.owner' = client.owner
  OBVIOUS
<1>4. CASE ~HeardEnd /\ n # "finished" /\ (client.owner /\ n = "statusChanged" => w # "Finished")
  <2>1. heard'[Len(heard')][2] = w
    BY <1>2
  <2>2. n \in {"statusChanged", "errorOccurred", "progressChanged", "cancellableChanged", "prompt"}
    BY <1>4 DEF Names
  <2>3. Stream!Proceed
    BY <1>1, <1>2, <1>3, <1>4, <2>1, <2>2 DEF Stream!Proceed
  <2> QED BY <2>3 DEF Stream!Next
<1>5. CASE ~HeardEnd /\ n = "finished" /\ w \in Exits \ {"Unfinished"}
  BY <1>1, <1>3, <1>5 DEF Stream!Next, Stream!Finish, Stream!ExitStatuses, Exits
<1>6. CASE HeardEnd /\ n = "statusChanged" /\ w = "Finished" /\ (client.owner => ~HeardLast)
  BY <1>1, <1>3, <1>6 DEF Stream!Next, Stream!Trail
<1>7. CASE HeardEnd /\ n = "errorOccurred" /\ w = "AuthError"
  BY <1>1, <1>3, <1>7 DEF Stream!Next, Stream!Trail
<1> QED BY <1>4, <1>5, <1>6, <1>7

\* The client takes a message: that is a step of the stream, or nothing is heard.
LEMMA DeliverStream ==
  ASSUME Shapes, EndInv, StreamInv, Deliver
  PROVE  StreamInv' /\ (Stream!Next \/ UNCHANGED Stream!vars)
<1> DEFINE m == Head(inbox)
           r == Rank(m)
<1>1. /\ inbox # <<>> /\ inbox' = Tail(inbox) /\ phase = "connected" /\ client' = client
      /\ UNCHANGED <<alive, job, phase, hasRun>>
  BY DEF Deliver, EndInv, daemonVars
<1>2. /\ InOrder' /\ Ranks = {r} \cup Ranks' /\ Known(m) /\ m \in Messages
      /\ r > 0 => \A b \in Ranks' : b > 0 => r < b \/ (r = 1 /\ b = 1)
  <2>1. inbox \in Seq(Messages) /\ Orderly(inbox)
    BY DEF Shapes, StreamInv, InOrder
  <2> QED BY <1>1, <2>1, OrderlyTail, RanksNext DEF Ranks
<1>3. Emits(m) /\ HeardSeq
  BY <1>2, DeliverEmits DEF StreamInv
<1>4. r \in 0..4
  BY RankFacts
<1>5. JobOver' <=> JobOver
  BY <1>1 DEF JobOver
<1>6. heard' = heard => (HeardEnd' <=> HeardEnd) /\ (HeardLast' <=> HeardLast) /\ HeardSeq'
  BY <1>3 DEF HeardEnd, HeardLast, HeardSeq
<1>7. client.owner' = client.owner /\ (heard' = heard => UNCHANGED Stream!vars)
  BY <1>1 DEF Stream!vars
<1>8. /\ 2 \in Ranks => JobOver
      /\ 3 \in Ranks => job = "done" /\ JobOver
      /\ 4 \in Ranks => ~alive
      /\ HeardEnd => (JobOver \/ ~alive) /\ mirror.exitStatus # "Unfinished" /\ 1 \notin Ranks /\ 2 \notin Ranks
      /\ client.owner =>
           /\ JobOver => HeardEnd \/ 2 \in Ranks
           /\ HeardLast => HeardEnd /\ (job = "done" \/ ~alive) /\ 3 \notin Ranks
  BY DEF StreamInv, JobOver
<1> HIDE DEF m, r
<1>9. CASE r \in {0, 1}
  <2>1. mirror'.exitStatus = mirror.exitStatus
    BY <1>3, <1>9 DEF Emits, r
  <2>2. CASE heard' = heard
    BY <1>1, <1>2, <1>3, <1>5, <1>6, <1>7, <1>8, <1>9, <2>1, <2>2 DEF StreamInv
  <2>3. CASE heard' # heard
    <3>1. PICK n \in Names \ {"finished"}, w \in Words :
            /\ heard' = Append(heard, <<n, w>>)
            /\ n = "statusChanged" => w # "Finished"
            /\ r = 0 => n = "errorOccurred" /\ w = "AuthError"
      BY <1>3, <1>9, <2>3 DEF Emits, r
    <3>2. HeardSeq' /\ (HeardEnd' <=> HeardEnd) /\ (HeardLast' <=> HeardLast)
      BY <1>3, <3>1, HeardMore
    <3>3. r = 1 => ~HeardEnd
      BY <1>2, <1>8
    <3>4. Stream!Next
      BY <1>1, <1>3, <1>9, <3>1, <3>3, StreamStep
    <3> QED BY <1>1, <1>2, <1>5, <1>7, <1>8, <1>9, <2>1, <3>2, <3>4 DEF StreamInv
  <2> QED BY <2>2, <2>3
<1>10. CASE r = 2
  <2>1. /\ mirror'.exitStatus = m.value /\ heard' = Append(heard, <<"finished", m.value>>)
        /\ m.value \in Exits \ {"Unfinished"}
    BY <1>2, <1>3, <1>10 DEF Emits, Known, r
  <2>2. m.value \in Words /\ "finished" \in Names
    BY <2>1, WordFacts DEF Names
  <2>3. HeardSeq' /\ HeardEnd' /\ (HeardLast' <=> HeardLast)
    BY <1>3, <2>1, <2>2, HeardMore
  <2>4. JobOver /\ ~HeardEnd /\ (client.owner => ~HeardLast)
    BY <1>2, <1>8, <1>10
  <2>5. Stream!Next
    BY <1>1, <1>3, <2>1, <2>2, <2>4, StreamStep
  <2>6. 1 \notin Ranks' /\ 2 \notin Ranks'
    BY <1>2, <1>10
  <2> QED BY <1>1, <1>2, <1>5, <1>7, <1>8, <2>1, <2>3, <2>4, <2>5, <2>6 DEF StreamInv
<1>11. CASE r = 3
  <2>1. mirror'.exitStatus = mirror.exitStatus /\ heard' = Append(heard, <<"statusChanged", "Finished">>)
    BY <1>3, <1>11 DEF Emits, r
  <2>2. "statusChanged" \in Names /\ "Finished" \in Words
    BY WordFacts DEF Names, Status
  <2>3. HeardSeq' /\ (HeardEnd' <=> HeardEnd) /\ HeardLast'
    BY <1>3, <2>1, <2>2, HeardMore
  <2>4. 1 \notin Ranks' /\ 2 \notin Ranks' /\ 3 \notin Ranks'
    BY <1>2, <1>11
  <2>5. job = "done" /\ JobOver /\ (client.owner => HeardEnd /\ ~HeardLast)
    BY <1>2, <1>8, <1>11, <2>4
  <2>6. Stream!Next
    BY <1>1, <1>3, <2>1, <2>2, <2>5, StreamStep
  <2> QED BY <1>1, <1>2, <1>5, <1>7, <1>8, <2>1, <2>3, <2>4, <2>5, <2>6 DEF StreamInv
<1>12. CASE r = 4
  <2>1. ~alive /\ 1 \notin Ranks' /\ 2 \notin Ranks' /\ 3 \notin Ranks'
    BY <1>2, <1>8, <1>12
  <2>2. CASE mirror.exitStatus = "Unfinished"
    <3>1. mirror'.exitStatus = "Failed" /\ heard' = heard \o Stream!Disappearance
      BY <1>3, <1>12, <2>2 DEF Emits, r
    <3>2. HeardSeq' /\ HeardEnd' /\ HeardLast'
      BY <1>3, <3>1, HeardDeath
    <3>3. ~Stream!HasFinished
      BY <1>3, <1>8, <2>2, StreamHears
    <3>4. Stream!Next
      BY <1>7, <3>1, <3>3 DEF Stream!Next, Stream!Disappear
    <3> QED BY <1>1, <1>2, <1>5, <1>7, <1>8, <2>1, <3>1, <3>2, <3>4 DEF StreamInv
  <2>3. CASE mirror.exitStatus # "Unfinished"
    <3>1. mirror'.exitStatus = mirror.exitStatus /\ heard' = heard
      BY <1>3, <1>12, <2>3 DEF Emits, r
    <3>2. client.owner /\ JobOver => HeardEnd
      BY <1>2, <1>8, <1>12, <2>1
    <3> QED BY <1>1, <1>2, <1>3, <1>5, <1>6, <1>7, <1>8, <2>1, <3>1, <3>2 DEF StreamInv
  <2> QED BY <2>2, <2>3
<1> QED BY <1>4, <1>9, <1>10, <1>11, <1>12

\* So is a call without an answer.
LEMMA TimeOutStream ==
  ASSUME Shapes, StreamInv, CallTimesOut
  PROVE  StreamInv' /\ (Stream!Next \/ UNCHANGED Stream!vars)
<1>1. PICK n \in awaiting : OnCallFinished(n, "NoReply")
  BY DEF CallTimesOut
<1>2. UNCHANGED <<alive, job, inbox, client, phase, hasRun>>
  BY DEF CallTimesOut, daemonVars
<1>3. phase = "connected"
  BY <1>1 DEF StreamInv
<1>4. /\ mirror'.exitStatus = mirror.exitStatus
      /\ heard' = heard \/ heard' = Append(heard, <<"errorOccurred", "AuthError">>)
  BY <1>1, FinishedEmits
<1>5. (JobOver' <=> JobOver) /\ Ranks' = Ranks /\ (InOrder' <=> InOrder) /\ client.owner' = client.owner
  BY <1>2, RanksNext DEF JobOver, Ranks, InOrder
<1>6. HeardSeq' /\ (HeardEnd' <=> HeardEnd) /\ (HeardLast' <=> HeardLast) /\ (Stream!Next \/ UNCHANGED Stream!vars)
  <2>1. CASE heard' = heard
    BY <1>5, <2>1 DEF StreamInv, HeardSeq, HeardEnd, HeardLast, Stream!vars
  <2>2. CASE heard' = Append(heard, <<"errorOccurred", "AuthError">>)
    <3>1. "errorOccurred" \in Names /\ "AuthError" \in Words /\ HeardSeq
      BY WordFacts DEF Names, Errors, StreamInv
    <3>2. HeardSeq' /\ (HeardEnd' <=> HeardEnd) /\ (HeardLast' <=> HeardLast)
      BY <2>2, <3>1, HeardMore
    <3>3. Stream!Next
      BY <1>2, <2>2, <3>1, StreamStep
    <3> QED BY <3>2, <3>3
  <2> QED BY <1>4, <2>1, <2>2
<1> QED BY <1>2, <1>3, <1>4, <1>5, <1>6 DEF StreamInv

\* Steps that neither send nor tell anything.
LEMMA SameStream ==
  ASSUME StreamInv, UNCHANGED <<alive, job, inbox, client, heard>>,
         mirror'.exitStatus = mirror.exitStatus \/ heard = <<>>,
         phase' # "connected" => phase # "connected" /\ UNCHANGED awaiting,
         client.owner /\ hasRun' => hasRun \/ phase = "connected"
  PROVE  StreamInv'
<1>1. (JobOver' <=> JobOver) /\ Ranks' = Ranks /\ (InOrder' <=> InOrder)
  BY RanksNext DEF JobOver, Ranks, InOrder
<1>2. (HeardSeq' <=> HeardSeq) /\ (HeardEnd' <=> HeardEnd) /\ (HeardLast' <=> HeardLast)
  BY DEF HeardSeq, HeardEnd, HeardLast
<1>3. HeardEnd => heard # <<>>
  BY DEF HeardEnd
<1> QED BY <1>1, <1>2, <1>3 DEF StreamInv

\* The invariant that the stream needs.
LEMMA StreamInvariance == Spec => []StreamInv
<1>1. Init => StreamInv
  <2> SUFFICES ASSUME Init PROVE StreamInv
    OBVIOUS
  <2>1. Ranks = {} /\ InOrder /\ HeardSeq /\ ~HeardEnd /\ ~HeardLast
    BY DEF Init, Ranks, InOrder, RanksIn, Orderly, HeardSeq, HeardEnd, HeardLast
  <2> QED BY <2>1 DEF Init, StreamInv, JobOver
<1>2. StreamInv /\ EndInv /\ Shapes /\ RunInv /\ [Next]_vars => StreamInv'
  <2> SUFFICES ASSUME StreamInv, EndInv, Shapes, RunInv, [Next]_vars PROVE StreamInv'
    OBVIOUS
  <2>1. ASSUME \E l \in 0..4 : Sent(l) /\ Moves(l) PROVE StreamInv'
    BY <2>1, SendStream
  <2>2. CASE HandleCall
    BY <2>1, <2>2, HandleCallSends
  <2>3. CASE Authorized \/ Unauthorized
    BY <2>1, <2>3, AuthorizedSends
  <2>4. CASE JobStarts \/ JobAnnounces \/ JobPrompts \/ JobLeaves
    BY <2>1, <2>4, JobSends
  <2>5. CASE JobExits \/ JobFinishes
    BY <2>1, <2>5, EndSends
  <2>6. CASE DaemonEnds \/ CallFails
    BY <2>1, <2>6, BusSends
  <2>7. CASE Unregister
    BY <2>7, SameStream DEF Unregister, objectVars
  <2>8. CASE SyncBegins \/ SyncEnds
    <3>1. heard = <<>>
      BY <2>8 DEF SyncBegins, SyncEnds, StreamInv
    <3> QED BY <2>8, <3>1, SameStream DEF SyncBegins, SyncEnds, daemonVars
  <2>9. CASE Connect
    BY <2>9, SameStream DEF Connect, daemonVars
  <2>10. CASE ClientChanges \/ ClientRuns \/ ClientAnswers
    BY <2>10, SameStream DEF ClientChanges, ClientRuns, ClientAnswers, Call, daemonVars
  <2>11. CASE OtherRuns \/ OtherAnswers
    BY <2>11, SameStream DEF OtherRuns, OtherAnswers, OtherCalls, daemonVars
  <2>12. CASE Deliver
    BY <2>12, DeliverStream
  <2>13. CASE CallTimesOut
    BY <2>13, TimeOutStream
  <2>14. CASE UNCHANGED vars
    BY <2>14, SameStream DEF vars, daemonVars, objectVars
  <2> QED BY <2>2, <2>3, <2>4, <2>5, <2>6, <2>7, <2>8, <2>9, <2>10, <2>11, <2>12, <2>13, <2>14
          DEF Next, Daemon, Job, Client, Other
<1> QED BY <1>1, <1>2, ClientShapes, EndInvariance, PTL DEF Spec

\* The client's object is a stream of signals as frontends expect it, for any number of
\* calls and messages: one end, told before the last status.
THEOREM StreamIsImplemented == Spec => ImplementsStream
<1>1. Init => Stream!Init
  BY ConstantsAssumption DEF Init, Stream!Init
<1>2. StreamInv /\ EndInv /\ Shapes /\ [Next]_vars => [Stream!Next]_(Stream!vars)
  <2> SUFFICES ASSUME StreamInv, EndInv, Shapes, [Next]_vars
               PROVE  Stream!Next \/ UNCHANGED Stream!vars
    OBVIOUS
  <2>1. CASE Deliver
    BY <2>1, DeliverStream
  <2>2. CASE CallTimesOut
    BY <2>2, TimeOutStream
  <2>3. CASE ~Deliver /\ ~CallTimesOut
    <3>1. UNCHANGED <<client, heard>>
      <4>1. CASE Daemon
        BY <4>1 DEF Daemon, HandleCall, Authorized, Unauthorized, Unregister, objectVars
      <4>2. CASE Job
        BY <4>2 DEF Job, JobStarts, JobAnnounces, JobPrompts, JobLeaves, JobExits, JobFinishes,
                    JobGoesOn, objectVars
      <4>3. CASE Client
        BY <2>3, <4>3 DEF Client, SyncBegins, SyncEnds, Connect, ClientChanges, ClientRuns,
                          ClientAnswers, Call
      <4>4. CASE Other
        BY <4>4 DEF Other, OtherRuns, OtherAnswers, OtherCalls, DaemonEnds, CallFails, objectVars
      <4>5. CASE UNCHANGED vars
        BY <4>5 DEF vars, objectVars
      <4> QED BY <4>1, <4>2, <4>3, <4>4, <4>5 DEF Next
    <3> QED BY <3>1 DEF Stream!vars
  <2> QED BY <2>1, <2>2, <2>3
<1> QED BY <1>1, <1>2, ClientShapes, EndInvariance, StreamInvariance, PTL
        DEF Spec, ImplementsStream, Stream!Spec

-----------------------------------------------------------------------------
(* What the client knows *)

IsOf(m, p) == m.kind = "changed" /\ m.what = p

\* The messages q say nothing of p, or last of all that it is v.
NoneOf(q, p) == \A i \in 1..Len(q) : ~IsOf(q[i], p)

LastIs(q, p, v) ==
  \E i \in 1..Len(q) :
    /\ IsOf(q[i], p) /\ q[i].value = v
    /\ \A j \in 1..Len(q) : j > i => ~IsOf(q[j], p)

\* What the client has read off the daemon's object.
HasRead == CASE phase = "new" -> {} [] phase = "half" -> FirstHalf [] OTHER -> Property

\* Once all that is on its way has arrived, the client knows the value of p.
WillKnow(p) ==
  \/ LastIs(inbox, p, work[p])
  \/ NoneOf(inbox, p) /\ (mirror[p] = work[p] \/ (p = "error" /\ mirror.error = "AuthError"))

\* The client will know what it has not missed, and that the daemon is gone.
CatchInv ==
  /\ alive => \A p \in (Announced \cap HasRead) \ missed : WillKnow(p)
  /\ ~alive =>
       \/ "owner" \in missed
       \/ phase = "connected" /\ (mirror.exitStatus # "Unfinished" \/ \E i \in 1..Len(inbox) : IsGone(inbox[i]))

\* What was said last of p stays that, unless more is said of it.
LEMMA LastOfBoth ==
  ASSUME NEW a \in Seq(Messages), NEW b \in Seq(Messages), NEW p, NEW v
  PROVE  /\ LastIs(b, p, v) => LastIs(a \o b, p, v)
         /\ LastIs(a, p, v) /\ NoneOf(b, p) => LastIs(a \o b, p, v)
         /\ NoneOf(a, p) /\ NoneOf(b, p) => NoneOf(a \o b, p)
<1>1. /\ Len(a) \in Nat /\ Len(b) \in Nat /\ Len(a \o b) = Len(a) + Len(b)
      /\ \A i \in 1..Len(a) : (a \o b)[i] = a[i] /\ i \in 1..Len(a \o b)
      /\ \A i \in 1..Len(a \o b) :
           i \in 1..Len(a) \/ (i - Len(a) \in 1..Len(b) /\ (a \o b)[i] = b[i - Len(a)])
  BY SentBehind
<1>2. ASSUME LastIs(b, p, v) PROVE LastIs(a \o b, p, v)
  <2>1. PICK i \in 1..Len(b) : /\ IsOf(b[i], p) /\ b[i].value = v
                               /\ \A j \in 1..Len(b) : j > i => ~IsOf(b[j], p)
    BY <1>2 DEF LastIs
  <2>2. Len(a) + i \in 1..Len(a \o b) /\ (a \o b)[Len(a) + i] = b[i]
    BY <1>1
  <2>3. ASSUME NEW j \in 1..Len(a \o b), j > Len(a) + i PROVE ~IsOf((a \o b)[j], p)
    <3>1. j - Len(a) \in 1..Len(b) /\ (a \o b)[j] = b[j - Len(a)] /\ j - Len(a) > i
      BY <1>1, <2>3
    <3> QED BY <2>1, <3>1
  <2> QED BY <2>1, <2>2, <2>3 DEF LastIs
<1>3. ASSUME LastIs(a, p, v), NoneOf(b, p) PROVE LastIs(a \o b, p, v)
  <2>1. PICK i \in 1..Len(a) : /\ IsOf(a[i], p) /\ a[i].value = v
                               /\ \A j \in 1..Len(a) : j > i => ~IsOf(a[j], p)
    BY <1>3 DEF LastIs
  <2>2. i \in 1..Len(a \o b) /\ (a \o b)[i] = a[i]
    BY <1>1
  <2>3. ASSUME NEW j \in 1..Len(a \o b), j > i PROVE ~IsOf((a \o b)[j], p)
    <3>1. CASE j \in 1..Len(a)
      BY <1>1, <2>1, <2>3, <3>1
    <3>2. CASE j - Len(a) \in 1..Len(b) /\ (a \o b)[j] = b[j - Len(a)]
      BY <1>3, <3>2 DEF NoneOf
    <3> QED BY <1>1, <3>1, <3>2
  <2> QED BY <2>1, <2>2, <2>3 DEF LastIs
<1>4. ASSUME NoneOf(a, p), NoneOf(b, p) PROVE NoneOf(a \o b, p)
  <2> SUFFICES ASSUME NEW j \in 1..Len(a \o b) PROVE ~IsOf((a \o b)[j], p)
    BY DEF NoneOf
  <2>1. CASE j \in 1..Len(a)
    BY <1>1, <1>4, <2>1 DEF NoneOf
  <2>2. CASE j - Len(a) \in 1..Len(b) /\ (a \o b)[j] = b[j - Len(a)]
    BY <1>4, <2>2 DEF NoneOf
  <2> QED BY <1>1, <2>1, <2>2
<1> QED BY <1>2, <1>3, <1>4

\* What is sent tells of every change of a member that is announced.
Tells(ms) ==
  \A p \in Announced : LastIs(ms, p, work'[p]) \/ (NoneOf(ms, p) /\ work'[p] = work[p])

Told == \E ms \in Seq(Messages) : Send(ms) /\ Tells(ms)

\* Messages of other kinds tell of no member.
LEMMA ReplyTellsNothing ==
  ASSUME NEW c \in Calls \cup {NoCall}, NEW error \in ReplyErrors, NEW p
  PROVE  ToCaller(c, error) \in Seq(Messages) /\ NoneOf(ToCaller(c, error), p)
<1>1. CASE c.number = 0
  BY <1>1 DEF ToCaller, NoneOf
<1>2. CASE c.number # 0
  <2>1. ToCaller(c, error) = <<Reply(c, error)>> /\ Reply(c, error) \in Messages
    BY <1>2, ReplyFacts DEF ToCaller
  <2>2. ~IsOf(Reply(c, error), p)
    BY DEF IsOf, Reply, Message
  <2> HIDE DEF Reply
  <2> QED BY <2>1, <2>2 DEF NoneOf
<1> QED BY <1>1, <1>2

\* A change and what is sent behind it, which tells of no member.
LEMMA ChangeTells ==
  ASSUME Shapes, NEW p \in Property \cup {"none"}, NEW v \in Words,
         NEW ms \in Seq(Messages), \A q \in Property : NoneOf(ms, q),
         p \in Announced => work'[p] = v,
         \A q \in Announced \ {p} : work'[q] = work[q]
  PROVE  <<Changed(p, v)>> \o ms \in Seq(Messages) /\ Tells(<<Changed(p, v)>> \o ms)
<1>1. Changed(p, v) \in Messages
  BY ChangedMessage
<1>2. /\ IsOf(Changed(p, v), p) /\ Changed(p, v).value = v
      /\ \A q : q # p => ~IsOf(Changed(p, v), q)
  BY DEF Changed, Message, IsOf
<1> HIDE DEF Changed
<1>3. <<Changed(p, v)>> \in Seq(Messages) /\ Len(<<Changed(p, v)>>) = 1 /\ <<Changed(p, v)>>[1] = Changed(p, v)
  BY <1>1
<1>4. ASSUME NEW q \in Announced
      PROVE  LET all == <<Changed(p, v)>> \o ms
             IN  LastIs(all, q, work'[q]) \/ (NoneOf(all, q) /\ work'[q] = work[q])
  <2>a. q \in Property
    BY DEF Announced
  <2>1. CASE q = p
    <3>1. LastIs(<<Changed(p, v)>>, q, work'[q])
      BY <1>2, <1>3, <1>4, <2>1 DEF LastIs
    <3> QED BY <1>3, <2>a, <3>1, LastOfBoth
  <2>2. CASE q # p
    <3>1. NoneOf(<<Changed(p, v)>>, q)
      BY <1>2, <1>3, <2>2 DEF NoneOf
    <3> QED BY <1>3, <2>a, <2>2, <3>1, LastOfBoth
  <2> QED BY <2>1, <2>2
<1>5. <<Changed(p, v)>> \o ms \in Seq(Messages)
  BY <1>3
<1> QED BY <1>4, <1>5 DEF Tells

\* Only the answer to a call, and no change of what is announced.
LEMMA AnswerTold ==
  ASSUME NEW c \in Calls \cup {NoCall}, NEW error \in ReplyErrors, Send(ToCaller(c, error)),
         \A p \in Announced : work'[p] = work[p]
  PROVE  Told
BY ReplyTellsNothing DEF Told, Tells

\* A member is set and announced, without and with an answer.
LEMMA ChangeTold ==
  ASSUME Shapes, NEW p \in Property \cup {"none"}, NEW v \in Words, work' = [work EXCEPT ![p] = v],
         \/ Send(<<Changed(p, v)>>)
         \/ \E c \in Calls \cup {NoCall}, error \in ReplyErrors : Send(<<Changed(p, v)>> \o ToCaller(c, error))
  PROVE  Told
<1>1. (p \in Announced => work'[p] = v) /\ \A q \in Announced \ {p} : work'[q] = work[q]
  BY DEF Shapes, Announced
<1>2. CASE Send(<<Changed(p, v)>>)
  <2>1. <<>> \in Seq(Messages) /\ \A q \in Property : NoneOf(<<>>, q)
    BY DEF NoneOf
  <2>2. <<Changed(p, v)>> \o <<>> \in Seq(Messages) /\ Tells(<<Changed(p, v)>> \o <<>>)
    BY <1>1, <2>1, ChangeTells
  <2>3. Changed(p, v) \in Messages
    BY ChangedMessage
  <2> HIDE DEF Changed
  <2>4. <<Changed(p, v)>> \o <<>> = <<Changed(p, v)>>
    BY <2>3
  <2> QED BY <1>2, <2>2, <2>4 DEF Told
<1>3. ASSUME NEW c \in Calls \cup {NoCall}, NEW error \in ReplyErrors, Send(<<Changed(p, v)>> \o ToCaller(c, error))
      PROVE  Told
  <2>1. ToCaller(c, error) \in Seq(Messages) /\ \A q \in Property : NoneOf(ToCaller(c, error), q)
    BY ReplyTellsNothing
  <2> DEFINE ms == ToCaller(c, error)
  <2> HIDE DEF ms
  <2>2. <<Changed(p, v)>> \o ms \in Seq(Messages) /\ Tells(<<Changed(p, v)>> \o ms)
    BY <1>1, <2>1, ChangeTells DEF ms
  <2> QED BY <1>3, <2>2 DEF Told, ms
<1> QED BY <1>2, <1>3

\* The authorized end of run() says twice that the transaction waits.
LEMMA EnqueueTold ==
  ASSUME Shapes, NEW c \in Calls \cup {NoCall}, Enqueue(c)
  PROVE  Told
<1> DEFINE waiting == Changed("status", "Waiting")
           ms == ToCaller(c, "none")
<1>1. "status" \in Property /\ "Waiting" \in Words /\ waiting \in Messages
  BY WordFacts, ChangedMessage DEF Property, Status
<1>2. ms \in Seq(Messages) /\ \A q \in Property : NoneOf(ms, q)
  BY ReplyTellsNothing DEF ReplyErrors
<1>3. Send(<<waiting, waiting>> \o ms) /\ work' = [work EXCEPT !["status"] = "Waiting"]
  BY DEF Enqueue
<1>4. /\ "status" \in Announced => work'["status"] = "Waiting"
      /\ \A q \in Announced \ {"status"} : work'[q] = work[q]
  BY <1>3 DEF Shapes, Announced, Property
<1> HIDE DEF ms
<1>5. <<waiting>> \o ms \in Seq(Messages) /\ Tells(<<waiting>> \o ms)
  BY <1>1, <1>2, <1>4, ChangeTells
<1> HIDE DEF waiting
<1>6. /\ <<waiting>> \in Seq(Messages) /\ <<waiting>> \o (<<waiting>> \o ms) = <<waiting, waiting>> \o ms
      /\ <<waiting>> \o (<<waiting>> \o ms) \in Seq(Messages)
  BY <1>1, <1>2
<1>7. ASSUME NEW q \in Announced
      PROVE  LET all == <<waiting>> \o (<<waiting>> \o ms)
             IN  LastIs(all, q, work'[q]) \/ (NoneOf(all, q) /\ work'[q] = work[q])
  <2>1. CASE LastIs(<<waiting>> \o ms, q, work'[q])
    BY <1>5, <1>6, <2>1, LastOfBoth
  <2>2. CASE NoneOf(<<waiting>> \o ms, q) /\ work'[q] = work[q]
    <3>1. 1 \in 1..Len(<<waiting>> \o ms) /\ (<<waiting>> \o ms)[1] = waiting
      BY <1>1, <1>2
    <3>2. NoneOf(<<waiting>>, q)
      <4>1. Len(<<waiting>>) = 1 /\ <<waiting>>[1] = waiting
        OBVIOUS
      <4> QED BY <2>2, <3>1, <4>1 DEF NoneOf
    <3> QED BY <1>5, <1>6, <2>2, <3>2, LastOfBoth
  <2> QED BY <1>5, <2>1, <2>2 DEF Tells
<1>8. Tells(<<waiting>> \o (<<waiting>> \o ms))
  BY <1>7 DEF Tells
<1> DEFINE all == <<waiting>> \o (<<waiting>> \o ms)
<1>9. all \in Seq(Messages) /\ Send(all) /\ Tells(all)
  BY <1>3, <1>6, <1>8
<1> HIDE DEF all
<1> QED BY <1>9 DEF Told

\* cancel(), if it is possible: the pause that it ends is not announced.
LEMMA CancelTold ==
  ASSUME Shapes, NEW c \in Calls \cup {NoCall}, CancelIfPossible(c)
  PROVE  Told
<1>1. "Failed" \in ReplyErrors /\ "none" \in ReplyErrors
  BY DEF ReplyErrors
<1>2. CASE Send(ToCaller(c, "Failed")) /\ UNCHANGED work
  BY <1>1, <1>2, AnswerTold
<1>3. CASE Accept(c)
  <2>1. /\ work' = [work EXCEPT !["cancelled"] = TRUE, !["paused"] = FALSE]
        /\ Send(<<Changed("cancelled", TRUE)>> \o ToCaller(c, "none"))
    BY <1>3 DEF Accept
  <2>2. work'["cancelled"] = TRUE /\ \A q \in Announced \ {"cancelled"} : work'[q] = work[q]
    BY <2>1 DEF Shapes, Announced, Property
  <2>3. "cancelled" \in Property /\ TRUE \in Words
    BY WordFacts DEF Property
  <2> DEFINE ms == ToCaller(c, "none")
  <2>4. ms \in Seq(Messages) /\ \A q \in Property : NoneOf(ms, q)
    BY <1>1, ReplyTellsNothing
  <2> HIDE DEF ms
  <2>5. <<Changed("cancelled", TRUE)>> \o ms \in Seq(Messages) /\ Tells(<<Changed("cancelled", TRUE)>> \o ms)
    BY <2>2, <2>3, <2>4, ChangeTells
  <2> QED BY <2>1, <2>5 DEF Told, ms
<1> QED BY <1>2, <1>3 DEF CancelIfPossible

\* The calls that the main thread serves.
LEMMA HandleCallTold ==
  ASSUME Shapes, HandleCall
  PROVE  Told
<1> DEFINE c == Head(outbox)
<1>1. /\ outbox # <<>>
      /\ \/ Refuse(c, "UnknownObject") \/ Set(c) \/ SetFrontendCaps(c) \/ Answer(c)
         \/ c.op = "run" /\ Run(c)
         \/ Cancel(c)
  BY DEF HandleCall
<1>2. c \in Calls
  BY <1>1 DEF Shapes
<1> HIDE DEF c
<1>3. {"UnknownObject", "AccessDenied", "Failed", "InvalidArgs", "none"} \subseteq ReplyErrors
  BY DEF ReplyErrors
<1>4. ASSUME NEW e \in ReplyErrors, Refuse(c, e) PROVE Told
  BY <1>2, <1>4, AnswerTold DEF Refuse
<1>5. CASE Set(c)
  <2>1. CASE /\ work' = [work EXCEPT ![c.arg] = "given"]
             /\ Send(<<Changed(c.arg, "given")>> \o ToCaller(c, "none"))
    <3>1. c.arg \in Property \cup {"none"} /\ "given" \in Words
      BY <1>2, WordFacts DEF Calls, Property
    <3> QED BY <1>2, <1>3, <2>1, <3>1, ChangeTold
  <2> QED BY <1>3, <1>4, <1>5, <2>1 DEF Set
<1>6. CASE SetFrontendCaps(c) \/ Answer(c)
  <2>1. CASE /\ Send(ToCaller(c, "none"))
             /\ \/ work' = [work EXCEPT !["frontendCaps"] = "given"]
                \/ work' = [work EXCEPT !["paused"] = FALSE]
    <3>1. \A p \in Announced : work'[p] = work[p]
      BY <2>1 DEF Shapes, Announced
    <3> QED BY <1>2, <1>3, <2>1, <3>1, AnswerTold
  <2> QED BY <1>3, <1>4, <1>6, <2>1 DEF SetFrontendCaps, Answer, TakeAnswer
<1>7. CASE Run(c)
  <2>1. "status" \in Property /\ "Authentication" \in Words
    BY WordFacts DEF Property, Status
  <2>2. CASE Announce("status", "Authentication")
    BY <2>1, <2>2, ChangeTold DEF Announce
  <2>3. CASE Enqueue(c)
    BY <1>2, <2>3, EnqueueTold
  <2> QED BY <1>7, <2>2, <2>3 DEF Run
<1>8. CASE Cancel(c)
  <2>1. CASE Send(<<>>) /\ UNCHANGED work
    <3>1. <<>> \in Seq(Messages) /\ Tells(<<>>)
      BY <2>1 DEF Tells, NoneOf
    <3> QED BY <2>1, <3>1 DEF Told
  <2>2. CASE CancelIfPossible(c)
    BY <1>2, <2>2, CancelTold
  <2> QED BY <1>8, <2>1, <2>2 DEF Cancel
<1> QED BY <1>1, <1>3, <1>4, <1>5, <1>6, <1>7, <1>8

\* The answers of polkit, and of the bus for a daemon that is gone.
LEMMA AnswersTold ==
  ASSUME Shapes, Authorized \/ Unauthorized \/ CallFails
  PROVE  Told
<1>1. asking \in Calls \cup {NoCall} /\ {"AccessDenied", "NoReply", "UnknownObject"} \subseteq ReplyErrors
  BY DEF Shapes, ReplyErrors
<1>2. CASE Authorized
  BY <1>1, <1>2, EnqueueTold, CancelTold DEF Authorized
<1>3. CASE Unauthorized
  BY <1>1, <1>3, AnswerTold DEF Unauthorized
<1>4. CASE CallFails
  <2>1. Head(outbox) \in Calls /\ UNCHANGED work
    BY <1>4 DEF CallFails, Shapes, daemonVars
  <2> QED BY <1>1, <1>4, <2>1, AnswerTold DEF CallFails
<1> QED BY <1>2, <1>3, <1>4

\* The job.
LEMMA JobTold ==
  ASSUME Shapes, Job
  PROVE  Told
<1>1. ASSUME NEW p \in Property, NEW v \in Words, Announce(p, v) PROVE Told
  BY <1>1, ChangeTold DEF Announce
<1>2. /\ {"status", "cancellable", "error", "progress", "exitStatus"} \subseteq Property
      /\ {"Running", "Committing", "Finished", "JobError", 100, TRUE, FALSE} \cup Exits \subseteq Words
  BY WordFacts DEF Property, Status, Errors
<1>3. CASE JobStarts \/ JobLeaves \/ JobFinishes
  BY <1>1, <1>2, <1>3 DEF JobStarts, JobLeaves, JobFinishes, SetFinished
<1>4. CASE JobAnnounces
  BY <1>1, <1>2, <1>4 DEF JobAnnounces
<1>5. CASE JobPrompts
  <2>1. work' = [work EXCEPT !["paused"] = TRUE] /\ Send(<<Prompt>>)
    BY <1>5 DEF JobPrompts
  <2>2. \A p \in Announced : work'[p] = work[p]
    BY <2>1 DEF Shapes, Announced
  <2>3. Prompt \in Messages /\ \A p : ~IsOf(Prompt, p)
    BY WordFacts DEF Prompt, Message, Messages, IsOf
  <2> HIDE DEF Prompt
  <2>4. <<Prompt>> \in Seq(Messages) /\ \A p : NoneOf(<<Prompt>>, p)
    BY <2>3 DEF NoneOf
  <2> QED BY <2>1, <2>2, <2>4 DEF Told, Tells
<1>6. CASE JobExits
  <2>1. PICK x \in Exits : SetExitStatus(x)
    BY <1>6 DEF JobExits, Exits
  <2> QED BY <1>1, <1>2, <2>1 DEF SetExitStatus
<1> QED BY <1>3, <1>4, <1>5, <1>6 DEF Job

\* A client to which all is told will know it.
LEMMA ToldKeepsUp ==
  ASSUME Shapes, EndInv, CatchInv, Told, UNCHANGED <<alive, phase, mirror>>
  PROVE  CatchInv'
<1>1. PICK ms \in Seq(Messages) : Send(ms) /\ Tells(ms)
  BY DEF Told
<1>2. /\ missed \subseteq missed'
      /\ phase = "connected" => inbox' = inbox \o ms
      /\ phase # "connected" => inbox' = inbox
  BY <1>1, SendFacts
<1>3. inbox \in Seq(Messages) /\ phase \in {"new", "half", "synced", "connected"}
  BY DEF Shapes
<1>4. ASSUME alive, NEW p \in (Announced \cap HasRead) \ missed' PROVE WillKnow(p)'
  <2>1. WillKnow(p)
    BY <1>2, <1>4 DEF CatchInv
  <2>2. LastIs(ms, p, work'[p]) \/ (NoneOf(ms, p) /\ work'[p] = work[p])
    BY <1>1 DEF Tells
  <2>3. CASE phase = "connected"
    <3>1. LastIs(inbox', p, work'[p]) \/ (NoneOf(inbox', p) /\ mirror'[p] = work'[p])
             \/ (NoneOf(inbox', p) /\ p = "error" /\ mirror'.error = "AuthError")
      <4>1. CASE LastIs(ms, p, work'[p])
        BY <1>2, <1>3, <2>3, <4>1, LastOfBoth
      <4>2. CASE NoneOf(ms, p) /\ work'[p] = work[p]
        BY <1>2, <1>3, <2>1, <2>3, <4>2, LastOfBoth DEF WillKnow
      <4> QED BY <2>2, <4>1, <4>2
    <3> QED BY <3>1 DEF WillKnow, LastIs, NoneOf, IsOf
  <2>4. CASE phase # "connected"
    <3>1. missed' = missed \cup ({ms[i].what : i \in DOMAIN ms} \cap AlreadyRead)
      BY <1>1, <2>4 DEF Send
    <3>2. p \in AlreadyRead
      BY <1>3, <1>4 DEF HasRead, AlreadyRead
    <3>3. ~LastIs(ms, p, work'[p])
      BY <1>4, <3>1, <3>2 DEF LastIs, IsOf
    <3>4. work'[p] = work[p] /\ inbox' = inbox /\ mirror' = mirror
      BY <1>2, <2>2, <2>4, <3>3
    <3> QED BY <2>1, <3>4 DEF WillKnow, LastIs, NoneOf, IsOf
  <2> QED BY <2>3, <2>4
<1>5. ASSUME ~alive
      PROVE  \/ "owner" \in missed'
             \/ phase = "connected" /\ (mirror.exitStatus # "Unfinished" \/ \E i \in 1..Len(inbox') : IsGone(inbox'[i]))
  <2>1. CASE "owner" \in missed
    BY <1>2, <2>1
  <2>2. CASE phase = "connected" /\ mirror.exitStatus # "Unfinished"
    BY <2>2
  <2>3. ASSUME phase = "connected", NEW i \in 1..Len(inbox), IsGone(inbox[i])
        PROVE  \E j \in 1..Len(inbox') : IsGone(inbox'[j])
    BY <1>2, <1>3, <2>3, SentBehind
  <2> QED BY <1>5, <2>1, <2>2, <2>3 DEF CatchInv
<1> QED BY <1>4, <1>5 DEF CatchInv, HasRead, IsGone

\* Nothing changes that it depends on.
LEMMA SameKnown ==
  ASSUME CatchInv, UNCHANGED <<alive, work, inbox, phase, missed, mirror>>
  PROVE  CatchInv'
BY DEF CatchInv, HasRead, WillKnow, LastIs, NoneOf, IsOf, IsGone

\* A call of the client's own fails: only its error changes.
LEMMA FailedKnown ==
  ASSUME Shapes, NEW n, NEW e, OnCallFinished(n, e)
  PROVE  /\ mirror'.exitStatus = mirror.exitStatus
         /\ \A p \in Property : mirror'[p] = mirror[p] \/ (p = "error" /\ mirror'.error = "AuthError")
         /\ mirror.error = "AuthError" => mirror'.error = "AuthError"
<1>1. mirror' = mirror \/ mirror' = [mirror EXCEPT !["error"] = "AuthError"]
  BY DEF OnCallFinished, FailCall, Update
<1> QED BY <1>1 DEF Shapes, Property

\* The client takes a message.
LEMMA DeliverKnown ==
  ASSUME Shapes, EndInv, CatchInv, Deliver
  PROVE  CatchInv'
<1> DEFINE m == Head(inbox)
<1>1. inbox # <<>> /\ inbox' = Tail(inbox) /\ UNCHANGED <<alive, work, phase, missed>>
  BY DEF Deliver, daemonVars
<1>2. /\ inbox \in Seq(Messages) /\ Len(inbox) \in Nat \ {0} /\ m = inbox[1] /\ m \in Messages
      /\ Len(inbox') = Len(inbox) - 1
      /\ \A i \in 1..Len(inbox') : inbox'[i] = inbox[i + 1]
  BY <1>1 DEF Shapes
<1>3. phase = "connected" /\ DOMAIN mirror = Property
  BY <1>1 DEF EndInv, Shapes
<1>4. IsGone(m) => ~alive
  BY <1>2 DEF EndInv
<1>5. IsEnd(m) => m.value # "Unfinished"
  <2> SUFFICES ASSUME IsEnd(m) PROVE m.value # "Unfinished"
    OBVIOUS
  <2>1. 1 \in 1..Len(inbox) /\ IsEnd(inbox[1])
    BY <1>2
  <2> QED BY <1>2, <2>1 DEF EndInv
<1> HIDE DEF m
<1>6. ASSUME alive, NEW p \in (Announced \cap HasRead) \ missed PROVE WillKnow(p)'
  <2>1. WillKnow(p) /\ p \in Property
    BY <1>6 DEF CatchInv, Announced
  <2>2. ~IsGone(m)
    BY <1>4, <1>6
  <2>3. \/ IsOf(m, p) /\ mirror'[p] = m.value
        \/ ~IsOf(m, p) /\ (mirror'[p] = mirror[p] \/ (p = "error" /\ mirror'.error = "AuthError"))
             /\ (mirror.error = "AuthError" /\ p = "error" => mirror'.error = "AuthError")
    <3>1. CASE m.kind = "changed" /\ UpdateProperty(m.what, m.value)
      <4>1. mirror' = [mirror EXCEPT ![m.what] = m.value]
        BY <3>1 DEF UpdateProperty, Update
      <4> QED BY <1>3, <2>1, <3>1, <4>1 DEF IsOf
    <3>2. CASE m.kind = "reply" /\ OnCallFinished(m.what, m.value)
      BY <2>1, <3>2, FailedKnown DEF IsOf
    <3>3. CASE m.kind = "prompt" /\ UNCHANGED mirror
      BY <3>3 DEF IsOf
    <3> QED BY <2>2, <3>1, <3>2, <3>3 DEF Deliver, m, IsGone
  <2>4. CASE LastIs(inbox, p, work[p])
    <3>1. PICK i \in 1..Len(inbox) : /\ IsOf(inbox[i], p) /\ inbox[i].value = work[p]
                                     /\ \A j \in 1..Len(inbox) : j > i => ~IsOf(inbox[j], p)
      BY <2>4 DEF LastIs
    <3>2. CASE i = 1
      <4>1. \A j \in 1..Len(inbox') : ~IsOf(inbox'[j], p)
        <5> SUFFICES ASSUME NEW j \in 1..Len(inbox') PROVE ~IsOf(inbox'[j], p)
          OBVIOUS
        <5>1. j + 1 \in 1..Len(inbox) /\ j + 1 > i /\ inbox'[j] = inbox[j + 1]
          BY <1>2, <3>2
        <5> QED BY <3>1, <5>1
      <4>2. mirror'[p] = work[p]
        BY <1>2, <2>3, <3>1, <3>2
      <4> QED BY <1>1, <4>1, <4>2 DEF WillKnow, NoneOf, IsOf
    <3>3. CASE i # 1
      <4>1. i - 1 \in 1..Len(inbox') /\ inbox'[i - 1] = inbox[i]
        BY <1>2, <3>3
      <4>2. ASSUME NEW j \in 1..Len(inbox'), j > i - 1 PROVE ~IsOf(inbox'[j], p)
        <5>1. j + 1 \in 1..Len(inbox) /\ j + 1 > i /\ inbox'[j] = inbox[j + 1]
          BY <1>2, <4>2
        <5> QED BY <3>1, <5>1
      <4>3. LastIs(inbox', p, work[p])
        BY <3>1, <4>1, <4>2 DEF LastIs
      <4> QED BY <1>1, <4>3 DEF WillKnow, LastIs, IsOf
    <3> QED BY <3>2, <3>3
  <2>5. CASE NoneOf(inbox, p) /\ (mirror[p] = work[p] \/ (p = "error" /\ mirror.error = "AuthError"))
    <3>1. ~IsOf(m, p)
      BY <1>2, <2>5 DEF NoneOf
    <3>2. NoneOf(inbox', p)
      <4> SUFFICES ASSUME NEW j \in 1..Len(inbox') PROVE ~IsOf(inbox'[j], p)
        BY DEF NoneOf
      <4>1. j + 1 \in 1..Len(inbox) /\ inbox'[j] = inbox[j + 1]
        BY <1>2
      <4> QED BY <2>5, <4>1 DEF NoneOf
    <3>3. mirror'[p] = work[p] \/ (p = "error" /\ mirror'.error = "AuthError")
      BY <2>3, <2>5, <3>1
    <3> QED BY <1>1, <3>2, <3>3 DEF WillKnow, NoneOf, IsOf
  <2> QED BY <2>1, <2>4, <2>5 DEF WillKnow
<1>7. ASSUME ~alive, "owner" \notin missed
      PROVE  mirror'.exitStatus # "Unfinished" \/ \E i \in 1..Len(inbox') : IsGone(inbox'[i])
  <2>1. mirror.exitStatus # "Unfinished" \/ \E i \in 1..Len(inbox) : IsGone(inbox[i])
    BY <1>7 DEF CatchInv
  <2>2. /\ IsEnd(m) => mirror'.exitStatus = m.value
        /\ IsGone(m) =>
             mirror'.exitStatus = IF mirror.exitStatus = "Unfinished" THEN "Failed" ELSE mirror.exitStatus
        /\ ~IsEnd(m) /\ ~IsGone(m) => mirror'.exitStatus = mirror.exitStatus
    BY DeliverFacts DEF m
  <2>3. CASE mirror.exitStatus # "Unfinished"
    BY <1>5, <2>2, <2>3
  <2>4. ASSUME NEW i \in 1..Len(inbox), IsGone(inbox[i])
        PROVE  mirror'.exitStatus # "Unfinished" \/ \E j \in 1..Len(inbox') : IsGone(inbox'[j])
    <3>1. CASE i = 1
      BY <1>2, <2>2, <2>4, <3>1
    <3>2. CASE i # 1
      <4>1. i - 1 \in 1..Len(inbox') /\ inbox'[i - 1] = inbox[i]
        BY <1>2, <3>2
      <4> QED BY <2>4, <4>1
    <3> QED BY <3>1, <3>2
  <2> QED BY <2>1, <2>3, <2>4
<1> QED BY <1>1, <1>3, <1>6, <1>7 DEF CatchInv, HasRead, IsGone

\* What the client will know, in every state.
LEMMA CatchInvariance == Spec => []CatchInv
<1>1. Init => CatchInv
  BY DEF Init, CatchInv, HasRead
<1>2. Shapes /\ EndInv /\ CatchInv /\ [Next]_vars => CatchInv'
  <2> SUFFICES ASSUME Shapes, EndInv, CatchInv, [Next]_vars PROVE CatchInv'
    OBVIOUS
  <2>1. CASE HandleCall
    BY <2>1, HandleCallTold, ToldKeepsUp DEF HandleCall, objectVars
  <2>2. CASE Authorized \/ Unauthorized \/ CallFails
    BY <2>2, AnswersTold, ToldKeepsUp DEF Authorized, Unauthorized, CallFails, daemonVars, objectVars
  <2>3. CASE Job
    <3>1. UNCHANGED <<alive, phase, mirror>>
      BY <2>3 DEF Job, JobStarts, JobAnnounces, JobPrompts, JobLeaves, JobExits, JobFinishes, JobGoesOn, objectVars
    <3> QED BY <2>3, <3>1, JobTold, ToldKeepsUp
  <2>4. CASE DaemonEnds
    <3> DEFINE ms == ToCaller(asking, "NoReply")
    <3>1. ms \in Seq(Messages) /\ OwnerGone \in Messages
      BY WordFacts, ReplyTellsNothing DEF Shapes, ReplyErrors, OwnerGone, Message, Messages
    <3>2. OwnerGone.what = "owner" /\ IsGone(OwnerGone) /\ "owner" \in AlreadyRead
      BY DEF OwnerGone, Message, IsGone, AlreadyRead
    <3>3. Send(<<OwnerGone>> \o ms) /\ ~alive' /\ phase' = phase
      BY <2>4 DEF DaemonEnds, objectVars
    <3> HIDE DEF ms, OwnerGone
    <3>4. /\ <<OwnerGone>> \o ms \in Seq(Messages) /\ 1 \in 1..Len(<<OwnerGone>> \o ms)
          /\ (<<OwnerGone>> \o ms)[1] = OwnerGone
      BY <3>1
    <3>5. CASE phase = "connected"
      <4>1. inbox' = inbox \o (<<OwnerGone>> \o ms) /\ inbox \in Seq(Messages)
        BY <3>3, <3>5 DEF Send, Shapes
      <4>2. Len(inbox) + 1 \in 1..Len(inbox') /\ inbox'[Len(inbox) + 1] = OwnerGone
        BY <3>4, <4>1
      <4> QED BY <3>2, <3>3, <3>5, <4>2 DEF CatchInv, IsGone
    <3>6. CASE phase # "connected"
      <4>1. missed' = missed \cup ({(<<OwnerGone>> \o ms)[i].what : i \in DOMAIN (<<OwnerGone>> \o ms)} \cap AlreadyRead)
        BY <3>3, <3>6 DEF Send
      <4>2. "owner" \in missed'
        BY <3>2, <3>4, <4>1
      <4> QED BY <3>3, <4>2 DEF CatchInv
    <3> QED BY <3>5, <3>6
  <2>5. CASE SyncBegins
    <3>1. phase = "new" /\ UNCHANGED <<alive, work, inbox>>
      BY <2>5 DEF SyncBegins, daemonVars
    <3>2. inbox = <<>> /\ (~alive => "owner" \in missed)
      BY <3>1 DEF EndInv, CatchInv
    <3>3. CASE phase' = "half"
      <4>1. /\ phase' = "half" /\ missed' = missed
            /\ mirror' = [p \in Property |-> IF p \in FirstHalf THEN work[p] ELSE Fresh[p]]
        BY <2>5, <3>3 DEF SyncBegins
      <4>2. ASSUME NEW p \in Announced \cap FirstHalf PROVE WillKnow(p)'
        <5>1. mirror'[p] = work[p]
          BY <4>1 DEF Announced
        <5> QED BY <3>1, <3>2, <5>1 DEF WillKnow, NoneOf
      <4> QED BY <3>1, <3>2, <4>1, <4>2 DEF CatchInv, HasRead
    <3>4. CASE phase' # "half"
      <4>1. missed' = missed \cup Property
        BY <2>5, <3>4 DEF SyncBegins
      <4> QED BY <3>1, <3>2, <4>1 DEF CatchInv, Announced
    <3> QED BY <3>3, <3>4
  <2>6. CASE SyncEnds
    <3>1. /\ phase = "half" /\ phase' = "synced" /\ UNCHANGED <<alive, work, inbox, missed>>
          /\ mirror' = [p \in Property |-> IF p \in FirstHalf THEN mirror[p] ELSE work[p]]
      BY <2>6 DEF SyncEnds, daemonVars
    <3>2. inbox = <<>> /\ (~alive => "owner" \in missed)
      BY <3>1 DEF EndInv, CatchInv
    <3>3. ASSUME alive, NEW p \in Announced \ missed PROVE WillKnow(p)'
      <4>1. p \in Property /\ "error" \in FirstHalf /\ "error" \in Property
        BY DEF Announced, FirstHalf, Property
      <4>2. CASE p \in FirstHalf
        <5>1. WillKnow(p)
          BY <3>1, <3>3, <4>2 DEF CatchInv, HasRead
        <5>2. mirror[p] = work[p] \/ (p = "error" /\ mirror.error = "AuthError")
          BY <3>2, <5>1 DEF WillKnow, LastIs
        <5>3. mirror'[p] = mirror[p] /\ mirror'.error = mirror.error
          BY <3>1, <4>1, <4>2
        <5>4. mirror'[p] = work'[p] \/ (p = "error" /\ mirror'.error = "AuthError")
          BY <3>1, <5>2, <5>3
        <5> QED BY <3>1, <3>2, <5>4 DEF WillKnow, NoneOf
      <4>3. CASE p \notin FirstHalf
        <5>1. mirror'[p] = work'[p]
          BY <3>1, <4>1, <4>3
        <5> QED BY <3>1, <3>2, <5>1 DEF WillKnow, NoneOf
      <4> QED BY <4>2, <4>3
    <3> QED BY <3>1, <3>2, <3>3 DEF CatchInv
  <2>7. CASE Connect
    <3>1. phase = "synced" /\ phase' = "connected" /\ UNCHANGED <<alive, work, inbox, mirror, missed>>
      BY <2>7 DEF Connect, daemonVars
    <3> QED BY <3>1 DEF CatchInv, HasRead, WillKnow, LastIs, NoneOf, IsOf
  <2>8. CASE Deliver
    BY <2>8, DeliverKnown
  <2>9. CASE CallTimesOut
    <3>1. PICK n \in awaiting : OnCallFinished(n, "NoReply")
      BY <2>9 DEF CallTimesOut
    <3>2. UNCHANGED <<alive, work, inbox, phase, missed>>
      BY <2>9 DEF CallTimesOut, daemonVars
    <3>3. /\ mirror'.exitStatus = mirror.exitStatus
          /\ \A p \in Property : mirror'[p] = mirror[p] \/ (p = "error" /\ mirror'.error = "AuthError")
          /\ mirror.error = "AuthError" => mirror'.error = "AuthError"
      BY <3>1, FailedKnown
    <3>4. ASSUME NEW p \in Announced, WillKnow(p) PROVE WillKnow(p)'
      BY <3>2, <3>3, <3>4 DEF WillKnow, LastIs, NoneOf, IsOf, Announced
    <3> QED BY <3>2, <3>3, <3>4 DEF CatchInv, HasRead, IsGone
  <2>10. CASE ClientChanges \/ ClientRuns \/ ClientAnswers
    BY <2>10, SameKnown DEF ClientChanges, ClientRuns, ClientAnswers, Call, daemonVars
  <2>11. CASE OtherRuns \/ OtherAnswers
    BY <2>11, SameKnown DEF OtherRuns, OtherAnswers, OtherCalls, daemonVars
  <2>12. CASE Unregister
    BY <2>12, SameKnown DEF Unregister, objectVars
  <2>13. CASE UNCHANGED vars
    BY <2>13, SameKnown DEF vars, daemonVars, objectVars
  <2> QED BY <2>1, <2>2, <2>3, <2>4, <2>5, <2>6, <2>7, <2>8, <2>9, <2>10, <2>11, <2>12, <2>13
          DEF Next, Daemon, Client, Other
<1> QED BY <1>1, <1>2, ClientShapes, EndInvariance, PTL DEF Spec

\* Once nothing is on its way, the client's members are the daemon's, except for what it
\* missed and for an error of a call of its own, and a client whose daemon is gone knows that.
THEOREM ClientCatchesUp == Spec => []CatchesUp
<1>1. CatchInv => CatchesUp
  <2> SUFFICES ASSUME CatchInv, phase = "connected", inbox = <<>> PROVE CatchesUp
    BY DEF CatchesUp
  <2>1. Announced \cap HasRead = Announced
    BY DEF HasRead, Announced
  <2>2. \A p : ~LastIs(inbox, p, work[p])
    BY DEF LastIs
  <2> QED BY <2>1, <2>2 DEF CatchInv, CatchesUp, WillKnow
<1> QED BY <1>1, CatchInvariance, PTL
=============================================================================
