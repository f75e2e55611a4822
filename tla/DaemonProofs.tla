---------------------------- MODULE DaemonProofs ----------------------------
(***************************************************************************)
(* Proofs about the daemon: its queue (TransactionQueue), for any set of   *)
(* transactions and any roles, and what its jobs report (JobProgress), for *)
(* any items and percentages, and children of any length.                  *)
(*                                                                         *)
(* Of the queue first the properties that hold under every timing, then,   *)
(* as far as no race disturbs the handover between the threads (InTime),   *)
(* that nothing is used after its deletion or underway at the daemon's     *)
(* decision to quit, and that it is a serial executor, and last, without   *)
(* a second run (Quiet), that statuses tell the truth.                     *)
(***************************************************************************)
EXTENDS TransactionQueue, JobProgress, SequenceTheorems, WellFoundedInduction, TLAPS

-----------------------------------------------------------------------------
(* The queue *)

(* Facts about the sequences behind QQueue and the posted calls *)


\* Append adds an element at the end and keeps a sequence free of repetitions.
LEMMA AppendFacts ==
  ASSUME NEW T, NEW s \in Seq(T), NEW e \in T
  PROVE  /\ Append(s, e) \in Seq(T)
         /\ Append(s, e) # <<>>
         /\ ToSet(Append(s, e)) = ToSet(s) \cup {e}
         /\ Head(Append(s, e)) = IF s = <<>> THEN e ELSE Head(s)
         /\ IsInjective(s) /\ e \notin ToSet(s) => IsInjective(Append(s, e))
<1> DEFINE r == Append(s, e)
<1>1. /\ r \in Seq(T) /\ r # <<>>
      /\ Len(r) = Len(s) + 1
      /\ \A i \in 1 .. Len(s) : r[i] = s[i]
      /\ r[Len(s) + 1] = e
  BY AppendProperties
<1>2. /\ DOMAIN r = 1 .. Len(r) /\ DOMAIN s = 1 .. Len(s)
      /\ Len(s) \in Nat
  BY <1>1, LenProperties
<1>3. ToSet(r) = ToSet(s) \cup {e}
  <2>1. ASSUME NEW x \in ToSet(r) PROVE x \in ToSet(s) \cup {e}
    BY <2>1, <1>1, <1>2 DEF ToSet
  <2>2. ASSUME NEW x \in ToSet(s) PROVE x \in ToSet(r)
    BY <2>2, <1>1, <1>2 DEF ToSet
  <2>3. e \in ToSet(r)
    BY <1>1, <1>2 DEF ToSet
  <2> QED BY <2>1, <2>2, <2>3
<1>4. Head(r) = IF s = <<>> THEN e ELSE Head(s)
  BY HeadTailAppend
<1>5. IsInjective(s) /\ e \notin ToSet(s) => IsInjective(r)
  BY <1>1, <1>2 DEF IsInjective, ToSet
<1> QED BY <1>1, <1>3, <1>4, <1>5

\* Taking the head off a sequence takes it out, once.
LEMMA TailFacts ==
  ASSUME NEW T, NEW s \in Seq(T), s # <<>>
  PROVE  /\ Head(s) \in ToSet(s) /\ Head(s) \in T
         /\ Tail(s) \in Seq(T)
         /\ ToSet(s) = ToSet(Tail(s)) \cup {Head(s)}
         /\ IsInjective(s) =>
              IsInjective(Tail(s)) /\ Head(s) \notin ToSet(Tail(s))
<1> DEFINE r == Tail(s)
<1>1. /\ r \in Seq(T) /\ Head(s) \in T /\ Head(s) = s[1]
      /\ Len(r) = Len(s) - 1
      /\ \A i \in 1 .. Len(r) : r[i] = s[i + 1]
  BY HeadTailProperties
<1>2. /\ DOMAIN r = 1 .. Len(r) /\ DOMAIN s = 1 .. Len(s)
      /\ Len(s) \in Nat \ {0}
  BY <1>1, LenProperties, EmptySeq
<1>3. Head(s) \in ToSet(s)
  BY <1>1, <1>2 DEF ToSet
<1>4. ToSet(s) = ToSet(r) \cup {Head(s)}
  <2>1. ASSUME NEW i \in 1 .. Len(s) PROVE s[i] \in ToSet(r) \cup {Head(s)}
    <3>1. CASE i = 1
      BY <3>1, <1>1
    <3>2. CASE i # 1
      <4>1. i - 1 \in 1 .. Len(r) /\ r[i - 1] = s[i]
        BY <3>2, <1>1, <1>2
      <4> QED BY <4>1, <1>2 DEF ToSet
    <3> QED BY <3>1, <3>2
  <2>2. ASSUME NEW x \in ToSet(r) PROVE x \in ToSet(s)
    BY <2>2, <1>1, <1>2 DEF ToSet
  <2> QED BY <2>1, <2>2, <1>2, <1>3 DEF ToSet
<1>5. IsInjective(s) => IsInjective(r) /\ Head(s) \notin ToSet(r)
  BY <1>1, <1>2 DEF IsInjective, ToSet
<1> QED BY <1>1, <1>3, <1>4, <1>5

\* RemoveAll yields a sequence, and removes the head as Tail does.
LEMMA RemoveAllFacts ==
  ASSUME NEW T, NEW s \in Seq(T), NEW t \in T
  PROVE  /\ RemoveAll(s, t) \in Seq(T)
         /\ t \notin ToSet(s) => RemoveAll(s, t) = s
         /\ s # <<>> /\ IsInjective(s) /\ t = Head(s) => RemoveAll(s, t) = Tail(s)
<1> DEFINE i == CHOOSE j \in DOMAIN s : s[j] = t
<1>1. t \notin ToSet(s) => RemoveAll(s, t) = s
  BY DEF RemoveAll
<1>2. RemoveAll(s, t) \in Seq(T)
  <2>1. CASE t \notin ToSet(s)
    BY <2>1 DEF RemoveAll
  <2>2. CASE t \in ToSet(s)
    <3>1. i \in 1 .. Len(s) /\ Len(s) \in Nat
      <4>1. \E j \in DOMAIN s : s[j] = t
        BY <2>2 DEF ToSet
      <4> QED BY <4>1, LenProperties
    <3>2. SubSeq(s, 1, i-1) \in Seq(T) /\ SubSeq(s, i+1, Len(s)) \in Seq(T)
      <4> HIDE DEF i
      <4>1. \A k \in 1 .. i-1 : s[k] \in T
        BY <3>1, ElementOfSeq
      <4>2. \A k \in i+1 .. Len(s) : s[k] \in T
        BY <3>1, ElementOfSeq
      <4> QED BY <3>1, <4>1, <4>2, SubSeqProperties
    <3>3. RemoveAt(s, i) \in Seq(T)
      BY <3>2, ConcatProperties DEF RemoveAt
    <3> QED BY <2>2, <3>3 DEF RemoveAll
  <2> QED BY <2>1, <2>2
<1>3. ASSUME s # <<>>, IsInjective(s), t = Head(s)
      PROVE  RemoveAll(s, t) = Tail(s)
  <2>1. 1 \in DOMAIN s /\ s[1] = t
    BY <1>3, LenProperties, EmptySeq
  <2>2. i \in DOMAIN s /\ s[i] = t
    BY <2>1
  <2>3. i = 1
    BY <2>1, <2>2, <1>3 DEF IsInjective
  <2>4. t \in ToSet(s)
    BY <2>1 DEF ToSet
  <2>5. RemoveAll(s, t) = RemoveAt(s, 1)
    BY <2>3, <2>4 DEF RemoveAll
  <2>6. RemoveAt(s, 1) = Tail(s)
    <3>1. SubSeq(s, 1, 0) = <<>>
      BY SubSeqEmpty
    <3>2. SubSeq(s, 2, Len(s)) = Tail(s) /\ Tail(s) \in Seq(T)
      BY <1>3, TailIsSubSeq, HeadTailProperties
    <3> QED BY <3>1, <3>2, ConcatEmptySeq DEF RemoveAt
  <2> QED BY <2>5, <2>6
<1> QED BY <1>1, <1>2, <1>3

-----------------------------------------------------------------------------
(* The inductive invariant *)

\* The two parts about the queue and the handover support each other: a run
\* of the head is harmless because only the head can have run, and a finished()
\* signal removes the head because only what has run finishes.
IInv == TypeOK /\ QueueSound /\ HandoverSound

\* It holds when the daemon starts.
LEMMA InitInv == Init => IInv
<1> SUFFICES ASSUME Init PROVE IInv
  OBVIOUS
<1>1. /\ queue \in Seq(Trans) /\ calls \in Seq(Trans)
      /\ finished \in Seq(Trans)
  BY DEF Init
<1>2. /\ status \in [Trans -> Status] /\ object \in [Trans -> Life]
      /\ runs \in [Trans -> Nat] /\ daemon \in Daemon
  BY DEF Init, Status, Life, Daemon
<1>3. TypeOK
  BY <1>1, <1>2 DEF Init, TypeOK
<1>4. ToSet(queue) = {} /\ ToSet(calls) = {} /\ ToSet(finished) = {}
  BY DEF Init, ToSet
<1>5. QueueSound
  BY <1>4 DEF Init, QueueSound, IsInjective
<1>6. HandoverSound
  BY <1>4 DEF Init, HandoverSound
<1> QED BY <1>3, <1>5, <1>6 DEF IInv

(* The steps that touch neither the queue nor anything posted. *)
LEMMA ElsewhereInv ==
  ASSUME IInv,
         UNCHANGED <<pending, queue, active, calls, finished, runs>>,
         TypeOK',
         \A t \in Trans : object'[t] = "none" <=> object[t] = "none",
         \/ UNCHANGED <<mTrans, wpc>>
         \/ wpc' \in {"starting", "idle", "cleared"}
  PROVE  IInv'
<1>1. ToSet(queue)' = ToSet(queue) /\ ToSet(calls)' = ToSet(calls) /\ ToSet(finished)' = ToSet(finished)
  BY DEF ToSet
<1>2. QueueSound'
  BY <1>1 DEF IInv, QueueSound, IsInjective
<1>3. HandoverSound'
  BY <1>1 DEF IInv, HandoverSound, TypeOK
<1> QED BY <1>2, <1>3 DEF IInv

\* An enqueue, which may dispatch the head as well.
LEMMA EnqueueInv ==
  ASSUME IInv, NEW t \in Trans, RunLocked(t), asking' \in Trans \cup {None}
  PROVE  IInv'
<1>1. CASE t \notin pending
  <2>1. TypeOK'
    BY <1>1 DEF IInv, TypeOK, RunLocked, Enqueue, SetStatus, Status,
                historyVars
  <2> QED
    BY <1>1, <2>1, ElsewhereInv DEF RunLocked, Enqueue, historyVars
<1>2. CASE t \in pending
  <2> DEFINE q == Append(queue, t)
  <2>1. /\ pending' = pending \ {t} /\ queue' = q
        /\ UNCHANGED <<finished, daemon, mTrans, wpc, aged, object, runs, rested>>
        /\ \/ active' = Head(q) /\ calls' = Append(calls, Head(q))
           \/ UNCHANGED <<active, calls>>
    BY <1>2 DEF RunLocked, Enqueue, RunNextTransaction, historyVars
  <2>2. /\ queue \in Seq(Trans) /\ calls \in Seq(Trans)
        /\ t \notin ToSet(queue) /\ runs[t] = 0 /\ object[t] # "none"
    BY <1>2 DEF IInv, TypeOK, QueueSound, HandoverSound
  <2>3. /\ q \in Seq(Trans) /\ q # <<>> /\ ToSet(q) = ToSet(queue) \cup {t}
        /\ Head(q) = (IF queue = <<>> THEN t ELSE Head(queue))
        /\ IsInjective(q)
    BY <2>2, AppendFacts DEF IInv, QueueSound
  <2>4. Head(q) \in Trans /\ Head(q) \in ToSet(q)
    BY <2>3, TailFacts
  <2>5. /\ calls' \in Seq(Trans)
        /\ \A c \in ToSet(calls') : c \in ToSet(calls) \/ c = Head(q)
    <3> HIDE DEF q
    <3>1. CASE calls' = Append(calls, Head(q))
      <4>1. /\ Append(calls, Head(q)) \in Seq(Trans)
            /\ ToSet(Append(calls, Head(q))) = ToSet(calls) \cup {Head(q)}
        BY <2>2, <2>4, AppendFacts
      <4> QED BY <3>1, <4>1
    <3>2. CASE calls' = calls
      BY <3>2, <2>2
    <3> QED BY <2>1, <3>1, <3>2
  <2>6. TypeOK'
    BY <2>1, <2>3, <2>4, <2>5 DEF IInv, TypeOK, RunLocked, SetStatus, Status
  <2>7. QueueSound'
    BY <2>1, <2>3, <2>4 DEF IInv, QueueSound
  <2>8. queue = <<>> => ToSet(queue) = {}
    BY DEF ToSet
  <2>9. HandoverSound'
    BY <2>1, <2>2, <2>3, <2>5, <2>8 DEF IInv, HandoverSound, TypeOK
  <2> QED BY <2>6, <2>7, <2>9 DEF IInv
<1> QED BY <1>1, <1>2

\* A finished() signal: the sender, the head if it is queued at all, leaves.
\* The next head is dispatched.
LEMMA FinishedInv ==
  ASSUME IInv, OnTransactionFinished
  PROVE  IInv'
<1> DEFINE t == Head(finished)
           rest == RemoveAll(queue, t)
<1>1. /\ finished # <<>> /\ finished' = Tail(finished) /\ queue' = rest
      /\ object' = IF t \in ToSet(queue)
                     THEN [object EXCEPT ![t] = "expiring"] ELSE object
      /\ IF rest # <<>>
           THEN active' = Head(rest) /\ calls' = Append(calls, Head(rest))
           ELSE /\ active' = IF t \in ToSet(queue) /\ active = t
                                THEN None ELSE active
                /\ UNCHANGED calls
      /\ daemon' = IF object[t] = "deleted" THEN "crashed" ELSE daemon
      /\ UNCHANGED <<pending, asking, mTrans, wpc, aged, status, idleTimer, runs, rested>>
  BY DEF OnTransactionFinished, RunNextTransaction, historyVars
<1>2. /\ t \in ToSet(finished) /\ t \in Trans /\ Tail(finished) \in Seq(Trans)
      /\ ToSet(Tail(finished)) \subseteq ToSet(finished)
  BY <1>1, TailFacts DEF IInv, TypeOK
<1>3. runs[t] > 0
  BY <1>2 DEF IInv, HandoverSound
<1>4. queue = <<>> => ToSet(queue) = {}
  BY DEF ToSet
<1>5. t \in ToSet(queue) => t = Head(queue) /\ queue # <<>>
  BY <1>3, <1>4 DEF IInv, HandoverSound
<1>6. /\ rest \in Seq(Trans) /\ IsInjective(rest)
      /\ ToSet(rest) = ToSet(queue) \ {t}
      /\ t \notin ToSet(queue) => rest = queue
  <2>1. CASE t \notin ToSet(queue)
    BY <2>1, <1>2, RemoveAllFacts DEF IInv, TypeOK, QueueSound
  <2>2. CASE t \in ToSet(queue)
    <3>1. rest = Tail(queue)
      BY <2>2, <1>2, <1>5, RemoveAllFacts DEF IInv, TypeOK, QueueSound
    <3>2. queue \in Seq(Trans) /\ queue # <<>> /\ IsInjective(queue)
      BY <2>2, <1>5 DEF IInv, TypeOK, QueueSound
    <3>3. /\ Tail(queue) \in Seq(Trans) /\ IsInjective(Tail(queue))
          /\ ToSet(queue) = ToSet(Tail(queue)) \cup {Head(queue)}
          /\ Head(queue) \notin ToSet(Tail(queue))
      BY <3>2, TailFacts
    <3> HIDE DEF rest, t
    <3> QED BY <2>2, <3>1, <3>3, <1>5
  <2> QED BY <2>1, <2>2
<1>7. /\ rest # <<>> => Head(rest) \in Trans /\ Head(rest) \in ToSet(rest)
      /\ rest = <<>> => ToSet(rest) = {}
  <2> HIDE DEF rest
  <2>1. ASSUME rest # <<>> PROVE Head(rest) \in Trans /\ Head(rest) \in ToSet(rest)
    BY <2>1, <1>6, TailFacts
  <2>2. ASSUME rest = <<>> PROVE ToSet(rest) = {}
    BY <2>2 DEF ToSet
  <2> QED BY <2>1, <2>2
<1>8. /\ calls' \in Seq(Trans)
      /\ \A c \in ToSet(calls') : c \in ToSet(calls) \/ (rest # <<>> /\ c = Head(rest))
  <2> HIDE DEF rest
  <2>1. calls \in Seq(Trans)
    BY DEF IInv, TypeOK
  <2>2. CASE rest # <<>>
    <3>1. /\ Append(calls, Head(rest)) \in Seq(Trans)
          /\ ToSet(Append(calls, Head(rest))) = ToSet(calls) \cup {Head(rest)}
      BY <2>1, <2>2, <1>7, AppendFacts
    <3>2. calls' = Append(calls, Head(rest))
      BY <2>2, <1>1
    <3> QED BY <2>2, <3>1, <3>2
  <2>3. CASE rest = <<>>
    BY <2>1, <2>3, <1>1
  <2> QED BY <2>2, <2>3
<1>9. TypeOK'
  <2>1. daemon' \in Daemon /\ object' \in [Trans -> Life]
    BY <1>1, <1>2 DEF IInv, TypeOK, Daemon, Life
  <2>2. active' \in Trans \cup {None}
    BY <1>1, <1>7 DEF IInv, TypeOK
  <2> QED BY <2>1, <2>2, <1>1, <1>2, <1>6, <1>8 DEF IInv, TypeOK
<1>10. QueueSound'
  <2>1. active' # None => active' \in ToSet(rest)
    BY <1>1, <1>6, <1>7 DEF IInv, QueueSound
  <2> QED BY <2>1, <1>1, <1>6 DEF IInv, QueueSound
<1>11. HandoverSound'
  <2>1. \A u \in ToSet(rest) : runs[u] > 0 => u = Head(rest)
    BY <1>6, <1>5 DEF IInv, HandoverSound
  <2>2. \A c \in ToSet(calls') : runs[c] = 0 => rest # <<>> /\ c = Head(rest)
    <3> SUFFICES ASSUME NEW c \in ToSet(calls), runs[c] = 0
                 PROVE  rest # <<>> /\ c = Head(rest)
      BY <1>8
    <3>1. queue # <<>> /\ c = Head(queue)
      BY DEF IInv, HandoverSound
    <3>2. t \notin ToSet(queue)
      BY <3>1, <1>3, <1>5
    <3> QED BY <3>1, <3>2, <1>6
  <2>3. \A u \in Trans : object'[u] = "none" <=> object[u] = "none"
    BY <1>1, <1>2, <1>5 DEF IInv, HandoverSound, TypeOK
  <2>4. \A u \in pending : runs[u] = 0 /\ object'[u] # "none"
    BY <2>3 DEF IInv, HandoverSound, TypeOK
  <2>5. \A u \in Trans : object'[u] = "none" => runs[u] = 0 /\ u \notin ToSet(rest)
    BY <2>3, <1>6 DEF IInv, HandoverSound
  <2> QED BY <2>1, <2>2, <2>4, <2>5, <1>1, <1>2 DEF IInv, HandoverSound
<1> QED BY <1>9, <1>10, <1>11 DEF IInv

(* The worker takes a call: the one step that starts a job. *)
LEMMA RunTransactionInv ==
  ASSUME IInv, RunTransaction
  PROVE  IInv'
<1> DEFINE t == Head(calls)
<1>1. /\ calls # <<>> /\ calls' = Tail(calls) /\ mTrans' = t /\ wpc' = "running"
      /\ runs' = [runs EXCEPT ![t] = @ + 1]
      /\ status' = [status EXCEPT ![t] = "Running"]
      /\ idleTimer' = idleTimer \ {t}
      /\ daemon' = IF object[t] = "deleted" THEN "crashed" ELSE daemon
      /\ aged' = FALSE /\ rested' = FALSE
      /\ UNCHANGED <<pending, queue, active, asking, finished, object>>
  BY DEF RunTransaction, SetStatus
<1>2. /\ t \in ToSet(calls) /\ t \in Trans /\ Tail(calls) \in Seq(Trans)
      /\ \A c \in ToSet(Tail(calls)) : c \in ToSet(calls)
  BY <1>1, TailFacts DEF IInv, TypeOK
<1>3. TypeOK'
  <2>1. /\ daemon' \in Daemon /\ runs' \in [Trans -> Nat]
        /\ status' \in [Trans -> Status]
    BY <1>1, <1>2 DEF IInv, TypeOK, Daemon, Status
  <2> QED BY <2>1, <1>1, <1>2 DEF IInv, TypeOK
<1>4. QueueSound'
  BY <1>1 DEF IInv, QueueSound
<1>5. HandoverSound'
  <2> HIDE DEF t
  <2>1. /\ runs'[t] > 0
        /\ \A u \in Trans : u # t => runs'[u] = runs[u]
        /\ \A u \in Trans : runs[u] > 0 => runs'[u] > 0
    BY <1>1, <1>2 DEF IInv, TypeOK
  <2>2. /\ ToSet(queue) \subseteq Trans /\ ToSet(finished) \subseteq Trans
        /\ ToSet(Tail(calls)) \subseteq Trans /\ pending \subseteq Trans
    <3>1. \A s \in Seq(Trans) : ToSet(s) \subseteq Trans
      BY LenProperties, ElementOfSeq DEF ToSet
    <3> QED BY <3>1, <1>2 DEF IInv, TypeOK
  <2>3. runs[t] = 0 => queue # <<>> /\ t = Head(queue) /\ t \in ToSet(queue)
    BY <1>2, TailFacts DEF IInv, HandoverSound, TypeOK
  <2>4. t \notin pending /\ object[t] # "none"
    <3>1. CASE runs[t] = 0
      BY <3>1, <2>3, <1>2 DEF IInv, HandoverSound, QueueSound
    <3>2. CASE runs[t] # 0
      BY <3>2, <1>2 DEF IInv, HandoverSound
    <3> QED BY <3>1, <3>2
  <2>5. \A u \in ToSet(queue) : runs'[u] > 0 => u = Head(queue)
    <3> SUFFICES ASSUME NEW u \in ToSet(queue), runs'[u] > 0
                 PROVE  u = Head(queue)
      OBVIOUS
    <3>1. CASE runs[u] > 0
      BY <3>1 DEF IInv, HandoverSound
    <3>2. CASE ~(runs[u] > 0)
      <4>1. u = t /\ runs[t] = 0
        BY <3>2, <2>1, <2>2 DEF IInv, TypeOK
      <4> QED BY <4>1, <2>3
    <3> QED BY <3>1, <3>2
  <2>6. \A c \in ToSet(Tail(calls)) :
          runs'[c] = 0 => queue # <<>> /\ c = Head(queue)
    <3> SUFFICES ASSUME NEW c \in ToSet(Tail(calls)), runs'[c] = 0
                 PROVE  queue # <<>> /\ c = Head(queue)
      OBVIOUS
    <3>1. c # t /\ runs[c] = 0
      BY <2>1, <2>2
    <3> QED BY <3>1, <1>2 DEF IInv, HandoverSound
  <2>7. \A u \in ToSet(finished) : runs'[u] > 0
    BY <2>1, <2>2 DEF IInv, HandoverSound
  <2>8. \A u \in pending : runs'[u] = 0 /\ object[u] # "none"
    BY <2>1, <2>2, <2>4 DEF IInv, HandoverSound
  <2>9. \A u \in Trans :
          object[u] = "none" => runs'[u] = 0 /\ u \notin ToSet(queue)
    BY <2>1, <2>4 DEF IInv, HandoverSound
  <2> QED
    BY <1>1, <1>2, <2>1, <2>5, <2>6, <2>7, <2>8, <2>9 DEF HandoverSound
<1> QED BY <1>3, <1>4, <1>5 DEF IInv

\* The end of a job posts a signal of a transaction that has run.
LEMMA SetExitStatusInv ==
  ASSUME IInv, SetExitStatus
  PROVE  IInv'
<1>1. /\ mTrans \in Trans /\ runs[mTrans] > 0 /\ finished \in Seq(Trans)
  BY DEF IInv, HandoverSound, TypeOK, SetExitStatus
<1>2. /\ finished' \in Seq(Trans)
      /\ ToSet(finished') = ToSet(finished) \cup {mTrans}
  BY <1>1, AppendFacts DEF SetExitStatus
<1>3. TypeOK'
  BY <1>1, <1>2 DEF IInv, TypeOK, SetExitStatus, SetStatus, Status, historyVars
<1>4. QueueSound'
  BY DEF IInv, QueueSound, SetExitStatus
<1>5. HandoverSound'
  BY <1>1, <1>2 DEF IInv, HandoverSound, SetExitStatus, historyVars
<1> QED BY <1>3, <1>4, <1>5 DEF IInv

\* A new transaction is pending.
LEMMA CreateInv ==
  ASSUME IInv, NEW t \in Trans, CreateTransaction(t)
  PROVE  IInv'
<1>1. /\ object[t] = "none" /\ t \notin ToSet(queue) /\ runs[t] = 0
  BY DEF IInv, HandoverSound, CreateTransaction
<1>2. TypeOK'
  BY DEF IInv, TypeOK, CreateTransaction, Life, workerVars, historyVars
<1>3. QueueSound'
  BY <1>1 DEF IInv, QueueSound, CreateTransaction
<1>4. HandoverSound'
  BY <1>1 DEF IInv, HandoverSound, TypeOK, CreateTransaction, workerVars,
              historyVars
<1> QED BY <1>2, <1>3, <1>4 DEF IInv

\* An expired one is not.
LEMMA IdleTimeoutInv ==
  ASSUME IInv, NEW t \in Trans, IdleTimeout(t)
  PROVE  IInv'
<1>1. TypeOK'
  BY DEF IInv, TypeOK, IdleTimeout, Life, workerVars, historyVars
<1>2. QueueSound'
  BY DEF IInv, QueueSound, IdleTimeout
<1>3. HandoverSound'
  BY DEF IInv, HandoverSound, TypeOK, IdleTimeout, workerVars, historyVars
<1> QED BY <1>1, <1>2, <1>3 DEF IInv

\* Every step keeps the invariant.
LEMMA NextInv == IInv /\ [Next]_vars => IInv'
<1> SUFFICES ASSUME IInv, [Next]_vars PROVE IInv'
  OBVIOUS
<1> USE DEF mainVars, workerVars, transVars, historyVars
<1>1. ASSUME NEW t \in Trans, Requests(t) \/ Answers(t) PROVE IInv'
  <2>1. CASE CreateTransaction(t)
    BY <2>1, CreateInv
  <2>2. CASE Run(t)
    <3>1. asking' \in Trans \cup {None}
      BY <2>2 DEF Run, IInv, TypeOK
    <3> QED BY <2>2, <3>1, EnqueueInv DEF Run
  <2>3. CASE RunAuthorize(t)
    <3>1. TypeOK'
      BY <2>3 DEF RunAuthorize, SetStatus, IInv, TypeOK, Status
    <3> QED BY <2>3, <3>1, ElsewhereInv DEF RunAuthorize
  <2>4. CASE AuthorizationGranted(t)
    <3>1. asking' \in Trans \cup {None}
      BY <2>4 DEF AuthorizationGranted
    <3> QED BY <2>4, <3>1, EnqueueInv DEF AuthorizationGranted
  <2>5. CASE AuthorizationDenied(t)
    <3>1. TypeOK'
      BY <2>5 DEF AuthorizationDenied, IInv, TypeOK
    <3> QED BY <2>5, <3>1, ElsewhereInv DEF AuthorizationDenied
  <2>6. CASE SetStatusProperty(t)
    <3>1. TypeOK'
      BY <2>6, ConstantsAssumption DEF SetStatusProperty, SetStatus, IInv, TypeOK
    <3> QED BY <2>6, <3>1, ElsewhereInv DEF SetStatusProperty
  <2> QED BY <1>1, <2>1, <2>2, <2>3, <2>4, <2>5, <2>6 DEF Requests, Answers
<1>2. CASE OnTransactionFinished
  BY <1>2, FinishedInv
<1>3. CASE CheckIdle \/ Quit \/ ThreadFinished
  <2>1. TypeOK'
    BY <1>3 DEF CheckIdle, Quit, ThreadFinished, IInv, TypeOK, Daemon
  <2> QED BY <1>3, <2>1, ElsewhereInv DEF CheckIdle, Quit, ThreadFinished
<1>4. ASSUME NEW t \in Trans, IdleTimeout(t) PROVE IInv'
  BY <1>4, IdleTimeoutInv
<1>5. ASSUME NEW t \in Trans, Delete(t) PROVE IInv'
  <2>1. TypeOK'
    BY <1>5 DEF Delete, IInv, TypeOK, Life, Daemon
  <2>2. \A u \in Trans : object'[u] = "none" <=> object[u] = "none"
    BY <1>5 DEF Delete, IInv, TypeOK
  <2> QED BY <1>5, <2>1, <2>2, ElsewhereInv DEF Delete
<1>6. CASE RunTransaction
  BY <1>6, RunTransactionInv
<1>7. CASE SetExitStatus
  BY <1>7, SetExitStatusInv
<1>8. CASE WorkerInit \/ ClearTransaction \/ StampActivity
  <2>1. TypeOK'
    BY <1>8 DEF WorkerInit, ClearTransaction, StampActivity, IInv, TypeOK
  <2> QED BY <1>8, <2>1, ElsewhereInv DEF WorkerInit, ClearTransaction, StampActivity
<1>9. CASE TimePasses
  <2>1. TypeOK'
    BY <1>9 DEF TimePasses, IInv, TypeOK
  <2> QED BY <1>9, <2>1, ElsewhereInv DEF TimePasses
<1>10. CASE UNCHANGED vars
  BY <1>10 DEF vars, IInv, TypeOK, QueueSound, HandoverSound
<1> QED
  BY <1>1, <1>2, <1>3, <1>4, <1>5, <1>6, <1>7, <1>8, <1>9, <1>10
  DEF Next, MainEvents, Worker

\* So it always holds.
LEMMA Invariance == Spec => []IInv
BY InitInv, NextInv, PTL DEF Spec

-----------------------------------------------------------------------------
\* Whatever the timing of the two threads, every variable keeps its type; so
\* nothing but a real transaction is ever queued, dispatched or announced.
THEOREM TypeCorrect == Spec => []TypeOK
BY Invariance, PTL DEF IInv

\* Whatever the timing, the queue has no transaction twice, none that is still
\* pending, and the active transaction announced is one of it (enqueue, remove).
THEOREM QueueAlwaysSound == Spec => []QueueSound
BY Invariance, PTL DEF IInv

\* Whatever the timing, the calls and signals between the threads are at most
\* late: they never concern a transaction behind the head of the queue.
THEOREM HandoverAlwaysSound == Spec => []HandoverSound
BY Invariance, PTL DEF IInv

\* Both together, whatever the timing: the bookkeeping of enqueue, remove,
\* removePending and onTransactionFinished is never at odds with the handover.
THEOREM QueueAlwaysConsistent == Spec => []QueueConsistent
BY QueueAlwaysSound, HandoverAlwaysSound, PTL DEF QueueConsistent

\* Whatever the timing, jobs start for the first time in queue order
\* (runNextTransaction takes the head, and the posted calls keep their order).
THEOREM FirstStartsInOrder == Spec => StartsInOrder
<1> DEFINE InOrder == \A t \in Trans :
      runs[t] = 0 /\ runs'[t] = 1 => queue # <<>> /\ t = Head(queue)
<1>1. ASSUME IInv, [Next]_vars PROVE [InOrder]_vars
  <2>1. CASE RunTransaction
    <3>1. Head(calls) \in ToSet(calls)
      BY <1>1, <2>1, TailFacts DEF RunTransaction, IInv, TypeOK
    <3>2. \A t \in Trans : runs[t] = 0 /\ runs'[t] = 1 => t = Head(calls)
      BY <1>1, <2>1 DEF RunTransaction, IInv, TypeOK
    <3> QED BY <1>1, <3>1, <3>2 DEF IInv, HandoverSound
  <2>2. CASE UNCHANGED runs
    BY <2>2
  <2>3. RunTransaction \/ UNCHANGED runs
    BY <1>1 DEF Next, Requests, Answers, MainEvents, Worker, vars, historyVars,
       CreateTransaction, Run, RunAuthorize, SetStatusProperty, AuthorizationGranted,
       AuthorizationDenied, RunLocked, IdleTimeout, Delete,
       OnTransactionFinished, CheckIdle, Quit, WorkerInit, SetExitStatus,
       ClearTransaction, StampActivity, ThreadFinished, TimePasses
  <2> QED BY <2>1, <2>2, <2>3
<1> QED BY <1>1, Invariance, PTL DEF Spec, StartsInOrder

-----------------------------------------------------------------------------
(* Without a race in the handover *)

\* The timings under which the threads never get out of step: whatever clients do, they
\* do not call run() in the middle of a handover, nor anything after the daemon has
\* decided to quit.
InTime == Races \subseteq {"rerun", "late", "denied", "timestamp", "setStatus"}

\* The steps of a handover: nothing queued, the head posted to the worker, the head
\* running, and its finished() signal on its way.
Idle    == queue = <<>> /\ calls = <<>> /\ finished = <<>> /\ wpc # "running"

Posted  == /\ queue # <<>> /\ calls = <<Head(queue)>> /\ finished = <<>>
           /\ wpc # "running" /\ runs[Head(queue)] = 0

Running == /\ queue # <<>> /\ calls = <<>> /\ finished = <<>>
           /\ wpc = "running" /\ mTrans = Head(queue) /\ runs[Head(queue)] > 0

Over    == /\ queue # <<>> /\ calls = <<>> /\ finished = <<Head(queue)>>
           /\ wpc \in {"emitted", "cleared", "idle"} /\ runs[Head(queue)] > 0

\* The threads are in step, who is pending or queued is alive and who is queued does not
\* expire, and a daemon that quits has nothing left.
Lockstep ==
  /\ Idle \/ Posted \/ Running \/ Over
  /\ mTrans = None <=> wpc \in {"starting", "idle", "cleared"}
  /\ \A t \in pending : object[t] = "alive"
  /\ \A t \in ToSet(queue) : object[t] = "alive" /\ t \notin idleTimer
  /\ daemon # "crashed"
  /\ daemon # "up" => queue = <<>> /\ pending = {} /\ asking = None

\* Sequences of one.
LEMMA OneFacts ==
  ASSUME NEW T, NEW e \in T
  PROVE  /\ Append(<<>>, e) = <<e>> /\ Head(<<e>>) = e /\ Tail(<<e>>) = <<>>
         /\ <<e>> # <<>> /\ ToSet(<<e>>) = {e} /\ ToSet(<<>>) = {}
BY DEF ToSet

\* Steps that leave the handover alone.
LEMMA SameStep ==
  ASSUME Lockstep, UNCHANGED <<queue, calls, finished, runs, pending, mTrans, wpc>>,
         \A t \in pending : object'[t] = "alive",
         \A t \in ToSet(queue) : object'[t] = "alive" /\ t \notin idleTimer',
         daemon' # "crashed",
         daemon' # "up" => queue = <<>> /\ pending = {} /\ asking' = None
  PROVE  Lockstep'
<1>1. ToSet(queue)' = ToSet(queue)
  BY DEF ToSet
<1>2. (Idle \/ Posted \/ Running \/ Over) => (Idle \/ Posted \/ Running \/ Over)'
  BY DEF Idle, Posted, Running, Over
<1> QED BY <1>1, <1>2 DEF Lockstep

\* What is queued is alive and of Trans.
LEMMA QueuedFacts ==
  ASSUME IInv, Lockstep
  PROVE  /\ queue # <<>> => Head(queue) \in Trans /\ Head(queue) \in ToSet(queue)
                            /\ object[Head(queue)] = "alive"
         /\ ToSet(queue) \subseteq Trans /\ (queue = <<>> => ToSet(queue) = {})
<1>1. queue \in Seq(Trans)
  BY DEF IInv, TypeOK
<1>2. queue # <<>> => Head(queue) \in Trans /\ Head(queue) \in ToSet(queue)
  BY <1>1, TailFacts
<1>3. ToSet(queue) \subseteq Trans
  BY <1>1, LenProperties, ElementOfSeq DEF ToSet
<1>4. queue = <<>> => ToSet(queue) = {}
  BY DEF ToSet
<1> QED BY <1>2, <1>3, <1>4 DEF Lockstep

\* An enqueue dispatches the head only if nothing else is underway.
LEMMA EnqueueStep ==
  ASSUME InTime, IInv, Lockstep, NEW t \in Trans, RunLocked(t), asking' = asking \/ asking' = None,
         daemon # "up" => t \notin pending
  PROVE  Lockstep'
<1>1. UNCHANGED <<finished, daemon, mTrans, wpc, object, runs>> /\ idleTimer' = idleTimer \ {t}
  BY DEF RunLocked, SetStatus, historyVars
<1>2. CASE t \notin pending
  <2>1. UNCHANGED <<pending, queue, calls>>
    BY <1>2 DEF RunLocked, Enqueue
  <2> QED BY <1>1, <2>1, SameStep DEF Lockstep
<1>3. CASE t \in pending
  <2> DEFINE q == Append(queue, t)
  <2>1. /\ Permitted(Window) /\ pending' = pending \ {t} /\ queue' = q
        /\ IF mTrans = None THEN calls' = Append(calls, Head(q)) ELSE calls' = calls
    BY <1>3 DEF RunLocked, Enqueue, RunNextTransaction
  <2>2. Window = "none"
    BY <2>1 DEF Permitted, InTime, Window
  <2>3. daemon = "up" /\ object[t] = "alive" /\ runs[t] = 0
    BY <1>3 DEF IInv, HandoverSound, Lockstep
  <2>4. /\ q # <<>> /\ ToSet(q) = ToSet(queue) \cup {t}
        /\ Head(q) = (IF queue = <<>> THEN t ELSE Head(queue))
    BY AppendFacts DEF IInv, TypeOK
  <2> HIDE DEF q
  <2>5. /\ \A u \in pending' : object'[u] = "alive"
        /\ \A u \in ToSet(q) : object'[u] = "alive" /\ u \notin idleTimer'
    BY <1>1, <2>1, <2>3, <2>4 DEF Lockstep
  <2>6. CASE mTrans = None
    <3>1. calls = <<>> /\ finished = <<>>
      BY <2>2, <2>6 DEF Window
    <3>2. Idle
      BY <2>6, <3>1 DEF Lockstep, Posted, Running, Over, Idle
    <3>3. calls' = <<Head(q)>> /\ Head(q) = t
      BY <2>1, <2>4, <2>6, <3>1, <3>2, OneFacts DEF Idle
    <3>4. Posted'
      BY <1>1, <2>1, <2>3, <2>4, <3>2, <3>3 DEF Posted, Idle
    <3> QED BY <1>1, <2>1, <2>3, <2>5, <3>4 DEF Lockstep
  <2>7. CASE mTrans # None
    <3>1. wpc = "running" \/ (wpc = "emitted" /\ ~(finished = <<>> /\ calls = <<>>))
      BY <2>2, <2>7 DEF Lockstep, Window, IInv, TypeOK
    <3>2. ~Idle
      BY <3>1 DEF Idle
    <3>3. queue # <<>>
      BY <3>2 DEF Lockstep, Posted, Running, Over
    <3>4. Head(q) = Head(queue) /\ calls' = calls
      BY <2>1, <2>4, <2>7, <3>3
    <3>5. (Posted \/ Running \/ Over)'
      BY <1>1, <2>1, <2>4, <3>2, <3>3, <3>4 DEF Lockstep, Posted, Running, Over
    <3> QED BY <1>1, <2>1, <2>3, <2>5, <3>5 DEF Lockstep
  <2> QED BY <2>6, <2>7
<1> QED BY <1>2, <1>3

\* The end of the head is handled, and the next one is posted.
LEMMA FinishedStep ==
  ASSUME IInv, Lockstep, OnTransactionFinished
  PROVE  Lockstep' /\ queue' = Tail(queue) /\ Over
<1>1. Over
  BY DEF Lockstep, Idle, Posted, Running, OnTransactionFinished
<1> DEFINE t == Head(queue)
           rest == Tail(queue)
<1>2. /\ queue # <<>> /\ calls = <<>> /\ finished = <<t>> /\ runs[t] > 0
      /\ wpc \in {"emitted", "cleared", "idle"}
  BY <1>1 DEF Over
<1>3. t \in Trans /\ t \in ToSet(queue) /\ object[t] = "alive" /\ ToSet(queue) \subseteq Trans
  BY <1>2, QueuedFacts
<1>4. Head(finished) = t /\ Tail(finished) = <<>>
  BY <1>2, <1>3, OneFacts
<1>5. /\ RemoveAll(queue, t) = rest /\ rest \in Seq(Trans)
      /\ ToSet(queue) = ToSet(rest) \cup {t} /\ t \notin ToSet(rest)
  BY <1>2, <1>3, RemoveAllFacts, TailFacts DEF IInv, TypeOK, QueueSound
<1> HIDE DEF t, rest
<1>6. /\ finished' = <<>> /\ queue' = rest
      /\ object' = [object EXCEPT ![t] = "expiring"]
      /\ rest # <<>> => calls' = Append(calls, Head(rest))
      /\ rest = <<>> => calls' = calls
      /\ daemon' = daemon
      /\ UNCHANGED <<pending, asking, mTrans, wpc, runs, idleTimer>>
  BY <1>3, <1>4, <1>5 DEF OnTransactionFinished, RunNextTransaction, historyVars
<1>7. rest # <<>> => Head(rest) \in ToSet(rest) /\ Head(rest) \in Trans
  BY <1>5, TailFacts
<1>8. Idle' \/ Posted'
  <2>1. CASE rest = <<>>
    BY <1>2, <1>6, <2>1 DEF Idle
  <2>2. CASE rest # <<>>
    <3>1. runs[Head(rest)] = 0
      <4>1. Head(rest) \in ToSet(queue) /\ Head(rest) # t
        BY <1>5, <1>7, <2>2
      <4>2. ~(runs[Head(rest)] > 0)
        BY <4>1 DEF IInv, HandoverSound, t
      <4> QED BY <1>7, <2>2, <4>2 DEF IInv, TypeOK
    <3>2. calls' = <<Head(rest)>>
      BY <1>2, <1>6, <1>7, <2>2, OneFacts
    <3> QED BY <1>2, <1>6, <2>2, <3>1, <3>2 DEF Posted
  <2> QED BY <2>1, <2>2
<1>9. \A u \in pending : object'[u] = "alive"
  BY <1>3, <1>6 DEF Lockstep, IInv, TypeOK, QueueSound
<1>10. \A u \in ToSet(rest) : object'[u] = "alive" /\ u \notin idleTimer
  BY <1>3, <1>5, <1>6 DEF Lockstep, IInv, TypeOK
<1>11. daemon = "up"
  BY <1>2 DEF Lockstep
<1> QED BY <1>1, <1>5, <1>6, <1>8, <1>9, <1>10, <1>11 DEF Lockstep, rest

\* The worker takes the head.
LEMMA RunTransactionStep ==
  ASSUME IInv, Lockstep, RunTransaction
  PROVE  Lockstep' /\ Posted /\ runs' = [runs EXCEPT ![Head(queue)] = @ + 1]
<1>1. Posted
  BY DEF Lockstep, Idle, Posted, Running, Over, RunTransaction
<1> DEFINE t == Head(queue)
<1>2. queue # <<>> /\ calls = <<t>> /\ finished = <<>> /\ runs[t] = 0
  BY <1>1 DEF Posted
<1>3. t \in Trans /\ object[t] = "alive"
  BY <1>2, QueuedFacts
<1>4. Head(calls) = t /\ Tail(calls) = <<>>
  BY <1>2, <1>3, OneFacts
<1> HIDE DEF t
<1>5. /\ calls' = <<>> /\ mTrans' = t /\ wpc' = "running"
      /\ runs' = [runs EXCEPT ![t] = @ + 1] /\ idleTimer' = idleTimer \ {t}
      /\ daemon' = daemon
      /\ UNCHANGED <<pending, queue, asking, finished, object>>
  BY <1>3, <1>4 DEF RunTransaction, SetStatus
<1>6. runs'[t] > 0
  BY <1>2, <1>3, <1>5 DEF IInv, TypeOK
<1>7. Running'
  BY <1>2, <1>5, <1>6 DEF Running, t
<1>8. t # None
  BY <1>3, ConstantsAssumption
<1>9. ToSet(queue)' = ToSet(queue)
  BY <1>5 DEF ToSet
<1> QED BY <1>1, <1>5, <1>7, <1>8, <1>9 DEF Lockstep, t

\* The head's end is announced.
LEMMA SetExitStatusStep ==
  ASSUME IInv, Lockstep, SetExitStatus
  PROVE  Lockstep' /\ Running
<1>1. Running
  BY DEF Lockstep, Idle, Posted, Running, Over, SetExitStatus
<1>2. /\ queue # <<>> /\ calls = <<>> /\ finished = <<>> /\ mTrans = Head(queue) /\ runs[mTrans] > 0
      /\ mTrans \in Trans
  BY <1>1, QueuedFacts DEF Running
<1>3. /\ finished' = <<Head(queue)>> /\ wpc' = "emitted" /\ idleTimer' = idleTimer \ {mTrans}
      /\ UNCHANGED <<pending, queue, asking, daemon, calls, mTrans, object, runs>>
  BY <1>2, OneFacts DEF SetExitStatus, SetStatus, historyVars
<1>4. Over'
  BY <1>2, <1>3 DEF Over
<1>5. mTrans # None
  BY <1>2, ConstantsAssumption
<1>6. ToSet(queue)' = ToSet(queue)
  BY <1>3 DEF ToSet
<1> QED BY <1>1, <1>3, <1>4, <1>5, <1>6 DEF Lockstep

\* The threads stay in step.
LEMMA LockstepNext ==
  ASSUME InTime, IInv, Lockstep, [Next]_vars
  PROVE  Lockstep'
<1> USE DEF mainVars, workerVars, transVars, historyVars
<1>1. ASSUME NEW t \in Trans, CreateTransaction(t) PROVE Lockstep'
  <2>1. daemon = "up" /\ object[t] = "none"
    BY <1>1 DEF CreateTransaction, Permitted, InTime
  <2>2. t \notin ToSet(queue)
    BY <2>1 DEF IInv, HandoverSound
  <2>3. /\ object' = [object EXCEPT ![t] = "alive"] /\ pending' = pending \cup {t}
        /\ idleTimer' = idleTimer \cup {t}
        /\ UNCHANGED <<queue, asking, finished, daemon, calls, mTrans, wpc, runs>>
    BY <1>1 DEF CreateTransaction
  <2>4. \A u \in Trans : u # t => object'[u] = object[u]
    BY <2>3 DEF IInv, TypeOK
  <2>5. \A u \in pending' : object'[u] = "alive"
    BY <2>3, <2>4 DEF Lockstep, IInv, TypeOK
  <2>6. \A u \in ToSet(queue) : object'[u] = "alive" /\ u \notin idleTimer'
    BY <2>2, <2>3, <2>4, QueuedFacts DEF Lockstep
  <2>7. ToSet(queue)' = ToSet(queue) /\ (Idle' <=> Idle) /\ (Posted' <=> Posted)
        /\ (Running' <=> Running) /\ (Over' <=> Over)
    BY <2>3 DEF ToSet, Idle, Posted, Running, Over
  <2> QED BY <2>1, <2>3, <2>5, <2>6, <2>7 DEF Lockstep
<1>2. ASSUME NEW t \in Trans, Run(t) \/ RunAuthorize(t) \/ AuthorizationGranted(t) \/ AuthorizationDenied(t)
      PROVE  Lockstep'
  <2>1. daemon = "up"
    <3>1. CASE Run(t) \/ RunAuthorize(t)
      BY <1>2, <3>1 DEF Run, RunAuthorize, RunRequested, Permitted, InTime
    <3>2. CASE AuthorizationGranted(t) \/ AuthorizationDenied(t)
      BY <1>2, <3>2, ConstantsAssumption DEF AuthorizationGranted, AuthorizationDenied, Lockstep
    <3> QED BY <1>2, <3>1, <3>2
  <2>2. CASE Run(t) \/ AuthorizationGranted(t)
    BY <2>1, <2>2, EnqueueStep DEF Run, AuthorizationGranted
  <2>3. CASE RunAuthorize(t)
    BY <2>1, <2>3, SameStep DEF RunAuthorize, SetStatus, Lockstep
  <2>4. CASE AuthorizationDenied(t)
    BY <2>1, <2>4, SameStep DEF AuthorizationDenied, Lockstep
  <2> QED BY <1>2, <2>2, <2>3, <2>4
<1>3. ASSUME NEW t \in Trans, IdleTimeout(t) PROVE Lockstep'
  <2>1. /\ t \in idleTimer /\ pending' = pending \ {t} /\ object' = [object EXCEPT ![t] = "removed"]
        /\ UNCHANGED <<queue, asking, finished, daemon, calls, mTrans, wpc, runs, idleTimer>>
    BY <1>3 DEF IdleTimeout
  <2>2. \A u \in Trans : u # t => object'[u] = object[u]
    BY <2>1 DEF IInv, TypeOK
  <2>3. t \notin ToSet(queue)
    BY <2>1 DEF Lockstep
  <2>4. \A u \in pending' : object'[u] = "alive"
    BY <2>1, <2>2 DEF Lockstep, IInv, TypeOK
  <2>5. \A u \in ToSet(queue) : object'[u] = "alive" /\ u \notin idleTimer'
    BY <2>1, <2>2, <2>3, QueuedFacts DEF Lockstep
  <2>6. ToSet(queue)' = ToSet(queue) /\ (Idle' <=> Idle) /\ (Posted' <=> Posted)
        /\ (Running' <=> Running) /\ (Over' <=> Over)
    BY <2>1 DEF ToSet, Idle, Posted, Running, Over
  <2> QED BY <2>1, <2>4, <2>5, <2>6 DEF Lockstep
<1>4. ASSUME NEW t \in Trans, Delete(t) PROVE Lockstep'
  <2>1. /\ object[t] \in {"removed", "expiring"} /\ ~(mTrans = t /\ wpc = "emitted")
        /\ object' = [object EXCEPT ![t] = "deleted"] /\ idleTimer' = idleTimer \ {t}
        /\ daemon' = IF mTrans = t THEN "crashed" ELSE daemon
        /\ UNCHANGED <<pending, queue, asking, finished, calls, mTrans, wpc, runs>>
    BY <1>4 DEF Delete
  <2>2. \A u \in Trans : u # t => object'[u] = object[u]
    BY <2>1 DEF IInv, TypeOK
  <2>3. t \notin ToSet(queue) /\ t \notin pending
    BY <2>1 DEF Lockstep
  <2>4. mTrans # t
    <3>1. CASE wpc = "running"
      BY <2>3, <3>1, QueuedFacts DEF Lockstep, Idle, Posted, Running, Over
    <3>2. CASE wpc = "emitted"
      BY <2>1, <3>2
    <3>3. CASE wpc \in {"starting", "idle", "cleared"}
      BY <3>3, ConstantsAssumption DEF Lockstep
    <3> QED BY <3>1, <3>2, <3>3 DEF IInv, TypeOK
  <2>5. \A u \in pending : object'[u] = "alive"
    BY <2>2, <2>3 DEF Lockstep, IInv, TypeOK
  <2>6. \A u \in ToSet(queue) : object'[u] = "alive" /\ u \notin idleTimer'
    BY <2>1, <2>2, <2>3, QueuedFacts DEF Lockstep
  <2> QED BY <2>1, <2>4, <2>5, <2>6, SameStep DEF Lockstep
<1>5. CASE OnTransactionFinished
  BY <1>5, FinishedStep
<1>6. CASE CheckIdle
  <2>1. queue = <<>> /\ pending = {} /\ asking = None
    BY <1>6 DEF CheckIdle, IsEmpty, MainFree
  <2> QED BY <1>6, <2>1, SameStep DEF CheckIdle, Lockstep
<1>7. CASE Quit \/ ThreadFinished
  BY <1>7, SameStep DEF Quit, ThreadFinished, Lockstep
<1>8. CASE RunTransaction
  BY <1>8, RunTransactionStep
<1>9. CASE SetExitStatus
  BY <1>9, SetExitStatusStep
<1>10. CASE WorkerInit \/ ClearTransaction \/ StampActivity
  <2>1. /\ UNCHANGED <<pending, queue, asking, finished, daemon, calls, object, idleTimer, runs>>
        /\ wpc # "running" /\ wpc' # "running"
        /\ wpc' \in {"idle", "cleared"} /\ (wpc = "emitted" => mTrans' = None)
        /\ wpc # "emitted" => mTrans' = mTrans /\ wpc \in {"starting", "cleared"}
    BY <1>10 DEF WorkerInit, ClearTransaction, StampActivity
  <2>2. ToSet(queue)' = ToSet(queue)
    BY <2>1 DEF ToSet
  <2>3. mTrans' = None
    BY <2>1 DEF Lockstep
  <2>4. Idle \/ Posted \/ Over
    BY <2>1 DEF Lockstep, Running
  <2>5. (Idle \/ Posted \/ Over)'
    BY <2>1, <2>4 DEF Idle, Posted, Over
  <2> QED BY <2>1, <2>2, <2>3, <2>5 DEF Lockstep
<1>11. CASE TimePasses \/ UNCHANGED vars
  BY <1>11, SameStep DEF TimePasses, vars, Lockstep
<1>12. ASSUME NEW t \in Trans, SetStatusProperty(t) PROVE Lockstep'
  <2>1. idleTimer' \subseteq idleTimer /\ UNCHANGED <<mainVars, workerVars, object, historyVars>>
    BY <1>12 DEF SetStatusProperty, SetStatus
  <2> QED BY <2>1, SameStep DEF Lockstep
<1> QED BY <1>1, <1>2, <1>3, <1>4, <1>5, <1>6, <1>7, <1>8, <1>9, <1>10, <1>11, <1>12
        DEF Next, Requests, Answers, MainEvents, Worker

\* The invariant of what is in time.
LEMMA LockstepInvariance ==
  ASSUME InTime
  PROVE  Spec => []Lockstep
<1>1. Init => Lockstep
  BY DEF Init, Lockstep, Idle, ToSet
<1>2. IInv /\ Lockstep /\ [Next]_vars => Lockstep'
  BY LockstepNext
<1> QED BY <1>1, <1>2, Invariance, PTL DEF Spec

\* Unless a run() request meets a handover, or any request the daemon's decision to quit,
\* no thread uses a transaction after its deletion: only what is neither pending nor
\* queued is deleted, and only what is queued is in use.
THEOREM NoUseAfterDeleteInTime ==
  ASSUME InTime
  PROVE  Spec => []NoUseAfterDelete
<1>1. Lockstep => NoUseAfterDelete
  BY DEF Lockstep, NoUseAfterDelete
<1> QED BY <1>1, LockstepInvariance, PTL

\* Then checkIdle, which looks at the queue, m_trans and a time stamp, never ends a worker
\* that has a runTransaction() call posted, nor leaves the end of a job unhandled: what is
\* posted between the threads belongs to the head of the queue.
THEOREM NothingUnderwayInTime ==
  ASSUME InTime
  PROVE  Spec => QuitsWithNothingUnderway
<1>1. ASSUME Lockstep, [Next]_vars, daemon = "up", daemon' = "quitting"
      PROVE  calls = <<>> /\ finished = <<>>
  <2>1. CheckIdle
    BY <1>1 DEF Next, Requests, Answers, MainEvents, Worker, vars, mainVars, workerVars, historyVars,
       CreateTransaction, Run, RunAuthorize, SetStatusProperty, AuthorizationGranted,
       AuthorizationDenied, RunLocked, IdleTimeout, Delete, OnTransactionFinished, Quit,
       WorkerInit, RunTransaction, SetExitStatus, ClearTransaction, StampActivity,
       ThreadFinished, TimePasses
  <2>2. queue = <<>>
    BY <2>1 DEF CheckIdle, IsEmpty
  <2> QED BY <1>1, <2>2 DEF Lockstep, Idle, Posted, Running, Over
<1>2. Lockstep /\ [Next]_vars
      => [daemon = "up" /\ daemon' = "quitting" => calls = <<>> /\ finished = <<>>]_vars
  BY <1>1
<1> QED BY <1>2, LockstepInvariance, PTL DEF Spec, QuitsWithNothingUnderway

\* And the two threads carry out what is submitted one by one, in order and each once:
\* every step is one of the serial executor or changes nothing of it.
THEOREM ExecutorIsImplemented ==
  ASSUME InTime
  PROVE  Spec => Executor!Spec
<1> DEFINE submitted == ToSet(queue) \cup {t \in Trans : runs[t] > 0}
           waiting   == IF queue # <<>> /\ runs[Head(queue)] > 0 THEN Tail(queue) ELSE queue
           current   == IF wpc = "running" THEN mTrans ELSE None
<1>1. Init => Executor!Init
  BY DEF Init, Executor!Init, ToSet
<1>2. ASSUME IInv, Lockstep, Lockstep', [Next]_vars
      PROVE  [Executor!Next]_(Executor!vars)
  <2>1. ASSUME UNCHANGED <<queue, runs>>, current' = current PROVE UNCHANGED Executor!vars
    BY <2>1 DEF Executor!vars, ToSet
  <2>2. ASSUME NEW t \in Trans, RunLocked(t) PROVE [Executor!Next]_(Executor!vars)
    <3>1. UNCHANGED <<mTrans, wpc, runs>>
      BY <2>2 DEF RunLocked, historyVars
    <3>2. CASE t \notin pending
      BY <2>1, <2>2, <3>1, <3>2 DEF RunLocked, Enqueue
    <3>3. CASE t \in pending
      <4>1. queue' = Append(queue, t) /\ runs[t] = 0 /\ t \notin ToSet(queue) /\ queue \in Seq(Trans)
        BY <1>2, <2>2, <3>3 DEF RunLocked, Enqueue, IInv, QueueSound, HandoverSound, TypeOK
      <4>2. t \notin submitted /\ submitted' = submitted \cup {t}
        <5>1. ToSet(Append(queue, t)) = ToSet(queue) \cup {t}
          BY <4>1, AppendFacts
        <5>2. ToSet(queue)' = ToSet(Append(queue, t))
          BY <4>1 DEF ToSet
        <5> QED BY <3>1, <4>1, <5>1, <5>2
      <4>3. waiting' = Append(waiting, t)
        <5>1. CASE queue = <<>>
          <6>1. queue' = <<t>> /\ Head(queue') = t
            BY <4>1, <5>1, OneFacts
          <6> QED BY <3>1, <4>1, <5>1, <6>1
        <5>2. CASE queue # <<>>
          <6>1. queue' # <<>> /\ Head(queue') = Head(queue) /\ Tail(queue') = Append(Tail(queue), t)
            BY <4>1, <5>2
          <6> QED BY <3>1, <4>1, <5>2, <6>1
        <5> QED BY <5>1, <5>2
      <4>4. current' = current
        BY <3>1
      <4>5. Executor!Submit(t)
        BY <4>2, <4>3, <4>4 DEF Executor!Submit
      <4> QED BY <4>5 DEF Executor!Next
    <3> QED BY <3>2, <3>3
  <2>3. CASE RunTransaction
    <3>1. Posted /\ runs' = [runs EXCEPT ![Head(queue)] = @ + 1]
      BY <1>2, <2>3, RunTransactionStep
    <3>2. /\ queue # <<>> /\ runs[Head(queue)] = 0 /\ Head(queue) \in Trans /\ Head(queue) \in ToSet(queue)
          /\ calls = <<Head(queue)>> /\ wpc = "idle"
      BY <1>2, <2>3, <3>1, QueuedFacts DEF Posted, RunTransaction
    <3>3. queue' = queue /\ mTrans' = Head(queue) /\ wpc' = "running"
      BY <2>3, <3>2, OneFacts DEF RunTransaction
    <3>4. runs'[Head(queue)] > 0 /\ \A t \in Trans : t # Head(queue) => runs'[t] = runs[t]
      BY <1>2, <3>1, <3>2 DEF IInv, TypeOK
    <3>5. submitted' = submitted
      <4>1. ToSet(queue)' = ToSet(queue)
        BY <3>3 DEF ToSet
      <4> QED BY <3>2, <3>4, <4>1
    <3>6. waiting = queue /\ waiting' = Tail(queue) /\ current = None /\ current' = Head(queue)
      BY <3>2, <3>3, <3>4
    <3>7. Executor!Begin
      BY <3>2, <3>5, <3>6 DEF Executor!Begin
    <3> QED BY <3>7 DEF Executor!Next
  <2>4. CASE SetExitStatus
    <3>1. Running /\ wpc = "running" /\ wpc' = "emitted" /\ UNCHANGED <<queue, runs>>
      BY <1>2, <2>4, SetExitStatusStep DEF SetExitStatus, historyVars
    <3>2. current = mTrans /\ current' = None
      BY <3>1
    <3>3. mTrans # None
      BY <1>2, <3>1, QueuedFacts, ConstantsAssumption DEF Running
    <3>4. submitted' = submitted /\ waiting' = waiting
      BY <3>1 DEF ToSet
    <3>5. Executor!End
      BY <3>2, <3>3, <3>4 DEF Executor!End
    <3> QED BY <3>5 DEF Executor!Next
  <2>5. CASE OnTransactionFinished
    <3>1. Over /\ queue' = Tail(queue) /\ UNCHANGED <<runs, wpc, mTrans>>
      BY <1>2, <2>5, FinishedStep DEF OnTransactionFinished, historyVars
    <3>2. /\ queue # <<>> /\ runs[Head(queue)] > 0 /\ Head(queue) \in Trans
          /\ queue \in Seq(Trans) /\ IsInjective(queue)
      BY <1>2, <3>1, QueuedFacts DEF Over, IInv, TypeOK, QueueSound
    <3>3. /\ ToSet(queue) = ToSet(Tail(queue)) \cup {Head(queue)} /\ Head(queue) \notin ToSet(Tail(queue))
          /\ Tail(queue) \in Seq(Trans)
      BY <3>2, TailFacts
    <3>4. Tail(queue) # <<>> => ~(runs[Head(Tail(queue))] > 0)
      <4>1. Tail(queue) # <<>> => Head(Tail(queue)) \in ToSet(Tail(queue))
        BY <3>3, TailFacts
      <4> QED BY <1>2, <3>3, <4>1 DEF IInv, HandoverSound
    <3>5. waiting' = waiting /\ current' = current
      BY <3>1, <3>2, <3>4
    <3>6. submitted' = submitted
      <4>1. ToSet(queue)' = ToSet(Tail(queue))
        BY <3>1 DEF ToSet
      <4> QED BY <3>1, <3>2, <3>3, <4>1
    <3> QED BY <3>5, <3>6 DEF Executor!vars
  <2>6. CASE ClearTransaction
    BY <2>1, <2>6 DEF ClearTransaction, mainVars, historyVars
  <2>7. CASE WorkerInit \/ StampActivity
    BY <2>1, <2>7 DEF WorkerInit, StampActivity, mainVars, historyVars
  <2>8. ASSUME NEW t \in Trans,
               \/ CreateTransaction(t) \/ RunAuthorize(t) \/ AuthorizationDenied(t)
               \/ IdleTimeout(t) \/ Delete(t) \/ SetStatusProperty(t)
        PROVE  UNCHANGED Executor!vars
    BY <2>1, <2>8 DEF CreateTransaction, RunAuthorize, AuthorizationDenied, IdleTimeout, Delete,
                      SetStatusProperty, mainVars, workerVars, historyVars
  <2>9. CASE CheckIdle \/ Quit \/ ThreadFinished \/ TimePasses \/ UNCHANGED vars
    BY <2>1, <2>9 DEF CheckIdle, Quit, ThreadFinished, TimePasses, vars, mainVars, workerVars, historyVars
  <2> QED BY <1>2, <2>2, <2>3, <2>4, <2>5, <2>6, <2>7, <2>8, <2>9
          DEF Next, Requests, Answers, MainEvents, Worker, Run, AuthorizationGranted
<1>3. Spec => [](IInv /\ Lockstep)
  BY Invariance, LockstepInvariance, PTL
<1> QED BY <1>1, <1>2, <1>3, PTL DEF Spec, Executor!Spec

-----------------------------------------------------------------------------
(* Without a second run *)

\* In addition, no transaction is run after its first run or its expiry.
Quiet == Races \subseteq {"denied", "timestamp"}

\* Statuses tell the truth: only what has run has finished, what waits is queued, and
\* an authorization is asked for a pending transaction.
Truthful ==
  /\ asking # None => asking \in pending
  /\ \A t \in Trans : status[t] = "Finished" => runs[t] > 0
  /\ \A t \in Trans : status[t] = "Waiting" => t \in ToSet(queue)
  /\ finished # <<>> => status[Head(queue)] = "Finished"

\* Steps that change no status, and no membership.
LEMMA SameTruth ==
  ASSUME Truthful, UNCHANGED <<queue, finished, runs>>, UNCHANGED status,
         asking' = None \/ (asking' = asking /\ pending \subseteq pending')
  PROVE  Truthful'
<1>1. ToSet(queue)' = ToSet(queue)
  BY DEF ToSet
<1> QED BY <1>1 DEF Truthful

\* A status other than Finished is only set for what has not finished.
LEMMA QuietNext ==
  ASSUME Quiet, IInv, Lockstep, Truthful, [Next]_vars
  PROVE  /\ Truthful'
         /\ \A t \in Trans : status[t] = "Finished" => status'[t] = "Finished"
<1> USE DEF mainVars, workerVars, transVars, historyVars
<1>a. \A u \in pending : runs[u] = 0 /\ u \in Trans /\ u \notin ToSet(queue)
  BY DEF IInv, HandoverSound, QueueSound, TypeOK
<1>b. queue = <<>> => finished = <<>>
  BY DEF Lockstep, Idle, Posted, Running, Over
<1>c. queue # <<>> => Head(queue) \in ToSet(queue)
  BY QueuedFacts DEF IInv
<1>1. ASSUME NEW t \in Trans, t \in pending, RunLocked(t), asking' = None
      PROVE  Truthful' /\ \A u \in Trans : status[u] = "Finished" => status'[u] = "Finished"
  <2>1. /\ queue' = Append(queue, t) /\ UNCHANGED <<finished, runs>>
        /\ status' = [status EXCEPT ![t] = "Waiting"]
    BY <1>1 DEF RunLocked, Enqueue, SetStatus
  <2>2. /\ ToSet(Append(queue, t)) = ToSet(queue) \cup {t}
        /\ queue # <<>> => Head(Append(queue, t)) = Head(queue)
    BY AppendFacts DEF IInv, TypeOK
  <2>3. ToSet(queue)' = ToSet(queue) \cup {t}
    BY <2>1, <2>2 DEF ToSet
  <2>4. status[t] # "Finished" /\ t \notin ToSet(queue)
    BY <1>1, <1>a DEF Truthful
  <2>5. status'[t] = "Waiting" /\ \A u \in Trans : u # t => status'[u] = status[u]
    BY <2>1 DEF IInv, TypeOK
  <2>6. finished' # <<>> => status'[Head(queue')] = "Finished"
    <3> SUFFICES ASSUME finished # <<>> PROVE status'[Head(queue')] = "Finished"
      BY <2>1
    <3>1. queue # <<>> /\ Head(queue) # t /\ Head(queue) \in Trans
      BY <1>b, <1>c, <2>4, QueuedFacts
    <3> QED BY <2>1, <2>2, <2>5, <3>1 DEF Truthful
  <2> QED BY <1>1, <2>1, <2>3, <2>4, <2>5, <2>6 DEF Truthful
<1>2. ASSUME NEW t \in Trans, Requests(t) \/ Answers(t)
      PROVE  Truthful' /\ \A u \in Trans : status[u] = "Finished" => status'[u] = "Finished"
  <2>1. CASE CreateTransaction(t)
    BY <2>1, SameTruth DEF CreateTransaction
  <2>2. RunRequested(t) => t \in pending /\ asking = None
    BY DEF RunRequested, Permitted, Quiet, MainFree
  <2>3. CASE Run(t)
    BY <1>1, <2>2, <2>3 DEF Run
  <2>4. CASE RunAuthorize(t)
    <3>1. /\ t \in pending /\ asking' = t /\ status' = [status EXCEPT ![t] = "Authentication"]
          /\ UNCHANGED <<pending, queue, finished, runs>>
      BY <2>2, <2>4 DEF RunAuthorize, SetStatus
    <3>2. status[t] # "Finished" /\ t \notin ToSet(queue)
      BY <1>a, <3>1 DEF Truthful
    <3>3. \A u \in Trans : u # t => status'[u] = status[u]
      BY <3>1 DEF IInv, TypeOK
    <3>4. status'[t] = "Authentication"
      BY <3>1 DEF IInv, TypeOK
    <3>5. finished' # <<>> => status'[Head(queue')] = "Finished"
      BY <1>b, <1>c, <3>1, <3>2, <3>3, QueuedFacts DEF Truthful
    <3>6. ToSet(queue)' = ToSet(queue)
      BY <3>1 DEF ToSet
    <3> QED BY <3>1, <3>2, <3>3, <3>4, <3>5, <3>6 DEF Truthful
  <2>5. CASE AuthorizationGranted(t)
    <3>1. t \in pending /\ RunLocked(t) /\ asking' = None
      BY <2>5, ConstantsAssumption DEF AuthorizationGranted, Truthful
    <3> QED BY <1>1, <3>1
  <2>6. CASE AuthorizationDenied(t)
    BY <2>6, SameTruth DEF AuthorizationDenied
  <2> QED BY <1>2, <2>1, <2>3, <2>4, <2>5, <2>6 DEF Requests, Answers, SetStatusProperty, Permitted, Quiet
<1>3. ASSUME NEW t \in Trans, IdleTimeout(t) \/ Delete(t)
      PROVE  Truthful' /\ \A u \in Trans : status[u] = "Finished" => status'[u] = "Finished"
  BY <1>3, SameTruth DEF IdleTimeout, Delete, MainFree
<1>4. CASE OnTransactionFinished
  <2>1. Over /\ queue' = Tail(queue) /\ UNCHANGED <<pending, asking, status, runs>> /\ finished' = Tail(finished)
    BY <1>4, FinishedStep DEF OnTransactionFinished
  <2>2. queue # <<>> /\ finished = <<Head(queue)>> /\ Head(queue) \in Trans
    BY <2>1, QueuedFacts DEF Over
  <2>3. finished' = <<>> /\ status[Head(queue)] = "Finished"
    BY <2>1, <2>2, OneFacts DEF Truthful
  <2>4. ToSet(queue) = ToSet(Tail(queue)) \cup {Head(queue)}
    BY <2>2, TailFacts DEF IInv, TypeOK
  <2>5. ToSet(queue)' = ToSet(Tail(queue))
    BY <2>1 DEF ToSet
  <2> QED BY <2>1, <2>3, <2>4, <2>5 DEF Truthful
<1>5. CASE RunTransaction
  <2>1. Posted /\ runs' = [runs EXCEPT ![Head(queue)] = @ + 1]
    BY <1>5, RunTransactionStep
  <2>2. queue # <<>> /\ Head(queue) \in Trans /\ runs[Head(queue)] = 0 /\ calls = <<Head(queue)>> /\ finished = <<>>
    BY <2>1, QueuedFacts DEF Posted
  <2>3. /\ status' = [status EXCEPT ![Head(queue)] = "Running"]
        /\ UNCHANGED <<pending, queue, asking, finished>>
    BY <1>5, <2>2, OneFacts DEF RunTransaction, SetStatus
  <2>4. /\ status'[Head(queue)] = "Running" /\ status[Head(queue)] # "Finished"
        /\ \A u \in Trans : u # Head(queue) => status'[u] = status[u] /\ runs'[u] = runs[u]
    BY <2>1, <2>2, <2>3 DEF IInv, TypeOK, Truthful
  <2>5. ToSet(queue)' = ToSet(queue)
    BY <2>3 DEF ToSet
  <2> QED BY <2>2, <2>3, <2>4, <2>5 DEF Truthful
<1>6. CASE SetExitStatus
  <2>1. Running /\ mTrans \in Trans /\ mTrans = Head(queue) /\ runs[mTrans] > 0
    BY <1>6, SetExitStatusStep, QueuedFacts DEF Running
  <2>2. /\ status' = [status EXCEPT ![mTrans] = "Finished"]
        /\ UNCHANGED <<pending, queue, asking, runs>>
    BY <1>6 DEF SetExitStatus, SetStatus
  <2>3. status'[mTrans] = "Finished" /\ \A u \in Trans : u # mTrans => status'[u] = status[u]
    BY <2>1, <2>2 DEF IInv, TypeOK
  <2>4. ToSet(queue)' = ToSet(queue)
    BY <2>2 DEF ToSet
  <2> QED BY <2>1, <2>2, <2>3, <2>4 DEF Truthful
<1>7. CASE \/ CheckIdle \/ Quit \/ ThreadFinished \/ WorkerInit \/ ClearTransaction
           \/ StampActivity \/ TimePasses \/ UNCHANGED vars
  BY <1>7, SameTruth DEF CheckIdle, Quit, ThreadFinished, WorkerInit, ClearTransaction,
                         StampActivity, TimePasses, vars
<1> QED BY <1>2, <1>3, <1>4, <1>5, <1>6, <1>7 DEF Next, MainEvents, Worker

\* The invariant of true statuses.
LEMMA TruthInvariance ==
  ASSUME Quiet
  PROVE  Spec => []Truthful
<1>1. Init => Truthful
  BY DEF Init, Truthful
<1>2. InTime
  BY DEF Quiet, InTime
<1>3. IInv /\ Lockstep /\ Truthful /\ [Next]_vars => Truthful'
  BY QuietNext
<1>4. Spec => []Lockstep
  BY <1>2, LockstepInvariance
<1> QED BY <1>1, <1>3, <1>4, Invariance, PTL DEF Spec

\* Unless run() meets a handover or comes a second time, a transaction whose status says
\* that it waits in the queue is there.
THEOREM WaitingIsQueuedQuietly ==
  ASSUME Quiet
  PROVE  Spec => []WaitingIsQueued
<1>1. Truthful => WaitingIsQueued
  BY DEF Truthful, WaitingIsQueued
<1> QED BY <1>1, TruthInvariance, PTL

\* Nor is a transaction that has finished ever seen in another status again.
THEOREM CompletionIsFinalQuietly ==
  ASSUME Quiet
  PROVE  Spec => CompletionIsFinal
<1>1. IInv /\ Lockstep /\ Truthful /\ [Next]_vars =>
        [\A t \in Trans : status[t] = "Finished" => status'[t] = "Finished"]_vars
  BY QuietNext
<1>2. InTime
  BY DEF Quiet, InTime
<1>3. Spec => []Lockstep
  BY <1>2, LockstepInvariance
<1> QED BY <1>1, <1>3, Invariance, TruthInvariance, PTL DEF Spec, CompletionIsFinal

\* A worker that is idle and whose time stamp is old has rested.
Stamped == aged /\ wpc \in {"starting", "idle"} => rested

\* Unless checkIdle meets the worker between the two halves of its cleanup, the daemon
\* only quits when the worker has rested, whatever else races.
THEOREM QuitsOnlyWhenRestedStamped ==
  ASSUME "timestamp" \notin Races
  PROVE  Spec => QuitsOnlyWhenRested
<1>1. Init => Stamped
  BY DEF Init, Stamped
<1>2. ASSUME Stamped, [Next]_vars PROVE Stamped'
  <2> USE DEF mainVars, workerVars, transVars, historyVars
  <2>1. CASE UNCHANGED <<aged, wpc, rested>>
    BY <1>2, <2>1 DEF Stamped
  <2>2. CASE RunTransaction \/ StampActivity \/ TimePasses \/ WorkerInit
    BY <1>2, <2>2 DEF Stamped, RunTransaction, StampActivity, TimePasses, WorkerInit
  <2>3. CASE SetExitStatus \/ ClearTransaction
    BY <1>2, <2>3 DEF Stamped, SetExitStatus, ClearTransaction
  <2>4. UNCHANGED <<aged, wpc, rested>> \/ RunTransaction \/ StampActivity \/ TimePasses
          \/ WorkerInit \/ SetExitStatus \/ ClearTransaction
    BY <1>2 DEF Next, Requests, Answers, MainEvents, Worker, vars, CreateTransaction, Run, RunAuthorize, SetStatusProperty,
       AuthorizationGranted, AuthorizationDenied, RunLocked, IdleTimeout, Delete,
       OnTransactionFinished, CheckIdle, Quit, ThreadFinished
  <2> QED BY <2>1, <2>2, <2>3, <2>4
<1>3. ASSUME IInv, Stamped, [Next]_vars
      PROVE  [daemon = "up" /\ daemon' = "quitting" => rested]_vars
  <2>1. CASE CheckIdle
    <3>1. aged /\ mTrans = None /\ wpc # "cleared"
      BY <2>1 DEF CheckIdle, Permitted
    <3>2. wpc \in {"starting", "idle"}
      BY <1>3, <3>1, ConstantsAssumption DEF IInv, HandoverSound, TypeOK
    <3> QED BY <1>3, <3>1, <3>2 DEF Stamped
  <2>2. ASSUME ~CheckIdle, daemon = "up" PROVE daemon' # "quitting"
    BY <1>3, <2>2 DEF Next, Requests, Answers, MainEvents, Worker, vars, mainVars, workerVars,
       transVars, historyVars, CreateTransaction, Run, RunAuthorize, SetStatusProperty, AuthorizationGranted,
       AuthorizationDenied, RunLocked, IdleTimeout, Delete, OnTransactionFinished, Quit,
       ThreadFinished, WorkerInit, RunTransaction, SetExitStatus, ClearTransaction,
       StampActivity, TimePasses
  <2> QED BY <2>1, <2>2
<1> QED BY <1>1, <1>2, <1>3, Invariance, PTL DEF Spec, QuitsOnlyWhenRested

-----------------------------------------------------------------------------
(* What jobs report *)

Phases == {"open", "fetch", "install", "reopen", "over"}

Lines == [kind : Kinds, percent : Percents]

\* The types that the proofs need.
TypeInv ==
  /\ role \in Roles /\ phase \in Phases
  /\ peak \in 0..100 /\ percent \in 0..100
  /\ steps \in 0..4 /\ last \in 0..100
  /\ pipe \in Seq(Lines)
  /\ item \in [Items -> {"idle", "fetching"} \cup Finished]
  /\ DOMAIN shown = Items

-----------------------------------------------------------------------------
(* Arithmetic *)

\* Rounding keeps the order, and whole numbers.
LEMMA RoundedFacts ==
  ASSUME NEW a \in Nat, NEW b \in Nat
  PROVE  /\ Rounded(a, 100) \in Nat /\ Rounded(a, 400) \in Nat
         /\ a <= b => Rounded(a, 100) <= Rounded(b, 100) /\ Rounded(a, 400) <= Rounded(b, 400)
         /\ Rounded(100 * a, 100) = a /\ Rounded(400 * a, 400) = a
BY DEF Rounded

\* Percentages are ordered.
LEMMA LeqTransitive ==
  ASSUME NEW a \in 0..100, NEW b \in 0..100, NEW c \in 0..100, a <= b, b <= c
  PROVE  a <= c
OBVIOUS

\* The share of a percentage lies in the phase's part of the scale, and grows with it.
LEMMA ShareFacts ==
  ASSUME role \in Roles, phase \in {"fetch", "install"}, NEW p \in 0..100, NEW q \in 0..100
  PROVE  /\ Share(p) \in Begin..End
         /\ p <= q => Share(p) <= Share(q)
<1>1. Begin \in Nat /\ End \in Nat /\ Begin <= End
  BY DEF Begin, End, Roles
<1> DEFINE w == End - Begin
           V(x) == 100 * Begin + x * w
<1>2. w \in Nat
  BY <1>1
<1>3. Begin + w = End
  BY <1>1
<1>4. p * w \in Nat /\ q * w \in Nat /\ p * w <= 100 * w /\ (p <= q => p * w <= q * w)
  BY <1>2, SMT
<1>5. /\ V(p) \in Nat /\ V(q) \in Nat /\ 100 * Begin <= V(p) /\ V(p) <= 100 * End
      /\ p <= q => V(p) <= V(q)
  <2> HIDE DEF w
  <2> QED BY <1>1, <1>2, <1>3, <1>4
<1>6. Share(p) = Rounded(V(p), 100) /\ Share(q) = Rounded(V(q), 100)
  BY DEF Share
<1> HIDE DEF V
<1>7. Rounded(100 * Begin, 100) = Begin /\ Rounded(100 * End, 100) = End
  BY <1>1, RoundedFacts
<1>8. 100 * Begin \in Nat /\ 100 * End \in Nat
  BY <1>1
<1>9. Rounded(100 * Begin, 100) <= Rounded(V(p), 100) /\ Rounded(V(p), 100) <= Rounded(100 * End, 100)
  BY <1>5, <1>8, RoundedFacts
<1> QED BY <1>1, <1>5, <1>6, <1>7, <1>9, RoundedFacts

\* A step's share lies in the phase's part of the scale, grows with the percentage, and
\* does not end behind the beginning of the next step.
LEMMA StepShareFacts ==
  ASSUME phase \in {"open", "reopen"}, NEW k \in 0..4, NEW p \in 0..100, NEW q \in 0..100
  PROVE  /\ StepShare(k, p) \in Begin..End
         /\ p <= q => StepShare(k, p) <= StepShare(k, q)
         /\ k < 4 => StepShare(k, p) <= StepShare(k + 1, 0)
<1> DEFINE b == Begin
           w == End - Begin
           Quarters(j) == IF j < 4 THEN j ELSE 4
           V(j, x) == 400 * b + 100 * (w * Quarters(j)) + x * (w * Quarters(j + 1) - w * Quarters(j))
<1>1. b \in Nat /\ w \in {4, 5} /\ Begin = b /\ End = b + w
  BY DEF Begin, End
<1> HIDE DEF b, w
<1>2. ASSUME NEW j \in 0..4, NEW x \in 0..100
      PROVE  StepShare(j, x) = Rounded(V(j, x), 400)
  <2>1. Mark(j) = 4 * b + w * Quarters(j) /\ Mark(j + 1) = 4 * b + w * Quarters(j + 1)
    BY <1>1 DEF Mark, w
  <2>2. w * Quarters(j) \in Nat /\ w * Quarters(j + 1) \in Nat
    <3>1. Quarters(j) \in 0..4 /\ Quarters(j + 1) \in 0..4
      OBVIOUS
    <3> HIDE DEF Quarters
    <3> QED BY <1>1, <3>1
  <2> HIDE DEF Quarters
  <2>3. 100 * Mark(j) = 400 * b + 100 * (w * Quarters(j))
    BY <1>1, <2>1, <2>2
  <2>4. Mark(j + 1) - Mark(j) = w * Quarters(j + 1) - w * Quarters(j)
    BY <1>1, <2>1, <2>2
  <2> QED BY <2>3, <2>4 DEF StepShare
<1>3. ASSUME NEW j \in 0..4, NEW x \in 0..100, NEW y \in 0..100
      PROVE  /\ V(j, x) \in Nat /\ 400 * b <= V(j, x) /\ V(j, x) <= 400 * (b + w)
             /\ x <= y => V(j, x) <= V(j, y)
             /\ j < 4 => V(j, x) <= V(j + 1, 0)
  <2>1. CASE j = 4
    BY <1>1, <2>1
  <2>2. CASE j < 4
    <3>1. CASE w = 4 BY <1>1, <2>2, <3>1
    <3>2. CASE w = 5 BY <1>1, <2>2, <3>2
    <3> QED BY <1>1, <3>1, <3>2
  <2> QED BY <2>1, <2>2
<1> HIDE DEF V, Quarters
<1>4. V(k, p) \in Nat /\ V(k, q) \in Nat /\ (k < 4 => V(k + 1, 0) \in Nat)
  <2>1. 0 \in 0..100 /\ (k < 4 => k + 1 \in 0..4)
    OBVIOUS
  <2>2. \A j \in 0..4, x \in 0..100 : V(j, x) \in Nat
    BY <1>3
  <2> QED BY <2>1, <2>2
<1>5. /\ 400 * b <= V(k, p) /\ V(k, p) <= 400 * (b + w)
      /\ p <= q => V(k, p) <= V(k, q)
      /\ k < 4 => V(k, p) <= V(k + 1, 0)
  BY <1>3
<1>6. /\ StepShare(k, p) = Rounded(V(k, p), 400) /\ StepShare(k, q) = Rounded(V(k, q), 400)
      /\ k < 4 => StepShare(k + 1, 0) = Rounded(V(k + 1, 0), 400)
  BY <1>2
<1>7. Rounded(400 * b, 400) = b /\ Rounded(400 * (b + w), 400) = b + w
  BY <1>1, RoundedFacts
<1>8. 400 * b \in Nat /\ 400 * (b + w) \in Nat
  BY <1>1
<1>9. b <= Rounded(V(k, p), 400) /\ Rounded(V(k, p), 400) <= b + w /\ Rounded(V(k, p), 400) \in Nat
  BY <1>4, <1>5, <1>7, <1>8, RoundedFacts
<1> QED BY <1>1, <1>4, <1>5, <1>6, <1>9, RoundedFacts

\* Both are numbers up to 100.
LEMMA ShareRange ==
  ASSUME role \in Roles, phase \in {"fetch", "install"}, NEW p \in 0..100
  PROVE  Share(p) \in 0..100
<1>1. Share(p) \in Begin..End
  BY ShareFacts
<1> QED BY <1>1 DEF Begin, End, Roles

\* The same of a step.
LEMMA StepShareRange ==
  ASSUME phase \in {"open", "reopen"}, NEW k \in 0..4, NEW p \in 0..100
  PROVE  StepShare(k, p) \in 0..100
<1>1. StepShare(k, p) \in Begin..End
  BY StepShareFacts
<1> QED BY <1>1 DEF Begin, End

-----------------------------------------------------------------------------
(* Lines *)

\* A set of numbers that is not empty has a least one.
LEMMA MinExists ==
  ASSUME NEW T \in SUBSET Nat, T # {}
  PROVE  Min(T) \in T
<1> DEFINE R == OpToRel(<, Nat)
<1>1. \A x, y \in Nat : <<y, x>> \in R <=> y < x
  BY DEF OpToRel
<1>2. IsWellFoundedOn(R, Nat)
  BY NatLessThanWellFounded
<1> HIDE DEF R
<1>3. PICK x \in T : \A y \in T : ~(<<y, x>> \in R)
  BY <1>2, WFMin
<1>4. \A y \in T : x <= y
  <2> TAKE y \in T
  <2>1. ~(y < x)
    BY <1>1, <1>3
  <2> QED BY <2>1
<1> QED BY <1>4 DEF Min

\* The lines that updateInterface handles are the first ones of those it reads.
LEMMA ReadableFacts ==
  ASSUME NEW S, NEW s \in Seq(S)
  PROVE  /\ Readable(s) \in Seq(S)
         /\ Len(Readable(s)) <= Len(s)
         /\ \A k \in 1..Len(Readable(s)) : Readable(s)[k] = s[k]
<1> DEFINE I == {i \in 1..Len(s) : s[i].kind = "nopackage"}
<1>1. CASE garbled
  <2>1. Readable(s) = <<>>
    BY <1>1 DEF Readable
  <2> QED BY <2>1
<1>2. CASE ~garbled /\ I = {}
  <2>1. Readable(s) = s
    BY <1>2 DEF Readable
  <2> QED BY <2>1
<1>3. CASE ~garbled /\ I # {}
  <2>1. Readable(s) = SubSeq(s, 1, Min(I) - 1)
    BY <1>3 DEF Readable
  <2>2. I \in SUBSET Nat /\ I \subseteq 1..Len(s)
    OBVIOUS
  <2> HIDE DEF I
  <2>3. Min(I) \in 1..Len(s)
    BY <1>3, <2>2, MinExists
  <2>4. ASSUME NEW n \in 0..Len(s)
        PROVE  /\ SubSeq(s, 1, n) \in Seq(S) /\ Len(SubSeq(s, 1, n)) = n
               /\ \A i \in 1..n : SubSeq(s, 1, n)[i] = s[i]
    OBVIOUS
  <2>5. Min(I) - 1 \in 0..Len(s)
    BY <2>3
  <2> QED BY <2>1, <2>4, <2>5
<1> QED BY <1>1, <1>2, <1>3

-----------------------------------------------------------------------------
(* Types *)

\* A new phase, or none, keeps the types.
LEMMA EnterType ==
  ASSUME NEW next \in Phases, Enter(next)
  PROVE  phase' \in Phases /\ percent' = 0 /\ steps' = 0 /\ last' = 0
BY DEF Enter

\* What is reported is added to the peak.
LEMMA ReportFacts ==
  ASSUME NEW p \in 0..100, Report(p), peak \in 0..100
  PROVE  /\ peak' \in 0..100 /\ progress' = p
         /\ peak <= p => peak' = p
BY DEF Report, Unknown

\* The end of a job is told.
LEMMA CleanupFacts ==
  ASSUME Cleanup, peak \in 0..100
  PROVE  /\ phase' = "over" /\ progress' = 100 /\ peak' = 100
         /\ percent' = 0 /\ steps' = 0 /\ last' = 0
BY ReportFacts DEF Cleanup, Enter

\* The types hold always.
THEOREM ProgressTypeCorrect == ProgressSpec => []TypeInv
<1>1. ProgressInit => TypeInv
  BY DEF ProgressInit, TypeInv, Roles, Phases, Finished, Lines
<1>2. TypeInv /\ [ProgressNext]_progressVars => TypeInv'
  <2> SUFFICES ASSUME TypeInv, [ProgressNext]_progressVars
               PROVE  TypeInv'
    OBVIOUS
  <2> USE DEF TypeInv
  <2>a. phase # "over" => Begin \in 0..95 /\ End \in 0..100
    BY DEF Begin, End, Phases, Roles
  <2>1. CASE NextJob
    BY <2>1 DEF NextJob, NewJob, Enter, Phases, Finished
  <2>2. CASE OpenUpdate
    <3>1. PICK p \in Percents :
            /\ Opening /\ percent' = p
            /\ \/ UNCHANGED <<sentVars, last>>
               \/ Report(StepShare(steps, p)) /\ last' = StepShare(steps, p)
            /\ UNCHANGED <<jobVars, phase, errorVars, steps, fetchVars, childVars>>
      BY <2>2 DEF OpenUpdate
    <3>2. p \in 0..100
      BY ProgressAssumption DEF ProgressAssumption
    <3>3. StepShare(steps, p) \in 0..100
      BY <3>1, <3>2, StepShareRange DEF Opening
    <3> QED BY <3>1, <3>2, <3>3, ReportFacts DEF sentVars, jobVars, fetchVars, childVars
  <2>3. CASE OpenDone
    <3>1. Mark(steps + 1) \div 4 \in 0..100
      <4>1. steps + 1 \in 1..4 /\ phase \in {"open", "reopen"}
        BY <2>3 DEF OpenDone, Opening
      <4>2. Mark(steps + 1) \in 0..400
        <5>1. PICK k \in 1..4 : Mark(steps + 1) = 4 * Begin + (End - Begin) * k
          BY <4>1 DEF Mark
        <5>2. CASE phase = "open"
          <6>1. Begin = 0 /\ End - Begin = 5
            BY <5>2 DEF Begin, End
          <6>2. Mark(steps + 1) = 4 * 0 + 5 * k
            BY <5>1, <6>1
          <6>3. 4 * 0 + 5 * k \in 0..400
            OBVIOUS
          <6> QED BY <6>2, <6>3, Zenon
        <5>3. CASE phase = "reopen"
          <6>1. Begin = 91 /\ End - Begin = 4
            BY <5>3 DEF Begin, End
          <6>2. Mark(steps + 1) = 4 * 91 + 4 * k
            BY <5>1, <6>1
          <6>3. 4 * 91 + 4 * k \in 0..400
            OBVIOUS
          <6> QED BY <6>2, <6>3, Zenon
        <5> QED BY <4>1, <5>2, <5>3
      <4>3. ASSUME NEW x \in 0..400 PROVE x \div 4 \in 0..100
        OBVIOUS
      <4> QED BY <4>2, <4>3
    <3> QED BY <2>3, <3>1 DEF OpenDone, sentVars, jobVars, fetchVars, childVars
  <2>4. CASE Opened
    <3>1. CASE phase = "open"
      BY <2>4, <3>1 DEF Opened, Enter, Phases, sentVars, jobVars, fetchVars, childVars
    <3>2. CASE phase # "open"
      BY <2>4, <3>2, CleanupFacts DEF Opened, Phases, jobVars, fetchVars, childVars
    <3> QED BY <3>1, <3>2
  <2>5. CASE OpenFails
    BY <2>5, CleanupFacts DEF OpenFails, Phases, jobVars, fetchVars, childVars
  <2>6. ASSUME NEW i \in Items, FetchItem(i) \/ ItemDone(i) \/ ItemFail(i) PROVE TypeInv'
    BY <2>6 DEF FetchItem, ItemDone, ItemFail, UpdateStatus, Finished, jobVars, sentVars, openVars, fetchVars, childVars
  <2>7. CASE Pulse
    <3>1. PICK p \in 0..100 :
            /\ phase = "fetch" /\ percent' = p
            /\ \/ Report(Unknown) /\ UNCHANGED last
               \/ Report(Share(p)) /\ last' = Share(p)
            /\ DOMAIN shown' = Items
            /\ UNCHANGED <<jobVars, phase, errorVars, steps, item, childVars>>
      BY <2>7, ProgressAssumption DEF Pulse, ProgressAssumption
    <3>2. Share(p) \in 0..100
      BY <3>1, ShareRange
    <3>3. Report(Unknown) => peak' = peak
      BY DEF Report
    <3> QED BY <3>1, <3>2, <3>3, ReportFacts DEF jobVars, childVars
  <2>8. CASE FetchStop
    <3>1. UNCHANGED <<role, pipe, item, shown>>
      BY <2>8 DEF FetchStop, jobVars, fetchVars
    <3>2. CASE Cleanup
      BY <3>1, <3>2, CleanupFacts DEF Phases
    <3>3. ASSUME NEW next \in Phases, Enter(next), Report(End) PROVE TypeInv'
      <4>1. phase = "fetch" => End \in 0..100
        BY <2>a
      <4>2. peak' \in 0..100
        BY <2>8, <3>3, <4>1, ReportFacts DEF FetchStop
      <4> QED BY <3>1, <3>3, <4>2, EnterType
    <3> QED BY <2>8, <3>2, <3>3 DEF FetchStop, Phases
  <2>9. CASE ChildWrites
    BY <2>9, ProgressAssumption
       DEF ChildWrites, ProgressAssumption, Line, Lines, jobVars, sentVars, openVars, fetchVars
  <2>10. CASE ChildEnds
    BY <2>10 DEF ChildEnds, jobVars, sentVars, openVars, fetchVars
  <2>11. CASE UpdateInterface
    <3>1. /\ phase = "install" /\ pipe' = <<>>
          /\ \/ UNCHANGED sentVars
             \/ Readable(pipe) # <<>> /\ Report(Share(Last(Readable(pipe)).percent))
          /\ UNCHANGED <<jobVars, phase, percent, openVars, fetchVars>>
      BY <2>11 DEF UpdateInterface
    <3>2. Readable(pipe) # <<>> => Last(Readable(pipe)) \in Lines
      BY ReadableFacts DEF Last
    <3>3. Readable(pipe) # <<>> => Share(Last(Readable(pipe)).percent) \in 0..100
      <4>1. ASSUME NEW l \in Lines PROVE Share(l.percent) \in 0..100
        BY <3>1, ShareRange, ProgressAssumption DEF Lines, ProgressAssumption
      <4> QED BY <3>2, <4>1
    <3>4. peak' \in 0..100
      BY <3>1, <3>3, ReportFacts DEF sentVars
    <3> QED BY <3>1, <3>4 DEF jobVars, openVars, fetchVars
  <2>12. CASE InstallEnds
    BY <2>12 DEF InstallEnds, Enter, Phases, jobVars, sentVars, fetchVars
  <2>13. CASE UNCHANGED progressVars
    BY <2>13 DEF progressVars, jobVars, sentVars, openVars, fetchVars, childVars
  <2> QED BY <2>1, <2>2, <2>3, <2>4, <2>5, <2>6, <2>7, <2>8, <2>9, <2>10, <2>11, <2>12, <2>13 DEF ProgressNext
<1> QED BY <1>1, <1>2, PTL DEF ProgressSpec

-----------------------------------------------------------------------------
(* The progress that is told *)

\* What has been told lies before what each phase has still to tell: in a step of
\* openCache, behind what was fetched, and in the lines that are not yet read.
ProgressInv ==
  /\ progress \in {Unknown, peak}
  /\ phase \in {"open", "reopen"} => peak <= StepShare(steps, percent)
  /\ phase = "fetch" => last <= End /\ (peak <= last \/ peak <= Begin)
  /\ phase = "install" =>
       /\ peak <= Share(percent)
       /\ \A k \in 1..Len(pipe) : pipe[k].percent <= percent /\ peak <= Share(pipe[k].percent)
  /\ phase # "install" => pipe = <<>> /\ child = "none"
  /\ phase = "over" => progress = 100

\* In a phase of its own each part of the scale is what it was.
LEMMA SamePart ==
  ASSUME UNCHANGED <<role, phase>>
  PROVE  /\ Begin' = Begin /\ End' = End
         /\ Share(percent)' = Share(percent')
         /\ StepShare(steps, percent)' = StepShare(steps', percent')
<1>1. Begin' = Begin /\ End' = End
  BY DEF Begin, End
<1>2. Share(percent)' = Share(percent')
  BY <1>1 DEF Share
<1>3. StepShare(steps, percent)' = StepShare(steps', percent')
  BY <1>1 DEF StepShare, Mark
<1> QED BY <1>1, <1>2, <1>3

\* The progress of a job never goes back.
THEOREM ProgressNeverGoesBack == ProgressSpec => []NeverGoesBack
<1>1. ProgressInit => ProgressInv
  <2> SUFFICES ASSUME ProgressInit PROVE ProgressInv
    OBVIOUS
  <2>1. phase = "open" /\ steps = 0 /\ percent = 0 /\ peak = 0
    BY DEF ProgressInit
  <2>2. StepShare(0, 0) = 0
    BY <2>1 DEF StepShare, Mark, Begin, End, Rounded
  <2> QED BY <2>1, <2>2 DEF ProgressInit, ProgressInv
<1>2. TypeInv /\ TypeInv' /\ ProgressInv /\ [ProgressNext]_progressVars => ProgressInv'
  <2> SUFFICES ASSUME TypeInv, TypeInv', ProgressInv, [ProgressNext]_progressVars
               PROVE  ProgressInv'
    OBVIOUS
  <2>a. /\ role \in Roles /\ phase \in Phases /\ peak \in 0..100 /\ percent \in 0..100
        /\ steps \in 0..4 /\ last \in 0..100 /\ percent' \in 0..100 /\ steps' \in 0..4
        /\ last' \in 0..100 /\ peak' \in 0..100
    BY DEF TypeInv
  <2>b. Percents \subseteq 0..100
    BY ProgressAssumption DEF ProgressAssumption
  <2>c. phase # "over" => Begin \in 0..91 /\ End \in 0..100
    BY <2>a DEF Begin, End, Phases, Roles
  <2>1. CASE NextJob
    <3>1. phase' = "open" /\ steps' = 0 /\ percent' = 0 /\ peak' = 0 /\ progress' = 0 /\ pipe' = <<>> /\ child' = "none"
      BY <2>1 DEF NextJob, NewJob, Enter
    <3>2. StepShare(steps, percent)' = 0
      BY <3>1 DEF StepShare, Mark, Begin, End, Rounded
    <3> QED BY <3>1, <3>2 DEF ProgressInv
  <2>2. CASE OpenUpdate
    <3>1. PICK p \in Percents :
            /\ Opening /\ p >= percent /\ percent' = p
            /\ \/ UNCHANGED <<progress, peak>>
               \/ Report(StepShare(steps, p))
            /\ UNCHANGED <<role, phase, steps, pipe, child>>
      BY <2>2 DEF OpenUpdate, sentVars, jobVars, childVars
    <3>2. p \in 0..100 /\ phase \in {"open", "reopen"}
      BY <2>b, <3>1 DEF Opening
    <3>3. peak <= StepShare(steps, percent) /\ progress \in {Unknown, peak} /\ pipe = <<>> /\ child = "none"
      BY <3>2 DEF ProgressInv
    <3>4. StepShare(steps, percent) <= StepShare(steps, p)
      BY <2>a, <3>1, <3>2, StepShareFacts
    <3>5. StepShare(steps, p) \in 0..100 /\ StepShare(steps, percent) \in 0..100
      BY <2>a, <3>2, StepShareRange
    <3>6. peak <= StepShare(steps, p)
      BY <2>a, <3>3, <3>4, <3>5, LeqTransitive, Zenon
    <3>7. peak' <= StepShare(steps, p) /\ progress' \in {Unknown, peak'}
      <4>1. CASE UNCHANGED <<progress, peak>>
        BY <3>3, <3>6, <4>1
      <4>2. CASE Report(StepShare(steps, p))
        <5>1. peak' = StepShare(steps, p) /\ progress' = StepShare(steps, p)
          BY <2>a, <3>5, <3>6, <4>2, ReportFacts
        <5>2. ASSUME NEW x \in 0..100 PROVE x <= x
          OBVIOUS
        <5> QED BY <3>5, <5>1, <5>2
      <4> QED BY <3>1, <4>1, <4>2
    <3>8. StepShare(steps, percent)' = StepShare(steps, p)
      BY <3>1, SamePart
    <3> QED BY <3>1, <3>2, <3>3, <3>7, <3>8 DEF ProgressInv
  <2>3. CASE OpenDone
    <3>1. /\ phase \in {"open", "reopen"} /\ steps < 4 /\ steps' = steps + 1 /\ percent' = 0
          /\ UNCHANGED <<role, phase, progress, peak, pipe, child>>
      BY <2>3 DEF OpenDone, Opening, jobVars, sentVars, childVars
    <3>2. StepShare(steps, percent) <= StepShare(steps + 1, 0)
      BY <2>a, <3>1, StepShareFacts
    <3>3. StepShare(steps, percent) \in 0..100 /\ StepShare(steps + 1, 0) \in 0..100
      BY <2>a, <3>1, StepShareRange
    <3>4. peak <= StepShare(steps + 1, 0)
      <4>1. peak <= StepShare(steps, percent)
        BY <3>1 DEF ProgressInv
      <4> QED BY <2>a, <3>2, <3>3, <4>1, LeqTransitive, Zenon
    <3>5. StepShare(steps, percent)' = StepShare(steps + 1, 0)
      BY <3>1, SamePart
    <3> QED BY <3>1, <3>4, <3>5 DEF ProgressInv
  <2>4. ASSUME Cleanup, UNCHANGED <<pipe, child>>, phase # "install" PROVE ProgressInv'
    <3>1. phase' = "over" /\ progress' = 100 /\ peak' = 100
      BY <2>a, <2>4, CleanupFacts
    <3> QED BY <2>4, <3>1 DEF ProgressInv
  <2>5. CASE Opened
    <3>1. CASE phase = "open"
      <4>1. phase' = "fetch" /\ last' = 0 /\ UNCHANGED <<role, progress, peak, pipe, child>>
        BY <2>5, <3>1 DEF Opened, Enter, jobVars, sentVars, childVars
      <4>2. StepShare(steps, percent) \in Begin..End /\ Begin = 0 /\ End = 5
        BY <2>a, <3>1, StepShareFacts DEF Begin, End
      <4>3. peak <= 5
        BY <2>a, <3>1, <4>2 DEF ProgressInv
      <4>4. Begin' \in {10, 15} /\ End' \in {50, 90, 100}
        BY <2>a, <4>1 DEF Begin, End, Roles
      <4> QED BY <2>a, <3>1, <4>1, <4>3, <4>4 DEF ProgressInv
    <3>2. CASE phase # "open"
      BY <2>4, <2>5, <3>2 DEF Opened, Opening, childVars
    <3> QED BY <3>1, <3>2
  <2>6. CASE OpenFails
    BY <2>4, <2>6 DEF OpenFails, Opening, childVars
  <2>7. ASSUME UNCHANGED <<role, phase, steps, percent, last, progress, peak, pipe, child>>
        PROVE  ProgressInv'
    <3>1. Begin' = Begin /\ End' = End /\ StepShare(steps, percent)' = StepShare(steps, percent)
      BY <2>7, SamePart
    <3>2. ASSUME NEW CONSTANT p PROVE Share(p)' = Share(p)
      BY <3>1 DEF Share
    <3>3. Share(percent)' = Share(percent)
      BY <2>7, SamePart
    <3>4. ASSUME NEW k \in 1..Len(pipe) PROVE Share(pipe[k].percent)' = Share(pipe[k].percent)
      BY <2>7, <3>1 DEF Share
    <3> QED BY <2>7, <3>1, <3>3, <3>4 DEF ProgressInv
  <2>8. ASSUME NEW i \in Items, FetchItem(i) \/ ItemDone(i) \/ ItemFail(i) PROVE ProgressInv'
    BY <2>7, <2>8 DEF FetchItem, ItemDone, ItemFail, jobVars, sentVars, openVars, childVars
  <2>9. CASE Pulse
    <3>1. PICK p \in 0..100 :
            /\ phase = "fetch"
            /\ \/ last > Share(p) /\ Report(Unknown) /\ last' = last
               \/ ~(last > Share(p)) /\ Report(Share(p)) /\ last' = Share(p)
            /\ UNCHANGED <<role, phase, pipe, child>>
      <4>1. PICK p \in (IF \A i \in Items : item[i] \in Finished THEN {100} ELSE Percents) :
              /\ phase = "fetch"
              /\ IF last > Share(p) THEN Report(Unknown) /\ UNCHANGED last
                                    ELSE Report(Share(p)) /\ last' = Share(p)
              /\ UNCHANGED <<jobVars, phase, childVars>>
        BY <2>9 DEF Pulse
      <4>2. p \in 0..100
        BY <2>b
      <4> QED BY <4>1, <4>2 DEF jobVars, childVars
    <3>2. Begin' = Begin /\ End' = End
      BY <3>1, SamePart
    <3>3. Share(p) \in Begin..End
      BY <2>a, <3>1, ShareFacts
    <3>4. last <= End /\ (peak <= last \/ peak <= Begin) /\ progress \in {Unknown, peak} /\ pipe = <<>> /\ child = "none"
      BY <3>1 DEF ProgressInv
    <3>5. Begin \in 0..91 /\ End \in 0..100
      BY <2>c, <3>1
    <3>6. CASE last > Share(p)
      <4>1. progress' = Unknown /\ peak' = peak /\ last' = last
        BY <3>1, <3>6 DEF Report
      <4> QED BY <3>1, <3>2, <3>4, <4>1 DEF ProgressInv
    <3>7. CASE ~(last > Share(p))
      <4>1. Share(p) \in 0..100 /\ peak <= Share(p) /\ Share(p) <= End
        <5>1. Begin <= Share(p) /\ Share(p) <= End /\ Share(p) \in 0..100
          BY <3>3, <3>5
        <5>2. last <= Share(p)
          BY <2>a, <3>7, <5>1
        <5>3. Begin \in 0..100
          BY <3>5
        <5> QED BY <2>a, <3>4, <5>1, <5>2, <5>3, LeqTransitive, Zenon
      <4>2. progress' = Share(p) /\ peak' = Share(p) /\ last' = Share(p)
        BY <2>a, <3>1, <3>7, <4>1, ReportFacts
      <4>3. peak' <= last' /\ last' <= End'
        BY <2>a, <3>2, <4>1, <4>2
      <4> QED BY <3>1, <3>4, <4>2, <4>3 DEF ProgressInv
    <3> QED BY <3>6, <3>7
  <2>10. CASE FetchStop
    <3>1. phase = "fetch" /\ UNCHANGED <<role, pipe>> /\ pipe = <<>> /\ child = "none"
      BY <2>10 DEF FetchStop, jobVars, ProgressInv
    <3>2. /\ last <= End /\ (peak <= last \/ peak <= Begin) /\ progress \in {Unknown, peak}
          /\ Begin \in 0..91 /\ End \in 0..100 /\ Begin <= End
      BY <2>a, <3>1 DEF ProgressInv, Begin, End, Roles
    <3>3. peak <= End
      BY <2>a, <3>2
    <3>4. CASE Cleanup /\ UNCHANGED child
      BY <2>4, <3>1, <3>4
    <3>5. ASSUME Report(End) PROVE progress' = End /\ peak' = End
      BY <2>a, <3>2, <3>3, <3>5, ReportFacts
    <3>6. CASE role = "update" /\ Enter("reopen") /\ Report(End) /\ UNCHANGED child
      <4>1. phase' = "reopen" /\ steps' = 0 /\ percent' = 0
        BY <3>6 DEF Enter
      <4>2. End = 90
        BY <3>1, <3>6 DEF End
      <4>3. StepShare(steps, percent)' = 91
        BY <4>1 DEF StepShare, Mark, Begin, End, Rounded
      <4> QED BY <3>1, <3>5, <3>6, <4>1, <4>2, <4>3 DEF ProgressInv
    <3>7. CASE role = "commit" /\ Enter("install") /\ Report(End)
      <4>1. phase' = "install" /\ percent' = 0
        BY <3>7 DEF Enter
      <4>2. End = 50
        BY <3>1, <3>7 DEF End
      <4>3. Share(percent)' = 50
        BY <4>1 DEF Share, Begin, End, Rounded
      <4> QED BY <3>1, <3>5, <3>7, <4>1, <4>2, <4>3 DEF ProgressInv
    <3> QED BY <2>10, <3>4, <3>6, <3>7 DEF FetchStop
  <2>11. CASE ChildWrites
    <3>1. PICK kind \in Kinds, p \in Percents :
            /\ child = "alive" /\ p >= percent /\ percent' = p /\ pipe' = Append(pipe, Line(kind, p))
            /\ UNCHANGED <<role, phase, progress, peak, child>>
      BY <2>11 DEF ChildWrites, jobVars, sentVars
    <3>2. phase = "install" /\ p \in 0..100
      BY <2>b, <3>1 DEF ProgressInv
    <3>3. /\ progress \in {Unknown, peak} /\ peak <= Share(percent)
          /\ \A k \in 1..Len(pipe) : pipe[k].percent <= percent /\ peak <= Share(pipe[k].percent)
      BY <3>2 DEF ProgressInv
    <3>4. Share(percent) <= Share(p) /\ Share(percent) \in 0..100 /\ Share(p) \in 0..100
      BY <2>a, <3>1, <3>2, ShareFacts, ShareRange
    <3>5. peak <= Share(p)
      BY <2>a, <3>3, <3>4, LeqTransitive, Zenon
    <3>6. Begin' = Begin /\ End' = End /\ Share(percent)' = Share(p)
      BY <3>1, SamePart
    <3>7. ASSUME NEW k \in 1..Len(pipe')
          PROVE  pipe'[k].percent <= percent' /\ peak' <= Share(pipe[k].percent)'
      <4>1. Share(pipe[k].percent)' = Share(pipe'[k].percent)
        BY <3>6 DEF Share
      <4>2. pipe \in Seq(Lines)
        BY DEF TypeInv
      <4>3. CASE k = Len(pipe) + 1
        BY <2>a, <3>1, <3>2, <3>5, <4>1, <4>2, <4>3 DEF Line
      <4>4. CASE k # Len(pipe) + 1
        <5>1. k \in 1..Len(pipe) /\ pipe'[k] = pipe[k]
          BY <3>1, <4>2, <4>4
        <5>2. pipe[k].percent \in 0..100
          <6>1. pipe[k] \in Lines
            BY <4>2, <5>1
          <6>2. ASSUME NEW l \in Lines PROVE l.percent \in 0..100
            BY <2>b DEF Lines
          <6> QED BY <6>1, <6>2
        <5>3. pipe[k].percent <= percent /\ peak <= Share(pipe[k].percent)
          BY <3>3, <5>1
        <5>4. pipe[k].percent <= p
          BY <2>a, <3>1, <3>2, <5>2, <5>3, LeqTransitive
        <5> QED BY <3>1, <4>1, <5>1, <5>3, <5>4
      <4> QED BY <4>3, <4>4
    <3> QED BY <3>1, <3>2, <3>3, <3>5, <3>6, <3>7 DEF ProgressInv
  <2>12. CASE ChildEnds
    <3>1. phase = "install" /\ UNCHANGED <<role, phase, percent, progress, peak, pipe>>
      BY <2>12 DEF ChildEnds, ProgressInv, jobVars, sentVars
    <3>2. Begin' = Begin /\ End' = End /\ Share(percent)' = Share(percent)
      BY <3>1, SamePart
    <3>3. ASSUME NEW k \in 1..Len(pipe) PROVE Share(pipe[k].percent)' = Share(pipe[k].percent)
      BY <3>1, <3>2 DEF Share
    <3> QED BY <3>1, <3>2, <3>3 DEF ProgressInv
  <2>13. CASE UpdateInterface
    <3> DEFINE handled == Readable(pipe)
    <3>1. /\ phase = "install" /\ pipe' = <<>> /\ UNCHANGED <<role, phase, percent>>
          /\ \/ UNCHANGED <<progress, peak>>
             \/ handled # <<>> /\ Report(Share(Last(handled).percent))
      BY <2>13 DEF UpdateInterface, jobVars, sentVars
    <3>2. Share(percent)' = Share(percent)
      BY <3>1, SamePart
    <3>3. progress \in {Unknown, peak} /\ peak <= Share(percent)
      BY <3>1 DEF ProgressInv
    <3>4. ASSUME handled # <<>>, Report(Share(Last(handled).percent))
          PROVE  progress' = peak' /\ peak' <= Share(percent)
      <4>1. PICK k \in 1..Len(pipe) : Last(handled) = pipe[k]
        <5>1. pipe \in Seq(Lines)
          BY DEF TypeInv
        <5>2. /\ handled \in Seq(Lines) /\ Len(handled) <= Len(pipe)
              /\ \A j \in 1..Len(handled) : handled[j] = pipe[j]
          BY <5>1, ReadableFacts
        <5> HIDE DEF handled
        <5>3. Len(handled) \in 1..Len(pipe)
          BY <3>4, <5>1, <5>2
        <5>4. Last(handled) = pipe[Len(handled)]
          BY <5>2, <5>3 DEF Last
        <5> QED BY <5>3, <5>4
      <4>2. pipe[k].percent \in 0..100
        <5>1. pipe[k] \in Lines
          BY <4>1 DEF TypeInv
        <5>2. ASSUME NEW l \in Lines PROVE l.percent \in 0..100
          BY <2>b DEF Lines
        <5> QED BY <5>1, <5>2
      <4>3. pipe[k].percent <= percent /\ peak <= Share(pipe[k].percent)
        BY <3>1, <4>1 DEF ProgressInv
      <4>4. Share(pipe[k].percent) <= Share(percent)
        BY <2>a, <3>1, <4>2, <4>3, ShareFacts
      <4>5. Share(pipe[k].percent) \in 0..100
        BY <2>a, <3>1, <4>2, ShareRange
      <4>6. Report(Share(pipe[k].percent))
        BY <3>4, <4>1
      <4>7. progress' = Share(pipe[k].percent) /\ peak' = Share(pipe[k].percent)
        BY <2>a, <4>3, <4>5, <4>6, ReportFacts
      <4> QED BY <4>4, <4>7
    <3>5. progress' \in {Unknown, peak'} /\ peak' <= Share(percent)
      BY <3>1, <3>3, <3>4
    <3> QED BY <3>1, <3>2, <3>5 DEF ProgressInv
  <2>14. CASE InstallEnds
    <3>1. /\ phase = "install" /\ phase' = "reopen" /\ steps' = 0 /\ percent' = 0
          /\ pipe' = <<>> /\ child' = "none" /\ UNCHANGED <<role, progress, peak>>
      BY <2>14 DEF InstallEnds, Enter, jobVars, sentVars
    <3>2. Share(percent) \in Begin..End /\ Begin = 50 /\ End = 90
      BY <2>a, <3>1, ShareFacts DEF Begin, End
    <3>3. peak <= 90
      <4>1. Share(percent) \in 50..90
        BY <3>2
      <4>2. peak <= Share(percent)
        BY <3>1 DEF ProgressInv
      <4> QED BY <2>a, <4>1, <4>2
    <3>4. StepShare(steps, percent)' = 91
      BY <3>1 DEF StepShare, Mark, Begin, End, Rounded
    <3> QED BY <2>a, <3>1, <3>3, <3>4 DEF ProgressInv
  <2>15. CASE UNCHANGED progressVars
    BY <2>7, <2>15 DEF progressVars, jobVars, sentVars, openVars, childVars
  <2> QED BY <2>1, <2>2, <2>3, <2>5, <2>6, <2>8, <2>9, <2>10, <2>11, <2>12, <2>13, <2>14, <2>15 DEF ProgressNext
<1>3. TypeInv /\ ProgressInv => NeverGoesBack
  <2> SUFFICES ASSUME TypeInv, ProgressInv PROVE NeverGoesBack
    OBVIOUS
  <2>1. ASSUME progress = 100, phase # "over" PROVE phase = "fetch" /\ role = "download"
    <3>1. peak = 100 /\ role \in Roles /\ phase \in Phases /\ percent \in 0..100 /\ steps \in 0..4 /\ last \in 0..100
      BY <2>1 DEF TypeInv, ProgressInv, Unknown
    <3>2. CASE phase \in {"open", "reopen"}
      <4>1. StepShare(steps, percent) \in Begin..End
        BY <3>1, <3>2, StepShareFacts
      <4>2. Begin \in 0..91 /\ End \in 0..95
        BY <3>2 DEF Begin, End
      <4>3. StepShare(steps, percent) \in 0..95
        BY <4>1, <4>2
      <4>4. peak <= StepShare(steps, percent)
        BY <3>2 DEF ProgressInv
      <4> QED BY <3>1, <4>3, <4>4
    <3>3. CASE phase = "install"
      <4>1. Share(percent) \in Begin..End /\ Begin = 50 /\ End = 90
        BY <3>1, <3>3, ShareFacts DEF Begin, End
      <4>2. Share(percent) \in 50..90
        BY <4>1
      <4>3. peak <= Share(percent)
        BY <3>3 DEF ProgressInv
      <4> QED BY <3>1, <4>2, <4>3
    <3>4. CASE phase = "fetch" /\ role # "download"
      <4>1. Begin \in {10, 15} /\ End \in {50, 90}
        BY <3>1, <3>4 DEF Begin, End, Roles
      <4> QED BY <3>1, <3>4, <4>1 DEF ProgressInv
    <3> QED BY <2>1, <3>1, <3>2, <3>3, <3>4 DEF Phases
  <2> QED BY <2>1 DEF ProgressInv, NeverGoesBack
<1> QED BY <1>1, <1>2, <1>3, ProgressTypeCorrect, PTL DEF ProgressSpec

-----------------------------------------------------------------------------
(* The failures that are told *)

ErrorLine(seq) == \E k \in 1..Len(seq) : seq[k].kind = "pmerror"

\* Only an error of the child may be untold, for its line is lost or not yet read.
FailInv ==
  /\ phase # "install" => pipe = <<>> /\ child = "none"
  /\ phase # "over" => error # "InitError"
  /\ error # "InitError" =>
       /\ failed \ details \subseteq {"install"}
       /\ "install" \in failed \ details => lost \/ ErrorLine(pipe)
  /\ \A i \in Items : item[i] = "done" => shown[i] = "done"

\* What failed is told, unless the line that tells it was lost.
THEOREM FailuresAreAlwaysTold == ProgressSpec => []FailuresAreTold
<1>1. ProgressInit => FailInv
  BY DEF ProgressInit, FailInv
<1>2. TypeInv /\ FailInv /\ [ProgressNext]_progressVars => FailInv'
  <2> SUFFICES ASSUME TypeInv, FailInv, [ProgressNext]_progressVars PROVE FailInv'
    OBVIOUS
  <2> USE DEF FailInv
  <2>1. CASE NextJob
    BY <2>1 DEF NextJob, NewJob, Enter
  <2>2. ASSUME UNCHANGED <<error, failed, details, lost, item, shown, pipe, child>>, phase # "over",
               phase' = phase \/ phase # "install"
        PROVE  FailInv'
    BY <2>2 DEF ErrorLine
  <2>3. CASE OpenUpdate
    BY <2>2, <2>3 DEF OpenUpdate, Opening, jobVars, errorVars, fetchVars, childVars
  <2>4. CASE OpenDone
    BY <2>2, <2>4 DEF OpenDone, Opening, jobVars, errorVars, fetchVars, childVars
  <2>5. CASE Opened
    BY <2>2, <2>5 DEF Opened, Opening, errorVars, fetchVars, childVars
  <2>6. CASE OpenFails
    <3>1. /\ phase # "install" /\ phase' = "over" /\ error' = "InitError"
          /\ UNCHANGED <<item, shown, pipe, child>>
      BY <2>6 DEF OpenFails, Opening, Cleanup, Enter, fetchVars, childVars
    <3> QED BY <3>1
  <2>7. ASSUME NEW i \in Items, FetchItem(i) PROVE FailInv'
    BY <2>7 DEF FetchItem, UpdateStatus, TypeInv, errorVars, fetchVars, childVars, ErrorLine
  <2>8. ASSUME NEW i \in Items, ItemDone(i) PROVE FailInv'
    BY <2>8 DEF ItemDone, UpdateStatus, TypeInv, errorVars, childVars, ErrorLine
  <2>9. ASSUME NEW i \in Items, ItemFail(i) PROVE FailInv'
    <3>1. PICK now \in {"idle", "error", "authError", "networkError"} :
            /\ item' = [item EXCEPT ![i] = now]
            /\ details' = IF now = "idle" THEN details ELSE details \cup {i}
            /\ failed' = IF now = "idle" THEN failed ELSE failed \cup {i}
            /\ phase = "fetch" /\ UNCHANGED <<phase, error, lost, shown, pipe, child>>
      BY <2>9 DEF ItemFail, childVars
    <3>2. \A j \in Items : item'[j] = "done" => shown'[j] = "done"
      BY <3>1 DEF TypeInv
    <3>3. failed' \ details' \subseteq failed \ details
      BY <3>1
    <3>4. error' # "InitError" /\ error # "InitError"
      BY <3>1
    <3>5. failed \ details \subseteq {"install"} /\ ("install" \in failed \ details => lost)
      BY <3>1, <3>4 DEF ErrorLine
    <3> QED BY <3>1, <3>2, <3>3, <3>4, <3>5
  <2>10. CASE Pulse
    <3>1. /\ phase = "fetch" /\ UNCHANGED <<phase, error, details, failed, lost, item, pipe, child>>
          /\ shown' = [i \in Items |-> IF item[i] = "fetching" THEN item[i] ELSE shown[i]]
      BY <2>10 DEF Pulse, errorVars, childVars
    <3> QED BY <3>1 DEF ErrorLine
  <2>11. CASE FetchStop
    <3>1. /\ phase = "fetch" /\ error' # "InitError"
          /\ UNCHANGED <<details, failed, lost, item, shown, pipe>>
          /\ \/ phase' \in {"over", "reopen"} /\ UNCHANGED child
             \/ phase' = "install"
      BY <2>11 DEF FetchStop, Cleanup, Enter, fetchVars, TypeInv, Roles
    <3> QED BY <3>1 DEF ErrorLine
  <2>12. CASE ChildWrites
    <3>1. PICK kind \in Kinds, p \in Percents :
            /\ child = "alive" /\ pipe' = Append(pipe, Line(kind, p))
            /\ failed' = IF kind = "pmerror" THEN failed \cup {"install"} ELSE failed
            /\ UNCHANGED <<phase, error, details, lost, item, shown, child>>
      BY <2>12 DEF ChildWrites, fetchVars
    <3>2. phase = "install" /\ error # "InitError"
      BY <3>1
    <3>3. pipe \in Seq(Lines)
      BY DEF TypeInv
    <3>4. ErrorLine(pipe) => ErrorLine(pipe)'
      BY <3>1, <3>3 DEF ErrorLine
    <3>5. kind = "pmerror" => ErrorLine(pipe)'
      <4>1. Len(pipe') = Len(pipe) + 1 /\ pipe'[Len(pipe) + 1] = Line(kind, p) /\ Len(pipe) \in Nat
        BY <3>1, <3>3
      <4> QED BY <4>1 DEF ErrorLine, Line
    <3>6. failed' \ details' \subseteq {"install"}
      BY <3>1, <3>2
    <3>7. "install" \in failed' \ details' => lost' \/ ErrorLine(pipe)'
      BY <3>1, <3>2, <3>4, <3>5
    <3> QED BY <3>1, <3>2, <3>6, <3>7
  <2>13. CASE ChildEnds
    BY <2>13 DEF ChildEnds, errorVars, fetchVars, ErrorLine
  <2>14. CASE UpdateInterface
    <3> DEFINE handled == Readable(pipe)
    <3>1. /\ phase = "install" /\ pipe' = <<>> /\ UNCHANGED <<phase, error, failed, item, shown, child>>
          /\ details' = IF \E l \in ToSet(handled) : l.kind = "pmerror" THEN details \cup {"install"} ELSE details
          /\ lost' = (lost \/ \E k \in (Len(handled) + 1)..Len(pipe) : pipe[k].kind = "pmerror")
      BY <2>14 DEF UpdateInterface, fetchVars
    <3>2. /\ handled \in Seq(Lines) /\ Len(handled) <= Len(pipe)
          /\ \A k \in 1..Len(handled) : handled[k] = pipe[k]
      BY ReadableFacts DEF TypeInv
    <3>3. failed \ details \subseteq {"install"} /\ ("install" \in failed \ details => lost \/ ErrorLine(pipe))
      BY <3>1
    <3> HIDE DEF handled
    <3>4. ErrorLine(pipe) => "install" \in details' \/ lost'
      <4> SUFFICES ASSUME NEW k \in 1..Len(pipe), pipe[k].kind = "pmerror"
                   PROVE  "install" \in details' \/ lost'
        BY DEF ErrorLine
      <4>1. CASE k \in 1..Len(handled)
        <5>1. handled[k] \in ToSet(handled) /\ handled[k].kind = "pmerror"
          BY <3>2, <4>1 DEF ToSet
        <5> QED BY <3>1, <5>1
      <4>2. CASE k \notin 1..Len(handled)
        <5>1. k \in (Len(handled) + 1)..Len(pipe)
          BY <3>2, <4>2
        <5> QED BY <3>1, <5>1
      <4> QED BY <4>1, <4>2
    <3>5. failed' \ details' \subseteq {"install"}
      BY <3>1, <3>3
    <3>6. "install" \in failed' \ details' => lost'
      BY <3>1, <3>3, <3>4
    <3> QED BY <3>1, <3>5, <3>6
  <2>15. CASE InstallEnds
    <3>1. /\ phase = "install" /\ phase' = "reopen" /\ error' # "InitError" /\ pipe' = <<>> /\ child' = "none"
          /\ lost' = (lost \/ \E l \in ToSet(pipe) : l.kind = "pmerror")
          /\ UNCHANGED <<details, failed, item, shown>>
      BY <2>15 DEF InstallEnds, Enter, fetchVars
    <3>2. ErrorLine(pipe) => lost'
      <4>1. ASSUME NEW k \in 1..Len(pipe) PROVE pipe[k] \in ToSet(pipe)
        BY DEF ToSet, TypeInv
      <4> QED BY <3>1, <4>1 DEF ErrorLine
    <3> QED BY <3>1, <3>2
  <2>16. CASE UNCHANGED progressVars
    BY <2>16 DEF progressVars, errorVars, fetchVars, childVars, ErrorLine
  <2> QED BY <2>1, <2>3, <2>4, <2>5, <2>6, <2>7, <2>8, <2>9, <2>10, <2>11, <2>12, <2>13, <2>14, <2>15, <2>16 DEF ProgressNext
<1>3. FailInv => FailuresAreTold
  BY DEF FailInv, FailuresAreTold, ErrorLine
<1> QED BY <1>1, <1>2, <1>3, ProgressTypeCorrect, PTL DEF ProgressSpec
=============================================================================
