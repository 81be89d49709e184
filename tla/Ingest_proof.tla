---------------------------- MODULE Ingest_proof ----------------------------
(***************************************************************************)
(* Proofs about the two ingest modes, IngestPipeline and ProcessIngest, for *)
(* any receivers, senders, routing, number of workers and queue size, and  *)
(* about the API pollers, for any processes, threads and items.            *)
(***************************************************************************)
EXTENDS MCIngest, Sums, TLAPS

\* A worker has a message in hand exactly while it processes one.
HandOK == \A w \in Worker : hand[w] # NoMsg <=> wpc[w] = "busy"

Held(w) == SeqRange(queue[w]) \cup ({hand[w]} \ {NoMsg})

\* What the drain has achieved so far: the messages that were accepted before
\* the shutdown are done or with a worker whose queue is still to be waited for.
DrainOK ==
  /\ main = "up" => draining = 1 /\ ~timedOut /\ ~stop
  /\ stop => draining = NWorker + 1
  /\ main # "up" /\ ~timedOut =>
       \A m \in before :
         m \in SeqRange(done) \/ \E w \in Worker : w >= draining /\ m \in Held(w)

PipelineInv == TypeOK /\ HandOK /\ TasksOwed /\ DrainOK
-----------------------------------------------------------------------------
LEMMA NoMsgIsNone == NoMsg \notin Msg
BY PipelineAssumption DEF NoMsg, Msg

\* What a queue holds after put() and get().
LEMMA RangeAppend ==
  ASSUME NEW s \in Seq(Msg), NEW m \in Msg
  PROVE  /\ Append(s, m) \in Seq(Msg)
         /\ Len(Append(s, m)) = Len(s) + 1
         /\ SeqRange(Append(s, m)) = SeqRange(s) \cup {m}
<1>1. /\ Append(s, m) \in Seq(Msg)
      /\ DOMAIN Append(s, m) = 1..(Len(s) + 1)
      /\ DOMAIN s = 1..Len(s)
      /\ Len(s) \in Nat
      /\ Len(Append(s, m)) = Len(s) + 1
      /\ \A i \in 1..Len(s) : Append(s, m)[i] = s[i]
      /\ Append(s, m)[Len(s) + 1] = m
  OBVIOUS
<1>2. QED
  BY <1>1 DEF SeqRange

LEMMA RangeTail ==
  ASSUME NEW s \in Seq(Msg), s # <<>>
  PROVE  /\ Head(s) \in Msg
         /\ Tail(s) \in Seq(Msg)
         /\ Len(Tail(s)) = Len(s) - 1
         /\ SeqRange(s) = SeqRange(Tail(s)) \cup {Head(s)}
<1>1. /\ Tail(s) \in Seq(Msg)
      /\ Head(s) \in Msg
      /\ Head(s) = s[1]
      /\ Len(s) \in Nat \ {0}
      /\ Len(Tail(s)) = Len(s) - 1
      /\ DOMAIN s = 1..Len(s)
      /\ DOMAIN Tail(s) = 1..(Len(s) - 1)
      /\ \A i \in 1..(Len(s) - 1) : Tail(s)[i] = s[i + 1]
  OBVIOUS
<1>2. \A i \in 1..Len(s) : i = 1 \/ (i - 1 \in 1..(Len(s) - 1) /\ s[i] = Tail(s)[i - 1])
  BY <1>1
<1>3. ASSUME NEW m \in SeqRange(s) PROVE m \in SeqRange(Tail(s)) \cup {Head(s)}
  <2>1. PICK i \in 1..Len(s) : m = s[i]
    BY <1>1, <1>3 DEF SeqRange
  <2>2. CASE i = 1
    BY <1>1, <2>1, <2>2
  <2>3. CASE i # 1
    <3>1. i - 1 \in DOMAIN Tail(s) /\ m = Tail(s)[i - 1]
      BY <1>1, <1>2, <2>1, <2>3
    <3>2. QED
      BY <3>1 DEF SeqRange
  <2>4. QED
    BY <2>2, <2>3
<1>4. \A i \in 1..(Len(s) - 1) : i + 1 \in 1..Len(s)
  BY <1>1
<1>5. SeqRange(Tail(s)) \subseteq SeqRange(s)
  BY <1>1, <1>4 DEF SeqRange
<1>6. Head(s) \in SeqRange(s)
  <2>1. 1 \in 1..Len(s)
    BY <1>1
  <2>2. QED
    BY <1>1, <2>1 DEF SeqRange
<1>7. QED
  BY <1>1, <1>3, <1>5, <1>6

\* An accepted message joins its queue, and its queue owes one task more.
LEMMA EnqueueKeeps ==
  ASSUME PipelineInv, NEW m \in Msg, ~Full(QueueOf(m)), Enqueue(m),
         UNCHANGED <<wpc, hand, done, mainVars>>
  PROVE  /\ queue' \in [Worker -> Seq(Msg)]
         /\ \A w \in Worker : Len(queue'[w]) <= Capacity
         /\ unfinished' \in [Worker -> Nat]
         /\ HandOK' /\ TasksOwed' /\ DrainOK'
<1> DEFINE q == QueueOf(m)
<1>1. q \in Worker
  BY PipelineAssumption DEF QueueOf, Msg
<1>2. /\ queue' = [queue EXCEPT ![q] = Append(queue[q], m)]
      /\ unfinished' = [unfinished EXCEPT ![q] = unfinished[q] + 1]
      /\ ~(Len(queue[q]) >= Capacity)
  BY DEF Enqueue, Full
<1> HIDE DEF q
<1>3. /\ queue \in [Worker -> Seq(Msg)]
      /\ \A w \in Worker : Len(queue[w]) <= Capacity
      /\ unfinished \in [Worker -> Nat]
  BY DEF PipelineInv, TypeOK
<1>4. /\ Append(queue[q], m) \in Seq(Msg)
      /\ Len(Append(queue[q], m)) = Len(queue[q]) + 1
      /\ SeqRange(Append(queue[q], m)) = SeqRange(queue[q]) \cup {m}
  BY <1>1, <1>3, RangeAppend
<1>5. queue' \in [Worker -> Seq(Msg)] /\ unfinished' \in [Worker -> Nat]
  BY <1>1, <1>2, <1>3, <1>4
<1>6. \A w \in Worker : Len(queue'[w]) <= Capacity
  <2>1. Len(queue[q]) \in Nat /\ Capacity \in Nat
    BY <1>1, <1>3, PipelineAssumption
  <2>2. QED
    BY <1>1, <1>2, <1>3, <1>4, <2>1
<1>7. HandOK'
  BY DEF PipelineInv, HandOK
<1>8. TasksOwed'
  <2>1. TasksOwed /\ hand' = hand
    BY DEF PipelineInv
  <2>2. \A w \in Worker : InHand(w)' = InHand(w) /\ InHand(w) \in Nat
    BY <2>1 DEF InHand
  <2>3. Len(queue[q]) \in Nat
    BY <1>1, <1>3
  <2>4. \A w \in Worker : unfinished'[w] = Len(queue'[w]) + InHand(w)
    BY <1>1, <1>2, <1>3, <1>4, <2>1, <2>2, <2>3 DEF TasksOwed
  <2>5. QED
    BY <2>2, <2>4 DEF TasksOwed
<1>9. DrainOK'
  <2>1. \A w \in Worker : Held(w) \subseteq Held(w)'
    BY <1>1, <1>2, <1>3, <1>4 DEF Held
  <2>2. QED
    BY <2>1 DEF PipelineInv, DrainOK, mainVars
<1>10. QED
  BY <1>5, <1>6, <1>7, <1>8, <1>9
-----------------------------------------------------------------------------
LEMMA InitPipeline == Init => PipelineInv
<1>1. SUFFICES ASSUME Init PROVE PipelineInv
  OBVIOUS
<1>2. TypeOK
  <2>1. 1 \in 1..(NWorker + 1)
    BY PipelineAssumption
  <2>2. nread \in [Receiver -> Nat] /\ \A r \in Receiver : nread[r] <= MaxMsg[r]
    BY <1>1, PipelineAssumption DEF Init
  <2>3. queue \in [Worker -> Seq(Msg)] /\ \A w \in Worker : Len(queue[w]) <= Capacity
    <3>1. Len(<<>>) = 0 /\ 0 <= Capacity /\ <<>> \in Seq(Msg)
      BY PipelineAssumption
    <3>2. queue = [w \in Worker |-> <<>>]
      BY <1>1 DEF Init
    <3>3. QED
      BY <3>1, <3>2
  <2>4. stats \in [processed : Nat, failed : Nat, dropped : Nat]
    BY <1>1 DEF Init
  <2>5. /\ putting \in [Receiver -> Msg \cup {NoMsg}]
        /\ unfinished \in [Worker -> Nat]
        /\ wpc \in [Worker -> {"check", "get", "busy", "exited"}]
        /\ hand \in [Worker -> Msg \cup {NoMsg}]
    BY <1>1 DEF Init
  <2>6. done \in Seq(Msg) /\ before \in SUBSET Msg /\ draining \in 1..(NWorker + 1)
    BY <1>1, <2>1 DEF Init
  <2>7. stop \in BOOLEAN /\ timedOut \in BOOLEAN
    BY <1>1, Zenon DEF Init
  <2>8. main \in {"up", "drain", "joining", "gone"}
    BY <1>1 DEF Init
  <2>9. QED
    BY <2>2, <2>3, <2>4, <2>5, <2>6, <2>7, <2>8 DEF TypeOK
<1>3. HandOK /\ TasksOwed /\ DrainOK
  BY <1>1 DEF Init, HandOK, TasksOwed, InHand, DrainOK
<1>4. QED
  BY <1>2, <1>3 DEF PipelineInv

LEMMA DropType ==
  ASSUME PipelineInv, Drop
  PROVE  stats' \in [processed : Nat, failed : Nat, dropped : Nat]
<1>1. stats \in [processed : Nat, failed : Nat, dropped : Nat]
  BY DEF PipelineInv, TypeOK
<1>2. QED
  BY <1>1 DEF Drop

LEMMA ReceiveKeeps ==
  ASSUME PipelineInv, NEW r \in Receiver, NEW s \in Source, Receive(r, s)
  PROVE  PipelineInv'
<1> DEFINE m == [src |-> s, rcv |-> r, n |-> nread[r] + 1]
<1>1. /\ nread[r] < MaxMsg[r]
      /\ nread' = [nread EXCEPT ![r] = nread[r] + 1]
      /\ UNCHANGED <<wpc, hand, done, mainVars>>
  BY DEF Receive
<1>2. nread \in [Receiver -> Nat] /\ MaxMsg \in [Receiver -> Nat]
  BY PipelineAssumption DEF PipelineInv, TypeOK
<1>3. m \in Msg
  <2>1. nread[r] + 1 \in 1..MaxMsg[r]
    BY <1>1, <1>2
  <2>2. QED
    BY <2>1 DEF Msg
<1>4. nread' \in [Receiver -> Nat] /\ \A p \in Receiver : nread'[p] <= MaxMsg[p]
  BY <1>1, <1>2 DEF PipelineInv, TypeOK
<1> HIDE DEF m
<1>5. CASE ~Full(QueueOf(m)) /\ Enqueue(m) /\ UNCHANGED <<putting, stats>>
  <2>1. /\ queue' \in [Worker -> Seq(Msg)]
        /\ \A w \in Worker : Len(queue'[w]) <= Capacity
        /\ unfinished' \in [Worker -> Nat]
        /\ HandOK' /\ TasksOwed' /\ DrainOK'
    BY <1>1, <1>3, <1>5, EnqueueKeeps
  <2>2. QED
    BY <1>1, <1>4, <1>5, <2>1 DEF PipelineInv, TypeOK, mainVars
<1>6. CASE Drop /\ UNCHANGED <<putting, queue, unfinished>>
  <2>1. TypeOK'
    BY <1>1, <1>4, <1>6, DropType DEF PipelineInv, TypeOK, mainVars
  <2>2. HandOK' /\ TasksOwed' /\ DrainOK'
    BY <1>1, <1>6 DEF PipelineInv, HandOK, TasksOwed, InHand, DrainOK, Held, mainVars
  <2>3. QED
    BY <2>1, <2>2 DEF PipelineInv
<1>7. CASE putting' = [putting EXCEPT ![r] = m] /\ UNCHANGED <<queue, unfinished, stats>>
  BY <1>1, <1>3, <1>4, <1>7
  DEF PipelineInv, TypeOK, HandOK, TasksOwed, InHand, DrainOK, Held, mainVars
<1>8. QED
  BY <1>5, <1>6, <1>7 DEF Receive, m

LEMMA PutBlockedKeeps ==
  ASSUME PipelineInv, NEW r \in Receiver, PutBlocked(r)
  PROVE  PipelineInv'
<1>1. /\ putting[r] # NoMsg
      /\ putting' = [putting EXCEPT ![r] = NoMsg]
      /\ UNCHANGED <<nread, wpc, hand, done, mainVars>>
  BY DEF PutBlocked
<1>2. putting[r] \in Msg /\ putting' \in [Receiver -> Msg \cup {NoMsg}]
  BY <1>1 DEF PipelineInv, TypeOK
<1>3. CASE ~Full(QueueOf(putting[r])) /\ Enqueue(putting[r]) /\ UNCHANGED stats
  <2>1. /\ queue' \in [Worker -> Seq(Msg)]
        /\ \A w \in Worker : Len(queue'[w]) <= Capacity
        /\ unfinished' \in [Worker -> Nat]
        /\ HandOK' /\ TasksOwed' /\ DrainOK'
    BY <1>1, <1>2, <1>3, EnqueueKeeps
  <2>2. QED
    BY <1>1, <1>2, <1>3, <2>1 DEF PipelineInv, TypeOK, mainVars
<1>4. CASE Drop /\ UNCHANGED <<queue, unfinished>>
  <2>1. TypeOK'
    BY <1>1, <1>2, <1>4, DropType DEF PipelineInv, TypeOK, mainVars
  <2>2. HandOK' /\ TasksOwed' /\ DrainOK'
    BY <1>1, <1>4 DEF PipelineInv, HandOK, TasksOwed, InHand, DrainOK, Held, mainVars
  <2>3. QED
    BY <2>1, <2>2 DEF PipelineInv
<1>5. QED
  BY <1>3, <1>4 DEF PutBlocked

LEMMA CheckKeeps ==
  ASSUME PipelineInv, NEW w \in Worker, Check(w)
  PROVE  PipelineInv'
<1>1. /\ wpc[w] = "check"
      /\ wpc' = [wpc EXCEPT ![w] = IF stop /\ queue[w] = <<>> THEN "exited" ELSE "get"]
      /\ UNCHANGED <<nread, putting, queue, unfinished, hand, stats, done, mainVars>>
  BY DEF Check
<1>2. TypeOK'
  BY <1>1 DEF PipelineInv, TypeOK, mainVars
<1>3. HandOK'
  BY <1>1 DEF PipelineInv, TypeOK, HandOK
<1>4. TasksOwed' /\ DrainOK'
  BY <1>1 DEF PipelineInv, TasksOwed, InHand, DrainOK, Held, mainVars
<1>5. QED
  BY <1>2, <1>3, <1>4 DEF PipelineInv

\* get(): the message moves from the queue into the worker's hand.
LEMMA GetKeeps ==
  ASSUME PipelineInv, NEW w \in Worker, Get(w)
  PROVE  PipelineInv'
<1>1. wpc[w] = "get" /\ UNCHANGED <<nread, putting, unfinished, stats, done, mainVars>>
  BY DEF Get
<1>2. queue[w] \in Seq(Msg) /\ hand[w] = NoMsg
  BY <1>1 DEF PipelineInv, TypeOK, HandOK
<1>3. CASE /\ queue[w] # <<>>
           /\ hand' = [hand EXCEPT ![w] = Head(queue[w])]
           /\ queue' = [queue EXCEPT ![w] = Tail(queue[w])]
           /\ wpc' = [wpc EXCEPT ![w] = "busy"]
  <2>1. /\ Head(queue[w]) \in Msg /\ Head(queue[w]) # NoMsg
        /\ Tail(queue[w]) \in Seq(Msg)
        /\ Len(Tail(queue[w])) = Len(queue[w]) - 1
        /\ SeqRange(queue[w]) = SeqRange(Tail(queue[w])) \cup {Head(queue[w])}
    BY <1>2, <1>3, RangeTail, NoMsgIsNone
  <2>2. Len(queue[w]) \in Nat
    BY <1>2
  <2>3. TypeOK'
    <3>1. \A v \in Worker : Len(queue'[v]) <= Capacity
      BY <1>3, <2>1, <2>2, PipelineAssumption DEF PipelineInv, TypeOK
    <3>2. /\ queue' \in [Worker -> Seq(Msg)]
          /\ hand' \in [Worker -> Msg \cup {NoMsg}]
          /\ wpc' \in [Worker -> {"check", "get", "busy", "exited"}]
      BY <1>3, <2>1 DEF PipelineInv, TypeOK
    <3>3. QED
      BY <1>1, <3>1, <3>2 DEF PipelineInv, TypeOK, mainVars
  <2>4. HandOK'
    BY <1>3, <2>1 DEF PipelineInv, TypeOK, HandOK
  <2>5. TasksOwed'
    <3>1. ASSUME NEW v \in Worker PROVE (unfinished[v] = Len(queue[v]) + InHand(v))'
      <4>1. CASE v = w
        BY <1>1, <1>2, <1>3, <2>1, <2>2, <4>1 DEF PipelineInv, TypeOK, TasksOwed, InHand
      <4>2. CASE v # w
        BY <1>1, <1>3, <4>2 DEF PipelineInv, TypeOK, TasksOwed, InHand
      <4>3. QED
        BY <4>1, <4>2
    <3>2. QED
      BY <3>1 DEF TasksOwed
  <2>6. DrainOK'
    <3>1. \A v \in Worker : Held(v)' = Held(v)
      BY <1>2, <1>3, <2>1 DEF PipelineInv, TypeOK, Held
    <3>2. QED
      BY <1>1, <3>1 DEF PipelineInv, DrainOK, mainVars
  <2>7. QED
    BY <2>3, <2>4, <2>5, <2>6 DEF PipelineInv
<1>4. CASE /\ queue[w] = <<>>
           /\ wpc' = [wpc EXCEPT ![w] = "check"]
           /\ UNCHANGED <<hand, queue>>
  <2>1. TypeOK'
    BY <1>1, <1>4 DEF PipelineInv, TypeOK, mainVars
  <2>2. HandOK'
    BY <1>1, <1>4 DEF PipelineInv, TypeOK, HandOK
  <2>3. TasksOwed' /\ DrainOK'
    BY <1>1, <1>4 DEF PipelineInv, TasksOwed, InHand, DrainOK, Held, mainVars
  <2>4. QED
    BY <2>1, <2>2, <2>3 DEF PipelineInv
<1>5. QED
  BY <1>3, <1>4 DEF Get

\* task_done(): the message in hand is done.
LEMMA ProcessKeeps ==
  ASSUME PipelineInv, NEW w \in Worker, Process(w)
  PROVE  PipelineInv'
<1>1. /\ wpc[w] = "busy"
      /\ done' = Append(done, hand[w])
      /\ unfinished' = [unfinished EXCEPT ![w] = unfinished[w] - 1]
      /\ hand' = [hand EXCEPT ![w] = NoMsg]
      /\ wpc' = [wpc EXCEPT ![w] = "check"]
      /\ UNCHANGED <<nread, putting, queue, mainVars>>
  BY DEF Process
<1>2. hand[w] # NoMsg /\ hand[w] \in Msg /\ done \in Seq(Msg)
  BY <1>1 DEF PipelineInv, TypeOK, HandOK
<1>3. unfinished[w] = Len(queue[w]) + 1 /\ Len(queue[w]) \in Nat
  BY <1>2 DEF PipelineInv, TypeOK, TasksOwed, InHand
<1>4. done' \in Seq(Msg) /\ SeqRange(done') = SeqRange(done) \cup {hand[w]}
  BY <1>1, <1>2, RangeAppend
<1>5. stats' \in [processed : Nat, failed : Nat, dropped : Nat]
  <2>1. PICK result \in {"processed", "failed"} :
          stats' = [stats EXCEPT ![result] = stats[result] + 1]
    BY DEF Process
  <2>2. stats \in [processed : Nat, failed : Nat, dropped : Nat]
    BY DEF PipelineInv, TypeOK
  <2>3. CASE result = "processed"
    BY <2>1, <2>2, <2>3
  <2>4. CASE result = "failed"
    BY <2>1, <2>2, <2>4
  <2>5. QED
    BY <2>3, <2>4
<1>6. TypeOK'
  <2>1. /\ unfinished' \in [Worker -> Nat]
        /\ hand' \in [Worker -> Msg \cup {NoMsg}]
        /\ wpc' \in [Worker -> {"check", "get", "busy", "exited"}]
    BY <1>1, <1>3 DEF PipelineInv, TypeOK
  <2>2. QED
    BY <1>1, <1>4, <1>5, <2>1 DEF PipelineInv, TypeOK, mainVars
<1>7. HandOK'
  BY <1>1 DEF PipelineInv, TypeOK, HandOK
<1>8. TasksOwed'
  <2>1. ASSUME NEW v \in Worker PROVE (unfinished[v] = Len(queue[v]) + InHand(v))'
    <3>1. CASE v = w
      BY <1>1, <1>3, <3>1 DEF PipelineInv, TypeOK, InHand
    <3>2. CASE v # w
      BY <1>1, <3>2 DEF PipelineInv, TypeOK, TasksOwed, InHand
    <3>3. QED
      BY <3>1, <3>2
  <2>2. QED
    BY <2>1 DEF TasksOwed
<1>9. DrainOK'
  <2>1. \A v \in Worker : Held(v) \subseteq Held(v)' \cup SeqRange(done')
    BY <1>1, <1>4 DEF PipelineInv, TypeOK, Held
  <2>2. UNCHANGED mainVars
    BY <1>1
  <2>3. QED
    BY <1>4, <2>1, <2>2 DEF PipelineInv, DrainOK, mainVars
<1>10. QED
  BY <1>6, <1>7, <1>8, <1>9 DEF PipelineInv

\* The shutdown begins: what was accepted is with the workers.
LEMMA SigtermKeeps ==
  ASSUME PipelineInv, Sigterm
  PROVE  PipelineInv'
<1>1. /\ main = "up" /\ main' = "drain" /\ before' = InPipeline
      /\ UNCHANGED <<nread, putting, queue, unfinished, wpc, hand, stats, done, stop,
                     draining, timedOut>>
  BY DEF Sigterm
<1>2. InPipeline \in SUBSET Msg
  BY DEF PipelineInv, TypeOK, InPipeline, SeqRange
<1>3. TypeOK' /\ HandOK' /\ TasksOwed'
  BY <1>1, <1>2 DEF PipelineInv, TypeOK, HandOK, TasksOwed, InHand
<1>4. DrainOK'
  <2>1. draining' = 1 /\ ~stop'
    BY <1>1 DEF PipelineInv, DrainOK
  <2>2. \A m \in before' : \E w \in Worker : w >= 1 /\ m \in Held(w)'
    BY <1>1 DEF InPipeline, Held, Worker
  <2>3. QED
    BY <1>1, <2>1, <2>2 DEF DrainOK
<1>5. QED
  BY <1>3, <1>4 DEF PipelineInv

\* A queue without an unfinished task holds none of the messages waited for.
LEMMA DrainNextKeeps ==
  ASSUME PipelineInv, DrainNext
  PROVE  PipelineInv'
<1>1. /\ main = "drain" /\ draining <= NWorker
      /\ unfinished[draining] = 0
      /\ draining' = draining + 1
      /\ UNCHANGED <<nread, putting, queue, unfinished, wpc, hand, stats, done, stop,
                     main, timedOut, before>>
  BY DEF DrainNext
<1>2. draining \in Worker /\ draining \in Nat /\ NWorker \in Nat
  BY <1>1, PipelineAssumption DEF PipelineInv, TypeOK, Worker
<1>3. TypeOK' /\ HandOK' /\ TasksOwed'
  BY <1>1, <1>2 DEF PipelineInv, TypeOK, HandOK, TasksOwed, InHand
<1>4. Held(draining) = {}
  <2>1. Len(queue[draining]) + InHand(draining) = 0 /\ Len(queue[draining]) \in Nat
    BY <1>1, <1>2 DEF PipelineInv, TypeOK, TasksOwed
  <2>2. hand[draining] = NoMsg /\ Len(queue[draining]) = 0
    <3>1. InHand(draining) \in {0, 1}
      BY DEF InHand
    <3>2. InHand(draining) = 0 /\ Len(queue[draining]) = 0
      BY <2>1, <3>1
    <3>3. QED
      BY <3>2 DEF InHand
  <2>3. queue[draining] = <<>>
    BY <1>2, <2>2 DEF PipelineInv, TypeOK
  <2>4. QED
    BY <2>2, <2>3 DEF Held, SeqRange
<1>5. DrainOK'
  <2>1. ~stop'
    BY <1>1, <1>2 DEF PipelineInv, DrainOK
  <2>2. \A w \in Worker : Held(w)' = Held(w) /\ w \in Nat
    BY <1>1 DEF Held, Worker
  <2>3. \A w \in Worker, m \in before :
          w >= draining /\ m \in Held(w) => w >= draining + 1
    BY <1>2, <1>4, <2>2
  <2>4. QED
    BY <1>1, <2>1, <2>2, <2>3 DEF PipelineInv, DrainOK
<1>6. QED
  BY <1>3, <1>5 DEF PipelineInv

\* The rest of main(): nothing is promised once the deadline has passed, and
\* _stop is set when every queue has been waited for.
LEMMA EndKeeps ==
  ASSUME PipelineInv, DrainTimeout \/ SetStop \/ Exit
  PROVE  PipelineInv'
<1>1. UNCHANGED <<nread, putting, queue, unfinished, wpc, hand, stats, done, before>>
  BY DEF DrainTimeout, SetStop, Exit
<1>2. TypeOK'
  <2>1. NWorker + 1 \in 1..(NWorker + 1)
    BY PipelineAssumption
  <2>2. QED
    BY <1>1, <2>1 DEF PipelineInv, TypeOK, DrainTimeout, SetStop, Exit
<1>3. HandOK' /\ TasksOwed'
  BY <1>1 DEF PipelineInv, HandOK, TasksOwed, InHand
<1>4. DrainOK'
  <2>1. \A w \in Worker : Held(w)' = Held(w)
    BY <1>1 DEF Held
  <2>2. QED
    BY <1>1, <2>1 DEF PipelineInv, DrainOK, DrainTimeout, SetStop, Exit
<1>5. QED
  BY <1>2, <1>3, <1>4 DEF PipelineInv

LEMMA NextPipeline == PipelineInv /\ [Next]_vars => PipelineInv'
<1>1. SUFFICES ASSUME PipelineInv, [Next]_vars PROVE PipelineInv'
  OBVIOUS
<1>2. CASE UNCHANGED vars
  BY <1>1, <1>2
  DEF PipelineInv, TypeOK, HandOK, TasksOwed, InHand, DrainOK, Held, vars
<1>3. CASE \E r \in Receiver, s \in Source : Receive(r, s)
  BY <1>1, <1>3, ReceiveKeeps
<1>4. CASE \E r \in Receiver : PutBlocked(r)
  BY <1>1, <1>4, PutBlockedKeeps
<1>5. CASE \E w \in Worker : Check(w) \/ Get(w) \/ Process(w)
  BY <1>1, <1>5, CheckKeeps, GetKeeps, ProcessKeeps
<1>6. CASE Sigterm
  BY <1>1, <1>6, SigtermKeeps
<1>7. CASE DrainNext
  BY <1>1, <1>7, DrainNextKeeps
<1>8. CASE DrainTimeout \/ SetStop \/ Exit
  BY <1>1, <1>8, EndKeeps
<1>9. QED
  BY <1>1, <1>2, <1>3, <1>4, <1>5, <1>6, <1>7, <1>8 DEF Next

LEMMA PipelineAlways == Spec => []PipelineInv
<1>1. QED
  BY InitPipeline, NextPipeline, PTL DEF Spec

-----------------------------------------------------------------------------
\* m, if it comes from the sender of x over the same receiver, came later.
Older(x, m) == x.src = m.src /\ x.rcv = m.rcv => x.n < m.n

Sorted(s) == \A i, k \in DOMAIN s : i < k => Older(s[i], s[k])

\* m has been put into a queue: its receiver has read it and does not block on it.
Submitted(m) ==
  m.n <= nread[m.rcv] /\ (putting[m.rcv] # NoMsg => m.n < nread[m.rcv])

\* The way of a sender's messages: through the queue of one worker, the worker's
\* hand and `done', which are in order each and one after the other.
OrderInv ==
  /\ \A r \in Receiver :
       putting[r] # NoMsg => putting[r].rcv = r /\ putting[r].n = nread[r]
  /\ Sorted(done)
  /\ \A x \in SeqRange(done) : Submitted(x)
  /\ \A w \in Worker :
       /\ Sorted(queue[w])
       /\ \A m \in SeqRange(queue[w]) :
            QueueOf(m) = w /\ Submitted(m) /\ \A x \in SeqRange(done) : Older(x, m)
       /\ hand[w] # NoMsg =>
            /\ QueueOf(hand[w]) = w /\ Submitted(hand[w])
            /\ \A x \in SeqRange(done) : Older(x, hand[w])
            /\ \A m \in SeqRange(queue[w]) : Older(hand[w], m)

LEMMA SortedAppend ==
  ASSUME NEW s \in Seq(Msg), NEW m \in Msg, Sorted(s),
         \A x \in SeqRange(s) : Older(x, m)
  PROVE  Sorted(Append(s, m))
<1>1. /\ DOMAIN Append(s, m) = 1..(Len(s) + 1)
      /\ DOMAIN s = 1..Len(s)
      /\ Len(s) \in Nat
      /\ \A i \in 1..Len(s) : Append(s, m)[i] = s[i]
      /\ Append(s, m)[Len(s) + 1] = m
  OBVIOUS
<1>2. \A i \in 1..Len(s) : Older(s[i], m)
  BY <1>1 DEF SeqRange
<1>3. SUFFICES ASSUME NEW i \in 1..(Len(s) + 1), NEW k \in 1..(Len(s) + 1), i < k
               PROVE  Older(Append(s, m)[i], Append(s, m)[k])
  BY <1>1 DEF Sorted
<1>4. i \in 1..Len(s)
  BY <1>1, <1>3
<1>5. CASE k \in 1..Len(s)
  BY <1>1, <1>3, <1>4, <1>5 DEF Sorted
<1>6. CASE k = Len(s) + 1
  BY <1>1, <1>2, <1>4, <1>6
<1>7. QED
  BY <1>1, <1>3, <1>5, <1>6

LEMMA SortedTail ==
  ASSUME NEW s \in Seq(Msg), s # <<>>, Sorted(s)
  PROVE  /\ Sorted(Tail(s))
         /\ \A m \in SeqRange(Tail(s)) : Older(Head(s), m)
<1>1. /\ Head(s) = s[1]
      /\ Len(s) \in Nat \ {0}
      /\ DOMAIN s = 1..Len(s)
      /\ DOMAIN Tail(s) = 1..(Len(s) - 1)
      /\ \A i \in 1..(Len(s) - 1) : Tail(s)[i] = s[i + 1]
  OBVIOUS
<1>2. \A i \in 1..(Len(s) - 1) : i + 1 \in 1..Len(s) /\ 1 < i + 1
  BY <1>1
<1>3. Sorted(Tail(s))
  <2>1. SUFFICES ASSUME NEW i \in 1..(Len(s) - 1), NEW k \in 1..(Len(s) - 1), i < k
                 PROVE  Older(Tail(s)[i], Tail(s)[k])
    BY <1>1 DEF Sorted
  <2>2. i + 1 < k + 1
    BY <2>1
  <2>3. QED
    BY <1>1, <1>2, <2>1, <2>2 DEF Sorted
<1>4. ASSUME NEW m \in SeqRange(Tail(s)) PROVE Older(Head(s), m)
  <2>1. PICK i \in 1..(Len(s) - 1) : m = Tail(s)[i]
    BY <1>1, <1>4 DEF SeqRange
  <2>2. 1 \in DOMAIN s /\ i + 1 \in DOMAIN s /\ 1 < i + 1
    BY <1>1, <1>2
  <2>3. QED
    BY <1>1, <2>1, <2>2 DEF Sorted
<1>5. QED
  BY <1>3, <1>4

\* A message that is newer than every submitted one of its receiver joins its queue.
LEMMA EnqueueOrder ==
  ASSUME PipelineInv, OrderInv, NEW m \in Msg, Enqueue(m), UNCHANGED <<hand, done>>,
         \A x \in Msg : Submitted(x) => Submitted(x)' /\ Older(x, m),
         Submitted(m)',
         \A r \in Receiver :
           putting'[r] # NoMsg => putting'[r].rcv = r /\ putting'[r].n = nread'[r]
  PROVE  OrderInv'
<1> DEFINE q == QueueOf(m)
<1>1. q \in Worker
  BY PipelineAssumption DEF QueueOf, Msg
<1>2. queue' = [queue EXCEPT ![q] = Append(queue[q], m)]
  BY DEF Enqueue
<1>3. /\ \A w \in Worker : queue[w] \in Seq(Msg)
      /\ \A w \in Worker : hand[w] # NoMsg => hand[w] \in Msg
      /\ done \in Seq(Msg)
      /\ DOMAIN queue = Worker
  BY DEF PipelineInv, TypeOK
<1>4. /\ \A w \in Worker : \A x \in SeqRange(queue[w]) : x \in Msg
      /\ \A x \in SeqRange(done) : x \in Msg
  BY <1>3 DEF SeqRange
<1> HIDE DEF q
<1>5. SeqRange(queue'[q]) = SeqRange(queue[q]) \cup {m}
  BY <1>1, <1>2, <1>3, RangeAppend
<1>6. Sorted(queue'[q])
  <2>1. \A x \in SeqRange(queue[q]) : Older(x, m)
    BY <1>1, <1>4 DEF OrderInv
  <2>2. Sorted(queue[q])
    BY <1>1 DEF OrderInv
  <2>3. QED
    BY <1>1, <1>2, <1>3, <2>1, <2>2, SortedAppend
<1>7. Sorted(done') /\ \A x \in SeqRange(done') : Submitted(x)' /\ Older(x, m)
  BY <1>4 DEF OrderInv
<1>8. ASSUME NEW w \in Worker
      PROVE  /\ Sorted(queue'[w])
             /\ \A x \in SeqRange(queue'[w]) :
                  QueueOf(x) = w /\ Submitted(x)' /\ \A y \in SeqRange(done') : Older(y, x)
             /\ hand'[w] # NoMsg =>
                  /\ QueueOf(hand'[w]) = w /\ Submitted(hand[w])'
                  /\ \A x \in SeqRange(done') : Older(x, hand'[w])
                  /\ \A x \in SeqRange(queue'[w]) : Older(hand'[w], x)
  <2>1. /\ Sorted(queue[w])
        /\ \A x \in SeqRange(queue[w]) :
             /\ QueueOf(x) = w /\ Submitted(x)' /\ Older(x, m)
             /\ \A y \in SeqRange(done) : Older(y, x)
        /\ hand[w] # NoMsg =>
             /\ QueueOf(hand[w]) = w /\ Submitted(hand[w])' /\ Older(hand[w], m)
             /\ \A x \in SeqRange(done) : Older(x, hand[w])
             /\ \A x \in SeqRange(queue[w]) : Older(hand[w], x)
    BY <1>3, <1>4 DEF OrderInv
  <2>2. CASE w = q
    BY <1>5, <1>6, <1>7, <2>1, <2>2 DEF q
  <2>3. CASE w # q
    <3>1. queue'[w] = queue[w]
      BY <1>2, <1>3, <2>3
    <3>2. QED
      BY <2>1, <3>1
  <2>4. QED
    BY <2>2, <2>3
<1>9. \A x : QueueOf(x)' = QueueOf(x) /\ \A y : Older(y, x)' = Older(y, x)
  BY DEF QueueOf, Older
<1>10. QED
  BY <1>7, <1>8 DEF OrderInv

LEMMA InitOrder == Init => OrderInv
BY PipelineAssumption DEF Init, OrderInv, Sorted, SeqRange

LEMMA ReceiveOrder ==
  ASSUME PipelineInv, OrderInv, NEW r \in Receiver, NEW s \in Source, Receive(r, s)
  PROVE  OrderInv'
<1> DEFINE msg == [src |-> s, rcv |-> r, n |-> nread[r] + 1]
<1>1. /\ nread[r] < MaxMsg[r] /\ putting[r] = NoMsg
      /\ nread' = [nread EXCEPT ![r] = nread[r] + 1]
      /\ UNCHANGED <<wpc, hand, done, mainVars>>
  BY DEF Receive
<1>2. /\ nread \in [Receiver -> Nat] /\ MaxMsg \in [Receiver -> Nat]
      /\ putting \in [Receiver -> Msg \cup {NoMsg}]
      /\ \A w \in Worker : hand[w] # NoMsg => hand[w] \in Msg
      /\ \A w \in Worker : \A x \in SeqRange(queue[w]) : x \in Msg
      /\ \A x \in SeqRange(done) : x \in Msg
  BY PipelineAssumption DEF PipelineInv, TypeOK, SeqRange
<1>3. PICK m \in Msg : m = msg
  <2>1. nread[r] + 1 \in 1..MaxMsg[r]
    BY <1>1, <1>2
  <2>2. msg \in Msg
    BY <2>1 DEF Msg
  <2> HIDE DEF msg
  <2>3. QED
    BY <2>2
<1>4. \A x \in Msg : x.rcv \in Receiver /\ x.n \in Nat
  BY <1>2 DEF Msg
<1>5. m.rcv = r /\ m.n = nread[r] + 1
  BY <1>3
<1> HIDE DEF msg
<1>6. \A x \in Msg : Submitted(x) => x.n < nread'[x.rcv] \/ (x.rcv # r /\ nread'[x.rcv] = nread[x.rcv])
  BY <1>1, <1>2, <1>4 DEF Submitted
<1>7. CASE Enqueue(m) /\ UNCHANGED putting
  <2>1. \A x \in Msg : Submitted(x) => Submitted(x)' /\ Older(x, m)
    BY <1>1, <1>2, <1>4, <1>5, <1>7 DEF Submitted, Older
  <2>2. Submitted(m)'
    BY <1>1, <1>2, <1>5, <1>7 DEF Submitted
  <2>3. \A p \in Receiver :
          putting'[p] # NoMsg => putting'[p].rcv = p /\ putting'[p].n = nread'[p]
    BY <1>1, <1>2, <1>7 DEF OrderInv
  <2>4. QED
    BY <1>1, <1>3, <1>7, <2>1, <2>2, <2>3, EnqueueOrder
<1>8. CASE putting' \in {putting, [putting EXCEPT ![r] = m]} /\ UNCHANGED queue
  <2>1. \A x \in Msg : Submitted(x) => Submitted(x)'
    BY <1>1, <1>2, <1>4, <1>6, <1>8 DEF Submitted
  <2>2. \A p \in Receiver :
          putting'[p] # NoMsg => putting'[p].rcv = p /\ putting'[p].n = nread'[p]
    BY <1>1, <1>2, <1>5, <1>8 DEF OrderInv
  <2>3. QED
    BY <1>1, <1>2, <1>8, <2>1, <2>2 DEF OrderInv
<1>9. QED
  BY <1>3, <1>7, <1>8 DEF Receive, msg

LEMMA PutBlockedOrder ==
  ASSUME PipelineInv, OrderInv, NEW r \in Receiver, PutBlocked(r)
  PROVE  OrderInv'
<1>1. /\ putting[r] # NoMsg
      /\ putting' = [putting EXCEPT ![r] = NoMsg]
      /\ UNCHANGED <<nread, wpc, hand, done, mainVars>>
  BY DEF PutBlocked
<1>2. /\ nread \in [Receiver -> Nat]
      /\ putting \in [Receiver -> Msg \cup {NoMsg}]
      /\ \A w \in Worker : hand[w] # NoMsg => hand[w] \in Msg
      /\ \A w \in Worker : \A x \in SeqRange(queue[w]) : x \in Msg
      /\ \A x \in SeqRange(done) : x \in Msg
  BY DEF PipelineInv, TypeOK, SeqRange
<1>3. PICK m \in Msg : m = putting[r] /\ m.rcv = r /\ m.n = nread[r]
  BY <1>1, <1>2 DEF OrderInv
<1>4. \A x \in Msg : x.rcv \in Receiver /\ x.n \in Nat
  BY PipelineAssumption DEF Msg
<1>5. \A x \in Msg : Submitted(x) => Submitted(x)' /\ Older(x, m)
  BY <1>1, <1>2, <1>3, <1>4 DEF Submitted, Older
<1>6. \A p \in Receiver :
        putting'[p] # NoMsg => putting'[p].rcv = p /\ putting'[p].n = nread'[p]
  BY <1>1, <1>2 DEF OrderInv
<1>7. Submitted(m)'
  BY <1>1, <1>2, <1>3 DEF Submitted
<1>8. CASE Enqueue(m)
  BY <1>1, <1>3, <1>5, <1>6, <1>7, <1>8, EnqueueOrder
<1>9. CASE UNCHANGED queue
  BY <1>1, <1>2, <1>5, <1>6, <1>9 DEF OrderInv
<1>10. QED
  BY <1>3, <1>8, <1>9 DEF PutBlocked

LEMMA GetOrder ==
  ASSUME PipelineInv, OrderInv, NEW w \in Worker, Get(w)
  PROVE  OrderInv'
<1>1. wpc[w] = "get" /\ UNCHANGED <<nread, putting, unfinished, stats, done, mainVars>>
  BY DEF Get
<1>2. queue \in [Worker -> Seq(Msg)] /\ hand \in [Worker -> Msg \cup {NoMsg}]
  BY DEF PipelineInv, TypeOK
<1>3. \A x : Submitted(x)' <=> Submitted(x)
  BY <1>1 DEF Submitted
<1>4. CASE UNCHANGED <<hand, queue>>
  BY <1>1, <1>3, <1>4 DEF OrderInv
<1>5. CASE /\ queue[w] # <<>>
           /\ hand' = [hand EXCEPT ![w] = Head(queue[w])]
           /\ queue' = [queue EXCEPT ![w] = Tail(queue[w])]
  <2>1. SeqRange(queue[w]) = SeqRange(Tail(queue[w])) \cup {Head(queue[w])}
    BY <1>2, <1>5, RangeTail
  <2>2. /\ Sorted(Tail(queue[w]))
        /\ \A m \in SeqRange(Tail(queue[w])) : Older(Head(queue[w]), m)
    BY <1>2, <1>5, SortedTail DEF OrderInv
  <2>3. ASSUME NEW v \in Worker
        PROVE  /\ Sorted(queue'[v])
               /\ \A m \in SeqRange(queue'[v]) :
                    QueueOf(m) = v /\ Submitted(m) /\ \A x \in SeqRange(done) : Older(x, m)
               /\ hand'[v] # NoMsg =>
                    /\ QueueOf(hand'[v]) = v /\ Submitted(hand'[v])
                    /\ \A x \in SeqRange(done) : Older(x, hand'[v])
                    /\ \A m \in SeqRange(queue'[v]) : Older(hand'[v], m)
    <3>1. CASE v = w
      <4>1. queue'[w] = Tail(queue[w]) /\ hand'[w] = Head(queue[w])
        BY <1>2, <1>5
      <4>2. QED
        BY <2>1, <2>2, <3>1, <4>1 DEF OrderInv
    <3>2. CASE v # w
      <4>1. queue'[v] = queue[v] /\ hand'[v] = hand[v]
        BY <1>2, <1>5, <3>2
      <4>2. QED
        BY <4>1 DEF OrderInv
    <3>3. QED
      BY <3>1, <3>2
  <2>4. QED
    BY <1>1, <1>3, <2>3 DEF OrderInv
<1>6. QED
  BY <1>4, <1>5 DEF Get

\* What other workers have is of other senders: QueueOf depends on the sender only.
LEMMA ProcessOrder ==
  ASSUME PipelineInv, OrderInv, NEW w \in Worker, Process(w)
  PROVE  OrderInv'
<1> DEFINE h == hand[w]
<1>1. /\ wpc[w] = "busy"
      /\ done' = Append(done, h)
      /\ hand' = [hand EXCEPT ![w] = NoMsg]
      /\ UNCHANGED <<nread, putting, queue>>
  BY DEF Process
<1>2. h # NoMsg /\ h \in Msg /\ done \in Seq(Msg) /\ DOMAIN hand = Worker
  BY <1>1 DEF PipelineInv, TypeOK, HandOK
<1>3. QueueOf(h) = w /\ Submitted(h) /\ \A x \in SeqRange(done) : Older(x, h)
  BY <1>2 DEF OrderInv
<1>4. \A m : QueueOf(m) # w => Older(h, m)
  BY <1>3 DEF QueueOf, Older
<1> HIDE DEF h
<1>5. SeqRange(done') = SeqRange(done) \cup {h}
  BY <1>1, <1>2, RangeAppend
<1>6. Sorted(done')
  BY <1>1, <1>2, <1>3, SortedAppend DEF OrderInv
<1>7. \A x : Submitted(x)' <=> Submitted(x)
  BY <1>1 DEF Submitted
<1>8. ASSUME NEW v \in Worker
      PROVE  /\ \A m \in SeqRange(queue[v]) : Older(h, m)
             /\ hand'[v] # NoMsg => hand'[v] = hand[v] /\ Older(h, hand[v])
  <2>1. CASE v = w
    BY <1>1, <1>2, <2>1 DEF OrderInv, h
  <2>2. CASE v # w
    BY <1>1, <1>2, <1>4, <2>2 DEF OrderInv
  <2>3. QED
    BY <2>1, <2>2
<1>9. \A r \in Receiver :
        putting'[r] # NoMsg => putting'[r].rcv = r /\ putting'[r].n = nread'[r]
  BY <1>1 DEF OrderInv
<1>10. \A x \in SeqRange(done') : Submitted(x)'
  BY <1>3, <1>5, <1>7 DEF OrderInv
<1>11. ASSUME NEW v \in Worker
       PROVE  /\ Sorted(queue'[v])
              /\ \A m \in SeqRange(queue'[v]) :
                   QueueOf(m) = v /\ Submitted(m)' /\ \A x \in SeqRange(done') : Older(x, m)
              /\ hand'[v] # NoMsg =>
                   /\ QueueOf(hand'[v]) = v /\ Submitted(hand[v])'
                   /\ \A x \in SeqRange(done') : Older(x, hand'[v])
                   /\ \A m \in SeqRange(queue'[v]) : Older(hand'[v], m)
  <2>1. queue'[v] = queue[v]
    BY <1>1
  <2>2. \A m \in SeqRange(queue[v]) :
          QueueOf(m) = v /\ Submitted(m)' /\ \A x \in SeqRange(done') : Older(x, m)
    BY <1>5, <1>7, <1>8 DEF OrderInv
  <2>3. ASSUME hand'[v] # NoMsg
        PROVE  /\ QueueOf(hand[v]) = v /\ Submitted(hand[v])
               /\ \A x \in SeqRange(done') : Older(x, hand[v])
               /\ \A m \in SeqRange(queue[v]) : Older(hand[v], m)
    BY <1>5, <1>8, <2>3 DEF OrderInv
  <2>4. Sorted(queue[v])
    BY DEF OrderInv
  <2>5. hand'[v] # NoMsg => hand'[v] = hand[v]
    BY <1>8
  <2>6. hand'[v] # NoMsg => Submitted(hand[v])'
    <3>1. hand'[v] # NoMsg => Submitted(hand'[v])
      BY <2>3, <2>5
    <3>2. QED
      BY <1>1, <3>1 DEF Submitted
  <2>7. QED
    BY <2>1, <2>2, <2>3, <2>4, <2>5, <2>6
<1>12. QED
  BY <1>6, <1>9, <1>10, <1>11 DEF OrderInv

LEMMA NextOrder == PipelineInv /\ OrderInv /\ [Next]_vars => OrderInv'
<1>1. SUFFICES ASSUME PipelineInv, OrderInv, [Next]_vars PROVE OrderInv'
  OBVIOUS
<1>2. CASE UNCHANGED <<nread, putting, queue, hand, done>>
  BY <1>1, <1>2 DEF OrderInv, Submitted
<1>3. CASE \E r \in Receiver, s \in Source : Receive(r, s)
  BY <1>1, <1>3, ReceiveOrder
<1>4. CASE \E r \in Receiver : PutBlocked(r)
  BY <1>1, <1>4, PutBlockedOrder
<1>5. CASE \E w \in Worker : Get(w)
  BY <1>1, <1>5, GetOrder
<1>6. CASE \E w \in Worker : Process(w)
  BY <1>1, <1>6, ProcessOrder
<1>7. (\E w \in Worker : Check(w)) \/ Sigterm \/ DrainNext \/ DrainTimeout \/ SetStop \/ Exit
        \/ UNCHANGED vars
        => UNCHANGED <<nread, putting, queue, hand, done>>
  BY DEF Check, Sigterm, DrainNext, DrainTimeout, SetStop, Exit, vars
<1>8. QED
  BY <1>1, <1>2, <1>3, <1>4, <1>5, <1>6, <1>7 DEF Next
-----------------------------------------------------------------------------
\* Every reachable state of the pipeline is well-typed; no queue outgrows its
\* capacity.
THEOREM PipelineTypeCorrect == Spec => []TypeOK
<1>1. PipelineInv => TypeOK
  BY DEF PipelineInv
<1>2. QED
  BY <1>1, PipelineAlways, PTL

\* unfinished_tasks, which stop() waits for, is what the worker still owes.
THEOREM TasksOwedHolds == Spec => []TasksOwed
<1>1. PipelineInv => TasksOwed
  BY DEF PipelineInv
<1>2. QED
  BY <1>1, PipelineAlways, PTL

\* A drain that ends before its deadline has handled everything accepted before
\* the shutdown, although it waits for one queue after the other while the
\* receive threads go on.
THEOREM DrainHandlesHolds == Spec => []DrainHandles
<1>1. PipelineInv => DrainHandles
  <2>1. SUFFICES ASSUME PipelineInv, stop, ~timedOut, NEW m \in before
                 PROVE  m \in SeqRange(done)
    BY DEF DrainHandles
  <2>2. main # "up" /\ draining = NWorker + 1
    BY <2>1 DEF PipelineInv, DrainOK
  <2>3. \A w \in Worker : ~(w >= draining)
    BY <2>2, PipelineAssumption DEF Worker
  <2>4. QED
    BY <2>1, <2>2, <2>3 DEF PipelineInv, DrainOK
<1>2. QED
  BY <1>1, PipelineAlways, PTL

\* "one sender's messages are always handled in arrival order" (listener.py:813-814),
\* whatever the number of workers, senders and receivers and the size of the queues.
THEOREM PerSenderOrderHolds == Spec => []PerSenderOrder
<1>1. Init => PipelineInv /\ OrderInv
  BY InitPipeline, InitOrder
<1>2. PipelineInv /\ OrderInv /\ [Next]_vars => (PipelineInv /\ OrderInv)'
  BY NextPipeline, NextOrder
<1>3. OrderInv => PerSenderOrder
  BY DEF OrderInv, Sorted, Older, PerSenderOrder
<1>4. QED
  BY <1>1, <1>2, <1>3, PTL DEF Spec
-----------------------------------------------------------------------------
(***************************************************************************)
(* EveryMessageCounted.  By TasksOwed the messages that the workers have   *)
(* are the unfinished tasks of their queues.                               *)
(***************************************************************************)
Blocked == {r \in Receiver : putting[r] # NoMsg}
Counted3 == stats.processed + stats.failed + stats.dropped

Tally ==
  SumFunctionOnSet(nread, Receiver)
    = Counted3 + SumFunctionOnSet(unfinished, Worker) + Cardinality(Blocked)

\* What is counted are natural numbers.
LEMMA TallyTypes ==
  ASSUME PipelineInv
  PROVE  /\ IsFiniteSet(Receiver) /\ IsFiniteSet(Worker) /\ IsFiniteSet(Blocked)
         /\ \A r \in Receiver : nread[r] \in Int
         /\ \A w \in Worker : unfinished[w] \in Int
         /\ SumFunctionOnSet(nread, Receiver) \in Int
         /\ SumFunctionOnSet(unfinished, Worker) \in Int
         /\ Counted3 \in Int /\ Cardinality(Blocked) \in Int
<1>1. IsFiniteSet(Receiver)
  BY PipelineAssumption
<1>2. IsFiniteSet(Worker)
  BY PipelineAssumption, FS_Interval DEF Worker
<1>3. IsFiniteSet(Blocked) /\ Cardinality(Blocked) \in Int
  BY <1>1, FS_Subset, FS_CardinalityType DEF Blocked
<1>4. (\A r \in Receiver : nread[r] \in Int) /\ (\A w \in Worker : unfinished[w] \in Int)
  BY DEF PipelineInv, TypeOK
<1>5. Counted3 \in Int
  BY DEF PipelineInv, TypeOK, Counted3
<1> QED
  BY <1>1, <1>2, <1>3, <1>4, <1>5, SumType

LEMMA EnqueueTally ==
  ASSUME PipelineInv, NEW m \in Msg, Enqueue(m), UNCHANGED stats
  PROVE  /\ SumFunctionOnSet(unfinished', Worker) = SumFunctionOnSet(unfinished, Worker) + 1
         /\ Counted3' = Counted3
<1> DEFINE q == QueueOf(m)
<1>1. q \in Worker
  BY PipelineAssumption DEF QueueOf, Msg
<1>2. unfinished' = [unfinished EXCEPT ![q] = unfinished[q] + 1]
  BY DEF Enqueue
<1> HIDE DEF q
<1>3. DOMAIN unfinished = Worker
  BY DEF PipelineInv, TypeOK
<1>4. unfinished'[q] = unfinished[q] + 1 /\ \A v \in Worker \ {q} : unfinished'[v] = unfinished[v]
  BY <1>1, <1>2, <1>3
<1>5. unfinished[q] \in Int /\ unfinished'[q] \in Int
  BY <1>1, <1>4, TallyTypes
<1>6. SumFunctionOnSet(unfinished', Worker)
        = SumFunctionOnSet(unfinished, Worker) - unfinished[q] + unfinished'[q]
  BY <1>1, <1>4, <1>5, TallyTypes, SumChange
<1>7. SumFunctionOnSet(unfinished, Worker) \in Int
  BY TallyTypes
<1> QED
  BY <1>4, <1>5, <1>6, <1>7 DEF Counted3

LEMMA DropTally ==
  ASSUME PipelineInv, Drop
  PROVE  Counted3' = Counted3 + 1
<1>1. /\ stats'.dropped = stats.dropped + 1
      /\ stats'.processed = stats.processed /\ stats'.failed = stats.failed
      /\ stats.dropped \in Nat /\ stats.processed \in Nat /\ stats.failed \in Nat
  BY DEF Drop, PipelineInv, TypeOK
<1> QED
  BY <1>1 DEF Counted3

LEMMA ReceiveTally ==
  ASSUME PipelineInv, Tally, NEW r \in Receiver, NEW s \in Source, Receive(r, s)
  PROVE  Tally'
<1> DEFINE m == [src |-> s, rcv |-> r, n |-> nread[r] + 1]
<1>1. /\ nread[r] < MaxMsg[r] /\ putting[r] = NoMsg
      /\ nread' = [nread EXCEPT ![r] = nread[r] + 1]
  BY DEF Receive
<1>2. nread \in [Receiver -> Nat] /\ MaxMsg \in [Receiver -> Nat] /\ DOMAIN putting = Receiver
  BY PipelineAssumption DEF PipelineInv, TypeOK
<1>3. m \in Msg
  <2>1. nread[r] + 1 \in 1..MaxMsg[r]
    BY <1>1, <1>2
  <2> QED
    BY <2>1 DEF Msg
<1> HIDE DEF m
<1>4. SumFunctionOnSet(nread', Receiver) = SumFunctionOnSet(nread, Receiver) + 1
  <2>1. /\ nread'[r] = nread[r] + 1 /\ nread[r] \in Int /\ nread'[r] \in Int
        /\ \A p \in Receiver \ {r} : nread'[p] = nread[p]
    BY <1>1, <1>2
  <2>2. SumFunctionOnSet(nread', Receiver)
          = SumFunctionOnSet(nread, Receiver) - nread[r] + nread'[r]
    BY <2>1, TallyTypes, SumChange
  <2>3. SumFunctionOnSet(nread, Receiver) \in Int
    BY TallyTypes
  <2> QED
    BY <2>1, <2>2, <2>3
<1>5. CASE Enqueue(m) /\ UNCHANGED <<putting, stats>>
  BY <1>3, <1>4, <1>5, EnqueueTally, TallyTypes DEF Tally, Blocked
<1>6. CASE Drop /\ UNCHANGED <<putting, queue, unfinished>>
  BY <1>4, <1>6, DropTally, TallyTypes DEF Tally, Blocked
<1>7. CASE putting' = [putting EXCEPT ![r] = m] /\ UNCHANGED <<queue, unfinished, stats>>
  <2>1. m # NoMsg
    BY <1>3, NoMsgIsNone
  <2>2. Blocked' = Blocked \cup {r} /\ r \notin Blocked
    BY <1>1, <1>2, <1>7, <2>1 DEF Blocked
  <2>3. Cardinality(Blocked') = Cardinality(Blocked) + 1
    BY <2>2, TallyTypes, FS_AddElement
  <2>4. Counted3' = Counted3
    BY <1>7 DEF Counted3
  <2> QED
    BY <1>4, <1>7, <2>3, <2>4, TallyTypes DEF Tally
<1> QED
  BY <1>5, <1>6, <1>7 DEF Receive, m

LEMMA PutBlockedTally ==
  ASSUME PipelineInv, Tally, NEW r \in Receiver, PutBlocked(r)
  PROVE  Tally'
<1>1. /\ putting[r] # NoMsg /\ putting' = [putting EXCEPT ![r] = NoMsg]
      /\ nread' = nread /\ putting[r] \in Msg /\ DOMAIN putting = Receiver
  BY DEF PutBlocked, PipelineInv, TypeOK
<1>2. Cardinality(Blocked') = Cardinality(Blocked) - 1
  <2>1. Blocked' = Blocked \ {r} /\ r \in Blocked
    BY <1>1 DEF Blocked
  <2> QED
    BY <2>1, TallyTypes, FS_RemoveElement
<1>3. CASE Enqueue(putting[r]) /\ UNCHANGED stats
  BY <1>1, <1>2, <1>3, EnqueueTally, TallyTypes DEF Tally
<1>4. CASE Drop /\ UNCHANGED <<queue, unfinished>>
  BY <1>1, <1>2, <1>4, DropTally, TallyTypes DEF Tally
<1> QED
  BY <1>3, <1>4 DEF PutBlocked

LEMMA ProcessTally ==
  ASSUME PipelineInv, Tally, NEW w \in Worker, Process(w)
  PROVE  Tally'
<1>1. /\ unfinished' = [unfinished EXCEPT ![w] = unfinished[w] - 1]
      /\ UNCHANGED <<nread, putting>> /\ DOMAIN unfinished = Worker
  BY DEF Process, PipelineInv, TypeOK
<1>2. Counted3' = Counted3 + 1
  <2>1. PICK result \in {"processed", "failed"} :
          stats' = [stats EXCEPT ![result] = stats[result] + 1]
    BY DEF Process
  <2>2. stats \in [processed : Nat, failed : Nat, dropped : Nat]
    BY DEF PipelineInv, TypeOK
  <2>3. CASE result = "processed"
    BY <2>1, <2>2, <2>3 DEF Counted3
  <2>4. CASE result = "failed"
    BY <2>1, <2>2, <2>4 DEF Counted3
  <2> QED
    BY <2>3, <2>4
<1>3. SumFunctionOnSet(unfinished', Worker) = SumFunctionOnSet(unfinished, Worker) - 1
  <2>1. /\ unfinished'[w] = unfinished[w] - 1 /\ unfinished[w] \in Int /\ unfinished'[w] \in Int
        /\ \A v \in Worker \ {w} : unfinished'[v] = unfinished[v]
    BY <1>1, TallyTypes
  <2>2. SumFunctionOnSet(unfinished', Worker)
          = SumFunctionOnSet(unfinished, Worker) - unfinished[w] + unfinished'[w]
    BY <2>1, TallyTypes, SumChange
  <2>3. SumFunctionOnSet(unfinished, Worker) \in Int
    BY TallyTypes
  <2> QED
    BY <2>1, <2>2, <2>3
<1> QED
  BY <1>1, <1>2, <1>3, TallyTypes DEF Tally, Blocked

LEMMA NextTally == PipelineInv /\ Tally /\ [Next]_vars => Tally'
<1> SUFFICES ASSUME PipelineInv, Tally, [Next]_vars PROVE Tally'
  OBVIOUS
<1>1. CASE UNCHANGED <<nread, putting, unfinished, stats>>
  BY <1>1 DEF Tally, Blocked, Counted3
<1>2. (\E w \in Worker : Check(w) \/ Get(w)) \/ Sigterm \/ DrainNext \/ DrainTimeout
        \/ SetStop \/ Exit \/ UNCHANGED vars
        => UNCHANGED <<nread, putting, unfinished, stats>>
  BY DEF Check, Get, Sigterm, DrainNext, DrainTimeout, SetStop, Exit, vars
<1> QED
  BY <1>1, <1>2, ReceiveTally, PutBlockedTally, ProcessTally DEF Next

LEMMA InitTally == Init => Tally
<1> SUFFICES ASSUME Init PROVE Tally
  OBVIOUS
<1>1. IsFiniteSet(Receiver) /\ IsFiniteSet(Worker)
  BY PipelineAssumption, FS_Interval DEF Worker
<1>2. SumFunctionOnSet(nread, Receiver) = 0 /\ SumFunctionOnSet(unfinished, Worker) = 0
  BY <1>1, SumOfZeros DEF Init
<1>3. Cardinality(Blocked) = 0
  <2>1. Blocked = {}
    BY DEF Init, Blocked
  <2> QED
    BY <2>1, FS_EmptySet
<1>4. Counted3 = 0
  BY DEF Init, Counted3
<1> QED
  BY <1>2, <1>3, <1>4 DEF Tally

LEMMA TallyCounts == PipelineInv /\ Tally => EveryMessageCounted
<1> SUFFICES ASSUME PipelineInv, Tally PROVE EveryMessageCounted
  OBVIOUS
<1> DEFINE f == [w \in Worker |-> Len(queue[w]) + InHand(w)]
<1>1. \A w \in Worker : unfinished[w] = f[w]
  BY DEF PipelineInv, TasksOwed
<1> HIDE DEF f
<1>2. SumFunctionOnSet(unfinished, Worker) = SumFunctionOnSet(f, Worker)
  BY <1>1, TallyTypes, SumSame
<1> QED
  BY <1>2 DEF Tally, Counted3, Blocked, EveryMessageCounted, f

\* The counters of the health page account for every message a receiver has
\* read, wherever it is between the socket and the end of process().
THEOREM EveryMessageCountedHolds == Spec => []EveryMessageCounted
<1>1. Spec => []Tally
  BY InitTally, InitPipeline, NextTally, PipelineAlways, PTL DEF Spec
<1> QED
  BY <1>1, TallyCounts, PipelineAlways, PTL
-----------------------------------------------------------------------------
(***************************************************************************)
(* ProcessIngest.  A queue object is the live one of its slot, one that    *)
(* was replaced, or not in use yet and empty.                              *)
(***************************************************************************)
Dead == {k \in Slot : child[k] = "dead"}

\* supervise() has found a dead child and not started another one yet; its queue
\* is still the dead child's; it is a fresh one.
Repairing == sup.at \in {"counted", "closed", "replaced", "failed"}
Counting == sup.at \in {"counted", "closed"}
Swapped == IF sup.at \in {"replaced", "failed"} THEN 1 ELSE 0

GenOK ==
  /\ procMain # "gone" => Repaired + Cardinality(Dead) <= MaxDeaths
  /\ \A i \in Slot : gen[i] <= Repaired + Swapped
  /\ Repairing => child[sup.slot] = "dead"
  /\ sup.at = "failed" => holding[sup.slot] = NoEvent
  /\ \A r \in Feeder : ref[r][2] <= gen[ref[r][1]]
  /\ \A i \in Slot, g \in 0..MaxDeaths : g > gen[i] => mpQueue[<<i, g>>] = <<>>

HoldOK ==
  \A i \in Slot : /\ child[i] = "get" => holding[i] = NoEvent
                  /\ child[i] \in {"busy", "stored"} => holding[i] \in Event

\* A message that its receiver is still submitting is not given to a queue yet.
Submitting(r) == rpc[r] \in {"put", "open"}

SubmitOK ==
  \A r \in Feeder : Submitting(r) =>
    /\ cur[r] \in Event /\ cur[r].rcv = r /\ cur[r].n = procRead[r]
    /\ ref[r][1] = SlotOf(cur[r])

ProcInv == ProcTypeOK /\ GenOK /\ HoldOK /\ SubmitOK

Given(x) ==
  \/ x.n < procRead[x.rcv]
  \/ x.n = procRead[x.rcv] /\ ~Submitting(x.rcv)

Before(x, y) == x.key = y.key /\ x.rcv = y.rcv => x.n < y.n
InOrder(s) ==
  \A a, b \in DOMAIN s : a < b /\ s[a] \in Event /\ s[b] \in Event => Before(s[a], s[b])
EventsIn(s) == SeqRange(s) \cap Event

QueueOK ==
  \A i \in Slot, g \in 0..MaxDeaths :
    /\ InOrder(mpQueue[<<i, g>>])
    /\ \A x \in EventsIn(mpQueue[<<i, g>>]) : Given(x) /\ SlotOf(x) = i

\* What is stored came before what waits, and before what a child is about to store.
StoredOK ==
  /\ InOrder(stored)
  /\ \A x \in SeqRange(stored) : Given(x)
  /\ \A i \in Slot : \A y \in EventsIn(mpQueue[Live(i)]) :
       \A x \in SeqRange(stored) : Before(x, y)
  /\ \A i \in Slot : child[i] = "busy" =>
       /\ Given(holding[i]) /\ SlotOf(holding[i]) = i
       /\ \A y \in EventsIn(mpQueue[Live(i)]) : Before(holding[i], y)
       /\ \A x \in SeqRange(stored) : Before(x, holding[i])

OrderOK == QueueOK /\ StoredOK

\* What was put into the queue of a dead child after its backlog was counted.
Waiting(i) == Cardinality(Backlog(i))
Uncounted == IF Counting THEN Waiting(sup.slot) - sup.lost ELSE 0
Extra == IF sup.at \in {"failed", "started"} THEN 1 ELSE 0

Real(s) == {k \in DOMAIN s : s[k] # Sentinel}
UpOK == procMain = "up" => \A i \in Slot : Sentinel \notin SeqRange(mpQueue[Live(i)])
AcceptedOK == IsFiniteSet(accepted) /\ \A x \in accepted : Given(x)
SumsOK ==
  /\ Counting => sup.lost <= Waiting(sup.slot)
  /\ Cardinality(accepted) + Uncounted
       <= processed + failed + OnTheWay + Cardinality(window) + Unrecorded
  /\ processed + failed + OnTheWay + Unrecorded <= Cardinality(accepted) + restarts + Extra

CountOK == UpOK /\ AcceptedOK /\ SumsOK
-----------------------------------------------------------------------------
LEMMA NotEvents == NoEvent \notin Event /\ Sentinel \notin Event
BY DEF NoEvent, Sentinel, Event

LEMMA LiveQueue ==
  ASSUME ProcTypeOK, NEW i \in Slot
  PROVE  /\ Live(i) \in Queue /\ Live(i)[1] = i
         /\ mpQueue[Live(i)] \in Seq(Event \cup {Sentinel})
<1>1. Live(i) \in Queue
  BY DEF ProcTypeOK, Live, Queue
<1> QED
  BY <1>1 DEF ProcTypeOK, Live

LEMMA DeadFacts ==
  ASSUME NEW c
  PROVE  LET D == {k \in Slot : c[k] = "dead"}
         IN  /\ IsFiniteSet(D) /\ Cardinality(D) \in Nat
             /\ \A i \in D : Cardinality(D \ {i}) = Cardinality(D) - 1
             /\ \A i \in Slot \ D : Cardinality(D \cup {i}) = Cardinality(D) + 1
<1> DEFINE D == {k \in Slot : c[k] = "dead"}
<1>1. IsFiniteSet(Slot)
  BY ProcessIngestAssumption, FS_Interval DEF Slot
<1>2. IsFiniteSet(D)
  BY <1>1, FS_Subset
<1> HIDE DEF D
<1>3. /\ Cardinality(D) \in Nat
      /\ \A i \in D : Cardinality(D \ {i}) = Cardinality(D) - 1
      /\ \A i \in Slot \ D : Cardinality(D \cup {i}) = Cardinality(D) + 1
  BY <1>2, FS_CardinalityType, FS_RemoveElement, FS_AddElement
<1> QED
  BY <1>2, <1>3 DEF D

LEMMA ProcInitInv == ProcInit => ProcInv
<1> SUFFICES ASSUME ProcInit PROVE ProcInv
  OBVIOUS
<1>1. 1 \in Slot /\ 0 \in 0..MaxDeaths /\ 0 \in Nat /\ 1 \in 1..(NChild + 1)
      /\ {0} \subseteq Nat
  BY ProcessIngestAssumption DEF Slot
<1>2. <<1, 0>> \in Queue
  BY <1>1 DEF Queue
<1>3. ProcTypeOK
  <2>1. /\ mpQueue \in [Queue -> Seq(Event \cup {Sentinel})]
        /\ \A q \in Queue : Len(mpQueue[q]) <= QueueSize
    BY ProcessIngestAssumption DEF ProcInit
  <2>2. /\ rpc \in [Feeder -> {"idle", "put", "open", "dead"}]
        /\ cur \in [Feeder -> Event \cup {NoEvent}]
        /\ ref \in [Feeder -> Queue]
        /\ procRead \in [Feeder -> Nat] /\ \A r \in Feeder : procRead[r] <= MaxRead[r]
    BY <1>1, <1>2, ProcessIngestAssumption DEF ProcInit
  <2>3. /\ gen \in [Slot -> 0..MaxDeaths]
        /\ closed \in [Queue -> BOOLEAN]
        /\ jammed \in [Slot -> BOOLEAN] /\ countersHeld \in BOOLEAN
        /\ child \in [Slot -> {"get", "busy", "stored", "exited", "dead"}]
        /\ holding \in [Slot -> Event \cup {NoEvent}]
    BY <1>1 DEF ProcInit
  <2>4. /\ stored \in Seq(Event) /\ accepted \in SUBSET Event /\ window \in SUBSET accepted
        /\ {processed, failed, dropped, raised, restarts} \subseteq Nat
        /\ procMain \in {"up", "sentinels", "joining", "gone", "raised"}
        /\ nextq \in 1..(NChild + 1)
    BY <1>1 DEF ProcInit
  <2>5. sup \in [at : SupSteps, slot : Slot, lost : Nat]
    BY <1>1 DEF ProcInit, IdleSup, SupSteps
  <2> QED
    BY <2>1, <2>2, <2>3, <2>4, <2>5 DEF ProcTypeOK
<1>4. GenOK
  <2>1. Dead = {} /\ Repaired = 0 /\ Swapped = 0 /\ ~Repairing /\ sup.at # "failed"
    BY DEF ProcInit, Dead, Repaired, Swapped, Repairing, IdleSup
  <2>2. Repaired + Cardinality(Dead) <= MaxDeaths
    BY <2>1, FS_EmptySet, ProcessIngestAssumption
  <2>3. \A i \in Slot, g \in 0..MaxDeaths : mpQueue[<<i, g>>] = <<>>
    BY DEF ProcInit, Queue
  <2>4. \A i \in Slot : gen[i] = 0
    BY DEF ProcInit
  <2>5. \A r \in Feeder : ref[r][1] = 1 /\ ref[r][2] = 0
    BY DEF ProcInit
  <2> QED
    BY <1>1, <2>1, <2>2, <2>3, <2>4, <2>5 DEF GenOK
<1>5. HoldOK /\ SubmitOK
  BY DEF ProcInit, HoldOK, SubmitOK, Submitting
<1> QED
  BY <1>3, <1>4, <1>5 DEF ProcInv

LEMMA SubmitType ==
  ASSUME ProcInv, NEW r \in Feeder, NEW k \in Key, Submit(r, k)
  PROVE  ProcInv'
<1> DEFINE m == [key |-> k, rcv |-> r, n |-> procRead[r] + 1]
<1>1. /\ procRead[r] < MaxRead[r]
      /\ procRead' = [procRead EXCEPT ![r] = procRead[r] + 1]
      /\ cur' = [cur EXCEPT ![r] = m]
      /\ ref' = [ref EXCEPT ![r] = Live(SlotOf(m))]
      /\ rpc' = [rpc EXCEPT ![r] = "put"]
      /\ UNCHANGED <<dropped, raised, accepted, window, childVars, mpQueue, gen, closed,
                     sup, restarts, procMain, nextq>>
  BY DEF Submit
<1>2. procRead[r] \in Nat /\ MaxRead[r] \in Nat
  BY ProcessIngestAssumption DEF ProcInv, ProcTypeOK
<1>3. m \in Event /\ procRead[r] + 1 \in Nat /\ procRead[r] + 1 <= MaxRead[r]
  <2>1. procRead[r] + 1 \in Nat \ {0} /\ procRead[r] + 1 <= MaxRead[r]
    BY <1>1, <1>2
  <2> QED
    BY <2>1 DEF Event
<1>4. SlotOf(m) \in Slot
  BY ProcessIngestAssumption DEF SlotOf
<1> HIDE DEF m
<1>5. Live(SlotOf(m)) \in Queue /\ Live(SlotOf(m)) = <<SlotOf(m), gen[SlotOf(m)]>>
  BY <1>4, LiveQueue DEF ProcInv, Live
<1>6. ProcTypeOK'
  <2>1. /\ rpc' \in [Feeder -> {"idle", "put", "open", "dead"}]
        /\ cur' \in [Feeder -> Event \cup {NoEvent}]
        /\ ref' \in [Feeder -> Queue]
        /\ procRead' \in [Feeder -> Nat] /\ \A p \in Feeder : procRead'[p] <= MaxRead[p]
    BY <1>1, <1>3, <1>5 DEF ProcInv, ProcTypeOK
  <2> QED
    BY <1>1, <2>1 DEF ProcInv, ProcTypeOK, childVars
<1>7. GenOK'
  <2>1. \A q \in Feeder : ref'[q][2] <= gen[ref'[q][1]]
    <3>1. ASSUME NEW q \in Feeder PROVE ref'[q][2] <= gen[ref'[q][1]]
      <4>1. CASE q = r
        <5>1. ref'[q] = <<SlotOf(m), gen[SlotOf(m)]>>
          BY <1>1, <1>5, <4>1 DEF ProcInv, ProcTypeOK
        <5>2. gen[SlotOf(m)] \in 0..MaxDeaths
          BY <1>4 DEF ProcInv, ProcTypeOK
        <5> QED
          BY <5>1, <5>2
      <4>2. CASE q # r
        <5>1. ref'[q] = ref[q]
          BY <1>1, <4>2 DEF ProcInv, ProcTypeOK
        <5> QED
          BY <5>1 DEF ProcInv, GenOK
      <4> QED
        BY <4>1, <4>2
    <3> QED
      BY <3>1
  <2> QED
    BY <1>1, <2>1 DEF ProcInv, GenOK, Repaired, Swapped, Repairing, Dead, childVars
<1>8. HoldOK'
  BY <1>1 DEF ProcInv, HoldOK, childVars
<1>9. SubmitOK'
  <2>1. SUFFICES ASSUME NEW p \in Feeder, Submitting(p)'
                 PROVE  /\ cur'[p] \in Event /\ cur'[p].rcv = p /\ cur'[p].n = procRead'[p]
                        /\ ref'[p][1] = SlotOf(cur'[p])
    BY DEF SubmitOK, SlotOf
  <2>2. CASE p = r
    <3>1. cur'[r] = m /\ procRead'[r] = procRead[r] + 1 /\ ref'[r] = Live(SlotOf(m))
      BY <1>1 DEF ProcInv, ProcTypeOK
    <3>2. m.rcv = r /\ m.n = procRead[r] + 1
      BY DEF m
    <3> QED
      BY <1>3, <1>5, <2>2, <3>1, <3>2
  <2>3. CASE p # r
    <3>1. /\ cur'[p] = cur[p] /\ procRead'[p] = procRead[p] /\ ref'[p] = ref[p]
          /\ rpc'[p] = rpc[p]
      BY <1>1, <2>3 DEF ProcInv, ProcTypeOK
    <3>2. Submitting(p)
      BY <2>1, <3>1 DEF Submitting
    <3> QED
      BY <3>1, <3>2 DEF ProcInv, SubmitOK
  <2> QED
    BY <2>2, <2>3
<1> QED
  BY <1>6, <1>7, <1>8, <1>9 DEF ProcInv

\* A message or a sentinel enters a queue object that has room.
LEMMA PutType ==
  ASSUME ProcInv, NEW q \in Queue, NEW x \in Event \cup {Sentinel}, ~QueueFull(q),
         mpQueue' = [mpQueue EXCEPT ![q] = Append(mpQueue[q], x)]
  PROVE  /\ mpQueue' \in [Queue -> Seq(Event \cup {Sentinel})]
         /\ \A p \in Queue : Len(mpQueue'[p]) <= QueueSize
<1>1. /\ mpQueue \in [Queue -> Seq(Event \cup {Sentinel})]
      /\ \A p \in Queue : Len(mpQueue[p]) <= QueueSize
      /\ QueueSize \in Nat
  BY ProcessIngestAssumption DEF ProcInv, ProcTypeOK
<1>2. /\ Append(mpQueue[q], x) \in Seq(Event \cup {Sentinel})
      /\ Len(Append(mpQueue[q], x)) = Len(mpQueue[q]) + 1 /\ Len(mpQueue[q]) \in Nat
  BY <1>1
<1>3. Len(mpQueue[q]) + 1 <= QueueSize
  BY <1>1, <1>2 DEF QueueFull
<1> QED
  BY <1>1, <1>2, <1>3

LEMMA ReceiverTypes ==
  ASSUME ProcInv, NEW r \in Feeder, CheckClosed(r) \/ Accept(r) \/ DropFull(r)
  PROVE  ProcInv'
<1>1. /\ UNCHANGED <<cur, ref, procRead, childVars, gen, closed, sup, restarts, procMain, nextq>>
      /\ \/ rpc' = [rpc EXCEPT ![r] = "idle"]
         \/ rpc' = [rpc EXCEPT ![r] = "dead"]
         \/ rpc' = [rpc EXCEPT ![r] = "open"]
      /\ raised' \in {raised, raised + 1} /\ dropped' \in {dropped, dropped + 1}
      /\ Submitting(r)
  BY DEF CheckClosed, Accept, DropFull, Return, Submitting
<1>2. rpc' \in [Feeder -> {"idle", "put", "open", "dead"}]
  BY <1>1 DEF ProcInv, ProcTypeOK
<1>3. {processed, failed, dropped', raised', restarts} \subseteq Nat
  BY SMTT(60), <1>1 DEF ProcInv, ProcTypeOK
<1>4. SubmitOK'
  <2>1. \A p \in Feeder : Submitting(p)' => Submitting(p)
    BY <1>1 DEF ProcInv, ProcTypeOK, Submitting
  <2> QED
    BY <1>1, <2>1 DEF ProcInv, SubmitOK
<1>5. HoldOK'
  BY <1>1 DEF ProcInv, HoldOK, childVars
<1>6. CASE UNCHANGED <<mpQueue, accepted, window>>
  <2>1. ProcTypeOK'
    BY <1>1, <1>2, <1>3, <1>6 DEF ProcInv, ProcTypeOK, childVars
  <2> QED
    BY <1>1, <1>4, <1>5, <1>6, <2>1 DEF ProcInv, GenOK, Repaired, Swapped, Repairing, Dead, childVars
<1>7. CASE Accept(r)
  <2> DEFINE q == ref[r]
  <2>1. /\ ~QueueFull(q) /\ mpQueue' = [mpQueue EXCEPT ![q] = Append(mpQueue[q], cur[r])]
        /\ accepted' = accepted \cup {cur[r]} /\ window' \in {window, window \cup {cur[r]}}
    BY <1>7 DEF Accept
  <2>2. q \in Queue /\ q[2] <= gen[q[1]] /\ cur[r] \in Event
    BY <1>1 DEF ProcInv, ProcTypeOK, GenOK, SubmitOK
  <2>3. /\ mpQueue' \in [Queue -> Seq(Event \cup {Sentinel})]
        /\ \A p \in Queue : Len(mpQueue'[p]) <= QueueSize
    BY <2>1, <2>2, PutType
  <2>4. accepted' \in SUBSET Event /\ window' \in SUBSET accepted'
    BY <2>1, <2>2 DEF ProcInv, ProcTypeOK
  <2>5. ProcTypeOK'
    BY <1>1, <1>2, <1>3, <2>3, <2>4 DEF ProcInv, ProcTypeOK, childVars
  <2>6. \A i \in Slot, g \in 0..MaxDeaths : g > gen[i] => mpQueue'[<<i, g>>] = <<>>
    <3>1. SUFFICES ASSUME NEW i \in Slot, NEW g \in 0..MaxDeaths, g > gen[i]
                   PROVE  mpQueue'[<<i, g>>] = <<>>
      OBVIOUS
    <3>2. <<i, g>> # q
      <4>1. gen[i] \in 0..MaxDeaths
        BY DEF ProcInv, ProcTypeOK
      <4> QED
        BY <2>2, <3>1, <4>1
    <3>3. mpQueue'[<<i, g>>] = mpQueue[<<i, g>>]
      BY <2>1, <3>2 DEF ProcInv, ProcTypeOK, Queue
    <3> QED
      BY <3>1, <3>3 DEF ProcInv, GenOK
  <2>7. GenOK'
    BY <1>1, <2>6 DEF ProcInv, GenOK, Repaired, Swapped, Repairing, Dead, childVars
  <2> QED
    BY <1>4, <1>5, <2>5, <2>7 DEF ProcInv
<1> QED
  BY <1>6, <1>7 DEF CheckClosed, DropFull

LEMMA ChildGetType ==
  ASSUME ProcInv, NEW i \in Slot, ChildGet(i)
  PROVE  ProcInv'
<1> DEFINE q == Live(i)
           s == mpQueue[q]
<1>1. /\ child[i] = "get" /\ s # <<>>
      /\ mpQueue' = [mpQueue EXCEPT ![q] = Tail(s)]
      /\ UNCHANGED <<rcvVars, stored, processed, failed, jammed, countersHeld, gen, closed, sup,
                     restarts, procMain, nextq>>
      /\ \/ child' = [child EXCEPT ![i] = "exited"] /\ holding' = holding
         \/ /\ Head(s) # Sentinel /\ child' = [child EXCEPT ![i] = "busy"]
            /\ holding' = [holding EXCEPT ![i] = Head(s)]
  BY DEF ChildGet
<1>2. q \in Queue /\ s \in Seq(Event \cup {Sentinel})
  BY LiveQueue DEF ProcInv
<1>3. /\ Head(s) \in Event \cup {Sentinel} /\ Tail(s) \in Seq(Event \cup {Sentinel})
      /\ Len(Tail(s)) <= Len(s)
  <2> HIDE DEF s
  <2> QED
    BY <1>1, <1>2
<1>4. Len(s) <= QueueSize /\ Len(s) \in Nat /\ QueueSize \in Nat /\ Len(Tail(s)) \in Nat
  BY SMTT(60), <1>2, <1>3, ProcessIngestAssumption DEF ProcInv, ProcTypeOK
<1>5. <<i, gen[i]>> = q /\ gen[i] \in 0..MaxDeaths
  BY DEF Live, ProcInv, ProcTypeOK
<1> HIDE DEF q, s
<1>6. ProcTypeOK'
  <2>1. /\ mpQueue' \in [Queue -> Seq(Event \cup {Sentinel})]
        /\ \A p \in Queue : Len(mpQueue'[p]) <= QueueSize
    BY SMTT(60), <1>1, <1>2, <1>3, <1>4 DEF ProcInv, ProcTypeOK
  <2>2. /\ child' \in [Slot -> {"get", "busy", "stored", "exited", "dead"}]
        /\ holding' \in [Slot -> Event \cup {NoEvent}]
    BY ZenonT(60), <1>1, <1>3 DEF ProcInv, ProcTypeOK
  <2> QED
    BY <1>1, <2>1, <2>2 DEF ProcInv, ProcTypeOK, rcvVars
<1>7. GenOK'
  <2>1. /\ Dead' = Dead
        /\ Repairing => /\ sup.slot # i /\ child'[sup.slot] = "dead"
                        /\ holding'[sup.slot] = holding[sup.slot]
    BY <1>1 DEF ProcInv, ProcTypeOK, GenOK, Dead
  <2>2. ASSUME NEW j \in Slot, NEW g \in 0..MaxDeaths, g > gen[j]
        PROVE  mpQueue'[<<j, g>>] = <<>>
    <3>1. <<j, g>> # q /\ <<j, g>> \in Queue
      BY <1>5, <2>2 DEF Queue
    <3>2. mpQueue'[<<j, g>>] = mpQueue[<<j, g>>]
      BY <1>1, <3>1 DEF ProcInv, ProcTypeOK
    <3> QED
      BY <2>2, <3>2 DEF ProcInv, GenOK
  <2> QED
    BY <1>1, <2>1, <2>2 DEF ProcInv, GenOK, Repaired, Swapped, Repairing, rcvVars
<1>8. HoldOK'
  <2>1. SUFFICES ASSUME NEW j \in Slot
                 PROVE  /\ child'[j] = "get" => holding'[j] = NoEvent
                        /\ child'[j] \in {"busy", "stored"} => holding'[j] \in Event
    BY DEF HoldOK
  <2>2. CASE j = i
    BY <1>1, <1>3, <2>2 DEF ProcInv, ProcTypeOK, HoldOK
  <2>3. CASE j # i
    BY <1>1, <2>3 DEF ProcInv, ProcTypeOK, HoldOK
  <2> QED
    BY <2>2, <2>3
<1>9. SubmitOK'
  BY <1>1 DEF ProcInv, SubmitOK, Submitting, rcvVars
<1> QED
  BY <1>6, <1>7, <1>8, <1>9 DEF ProcInv

LEMMA StoreCountType ==
  ASSUME ProcInv, NEW i \in Slot, Store(i) \/ Count(i)
  PROVE  ProcInv'
<1>1. /\ child[i] \in {"busy", "stored"}
      /\ \/ child' = [child EXCEPT ![i] = "stored"] /\ holding' = holding
         \/ /\ child' = [child EXCEPT ![i] = "get"]
            /\ holding' = [holding EXCEPT ![i] = NoEvent]
      /\ stored' \in {stored, Append(stored, holding[i])}
      /\ processed' \in {processed, processed + 1} /\ failed' \in {failed, failed + 1}
      /\ UNCHANGED <<rcvVars, jammed, countersHeld, mpQueue, gen, closed, sup, restarts,
                     procMain, nextq>>
  BY DEF Store, Count
<1>2. holding[i] \in Event
  BY <1>1 DEF ProcInv, HoldOK
<1>3. ProcTypeOK'
  <2>1. stored' \in Seq(Event) /\ {processed', failed', dropped, raised, restarts} \subseteq Nat
    <3>1. stored \in Seq(Event) /\ Append(stored, holding[i]) \in Seq(Event)
      BY <1>2 DEF ProcInv, ProcTypeOK
    <3>2. {processed, failed, dropped, raised, restarts} \subseteq Nat
      BY DEF ProcInv, ProcTypeOK
    <3>3. stored' \in Seq(Event)
      BY <1>1, <3>1
    <3> QED
      BY <1>1, <3>2, <3>3
  <2>2. /\ child' \in [Slot -> {"get", "busy", "stored", "exited", "dead"}]
        /\ holding' \in [Slot -> Event \cup {NoEvent}]
    BY <1>1 DEF ProcInv, ProcTypeOK
  <2> QED
    BY <1>1, <2>1, <2>2 DEF ProcInv, ProcTypeOK, rcvVars
<1>4. GenOK'
  <2>1. /\ Dead' = Dead
        /\ Repairing => /\ sup.slot # i /\ child'[sup.slot] = "dead"
                        /\ holding'[sup.slot] = holding[sup.slot]
    BY <1>1 DEF ProcInv, ProcTypeOK, GenOK, Dead
  <2> QED
    BY <1>1, <2>1 DEF ProcInv, GenOK, Repaired, Swapped, Repairing, rcvVars
<1>5. HoldOK' /\ SubmitOK'
  BY <1>1, <1>2 DEF ProcInv, ProcTypeOK, HoldOK, SubmitOK, Submitting, rcvVars
<1> QED
  BY <1>3, <1>4, <1>5 DEF ProcInv

LEMMA DieType ==
  ASSUME ProcInv, NEW i \in Slot, Die(i)
  PROVE  ProcInv'
<1>1. /\ child[i] \in {"get", "busy", "stored"} /\ child' = [child EXCEPT ![i] = "dead"]
      /\ Repaired + Cardinality(Dead) < MaxDeaths
      /\ \E j \in BOOLEAN : jammed' = [jammed EXCEPT ![i] = j]
      /\ \E h \in BOOLEAN : countersHeld' = (countersHeld \/ h)
      /\ UNCHANGED <<rcvVars, holding, stored, processed, failed, mpQueue, gen, closed, sup,
                     restarts, procMain, nextq>>
  BY DEF Die, Dead
<1>2. jammed' \in [Slot -> BOOLEAN] /\ countersHeld' \in BOOLEAN
  BY <1>1 DEF ProcInv, ProcTypeOK
<1>3. child' \in [Slot -> {"get", "busy", "stored", "exited", "dead"}]
  BY <1>1 DEF ProcInv, ProcTypeOK
<1>4. ProcTypeOK'
  BY <1>1, <1>2, <1>3 DEF ProcInv, ProcTypeOK, rcvVars
<1>5. GenOK'
  <2>1. Dead' = Dead \cup {i} /\ i \notin Dead
    BY <1>1 DEF ProcInv, ProcTypeOK, Dead
  <2>2. Cardinality(Dead') = Cardinality(Dead) + 1 /\ Cardinality(Dead) \in Nat
    BY <2>1, DeadFacts DEF Dead
  <2>3. Repaired + Cardinality(Dead') <= MaxDeaths
    BY SMTT(60), <1>1, <2>2, ProcessIngestAssumption DEF ProcInv, ProcTypeOK, Repaired
  <2>4. Repairing => child'[sup.slot] = "dead"
    BY <1>1 DEF ProcInv, ProcTypeOK, GenOK
  <2> QED
    BY <1>1, <2>3, <2>4 DEF ProcInv, GenOK, Repaired, Swapped, Repairing, rcvVars
<1>6. HoldOK' /\ SubmitOK'
  BY <1>1 DEF ProcInv, ProcTypeOK, HoldOK, SubmitOK, Submitting, rcvVars
<1> QED
  BY <1>4, <1>5, <1>6 DEF ProcInv

\* The replacement of a dead child's queue takes a generation that no queue has
\* yet.
LEMMA SuperviseReplaceType ==
  ASSUME ProcInv, SuperviseReplace
  PROVE  ProcInv'
<1> DEFINE i == sup.slot
<1>1. /\ procMain = "up" /\ sup.at = "closed"
      /\ gen' = [gen EXCEPT ![i] = gen[i] + 1]
      /\ jammed' = [jammed EXCEPT ![i] = FALSE]
      /\ sup' = [sup EXCEPT !.at = "replaced"]
      /\ UNCHANGED <<rcvVars, child, holding, stored, processed, failed, countersHeld, mpQueue,
                     closed, restarts, procMain, nextq>>
  BY DEF SuperviseReplace
<1>2. /\ i \in Slot /\ sup.lost \in Nat /\ child[i] = "dead"
      /\ sup' \in [at : SupSteps, slot : Slot, lost : Nat]
      /\ sup'.at = "replaced" /\ sup'.slot = i
  BY <1>1 DEF ProcInv, ProcTypeOK, GenOK, Repairing, SupSteps
<1> HIDE DEF i
<1>3. i \in Dead /\ Dead' = Dead /\ Cardinality(Dead) \in Nat /\ Cardinality(Dead) >= 1
  <2>1. i \in Dead /\ Dead' = Dead
    BY <1>1, <1>2 DEF Dead
  <2>2. Cardinality(Dead \ {i}) = Cardinality(Dead) - 1 /\ Cardinality(Dead) \in Nat
    BY <2>1, DeadFacts DEF Dead
  <2>3. Cardinality(Dead \ {i}) \in Nat
    <3>1. IsFiniteSet(Dead)
      BY DeadFacts DEF Dead
    <3> QED
      BY <3>1, FS_Subset, FS_CardinalityType
  <2> QED
    BY <2>1, <2>2, <2>3
<1>4. /\ Repaired \in Nat /\ Repaired' = Repaired /\ Swapped = 0 /\ Swapped' = 1
      /\ MaxDeaths \in Nat /\ gen \in [Slot -> 0..MaxDeaths]
  BY SMTT(60), <1>1, <1>2, ProcessIngestAssumption DEF ProcInv, ProcTypeOK, Repaired, Swapped
<1>5. Repaired + Cardinality(Dead) <= MaxDeaths /\ \A j \in Slot : gen[j] <= Repaired
  BY <1>1, <1>4 DEF ProcInv, GenOK
<1>6. gen' \in [Slot -> 0..MaxDeaths] /\ \A j \in Slot : gen'[j] <= Repaired + 1 /\ gen[j] <= gen'[j]
  <2>1. gen[i] + 1 \in 0..MaxDeaths /\ gen[i] + 1 <= Repaired + 1
    BY <1>2, <1>3, <1>4, <1>5
  <2>2. \A j \in Slot : gen[j] \in Nat /\ gen[j] <= Repaired
    BY <1>4, <1>5
  <2> QED
    BY <1>1, <1>2, <1>4, <2>1, <2>2
<1>7. ProcTypeOK'
  <2>1. jammed' \in [Slot -> BOOLEAN]
    BY <1>1 DEF ProcInv, ProcTypeOK
  <2> QED
    BY <1>1, <1>2, <1>6, <2>1 DEF ProcInv, ProcTypeOK, rcvVars
<1>8. GenOK'
  <2>1. Repaired' + Cardinality(Dead') <= MaxDeaths /\ child'[sup'.slot] = "dead"
    BY <1>1, <1>2, <1>3, <1>4, <1>5
  <2>2. ASSUME NEW r \in Feeder PROVE ref[r][2] <= gen'[ref[r][1]]
    <3>1. ref[r][1] \in Slot /\ ref[r][2] \in Nat /\ ref[r][2] <= gen[ref[r][1]]
      BY DEF ProcInv, ProcTypeOK, GenOK, Queue
    <3>2. gen[ref[r][1]] \in Nat /\ gen'[ref[r][1]] \in Nat
      BY <1>4, <1>6, <3>1
    <3> QED
      BY <1>6, <3>1, <3>2
  <2>3. ASSUME NEW j \in Slot, NEW g \in 0..MaxDeaths, g > gen'[j]
        PROVE  mpQueue[<<j, g>>] = <<>>
    <3>1. gen[j] \in Nat /\ gen'[j] \in Nat /\ gen[j] <= gen'[j]
      BY <1>4, <1>6
    <3>2. g > gen[j]
      BY <2>3, <3>1
    <3> QED
      BY <3>2 DEF ProcInv, GenOK
  <2>4. \A j \in Slot : gen'[j] <= Repaired' + Swapped'
    BY <1>4, <1>6
  <2> QED
    BY <1>1, <1>2, <2>1, <2>2, <2>3, <2>4 DEF GenOK, rcvVars
<1>9. HoldOK' /\ SubmitOK'
  BY <1>1 DEF ProcInv, HoldOK, SubmitOK, Submitting, rcvVars
<1> QED
  BY <1>7, <1>8, <1>9 DEF ProcInv

LEMMA SuperviseFailType ==
  ASSUME ProcInv, SuperviseFail
  PROVE  ProcInv'
<1> DEFINE i == sup.slot
<1>1. /\ sup.at = "replaced"
      /\ failed' = failed + 1 + sup.lost
      /\ holding' = [holding EXCEPT ![i] = NoEvent]
      /\ sup' = [sup EXCEPT !.at = "failed"]
      /\ UNCHANGED <<rcvVars, child, stored, processed, jammed, countersHeld, mpQueue, gen,
                     closed, restarts, procMain, nextq>>
  BY DEF SuperviseFail
<1>2. /\ i \in Slot /\ sup.lost \in Nat /\ child[i] = "dead"
      /\ sup' \in [at : SupSteps, slot : Slot, lost : Nat]
      /\ sup'.at = "failed" /\ sup'.slot = i
  BY <1>1 DEF ProcInv, ProcTypeOK, GenOK, Repairing, SupSteps
<1> HIDE DEF i
<1>3. holding' \in [Slot -> Event \cup {NoEvent}] /\ holding'[i] = NoEvent
      /\ \A j \in Slot \ {i} : holding'[j] = holding[j]
  BY <1>1, <1>2 DEF ProcInv, ProcTypeOK
<1>4. ProcTypeOK'
  <2>1. {processed', failed', dropped', raised', restarts'} \subseteq Nat
    BY SMTT(60), <1>1, <1>2 DEF ProcInv, ProcTypeOK, rcvVars
  <2> QED
    BY <1>1, <1>2, <1>3, <2>1 DEF ProcInv, ProcTypeOK, rcvVars
<1>5. GenOK'
  <2>1. Repaired' = Repaired /\ Swapped' = Swapped /\ Dead' = Dead
    BY <1>1, <1>2 DEF Repaired, Swapped, Dead
  <2> QED
    BY <1>1, <1>2, <1>3, <2>1 DEF ProcInv, GenOK, rcvVars
<1>6. HoldOK' /\ SubmitOK'
  BY ZenonT(60), <1>1, <1>2, <1>3 DEF ProcInv, HoldOK, SubmitOK, Submitting, rcvVars
<1> QED
  BY <1>4, <1>5, <1>6 DEF ProcInv

\* The new child holds nothing; one more is repaired and one fewer dead.
LEMMA SuperviseStartType ==
  ASSUME ProcInv, SuperviseStart
  PROVE  ProcInv'
<1> DEFINE i == sup.slot
<1>1. /\ procMain = "up" /\ sup.at = "failed"
      /\ child' = [child EXCEPT ![i] = "get"]
      /\ sup' = [sup EXCEPT !.at = "started"]
      /\ UNCHANGED <<rcvVars, holding, stored, processed, failed, jammed, countersHeld, mpQueue,
                     gen, closed, restarts, procMain, nextq>>
  BY DEF SuperviseStart
<1>2. /\ i \in Slot /\ child[i] = "dead" /\ holding[i] = NoEvent
      /\ sup' \in [at : SupSteps, slot : Slot, lost : Nat] /\ sup'.at = "started"
  BY <1>1 DEF ProcInv, ProcTypeOK, GenOK, Repairing, SupSteps
<1> HIDE DEF i
<1>3. Dead' = Dead \ {i} /\ i \in Dead
  BY <1>1, <1>2 DEF ProcInv, ProcTypeOK, Dead
<1>4. Cardinality(Dead') = Cardinality(Dead) - 1 /\ Cardinality(Dead) \in Nat
  BY <1>3, DeadFacts DEF Dead
<1>5. /\ Repaired \in Nat /\ Repaired' = Repaired + 1 /\ Swapped = 1 /\ Swapped' = 0
      /\ MaxDeaths \in Nat
  BY SMTT(60), <1>1, <1>2, ProcessIngestAssumption DEF ProcInv, ProcTypeOK, Repaired, Swapped
<1>6. ProcTypeOK'
  <2>1. child' \in [Slot -> {"get", "busy", "stored", "exited", "dead"}]
    BY <1>1 DEF ProcInv, ProcTypeOK
  <2> QED
    BY <1>1, <1>2, <2>1 DEF ProcInv, ProcTypeOK, rcvVars
<1>7. GenOK'
  <2>1. Repaired' + Cardinality(Dead') <= MaxDeaths
    BY <1>1, <1>4, <1>5 DEF ProcInv, GenOK
  <2>2. \A j \in Slot : gen[j] <= Repaired' + Swapped'
    BY <1>5 DEF ProcInv, GenOK
  <2>3. ~Repairing' /\ sup'.at # "failed"
    BY <1>2 DEF Repairing
  <2> QED
    BY <1>1, <2>1, <2>2, <2>3 DEF ProcInv, GenOK, rcvVars
<1>8. HoldOK' /\ SubmitOK'
  BY ZenonT(60), <1>1, <1>2 DEF ProcInv, ProcTypeOK, HoldOK, SubmitOK, Submitting, rcvVars
<1> QED
  BY <1>6, <1>7, <1>8 DEF ProcInv

LEMMA SuperviseType ==
  ASSUME ProcInv, SuperviseClose \/ SuperviseNote \/ \E i \in Slot : SuperviseCount(i)
  PROVE  ProcInv'
<1>1. /\ UNCHANGED <<rcvVars, childVars, mpQueue, gen, procMain, nextq>>
      /\ closed' \in [Queue -> BOOLEAN] /\ restarts' \in Nat
      /\ sup' \in [at : SupSteps, slot : Slot, lost : Nat]
      /\ Repaired' = Repaired /\ Swapped' = Swapped
      /\ sup'.at # "failed" /\ (Repairing' => child[sup'.slot] = "dead")
  <2>1. CASE SuperviseClose
    BY <2>1 DEF SuperviseClose, ProcInv, ProcTypeOK, GenOK, SupSteps, Repairing, Repaired, Swapped
  <2>2. CASE SuperviseNote
    BY SMTT(60), <2>2, ProcessIngestAssumption
    DEF SuperviseNote, ProcInv, ProcTypeOK, SupSteps, IdleSup, Slot, Repairing, Repaired, Swapped
  <2>3. ASSUME NEW i \in Slot, SuperviseCount(i)
        PROVE  /\ sup' \in [at : SupSteps, slot : Slot, lost : Nat]
               /\ sup'.at = "counted" /\ sup.at = "idle"
               /\ child[sup'.slot] = "dead" /\ closed' = closed
               /\ UNCHANGED <<rcvVars, childVars, mpQueue, gen, restarts, procMain, nextq>>
    <3>1. LostBacklog(i) \in Nat
      BY LiveQueue DEF LostBacklog, ProcInv
    <3> QED
      BY <2>3, <3>1 DEF SuperviseCount, SupSteps
  <2> QED
    BY <2>1, <2>2, <2>3 DEF ProcInv, ProcTypeOK, Repairing, Repaired, Swapped
<1>2. ProcTypeOK'
  BY SMTT(60), <1>1 DEF ProcInv, ProcTypeOK, rcvVars, childVars
<1>3. GenOK' /\ HoldOK' /\ SubmitOK'
  BY <1>1 DEF ProcInv, GenOK, HoldOK, SubmitOK, Submitting, Dead, rcvVars, childVars
<1> QED
  BY <1>2, <1>3 DEF ProcInv

LEMMA ShutdownType ==
  ASSUME ProcInv, ProcSigterm \/ SendSentinel \/ Join \/ KillAndExit
  PROVE  ProcInv'
<1>1. CASE ProcSigterm \/ Join
  <2>1. /\ procMain' \in {"sentinels", "joining"} /\ procMain # "gone"
        /\ UNCHANGED <<rcvVars, childVars, mpQueue, gen, closed, sup, restarts, nextq>>
    BY <1>1 DEF ProcSigterm, Join
  <2>2. ProcTypeOK'
    BY <2>1 DEF ProcInv, ProcTypeOK, rcvVars, childVars
  <2>3. GenOK' /\ HoldOK' /\ SubmitOK'
    BY <2>1 DEF ProcInv, GenOK, Repaired, Swapped, Repairing, HoldOK, SubmitOK, Submitting, Dead, rcvVars, childVars
  <2> QED
    BY <2>2, <2>3 DEF ProcInv
<1>2. CASE KillAndExit
  <2>1. /\ procMain' = "gone"
        /\ child' = [i \in Slot |-> IF child[i] = "exited" THEN "exited" ELSE "dead"]
        /\ UNCHANGED <<rcvVars, holding, stored, processed, failed, jammed, countersHeld, mpQueue,
                       gen, closed, sup, restarts, nextq>>
    BY <1>2 DEF KillAndExit
  <2>2. ProcTypeOK'
    BY <2>1 DEF ProcInv, ProcTypeOK, rcvVars
  <2>3. GenOK' /\ HoldOK' /\ SubmitOK'
    BY <2>1 DEF ProcInv, ProcTypeOK, GenOK, Repaired, Swapped, Repairing, HoldOK, SubmitOK, Submitting, rcvVars
  <2> QED
    BY <2>2, <2>3 DEF ProcInv
<1>3. CASE SendSentinel
  <2>1. /\ nextq <= NChild /\ nextq' \in {nextq, nextq + 1} /\ procMain # "gone"
        /\ procMain' \in {procMain, "raised"}
        /\ UNCHANGED <<rcvVars, childVars, gen, closed, sup, restarts>>
        /\ \/ mpQueue' = mpQueue
           \/ /\ ~QueueFull(Live(nextq))
              /\ mpQueue' = [mpQueue EXCEPT ![Live(nextq)] = Append(mpQueue[Live(nextq)], Sentinel)]
    BY <1>3 DEF SendSentinel
  <2>2. nextq \in Slot /\ nextq' \in 1..(NChild + 1) /\ Live(nextq) = <<nextq, gen[nextq]>>
    BY SMTT(60), <2>1, ProcessIngestAssumption DEF ProcInv, ProcTypeOK, Slot, Live
  <2>3. /\ mpQueue' \in [Queue -> Seq(Event \cup {Sentinel})]
        /\ \A p \in Queue : Len(mpQueue'[p]) <= QueueSize
    BY <2>1, <2>2, LiveQueue, PutType DEF ProcInv, ProcTypeOK
  <2>4. ProcTypeOK'
    BY <2>1, <2>2, <2>3 DEF ProcInv, ProcTypeOK, rcvVars, childVars
  <2>5. \A i \in Slot, g \in 0..MaxDeaths : g > gen[i] => mpQueue'[<<i, g>>] = <<>>
    <3>1. SUFFICES ASSUME NEW i \in Slot, NEW g \in 0..MaxDeaths, g > gen[i]
                   PROVE  mpQueue'[<<i, g>>] = <<>>
      OBVIOUS
    <3>2. <<i, g>> # Live(nextq)
      <4>1. gen[i] \in 0..MaxDeaths
        BY DEF ProcInv, ProcTypeOK
      <4> QED
        BY <2>2, <3>1, <4>1
    <3>3. mpQueue'[<<i, g>>] = mpQueue[<<i, g>>]
      BY <2>1, <3>2 DEF ProcInv, ProcTypeOK, Queue
    <3> QED
      BY <3>1, <3>3 DEF ProcInv, GenOK
  <2>6. GenOK' /\ HoldOK' /\ SubmitOK'
    BY <2>1, <2>5 DEF ProcInv, GenOK, Repaired, Swapped, Repairing, HoldOK, SubmitOK, Submitting, Dead, rcvVars, childVars
  <2> QED
    BY <2>4, <2>6 DEF ProcInv
<1> QED
  BY <1>1, <1>2, <1>3

LEMMA ProcNextInv == ProcInv /\ [ProcNext]_procVars => ProcInv'
<1> SUFFICES ASSUME ProcInv, [ProcNext]_procVars PROVE ProcInv'
  OBVIOUS
<1>1. CASE UNCHANGED procVars
  BY SMTT(60), <1>1 DEF procVars, rcvVars, childVars, ProcInv, ProcTypeOK, GenOK, Repaired, Swapped, Repairing, HoldOK, SubmitOK,
     Submitting, Dead
<1>2. CASE ProcNext
  BY <1>2, SubmitType, ReceiverTypes, ChildGetType, StoreCountType, DieType, SuperviseType,
     SuperviseReplaceType, SuperviseFailType, SuperviseStartType, ShutdownType
  DEF ProcNext, ChildStep, Supervise
<1> QED
  BY <1>1, <1>2

LEMMA ProcAlways == ProcSpec => []ProcInv
BY ProcInitInv, ProcNextInv, PTL DEF ProcSpec
-----------------------------------------------------------------------------
(***************************************************************************)
(* KeyOrder.  A receiver submits one message at a time, a key has one      *)
(* slot, and of the queue objects of a slot a child reads only the live    *)
(* one, which was empty when it became that.                               *)
(***************************************************************************)
QueueSeq == Seq(Event \cup {Sentinel})

LEMMA QueuePut ==
  ASSUME NEW s \in QueueSeq, NEW x \in Event \cup {Sentinel}
  PROVE  /\ EventsIn(Append(s, x)) = EventsIn(s) \cup ({x} \cap Event)
         /\ InOrder(s) /\ (x \in Event => \A y \in EventsIn(s) : Before(y, x))
              => InOrder(Append(s, x))
<1>1. /\ DOMAIN Append(s, x) = 1..(Len(s) + 1) /\ DOMAIN s = 1..Len(s) /\ Len(s) \in Nat
      /\ \A i \in 1..Len(s) : Append(s, x)[i] = s[i]
      /\ Append(s, x)[Len(s) + 1] = x
  BY DEF QueueSeq
<1>2. 1..(Len(s) + 1) = (1..Len(s)) \cup {Len(s) + 1}
  BY <1>1
<1>3. EventsIn(Append(s, x)) = EventsIn(s) \cup ({x} \cap Event)
  BY <1>1, <1>2 DEF EventsIn, SeqRange
<1>4. ASSUME InOrder(s), x \in Event => \A y \in EventsIn(s) : Before(y, x),
             NEW a \in 1..(Len(s) + 1), NEW b \in 1..(Len(s) + 1), a < b,
             Append(s, x)[a] \in Event, Append(s, x)[b] \in Event
      PROVE  Before(Append(s, x)[a], Append(s, x)[b])
  <2>1. a \in 1..Len(s) /\ Append(s, x)[a] = s[a]
    BY <1>1, <1>4
  <2>2. CASE b \in 1..Len(s)
    BY <1>1, <1>4, <2>1, <2>2 DEF InOrder
  <2>3. CASE b = Len(s) + 1
    <3>1. s[a] \in EventsIn(s)
      BY <1>1, <1>4, <2>1 DEF EventsIn, SeqRange
    <3> QED
      BY <1>1, <1>4, <2>1, <2>3, <3>1
  <2> QED
    BY <1>2, <2>2, <2>3
<1> QED
  BY <1>1, <1>3, <1>4 DEF InOrder

LEMMA QueueGet ==
  ASSUME NEW s \in QueueSeq, s # <<>>, InOrder(s)
  PROVE  /\ EventsIn(Tail(s)) \subseteq EventsIn(s) /\ InOrder(Tail(s))
         /\ Head(s) \in Event => /\ Head(s) \in EventsIn(s)
                                 /\ \A y \in EventsIn(Tail(s)) : Before(Head(s), y)
<1>1. /\ Head(s) = s[1] /\ Len(s) \in Nat \ {0} /\ DOMAIN s = 1..Len(s)
      /\ DOMAIN Tail(s) = 1..(Len(s) - 1)
      /\ \A i \in 1..(Len(s) - 1) : Tail(s)[i] = s[i + 1]
  BY DEF QueueSeq
<1>2. \A i \in 1..(Len(s) - 1) : i + 1 \in 1..Len(s) /\ 1 < i + 1
  BY <1>1
<1>3. EventsIn(Tail(s)) \subseteq EventsIn(s)
  BY <1>1, <1>2 DEF EventsIn, SeqRange
<1>4. InOrder(Tail(s))
  <2>1. SUFFICES ASSUME NEW a \in 1..(Len(s) - 1), NEW b \in 1..(Len(s) - 1), a < b,
                        Tail(s)[a] \in Event, Tail(s)[b] \in Event
                 PROVE  Before(Tail(s)[a], Tail(s)[b])
    BY <1>1 DEF InOrder
  <2>2. a + 1 < b + 1
    BY <2>1
  <2> QED
    BY <1>1, <1>2, <2>1, <2>2 DEF InOrder
<1>5. ASSUME Head(s) \in Event
      PROVE  Head(s) \in EventsIn(s) /\ \A y \in EventsIn(Tail(s)) : Before(Head(s), y)
  <2>1. 1 \in DOMAIN s
    BY <1>1
  <2>2. Head(s) \in EventsIn(s)
    BY <1>1, <1>5, <2>1 DEF EventsIn, SeqRange
  <2>3. ASSUME NEW y \in EventsIn(Tail(s)) PROVE Before(Head(s), y)
    <3>1. PICK i \in 1..(Len(s) - 1) : y = Tail(s)[i]
      BY <1>1, <2>3 DEF EventsIn, SeqRange
    <3>2. y = s[i + 1] /\ i + 1 \in DOMAIN s /\ 1 < i + 1 /\ y \in Event
      BY <1>1, <1>2, <2>3, <3>1 DEF EventsIn
    <3> QED
      BY <1>1, <1>5, <2>1, <3>2 DEF InOrder
  <2> QED
    BY <2>2, <2>3
<1> QED
  BY <1>3, <1>4, <1>5

\* What the queues, the store and busy children hold are events.
LEMMA AllEvents ==
  ASSUME ProcInv
  PROVE  /\ \A j \in Slot, g \in 0..MaxDeaths : \A x \in EventsIn(mpQueue[<<j, g>>]) : x \in Event
         /\ \A x \in SeqRange(stored) : x \in Event
         /\ \A j \in Slot : child[j] = "busy" => holding[j] \in Event
  BY DEF EventsIn, ProcInv, ProcTypeOK, HoldOK, SeqRange

LEMMA EmptyQueue == EventsIn(<<>>) = {} /\ InOrder(<<>>)
BY DEF EventsIn, SeqRange, InOrder

\* Of a receiver that submits a message, what was given before is older.
LEMMA GivenOlder ==
  ASSUME ProcInv, NEW r \in Feeder, Submitting(r), NEW y \in Event, Given(y)
  PROVE  Before(y, cur[r])
<1>1. cur[r] \in Event /\ cur[r].rcv = r /\ cur[r].n = procRead[r]
  BY DEF ProcInv, SubmitOK
<1>2. y.rcv = r => y.n < procRead[r]
  BY DEF Given
<1> QED
  BY <1>1, <1>2 DEF Before

LEMMA GivenStays ==
  ASSUME ProcInv, [ProcNext]_procVars, NEW x \in Event, Given(x)
  PROVE  Given(x)'
<1>1. x.rcv \in Feeder /\ x.n \in Nat
  BY ProcessIngestAssumption DEF Event
<1>2. CASE UNCHANGED <<procRead, rpc>>
  BY <1>2 DEF Given, Submitting
<1>3. ASSUME NEW r \in Feeder, NEW k \in Key, Submit(r, k) PROVE Given(x)'
  <2>1. /\ procRead' = [procRead EXCEPT ![r] = procRead[r] + 1]
        /\ rpc' = [rpc EXCEPT ![r] = "put"]
        /\ procRead \in [Feeder -> Nat] /\ DOMAIN rpc = Feeder
    BY <1>3 DEF Submit, ProcInv, ProcTypeOK
  <2>2. procRead[x.rcv] \in Nat
    BY <1>1, <2>1, ProcessIngestAssumption
  <2>3. CASE x.rcv = r
    <3>1. procRead'[r] = procRead[r] + 1
      BY <2>1
    <3> QED
      BY <1>1, <2>2, <2>3, <3>1 DEF Given
  <2>4. CASE x.rcv # r
    <3>1. procRead'[x.rcv] = procRead[x.rcv] /\ rpc'[x.rcv] = rpc[x.rcv]
      BY <1>1, <2>1, <2>4
    <3> QED
      BY <3>1 DEF Given, Submitting
  <2> QED
    BY <2>3, <2>4
<1>4. ASSUME NEW r \in Feeder, CheckClosed(r) \/ Accept(r) \/ DropFull(r) PROVE Given(x)'
  <2>1. /\ procRead' = procRead /\ DOMAIN rpc = Feeder /\ Submitting(r)
        /\ \E c \in {"idle", "dead", "open"} : rpc' = [rpc EXCEPT ![r] = c]
    BY <1>4 DEF CheckClosed, Accept, DropFull, Return, Submitting, ProcInv, ProcTypeOK
  <2>2. Submitting(x.rcv)' => Submitting(x.rcv)
    BY <1>1, <2>1 DEF Submitting
  <2> QED
    BY <2>1, <2>2 DEF Given
<1>5. (\E i \in Slot : ChildStep(i) \/ Die(i)) \/ Supervise \/ ProcSigterm \/ SendSentinel
        \/ Join \/ KillAndExit \/ UNCHANGED procVars
        => UNCHANGED <<procRead, rpc>>
  BY DEF ChildStep, ChildGet, Store, Count, Die, Supervise, SuperviseCount, SuperviseClose,
     SuperviseReplace, SuperviseFail, SuperviseStart, SuperviseNote, ProcSigterm, SendSentinel,
     Join, KillAndExit, procVars, rcvVars
<1> QED
  BY <1>2, <1>3, <1>4, <1>5 DEF ProcNext

\* Nothing enters or leaves a queue, and no child begins to process.
LEMMA QuietOrder ==
  ASSUME ProcInv, OrderOK, \A x \in Event : Given(x) => Given(x)',
         UNCHANGED <<mpQueue, gen, stored>>,
         \A i \in Slot : child'[i] = "busy" => child[i] = "busy" /\ holding'[i] = holding[i]
  PROVE  OrderOK'
<1>1. /\ \A i \in Slot, g \in 0..MaxDeaths : \A x \in EventsIn(mpQueue[<<i, g>>]) : x \in Event
      /\ \A x \in SeqRange(stored) : x \in Event
      /\ \A i \in Slot : child[i] = "busy" => holding[i] \in Event
  BY DEF EventsIn, ProcInv, ProcTypeOK, HoldOK, SeqRange
<1>2. QueueOK'
  BY <1>1 DEF OrderOK, QueueOK, SlotOf
<1>3. StoredOK'
  BY <1>1 DEF OrderOK, StoredOK, SlotOf, Live
<1> QED
  BY <1>2, <1>3 DEF OrderOK

LEMMA InitOrderOK == ProcInit => OrderOK
<1> SUFFICES ASSUME ProcInit PROVE OrderOK
  OBVIOUS
<1>1. /\ \A i \in Slot, g \in 0..MaxDeaths : mpQueue[<<i, g>>] = <<>>
      /\ \A i \in Slot : gen[i] \in 0..MaxDeaths /\ child[i] = "get"
      /\ stored = <<>>
  BY ProcessIngestAssumption DEF ProcInit, Queue
<1>2. QueueOK
  BY <1>1, EmptyQueue DEF QueueOK
<1>3. StoredOK
  BY <1>1, EmptyQueue DEF StoredOK, Live, SeqRange, InOrder
<1> QED
  BY <1>2, <1>3 DEF OrderOK

LEMMA AcceptOrder ==
  ASSUME ProcInv, OrderOK, \A x \in Event : Given(x) => Given(x)', NEW r \in Feeder, Accept(r)
  PROVE  OrderOK'
<1>0. PICK m \in Event, q \in Queue : m = cur[r] /\ q = ref[r]
  BY DEF Accept, ProcInv, ProcTypeOK, SubmitOK, Submitting
<1>1. /\ rpc[r] = "open" /\ rpc' = [rpc EXCEPT ![r] = "idle"]
      /\ mpQueue' = [mpQueue EXCEPT ![q] = Append(mpQueue[q], m)]
      /\ UNCHANGED <<gen, stored, child, holding, procRead>>
  BY <1>0 DEF Accept, Return, childVars
<1>2. /\ m.rcv = r /\ m.n = procRead[r] /\ q[1] = SlotOf(m) /\ Submitting(r)
  BY <1>0, <1>1 DEF ProcInv, ProcTypeOK, SubmitOK, Submitting
<1>3. PICK h \in 0..MaxDeaths : q = <<SlotOf(m), h>> /\ SlotOf(m) \in Slot
  BY <1>2 DEF Queue
<1>4. Given(m)'
  <2>1. rpc'[r] = "idle"
    BY <1>1 DEF ProcInv, ProcTypeOK
  <2> QED
    BY <1>1, <1>2, <2>1 DEF Given, Submitting
<1>5. \A y \in Event : Given(y) => Before(y, m)
  BY <1>0, <1>2, GivenOlder
<1>6. /\ \A i \in Slot, g \in 0..MaxDeaths : \A x \in EventsIn(mpQueue[<<i, g>>]) : x \in Event
      /\ \A x \in SeqRange(stored) : x \in Event
      /\ \A i \in Slot : child[i] = "busy" => holding[i] \in Event
  BY SMTT(60) DEF EventsIn, ProcInv, ProcTypeOK, HoldOK, SeqRange
<1>7. ASSUME NEW i \in Slot, NEW g \in 0..MaxDeaths
      PROVE  /\ InOrder(mpQueue'[<<i, g>>])
             /\ EventsIn(mpQueue'[<<i, g>>]) \subseteq EventsIn(mpQueue[<<i, g>>]) \cup {m}
             /\ \A x \in EventsIn(mpQueue'[<<i, g>>]) : Given(x)' /\ SlotOf(x) = i
  <2>1. <<i, g>> \in Queue /\ mpQueue[<<i, g>>] \in QueueSeq
    BY DEF Queue, QueueSeq, ProcInv, ProcTypeOK
  <2>2. /\ InOrder(mpQueue[<<i, g>>])
        /\ \A x \in EventsIn(mpQueue[<<i, g>>]) : Given(x) /\ SlotOf(x) = i /\ Before(x, m)
    BY <1>5, <1>6 DEF OrderOK, QueueOK
  <2>3. CASE <<i, g>> = q
    <3>1. mpQueue'[q] = Append(mpQueue[q], m)
      BY <1>1, <1>2 DEF ProcInv, ProcTypeOK
    <3>2. i = SlotOf(m)
      BY <1>3, <2>3
    <3>3. InOrder(mpQueue'[q]) /\ EventsIn(mpQueue'[q]) = EventsIn(mpQueue[q]) \cup ({m} \cap Event)
      BY <1>2, <2>1, <2>2, <2>3, <3>1, QueuePut
    <3> QED
      <4>1. \A x \in EventsIn(mpQueue[q]) : x \in Event /\ Given(x)' /\ SlotOf(x) = i
        BY <1>6, <2>2, <2>3
      <4>2. \A x \in EventsIn(mpQueue'[q]) : x = m \/ x \in EventsIn(mpQueue[q])
        BY <3>3
      <4> QED
        BY <1>4, <2>3, <3>2, <3>3, <4>1, <4>2
  <2>4. CASE <<i, g>> # q
    <3>1. mpQueue'[<<i, g>>] = mpQueue[<<i, g>>]
      BY <1>1, <2>1, <2>4 DEF ProcInv, ProcTypeOK
    <3> QED
      BY <1>6, <2>2, <3>1
  <2> QED
    BY <2>3, <2>4
<1>8. QueueOK'
  BY <1>7 DEF QueueOK, SlotOf
<1>9. StoredOK'
  <2>1. \A x \in SeqRange(stored) : Given(x)' /\ Before(x, m)
    BY <1>5, <1>6 DEF OrderOK, StoredOK
  <2>2. ASSUME NEW i \in Slot
        PROVE  EventsIn(mpQueue'[Live(i)]) \subseteq EventsIn(mpQueue[Live(i)]) \cup {m}
    BY <1>7 DEF Live, ProcInv, ProcTypeOK
  <2>3. ASSUME NEW i \in Slot, NEW y \in EventsIn(mpQueue'[Live(i)]), NEW x \in SeqRange(stored)
        PROVE  Before(x, y)
    BY <2>1, <2>2, <2>3 DEF OrderOK, StoredOK
  <2>4. ASSUME NEW i \in Slot, child[i] = "busy"
        PROVE  /\ Given(holding[i])' /\ SlotOf(holding[i]) = i
               /\ \A y \in EventsIn(mpQueue'[Live(i)]) : Before(holding[i], y)
               /\ \A x \in SeqRange(stored) : Before(x, holding[i])
    <3>1. /\ Given(holding[i]) /\ SlotOf(holding[i]) = i /\ Before(holding[i], m)
          /\ \A y \in EventsIn(mpQueue[Live(i)]) : Before(holding[i], y)
          /\ \A x \in SeqRange(stored) : Before(x, holding[i])
      BY <1>5, <1>6, <2>4 DEF OrderOK, StoredOK
    <3>2. holding[i] \in Event /\ holding' = holding
      BY <1>1, <1>6, <2>4
    <3>3. Given(holding[i])'
      <4>1. PICK x \in Event : x = holding[i]
        BY <3>2
      <4>2. Given(x)'
        BY <3>1, <4>1
      <4> QED
        BY <3>2, <4>1, <4>2
    <3>4. \A y \in EventsIn(mpQueue'[Live(i)]) : Before(holding[i], y)
      BY <2>2, <3>1
    <3> QED
      BY <3>1, <3>3, <3>4
  <2>5. \A i \in Slot : Live(i)' = Live(i)
    BY <1>1 DEF Live
  <2> QED
    BY <1>1, <2>1, <2>3, <2>4, <2>5 DEF OrderOK, StoredOK, SlotOf, Before
<1> QED
  BY <1>8, <1>9 DEF OrderOK

\* The child takes the oldest message of its live queue.
LEMMA ChildGetOrder ==
  ASSUME ProcInv, OrderOK, \A x \in Event : Given(x) => Given(x)', NEW i \in Slot, ChildGet(i)
  PROVE  OrderOK'
<1>1. PICK q \in Queue, s \in QueueSeq : q = Live(i) /\ q = <<i, gen[i]>> /\ s = mpQueue[q]
  BY LiveQueue DEF ProcInv, Live, QueueSeq
<1>2. /\ s # <<>> /\ child[i] = "get"
      /\ mpQueue' = [mpQueue EXCEPT ![q] = Tail(s)]
      /\ UNCHANGED <<gen, stored>>
      /\ \/ child' = [child EXCEPT ![i] = "exited"] /\ holding' = holding
         \/ /\ Head(s) # Sentinel /\ child' = [child EXCEPT ![i] = "busy"]
            /\ holding' = [holding EXCEPT ![i] = Head(s)]
  BY <1>1 DEF ChildGet
<1>3. /\ \A j \in Slot, g \in 0..MaxDeaths : \A x \in EventsIn(mpQueue[<<j, g>>]) : x \in Event
      /\ \A x \in SeqRange(stored) : x \in Event
      /\ \A j \in Slot : child[j] = "busy" => holding[j] \in Event
  BY DEF EventsIn, ProcInv, ProcTypeOK, HoldOK, SeqRange
<1>4. gen[i] \in 0..MaxDeaths /\ InOrder(s) /\ \A j \in Slot : gen[j] \in 0..MaxDeaths
  BY <1>1 DEF ProcInv, ProcTypeOK, OrderOK, QueueOK
<1>5. /\ EventsIn(Tail(s)) \subseteq EventsIn(s) /\ InOrder(Tail(s))
      /\ Head(s) \in Event => /\ Head(s) \in EventsIn(s)
                              /\ \A y \in EventsIn(Tail(s)) : Before(Head(s), y)
  BY <1>2, <1>4, QueueGet
<1>6. ASSUME NEW j \in Slot, NEW g \in 0..MaxDeaths
      PROVE  /\ InOrder(mpQueue'[<<j, g>>])
             /\ EventsIn(mpQueue'[<<j, g>>]) \subseteq EventsIn(mpQueue[<<j, g>>])
  <2>1. CASE <<j, g>> = q
    <3>1. mpQueue'[q] = Tail(s)
      BY <1>2 DEF ProcInv, ProcTypeOK
    <3> QED
      BY <1>1, <1>5, <2>1, <3>1
  <2>2. CASE <<j, g>> # q
    <3>1. mpQueue'[<<j, g>>] = mpQueue[<<j, g>>]
      BY <1>2, <2>2 DEF ProcInv, ProcTypeOK, Queue
    <3> QED
      BY <3>1 DEF OrderOK, QueueOK
  <2> QED
    BY <2>1, <2>2
<1>7. QueueOK'
  <2>1. ASSUME NEW j \in Slot, NEW g \in 0..MaxDeaths, NEW x \in EventsIn(mpQueue'[<<j, g>>])
        PROVE  Given(x)' /\ SlotOf(x) = j
    <3>1. x \in Event /\ Given(x) /\ SlotOf(x) = j
      BY <1>3, <1>6, <2>1 DEF OrderOK, QueueOK
    <3> QED
      BY <3>1
  <2> QED
    BY <1>6, <2>1 DEF QueueOK, SlotOf
<1>8. StoredOK'
  <2>1. \A j \in Slot : EventsIn(mpQueue'[Live(j)]) \subseteq EventsIn(mpQueue[Live(j)])
    BY <1>4, <1>6 DEF Live
  <2>2. \A j \in Slot : Live(j)' = Live(j)
    BY <1>2 DEF Live
  <2>3. ASSUME NEW j \in Slot, child'[j] = "busy"
        PROVE  /\ Given(holding[j])' /\ SlotOf(holding'[j]) = j
               /\ \A y \in EventsIn(mpQueue'[Live(j)]) : Before(holding'[j], y)
               /\ \A x \in SeqRange(stored) : Before(x, holding'[j])
    <3>1. CASE j = i
      <4>1. holding'[i] = Head(s) /\ Head(s) \in Event /\ mpQueue'[Live(i)] = Tail(s)
        <5>1. Head(s) \in Event \cup {Sentinel}
          BY <1>2 DEF QueueSeq
        <5> QED
          BY <1>1, <1>2, <2>3, <3>1, <5>1 DEF ProcInv, ProcTypeOK
      <4>2. PICK h \in Event : h = Head(s)
        BY <4>1
      <4>3. h \in EventsIn(mpQueue[<<i, gen[i]>>])
        BY <1>1, <1>5, <4>2
      <4>4. Given(h) /\ SlotOf(h) = i
        BY <1>4, <4>3 DEF OrderOK, QueueOK
      <4>5. \A x \in SeqRange(stored) : Before(x, h)
        BY <4>3 DEF OrderOK, StoredOK, Live
      <4>6. Given(h)' /\ holding'[i] = h
        BY <4>1, <4>2, <4>4
      <4> QED
        BY <1>5, <3>1, <4>1, <4>2, <4>4, <4>5, <4>6
    <3>2. CASE j # i
      <4>1. child[j] = "busy" /\ holding'[j] = holding[j]
        BY <1>2, <2>3, <3>2 DEF ProcInv, ProcTypeOK
      <4>2. PICK h \in Event : h = holding[j] /\ holding'[j] = h
        BY <1>3, <4>1
      <4>3. /\ Given(h) /\ SlotOf(h) = j
            /\ \A y \in EventsIn(mpQueue[Live(j)]) : Before(h, y)
            /\ \A x \in SeqRange(stored) : Before(x, h)
        BY <4>1, <4>2 DEF OrderOK, StoredOK
      <4>4. Given(h)'
        BY <4>3
      <4> QED
        BY <2>1, <4>2, <4>3, <4>4
    <3> QED
      BY <3>1, <3>2
  <2>4. \A x \in SeqRange(stored) : Given(x)'
    BY <1>3 DEF OrderOK, StoredOK
  <2>5. \A j \in Slot : \A y \in EventsIn(mpQueue'[Live(j)]) :
          \A x \in SeqRange(stored) : Before(x, y)
    BY <2>1 DEF OrderOK, StoredOK
  <2>6. InOrder(stored)
    BY DEF OrderOK, StoredOK
  <2> QED
    BY <1>2, <2>2, <2>3, <2>4, <2>5, <2>6 DEF StoredOK, SlotOf
<1> QED
  BY <1>7, <1>8 DEF OrderOK

\* What other children hold and what waits for them has other keys.
LEMMA StoreOrder ==
  ASSUME ProcInv, OrderOK, \A x \in Event : Given(x) => Given(x)', NEW i \in Slot, Store(i)
  PROVE  OrderOK'
<1>1. PICK h \in Event : h = holding[i] /\ child[i] = "busy"
  BY DEF Store, ProcInv, HoldOK
<1>2. /\ child' = [child EXCEPT ![i] = "stored"] /\ stored' = Append(stored, h)
      /\ UNCHANGED <<mpQueue, gen, holding>>
  BY <1>1 DEF Store
<1>3. /\ \A j \in Slot, g \in 0..MaxDeaths : \A x \in EventsIn(mpQueue[<<j, g>>]) : x \in Event
      /\ \A x \in SeqRange(stored) : x \in Event
      /\ \A j \in Slot : child[j] = "busy" => holding[j] \in Event
      /\ stored \in QueueSeq
  BY DEF EventsIn, ProcInv, ProcTypeOK, HoldOK, SeqRange, QueueSeq
<1>4. /\ Given(h) /\ SlotOf(h) = i
      /\ \A y \in EventsIn(mpQueue[Live(i)]) : Before(h, y)
      /\ \A x \in SeqRange(stored) : Before(x, h)
  BY <1>1 DEF OrderOK, StoredOK
<1>5. \A y \in Event : SlotOf(y) # i => Before(h, y)
  BY <1>4 DEF SlotOf, Before
<1>6. SeqRange(stored') = SeqRange(stored) \cup {h}
  <2>1. /\ DOMAIN Append(stored, h) = 1..(Len(stored) + 1) /\ DOMAIN stored = 1..Len(stored)
        /\ Len(stored) \in Nat /\ \A n \in 1..Len(stored) : Append(stored, h)[n] = stored[n]
        /\ Append(stored, h)[Len(stored) + 1] = h
    BY DEF ProcInv, ProcTypeOK
  <2>2. 1..(Len(stored) + 1) = (1..Len(stored)) \cup {Len(stored) + 1}
    BY <2>1
  <2> QED
    BY <1>2, <2>1, <2>2 DEF SeqRange
<1>7. InOrder(stored')
  <2>1. InOrder(stored) /\ \A y \in EventsIn(stored) : Before(y, h)
    BY <1>4 DEF OrderOK, StoredOK, EventsIn
  <2> QED
    BY <1>2, <1>3, <2>1, QueuePut
<1>8. QueueOK'
  BY <1>2, <1>3 DEF OrderOK, QueueOK, SlotOf
<1>9. ASSUME NEW j \in Slot, NEW y \in EventsIn(mpQueue[Live(j)]) PROVE Before(h, y)
  <2>1. gen[j] \in 0..MaxDeaths
    BY DEF ProcInv, ProcTypeOK
  <2>2. y \in Event /\ SlotOf(y) = j
    BY <1>3, <1>9, <2>1 DEF OrderOK, QueueOK, Live
  <2> QED
    BY <1>4, <1>5, <1>9, <2>2
<1>10. ASSUME NEW j \in Slot, child'[j] = "busy"
       PROVE  /\ Given(holding[j])' /\ SlotOf(holding[j]) = j
              /\ \A y \in EventsIn(mpQueue[Live(j)]) : Before(holding[j], y)
              /\ \A x \in SeqRange(stored') : Before(x, holding[j])
  <2>1. j # i /\ child[j] = "busy"
    BY <1>2, <1>10 DEF ProcInv, ProcTypeOK
  <2>2. PICK e \in Event : e = holding[j]
    BY <1>3, <2>1
  <2>3. /\ Given(e) /\ SlotOf(e) = j
        /\ \A y \in EventsIn(mpQueue[Live(j)]) : Before(e, y)
        /\ \A x \in SeqRange(stored) : Before(x, e)
    BY <2>1, <2>2 DEF OrderOK, StoredOK
  <2>4. Before(h, e)
    BY <1>5, <2>1, <2>3
  <2>5. Given(e)' /\ holding' = holding
    BY <1>2, <2>3
  <2> QED
    BY <1>6, <2>2, <2>3, <2>4, <2>5
<1>11. StoredOK'
  <2>1. \A x \in SeqRange(stored') : Given(x)'
    BY <1>3, <1>4, <1>6 DEF OrderOK, StoredOK
  <2>2. \A j \in Slot : \A y \in EventsIn(mpQueue[Live(j)]) :
          \A x \in SeqRange(stored') : Before(x, y)
    BY <1>6, <1>9 DEF OrderOK, StoredOK
  <2>3. \A j \in Slot : Live(j)' = Live(j)
    BY <1>2 DEF Live
  <2> QED
    BY <1>2, <1>7, <1>10, <2>1, <2>2, <2>3 DEF StoredOK, SlotOf
<1> QED
  BY <1>8, <1>11 DEF OrderOK

\* The queue of the new generation is empty, and nobody reads it yet.
LEMMA ReplaceOrder ==
  ASSUME ProcInv, OrderOK, \A x \in Event : Given(x) => Given(x)', SuperviseReplace, ProcInv'
  PROVE  OrderOK'
<1>1. PICK i \in Slot : i = sup.slot
  BY DEF ProcInv, ProcTypeOK
<1>2. /\ gen' = [gen EXCEPT ![i] = gen[i] + 1] /\ UNCHANGED <<child, holding, mpQueue, stored>>
  BY <1>1 DEF SuperviseReplace
<1>3. /\ \A j \in Slot, g \in 0..MaxDeaths : \A x \in EventsIn(mpQueue[<<j, g>>]) : x \in Event
      /\ \A x \in SeqRange(stored) : x \in Event
      /\ \A j \in Slot : child[j] = "busy" => holding[j] \in Event
  BY AllEvents
<1>4. EventsIn(mpQueue'[Live(i)']) = {}
  <2>1. gen'[i] = gen[i] + 1 /\ gen[i] \in 0..MaxDeaths /\ gen'[i] \in 0..MaxDeaths
    BY <1>2 DEF ProcInv, ProcTypeOK
  <2>2. gen'[i] > gen[i]
    BY <2>1
  <2>3. mpQueue[<<i, gen'[i]>>] = <<>>
    BY <2>1, <2>2 DEF ProcInv, GenOK
  <2> QED
    BY <1>2, <2>3, EmptyQueue DEF Live
<1>5. \A j \in Slot \ {i} : Live(j)' = Live(j) /\ child'[j] = child[j] /\ holding'[j] = holding[j]
  BY <1>2 DEF Live, ProcInv, ProcTypeOK
<1>6. child'[i] = "dead"
  BY <1>1, <1>2 DEF SuperviseReplace, ProcInv, GenOK, Repairing
<1>7. QueueOK'
  BY <1>2, <1>3 DEF OrderOK, QueueOK, SlotOf
<1>8. StoredOK'
  <2>1. ASSUME NEW j \in Slot, child'[j] = "busy"
        PROVE  /\ Given(holding[j])' /\ SlotOf(holding'[j]) = j
               /\ \A y \in EventsIn(mpQueue'[Live(j)']) : Before(holding'[j], y)
               /\ \A x \in SeqRange(stored') : Before(x, holding'[j])
    <3>1. j # i /\ child[j] = "busy" /\ holding'[j] = holding[j] /\ Live(j)' = Live(j)
      BY <1>5, <1>6, <2>1
    <3>2. PICK h \in Event : h = holding[j] /\ holding'[j] = h
      BY <1>3, <3>1
    <3>3. /\ Given(h) /\ SlotOf(h) = j
          /\ \A y \in EventsIn(mpQueue[Live(j)]) : Before(h, y)
          /\ \A x \in SeqRange(stored) : Before(x, h)
      BY <3>1, <3>2 DEF OrderOK, StoredOK
    <3>4. Given(h)'
      BY <3>3
    <3> QED
      BY <1>2, <3>1, <3>2, <3>3, <3>4
  <2>2. \A x \in SeqRange(stored') : Given(x)'
    BY <1>2, <1>3 DEF OrderOK, StoredOK
  <2>3. ASSUME NEW j \in Slot, NEW y \in EventsIn(mpQueue'[Live(j)']), NEW x \in SeqRange(stored')
        PROVE  Before(x, y)
    <3>1. j # i
      BY <1>4, <2>3
    <3>2. y \in EventsIn(mpQueue[Live(j)])
      BY <1>2, <1>5, <2>3, <3>1
    <3> QED
      BY <1>2, <2>3, <3>2 DEF OrderOK, StoredOK
  <2>4. InOrder(stored')
    BY <1>2 DEF OrderOK, StoredOK
  <2> QED
    BY <2>1, <2>2, <2>3, <2>4 DEF StoredOK, SlotOf
<1> QED
  BY <1>7, <1>8 DEF OrderOK

LEMMA SentinelOrder ==
  ASSUME ProcInv, OrderOK, \A x \in Event : Given(x) => Given(x)', SendSentinel
  PROVE  OrderOK'
<1>1. UNCHANGED <<gen, stored, child, holding>> /\ nextq \in Slot
  BY ProcessIngestAssumption DEF SendSentinel, childVars, ProcInv, ProcTypeOK, Slot
<1>2. CASE mpQueue' = mpQueue
  BY <1>1, <1>2, QuietOrder
<1>3. CASE mpQueue' = [mpQueue EXCEPT ![Live(nextq)] = Append(mpQueue[Live(nextq)], Sentinel)]
  <2>1. PICK q \in Queue, s \in QueueSeq : q = Live(nextq) /\ s = mpQueue[q]
    BY <1>1, LiveQueue DEF ProcInv, QueueSeq
  <2>2. /\ \A j \in Slot, g \in 0..MaxDeaths : \A x \in EventsIn(mpQueue[<<j, g>>]) : x \in Event
        /\ \A x \in SeqRange(stored) : x \in Event
        /\ \A j \in Slot : child[j] = "busy" => holding[j] \in Event
    BY DEF EventsIn, ProcInv, ProcTypeOK, HoldOK, SeqRange
  <2>3. EventsIn(Append(s, Sentinel)) = EventsIn(s)
        /\ (InOrder(s) => InOrder(Append(s, Sentinel)))
    BY NotEvents, QueuePut
  <2>4. ASSUME NEW j \in Slot, NEW g \in 0..MaxDeaths
        PROVE  /\ InOrder(mpQueue'[<<j, g>>])
               /\ EventsIn(mpQueue'[<<j, g>>]) = EventsIn(mpQueue[<<j, g>>])
    <3>1. <<j, g>> \in Queue /\ InOrder(mpQueue[<<j, g>>])
      BY DEF Queue, OrderOK, QueueOK
    <3>2. CASE <<j, g>> = q
      <4>1. mpQueue'[q] = Append(s, Sentinel)
        BY <1>3, <2>1 DEF ProcInv, ProcTypeOK
      <4> QED
        BY <2>1, <2>3, <3>1, <3>2, <4>1
    <3>3. CASE <<j, g>> # q
      BY <1>3, <2>1, <3>1, <3>3 DEF ProcInv, ProcTypeOK
    <3> QED
      BY <3>2, <3>3
  <2>5. QueueOK'
    BY <2>2, <2>4 DEF OrderOK, QueueOK, SlotOf
  <2>6. \A j \in Slot : Live(j)' = Live(j) /\ EventsIn(mpQueue'[Live(j)]) = EventsIn(mpQueue[Live(j)])
    BY <1>1, <2>4 DEF Live, ProcInv, ProcTypeOK
  <2>7. StoredOK'
    BY <1>1, <2>2, <2>6 DEF OrderOK, StoredOK, SlotOf
  <2> QED
    BY <2>5, <2>7 DEF OrderOK
<1> QED
  BY <1>2, <1>3 DEF SendSentinel

LEMMA NextOrderOK == ProcInv /\ OrderOK /\ [ProcNext]_procVars => OrderOK'
<1> SUFFICES ASSUME ProcInv, OrderOK, [ProcNext]_procVars PROVE OrderOK'
  OBVIOUS
<1>1. \A x \in Event : Given(x) => Given(x)'
  BY GivenStays
<1>2. CASE (\E r \in Feeder, k \in Key : Submit(r, k)) \/ (\E r \in Feeder : CheckClosed(r) \/ DropFull(r))
           \/ (\E i \in Slot : SuperviseCount(i)) \/ SuperviseClose \/ SuperviseNote
           \/ ProcSigterm \/ Join \/ UNCHANGED procVars
  <2>1. UNCHANGED <<mpQueue, gen, stored, child, holding>>
    BY <1>2 DEF Submit, CheckClosed, DropFull, SuperviseCount, SuperviseClose, SuperviseNote,
       ProcSigterm, Join, procVars, childVars
  <2> QED
    BY <1>1, <2>1, QuietOrder
<1>3. CASE KillAndExit \/ SuperviseFail \/ SuperviseStart \/ \E i \in Slot : Count(i) \/ Die(i)
  <2>1. /\ UNCHANGED <<mpQueue, gen, stored>>
        /\ \A i \in Slot : child'[i] = "busy" => child[i] = "busy" /\ holding'[i] = holding[i]
    <3>1. CASE KillAndExit \/ \E i \in Slot : Count(i) \/ Die(i)
      BY ZenonT(60), <3>1 DEF KillAndExit, Count, Die, ProcInv, ProcTypeOK
    <3>2. CASE SuperviseFail
      <4>1. /\ UNCHANGED <<mpQueue, gen, stored, child>>
            /\ holding' = [holding EXCEPT ![sup.slot] = NoEvent] /\ child[sup.slot] = "dead"
        BY <3>2 DEF SuperviseFail, ProcInv, GenOK, Repairing
      <4> QED
        BY <4>1 DEF ProcInv, ProcTypeOK
    <3>3. CASE SuperviseStart
      BY <3>3 DEF SuperviseStart, ProcInv, ProcTypeOK
    <3> QED
      BY <1>3, <3>1, <3>2, <3>3
  <2> QED
    BY <1>1, <2>1, QuietOrder
<1>4. ProcInv'
  BY ProcNextInv
<1> QED
  BY <1>1, <1>2, <1>3, <1>4, AcceptOrder, ChildGetOrder, StoreOrder, ReplaceOrder, SentinelOrder
  DEF ProcNext, ChildStep, Supervise

\* The messages of a key are stored in the order in which a receiver accepted
\* them, and none twice, whichever children die and are replaced meanwhile
\* (submit of ingest_workers.py: the slot depends on the key only).
THEOREM KeyOrderHolds == ProcSpec => []KeyOrder
<1>1. ProcSpec => []OrderOK
  BY InitOrderOK, NextOrderOK, ProcAlways, PTL DEF ProcSpec
<1>2. ProcInv /\ OrderOK => KeyOrder
  BY DEF ProcInv, ProcTypeOK, OrderOK, StoredOK, InOrder, Before, KeyOrder
<1> QED
  BY <1>1, <1>2, ProcAlways, PTL
-----------------------------------------------------------------------------
(***************************************************************************)
(* The counters of the children.                                           *)
(***************************************************************************)
LEMMA RealFinite ==
  ASSUME NEW s \in QueueSeq
  PROVE  IsFiniteSet(Real(s)) /\ Cardinality(Real(s)) \in Nat
<1>1. Real(s) \subseteq 1..Len(s) /\ Len(s) \in Nat
  BY DEF Real, QueueSeq
<1>2. IsFiniteSet(1..Len(s))
  BY <1>1, FS_Interval
<1> QED
  BY <1>1, <1>2, FS_Subset, FS_CardinalityType

LEMMA RealPut ==
  ASSUME NEW s \in QueueSeq, NEW x \in Event \cup {Sentinel}
  PROVE  /\ x = Sentinel => Cardinality(Real(Append(s, x))) = Cardinality(Real(s))
         /\ x # Sentinel => Cardinality(Real(Append(s, x))) = Cardinality(Real(s)) + 1
<1>1. /\ DOMAIN Append(s, x) = 1..(Len(s) + 1) /\ DOMAIN s = 1..Len(s) /\ Len(s) \in Nat
      /\ \A k \in 1..Len(s) : Append(s, x)[k] = s[k]
      /\ Append(s, x)[Len(s) + 1] = x
  BY DEF QueueSeq
<1>2. 1..(Len(s) + 1) = (1..Len(s)) \cup {Len(s) + 1} /\ Len(s) + 1 \notin 1..Len(s)
  BY <1>1
<1>3. x = Sentinel => Real(Append(s, x)) = Real(s)
  BY <1>1, <1>2 DEF Real
<1>4. x # Sentinel => Real(Append(s, x)) = Real(s) \cup {Len(s) + 1}
  BY <1>1, <1>2 DEF Real
<1>5. Len(s) + 1 \notin Real(s)
  BY <1>1, <1>2 DEF Real
<1> QED
  BY <1>3, <1>4, <1>5, RealFinite, FS_AddElement

LEMMA RealGet ==
  ASSUME NEW s \in QueueSeq, s # <<>>
  PROVE  /\ Head(s) = Sentinel => Cardinality(Real(Tail(s))) = Cardinality(Real(s))
         /\ Head(s) # Sentinel => Cardinality(Real(Tail(s))) = Cardinality(Real(s)) - 1
<1>1. /\ DOMAIN s = 1..Len(s) /\ Len(s) \in Nat \ {0} /\ DOMAIN Tail(s) = 1..(Len(s) - 1)
      /\ \A k \in 1..(Len(s) - 1) : Tail(s)[k] = s[k + 1]
      /\ Head(s) = s[1] /\ Tail(s) \in QueueSeq
  BY DEF QueueSeq
<1> DEFINE A == Real(s) \ {1}
           B == Real(Tail(s))
           f == [k \in A |-> k - 1]
<1>2. \A k \in A : k \in 2..Len(s) /\ k - 1 \in 1..(Len(s) - 1) /\ s[k] # Sentinel
  BY <1>1 DEF Real
<1>3. \A k \in A : k - 1 \in B
  <2>1. \A k \in A : (k - 1) + 1 = k
    BY <1>2
  <2> QED
    BY <1>1, <1>2, <2>1 DEF Real
<1>4. \A k \in B : k \in Nat /\ k + 1 \in A /\ (k + 1) - 1 = k
  BY <1>1 DEF Real
<1>5. IsFiniteSet(A) /\ IsFiniteSet(B)
  BY <1>1, RealFinite, FS_Subset
<1> HIDE DEF A, B
<1>6. f \in [A -> B]
  BY <1>3
<1>7. \A k, n \in A : f[k] = f[n] => k = n
  BY <1>2
<1>8. \A k \in B : \E n \in A : f[n] = k
  BY <1>4
<1>9. f \in Bijection(A, B)
  BY <1>6, <1>7, <1>8 DEF Bijection, Injection, Surjection, IsInjective
<1>10. Cardinality(A) = Cardinality(B)
  <2> HIDE DEF f
  <2> QED
    BY <1>5, <1>9, FS_Bijection DEF ExistsBijection
<1>11. CASE Head(s) = Sentinel
  <2>1. A = Real(s)
    BY <1>1, <1>11 DEF A, Real
  <2> QED
    BY <1>10, <1>11, <2>1 DEF B
<1>12. CASE Head(s) # Sentinel
  <2>1. 1 \in Real(s)
    BY <1>1, <1>12 DEF Real
  <2>2. Cardinality(A) = Cardinality(Real(s)) - 1
    BY <2>1, RealFinite, FS_RemoveElement DEF A
  <2> QED
    BY <1>10, <1>12, <2>2 DEF B
<1> QED
  BY <1>11, <1>12

LEMMA RealLen ==
  ASSUME NEW s \in QueueSeq, Sentinel \notin SeqRange(s)
  PROVE  Cardinality(Real(s)) = Len(s)
<1>1. Real(s) = 1..Len(s) /\ Len(s) \in Nat
  BY DEF Real, QueueSeq, SeqRange
<1> QED
  BY SMTT(60), <1>1, FS_Interval

\* What one slot has on the way; the sum moves with the slot that changes.
LEMMA WayFacts ==
  ASSUME ProcTypeOK
  PROVE  /\ IsFiniteSet(Slot) /\ OnTheWay \in Int
         /\ \A i \in Slot : /\ mpQueue[Live(i)] \in QueueSeq
                            /\ Waiting(i) = Cardinality(Real(mpQueue[Live(i)]))
                            /\ Waiting(i) \in Nat /\ ChildHolds(i) \in {0, 1}
<1>1. IsFiniteSet(Slot)
  BY ProcessIngestAssumption, FS_Interval DEF Slot
<1>2. ASSUME NEW i \in Slot
      PROVE  /\ mpQueue[Live(i)] \in QueueSeq
             /\ Waiting(i) = Cardinality(Real(mpQueue[Live(i)]))
             /\ Waiting(i) \in Nat /\ ChildHolds(i) \in {0, 1}
  <2>1. mpQueue[Live(i)] \in QueueSeq
    BY LiveQueue DEF QueueSeq
  <2>2. Waiting(i) = Cardinality(Real(mpQueue[Live(i)]))
    BY DEF Waiting, Backlog, Real
  <2>3. Waiting(i) \in Nat
    BY <2>1, <2>2, RealFinite
  <2> QED
    BY <2>1, <2>2, <2>3 DEF ChildHolds
<1> DEFINE f == [i \in Slot |-> Cardinality(Backlog(i)) + ChildHolds(i)]
<1>3. \A i \in Slot : f[i] \in Int
  BY <1>2 DEF Waiting
<1>4. SumFunctionOnSet(f, Slot) \in Int
  <2> HIDE DEF f
  <2> QED
    BY <1>1, <1>3, SumType
<1> QED
  BY <1>1, <1>2, <1>4 DEF OnTheWay

LEMMA WayMoves ==
  ASSUME ProcTypeOK, ProcTypeOK', NEW i \in Slot,
         \A j \in Slot \ {i} : Waiting(j)' = Waiting(j) /\ ChildHolds(j)' = ChildHolds(j)
  PROVE  OnTheWay' = OnTheWay - (Waiting(i) + ChildHolds(i)) + (Waiting(i)' + ChildHolds(i)')
<1> DEFINE f == [j \in Slot |-> Cardinality(Backlog(j)) + ChildHolds(j)]
           g == [j \in Slot |-> Cardinality(Backlog(j)') + ChildHolds(j)']
<1>1. /\ IsFiniteSet(Slot) /\ \A j \in Slot : f[j] = Waiting(j) + ChildHolds(j) /\ f[j] \in Int
  BY WayFacts DEF Waiting
<1>2. \A j \in Slot : /\ Waiting(j)' \in Nat /\ ChildHolds(j)' \in {0, 1}
  <2> TAKE j \in Slot
  <2>1. gen'[j] \in 0..MaxDeaths /\ mpQueue' \in [Queue -> Seq(Event \cup {Sentinel})]
    BY DEF ProcTypeOK
  <2>2. mpQueue'[<<j, gen'[j]>>] \in QueueSeq
    BY <2>1 DEF Queue, QueueSeq
  <2>3. Waiting(j)' = Cardinality(Real(mpQueue'[<<j, gen'[j]>>]))
    BY DEF Waiting, Backlog, Real, Live
  <2>4. Waiting(j)' \in Nat
    BY <2>2, <2>3, RealFinite
  <2> QED
    BY <2>4 DEF ChildHolds
<1>3. \A j \in Slot : g[j] = Waiting(j)' + ChildHolds(j)' /\ g[j] \in Int
  BY <1>2 DEF Waiting
<1>4. OnTheWay = SumFunctionOnSet(f, Slot) /\ OnTheWay' = SumFunctionOnSet(g, Slot)
  BY DEF OnTheWay
<1>5. \A j \in Slot \ {i} : g[j] = f[j]
  BY <1>1, <1>3
<1>6. g[i] \in Int /\ g[i] = Waiting(i)' + ChildHolds(i)' /\ f[i] = Waiting(i) + ChildHolds(i)
  BY <1>1, <1>3
<1> HIDE DEF f, g
<1>7. SumFunctionOnSet(g, Slot) = SumFunctionOnSet(f, Slot) - f[i] + g[i]
  BY <1>1, <1>5, <1>6, SumChange
<1> QED
  BY <1>4, <1>6, <1>7

LEMMA WayStays ==
  ASSUME ProcTypeOK, ProcTypeOK',
         \A j \in Slot : Waiting(j)' = Waiting(j) /\ ChildHolds(j)' = ChildHolds(j)
  PROVE  OnTheWay' = OnTheWay
<1>1. 1 \in Slot
  BY ProcessIngestAssumption DEF Slot
<1>2. OnTheWay' = OnTheWay - (Waiting(1) + ChildHolds(1)) + (Waiting(1)' + ChildHolds(1)')
  BY <1>1, WayMoves
<1>3. /\ Waiting(1)' = Waiting(1) /\ ChildHolds(1)' = ChildHolds(1)
      /\ Waiting(1) \in Nat /\ ChildHolds(1) \in {0, 1} /\ OnTheWay \in Int
  BY <1>1, WayFacts
<1> QED
  BY <1>2, <1>3

LEMMA CountTypes ==
  ASSUME ProcInv, AcceptedOK
  PROVE  /\ processed \in Nat /\ failed \in Nat /\ restarts \in Nat /\ OnTheWay \in Int
         /\ sup.lost \in Nat /\ sup.slot \in Slot /\ Waiting(sup.slot) \in Nat
         /\ Unrecorded \in Nat /\ Extra \in {0, 1}
         /\ IsFiniteSet(window) /\ Cardinality(window) \in Nat /\ Cardinality(accepted) \in Nat
<1>1. sup.lost \in Nat /\ sup.slot \in Slot /\ {processed, failed, restarts} \subseteq Nat
      /\ window \subseteq accepted
  BY DEF ProcInv, ProcTypeOK
<1>2. Waiting(sup.slot) \in Nat /\ OnTheWay \in Int
  BY <1>1, WayFacts DEF ProcInv
<1>3. IsFiniteSet(window) /\ Cardinality(window) \in Nat /\ Cardinality(accepted) \in Nat
  BY <1>1, FS_Subset, FS_CardinalityType DEF AcceptedOK
<1> QED
  BY <1>1, <1>2, <1>3 DEF Unrecorded, Extra

LEMMA InitCount == ProcInit => CountOK
<1> SUFFICES ASSUME ProcInit PROVE CountOK
  OBVIOUS
<1>1. ProcTypeOK /\ IsFiniteSet(Slot)
  BY ProcInitInv, WayFacts DEF ProcInv
<1>2. UpOK
  BY LiveQueue, <1>1 DEF ProcInit, UpOK, SeqRange
<1>3. AcceptedOK /\ Cardinality(accepted) = 0 /\ Cardinality(window) = 0
  BY FS_EmptySet DEF ProcInit, AcceptedOK
<1> DEFINE f == [j \in Slot |-> Cardinality(Backlog(j)) + ChildHolds(j)]
<1>4. ASSUME NEW j \in Slot PROVE f[j] = 0
  <2>1. mpQueue[Live(j)] = <<>> /\ holding[j] = NoEvent
    BY <1>1, LiveQueue DEF ProcInit
  <2>2. Backlog(j) = {}
    BY <2>1 DEF Backlog
  <2>3. Cardinality(Backlog(j)) = 0 /\ ChildHolds(j) = 0
    BY <2>1, <2>2, FS_EmptySet, NotEvents DEF ChildHolds
  <2> QED
    BY <2>3
<1>5. OnTheWay = 0
  <2> HIDE DEF f
  <2>1. SumFunctionOnSet(f, Slot) = 0
    BY <1>1, <1>4, SumOfZeros
  <2> QED
    BY <2>1 DEF OnTheWay, f
<1>6. sup.at = "idle" /\ processed = 0 /\ failed = 0 /\ restarts = 0
  BY DEF ProcInit, IdleSup
<1>7. SumsOK
  BY <1>3, <1>5, <1>6 DEF SumsOK, Uncounted, Unrecorded, Extra, Counting
<1> QED
  BY <1>2, <1>3, <1>7 DEF CountOK

\* A step that moves nothing between the queues, the children and the counters.
LEMMA QuietCount ==
  ASSUME ProcInv, ProcInv', CountOK, \A x \in Event : Given(x) => Given(x)', UpOK',
         \A j \in Slot : Waiting(j)' = Waiting(j),
         UNCHANGED <<holding, processed, failed, restarts, accepted, window>>,
         UNCHANGED sup
  PROVE  CountOK'
<1>1. AcceptedOK'
  BY DEF CountOK, AcceptedOK, ProcInv, ProcTypeOK
<1>2. OnTheWay' = OnTheWay
  <2>1. \A j \in Slot : ChildHolds(j)' = ChildHolds(j)
    BY DEF ChildHolds
  <2>2. ProcTypeOK /\ ProcTypeOK'
    BY DEF ProcInv
  <2> QED
    BY <2>1, <2>2, WayStays
<1>3. Waiting(sup.slot)' = Waiting(sup.slot)
  <2>1. sup.slot \in Slot /\ sup' = sup
    BY DEF ProcInv, ProcTypeOK
  <2>2. PICK i \in Slot : i = sup.slot
    BY <2>1
  <2>3. Waiting(i)' = Waiting(i)
    OBVIOUS
  <2>4. Waiting(sup.slot) = Waiting(i) /\ Waiting(sup.slot)' = Waiting(i)'
    BY <2>1, <2>2 DEF Waiting, Backlog, Live
  <2> QED
    BY <2>3, <2>4
<1>4. Uncounted' = Uncounted /\ Unrecorded' = Unrecorded /\ Extra' = Extra
      /\ Counting' = Counting
  BY <1>3 DEF Uncounted, Unrecorded, Extra, Counting
<1>5. SumsOK'
  BY <1>2, <1>3, <1>4 DEF CountOK, SumsOK
<1> QED
  BY <1>1, <1>5 DEF CountOK

\* An accepted message is new; it is in a live queue or in the window.
LEMMA AcceptCount ==
  ASSUME ProcInv, ProcInv', CountOK, \A x \in Event : Given(x) => Given(x)',
         NEW r \in Feeder, Accept(r)
  PROVE  CountOK'
<1>1. PICK m, q, i : m = cur[r] /\ q = ref[r] /\ i = q[1]
  OBVIOUS
<1>2. m \in Event /\ m.rcv = r /\ m.n = procRead[r] /\ q \in Queue /\ i \in Slot
  <2>1. Submitting(r)
    BY DEF Accept, Submitting
  <2>2. m \in Event /\ m.rcv = r /\ m.n = procRead[r]
    BY <1>1, <2>1 DEF ProcInv, SubmitOK
  <2>3. q \in Queue
    BY <1>1 DEF ProcInv, ProcTypeOK
  <2> QED
    BY <1>1, <2>2, <2>3 DEF Queue
<1>3. /\ mpQueue' = [mpQueue EXCEPT ![q] = Append(mpQueue[q], m)]
      /\ accepted' = accepted \cup {m}
      /\ window' = IF Counted(q) THEN window \cup {m} ELSE window
      /\ rpc' = [rpc EXCEPT ![r] = "idle"]
      /\ UNCHANGED <<procRead, gen, holding, processed, failed, restarts, sup, procMain>>
  BY <1>1 DEF Accept, Return, childVars
<1>4. m \notin accepted /\ m \notin window
  <2>1. ~Given(m)
    BY SMTT(60), <1>2 DEF Given, Accept, Submitting, ProcInv, ProcTypeOK
  <2> QED
    BY <2>1 DEF CountOK, AcceptedOK, ProcInv, ProcTypeOK
<1>5. AcceptedOK'
  <2>1. IsFiniteSet(accepted')
    BY <1>3, FS_AddElement DEF CountOK, AcceptedOK
  <2>2. Given(m)'
    <3>1. rpc'[r] = "idle"
      BY <1>3 DEF ProcInv, ProcTypeOK
    <3> QED
      BY <1>2, <1>3, <3>1 DEF Given, Submitting
  <2>3. \A x \in accepted : Given(x)'
    BY DEF CountOK, AcceptedOK, ProcInv, ProcTypeOK
  <2> QED
    BY <1>3, <2>1, <2>2, <2>3 DEF AcceptedOK
<1>6. Cardinality(accepted') = Cardinality(accepted) + 1
  BY <1>3, <1>4, FS_AddElement DEF CountOK, AcceptedOK
<1>7. /\ Counted(q) => Cardinality(window') = Cardinality(window) + 1
      /\ ~Counted(q) => Cardinality(window') = Cardinality(window)
  <2>1. IsFiniteSet(window)
    BY CountTypes DEF CountOK
  <2>2. Cardinality(window \cup {m}) = Cardinality(window) + 1
    BY <1>4, <2>1, FS_AddElement
  <2> QED
    BY <1>3, <2>2
<1>8. PICK s \in QueueSeq : s = mpQueue[q] /\ mpQueue'[q] = Append(s, m)
  BY ZenonT(60), <1>2, <1>3 DEF ProcInv, ProcTypeOK, QueueSeq
<1>9. ASSUME NEW j \in Slot
      PROVE  /\ Live(j) = q => Waiting(j)' = Waiting(j) + 1
             /\ Live(j) # q => Waiting(j)' = Waiting(j)
             /\ ChildHolds(j)' = ChildHolds(j)
  <2>1. Live(j)' = Live(j) /\ ChildHolds(j)' = ChildHolds(j) /\ Live(j) \in Queue
    BY <1>3, LiveQueue DEF Live, ChildHolds, ProcInv
  <2>2. Waiting(j) = Cardinality(Real(mpQueue[Live(j)]))
        /\ Waiting(j)' = Cardinality(Real(mpQueue'[Live(j)]))
    BY <2>1 DEF Waiting, Backlog, Real
  <2>3. CASE Live(j) = q
    <3>1. m # Sentinel /\ m \in Event \cup {Sentinel}
      BY <1>2, NotEvents
    <3>2. Cardinality(Real(Append(s, m))) = Cardinality(Real(s)) + 1
      BY <3>1, RealPut
    <3> QED
      BY <1>8, <2>1, <2>2, <2>3, <3>2
  <2>4. CASE Live(j) # q
    <3>1. mpQueue'[Live(j)] = mpQueue[Live(j)]
      BY <1>3, <2>1, <2>4 DEF ProcInv, ProcTypeOK
    <3> QED
      BY <2>1, <2>2, <2>4, <3>1
  <2> QED
    BY <2>3, <2>4
<1>10. UpOK'
  <2>1. ASSUME procMain = "up", NEW j \in Slot PROVE Sentinel \notin SeqRange(mpQueue'[Live(j)])
    <3>1. Live(j) \in Queue /\ Sentinel \notin SeqRange(mpQueue[Live(j)])
      BY <2>1, LiveQueue DEF CountOK, UpOK, ProcInv
    <3>2. CASE Live(j) = q
      <4>1. Sentinel \notin SeqRange(s) /\ m # Sentinel
        BY <1>2, <1>8, <3>1, <3>2, NotEvents
      <4>2. Sentinel \notin SeqRange(Append(s, m))
        BY <1>2, <4>1 DEF SeqRange, QueueSeq
      <4> QED
        BY <1>8, <3>2, <4>2
    <3>3. CASE Live(j) # q
      BY <1>3, <3>1, <3>3 DEF ProcInv, ProcTypeOK
    <3> QED
      BY <3>2, <3>3
  <2>2. \A j \in Slot : Live(j)' = Live(j)
    BY <1>3 DEF Live
  <2> QED
    BY <1>3, <2>1, <2>2 DEF UpOK
<1>11. ProcTypeOK /\ ProcTypeOK'
  BY DEF ProcInv
<1>12. \A j \in Slot : Live(j)[1] = j
  BY LiveQueue DEF ProcInv
<1>13. \A j \in Slot \ {i} : Waiting(j)' = Waiting(j) /\ ChildHolds(j)' = ChildHolds(j)
  BY <1>1, <1>9, <1>12
<1>14. OnTheWay' = OnTheWay - (Waiting(i) + ChildHolds(i)) + (Waiting(i)' + ChildHolds(i)')
  BY <1>2, <1>11, <1>13, WayMoves
<1>15. Waiting(i) \in Nat /\ ChildHolds(i) \in {0, 1} /\ ChildHolds(i)' = ChildHolds(i)
  BY <1>2, <1>9, <1>11, WayFacts
<1>16. PICK k \in Slot : k = sup.slot
  BY CountTypes DEF CountOK
<1>17. /\ Waiting(sup.slot) = Waiting(k) /\ Waiting(sup.slot)' = Waiting(k)'
       /\ Waiting(k) \in Nat
  <2>1. sup' = sup
    BY <1>3
  <2> QED
    BY <1>11, <1>16, <2>1, WayFacts DEF Waiting, Backlog, Live
<1>18. Uncounted = (IF Counting THEN Waiting(k) - sup.lost ELSE 0)
       /\ Uncounted' = (IF Counting THEN Waiting(k)' - sup.lost ELSE 0)
       /\ Unrecorded' = Unrecorded /\ Extra' = Extra /\ Counting' = Counting
  BY <1>3, <1>17 DEF Uncounted, Unrecorded, Extra, Counting
<1>19. SumsOK'
  <2>1. /\ Counting => sup.lost <= Waiting(k)
        /\ Cardinality(accepted) + Uncounted
             <= processed + failed + OnTheWay + Cardinality(window) + Unrecorded
        /\ processed + failed + OnTheWay + Unrecorded <= Cardinality(accepted) + restarts + Extra
    BY <1>17 DEF CountOK, SumsOK
  <2>2. /\ processed \in Nat /\ failed \in Nat /\ restarts \in Nat /\ OnTheWay \in Int
        /\ sup.lost \in Nat /\ Cardinality(window) \in Nat /\ Cardinality(accepted) \in Nat
        /\ Unrecorded \in Nat /\ Extra \in Nat
    BY CountTypes DEF CountOK
  <2>3. ASSUME NEW do \in {0, 1}, NEW du \in {0, 1}, NEW dw \in {0, 1}, do + dw = du + 1,
               OnTheWay' = OnTheWay + do, Uncounted' = Uncounted + du,
               Cardinality(window') = Cardinality(window) + dw,
               Counting => sup.lost <= Waiting(k)'
        PROVE  SumsOK'
    <3>0. Uncounted \in Int /\ processed + failed \in Nat /\ restarts + Extra \in Nat
      BY <1>17, <1>18, <2>2
    <3>a. PICK a \in Nat : a = Cardinality(accepted)
      BY <2>2
    <3>c. PICK c \in Nat : c = processed + failed
      BY <3>0
    <3>o. PICK o \in Int : o = OnTheWay
      BY <2>2
    <3>w. PICK w \in Nat : w = Cardinality(window)
      BY <2>2
    <3>u. PICK u \in Int : u = Uncounted
      BY <3>0
    <3>x. PICK x \in Nat : x = Unrecorded
      BY <2>2
    <3>n. PICK n \in Nat : n = restarts + Extra
      BY <3>0
    <3>1. /\ a = Cardinality(accepted) /\ c = processed + failed /\ o = OnTheWay
          /\ w = Cardinality(window) /\ u = Uncounted /\ x = Unrecorded
          /\ n = restarts + Extra
      BY <3>a, <3>c, <3>o, <3>w, <3>u, <3>x, <3>n
    <3>2. a + u <= c + o + w + x /\ c + o + x <= a + n
      BY <2>1, <2>2, <3>1
    <3>3. (a + 1) + (u + du) <= c + (o + do) + (w + dw) + x /\ c + (o + do) + x <= (a + 1) + n
      BY <2>3, <3>2
    <3>4. /\ Cardinality(accepted') + Uncounted'
               <= processed' + failed' + OnTheWay' + Cardinality(window') + Unrecorded'
          /\ processed' + failed' + OnTheWay' + Unrecorded'
               <= Cardinality(accepted') + (restarts' + Extra')
      BY <1>3, <1>6, <1>18, <2>3, <3>1, <3>3
    <3>5. Cardinality(accepted') + (restarts' + Extra') = Cardinality(accepted') + restarts' + Extra'
      BY <1>3, <1>6, <1>18, <2>2
    <3>6. Counting' => sup'.lost <= Waiting(sup.slot)'
      BY <1>3, <1>17, <1>18, <2>3
    <3> QED
      BY <3>4, <3>5, <3>6 DEF SumsOK
  <2>4. CASE q # Live(i)
    <3>1. Counted(q) /\ Waiting(i)' = Waiting(i) /\ Waiting(k)' = Waiting(k)
      BY <1>1, <1>2, <1>9, <1>12, <2>4 DEF Counted, Counting
    <3>2. /\ OnTheWay' = OnTheWay + 0 /\ Uncounted' = Uncounted + 0
          /\ Cardinality(window') = Cardinality(window) + 1
      BY <1>7, <1>14, <1>15, <1>17, <1>18, <2>2, <3>1
    <3> QED
      BY <2>1, <2>3, <3>1, <3>2
  <2>5. CASE q = Live(i) /\ Counting /\ k = i
    <3>1. Counted(q) /\ Waiting(k)' = Waiting(k) + 1
      BY <1>1, <1>2, <1>9, <1>16, <2>5 DEF Counted, Counting
    <3>2. /\ OnTheWay' = OnTheWay + 1 /\ Uncounted' = Uncounted + 1
          /\ Cardinality(window') = Cardinality(window) + 1
      BY <1>7, <1>14, <1>15, <1>17, <1>18, <2>2, <2>5, <3>1
    <3>3. sup.lost <= Waiting(k)'
      BY <1>17, <2>1, <2>2, <2>5, <3>1
    <3> QED
      BY <2>3, <3>2, <3>3
  <2>6. CASE q = Live(i) /\ (~Counting \/ k # i)
    <3>1. /\ ~Counted(q) /\ Waiting(i)' = Waiting(i) + 1
          /\ k # i => Waiting(k)' = Waiting(k)
      BY <1>1, <1>2, <1>9, <1>12, <1>16, <2>6 DEF Counted, Counting
    <3>2. /\ OnTheWay' = OnTheWay + 1 /\ Uncounted' = Uncounted + 0
          /\ Cardinality(window') = Cardinality(window) + 0
      BY <1>7, <1>14, <1>15, <1>17, <1>18, <2>2, <2>6, <3>1
    <3>3. Counting => sup.lost <= Waiting(k)'
      BY <2>1, <2>6, <3>1
    <3> QED
      BY <2>3, <3>2, <3>3
  <2> QED
    BY <2>4, <2>5, <2>6
<1> QED
  BY <1>5, <1>10, <1>19 DEF CountOK

LEMMA ChildGetCount ==
  ASSUME ProcInv, ProcInv', CountOK, \A x \in Event : Given(x) => Given(x)',
         NEW i \in Slot, ChildGet(i)
  PROVE  CountOK'
<1>1. PICK q \in Queue, s \in QueueSeq : q = Live(i) /\ s = mpQueue[q]
  BY LiveQueue DEF ProcInv, QueueSeq
<1>2. /\ mpQueue' = [mpQueue EXCEPT ![q] = Tail(s)] /\ s # <<>> /\ child[i] = "get"
      /\ UNCHANGED <<rpc, procRead, accepted, window, processed, failed, gen, sup, restarts, procMain>>
      /\ \/ Head(s) = Sentinel /\ holding' = holding
         \/ Head(s) # Sentinel /\ holding' = [holding EXCEPT ![i] = Head(s)]
  BY <1>1 DEF ChildGet, rcvVars
<1>3. ProcTypeOK /\ ProcTypeOK'
  BY DEF ProcInv
<1>4. AcceptedOK'
  BY <1>2 DEF CountOK, AcceptedOK, ProcInv, ProcTypeOK
<1>5. \A j \in Slot : Live(j)' = Live(j) /\ Live(j) \in Queue /\ (j # i => Live(j) # q)
  BY <1>1, <1>2, <1>3, LiveQueue DEF Live
<1>6. \A j \in Slot \ {i} : /\ mpQueue'[Live(j)] = mpQueue[Live(j)]
                            /\ holding'[j] = holding[j]
  BY SMTT(60), <1>2, <1>3, <1>5 DEF ProcTypeOK
<1>7. \A j \in Slot \ {i} : Waiting(j)' = Waiting(j) /\ ChildHolds(j)' = ChildHolds(j)
  BY <1>5, <1>6 DEF Waiting, Backlog, ChildHolds
<1>8. UpOK'
  <2>1. SeqRange(Tail(s)) \subseteq SeqRange(s)
    BY <1>2, QueueGet DEF QueueSeq, SeqRange
  <2>2. mpQueue'[q] = Tail(s)
    BY <1>2, <1>3 DEF ProcTypeOK
  <2> QED
    BY <1>1, <1>2, <1>5, <1>6, <2>1, <2>2 DEF CountOK, UpOK
<1>9. Waiting(i)' + ChildHolds(i)' = Waiting(i) + ChildHolds(i)
  <2>1. /\ Waiting(i) = Cardinality(Real(s)) /\ Waiting(i)' = Cardinality(Real(Tail(s)))
        /\ Waiting(i) \in Nat
    <3>1. mpQueue'[q] = Tail(s) /\ Live(i)' = q
      BY <1>1, <1>2, <1>3, <1>5 DEF ProcTypeOK
    <3> QED
      BY <1>1, <1>3, <3>1, WayFacts DEF Waiting, Backlog, Real
  <2>2. holding[i] = NoEvent /\ ChildHolds(i) = 0
    BY <1>2, NotEvents DEF ProcInv, HoldOK, ChildHolds
  <2>3. CASE Head(s) = Sentinel /\ holding' = holding
    <3>1. ChildHolds(i)' = ChildHolds(i)
      BY <2>3 DEF ChildHolds
    <3>2. Waiting(i)' = Waiting(i)
      BY <1>2, <2>1, <2>3, RealGet
    <3> QED
      BY <3>1, <3>2
  <2>4. CASE Head(s) # Sentinel /\ holding' = [holding EXCEPT ![i] = Head(s)]
    <3>1. holding'[i] = Head(s) /\ Head(s) \in Event
      BY SMTT(60), <1>2, <1>3, <2>4 DEF ProcTypeOK, QueueSeq
    <3>2. ChildHolds(i)' = 1
      BY <3>1 DEF ChildHolds
    <3>3. Waiting(i)' = Waiting(i) - 1
      BY <1>2, <2>1, <2>4, RealGet
    <3> QED
      BY <2>1, <2>2, <3>2, <3>3
  <2> QED
    BY <1>2, <2>3, <2>4
<1>10. OnTheWay' = OnTheWay
  <2>1. OnTheWay' = OnTheWay - (Waiting(i) + ChildHolds(i)) + (Waiting(i)' + ChildHolds(i)')
    BY <1>3, <1>7, WayMoves
  <2>2. Waiting(i) \in Nat /\ ChildHolds(i) \in {0, 1} /\ OnTheWay \in Int
    BY <1>3, WayFacts
  <2> QED
    BY <1>9, <2>1, <2>2
<1>11. Counting => Waiting(sup.slot)' = Waiting(sup.slot)
  <2>1. ASSUME Counting PROVE Waiting(sup.slot)' = Waiting(sup.slot)
    <3>1. sup.slot \in Slot \ {i} /\ sup' = sup
      BY <1>2, <2>1 DEF ProcInv, ProcTypeOK, GenOK, Counting, Repairing
    <3>2. PICK k \in Slot \ {i} : k = sup.slot
      BY <3>1
    <3>3. Waiting(k)' = Waiting(k)
      BY <1>7
    <3>4. Waiting(sup.slot)' = Waiting(k)' /\ Waiting(sup.slot) = Waiting(k)
      BY <3>1, <3>2 DEF Waiting, Backlog, Live
    <3> QED
      BY <3>3, <3>4
  <2> QED
    BY <2>1
<1>12. SumsOK'
  <2>1. /\ Counting' = Counting /\ Unrecorded' = Unrecorded /\ Extra' = Extra
        /\ Uncounted' = Uncounted /\ sup' = sup
        /\ UNCHANGED <<processed, failed, restarts, accepted, window>>
    BY <1>2, <1>11 DEF Counting, Unrecorded, Extra, Uncounted
  <2> QED
    BY ZenonT(60), <1>10, <1>11, <2>1 DEF CountOK, SumsOK
<1> QED
  BY <1>4, <1>8, <1>12 DEF CountOK

\* The event leaves the child and one of its counters goes up.
LEMMA CountCount ==
  ASSUME ProcInv, ProcInv', CountOK, \A x \in Event : Given(x) => Given(x)',
         NEW i \in Slot, Count(i)
  PROVE  CountOK'
<1>1. /\ holding' = [holding EXCEPT ![i] = NoEvent] /\ child[i] \in {"busy", "stored"}
      /\ UNCHANGED <<rpc, procRead, accepted, window, mpQueue, gen, sup, restarts, procMain>>
      /\ \/ processed' = processed + 1 /\ failed' = failed
         \/ failed' = failed + 1 /\ processed' = processed
  BY DEF Count, rcvVars
<1>2. ProcTypeOK /\ ProcTypeOK'
  BY DEF ProcInv
<1>3. AcceptedOK' /\ UpOK'
  BY <1>1 DEF CountOK, AcceptedOK, UpOK, Live, ProcInv, ProcTypeOK
<1>4. \A j \in Slot : Waiting(j)' = Waiting(j)
  BY <1>1 DEF Waiting, Backlog, Live
<1>5. \A j \in Slot \ {i} : ChildHolds(j)' = ChildHolds(j)
  BY <1>1, <1>2 DEF ProcTypeOK, ChildHolds
<1>6. ChildHolds(i) = 1 /\ ChildHolds(i)' = 0
  BY <1>1, <1>2, NotEvents DEF ProcInv, HoldOK, ProcTypeOK, ChildHolds
<1>7. OnTheWay' = OnTheWay - 1
  <2>1. OnTheWay' = OnTheWay - (Waiting(i) + ChildHolds(i)) + (Waiting(i)' + ChildHolds(i)')
    BY <1>2, <1>4, <1>5, WayMoves
  <2>2. Waiting(i) \in Nat /\ OnTheWay \in Int /\ Waiting(i)' = Waiting(i)
    BY <1>2, <1>4, WayFacts
  <2> QED
    BY <1>6, <2>1, <2>2
<1>8. /\ Uncounted' = Uncounted /\ Waiting(sup.slot)' = Waiting(sup.slot) /\ sup' = sup
      /\ Counting' = Counting /\ Unrecorded' = Unrecorded /\ Extra' = Extra
  BY <1>1 DEF Uncounted, Waiting, Backlog, Live, Counting, Unrecorded, Extra
<1>9. processed' + failed' = processed + failed + 1
  BY <1>1, CountTypes DEF CountOK
<1>10. processed' + failed' + OnTheWay' = processed + failed + OnTheWay
  BY <1>7, <1>9, CountTypes DEF CountOK
<1>11. SumsOK'
  BY <1>1, <1>8, <1>10 DEF CountOK, SumsOK
<1> QED
  BY <1>3, <1>11 DEF CountOK

\* qsize() counts all that waits: no sentinel is sent while supervise() runs.
LEMMA LostCount ==
  ASSUME ProcInv, ProcInv', CountOK, \A x \in Event : Given(x) => Given(x)',
         NEW i \in Slot, SuperviseCount(i)
  PROVE  CountOK'
<1>1. /\ procMain = "up" /\ sup.at = "idle"
      /\ sup' = [at |-> "counted", slot |-> i, lost |-> Len(mpQueue[Live(i)])]
      /\ UNCHANGED <<rpc, procRead, accepted, window, processed, failed, mpQueue, gen, holding,
                     restarts, procMain>>
  BY DEF SuperviseCount, LostBacklog, rcvVars, childVars
<1>2. AcceptedOK' /\ UpOK'
  BY <1>1 DEF CountOK, AcceptedOK, UpOK, Live, ProcInv, ProcTypeOK
<1>3. Waiting(i) = Len(mpQueue[Live(i)]) /\ Waiting(i) \in Nat
  <2>1. mpQueue[Live(i)] \in QueueSeq /\ Sentinel \notin SeqRange(mpQueue[Live(i)])
        /\ Waiting(i) = Cardinality(Real(mpQueue[Live(i)])) /\ Waiting(i) \in Nat
    BY <1>1, WayFacts DEF ProcInv, CountOK, UpOK
  <2> QED
    BY <2>1, RealLen
<1>4. Waiting(sup.slot)' = Waiting(i) /\ sup'.lost = Waiting(i)
  BY <1>1, <1>3 DEF Waiting, Backlog, Live
<1>5. /\ Uncounted = 0 /\ Uncounted' = 0 /\ ~Counting /\ Counting'
      /\ Unrecorded = 0 /\ Unrecorded' = 0 /\ Extra = 0 /\ Extra' = 0
  BY <1>1, <1>3, <1>4 DEF Uncounted, Counting, Unrecorded, Extra
<1>6. OnTheWay' = OnTheWay
  BY <1>1 DEF OnTheWay, Backlog, Live, ChildHolds
<1>7. SumsOK'
  BY <1>1, <1>3, <1>4, <1>5, <1>6 DEF CountOK, SumsOK
<1> QED
  BY <1>2, <1>7 DEF CountOK

\* The backlog of the replaced queue is in sup.lost now, but for what came into
\* it after it was counted.
LEMMA ReplaceCount ==
  ASSUME ProcInv, ProcInv', CountOK, \A x \in Event : Given(x) => Given(x)', SuperviseReplace
  PROVE  CountOK'
<1>1. PICK i \in Slot : i = sup.slot
  BY DEF ProcInv, ProcTypeOK
<1>2. /\ gen' = [gen EXCEPT ![i] = gen[i] + 1] /\ sup.at = "closed"
      /\ sup' = [sup EXCEPT !.at = "replaced"]
      /\ UNCHANGED <<rpc, procRead, accepted, window, processed, failed, holding, restarts,
                     mpQueue, procMain>>
  BY <1>1 DEF SuperviseReplace, rcvVars
<1>3. ProcTypeOK /\ ProcTypeOK'
  BY DEF ProcInv
<1>4. AcceptedOK'
  BY <1>2 DEF CountOK, AcceptedOK, ProcInv, ProcTypeOK
<1>5. mpQueue'[Live(i)'] = <<>>
  <2>1. gen'[i] = gen[i] + 1 /\ gen[i] \in 0..MaxDeaths /\ gen'[i] \in 0..MaxDeaths
    BY <1>2, <1>3 DEF ProcTypeOK
  <2>2. gen'[i] > gen[i]
    BY <2>1
  <2>3. mpQueue[<<i, gen'[i]>>] = <<>>
    BY <2>1, <2>2 DEF ProcInv, GenOK
  <2> QED
    BY <1>2, <2>3 DEF Live
<1>6. \A j \in Slot \ {i} : Live(j)' = Live(j)
  BY <1>2, <1>3 DEF Live, ProcTypeOK
<1>7. /\ \A j \in Slot \ {i} : Waiting(j)' = Waiting(j)
      /\ \A j \in Slot : ChildHolds(j)' = ChildHolds(j)
  BY <1>2, <1>6 DEF Waiting, Backlog, ChildHolds
<1>8. Waiting(i)' = 0
  <2>1. Backlog(i)' = {}
    BY <1>5 DEF Backlog
  <2> QED
    BY <2>1, FS_EmptySet DEF Waiting
<1>9. UpOK'
  <2>1. \A j \in Slot : Sentinel \notin SeqRange(mpQueue[Live(j)])
                       => Sentinel \notin SeqRange(mpQueue'[Live(j)'])
    BY <1>2, <1>5, <1>6 DEF SeqRange
  <2> QED
    BY <1>2, <2>1 DEF CountOK, UpOK
<1>10. Waiting(i) \in Nat /\ ChildHolds(i) \in {0, 1} /\ OnTheWay \in Int
  BY <1>3, WayFacts
<1>11. OnTheWay' = OnTheWay - Waiting(i)
  <2>1. OnTheWay' = OnTheWay - (Waiting(i) + ChildHolds(i)) + (Waiting(i)' + ChildHolds(i)')
    BY <1>3, <1>7, WayMoves
  <2> QED
    BY <1>7, <1>8, <1>10, <2>1
<1>12. /\ sup'.at = "replaced" /\ sup'.lost = sup.lost
  BY <1>2 DEF ProcInv, ProcTypeOK
<1>13. /\ sup.lost <= Waiting(i) /\ Uncounted = Waiting(i) - sup.lost /\ Uncounted' = 0
       /\ ~Counting' /\ Unrecorded = 0 /\ Unrecorded' = sup.lost /\ Extra = 0 /\ Extra' = 0
  BY <1>1, <1>2, <1>12 DEF CountOK, SumsOK, Uncounted, Counting, Unrecorded, Extra
<1>14. SumsOK'
  <2>1. /\ Cardinality(accepted) + Uncounted
             <= processed + failed + OnTheWay + Cardinality(window) + Unrecorded
        /\ processed + failed + OnTheWay + Unrecorded <= Cardinality(accepted) + restarts + Extra
    BY DEF CountOK, SumsOK
  <2>2. /\ processed \in Nat /\ failed \in Nat /\ restarts \in Nat
        /\ sup.lost \in Nat /\ Cardinality(window) \in Nat /\ Cardinality(accepted) \in Nat
    BY CountTypes DEF CountOK
  <2> QED
    BY SMTT(60), <1>2, <1>10, <1>11, <1>13, <2>1, <2>2 DEF SumsOK
<1> QED
  BY <1>4, <1>9, <1>14 DEF CountOK

\* What waited when the child was found dead, and one event, count as failed.
LEMMA FailCount ==
  ASSUME ProcInv, ProcInv', CountOK, \A x \in Event : Given(x) => Given(x)', SuperviseFail
  PROVE  CountOK'
<1>1. PICK i \in Slot : i = sup.slot
  BY DEF ProcInv, ProcTypeOK
<1>2. /\ holding' = [holding EXCEPT ![i] = NoEvent] /\ failed' = failed + 1 + sup.lost
      /\ sup.at = "replaced" /\ sup' = [sup EXCEPT !.at = "failed"]
      /\ UNCHANGED <<rpc, procRead, accepted, window, processed, restarts, mpQueue, gen, procMain>>
  BY <1>1 DEF SuperviseFail, rcvVars
<1>3. ProcTypeOK /\ ProcTypeOK'
  BY DEF ProcInv
<1>4. AcceptedOK' /\ UpOK'
  BY <1>2 DEF CountOK, AcceptedOK, UpOK, Live, ProcInv, ProcTypeOK
<1>5. \A j \in Slot : Waiting(j)' = Waiting(j)
  BY <1>2 DEF Waiting, Backlog, Live
<1>6. \A j \in Slot \ {i} : ChildHolds(j)' = ChildHolds(j)
  BY <1>2, <1>3 DEF ProcTypeOK, ChildHolds
<1>7. ChildHolds(i)' = 0
  <2>1. holding'[i] = NoEvent
    BY <1>2, <1>3 DEF ProcTypeOK
  <2> QED
    BY <2>1, NotEvents DEF ChildHolds
<1>8. Waiting(i) \in Nat /\ ChildHolds(i) \in {0, 1} /\ OnTheWay \in Int
  BY <1>3, WayFacts
<1>9. OnTheWay' = OnTheWay - ChildHolds(i)
  <2>1. OnTheWay' = OnTheWay - (Waiting(i) + ChildHolds(i)) + (Waiting(i)' + ChildHolds(i)')
    BY <1>3, <1>5, <1>6, WayMoves
  <2> QED
    BY <1>5, <1>7, <1>8, <2>1
<1>10. /\ sup'.at = "failed" /\ ~Counting' /\ Uncounted = 0 /\ Uncounted' = 0
       /\ Unrecorded = sup.lost /\ Unrecorded' = 0 /\ Extra = 0 /\ Extra' = 1
  BY <1>2 DEF Counting, Uncounted, Unrecorded, Extra, ProcInv, ProcTypeOK
<1>11. SumsOK'
  <2>1. /\ Cardinality(accepted) + Uncounted
             <= processed + failed + OnTheWay + Cardinality(window) + Unrecorded
        /\ processed + failed + OnTheWay + Unrecorded <= Cardinality(accepted) + restarts + Extra
    BY DEF CountOK, SumsOK
  <2>2. /\ processed \in Nat /\ failed \in Nat /\ restarts \in Nat
        /\ sup.lost \in Nat /\ Cardinality(window) \in Nat /\ Cardinality(accepted) \in Nat
    BY CountTypes DEF CountOK
  <2> QED
    BY SMTT(60), <1>2, <1>8, <1>9, <1>10, <2>1, <2>2 DEF SumsOK
<1> QED
  BY <1>4, <1>11 DEF CountOK

\* Nothing is counted when the child starts, nor when the restart is noted.
LEMMA StartCount ==
  ASSUME ProcInv, ProcInv', CountOK, \A x \in Event : Given(x) => Given(x)',
         SuperviseStart \/ SuperviseNote
  PROVE  CountOK'
<1>1. /\ UNCHANGED <<rpc, procRead, accepted, window, processed, failed, holding, mpQueue, gen,
                     procMain>>
      /\ ~Counting /\ ~Counting' /\ Unrecorded = 0 /\ Unrecorded' = 0
      /\ restarts' + Extra' = restarts + Extra
  <2>1. CASE SuperviseStart
    BY <2>1 DEF SuperviseStart, rcvVars, ProcInv, ProcTypeOK, Counting, Unrecorded, Extra
  <2>2. CASE SuperviseNote
    BY <2>2 DEF SuperviseNote, rcvVars, childVars, ProcInv, ProcTypeOK, Counting, Unrecorded,
       Extra, IdleSup
  <2> QED
    BY <2>1, <2>2
<1>2. AcceptedOK' /\ UpOK'
  BY <1>1 DEF CountOK, AcceptedOK, UpOK, Live, ProcInv, ProcTypeOK
<1>3. OnTheWay' = OnTheWay /\ Uncounted = 0 /\ Uncounted' = 0
  BY <1>1 DEF OnTheWay, Backlog, Live, ChildHolds, Uncounted
<1>4. SumsOK'
  <2>1. /\ restarts \in Nat /\ Extra \in {0, 1} /\ restarts' \in Nat /\ Extra' \in {0, 1}
        /\ Cardinality(accepted) \in Nat
    <3>1. {restarts} \subseteq Nat /\ {restarts'} \subseteq Nat
      BY DEF ProcInv, ProcTypeOK
    <3>2. Extra \in {0, 1} /\ Extra' \in {0, 1}
      BY DEF Extra
    <3> QED
      BY <3>1, <3>2, CountTypes DEF CountOK
  <2>2. Cardinality(accepted) + restarts' + Extra' = Cardinality(accepted) + restarts + Extra
    <3>1. restarts' + Extra' = restarts + Extra
      BY <1>1
    <3>2. PICK n1 \in Nat, n2 \in Nat, n3 \in Nat, n4 \in Nat, n5 \in Nat :
             /\ n1 = Cardinality(accepted) /\ n2 = restarts /\ n3 = Extra
             /\ n4 = restarts' /\ n5 = Extra'
      BY <2>1
    <3>3. n4 + n5 = n2 + n3
      BY <3>1, <3>2
    <3>4. n1 + n4 + n5 = n1 + n2 + n3
      BY <3>3
    <3> QED
      BY <3>2, <3>4
  <2>3. /\ Cardinality(accepted) + Uncounted
             <= processed + failed + OnTheWay + Cardinality(window) + Unrecorded
        /\ processed + failed + OnTheWay + Unrecorded <= Cardinality(accepted) + restarts + Extra
    BY DEF CountOK, SumsOK
  <2>4. /\ Uncounted' = Uncounted /\ Unrecorded' = Unrecorded /\ ~Counting'
        /\ UNCHANGED <<processed, failed, accepted, window, OnTheWay>>
    BY <1>1, <1>3
  <2> QED
    BY ZenonT(60), <2>2, <2>3, <2>4 DEF SumsOK
<1> QED
  BY <1>2, <1>4 DEF CountOK

LEMMA SentinelCount ==
  ASSUME ProcInv, ProcInv', CountOK, \A x \in Event : Given(x) => Given(x)', SendSentinel
  PROVE  CountOK'
<1>1. /\ procMain = "sentinels" /\ procMain' # "up" /\ nextq \in Slot
      /\ UNCHANGED <<gen, holding, processed, failed, restarts, accepted, window, sup>>
  BY ProcessIngestAssumption DEF SendSentinel, rcvVars, childVars, ProcInv, ProcTypeOK, Slot
<1>2. ASSUME NEW j \in Slot PROVE Waiting(j)' = Waiting(j)
  <2>1. PICK q \in Queue, s \in QueueSeq : q = Live(nextq) /\ s = mpQueue[q]
    BY <1>1, LiveQueue DEF ProcInv, QueueSeq
  <2>2. mpQueue' = mpQueue \/ mpQueue' = [mpQueue EXCEPT ![q] = Append(s, Sentinel)]
    BY <2>1 DEF SendSentinel
  <2>3. Live(j)' = Live(j) /\ Live(j) \in Queue
    BY <1>1, LiveQueue DEF Live, ProcInv
  <2>4. Waiting(j) = Cardinality(Real(mpQueue[Live(j)]))
        /\ Waiting(j)' = Cardinality(Real(mpQueue'[Live(j)]))
    BY <2>3 DEF Waiting, Backlog, Real
  <2>5. Cardinality(Real(Append(s, Sentinel))) = Cardinality(Real(s))
    BY RealPut
  <2>6. mpQueue'[Live(j)] = mpQueue[Live(j)]
        \/ (mpQueue'[Live(j)] = Append(s, Sentinel) /\ mpQueue[Live(j)] = s)
    BY <2>1, <2>2, <2>3 DEF ProcInv, ProcTypeOK
  <2> QED
    BY <2>4, <2>5, <2>6
<1>3. UpOK'
  BY <1>1 DEF UpOK
<1> QED
  BY <1>1, <1>2, <1>3, QuietCount

LEMMA NextCount == ProcInv /\ CountOK /\ [ProcNext]_procVars => CountOK'
<1> SUFFICES ASSUME ProcInv, CountOK, [ProcNext]_procVars PROVE CountOK'
  OBVIOUS
<1>1. (\A x \in Event : Given(x) => Given(x)') /\ ProcInv'
  BY GivenStays, ProcNextInv
<1>2. CASE UNCHANGED <<mpQueue, gen, holding, processed, failed, restarts, accepted, window>>
           /\ (procMain' = "up" => procMain = "up") /\ UNCHANGED sup
  <2>1. \A j \in Slot : Waiting(j)' = Waiting(j)
    BY <1>2 DEF Waiting, Backlog, Live
  <2>2. UpOK'
    BY <1>2 DEF CountOK, UpOK, Live
  <2> QED
    BY <1>1, <1>2, <2>1, <2>2, QuietCount
<1>3. CASE (\E r \in Feeder, k \in Key : Submit(r, k)) \/ (\E r \in Feeder : CheckClosed(r) \/ DropFull(r))
           \/ ProcSigterm \/ Join \/ KillAndExit \/ UNCHANGED procVars
           \/ \E i \in Slot : Store(i) \/ Die(i)
  <2>1. UNCHANGED <<mpQueue, gen, holding, processed, failed, restarts, accepted, window, sup>>
        /\ (procMain' = "up" => procMain = "up")
    BY <1>3 DEF Submit, CheckClosed, DropFull, ProcSigterm, Join, KillAndExit, Store, Die,
       procVars, rcvVars, childVars
  <2> QED
    BY <1>2, <2>1
<1>4. CASE SuperviseClose
  <2>1. /\ UNCHANGED <<mpQueue, gen, holding, processed, failed, restarts, accepted, window, procMain,
                      rpc, procRead>>
        /\ sup.at = "counted" /\ sup' = [sup EXCEPT !.at = "closed"]
    BY <1>4 DEF SuperviseClose, rcvVars, childVars
  <2>2. sup'.slot = sup.slot /\ sup'.lost = sup.lost /\ Counting /\ Counting'
        /\ Unrecorded = 0 /\ Unrecorded' = 0 /\ Extra = 0 /\ Extra' = 0
    BY <2>1 DEF ProcInv, ProcTypeOK, Counting, Unrecorded, Extra
  <2>3. Waiting(sup.slot)' = Waiting(sup.slot) /\ OnTheWay' = OnTheWay
    BY <2>1, <2>2 DEF Waiting, Backlog, Live, OnTheWay, ChildHolds
  <2>4. Uncounted' = Uncounted
    BY <2>1, <2>2, <2>3 DEF Uncounted
  <2>5. SumsOK'
    BY <2>1, <2>2, <2>3, <2>4 DEF CountOK, SumsOK
  <2>6. AcceptedOK' /\ UpOK'
    BY <2>1 DEF CountOK, AcceptedOK, UpOK, Live, Given, Submitting
  <2> QED
    BY <2>5, <2>6 DEF CountOK
<1> QED
  BY <1>1, <1>3, <1>4, AcceptCount, ChildGetCount, CountCount, LostCount, ReplaceCount,
     FailCount, StartCount, SentinelCount
  DEF ProcNext, ChildStep, Supervise

\* The counters of the child processes miss no accepted message but those put
\* into the queue of a dead child after qsize() was read and, between the
\* queue's replacement and the update of the counters, its backlog; a restart
\* counts at most one event too many (supervise of ingest_workers.py).
THEOREM CountErrorHolds == ProcSpec => []CountError
<1>1. ProcSpec => []CountOK
  BY InitCount, NextCount, ProcAlways, PTL DEF ProcSpec
<1>2. ProcInv /\ CountOK => CountError
  <2> SUFFICES ASSUME ProcInv, CountOK PROVE CountError
    OBVIOUS
  <2>1. Uncounted \in Nat
    BY CountTypes DEF CountOK, SumsOK, Uncounted
  <2> QED
    BY SMTT(60), <2>1, CountTypes DEF CountOK, SumsOK, CountError, Extra
<1> QED
  BY <1>1, <1>2, ProcAlways, PTL
-----------------------------------------------------------------------------
(***************************************************************************)
(* ApiPoller.  What is behind a cursor, stored or in a thread, has been    *)
(* ingested.  Undisturbed, one process has the lease for good, and its one *)
(* thread is the only one that ingests, from the stored cursor on.         *)
(***************************************************************************)
ThreadState == [at : {"ended", "top", "hold", "poll", "ingest", "failed", "release"},
                stop : BOOLEAN, from : Nat, to : Nat]
AllSlots == UNION {Slots[p] : p \in Processes}
PollTypes ==
  /\ PollTypeOK /\ current \in [Processes -> AllSlots \cup {0}] /\ DOMAIN thread = Processes
  /\ \A p \in Processes : thread[p] \in [Slots[p] -> ThreadState]

Done(n) == \A i \in 1..n : ingested[i] > 0
CursorsDone == Done(cursor) /\ \A p \in Processes : \A s \in Slots[p] : Done(thread[p][s].from)

ThreadQuiet(p, s) ==
  LET t == thread[p][s] IN
  /\ ~t.stop /\ t.at \in {"ended", "top", "hold", "poll", "ingest"}
  /\ t.at # "ended" => current[p] = s
  /\ t.at \in {"poll", "ingest"} => lease = p
  /\ t.at \in {"hold", "poll"} /\ lease \in {p, "free"} => t.from = cursor
  /\ t.at = "ingest" => cursor <= t.from
Pulled(i) == i <= cursor \/ \E p \in Processes : \E s \in Slots[p] :
                              thread[p][s].at = "ingest" /\ i <= thread[p][s].from
QuietOK ==
  /\ enabled /\ lease # "dead" /\ (lease = "free" => \A i \in 1..MaxItems : ingested[i] = 0)
  /\ \A p \in Processes : \A s \in Slots[p] : ThreadQuiet(p, s)
  /\ \A i \in 1..MaxItems : ingested[i] <= 1 /\ (ingested[i] > 0 => Pulled(i))
PollInv == PollTypes /\ CursorsDone /\ (~disturbed => QuietOK)
-----------------------------------------------------------------------------
LEMMA PollInitInv == PollInit => PollInv
<1> SUFFICES ASSUME PollInit PROVE PollInv
  OBVIOUS
<1>1. /\ Gone \in ThreadState /\ Gone.from = 0 /\ Gone.to = 0 /\ Gone.at = "ended"
      /\ Gone.stop = FALSE
  BY DEF Gone, ThreadState
<1>2. /\ DOMAIN thread = Processes
      /\ \A p \in Processes : thread[p] = [s \in Slots[p] |-> Gone]
  BY DEF PollInit, NoThreads
<1>3. ASSUME NEW p \in Processes
      PROVE  /\ thread[p] \in [Slots[p] -> ThreadState] /\ current[p] = 0
             /\ \A s \in Slots[p] : thread[p][s] = Gone
  BY <1>1, <1>2 DEF PollInit
<1>4. PollTypes
  <2>1. /\ enabled \in BOOLEAN /\ offered = 0 /\ offered \in 0..MaxItems /\ cursor \in 0..offered
        /\ ingested \in [1..MaxItems -> 0..2] /\ lease \in Processes \cup {"free", "dead"}
        /\ up \subseteq Processes /\ events \in 0..MaxPollEvents /\ disturbed \in BOOLEAN
    <3>1. offered = 0 /\ cursor = 0 /\ events = 0 /\ 0 \in 0..MaxItems /\ 0 \in 0..MaxPollEvents
      BY PollerAssumption DEF PollInit
    <3>2. ingested \in [1..MaxItems -> 0..2]
      BY DEF PollInit
    <3>3. enabled \in BOOLEAN /\ disturbed \in BOOLEAN
      BY DEF PollInit
    <3>4. lease = "free" /\ up = Processes
      BY DEF PollInit
    <3>5. offered \in 0..MaxItems /\ cursor \in 0..offered /\ events \in 0..MaxPollEvents
      BY <3>1
    <3> QED
      BY <3>1, <3>2, <3>3, <3>4, <3>5
  <2>2. current \in [Processes -> AllSlots \cup {0}]
    BY DEF PollInit
  <2>3. PollTypeOK
    BY <1>1, <1>3, <2>1 DEF PollTypeOK
  <2> QED
    BY <1>2, <1>3, <2>2, <2>3 DEF PollTypes
<1>5. CursorsDone
  BY <1>1, <1>3 DEF CursorsDone, Done, PollInit
<1>6. QuietOK
  <2>1. ASSUME NEW p \in Processes, NEW s \in Slots[p] PROVE ThreadQuiet(p, s)
    BY <1>1, <1>3, <2>1 DEF ThreadQuiet
  <2> QED
    BY <2>1, PollerAssumption DEF QuietOK, PollInit
<1> QED
  BY <1>4, <1>5, <1>6 DEF PollInv

\* What SetThread changes, and the types of the result.
LEMMA OneThread ==
  ASSUME PollTypes, NEW p \in Processes, NEW s \in Slots[p], NEW t \in ThreadState,
         SetThread(p, s, t)
  PROVE  /\ DOMAIN thread' = Processes /\ thread'[p][s] = t
         /\ \A q \in Processes : thread'[q] \in [Slots[q] -> ThreadState]
         /\ \A q \in Processes : \A z \in Slots[q] :
              q # p \/ z # s => thread'[q][z] = thread[q][z]
<1>1. thread' = [thread EXCEPT ![p] = [thread[p] EXCEPT ![s] = t]]
  BY DEF SetThread
<1>2. /\ DOMAIN thread' = Processes /\ thread'[p] = [thread[p] EXCEPT ![s] = t]
      /\ \A q \in Processes : q # p => thread'[q] = thread[q]
  BY <1>1 DEF PollTypes
<1>3. thread[p] \in [Slots[p] -> ThreadState]
  BY DEF PollTypes
<1>4. thread'[p] \in [Slots[p] -> ThreadState] /\ thread'[p][s] = t
      /\ \A z \in Slots[p] : z # s => thread'[p][z] = thread[p][z]
  BY <1>2, <1>3
<1> QED
  BY <1>2, <1>4 DEF PollTypes

\* A step of one thread that touches neither items nor the cursor.
LEMMA ThreadMoves ==
  ASSUME PollInv, NEW p \in Processes, NEW s \in Slots[p], NEW t \in ThreadState,
         SetThread(p, s, t), t.from \in 0..offered, t.to \in 0..offered, Done(t.from),
         UNCHANGED <<enabled, cursor, offered, ingested, up>>,
         lease' \in Processes \cup {"free", "dead"}, events' \in 0..MaxPollEvents,
         disturbed' \in BOOLEAN, current' \in [Processes -> AllSlots \cup {0}],
         \A q \in Processes : current'[q] \in Slots[q] \cup {0},
         ~disturbed' => QuietOK'
  PROVE  PollInv'
<1>1. /\ DOMAIN thread' = Processes /\ thread'[p][s] = t
      /\ \A q \in Processes : thread'[q] \in [Slots[q] -> ThreadState]
      /\ \A q \in Processes : \A z \in Slots[q] :
           q # p \/ z # s => thread'[q][z] = thread[q][z]
  BY OneThread DEF PollInv
<1>2. ASSUME NEW q \in Processes, NEW z \in Slots[q]
      PROVE  /\ thread'[q][z].from \in 0..offered /\ thread'[q][z].to \in 0..offered
             /\ Done(thread'[q][z].from)
             /\ thread'[q][z] \in ThreadState
  BY <1>1 DEF PollInv, PollTypes, PollTypeOK, CursorsDone
<1>3. PollTypeOK'
  BY <1>2 DEF PollInv, PollTypes, PollTypeOK, ThreadState
<1>4. CursorsDone'
  BY <1>2 DEF PollInv, CursorsDone, Done
<1> QED
  BY <1>1, <1>3, <1>4 DEF PollInv, PollTypes

\* Undisturbed, only one thread can be past the lease.
LEMMA OneAtWork ==
  ASSUME PollInv, QuietOK, NEW p \in Processes, NEW s \in Slots[p],
         thread[p][s].at \in {"poll", "ingest"},
         NEW q \in Processes, NEW z \in Slots[q], q # p \/ z # s
  PROVE  /\ thread[q][z].at \notin {"poll", "ingest"} /\ lease = p
         /\ q = p => thread[q][z].at = "ended"
<1>1. ThreadQuiet(p, s) /\ ThreadQuiet(q, z)
  BY DEF QuietOK
<1>2. lease = p /\ current[p] = s
  BY <1>1 DEF ThreadQuiet
<1> QED
  BY <1>1, <1>2 DEF ThreadQuiet

LEMMA ReadRowKeeps ==
  ASSUME PollInv, NEW p \in Processes, NEW s \in Slots[p], ReadRow(p, s)
  PROVE  PollInv'
<1> DEFINE t == [thread[p][s] EXCEPT !.at = "release"]
           u == [thread[p][s] EXCEPT !.at = "hold", !.from = cursor]
<1>1. /\ thread[p][s].at = "top"
      /\ IF thread[p][s].stop \/ ~enabled THEN SetThread(p, s, t) ELSE SetThread(p, s, u)
      /\ UNCHANGED <<enabled, cursor, offered, ingested, lease, up, current, events, disturbed>>
  BY DEF ReadRow, MoveTo, At_
<1>2. /\ thread[p][s] \in ThreadState /\ thread[p][s].from \in 0..offered
      /\ thread[p][s].to \in 0..offered /\ Done(thread[p][s].from) /\ Done(cursor)
      /\ cursor \in 0..offered /\ offered \in 0..MaxItems
  BY DEF PollInv, PollTypes, PollTypeOK, CursorsDone
<1>3. /\ t \in ThreadState /\ u \in ThreadState /\ u.at = "hold" /\ u.from = cursor
      /\ t.from = thread[p][s].from /\ t.to = thread[p][s].to /\ u.to = thread[p][s].to
      /\ u.stop = thread[p][s].stop
  <2>1. cursor \in Nat
    BY <1>2
  <2>2. t \in ThreadState /\ t.from = thread[p][s].from /\ t.to = thread[p][s].to
    BY <1>2 DEF ThreadState
  <2>3. /\ u \in ThreadState /\ u.at = "hold" /\ u.from = cursor /\ u.to = thread[p][s].to
        /\ u.stop = thread[p][s].stop
    BY <1>2, <2>1 DEF ThreadState
  <2> QED
    BY <2>2, <2>3
<1> HIDE DEF t, u
<1>4. /\ lease \in Processes \cup {"free", "dead"} /\ events \in 0..MaxPollEvents
      /\ disturbed \in BOOLEAN /\ current \in [Processes -> AllSlots \cup {0}]
      /\ \A q \in Processes : current[q] \in Slots[q] \cup {0}
  BY DEF PollInv, PollTypes, PollTypeOK
<1>5. CASE thread[p][s].stop \/ ~enabled
  <2>1. disturbed
    BY <1>5 DEF PollInv, QuietOK, ThreadQuiet
  <2> QED
    BY <1>1, <1>2, <1>3, <1>4, <1>5, <2>1, ThreadMoves
<1>6. CASE ~thread[p][s].stop /\ enabled
  <2>1. SetThread(p, s, u)
    BY <1>1, <1>6
  <2>2. /\ thread'[p][s] = u
        /\ \A q \in Processes : \A z \in Slots[q] :
             q # p \/ z # s => thread'[q][z] = thread[q][z]
    BY <1>3, <2>1, OneThread DEF PollInv
  <2>3. ASSUME ~disturbed PROVE QuietOK'
    <3>1. QuietOK
      BY <2>3 DEF PollInv
    <3>2. ASSUME NEW q \in Processes, NEW z \in Slots[q] PROVE ThreadQuiet(q, z)'
      <4>1. CASE q = p /\ z = s
        BY <1>1, <1>3, <1>6, <2>2, <3>1, <4>1 DEF QuietOK, ThreadQuiet
      <4>2. CASE q # p \/ z # s
        BY <1>1, <2>2, <3>1, <4>2 DEF QuietOK, ThreadQuiet
      <4> QED
        BY <4>1, <4>2
    <3>3. ASSUME NEW i \in 1..MaxItems PROVE ingested'[i] <= 1 /\ (ingested'[i] > 0 => Pulled(i)')
      BY <1>1, <2>2, <3>1 DEF QuietOK, Pulled
    <3> QED
      BY <1>1, <3>1, <3>2, <3>3 DEF QuietOK
  <2> QED
    BY <1>1, <1>2, <1>3, <1>4, <2>1, <2>3, ThreadMoves
<1> QED
  BY <1>5, <1>6

LEMMA HoldLeaseKeeps ==
  ASSUME PollInv, NEW p \in Processes, NEW s \in Slots[p], HoldLease(p, s)
  PROVE  PollInv'
<1> DEFINE t == [thread[p][s] EXCEPT !.at = "poll"]
           u == [Gone EXCEPT !.at = "top", !.stop = thread[p][s].stop]
<1>1. /\ thread[p][s].at = "hold"
      /\ IF Owns(p) THEN lease' = p /\ SetThread(p, s, t) ELSE lease' = lease /\ SetThread(p, s, u)
      /\ UNCHANGED <<enabled, cursor, offered, ingested, up, current, events, disturbed>>
  BY DEF HoldLease, MoveTo, Sleep, At_
<1>2. /\ thread[p][s] \in ThreadState /\ thread[p][s].from \in 0..offered
      /\ thread[p][s].to \in 0..offered /\ Done(thread[p][s].from) /\ Done(0)
      /\ offered \in 0..MaxItems
  BY DEF PollInv, PollTypes, PollTypeOK, CursorsDone, Done
<1>3. /\ t \in ThreadState /\ t.at = "poll" /\ t.from = thread[p][s].from
      /\ t.to = thread[p][s].to /\ t.stop = thread[p][s].stop
      /\ u \in ThreadState /\ u.at = "top" /\ u.from = 0 /\ u.to = 0 /\ u.stop = thread[p][s].stop
      /\ 0 \in 0..offered
  <2>1. /\ t \in ThreadState /\ t.at = "poll" /\ t.from = thread[p][s].from
        /\ t.to = thread[p][s].to /\ t.stop = thread[p][s].stop
    BY <1>2 DEF ThreadState
  <2>2. /\ u \in ThreadState /\ u.at = "top" /\ u.from = 0 /\ u.to = 0
        /\ u.stop = thread[p][s].stop
    BY <1>2 DEF ThreadState, Gone
  <2>3. 0 \in 0..offered
    BY <1>2, PollerAssumption
  <2> QED
    BY <2>1, <2>2, <2>3
<1> HIDE DEF t, u
<1>4. /\ lease \in Processes \cup {"free", "dead"} /\ events \in 0..MaxPollEvents
      /\ disturbed \in BOOLEAN /\ current \in [Processes -> AllSlots \cup {0}]
      /\ \A q \in Processes : current[q] \in Slots[q] \cup {0}
  BY DEF PollInv, PollTypes, PollTypeOK
<1>5. PICK v \in {t, u} : SetThread(p, s, v) /\ (v = t <=> Owns(p))
  BY <1>1, <1>3
<1>6. /\ thread'[p][s] = v
      /\ \A q \in Processes : \A z \in Slots[q] :
           q # p \/ z # s => thread'[q][z] = thread[q][z]
  BY <1>3, <1>5, OneThread DEF PollInv
<1>7. ASSUME ~disturbed PROVE QuietOK'
  <2>1. QuietOK
    BY <1>7 DEF PollInv
  <2>2. ASSUME NEW q \in Processes, NEW z \in Slots[q] PROVE ThreadQuiet(q, z)'
    <3>1. CASE q = p /\ z = s
      <4>1. ThreadQuiet(p, s) /\ current' = current /\ cursor' = cursor
        BY <1>1, <2>1 DEF QuietOK
      <4>2. CASE Owns(p)
        BY <1>1, <1>3, <1>5, <1>6, <3>1, <4>1, <4>2 DEF ThreadQuiet, Owns
      <4>3. CASE ~Owns(p)
        BY <1>1, <1>3, <1>5, <1>6, <3>1, <4>1, <4>3 DEF ThreadQuiet
      <4> QED
        BY <4>2, <4>3
    <3>2. CASE q # p \/ z # s
      <4>1. /\ ThreadQuiet(q, z) /\ thread'[q][z] = thread[q][z] /\ current' = current
            /\ cursor' = cursor
        BY <1>1, <1>6, <2>1, <3>2 DEF QuietOK
      <4>2. lease' = lease \/ (lease = "free" /\ lease' = p)
        BY <1>1 DEF Owns
      <4> QED
        BY <4>1, <4>2, PollerAssumption DEF ThreadQuiet
    <3> QED
      BY <3>1, <3>2
  <2>3. ASSUME NEW i \in 1..MaxItems PROVE ingested'[i] <= 1 /\ (ingested'[i] > 0 => Pulled(i)')
    <3>1. Pulled(i) => Pulled(i)'
      BY <1>1, <1>6 DEF Pulled
    <3> QED
      BY <1>1, <2>1, <3>1 DEF QuietOK
  <2>4. lease' # "dead" /\ (lease' = "free" => lease = "free")
    BY <1>1, <2>1, PollerAssumption DEF QuietOK
  <2> QED
    BY <1>1, <2>1, <2>2, <2>3, <2>4 DEF QuietOK
<1>8. lease' \in Processes \cup {"free", "dead"}
  BY <1>1, <1>4
<1> QED
  BY <1>1, <1>2, <1>3, <1>4, <1>5, <1>7, <1>8, ThreadMoves

LEMMA FetchKeeps ==
  ASSUME PollInv, NEW p \in Processes, NEW s \in Slots[p], Fetch(p, s)
  PROVE  PollInv'
<1>1. PICK e : e = PageEnd(thread[p][s].from)
  OBVIOUS
<1>2. PICK t : t = [thread[p][s] EXCEPT !.at = "ingest", !.to = e]
  OBVIOUS
<1>3. /\ thread[p][s].at = "poll" /\ SetThread(p, s, t)
      /\ UNCHANGED <<enabled, cursor, offered, ingested, lease, up, current, events, disturbed>>
  BY <1>1, <1>2 DEF Fetch, At_
<1>4. /\ thread[p][s] \in ThreadState /\ thread[p][s].from \in 0..offered
      /\ Done(thread[p][s].from) /\ offered \in 0..MaxItems
  BY DEF PollInv, PollTypes, PollTypeOK, CursorsDone
<1>5. e \in 0..offered /\ e \in Nat
  <2>1. thread[p][s].from \in Nat /\ offered \in Nat /\ thread[p][s].from + PageItems \in Nat
    BY <1>4, PollerAssumption
  <2>2. PICK n \in Nat : n = thread[p][s].from + PageItems
    BY <2>1
  <2>3. Min({n, offered}) \in {n, offered} /\ Min({n, offered}) <= offered
    BY <2>1, MinMax
  <2>4. PICK m \in Nat : m = Min({n, offered}) /\ m \in {n, offered} /\ m <= offered
    BY <2>1, <2>3
  <2>5. PICK f \in Nat : f = thread[p][s].from
    BY <2>1
  <2>6. e = Max({f, m})
    BY <1>1, <2>2, <2>4, <2>5 DEF PageEnd
  <2>7. Max({f, m}) \in {f, m}
    BY <2>4, <2>5, MinMax
  <2> QED
    BY <1>4, <2>1, <2>4, <2>5, <2>6, <2>7
<1>6. /\ t \in ThreadState /\ t.at = "ingest" /\ t.from = thread[p][s].from /\ t.to = e
      /\ t.stop = thread[p][s].stop
  BY <1>2, <1>4, <1>5 DEF ThreadState
<1>7. /\ lease \in Processes \cup {"free", "dead"} /\ events \in 0..MaxPollEvents
      /\ disturbed \in BOOLEAN /\ current \in [Processes -> AllSlots \cup {0}]
      /\ \A q \in Processes : current[q] \in Slots[q] \cup {0}
  BY DEF PollInv, PollTypes, PollTypeOK
<1>8. /\ thread'[p][s] = t
      /\ \A q \in Processes : \A z \in Slots[q] :
           q # p \/ z # s => thread'[q][z] = thread[q][z]
  BY <1>3, <1>6, OneThread DEF PollInv
<1>9. ASSUME ~disturbed PROVE QuietOK'
  <2>1. QuietOK
    BY <1>9 DEF PollInv
  <2>2. ASSUME NEW q \in Processes, NEW z \in Slots[q] PROVE ThreadQuiet(q, z)'
    <3>1. CASE q = p /\ z = s
      <4>1. ThreadQuiet(p, s) /\ current' = current /\ cursor' = cursor /\ lease' = lease
        BY <1>3, <2>1 DEF QuietOK
      <4>2. cursor = t.from
        BY <1>3, <1>6, <4>1 DEF ThreadQuiet
      <4>3. cursor <= t.from
        BY <1>4, <1>6, <4>2
      <4> QED
        BY <1>3, <1>6, <1>8, <3>1, <4>1, <4>3 DEF ThreadQuiet
    <3>2. CASE q # p \/ z # s
      BY <1>3, <1>8, <2>1, <3>2 DEF QuietOK, ThreadQuiet
    <3> QED
      BY <3>1, <3>2
  <2>3. ASSUME NEW i \in 1..MaxItems PROVE ingested'[i] <= 1 /\ (ingested'[i] > 0 => Pulled(i)')
    <3>1. Pulled(i) => Pulled(i)'
      BY <1>3, <1>8 DEF Pulled
    <3> QED
      BY <1>3, <2>1, <3>1 DEF QuietOK
  <2> QED
    BY <1>3, <2>1, <2>2, <2>3 DEF QuietOK
<1> QED
  BY <1>3, <1>4, <1>5, <1>6, <1>7, <1>9, ThreadMoves

\* Undisturbed, the item was not ingested before: it is past the stored cursor,
\* and no other thread is at work.
LEMMA IngestKeeps ==
  ASSUME PollInv, NEW p \in Processes, NEW s \in Slots[p], IngestItem(p, s)
  PROVE  PollInv'
<1>1. PICK i : i = thread[p][s].from + 1
  OBVIOUS
<1>2. PICK t : t = [thread[p][s] EXCEPT !.from = i]
  OBVIOUS
<1>3. /\ thread[p][s].at = "ingest" /\ i <= thread[p][s].to /\ SetThread(p, s, t)
      /\ ingested' = [ingested EXCEPT ![i] = Min({2, ingested[i] + 1})]
      /\ UNCHANGED <<enabled, cursor, offered, lease, up, current, events, disturbed>>
  BY <1>1, <1>2 DEF IngestItem, At_
<1>4. /\ thread[p][s] \in ThreadState /\ thread[p][s].from \in 0..offered
      /\ thread[p][s].to \in 0..offered
      /\ Done(thread[p][s].from) /\ offered \in 0..MaxItems /\ cursor \in 0..offered
      /\ ingested \in [1..MaxItems -> 0..2]
  BY DEF PollInv, PollTypes, PollTypeOK, CursorsDone
<1>5. i \in 1..offered /\ i \in 0..offered /\ i \in 1..MaxItems /\ i \in Nat
  BY <1>1, <1>3, <1>4, PollerAssumption
<1>6. /\ t \in ThreadState /\ t.at = "ingest" /\ t.from = i /\ t.to = thread[p][s].to
      /\ t.stop = thread[p][s].stop
  BY <1>2, <1>3, <1>4, <1>5 DEF ThreadState
<1>7. /\ DOMAIN thread' = Processes /\ thread'[p][s] = t
      /\ \A q \in Processes : thread'[q] \in [Slots[q] -> ThreadState]
      /\ \A q \in Processes : \A z \in Slots[q] :
           q # p \/ z # s => thread'[q][z] = thread[q][z]
  BY <1>3, <1>6, OneThread DEF PollInv
<1>8. PICK m : m = Min({2, ingested[i] + 1})
  OBVIOUS
<1>9. m \in 1..2 /\ (ingested[i] = 0 => m = 1)
  <2>1. ingested[i] \in 0..2
    BY <1>4, <1>5
  <2>2. PICK k \in Nat : k = ingested[i] + 1
    BY <2>1
  <2>3. m \in {2, k} /\ m <= 2 /\ m <= k
    BY <1>8, <2>2, MinMax
  <2> QED
    BY <2>1, <2>2, <2>3
<1>10. /\ ingested' \in [1..MaxItems -> 0..2] /\ ingested'[i] = m
       /\ \A n \in 1..MaxItems : n # i => ingested'[n] = ingested[n]
  BY <1>3, <1>4, <1>5, <1>8, <1>9
<1>11. \A n \in 1..MaxItems : ingested[n] > 0 => ingested'[n] > 0
  BY <1>9, <1>10
<1>12. ASSUME NEW n \in 0..offered, Done(n) PROVE Done(n)'
  BY <1>4, <1>11, <1>12, PollerAssumption DEF Done
<1>13. Done(i)'
  <2>1. ASSUME NEW n \in 1..i PROVE ingested'[n] > 0
    <3>1. CASE n = i
      BY <1>9, <1>10, <3>1
    <3>2. CASE n # i
      <4>1. n \in 1..thread[p][s].from /\ n \in 1..MaxItems
        <5>1. PICK k \in Nat : k = thread[p][s].from
          BY <1>4
        <5>2. i = k + 1 /\ n \in Nat /\ 1 <= n /\ n <= i
          BY <1>1, <1>5, <5>1
        <5>3. n <= k /\ n \in 1..MaxItems
          BY <1>5, <3>2, <5>1, <5>2, PollerAssumption
        <5> QED
          BY <5>1, <5>2, <5>3
      <4> QED
        BY <1>4, <1>11, <4>1 DEF Done
    <3> QED
      BY <3>1, <3>2
  <2> QED
    BY <2>1 DEF Done
<1>14. ASSUME NEW q \in Processes, NEW z \in Slots[q]
       PROVE  /\ thread'[q][z].from \in 0..offered /\ thread'[q][z].to \in 0..offered
              /\ thread'[q][z] \in ThreadState
  BY <1>4, <1>5, <1>6, <1>7 DEF PollInv, PollTypes, PollTypeOK
<1>15. PollTypeOK'
  BY <1>3, <1>10, <1>14 DEF PollInv, PollTypes, PollTypeOK, ThreadState
<1>16. CursorsDone'
  <2>1. ASSUME NEW q \in Processes, NEW z \in Slots[q] PROVE Done(thread[q][z].from)'
    <3>1. CASE q = p /\ z = s
      BY <1>6, <1>7, <1>13, <3>1 DEF Done
    <3>2. CASE q # p \/ z # s
      <4>1. PICK n \in 0..offered : n = thread[q][z].from
        BY DEF PollInv, PollTypes, PollTypeOK
      <4>2. Done(n)
        BY <4>1 DEF PollInv, CursorsDone
      <4>3. Done(n)'
        BY <1>12, <4>2
      <4> QED
        BY <1>7, <3>2, <4>1, <4>3 DEF Done
    <3> QED
      BY <3>1, <3>2
  <2>2. Done(cursor)'
    <3>1. PICK n \in 0..offered : n = cursor
      BY <1>4
    <3>2. Done(n)'
      BY <1>12, <3>1 DEF PollInv, CursorsDone
    <3> QED
      BY <1>3, <3>1, <3>2 DEF Done
  <2> QED
    BY <2>1, <2>2 DEF CursorsDone
<1>17. ASSUME ~disturbed PROVE QuietOK'
  <2>1. QuietOK
    BY <1>17 DEF PollInv
  <2>2. ASSUME NEW q \in Processes, NEW z \in Slots[q], q # p \/ z # s
        PROVE  thread[q][z].at \notin {"poll", "ingest"}
    BY <1>3, <2>1, <2>2, OneAtWork
  <2>3. ThreadQuiet(p, s) /\ lease = p /\ cursor <= thread[p][s].from
    BY <1>3, <2>1 DEF QuietOK, ThreadQuiet
  <2>4. ~Pulled(i)
    <3>1. ~(i <= cursor) /\ ~(i <= thread[p][s].from)
      BY <1>1, <1>4, <2>3
    <3> QED
      BY <2>2, <3>1 DEF Pulled
  <2>5. ingested[i] = 0 /\ ingested'[i] = 1
    <3>1. ~(ingested[i] > 0) /\ ingested[i] \in 0..2
      BY <1>4, <1>5, <2>1, <2>4 DEF QuietOK
    <3>2. ingested[i] = 0
      BY <3>1
    <3> QED
      BY <1>9, <1>10, <3>2
  <2>6. ASSUME NEW q \in Processes, NEW z \in Slots[q] PROVE ThreadQuiet(q, z)'
    <3>1. CASE q = p /\ z = s
      <4>1. cursor <= t.from
        BY <1>1, <1>4, <1>6, <2>3
      <4> QED
        BY <1>3, <1>6, <1>7, <2>3, <3>1, <4>1 DEF ThreadQuiet
    <3>2. CASE q # p \/ z # s
      BY <1>3, <1>7, <2>1, <3>2 DEF QuietOK, ThreadQuiet
    <3> QED
      BY <3>1, <3>2
  <2>7. ASSUME NEW n \in 1..MaxItems PROVE ingested'[n] <= 1 /\ (ingested'[n] > 0 => Pulled(n)')
    <3>1. CASE n = i
      <4>1. Pulled(i)'
        BY <1>5, <1>6, <1>7 DEF Pulled
      <4> QED
        BY <2>5, <3>1, <4>1
    <3>2. CASE n # i
      <4>1. ASSUME Pulled(n) PROVE Pulled(n)'
        <5>1. CASE n <= cursor
          BY <1>3, <5>1 DEF Pulled
        <5>2. CASE n <= thread[p][s].from
          <6>1. n <= i
            BY <1>1, <1>4, <5>2
          <6> QED
            BY <1>6, <1>7, <6>1 DEF Pulled
        <5> QED
          BY <2>2, <4>1, <5>1, <5>2 DEF Pulled
      <4> QED
        BY <1>10, <2>1, <3>2, <4>1 DEF QuietOK
    <3> QED
      BY <3>1, <3>2
  <2>8. lease' # "free" /\ lease' # "dead"
    BY <1>3, <2>3, PollerAssumption
  <2> QED
    BY <1>3, <2>1, <2>6, <2>7, <2>8 DEF QuietOK
<1> QED
  BY <1>3, <1>7, <1>15, <1>16, <1>17 DEF PollInv, PollTypes

LEMMA SuccessKeeps ==
  ASSUME PollInv, NEW p \in Processes, NEW s \in Slots[p], RecordSuccess(p, s)
  PROVE  PollInv'
<1>1. PICK t : t = [Gone EXCEPT !.at = "top", !.stop = thread[p][s].stop]
  OBVIOUS
<1>2. /\ thread[p][s].at = "ingest" /\ SetThread(p, s, t)
      /\ thread[p][s].from = thread[p][s].to /\ cursor' = thread[p][s].to
      /\ UNCHANGED <<enabled, offered, ingested, lease, up, current, events, disturbed>>
  BY <1>1 DEF RecordSuccess, Sleep, At_
<1>3. /\ thread[p][s] \in ThreadState /\ thread[p][s].from \in 0..offered
      /\ Done(thread[p][s].from) /\ offered \in 0..MaxItems /\ cursor \in 0..offered
  BY DEF PollInv, PollTypes, PollTypeOK, CursorsDone
<1>4. /\ t \in ThreadState /\ t.at = "top" /\ t.from = 0 /\ t.to = 0
      /\ t.stop = thread[p][s].stop
  BY <1>1, <1>3 DEF ThreadState, Gone
<1>5. 0 \in 0..offered
  BY <1>3, PollerAssumption
<1>6. /\ DOMAIN thread' = Processes /\ thread'[p][s] = t
      /\ \A q \in Processes : thread'[q] \in [Slots[q] -> ThreadState]
      /\ \A q \in Processes : \A z \in Slots[q] :
           q # p \/ z # s => thread'[q][z] = thread[q][z]
  BY <1>2, <1>4, OneThread DEF PollInv
<1>7. ASSUME NEW q \in Processes, NEW z \in Slots[q]
      PROVE  /\ thread'[q][z].from \in 0..offered /\ thread'[q][z].to \in 0..offered
             /\ thread'[q][z] \in ThreadState /\ Done(thread'[q][z].from)
  BY <1>4, <1>5, <1>6 DEF PollInv, PollTypes, PollTypeOK, CursorsDone, Done
<1>8. PollTypeOK'
  BY <1>2, <1>3, <1>7 DEF PollInv, PollTypes, PollTypeOK, ThreadState
<1>9. CursorsDone'
  BY <1>2, <1>3, <1>7 DEF CursorsDone, Done
<1>10. ASSUME ~disturbed PROVE QuietOK'
  <2>1. QuietOK
    BY <1>10 DEF PollInv
  <2>2. ASSUME NEW q \in Processes, NEW z \in Slots[q], q # p \/ z # s
        PROVE  /\ thread[q][z].at \notin {"poll", "ingest"}
               /\ q = p => thread[q][z].at = "ended"
    BY <1>2, <2>1, <2>2, OneAtWork
  <2>3. ThreadQuiet(p, s) /\ lease = p /\ cursor <= cursor'
    BY <1>2, <2>1 DEF QuietOK, ThreadQuiet
  <2>4. lease # "free"
    BY <2>3, PollerAssumption
  <2>5. ASSUME NEW q \in Processes, NEW z \in Slots[q] PROVE ThreadQuiet(q, z)'
    <3>1. CASE q = p /\ z = s
      BY <1>2, <1>4, <1>6, <2>3, <3>1 DEF ThreadQuiet
    <3>2. CASE q # p \/ z # s
      <4>1. thread'[q][z] = thread[q][z] /\ ThreadQuiet(q, z)
        BY <1>6, <2>1, <3>2 DEF QuietOK
      <4> QED
        BY <1>2, <2>2, <2>3, <2>4, <3>2, <4>1 DEF ThreadQuiet
    <3> QED
      BY <3>1, <3>2
  <2>6. ASSUME NEW n \in 1..MaxItems PROVE ingested'[n] <= 1 /\ (ingested'[n] > 0 => Pulled(n)')
    <3>1. ASSUME Pulled(n) PROVE n <= cursor'
      <4>1. n <= cursor \/ n <= thread[p][s].from
        BY <2>2, <3>1 DEF Pulled
      <4>2. cursor \in Int /\ cursor' \in Int /\ cursor' = thread[p][s].from
        BY <1>2, <1>3
      <4> QED
        BY <2>3, <4>1, <4>2
    <3> QED
      BY <1>2, <2>1, <3>1 DEF QuietOK, Pulled
  <2> QED
    BY <1>2, <2>1, <2>4, <2>5, <2>6 DEF QuietOK
<1> QED
  BY <1>2, <1>6, <1>8, <1>9, <1>10 DEF PollInv, PollTypes

\* What happens only after an error, or to a connection that was switched off.
LEMMA DisturbedKeeps ==
  ASSUME PollInv, NEW p \in Processes, NEW s \in Slots[p],
         RecordError(p, s) \/ ReleaseLease(p, s) \/ Raise(p, s)
  PROVE  PollInv'
<1>1. PICK h \in ThreadState : h = thread[p][s]
  BY DEF PollInv, PollTypes
<1>2. PICK t \in ThreadState :
        /\ SetThread(p, s, t)
        /\ t.from \in {0, h.from} /\ t.to \in {0, h.to}
  <2>1. Gone \in ThreadState /\ Gone.from = 0 /\ Gone.to = 0
    BY DEF Gone, ThreadState
  <2>2. /\ [Gone EXCEPT !.at = "top", !.stop = h.stop] \in ThreadState
        /\ [Gone EXCEPT !.at = "top", !.stop = h.stop].from = 0
        /\ [Gone EXCEPT !.at = "top", !.stop = h.stop].to = 0
    BY DEF Gone, ThreadState
  <2>3. /\ [h EXCEPT !.at = "failed"] \in ThreadState
        /\ [h EXCEPT !.at = "failed"].from = h.from
        /\ [h EXCEPT !.at = "failed"].to = h.to
    BY DEF ThreadState
  <2>4. \/ SetThread(p, s, Gone) \/ SetThread(p, s, [h EXCEPT !.at = "failed"])
        \/ SetThread(p, s, [Gone EXCEPT !.at = "top", !.stop = h.stop])
    BY <1>1 DEF RecordError, ReleaseLease, Raise, Sleep, MoveTo
  <2> QED
    BY <2>1, <2>2, <2>3, <2>4
<1>3. /\ UNCHANGED <<enabled, cursor, offered, ingested, up, current>>
      /\ lease' = lease \/ lease' = "free"
      /\ events' = events \/ (events' = events + 1 /\ events < MaxPollEvents)
      /\ disturbed' = disturbed \/ disturbed' = TRUE
  BY DEF RecordError, CursorOnError, ReleaseLease, Raise
<1>4. /\ h.from \in 0..offered /\ h.to \in 0..offered /\ Done(h.from) /\ Done(0)
      /\ 0 \in 0..offered
  BY <1>1, PollerAssumption DEF PollInv, PollTypes, PollTypeOK, CursorsDone, Done
<1>5. /\ lease' \in Processes \cup {"free", "dead"} /\ events' \in 0..MaxPollEvents
      /\ disturbed' \in BOOLEAN /\ current' \in [Processes -> AllSlots \cup {0}]
      /\ \A q \in Processes : current'[q] \in Slots[q] \cup {0}
  <2>1. /\ lease \in Processes \cup {"free", "dead"} /\ events \in 0..MaxPollEvents
        /\ disturbed \in BOOLEAN /\ current \in [Processes -> AllSlots \cup {0}]
        /\ \A q \in Processes : current[q] \in Slots[q] \cup {0}
    BY DEF PollInv, PollTypes, PollTypeOK
  <2>2. events' \in 0..MaxPollEvents
    BY <1>3, <2>1, PollerAssumption
  <2> QED
    BY <1>3, <2>1, <2>2
<1>6. disturbed'
  <2>1. CASE disturbed' = TRUE
    BY <2>1
  <2>2. CASE thread[p][s].at \in {"failed", "release"} /\ disturbed' = disturbed
    BY <2>2 DEF PollInv, QuietOK, ThreadQuiet
  <2> QED
    BY <2>1, <2>2 DEF RecordError, ReleaseLease, Raise, At_
<1>7. t.from \in 0..offered /\ t.to \in 0..offered /\ Done(t.from)
  BY <1>2, <1>4
<1> QED
  BY <1>2, <1>3, <1>5, <1>6, <1>7, ThreadMoves

LEMMA ReconcileKeeps ==
  ASSUME PollInv, NEW p \in Processes, ReconcileOff(p) \/ ReconcileOn(p)
  PROVE  PollInv'
<1>1. /\ lease \in Processes \cup {"free", "dead"} /\ events \in 0..MaxPollEvents
      /\ disturbed \in BOOLEAN /\ current \in [Processes -> AllSlots \cup {0}]
      /\ \A q \in Processes : current[q] \in Slots[q] \cup {0}
  BY DEF PollInv, PollTypes, PollTypeOK
<1>2. Done(0) /\ 0 \in 0..offered
  BY PollerAssumption DEF Done, PollInv, PollTypes, PollTypeOK
<1>3. CASE ReconcileOff(p)
  <2>1. PICK s \in Slots[p] : s = current[p]
    BY <1>1, <1>3 DEF ReconcileOff
  <2>2. PICK t : t = [thread[p][s] EXCEPT !.stop = TRUE]
    OBVIOUS
  <2>3. /\ SetThread(p, s, t) /\ ~enabled /\ current' = [current EXCEPT ![p] = 0]
        /\ UNCHANGED <<enabled, cursor, offered, ingested, lease, up, events, disturbed>>
    BY <1>3, <2>1, <2>2 DEF ReconcileOff
  <2>4. /\ thread[p][s] \in ThreadState /\ thread[p][s].from \in 0..offered
        /\ thread[p][s].to \in 0..offered /\ Done(thread[p][s].from)
    BY DEF PollInv, PollTypes, PollTypeOK, CursorsDone
  <2>5. t \in ThreadState /\ t.from = thread[p][s].from /\ t.to = thread[p][s].to
    BY <2>2, <2>4 DEF ThreadState
  <2>6. disturbed
    BY <2>3 DEF PollInv, QuietOK
  <2>7. current' \in [Processes -> AllSlots \cup {0}]
        /\ \A q \in Processes : current'[q] \in Slots[q] \cup {0}
    BY <1>1, <2>3
  <2> QED
    BY <1>1, <2>3, <2>4, <2>5, <2>6, <2>7, ThreadMoves
<1>4. CASE ReconcileOn(p)
  <2>1. PICK t : t = [Gone EXCEPT !.at = "top"]
    OBVIOUS
  <2>2. PICK s \in Slots[p] :
          /\ thread[p][s].at = "ended" /\ SetThread(p, s, t)
          /\ current' = [current EXCEPT ![p] = s]
    BY <1>4, <2>1 DEF ReconcileOn
  <2>3. /\ current[p] = 0 /\ enabled
        /\ UNCHANGED <<enabled, cursor, offered, ingested, lease, up, events, disturbed>>
    BY <1>4 DEF ReconcileOn
  <2>4. t \in ThreadState /\ t.at = "top" /\ t.from = 0 /\ t.to = 0 /\ t.stop = FALSE
    BY <2>1 DEF ThreadState, Gone
  <2>5. /\ current' \in [Processes -> AllSlots \cup {0}] /\ current'[p] = s
        /\ \A q \in Processes : current'[q] \in Slots[q] \cup {0}
        /\ \A q \in Processes \ {p} : current'[q] = current[q]
    BY <1>1, <2>2 DEF AllSlots
  <2>6. /\ thread'[p][s] = t
        /\ \A q \in Processes : \A z \in Slots[q] :
             q # p \/ z # s => thread'[q][z] = thread[q][z]
    BY <2>2, <2>4, OneThread DEF PollInv
  <2>7. ASSUME ~disturbed PROVE QuietOK'
    <3>1. QuietOK
      BY <2>7 DEF PollInv
    <3>2. ASSUME NEW z \in Slots[p] PROVE thread[p][z].at = "ended"
      BY <2>3, <3>1, PollerAssumption DEF QuietOK, ThreadQuiet
    <3>3. ASSUME NEW q \in Processes, NEW z \in Slots[q] PROVE ThreadQuiet(q, z)'
      <4>1. CASE q = p /\ z = s
        BY <2>4, <2>5, <2>6, <4>1 DEF ThreadQuiet
      <4>2. CASE q = p /\ z # s
        <5>1. thread'[q][z] = thread[q][z] /\ thread[q][z].at = "ended" /\ ThreadQuiet(q, z)
          BY <2>6, <3>1, <3>2, <4>2 DEF QuietOK
        <5> QED
          BY <5>1 DEF ThreadQuiet
      <4>3. CASE q # p
        <5>1. /\ thread'[q][z] = thread[q][z] /\ ThreadQuiet(q, z) /\ current'[q] = current[q]
          BY <2>5, <2>6, <3>1, <4>3 DEF QuietOK
        <5> QED
          BY <2>3, <5>1 DEF ThreadQuiet
      <4> QED
        BY <4>1, <4>2, <4>3
    <3>4. ASSUME NEW i \in 1..MaxItems PROVE ingested'[i] <= 1 /\ (ingested'[i] > 0 => Pulled(i)')
      <4>1. Pulled(i) => Pulled(i)'
        BY <2>2, <2>3, <2>6 DEF Pulled
      <4> QED
        BY <2>3, <3>1, <4>1 DEF QuietOK
    <3> QED
      BY <2>3, <3>1, <3>3, <3>4 DEF QuietOK
  <2> QED
    BY <1>1, <1>2, <2>2, <2>3, <2>4, <2>5, <2>7, ThreadMoves
<1> QED
  BY <1>3, <1>4

LEMMA PollNextInv == PollInv /\ [PollNext]_pollVars => PollInv'
<1> SUFFICES ASSUME PollInv, [PollNext]_pollVars PROVE PollInv'
  OBVIOUS
<1>1. CASE Offer
  <2>1. /\ offered' = offered + 1 /\ offered < MaxItems
        /\ UNCHANGED <<enabled, cursor, ingested, lease, up, current, thread, events, disturbed>>
    BY <1>1 DEF Offer
  <2>2. PollTypes'
    <3>1. offered \in Nat /\ offered' \in 0..MaxItems
      BY <2>1, PollerAssumption DEF PollInv, PollTypes, PollTypeOK
    <3>2. \A n \in 0..offered : n \in 0..offered'
      BY <2>1, <3>1
    <3> QED
      BY <2>1, <3>1, <3>2 DEF PollInv, PollTypes, PollTypeOK
  <2> QED
    BY <2>1, <2>2 DEF PollInv, CursorsDone, Done, QuietOK, ThreadQuiet, Pulled
<1>2. CASE Toggle
  <2>1. /\ events < MaxPollEvents /\ events' = events + 1 /\ enabled' = ~enabled /\ disturbed' = TRUE
        /\ UNCHANGED <<cursor, offered, ingested, lease, up, current, thread>>
    BY <1>2 DEF Toggle
  <2>2. events' \in 0..MaxPollEvents /\ enabled' \in BOOLEAN
    BY <2>1, PollerAssumption DEF PollInv, PollTypes, PollTypeOK
  <2> QED
    BY <2>1, <2>2 DEF PollInv, PollTypes, PollTypeOK, CursorsDone, Done
<1>3. CASE Expire
  <2>1. /\ disturbed' = TRUE /\ lease' = "free"
        /\ UNCHANGED <<enabled, cursor, offered, ingested, up, current, thread, events>>
    BY <1>3 DEF Expire
  <2> QED
    BY <2>1 DEF PollInv, PollTypes, PollTypeOK, CursorsDone, Done
<1>4. ASSUME NEW p \in Processes, PollerDies(p) PROVE PollInv'
  <2>1. /\ events < MaxPollEvents /\ events' = events + 1 /\ disturbed' = TRUE /\ up' = up \ {p}
        /\ lease' = lease \/ lease' = "dead"
        /\ current' = [current EXCEPT ![p] = 0]
        /\ thread' = [thread EXCEPT ![p] = [s \in Slots[p] |-> Gone]]
        /\ UNCHANGED <<enabled, cursor, offered, ingested>>
    BY <1>4 DEF PollerDies, NoThreads
  <2>2. Gone \in ThreadState /\ Gone.from = 0 /\ Gone.to = 0 /\ 0 \in 0..offered /\ Done(0)
    BY PollerAssumption DEF Gone, ThreadState, Done, PollInv, PollTypes, PollTypeOK
  <2>3. /\ DOMAIN thread' = Processes /\ \A q \in Processes : q # p => thread'[q] = thread[q]
        /\ thread'[p] = [s \in Slots[p] |-> Gone]
    BY <2>1 DEF PollInv, PollTypes
  <2>4. ASSUME NEW q \in Processes
        PROVE  /\ thread'[q] \in [Slots[q] -> ThreadState]
               /\ \A z \in Slots[q] : \/ thread'[q][z] = thread[q][z] \/ thread'[q][z] = Gone
    BY <2>2, <2>3 DEF PollInv, PollTypes
  <2>5. ASSUME NEW q \in Processes, NEW z \in Slots[q]
        PROVE  /\ thread'[q][z].from \in 0..offered /\ thread'[q][z].to \in 0..offered
               /\ thread'[q][z] \in ThreadState /\ Done(thread'[q][z].from)
    BY ZenonT(60), <2>2, <2>4 DEF PollInv, PollTypes, PollTypeOK, CursorsDone
  <2>6. events' \in 0..MaxPollEvents /\ lease' \in Processes \cup {"free", "dead"}
    BY <2>1, PollerAssumption DEF PollInv, PollTypes, PollTypeOK
  <2>7. current' \in [Processes -> AllSlots \cup {0}]
        /\ \A q \in Processes : current'[q] \in Slots[q] \cup {0}
    BY <2>1 DEF PollInv, PollTypes, PollTypeOK
  <2>8. PollTypeOK'
    BY <2>1, <2>5, <2>6, <2>7 DEF PollInv, PollTypes, PollTypeOK, ThreadState
  <2>9. CursorsDone'
    BY <2>1, <2>5 DEF PollInv, CursorsDone, Done
  <2> QED
    BY <2>1, <2>3, <2>4, <2>7, <2>8, <2>9 DEF PollInv, PollTypes
<1>5. ASSUME NEW p \in Processes, Restart(p) PROVE PollInv'
  <2>1. /\ up' = up \cup {p}
        /\ UNCHANGED <<enabled, cursor, offered, ingested, lease, current, thread, events, disturbed>>
    BY <1>5 DEF Restart
  <2> QED
    BY <2>1 DEF PollInv, PollTypes, PollTypeOK, CursorsDone, Done, QuietOK, ThreadQuiet, Pulled
<1>6. CASE UNCHANGED pollVars
  BY <1>6 DEF pollVars, PollInv, PollTypes, PollTypeOK, CursorsDone, Done, QuietOK, ThreadQuiet, Pulled
<1> QED
  BY <1>1, <1>2, <1>3, <1>4, <1>5, <1>6, ReconcileKeeps, ReadRowKeeps, HoldLeaseKeeps, FetchKeeps,
     IngestKeeps, SuccessKeeps, DisturbedKeeps
  DEF PollNext, ThreadStep

LEMMA PollAlways == PollSpec => []PollInv
BY PollInitInv, PollNextInv, PTL DEF PollSpec

\* The stored cursor passes no item that was not ingested, and nothing is
\* ingested twice unless an error, a crash, an expiry or a switch came between
\* (api_poller.py, _loop and ingest_batch).
THEOREM PulledOnceHolds == PollSpec => []PulledOnce
<1>1. PollInv => PulledOnce
  <2> SUFFICES ASSUME PollInv PROVE PulledOnce
    OBVIOUS
  <2>1. NothingSkipped
    BY DEF PollInv, CursorsDone, Done, NothingSkipped
  <2>2. RepeatsExcused
    BY DEF PollInv, QuietOK, RepeatsExcused
  <2> QED
    BY <2>1, <2>2 DEF PulledOnce
<1> QED
  BY <1>1, PollAlways, PTL
-----------------------------------------------------------------------------
(***************************************************************************)
(* The listener runs in one of the two modes (main() of listener.py), the  *)
(* pollers beside it.                                                      *)
(***************************************************************************)
LEMMA EitherMode == SpecIngest => Spec /\ ProcSpec /\ PollSpec
<1>1. InitIngest => Init /\ ProcInit /\ PollInit
  BY DEF InitIngest
<1>2. [NextIngest]_ingestVars => [Next]_vars /\ [ProcNext]_procVars /\ [PollNext]_pollVars
  BY DEF NextIngest, ingestVars, Threaded, Forked, Polled
<1> QED
  BY <1>1, <1>2, PTL DEF SpecIngest, Spec, ProcSpec, PollSpec

\* Both modes keep their queues bounded, and all three ways their states well
\* formed.
THEOREM IngestTypesHold == SpecIngest => []IngestTypes
<1>1. ProcInv => ProcTypeOK
  BY DEF ProcInv
<1>2. PollInv => PollTypeOK
  BY DEF PollInv, PollTypes
<1>3. TypeOK /\ ProcTypeOK /\ PollTypeOK => IngestTypes
  BY DEF IngestTypes
<1> QED
  BY <1>1, <1>2, <1>3, PollAlways, EitherMode, PipelineTypeCorrect, ProcAlways, PTL

\* In either mode the counters the page shows account for every message.
THEOREM CountersAddUpHold == SpecIngest => []CountersAddUp
<1>1. EveryMessageCounted /\ CountError => CountersAddUp
  BY DEF CountersAddUp
<1> QED
  BY <1>1, EitherMode, EveryMessageCountedHolds, CountErrorHolds, PTL
=============================================================================
