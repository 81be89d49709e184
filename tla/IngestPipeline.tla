--------------------------- MODULE IngestPipeline ---------------------------
(***************************************************************************)
(* listener.py: IngestPipeline and the shutdown of main() around it.       *)
(* Receive threads submit messages to one bounded queue per worker thread, *)
(* chosen by the sender; each worker takes, processes and counts its       *)
(* queue's messages; SIGTERM drains every queue in turn, for a bounded     *)
(* time, while the receive threads still run, then sets _stop and joins    *)
(* the workers; the end of main() kills whatever thread is left.           *)
(***************************************************************************)
EXTENDS Integers, Sequences, FiniteSets, Functions

CONSTANTS
  Receiver,   \* receive threads: a UDP socket, or one TCP connection
  Udp,        \* the receivers that use UDP
  Source,     \* sender addresses
  NWorker,    \* worker threads, each with its own queue
  Route,      \* Route[s]: crc32(sender) % number of queues, plus 1
  Capacity,   \* size of one queue
  MaxMsg      \* bound of the model: MaxMsg[r] messages that receiver r reads

Worker == 1..NWorker

ASSUME PipelineAssumption ==
  /\ IsFiniteSet(Receiver) /\ Udp \subseteq Receiver
  /\ NWorker \in Nat \ {0}
  /\ Route \in [Source -> Worker]
  /\ Capacity \in Nat \ {0}
  /\ MaxMsg \in [Receiver -> Nat]

Msg == UNION {[src : Source, rcv : {r}, n : 1..MaxMsg[r]] : r \in Receiver}
NoMsg == [src |-> "none", rcv |-> "none", n |-> 0]

VARIABLES
  nread,       \* nread[r]: messages receiver r has read
  putting,     \* putting[r]: the message a TCP receiver is blocked on, or NoMsg
  queue,       \* queue[w]
  unfinished,  \* unfinished[w]: queue.Queue.unfinished_tasks
  wpc,         \* wpc[w]: where the worker's loop is
  hand,        \* hand[w]: the message the worker took, or NoMsg
  stats,       \* processed, failed, dropped
  done,        \* messages the workers have finished, in order
  stop,        \* the _stop event
  main,        \* where main() is
  draining,    \* the queue the drain loop waits for
  timedOut,    \* the drain deadline has passed
  before       \* accepted before the shutdown began and not handled then

vars == <<nread, putting, queue, unfinished, wpc, hand, stats, done, stop, main,
          draining, timedOut, before>>
mainVars == <<stop, main, draining, timedOut, before>>

Alive == main # "gone"
SeqRange(s) == {s[i] : i \in DOMAIN s}

TypeOK ==
  /\ nread \in [Receiver -> Nat]
  /\ \A r \in Receiver : nread[r] <= MaxMsg[r]
  /\ putting \in [Receiver -> Msg \cup {NoMsg}]
  /\ queue \in [Worker -> Seq(Msg)]
  /\ \A w \in Worker : Len(queue[w]) <= Capacity
  /\ unfinished \in [Worker -> Nat]
  /\ wpc \in [Worker -> {"check", "get", "busy", "exited"}]
  /\ hand \in [Worker -> Msg \cup {NoMsg}]
  /\ stats \in [processed : Nat, failed : Nat, dropped : Nat]
  /\ done \in Seq(Msg)
  /\ stop \in BOOLEAN
  /\ main \in {"up", "drain", "joining", "gone"}
  /\ draining \in 1..(NWorker + 1)
  /\ timedOut \in BOOLEAN
  /\ before \in SUBSET Msg

Init ==
  /\ nread = [r \in Receiver |-> 0]
  /\ putting = [r \in Receiver |-> NoMsg]
  /\ queue = [w \in Worker |-> <<>>]
  /\ unfinished = [w \in Worker |-> 0]
  /\ wpc = [w \in Worker |-> "check"]
  /\ hand = [w \in Worker |-> NoMsg]
  /\ stats = [processed |-> 0, failed |-> 0, dropped |-> 0]
  /\ done = <<>>
  /\ stop = FALSE
  /\ main = "up"
  /\ draining = 1
  /\ timedOut = FALSE
  /\ before = {}
-----------------------------------------------------------------------------
(* submit() *)
\* A faulty variant: one message too many.
FullLate(w) == Len(queue[w]) > Capacity

Full(w) == Len(queue[w]) >= Capacity

\* A faulty variant: workers chosen in turn, not by sender.
QueueInTurn(m) == 1 + (m.n % NWorker)

QueueOf(m) == Route[m.src]

Enqueue(m) ==
  /\ queue' = [queue EXCEPT ![QueueOf(m)] = Append(@, m)]
  /\ unfinished' = [unfinished EXCEPT ![QueueOf(m)] = @ + 1]

\* A faulty variant: a full queue drops without counting.
DropSilently == UNCHANGED stats

Drop == stats' = [stats EXCEPT !.dropped = @ + 1]

\* Receiver r reads one message of s and submits it.  put_nowait on UDP; a TCP
\* receiver blocks while the queue is full.
Receive(r, s) ==
  LET m == [src |-> s, rcv |-> r, n |-> nread[r] + 1]
  IN  /\ Alive /\ putting[r] = NoMsg /\ nread[r] < MaxMsg[r]
      /\ nread' = [nread EXCEPT ![r] = @ + 1]
      /\ \/ /\ ~Full(QueueOf(m))
            /\ Enqueue(m)
            /\ UNCHANGED <<putting, stats>>
         \/ /\ Full(QueueOf(m)) /\ r \in Udp
            /\ Drop
            /\ UNCHANGED <<putting, queue, unfinished>>
         \/ /\ Full(QueueOf(m)) /\ r \notin Udp
            /\ putting' = [putting EXCEPT ![r] = m]
            /\ UNCHANGED <<queue, unfinished, stats>>
      /\ UNCHANGED <<wpc, hand, done, mainVars>>

\* A blocked put finds room, or its timeout (tcp_wait) expires on a full queue.
PutBlocked(r) ==
  /\ Alive /\ putting[r] # NoMsg
  /\ putting' = [putting EXCEPT ![r] = NoMsg]
  /\ \/ /\ ~Full(QueueOf(putting[r]))
        /\ Enqueue(putting[r])
        /\ UNCHANGED stats
     \/ /\ Full(QueueOf(putting[r]))
        /\ Drop
        /\ UNCHANGED <<queue, unfinished>>
  /\ UNCHANGED <<nread, wpc, hand, done, mainVars>>
-----------------------------------------------------------------------------
(* _worker() *)
\* while not _stop.is_set() or not q.empty()
Check(w) ==
  /\ Alive /\ wpc[w] = "check"
  /\ wpc' = [wpc EXCEPT ![w] = IF stop /\ queue[w] = <<>> THEN "exited" ELSE "get"]
  /\ UNCHANGED <<nread, putting, queue, unfinished, hand, stats, done, mainVars>>

\* Faulty variants: task_done() before the message is processed; a failed
\* message ends the worker thread.
GetEarlyTaskDone(w) ==
  /\ Alive /\ wpc[w] = "get"
  /\ \/ /\ queue[w] # <<>>
        /\ hand' = [hand EXCEPT ![w] = Head(queue[w])]
        /\ queue' = [queue EXCEPT ![w] = Tail(@)]
        /\ unfinished' = [unfinished EXCEPT ![w] = @ - 1]
        /\ wpc' = [wpc EXCEPT ![w] = "busy"]
     \/ /\ queue[w] = <<>>
        /\ wpc' = [wpc EXCEPT ![w] = "check"]
        /\ UNCHANGED <<hand, queue, unfinished>>
  /\ UNCHANGED <<nread, putting, stats, done, mainVars>>

\* q.get(timeout=0.1), which may time out on an empty queue.
Get(w) ==
  /\ Alive /\ wpc[w] = "get"
  /\ \/ /\ queue[w] # <<>>
        /\ hand' = [hand EXCEPT ![w] = Head(queue[w])]
        /\ queue' = [queue EXCEPT ![w] = Tail(@)]
        /\ wpc' = [wpc EXCEPT ![w] = "busy"]
     \/ /\ queue[w] = <<>>
        /\ wpc' = [wpc EXCEPT ![w] = "check"]
        /\ UNCHANGED <<hand, queue>>
  /\ UNCHANGED <<nread, putting, unfinished, stats, done, mainVars>>

\* process() returns or raises; either way task_done().
Process(w) ==
  /\ Alive /\ wpc[w] = "busy"
  /\ \E result \in {"processed", "failed"} :
       stats' = [stats EXCEPT ![result] = @ + 1]
  /\ done' = Append(done, hand[w])
  /\ unfinished' = [unfinished EXCEPT ![w] = @ - 1]
  /\ hand' = [hand EXCEPT ![w] = NoMsg]
  /\ wpc' = [wpc EXCEPT ![w] = "check"]
  /\ UNCHANGED <<nread, putting, queue, mainVars>>
-----------------------------------------------------------------------------
(* main()'s shutdown and stop(drain=True, timeout=10) *)
InPipeline == UNION {SeqRange(queue[w]) \cup ({hand[w]} \ {NoMsg}) : w \in Worker}

Sigterm ==
  /\ main = "up"
  /\ main' = "drain"
  /\ before' = InPipeline
  /\ UNCHANGED <<nread, putting, queue, unfinished, wpc, hand, stats, done, stop,
                 draining, timedOut>>

\* The queue waited for has no unfinished task.
DrainNext ==
  /\ main = "drain" /\ draining <= NWorker
  /\ unfinished[draining] = 0
  /\ draining' = draining + 1
  /\ UNCHANGED <<nread, putting, queue, unfinished, wpc, hand, stats, done, stop,
                 main, timedOut, before>>

\* The deadline passes: every loop that is left falls through.
DrainTimeout ==
  /\ main = "drain" /\ draining <= NWorker
  /\ unfinished[draining] # 0
  /\ timedOut' = TRUE
  /\ draining' = NWorker + 1
  /\ UNCHANGED <<nread, putting, queue, unfinished, wpc, hand, stats, done, stop,
                 main, before>>

SetStop ==
  /\ main = "drain" /\ draining = NWorker + 1
  /\ stop' = TRUE
  /\ main' = "joining"
  /\ UNCHANGED <<nread, putting, queue, unfinished, wpc, hand, stats, done,
                 draining, timedOut, before>>

\* Each join returns when its worker has exited, or after its timeout; then
\* main() ends and the daemon threads with it.
Exit ==
  /\ main = "joining"
  /\ main' = "gone"
  /\ UNCHANGED <<nread, putting, queue, unfinished, wpc, hand, stats, done, stop,
                 draining, timedOut, before>>

Next ==
  \/ \E r \in Receiver, s \in Source : Receive(r, s)
  \/ \E r \in Receiver : PutBlocked(r)
  \/ \E w \in Worker : Check(w) \/ Get(w) \/ Process(w)
  \/ Sigterm \/ DrainNext \/ DrainTimeout \/ SetStop \/ Exit

Spec == Init /\ [][Next]_vars

\* The worker threads run, and a blocked put returns within tcp_wait.
FairSpec ==
  /\ Spec
  /\ \A w \in Worker : WF_vars(Check(w) \/ Get(w) \/ Process(w))
  /\ \A r \in Receiver : WF_vars(PutBlocked(r))
-----------------------------------------------------------------------------
(***************************************************************************)
(* Properties.                                                             *)
(***************************************************************************)
InHand(w) == IF hand[w] = NoMsg THEN 0 ELSE 1

\* The counters the health page shows add up: every message a receiver has
\* read was processed, failed or dropped, or is still on its way.
EveryMessageCounted ==
  SumFunctionOnSet(nread, Receiver)
    = stats.processed + stats.failed + stats.dropped
      + SumFunctionOnSet([w \in Worker |-> Len(queue[w]) + InHand(w)], Worker)
      + Cardinality({r \in Receiver : putting[r] # NoMsg})

\* unfinished_tasks, which the drain waits for, is what the worker still owes.
TasksOwed == \A w \in Worker : unfinished[w] = Len(queue[w]) + InHand(w)

\* "one sender's messages are always handled in arrival order"
\* (listener.py:813-814), for the messages that arrive over one receiver.
PerSenderOrder ==
  \A i, k \in DOMAIN done :
    i < k /\ done[i].src = done[k].src /\ done[i].rcv = done[k].rcv
      => done[i].n < done[k].n

\* A drain that ends before its deadline has handled every message that was
\* accepted before the shutdown, although messages keep arriving meanwhile.
DrainHandles == stop /\ ~timedOut => before \subseteq SeqRange(done)

\* Until _stop is set, an accepted message is handled in the end, whatever
\* happened to the messages before it.
AcceptedIsHandled ==
  \A m \in Msg : []<>(m \notin InPipeline \/ stop)
=============================================================================
