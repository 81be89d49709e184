--------------------------- MODULE ProcessIngest ----------------------------
(***************************************************************************)
(* ingest_workers.py: ProcessIngest, its child processes and the calls     *)
(* main() of listener.py makes on it.  Receive threads route a parsed      *)
(* message to the queue of one child; the main thread supervises the       *)
(* children and replaces a dead one together with its queue, while the     *)
(* receive threads go on submitting; SIGTERM interrupts the main thread    *)
(* anywhere, also in supervise(), and stop() ends the children.            *)
(*                                                                         *)
(* A submit reads self.queues[i], put() then reads whether that object is  *)
(* closed, and then takes a place in it: three separate steps, and a queue *)
(* object, named by its slot and generation, outlives its replacement.     *)
(***************************************************************************)
EXTENDS Integers, Sequences, FiniteSets, Functions

CONSTANTS
  Feeder,   \* receive threads
  UdpFeeder,        \* the receivers that use UDP
  Key,        \* routing keys (route_key: the address the rules count by)
  NChild,     \* ProcessIngest.count
  KeyRoute,      \* Route[k]: crc32(key) % count, plus 1
  QueueSize,   \* queue_size
  MaxRead,     \* bound of the model: messages each receiver reads (a function)
  MaxDeaths   \* bound of the model: children that die

Slot == 1..NChild

ASSUME ProcessIngestAssumption ==
  /\ UdpFeeder \subseteq Feeder
  /\ NChild \in Nat \ {0}
  /\ KeyRoute \in [Key -> Slot]
  /\ QueueSize \in Nat \ {0}
  /\ MaxRead \in [Feeder -> Nat]
  /\ MaxDeaths \in Nat

Queue == Slot \X (0..MaxDeaths)
Event == [key : Key, rcv : Feeder, n : Nat \ {0}]
NoEvent == [key |-> "none", rcv |-> "none", n |-> 0]
Sentinel == [key |-> "stop", rcv |-> "none", n |-> 0]

VARIABLES
  rpc,       \* rpc[r]: where receiver r is in submit()
  cur,       \* cur[r]: the message it submits
  ref,       \* ref[r]: the queue object it read
  procRead,     \* nread[r]: messages r has read
  mpQueue,     \* queue[q]: what the queue object q holds
  gen,       \* gen[i]: how often self.queues[i] was replaced
  closed,    \* closed[q]: close() was called on q
  jammed,    \* jammed[i]: a reader of self.queues[i] died holding its lock
  countersHeld, \* a child was killed holding the lock of the counters
  child,     \* child[i]: where the process of slot i is
  holding,      \* the message the process of slot i took, until it is counted
  stored,    \* messages the children have stored, in order
  processed, \* counters[2i]
  failed,    \* counters[2i+1]
  dropped,   \* _stats["dropped"]
  raised,    \* submits that raised ValueError
  accepted,  \* messages for which submit returned True
  window,    \* those of them put into a dead child's queue after qsize() was read
  sup,       \* where supervise() is: the slot, the step and `lost'
  restarts,  \* self.restarts
  procMain,      \* where main() is
  nextq      \* the queue stop() sends its next sentinel to

rcvVars == <<rpc, cur, ref, procRead, dropped, raised, accepted, window>>
childVars == <<child, holding, stored, processed, failed, jammed, countersHeld>>
procVars == <<rcvVars, childVars, mpQueue, gen, closed, sup, restarts, procMain, nextq>>

SupSteps == {"idle", "counted", "closed", "replaced", "failed", "started"}
IdleSup == [at |-> "idle", slot |-> 1, lost |-> 0]
ChildHolds(i) == IF holding[i] \in Event THEN 1 ELSE 0
Live(i) == <<i, gen[i]>>     \* self.queues[i]
Backlog(i) == {k \in DOMAIN mpQueue[Live(i)] : mpQueue[Live(i)][k] # Sentinel}

ProcTypeOK ==
  /\ rpc \in [Feeder -> {"idle", "put", "open", "dead"}]
  /\ cur \in [Feeder -> Event \cup {NoEvent}]
  /\ ref \in [Feeder -> Queue]
  /\ procRead \in [Feeder -> Nat] /\ \A r \in Feeder : procRead[r] <= MaxRead[r]
  /\ mpQueue \in [Queue -> Seq(Event \cup {Sentinel})]
  /\ \A q \in Queue : Len(mpQueue[q]) <= QueueSize
  /\ gen \in [Slot -> 0..MaxDeaths]
  /\ closed \in [Queue -> BOOLEAN]
  /\ jammed \in [Slot -> BOOLEAN] /\ countersHeld \in BOOLEAN
  /\ child \in [Slot -> {"get", "busy", "stored", "exited", "dead"}]
  /\ holding \in [Slot -> Event \cup {NoEvent}]
  /\ stored \in Seq(Event)
  /\ {processed, failed, dropped, raised, restarts} \subseteq Nat
  /\ accepted \in SUBSET Event
  /\ window \in SUBSET accepted
  /\ sup \in [at : SupSteps, slot : Slot, lost : Nat]
  /\ procMain \in {"up", "sentinels", "joining", "gone", "raised"}
  /\ nextq \in 1..(NChild + 1)

ProcInit ==
  /\ rpc = [r \in Feeder |-> "idle"]
  /\ cur = [r \in Feeder |-> NoEvent]
  /\ ref = [r \in Feeder |-> <<1, 0>>]
  /\ procRead = [r \in Feeder |-> 0]
  /\ mpQueue = [q \in Queue |-> <<>>]
  /\ gen = [i \in Slot |-> 0]
  /\ closed = [q \in Queue |-> FALSE]
  /\ jammed = [i \in Slot |-> FALSE] /\ countersHeld = FALSE
  /\ child = [i \in Slot |-> "get"]
  /\ holding = [i \in Slot |-> NoEvent]
  /\ stored = <<>>
  /\ processed = 0 /\ failed = 0 /\ dropped = 0 /\ raised = 0 /\ restarts = 0
  /\ accepted = {}
  /\ window = {}
  /\ sup = IdleSup
  /\ procMain = "up"
  /\ nextq = 1
-----------------------------------------------------------------------------
(* submit() *)
ListenerUp == procMain # "gone"

\* A faulty variant: messages go to the children in turn.
SlotByNumber(m) == 1 + (m.n % NChild)

SlotOf(m) == KeyRoute[m.key]

\* Parse the message, choose its slot, read self.queues[i].
Submit(r, k) ==
  LET m == [key |-> k, rcv |-> r, n |-> procRead[r] + 1]
  IN  /\ ListenerUp /\ rpc[r] = "idle" /\ procRead[r] < MaxRead[r]
      /\ procRead' = [procRead EXCEPT ![r] = @ + 1]
      /\ cur' = [cur EXCEPT ![r] = m]
      /\ ref' = [ref EXCEPT ![r] = Live(SlotOf(m))]
      /\ rpc' = [rpc EXCEPT ![r] = "put"]
      /\ UNCHANGED <<dropped, raised, accepted, window, childVars, mpQueue, gen, closed,
                     sup, restarts, procMain, nextq>>

Return(r) == rpc' = [rpc EXCEPT ![r] = "idle"]

QueueFull(q) == Len(mpQueue[q]) >= QueueSize

\* The backlog of this queue object was already read by supervise().
Counted(q) == q # Live(q[1]) \/ (sup.at \in {"counted", "closed"} /\ sup.slot = q[1])

\* put() reads whether the queue is closed.  A closed one raises ValueError,
\* which submit does not catch: the UDP loop reports it and goes on, the thread
\* of a TCP connection ends.
CheckClosed(r) ==
  /\ ListenerUp /\ rpc[r] = "put"
  /\ IF closed[ref[r]]
     THEN /\ raised' = raised + 1
          /\ rpc' = [rpc EXCEPT ![r] = IF r \in UdpFeeder THEN "idle" ELSE "dead"]
     ELSE /\ rpc' = [rpc EXCEPT ![r] = "open"]
          /\ raised' = raised
  /\ UNCHANGED <<cur, ref, procRead, dropped, accepted, window, childVars, mpQueue, gen,
                 closed, sup, restarts, procMain, nextq>>

\* The message enters the queue, at once or while a TCP put waits.
Accept(r) ==
  /\ ListenerUp /\ rpc[r] = "open" /\ ~QueueFull(ref[r])
  /\ mpQueue' = [mpQueue EXCEPT ![ref[r]] = Append(@, cur[r])]
  /\ accepted' = accepted \cup {cur[r]}
  /\ window' = IF Counted(ref[r]) THEN window \cup {cur[r]} ELSE window
  /\ Return(r)
  /\ UNCHANGED <<cur, ref, procRead, dropped, raised, childVars, gen, closed, sup,
                 restarts, procMain, nextq>>

\* queue.Full, for UDP at once and for TCP when the wait is over: the drop is
\* counted and submit returns False.
DropFull(r) ==
  /\ ListenerUp /\ rpc[r] = "open" /\ QueueFull(ref[r])
  /\ dropped' = dropped + 1
  /\ Return(r)
  /\ UNCHANGED <<cur, ref, procRead, raised, accepted, window, childVars, mpQueue, gen,
                 closed, sup, restarts, procMain, nextq>>
-----------------------------------------------------------------------------
(* _child_main() *)
\* The children that were started again, noted in self.restarts or about to be.
Repaired == restarts + (IF sup.at = "started" THEN 1 ELSE 0)

ChildGet(i) ==
  /\ ListenerUp /\ child[i] = "get" /\ ~jammed[i] /\ mpQueue[Live(i)] # <<>>
  /\ mpQueue' = [mpQueue EXCEPT ![Live(i)] = Tail(@)]
  /\ IF Head(mpQueue[Live(i)]) = Sentinel
     THEN /\ child' = [child EXCEPT ![i] = "exited"]
          /\ holding' = holding
     ELSE /\ child' = [child EXCEPT ![i] = "busy"]
          /\ holding' = [holding EXCEPT ![i] = Head(mpQueue[Live(i)])]
  /\ UNCHANGED <<rcvVars, stored, processed, failed, jammed, countersHeld, gen, closed, sup,
                 restarts, procMain, nextq>>

\* storage.insert_log commits the event.
Store(i) ==
  /\ ListenerUp /\ child[i] = "busy"
  /\ child' = [child EXCEPT ![i] = "stored"]
  /\ stored' = Append(stored, holding[i])
  /\ UNCHANGED <<rcvVars, holding, processed, failed, jammed, countersHeld, mpQueue, gen, closed, sup,
                 restarts, procMain, nextq>>

\* The event is done: every step succeeded, or one raised (before or after
\* the event was stored); the counters have one lock.
Count(i) ==
  /\ ListenerUp /\ child[i] \in {"busy", "stored"} /\ ~countersHeld
  /\ \/ child[i] = "stored" /\ processed' = processed + 1 /\ failed' = failed
     \/ failed' = failed + 1 /\ processed' = processed
  /\ child' = [child EXCEPT ![i] = "get"]
  /\ holding' = [holding EXCEPT ![i] = NoEvent]
  /\ UNCHANGED <<rcvVars, stored, jammed, countersHeld, mpQueue, gen, closed, sup, restarts, procMain, nextq>>

\* The process is killed anywhere, inside Queue.get perhaps with the lock held,
\* or about to count, with the lock of the counters held: nobody frees it.
\* MaxDeaths counts: generations, the slot in repair and the dead not yet seen.
Die(i) ==
  /\ ListenerUp /\ child[i] \in {"get", "busy", "stored"}
  /\ Repaired + Cardinality({k \in Slot : child[k] = "dead"}) < MaxDeaths
  /\ \E j \in {FALSE, child[i] = "get"} : jammed' = [jammed EXCEPT ![i] = j]
  /\ \E h \in {FALSE, child[i] # "get"} : countersHeld' = (countersHeld \/ h)
  /\ child' = [child EXCEPT ![i] = "dead"]
  /\ UNCHANGED <<rcvVars, holding, stored, processed, failed, mpQueue, gen, closed, sup,
                 restarts, procMain, nextq>>
-----------------------------------------------------------------------------
(* supervise(), once a second in the main thread *)
LostBacklog(i) == Len(mpQueue[Live(i)])

\* is_alive() is false; lost = old.qsize().
SuperviseCount(i) ==
  /\ procMain = "up" /\ sup.at = "idle"
  /\ child[i] = "dead"
  /\ sup' = [at |-> "counted", slot |-> i, lost |-> LostBacklog(i)]
  /\ UNCHANGED <<rcvVars, childVars, mpQueue, gen, closed, restarts, procMain, nextq>>

\* old.close()
SuperviseClose ==
  /\ procMain = "up" /\ sup.at = "counted"
  /\ closed' = [closed EXCEPT ![Live(sup.slot)] = TRUE]
  /\ sup' = [sup EXCEPT !.at = "closed"]
  /\ UNCHANGED <<rcvVars, childVars, mpQueue, gen, restarts, procMain, nextq>>

\* A faulty variant: the replacement reads the old queue.
SuperviseReuseQueue ==
  /\ procMain = "up" /\ sup.at = "closed"
  /\ closed' = [closed EXCEPT ![Live(sup.slot)] = FALSE]
  /\ sup' = [sup EXCEPT !.at = "replaced"]
  /\ UNCHANGED <<rcvVars, childVars, mpQueue, gen, restarts, procMain, nextq>>

\* self.queues[i] becomes a fresh queue.
SuperviseReplace ==
  /\ procMain = "up" /\ sup.at = "closed"
  /\ gen' = [gen EXCEPT ![sup.slot] = @ + 1]
  /\ jammed' = [jammed EXCEPT ![sup.slot] = FALSE]
  /\ sup' = [sup EXCEPT !.at = "replaced"]
  /\ UNCHANGED <<rcvVars, child, holding, stored, processed, failed, countersHeld, mpQueue,
                 closed, restarts, procMain, nextq>>

\* A faulty variant: only the backlog is counted.
SuperviseFailBacklog ==
  /\ procMain = "up" /\ sup.at = "replaced" /\ ~countersHeld
  /\ failed' = failed + sup.lost
  /\ holding' = [holding EXCEPT ![sup.slot] = NoEvent]
  /\ sup' = [sup EXCEPT !.at = "failed"]
  /\ UNCHANGED <<rcvVars, child, stored, processed, jammed, countersHeld, mpQueue, gen,
                 closed, restarts, procMain, nextq>>

\* The backlog and the event the child might have held are counted as failed,
\* under the lock of the counters, which the main thread waits for.
SuperviseFail ==
  /\ procMain = "up" /\ sup.at = "replaced" /\ ~countersHeld
  /\ failed' = failed + 1 + sup.lost
  /\ holding' = [holding EXCEPT ![sup.slot] = NoEvent]
  /\ sup' = [sup EXCEPT !.at = "failed"]
  /\ UNCHANGED <<rcvVars, child, stored, processed, jammed, countersHeld, mpQueue, gen,
                 closed, restarts, procMain, nextq>>

\* _start: the new child reads the fresh queue.
SuperviseStart ==
  /\ procMain = "up" /\ sup.at = "failed"
  /\ child' = [child EXCEPT ![sup.slot] = "get"]
  /\ sup' = [sup EXCEPT !.at = "started"]
  /\ UNCHANGED <<rcvVars, holding, stored, processed, failed, jammed, countersHeld, mpQueue,
                 gen, closed, restarts, procMain, nextq>>

SuperviseNote ==
  /\ procMain = "up" /\ sup.at = "started"
  /\ restarts' = restarts + 1
  /\ sup' = IdleSup
  /\ UNCHANGED <<rcvVars, childVars, mpQueue, gen, closed, procMain, nextq>>
-----------------------------------------------------------------------------
(* the shutdown *)
\* The signal handler raises KeyboardInterrupt in the main thread, wherever
\* that is; the finally clause calls stop().
ProcSigterm ==
  /\ procMain = "up"
  /\ procMain' = "sentinels"
  /\ UNCHANGED <<rcvVars, childVars, mpQueue, gen, closed, sup, restarts, nextq>>

\* put(None) on each queue in turn; a full queue is skipped when the time is
\* over; a closed queue raises out of stop().
SendSentinel ==
  /\ procMain = "sentinels" /\ nextq <= NChild
  /\ IF closed[Live(nextq)]
     THEN procMain' = "raised" /\ UNCHANGED <<mpQueue, nextq>>
     ELSE /\ nextq' = nextq + 1
          /\ procMain' = procMain
          /\ IF QueueFull(Live(nextq))
             THEN mpQueue' = mpQueue
             ELSE mpQueue' = [mpQueue EXCEPT ![Live(nextq)] = Append(@, Sentinel)]
  /\ UNCHANGED <<rcvVars, childVars, gen, closed, sup, restarts>>

Join ==
  /\ procMain = "sentinels" /\ nextq = NChild + 1
  /\ procMain' = "joining"
  /\ UNCHANGED <<rcvVars, childVars, mpQueue, gen, closed, sup, restarts, nextq>>

\* Every join returned, because its child exited or the deadline passed; the
\* children that are left are killed, and the process ends.
KillAndExit ==
  /\ procMain = "joining"
  /\ procMain' = "gone"
  /\ child' = [i \in Slot |-> IF child[i] = "exited" THEN "exited" ELSE "dead"]
  /\ UNCHANGED <<rcvVars, holding, stored, processed, failed, jammed, countersHeld, mpQueue, gen, closed,
                 sup, restarts, nextq>>

ChildStep(i) == ChildGet(i) \/ Store(i) \/ Count(i)
Supervise ==
  \/ \E i \in Slot : SuperviseCount(i)
  \/ SuperviseClose \/ SuperviseReplace \/ SuperviseFail \/ SuperviseStart
  \/ SuperviseNote

ProcNext ==
  \/ \E r \in Feeder, k \in Key : Submit(r, k)
  \/ \E r \in Feeder : CheckClosed(r) \/ Accept(r) \/ DropFull(r)
  \/ \E i \in Slot : ChildStep(i) \/ Die(i)
  \/ Supervise
  \/ ProcSigterm \/ SendSentinel \/ Join \/ KillAndExit

ProcSpec == ProcInit /\ [][ProcNext]_procVars

\* The children run, and main() calls supervise() every second.
ProcFairSpec ==
  /\ ProcSpec
  /\ \A i \in Slot : WF_procVars(ChildStep(i))
  /\ WF_procVars(Supervise)
-----------------------------------------------------------------------------
(***************************************************************************)
(* Properties.                                                             *)
(***************************************************************************)
OnTheWay ==
  SumFunctionOnSet([i \in Slot |-> Cardinality(Backlog(i)) + ChildHolds(i)], Slot)

\* What was read of a dead child's queue that is no longer self.queues[i], and
\* not in the counters yet.
Unrecorded == IF sup.at = "replaced" THEN sup.lost ELSE 0

\* The counters miss no accepted message but those put into a dead child's
\* queue after its backlog was counted and, from the queue's replacement to the
\* update of the counters, that backlog: for ever, when a child was killed with
\* the lock of the counters or the signal comes in between.  A restart counts at
\* most one event too many (the one the child might have held).
CountError ==
  /\ Cardinality(accepted)
       <= processed + failed + OnTheWay + Cardinality(window) + Unrecorded
  /\ processed + failed + OnTheWay
       <= Cardinality(accepted) + restarts + (IF sup.at \in {"failed", "started"} THEN 1 ELSE 0)

\* The messages of one routing key are stored in the order in which a receiver
\* accepted them, and none twice, also across restarts: "repeated-activity
\* counts stay correct" (ingest_workers.py:5-7).
KeyOrder ==
  \A a, b \in DOMAIN stored :
    a < b /\ stored[a].key = stored[b].key /\ stored[a].rcv = stored[b].rcv
      => stored[a].n < stored[b].n

\* A message a child could still take is taken, or its queue is replaced, so
\* that a dead reader's lock blocks nobody for ever, unless the shutdown begins
\* or a child was killed while it held the lock of the counters.
QueueMoves ==
  \A i \in Slot : []<>(mpQueue[Live(i)] = <<>> \/ procMain # "up" \/ countersHeld)
=============================================================================
