------------------------------ MODULE MCIngest ------------------------------
(***************************************************************************)
(* The ways into the system, of which a behaviour is one: the listener's   *)
(* threaded mode with a UDP socket, a TCP connection and two senders       *)
(* routed to different workers, its mode with child processes, two receive *)
(* threads, a key routed to the first of two children, and a death, and    *)
(* the API pollers of two processes, of which one has two threads.         *)
(***************************************************************************)
EXTENDS IngestPipeline, ProcessIngest, ApiPoller, TLC

CONSTANTS udp, tcp, s1, s2, k1, k2,
          Modes           \* the modes that are checked
VARIABLE ingestMode
ingestVars == <<ingestMode, vars, procVars, pollVars>>

MCRoute == [s \in Source |-> IF s = s1 THEN 1 ELSE NWorker]
MCMaxMsg == [r \in Receiver |-> IF r = tcp THEN 2 ELSE 1]
MCMaxRead == [r \in Feeder |-> IF r = tcp THEN 2 ELSE 1]
MCKeyRoute == [k \in Key |-> IF k = k1 THEN 1 ELSE NChild]

ThreadSlots == "p1" :> {1, 2} @@ "p2" :> {1}

Threaded == ingestMode = "threads" /\ UNCHANGED <<ingestMode, procVars, pollVars>>
Forked == ingestMode = "processes" /\ UNCHANGED <<ingestMode, vars, pollVars>>
Polled == ingestMode = "polls" /\ UNCHANGED <<ingestMode, vars, procVars>>

InitIngest == ingestMode \in Modes /\ Init /\ ProcInit /\ PollInit
NextIngest == (Threaded /\ Next) \/ (Forked /\ ProcNext) \/ (Polled /\ PollNext)
\* the fairness of FairSpec, of ProcFairSpec and of PollFair
SpecIngest ==
  /\ InitIngest /\ [][NextIngest]_ingestVars
  /\ \A w \in Worker : WF_ingestVars(Threaded /\ (Check(w) \/ Get(w) \/ Process(w)))
  /\ \A r \in Receiver : WF_ingestVars(Threaded /\ PutBlocked(r))
  /\ \A i \in Slot : WF_ingestVars(Forked /\ ChildStep(i))
  /\ WF_ingestVars(Forked /\ Supervise)
  /\ WF_ingestVars(Polled /\ Expire /\ Abandoned)
  /\ \A p \in Processes :
       /\ WF_ingestVars(Polled /\ ReconcileOff(p)) /\ WF_ingestVars(Polled /\ ReconcileOn(p))
       /\ \A s \in Slots[p] : WF_ingestVars(Polled /\ ThreadStep(p, s))

(* The type invariants of the ways in.                                      *)
IngestTypes == TypeOK /\ ProcTypeOK /\ PollTypeOK
(* In either mode the counters the page shows account for every message.    *)
CountersAddUp == EveryMessageCounted /\ CountError
(* In either mode what was accepted is handled in the end, and no queue is  *)
(* stuck behind a dead reader; and what an API offers is pulled.            *)
IngestGoesOn == AcceptedIsHandled /\ QueueMoves /\ EveryItemArrives
=============================================================================
