------------------------------- MODULE Leases -------------------------------
(***************************************************************************)
(* leases.py: LeaseKeeper over the worker_leases table, and the loop every *)
(* leased background job runs: `if lease(): run one cycle`.                *)
(*                                                                         *)
(* A member of Proc is one process incarnation: default_owner() puts a     *)
(* fresh uuid in the owner name, so a restarted process is another member. *)
(* The statements of one hold() or release() form one transaction and are  *)
(* one step; reading the clock, the transaction, and the update of the     *)
(* in-memory dict are separate steps, because time passes and other        *)
(* processes act in between.                                               *)
(***************************************************************************)
EXTENDS Integers

CONSTANTS
  Proc,      \* process incarnations that share the database
  NoOwner,   \* owner of a lease row that was never inserted
  Job,       \* lease names ("ticket-worker", "poller:3", ...)
  TTL,       \* TTL[j]: the ttl job j passes to hold()
  MaxCycle,  \* MaxCycle[j]: longest time from hold() reading the clock to the
             \* end of the job's cycle
  Skew,      \* largest difference between two hosts' clocks
  MaxTime    \* bound of the model: the clock stops here

ASSUME NoOwnerAssumption == NoOwner \notin Proc
ASSUME TimeAssumption ==
  /\ TTL \in [Job -> Nat \ {0}]       \* max(1.0, float(ttl))
  /\ MaxCycle \in [Job -> Nat]
  /\ Skew \in Nat
  /\ MaxTime \in Nat

VARIABLES
  clock,        \* true time; starts at 1 so that expires_at = 0 is in the past
  offset,       \* offset[p]: how far p's clock is ahead
  tableReady,   \* worker_leases exists
  row,          \* row[j]: owner and expires_at of job j's lease row
  up,           \* the processes that have not died
  unavailable,  \* LeaseKeeper.unavailable
  heldUntil,    \* LeaseKeeper._held, 0 for an absent name
  pc,           \* where p's loop for job j is
  tnow          \* the clock value the current hold() read

procVars == <<up, unavailable, heldUntil, pc, tnow>>
vars == <<clock, offset, tableReady, row, procVars>>

Now(p) == clock + offset[p]

\* A cycle that holds the lease or is about to know whether it does.
Timed == {"claiming", "granted", "running", "local"}

TypeOK ==
  /\ clock \in Nat \ {0}
  /\ offset \in [Proc -> 0..Skew]
  /\ tableReady \in BOOLEAN
  /\ row \in [Job -> [owner: Proc \cup {NoOwner}, expires: Nat]]
  /\ up \in SUBSET Proc
  /\ unavailable \in [Proc -> BOOLEAN]
  /\ heldUntil \in [Proc -> [Job -> Nat]]
  /\ pc \in [Proc -> [Job -> Timed \cup {"idle", "denied", "releasing"}]]
  /\ tnow \in [Proc -> [Job -> Nat]]

Init ==
  /\ clock = 1
  /\ offset \in [Proc -> 0..Skew]
  /\ tableReady \in BOOLEAN
  /\ row = [j \in Job |-> [owner |-> NoOwner, expires |-> 0]]
  /\ up = Proc
  /\ unavailable = [p \in Proc |-> FALSE]
  /\ heldUntil = [p \in Proc |-> [j \in Job |-> 0]]
  /\ pc = [p \in Proc |-> [j \in Job |-> "idle"]]
  /\ tnow = [p \in Proc |-> [j \in Job |-> 0]]
-----------------------------------------------------------------------------
Goto(p, j, from, to) ==
  /\ pc[p][j] = from
  /\ pc' = [pc EXCEPT ![p][j] = to]

\* hold() reads the clock before it connects.
BeginHold(p, j) ==
  /\ p \in up
  /\ Goto(p, j, "idle", "claiming")
  /\ tnow' = [tnow EXCEPT ![p][j] = Now(p)]
  /\ UNCHANGED <<clock, offset, tableReady, row, up, unavailable, heldUntil>>

\* Faulty variants of Claimable: `<=` for `<`; the owner test forgotten; the
\* expiry test forgotten.
ClaimableAtExpiry(p, j) ==
  row[j].owner \in {p, NoOwner} \/ row[j].expires <= tnow[p][j]
ClaimableAlways(p, j) == TRUE
ClaimableOwnOnly(p, j) == row[j].owner \in {p, NoOwner}

\* INSERT .. ON CONFLICT DO NOTHING, then UPDATE .. WHERE owner=self OR expires_at < now.
Claimable(p, j) ==
  \/ row[j].owner \in {p, NoOwner}
  \/ row[j].expires < tnow[p][j]

\* A faulty variant: the ttl subtracted.
ClaimedBackwards(p, j) == [owner |-> p, expires |-> tnow[p][j] - TTL[j]]

Claimed(p, j) == [owner |-> p, expires |-> tnow[p][j] + TTL[j]]

Grant(p, j) ==
  /\ tableReady
  /\ Claimable(p, j)
  /\ Goto(p, j, "claiming", "granted")
  /\ row' = [row EXCEPT ![j] = Claimed(p, j)]
  /\ UNCHANGED <<clock, offset, tableReady, up, unavailable, heldUntil, tnow>>

Deny(p, j) ==
  /\ tableReady
  /\ ~Claimable(p, j)
  /\ Goto(p, j, "claiming", "denied")
  /\ UNCHANGED <<clock, offset, tableReady, row, up, unavailable, heldUntil, tnow>>

\* Any exception but a missing table.  The transaction is rolled back, unless
\* the connection broke after the server committed: then the row is claimed
\* and this process does not know it.
FailHold(p, j) ==
  /\ Goto(p, j, "claiming", "denied")
  /\ \/ row' = row
     \/ /\ tableReady
        /\ Claimable(p, j)
        /\ row' = [row EXCEPT ![j] = Claimed(p, j)]
  /\ UNCHANGED <<clock, offset, tableReady, up, unavailable, heldUntil, tnow>>

\* Table missing: the job runs here whatever the other processes do.
FallBack(p, j) ==
  /\ ~tableReady
  /\ Goto(p, j, "claiming", "local")
  /\ unavailable' = [unavailable EXCEPT ![p] = TRUE]
  /\ UNCHANGED <<clock, offset, tableReady, row, up, heldUntil, tnow>>

\* The dict update after the transaction, and hold()'s return to the loop.
ReturnHeld(p, j) ==
  /\ Goto(p, j, "granted", "running")
  /\ heldUntil' = [heldUntil EXCEPT ![p][j] = tnow[p][j] + TTL[j]]
  /\ UNCHANGED <<clock, offset, tableReady, row, up, unavailable, tnow>>

ReturnDenied(p, j) ==
  /\ Goto(p, j, "denied", "idle")
  /\ heldUntil' = [heldUntil EXCEPT ![p][j] = 0]
  /\ UNCHANGED <<clock, offset, tableReady, row, up, unavailable, tnow>>

\* The job's cycle ends, normally or with an exception its loop swallows.
EndCycle(p, j) ==
  /\ \/ Goto(p, j, "running", "idle")
     \/ Goto(p, j, "local", "idle")
  /\ UNCHANGED <<clock, offset, tableReady, row, up, unavailable, heldUntil, tnow>>

\* A faulty variant: the dict entry survives the release.
BeginReleaseKeepsDict(p, j) ==
  /\ p \in up
  /\ Goto(p, j, "idle", IF unavailable[p] THEN "idle" ELSE "releasing")
  /\ UNCHANGED <<clock, offset, tableReady, row, up, unavailable, heldUntil, tnow>>

\* release() between two cycles: the dict first, then the row.
BeginRelease(p, j) ==
  /\ p \in up
  /\ Goto(p, j, "idle", IF unavailable[p] THEN "idle" ELSE "releasing")
  /\ heldUntil' = [heldUntil EXCEPT ![p][j] = 0]
  /\ UNCHANGED <<clock, offset, tableReady, row, up, unavailable, tnow>>

FinishRelease(p, j) ==
  /\ Goto(p, j, "releasing", "idle")
  /\ \/ row' = row                       \* an error is swallowed: expiry frees the row
     \/ /\ tableReady
        /\ row[j].owner = p
        /\ row' = [row EXCEPT ![j] = [owner |-> p, expires |-> 0]]
  /\ UNCHANGED <<clock, offset, tableReady, up, unavailable, heldUntil, tnow>>

\* The process dies: its dict and its loops are gone, the row stays.
Crash(p) ==
  /\ p \in up
  /\ up' = up \ {p}
  /\ pc' = [pc EXCEPT ![p] = [j \in Job |-> "idle"]]
  /\ heldUntil' = [heldUntil EXCEPT ![p] = [j \in Job |-> 0]]
  /\ UNCHANGED <<clock, offset, tableReady, row, unavailable, tnow>>

\* The owner identity runs schema initialization while the system is live.
CreateTable ==
  /\ ~tableReady
  /\ tableReady' = TRUE
  /\ UNCHANGED <<clock, offset, row, procVars>>

\* Time passes, but not beyond the longest cycle of a job that is in one.
Tick ==
  /\ clock < MaxTime
  /\ \A p \in Proc, j \in Job :
       pc[p][j] \in Timed => clock < tnow[p][j] - offset[p] + MaxCycle[j]
  /\ clock' = clock + 1
  /\ UNCHANGED <<offset, tableReady, row, procVars>>

LoopStep(p, j) ==
  \/ BeginHold(p, j) \/ Grant(p, j) \/ Deny(p, j) \/ FailHold(p, j)
  \/ FallBack(p, j) \/ ReturnHeld(p, j) \/ ReturnDenied(p, j)
  \/ EndCycle(p, j) \/ BeginRelease(p, j) \/ FinishRelease(p, j)

Next ==
  \/ \E p \in Proc, j \in Job : LoopStep(p, j)
  \/ \E p \in Proc : Crash(p)
  \/ CreateTable
  \/ Tick

Spec == Init /\ [][Next]_vars

(***************************************************************************)
(* Fairness: the loops keep calling hold() (a daemon thread with a bounded *)
(* wait), every call ends, and the clock advances.  hold() does not fail   *)
(* forever: strong fairness of Grant against FailHold.  No fairness for a  *)
(* crash, a release or the creation of the table.                          *)
(***************************************************************************)
Fairness ==
  /\ WF_vars(Tick)
  /\ \A p \in Proc, j \in Job :
       /\ SF_vars(BeginHold(p, j))
       /\ SF_vars(Grant(p, j))
       /\ WF_vars(Deny(p, j) \/ FailHold(p, j) \/ FallBack(p, j))
       /\ WF_vars(ReturnHeld(p, j) \/ ReturnDenied(p, j))
       /\ WF_vars(EndCycle(p, j) \/ FinishRelease(p, j))

FairSpec == Spec /\ Fairness
-----------------------------------------------------------------------------
(***************************************************************************)
(* Properties.                                                             *)
(***************************************************************************)
Runners(j) == {p \in Proc : pc[p][j] = "running"}

\* LeaseKeeper.holds.  unavailable is never reset, so a process that once met a
\* missing table answers yes for the rest of its life.
Holds(p, j) == unavailable[p] \/ heldUntil[p][j] > Now(p)

\* A cycle fits into its lease whatever the clocks: the condition under which
\* "a slow cycle cannot lose its lease mid-run" (leases.py:12).
CycleFits == \A j \in Job : MaxCycle[j] + Skew <= TTL[j]

\* Each leased job runs in one process at a time (leases.py:1), as long as
\* CycleFits.
RunExclusive ==
  \A j \in Job : \A p, q \in Runners(j) : p = q

\* A process that lost its row (it was late, another took over) may still be
\* told that it holds the lease, but only for as long as its clock is behind:
\* with equal clocks never.  The exception is a process that once ran without
\* the table (leases.py:95-96): it is told so also after the table was created
\* and another process owns the row, with no end.
LeaseLag ==
  \A p \in Proc, j \in Job :
    Holds(p, j) /\ row[j].owner # p =>
      unavailable[p] \/ heldUntil[p][j] < Now(p) + Skew

\* What a running job relies on: the row names its process and has not expired
\* before the end of the lease that hold() returned.
RunBacked ==
  \A p \in Proc, j \in Job :
    pc[p][j] \in {"granted", "running"} =>
      /\ row[j].owner = p
      /\ row[j].expires >= tnow[p][j] + TTL[j]

\* The jobs a reader of JobMutex sees.
Mutex == INSTANCE JobMutex WITH running <- [j \in Job |-> Runners(j)]

\* The lease protocol implements one-process-at-a-time.
ImplementsJobMutex == Mutex!Spec

\* If the holder dies, another live process takes the job over once the lease
\* expires (leases.py:7-9).  MaxTime stops the clock, so a lease that ends
\* after it is excused.
TakeOver ==
  \A j \in Job :
    (tableReady /\ row[j].owner \in Proc \ up /\ row[j].expires < MaxTime)
      ~> (Runners(j) # {} \/ up = {})
=============================================================================
