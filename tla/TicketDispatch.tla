--------------------------- MODULE TicketDispatch ---------------------------
(***************************************************************************)
(* workers.py: TicketWorker, run by every dashboard process under the      *)
(* "ticket-worker" lease of Leases, against the alerts table and a ticket  *)
(* API.  One cycle selects a batch of open alerts and works through the    *)
(* snapshot: skip, or POST and record the outcome with an unconditional    *)
(* UPDATE by id.  The API is external: it may accept a request and its     *)
(* answer may still be lost (a timeout).                                   *)
(***************************************************************************)
EXTENDS Leases, Sequences, FiniteSets

CONSTANTS
  ticket,       \* the lease name; Job = {ticket}
  MaxAlert,     \* bound of the model: alerts 1..MaxAlert, by id
  Qualifying,   \* alerts at or above the configured severity
  Batch,        \* TicketWorker.batch
  MaxAttempts,  \* TicketWorker.max_attempts
  PostMax,      \* longest time one POST takes (the timeout of _http)
  OnlyPostsTakeTime,  \* TRUE: every other step of the loop is instantaneous
  MaxFailures   \* bound of the model: database errors, early returns and crashes

Alert == 1..MaxAlert

ASSUME TicketAssumption ==
  /\ Job = {ticket}
  /\ MaxAlert \in Nat
  /\ Qualifying \subseteq Alert
  /\ {Batch, MaxAttempts, PostMax} \subseteq Nat \ {0}
  /\ OnlyPostsTakeTime \in BOOLEAN
  /\ MaxFailures \in Nat

VARIABLES
  nalerts,    \* alerts 1..nalerts exist
  status,     \* ticket_status, NULL and '' the same
  attempts,   \* ticket_attempts, NULL and 0 the same
  work,       \* work[p]: the cycle p is in: its rows and the current POST
  accepted,   \* accepted[a]: the processes whose POST for a the API accepted, in order
  lost,       \* lost[a]: cycles that ended between an accepted POST and its record
  failures    \* errors, early returns and crashes so far

ticketVars == <<nalerts, status, attempts, work, accepted, lost, failures>>
allVars == <<vars, ticketVars>>

Settled == {"created", "skipped", "error"}
NoWork == [stage |-> "fetch", rows |-> <<>>, post |-> "none", since |-> 0, took |-> FALSE]

TicketTypeOK ==
  /\ TypeOK
  /\ nalerts \in 0..MaxAlert
  /\ status \in [Alert -> Settled \cup {""}]
  /\ attempts \in [Alert -> 0..MaxAttempts]
  /\ work \in [Proc -> [stage : {"fetch", "rows"},
                        rows : Seq([id : Alert, attempts : 0..MaxAttempts]),
                        post : {"none", "sending", "ok", "failed"},
                        since : Nat, took : BOOLEAN]]
  /\ accepted \in [Alert -> Seq(Proc)]
  /\ lost \in [Alert -> Nat]
  /\ failures \in 0..MaxFailures

TicketInit ==
  /\ Init
  /\ tableReady
  /\ nalerts = 0
  /\ status = [a \in Alert |-> ""]
  /\ attempts = [a \in Alert |-> 0]
  /\ work = [p \in Proc |-> NoWork]
  /\ accepted = [a \in Alert |-> <<>>]
  /\ lost = [a \in Alert |-> 0]
  /\ failures = 0
-----------------------------------------------------------------------------
InCycle(p) == pc[p][ticket] = "running"
Head1(p) == work[p].rows[1]
HasRow(p) == InCycle(p) /\ work[p].rows # <<>>

\* A detection rule stores an alert.
NewAlert ==
  /\ nalerts < MaxAlert
  /\ nalerts' = nalerts + 1
  /\ UNCHANGED <<vars, status, attempts, work, accepted, lost, failures>>

\* Ids of the alerts the SELECT finds, and its first Batch of them in id order.
Open == {a \in 1..nalerts : status[a] = "" /\ attempts[a] < MaxAttempts}

FirstOpen ==
  LET before(a) == {b \in Open : b <= a}
  IN  {a \in Open : Cardinality(before(a)) <= Batch}

Snapshot ==
  LET n == Cardinality(FirstOpen)
      nth(i) == CHOOSE a \in FirstOpen :
                  Cardinality({b \in FirstOpen : b <= a}) = i
  IN  [i \in 1..n |-> [id |-> nth(i), attempts |-> attempts[nth(i)]]]

Fetch(p) ==
  /\ InCycle(p) /\ work[p].stage = "fetch"
  /\ work' = [work EXCEPT ![p] = [NoWork EXCEPT !.stage = "rows", !.rows = Snapshot]]
  /\ UNCHANGED <<vars, nalerts, status, attempts, accepted, lost, failures>>

\* The row is done: go on with the rest of the batch.
NextRow(p) ==
  work' = [work EXCEPT ![p] = [NoWork EXCEPT !.stage = "rows", !.rows = Tail(work[p].rows)]]

Skip(p) ==
  /\ HasRow(p) /\ work[p].post = "none"
  /\ Head1(p).id \notin Qualifying
  /\ status' = [status EXCEPT ![Head1(p).id] = "skipped"]
  /\ NextRow(p)
  /\ UNCHANGED <<vars, nalerts, attempts, accepted, lost, failures>>

\* _http starts the POST.
Post(p) ==
  /\ HasRow(p) /\ work[p].post = "none"
  /\ Head1(p).id \in Qualifying
  /\ work' = [work EXCEPT ![p].post = "sending", ![p].since = clock]
  /\ UNCHANGED <<vars, nalerts, status, attempts, accepted, lost, failures>>

\* The API opens the ticket; the answer arrives, or is lost on the way.
ApiAccepts(p) ==
  /\ HasRow(p) /\ work[p].post = "sending"
  /\ accepted' = [accepted EXCEPT ![Head1(p).id] = Append(@, p)]
  /\ \E answer \in {"ok", "failed"} :
       work' = [work EXCEPT ![p].post = answer, ![p].took = TRUE]
  /\ UNCHANGED <<vars, nalerts, status, attempts, lost, failures>>

\* A status outside 2xx, or no connection.
ApiRejects(p) ==
  /\ HasRow(p) /\ work[p].post = "sending"
  /\ work' = [work EXCEPT ![p].post = "failed"]
  /\ UNCHANGED <<vars, nalerts, status, attempts, accepted, lost, failures>>

\* A faulty variant: any answer counts as a ticket.
RecordCreatedAnyway(p) ==
  /\ HasRow(p) /\ work[p].post \in {"ok", "failed"}
  /\ status' = [status EXCEPT ![Head1(p).id] = "created"]
  /\ NextRow(p)
  /\ UNCHANGED <<vars, nalerts, attempts, accepted, lost, failures>>

RecordCreated(p) ==
  /\ HasRow(p) /\ work[p].post = "ok"
  /\ status' = [status EXCEPT ![Head1(p).id] = "created"]
  /\ NextRow(p)
  /\ UNCHANGED <<vars, nalerts, attempts, accepted, lost, failures>>

\* Bookkeeping of the model: the current POST will never be recorded.
Forget(p) ==
  lost' = IF work[p].took THEN [lost EXCEPT ![Head1(p).id] = @ + 1] ELSE lost

Fail == failures < MaxFailures /\ failures' = failures + 1

\* The UPDATE of a created ticket raises: the except branch treats the POST as failed.
RecordCreatedFails(p) ==
  /\ HasRow(p) /\ work[p].post = "ok"
  /\ Fail
  /\ work' = [work EXCEPT ![p].post = "failed"]
  /\ UNCHANGED <<vars, nalerts, status, attempts, accepted, lost>>

EndTicketCycle(p) ==
  /\ EndCycle(p, ticket)
  /\ work' = [work EXCEPT ![p] = NoWork]

\* Faulty variants: the new count is added to the row's, or not written at all.
RecordFailureAdded(p) ==
  /\ HasRow(p) /\ work[p].post = "failed"
  /\ LET a == Head1(p).id
         n == attempts[a] + Head1(p).attempts + 1
     IN  /\ attempts' = [attempts EXCEPT ![a] = n]
         /\ status' = [status EXCEPT ![a] = IF n >= MaxAttempts THEN "error" ELSE ""]
  /\ EndTicketCycle(p)
  /\ UNCHANGED <<nalerts, accepted, lost, failures>>

RecordFailureUncounted(p) ==
  /\ HasRow(p) /\ work[p].post = "failed"
  /\ UNCHANGED <<nalerts, status, attempts, accepted, lost, failures>>
  /\ EndTicketCycle(p)

\* One attempt more than the snapshot says; then break: the endpoint is likely down.
RecordFailure(p) ==
  /\ HasRow(p) /\ work[p].post = "failed"
  /\ LET a == Head1(p).id
         n == Head1(p).attempts + 1
     IN  /\ attempts' = [attempts EXCEPT ![a] = n]
         /\ status' = [status EXCEPT ![a] = IF n >= MaxAttempts THEN "error" ELSE ""]
  /\ EndTicketCycle(p)
  /\ UNCHANGED <<nalerts, accepted, lost, failures>>

\* run_once returns early (the connector is disabled) or raises (the database
\* fails outside the inner try); the loop goes on with the next cycle.
CycleAborts(p) ==
  /\ InCycle(p) /\ work[p].post \in {"none", "failed"}
  /\ Fail
  /\ Forget(p)
  /\ EndTicketCycle(p)
  /\ UNCHANGED <<nalerts, status, attempts, accepted>>

Finish(p) ==
  /\ InCycle(p) /\ work[p].stage = "rows" /\ work[p].rows = <<>>
  /\ EndTicketCycle(p)
  /\ UNCHANGED <<nalerts, status, attempts, accepted, lost, failures>>

CrashTicket(p) ==
  /\ Crash(p)
  /\ Fail
  /\ Forget(p)
  /\ work' = [work EXCEPT ![p] = NoWork]
  /\ UNCHANGED <<nalerts, status, attempts, accepted>>

\* The lease steps of the loop (release() is not called by the worker).
LeaseStep(p) ==
  \/ /\ \/ BeginHold(p, ticket) \/ Grant(p, ticket) \/ Deny(p, ticket)
        \/ ReturnHeld(p, ticket) \/ ReturnDenied(p, ticket)
     /\ UNCHANGED ticketVars
  \/ /\ FailHold(p, ticket) /\ Fail
     /\ UNCHANGED <<nalerts, status, attempts, work, accepted, lost>>

\* A POST ends within PostMax.
TicketTick ==
  /\ Tick
  /\ \A p \in Proc :
       /\ work[p].post = "sending" => clock < work[p].since + PostMax
       /\ OnlyPostsTakeTime => pc[p][ticket] = "idle" \/ work[p].post = "sending"
  /\ UNCHANGED ticketVars

CycleStep(p) ==
  \/ Fetch(p) \/ Skip(p) \/ Post(p) \/ ApiAccepts(p) \/ ApiRejects(p)
  \/ RecordCreated(p) \/ RecordCreatedFails(p) \/ RecordFailure(p)
  \/ CycleAborts(p) \/ Finish(p)

TicketNext ==
  \/ NewAlert
  \/ \E p \in Proc : LeaseStep(p) \/ CycleStep(p) \/ CrashTicket(p)
  \/ TicketTick

TicketSpec == TicketInit /\ [][TicketNext]_allVars

(***************************************************************************)
(* Fairness: the loops go on, a cycle's steps keep happening, and time     *)
(* passes between cycles.  Database errors are bounded (MaxFailures), so   *)
(* that they end; the API may reject forever.                              *)
(***************************************************************************)
TicketFairness ==
  /\ SF_allVars(TicketTick)
  /\ \A p \in Proc : WF_allVars(LeaseStep(p)) /\ WF_allVars(CycleStep(p))

TicketFairSpec == TicketSpec /\ TicketFairness
-----------------------------------------------------------------------------
(***************************************************************************)
(* Properties.                                                             *)
(***************************************************************************)
\* Every ticket the API opened for an alert is accounted for: the alert says
\* `created', a counted attempt, a POST still in hand, or a cycle that died
\* between the POST and its record.  So an alert is sent at most
\* MaxAttempts + 1 + lost times, and a duplicate needs a lost answer or a crash.
SendsAccounted ==
  \A a \in Alert :
    Len(accepted[a]) <=
      attempts[a] + (IF status[a] = "created" THEN 1 ELSE 0) + lost[a]
      + Cardinality({p \in Proc : HasRow(p) /\ Head1(p).id = a /\ work[p].took})

\* A settled alert stays settled: no late worker reopens or relabels it.
SettledStays ==
  [][\A a \in Alert : status[a] \in Settled => status'[a] = status[a]]_allVars

\* An alert that says `created' has a ticket, one that says `skipped' has none.
RecordsTruthful ==
  \A a \in Alert :
    /\ status[a] = "created" => accepted[a] # <<>>
    /\ status[a] = "skipped" => accepted[a] = <<>>

\* What the table says of an alert accounts for the tickets it has.
TicketsAccounted == SendsAccounted /\ RecordsTruthful

\* Every alert is settled in the end, also behind alerts the API keeps
\* rejecting: the attempts run out and the batch moves on, and another process
\* goes on when the holder of the lease dies.  Unless every process has died, or
\* the lease of a dead one ends after MaxTime, where the model's clock stops.
LeftBehind ==
  \/ up = {}
  \/ row[ticket].owner \in Proc \ up /\ row[ticket].expires >= MaxTime

EveryAlertSettles ==
  \A a \in Alert : a <= nalerts ~> (status[a] \in Settled \/ LeftBehind)

\* "two processes never send one twice" (workers.py:295): no alert is in two
\* POSTs at once.
OneSenderPerAlert ==
  \A p, q \in Proc :
    /\ work[p].post = "sending" /\ work[q].post = "sending"
    /\ Head1(p).id = Head1(q).id
    => p = q
=============================================================================
