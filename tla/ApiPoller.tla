----------------------------- MODULE ApiPoller -----------------------------
(***************************************************************************)
(* api_poller.py: the poller threads of one API connection in the          *)
(* dashboard processes that share the database, the lease they poll under, *)
(* and the reconciliation of _threads with the api_pollers row.  The API   *)
(* answers a cursor with the next items and is otherwise external.         *)
(***************************************************************************)
EXTENDS Naturals, FiniteSets, FiniteSetsExt

CONSTANTS Processes,   \* dashboard processes
          Slots,       \* poller threads a process may have at a time
          MaxItems,    \* bound on the items of the API
          PageItems,   \* items in one answer
          MaxPollEvents \* bound on the switches, errors and crashes
ASSUME PollerAssumption == /\ PageItems \in Nat \ {0} /\ MaxItems \in Nat
                           /\ MaxPollEvents \in Nat
                           /\ \A p \in Processes : 0 \notin Slots[p]
                           /\ {"free", "dead"} \cap Processes = {}

VARIABLES
  enabled,  \* api_pollers.enabled
  cursor,   \* api_pollers.cursor: the items up to it have been pulled
  offered,  \* items the API has
  ingested,   \* how often an item was ingested (2: more than once)
  lease,    \* owner of the row of worker_leases; "free" when expired
  up,  \* processes that are up
  current,  \* _threads[rid] of a process: a slot, 0 if none
  thread,   \* per process and slot: [at, stop, from, to]
  events,   \* switches, errors and crashes so far
  disturbed \* history: an error, crash, expiry or switch-off has happened
pollVars == <<enabled, cursor, offered, ingested, lease, up, current, thread,
              events, disturbed>>

Gone == [at |-> "ended", stop |-> FALSE, from |-> 0, to |-> 0]
NoThreads(p) == [s \in Slots[p] |-> Gone]
PollInit ==
  /\ enabled = TRUE /\ cursor = 0 /\ offered = 0
  /\ ingested = [i \in 1..MaxItems |-> 0] /\ lease = "free"
  /\ up = Processes /\ current = [p \in Processes |-> 0]
  /\ thread = [p \in Processes |-> NoThreads(p)]
  /\ events = 0 /\ disturbed = FALSE

SetThread(p, s, t) == thread' = [thread EXCEPT ![p][s] = t]
MoveTo(p, s, where) == SetThread(p, s, [thread[p][s] EXCEPT !.at = where])
\* the end of a cycle: the interval, then the top of the loop
Sleep(p, s) == SetThread(p, s, [Gone EXCEPT !.at = "top", !.stop = thread[p][s].stop])
At_(p, s, where) == p \in up /\ thread[p][s].at = where

Offer == /\ offered < MaxItems /\ offered' = offered + 1
         /\ UNCHANGED <<enabled, cursor, ingested, lease, up, current, thread,
                        events, disturbed>>
\* an administrator switches the connection on or off
Toggle == /\ events < MaxPollEvents /\ events' = events + 1
          /\ enabled' = ~enabled /\ disturbed' = TRUE
          /\ UNCHANGED <<cursor, offered, ingested, lease, up, current, thread>>

\* _reconcile: threads of rows that went are told to stop and are forgotten,
\* a row that has no thread gets one
ReconcileOff(p) ==
  /\ p \in up /\ ~enabled /\ current[p] # 0
  /\ SetThread(p, current[p], [thread[p][current[p]] EXCEPT !.stop = TRUE])
  /\ current' = [current EXCEPT ![p] = 0]
  /\ UNCHANGED <<enabled, cursor, offered, ingested, lease, up, events, disturbed>>
ReconcileOn(p) ==
  /\ p \in up /\ enabled /\ current[p] = 0
  /\ \E s \in {f \in Slots[p] : thread[p][f].at = "ended"} :
       /\ SetThread(p, s, [Gone EXCEPT !.at = "top"])
       /\ current' = [current EXCEPT ![p] = s]
  /\ UNCHANGED <<enabled, cursor, offered, ingested, lease, up, events, disturbed>>

\* _loop: the stop flag, then the row with its cursor ...
ReadRow(p, s) ==
  /\ At_(p, s, "top")
  /\ IF thread[p][s].stop \/ ~enabled THEN MoveTo(p, s, "release")
     ELSE SetThread(p, s, [thread[p][s] EXCEPT !.at = "hold", !.from = cursor])
  /\ UNCHANGED <<enabled, cursor, offered, ingested, lease, up, current, events, disturbed>>
\* ... then hold_lease(), which every thread of a process asks as one owner
OwnsFree(p) == lease = "free"
Owns(p) == lease \in {p, "free"}
HoldLease(p, s) ==
  /\ At_(p, s, "hold")
  /\ lease' = IF Owns(p) THEN p ELSE lease
  /\ IF Owns(p) THEN MoveTo(p, s, "poll") ELSE Sleep(p, s)
  /\ UNCHANGED <<enabled, cursor, offered, ingested, up, current, events, disturbed>>
PageEnd(from) == Max({from, Min({from + PageItems, offered})})
Fetch(p, s) ==
  /\ At_(p, s, "poll")
  /\ SetThread(p, s, [thread[p][s] EXCEPT !.at = "ingest", !.to = PageEnd(thread[p][s].from)])
  /\ UNCHANGED <<enabled, cursor, offered, ingested, lease, up, current, events, disturbed>>
\* ingest_batch: `from` is the last item this thread has ingested
IngestItem(p, s) ==
  LET i == thread[p][s].from + 1 IN
  /\ At_(p, s, "ingest") /\ i <= thread[p][s].to
  /\ ingested' = [ingested EXCEPT ![i] = Min({2, @ + 1})]
  /\ SetThread(p, s, [thread[p][s] EXCEPT !.from = i])
  /\ UNCHANGED <<enabled, cursor, offered, lease, up, current, events, disturbed>>
RecordSuccess(p, s) ==
  /\ At_(p, s, "ingest") /\ thread[p][s].from = thread[p][s].to
  /\ cursor' = thread[p][s].to
  /\ Sleep(p, s)
  /\ UNCHANGED <<enabled, offered, ingested, lease, up, current, events, disturbed>>
\* the cycle raises: record_error leaves the cursor alone
CursorOfPage(t) == t.to
CursorOnError(t) == cursor
RecordError(p, s) ==
  /\ At_(p, s, "failed") /\ Sleep(p, s)
  /\ cursor' = CursorOnError(thread[p][s])
  /\ UNCHANGED <<enabled, offered, ingested, lease, up, current, events, disturbed>>
\* the end of _loop gives up the lease of whoever has it in this process
ReleaseLease(p, s) ==
  /\ At_(p, s, "release")
  /\ lease' = IF lease = p THEN "free" ELSE lease
  /\ SetThread(p, s, Gone)
  /\ UNCHANGED <<enabled, cursor, offered, ingested, up, current, events,
                 disturbed>>

\* an exception: caught within the cycle, and the end of the thread in
\* get_row, record_error or release_lease; the thread stays in _threads
Raise(p, s) ==
  /\ events < MaxPollEvents /\ events' = events + 1 /\ disturbed' = TRUE
  /\ \/ \E w \in {"poll", "ingest"} : At_(p, s, w) /\ MoveTo(p, s, "failed")
     \/ \E w \in {"top", "failed"} : At_(p, s, w) /\ SetThread(p, s, Gone)
     \/ At_(p, s, "hold") /\ Sleep(p, s)
  /\ UNCHANGED <<enabled, cursor, offered, ingested, lease, up, current>>
PollerDies(p) ==
  /\ p \in up /\ events < MaxPollEvents /\ events' = events + 1 /\ disturbed' = TRUE
  /\ up' = up \ {p} /\ lease' = IF lease = p THEN "dead" ELSE lease
  /\ current' = [current EXCEPT ![p] = 0] /\ thread' = [thread EXCEPT ![p] = NoThreads(p)]
  /\ UNCHANGED <<enabled, cursor, offered, ingested>>
Restart(p) ==
  /\ p \notin up /\ up' = up \cup {p}
  /\ UNCHANGED <<enabled, cursor, offered, ingested, lease, current, thread, events, disturbed>>
\* the lease outlives three intervals: it expires when its owner is dead, has
\* no thread any more, or has only threads in cycles that last too long
Expire ==
  /\ lease # "free"
  /\ lease \in up => \A s \in Slots[lease] : thread[lease][s].at \notin {"top", "hold"}
  /\ lease' = "free" /\ disturbed' = TRUE
  /\ UNCHANGED <<enabled, cursor, offered, ingested, up, current, thread, events>>

ThreadStep(p, s) == \/ ReadRow(p, s) \/ HoldLease(p, s) \/ Fetch(p, s) \/ IngestItem(p, s)
                    \/ RecordSuccess(p, s) \/ RecordError(p, s)
                    \/ ReleaseLease(p, s)
PollNext ==
  \/ Offer \/ Toggle \/ Expire
  \/ \E p \in Processes :
       \/ ReconcileOff(p) \/ ReconcileOn(p) \/ PollerDies(p) \/ Restart(p)
       \/ \E s \in Slots[p] : ThreadStep(p, s) \/ Raise(p, s)
PollSpec == PollInit /\ [][PollNext]_pollVars

\* threads run, each process reconciles, and a lease nobody renews expires
Abandoned == lease = "dead" \/ \A s \in Slots[lease] : thread[lease][s].at = "ended"
PollFair ==
  /\ WF_pollVars(Expire /\ Abandoned)
  /\ \A p \in Processes :
       /\ WF_pollVars(ReconcileOff(p)) /\ WF_pollVars(ReconcileOn(p))
       /\ \A s \in Slots[p] : WF_pollVars(ThreadStep(p, s))

PollTypeOK ==
  /\ enabled \in BOOLEAN /\ offered \in 0..MaxItems /\ cursor \in 0..offered
  /\ ingested \in [1..MaxItems -> 0..2] /\ lease \in Processes \cup {"free", "dead"}
  /\ up \subseteq Processes
  /\ \A p \in Processes : current[p] \in Slots[p] \cup {0} /\ \A s \in Slots[p] :
       /\ thread[p][s].at \in {"ended", "top", "hold", "poll", "ingest", "failed",
                               "release"}
       /\ thread[p][s].from \in 0..offered /\ thread[p][s].to \in 0..offered
  /\ events \in 0..MaxPollEvents /\ disturbed \in BOOLEAN

(* The stored cursor never passes an item that was not ingested, though     *)
(* several threads poll with old cursors and one may put it back.           *)
NothingSkipped == \A i \in 1..cursor : ingested[i] > 0
(* "An item is pulled once": unless an error, a crash, a lease that expired *)
(* or a connection that was switched off came in between.                   *)
RepeatsExcused == (\E i \in 1..MaxItems : ingested[i] = 2) => disturbed
(* Each item is pulled once.                                                *)
PulledOnce == NothingSkipped /\ RepeatsExcused

Stranded(p) == current[p] # 0 /\ thread[p][current[p]].at = "ended"
Arrived(i) == offered >= i => ingested[i] > 0 \/ ~enabled
(* Every item of an enabled connection is ingested in the end, as long as a *)
(* process is up whose poller thread has not ended behind _threads' back.   *)
EveryItemArrives ==
  \A i \in 1..MaxItems : []<>(Arrived(i) \/ \A p \in up : Stranded(p))
=============================================================================
