---------------------------- MODULE StorageBatch ----------------------------
(***************************************************************************)
(* listener.py: Storage, one database connection shared by the ingest      *)
(* workers, with batched commits and the background flusher, and the       *)
(* RuleEngine of rules.py that writes alerts through the same connection.  *)
(*                                                                         *)
(* The connection has one open transaction: whoever commits or rolls back  *)
(* does it for everybody's uncommitted rows.  What one holder of           *)
(* Storage.lock does is one step; between the steps of one event other     *)
(* workers use the connection.  Every event that matches the one threshold *)
(* rule modelled is counted under the same key.                            *)
(***************************************************************************)
EXTENDS Naturals, Sequences, FiniteSets

CONSTANTS
  Worker,       \* ingest worker threads
  Config,       \* db-config.json as it may be: commit_batch_size, and whether
                \* commit_max_delay_ms > 0
  Threshold,    \* the rule fires at this number of hits
  MaxEvent,     \* bound of the model: events 1..MaxEvent
  MaxErrors     \* bound of the model: database errors and restarts

ASSUME StorageAssumption ==
  /\ Config \subseteq [size : Nat \ {0}, delay : BOOLEAN]
  /\ Threshold \in Nat \ {0}
  /\ {MaxEvent, MaxErrors} \subseteq Nat

VARIABLES
  config,     \* the configuration the process was started with
  logs,       \* the logs table as the connection sees it; a row's id is its index
  durable,    \* how many of its rows are committed
  alerts,     \* the alerts table: the hits each alert names
  durAlerts,  \* how many of its rows are committed
  pending,    \* Storage._pending
  flusher,    \* TRUE while the thread of _flush_loop lives
  nevent,     \* events received
  at,         \* at[w]: where worker w is
  cur,        \* cur[w]: the event it handles and the id insert_log returned
  fired,      \* fired[w]: the hits of the alert it is to write
  engine,     \* the workers inside RuleEngine._lock
  hits,       \* ThresholdRule._hits[key], oldest first
  processed,  \* events counted as processed since the start
  running,    \* FALSE after a clean stop
  errors      \* database errors so far

tables == <<logs, durable, alerts, durAlerts>>
workers == <<at, cur, fired, engine, hits, processed>>
vars == <<config, tables, pending, flusher, nevent, workers, running, errors>>

Event == 1..MaxEvent
Hit == [event : Event, id : Nat]
NoHit == [event |-> 0, id |-> 0]

TypeOK ==
  /\ config \in Config
  /\ logs \in Seq(Event)
  /\ durable \in 0..Len(logs)
  /\ alerts \in Seq(Seq(Hit))
  /\ durAlerts \in 0..Len(alerts)
  /\ pending \in Nat
  /\ flusher \in BOOLEAN
  /\ nevent \in 0..MaxEvent
  /\ at \in [Worker -> {"idle", "stored", "firing", "recover", "checked"}]
  /\ cur \in [Worker -> Hit \cup {NoHit}]
  /\ fired \in [Worker -> Seq(Hit)]
  /\ engine \in {{}} \cup {{w} : w \in Worker}
  /\ hits \in Seq(Hit)
  /\ processed \in SUBSET Event
  /\ running \in BOOLEAN
  /\ errors \in 0..MaxErrors

Init ==
  /\ config \in Config
  /\ logs = <<>> /\ durable = 0
  /\ alerts = <<>> /\ durAlerts = 0
  /\ pending = 0
  /\ flusher = TRUE
  /\ nevent = 0
  /\ at = [w \in Worker |-> "idle"]
  /\ cur = [w \in Worker |-> NoHit]
  /\ fired = [w \in Worker |-> <<>>]
  /\ engine = {}
  /\ hits = <<>>
  /\ processed = {}
  /\ running = TRUE
  /\ errors = 0
-----------------------------------------------------------------------------
(* the connection *)
Goto(w, from, to) ==
  /\ running
  /\ at[w] = from
  /\ at' = [at EXCEPT ![w] = to]

Fail == errors < MaxErrors /\ errors' = errors + 1

\* The tables become these, all of it committed.
CommitAs(l, a) ==
  /\ logs' = l /\ durable' = Len(l)
  /\ alerts' = a /\ durAlerts' = Len(a)

\* Only what was committed stays.
Rollback ==
  /\ logs' = SubSeq(logs, 1, durable) /\ durable' = durable
  /\ alerts' = SubSeq(alerts, 1, durAlerts) /\ durAlerts' = durAlerts

\* A faulty variant: one row too late.
DueLate(n) == n > config.size

SizeDue(n) == n >= config.size

\* insert_log: the row, then _maybe_commit_locked; the age of the last commit
\* decides when a delay is configured.
InsertLog(w) ==
  /\ Goto(w, "idle", "stored")
  /\ nevent < MaxEvent
  /\ nevent' = nevent + 1
  /\ cur' = [cur EXCEPT ![w] = [event |-> nevent + 1, id |-> Len(logs) + 1]]
  /\ LET new == Append(logs, nevent + 1)
     IN  \/ /\ SizeDue(pending + 1) \/ config.delay
            /\ CommitAs(new, alerts)
            /\ pending' = 0
         \/ /\ ~SizeDue(pending + 1)
            /\ logs' = new
            /\ pending' = pending + 1
            /\ UNCHANGED <<durable, alerts, durAlerts>>
  /\ UNCHANGED <<config, flusher, fired, engine, hits, processed, running, errors>>

\* The insert or its commit raises: rollback_locked, and the event is counted
\* as failed.
InsertLogFails(w) ==
  /\ Goto(w, "idle", "idle")
  /\ nevent < MaxEvent
  /\ nevent' = nevent + 1
  /\ Fail
  /\ Rollback
  /\ pending' = 0
  /\ UNCHANGED <<config, flusher, cur, fired, engine, hits, processed, running>>
-----------------------------------------------------------------------------
(* RuleEngine.process *)
\* Faulty variants: the engine's lock is not taken; the hits stay after an alert.
EngineFreeAlways == TRUE
RemainingAll(burst) == burst

EngineFree == engine = {}
Remaining(burst) == <<>>

\* ThresholdRule.evaluate on a match: hits older than the window are dropped,
\* and a burst that reaches the threshold is handed over.
Evaluate(w) ==
  /\ EngineFree
  /\ \/ /\ Goto(w, "stored", "checked")        \* the event does not match
        /\ UNCHANGED <<fired, engine, hits>>
     \/ \E k \in 0..Len(hits) :
          LET burst == Append(SubSeq(hits, k + 1, Len(hits)), cur[w])
          IN  IF Len(burst) >= Threshold
              THEN /\ Goto(w, "stored", "firing")
                   /\ fired' = [fired EXCEPT ![w] = burst]
                   /\ hits' = Remaining(burst)
                   /\ engine' = engine \cup {w}
              ELSE /\ Goto(w, "stored", "checked")
                   /\ hits' = burst
                   /\ UNCHANGED <<fired, engine>>
  /\ UNCHANGED <<config, tables, pending, flusher, nevent, cur, processed, running, errors>>

\* insert_alert commits everybody's rows; _pending stays as it is.
InsertAlert(w) ==
  /\ Goto(w, "firing", "checked")
  /\ CommitAs(logs, Append(alerts, fired[w]))
  /\ fired' = [fired EXCEPT ![w] = <<>>]
  /\ engine' = engine \ {w}
  /\ UNCHANGED <<config, pending, flusher, nevent, cur, hits, processed, running, errors>>

\* The INSERT or the commit raises; in the second case the row stays in the
\* open transaction.  _lock is released on the way out.
InsertAlertFails(w) ==
  /\ Goto(w, "firing", "recover")
  /\ Fail
  /\ alerts' \in {alerts, Append(alerts, fired[w])}
  /\ fired' = [fired EXCEPT ![w] = <<>>]
  /\ engine' = engine \ {w}
  /\ UNCHANGED <<config, logs, durable, durAlerts, pending, flusher, nevent, cur, hits,
                 processed, running>>

\* RuleEngine._rollback: everybody's uncommitted rows; _pending stays.
Recover(w) ==
  /\ Goto(w, "recover", "checked")
  /\ Rollback
  /\ UNCHANGED <<config, pending, flusher, nevent, cur, fired, engine, hits, processed,
                 running, errors>>

\* The worker counts the event as processed, whether its alert was written or not.
Count(w) ==
  /\ Goto(w, "checked", "idle")
  /\ processed' = processed \cup {cur[w].event}
  /\ cur' = [cur EXCEPT ![w] = NoHit]
  /\ UNCHANGED <<config, tables, pending, flusher, nevent, fired, engine, hits, running, errors>>
-----------------------------------------------------------------------------
(* _flush_loop, and the end of the process *)
Batched == config.size > 1 \/ config.delay      \* the thread is started

\* Faulty variants: the commit is left out; the last row waits for another.
FlushForgets ==
  /\ running /\ flusher /\ Batched /\ pending > 0
  /\ pending' = 0
  /\ UNCHANGED <<config, tables, flusher, nevent, workers, running, errors>>
FlushFromTwo ==
  /\ running /\ flusher /\ Batched /\ pending > 1
  /\ CommitAs(logs, alerts)
  /\ pending' = 0
  /\ UNCHANGED <<config, flusher, nevent, workers, running, errors>>

Flush ==
  /\ running /\ flusher /\ Batched /\ pending > 0
  /\ CommitAs(logs, alerts)
  /\ pending' = 0
  /\ UNCHANGED <<config, flusher, nevent, workers, running, errors>>

\* The commit raises (SQLite keeps the transaction, PostgreSQL has rolled it
\* back) and nothing catches it: the thread ends.
FlushFails ==
  /\ running /\ flusher /\ Batched /\ pending > 0
  /\ Fail
  /\ flusher' = FALSE
  /\ UNCHANGED tables \/ Rollback
  /\ UNCHANGED <<config, pending, nevent, workers, running>>

\* main() returns after its queues are drained: the connection is dropped with
\* what it has not committed.
Stop ==
  /\ running
  /\ \A w \in Worker : at[w] = "idle"
  /\ running' = FALSE
  /\ Rollback
  /\ UNCHANGED <<config, pending, flusher, nevent, workers, errors>>

\* The process is killed anywhere and started again.
Restart ==
  /\ running
  /\ Fail
  /\ Rollback
  /\ pending' = 0
  /\ flusher' = TRUE
  /\ at' = [w \in Worker |-> "idle"]
  /\ cur' = [w \in Worker |-> NoHit]
  /\ fired' = [w \in Worker |-> <<>>]
  /\ engine' = {}
  /\ hits' = <<>>
  /\ processed' = {}
  /\ UNCHANGED <<config, nevent, running>>

WorkerStep(w) ==
  \/ InsertLog(w) \/ InsertLogFails(w) \/ Evaluate(w) \/ InsertAlert(w)
  \/ InsertAlertFails(w) \/ Recover(w) \/ Count(w)

Next ==
  \/ \E w \in Worker : WorkerStep(w)
  \/ Flush \/ FlushFails \/ Stop \/ Restart

Spec == Init /\ [][Next]_vars

\* The flusher is a daemon thread that wakes up at least once a second.
FairSpec == Spec /\ WF_vars(Flush)
-----------------------------------------------------------------------------
(***************************************************************************)
(* Properties.                                                             *)
(***************************************************************************)
\* _pending, which tells the flusher that something waits, never understates
\* the uncommitted log rows, whoever commits or rolls back for everybody.
PendingCovers == Len(logs) - durable <= pending

\* With a commit per event (the default), the rows an alert names are in the
\* logs table and are the events that were counted, also after a rollback or a
\* restart.
EvidenceStored ==
  config.size = 1 =>
    \A n \in 1..durAlerts : \A i \in DOMAIN alerts[n] :
      LET h == alerts[n][i]
      IN  h.id <= durable /\ logs[h.id] = h.event

\* A hit belongs to one alert at most: a burst is not alerted twice, not even
\* when writing its alert failed half-way.
HitsUsedOnce ==
  \A m, n \in DOMAIN alerts : m # n =>
    \A i \in DOMAIN alerts[m], k \in DOMAIN alerts[n] :
      alerts[m][i].event # alerts[n][k].event

\* With a commit per event, what was counted as processed is stored.
ProcessedStored ==
  config.size = 1 => processed \subseteq {logs[i] : i \in 1..durable}

\* Without another event, pending rows are committed in the end, as long as the
\* flusher lives.
TailFlushed ==
  (pending > 0 /\ flusher) ~> (pending = 0 \/ ~flusher \/ ~running)
=============================================================================
