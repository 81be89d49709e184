# mini-SIEM: TLA+ models and proofs

mini-SIEM is a Python log collector: agents and devices send lines, a listener
process stores them, detects and alerts; one or more dashboard processes serve
analysts and run background jobs over the same database (SQLite or PostgreSQL);
scripts install and upgrade it. This directory models what of it can go wrong
between two steps, checks the models with TLC and proves the most important
results with TLAPS. `PROJECT.json` lists the components, the runs, the lines
every definition models, the hazards and the findings.

    tlc -workers 2 -config MCLeases.cfg MCLeases      # a run: <name>.cfg with its MC module
    tlapm TicketDispatch_proof.tla                    # proofs: the *_proof modules

## 1. The system

| Component | State it keeps | Operations | Interacts with | Module |
|---|---|---|---|---|
| Job leases (`leases.py`) | table `worker_leases`; per process `_held` | `hold`, `holds`, `release` | every background job | `Leases`, `JobMutex` |
| Ticket dispatcher (`workers.py`) | `alerts.ticket_status`, `ticket_attempts`; a batch | a cycle: snapshot, skip, POST, record | lease, alerts, ticket API | `TicketDispatch` |
| Report scheduler (`workers.py`, `reporting.py`) | `reports`, alerts made of findings | hourly cycle, healing pass | lease, alerts | `ReportSchedule` |
| Feed refresher, IOC matcher (`workers.py`, `threatintel.py`) | `ioc_feeds`, `iocs`, the matcher's index, `ioc_matches` | refresh, fetch, import, match | lease, storage, feed URLs | `ThreatFeeds` |
| AI triage (`ai_worker.py`) | `alerts.ai_status`, `ai_attempts` | a cycle, retry and clear | lease, alerts, a model API | `AiTriage` |
| API pollers (`api_poller.py`) | a cursor per connection, a thread per connection and process | reconcile, poll, ingest, record | a lease per connection, cloud APIs | `ApiPoller` |
| Threaded ingest (`listener.py`) | a queue per worker, counters, `_stop` | `submit`, worker loop, `stop` | receive threads, storage | `IngestPipeline` |
| Process ingest (`ingest_workers.py`) | a queue and a process per slot, shared counters | `submit`, child loop, `supervise`, `stop` | receive threads, the system, SIGTERM | `ProcessIngest` |
| Storage, threshold rules (`listener.py`, `rules.py`) | one connection, one transaction, `_pending`, hits | `insert_log`, `insert_alert`, flusher, rollback | all ingest workers | `StorageBatch` |
| Alert workflow (`alert_workflow.py`, `dashboard.py`) | `workflow_*`, `alert_workflow_events` | single and bulk update | analysts' requests | `AlertWorkflow` |
| Detection engine (`detection*.py`) | dedup state row, telemetry state row | `emit`, monitor `tick` | storage, analysts | `DetectionEmit`, `Telemetry` |
| Forwarder (`forwarder.py`) | sockets and counters per destination | `forward`, reload, `_flush_stats` | ingest workers, relay hosts | `Forwarder` |
| TCP framing (`listener.py`) | buffer and mode of a connection | `feed` | receive threads | `TcpFramer` |
| Dashboard export (`dashboard_connector.py`) | sequence counter, export records, snapshots | refresh a lane, page | a remote dashboard | `DashboardExport` |
| Archive (`archive.py`) | segment files, catalog, hot tables | seal, verify, catalog, move, evict | storage | `Archive`, `EventStore` |
| Schema and partitions (`db.py`, `schema_versions.py`, `event_storage_v2.py`) | tables, ledger, partitions | create, migrate, repair, maintain, backfill | services at their start | `SchemaLedger`, `EventPartitions` |
| Upgrade (`upgrade-existing.sh`, `tools/upgrade_cutover_state.py`) | three trees, a journal, services | the commands, ERR handler, `--recover` | services, database | `UpgradeCutover` |
| Fresh installation (`fresh-install.sh`, `tools/…`) | checkpoint, secrets, roles, credential files | the commands, `--resume` | PostgreSQL, systemd | `FreshInstall` |
| Linux agent (`linux_agent/`) | offset and inode of a tailed file, the journal's cursor, a state file | look, read, send, save | log rotation, journald, the listener | `AgentTail`, `JournalReader` |
| Windows agent (`windows_agent/`) | last record per channel, a state file | poll, send, save | event logs, the listener | `WinAgent` |
| Extracted fields (`normalize.py`, `dashboard.py`) | `log_fields`, a job and its flag per dashboard process | ingest, re-index | storage, archive | `FieldReindex` |
| SQLite backups (`backup_restore.py`) | files of a directory | copy, check, rotate | requests of the dashboard | `BackupRotation` |
| PostgreSQL backups (`tools/postgres_backup_restore.py`) | archive, manifest, target databases | backup, restore | schema upgrades, other commands | `BackupRestore` |
| Search, pages, administration, authentication, health | single statements, derived values | | | not modelled |

What is hard in it:

* **Processes that share a table.** Several dashboards run the same jobs; they
  have only a lease with an expiry time, their own clocks, and daemon threads
  that may be late by a whole call to an API.
* **Threads that share a connection.** All ingest workers, the rules, the
  flusher and the archive use one database connection and thereby one
  transaction: a commit or a rollback acts on everybody's rows.
* **Processes that die.** Children of the ingest are killed with messages in
  hand, in their queue, or with a lock held; a scheduler dies between a report
  and its alerts, an archive cycle between a file and its catalog.
* **Scripts that are cut off.** An upgrade or an installation is killed between
  any two commands, and a second script has to make sense of what it left.
* **Outside answers that are lost**, repeated or come late.
* **Check, then act.** Analysts' requests, emitters, pollers and triage workers
  act on a row they have read before.
* **Two databases.** What SQLite's single writer excludes, PostgreSQL allows.

What makes each component correct: a leased job runs in one process, and a dead
holder is replaced; every ticket the API opened is accounted for and every alert
is settled; every message is counted and handled in order per sender or key;
what is processed is stored, a burst is alerted once; alerts move only along the
workflow's transitions; a report's finding becomes one alert; a poller's cursor
never passes an item; relay counters are too high by no more than an unlocked
addition explains, and messages stay whole;
framing does not depend on how the stream is cut into chunks; a finding is an occurrence of
one alert and an outage one warning; a reader of the export has seen everything
below its position; a stored event is hot or in an intact segment; services find
the database they expect; a cut-off upgrade or installation is taken to its end
without losing rows, passwords or another deployment's data; a line, an entry or
a record is shipped once; a stored log has the fields of one extraction; a backup
that exists can be restored.

## 2. Modules and how they correspond to the code

`JobMutex` and `EventStore` are abstract specifications: a job is started by a
process only when no process runs it; an event leaves the hot tables only when
it is archived. `Leases` and `Archive` implement them. The other modules are one
component each; `MCIngest`, `MCRecords`, `MCServices` and `MCDeployment` put those
that share no state side by side: a behaviour is one of a single part, which
keeps the sets of states a sum and not a product.

**Leases.** A member of `Proc` is one process incarnation (`default_owner` has a
fresh uuid). The statements of one `hold()` or `release()` are one transaction
and one step. Reading the clock (`BeginHold`), the transaction (`Grant`, `Deny`,
`FailHold`, `FallBack`), and the update of `_held` when `hold()` returns
(`ReturnHeld`, `ReturnDenied`) are separate steps, because time passes in
between; so are the two halves of `release()`. `FailHold` covers an exception
before and after the server's commit. `Tick` is true time; a process reads
`clock + offset[p]`. `MaxCycle[j]` bounds a cycle of job `j` from reading the
clock to its end: the assumption `CycleFits` (`MaxCycle + Skew <= TTL`) is the
code's claim that "a slow cycle cannot lose its lease mid-run". `CreateTable` is
the owner's schema run on a live system; before it every process runs every job
(`FallBack`), and `pc = "local"` marks a cycle that has no lease to rely on.
`unavailable[p]` is the flag that a process sets when it finds no table and never
takes back: `holds()` answers True from then on (no code outside the tests asks it).

**TicketDispatch** extends `Leases`. `Fetch` is the SELECT, `Snapshot` its rows (id
and attempts); `Skip`, `Post`, `RecordCreated`, `RecordFailure` go through them, each
UPDATE by id without a condition, as in `run_once`. `ApiAccepts` and `ApiRejects`
are the external API; after `ApiAccepts` the answer may still be lost.
`RecordCreatedFails` is an exception inside the inner try.

**IngestPipeline.** A receive thread reads and submits in one step (`Receive`), or
blocks (`putting`) when it serves TCP and the queue is full. A worker's loop has
three steps (`Check`, `Get`, `Process`), because `_stop` may be set in between.
`Sigterm`, `DrainNext`, `DrainTimeout`, `SetStop`, `Exit` are `main()` and
`stop(drain=True, timeout=10)`; `before` remembers what was accepted and not
handled when the drain began.

**ProcessIngest.** A queue object is `<<slot, generation>>` and outlives its
replacement. A submit takes three steps: it reads `self.queues[i]` (`Submit`),
`put` reads whether that object is closed (`CheckClosed`), and the message enters
or is dropped. `supervise()` is cut at every statement that others can come between:
`qsize` (`SuperviseCount`), `close`, the new queue (`SuperviseReplace`), the lock of the
counters with the addition (`SuperviseFail`), the new child (`SuperviseStart`) and
`restarts` (`SuperviseNote`). `Die` is `kill -9` anywhere, perhaps with the
reader's lock of its queue (`jammed`) or with the lock of the shared counters
(`countersHeld`), which then blocks every `Count` and `SuperviseFail` for ever.
`ProcSigterm` leaves `supervise()` where it is.

**StorageBatch.** `logs` and `alerts` are the tables as the connection sees them;
`durable` and `durAlerts` say how much of them is committed; `config`, the batch
size and delay, is chosen at the start and never changes. Whoever holds
`Storage.lock` is one step. Between the steps of one event (`InsertLog`,
`Evaluate`, `InsertAlert`, `Count`) other workers use the connection. The age of
the last commit is abstracted: with a delay configured an insert may find it
due. The sliding window may drop any prefix of the hits. Failures at each
statement are their own actions: `InsertLogFails` rolls back and resets
`_pending`, `InsertAlertFails` and `Recover` roll back through
`RuleEngine._rollback` and do not. A row's id is its index, as on SQLite, where
a rollback also gives ids back.

**AlertWorkflow.** `ReadOne` and `ReadMany` are the SELECTs of the two endpoints;
`Apply` is the check, the UPDATEs, the events and the commit; `Abort` a failure.
Other requests act between the two steps.

**DetectionEmit.** `emit()` is three steps under the lock of the dedup state row:
`LockState`, `ReadAlert` (is the linked alert still open?), `Link` (an occurrence
more, or a new alert, and the newest `KeysKept` links). `Analyst` resolves or
reopens in between where the database lets it (PostgreSQL), `Lapse` is the dedup
window's end. **Telemetry.** `Observe` is an ingest thread's note; a tick copies
the notes (`Snap`), evaluates the shared row in a transaction (`Evaluate`), and
removes the notes that are still what was copied (`Clear_`); the next tick begins
an interval after it has ended (`done`).

**Forwarder.** A message is two pieces on the wire, since `sendall` may be cut;
nothing locks a destination's socket between the look at it, the connection and
the send. An object of the destination lives as long as its row is unchanged;
`ReloadRow` replaces it and closes the socket a worker may be using.
`pending_count += 1` is two steps of the worker (`ReadCount`, `StoreCount`): no lock
makes it one, and only some versions of CPython do not switch threads inside it.
`_flush_stats` reads, zeroes and stores in three steps. A version of the row may
point at the listener's own port (`loops`): its object is dropped with its count.

**TcpFramer.** Bytes are digits, space, newline and another; `Recv` appends any
chunk, and `Octet`, `Line`, `LastLine`, `Break`, `Return` are the loop of `feed()`.
`Frames(s)` says what a whole stream consists of, by two recursive functions
(`octetFrames`, `lineFrames`), one for each mode.

**AgentTail.** What the path names after a rotation or truncation is a new
generation, which may have the old inode. `StatFile`, `OpenFile`, `SendLine`,
`EndOfFile`, `KeepOffset`, `SaveState` are the loop; lines are whole.
**JournalReader.** `StartReader` is `journalctl --follow` after the saved cursor or
at the end; `SendEntry` and `KeepCursor` are two steps, because the agent may end
between them and `file_loop` saves the same `State` (`OtherSave`). **WinAgent.**
`ReadChannel`, `SendRecord`, `SendFails`, `EndBatch`, `SaveStateFile` are a poll;
`EndCollector` within the save may leave a torn file (`Set-Content` is in place).

**FieldReindex.** `BeginJob` reads the patterns and `MAX(id)`, `ReadLogs` a batch,
`DeleteFields`, `InsertFields` and `CommitBatch` replace the rows; on PostgreSQL a
DELETE sees what is committed when it begins (`seen`) and waits for another job
that deletes the same rows. The rows of a log that were inserted together are one
set, named by who inserted them and with which patterns.

**ApiPoller.** A slot is a thread; two of one process share the owner of the
lease. `ReadRow`, `HoldLease`, `Fetch`, `IngestItem`, `RecordSuccess`,
`RecordError`, `ReleaseLease` are `_run`'s loop, `ReconcileOn/Off` the manager's,
`Raise` an exception that ends the thread.

**ReportSchedule.** `Cycle` and `Look` decide whether a report is due, `MakeReport`
commits it, `SelectAlert`, `InsertOne`, `CommitAlerts` create the alerts that are
missing. **AiTriage.** `Drain` takes the batch, then each alert is skipped, answered
from a twin (`Reuse`) or by the model (`Ask`, `StoreAnswer`, `StoreFailure`);
`DedupGroups` is the setting `dedup_groups`, and an alert more than six hours old
(`Ages`, older ones first) is nobody's twin any more;
`LookUpRaises` is the twin's SELECT, which PostgreSQL refuses for an alert with a
source address. **DashboardExport.** `Get` reads the candidates; `Compare`,
`Number`, `Write`, `Commit` refresh record by record; SELECTs run beside another
refresh, the first `Write` waits until no other transaction writes, and nothing
else keeps two refreshes apart, on either database; `Mark`,
`Snapshot`, `Page` answer. **ThreatFeeds.** `Refresh`, `Download`, `LookUp`,
`InsertIoc`, `CommitFeed` are a refresh, a fetch or an import; `Check`, `Record`,
`Warn` the matcher, whose index is as old as its last `Reload`.

**Archive.** A cycle is `BeginCycle`, in move mode `ReadCopies`, `CheckCopies`,
`Evict`, then `Read`, `Build`, `Verify`, `Seal`; each transaction is a step and
`GiveUpCycle` may come between any two. `Damage` spoils a file. `Verify` is
`verify_on_create`, which is on by default.

**SchemaLedger.** `CreateSchema`, `Baseline`, `ReadLedger`, `Apply`, `Record`, `Repair`,
`AddColumn` are `initialize()` with SQLite's commits; on PostgreSQL only the owner
migrates and the services look (`EnsureRuntimeReady`). Versions are of four kinds:
a column, a column with an index of the base schema, a table, a mark of what a
helper adds. **EventPartitions.** `AppendEvent` stores an event of any month, in
the default partition if its month has none; `Maintain` is the daily call.

**UpgradeCutover, FreshInstall.** The scripts are straight lines, so a script that
runs is the sequence of commands it has left; `Run`/`Execute` does the first,
`Fail`, `Kill`, `Reboot`/`Interrupt` cut it off. The journal's `Plan` and the
checkpoint's phase decide what the next script does. `Tolerated` are the commands
with `|| true`: a `systemctl stop` that fails leaves the services running and the
upgrade goes on. `ToolsImport` says whether the state tool finds its own package;
the runs set it, since without it there is no journal and nothing to check (as
shipped it does not: see the divergences).

**BackupRotation.** `MakeFile`, `CopyDatabase`, `CheckCopy`, `ListCopies`, `RemoveOne`,
`Answer` are one request; the list is made once and worked off while other requests
add and remove files. **BackupRestore.** A database or dump is its migration ledger.
`BeginBackup` reads the ledger, `Dump` takes the snapshot, `WriteManifest` renames
the manifest into place; `BeginRestore` looks for the target, `CreateTarget` creates
it, `LoadTarget` loads and verifies, `DropTarget` cleans up; `BackupFails`,
`RestoreFails` and `RestoreEnds` cut a command off anywhere. `RemoveBackup` is the
operator, who may take the files away under a restore that has read the manifest.

## 3. Runs

Every run is `<name>.cfg`; the MC modules give the constants their values.
Counters are bounded by constants named in the modules (`Max...`), and deadlock is
not checked because every bounded model stops at its bounds.

| Run | Question | Bounds, and why they are enough |
|---|---|---|
| MCLeases | Does a leased job run in one process while cycles fit into the lease? How long can a process believe in a lease it lost? Is a dead holder replaced? | 2 processes, clocks 1 apart, TTL 2 used to the last unit (`MaxCycle + Skew = TTL`), time for two takeovers |
| MCTicketDispatch | Are tickets accounted for, settled alerts left alone, and all alerts settled, with failures at every statement? | 2 dispatchers, one alert to send and one to skip behind it, 2 attempts, 2 failures (an error and a crash) |
| MCIngest | Do the counters account for every message, is order kept, does a drain handle what it should, does a poller ingest every item of its API once, does the ingest go on? | threads: 2 workers with queues of 1, a TCP receiver with 2 messages and a UDP one with 1, 2 senders; processes: 2 slots, queues of 1, a TCP receiver with 2 messages and a UDP one with 1, all of one key, a death: full queues, blocked puts, a replaced queue in use; pollers: 2 processes, one with two threads, an item, a page, 2 disturbances |
| MCStorageBatch | `_pending`, alerts and evidence under shared commits and rollbacks; is a tail written? | 2 workers, 5 events, 2 errors (a failure and a restart); a commit per event, batches of 2 or by age, batches of 3 (so that a tail exists) |
| MCRecords | Lines, events and alerts: is a line shipped once, a stream framed exactly, a message relayed whole, an outage warned of once, a finding accounted for, an alert closed only when resolved, an event never lost, a stored log given one set of fields? | tail: 2 generations of 2 lines, 2 restarts; journal: 5 entries, wanted or not, a save every 2, 2 ends; Windows: 2 channels of 3 records, batches of 2, 2 failures; fields: 2 jobs on both databases, 2 logs in batches of 1, 2 pattern lists; frames: every stream of up to 6 bytes over 5 kinds, in chunks of up to 3, frames of 2; relay: 2 workers, 2 messages, 3 versions of the row (one reload while a count is written back, one to a loop) and 2 connections; telemetry: 2 monitors, silence 2, lag 1, one disturbance early enough (twice the silence before the end) for its warning to fall due, time until 7; emit: 2 processes, 2 streams, 1 kept link, 5 findings, 3 events; workflow: 2 requests, single or bulk, over 2 alerts, an assignee, a note that comes alone, begun before the second event; archive: 2 cycles, 2 events, segments of up to 2, one damaged file |
| MCServices | Do the background services do their work once, and in the end all of it? | 2 processes each; 2 findings, 2 reports, a change and a stop; 3 alerts in two groups, one without a source, 2 attempts, both databases, one alert that gets old (`Ageing`); 2 readers whose refreshes overlap, 2 records of which one changes again or a request fails (`Unrest`), until a number is given twice (`Followed`); 2 feeds, one indicator that is rejected, an edit and a slip |
| MCDeployment | Do the services find a database and a tree that fit, wherever a script was cut off, does what is taken up again end, and can what was backed up be restored? | 3 faults in an upgrade with 2 events, 3 mishaps in an installation, 2 stops of 2 services over 5 versions of all four kinds, 4 months with 3 old logs, 2 backfills and a break; 2 backup requests, 4 copies of which 2 are kept; 2 restore commands on 2 targets, 2 migrations, 3 cut-offs, files removed under a restore |

The properties of a run are listed in its cfg. Where a component has several that
are halves of one statement, the cfg names their conjunction, whose parts are
definitions of their own (`FramesExact == OnlyFrames /\ AllFrames`). The MC modules
join those of parts that ask the same question: `LinesForwarded` (`LinesShipped`,
`JournalShipped`, `RecordsForwarded`), `ParsedExactly` (`FramesExact`, `FieldsExact`),
`CutoversSafe` (`UpgradeSafe`, `InstallSafe`), `RecoveryMaterial` (`RotationKeeps`,
`BackupsUsable`), `DatabaseReady`, `DeploymentEnds`.

MCRecords is checked up to a renaming of the two alerts of the workflow and of the two
actors of each part (the same model values in all of them), which no definition
tells apart; it checks invariants and a step-by-step refinement only, so that this is
sound. The runs with liveness use no symmetry.

Runs that TLC violates, each over the module named: MCTicketSlow
(`MCTicketDispatch`), MCWorkflowForced (`MCRecords`), MCTriageWedged (`MCServices`),
MCUpgradeStuck and MCSchemaTooOld (`MCDeployment`); see Findings.

**Fairness.** `Leases`: the loops are daemon threads with a bounded wait, so every
step of a call is weakly fair and time advances; `BeginHold` and `Grant` are
strongly fair, which says that a database does not refuse the same process for
ever. No fairness for crashes, releases, or the creation of the table.
`TicketDispatch`: the steps of the loops are weakly fair, and the clock, which a
cycle in hand may hold back, strongly; errors are bounded (`MaxFailures`), not
assumed away, and the API may reject for ever. `IngestPipeline`: worker threads
run, a blocked put ends at its timeout. `ProcessIngest`: children run and `main()`
calls `supervise()` every second. `ApiPoller`: a thread's loop goes on, one at a time
under its connection's lease. `StorageBatch`: the flusher wakes up. The
services: their loops go on, one at a time under a lease that expires when its
holder is gone; each reader of the export goes on asking (weak fairness per reader
is enough, because nothing holds a request off but another's transaction, which
ends). Deployment:
systemd starts a service again, the timer fires, and an operator repeats what was
cut off; none of the faults is fair. Liveness is stated as `[]<>P`, where a
request could be withdrawn (a connection switched off, a schedule changed), so
that a leads-to would be about the wrong request.

### Findings (runs that TLC violates)

* **MCTicketSlow**: five POSTs of 15 s do not fit under the dispatcher's 60 s
  lease; a second process sends the alert the first one is sending
  (`workers.py:295` says it never happens).
* **MCWorkflowForced**: overlapping requests force a move
  (`dashboard.py:1778-1779`).
* **MCTriageWedged**: on PostgreSQL the SELECT that looks for a twin
  (`source_ip IS ?`) is a syntax error for every alert with a source address; it
  is caught without a rollback, so the cycle ends before the attempt is counted and
  the alert heads the queue for ever (`ai_worker.py:17-18`: "one bad alert can't
  wedge the queue").
* **MCUpgradeStuck**: an upgrade interrupted with SERVICES_INSTALLED in its journal
  cannot be recovered: the recovery begins with a phase the journal refuses
  (`DEVELOPMENT.md:911`). The run assumes that the state tool can be imported
  (`ToolsImport = TRUE`, a `PYTHONPATH` that names the source tree); as shipped no
  upgrade gets so far, see the divergences.
* **MCSchemaTooOld**: on a SQLite database of a release before an indexed column
  `initialize()` creates the index first and raises at every start
  (`db.py:1216-1217`).

### Known divergences without a run

The properties state what holds all the same; these are the exceptions they make.

* Leases: a process that once met the missing table answers `holds()` with True
  for ever, also after the owner has run schema initialization and another process
  owns the row (`leases.py:95-96` never resets `unavailable`; lines 17-19 promise the
  local behaviour "until the owner runs schema initialization"). `hold()` itself
  goes by the row again.
* Ingest: a message put between `qsize()` and `close()` of a dead child's queue is
  lost and not counted (`CountError` bounds by how much); `submit` may raise
  `ValueError` on that queue and end a TCP connection's thread; SIGTERM inside
  `supervise()` may make `stop()` raise; a child killed with the counters' lock
  stops the counting for good, and if `supervise()` is replacing another child
  then, that child's backlog is never counted (`Unrecorded`).
* Storage: a commit that raises ends the flusher's thread, and a clean stop with
  batched commits loses the tail (`TailFlushed` is about a living flusher).
* Workflow: an overlapping request may revert another's change without an event
  (`AloneIsTold` says what the history promises where nothing overlapped).
* Triage: "never sent to the AI twice" fails when a cycle outlives its 60 s lease
  (`OneAnswerPerGroup` excepts trouble).
* Pollers: a thread that an exception ended stays in `_threads` and is not
  replaced (`Stranded`).
* Triage also answers two alerts of one rule and source when `dedup_groups` is off or
  more than six hours lie between them, which is what the code is meant to do.
* Relay: the count of a destination may be too low; it may be too high by a count
  that was flushed while a worker stood inside `pending_count += 1` and stored it
  back (`writtenBack`); two workers' pieces may mix on one socket (`mixed`).
* Detection: on PostgreSQL an occurrence may go into an alert that is being
  resolved.
* Export: of two refreshes of a lane that run side by side, on SQLite or PostgreSQL,
  one may store a number it read before the other committed, so that a number is
  given twice, the counter falls back and a reader skips a record (`reissued`).
  `RECOVERY_2026-10-28.md:111-112` lists sequence allocation as an open gap. While
  no number was given twice, overlapping refreshes skip nothing.
* Archive: two cycles at once may put an event into two segments, and the summary
  counts it twice.
* Feeds: a feed whose rows the database rejects ends the pass, and the feeds behind
  it wait for ever; two fetches at once may store an indicator twice.
* Agent: a failed send drops the line; a file exchanged between `stat()` and
  `open()` may be read twice. A reader of the journal without a saved cursor (first
  start, or a state file that could not be written) passes what came while it was
  down (the header of the agent: a restart does not "replay or skip events"). The Windows
  agent repeats a batch when it ends within it, and everything when it ends within
  the write of its state file ("so restarts never duplicate", `MiniSiemAgent.ps1:12`).
* Fields: on PostgreSQL two re-indexing jobs of two dashboard processes leave a log
  with both sets of fields; a log evicted within a job's batch leaves fields behind
  ("so no orphaned hot rows remain", `archive.py`). `get_conn()` of the job is
  outside its `try`, so a failure there leaves `running` set, and every later request
  is refused until the dashboard restarts.
* Backups: a PostgreSQL backup made while the schema moves has the older ledger in
  its manifest, and every restore of it is refused. SQLite copies that were cut off,
  or whose check raised, stay in the directory and count as copies.
* Installation: killed between the checkpoint and the secrets file, or after the
  configuration was rewritten, a `--resume` is refused. Upgrade: the ERR handler
  archives the journal before it restarts the services, so a kill there leaves
  them stopped without a record; a reboot may start old code on a new schema. So may
  a `systemctl stop` that fails: its `|| true` (`upgrade-existing.sh:283-286`) journals
  SERVICES_STOPPED with the old services running, which keep writing into the
  copied database ("Copy persistent runtime state only after services are stopped",
  line 344) and meet the migrated schema (`unstopped`).
* Upgrade: the state tool does not start. `python3 "$STATE_TOOL" init`
  (`upgrade-existing.sh:275-280`) has `tools/` as `sys.path[0]` and no `PYTHONPATH`, so
  `from tools.fresh_install_state import source_fingerprint`
  (`tools/upgrade_cutover_state.py:17`) raises `ModuleNotFoundError`, and `set -e` ends
  the script after the staging, before the services are stopped. It fails safe, but
  no existing installation can be upgraded by it. What the runs and proofs say of
  upgrades holds where the import succeeds; the theorems cover both values of
  `ToolsImport`.
* Schema: an ALTER that was committed without its ledger row makes every later
  start raise (`Torn`); the upgrade of PostgreSQL does not add workflow columns that
  are missing. Partitions: events stamped ahead of time keep the partition of their
  month, and all others of the same call, from being made (`Refuses`).

## 4. Proofs

TLC checks the instances of section 3; the theorems below hold for every value of
the constants that the named assumptions allow. They are proved from an inductive
invariant (initial states have it, every step keeps it, it implies the property).
Eight modules hold them: `TicketDispatch_proof` (with the leases), `Ingest_proof`,
`Services_proof` (with the storage), `Alerts_proof` and `Lines_proof` for the parts of
MCRecords and `Records_proof` for their composition, `Deployment_proof`, and `Sums`, the
lemmas about sums over a set that the counting arguments need. Every invariant
that a passing run checks is a theorem, and so are the action properties. The assumptions on
constants say that counts are natural numbers, that sets of actors and things are
finite where something is counted over them, and that a placeholder such as
`"nobody"` is none of them; every other hypothesis is named below.

### Leases and tickets

`TicketDispatch_proof`, for all processes, jobs, TTLs, cycle lengths and skews
(`NoOwnerAssumption`, `TimeAssumption`):

* `TypeCorrect`: `Spec => []TypeOK`.
* `LeaseLagHolds`: without any assumption on cycle lengths, for a process that has
  never run without the table. `LeaseLag` is not
  inductive: nothing in it says what a claim in flight is worth. `LagInv` adds
  that a granted claim or a dict entry that the row no longer names ends before
  the clock that took the row over, and that no clock value read lies in the
  future. A takeover needs `expires_at < now`, and two readings differ by at
  most `Skew`.
* `RunBackedHolds` and `OneProcessAtATime` (under `CycleFits`): the invariant
  says of every granted or running cycle that the row is its own and ends no
  earlier than its claim, and `Tick` keeps the clock inside the cycle; the lemma
  `NoClaimUnderRunner` derives that no other process finds that row expired.
* `LeasesImplementJobMutex` (under `CycleFits`): every step of `Leases` is a start,
  a stop (a crash stops several jobs at once) or a stutter of `JobMutex`.

and, for all alerts, batches and attempt limits:

* `TicketsUseLeases`: every behaviour of the dispatchers is one of `Leases`, so its
  theorems carry over. `TicketTypeCorrect` needs no more.
* `OneSenderHolds`, `TicketsAccountedHolds`, `SettledStaysHolds` (under `CycleFits`):
  `run_once` writes by id without looking at the status again, so what makes a
  write right is that the snapshot is still true. The invariant says so of every
  row of a batch not yet worked off (its status is open and its attempts are the
  table's), and that each ticket is in the row, in the POST in hand, or counted as
  lost; another process could only disturb it while it runs the same job, which
  `OneProcessAtATime` excludes. Without `CycleFits` TLC refutes it (MCTicketSlow).

### Ingest and storage

`Ingest_proof`, for all receivers, senders, routes, numbers of workers, keys and
queue sizes:

* `PipelineTypeCorrect`, `TasksOwedHolds`: inductive once it is known that a worker has
  a message in hand exactly while it is busy (`HandOK`).
* `DrainHandlesHolds`: the drain looks at one queue after the other, so nothing is
  known of all of them at once. `DrainOK` says that every message accepted before
  the shutdown is done or with a worker whose queue is still to be waited for; by
  `TasksOwed` a queue without unfinished tasks holds none of them.
* `PerSenderOrderHolds`: `OrderInv` follows a message from the receiver that blocks on
  it through the queue and the worker's hand to `done`; each is in order and each
  comes after the next one, because `QueueOf` depends on the sender only.
* `EveryMessageCountedHolds`: every message is in one place and every counter is
  the sum over the places it counts.
* `KeyOrderHolds`: a submit that overlaps a restart may put its message into the
  old queue object. The invariant orders, for each key and receiver, what is
  stored, in a child's hand, in the slot's queue object and in the submit under way, and
  says of an older generation that nobody reads it any more.
* `CountErrorHolds`: the sum over slots of what is counted differs from the accepted
  messages by those in the window between `qsize()` and `close()`, by what
  `supervise()` has read of a replaced queue and not yet counted, and by one per
  restart. `EitherMode` makes both specifications parts of MCIngest's, which gives
  `IngestTypesHold` and `CountersAddUpHold`.
* `PulledOnceHolds`: what is behind a cursor, stored or in a thread's hand, has been
  ingested. Undisturbed, one process has the lease for good, and its one thread is
  the only one that ingests, from the stored cursor on.

`Services_proof`, for all workers, configurations and bounds
(`StorageAssumption`):

* `StorageTypeCorrect`, `PendingCoversHolds`.
* `EvidenceStoredHolds`, `ProcessedStoredHolds`: with a commit per event `EachStored`
  holds: nothing of `logs` is ever uncommitted, so a rollback changes nothing and
  every reference to a row (in a worker, in the hits, in an alert) stays good.
* `HitsUsedOnceHolds`, in every configuration: an event that a burst may still use is
  in one place, with the worker that stored it, in the hits, in a burst handed
  over, or in one alert; numbers not yet received are in none.

### Lines, events and alerts

`RecordsSideBySide` (`Records_proof`) gives each part of MCRecords its own
specification, so that what `Alerts_proof` and `Lines_proof` prove of the parts holds of
the composition (`RecordTypesHold`, `ParsedExactlyHolds`):

* `WorkflowTypeCorrect`; `ClosedWasResolvedHolds`: `ResolvedInv` says the same of the
  rows that requests have read, because that is what they act on, and `RipeMoves`
  that an alert becomes `closed` only from `resolved` or `closed`.
  `AloneIsToldHolds`: of an alert that is not raced, at most one request has read the
  row, and what it has read is what the row still is.
* `EvidenceKeptHolds`: `EvidenceKept` does not say what a cycle is about to do.
  `CycleOK` does: the rows a cycle is about to evict are in intact segments, and
  the file it is about to catalog is intact and has its rows. Both are found out
  in an earlier transaction; they stay true because a sealed segment is never
  taken back, a file's number is never used twice (`Build`), and `Damage` is
  assumed not to hit a file between its check and the transaction that relies on
  it, nor a file whose rows were evicted, which then has the only copy (the code
  checks before it evicts; what happens to the last copy is a matter of backups).
  `ArchiveImplementsEventStore`: under that invariant every transaction is a step of
  `EventStore` (an event stored, copies made, events archived, copies lost while
  their events are hot) or a stutter.
* `ArchTypeCorrect`: the rows a cycle reads are `Oldest(S)`; each has at most `BatchRows`
  rows of `S` up to it, so the greatest one says that a segment takes no more
  (`OldestFew`, `SmallBatches`).
* `FindingsAccountedHolds`, `EmitTypeCorrect`: whoever works on a stream holds the
  lock of its row, so what it has read of the link is still true; a stream that
  was not split is linked to its only alert; the sum of the occurrences is the
  number of findings.
* `LinesForwardedHolds`: the offset the tail holds belongs to one generation, and the
  saved one to the same or an earlier; the journal's reader leaves no gap before
  any cursor it or the file has; the Windows agent's file is its memory between
  batches, and beyond the file at most one batch was delivered.
* `FieldsExactHolds`: `FieldInv` says which logs are in a job's batch and that the logs a
  job covers are, up to its last committed batch, rebuilt with its patterns or
  newer ones, and behind it not skipped. Where writers exclude each other (on SQLite,
  or while no two jobs have met) a stored log has exactly one set of fields, and
  what a DELETE has seen of a log is what is still stored; where two jobs meet on
  PostgreSQL it may have both, which is the exception the property makes.
* `FramesExactHolds`: the property compares what was delivered with the frames of the
  whole stream, and is not inductive, because nothing in it says what a half-read
  buffer will become. `FrameInv` looks forward: for every `t` that may still follow,
  the frames of `stream \o t` are those delivered, followed by the frames of
  `buffer \o t`. So a chunk that arrives changes nothing, each turn of the loop
  takes exactly the first frame off the buffer, whatever follows it, and the two
  ways to decide a mode agree with what the whole stream says (`Decided`). With `t`
  empty it gives the property.
* `RelayHonestHolds`: an open connection is the socket of one object at most, half a
  message belongs to the worker in it or to nobody, and each message of a worker is
  counted in one place: in hand, in the object's counter, or in the row. The
  invariant says the same of the count that a worker has read, in place of its
  object's counter: a count zeroed since then is in `writtenBack`.
* `OutagesWarnedHolds`: a noted event is in the row or in a note that a tick will
  still find, and some monitor's tick starts soon enough. The attempt to prove an
  earlier bound of `OutageIsAlerted` showed that it was wrong: `_run()` waits for
  its interval after a tick has ended, not from its start, so that a slow tick
  delays the next one, and each failed tick costs its lag once more. TLC had not
  seen it with a lag of 1; the model and the bound were corrected.

### Services

`Services_proof`, for all processes, findings, items, alerts, records, readers and
indicators, with `ServicesSideBySide` as above:

* `OneAlertPerFindingHolds`: what a scheduler has inserted and not committed has no
  alert yet, and unless the lease let two run at once, all others are idle.
* `TriageAccountedHolds`: an attempt that is counted, or about to be, has failed.
  Without trouble only the holder of the lease works, and what the model answered is
  stored before the next alert is taken up; it is found again until it is old.
* `NoRecordSkippedHolds`, with refreshes that overlap: until a number is given twice,
  the next one, in the table and in the transaction that writes, is above every
  number given and every reader's position, and the rows of the transaction that
  writes are the committed ones or have newer numbers, so that a changed record is
  new to all readers.
  What breaks it is exactly the step that sets `reissued`.
* `IndicatorsConsistentHolds`: until two fetches or imports overlap, one at a time
  looks up and inserts, and what it is going to store has no row.
* `ServiceTypesHold`.

### Deployment

`Deployment_proof`, for all backup requests, restore commands, services, versions,
months, logs and backfills, with `DeploymentSideBySide`:

* `DatabaseReadyHolds`: *schema* - tables, columns and the ledger only grow, what the
  ledger has of tables and indexes was built, and a service that is starting on
  SQLite has run the base statements; *projections* - a backfill that runs alone
  has added only logs without one, and of those that overlap each adds one row at
  most to a log; *partitions* - what the daily job did last month holds for good:
  a month it made stays, and if it was refused by events stamped ahead it stays
  refused, since those are never taken away. It assumes `Window > 1`: the timer
  passes three months, while the tool accepts 1, with which a month
  begins before the job of that day has run.
* `RecoveryMaterialHolds`: *rotation* - requests list the files, then remove what they
  listed while others add and remove. The verified files keep their order in the
  directory, so from the moment any request has a list, `KeepCopies` files exist that no
  list has (each verified, unfinished, or spoiled and counted as such); a later list
  cannot contain them, because it begins with files that are older. *Backups* - between
  the reading of the ledger and the manifest the command knows whether the
  schema moved; a database that a command loads or is to drop is its own and was
  not reported.
* `CutoversSafeHold`: both scripts are sequences of commands, and a run of one is a
  tail of one of three sequences (upgrade, error handler, recovery; bootstrap and
  installation). *Upgrade* - for each place in the script the invariant says what
  the commands before it have left: which trees exist, that the stage has the rows
  of the stable tree, that the services are down; and for each phase of the journal,
  what is true whatever the script was cut off at, since that is all a recovery has to
  go by: a tree that is missing means a phase between the migration and the
  swap, in which the staged tree is complete. Rows and services are claimed until a
  reboot, which starts the services in the middle, or a stop that fails and is
  ignored (`unstopped`). *Installation* - there are two
  sets of passwords at most, the second made once: when it has been dropped the
  checkpoint is at its end and no resume is possible. A foreign database has a
  foreign owner, so the migration is refused, and services are up only after roles,
  files and schema came from one set.
* `DeploymentTypesHold`.

`RunExclusive`, `RunBacked`, `TasksOwed`, `ProcessedStored` and `EvidenceKept` are proved
and in no run: they are the parts of the argument (or, for `RunExclusive` and
`EvidenceKept`, the state form) of properties that the runs check.

### Sums, and induction

The library's induction theorems take an operator as a parameter, which the
provers cannot instantiate. `Sums` therefore proves what it needs of
`SumFunctionOnSet` (a set and one more, one summand changed, zero everywhere) by a
least counterexample in the naturals, once for that definition. `RecursionOn` in
`Lines_proof` does the same for the two recursive functions of `TcpFramer`, which call
themselves on what is left of a sequence behind its first frame: functions that agree
with the equation on all shorter sequences exist for every length, by a least
length without one, any two of them agree, and their union is the function that
is defined. What it computes follows by unfolding the equation once per step of
`feed()`.

### Only model-checked

Liveness (`TakeOver`, `EveryAlertSettles`, `IngestGoesOn`, `TailFlushed`, `ServicesWork`,
`DeploymentEnds`): fairness and ENABLED are out of the prover's reach.

## 5. Not modelled

Inside the modelled parts:

* Data: message contents, parsing, templates, headers, notes, the words of
  alerts. A message is its number, its sender or its key.
* `StorageBatch`: `insert_log_batch`, IOC records and field-based findings, which
  commit and roll back as the rest does; ids on PostgreSQL, which a rollback does
  not give back; more than one key and one rule.
* `ProcessIngest`: messages whose parsing fails, which only count elsewhere.
* `AiTriage`: the token budget and the prompt. `DetectionEmit`: the correlation
  windows and the rules that lead to a finding.
* `DashboardExport`: a snapshot that is read in several pages, tokens and rates.
* `Forwarder`: UDP, filters, and the text of a forwarded message.
* `ThreatFeeds`: the shapes of indicators and feed formats.
* `SchemaLedger`: what a table looks like beyond what a version adds to it.
* `BackupRestore`: two backup commands that write the same archive; the checks of
  versions, roles and checksums before a restore. `WinAgent`: the syslog relay, which
  keeps no state. `FieldReindex`: which field a pattern extracts.
* `EventPartitions`: the week and day layouts and the partitions of `log_fields`
  (`event_storage_v2.py:176-214`); only the months of the events are modelled.
* `Archive`: cycles without `verify_on_create`; `maintenance.py`, which vacuums and
  computes statistics.

Whole components: the dashboard's search and pages (single statements and
rendering), authentication, secrets and address checks (library
calls within one request), health, diagnostics and capacity (values computed from
the other components' counters), and the tests and release records, which
were read for what they say of the program. `src/return/` holds a copy of an
earlier source tree and is nobody's runtime. These make up most of the lines of
the repository: pages, forms, parsers of one vendor's format each, diagnostics;
they have hardly any state that outlives a statement, and a model of them would
repeat their text.

## 6. Plan

1. Done: the modules of section 2, one run per group of components, the proofs of
   section 4: every invariant and action property of the runs is a theorem.
2. Next, models: a paged snapshot in `DashboardExport`, correlation windows beside
   `DetectionEmit`, IOC records and findings inside `StorageBatch`. Each would add its
   invariant to the run of its group, and a section to that group's proof module.
