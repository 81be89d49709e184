---------------------------- MODULE FieldReindex ----------------------------
(***************************************************************************)
(* normalize.py, reindex(), and the dashboard's job that runs it: the      *)
(* extracted fields of all logs are replaced, batch by batch, while logs   *)
(* are ingested and evicted, patterns change and a job of another          *)
(* dashboard process does the same.  The rows of a log that were inserted  *)
(* together are one set, of the patterns it was extracted with.            *)
(***************************************************************************)
EXTENDS Naturals, FiniteSets, FiniteSetsExt

CONSTANTS Jobs,            \* dashboard processes, one job at a time each
          FieldBackends,   \* subset of {"sqlite", "postgres"}
          MaxLogs,         \* bound on the ids of logs
          BatchLogs,       \* batch_size=500
          MaxPatterns,     \* bound on the saved pattern lists
          MaxRuns          \* bound on the jobs a process starts
ASSUME FieldAssumption ==
  /\ FieldBackends \subseteq {"sqlite", "postgres"} /\ "ingest" \notin Jobs
  /\ MaxLogs \in Nat /\ BatchLogs \in Nat \ {0} /\ MaxPatterns \in Nat \ {0}

VARIABLES
  fieldDb,    \* the backend
  patterns,   \* the saved pattern list, numbered
  lastLog, pendingLogs, logs,   \* ids given out, uncommitted and stored
  fields,     \* log -> its committed sets [by, run, patterns]
  job,        \* per process: [at, run, patterns, max, last, rows, seen]
  running,    \* per process: _reindex_state["running"]
  promised,   \* history: log -> patterns of the last job that promised it
  covers,     \* history: the logs stored when a job started
  met,        \* history: two jobs were at work at once
  evictedIn   \* history: logs evicted while a job had them in its batch
fieldVars == <<fieldDb, patterns, lastLog, pendingLogs, logs, fields,
               job, running, promised, covers, met, evictedIn>>
logVars == <<lastLog, pendingLogs, logs>>
fieldHistory == <<promised, covers, met, evictedIn>>

LogIds == 1..MaxLogs
NoRows == [l \in LogIds |-> {}]
NoJob(n) == [at |-> "idle", run |-> n, patterns |-> 0, max |-> 0, last |-> 0,
             rows |-> {}, replaced |-> {}, seen |-> NoRows]
FieldInit ==
  /\ fieldDb \in FieldBackends /\ patterns = 1
  /\ lastLog = 0 /\ pendingLogs = {} /\ logs = {} /\ fields = NoRows
  /\ job = [j \in Jobs |-> NoJob(0)] /\ running = [j \in Jobs |-> FALSE]
  /\ promised = [l \in LogIds |-> 0] /\ covers = [j \in Jobs |-> {}]
  /\ met = FALSE /\ evictedIn = {}

SavePatterns ==
  /\ patterns < MaxPatterns /\ patterns' = patterns + 1
  /\ UNCHANGED <<fieldDb, logVars, fields, job, running, fieldHistory>>
\* FieldIndexer loads the list now and then: a log has that of its ingest
Loaded == 1..patterns

\* SQLite: an uncommitted row holds the writer lock
Writes(j) == job[j].replaced # {} \/ job[j].at = "insert"
WriterFree(j) == fieldDb = "sqlite" => pendingLogs = {} /\ \A k \in Jobs \ {j} : ~Writes(k)
\* insert_log: the log and its fields in one transaction; on PostgreSQL
\* several of them are open
InsertLog ==
  /\ lastLog < MaxLogs /\ lastLog' = lastLog + 1
  /\ fieldDb = "sqlite" => \A k \in Jobs : ~Writes(k)
  /\ pendingLogs' = pendingLogs \cup {lastLog + 1}
  /\ UNCHANGED <<fieldDb, patterns, logs, fields, job, running, fieldHistory>>
CommitLog(l) ==
  /\ l \in pendingLogs /\ (fieldDb = "sqlite" => l = Min(pendingLogs))
  /\ pendingLogs' = pendingLogs \ {l} /\ logs' = logs \cup {l}
  /\ \E g \in Loaded :
       fields' = [fields EXCEPT ![l] = {[by |-> "ingest", run |-> 0, patterns |-> g]}]
  /\ UNCHANGED <<fieldDb, patterns, lastLog, job, running, fieldHistory>>
\* archive.py, _remove_hot_copies_locked: a log and the fields it sees, which
\* on PostgreSQL are never those that a job is about to commit
EvictLog(l) ==
  /\ l \in logs /\ logs' = logs \ {l} /\ fields' = [fields EXCEPT ![l] = {}]
  /\ fieldDb = "sqlite" => pendingLogs = {} /\ \A k \in Jobs : ~Writes(k)
  /\ evictedIn' = evictedIn \cup ({l} \cap UNION {job[k].rows \cup job[k].replaced : k \in Jobs})
  /\ UNCHANGED <<fieldDb, patterns, lastLog, pendingLogs, job, running,
                 promised, covers, met>>

AtWork(j) == job[j].at # "idle"
SetJob(j, rec) == job' = [job EXCEPT ![j] = rec]
\* api_norm_reindex: 409 while running
StartJob(j) ==
  /\ ~running[j] /\ job[j].run < MaxRuns
  /\ running' = [running EXCEPT ![j] = TRUE]
  /\ SetJob(j, [NoJob(job[j].run + 1) EXCEPT !.at = "start"])
  /\ UNCHANGED <<fieldDb, patterns, logVars, fields, fieldHistory>>
\* get_conn() is outside the try: the flag stays
ConnectFails(j) ==
  /\ job[j].at = "start" /\ SetJob(j, NoJob(job[j].run))
  /\ UNCHANGED <<fieldDb, patterns, logVars, fields, running, fieldHistory>>
\* the patterns, and MAX(id)
BeginJob(j) ==
  /\ job[j].at = "start"
  /\ SetJob(j, [job[j] EXCEPT !.at = "read", !.patterns = patterns,
                            !.max = IF logs = {} THEN 0 ELSE Max(logs)])
  /\ covers' = [covers EXCEPT ![j] = logs]
  /\ met' = (met \/ \E k \in Jobs \ {j} : job[k].at \notin {"idle", "start"})
  /\ UNCHANGED <<fieldDb, patterns, logVars, fields, running, promised, evictedIn>>
NextBatch(j) == {l \in logs : /\ l > job[j].last
                              /\ Cardinality({k \in logs : job[j].last < k /\ k <= l}) <= BatchLogs}
ReadLogs(j) ==
  /\ job[j].at = "read" /\ job[j].last < job[j].max /\ NextBatch(j) # {}
  /\ SetJob(j, [job[j] EXCEPT !.at = "delete", !.rows = NextBatch(j)])
  /\ UNCHANGED <<fieldDb, patterns, logVars, fields, running, fieldHistory>>
\* DELETE FROM log_fields: what is committed when the statement begins
DeleteFields(j) ==
  LET l == Min(job[j].rows) IN
  /\ job[j].at = "delete" /\ job[j].rows # {} /\ WriterFree(j)
  /\ SetJob(j, [job[j] EXCEPT !.at = "insert", !.seen[l] = fields[l]])
  /\ UNCHANGED <<fieldDb, patterns, logVars, fields, running, fieldHistory>>
\* ... but on PostgreSQL it waits for a job that deletes the same rows (and
\* the UPDATE of the projection for one that updates it, if the log has one)
InsertFields(j) ==
  LET l == Min(job[j].rows) IN
  /\ job[j].at = "insert"
  /\ \A k \in Jobs \ {j} : l \in job[k].replaced => job[k].seen[l] \cap job[j].seen[l] = {}
  /\ SetJob(j, [job[j] EXCEPT !.at = "delete", !.rows = @ \ {l},
                            !.replaced = @ \cup {l}, !.last = l])
  /\ UNCHANGED <<fieldDb, patterns, logVars, fields, running, fieldHistory>>
NewSet(j) == [by |-> j, run |-> job[j].run, patterns |-> job[j].patterns]
ReplacedTwice(j, l) == fields[l] \cup {NewSet(j)}     \* mutant: no DELETE
Replaced(j, l) == (fields[l] \ job[j].seen[l]) \cup {NewSet(j)}
CommitBatch(j) ==
  /\ job[j].at = "delete" /\ job[j].rows = {}
  /\ fields' = [l \in LogIds |-> IF l \in job[j].replaced THEN Replaced(j, l) ELSE fields[l]]
  /\ SetJob(j, [job[j] EXCEPT !.at = "read", !.replaced = {}, !.seen = NoRows])
  /\ UNCHANGED <<fieldDb, patterns, logVars, running, fieldHistory>>
\* reindex returns; `finally` clears the flag
EndJob(j) ==
  /\ job[j].at = "read" /\ (job[j].last >= job[j].max \/ NextBatch(j) = {})
  /\ SetJob(j, NoJob(job[j].run)) /\ running' = [running EXCEPT ![j] = FALSE]
  /\ promised' = [l \in LogIds |-> IF l \in covers[j] THEN job[j].patterns ELSE promised[l]]
  /\ covers' = [covers EXCEPT ![j] = {}]
  /\ UNCHANGED <<fieldDb, patterns, logVars, fields, met, evictedIn>>
\* an error: the connection is closed with its transaction; or the
\* dashboard starts again
AbortJob(j) ==
  /\ AtWork(j) \/ running[j]
  /\ SetJob(j, NoJob(job[j].run)) /\ running' = [running EXCEPT ![j] = FALSE]
  /\ covers' = [covers EXCEPT ![j] = {}]
  /\ UNCHANGED <<fieldDb, patterns, logVars, fields, promised, met, evictedIn>>

JobStep(j) == \/ StartJob(j) \/ ConnectFails(j) \/ BeginJob(j) \/ ReadLogs(j)
              \/ DeleteFields(j) \/ InsertFields(j) \/ CommitBatch(j) \/ EndJob(j)
FieldNext == \/ SavePatterns \/ InsertLog
             \/ \E l \in LogIds : CommitLog(l) \/ EvictLog(l)
             \/ \E j \in Jobs : JobStep(j) \/ AbortJob(j)
FieldSpec == FieldInit /\ [][FieldNext]_fieldVars

FieldTypeOK ==
  /\ fieldDb \in FieldBackends /\ patterns \in 1..MaxPatterns
  /\ logs \cap pendingLogs = {} /\ logs \cup pendingLogs \subseteq 1..lastLog
  /\ \A j \in Jobs : /\ job[j].at \in {"idle", "start", "read", "delete", "insert"}
                     /\ AtWork(j) => running[j]
  /\ \A l \in LogIds : \A s \in fields[l] : s.patterns \in 1..MaxPatterns

(* "Replaces each log's rows": a stored log has one set of fields, however  *)
(* jobs fail and logs arrive, unless two jobs overlap on PostgreSQL, where  *)
(* one does not see the rows that the other has just inserted.              *)
OneSetOfFields ==
  (met /\ fieldDb = "postgres") \/ \A l \in logs : Cardinality(fields[l]) = 1
(* "for ALL logs using the currently saved patterns": of the logs stored    *)
(* when a job that ended had started, none has fields of older patterns.    *)
(* (Logs committed later keep those of the ingest; two jobs may end in the  *)
(* other order.)                                                            *)
RebuiltWithCurrent ==
  met \/ \A l \in logs : \A s \in fields[l] : s.patterns >= promised[l]
(* "so no orphaned hot rows remain after raw evidence is evicted": fields   *)
(* without their log are only those of logs evicted within a job's batch.   *)
OrphansExplained == \A l \in LogIds \ (logs \cup evictedIn) : fields[l] = {}
(* The fields of a log are one set, its own and up to date.                 *)
FieldsExact == OneSetOfFields /\ RebuiltWithCurrent /\ OrphansExplained
=============================================================================
