-------------------------- MODULE DashboardExport --------------------------
(***************************************************************************)
(* dashboard_connector.py: readers that mirror one lane page by page.  A   *)
(* request first refreshes the exported records in one transaction, giving *)
(* each changed record the next stream_sequence, then returns the records  *)
(* above the reader's position.  Nothing keeps two refreshes apart: on both *)
(* databases their SELECTs, that of the next number among them, run side by  *)
(* side, and only the first write waits for the other's commit.             *)
(***************************************************************************)
EXTENDS Naturals, FiniteSets, FiniteSetsExt

CONSTANTS Readers,      \* requests that may be in progress at a time
          Records,      \* native records of the lane, 1..n in id order
          MaxVersion,   \* record -> bound on its changes
          PageSize,     \* limit=
          MaxAborts,    \* bound on the requests that fail
          NoReader      \* no reader
ASSUME ExportAssumption == /\ NoReader \notin Readers
                           /\ PageSize \in Nat \ {0} /\ MaxVersion \in [Records -> Nat]
                           /\ Records \subseteq Nat \ {0} /\ IsFiniteSet(Records)
                           /\ MaxAborts \in Nat

VARIABLES
  source,     \* native records: version of the content, 0 before it exists
  exported,   \* dashboard_export_records: [seq, ver], zeros if none
  counter,    \* dashboard_export_counters.next_sequence
  txn,        \* the writing transaction: [by, rows, next]
  request,    \* per reader: [at, cand, pos, seq, mark]; cand holds the
              \* candidates still to be compared
  position, \* the reader's cursor, 0 before its first snapshot
  started,    \* the reader has its snapshot
  mirror,     \* versions the reader has been given
  aborts,     \* requests that have failed
  reissued    \* history: a number was stored that another refresh had given out
              \* since it was read
exportVars == <<source, exported, counter, txn, request, position, started,
                mirror, aborts, reissued>>

None == [seq |-> 0, ver |-> 0]
NoTxn == [by |-> NoReader, rows |-> [x \in Records |-> None], next |-> 1]
Ended == [at |-> "idle", cand |-> [x \in Records |-> 0], pos |-> 1, seq |-> 0, mark |-> 0]

ExportInit ==
  /\ source = [x \in Records |-> 0] /\ exported = [x \in Records |-> None]
  /\ counter = 1 /\ txn = NoTxn
  /\ request = [r \in Readers |-> Ended]
  /\ position = [r \in Readers |-> 0] /\ started = [r \in Readers |-> FALSE]
  /\ mirror = [r \in Readers |-> [x \in Records |-> 0]] /\ aborts = 0 /\ reissued = FALSE

\* a transaction reads its own writes, the others what is committed
Rows(r) == IF txn.by = r THEN txn.rows ELSE exported
Next_(r) == IF txn.by = r THEN txn.next ELSE counter

Change(x) ==
  /\ source[x] < MaxVersion[x]
  /\ source' = [source EXCEPT ![x] = @ + 1]
  /\ UNCHANGED <<exported, counter, txn, request, position, started, mirror, aborts, reissued>>
\* _refresh_lane reads the native records in one statement
Get(r) ==
  /\ request[r].at = "idle"
  /\ request' = [request EXCEPT ![r] = [Ended EXCEPT !.at = "compare", !.cand = source]]
  /\ UNCHANGED <<source, exported, counter, txn, position, started, mirror, aborts, reissued>>
Changed(r, x) == request[r].cand[x] \notin {0, Rows(r)[x].ver}
Passed(q) == [q EXCEPT !.at = "compare", !.cand[q.pos] = 0, !.pos = @ + 1, !.seq = 0]
Compare(r) ==
  LET x == request[r].pos IN
  /\ request[r].at = "compare" /\ x \in Records
  /\ request' = [request EXCEPT ![r] =
       IF Changed(r, x) THEN [@ EXCEPT !.at = "number"] ELSE Passed(@)]
  /\ UNCHANGED <<source, exported, counter, txn, position, started, mirror, aborts, reissued>>
\* _next_sequence reads the counter ...
Number(r) ==
  /\ request[r].at = "number"
  /\ request' = [request EXCEPT ![r].at = "write", ![r].seq = Next_(r)]
  /\ UNCHANGED <<source, exported, counter, txn, position, started, mirror, aborts, reissued>>
\* ... and writes it back, then the record, when no other transaction writes
Write(r) ==
  LET q == request[r] IN
  /\ q.at = "write" /\ txn.by \in {r, NoReader}
  /\ reissued' = (reissued \/ q.seq # Next_(r))
  /\ txn' = [by |-> r, next |-> q.seq + 1,
             rows |-> [Rows(r) EXCEPT ![q.pos] =
                         [seq |-> q.seq, ver |-> q.cand[q.pos]]]]
  /\ request' = [request EXCEPT ![r] = Passed(q)]
  /\ UNCHANGED <<source, exported, counter, position, started, mirror, aborts>>
Commit(r) ==
  /\ request[r].at = "compare" /\ request[r].pos \notin Records
  /\ exported' = Rows(r) /\ counter' = Next_(r)
  /\ txn' = IF txn.by = r THEN NoTxn ELSE txn
  /\ request' = [request EXCEPT ![r] =
                   [Ended EXCEPT !.at = IF started[r] THEN "page" ELSE "mark"]]
  /\ UNCHANGED <<source, position, started, mirror, aborts, reissued>>

\* _new_snapshot: the watermark, then the records up to it
Mark(r) ==
  /\ request[r].at = "mark"
  /\ request' = [request EXCEPT ![r].at = "snapshot",
                   ![r].mark = Max({0} \cup {exported[x].seq : x \in Records})]
  /\ UNCHANGED <<source, exported, counter, txn, position, started, mirror, aborts, reissued>>
Give(r, xs) == mirror' = [mirror EXCEPT ![r] =
                 [x \in Records |-> IF x \in xs THEN exported[x].ver ELSE @[x]]]
Snapshot(r) ==
  LET m == request[r].mark IN
  /\ request[r].at = "snapshot"
  /\ Give(r, {x \in Records : exported[x].seq # 0 /\ exported[x].seq <= m})
  /\ position' = [position EXCEPT ![r] = m]
  /\ started' = [started EXCEPT ![r] = TRUE]
  /\ request' = [request EXCEPT ![r] = Ended]
  /\ UNCHANGED <<source, exported, counter, txn, aborts, reissued>>
\* _page_records: the first rows above the position by stream_sequence
IsPageInAnyOrder(r, xs) ==
  LET above == {x \in Records : exported[x].seq > position[r]} IN
  xs \subseteq above /\ Cardinality(xs) = Min({PageSize, Cardinality(above)})
IsPage(r, xs) ==
  LET above == {x \in Records : exported[x].seq > position[r]} IN
  /\ xs \subseteq above
  /\ Cardinality(xs) = Min({PageSize, Cardinality(above)})
  /\ \A x \in xs, y \in above \ xs : exported[x].seq <= exported[y].seq
Page(r) ==
  /\ request[r].at = "page"
  /\ \E xs \in SUBSET Records :
       /\ IsPage(r, xs) /\ Give(r, xs)
       /\ position' = [position EXCEPT ![r] =
            Max({@} \cup {exported[x].seq : x \in xs})]
  /\ request' = [request EXCEPT ![r] = Ended]
  /\ UNCHANGED <<source, exported, counter, txn, started, aborts, reissued>>

\* an unexportable record, an error or a lost answer: nothing is committed,
\* and the reader asks again with the cursor it has
AbortRequest(r) ==
  /\ request[r].at # "idle" /\ aborts < MaxAborts /\ aborts' = aborts + 1
  /\ request' = [request EXCEPT ![r] = Ended]
  /\ txn' = IF txn.by = r THEN NoTxn ELSE txn
  /\ UNCHANGED <<source, exported, counter, position, started, mirror, reissued>>

ReaderStep(r) == \/ Get(r) \/ Compare(r) \/ Number(r) \/ Write(r) \/ Commit(r)
                 \/ Mark(r) \/ Snapshot(r) \/ Page(r)
ExportNext == \/ \E x \in Records : Change(x)
              \/ \E r \in Readers : ReaderStep(r) \/ AbortRequest(r)
ExportSpec == ExportInit /\ [][ExportNext]_exportVars

\* readers poll, and the databases let a waiting transaction go on
ExportFair == \A r \in Readers : WF_exportVars(ReaderStep(r))

ExportTypeOK ==
  /\ \A x \in Records : /\ source[x] \in 0..MaxVersion[x]
                         /\ exported[x] \in [seq : Nat, ver : 0..source[x]]
  /\ reissued \in BOOLEAN /\ (~reissued => \A x \in Records : exported[x].seq < counter)
  /\ counter \in Nat /\ txn.by \in Readers \cup {NoReader}
  /\ position \in [Readers -> Nat]
  /\ started \in [Readers -> BOOLEAN]
  /\ mirror \in [Readers -> [Records -> Nat]] /\ aborts \in 0..MaxAborts

(* A reader's position covers only what it has been given: no record with  *)
(* a smaller sequence number is new to it, though refreshes overlap, fail   *)
(* and undo each other's work.  One thing breaks it: a refresh that read the *)
(* next number before another committed, and stores it after that, so that  *)
(* two records share a number and the counter falls behind.                 *)
NoRecordSkipped ==
  ~reissued => \A r \in Readers, x \in Records :
    exported[x].seq <= position[r] => mirror[r][x] = exported[x].ver
(* Once the records stop changing, a reader that goes on asking has them    *)
(* all, unless its requests fail for ever or a number was given twice.      *)
MirrorConverges == <>[](reissued \/ \A r \in Readers : mirror[r] = source)
=============================================================================
