---------------------------- MODULE EventPartitions ----------------------------
(***************************************************************************)
(* The monthly partitions of security_events on PostgreSQL: the events of  *)
(* the listener, the daily job that creates partitions ahead               *)
(* (minisiem_ensure_security_event_partitions), and the backfill of logs   *)
(* of an earlier release.  PostgreSQL refuses a partition whose rows are   *)
(* in the default partition already, and with it the whole call.           *)
(***************************************************************************)
EXTENDS Naturals, FiniteSets, FiniteSetsExt

CONSTANTS MaxMonth,   \* bound on the calendar
          Window,     \* months created ahead: --months 3
          Legacy,     \* logs without a projection, numbered by id
          MonthOf,    \* log -> the month of its event time
          Backfillers,
          MaxBreaks   \* bound on crashes and errors of a backfill
ASSUME PartitionAssumption ==
  /\ MaxMonth \in Nat \ {0} /\ Window \in Nat \ {0}
  /\ Legacy \subseteq Nat /\ \A l \in Legacy : MonthOf[l] \in 1..MaxMonth
  /\ IsFiniteSet(Backfillers) /\ Backfillers # {}

VARIABLES
  month,      \* the current month
  parts,      \* months with a partition of their own
  stray,      \* months with rows in security_events_default
  projected,  \* legacy log -> its rows in security_events
  backfill,   \* per process: [at, months, logs, new]
  missed,     \* history: a month ended before the daily job had run in it
  ranIn,      \* the last month the job ran in
  breaks,
  overlap     \* history: two backfills ran at once
partVars == <<month, parts, stray, projected, backfill, missed, ranIn, breaks, overlap>>

Months == 1..MaxMonth
Ahead(m) == (m..m + Window - 1) \cap Months
NoBackfill == [at |-> "idle", months |-> {}, logs |-> {}, new |-> {}]
\* the owner's setup has made the first partitions; a fresh database has
\* no log without a projection
PartInit ==
  /\ month = 1 /\ parts = Ahead(1) /\ stray = {}
  /\ projected \in {[l \in Legacy |-> n] : n \in 0..1} /\ backfill = [p \in Backfillers |-> NoBackfill]
  /\ missed = FALSE /\ ranIn = 1 /\ breaks = 0 /\ overlap = FALSE

\* a row goes to the partition of its month, or to the default
Into(ms) == stray' = stray \cup (ms \ parts)
\* the listener: the time is the device's, whatever its clock says
AppendEvent(m) ==
  /\ Into({m})
  /\ UNCHANGED <<month, parts, projected, backfill, missed, ranIn, breaks, overlap>>
NextMonth ==
  /\ month < MaxMonth /\ month' = month + 1 /\ missed' = (missed \/ ranIn < month)
  /\ UNCHANGED <<parts, stray, projected, backfill, ranIn, breaks, overlap>>
\* all the months of a call, or none
Refuses(ms) == (ms \ parts) \cap stray # {}
EnsuredFirst(ms) == IF Refuses(ms) THEN parts ELSE parts \cup {Min(ms)}
Ensured(ms) == IF Refuses(ms) THEN parts ELSE parts \cup ms
Maintain ==
  /\ parts' = Ensured(Ahead(month)) /\ ranIn' = month
  /\ UNCHANGED <<month, stray, projected, backfill, missed, breaks, overlap>>

Keep(p, b) == backfill' = [backfill EXCEPT ![p] = b]
Missing == {l \in Legacy : projected[l] = 0}
StartBackfill(p) ==
  /\ backfill[p].at = "idle" /\ Missing # {}
  /\ Keep(p, [NoBackfill EXCEPT !.at = "create", !.months = {MonthOf[l] : l \in Legacy},
                                !.logs = Legacy])
  /\ overlap' = (overlap \/ \E q \in Backfillers \ {p} : backfill[q].at # "idle")
  /\ UNCHANGED <<month, parts, stray, projected, missed, ranIn, breaks>>
\* _precreate_historical_partitions: month by month, each committed
Precreate(p) ==
  LET b == backfill[p]
      m == Min(b.months) IN
  /\ b.at = "create" /\ b.months # {}
  /\ parts' = Ensured({m})
  /\ Keep(p, IF Refuses({m}) THEN NoBackfill ELSE [b EXCEPT !.months = @ \ {m}])
  /\ UNCHANGED <<month, stray, projected, missed, ranIn, breaks, overlap>>
\* INSERT ... WHERE NOT EXISTS sees committed rows and its own
Unprojected(l) == projected[l] = 0
Project(p) ==
  LET b == backfill[p]
      l == Min(b.logs) IN
  /\ b.at = "create" /\ b.months = {} /\ b.logs # {}
  /\ Keep(p, [b EXCEPT !.logs = @ \ {l}, !.new = IF Unprojected(l) THEN @ \cup {l} ELSE @])
  /\ UNCHANGED <<month, parts, stray, projected, missed, ranIn, breaks, overlap>>
\* the end of a batch, of any size
CommitProjected(p) ==
  LET b == backfill[p] IN
  /\ b.at = "create" /\ b.months = {} /\ (b.new # {} \/ b.logs = {})
  /\ projected' = [l \in Legacy |-> projected[l] + (IF l \in b.new THEN 1 ELSE 0)]
  /\ Into({MonthOf[l] : l \in b.new})
  /\ Keep(p, IF b.logs = {} THEN NoBackfill ELSE [b EXCEPT !.new = {}])
  /\ UNCHANGED <<month, parts, missed, ranIn, breaks, overlap>>
BreakBackfill(p) ==
  /\ backfill[p].at # "idle" /\ breaks < MaxBreaks /\ breaks' = breaks + 1
  /\ Keep(p, NoBackfill)
  /\ UNCHANGED <<month, parts, stray, projected, missed, ranIn, overlap>>

BackfillStep(p) == StartBackfill(p) \/ Precreate(p) \/ Project(p) \/ CommitProjected(p)
PartNext == \/ \E m \in Months : AppendEvent(m)
            \/ NextMonth \/ Maintain
            \/ \E p \in Backfillers : BackfillStep(p) \/ BreakBackfill(p)
PartSpec == PartInit /\ [][PartNext]_partVars
\* the timer fires every day, and the upgrade is repeated until it succeeds
PartFair == WF_partVars(Maintain) /\ \A p \in Backfillers : WF_partVars(BackfillStep(p))

PartTypeOK ==
  /\ month \in Months /\ parts \subseteq Months /\ stray \subseteq Months /\ ranIn \in 1..month
  /\ \A l \in Legacy : projected[l] \in 0..Cardinality(Backfillers)
  /\ \A p \in Backfillers : backfill[p].at \in {"idle", "create"}

(* "idempotent Event Storage v2 backfill": however often it is broken off   *)
(* and repeated, a log has one projection, unless two backfills overlap.    *)
ProjectedOnce == ~overlap => \A l \in Legacy : projected[l] <= 1
(* The current month has its partition: the daily job made it ahead of      *)
(* time.  Only events that came for a month before its partition can keep   *)
(* it from doing so, and then they keep back the other months as well.      *)
MonthIsReady ==
  ~missed => month \in parts \/ Refuses(Ahead(month)) \/ (month > 1 /\ Refuses(Ahead(month - 1)))
(* The job catches up after any outage, unless such events are there.       *)
PartitionsCatchUp == []<>(Ahead(month) \subseteq parts \/ Refuses(Ahead(month)))
(* A backfill that is repeated ends, with a projection of every log, unless *)
(* a month of theirs has rows in the default partition.                     *)
BackfillEnds == []<>(Missing = {} \/ Refuses({MonthOf[l] : l \in Legacy}))
=============================================================================
