--------------------------- MODULE ReportSchedule ---------------------------
(***************************************************************************)
(* workers.py, ReportScheduler: the scheduled playbook report, and the     *)
(* alerts that are made from it in a second transaction.  Every dashboard  *)
(* process has a scheduler, which runs while it has the lease.             *)
(***************************************************************************)
EXTENDS Naturals, FiniteSets

CONSTANTS Schedulers,   \* dashboard processes
          Findings,     \* groups a report may find
          MaxReports,   \* bound on the reports
          MaxChanges,   \* bound on the changes of the schedule
          MaxStops      \* bound on the errors and crashes
ASSUME ReportAssumption == MaxReports \in Nat /\ "free" \notin Schedulers

Triggers == {"weekly", "monthly"}
VARIABLES
  schedule,    \* app_config.report_schedule
  reports,     \* number of reports; report n has the id n
  results,     \* report id -> its findings
  last,        \* trigger -> id of its latest report, 0 if none
  recent,      \* triggers whose latest report is younger than their period
  alerted,     \* report id -> finding -> alerts made from it
  sched,       \* per scheduler: [at, trigger, report, todo, made, next]
  leased,      \* the scheduler that has the lease, or "free"
  changes, stops,
  twoRan       \* history: two schedulers were in a cycle at once
reportVars == <<schedule, reports, results, last, recent, alerted, sched, leased,
                changes, stops, twoRan>>

Resting == [at |-> "idle", trigger |-> "off", report |-> 0, todo |-> {}, made |-> {},
            next |-> {}]
ReportInit ==
  /\ schedule = "weekly" /\ reports = 0
  /\ results = [n \in 1..MaxReports |-> {}] /\ last = [t \in Triggers |-> 0] /\ recent = {}
  /\ alerted = [n \in 1..MaxReports |-> [f \in Findings |-> 0]]
  /\ sched = [s \in Schedulers |-> Resting] /\ leased = "free"
  /\ changes = 0 /\ stops = 0 /\ twoRan = FALSE

Step_(s, from, to) == sched[s].at = from /\ sched' = [sched EXCEPT ![s] = to]
\* _cycle: the lease, then the schedule
Cycle(s) ==
  /\ leased \in {s, "free"} /\ schedule # "off"
  /\ Step_(s, "idle", [Resting EXCEPT !.at = "look", !.trigger = schedule])
  /\ leased' = s
  /\ twoRan' = (twoRan \/ \E o \in Schedulers \ {s} : sched[o].at # "idle")
  /\ UNCHANGED <<schedule, reports, results, last, recent, alerted, changes, stops>>
\* A faulty variant: with a recent report there is nothing to do.
LookForNew(s) ==
  LET q == sched[s]  n == last[q.trigger] IN
  /\ Step_(s, "look", IF n # 0 /\ q.trigger \in recent THEN Resting
                      ELSE [q EXCEPT !.at = "report"])
  /\ UNCHANGED <<schedule, reports, results, last, recent, alerted, leased, changes,
                 stops, twoRan>>
\* run_if_due: a recent report of this trigger is healed, else one is made
Look(s) ==
  LET q == sched[s]  n == last[q.trigger] IN
  /\ Step_(s, "look", IF n # 0 /\ q.trigger \in recent
                      THEN [q EXCEPT !.at = "alert", !.report = n, !.todo = results[n]]
                      ELSE [q EXCEPT !.at = "report"])
  /\ UNCHANGED <<schedule, reports, results, last, recent, alerted, leased, changes,
                 stops, twoRan>>
\* run_playbook_report: the report is committed
AllRecent(t) == Triggers
NowRecent(t) == recent \cup {t}
MakeReport(s) ==
  LET q == sched[s]  n == reports + 1 IN
  /\ reports < MaxReports /\ reports' = n
  /\ \E found \in SUBSET Findings :
       /\ results' = [results EXCEPT ![n] = found]
       /\ Step_(s, "report", [q EXCEPT !.at = "alert", !.report = n, !.todo = found])
  /\ last' = [last EXCEPT ![q.trigger] = n] /\ recent' = NowRecent(q.trigger)
  /\ UNCHANGED <<schedule, alerted, leased, changes, stops, twoRan>>
\* alerts_from_playbook_report: the SELECT for one finding ...
ExistsHere(s, f) == f \in sched[s].made
Exists(s, f) == alerted[sched[s].report][f] > 0 \/ f \in sched[s].made
SelectAlert(s) ==
  LET q == sched[s] IN
  \E f \in q.todo :
    /\ q.next = {}
    /\ Step_(s, "alert", [q EXCEPT !.todo = @ \ {f},
                                   !.next = IF Exists(s, f) THEN {} ELSE {f}])
    /\ UNCHANGED <<schedule, reports, results, last, recent, alerted, leased, changes,
                   stops, twoRan>>
\* ... its INSERT, which nobody sees before the commit
InsertOne(s) ==
  LET q == sched[s] IN
  /\ q.next # {}
  /\ Step_(s, "alert", [q EXCEPT !.made = @ \cup q.next, !.next = {}])
  /\ UNCHANGED <<schedule, reports, results, last, recent, alerted, leased, changes,
                 stops, twoRan>>
CommitAlerts(s) ==
  LET q == sched[s] IN
  /\ q.todo = {} /\ q.next = {}
  /\ Step_(s, "alert", Resting)
  /\ alerted' = [alerted EXCEPT ![q.report] =
       [f \in Findings |-> IF f \in q.made /\ @[f] < 2 THEN @[f] + 1 ELSE @[f]]]
  /\ UNCHANGED <<schedule, reports, results, last, recent, leased, changes, stops, twoRan>>

\* beyond the bound a report fails
NoReport(s) ==
  /\ reports = MaxReports /\ Step_(s, "report", Resting)
  /\ UNCHANGED <<schedule, reports, results, last, recent, alerted, leased, changes,
                 stops, twoRan>>

\* an exception or a crash: what is not committed is rolled back
Fall(s) ==
  /\ sched[s].at # "idle" /\ stops < MaxStops /\ stops' = stops + 1
  /\ sched' = [sched EXCEPT ![s] = Resting]
  /\ UNCHANGED <<schedule, reports, results, last, recent, alerted, leased, changes, twoRan>>
\* the lease of three hours expires: between cycles, or in one that hangs
LeaseEnds(s) ==
  /\ leased = s /\ leased' = "free"
  /\ sched[s].at = "idle" \/ (stops < MaxStops /\ sched[s].at # "look")
  /\ stops' = IF sched[s].at = "idle" THEN stops ELSE stops + 1
  /\ UNCHANGED <<schedule, reports, results, last, recent, alerted, sched, changes, twoRan>>
\* an administrator changes the schedule; a period ends
Reschedule ==
  /\ changes < MaxChanges /\ changes' = changes + 1
  /\ schedule' \in (Triggers \cup {"off"}) \ {schedule}
  /\ UNCHANGED <<reports, results, last, recent, alerted, sched, leased, stops, twoRan>>
PeriodEnds(t) ==
  /\ t \in recent /\ recent' = recent \ {t} /\ reports < MaxReports
  /\ UNCHANGED <<schedule, reports, results, last, alerted, sched, leased, changes,
                 stops, twoRan>>

SchedulerStep(s) == \/ Cycle(s) \/ Look(s) \/ MakeReport(s) \/ NoReport(s)
                    \/ SelectAlert(s) \/ InsertOne(s) \/ CommitAlerts(s)
ReportNext ==
  \/ Reschedule \/ \E t \in Triggers : PeriodEnds(t)
  \/ \E s \in Schedulers : SchedulerStep(s) \/ Fall(s) \/ LeaseEnds(s)
ReportSpec == ReportInit /\ [][ReportNext]_reportVars
\* the loops go on, every hour
ReportFair == WF_reportVars(\E s \in Schedulers : SchedulerStep(s))

ReportTypeOK ==
  /\ schedule \in Triggers \cup {"off"} /\ reports \in 0..MaxReports
  /\ results \in [1..MaxReports -> SUBSET Findings] /\ last \in [Triggers -> 0..reports]
  /\ recent \subseteq {t \in Triggers : last[t] # 0}
  /\ alerted \in [1..MaxReports -> [Findings -> 0..2]]
  /\ \A s \in Schedulers : /\ sched[s].at \in {"idle", "look", "report", "alert"}
                           /\ sched[s].made \cup sched[s].todo \subseteq Findings
  /\ leased \in Schedulers \cup {"free"} /\ twoRan \in BOOLEAN

(* "heal a crash after the report commit but before alert creation without  *)
(* duplicating already-emitted findings": as long as the lease keeps the    *)
(* schedulers apart, a finding has at most one alert, and only if the       *)
(* report has that finding.                                                 *)
OneAlertPerFinding ==
  \A n \in 1..MaxReports, f \in Findings :
    /\ ~twoRan => alerted[n][f] <= 1
    /\ alerted[n][f] > 0 => f \in results[n]
(* Every finding of the latest scheduled report becomes an alert, unless    *)
(* the schedule changes or the period ends first.                           *)
FindingsAlerted ==
  \A n \in 1..MaxReports, f \in Findings, t \in Triggers :
    []<>(f \in results[n] /\ last[t] = n /\ schedule = t /\ t \in recent
           => alerted[n][f] > 0)
=============================================================================
