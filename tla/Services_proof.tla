--------------------------- MODULE Services_proof ---------------------------
(***************************************************************************)
(* Proofs about the background services, for any processes, findings,      *)
(* alerts, records and indicators.                                         *)
(***************************************************************************)
EXTENDS MCServices, StorageBatch, Sums, SequenceTheorems, TLAPS

(***************************************************************************)
(* ReportSchedule.  What a scheduler works on is a report of the table;    *)
(* what it has inserted and not committed has no alert yet.                *)
(***************************************************************************)
SchedulerState == [at : {"idle", "look", "report", "alert"}, trigger : Triggers \cup {"off"},
                   report : 0..MaxReports, todo : SUBSET Findings, made : SUBSET Findings,
                   next : SUBSET Findings]
Inserted(s) == sched[s].made \cup sched[s].next

SchedulerOK(s) ==
  /\ sched[s].at = "idle" => sched[s] = Resting
  /\ sched[s].at \in {"look", "report"} => sched[s].trigger \in Triggers /\ Inserted(s) = {}
  /\ sched[s].at = "alert" => /\ sched[s].report \in 1..reports
                              /\ sched[s].todo \cup Inserted(s) \subseteq results[sched[s].report]

AlertsFromReports ==
  \A n \in 1..MaxReports, f \in Findings : alerted[n][f] > 0 => n <= reports /\ f \in results[n]

ApartOK ==
  ~twoRan =>
    /\ \A s, o \in Schedulers : s # o => sched[s].at = "idle" \/ sched[o].at = "idle"
    /\ \A n \in 1..MaxReports, f \in Findings : alerted[n][f] <= 1
    /\ \A s \in Schedulers : \A f \in Inserted(s) : alerted[sched[s].report][f] = 0

ReportInv == /\ ReportTypeOK /\ sched \in [Schedulers -> SchedulerState]
             /\ \A s \in Schedulers : SchedulerOK(s)
             /\ AlertsFromReports /\ ApartOK
-----------------------------------------------------------------------------
LEMMA ReportInitInv == ReportInit => ReportInv
<1> SUFFICES ASSUME ReportInit PROVE ReportInv
  OBVIOUS
<1>1. \A s \in Schedulers : sched[s] = Resting
  BY DEF ReportInit
<1>2. Resting \in SchedulerState
  BY ReportAssumption DEF Resting, SchedulerState, Triggers
<1>3. ReportTypeOK
  <2>1. /\ reports = 0 /\ reports \in 0..MaxReports /\ schedule \in Triggers
        /\ recent \subseteq {t \in Triggers : last[t] # 0}
        /\ leased = "free" /\ twoRan = FALSE
    BY ReportAssumption DEF ReportInit, Triggers
  <2>2. /\ results \in [1..MaxReports -> SUBSET Findings] /\ last \in [Triggers -> 0..reports]
        /\ alerted \in [1..MaxReports -> [Findings -> 0..2]]
    BY <2>1 DEF ReportInit
  <2>3. \A s \in Schedulers : /\ sched[s].at \in {"idle", "look", "report", "alert"}
                             /\ sched[s].made \cup sched[s].todo \subseteq Findings
    BY <1>1 DEF Resting
  <2> QED
    BY <2>1, <2>2, <2>3 DEF ReportTypeOK
<1>4. sched \in [Schedulers -> SchedulerState]
  BY <1>2 DEF ReportInit
<1>5. \A s \in Schedulers : SchedulerOK(s) /\ Inserted(s) = {}
  BY <1>1 DEF SchedulerOK, Inserted, Resting
<1>6. AlertsFromReports /\ ApartOK
  BY <1>1, <1>5 DEF ReportInit, AlertsFromReports, ApartOK, Resting
<1> QED
  BY <1>3, <1>4, <1>5, <1>6 DEF ReportInv

\* A step of one scheduler that leaves the tables alone.
LEMMA SchedulerMoves ==
  ASSUME ReportInv, NEW s \in Schedulers, NEW t \in SchedulerState,
         sched' = [sched EXCEPT ![s] = t],
         UNCHANGED <<schedule, reports, results, last, recent, alerted>>,
         leased' \in Schedulers \cup {"free"}, twoRan' \in BOOLEAN, twoRan => twoRan',
         ~twoRan' => \/ sched[s].at # "idle"
                     \/ \A o \in Schedulers \ {s} : sched[o].at = "idle",
         t.at = "idle" => t = Resting,
         t.at \in {"look", "report"} => t.trigger \in Triggers /\ t.made \cup t.next = {},
         t.at = "alert" => /\ t.report \in 1..reports
                           /\ t.todo \cup t.made \cup t.next \subseteq results[t.report],
         ~twoRan' => \A f \in t.made \cup t.next : alerted[t.report][f] = 0
  PROVE  ReportInv'
<1>1. /\ sched' \in [Schedulers -> SchedulerState] /\ sched'[s] = t
      /\ \A o \in Schedulers \ {s} : sched'[o] = sched[o]
  BY DEF ReportInv
<1>2. ReportTypeOK'
  BY <1>1 DEF ReportInv, ReportTypeOK, SchedulerState
<1>3. ASSUME NEW o \in Schedulers PROVE SchedulerOK(o)'
  <2>1. CASE o = s
    BY <1>1, <2>1 DEF SchedulerOK, Inserted
  <2>2. CASE o # s
    BY <1>1, <2>2 DEF ReportInv, SchedulerOK, Inserted
  <2> QED
    BY <2>1, <2>2
<1>4. AlertsFromReports'
  BY DEF ReportInv, AlertsFromReports
<1>5. ASSUME ~twoRan'
      PROVE  /\ \A p, o \in Schedulers : p # o => sched'[p].at = "idle" \/ sched'[o].at = "idle"
             /\ \A n \in 1..MaxReports, f \in Findings : alerted'[n][f] <= 1
             /\ \A o \in Schedulers : \A f \in Inserted(o)' : alerted'[sched'[o].report][f] = 0
  <2>1. /\ \A p, o \in Schedulers : p # o => sched[p].at = "idle" \/ sched[o].at = "idle"
        /\ \A n \in 1..MaxReports, f \in Findings : alerted[n][f] <= 1
        /\ \A o \in Schedulers : \A f \in Inserted(o) : alerted[sched[o].report][f] = 0
    BY <1>5 DEF ReportInv, ApartOK
  <2>2. \A o \in Schedulers \ {s} : sched[o].at = "idle" \/ sched[s].at # "idle"
    BY <1>5
  <2>3. \A p, o \in Schedulers : p # o => sched'[p].at = "idle" \/ sched'[o].at = "idle"
    BY <1>1, <1>5, <2>1, <2>2
  <2>4. \A o \in Schedulers : \A f \in Inserted(o)' : alerted'[sched'[o].report][f] = 0
    BY <1>1, <1>5, <2>1 DEF Inserted
  <2> QED
    BY <2>1, <2>3, <2>4
<1>6. ApartOK'
  BY <1>5 DEF ApartOK
<1> QED
  BY <1>1, <1>2, <1>3, <1>4, <1>6 DEF ReportInv

LEMMA CycleKeeps ==
  ASSUME ReportInv, NEW s \in Schedulers, Cycle(s)
  PROVE  ReportInv'
<1> DEFINE t == [Resting EXCEPT !.at = "look", !.trigger = schedule]
<1>1. /\ sched[s].at = "idle" /\ schedule \in Triggers /\ sched' = [sched EXCEPT ![s] = t]
      /\ leased' = s /\ twoRan' = (twoRan \/ \E o \in Schedulers \ {s} : sched[o].at # "idle")
      /\ UNCHANGED <<schedule, reports, results, last, recent, alerted>>
  BY DEF Cycle, Step_, ReportInv, ReportTypeOK
<1>2. t \in SchedulerState /\ t.at = "look" /\ t.trigger \in Triggers /\ t.made \cup t.next = {}
  <2>1. /\ Resting \in SchedulerState /\ Resting.made = {} /\ Resting.next = {}
    BY ReportAssumption DEF Resting, SchedulerState
  <2>2. t \in SchedulerState /\ t.at = "look" /\ t.trigger = schedule
        /\ t.made = {} /\ t.next = {}
    BY <1>1, <2>1 DEF SchedulerState
  <2> QED
    BY <1>1, <2>2
<1> HIDE DEF t
<1>3. twoRan \in BOOLEAN /\ twoRan' \in BOOLEAN
  BY <1>1 DEF ReportInv, ReportTypeOK
<1> QED
  BY <1>1, <1>2, <1>3, SchedulerMoves

LEMMA LookKeeps ==
  ASSUME ReportInv, NEW s \in Schedulers, Look(s)
  PROVE  ReportInv'
<1> DEFINE q == sched[s]
           n == last[q.trigger]
           t == [q EXCEPT !.at = "alert", !.report = n, !.todo = results[n]]
           u == [q EXCEPT !.at = "report"]
<1>1. /\ q.at = "look" /\ sched' \in {[sched EXCEPT ![s] = t], [sched EXCEPT ![s] = u]}
      /\ n = 0 => sched' = [sched EXCEPT ![s] = u]
      /\ UNCHANGED <<schedule, reports, results, last, recent, alerted, leased, twoRan>>
  BY DEF Look, Step_
<1>2. /\ q \in SchedulerState /\ q.trigger \in Triggers /\ q.made = {} /\ q.next = {}
      /\ leased \in Schedulers \cup {"free"} /\ twoRan \in BOOLEAN
      /\ last \in [Triggers -> 0..reports] /\ reports \in 0..MaxReports
      /\ results \in [1..MaxReports -> SUBSET Findings]
  BY <1>1 DEF ReportInv, ReportTypeOK, SchedulerOK, Inserted
<1>3. u \in SchedulerState /\ u.at = "report" /\ u.trigger = q.trigger /\ u.made = {} /\ u.next = {}
  BY <1>2 DEF SchedulerState
<1>4. ASSUME n # 0
      PROVE  /\ t \in SchedulerState /\ t.at = "alert" /\ t.report \in 1..reports
             /\ t.todo = results[t.report] /\ t.made = {} /\ t.next = {}
  <2>1. n \in 1..reports /\ n \in 1..MaxReports /\ n \in 0..MaxReports
    BY <1>2, <1>4, ReportAssumption
  <2>2. results[n] \in SUBSET Findings
    BY <1>2, <2>1
  <2> QED
    BY <1>2, <2>1, <2>2 DEF SchedulerState
<1> HIDE DEF t, u, n
<1>5. CASE sched' = [sched EXCEPT ![s] = u]
  BY <1>1, <1>2, <1>3, <1>5, SchedulerMoves
<1>6. CASE n # 0 /\ sched' = [sched EXCEPT ![s] = t]
  BY <1>1, <1>2, <1>4, <1>6, SchedulerMoves
<1> QED
  BY <1>1, <1>5, <1>6

\* A finding gets its row only when it has none, committed or not.
LEMMA SelectKeeps ==
  ASSUME ReportInv, NEW s \in Schedulers, SelectAlert(s)
  PROVE  ReportInv'
<1> DEFINE q == sched[s]
<1>1. PICK f \in q.todo :
        /\ q.at = "alert" /\ q.next = {}
        /\ sched' = [sched EXCEPT ![s] = [q EXCEPT !.todo = q.todo \ {f},
                                             !.next = IF Exists(s, f) THEN {} ELSE {f}]]
        /\ UNCHANGED <<schedule, reports, results, last, recent, alerted, leased, twoRan>>
  BY DEF SelectAlert, Step_
<1>2. /\ q \in SchedulerState /\ q.report \in 1..reports
      /\ q.todo \cup q.made \subseteq results[q.report]
      /\ leased \in Schedulers \cup {"free"} /\ twoRan \in BOOLEAN
      /\ reports \in 0..MaxReports /\ alerted \in [1..MaxReports -> [Findings -> 0..2]]
  BY <1>1 DEF ReportInv, ReportTypeOK, SchedulerOK, Inserted
<1>3. PICK x : x = IF Exists(s, f) THEN {} ELSE {f}
  OBVIOUS
<1>4. f \in Findings /\ x \subseteq {f} /\ (f \in x => ~Exists(s, f))
  BY <1>2, <1>3 DEF SchedulerState
<1>5. PICK t : t = [q EXCEPT !.todo = q.todo \ {f}, !.next = x]
  OBVIOUS
<1>6. /\ t \in SchedulerState /\ t.at = "alert" /\ t.report = q.report /\ t.made = q.made
      /\ t.next = x /\ t.todo \subseteq q.todo
  BY <1>1, <1>2, <1>4, <1>5 DEF SchedulerState
<1>7. f \in x => alerted[q.report][f] = 0
  <2>1. alerted[q.report][f] \in 0..2
    BY <1>2, <1>4, ReportAssumption
  <2> QED
    BY <1>4, <2>1 DEF Exists
<1>8. ~twoRan => \A g \in t.made \cup t.next : alerted[t.report][g] = 0
  BY <1>4, <1>6, <1>7 DEF ReportInv, ApartOK, Inserted
<1>9. t.todo \cup t.made \cup t.next \subseteq results[t.report]
  BY <1>2, <1>4, <1>6
<1>10. sched' = [sched EXCEPT ![s] = t]
  BY <1>1, <1>3, <1>5
<1> QED
  BY <1>1, <1>2, <1>6, <1>8, <1>9, <1>10, SchedulerMoves

LEMMA InsertKeeps ==
  ASSUME ReportInv, NEW s \in Schedulers, InsertOne(s)
  PROVE  ReportInv'
<1> DEFINE q == sched[s]
<1>1. /\ q.at = "alert"
      /\ sched' = [sched EXCEPT ![s] = [q EXCEPT !.made = q.made \cup q.next, !.next = {}]]
      /\ UNCHANGED <<schedule, reports, results, last, recent, alerted, leased, twoRan>>
  BY DEF InsertOne, Step_
<1>2. /\ q \in SchedulerState /\ q.report \in 1..reports
      /\ q.todo \cup q.made \cup q.next \subseteq results[q.report]
      /\ leased \in Schedulers \cup {"free"} /\ twoRan \in BOOLEAN
  BY <1>1 DEF ReportInv, ReportTypeOK, SchedulerOK, Inserted
<1>3. PICK t : t = [q EXCEPT !.made = q.made \cup q.next, !.next = {}]
  OBVIOUS
<1>4. /\ t \in SchedulerState /\ t.at = "alert" /\ t.report = q.report
      /\ t.made = q.made \cup q.next /\ t.next = {} /\ t.todo = q.todo
  BY <1>1, <1>2, <1>3 DEF SchedulerState
<1>5. ~twoRan => \A g \in t.made \cup t.next : alerted[t.report][g] = 0
  BY <1>4 DEF ReportInv, ApartOK, Inserted
<1>6. sched' = [sched EXCEPT ![s] = t]
  BY <1>1, <1>3
<1> QED
  BY <1>1, <1>2, <1>4, <1>5, <1>6, SchedulerMoves

LEMMA RestKeeps ==
  ASSUME ReportInv, NEW s \in Schedulers, sched' = [sched EXCEPT ![s] = Resting],
         sched[s].at # "idle",
         UNCHANGED <<schedule, reports, results, last, recent, alerted, leased, twoRan>>
  PROVE  ReportInv'
<1>1. /\ Resting \in SchedulerState /\ Resting.at = "idle"
      /\ Resting.made \cup Resting.next = {}
  BY ReportAssumption DEF Resting, SchedulerState
<1>2. leased \in Schedulers \cup {"free"} /\ twoRan \in BOOLEAN
  BY DEF ReportInv, ReportTypeOK
<1> QED
  BY <1>1, <1>2, SchedulerMoves

\* The new report has no alerts, and nobody works on it yet.
LEMMA MakeReportKeeps ==
  ASSUME ReportInv, NEW s \in Schedulers, MakeReport(s)
  PROVE  ReportInv'
<1>0. PICK n : n = reports + 1
  OBVIOUS
<1>1. PICK found \in SUBSET Findings :
        /\ n = reports + 1 /\ reports < MaxReports /\ reports' = n
        /\ results' = [results EXCEPT ![n] = found] /\ sched[s].at = "report"
        /\ sched' = [sched EXCEPT ![s] = [sched[s] EXCEPT !.at = "alert", !.report = n, !.todo = found]]
        /\ last' = [last EXCEPT ![sched[s].trigger] = n]
        /\ recent' = recent \cup {sched[s].trigger}
        /\ UNCHANGED <<schedule, alerted, leased, twoRan>>
  BY <1>0 DEF MakeReport, Step_, NowRecent
<1>2. /\ sched[s] \in SchedulerState /\ sched[s].trigger \in Triggers
      /\ sched[s].made = {} /\ sched[s].next = {}
  BY <1>1 DEF ReportInv, SchedulerOK, Inserted
<1>3. /\ reports \in Nat /\ n \in 1..MaxReports /\ n \in 0..MaxReports /\ n # 0
      /\ results \in [1..MaxReports -> SUBSET Findings] /\ last \in [Triggers -> 0..reports]
  BY <1>1, ReportAssumption DEF ReportInv, ReportTypeOK
<1>4. PICK t : t = [sched[s] EXCEPT !.at = "alert", !.report = n, !.todo = found]
  OBVIOUS
<1>5. /\ t \in SchedulerState /\ t.at = "alert" /\ t.report = n /\ t.todo = found
      /\ t.made = {} /\ t.next = {}
  BY <1>2, <1>3, <1>4 DEF SchedulerState
<1>6. /\ sched' \in [Schedulers -> SchedulerState] /\ sched'[s] = t
      /\ \A o \in Schedulers \ {s} : sched'[o] = sched[o]
  BY <1>1, <1>4, <1>5 DEF ReportInv
<1>7. /\ results' \in [1..MaxReports -> SUBSET Findings] /\ results'[n] = found
      /\ \A m \in 1..reports : results'[m] = results[m]
  BY <1>1, <1>3
<1>8. ReportTypeOK'
  <2>1. last' \in [Triggers -> 0..reports']
    BY <1>1, <1>2, <1>3
  <2>2. recent' \subseteq {u \in Triggers : last'[u] # 0}
    BY <1>1, <1>2, <1>3 DEF ReportInv, ReportTypeOK
  <2>3. \A o \in Schedulers : /\ sched'[o].at \in {"idle", "look", "report", "alert"}
                             /\ sched'[o].made \cup sched'[o].todo \subseteq Findings
    BY <1>6 DEF SchedulerState
  <2> QED
    BY <1>1, <1>3, <1>7, <2>1, <2>2, <2>3 DEF ReportInv, ReportTypeOK
<1>9. ASSUME NEW o \in Schedulers PROVE SchedulerOK(o)'
  <2>1. CASE o = s
    <3>1. n \in 1..reports' /\ sched'[s] = t /\ results'[n] = found
      BY <1>1, <1>3, <1>6, <1>7
    <3>2. t.todo \cup (t.made \cup t.next) = found
      BY <1>5
    <3> QED
      BY <1>5, <2>1, <3>1, <3>2 DEF SchedulerOK, Inserted
  <2>2. CASE o # s
    <3>1. sched'[o] = sched[o] /\ SchedulerOK(o)
      BY <1>6, <2>2 DEF ReportInv
    <3>2. sched[o].at = "alert" => sched[o].report \in 1..reports /\ sched[o].report \in 1..reports'
      BY <1>1, <1>3, <3>1 DEF SchedulerOK
    <3> QED
      BY <1>7, <3>1, <3>2 DEF SchedulerOK, Inserted
  <2> QED
    BY <2>1, <2>2
<1>10. AlertsFromReports'
  <2>1. SUFFICES ASSUME NEW m \in 1..MaxReports, NEW f \in Findings, alerted[m][f] > 0
                 PROVE  m <= reports' /\ f \in results'[m]
    BY <1>1 DEF AlertsFromReports
  <2>2. m <= reports /\ f \in results[m]
    BY <2>1 DEF ReportInv, AlertsFromReports
  <2> QED
    BY <1>1, <1>3, <1>7, <2>2
<1>11. ApartOK'
  <2>1. ASSUME ~twoRan
        PROVE  /\ \A p, o \in Schedulers : p # o => sched'[p].at = "idle" \/ sched'[o].at = "idle"
               /\ \A m \in 1..MaxReports, f \in Findings : alerted[m][f] <= 1
               /\ \A o \in Schedulers : \A f \in Inserted(o)' : alerted[sched'[o].report][f] = 0
    BY ZenonT(60), <1>1, <1>5, <1>6, <2>1 DEF ReportInv, ApartOK, Inserted
  <2> QED
    BY <1>1, <2>1 DEF ApartOK
<1> QED
  BY <1>6, <1>8, <1>9, <1>10, <1>11 DEF ReportInv

LEMMA CommitKeeps ==
  ASSUME ReportInv, NEW s \in Schedulers, CommitAlerts(s)
  PROVE  ReportInv'
<1>1. PICK n, new : n = sched[s].report /\ new = sched[s].made
  OBVIOUS
<1>2. /\ sched[s].at = "alert" /\ sched' = [sched EXCEPT ![s] = Resting]
      /\ alerted' = [alerted EXCEPT ![n] =
            [f \in Findings |-> IF f \in new /\ alerted[n][f] < 2 THEN alerted[n][f] + 1
                                                                ELSE alerted[n][f]]]
      /\ UNCHANGED <<schedule, reports, results, last, recent, leased, twoRan>>
  BY <1>1 DEF CommitAlerts, Step_
<1>3. /\ n \in 1..reports /\ n \in 1..MaxReports /\ new \subseteq results[n]
      /\ alerted \in [1..MaxReports -> [Findings -> 0..2]]
  BY <1>1, <1>2, ReportAssumption DEF ReportInv, SchedulerOK, Inserted, ReportTypeOK
<1>4. ASSUME NEW f \in Findings
      PROVE  /\ alerted[n][f] \in 0..2 /\ alerted'[n][f] \in 0..2
             /\ alerted'[n][f] = alerted[n][f] \/ alerted'[n][f] = alerted[n][f] + 1
             /\ f \notin new => alerted'[n][f] = alerted[n][f]
  <2>1. /\ alerted[n][f] \in 0..2
        /\ alerted'[n][f] = IF f \in new /\ alerted[n][f] < 2 THEN alerted[n][f] + 1
                                                           ELSE alerted[n][f]
    BY <1>2, <1>3
  <2> QED
    BY <2>1
<1>5. /\ \A m \in (1..MaxReports) \ {n} : alerted'[m] = alerted[m]
      /\ DOMAIN alerted' = 1..MaxReports /\ DOMAIN alerted'[n] = Findings
  BY <1>2, <1>3
<1>6. alerted' \in [1..MaxReports -> [Findings -> 0..2]]
  <2>1. alerted'[n] \in [Findings -> 0..2]
    BY <1>2, <1>3, <1>4, <1>5
  <2> QED
    BY <1>2, <1>3, <1>5, <2>1
<1>7. /\ sched' \in [Schedulers -> SchedulerState] /\ sched'[s] = Resting
      /\ \A o \in Schedulers \ {s} : sched'[o] = sched[o]
  <2>1. Resting \in SchedulerState
    BY ReportAssumption DEF Resting, SchedulerState
  <2> QED
    BY <1>2, <2>1 DEF ReportInv
<1>8. ReportTypeOK'
  BY <1>2, <1>6, <1>7 DEF ReportInv, ReportTypeOK, SchedulerState
<1>9. ASSUME NEW o \in Schedulers PROVE SchedulerOK(o)'
  BY <1>2, <1>7 DEF ReportInv, SchedulerOK, Inserted, Resting
<1>10. AlertsFromReports'
  <2>1. SUFFICES ASSUME NEW m \in 1..MaxReports, NEW f \in Findings, alerted'[m][f] > 0
                 PROVE  m <= reports /\ f \in results[m]
    BY <1>2 DEF AlertsFromReports
  <2>2. CASE f \in new /\ m = n
    BY <1>3, <2>2 DEF ReportInv, ReportTypeOK
  <2>3. CASE ~(f \in new /\ m = n)
    <3>1. alerted'[m][f] = alerted[m][f]
      <4>1. CASE m = n
        BY <1>4, <2>3, <4>1
      <4>2. CASE m # n
        BY <1>5, <4>2
      <4> QED
        BY <4>1, <4>2
    <3> QED
      BY <2>1, <3>1 DEF ReportInv, AlertsFromReports
  <2> QED
    BY <2>2, <2>3
<1>11. ASSUME ~twoRan
       PROVE  /\ \A p, o \in Schedulers : p # o => sched'[p].at = "idle" \/ sched'[o].at = "idle"
              /\ \A m \in 1..MaxReports, f \in Findings : alerted'[m][f] <= 1
              /\ \A o \in Schedulers : Inserted(o)' = {}
  <2>1. /\ \A o \in Schedulers \ {s} : sched[o].at = "idle"
        /\ \A m \in 1..MaxReports, f \in Findings : alerted[m][f] <= 1
        /\ \A f \in new : alerted[n][f] = 0
    BY <1>1, <1>2, <1>11 DEF ReportInv, ApartOK, Inserted
  <2>2. \A o \in Schedulers : sched'[o] = Resting
    BY <1>7, <2>1 DEF ReportInv, SchedulerOK
  <2>3. ASSUME NEW m \in 1..MaxReports, NEW f \in Findings PROVE alerted'[m][f] <= 1
    <3>1. CASE m = n /\ f \in new
      <4>1. alerted[n][f] = 0
        BY <2>1, <3>1
      <4>2. alerted'[n][f] = alerted[n][f] \/ alerted'[n][f] = alerted[n][f] + 1
        BY <1>4
      <4> QED
        BY <3>1, <4>1, <4>2
    <3>2. CASE m = n /\ f \notin new
      BY <1>4, <2>1, <3>2
    <3>3. CASE m # n
      BY <1>5, <2>1, <3>3
    <3> QED
      BY <3>1, <3>2, <3>3
  <2> QED
    BY <2>2, <2>3 DEF Resting, Inserted
<1>12. ApartOK'
  BY <1>2, <1>11 DEF ApartOK
<1> QED
  BY <1>7, <1>8, <1>9, <1>10, <1>12 DEF ReportInv

LEMMA ReportNextInv == ReportInv /\ [ReportNext]_reportVars => ReportInv'
<1> SUFFICES ASSUME ReportInv, [ReportNext]_reportVars PROVE ReportInv'
  OBVIOUS
<1>1. CASE /\ UNCHANGED <<reports, results, last, alerted, sched, twoRan>>
           /\ schedule' \in Triggers \cup {"off"} /\ recent' \subseteq recent
           /\ leased' \in Schedulers \cup {"free"}
  <2>1. ReportTypeOK' /\ AlertsFromReports'
    BY <1>1 DEF ReportInv, ReportTypeOK, AlertsFromReports
  <2>2. \A s \in Schedulers : SchedulerOK(s)'
    BY <1>1 DEF ReportInv, SchedulerOK, Inserted
  <2>3. ApartOK'
    BY <1>1 DEF ReportInv, ApartOK, Inserted
  <2> QED
    BY <1>1, <2>1, <2>2, <2>3 DEF ReportInv
<1>2. CASE Reschedule \/ (\E t \in Triggers : PeriodEnds(t)) \/ UNCHANGED reportVars
           \/ \E s \in Schedulers : LeaseEnds(s)
  <2>1. /\ schedule \in Triggers \cup {"off"} /\ leased \in Schedulers \cup {"free"}
    BY DEF ReportInv, ReportTypeOK
  <2> QED
    BY <1>1, <1>2, <2>1 DEF Reschedule, PeriodEnds, LeaseEnds, reportVars
<1>3. CASE \E s \in Schedulers : NoReport(s) \/ Fall(s)
  <2>1. PICK s \in Schedulers : NoReport(s) \/ Fall(s)
    BY <1>3
  <2>2. /\ sched' = [sched EXCEPT ![s] = Resting] /\ sched[s].at # "idle"
        /\ UNCHANGED <<schedule, reports, results, last, recent, alerted, leased, twoRan>>
    BY <2>1 DEF NoReport, Fall, Step_
  <2> QED
    BY <2>2, RestKeeps
<1> QED
  BY <1>2, <1>3, CycleKeeps, LookKeeps, MakeReportKeeps, SelectKeeps, InsertKeeps, CommitKeeps
  DEF ReportNext, SchedulerStep

LEMMA ReportAlways == ReportSpec => []ReportInv
BY ReportInitInv, ReportNextInv, PTL DEF ReportSpec

\* As long as the lease keeps the schedulers apart, a finding of a report has
\* at most one alert, whichever crash falls between the commit of the report
\* and that of its alerts (workers.py, ReportScheduler).
THEOREM OneAlertPerFindingHolds == ReportSpec => []OneAlertPerFinding
<1>1. ReportInv => OneAlertPerFinding
  BY DEF ReportInv, AlertsFromReports, ApartOK, OneAlertPerFinding
<1> QED
  BY <1>1, ReportAlways, PTL
-----------------------------------------------------------------------------
(***************************************************************************)
(* AiTriage.  An attempt that is counted, or about to be, has failed.      *)
(* Without trouble only the holder of the lease works, on alerts that have *)
(* no answer, and what the model answered is stored before another alert   *)
(* is taken up.                                                            *)
(***************************************************************************)
Tries == [TriageAlerts -> 0..MaxAttempts]
TriagerState == [at : {"idle", "next", "answer", "failure"}, batch : SUBSET TriageAlerts,
                 tries : Tries]
TriageTypes == TriageTypeOK /\ triager \in [Triagers -> TriagerState]

TriesOK(w) ==
  /\ triager[w].at # "idle" => triager[w].batch # {}
  /\ \A a \in TriageAlerts : triager[w].tries[a] <= failed[a]
  /\ \A a \in triager[w].batch : triager[w].tries[a] < MaxAttempts
  /\ triager[w].at = "failure" => Tried(w) <= failed[Chosen(w)]

Answering(a) == \E w \in Triagers : triager[w].at = "answer" /\ a = Chosen(w)
HolderWorks(w) ==
  triager[w].at # "idle" =>
    /\ triaging = w
    /\ \A a \in triager[w].batch : answered[a] > 0 => triager[w].at = "answer" /\ a = Chosen(w)
AnswerKept(a) ==
  answered[a] > 0 => a \notin TooMinor /\ (aiStatus[a] = "done" \/ Answering(a))
AnswersOK ==
  trouble = 0 => /\ \A w \in Triagers : HolderWorks(w)
                 /\ \A a \in TriageAlerts : AnswerKept(a)
                 /\ OneAnswerPerGroup
TriageInv == /\ TriageTypes /\ (\A w \in Triagers : TriesOK(w)) /\ AttemptsHappened
             /\ trouble \in Nat /\ AnswersOK
-----------------------------------------------------------------------------
LEMMA MinIn ==
  ASSUME NEW S, S \subseteq Nat, S # {}
  PROVE  Min(S) \in S
BY LeastNat DEF Min

LEMMA OffIdle == Off \in TriagerState /\ Off.at = "idle" /\ Off.batch = {} /\ \A a \in TriageAlerts : Off.tries[a] = 0
<1>1. [a \in TriageAlerts |-> 0] \in Tries
  BY TriageAssumption DEF Tries
<1> QED
  BY <1>1 DEF Off, TriagerState

\* The alert a worker is at is one of its batch.
LEMMA ChosenIn ==
  ASSUME TriageInv, NEW w \in Triagers, triager[w].at # "idle"
  PROVE  /\ Chosen(w) \in triager[w].batch /\ Chosen(w) \in TriageAlerts
         /\ triager[w].tries[Chosen(w)] \in 0..MaxAttempts
         /\ triager[w].tries[Chosen(w)] < MaxAttempts
         /\ Tried(w) \in 0..MaxAttempts
<1>1. triager[w] \in TriagerState /\ triager[w].batch # {} /\ triager[w].batch \subseteq TriageAlerts
  BY DEF TriageInv, TriageTypes, TriesOK, TriagerState
<1>2. Chosen(w) \in triager[w].batch
  BY <1>1, MinIn, TriageAssumption DEF Chosen
<1>3. triager[w].tries \in Tries
  BY <1>1 DEF TriagerState
<1>4. triager[w].tries[Chosen(w)] \in 0..MaxAttempts /\ triager[w].tries[Chosen(w)] < MaxAttempts
  BY <1>1, <1>2, <1>3 DEF Tries, TriageInv, TriesOK
<1> QED
  BY <1>1, <1>2, <1>4, TriageAssumption DEF Tried

LEMMA TriageInitInv == TriageInit => TriageInv
<1> SUFFICES ASSUME TriageInit PROVE TriageInv
  OBVIOUS
<1>1. \A w \in Triagers : triager[w] = Off
  BY DEF TriageInit
<1>2. /\ \A a \in TriageAlerts : aiStatus[a] = "none" /\ attempts[a] = 0 /\ answered[a] = 0 /\ failed[a] = 0
      /\ trouble = 0
  BY DEF TriageInit
<1>3. triager \in [Triagers -> TriagerState]
  BY OffIdle DEF TriageInit
<1>4. TriageTypeOK
  <2>1. /\ triageDb \in TriageBackends /\ triaging \in Triagers \cup {"free"}
        /\ aiStatus \in [TriageAlerts -> {"none", "pending", "done", "skipped", "error"}]
        /\ attempts \in [TriageAlerts -> 0..MaxAttempts] /\ answered \in [TriageAlerts -> 0..2]
        /\ failed \in [TriageAlerts -> 0..MaxAttempts] /\ aged \subseteq TriageAlerts
    BY TriageAssumption DEF TriageInit
  <2> QED
    BY <2>1, <1>1, OffIdle DEF TriageTypeOK, TriagerState, Tries
<1>5. \A w \in Triagers : TriesOK(w)
  BY <1>1, <1>2, OffIdle DEF TriesOK
<1>6. AttemptsHappened
  BY <1>2 DEF AttemptsHappened
<1>7. AnswersOK
  BY <1>1, <1>2, OffIdle DEF AnswersOK, HolderWorks, AnswerKept, OneAnswerPerGroup
<1> QED
  BY <1>2, <1>3, <1>4, <1>5, <1>6, <1>7 DEF TriageInv, TriageTypes

\* The types after a step, from those of the parts it changes.
LEMMA TriageTypesFrom ==
  ASSUME triageDb' \in TriageBackends, aged' \subseteq TriageAlerts, triaging' \in Triagers \cup {"free"},
         aiStatus' \in [TriageAlerts -> {"none", "pending", "done", "skipped", "error"}],
         attempts' \in [TriageAlerts -> 0..MaxAttempts], answered' \in [TriageAlerts -> 0..2],
         failed' \in [TriageAlerts -> 0..MaxAttempts], triager' \in [Triagers -> TriagerState]
  PROVE  TriageTypes'
BY DEF TriageTypes, TriageTypeOK, TriagerState, Tries

\* Steps of the queue: the workers and the answers stay.
LEMMA QueueKeeps ==
  ASSUME TriageInv, \/ \E a \in TriageAlerts : Raised(a) \/ Ages(a)
                    \/ Retry \/ Clear
  PROVE  TriageInv'
<1>1. /\ UNCHANGED <<triageDb, triager, triaging, answered, failed, trouble>>
      /\ aged \subseteq aged' /\ aged' \subseteq TriageAlerts
  BY DEF Raised, Ages, Retry, Clear, TriageInv, TriageTypes, TriageTypeOK
<1>2. /\ aiStatus \in [TriageAlerts -> {"none", "pending", "done", "skipped", "error"}]
      /\ attempts \in [TriageAlerts -> 0..MaxAttempts]
      /\ failed \in [TriageAlerts -> 0..MaxAttempts] /\ 0 \in 0..MaxAttempts
  BY TriageAssumption DEF TriageInv, TriageTypes, TriageTypeOK
<1>3. /\ aiStatus' \in [TriageAlerts -> {"none", "pending", "done", "skipped", "error"}]
      /\ \A a \in TriageAlerts : /\ aiStatus[a] = "done" => aiStatus'[a] = "done"
                                 /\ aiStatus'[a] = "error" => aiStatus[a] = "error"
  <2>1. CASE \E a \in TriageAlerts : Raised(a) \/ Ages(a)
    BY <2>1, <1>2 DEF Raised, Ages
  <2>2. CASE Retry
    BY <2>2, <1>2 DEF Retry, Again
  <2>3. CASE Clear
    BY <2>3, <1>2 DEF Clear
  <2> QED
    BY <2>1, <2>2, <2>3
<1>4. attempts' \in [TriageAlerts -> 0..MaxAttempts] /\ \A a \in TriageAlerts : attempts'[a] \in {attempts[a], 0}
  BY <1>2 DEF Raised, Ages, Retry, Clear
<1>5. TriageTypes'
  BY <1>1, <1>3, <1>4, TriageTypesFrom DEF TriageInv, TriageTypes, TriageTypeOK
<1>6. AttemptsHappened'
  <2> SUFFICES ASSUME NEW a \in TriageAlerts
               PROVE  attempts'[a] <= failed'[a] /\ (aiStatus'[a] = "error" => failed'[a] >= MaxAttempts)
    BY DEF AttemptsHappened
  <2>1. attempts[a] \in Nat /\ failed[a] \in Nat /\ attempts[a] <= failed[a]
    BY <1>2, TriageAssumption DEF TriageInv, AttemptsHappened
  <2>2. aiStatus'[a] = "error" => failed'[a] >= MaxAttempts
    BY <1>1, <1>3 DEF TriageInv, AttemptsHappened
  <2> QED
    BY <1>1, <1>4, <2>1, <2>2
<1>7. \A w \in Triagers : TriesOK(w)'
  BY <1>1 DEF TriageInv, TriesOK, Tried, Chosen
<1>8. ASSUME trouble' = 0 PROVE AnswersOK'
  <2>1. trouble = 0 /\ OneAnswerPerGroup
    BY <1>1, <1>8 DEF TriageInv, AnswersOK
  <2>2. OneAnswerPerGroup'
    BY <1>1, <2>1 DEF OneAnswerPerGroup
  <2>3. \A w \in Triagers : HolderWorks(w)'
    BY <1>1, <2>1 DEF TriageInv, AnswersOK, HolderWorks, Chosen
  <2>4. \A a \in TriageAlerts : AnswerKept(a)'
    BY <1>1, <1>3, <2>1 DEF TriageInv, AnswersOK, AnswerKept, Answering, Chosen
  <2> QED
    BY <2>2, <2>3, <2>4 DEF AnswersOK
<1> QED
  BY <1>1, <1>5, <1>6, <1>7, <1>8 DEF TriageInv, AnswersOK
\* Steps in which the worker w gives up its batch, or takes up the queue.
LEMMA BatchKeeps ==
  ASSUME TriageInv, NEW w \in Triagers, Drain(w) \/ LookUpRaises(w) \/ Trip(w)
  PROVE  TriageInv'
<1>1. /\ UNCHANGED <<triageDb, aged, aiStatus, attempts, answered, failed>>
      /\ triaging' = triaging \/ (triaging \in {w, "free"} /\ triaging' = w)
      /\ trouble' = trouble \/ trouble' = trouble + 1
  BY DEF Drain, LookUpRaises, Trip
<1>2. PICK t \in TriagerState :
         /\ triager' = [triager EXCEPT ![w] = t]
         /\ t.at \in {"idle", "next"} /\ (t.at = "next" => t.batch # {} /\ triaging' = w)
         /\ \A a \in TriageAlerts : t.tries[a] <= failed[a]
         /\ \A a \in t.batch : t.tries[a] < MaxAttempts /\ aiStatus[a] = "pending"
  <2>1. CASE Drain(w)
    <3> DEFINE u == [at |-> "next", batch |-> Queue, tries |-> attempts]
    <3>1. u \in TriagerState
      BY DEF Queue, TriagerState, Tries, TriageInv, TriageTypes, TriageTypeOK
    <3>2. triager' = [triager EXCEPT ![w] = u] /\ Queue # {} /\ triaging' = w
      BY <2>1 DEF Drain
    <3>3. /\ \A a \in TriageAlerts : u.tries[a] <= failed[a]
          /\ \A a \in u.batch : u.tries[a] < MaxAttempts /\ aiStatus[a] = "pending"
      BY DEF TriageInv, AttemptsHappened, Queue
    <3> QED
      BY <3>1, <3>2, <3>3
  <2>2. CASE LookUpRaises(w) \/ Trip(w)
    <3>1. triager' = [triager EXCEPT ![w] = Off]
      BY <2>2 DEF LookUpRaises, Trip
    <3>2. \A a \in TriageAlerts : failed[a] >= 0
      <4>1. failed \in [TriageAlerts -> 0..MaxAttempts]
        BY DEF TriageInv, TriageTypes, TriageTypeOK
      <4> QED
        BY <4>1, TriageAssumption
    <3> QED
      BY <3>1, <3>2, OffIdle
  <2> QED
    BY <2>1, <2>2
<1>3. /\ triager' \in [Triagers -> TriagerState] /\ triager'[w] = t
      /\ \A o \in Triagers : o # w => triager'[o] = triager[o]
  BY <1>2 DEF TriageInv, TriageTypes
<1>4. TriageTypes'
  <2>1. triaging' \in Triagers \cup {"free"}
    BY <1>1 DEF TriageInv, TriageTypes, TriageTypeOK
  <2> QED
    BY <1>1, <1>3, <2>1, TriageTypesFrom DEF TriageInv, TriageTypes, TriageTypeOK
<1>5. ASSUME NEW o \in Triagers PROVE TriesOK(o)'
  <2>1. CASE o = w
    BY <1>1, <1>2, <1>3, <2>1 DEF TriesOK
  <2>2. CASE o # w
    BY <1>1, <1>3, <2>2 DEF TriageInv, TriesOK, Tried, Chosen
  <2> QED
    BY <2>1, <2>2
<1>6. AttemptsHappened' /\ trouble' \in Nat
  BY <1>1 DEF TriageInv, AttemptsHappened
<1>7. ASSUME trouble' = 0 PROVE AnswersOK'
  <2>1. trouble = 0 /\ (Drain(w) \/ LookUpRaises(w))
    BY <1>1, <1>7 DEF TriageInv, Trip
  <2>2. triager[w].at # "answer"
    BY <2>1 DEF Drain, LookUpRaises, Next_alert
  <2>3. ASSUME NEW o \in Triagers PROVE HolderWorks(o)'
    <3>1. CASE o = w
      <4>1. SUFFICES ASSUME t.at # "idle", NEW a \in t.batch PROVE answered[a] = 0 \/ ~(answered[a] > 0)
        BY <1>1, <1>2, <1>3, <3>1 DEF HolderWorks
      <4>2. Drain(w) /\ a \in TriageAlerts /\ aiStatus[a] = "pending"
        BY <1>2, <1>3, <2>1, <4>1, OffIdle DEF LookUpRaises, TriagerState
      <4>3. \A p \in Triagers : triager[p].at = "idle"
        BY <2>1, <4>2, TriageAssumption DEF Drain, TriageInv, AnswersOK, HolderWorks
      <4> QED
        BY <2>1, <4>2, <4>3 DEF TriageInv, AnswersOK, AnswerKept, Answering
    <3>2. CASE o # w
      <4>1. triager[o].at # "idle" => triaging = o
        BY <2>1 DEF TriageInv, AnswersOK, HolderWorks
      <4>2. triaging # o \/ triaging' = triaging
        BY <1>1, <3>2, TriageAssumption
      <4> QED
        BY <1>1, <1>3, <2>1, <3>2, <4>1, <4>2 DEF TriageInv, AnswersOK, HolderWorks, Chosen
    <3> QED
      BY <3>1, <3>2
  <2>4. ASSUME NEW a \in TriageAlerts PROVE AnswerKept(a)'
    <3>1. Answering(a) => Answering(a)'
      BY <1>3, <2>2 DEF Answering, Chosen
    <3> QED
      BY <1>1, <2>1, <3>1 DEF TriageInv, AnswersOK, AnswerKept
  <2>5. OneAnswerPerGroup'
    BY <1>1, <2>1 DEF TriageInv, AnswersOK, OneAnswerPerGroup
  <2> QED
    BY <2>3, <2>4, <2>5 DEF AnswersOK
<1> QED
  BY <1>4, <1>5, <1>6, <1>7 DEF TriageInv, AnswersOK

\* The worker w is done with the alert it was at.
LEMMA FinishMoves ==
  ASSUME TriageInv, NEW w \in Triagers, triager[w].at # "idle", NEW status, Finish(w, status)
  PROVE  \E t \in TriagerState :
           /\ triager' = [triager EXCEPT ![w] = t]
           /\ t.at \in {"idle", "next"} /\ (t.at = "next" => t.batch # {})
           /\ \A a \in TriageAlerts : t.tries[a] <= failed[a]
           /\ \A a \in t.batch : /\ t.tries[a] < MaxAttempts
                                /\ a \in triager[w].batch /\ a # Chosen(w)
<1>1. PICK h : h = triager[w]
  OBVIOUS
<1>2. h \in TriagerState /\ h.batch \subseteq TriageAlerts
  BY <1>1 DEF TriageInv, TriageTypes, TriagerState
<1>3. /\ \A a \in TriageAlerts : h.tries[a] <= failed[a]
      /\ \A a \in h.batch : h.tries[a] < MaxAttempts
  BY <1>1 DEF TriageInv, TriesOK
<1>4. triager' = [triager EXCEPT ![w] = IF h.batch = {Chosen(w)} THEN Off
                    ELSE [h EXCEPT !.at = "next", !.batch = h.batch \ {Chosen(w)}]]
  <2>1. triager' = [triager EXCEPT ![w] = IF triager[w].batch = {Chosen(w)} THEN Off
                      ELSE [triager[w] EXCEPT !.at = "next", !.batch = triager[w].batch \ {Chosen(w)}]]
    BY DEF Finish
  <2> QED
    BY <1>1, <2>1
<1>5. CASE h.batch = {Chosen(w)}
  <2>1. \A a \in TriageAlerts : failed[a] >= 0
    BY TriageAssumption DEF TriageInv, TriageTypes, TriageTypeOK
  <2> QED
    BY <1>4, <1>5, <2>1, OffIdle
<1>6. CASE h.batch # {Chosen(w)}
  <2>1. PICK t : t = [h EXCEPT !.at = "next", !.batch = h.batch \ {Chosen(w)}]
    OBVIOUS
  <2>2. t \in TriagerState /\ t.at = "next" /\ t.batch = h.batch \ {Chosen(w)} /\ t.tries = h.tries
    BY <1>2, <2>1 DEF TriagerState
  <2>3. Chosen(w) \in h.batch
    BY <1>1, ChosenIn
  <2>4. /\ \A a \in TriageAlerts : t.tries[a] <= failed[a]
        /\ \A a \in t.batch : t.tries[a] < MaxAttempts /\ a \in triager[w].batch /\ a # Chosen(w)
    BY <1>1, <1>3, <2>2
  <2>5. t.batch # {} /\ triager' = [triager EXCEPT ![w] = t]
    BY <1>4, <1>6, <2>1, <2>2, <2>3
  <2> QED
    BY <2>2, <2>4, <2>5
<1> QED
  BY <1>5, <1>6

\* An alert is marked without, or with, the answer of the model.
LEMMA FinishKeeps ==
  ASSUME TriageInv, NEW w \in Triagers, Skip(w) \/ Reuse(w) \/ StoreAnswer(w)
  PROVE  TriageInv'
<1>1. /\ UNCHANGED <<triageDb, aged, attempts, triaging, answered, failed, trouble>>
      /\ triager[w].at \in {"next", "answer"}
  BY DEF Skip, Reuse, StoreAnswer, Next_alert
<1>2. PICK status \in {"done", "skipped"} :
         /\ Finish(w, status)
         /\ status = "skipped" => Chosen(w) \in TooMinor /\ triager[w].at = "next"
  BY DEF Skip, Reuse, StoreAnswer, Next_alert
<1>3. PICK t \in TriagerState :
           /\ triager' = [triager EXCEPT ![w] = t]
           /\ t.at \in {"idle", "next"} /\ (t.at = "next" => t.batch # {})
           /\ \A a \in TriageAlerts : t.tries[a] <= failed[a]
           /\ \A a \in t.batch : /\ t.tries[a] < MaxAttempts
                                /\ a \in triager[w].batch /\ a # Chosen(w)
  BY <1>1, <1>2, FinishMoves
<1>4. /\ triager' \in [Triagers -> TriagerState] /\ triager'[w] = t
      /\ \A o \in Triagers : o # w => triager'[o] = triager[o]
  BY <1>3 DEF TriageInv, TriageTypes
<1>5. Chosen(w) \in TriageAlerts
  BY <1>1, ChosenIn
<1>6. /\ aiStatus' \in [TriageAlerts -> {"none", "pending", "done", "skipped", "error"}]
      /\ aiStatus'[Chosen(w)] = status
      /\ \A a \in TriageAlerts : a # Chosen(w) => aiStatus'[a] = aiStatus[a]
  BY <1>2, <1>5 DEF Finish, TriageInv, TriageTypes, TriageTypeOK
<1>7. TriageTypes'
  BY <1>1, <1>4, <1>6, TriageTypesFrom DEF TriageInv, TriageTypes, TriageTypeOK
<1>8. ASSUME NEW o \in Triagers PROVE TriesOK(o)'
  <2>1. CASE o = w
    BY <1>1, <1>3, <1>4, <2>1 DEF TriesOK
  <2>2. CASE o # w
    BY <1>1, <1>4, <2>2 DEF TriageInv, TriesOK, Tried, Chosen
  <2> QED
    BY <2>1, <2>2
<1>9. AttemptsHappened' /\ trouble' \in Nat
  BY <1>1, <1>6 DEF TriageInv, AttemptsHappened
<1>10. ASSUME trouble' = 0 PROVE AnswersOK'
  <2>1. trouble = 0
    BY <1>1, <1>10
  <2>2. ASSUME NEW o \in Triagers PROVE HolderWorks(o)'
    <3>1. CASE o = w
      BY <1>1, <1>3, <1>4, <2>1, <3>1 DEF TriageInv, AnswersOK, HolderWorks
    <3>2. CASE o # w
      BY <1>1, <1>4, <2>1, <3>2 DEF TriageInv, AnswersOK, HolderWorks, Chosen
    <3> QED
      BY <3>1, <3>2
  <2>3. ASSUME NEW a \in TriageAlerts PROVE AnswerKept(a)'
    <3>1. SUFFICES ASSUME answered[a] > 0
                   PROVE  a \notin TooMinor /\ (aiStatus'[a] = "done" \/ Answering(a)')
      BY <1>1 DEF AnswerKept
    <3>2. a \notin TooMinor /\ (aiStatus[a] = "done" \/ Answering(a))
      BY <2>1, <3>1 DEF TriageInv, AnswersOK, AnswerKept
    <3>3. CASE a = Chosen(w)
      BY <1>2, <1>6, <3>2, <3>3
    <3>4. CASE a # Chosen(w)
      <4>1. Answering(a) => Answering(a)'
        BY <1>4, <3>4 DEF Answering, Chosen
      <4> QED
        BY <1>6, <3>2, <3>4, <4>1
    <3> QED
      BY <3>3, <3>4
  <2>4. OneAnswerPerGroup'
    BY <1>1, <2>1 DEF TriageInv, AnswersOK, OneAnswerPerGroup
  <2> QED
    BY <2>2, <2>3, <2>4 DEF AnswersOK
<1> QED
  BY <1>7, <1>8, <1>9, <1>10 DEF TriageInv, AnswersOK
\* A call of the model returns.
LEMMA AskKeeps ==
  ASSUME TriageInv, NEW w \in Triagers, Ask(w)
  PROVE  TriageInv'
<1>1. PICK c : c = Chosen(w)
  OBVIOUS
<1>2. /\ triager[w].at = "next" /\ c \notin TooMinor /\ ~Twin(c)
      /\ UNCHANGED <<triageDb, aged, aiStatus, attempts, triaging, trouble>>
  BY <1>1 DEF Ask, Next_alert
<1>3. PICK outcome \in {"answer", "failure"} : triager' = [triager EXCEPT ![w].at = outcome]
  BY DEF Ask
<1>4. /\ c \in TriageAlerts /\ c \in triager[w].batch
      /\ triager[w].tries[c] \in 0..MaxAttempts /\ triager[w].tries[c] < MaxAttempts
      /\ Tried(w) = triager[w].tries[c] + 1
  BY <1>1, <1>2, ChosenIn DEF Tried
<1>5. PICK h : h = triager[w]
  OBVIOUS
<1>6. PICK t : t = [h EXCEPT !.at = outcome]
  OBVIOUS
<1>7. /\ t \in TriagerState /\ t.at = outcome /\ t.batch = h.batch /\ t.tries = h.tries
  BY <1>3, <1>5, <1>6 DEF TriageInv, TriageTypes, TriagerState
<1>8. /\ triager' \in [Triagers -> TriagerState] /\ triager'[w] = t
      /\ \A o \in Triagers : o # w => triager'[o] = triager[o]
  BY <1>3, <1>5, <1>6, <1>7 DEF TriageInv, TriageTypes
<1>9. /\ failed \in [TriageAlerts -> 0..MaxAttempts] /\ answered \in [TriageAlerts -> 0..2]
      /\ failed[c] \in 0..MaxAttempts /\ answered[c] \in 0..2 /\ MaxAttempts \in Nat
  BY <1>4, TriageAssumption DEF TriageInv, TriageTypes, TriageTypeOK
<1>10. PICK m : /\ m = Min({MaxAttempts, failed[c] + 1}) /\ m \in 0..MaxAttempts
                /\ m >= failed[c] /\ triager[w].tries[c] + 1 <= m
  <2>1. failed[c] + 1 \in Nat /\ failed[c] <= MaxAttempts /\ triager[w].tries[c] <= failed[c]
    BY <1>4, <1>9 DEF TriageInv, TriesOK
  <2>2. PICK m : m = Min({MaxAttempts, failed[c] + 1})
    OBVIOUS
  <2>3. m \in {MaxAttempts, failed[c] + 1} /\ m <= MaxAttempts
    BY <1>9, <2>1, <2>2, MinMax
  <2> QED
    BY <1>4, <1>9, <2>1, <2>2, <2>3
<1>11. PICK k : k = Min({2, answered[c] + 1}) /\ k \in 1..2 /\ (answered[c] = 0 => k = 1)
  <2>1. answered[c] + 1 \in Nat /\ 2 \in Nat
    BY <1>9
  <2>2. PICK k : k = Min({2, answered[c] + 1})
    OBVIOUS
  <2>3. k \in {2, answered[c] + 1} /\ k <= 2 /\ k <= answered[c] + 1
    BY <2>1, <2>2, MinMax
  <2> QED
    BY <1>9, <2>1, <2>2, <2>3
<1>12. /\ failed' = IF outcome = "failure" THEN [failed EXCEPT ![c] = m] ELSE failed
       /\ answered' = IF outcome = "answer" THEN [answered EXCEPT ![c] = k] ELSE answered
  <2>1. triager'[w].at = outcome
    BY <1>7, <1>8
  <2> QED
    BY <1>1, <1>10, <1>11, <2>1 DEF Ask
<1>13. /\ failed' \in [TriageAlerts -> 0..MaxAttempts]
       /\ \A a \in TriageAlerts : failed'[a] >= failed[a]
       /\ outcome = "failure" => triager[w].tries[c] + 1 <= failed'[c]
  <2>1. CASE outcome = "failure"
    <3>1. failed' = [failed EXCEPT ![c] = m]
      BY <1>12, <2>1
    <3>2. failed' \in [TriageAlerts -> 0..MaxAttempts] /\ failed'[c] = m
      BY <1>4, <1>9, <1>10, <3>1
    <3>3. ASSUME NEW a \in TriageAlerts PROVE failed'[a] >= failed[a]
      BY <1>9, <1>10, <3>1, <3>2
    <3> QED
      BY <1>10, <3>2, <3>3
  <2>2. CASE outcome = "answer"
    <3>1. \A a \in TriageAlerts : failed[a] \in Nat
      BY <1>9
    <3> QED
      BY <1>9, <1>12, <2>2, <3>1
  <2> QED
    BY <1>3, <2>1, <2>2
<1>14. /\ answered' \in [TriageAlerts -> 0..2]
       /\ \A a \in TriageAlerts : a # c \/ outcome = "failure" => answered'[a] = answered[a]
       /\ outcome = "answer" => answered'[c] = k
  BY <1>4, <1>9, <1>11, <1>12
<1>15. Chosen(w)' = c /\ Tried(w)' = triager[w].tries[c] + 1
  BY <1>1, <1>5, <1>7, <1>8 DEF Chosen, Tried
<1>16. TriageTypes'
  BY <1>2, <1>8, <1>13, <1>14, TriageTypesFrom DEF TriageInv, TriageTypes, TriageTypeOK
<1>17. ASSUME NEW o \in Triagers PROVE TriesOK(o)'
  <2>1. ASSUME NEW a \in TriageAlerts PROVE triager[o].tries[a] <= failed'[a]
    <3>1. triager[o].tries[a] \in Nat /\ failed[a] \in Nat /\ failed'[a] \in Nat
      BY <1>9, <1>13 DEF TriageInv, TriageTypes, TriagerState, Tries
    <3>2. triager[o].tries[a] <= failed[a] /\ failed[a] <= failed'[a]
      BY <1>13 DEF TriageInv, TriesOK
    <3> QED
      BY <3>1, <3>2
  <2>2. CASE o = w
    BY <1>4, <1>5, <1>7, <1>8, <1>13, <1>15, <2>1, <2>2 DEF TriageInv, TriesOK
  <2>3. CASE o # w
    <3>1. triager[o].at = "failure" => Tried(o) <= failed'[Chosen(o)]
      <4>1. SUFFICES ASSUME triager[o].at = "failure" PROVE Tried(o) <= failed'[Chosen(o)]
        OBVIOUS
      <4>2. Chosen(o) \in TriageAlerts /\ Tried(o) \in Nat
        BY <4>1, <1>9, ChosenIn
      <4>3. Tried(o) <= failed[Chosen(o)] /\ failed[Chosen(o)] <= failed'[Chosen(o)]
        BY <1>13, <4>1, <4>2 DEF TriageInv, TriesOK
      <4>4. failed[Chosen(o)] \in Nat /\ failed'[Chosen(o)] \in Nat
        BY <1>9, <1>13, <4>2
      <4> QED
        BY <4>2, <4>3, <4>4
    <3> QED
      BY <1>8, <2>1, <2>3, <3>1 DEF TriageInv, TriesOK, Tried, Chosen
  <2> QED
    BY <2>2, <2>3
<1>18. AttemptsHappened'
  <2> SUFFICES ASSUME NEW a \in TriageAlerts
               PROVE  attempts'[a] <= failed'[a] /\ (aiStatus'[a] = "error" => failed'[a] >= MaxAttempts)
    BY DEF AttemptsHappened
  <2>1. attempts[a] \in Nat /\ failed[a] \in Nat /\ failed'[a] \in Nat /\ failed'[a] >= failed[a]
    BY <1>9, <1>13 DEF TriageInv, TriageTypes, TriageTypeOK
  <2> QED
    BY <1>2, <1>9, <2>1 DEF TriageInv, AttemptsHappened
<1>19. ASSUME trouble' = 0 PROVE AnswersOK'
  <2>1. trouble = 0 /\ triaging = w
    BY <1>2, <1>19 DEF TriageInv, AnswersOK, HolderWorks
  <2>2. \A o \in Triagers : o # w => triager[o].at = "idle"
    BY <2>1 DEF TriageInv, AnswersOK, HolderWorks
  <2>3. ASSUME NEW a \in TriageAlerts, answered[a] > 0
        PROVE  aiStatus[a] = "done" /\ (DedupGroups /\ TwinOf[a] = TwinOf[c] => a \in aged)
    <3>1. ~Answering(a)
      BY <1>2, <2>2 DEF Answering
    <3> QED
      BY <1>2, <2>1, <2>3, <3>1 DEF TriageInv, AnswersOK, AnswerKept, Twin
  <2>4. answered[c] = 0 /\ \A a \in triager[w].batch : answered[a] = 0
    <3>1. \A a \in triager[w].batch : ~(answered[a] > 0) /\ a \in TriageAlerts
      BY <1>2, <2>1 DEF TriageInv, AnswersOK, HolderWorks, TriageTypes, TriagerState
    <3> QED
      BY <1>4, <1>9, <3>1
  <2>5. ASSUME NEW o \in Triagers PROVE HolderWorks(o)'
    <3>1. CASE o = w
      <4>1. triaging' = w /\ triager'[w].batch = triager[w].batch /\ triager'[w].at = outcome
        BY <1>2, <1>5, <1>7, <1>8, <2>1
      <4>2. \A a \in triager[w].batch : a \in TriageAlerts
        BY DEF TriageInv, TriageTypes, TriagerState
      <4>3. ASSUME NEW a \in triager[w].batch, answered'[a] > 0 PROVE outcome = "answer" /\ a = c
        <5>1. answered'[a] # answered[a]
          BY <2>4, <4>3
        <5> QED
          BY <1>3, <1>14, <4>2, <5>1
      <4> QED
        BY <1>15, <3>1, <4>1, <4>3 DEF HolderWorks
    <3>2. CASE o # w
      BY <1>8, <2>2, <3>2 DEF HolderWorks
    <3> QED
      BY <3>1, <3>2
  <2>6. ASSUME NEW a \in TriageAlerts, answered'[a] > 0
        PROVE  \/ answered[a] > 0 /\ a # c /\ answered'[a] = answered[a]
               \/ a = c /\ outcome = "answer" /\ answered'[a] = 1
    BY <1>4, <1>9, <1>11, <1>14, <2>4, <2>6
  <2>7. ASSUME NEW a \in TriageAlerts PROVE AnswerKept(a)'
    <3>1. SUFFICES ASSUME answered'[a] > 0
                   PROVE  a \notin TooMinor /\ (aiStatus'[a] = "done" \/ Answering(a)')
      BY DEF AnswerKept
    <3>2. CASE answered[a] > 0
      BY <1>2, <2>1, <2>3, <3>2 DEF TriageInv, AnswersOK, AnswerKept
    <3>3. CASE a = c /\ outcome = "answer"
      BY <1>2, <1>7, <1>8, <1>15, <3>3 DEF Answering
    <3> QED
      BY <2>6, <3>1, <3>2, <3>3
  <2>8. OneAnswerPerGroup'
    <3> SUFFICES ASSUME NEW a \in TriageAlerts, NEW b \in TriageAlerts,
                        answered'[a] > 0, answered'[b] > 0
                 PROVE  /\ answered'[a] = 1
                        /\ a # b /\ TwinOf[a] = TwinOf[b] /\ DedupGroups => aged \cap {a, b} # {}
      BY <1>2 DEF OneAnswerPerGroup
    <3>1. CASE a = c \/ b = c
      <4>1. answered'[a] = 1
        BY <2>1, <2>6 DEF TriageInv, AnswersOK, OneAnswerPerGroup
      <4>2. ASSUME a # b, TwinOf[a] = TwinOf[b], DedupGroups PROVE aged \cap {a, b} # {}
        BY <2>3, <2>6, <3>1, <4>2
      <4> QED
        BY <4>1, <4>2
    <3>2. CASE a # c /\ b # c
      BY <2>1, <2>6, <3>2 DEF TriageInv, AnswersOK, OneAnswerPerGroup
    <3> QED
      BY <3>1, <3>2
  <2> QED
    BY <2>5, <2>7, <2>8 DEF AnswersOK
<1> QED
  BY <1>2, <1>16, <1>17, <1>18, <1>19 DEF TriageInv, AnswersOK
\* A failure is recorded: one more attempt than the SELECT read.
LEMMA StoreFailureKeeps ==
  ASSUME TriageInv, NEW w \in Triagers, StoreFailure(w)
  PROVE  TriageInv'
<1>1. PICK c : c = Chosen(w)
  OBVIOUS
<1>2. PICK k : k = Tried(w)
  OBVIOUS
<1>3. /\ triager[w].at = "failure"
      /\ UNCHANGED <<triageDb, aged, triaging, answered, failed, trouble>>
      /\ triager' = [triager EXCEPT ![w] = Off]
      /\ attempts' = [attempts EXCEPT ![c] = k]
      /\ aiStatus' = [aiStatus EXCEPT ![c] = IF k >= MaxAttempts THEN "error" ELSE "pending"]
  BY <1>1, <1>2 DEF StoreFailure
<1>4. c \in TriageAlerts /\ k \in 0..MaxAttempts /\ k <= failed[c] /\ failed[c] \in Nat
  <2>1. failed \in [TriageAlerts -> 0..MaxAttempts] /\ MaxAttempts \in Nat
    BY TriageAssumption DEF TriageInv, TriageTypes, TriageTypeOK
  <2> QED
    BY <1>1, <1>2, <1>3, <2>1, ChosenIn DEF TriageInv, TriesOK
<1>5. /\ triager' \in [Triagers -> TriagerState] /\ triager'[w] = Off
      /\ \A o \in Triagers : o # w => triager'[o] = triager[o]
  BY <1>3, OffIdle DEF TriageInv, TriageTypes
<1>6. /\ attempts' \in [TriageAlerts -> 0..MaxAttempts]
      /\ attempts'[c] = k /\ \A a \in TriageAlerts : a # c => attempts'[a] = attempts[a]
  BY <1>3, <1>4 DEF TriageInv, TriageTypes, TriageTypeOK
<1>7. /\ aiStatus' \in [TriageAlerts -> {"none", "pending", "done", "skipped", "error"}]
      /\ aiStatus'[c] = "error" => k >= MaxAttempts
      /\ \A a \in TriageAlerts : a # c => aiStatus'[a] = aiStatus[a]
  BY <1>3, <1>4 DEF TriageInv, TriageTypes, TriageTypeOK
<1>8. TriageTypes'
  BY <1>3, <1>5, <1>6, <1>7, TriageTypesFrom DEF TriageInv, TriageTypes, TriageTypeOK
<1>9. ASSUME NEW o \in Triagers PROVE TriesOK(o)'
  <2>1. CASE o = w
    <3>1. \A a \in TriageAlerts : failed[a] >= 0
      <4>1. failed \in [TriageAlerts -> 0..MaxAttempts]
        BY DEF TriageInv, TriageTypes, TriageTypeOK
      <4> QED
        BY <4>1, TriageAssumption
    <3> QED
      BY <1>3, <1>5, <2>1, <3>1, OffIdle DEF TriesOK
  <2>2. CASE o # w
    BY <1>3, <1>5, <2>2 DEF TriageInv, TriesOK, Tried, Chosen
  <2> QED
    BY <2>1, <2>2
<1>10. AttemptsHappened' /\ trouble' \in Nat
  <2>1. ASSUME NEW a \in TriageAlerts
        PROVE  attempts'[a] <= failed'[a] /\ (aiStatus'[a] = "error" => failed'[a] >= MaxAttempts)
    <3>1. CASE a = c
      BY <1>3, <1>4, <1>6, <1>7, <3>1, TriageAssumption
    <3>2. CASE a # c
      BY <1>3, <1>6, <1>7, <3>2 DEF TriageInv, AttemptsHappened
    <3> QED
      BY <3>1, <3>2
  <2> QED
    BY <1>3, <2>1 DEF TriageInv, AttemptsHappened
<1>11. ASSUME trouble' = 0 PROVE AnswersOK'
  <2>1. trouble = 0 /\ ~(answered[c] > 0)
    <3>1. c \in triager[w].batch
      BY <1>1, <1>3, ChosenIn
    <3> QED
      BY <1>1, <1>3, <1>11, <3>1 DEF TriageInv, AnswersOK, HolderWorks
  <2>2. ASSUME NEW o \in Triagers PROVE HolderWorks(o)'
    <3>1. CASE o = w
      BY <1>5, <3>1, OffIdle DEF HolderWorks
    <3>2. CASE o # w
      BY <1>3, <1>5, <2>1, <3>2 DEF TriageInv, AnswersOK, HolderWorks, Chosen
    <3> QED
      BY <3>1, <3>2
  <2>3. ASSUME NEW a \in TriageAlerts PROVE AnswerKept(a)'
    <3>1. SUFFICES ASSUME answered[a] > 0
                   PROVE  a \notin TooMinor /\ (aiStatus'[a] = "done" \/ Answering(a)')
      BY <1>3 DEF AnswerKept
    <3>2. a # c /\ a \notin TooMinor /\ (aiStatus[a] = "done" \/ Answering(a))
      BY <2>1, <3>1 DEF TriageInv, AnswersOK, AnswerKept
    <3>3. Answering(a) => Answering(a)'
      BY <1>3, <1>5 DEF Answering, Chosen
    <3> QED
      BY <1>7, <3>2, <3>3
  <2>4. OneAnswerPerGroup'
    BY <1>3, <2>1 DEF TriageInv, AnswersOK, OneAnswerPerGroup
  <2> QED
    BY <2>2, <2>3, <2>4 DEF AnswersOK
<1> QED
  BY <1>8, <1>9, <1>10, <1>11 DEF TriageInv, AnswersOK

\* The answer cannot be stored: that counts as trouble, and as a failure.
LEMMA StoreRaisesKeeps ==
  ASSUME TriageInv, NEW w \in Triagers, StoreRaises(w)
  PROVE  TriageInv'
<1>1. PICK c : c = Chosen(w)
  OBVIOUS
<1>2. /\ triager[w].at = "answer" /\ trouble' = trouble + 1
      /\ triager' = [triager EXCEPT ![w].at = "failure"]
      /\ failed' = [failed EXCEPT ![c] = Min({MaxAttempts, failed[c] + 1})]
      /\ UNCHANGED <<triageDb, aged, aiStatus, attempts, triaging, answered>>
  BY <1>1 DEF StoreRaises
<1>3. /\ c \in TriageAlerts /\ c \in triager[w].batch
      /\ triager[w].tries[c] \in 0..MaxAttempts /\ triager[w].tries[c] < MaxAttempts
  BY <1>1, <1>2, ChosenIn
<1>4. PICK h : h = triager[w]
  OBVIOUS
<1>5. PICK t : t = [h EXCEPT !.at = "failure"]
  OBVIOUS
<1>6. t \in TriagerState /\ t.at = "failure" /\ t.batch = h.batch /\ t.tries = h.tries
  BY <1>4, <1>5 DEF TriageInv, TriageTypes, TriagerState
<1>7. /\ triager' \in [Triagers -> TriagerState] /\ triager'[w] = t
      /\ \A o \in Triagers : o # w => triager'[o] = triager[o]
  BY <1>2, <1>4, <1>5, <1>6 DEF TriageInv, TriageTypes
<1>8. /\ failed \in [TriageAlerts -> 0..MaxAttempts] /\ failed[c] \in 0..MaxAttempts /\ MaxAttempts \in Nat
  BY <1>3, TriageAssumption DEF TriageInv, TriageTypes, TriageTypeOK
<1>9. PICK m : /\ m = Min({MaxAttempts, failed[c] + 1}) /\ m \in 0..MaxAttempts
               /\ m >= failed[c] /\ triager[w].tries[c] + 1 <= m
  <2>1. failed[c] + 1 \in Nat /\ failed[c] <= MaxAttempts /\ triager[w].tries[c] <= failed[c]
    BY <1>3, <1>8 DEF TriageInv, TriesOK
  <2>2. PICK m : m = Min({MaxAttempts, failed[c] + 1})
    OBVIOUS
  <2>3. m \in {MaxAttempts, failed[c] + 1} /\ m <= MaxAttempts
    BY <1>8, <2>1, <2>2, MinMax
  <2> QED
    BY <1>3, <1>8, <2>1, <2>2, <2>3
<1>10. failed' = [failed EXCEPT ![c] = m]
  BY <1>2, <1>9
<1>11. failed' \in [TriageAlerts -> 0..MaxAttempts] /\ failed'[c] = m
  BY <1>3, <1>8, <1>9, <1>10
<1>12. ASSUME NEW a \in TriageAlerts
       PROVE  failed[a] \in Nat /\ failed'[a] \in Nat /\ failed'[a] >= failed[a]
  BY <1>8, <1>9, <1>10, <1>11
<1>13. Chosen(w)' = c /\ Tried(w)' = triager[w].tries[c] + 1
  BY <1>1, <1>4, <1>6, <1>7 DEF Chosen, Tried
<1>14. TriageTypes'
  BY <1>2, <1>7, <1>11, TriageTypesFrom DEF TriageInv, TriageTypes, TriageTypeOK
<1>15. ASSUME NEW o \in Triagers PROVE TriesOK(o)'
  <2>1. ASSUME NEW a \in TriageAlerts PROVE triager[o].tries[a] <= failed'[a]
    <3>1. triager[o].tries[a] \in Nat
      BY <1>8 DEF TriageInv, TriageTypes, TriagerState, Tries
    <3>2. triager[o].tries[a] <= failed[a]
      BY DEF TriageInv, TriesOK
    <3> QED
      BY <1>12, <3>1, <3>2
  <2>2. CASE o = w
    BY <1>3, <1>4, <1>6, <1>7, <1>9, <1>11, <1>13, <2>1, <2>2 DEF TriageInv, TriesOK
  <2>3. CASE o # w
    <3>1. triager[o].at = "failure" => Tried(o) <= failed'[Chosen(o)]
      <4>1. SUFFICES ASSUME triager[o].at = "failure" PROVE Tried(o) <= failed'[Chosen(o)]
        OBVIOUS
      <4>2. Chosen(o) \in TriageAlerts /\ Tried(o) \in Nat
        BY <4>1, <1>8, ChosenIn
      <4>3. Tried(o) <= failed[Chosen(o)]
        BY <4>1 DEF TriageInv, TriesOK
      <4> QED
        BY <1>12, <4>2, <4>3
    <3> QED
      BY <1>7, <2>1, <2>3, <3>1 DEF TriageInv, TriesOK, Tried, Chosen
  <2> QED
    BY <2>2, <2>3
<1>16. AttemptsHappened'
  <2> SUFFICES ASSUME NEW a \in TriageAlerts
               PROVE  attempts'[a] <= failed'[a] /\ (aiStatus'[a] = "error" => failed'[a] >= MaxAttempts)
    BY DEF AttemptsHappened
  <2>1. attempts[a] \in Nat /\ failed[a] \in Nat /\ failed'[a] \in Nat /\ failed'[a] >= failed[a]
    BY <1>8, <1>12 DEF TriageInv, TriageTypes, TriageTypeOK
  <2> QED
    BY <1>2, <1>8, <2>1 DEF TriageInv, AttemptsHappened
<1>17. trouble' # 0 /\ trouble' \in Nat
  BY <1>2 DEF TriageInv
<1> QED
  BY <1>14, <1>15, <1>16, <1>17 DEF TriageInv, AnswersOK

\* The holder of the lease loses it: without trouble, only when it rests.
LEMMA LoseLeaseKeeps ==
  ASSUME TriageInv, NEW w \in Triagers, LoseLease(w)
  PROVE  TriageInv'
<1>1. /\ triaging = w /\ triaging' = "free"
      /\ UNCHANGED <<triageDb, aged, aiStatus, attempts, triager, answered, failed>>
      /\ (triager[w].at = "idle" /\ trouble' = trouble) \/ trouble' = trouble + 1
  BY DEF LoseLease
<1>2. trouble \in Nat /\ trouble' \in Nat
  BY <1>1 DEF TriageInv
<1>3. TriageTypes'
  BY <1>1, TriageTypesFrom DEF TriageInv, TriageTypes, TriageTypeOK
<1>4. AttemptsHappened' /\ \A o \in Triagers : TriesOK(o)'
  BY <1>1 DEF TriageInv, AttemptsHappened, TriesOK, Tried, Chosen
<1>5. ASSUME trouble' = 0 PROVE AnswersOK'
  <2>1. trouble = 0 /\ triager[w].at = "idle"
    BY <1>1, <1>2, <1>5
  <2>2. \A o \in Triagers : triager[o].at = "idle"
    BY <1>1, <2>1 DEF TriageInv, AnswersOK, HolderWorks
  <2>3. \A o \in Triagers : HolderWorks(o)'
    BY <1>1, <2>2 DEF HolderWorks
  <2> QED
    BY <1>1, <2>1, <2>3
    DEF TriageInv, AnswersOK, AnswerKept, Answering, OneAnswerPerGroup, Chosen
<1> QED
  BY <1>2, <1>3, <1>4, <1>5 DEF TriageInv, AnswersOK

LEMMA TriageNextInv == TriageInv /\ [TriageNext]_triageVars => TriageInv'
<1> SUFFICES ASSUME TriageInv, [TriageNext]_triageVars PROVE TriageInv'
  OBVIOUS
<1>1. CASE UNCHANGED triageVars
  BY <1>1 DEF triageVars, TriageInv, TriageTypes, TriageTypeOK, TriesOK, Tried, Chosen, AttemptsHappened,
              AnswersOK, HolderWorks, AnswerKept, Answering, OneAnswerPerGroup
<1> QED
  BY <1>1, QueueKeeps, BatchKeeps, FinishKeeps, AskKeeps, StoreFailureKeeps, StoreRaisesKeeps, LoseLeaseKeeps
  DEF TriageNext, TriagerStep

LEMMA TriageAlways == TriageSpec => []TriageInv
BY TriageInitInv, TriageNextInv, PTL DEF TriageSpec

\* Without trouble the alerts of one rule and source get one answer between
\* them, and no alert is counted, or marked, as tried more often than it failed
\* (ai_worker.py, run_once).
THEOREM TriageAccountedHolds == TriageSpec => []TriageAccounted
<1>1. TriageInv => TriageAccounted
  <2> SUFFICES ASSUME TriageInv PROVE TriageAccounted
    OBVIOUS
  <2>1. CASE trouble = 0
    BY <2>1 DEF TriageInv, AnswersOK, TriageAccounted
  <2>2. CASE trouble # 0
    BY <2>2 DEF TriageInv, TriageAccounted, OneAnswerPerGroup
  <2> QED
    BY <2>1, <2>2
<1> QED
  BY <1>1, TriageAlways, PTL
-----------------------------------------------------------------------------
(***************************************************************************)
(* DashboardExport, whose refreshes run side by side.  Until a number is   *)
(* stored that another refresh has given out, the next sequence number,    *)
(* that of the tables or of the transaction, is above every number given   *)
(* and every reader's position; so a record that changes is new to all.    *)
(***************************************************************************)
ExportRow == [seq : Nat, ver : Nat]
RequestState ==
  [at : {"idle", "compare", "number", "write", "mark", "snapshot", "page"},
   cand : [Records -> Nat], pos : Nat, seq : Nat, mark : Nat]
TxnState == [by : Readers \cup {NoReader}, rows : [Records -> ExportRow], next : Nat \ {0}]
ExportTypes ==
  /\ source \in [Records -> Nat] /\ exported \in [Records -> ExportRow] /\ counter \in Nat \ {0}
  /\ txn \in TxnState /\ request \in [Readers -> RequestState]
  /\ position \in [Readers -> Nat] /\ started \in [Readers -> BOOLEAN]
  /\ mirror \in [Readers -> [Records -> Nat]] /\ aborts \in 0..MaxAborts /\ reissued \in BOOLEAN
VersionsOK ==
  \A x \in Records : /\ source[x] <= MaxVersion[x] /\ exported[x].ver <= source[x]
                     /\ txn.rows[x].ver <= source[x]
                     /\ \A r \in Readers : request[r].cand[x] <= source[x]
\* the writer is at its records, and there is a greatest number
Refreshing(r) == request[r].at \in {"compare", "number", "write"}
PhaseOK(r) == /\ request[r].at \in {"number", "write"} => request[r].pos \in Records
              /\ txn.by = r => Refreshing(r)
Below(b) == \A x \in Records : exported[x].seq <= b /\ txn.rows[x].seq <= b

\* every sequence number was given once, and is below the next one
Numbered(rows, next) ==
  /\ \A x \in Records : rows[x].seq < next
  /\ \A x, y \in Records : rows[x].seq = rows[y].seq /\ rows[x].seq # 0 => x = y
WriterOK ==
  txn.by # NoReader => /\ counter <= txn.next /\ Numbered(txn.rows, txn.next)
                       /\ \A x \in Records : txn.rows[x] = exported[x] \/ txn.rows[x].seq >= counter
GivenOK(r) == /\ request[r].mark < counter /\ position[r] < counter
              /\ \A x \in Records : exported[x].seq <= position[r] => mirror[r][x] = exported[x].ver
Orderly == /\ Numbered(exported, counter) /\ WriterOK
           /\ \A r \in Readers : GivenOK(r)
ExportInv == /\ ExportTypes /\ VersionsOK /\ (\A r \in Readers : PhaseOK(r))
             /\ (\E b \in Nat : Below(b)) /\ (~reissued => Orderly)
-----------------------------------------------------------------------------
\* A bounded set of numbers has a greatest one.
LEMMA MaxIn ==
  ASSUME NEW S, S \subseteq Nat, S # {}, NEW b \in Nat, \A x \in S : x <= b
  PROVE  Max(S) \in S /\ \A x \in S : x <= Max(S)
<1> DEFINE T == {n \in Nat : \E x \in S : n = b - x}
<1>1. PICK z \in S : TRUE
  OBVIOUS
<1>2. b - z \in T
  BY <1>1
<1>3. T \subseteq Nat /\ T # {}
  BY <1>2
<1>4. PICK n \in T : \A m \in T : n <= m
  <2> HIDE DEF T
  <2> QED
    BY <1>3, LeastNat
<1>5. PICK x \in S : n = b - x
  BY <1>4
<1>6. ASSUME NEW y \in S PROVE x >= y
  <2>1. b - y \in T
    OBVIOUS
  <2>2. n <= b - y
    BY <1>4, <2>1
  <2> QED
    BY <1>5, <2>2
<1>7. \E m \in S : \A y \in S : m >= y
  BY <1>5, <1>6
<1>8. Max(S) \in S /\ \A y \in S : Max(S) >= y
  BY <1>7 DEF Max
<1> QED
  BY <1>8

LEMMA EndedOK == /\ Ended \in RequestState /\ Ended.at = "idle" /\ Ended.mark = 0
                 /\ \A x \in Records : Ended.cand[x] = 0
BY DEF Ended, RequestState

LEMMA NoTxnOK == /\ NoTxn \in TxnState /\ NoTxn.by = NoReader
                 /\ \A x \in Records : NoTxn.rows[x].ver = 0 /\ NoTxn.rows[x].seq = 0
<1>1. None \in ExportRow /\ None.seq = 0 /\ None.ver = 0
  BY DEF None, ExportRow
<1> QED
  BY <1>1 DEF NoTxn, TxnState

LEMMA ExportInitInv == ExportInit => ExportInv
<1> SUFFICES ASSUME ExportInit PROVE ExportInv
  OBVIOUS
<1>1. /\ \A x \in Records : source[x] = 0 /\ exported[x] = None
      /\ counter = 1 /\ txn = NoTxn /\ \A r \in Readers : request[r] = Ended
      /\ \A r \in Readers : position[r] = 0 /\ \A x \in Records : mirror[r][x] = 0
  BY DEF ExportInit
<1>2. None \in ExportRow /\ None.seq = 0 /\ None.ver = 0
  BY DEF None, ExportRow
<1>3. ExportTypes
  <2>1. txn \in TxnState /\ exported \in [Records -> ExportRow] /\ source \in [Records -> Nat]
    BY <1>2, NoTxnOK DEF ExportInit
  <2>2. request \in [Readers -> RequestState] /\ counter \in Nat \ {0} /\ reissued \in BOOLEAN
    <3>1. request = [r \in Readers |-> Ended]
      BY DEF ExportInit
    <3>2. request \in [Readers -> RequestState]
      BY Zenon, <3>1, EndedOK
    <3>3. counter \in Nat \ {0}
      BY <1>1
    <3>4. reissued \in BOOLEAN
      BY Zenon DEF ExportInit
    <3> QED
      BY <3>2, <3>3, <3>4
  <2>3. /\ position \in [Readers -> Nat] /\ started \in [Readers -> BOOLEAN]
        /\ mirror \in [Readers -> [Records -> Nat]] /\ aborts \in 0..MaxAborts
    BY ExportAssumption DEF ExportInit
  <2> QED
    BY <2>1, <2>2, <2>3 DEF ExportTypes
<1>4. VersionsOK
  <2> SUFFICES ASSUME NEW x \in Records
               PROVE  /\ source[x] <= MaxVersion[x] /\ exported[x].ver <= source[x]
                      /\ txn.rows[x].ver <= source[x]
                      /\ \A r \in Readers : request[r].cand[x] <= source[x]
    BY DEF VersionsOK
  <2>1. source[x] = 0 /\ exported[x].ver = 0 /\ MaxVersion[x] \in Nat
    BY <1>1, <1>2, ExportAssumption
  <2>2. txn.rows[x].ver = 0
    BY <1>1, NoTxnOK
  <2>3. \A r \in Readers : request[r].cand[x] = 0
    BY <1>1, EndedOK
  <2> QED
    BY <2>1, <2>2, <2>3
<1>5. Below(0)
  BY <1>1, <1>2, NoTxnOK DEF Below
<1>6. \A r \in Readers : PhaseOK(r)
  BY <1>1, NoTxnOK, EndedOK, ExportAssumption DEF PhaseOK
<1>7. Orderly
  BY <1>1, <1>2, NoTxnOK, EndedOK DEF Orderly, Numbered, WriterOK, GivenOK
<1> QED
  BY <1>3, <1>4, <1>5, <1>6, <1>7 DEF ExportInv

\* Steps that move one request on, and leave the tables as they are.
LEMMA RequestMoves ==
  ASSUME ExportInv, NEW r \in Readers, NEW h \in RequestState,
         request' = [request EXCEPT ![r] = h],
         UNCHANGED <<source, exported, counter, txn, started, position, mirror, reissued>>,
         aborts' \in 0..MaxAborts,
         \A x \in Records : h.cand[x] <= source[x],
         txn.by = r => h.at \in {"compare", "number", "write"},
         h.at \in {"number", "write"} => h.pos \in Records,
         ~reissued => h.mark < counter
  PROVE  ExportInv'
<1>1. /\ request' \in [Readers -> RequestState] /\ request'[r] = h
      /\ \A q \in Readers : q # r => request'[q] = request[q]
  BY DEF ExportInv, ExportTypes
<1>2. ExportTypes'
  BY <1>1 DEF ExportInv, ExportTypes
<1>3. VersionsOK'
  BY <1>1 DEF ExportInv, VersionsOK
<1>4. \A q \in Readers : PhaseOK(q)'
  BY <1>1 DEF ExportInv, PhaseOK, Refreshing
<1>5. \E b \in Nat : Below(b)'
  BY DEF ExportInv, Below
<1>6. ASSUME ~reissued' PROVE Orderly'
  <2>1. Orderly
    BY <1>6 DEF ExportInv
  <2>2. ASSUME NEW q \in Readers PROVE GivenOK(q)'
    <3>1. CASE q = r
      BY <1>1, <1>6, <2>1, <3>1 DEF Orderly, GivenOK
    <3>2. CASE q # r
      BY <1>1, <2>1, <3>2 DEF Orderly, GivenOK
    <3> QED
      BY <3>1, <3>2
  <2> QED
    BY <2>1, <2>2 DEF Orderly, Numbered, WriterOK
<1> QED
  BY <1>2, <1>3, <1>4, <1>5, <1>6 DEF ExportInv

LEMMA ChangeKeeps == ASSUME ExportInv, NEW x \in Records, Change(x) PROVE ExportInv'
<1>1. /\ source[x] < MaxVersion[x] /\ source' = [source EXCEPT ![x] = source[x] + 1]
      /\ UNCHANGED <<exported, counter, txn, request, position, started, mirror, aborts, reissued>>
  BY DEF Change
<1>2. source \in [Records -> Nat] /\ source[x] \in Nat /\ MaxVersion[x] \in Nat
  BY ExportAssumption DEF ExportInv, ExportTypes
<1>3. source' \in [Records -> Nat] /\ source'[x] = source[x] + 1
  BY <1>1, <1>2
<1>4. ExportTypes'
  BY <1>1, <1>3 DEF ExportInv, ExportTypes
<1>5. ASSUME NEW y \in Records PROVE /\ source[y] \in Nat /\ source'[y] \in Nat /\ source[y] <= source'[y]
                                     /\ source'[y] <= MaxVersion[y]
  <2>1. source[y] \in Nat /\ source'[y] \in Nat /\ source[y] <= MaxVersion[y]
    BY <1>2, <1>3 DEF ExportInv, VersionsOK
  <2>2. CASE y = x
    BY <1>1, <1>2, <1>3, <2>1, <2>2
  <2>3. CASE y # x
    BY <1>1, <1>2, <2>1, <2>3
  <2> QED
    BY <2>2, <2>3
<1>6. ASSUME NEW y \in Records
      PROVE  /\ exported[y].ver <= source'[y] /\ txn.rows[y].ver <= source'[y]
             /\ \A r \in Readers : request[r].cand[y] <= source'[y]
  <2>1. exported[y].ver \in Nat /\ txn.rows[y].ver \in Nat
    BY DEF ExportInv, ExportTypes, TxnState, ExportRow
  <2>2. exported[y].ver <= source[y] /\ txn.rows[y].ver <= source[y]
    BY DEF ExportInv, VersionsOK
  <2>3. ASSUME NEW r \in Readers PROVE request[r].cand[y] <= source'[y]
    <3>1. request[r].cand[y] \in Nat
      BY DEF ExportInv, ExportTypes, RequestState
    <3>2. request[r].cand[y] <= source[y]
      BY DEF ExportInv, VersionsOK
    <3> QED
      BY <1>5, <3>1, <3>2
  <2> QED
    BY <1>5, <2>1, <2>2, <2>3
<1>7. VersionsOK'
  BY <1>1, <1>5, <1>6 DEF VersionsOK
<1> QED
  BY <1>1, <1>4, <1>7
  DEF ExportInv, PhaseOK, Refreshing, Below, Orderly, Numbered, WriterOK, GivenOK

LEMMA NextPositive == ASSUME ExportInv, NEW r \in Readers PROVE Next_(r) \in Nat \ {0}
BY DEF ExportInv, ExportTypes, TxnState, Next_

\* A record that is compared, or written, is passed.
LEMMA PassedOK ==
  ASSUME NEW g \in RequestState, g.pos \in Records, \A x \in Records : g.cand[x] <= source[x],
         source \in [Records -> Nat]
  PROVE  /\ Passed(g) \in RequestState /\ Passed(g).at = "compare" /\ Passed(g).mark = g.mark
         /\ \A x \in Records : Passed(g).cand[x] <= source[x]
<1>1. PICK p : p = g.pos + 1
  OBVIOUS
<1>2. PICK c : c = [g.cand EXCEPT ![g.pos] = 0]
  OBVIOUS
<1>3. p \in Nat /\ c \in [Records -> Nat] /\ \A x \in Records : c[x] <= source[x]
  BY <1>1, <1>2, ExportAssumption DEF RequestState
<1>4. PICK h : h = Passed(g)
  OBVIOUS
<1>5. h = [g EXCEPT !.at = "compare", !.cand = c, !.pos = p, !.seq = 0]
  BY <1>1, <1>2, <1>4 DEF Passed, RequestState
<1>6. h \in RequestState /\ h.at = "compare" /\ h.mark = g.mark /\ h.cand = c
  BY <1>3, <1>5 DEF RequestState
<1> QED
  BY <1>3, <1>4, <1>6

LEMMA RefreshSteps ==
  ASSUME ExportInv, NEW r \in Readers, Get(r) \/ Compare(r) \/ Number(r)
  PROVE  ExportInv'
<1>1. /\ UNCHANGED <<source, exported, counter, txn, started, position, mirror, aborts, reissued>>
      /\ aborts \in 0..MaxAborts /\ counter \in Nat \ {0}
  BY DEF Get, Compare, Number, ExportInv, ExportTypes
<1>2. PICK g : g = request[r]
  OBVIOUS
<1>3. /\ g \in RequestState /\ (~reissued => g.mark < counter)
      /\ \A x \in Records : g.cand[x] <= source[x]
  BY <1>2 DEF ExportInv, ExportTypes, Orderly, GivenOK, VersionsOK
<1>4. ASSUME Get(r) PROVE ExportInv'
  <2>1. PICK h : h = [Ended EXCEPT !.at = "compare", !.cand = source]
    OBVIOUS
  <2>2. h \in RequestState /\ h.at = "compare" /\ h.cand = source /\ h.mark = 0
    BY <2>1, EndedOK DEF ExportInv, ExportTypes, RequestState
  <2>3. request' = [request EXCEPT ![r] = h]
    BY <1>4, <2>1 DEF Get
  <2>4. \A x \in Records : source[x] <= source[x]
    BY DEF ExportInv, ExportTypes
  <2>5. 0 < counter
    BY <1>1
  <2> QED
    BY <1>1, <2>2, <2>3, <2>4, <2>5, RequestMoves
<1>5. ASSUME Compare(r) PROVE ExportInv'
  <2>1. g.at = "compare" /\ g.pos \in Records
    BY <1>2, <1>5 DEF Compare
  <2>2. CASE Changed(r, g.pos)
    <3>1. PICK h : h = [g EXCEPT !.at = "number"]
      OBVIOUS
    <3>2. request' = [request EXCEPT ![r] = h]
      BY <1>2, <1>5, <2>2, <3>1 DEF Compare
    <3>3. h \in RequestState /\ h.cand = g.cand /\ h.mark = g.mark /\ h.at = "number" /\ h.pos = g.pos
      BY <1>3, <3>1 DEF RequestState
    <3> QED
      BY <1>1, <1>3, <2>1, <3>2, <3>3, RequestMoves
  <2>3. CASE ~Changed(r, g.pos)
    <3>1. PICK h : h = Passed(g)
      OBVIOUS
    <3>2. request' = [request EXCEPT ![r] = h]
      BY <1>2, <1>5, <2>3, <3>1 DEF Compare
    <3>3. source \in [Records -> Nat]
      BY DEF ExportInv, ExportTypes
    <3>4. /\ h \in RequestState /\ h.at = "compare" /\ h.mark = g.mark
          /\ \A x \in Records : h.cand[x] <= source[x]
      BY <1>3, <2>1, <3>1, <3>3, PassedOK
    <3> QED
      BY <1>1, <1>3, <3>2, <3>4, RequestMoves
  <2> QED
    BY <2>2, <2>3
<1>6. ASSUME Number(r) PROVE ExportInv'
  <2>1. PICK n : n = Next_(r)
    OBVIOUS
  <2>2. PICK h : h = [g EXCEPT !.at = "write", !.seq = n]
    OBVIOUS
  <2>3. g.at = "number" /\ g.pos \in Records
    BY <1>2, <1>6 DEF Number, ExportInv, PhaseOK
  <2>4. request' = [request EXCEPT ![r] = h]
    BY <1>2, <1>6, <2>1, <2>2 DEF Number
  <2>5. n \in Nat
    BY <2>1, NextPositive
  <2>6. /\ h \in RequestState /\ h.cand = g.cand /\ h.mark = g.mark /\ h.pos = g.pos
        /\ h.at = "write"
    BY <1>3, <2>2, <2>5 DEF RequestState
  <2> QED
    BY <1>1, <1>3, <2>3, <2>4, <2>6, RequestMoves
<1> QED
  BY <1>4, <1>5, <1>6

\* A changed record gets the number that was read, in the transaction.
LEMMA WriteKeeps == ASSUME ExportInv, NEW r \in Readers, Write(r) PROVE ExportInv'
<1>1. PICK g : g = request[r]
  OBVIOUS
<1>2. PICK n : n = g.seq
  OBVIOUS
<1>3. PICK z : z = g.pos
  OBVIOUS
<1>4. PICK base : base = Rows(r)
  OBVIOUS
<1>5. PICK e : e = [seq |-> n, ver |-> g.cand[z]]
  OBVIOUS
<1>6. PICK h : h = Passed(g)
  OBVIOUS
<1>7. PICK rows : rows = [base EXCEPT ![z] = e]
  OBVIOUS
<1>8. /\ g.at = "write" /\ txn.by \in {r, NoReader} /\ z \in Records
      /\ reissued' = (reissued \/ n # Next_(r))
      /\ UNCHANGED <<source, exported, counter, position, started, mirror, aborts>>
  BY <1>1, <1>2, <1>3 DEF Write, ExportInv, PhaseOK
<1>9. /\ txn' = [by |-> r, next |-> n + 1, rows |-> rows]
      /\ request' = [request EXCEPT ![r] = h]
  BY <1>1, <1>2, <1>3, <1>4, <1>5, <1>6, <1>7, <1>8 DEF Write
<1>10. /\ g \in RequestState /\ \A x \in Records : g.cand[x] <= source[x]
  BY <1>1 DEF ExportInv, ExportTypes, VersionsOK
<1>11. n \in Nat /\ n + 1 \in Nat \ {0}
  BY <1>2, <1>10 DEF RequestState
<1>12. /\ h \in RequestState /\ h.at = "compare" /\ h.mark = g.mark
       /\ \A x \in Records : h.cand[x] <= source[x]
  <2>1. source \in [Records -> Nat]
    BY DEF ExportInv, ExportTypes
  <2> QED
    BY <1>3, <1>6, <1>8, <1>10, <2>1, PassedOK
<1>13. /\ request' \in [Readers -> RequestState] /\ request'[r] = h
       /\ \A q \in Readers : q # r => request'[q] = request[q]
  BY <1>9, <1>12 DEF ExportInv, ExportTypes
<1>14. /\ base \in [Records -> ExportRow]
       /\ \A x \in Records : base[x].ver <= source[x]
       /\ \E b \in Nat : \A x \in Records : exported[x].seq <= b /\ base[x].seq <= b
  BY <1>4 DEF Rows, ExportInv, ExportTypes, TxnState, VersionsOK, Below
<1>15. e \in ExportRow /\ e.seq = n /\ e.ver = g.cand[z]
  BY <1>5, <1>8, <1>10, <1>11 DEF RequestState, ExportRow
<1>16. /\ rows \in [Records -> ExportRow] /\ rows[z] = e
       /\ \A x \in Records : x # z => rows[x] = base[x]
  BY <1>7, <1>8, <1>14, <1>15
<1>17. txn' \in TxnState /\ txn'.by = r /\ txn'.next = n + 1 /\ txn'.rows = rows
  BY <1>9, <1>11, <1>16 DEF TxnState
<1>18. ExportTypes'
  BY <1>8, <1>13, <1>17 DEF ExportInv, ExportTypes
<1>19. VersionsOK'
  <2>1. ASSUME NEW x \in Records PROVE rows[x].ver <= source[x]
    BY <1>8, <1>10, <1>14, <1>15, <1>16
  <2>2. ASSUME NEW x \in Records, NEW q \in Readers PROVE request'[q].cand[x] <= source[x]
    BY <1>12, <1>13 DEF ExportInv, VersionsOK
  <2> QED
    BY <1>8, <1>17, <2>1, <2>2 DEF ExportInv, VersionsOK
<1>20. \A q \in Readers : PhaseOK(q)'
  BY <1>12, <1>13, <1>17 DEF ExportInv, PhaseOK, Refreshing
<1>21. \E b \in Nat : Below(b)'
  <2>1. PICK b \in Nat : \A x \in Records : exported[x].seq <= b /\ base[x].seq <= b
    BY <1>14
  <2>2. b + n \in Nat
    BY <1>11
  <2>3. ASSUME NEW x \in Records PROVE exported[x].seq <= b + n /\ rows[x].seq <= b + n
    <3>1. exported[x].seq \in Nat /\ base[x].seq \in Nat
      BY <1>14 DEF ExportInv, ExportTypes, ExportRow
    <3>2. rows[x].seq = n \/ rows[x].seq = base[x].seq
      BY <1>15, <1>16
    <3> QED
      BY <1>11, <2>1, <3>1, <3>2
  <2> QED
    BY <1>8, <1>17, <2>2, <2>3 DEF Below
<1>22. ASSUME ~reissued' PROVE Orderly'
  <2>1. ~reissued /\ n = Next_(r) /\ Orderly
    BY <1>8, <1>22 DEF ExportInv
  <2>2. counter \in Nat \ {0} /\ \A x \in Records : base[x].seq \in Nat
    BY <1>14 DEF ExportInv, ExportTypes, ExportRow
  <2>3. /\ n >= counter /\ n # 0 /\ Numbered(base, n)
        /\ \A x \in Records : base[x] = exported[x] \/ base[x].seq >= counter
    <3>1. CASE txn.by = r
      <4>1. base = txn.rows /\ n = txn.next /\ txn.by # NoReader
        BY <1>4, <2>1, <3>1, ExportAssumption DEF Rows, Next_
      <4>2. counter <= txn.next /\ txn.next \in Nat
        BY <2>1, <4>1 DEF Orderly, WriterOK, ExportInv, ExportTypes, TxnState
      <4> QED
        BY <2>1, <2>2, <4>1, <4>2 DEF Orderly, WriterOK
    <3>2. CASE txn.by # r
      <4>1. base = exported /\ n = counter
        BY <1>4, <2>1, <3>2 DEF Rows, Next_
      <4> QED
        BY <2>1, <2>2, <4>1 DEF Orderly
    <3> QED
      BY <3>1, <3>2
  <2>4. Numbered(rows, n + 1)
    <3>1. ASSUME NEW x \in Records PROVE rows[x].seq \in Nat /\ rows[x].seq < n + 1 /\ (x # z => rows[x].seq < n)
      <4>1. rows[x].seq \in Nat
        BY <1>16 DEF ExportRow
      <4> QED
        BY <1>11, <1>15, <1>16, <2>3, <4>1 DEF Numbered
    <3>2. ASSUME NEW x \in Records, NEW y \in Records, rows[x].seq = rows[y].seq, rows[x].seq # 0
          PROVE  x = y
      <4>1. CASE x = z \/ y = z
        BY <1>11, <1>15, <1>16, <3>1, <3>2, <4>1
      <4>2. CASE x # z /\ y # z
        BY <1>16, <2>3, <3>2, <4>2 DEF Numbered
      <4> QED
        BY <4>1, <4>2
    <3> QED
      BY <3>1, <3>2 DEF Numbered
  <2>5. WriterOK'
    <3>1. counter <= n + 1
      BY <1>11, <2>2, <2>3
    <3>2. \A x \in Records : rows[x] = exported[x] \/ rows[x].seq >= counter
      BY <1>15, <1>16, <2>3
    <3> QED
      BY <1>8, <1>17, <2>4, <3>1, <3>2 DEF WriterOK, Numbered
  <2>6. ASSUME NEW q \in Readers PROVE GivenOK(q)'
    <3>1. request'[q].mark = request[q].mark
      BY <1>1, <1>12, <1>13
    <3> QED
      BY <1>8, <2>1, <3>1 DEF Orderly, GivenOK
  <2> QED
    BY <1>8, <2>1, <2>5, <2>6 DEF Orderly, Numbered
<1> QED
  BY <1>18, <1>19, <1>20, <1>21, <1>22 DEF ExportInv

\* A transaction commits.  Records whose row it changed are above every reader.
LEMMA ExportCommitKeeps == ASSUME ExportInv, NEW r \in Readers, Commit(r) PROVE ExportInv'
<1>1. PICK h : h = [Ended EXCEPT !.at = IF started[r] THEN "page" ELSE "mark"]
  OBVIOUS
<1>2. /\ UNCHANGED <<source, position, started, mirror, aborts, reissued>>
      /\ request' = [request EXCEPT ![r] = h]
      /\ exported' = Rows(r) /\ counter' = Next_(r)
      /\ txn' = IF txn.by = r THEN NoTxn ELSE txn
  BY <1>1 DEF Commit
<1>3. /\ h \in RequestState /\ h.at \in {"page", "mark"} /\ h.mark = 0
      /\ \A x \in Records : h.cand[x] = 0 /\ 0 <= source[x]
  <2>1. PICK a \in {"page", "mark"} : h = [Ended EXCEPT !.at = a]
    BY <1>1
  <2>2. h \in RequestState /\ h.at = a /\ h.mark = Ended.mark /\ h.cand = Ended.cand
    BY <2>1, EndedOK DEF RequestState
  <2>3. \A x \in Records : 0 <= source[x]
    BY DEF ExportInv, ExportTypes
  <2> QED
    BY <2>2, <2>3, EndedOK
<1>4. /\ request' \in [Readers -> RequestState] /\ request'[r] = h
      /\ \A q \in Readers : q # r => request'[q] = request[q]
  BY <1>2, <1>3 DEF ExportInv, ExportTypes
<1>5. CASE txn.by # r
  <2>1. exported' = exported /\ counter' = counter /\ txn' = txn
    BY <1>2, <1>5 DEF Rows, Next_
  <2>2. aborts' \in 0..MaxAborts /\ 0 < counter
    BY <1>2 DEF ExportInv, ExportTypes
  <2> QED
    BY <1>2, <1>3, <1>5, <2>1, <2>2, RequestMoves
<1>6. CASE txn.by = r
  <2>1. exported' = txn.rows /\ counter' = txn.next /\ txn' = NoTxn /\ txn.by # NoReader
    BY <1>2, <1>6, ExportAssumption DEF Rows, Next_
  <2>2. ExportTypes'
    BY <1>2, <1>4, <2>1, NoTxnOK DEF ExportInv, ExportTypes, TxnState
  <2>3. VersionsOK'
    <3>1. ASSUME NEW x \in Records, NEW q \in Readers PROVE request'[q].cand[x] <= source[x]
      BY <1>3, <1>4 DEF ExportInv, VersionsOK
    <3> QED
      BY <1>2, <1>3, <2>1, <3>1, NoTxnOK DEF ExportInv, VersionsOK
  <2>4. \A q \in Readers : PhaseOK(q)'
    BY <1>3, <1>4, <2>1, NoTxnOK, ExportAssumption DEF ExportInv, PhaseOK, Refreshing
  <2>5. \E b \in Nat : Below(b)'
    BY <2>1, NoTxnOK DEF ExportInv, Below
  <2>6. ASSUME ~reissued' PROVE Orderly'
    <3>1. Orderly
      BY <1>2, <2>6 DEF ExportInv
    <3>2. /\ counter \in Nat \ {0} /\ counter' \in Nat \ {0} /\ counter <= counter'
          /\ Numbered(exported', counter')
          /\ \A x \in Records : exported'[x] = exported[x] \/ exported'[x].seq >= counter
      BY <2>1, <3>1 DEF ExportInv, ExportTypes, TxnState, Orderly, WriterOK
    <3>3. WriterOK'
      BY <2>1, NoTxnOK DEF WriterOK
    <3>4. ASSUME NEW q \in Readers PROVE GivenOK(q)'
      <4>1. request'[q].mark < counter' /\ position[q] < counter'
        <5>1. request'[q].mark = request[q].mark \/ request'[q].mark = 0
          BY <1>3, <1>4
        <5>2. request[q].mark \in Nat /\ position[q] \in Nat
          BY DEF ExportInv, ExportTypes, RequestState
        <5>3. request[q].mark < counter /\ position[q] < counter
          BY <3>1 DEF Orderly, GivenOK
        <5> QED
          BY <3>2, <5>1, <5>2, <5>3
      <4>2. ASSUME NEW x \in Records, exported'[x].seq <= position[q]
            PROVE  mirror[q][x] = exported'[x].ver
        <5>1. position[q] \in Nat /\ position[q] < counter /\ exported'[x].seq \in Nat
          BY <2>1, <3>1 DEF ExportInv, ExportTypes, TxnState, Orderly, GivenOK, ExportRow
        <5>2. exported'[x] = exported[x]
          BY <3>2, <4>2, <5>1
        <5> QED
          BY <3>1, <4>2, <5>2 DEF Orderly, GivenOK
      <4> QED
        BY <1>2, <4>1, <4>2 DEF GivenOK
    <3> QED
      BY <3>2, <3>3, <3>4 DEF Orderly, Numbered
  <2> QED
    BY <2>2, <2>3, <2>4, <2>5, <2>6 DEF ExportInv
<1> QED
  BY <1>5, <1>6

LEMMA AbortKeeps == ASSUME ExportInv, NEW r \in Readers, AbortRequest(r) PROVE ExportInv'
<1>1. /\ aborts < MaxAborts /\ aborts' = aborts + 1 /\ request' = [request EXCEPT ![r] = Ended]
      /\ txn' = IF txn.by = r THEN NoTxn ELSE txn
      /\ UNCHANGED <<source, exported, counter, position, started, mirror, reissued>>
  BY DEF AbortRequest
<1>2. aborts' \in 0..MaxAborts /\ counter \in Nat \ {0} /\ 0 < counter /\ \A x \in Records : 0 <= source[x]
  BY <1>1, ExportAssumption DEF ExportInv, ExportTypes
<1>3. CASE txn.by # r
  BY <1>1, <1>2, <1>3, EndedOK, RequestMoves
<1>4. CASE txn.by = r
  <2>1. txn' = NoTxn
    BY <1>1, <1>4
  <2>2. /\ request' \in [Readers -> RequestState] /\ request'[r] = Ended
        /\ \A q \in Readers : q # r => request'[q] = request[q]
    BY <1>1, EndedOK DEF ExportInv, ExportTypes
  <2>3. ExportTypes'
    BY <1>1, <1>2, <2>1, <2>2, NoTxnOK DEF ExportInv, ExportTypes
  <2>4. VersionsOK'
    BY <1>1, <1>2, <2>1, <2>2, NoTxnOK, EndedOK DEF ExportInv, VersionsOK
  <2>5. \A q \in Readers : PhaseOK(q)'
    BY <2>1, <2>2, NoTxnOK, EndedOK, ExportAssumption DEF ExportInv, PhaseOK
  <2>6. \E b \in Nat : Below(b)'
    BY <1>1, <2>1, NoTxnOK DEF ExportInv, Below
  <2>7. ASSUME ~reissued' PROVE Orderly'
    <3>1. Orderly
      BY <1>1, <2>7 DEF ExportInv
    <3>2. ASSUME NEW q \in Readers PROVE GivenOK(q)'
      <4>1. request'[q].mark = request[q].mark \/ request'[q].mark = 0
        BY <2>2, EndedOK
      <4> QED
        BY <1>1, <1>2, <3>1, <4>1 DEF Orderly, GivenOK
    <3> QED
      BY <1>1, <2>1, <3>1, <3>2, NoTxnOK DEF Orderly, WriterOK, Numbered
  <2> QED
    BY <2>3, <2>4, <2>5, <2>6, <2>7 DEF ExportInv
<1> QED
  BY <1>3, <1>4

LEMMA MarkKeeps == ASSUME ExportInv, NEW r \in Readers, Mark(r) PROVE ExportInv'
<1>1. PICK g : g = request[r]
  OBVIOUS
<1>2. PICK m : m = Max({0} \cup {exported[x].seq : x \in Records})
  OBVIOUS
<1>3. PICK h : h = [g EXCEPT !.at = "snapshot", !.mark = m]
  OBVIOUS
<1>4. /\ g.at = "mark" /\ UNCHANGED <<source, exported, counter, txn, position, started, mirror, aborts, reissued>>
      /\ request' = [request EXCEPT ![r] = h]
  BY <1>1, <1>2, <1>3 DEF Mark
<1>5. g \in RequestState /\ counter \in Nat \ {0} /\ aborts \in 0..MaxAborts
      /\ \A x \in Records : g.cand[x] <= source[x]
  BY <1>1 DEF ExportInv, ExportTypes, VersionsOK
<1>6. m \in Nat /\ (~reissued => m < counter)
  <2> DEFINE S == {0} \cup {exported[x].seq : x \in Records}
  <2>1. \A x \in Records : exported[x].seq \in Nat /\ (~reissued => exported[x].seq < counter)
    BY DEF ExportInv, ExportTypes, ExportRow, Orderly, Numbered
  <2>2. PICK b \in Nat : \A x \in Records : exported[x].seq <= b
    BY DEF ExportInv, Below
  <2>3. /\ S \subseteq Nat /\ S # {} /\ \A n \in S : n <= b /\ (~reissued => n < counter)
    BY <1>5, <2>1, <2>2
  <2> HIDE DEF S
  <2>4. Max(S) \in S
    BY <2>3, MaxIn
  <2> QED
    BY <1>2, <2>3, <2>4 DEF S
<1>7. h \in RequestState /\ h.at = "snapshot" /\ h.cand = g.cand /\ h.mark = m
  BY <1>3, <1>5, <1>6 DEF RequestState
<1>8. txn.by # r
  BY <1>1, <1>4 DEF ExportInv, PhaseOK, Refreshing
<1> QED
  BY <1>4, <1>5, <1>6, <1>7, <1>8, RequestMoves

\* A reader is given records, those that its new position covers among them.
LEMMA GiveKeeps ==
  ASSUME ExportInv, NEW r \in Readers, ~Refreshing(r), NEW xs, Give(r, xs), NEW m \in Nat,
         position' = [position EXCEPT ![r] = m], request' = [request EXCEPT ![r] = Ended],
         started' \in [Readers -> BOOLEAN], UNCHANGED <<source, exported, counter, txn, aborts, reissued>>,
         ~reissued => /\ m < counter
                      /\ \A x \in Records : exported[x].seq <= m => x \in xs \/ exported[x].seq <= position[r]
  PROVE  ExportInv'
<1>1. /\ request' \in [Readers -> RequestState] /\ request'[r] = Ended
      /\ \A q \in Readers : q # r => request'[q] = request[q]
  BY EndedOK DEF ExportInv, ExportTypes
<1>2. /\ position' \in [Readers -> Nat] /\ position'[r] = m
      /\ \A q \in Readers : q # r => position'[q] = position[q]
  BY DEF ExportInv, ExportTypes
<1>3. PICK f : f = [x \in Records |-> IF x \in xs THEN exported[x].ver ELSE mirror[r][x]]
  OBVIOUS
<1>4. mirror' = [mirror EXCEPT ![r] = f]
  BY <1>3 DEF Give
<1>5. f \in [Records -> Nat]
  <2>1. \A x \in Records : exported[x].ver \in Nat /\ mirror[r][x] \in Nat
    BY DEF ExportInv, ExportTypes, ExportRow
  <2> QED
    BY <1>3, <2>1
<1>6. /\ mirror' \in [Readers -> [Records -> Nat]] /\ mirror'[r] = f
      /\ \A q \in Readers : q # r => mirror'[q] = mirror[q]
  BY <1>4, <1>5 DEF ExportInv, ExportTypes
<1>7. ExportTypes'
  BY <1>1, <1>2, <1>6 DEF ExportInv, ExportTypes
<1>8. VersionsOK'
  <2>1. \A x \in Records : 0 <= source[x]
    BY DEF ExportInv, ExportTypes
  <2> QED
    BY <1>1, <2>1, EndedOK DEF ExportInv, VersionsOK
<1>9. \A q \in Readers : PhaseOK(q)'
  BY <1>1, EndedOK DEF ExportInv, PhaseOK, Refreshing
<1>10. \E b \in Nat : Below(b)'
  BY DEF ExportInv, Below
<1>11. ASSUME ~reissued' PROVE Orderly'
  <2>1. Orderly /\ ~reissued /\ counter > 0
    BY <1>11 DEF ExportInv, ExportTypes
  <2>2. ASSUME NEW q \in Readers PROVE GivenOK(q)'
    <3>1. CASE q = r
      <4>1. ASSUME NEW x \in Records, exported[x].seq <= m PROVE f[x] = exported[x].ver
        BY <1>3, <2>1, <4>1 DEF Orderly, GivenOK
      <4> QED
        BY <1>1, <1>2, <1>6, <2>1, <3>1, <4>1, EndedOK DEF GivenOK
    <3>2. CASE q # r
      BY <1>1, <1>2, <1>6, <2>1, <3>2 DEF Orderly, GivenOK
    <3> QED
      BY <3>1, <3>2
  <2> QED
    BY <2>1, <2>2 DEF Orderly, WriterOK, Numbered
<1> QED
  BY <1>7, <1>8, <1>9, <1>10, <1>11 DEF ExportInv

LEMMA SnapshotKeeps == ASSUME ExportInv, NEW r \in Readers, Snapshot(r) PROVE ExportInv'
<1>1. PICK m : m = request[r].mark
  OBVIOUS
<1>2. PICK xs : xs = {x \in Records : exported[x].seq # 0 /\ exported[x].seq <= m}
  OBVIOUS
<1>3. /\ ~Refreshing(r) /\ Give(r, xs)
      /\ position' = [position EXCEPT ![r] = m] /\ request' = [request EXCEPT ![r] = Ended]
      /\ started' = [started EXCEPT ![r] = TRUE]
      /\ UNCHANGED <<source, exported, counter, txn, aborts, reissued>>
  BY <1>1, <1>2 DEF Snapshot, Refreshing
<1>4. m \in Nat /\ (~reissued => m < counter) /\ position[r] \in Nat
  BY <1>1 DEF ExportInv, ExportTypes, RequestState, Orderly, GivenOK
<1>5. started' \in [Readers -> BOOLEAN]
  BY <1>3 DEF ExportInv, ExportTypes
<1>6. \A x \in Records : exported[x].seq <= m => x \in xs \/ exported[x].seq <= position[r]
  BY <1>2, <1>4
<1> QED
  BY <1>3, <1>4, <1>5, <1>6, GiveKeeps

\* The page ends at a record it holds, and one left out has another number.
LEMMA PageKeeps == ASSUME ExportInv, NEW r \in Readers, Page(r) PROVE ExportInv'
<1>1. PICK xs \in SUBSET Records :
         /\ IsPage(r, xs) /\ Give(r, xs)
         /\ position' = [position EXCEPT ![r] = Max({position[r]} \cup {exported[x].seq : x \in xs})]
  BY DEF Page
<1>2. PICK m : m = Max({position[r]} \cup {exported[x].seq : x \in xs})
  OBVIOUS
<1>3. /\ ~Refreshing(r) /\ request' = [request EXCEPT ![r] = Ended]
      /\ UNCHANGED <<source, exported, counter, txn, started, aborts, reissued>>
  BY DEF Page, Refreshing
<1>4. /\ position[r] \in Nat /\ counter \in Nat /\ started \in [Readers -> BOOLEAN]
      /\ ~reissued => position[r] < counter
  BY DEF ExportInv, ExportTypes, Orderly, GivenOK
<1>5. \A x \in Records : exported[x].seq \in Nat /\ (~reissued => exported[x].seq < counter)
  BY DEF ExportInv, ExportTypes, ExportRow, Orderly, Numbered
<1>6. /\ m \in Nat /\ (~reissued => m < counter)
      /\ m = position[r] \/ \E x \in xs : m = exported[x].seq
  <2> DEFINE S == {position[r]} \cup {exported[x].seq : x \in xs}
  <2>1. PICK b \in Nat : \A x \in Records : exported[x].seq <= b
    BY DEF ExportInv, Below
  <2>2. b + position[r] \in Nat
    BY <1>4
  <2>3. S \subseteq Nat /\ S # {} /\ \A n \in S : n <= b + position[r] /\ (~reissued => n < counter)
    BY <1>4, <1>5, <2>1
  <2> HIDE DEF S
  <2>4. Max(S) \in S
    BY <2>2, <2>3, MaxIn
  <2> QED
    BY <1>2, <2>3, <2>4 DEF S
<1>7. ASSUME ~reissued, NEW y \in Records, exported[y].seq <= m, y \notin xs
      PROVE  exported[y].seq <= position[r]
  <2>1. SUFFICES ASSUME exported[y].seq > position[r] PROVE FALSE
    BY <1>4, <1>5
  <2>2. PICK x \in xs : m = exported[x].seq
    BY <1>4, <1>5, <1>6, <1>7, <2>1
  <2>3. exported[x].seq <= exported[y].seq
    <3>1. \A a \in xs : \A b \in {c \in Records : exported[c].seq > position[r]} \ xs :
            exported[a].seq <= exported[b].seq
      BY <1>1 DEF IsPage
    <3>2. y \in {c \in Records : exported[c].seq > position[r]} \ xs
      BY <1>7, <2>1
    <3> QED
      BY <3>1, <3>2
  <2>4. exported[x].seq = exported[y].seq /\ exported[y].seq # 0
    BY <1>4, <1>5, <1>7, <2>1, <2>2, <2>3
  <2> QED
    BY <1>7, <2>4 DEF ExportInv, Orderly, Numbered
<1>8. ~reissued => \A y \in Records : exported[y].seq <= m => y \in xs \/ exported[y].seq <= position[r]
  BY <1>7
<1>9. position' = [position EXCEPT ![r] = m] /\ Give(r, xs)
  BY <1>1, <1>2
<1>10. m \in Nat /\ (~reissued => m < counter) /\ started' \in [Readers -> BOOLEAN]
  BY <1>3, <1>4, <1>6
<1> QED
  BY <1>3, <1>8, <1>9, <1>10, GiveKeeps

LEMMA ExportNextInv == ExportInv /\ [ExportNext]_exportVars => ExportInv'
<1> SUFFICES ASSUME ExportInv, [ExportNext]_exportVars PROVE ExportInv'
  OBVIOUS
<1>1. CASE UNCHANGED exportVars
  BY <1>1 DEF exportVars, ExportInv, ExportTypes, VersionsOK, PhaseOK, Refreshing, Below,
              Orderly, Numbered, WriterOK, GivenOK
<1>2. CASE \E x \in Records : Change(x)
  BY <1>2, ChangeKeeps
<1>3. ASSUME NEW r \in Readers, ReaderStep(r) PROVE ExportInv'
  <2>1. CASE Get(r) \/ Compare(r) \/ Number(r)
    BY <2>1, RefreshSteps
  <2> QED
    BY <1>3, <2>1, WriteKeeps, ExportCommitKeeps, MarkKeeps, SnapshotKeeps, PageKeeps DEF ReaderStep
<1> QED
  BY <1>1, <1>2, <1>3, AbortKeeps DEF ExportNext

LEMMA ExportAlways == ExportSpec => []ExportInv
BY ExportInitInv, ExportNextInv, PTL DEF ExportSpec

\* However refreshes overlap, a reader's cursor passes no record it was not
\* given in its present version, until a refresh stores a number that another
\* gave out since it was read (dashboard_connector.py, _next_sequence,
\* _refresh_lane and _page_records).
THEOREM NoRecordSkippedHolds == ExportSpec => []NoRecordSkipped
<1>1. ExportInv => NoRecordSkipped
  BY DEF ExportInv, Orderly, GivenOK, NoRecordSkipped
<1> QED
  BY <1>1, ExportAlways, PTL
-----------------------------------------------------------------------------
(***************************************************************************)
(* ThreatFeeds.  Until two fetches or imports overlap, one at a time looks *)
(* up and inserts, and what it is going to store has no row.               *)
(***************************************************************************)
FetcherState == [at : {"idle", "next", "select", "insert"}, queue : SUBSET (Feeds \cup {0}),
                 todo : SUBSET Indicators, item : SUBSET Indicators, new : SUBSET Indicators]
HitState == [at : {"idle", "record", "warn"}, todo : SUBSET Indicators, item : SUBSET Indicators]
QueueOK(p) == /\ fetcher[p].at = "idle" <=> fetcher[p].queue = {}
              /\ fetcher[p].at = "next" => fetcher[p].queue \subseteq Feeds
              /\ fetcher[p].queue \subseteq Feeds \/ fetcher[p].queue = {0}
FeedTypes ==
  /\ FeedTypeOK /\ iocs \in [Indicators -> [on : Nat, off : Nat]]
  /\ fetcher \in [Fetchers -> FetcherState] /\ hit \in HitState
  /\ \A p \in Fetchers : QueueOK(p)

NoRow(i) == iocs[i].on = 0 /\ iocs[i].off = 0
ToStore(p) == fetcher[p].new \cup (IF fetcher[p].at = "insert" THEN fetcher[p].item ELSE {})
AtWork(p) == fetcher[p].at \in {"select", "insert"}
FreshOK ==
  ~overlap => /\ \A p, q \in Fetchers : AtWork(p) /\ AtWork(q) => p = q
              /\ \A i \in Indicators : iocs[i].on + iocs[i].off <= 1
              /\ \A p \in Fetchers : \A i \in ToStore(p) : NoRow(i)
              /\ \A p \in Fetchers : ~AtWork(p) => ToStore(p) = {}
HitOK ==
  /\ bare \in Int
  /\ \/ hit.at = "warn" /\ (\E i \in Indicators : hit.item = {i}) /\ bare - 1 \in 0..slips
     \/ hit.at # "warn" /\ hit.item = {} /\ bare \in 0..slips
FeedInv == FeedTypes /\ FreshOK /\ HitOK
-----------------------------------------------------------------------------
LEMMA NoFetchOK == /\ NoFetch \in FetcherState /\ NoFetch.at = "idle" /\ NoFetch.queue = {} /\ NoFetch.todo = {}
                   /\ NoFetch.item = {} /\ NoFetch.new = {}
BY DEF NoFetch, FetcherState

LEMMA FeedInitInv == FeedInit => FeedInv
<1> SUFFICES ASSUME FeedInit PROVE FeedInv
  OBVIOUS
<1>1. /\ \A p \in Fetchers : fetcher[p] = NoFetch
      /\ \A i \in Indicators : iocs[i] = [on |-> 0, off |-> 0]
      /\ due \subseteq Feeds /\ refreshing = "free" /\ index = {} /\ hit = NoMatch
      /\ bare = 0 /\ edits = 0 /\ slips = 0
  BY DEF FeedInit
<1>2. iocs \in [Indicators -> [on : Nat, off : Nat]] /\ fetcher \in [Fetchers -> FetcherState]
  BY NoFetchOK DEF FeedInit
<1>3. NoMatch \in HitState /\ NoMatch.at = "idle" /\ NoMatch.item = {}
  BY DEF NoMatch, HitState
<1>4. FeedTypeOK
  BY <1>1, <1>2, NoFetchOK, FeedAssumption DEF FeedTypeOK
<1>5. \A p \in Fetchers : QueueOK(p) /\ ~AtWork(p) /\ ToStore(p) = {}
  BY <1>1, NoFetchOK DEF QueueOK, AtWork, ToStore
<1>6. \A i \in Indicators : iocs[i].on + iocs[i].off <= 1
  BY <1>1
<1>7. FreshOK
  BY <1>5, <1>6 DEF FreshOK
<1>8. HitOK
  BY <1>1, <1>3 DEF HitOK
<1> QED
  BY <1>1, <1>2, <1>3, <1>4, <1>5, <1>7, <1>8 DEF FeedInv, FeedTypes

\* One fetcher moves on, and no row is written.
LEMMA FetcherMoves ==
  ASSUME FeedInv, NEW p \in Fetchers, NEW f \in FetcherState, Step(p, f),
         UNCHANGED <<iocs, Matching>>, due' \subseteq Feeds, refreshing' \in Fetchers \cup {"free"},
         edits' \in 0..MaxEdits, slips' \in 0..MaxSlips, slips <= slips',
         f.at = "idle" <=> f.queue = {}, f.at = "next" => f.queue \subseteq Feeds,
         f.queue \subseteq Feeds \/ f.queue = {0},
         ~overlap' => ~overlap /\ (f.at \in {"select", "insert"} => AtWork(p) \/ ~Others(p)),
         f.at \in {"idle", "next"} => f.new = {},
         ~overlap => \A i \in f.new \cup (IF f.at = "insert" THEN f.item ELSE {}) : NoRow(i)
  PROVE  FeedInv'
<1>1. /\ fetcher' \in [Fetchers -> FetcherState] /\ fetcher'[p] = f
      /\ \A q \in Fetchers : q # p => fetcher'[q] = fetcher[q]
  BY DEF Step, FeedInv, FeedTypes
<1>2. /\ UNCHANGED <<iocs, index, hit, bare>>
  BY DEF Matching
<1>3. ASSUME NEW q \in Fetchers PROVE QueueOK(q)'
  BY <1>1 DEF FeedInv, FeedTypes, QueueOK
<1>4. \A q \in Fetchers : fetcher'[q].at \in {"idle", "next", "select", "insert"}
  BY <1>1 DEF FetcherState
<1>5. FeedTypes'
  BY <1>1, <1>2, <1>3, <1>4 DEF FeedInv, FeedTypes, FeedTypeOK, QueueOK
<1>6. ASSUME ~overlap' PROVE FreshOK'
  <2>1. ~overlap
    BY <1>6
  <2>2. ASSUME NEW q \in Fetchers, NEW s \in Fetchers, AtWork(q)', AtWork(s)' PROVE q = s
    <3>1. ASSUME NEW a \in Fetchers, a # p PROVE AtWork(a)' <=> AtWork(a)
      BY <1>1, <3>1 DEF AtWork
    <3>2. AtWork(p)' => AtWork(p) \/ ~Others(p)
      BY <1>1, <1>6 DEF AtWork
    <3>3. ASSUME NEW a \in Fetchers, a # p, AtWork(p)' PROVE ~AtWork(a)
      BY <2>1, <3>2, <3>3 DEF FeedInv, FreshOK, AtWork, Others
    <3>4. CASE q = p \/ s = p
      BY <2>2, <3>1, <3>3, <3>4
    <3>5. CASE q # p /\ s # p
      BY <2>1, <2>2, <3>1, <3>5 DEF FeedInv, FreshOK
    <3> QED
      BY <3>4, <3>5
  <2>3. ASSUME NEW q \in Fetchers
        PROVE  /\ \A i \in ToStore(q)' : NoRow(i)'
               /\ ~AtWork(q)' => ToStore(q)' = {}
    <3>1. CASE q = p
      <4>1. ToStore(p)' = f.new \cup (IF f.at = "insert" THEN f.item ELSE {})
        BY <1>1 DEF ToStore
      <4>2. f.at \in {"idle", "next", "select", "insert"}
        BY DEF FetcherState
      <4> QED
        BY <1>1, <1>2, <2>1, <3>1, <4>1, <4>2 DEF AtWork, NoRow
    <3>2. CASE q # p
      BY <1>1, <1>2, <2>1, <3>2 DEF FeedInv, FreshOK, ToStore, AtWork, NoRow
    <3> QED
      BY <3>1, <3>2
  <2>4. \A i \in Indicators : iocs'[i].on + iocs'[i].off <= 1
    BY <1>2, <2>1 DEF FeedInv, FreshOK
  <2> QED
    BY <2>2, <2>3, <2>4 DEF FreshOK
<1>7. HitOK'
  <2>1. slips \in Nat /\ slips' \in Nat
    BY FeedAssumption DEF FeedInv, FeedTypes, FeedTypeOK
  <2> QED
    BY <1>2, <2>1 DEF FeedInv, HitOK
<1> QED
  BY <1>5, <1>6, <1>7 DEF FeedInv, FreshOK
LEMMA FeedCounts == ASSUME FeedInv
                    PROVE  /\ edits \in 0..MaxEdits /\ slips \in 0..MaxSlips /\ slips \in Nat /\ edits \in Nat
                           /\ slips <= slips /\ MaxSlips \in Nat /\ MaxEdits \in Nat
                           /\ due \subseteq Feeds /\ refreshing \in Fetchers \cup {"free"}
                           /\ (Edit => edits' \in 0..MaxEdits)
                           /\ (Slip => slips' \in 0..MaxSlips /\ slips <= slips')
<1>1. edits \in 0..MaxEdits /\ slips \in 0..MaxSlips /\ MaxSlips \in Nat /\ MaxEdits \in Nat
  BY FeedAssumption DEF FeedInv, FeedTypes, FeedTypeOK
<1>2. due \subseteq Feeds /\ refreshing \in Fetchers \cup {"free"}
  BY DEF FeedInv, FeedTypes, FeedTypeOK
<1>3. Edit => edits' \in 0..MaxEdits
  BY <1>1 DEF Edit
<1>4. Slip => slips' \in 0..MaxSlips /\ slips <= slips'
  BY <1>1 DEF Slip
<1> QED
  BY <1>1, <1>2, <1>3, <1>4

LEMMA FeedsAreNumbers == \A n \in Feeds : n \in Nat
BY FeedAssumption DEF Feeds

\* The feed a fetcher is at is one of its queue, and it goes on to the rest.
LEMMA OnwardOK ==
  ASSUME FeedInv, NEW p \in Fetchers, fetcher[p].at # "idle"
  PROVE  /\ Feed(p) \in fetcher[p].queue
         /\ Onward(p) \in FetcherState /\ Onward(p).at \in {"idle", "next"}
         /\ Onward(p).new = {} /\ Onward(p).queue \subseteq Feeds
         /\ Onward(p).at = "idle" <=> Onward(p).queue = {}
<1>1. PICK Q : Q = fetcher[p].queue
  OBVIOUS
<1>2. Q # {} /\ (Q \subseteq Feeds \/ Q = {0})
  BY <1>1 DEF FeedInv, FeedTypes, QueueOK
<1>3. Q \subseteq Nat /\ Min(Q) \in Q
  <2>1. ASSUME NEW x \in Q PROVE x \in Nat
    <3>1. x \in Feeds \/ x = 0
      BY <1>2
    <3> QED
      BY <3>1, FeedsAreNumbers
  <2> QED
    BY <1>2, <2>1, MinIn
<1>4. PICK m : m = Feed(p)
  OBVIOUS
<1>5. m \in Q
  BY <1>1, <1>3, <1>4 DEF Feed
<1>6. CASE Q = {m}
  <2>1. Onward(p) = NoFetch
    BY <1>1, <1>4, <1>6 DEF Onward
  <2> QED
    BY <1>1, <1>4, <1>5, <2>1, NoFetchOK
<1>7. CASE Q # {m}
  <2>1. Onward(p) = [NoFetch EXCEPT !.at = "next", !.queue = Q \ {m}]
    BY <1>1, <1>4, <1>7 DEF Onward
  <2>2. Q \subseteq Feeds /\ Q \ {m} # {}
    BY <1>2, <1>5, <1>7
  <2>3. Onward(p) = [at |-> "next", queue |-> Q \ {m}, todo |-> {}, item |-> {}, new |-> {}]
    BY <2>1 DEF NoFetch
  <2>4. /\ Onward(p) \in FetcherState /\ Onward(p).at = "next" /\ Onward(p).new = {}
        /\ Onward(p).queue = Q \ {m}
    BY <2>2, <2>3 DEF FetcherState
  <2> QED
    BY <1>1, <1>4, <1>5, <2>2, <2>4
<1> QED
  BY <1>6, <1>7

LEMMA StartKeeps ==
  ASSUME FeedInv, NEW p \in Fetchers,
         \/ Refresh(p) \/ \E f \in Feeds : FetchNow(p, f)
         \/ \E items \in SUBSET Indicators : Import(p, items)
  PROVE  FeedInv'
<1>1. ASSUME Refresh(p) PROVE FeedInv'
  <2>1. PICK f : f = [NoFetch EXCEPT !.at = "next", !.queue = due]
    OBVIOUS
  <2>2. f = [at |-> "next", queue |-> due, todo |-> {}, item |-> {}, new |-> {}]
    BY <2>1 DEF NoFetch
  <2>3. f \in FetcherState /\ f.at = "next" /\ f.queue = due /\ f.new = {} /\ due # {}
    BY <1>1, <2>2, FeedCounts DEF FetcherState, Refresh
  <2>4. /\ Step(p, f) /\ refreshing' = p
        /\ UNCHANGED <<iocs, due, Matching, edits, slips, overlap>>
    BY <1>1, <2>1 DEF Refresh
  <2> QED
    BY <2>3, <2>4, FeedCounts, FetcherMoves
<1>2. ASSUME NEW n \in Feeds, FetchNow(p, n) PROVE FeedInv'
  <2>1. PICK f : f = [NoFetch EXCEPT !.at = "next", !.queue = {n}]
    OBVIOUS
  <2>2. f = [at |-> "next", queue |-> {n}, todo |-> {}, item |-> {}, new |-> {}]
    BY <2>1 DEF NoFetch
  <2>3. f \in FetcherState /\ f.at = "next" /\ f.queue = {n} /\ f.new = {}
    BY <2>2 DEF FetcherState
  <2>4. /\ Step(p, f) /\ Edit /\ UNCHANGED <<iocs, due, refreshing, Matching, slips, overlap>>
    BY <1>2, <2>1 DEF FetchNow
  <2> QED
    BY <2>3, <2>4, FeedCounts, FetcherMoves
<1>3. ASSUME NEW items \in SUBSET Indicators, Import(p, items) PROVE FeedInv'
  <2>1. PICK f : f = [NoFetch EXCEPT !.at = "select", !.queue = {0}, !.todo = items]
    OBVIOUS
  <2>2. f = [at |-> "select", queue |-> {0}, todo |-> items, item |-> {}, new |-> {}]
    BY <2>1 DEF NoFetch
  <2>3. f \in FetcherState /\ f.at = "select" /\ f.queue = {0} /\ f.new = {}
    BY <2>2 DEF FetcherState
  <2>4. /\ Step(p, f) /\ Edit /\ overlap' = (overlap \/ Others(p))
        /\ UNCHANGED <<iocs, due, refreshing, Matching, slips>>
    BY <1>3, <2>1 DEF Import
  <2> QED
    BY <2>3, <2>4, FeedCounts, FetcherMoves
<1> QED
  BY <1>1, <1>2, <1>3

LEMMA FetchMovesOn ==
  ASSUME FeedInv, NEW p \in Fetchers,
         Download(p) \/ DownloadFails(p) \/ LookUp(p) \/ InsertIoc(p) \/ Break(p)
  PROVE  FeedInv'
<1>1. PICK g : g = fetcher[p]
  OBVIOUS
<1>2. g \in FetcherState /\ (g.queue \subseteq Feeds \/ g.queue = {0})
  BY <1>1 DEF FeedInv, FeedTypes, QueueOK
<1>3. ~overlap => /\ \A i \in g.new : NoRow(i)
                  /\ g.at = "insert" => \A i \in g.item : NoRow(i)
  BY <1>1 DEF FeedInv, FreshOK, ToStore
<1>4. /\ (g.at = "next" => g.queue \subseteq Feeds) /\ (g.at = "idle" <=> g.queue = {})
  BY <1>1 DEF FeedInv, FeedTypes, QueueOK
<1>5. ASSUME Download(p) PROVE FeedInv'
  <2>1. PICK items : items = FeedItems[Feed(p)]
    OBVIOUS
  <2>2. PICK f : f = [g EXCEPT !.at = "select", !.todo = items]
    OBVIOUS
  <2>3. /\ g.at = "next" /\ Step(p, f) /\ overlap' = (overlap \/ Others(p))
        /\ UNCHANGED <<iocs, due, refreshing, Matching, edits, slips>>
    BY <1>1, <1>5, <2>1, <2>2 DEF Download
  <2>4. items \subseteq Indicators
    <3>1. Feed(p) \in Feeds
      BY <1>1, <1>4, <2>3, OnwardOK
    <3> QED
      BY <2>1, <3>1, FeedAssumption DEF Feeds
  <2>5. f \in FetcherState /\ f.at = "select" /\ f.queue = g.queue /\ f.new = g.new
    BY <1>2, <2>2, <2>4 DEF FetcherState
  <2> QED
    BY <1>2, <1>3, <1>4, <2>3, <2>5, FeedCounts, FetcherMoves
<1>6. ASSUME DownloadFails(p) PROVE FeedInv'
  <2>1. /\ g.at = "next" /\ Step(p, Onward(p)) /\ Slip /\ due' = due \ {Feed(p)}
        /\ UNCHANGED <<iocs, refreshing, Matching, edits, overlap>>
    BY <1>1, <1>6 DEF DownloadFails
  <2>2. PICK f : f = Onward(p)
    OBVIOUS
  <2>3. /\ f \in FetcherState /\ f.at \in {"idle", "next"} /\ f.new = {} /\ f.queue \subseteq Feeds
        /\ f.at = "idle" <=> f.queue = {}
    BY <1>1, <2>1, <2>2, OnwardOK
  <2>4. due' \subseteq Feeds
    BY <2>1, FeedCounts
  <2> QED
    BY <2>1, <2>2, <2>3, <2>4, FeedCounts, FetcherMoves
<1>7. ASSUME LookUp(p) PROVE FeedInv'
  <2>1. PICK i \in g.todo :
           Step(p, [g EXCEPT !.todo = g.todo \ {i}, !.item = {i},
                             !.at = IF Known(p, i) THEN "select" ELSE "insert"])
    BY <1>1, <1>7 DEF LookUp
  <2>2. PICK a : a = IF Known(p, i) THEN "select" ELSE "insert"
    OBVIOUS
  <2>3. PICK f : f = [g EXCEPT !.todo = g.todo \ {i}, !.item = {i}, !.at = a]
    OBVIOUS
  <2>4. /\ g.at = "select" /\ Step(p, f)
        /\ UNCHANGED <<iocs, due, refreshing, Matching, edits, slips, overlap>>
    BY <1>1, <1>7, <2>1, <2>2, <2>3 DEF LookUp
  <2>5. i \in Indicators
    BY <1>2, <2>1 DEF FetcherState
  <2>6. /\ f \in FetcherState /\ f.at = a /\ a \in {"select", "insert"}
        /\ f.queue = g.queue /\ f.new = g.new /\ f.item = {i}
    BY <1>2, <2>2, <2>3, <2>5 DEF FetcherState
  <2>7. a = "insert" => NoRow(i)
    <3>1. iocs[i].on \in Nat /\ iocs[i].off \in Nat
      BY <2>5 DEF FeedInv, FeedTypes
    <3> QED
      BY <2>2, <3>1 DEF Known, NoRow
  <2>8. AtWork(p)
    BY <1>1, <2>4 DEF AtWork
  <2> QED
    BY <1>2, <1>3, <1>4, <2>4, <2>6, <2>7, <2>8, FeedCounts, FetcherMoves
<1>8. ASSUME InsertIoc(p) PROVE FeedInv'
  <2>1. g.at = "insert" /\ AtWork(p)
    BY <1>1, <1>8 DEF InsertIoc, AtWork
  <2>2. UNCHANGED <<iocs, due, refreshing, Matching, edits, slips, overlap>>
    BY <1>8 DEF InsertIoc
  <2>3. CASE g.item \subseteq Rejected
    <3>1. Step(p, NoFetch)
      BY <1>1, <1>8, <2>3 DEF InsertIoc
    <3> QED
      BY <2>2, <3>1, NoFetchOK, FeedCounts, FetcherMoves
  <2>4. CASE ~(g.item \subseteq Rejected)
    <3>1. PICK f : f = [g EXCEPT !.at = "select", !.new = g.new \cup g.item]
      OBVIOUS
    <3>2. Step(p, f)
      BY <1>1, <1>8, <2>4, <3>1 DEF InsertIoc
    <3>3. /\ f \in FetcherState /\ f.at = "select" /\ f.queue = g.queue /\ f.new = g.new \cup g.item
      BY <1>2, <3>1 DEF FetcherState
    <3> QED
      BY <1>2, <1>3, <1>4, <2>1, <2>2, <3>2, <3>3, FeedCounts, FetcherMoves
  <2> QED
    BY <2>3, <2>4
<1>9. ASSUME Break(p) PROVE FeedInv'
  <2>1. Step(p, NoFetch) /\ Slip /\ UNCHANGED <<iocs, due, refreshing, Matching, edits, overlap>>
    BY <1>9 DEF Break
  <2> QED
    BY <2>1, NoFetchOK, FeedCounts, FetcherMoves
<1> QED
  BY <1>5, <1>6, <1>7, <1>8, <1>9

\* A fetch commits: each indicator it stores had no row.
LEMMA CommitFeedKeeps == ASSUME FeedInv, NEW p \in Fetchers, CommitFeed(p) PROVE FeedInv'
<1>1. PICK f : f = Onward(p)
  OBVIOUS
<1>2. PICK new : new = fetcher[p].new
  OBVIOUS
<1>3. /\ fetcher[p].at = "select" /\ iocs' = [i \in Indicators |-> Store(i, new)]
      /\ due' = due \ {Feed(p)} /\ fetcher' = [fetcher EXCEPT ![p] = f]
      /\ UNCHANGED <<refreshing, index, hit, bare, edits, slips, overlap>>
  BY <1>1, <1>2 DEF CommitFeed, Step, Matching
<1>4. /\ f \in FetcherState /\ f.at \in {"idle", "next"} /\ f.new = {} /\ f.queue \subseteq Feeds
      /\ f.at = "idle" <=> f.queue = {}
  BY <1>1, <1>3, OnwardOK
<1>5. /\ fetcher' \in [Fetchers -> FetcherState] /\ fetcher'[p] = f
      /\ \A q \in Fetchers : q # p => fetcher'[q] = fetcher[q]
  BY <1>3, <1>4 DEF FeedInv, FeedTypes
<1>6. ASSUME NEW i \in Indicators
      PROVE  /\ iocs'[i] \in [on : Nat, off : Nat]
             /\ i \notin new => iocs'[i] = iocs[i]
             /\ NoRow(i) => iocs'[i].on + iocs'[i].off <= 1
  <2>1. PICK v : v = iocs[i]
    OBVIOUS
  <2>2. v \in [on : Nat, off : Nat]
    BY <2>1 DEF FeedInv, FeedTypes
  <2>3. iocs'[i] = v \/ (i \in new /\ iocs'[i] = [v EXCEPT !.on = v.on + 1])
    BY <1>3, <2>1 DEF Store
  <2>4. CASE iocs'[i] = v
    BY <2>1, <2>2, <2>4 DEF NoRow
  <2>5. CASE i \in new /\ iocs'[i] = [v EXCEPT !.on = v.on + 1]
    <3>1. v.on \in Nat /\ v.off \in Nat /\ v.on + 1 \in Nat
      BY <2>2
    <3>2. iocs'[i] \in [on : Nat, off : Nat] /\ iocs'[i].on = v.on + 1 /\ iocs'[i].off = v.off
      BY <2>2, <2>5, <3>1
    <3> QED
      BY <2>1, <2>5, <3>1, <3>2 DEF NoRow
  <2> QED
    BY <2>3, <2>4, <2>5
<1>7. iocs' \in [Indicators -> [on : Nat, off : Nat]]
  BY <1>3, <1>6
<1>8. ASSUME NEW q \in Fetchers PROVE QueueOK(q)'
  BY <1>4, <1>5 DEF FeedInv, FeedTypes, QueueOK
<1>9. \A q \in Fetchers : fetcher'[q].at \in {"idle", "next", "select", "insert"}
  BY <1>5 DEF FetcherState
<1>10. FeedTypes'
  BY <1>3, <1>5, <1>7, <1>8, <1>9 DEF FeedInv, FeedTypes, FeedTypeOK, QueueOK
<1>11. ASSUME ~overlap' PROVE FreshOK'
  <2>1. ~overlap /\ AtWork(p)
    BY <1>3, <1>11 DEF AtWork
  <2>2. ASSUME NEW q \in Fetchers PROVE ~AtWork(q)' /\ ToStore(q)' = {}
    <3>1. CASE q = p
      BY <1>4, <1>5, <3>1 DEF AtWork, ToStore
    <3>2. CASE q # p
      <4>1. ~AtWork(q) /\ ToStore(q) = {}
        BY <2>1, <3>2 DEF FeedInv, FreshOK
      <4> QED
        BY <1>5, <3>2, <4>1 DEF AtWork, ToStore
    <3> QED
      BY <3>1, <3>2
  <2>3. ASSUME NEW i \in Indicators PROVE iocs'[i].on + iocs'[i].off <= 1
    <3>1. CASE i \in new
      <4>1. NoRow(i)
        BY <1>2, <2>1, <3>1 DEF FeedInv, FreshOK, ToStore
      <4> QED
        BY <1>6, <4>1
    <3>2. CASE i \notin new
      BY <1>6, <2>1, <3>2 DEF FeedInv, FreshOK
    <3> QED
      BY <3>1, <3>2
  <2> QED
    BY <2>2, <2>3 DEF FreshOK
<1>12. HitOK'
  BY <1>3 DEF FeedInv, HitOK
<1> QED
  BY <1>10, <1>11, <1>12 DEF FeedInv, FreshOK
\* Steps beside the fetchers: a row may be switched, or go, and none comes.
LEMMA RowsKeep ==
  ASSUME FeedInv, \/ \E f \in Feeds : IntervalEnds(f)
                  \/ LeaseLapses \/ ClearIocs \/ \E i \in Indicators : Switch(i)
  PROVE  FeedInv'
<1>1. /\ UNCHANGED <<fetcher, index, hit, bare, overlap>>
      /\ UNCHANGED edits \/ Edit
      /\ UNCHANGED slips \/ Slip
      /\ UNCHANGED refreshing \/ refreshing' = "free"
  BY DEF IntervalEnds, LeaseLapses, ClearIocs, Switch, Matching
<1>2. due' \subseteq Feeds
  BY FeedCounts DEF IntervalEnds, LeaseLapses, ClearIocs, Switch
<1>3. /\ iocs' \in [Indicators -> [on : Nat, off : Nat]]
      /\ \A i \in Indicators : iocs'[i].on + iocs'[i].off <= iocs[i].on + iocs[i].off
  <2>1. CASE UNCHANGED iocs
    BY <2>1 DEF FeedInv, FeedTypes
  <2>2. CASE ClearIocs
    <3>1. iocs' = [i \in Indicators |-> [on |-> 0, off |-> 0]]
      BY <2>2 DEF ClearIocs
    <3>2. \A i \in Indicators : iocs[i].on \in Nat /\ iocs[i].off \in Nat
      BY DEF FeedInv, FeedTypes
    <3> QED
      BY <3>1, <3>2
  <2>3. ASSUME NEW i \in Indicators, Switch(i)
        PROVE  /\ iocs' \in [Indicators -> [on : Nat, off : Nat]]
               /\ \A j \in Indicators : iocs'[j].on + iocs'[j].off <= iocs[j].on + iocs[j].off
    <3>1. PICK v : v = iocs[i]
      OBVIOUS
    <3>2. v \in [on : Nat, off : Nat] /\ v.on \in Nat /\ v.off \in Nat
      BY <3>1 DEF FeedInv, FeedTypes
    <3>3. PICK w : /\ iocs' = [iocs EXCEPT ![i] = w]
                   /\ \/ v.on > 0 /\ w = [on |-> v.on - 1, off |-> v.off + 1]
                      \/ v.off > 0 /\ w = [on |-> v.on + 1, off |-> v.off - 1]
                      \/ v.on > 0 /\ w = [v EXCEPT !.on = v.on - 1]
                      \/ v.off > 0 /\ w = [v EXCEPT !.off = v.off - 1]
      BY <2>3, <3>1 DEF Switch
    <3>4. /\ w \in [on : Nat, off : Nat] /\ w.on + w.off <= v.on + v.off
      <4>1. CASE v.on > 0 /\ w = [on |-> v.on - 1, off |-> v.off + 1]
        BY <3>2, <4>1
      <4>2. CASE v.off > 0 /\ w = [on |-> v.on + 1, off |-> v.off - 1]
        BY <3>2, <4>2
      <4>3. CASE v.on > 0 /\ w = [v EXCEPT !.on = v.on - 1]
        <5>1. w \in [on : Nat, off : Nat] /\ w.on = v.on - 1 /\ w.off = v.off
          BY <3>2, <4>3
        <5> QED
          BY <3>2, <5>1
      <4>4. CASE v.off > 0 /\ w = [v EXCEPT !.off = v.off - 1]
        <5>1. w \in [on : Nat, off : Nat] /\ w.on = v.on /\ w.off = v.off - 1
          BY <3>2, <4>4
        <5> QED
          BY <3>2, <5>1
      <4> QED
        BY <3>3, <4>1, <4>2, <4>3, <4>4
    <3>5. iocs' \in [Indicators -> [on : Nat, off : Nat]] /\ iocs'[i] = w
      BY <3>3, <3>4 DEF FeedInv, FeedTypes
    <3>6. ASSUME NEW j \in Indicators
          PROVE  iocs'[j].on + iocs'[j].off <= iocs[j].on + iocs[j].off
      <4>1. CASE j = i
        BY <3>1, <3>4, <3>5, <4>1
      <4>2. CASE j # i
        <5>1. iocs'[j] = iocs[j] /\ iocs[j].on \in Nat /\ iocs[j].off \in Nat
          BY <3>3, <4>2 DEF FeedInv, FeedTypes
        <5> QED
          BY <5>1
      <4> QED
        BY <4>1, <4>2
    <3> QED
      BY <3>5, <3>6
  <2>4. UNCHANGED iocs \/ ClearIocs \/ \E i \in Indicators : Switch(i)
    BY DEF IntervalEnds, LeaseLapses
  <2> QED
    BY <2>1, <2>2, <2>3, <2>4
<1>4. edits' \in 0..MaxEdits /\ slips' \in 0..MaxSlips /\ slips <= slips'
      /\ refreshing' \in Fetchers \cup {"free"}
  BY <1>1, FeedCounts
<1>5. FeedTypes'
  BY <1>1, <1>2, <1>3, <1>4 DEF FeedInv, FeedTypes, FeedTypeOK, QueueOK
<1>6. ASSUME ~overlap' PROVE FreshOK'
  <2>1. ASSUME NEW i \in Indicators
        PROVE  /\ iocs[i].on + iocs[i].off <= 1 => iocs'[i].on + iocs'[i].off <= 1
               /\ NoRow(i) => NoRow(i)'
    <3>1. /\ iocs[i].on \in Nat /\ iocs[i].off \in Nat /\ iocs'[i].on \in Nat /\ iocs'[i].off \in Nat
          /\ iocs'[i].on + iocs'[i].off <= iocs[i].on + iocs[i].off
      BY <1>3 DEF FeedInv, FeedTypes
    <3>2. PICK a \in Nat, b \in Nat, c \in Nat, d \in Nat :
             iocs[i].on = a /\ iocs[i].off = b /\ iocs'[i].on = c /\ iocs'[i].off = d /\ c + d <= a + b
      BY <3>1
    <3>3. (a + b <= 1 => c + d <= 1) /\ (a = 0 /\ b = 0 => c = 0 /\ d = 0)
      BY <3>2
    <3> QED
      BY <3>2, <3>3 DEF NoRow
  <2>2. ~overlap
    BY <1>1, <1>6
  <2>3. ASSUME NEW p \in Fetchers
        PROVE  /\ ToStore(p)' = ToStore(p) /\ AtWork(p)' = AtWork(p) /\ ToStore(p) \subseteq Indicators
    BY <1>1 DEF ToStore, AtWork, FeedInv, FeedTypes, FetcherState
  <2>4. ASSUME NEW p \in Fetchers, NEW q \in Fetchers, AtWork(p)', AtWork(q)' PROVE p = q
    BY <2>2, <2>3, <2>4 DEF FeedInv, FreshOK
  <2>5. ASSUME NEW p \in Fetchers
        PROVE  (\A i \in ToStore(p)' : NoRow(i)') /\ (~AtWork(p)' => ToStore(p)' = {})
    BY <2>1, <2>2, <2>3 DEF FeedInv, FreshOK
  <2>6. \A i \in Indicators : iocs'[i].on + iocs'[i].off <= 1
    BY <2>1, <2>2 DEF FeedInv, FreshOK
  <2> QED
    BY <2>4, <2>5, <2>6 DEF FreshOK
<1>7. HitOK'
  <2>1. slips \in Nat /\ slips' \in Nat
    BY <1>4, FeedCounts
  <2> QED
    BY <1>1, <1>4, <2>1 DEF FeedInv, HitOK
<1> QED
  BY <1>5, <1>6, <1>7 DEF FeedInv, FreshOK

\* The matcher: a match is without its alert from its commit to the next step.
LEMMA MatcherKeeps ==
  ASSUME FeedInv, \/ Reload \/ Record \/ Warn \/ MatchRaises
                  \/ \E mentioned \in SUBSET Indicators : Check(mentioned)
  PROVE  FeedInv'
<1>1. /\ UNCHANGED Fetching /\ (UNCHANGED slips \/ Slip)
  BY DEF Reload, Record, Warn, MatchRaises, Check
<1>2. UNCHANGED <<iocs, due, fetcher, refreshing, edits, overlap>>
  BY <1>1 DEF Fetching
<1>3. index' \subseteq Indicators
  BY DEF Reload, Record, Warn, MatchRaises, Check, FeedInv, FeedTypes, FeedTypeOK
<1>4. slips' \in 0..MaxSlips /\ slips <= slips' /\ slips \in Nat /\ slips' \in Nat
  BY <1>1, FeedCounts
<1>5. hit \in HitState /\ hit.todo \subseteq Indicators /\ bare \in Int
  BY DEF FeedInv, FeedTypes, HitState, HitOK
<1>6. hit' \in HitState /\ HitOK'
  <2>1. CASE Reload
    BY <1>5, <2>1 DEF Reload, FeedInv, HitOK
  <2>2. ASSUME NEW mentioned \in SUBSET Indicators, Check(mentioned) PROVE hit' \in HitState /\ HitOK'
    <3>1. /\ hit.at = "idle" /\ hit' = [at |-> "record", todo |-> mentioned, item |-> {}]
          /\ UNCHANGED <<bare, slips>>
      BY <2>2 DEF Check
    <3>2. hit' \in HitState /\ hit'.at = "record" /\ hit'.item = {}
      BY <3>1 DEF HitState
    <3> QED
      BY <3>1, <3>2 DEF FeedInv, HitOK
  <2>3. CASE Record
    <3>1. PICK i \in hit.todo : /\ hit.at = "record" /\ hit' = Recorded(i)
                                /\ bare' = bare + 1 /\ UNCHANGED slips
      BY <2>3 DEF Record
    <3>2. hit' \in HitState /\ hit'.at = "warn" /\ hit'.item = {i} /\ i \in Indicators
      BY <1>5, <3>1 DEF Recorded, HitState
    <3>3. bare \in 0..slips /\ bare' \in Int /\ bare' - 1 \in 0..slips'
      BY <1>4, <1>5, <3>1 DEF FeedInv, HitOK
    <3> QED
      BY <3>2, <3>3 DEF HitOK
  <2>4. CASE Warn
    <3>1. /\ hit.at = "warn" /\ bare' = bare - 1 /\ UNCHANGED slips
          /\ hit' = IF hit.todo = {} THEN NoMatch ELSE [hit EXCEPT !.at = "record", !.item = {}]
      BY <2>4 DEF Warn
    <3>2. hit' \in HitState /\ hit'.at # "warn" /\ hit'.item = {}
      <4>1. CASE hit.todo = {}
        BY <3>1, <4>1 DEF NoMatch, HitState
      <4>2. CASE hit.todo # {}
        <5>1. hit' = [hit EXCEPT !.at = "record", !.item = {}]
          BY <3>1, <4>2
        <5> QED
          BY <1>5, <5>1 DEF HitState
      <4> QED
        BY <4>1, <4>2
    <3>3. bare' \in 0..slips' /\ bare' \in Int
      BY <1>4, <1>5, <3>1 DEF FeedInv, HitOK
    <3> QED
      BY <3>2, <3>3 DEF HitOK
  <2>5. CASE MatchRaises
    <3>1. Slip /\ hit' = NoMatch /\ bare' = bare
      BY <2>5 DEF MatchRaises
    <3>2. hit' \in HitState /\ hit'.at = "idle" /\ hit'.item = {}
      BY <3>1 DEF NoMatch, HitState
    <3>3. slips' = slips + 1
      BY <3>1 DEF Slip
    <3>4. bare' \in 0..slips' /\ bare' \in Int
      BY <1>4, <1>5, <3>1, <3>3 DEF FeedInv, HitOK
    <3> QED
      BY <3>2, <3>4 DEF HitOK
  <2> QED
    BY <2>1, <2>2, <2>3, <2>4, <2>5
<1>7. FeedTypes'
  BY <1>2, <1>3, <1>4, <1>6 DEF FeedInv, FeedTypes, FeedTypeOK, QueueOK
<1>8. FreshOK'
  BY <1>2 DEF FeedInv, FreshOK, ToStore, AtWork, NoRow
<1> QED
  BY <1>6, <1>7, <1>8 DEF FeedInv

LEMMA FeedNextInv == FeedInv /\ [FeedNext]_feedVars => FeedInv'
<1> SUFFICES ASSUME FeedInv, [FeedNext]_feedVars PROVE FeedInv'
  OBVIOUS
<1>1. CASE UNCHANGED feedVars
  BY <1>1 DEF feedVars, FeedInv, FeedTypes, FeedTypeOK, QueueOK, FreshOK, ToStore, AtWork, NoRow, HitOK
<1>2. ASSUME NEW p \in Fetchers, FetchStep(p) \/ DownloadFails(p) \/ Break(p) PROVE FeedInv'
  BY <1>2, StartKeeps, FetchMovesOn, CommitFeedKeeps DEF FetchStep
<1>3. ASSUME NEW p \in Fetchers, \/ \E f \in Feeds : FetchNow(p, f)
                                 \/ \E items \in SUBSET Indicators : Import(p, items)
      PROVE  FeedInv'
  BY <1>3, StartKeeps
<1> QED
  BY <1>1, <1>2, <1>3, RowsKeep, MatcherKeeps DEF FeedNext

LEMMA FeedAlways == FeedSpec => []FeedInv
BY FeedInitInv, FeedNextInv, PTL DEF FeedSpec

\* Unless two fetches or imports overlapped, an indicator has one row, so that
\* switching it off holds; and a match has its alert, or an error came between
\* the two (workers.py, fetch_feed; threatintel.py, IOCMatcher._record).
THEOREM IndicatorsConsistentHolds == FeedSpec => []IndicatorsConsistent
<1>1. FeedInv => IndicatorsConsistent
  <2> SUFFICES ASSUME FeedInv PROVE IndicatorsConsistent
    OBVIOUS
  <2>1. OneRowPerIndicator
    BY DEF FeedInv, FreshOK, OneRowPerIndicator
  <2>2. MatchesAreWarned
    <3>1. CASE hit.at = "warn"
      <4>1. PICK i \in Indicators : hit.item = {i} /\ bare - 1 \in 0..slips
        BY <3>1 DEF FeedInv, HitOK
      <4>2. Cardinality(hit.item) = 1
        BY <4>1, FS_Singleton
      <4> QED
        BY <4>1, <4>2 DEF MatchesAreWarned
    <3>2. CASE hit.at # "warn"
      <4>1. hit.item = {} /\ bare \in 0..slips /\ bare \in Int
        BY <3>2 DEF FeedInv, HitOK
      <4>2. Cardinality(hit.item) = 0
        BY <4>1, FS_EmptySet
      <4> QED
        BY <4>1, <4>2, FeedCounts DEF MatchesAreWarned
    <3> QED
      BY <3>1, <3>2
  <2> QED
    BY <2>1, <2>2 DEF IndicatorsConsistent
<1> QED
  BY <1>1, FeedAlways, PTL
-----------------------------------------------------------------------------
(***************************************************************************)
(* MCServices: a step is one of a single service, the others rest.         *)
(***************************************************************************)
\* A behaviour of the services is one of each of them.
THEOREM ServicesSideBySide == SpecServices => ReportSpec /\ TriageSpec /\ ExportSpec /\ FeedSpec
<1>1. InitServices => ReportInit /\ TriageInit /\ ExportInit /\ FeedInit
  BY DEF InitServices
<1>2. [NextServices]_svcVars => /\ [ReportNext]_reportVars
                        /\ [TriageNext]_triageVars /\ [ExportNext]_exportVars /\ [FeedNext]_feedVars
  <2> SUFFICES ASSUME [NextServices]_svcVars
               PROVE  /\ [ReportNext]_reportVars
                      /\ [TriageNext]_triageVars /\ [ExportNext]_exportVars /\ [FeedNext]_feedVars
    OBVIOUS
  <2>1. CASE UNCHANGED svcVars
    BY <2>1 DEF svcVars
  <2>3. CASE Alone("report") /\ ReportNext
    BY <2>3 DEF Alone
  <2>4. CASE Alone("triage") /\ TriageNext
    BY <2>4 DEF Alone
  <2>5. CASE Alone("export") /\ ExportNext
    BY <2>5 DEF Alone
  <2>6. CASE Alone("feeds") /\ FeedNext
    BY <2>6 DEF Alone
  <2> QED
    BY <2>1, <2>3, <2>4, <2>5, <2>6 DEF NextServices
<1> QED
  BY <1>1, <1>2, PTL DEF SpecServices, ReportSpec, TriageSpec, ExportSpec, FeedSpec

\* The types of all the services.  That of the export says that the counter is
\* above every sequence number given, which takes refreshes one at a time.
THEOREM ServiceTypesHold == SpecServices => []ServiceTypes
<1>2. ReportInv => ReportTypeOK
  BY DEF ReportInv
<1>3. TriageInv => TriageTypeOK
  BY DEF TriageInv, TriageTypes
<1>4. ExportInv => ExportTypeOK
  <2> SUFFICES ASSUME ExportInv PROVE ExportTypeOK
    OBVIOUS
  <2>1. ASSUME NEW x \in Records
        PROVE  /\ source[x] \in 0..MaxVersion[x]
               /\ exported[x] \in [seq : Nat, ver : 0..source[x]]
               /\ ~reissued => exported[x].seq < counter
    <3>1. source[x] \in Nat /\ MaxVersion[x] \in Nat /\ exported[x] \in ExportRow
      BY ExportAssumption DEF ExportInv, ExportTypes
    <3>2. /\ source[x] <= MaxVersion[x] /\ exported[x].ver <= source[x]
          /\ ~reissued => exported[x].seq < counter
      BY DEF ExportInv, VersionsOK, Orderly, Numbered
    <3>3. exported[x].ver \in 0..source[x]
      BY <3>1, <3>2 DEF ExportRow
    <3> QED
      BY <3>1, <3>2, <3>3 DEF ExportRow
  <2> QED
    BY <2>1 DEF ExportInv, ExportTypes, ExportTypeOK, TxnState
<1>5. FeedInv => FeedTypeOK
  BY Zenon DEF FeedInv, FeedTypes
<1> QED
  BY <1>2, <1>3, <1>4, <1>5, ServicesSideBySide, ReportAlways, TriageAlways, ExportAlways,
     FeedAlways, PTL
  DEF ServiceTypes

-----------------------------------------------------------------------------
(***************************************************************************)
(* StorageBatch, for any workers, configurations, threshold and bounds.    *)
(***************************************************************************)
Stored(h, l) == h.id \in 1..Len(l) /\ l[h.id] = h.event

AllStored(s, l) == \A i \in DOMAIN s : Stored(s[i], l)

\* A worker that is past insert_log knows the event and the id of its row.
CurOK == \A w \in Worker : at[w] # "idle" => cur[w] \in Hit

\* With a commit per event nothing of the logs table is ever uncommitted, so that
\* every reference to a row stays good.
EachStored ==
  /\ durable = Len(logs)
  /\ \A w \in Worker : at[w] # "idle" => Stored(cur[w], logs)
  /\ AllStored(hits, logs)
  /\ \A w \in Worker : AllStored(fired[w], logs)
  /\ \A n \in DOMAIN alerts : AllStored(alerts[n], logs)
  /\ \A e \in processed : \E i \in 1..Len(logs) : logs[i] = e

StoreInv == TypeOK /\ CurOK /\ PendingCovers /\ (config.size = 1 => EachStored)
-----------------------------------------------------------------------------
LEMMA Prefix ==
  ASSUME NEW S, NEW s \in Seq(S), NEW n \in 0..Len(s)
  PROVE  /\ SubSeq(s, 1, n) \in Seq(S)
         /\ Len(SubSeq(s, 1, n)) = n
         /\ DOMAIN SubSeq(s, 1, n) = 1..n
         /\ \A i \in 1..n : i \in DOMAIN s /\ SubSeq(s, 1, n)[i] = s[i]
         /\ n = Len(s) => SubSeq(s, 1, n) = s
<1>1. Len(s) \in Nat /\ DOMAIN s = 1..Len(s) /\ \A i \in 1..n : i \in 1..Len(s) /\ s[i] \in S
  OBVIOUS
<1>2. /\ SubSeq(s, 1, n) \in Seq(S)
      /\ Len(SubSeq(s, 1, n)) = IF 1 <= n THEN n - 1 + 1 ELSE 0
      /\ \A i \in 1..(n - 1 + 1) : SubSeq(s, 1, n)[i] = s[1 + i - 1]
  BY <1>1, SubSeqProperties
<1>3. Len(SubSeq(s, 1, n)) = n /\ \A i \in 1..n : SubSeq(s, 1, n)[i] = s[i]
  BY <1>2
<1>4. n = Len(s) => SubSeq(s, 1, n) = s
  BY <1>1, <1>2, <1>3, SeqEqual
<1>5. DOMAIN SubSeq(s, 1, n) = 1..n
  BY <1>2, <1>3
<1>6. QED
  BY Zenon, <1>1, <1>2, <1>3, <1>4, <1>5

LEMMA Suffix ==
  ASSUME NEW S, NEW s \in Seq(S), NEW k \in 0..Len(s)
  PROVE  /\ SubSeq(s, k + 1, Len(s)) \in Seq(S)
         /\ \A i \in DOMAIN SubSeq(s, k + 1, Len(s)) :
              \E j \in DOMAIN s : SubSeq(s, k + 1, Len(s))[i] = s[j]
<1>1. Len(s) \in Nat /\ DOMAIN s = 1..Len(s) /\ \A i \in (k + 1)..Len(s) : i \in 1..Len(s) /\ s[i] \in S
  OBVIOUS
<1>2. /\ SubSeq(s, k + 1, Len(s)) \in Seq(S)
      /\ Len(SubSeq(s, k + 1, Len(s))) = IF k + 1 <= Len(s) THEN Len(s) - (k + 1) + 1 ELSE 0
      /\ \A i \in 1..(Len(s) - (k + 1) + 1) : SubSeq(s, k + 1, Len(s))[i] = s[k + 1 + i - 1]
  BY <1>1, SubSeqProperties
<1>3. ASSUME NEW i \in DOMAIN SubSeq(s, k + 1, Len(s))
      PROVE  \E j \in DOMAIN s : SubSeq(s, k + 1, Len(s))[i] = s[j]
  <2>1. i \in 1..(Len(s) - k)
    BY <1>1, <1>2, <1>3
  <2>2. k + i \in DOMAIN s /\ SubSeq(s, k + 1, Len(s))[i] = s[k + i]
    BY <1>1, <1>2, <2>1
  <2>3. QED
    BY <2>2
<1>4. QED
  BY <1>2, <1>3

LEMMA Appended ==
  ASSUME NEW S, NEW s \in Seq(S), NEW x \in S
  PROVE  /\ Append(s, x) \in Seq(S)
         /\ Len(Append(s, x)) = Len(s) + 1
         /\ DOMAIN Append(s, x) = 1..(Len(s) + 1)
         /\ \A i \in 1..Len(s) : Append(s, x)[i] = s[i]
         /\ Append(s, x)[Len(s) + 1] = x
OBVIOUS

\* A row that is stored stays stored when others are added.
LEMMA StoredGrows ==
  ASSUME NEW l \in Seq(Event), NEW e \in Event
  PROVE  /\ \A h : Stored(h, l) => Stored(h, Append(l, e))
         /\ Stored([event |-> e, id |-> Len(l) + 1], Append(l, e))
<1>1. Len(l) \in Nat
  OBVIOUS
<1>2. QED
  BY <1>1, Appended DEF Stored

\* What a rollback does to the tables.
LEMMA RolledBack ==
  ASSUME StoreInv, Rollback
  PROVE  /\ logs' \in Seq(Event) /\ durable' \in 0..Len(logs')
         /\ alerts' \in Seq(Seq(Hit)) /\ durAlerts' \in 0..Len(alerts')
         /\ Len(logs') - durable' = 0
         /\ config.size = 1 => logs' = logs /\ durable' = durable
         /\ \A n \in DOMAIN alerts' : n \in DOMAIN alerts /\ alerts'[n] = alerts[n]
<1>1. /\ logs \in Seq(Event) /\ durable \in 0..Len(logs)
      /\ alerts \in Seq(Seq(Hit)) /\ durAlerts \in 0..Len(alerts)
      /\ config.size = 1 => durable = Len(logs)
  BY DEF StoreInv, TypeOK, EachStored
<1>2. /\ logs' = SubSeq(logs, 1, durable) /\ durable' = durable
      /\ alerts' = SubSeq(alerts, 1, durAlerts) /\ durAlerts' = durAlerts
  BY DEF Rollback
<1>3. /\ logs' \in Seq(Event) /\ Len(logs') = durable
      /\ durable = Len(logs) => logs' = logs
  BY <1>1, <1>2, Prefix
<1>4. /\ alerts' \in Seq(Seq(Hit)) /\ Len(alerts') = durAlerts
      /\ \A n \in DOMAIN alerts' : n \in DOMAIN alerts /\ alerts'[n] = alerts[n]
  BY <1>1, <1>2, Prefix
<1>5. QED
  BY <1>1, <1>2, <1>3, <1>4

\* The tables after a commit of everything.
LEMMA Committed ==
  ASSUME StoreInv, NEW l \in Seq(Event), NEW a \in Seq(Seq(Hit)), CommitAs(l, a)
  PROVE  /\ logs' \in Seq(Event) /\ durable' \in 0..Len(logs')
         /\ alerts' \in Seq(Seq(Hit)) /\ durAlerts' \in 0..Len(alerts')
         /\ Len(logs') - durable' = 0 /\ durable' = Len(logs')
BY DEF CommitAs
-----------------------------------------------------------------------------
LEMMA InitStore == Init => StoreInv
<1>1. SUFFICES ASSUME Init PROVE StoreInv
  OBVIOUS
<1>2. TypeOK
  <2>1. /\ config \in Config /\ logs \in Seq(Event) /\ alerts \in Seq(Seq(Hit))
        /\ hits \in Seq(Hit)
        /\ Len(logs) = 0 /\ Len(alerts) = 0
    BY <1>1 DEF Init
  <2>2. /\ durable \in 0..Len(logs) /\ durAlerts \in 0..Len(alerts) /\ pending \in Nat
        /\ nevent \in 0..MaxEvent /\ errors \in 0..MaxErrors
    BY <1>1, <2>1, StorageAssumption DEF Init
  <2>3. /\ at \in [Worker -> {"idle", "stored", "firing", "recover", "checked"}]
        /\ cur \in [Worker -> Hit \cup {NoHit}]
        /\ fired \in [Worker -> Seq(Hit)]
    BY <1>1 DEF Init
  <2>4. engine = {} /\ processed = {}
    BY <1>1 DEF Init
  <2>5. flusher \in BOOLEAN /\ running \in BOOLEAN
    BY <1>1, Zenon DEF Init
  <2>6. QED
    BY <2>1, <2>2, <2>3, <2>4, <2>5 DEF TypeOK
<1>3. CurOK /\ PendingCovers /\ EachStored
  BY <1>1 DEF Init, CurOK, PendingCovers, EachStored, AllStored
<1>4. QED
  BY <1>2, <1>3 DEF StoreInv

LEMMA InsertLogKeeps ==
  ASSUME StoreInv, NEW w \in Worker, InsertLog(w)
  PROVE  StoreInv'
<1> DEFINE e == nevent + 1
           new == Append(logs, e)
           row == [event |-> e, id |-> Len(logs) + 1]
<1>1. /\ at[w] = "idle" /\ at' = [at EXCEPT ![w] = "stored"]
      /\ nevent < MaxEvent /\ nevent' = e
      /\ cur' = [cur EXCEPT ![w] = row]
      /\ UNCHANGED <<config, flusher, fired, engine, hits, processed, running, errors>>
  BY DEF InsertLog, Goto
<1>2. /\ logs \in Seq(Event) /\ durable \in 0..Len(logs) /\ Len(logs) \in Nat
      /\ alerts \in Seq(Seq(Hit)) /\ durAlerts \in 0..Len(alerts)
      /\ nevent \in Nat /\ pending \in Nat /\ Len(logs) - durable <= pending
  BY StorageAssumption DEF StoreInv, TypeOK, PendingCovers
<1>3. e \in Event /\ e \in 0..MaxEvent
  BY <1>1, <1>2, StorageAssumption DEF Event
<1>4. new \in Seq(Event) /\ Len(new) = Len(logs) + 1
  BY <1>2, <1>3, Appended
<1>5. row \in Hit
  BY <1>2, <1>3 DEF Hit
<1> HIDE DEF e, new, row
<1>6. /\ logs' = new /\ alerts' = alerts
      /\ \/ durable' = Len(new) /\ durAlerts' = Len(alerts) /\ pending' = 0
         \/ ~SizeDue(pending + 1) /\ pending' = pending + 1 /\ UNCHANGED <<durable, durAlerts>>
  BY DEF InsertLog, CommitAs, e, new
<1>7. /\ durable' \in 0..Len(logs') /\ durAlerts' \in 0..Len(alerts') /\ pending' \in Nat
      /\ Len(logs') - durable' <= pending'
  BY SMTT(60), <1>2, <1>4, <1>6
<1>8. TypeOK'
  <2>1. /\ cur' \in [Worker -> Hit \cup {NoHit}]
        /\ at' \in [Worker -> {"idle", "stored", "firing", "recover", "checked"}]
    BY <1>1, <1>5 DEF StoreInv, TypeOK
  <2>2. QED
    BY <1>1, <1>2, <1>3, <1>4, <1>6, <1>7, <2>1 DEF StoreInv, TypeOK
<1>9. CurOK'
  BY <1>1, <1>5 DEF StoreInv, TypeOK, CurOK
<1>10. ASSUME config'.size = 1 PROVE EachStored'
  <2>1. EachStored /\ config.size = 1
    BY <1>1, <1>10 DEF StoreInv
  <2>2. durable' = Len(logs')
    BY <1>2, <1>6, <2>1 DEF SizeDue
  <2>3. /\ \A h : Stored(h, logs) => Stored(h, new)
        /\ Stored(row, new)
    BY <1>2, <1>3, StoredGrows DEF row, new
  <2>4. \A v \in Worker : at'[v] # "idle" => Stored(cur'[v], new)
    BY <1>1, <2>1, <2>3 DEF StoreInv, TypeOK, EachStored
  <2>5. /\ AllStored(hits, new)
        /\ \A v \in Worker : AllStored(fired[v], new)
        /\ \A n \in DOMAIN alerts : AllStored(alerts[n], new)
    BY <2>1, <2>3 DEF EachStored, AllStored
  <2>6. \A x \in processed : \E i \in 1..Len(new) : new[i] = x
    <3>1. \A i \in 1..Len(logs) : i \in 1..Len(new) /\ new[i] = logs[i]
      BY <1>2, <1>3, <1>4, Appended DEF new
    <3>2. QED
      BY <2>1, <3>1 DEF EachStored
  <2>7. QED
    BY <1>1, <1>6, <2>2, <2>4, <2>5, <2>6 DEF EachStored, AllStored, Stored
<1>11. QED
  BY <1>7, <1>8, <1>9, <1>10 DEF StoreInv, PendingCovers

\* A step that may roll back, and leaves at most the workers' places behind.
LEMMA RollbackKeeps ==
  ASSUME StoreInv, Rollback, UNCHANGED config,
         pending' \in Nat, nevent' \in 0..MaxEvent, errors' \in 0..MaxErrors,
         flusher' \in BOOLEAN, running' \in BOOLEAN,
         at' \in [Worker -> {"idle", "stored", "firing", "recover", "checked"}],
         \A w \in Worker : at'[w] # "idle" => at[w] # "idle" /\ cur'[w] = cur[w],
         UNCHANGED <<cur, fired, engine, hits, processed>>
  PROVE  StoreInv'
<1>1. /\ logs' \in Seq(Event) /\ durable' \in 0..Len(logs')
      /\ alerts' \in Seq(Seq(Hit)) /\ durAlerts' \in 0..Len(alerts')
      /\ Len(logs') - durable' = 0
      /\ config.size = 1 => logs' = logs /\ durable' = durable
      /\ \A n \in DOMAIN alerts' : n \in DOMAIN alerts /\ alerts'[n] = alerts[n]
  BY RolledBack
<1>2. TypeOK'
  BY <1>1 DEF StoreInv, TypeOK
<1>3. CurOK'
  BY DEF StoreInv, CurOK
<1>4. PendingCovers'
  BY <1>1 DEF PendingCovers
<1>5. config'.size = 1 => EachStored'
  BY <1>1 DEF StoreInv, EachStored
<1>6. QED
  BY <1>2, <1>3, <1>4, <1>5 DEF StoreInv

LEMMA FailType ==
  ASSUME StoreInv, Fail
  PROVE  errors' \in 0..MaxErrors
BY StorageAssumption DEF StoreInv, TypeOK, Fail

LEMMA InsertLogFailsKeeps ==
  ASSUME StoreInv, NEW w \in Worker, InsertLogFails(w)
  PROVE  StoreInv'
<1>1. nevent' \in 0..MaxEvent
  BY StorageAssumption DEF StoreInv, TypeOK, InsertLogFails
<1>2. /\ at' \in [Worker -> {"idle", "stored", "firing", "recover", "checked"}]
      /\ \A v \in Worker : at'[v] # "idle" => at[v] # "idle"
  BY DEF StoreInv, TypeOK, InsertLogFails, Goto
<1>3. flusher' \in BOOLEAN /\ running' \in BOOLEAN /\ pending' \in Nat
  BY DEF StoreInv, TypeOK, InsertLogFails
<1>4. QED
  BY <1>1, <1>2, <1>3, FailType, RollbackKeeps DEF InsertLogFails

LEMMA EvaluateKeeps ==
  ASSUME StoreInv, NEW w \in Worker, Evaluate(w)
  PROVE  StoreInv'
<1>1. /\ engine = {} /\ at[w] = "stored" /\ cur[w] \in Hit
      /\ UNCHANGED <<config, tables, pending, flusher, nevent, cur, processed, running, errors>>
      /\ at' \in [Worker -> {"idle", "stored", "firing", "recover", "checked"}]
      /\ \A v \in Worker : at'[v] # "idle" => at[v] # "idle"
  BY DEF StoreInv, TypeOK, CurOK, Evaluate, EngineFree, Goto
<1>2. /\ hits' \in Seq(Hit) /\ fired' \in [Worker -> Seq(Hit)]
      /\ engine' \in {{}} \cup {{v} : v \in Worker}
      /\ EachStored => AllStored(hits', logs) /\ \A v \in Worker : AllStored(fired'[v], logs)
  <2>1. CASE UNCHANGED <<fired, engine, hits>>
    BY <2>1 DEF StoreInv, TypeOK, EachStored
  <2>2. ASSUME NEW k \in 0..Len(hits)
        PROVE  LET burst == Append(SubSeq(hits, k + 1, Len(hits)), cur[w])
               IN  burst \in Seq(Hit) /\ (EachStored => AllStored(burst, logs))
    <3> DEFINE rest == SubSeq(hits, k + 1, Len(hits))
    <3>1. hits \in Seq(Hit)
      BY DEF StoreInv, TypeOK
    <3>2. /\ rest \in Seq(Hit)
          /\ \A i \in DOMAIN rest : \E j \in DOMAIN hits : rest[i] = hits[j]
      BY <3>1, Suffix
    <3> HIDE DEF rest
    <3>3. /\ Append(rest, cur[w]) \in Seq(Hit)
          /\ DOMAIN Append(rest, cur[w]) = 1..(Len(rest) + 1)
          /\ \A i \in 1..Len(rest) : Append(rest, cur[w])[i] = rest[i]
          /\ Append(rest, cur[w])[Len(rest) + 1] = cur[w]
          /\ Len(rest) \in Nat /\ DOMAIN rest = 1..Len(rest)
      BY <1>1, <3>2, Appended
    <3>4. ASSUME EachStored PROVE AllStored(Append(rest, cur[w]), logs)
      <4>1. Stored(cur[w], logs) /\ \A i \in DOMAIN rest : Stored(rest[i], logs)
        BY <1>1, <3>2, <3>4 DEF EachStored, AllStored
      <4>2. \A i \in 1..(Len(rest) + 1) : i \in 1..Len(rest) \/ i = Len(rest) + 1
        BY <3>3
      <4>3. QED
        BY <3>3, <4>1, <4>2 DEF AllStored
    <3>5. QED
      BY <3>3, <3>4 DEF rest
  <2>3. ASSUME NEW k \in 0..Len(hits), NEW burst \in Seq(Hit),
               EachStored => AllStored(burst, logs),
               \/ /\ fired' = [fired EXCEPT ![w] = burst]
                  /\ hits' = Remaining(burst)
                  /\ engine' = engine \cup {w}
               \/ hits' = burst /\ UNCHANGED <<fired, engine>>
        PROVE  /\ hits' \in Seq(Hit) /\ fired' \in [Worker -> Seq(Hit)]
               /\ engine' \in {{}} \cup {{v} : v \in Worker}
               /\ EachStored => AllStored(hits', logs) /\ \A v \in Worker : AllStored(fired'[v], logs)
    <3>1. /\ hits \in Seq(Hit) /\ fired \in [Worker -> Seq(Hit)]
          /\ EachStored => \A v \in Worker : AllStored(fired[v], logs)
      BY DEF StoreInv, TypeOK, EachStored
    <3>2. <<>> \in Seq(Hit) /\ AllStored(<<>>, logs)
      BY DEF AllStored
    <3>3. engine \cup {w} = {w}
      BY <1>1
    <3>4. hits' \in {burst, <<>>} /\ engine' \in {{}, {w}}
      BY <1>1, <2>3, <3>3 DEF Remaining
    <3>5. /\ fired' \in [Worker -> Seq(Hit)]
          /\ EachStored => \A v \in Worker : AllStored(fired'[v], logs)
      BY <2>3, <3>1
    <3>6. QED
      BY <2>3, <3>2, <3>4, <3>5
  <2>4. QED
    BY <2>1, <2>2, <2>3 DEF Evaluate
<1>3. TypeOK'
  BY <1>1, <1>2 DEF StoreInv, TypeOK, tables
<1>4. CurOK' /\ PendingCovers'
  BY <1>1 DEF StoreInv, CurOK, PendingCovers, tables
<1>5. config'.size = 1 => EachStored'
  BY <1>1, <1>2 DEF StoreInv, EachStored, tables
<1>6. QED
  BY <1>3, <1>4, <1>5 DEF StoreInv

\* The alert names rows that are stored, and takes a place behind the others.
LEMMA AlertAdded ==
  ASSUME StoreInv, NEW w \in Worker
  PROVE  /\ Append(alerts, fired[w]) \in Seq(Seq(Hit))
         /\ durAlerts \in 0..Len(Append(alerts, fired[w]))
         /\ EachStored => \A n \in DOMAIN Append(alerts, fired[w]) :
                            AllStored(Append(alerts, fired[w])[n], logs)
<1>1. /\ alerts \in Seq(Seq(Hit)) /\ fired[w] \in Seq(Hit) /\ durAlerts \in 0..Len(alerts)
      /\ Len(alerts) \in Nat /\ DOMAIN alerts = 1..Len(alerts)
  BY DEF StoreInv, TypeOK
<1>2. /\ Append(alerts, fired[w]) \in Seq(Seq(Hit))
      /\ Len(Append(alerts, fired[w])) = Len(alerts) + 1
      /\ DOMAIN Append(alerts, fired[w]) = 1..(Len(alerts) + 1)
      /\ \A i \in 1..Len(alerts) : Append(alerts, fired[w])[i] = alerts[i]
      /\ Append(alerts, fired[w])[Len(alerts) + 1] = fired[w]
  BY <1>1, Appended
<1>3. \A n \in 1..(Len(alerts) + 1) : n \in 1..Len(alerts) \/ n = Len(alerts) + 1
  BY <1>1
<1>4. QED
  BY <1>1, <1>2, <1>3 DEF EachStored

LEMMA InsertAlertKeeps ==
  ASSUME StoreInv, NEW w \in Worker, InsertAlert(w) \/ InsertAlertFails(w)
  PROVE  StoreInv'
<1>1. /\ at' \in [Worker -> {"idle", "stored", "firing", "recover", "checked"}]
      /\ \A v \in Worker : at'[v] # "idle" => at[v] # "idle"
      /\ fired' = [fired EXCEPT ![w] = <<>>]
      /\ engine' = engine \ {w}
      /\ UNCHANGED <<config, logs, pending, flusher, nevent, cur, hits, processed, running>>
  BY DEF StoreInv, TypeOK, InsertAlert, InsertAlertFails, Goto, CommitAs
<1>2. errors' \in 0..MaxErrors
  BY FailType DEF StoreInv, TypeOK, InsertAlert, InsertAlertFails
<1>3. fired' \in [Worker -> Seq(Hit)] /\ engine' \in {{}} \cup {{v} : v \in Worker}
  <2>1. engine = {} \/ \E v \in Worker : engine = {v}
    BY DEF StoreInv, TypeOK
  <2>2. engine \ {w} = {} \/ engine \ {w} = engine
    BY <2>1
  <2>3. engine' \in {{}} \cup {{v} : v \in Worker}
    BY <1>1, <2>1, <2>2
  <2>4. <<>> \in Seq(Hit) /\ fired \in [Worker -> Seq(Hit)]
    BY DEF StoreInv, TypeOK
  <2>5. QED
    BY <1>1, <2>3, <2>4
<1>4. /\ alerts' \in Seq(Seq(Hit)) /\ durAlerts' \in 0..Len(alerts')
      /\ EachStored => \A n \in DOMAIN alerts' : AllStored(alerts'[n], logs)
  <2>1. alerts' \in {alerts, Append(alerts, fired[w])} /\ durAlerts' \in {durAlerts, Len(alerts')}
    BY DEF InsertAlert, InsertAlertFails, CommitAs
  <2>2. CASE alerts' = alerts
    BY <2>1, <2>2 DEF StoreInv, TypeOK, EachStored
  <2>3. CASE alerts' = Append(alerts, fired[w])
    BY <2>1, <2>3, AlertAdded
  <2>4. QED
    BY <2>1, <2>2, <2>3
<1>5. durable' \in {durable, Len(logs)}
  BY DEF InsertAlert, InsertAlertFails, CommitAs
<1>6. durable' \in 0..Len(logs) /\ Len(logs) - durable' <= pending
  BY SMTT(60), <1>5 DEF StoreInv, TypeOK, PendingCovers
<1>7. TypeOK'
  BY <1>1, <1>2, <1>3, <1>4, <1>6 DEF StoreInv, TypeOK
<1>8. CurOK' /\ PendingCovers'
  BY <1>1, <1>6 DEF StoreInv, CurOK, PendingCovers
<1>9. ASSUME config'.size = 1 PROVE EachStored'
  <2>1. EachStored
    BY <1>1, <1>9 DEF StoreInv
  <2>2. \A v \in Worker : AllStored(fired'[v], logs)
    BY <1>1, <2>1 DEF StoreInv, TypeOK, EachStored, AllStored
  <2>3. QED
    BY <1>1, <1>4, <1>5, <2>1, <2>2 DEF EachStored
<1>10. QED
  BY <1>7, <1>8, <1>9 DEF StoreInv

LEMMA RecoverKeeps ==
  ASSUME StoreInv, NEW w \in Worker, Recover(w)
  PROVE  StoreInv'
<1>1. /\ at' \in [Worker -> {"idle", "stored", "firing", "recover", "checked"}]
      /\ \A v \in Worker : at'[v] # "idle" => at[v] # "idle"
  BY DEF StoreInv, TypeOK, Recover, Goto
<1>2. /\ pending' \in Nat /\ nevent' \in 0..MaxEvent /\ errors' \in 0..MaxErrors
      /\ flusher' \in BOOLEAN /\ running' \in BOOLEAN
  BY DEF StoreInv, TypeOK, Recover
<1>3. QED
  BY <1>1, <1>2, RollbackKeeps DEF Recover

LEMMA CountKeeps ==
  ASSUME StoreInv, NEW w \in Worker, Count(w)
  PROVE  StoreInv'
<1>1. /\ at[w] = "checked" /\ at' = [at EXCEPT ![w] = "idle"]
      /\ processed' = processed \cup {cur[w].event}
      /\ cur' = [cur EXCEPT ![w] = NoHit]
      /\ UNCHANGED <<config, tables, pending, flusher, nevent, fired, engine, hits, running, errors>>
  BY DEF Count, Goto
<1>2. cur[w].event \in Event
  BY <1>1 DEF StoreInv, CurOK, Hit
<1>3. TypeOK'
  BY <1>1, <1>2 DEF StoreInv, TypeOK, tables
<1>4. CurOK' /\ PendingCovers'
  BY <1>1 DEF StoreInv, TypeOK, CurOK, PendingCovers, tables
<1>5. config'.size = 1 => EachStored'
  BY ZenonT(60), <1>1 DEF StoreInv, TypeOK, EachStored, Stored, tables
<1>6. QED
  BY <1>3, <1>4, <1>5 DEF StoreInv

\* The flusher, and the end of the process.
LEMMA FlushKeeps == StoreInv /\ Flush => StoreInv'
<1>1. SUFFICES ASSUME StoreInv, Flush PROVE StoreInv'
  OBVIOUS
<1>2. /\ logs' = logs /\ durable' = Len(logs) /\ alerts' = alerts /\ durAlerts' = Len(alerts)
      /\ pending' = 0
      /\ UNCHANGED <<config, flusher, nevent, workers, running, errors>>
  BY <1>1 DEF Flush, CommitAs
<1>3. /\ Len(logs) \in 0..Len(logs) /\ Len(alerts) \in 0..Len(alerts)
      /\ Len(logs) - Len(logs) <= 0
  BY <1>1 DEF StoreInv, TypeOK
<1>4. TypeOK'
  BY <1>1, <1>2, <1>3 DEF StoreInv, TypeOK, workers
<1>5. CurOK' /\ PendingCovers' /\ (config'.size = 1 => EachStored')
  BY <1>1, <1>2, <1>3 DEF StoreInv, CurOK, PendingCovers, EachStored, workers
<1>6. QED
  BY <1>4, <1>5 DEF StoreInv

LEMMA FlushFailsKeeps == StoreInv /\ FlushFails => StoreInv'
<1>1. SUFFICES ASSUME StoreInv, FlushFails PROVE StoreInv'
  OBVIOUS
<1>2. /\ flusher' = FALSE /\ errors' \in 0..MaxErrors
      /\ UNCHANGED <<config, pending, nevent, workers, running>>
  BY <1>1, FailType DEF FlushFails
<1>3. flusher' \in BOOLEAN
  BY <1>2
<1>4. CASE UNCHANGED tables
  BY <1>1, <1>2, <1>3, <1>4
  DEF StoreInv, TypeOK, CurOK, PendingCovers, EachStored, workers, tables
<1>5. CASE Rollback
  <2>1. /\ pending' \in Nat /\ nevent' \in 0..MaxEvent /\ running' \in BOOLEAN
        /\ at' \in [Worker -> {"idle", "stored", "firing", "recover", "checked"}]
        /\ UNCHANGED <<at, cur, fired, engine, hits, processed>>
    BY <1>1, <1>2 DEF StoreInv, TypeOK, workers
  <2>2. QED
    BY <1>1, <1>2, <1>3, <1>5, <2>1, RollbackKeeps
<1>6. QED
  BY <1>1, <1>4, <1>5 DEF FlushFails

LEMMA StopKeeps == StoreInv /\ Stop => StoreInv'
<1>1. SUFFICES ASSUME StoreInv, Stop PROVE StoreInv'
  OBVIOUS
<1>2. /\ Rollback /\ running' = FALSE
      /\ UNCHANGED <<config, pending, flusher, nevent, workers, errors>>
  BY <1>1 DEF Stop
<1>3. /\ pending' \in Nat /\ nevent' \in 0..MaxEvent /\ errors' \in 0..MaxErrors
      /\ flusher' \in BOOLEAN
      /\ at' \in [Worker -> {"idle", "stored", "firing", "recover", "checked"}]
      /\ UNCHANGED <<at, cur, fired, engine, hits, processed>>
  BY <1>1, <1>2 DEF StoreInv, TypeOK, workers
<1>4. running' \in BOOLEAN
  BY <1>2
<1>5. QED
  BY <1>1, <1>2, <1>3, <1>4, RollbackKeeps

LEMMA RestartKeeps == StoreInv /\ Restart => StoreInv'
<1>1. SUFFICES ASSUME StoreInv, Restart PROVE StoreInv'
  OBVIOUS
<1>2. /\ pending' = 0 /\ flusher' = TRUE
      /\ at' = [w \in Worker |-> "idle"] /\ cur' = [w \in Worker |-> NoHit]
      /\ fired' = [w \in Worker |-> <<>>]
      /\ engine' = {} /\ hits' = <<>> /\ processed' = {}
      /\ UNCHANGED <<config, nevent, running>>
  BY <1>1 DEF Restart
<1>3. errors' \in 0..MaxErrors
  BY <1>1, FailType DEF Restart
<1>4. /\ logs' \in Seq(Event) /\ durable' \in 0..Len(logs')
      /\ alerts' \in Seq(Seq(Hit)) /\ durAlerts' \in 0..Len(alerts')
      /\ Len(logs') - durable' = 0
      /\ config.size = 1 => logs' = logs /\ durable' = durable
      /\ \A n \in DOMAIN alerts' : n \in DOMAIN alerts /\ alerts'[n] = alerts[n]
  BY <1>1, RolledBack DEF Restart
<1>5. TypeOK'
  <2>1. flusher' \in BOOLEAN
    BY <1>2
  <2>2. hits' \in Seq(Hit) /\ pending' \in Nat
    BY <1>2
  <2>3. /\ at' \in [Worker -> {"idle", "stored", "firing", "recover", "checked"}]
        /\ cur' \in [Worker -> Hit \cup {NoHit}] /\ fired' \in [Worker -> Seq(Hit)]
    BY <1>2
  <2>4. QED
    BY <1>1, <1>2, <1>3, <1>4, <2>1, <2>2, <2>3 DEF StoreInv, TypeOK
<1>6. CurOK' /\ PendingCovers'
  BY <1>2, <1>4 DEF CurOK, PendingCovers
<1>7. config'.size = 1 => EachStored'
  BY <1>1, <1>2, <1>4 DEF StoreInv, EachStored, AllStored
<1>8. QED
  BY <1>5, <1>6, <1>7 DEF StoreInv

LEMMA NextStore == StoreInv /\ [Next]_vars => StoreInv'
<1>1. SUFFICES ASSUME StoreInv, [Next]_vars PROVE StoreInv'
  OBVIOUS
<1>2. CASE UNCHANGED vars
  BY <1>1, <1>2
  DEF StoreInv, TypeOK, CurOK, PendingCovers, EachStored, vars, tables, workers
<1>3. CASE \E w \in Worker : WorkerStep(w)
  BY <1>1, <1>3, InsertLogKeeps, InsertLogFailsKeeps, EvaluateKeeps, InsertAlertKeeps,
     RecoverKeeps, CountKeeps
  DEF WorkerStep
<1>4. CASE Flush \/ FlushFails \/ Stop \/ Restart
  BY <1>1, <1>4, FlushKeeps, FlushFailsKeeps, StopKeeps, RestartKeeps
<1>5. QED
  BY <1>1, <1>2, <1>3, <1>4 DEF Next

LEMMA StoreAlways == Spec => []StoreInv
<1>1. QED
  BY InitStore, NextStore, PTL DEF Spec
-----------------------------------------------------------------------------
\* Every reachable state of the storage is well-typed.
THEOREM StorageTypeCorrect == Spec => []TypeOK
<1>1. StoreInv => TypeOK
  BY DEF StoreInv
<1>2. QED
  BY <1>1, StoreAlways, PTL

\* _pending never understates what is uncommitted, whatever commits or rolls back
\* for everybody without resetting it (insert_alert, RuleEngine._rollback).
THEOREM PendingCoversHolds == Spec => []PendingCovers
<1>1. StoreInv => PendingCovers
  BY DEF StoreInv
<1>2. QED
  BY <1>1, StoreAlways, PTL

\* With a commit per event, an alert names stored rows of the events it counted.
THEOREM EvidenceStoredHolds == Spec => []EvidenceStored
<1>1. StoreInv => EvidenceStored
  <2>1. SUFFICES ASSUME StoreInv, config.size = 1,
                        NEW n \in 1..durAlerts, NEW i \in DOMAIN alerts[n]
                 PROVE  alerts[n][i].id <= durable /\ logs[alerts[n][i].id] = alerts[n][i].event
    BY DEF EvidenceStored
  <2>2. n \in DOMAIN alerts
    BY <2>1 DEF StoreInv, TypeOK
  <2>3. Stored(alerts[n][i], logs) /\ durable = Len(logs)
    BY <2>1, <2>2 DEF StoreInv, EachStored, AllStored
  <2>4. QED
    BY <2>3 DEF Stored
<1>2. QED
  BY <1>1, StoreAlways, PTL

\* With a commit per event, what was counted as processed is stored.
THEOREM ProcessedStoredHolds == Spec => []ProcessedStored
<1>1. StoreInv => ProcessedStored
  BY DEF StoreInv, EachStored, ProcessedStored
<1>2. QED
  BY <1>1, StoreAlways, PTL
-----------------------------------------------------------------------------
(***************************************************************************)
(* HitsUsedOnce.  An event that a burst may still use is in one place: a   *)
(* worker that has just stored it, the hits of the rule, a burst handed    *)
(* over to its worker, or one alert.                                       *)
(***************************************************************************)
EventsOf(s) == {s[i].event : i \in DOMAIN s}

\* The event of a worker that is about to evaluate it.
Fresh(w) == IF at[w] = "stored" THEN {cur[w].event} ELSE {}

Disjoint(S, T) == S \cap T = {}

OneOfHits ==
  \A w \in Worker : /\ Disjoint(Fresh(w), EventsOf(hits))
                    /\ Disjoint(EventsOf(fired[w]), EventsOf(hits))

OneOfWorkers ==
  \A v, w \in Worker : /\ Disjoint(Fresh(v), EventsOf(fired[w]))
                       /\ v # w => /\ Disjoint(Fresh(v), Fresh(w))
                                   /\ Disjoint(EventsOf(fired[v]), EventsOf(fired[w]))

OneOfAlert ==
  \A n \in DOMAIN alerts :
    /\ Disjoint(EventsOf(alerts[n]), EventsOf(hits))
    /\ \A w \in Worker : /\ Disjoint(EventsOf(alerts[n]), Fresh(w))
                         /\ Disjoint(EventsOf(alerts[n]), EventsOf(fired[w]))

OneOfAlerts ==
  \A m, n \in DOMAIN alerts : m # n => Disjoint(EventsOf(alerts[m]), EventsOf(alerts[n]))

OnePlace == OneOfHits /\ OneOfWorkers /\ OneOfAlert /\ OneOfAlerts

\* No place holds an event that was not received yet.
Received ==
  /\ EventsOf(hits) \subseteq 1..nevent
  /\ \A w \in Worker : Fresh(w) \subseteq 1..nevent /\ EventsOf(fired[w]) \subseteq 1..nevent
  /\ \A n \in DOMAIN alerts : EventsOf(alerts[n]) \subseteq 1..nevent

UseInv == OnePlace /\ Received

\* A step that takes nothing into a place keeps the invariant.
LEMMA PlacesShrink ==
  ASSUME UseInv, nevent \in Nat, nevent' \in Nat, nevent <= nevent',
         EventsOf(hits') \subseteq EventsOf(hits),
         \A w \in Worker : /\ Fresh(w)' \subseteq Fresh(w)
                           /\ EventsOf(fired'[w]) \subseteq EventsOf(fired[w]),
         \A n \in DOMAIN alerts' : n \in DOMAIN alerts /\ alerts'[n] = alerts[n]
  PROVE  UseInv'
<1>1. 1..nevent \subseteq 1..nevent'
  OBVIOUS
<1>2. Received'
  BY <1>1 DEF UseInv, Received
<1>3. OnePlace'
  BY SMTT(60) DEF UseInv, OnePlace, OneOfHits, OneOfWorkers, OneOfAlert, OneOfAlerts, Disjoint
<1> QED
  BY <1>2, <1>3 DEF UseInv

LEMMA EventsFacts ==
  /\ EventsOf(<<>>) = {}
  /\ \A s \in Seq(Hit), x \in Hit : EventsOf(Append(s, x)) = EventsOf(s) \cup {x.event}
  /\ \A s \in Seq(Hit) : \A k \in 0..Len(s) :
       EventsOf(SubSeq(s, k + 1, Len(s))) \subseteq EventsOf(s)
<1>1. EventsOf(<<>>) = {}
  BY DEF EventsOf
<1>2. ASSUME NEW s \in Seq(Hit), NEW x \in Hit
      PROVE  EventsOf(Append(s, x)) = EventsOf(s) \cup {x.event}
  <2>1. /\ DOMAIN Append(s, x) = 1..(Len(s) + 1) /\ DOMAIN s = 1..Len(s) /\ Len(s) \in Nat
        /\ \A i \in 1..Len(s) : Append(s, x)[i] = s[i]
        /\ Append(s, x)[Len(s) + 1] = x
    BY Appended
  <2>2. 1..(Len(s) + 1) = (1..Len(s)) \cup {Len(s) + 1}
    BY <2>1
  <2> QED
    BY <2>1, <2>2 DEF EventsOf
<1>3. ASSUME NEW s \in Seq(Hit), NEW k \in 0..Len(s)
      PROVE  EventsOf(SubSeq(s, k + 1, Len(s))) \subseteq EventsOf(s)
  BY Suffix DEF EventsOf
<1> QED
  BY <1>1, <1>2, <1>3

LEMMA RolledBackPlaces ==
  ASSUME StoreInv, UseInv, Rollback, nevent' \in Nat, nevent <= nevent',
         EventsOf(hits') \subseteq EventsOf(hits),
         \A w \in Worker : /\ Fresh(w)' \subseteq Fresh(w)
                           /\ EventsOf(fired'[w]) \subseteq EventsOf(fired[w])
  PROVE  UseInv'
<1>1. \A n \in DOMAIN alerts' : n \in DOMAIN alerts /\ alerts'[n] = alerts[n]
  BY RolledBack
<1>2. nevent \in Nat
  BY StorageAssumption DEF StoreInv, TypeOK
<1> QED
  BY <1>1, <1>2, PlacesShrink

\* A new event is in no place yet.
LEMMA InsertLogPlaces ==
  ASSUME StoreInv, UseInv, NEW w \in Worker, InsertLog(w)
  PROVE  UseInv'
<1> DEFINE e == nevent + 1
<1>1. /\ at[w] = "idle" /\ at' = [at EXCEPT ![w] = "stored"] /\ nevent' = e
      /\ cur' = [cur EXCEPT ![w] = [event |-> e, id |-> Len(logs) + 1]]
      /\ alerts' = alerts /\ UNCHANGED <<fired, hits>>
  BY DEF InsertLog, Goto, CommitAs
<1>2. nevent \in Nat
  BY StorageAssumption DEF StoreInv, TypeOK
<1>3. at \in [Worker -> {"idle", "stored", "firing", "recover", "checked"}]
      /\ cur \in [Worker -> Hit \cup {NoHit}]
  BY DEF StoreInv, TypeOK
<1>4. e \notin 1..nevent /\ 1..nevent \subseteq 1..e /\ e \in 1..e
  BY <1>2
<1> HIDE DEF e
<1>5. Fresh(w)' = {e} /\ \A v \in Worker \ {w} : Fresh(v)' = Fresh(v)
  BY <1>1, <1>3 DEF Fresh
<1>6. Received'
  BY <1>1, <1>4, <1>5 DEF UseInv, Received
<1>7. OnePlace'
  <2>1. OneOfHits'
    BY <1>1, <1>4, <1>5 DEF UseInv, OnePlace, Received, Disjoint, OneOfHits, OneOfWorkers
  <2>2. OneOfWorkers'
    BY <1>1, <1>4, <1>5 DEF UseInv, OnePlace, Received, Disjoint, OneOfWorkers, OneOfHits
  <2>3. OneOfAlert'
    BY <1>1, <1>4, <1>5 DEF UseInv, OnePlace, Received, Disjoint, OneOfAlert, OneOfHits, OneOfWorkers, OneOfAlerts
  <2>4. OneOfAlerts'
    BY <1>1, <1>4, <1>5 DEF UseInv, OnePlace, Received, Disjoint, OneOfAlerts, OneOfAlert
  <2> QED
    BY <2>1, <2>2, <2>3, <2>4 DEF OnePlace
<1> QED
  BY <1>6, <1>7 DEF UseInv

\* The event joins the hits of the rule, or the burst it completes; only the
\* engine's lock keeps two workers from handing over the same hits.
LEMMA EvaluatePlaces ==
  ASSUME StoreInv, UseInv, NEW w \in Worker, Evaluate(w)
  PROVE  UseInv'
<1>1. /\ at[w] = "stored" /\ cur[w] \in Hit /\ UNCHANGED <<alerts, nevent, cur>>
      /\ hits \in Seq(Hit) /\ fired \in [Worker -> Seq(Hit)]
      /\ at \in [Worker -> {"idle", "stored", "firing", "recover", "checked"}]
      /\ at' \in {[at EXCEPT ![w] = "checked"], [at EXCEPT ![w] = "firing"]}
  BY DEF StoreInv, TypeOK, CurOK, Evaluate, Goto, tables
<1>2. /\ Fresh(w) = {cur[w].event} /\ Fresh(w)' = {}
      /\ \A v \in Worker \ {w} : Fresh(v)' = Fresh(v)
  BY <1>1 DEF Fresh
<1>3. CASE UNCHANGED <<fired, hits>>
  <2>1. nevent \in Nat /\ nevent <= nevent
    BY StorageAssumption DEF StoreInv, TypeOK
  <2> QED
    BY <1>1, <1>2, <1>3, <2>1, PlacesShrink
<1>4. ASSUME NEW k \in 0..Len(hits)
      PROVE  EventsOf(Append(SubSeq(hits, k + 1, Len(hits)), cur[w])) \subseteq EventsOf(hits) \cup Fresh(w)
  <2>1. SubSeq(hits, k + 1, Len(hits)) \in Seq(Hit)
    BY <1>1, Suffix
  <2>2. EventsOf(Append(SubSeq(hits, k + 1, Len(hits)), cur[w]))
          = EventsOf(SubSeq(hits, k + 1, Len(hits))) \cup {cur[w].event}
    BY <1>1, <2>1, EventsFacts
  <2>3. EventsOf(SubSeq(hits, k + 1, Len(hits))) \subseteq EventsOf(hits)
    BY <1>1, EventsFacts
  <2> QED
    BY <1>2, <2>2, <2>3
<1>5. ASSUME NEW burst, EventsOf(burst) \subseteq EventsOf(hits) \cup Fresh(w),
             hits' = burst, fired' = fired
      PROVE  UseInv'
  <2>1. OnePlace'
    <3>1. OneOfHits'
      BY SMTT(60), <1>1, <1>2, <1>5 DEF UseInv, OnePlace, Received, Disjoint, OneOfHits, OneOfWorkers
    <3>2. OneOfWorkers'
      BY ZenonT(60), <1>1, <1>2, <1>5 DEF UseInv, OnePlace, Received, Disjoint, OneOfWorkers, OneOfHits
    <3>3. OneOfAlert'
      <4>1. SUFFICES ASSUME NEW n \in DOMAIN alerts, NEW v \in Worker
                     PROVE  /\ Disjoint(EventsOf(alerts[n]), EventsOf(burst))
                            /\ Disjoint(EventsOf(alerts[n]), Fresh(v)')
                            /\ Disjoint(EventsOf(alerts[n]), EventsOf(fired[v]))
        BY <1>1, <1>5 DEF OneOfAlert
      <4>2. /\ EventsOf(alerts[n]) \cap EventsOf(hits) = {}
            /\ EventsOf(alerts[n]) \cap Fresh(w) = {}
            /\ EventsOf(alerts[n]) \cap Fresh(v) = {}
            /\ EventsOf(alerts[n]) \cap EventsOf(fired[v]) = {}
        BY DEF UseInv, OnePlace, OneOfAlert, Disjoint
      <4>3. Fresh(v)' = {} \/ Fresh(v)' = Fresh(v)
        BY <1>2
      <4> QED
        BY <1>5, <4>2, <4>3 DEF Disjoint
    <3>4. OneOfAlerts'
      BY <1>1, <1>2, <1>5 DEF UseInv, OnePlace, Received, Disjoint, OneOfAlerts, OneOfAlert
    <3> QED
      BY <3>1, <3>2, <3>3, <3>4 DEF OnePlace
  <2>2. Received'
    BY <1>1, <1>2, <1>5 DEF UseInv, Received
  <2> QED
    BY <2>1, <2>2 DEF UseInv
<1>6. ASSUME NEW burst, EventsOf(burst) \subseteq EventsOf(hits) \cup Fresh(w),
             hits' = <<>>, fired' = [fired EXCEPT ![w] = burst]
      PROVE  UseInv'
  <2>1. EventsOf(hits') = {} /\ fired'[w] = burst /\ \A v \in Worker \ {w} : fired'[v] = fired[v]
    BY <1>1, <1>6, EventsFacts
  <2>2. OnePlace'
    <3>1. OneOfHits'
      BY <1>1, <1>2, <1>6, <2>1 DEF UseInv, OnePlace, Received, Disjoint, OneOfHits, OneOfWorkers
    <3>2. OneOfWorkers'
      BY <1>1, <1>2, <1>6, <2>1 DEF UseInv, OnePlace, Received, Disjoint, OneOfWorkers, OneOfHits
    <3>3. OneOfAlert'
      <4>1. SUFFICES ASSUME NEW n \in DOMAIN alerts, NEW v \in Worker
                     PROVE  /\ Disjoint(EventsOf(alerts[n]), {})
                            /\ Disjoint(EventsOf(alerts[n]), Fresh(v)')
                            /\ Disjoint(EventsOf(alerts[n]), EventsOf(fired'[v]))
        BY <1>1, <2>1 DEF OneOfAlert, Disjoint
      <4>2. /\ EventsOf(alerts[n]) \cap EventsOf(hits) = {}
            /\ EventsOf(alerts[n]) \cap Fresh(w) = {}
            /\ EventsOf(alerts[n]) \cap Fresh(v) = {}
            /\ EventsOf(alerts[n]) \cap EventsOf(fired[v]) = {}
        BY DEF UseInv, OnePlace, OneOfAlert, Disjoint
      <4>3. CASE v = w
        BY <1>2, <1>6, <2>1, <4>2, <4>3 DEF Disjoint
      <4>4. CASE v # w
        BY <1>2, <2>1, <4>2, <4>4 DEF Disjoint
      <4> QED
        BY <4>3, <4>4
    <3>4. OneOfAlerts'
      BY <1>1, <1>2, <1>6, <2>1 DEF UseInv, OnePlace, Received, Disjoint, OneOfAlerts, OneOfAlert
    <3> QED
      BY <3>1, <3>2, <3>3, <3>4 DEF OnePlace
  <2>3. Received'
    BY <1>1, <1>2, <1>6, <2>1 DEF UseInv, Received
  <2> QED
    BY <2>2, <2>3 DEF UseInv
<1> QED
  BY <1>3, <1>4, <1>5, <1>6 DEF Evaluate, Remaining

\* The burst becomes an alert, or is dropped when the INSERT fails.
LEMMA InsertAlertPlaces ==
  ASSUME StoreInv, UseInv, NEW w \in Worker, InsertAlert(w) \/ InsertAlertFails(w)
  PROVE  UseInv'
<1>1. /\ at[w] = "firing" /\ fired' = [fired EXCEPT ![w] = <<>>]
      /\ alerts' \in {alerts, Append(alerts, fired[w])}
      /\ UNCHANGED <<hits, nevent, cur>>
      /\ at' \in {[at EXCEPT ![w] = "checked"], [at EXCEPT ![w] = "recover"]}
  BY DEF InsertAlert, InsertAlertFails, Goto, CommitAs
<1>2. /\ fired \in [Worker -> Seq(Hit)] /\ alerts \in Seq(Seq(Hit))
      /\ at \in [Worker -> {"idle", "stored", "firing", "recover", "checked"}]
  BY DEF StoreInv, TypeOK
<1>3. \A v \in Worker : Fresh(v)' = Fresh(v)
  BY <1>1, <1>2 DEF Fresh
<1>4. EventsOf(fired'[w]) = {} /\ \A v \in Worker \ {w} : fired'[v] = fired[v]
  BY <1>1, <1>2, EventsFacts
<1>5. ASSUME NEW n \in DOMAIN alerts'
      PROVE  \/ n \in DOMAIN alerts /\ alerts'[n] = alerts[n]
             \/ n \notin DOMAIN alerts /\ alerts'[n] = fired[w] /\ n = Len(alerts) + 1
  <2>1. CASE alerts' = alerts
    BY <2>1
  <2>2. CASE alerts' = Append(alerts, fired[w])
    <3>1. /\ DOMAIN alerts' = 1..(Len(alerts) + 1) /\ DOMAIN alerts = 1..Len(alerts)
          /\ Len(alerts) \in Nat
          /\ \A i \in 1..Len(alerts) : alerts'[i] = alerts[i]
          /\ alerts'[Len(alerts) + 1] = fired[w]
      BY <1>2, <2>2, Appended
    <3>2. n \in 1..Len(alerts) \/ n = Len(alerts) + 1
      BY <3>1
    <3>3. Len(alerts) + 1 \notin 1..Len(alerts)
      BY <3>1
    <3> QED
      BY <3>1, <3>2, <3>3
  <2> QED
    BY <1>1, <2>1, <2>2
<1>6. Received'
  BY <1>1, <1>3, <1>4, <1>5 DEF UseInv, Received
<1>7. OnePlace'
  <2>1. OneOfHits'
    BY <1>1, <1>3, <1>4, <1>5 DEF UseInv, OnePlace, Received, Disjoint, OneOfHits, OneOfWorkers
  <2>2. OneOfWorkers'
    BY <1>1, <1>3, <1>4, <1>5 DEF UseInv, OnePlace, Received, Disjoint, OneOfWorkers, OneOfHits
  <2>3. OneOfAlert'
    <3>1. SUFFICES ASSUME NEW n \in DOMAIN alerts', NEW v \in Worker
                   PROVE  /\ Disjoint(EventsOf(alerts'[n]), EventsOf(hits))
                          /\ Disjoint(EventsOf(alerts'[n]), Fresh(v))
                          /\ Disjoint(EventsOf(alerts'[n]), EventsOf(fired'[v]))
      BY <1>1, <1>3 DEF OneOfAlert
    <3>2. CASE n \in DOMAIN alerts /\ alerts'[n] = alerts[n]
      <4>1. /\ EventsOf(alerts[n]) \cap EventsOf(hits) = {}
            /\ EventsOf(alerts[n]) \cap Fresh(v) = {}
            /\ EventsOf(alerts[n]) \cap EventsOf(fired[v]) = {}
        BY <3>2 DEF UseInv, OnePlace, OneOfAlert, Disjoint
      <4>2. EventsOf(fired'[v]) = {} \/ fired'[v] = fired[v]
        BY <1>4
      <4> QED
        BY <3>2, <4>1, <4>2 DEF Disjoint
    <3>3. CASE alerts'[n] = fired[w]
      <4>1. /\ EventsOf(fired[w]) \cap EventsOf(hits) = {}
            /\ EventsOf(fired[w]) \cap Fresh(v) = {}
            /\ v # w => EventsOf(fired[w]) \cap EventsOf(fired[v]) = {}
        BY DEF UseInv, OnePlace, OneOfHits, OneOfWorkers, Disjoint
      <4>2. EventsOf(fired'[v]) = {} \/ (v # w /\ fired'[v] = fired[v])
        BY <1>4
      <4> QED
        BY <3>3, <4>1, <4>2 DEF Disjoint
    <3> QED
      BY <1>5, <3>2, <3>3
  <2>4. OneOfAlerts'
    BY <1>1, <1>3, <1>4, <1>5 DEF UseInv, OnePlace, Received, Disjoint, OneOfAlerts, OneOfAlert
  <2> QED
    BY <2>1, <2>2, <2>3, <2>4 DEF OnePlace
<1> QED
  BY <1>6, <1>7 DEF UseInv

LEMMA NextUse == StoreInv /\ UseInv /\ [Next]_vars => UseInv'
<1> SUFFICES ASSUME StoreInv, UseInv, [Next]_vars PROVE UseInv'
  OBVIOUS
<1>1. nevent \in Nat /\ nevent <= nevent
  BY StorageAssumption DEF StoreInv, TypeOK
<1>2. ASSUME NEW w \in Worker, InsertLogFails(w) PROVE UseInv'
  <2>1. nevent' = nevent + 1 /\ Rollback /\ UNCHANGED <<cur, fired, hits>>
        /\ at[w] = "idle" /\ at' = [at EXCEPT ![w] = "idle"]
    BY <1>2 DEF InsertLogFails, Goto
  <2>2. \A v \in Worker : Fresh(v)' = Fresh(v)
    BY <2>1 DEF Fresh, StoreInv, TypeOK
  <2>3. nevent' \in Nat /\ nevent <= nevent'
    BY <1>1, <2>1
  <2> QED
    BY <2>1, <2>2, <2>3, RolledBackPlaces
<1>3. ASSUME NEW w \in Worker, Recover(w) PROVE UseInv'
  <2>1. Rollback /\ UNCHANGED <<nevent, cur, fired, hits>>
        /\ at[w] = "recover" /\ at' = [at EXCEPT ![w] = "checked"]
    BY <1>3 DEF Recover, Goto
  <2>2. \A v \in Worker : Fresh(v)' = Fresh(v)
    BY <2>1 DEF Fresh, StoreInv, TypeOK
  <2> QED
    BY <1>1, <2>1, <2>2, RolledBackPlaces
<1>4. ASSUME NEW w \in Worker, Count(w) PROVE UseInv'
  <2>1. UNCHANGED <<nevent, fired, hits, alerts>>
        /\ at[w] = "checked" /\ at' = [at EXCEPT ![w] = "idle"]
        /\ cur' = [cur EXCEPT ![w] = NoHit]
    BY <1>4 DEF Count, Goto, tables
  <2>2. \A v \in Worker : Fresh(v)' = Fresh(v)
    BY <2>1 DEF Fresh, StoreInv, TypeOK
  <2> QED
    BY <1>1, <2>1, <2>2, PlacesShrink
<1>5. CASE Flush \/ FlushFails \/ Stop \/ UNCHANGED vars
  <2>1. UNCHANGED <<nevent, at, cur, fired, hits>> /\ (UNCHANGED alerts \/ Rollback)
    BY <1>5 DEF Flush, FlushFails, Stop, CommitAs, vars, tables, workers
  <2>2. \A v \in Worker : Fresh(v)' = Fresh(v)
    BY <2>1 DEF Fresh
  <2> QED
    BY <1>1, <2>1, <2>2, PlacesShrink, RolledBackPlaces
<1>6. CASE Restart
  <2>1. UNCHANGED nevent /\ Rollback /\ at' = [w \in Worker |-> "idle"]
        /\ fired' = [w \in Worker |-> <<>>] /\ hits' = <<>>
    BY <1>6 DEF Restart
  <2>2. \A v \in Worker : Fresh(v)' = {} /\ EventsOf(fired'[v]) = {}
    BY <2>1, EventsFacts DEF Fresh
  <2>3. EventsOf(hits') = {}
    BY <2>1, EventsFacts
  <2> QED
    BY <1>1, <2>1, <2>2, <2>3, RolledBackPlaces
<1> QED
  BY <1>2, <1>3, <1>4, <1>5, <1>6, InsertLogPlaces, EvaluatePlaces, InsertAlertPlaces
  DEF Next, WorkerStep

\* A hit belongs to one alert at most, whatever the workers interleave and
\* whatever fails between handing a burst over and storing its alert.
THEOREM HitsUsedOnceHolds == Spec => []HitsUsedOnce
<1>1. Init => UseInv
  <2> SUFFICES ASSUME Init PROVE UseInv
    OBVIOUS
  <2>1. /\ EventsOf(hits) = {} /\ DOMAIN alerts = {}
        /\ \A w \in Worker : Fresh(w) = {} /\ EventsOf(fired[w]) = {}
    BY EventsFacts DEF Init, Fresh
  <2> QED
    BY <2>1 DEF UseInv, OnePlace, OneOfHits, OneOfWorkers, OneOfAlert, OneOfAlerts, Received, Disjoint
<1>2. UseInv => HitsUsedOnce
  BY DEF UseInv, OnePlace, OneOfAlerts, Disjoint, EventsOf, HitsUsedOnce
<1> QED
  BY <1>1, <1>2, NextUse, StoreAlways, PTL DEF Spec
=============================================================================
