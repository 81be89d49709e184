------------------------------ MODULE MCServices ------------------------------
(* The background services of the dashboard and the ingest processes, side   *)
(* by side: a behaviour is one of the service that is active, the others     *)
(* rest in an initial state.  Each has the fairness of its module.           *)
EXTENDS ReportSchedule, AiTriage, DashboardExport, ThreatFeeds, TLC

CONSTANT Active         \* the services that are checked
VARIABLE active
svcVars == <<active, reportVars, triageVars, exportVars, feedVars>>

Twins == 1 :> "g" @@ 2 :> "g" @@ 3 :> "h"
FeedTexts == <<{"i1"}, {"i1"}>>
VersionsOf == <<2, 1>>
\* bound: the second change of the first record, or a failed request, not both
Unrest == source[1] + aborts <= 2
\* bound: a behaviour in which a number was given twice, of which the properties
\* of the export say nothing more, is not followed
Followed == ~reissued
\* bound: the alerts that get old; on PostgreSQL no alert here finds another
Ageing == aged \subseteq {1} /\ (aged # {} => triageDb = "sqlite")

\* all but the service x rest
Alone(x) ==
  /\ active = x /\ UNCHANGED active
  /\ x # "report" => UNCHANGED reportVars
  /\ x # "triage" => UNCHANGED triageVars
  /\ x # "export" => UNCHANGED exportVars
  /\ x # "feeds" => UNCHANGED feedVars

InitServices == /\ active \in Active /\ ReportInit /\ TriageInit /\ ExportInit /\ FeedInit
                /\ active # "feeds" => due = {}
                /\ active # "triage" => triageDb = "sqlite"
NextServices == \/ Alone("report") /\ ReportNext
                \/ Alone("triage") /\ TriageNext /\ Ageing'
                \/ Alone("export") /\ Followed /\ ExportNext /\ Unrest'
                \/ Alone("feeds") /\ FeedNext
Fairness ==
  /\ WF_svcVars(Alone("report") /\ \E s \in Schedulers : SchedulerStep(s))
  /\ WF_svcVars(Alone("triage") /\ \E w \in Triagers : TriagerStep(w))
  /\ \A r \in Readers : WF_svcVars(Alone("export") /\ ReaderStep(r))
  /\ WF_svcVars(Alone("feeds") /\ \E p \in Fetchers : FetchStep(p))
  /\ WF_svcVars(Alone("feeds") /\ LeaseLapses /\ UNCHANGED slips)
SpecServices == InitServices /\ [][NextServices]_svcVars /\ Fairness

(* The type invariants of all the services.                                 *)
ServiceTypes == ReportTypeOK /\ TriageTypeOK /\ ExportTypeOK /\ FeedTypeOK
(* Every service gets its work done: findings are alerted, alerts  *)
(* triaged, readers of the export up to date, feeds refreshed.              *)
ServicesWork == /\ FindingsAlerted /\ AlertsTriaged
                /\ MirrorConverges /\ FeedsGetTheirTurn
=============================================================================
