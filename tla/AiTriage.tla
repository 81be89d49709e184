------------------------------ MODULE AiTriage ------------------------------
(***************************************************************************)
(* ai_worker.py: the auto-triage workers of the dashboard processes, which *)
(* take pending alerts to the model one after the other under a lease of   *)
(* 60 s, and the queue endpoints of web_blueprints/ai.py.  The model       *)
(* answers or fails; an alert of a rule and source of which one of the last  *)
(* six hours was analysed before is answered with a copy, unless the       *)
(* setting dedup_groups is off.                                            *)
(***************************************************************************)
EXTENDS Naturals, FiniteSets, FiniteSetsExt

CONSTANTS Triagers,     \* dashboard processes
          TriageAlerts, \* alerts, 1..n in id order
          TwinOf,       \* alert -> its rule and source
          TooMinor,     \* alerts below the minimum severity, or too old
          NoSource,     \* alerts without a source address
          DedupGroups,  \* the setting dedup_groups
          TriageBackends,
          MaxAttempts,  \* max_attempts
          MaxAdmin,     \* bound on the requests to the queue endpoints
          MaxTrouble    \* bound on crashes, update errors and late cycles
ASSUME TriageAssumption == /\ MaxAttempts \in Nat \ {0} /\ "free" \notin Triagers
                           /\ TriageAlerts \subseteq Nat /\ DedupGroups \in BOOLEAN

VARIABLES
  triageDb,  \* the backend
  aiStatus,  \* alerts.ai_status, "none" before the alert exists
  attempts,  \* alerts.ai_attempts
  aged,      \* alerts whose created_at is more than six hours ago
  triager,   \* per worker: [at, batch, tries]; the batch is what it has left
  triaging,  \* owner of the lease "ai-triage", or "free"
  answered,  \* history: answers the model gave for an alert (2: two or more)
  failed,    \* history: failed calls for an alert, up to MaxAttempts
  admin, trouble
triageVars == <<triageDb, aiStatus, attempts, aged, triager, triaging, answered, failed,
                admin, trouble>>

Off == [at |-> "idle", batch |-> {}, tries |-> [a \in TriageAlerts |-> 0]]
TriageInit ==
  /\ triageDb \in TriageBackends
  /\ aiStatus = [a \in TriageAlerts |-> "none"]
  /\ attempts = [a \in TriageAlerts |-> 0] /\ aged = {}
  /\ triager = [w \in Triagers |-> Off] /\ triaging = "free"
  /\ answered = [a \in TriageAlerts |-> 0] /\ failed = [a \in TriageAlerts |-> 0]
  /\ admin = 0 /\ trouble = 0

\* the listener writes alerts in id order
Raised(a) ==
  /\ aiStatus[a] = "none" /\ \A b \in TriageAlerts : b < a => aiStatus[b] # "none"
  /\ aiStatus' = [aiStatus EXCEPT ![a] = "pending"]
  /\ UNCHANGED <<triageDb, aged, attempts, triager, triaging, answered, failed, admin, trouble>>
\* six hours pass: the oldest alerts are the first to be too old for a copy
Ages(a) ==
  /\ aiStatus[a] # "none" /\ a \notin aged
  /\ \A b \in TriageAlerts : b < a => b \in aged
  /\ aged' = aged \cup {a}
  /\ UNCHANGED <<triageDb, aiStatus, attempts, triager, triaging, answered, failed, admin, trouble>>

\* _cycle and the SELECT of run_once
Queue == {a \in TriageAlerts : aiStatus[a] = "pending" /\ attempts[a] < MaxAttempts}
Drain(w) ==
  /\ triager[w].at = "idle" /\ triaging \in {w, "free"} /\ triaging' = w
  /\ Queue # {}
  /\ triager' = [triager EXCEPT ![w] = [at |-> "next", batch |-> Queue, tries |-> attempts]]
  /\ UNCHANGED <<triageDb, aged, aiStatus, attempts, answered, failed, admin, trouble>>

Chosen(w) == Min(triager[w].batch)
Finish(w, status) ==
  /\ aiStatus' = [aiStatus EXCEPT ![Chosen(w)] = status]
  /\ triager' = [triager EXCEPT ![w] = IF @.batch = {Chosen(w)} THEN Off
                   ELSE [@ EXCEPT !.at = "next", !.batch = triager[w].batch \ {Chosen(w)}]]
TwinOwn(a) == aiStatus[a] = "done"
Twin(a) == /\ DedupGroups
           /\ \E b \in TriageAlerts \ aged : TwinOf[b] = TwinOf[a] /\ aiStatus[b] = "done"
Next_alert(w) == triager[w].at = "next"
\* the look for a twin: "source_ip IS ?" is no SQL to PostgreSQL when there is
\* an address.  The error is caught, but not rolled back: the transaction has
\* failed, so the model is not asked, the record of that raises as well, and
\* the cycle ends
Comparable(w) == ~DedupGroups \/ triageDb = "sqlite" \/ Chosen(w) \in NoSource
LookUpRaises(w) ==
  /\ Next_alert(w) /\ Chosen(w) \notin TooMinor /\ ~Comparable(w)
  /\ triager' = [triager EXCEPT ![w] = Off]
  /\ UNCHANGED <<triageDb, aged, aiStatus, attempts, triaging, answered, failed, admin, trouble>>
Skip(w) ==
  /\ Next_alert(w) /\ Chosen(w) \in TooMinor
  /\ Finish(w, "skipped")
  /\ UNCHANGED <<triageDb, aged, attempts, triaging, answered, failed, admin, trouble>>
Reuse(w) ==
  /\ Next_alert(w) /\ Chosen(w) \notin TooMinor /\ Comparable(w) /\ Twin(Chosen(w))
  /\ Finish(w, "done")
  /\ UNCHANGED <<triageDb, aged, attempts, triaging, answered, failed, admin, trouble>>
\* run_progressive_triage: up to three calls, with retries
Ask(w) ==
  /\ Next_alert(w) /\ Chosen(w) \notin TooMinor /\ Comparable(w) /\ ~Twin(Chosen(w))
  /\ \E outcome \in {"answer", "failure"} :
       triager' = [triager EXCEPT ![w].at = outcome]
  /\ answered' = IF triager'[w].at = "answer"
                 THEN [answered EXCEPT ![Chosen(w)] = Min({2, @ + 1})] ELSE answered
  /\ failed' = IF triager'[w].at = "failure"
               THEN [failed EXCEPT ![Chosen(w)] = Min({MaxAttempts, @ + 1})] ELSE failed
  /\ UNCHANGED <<triageDb, aged, aiStatus, attempts, triaging, admin, trouble>>
StoreAnswer(w) ==
  /\ triager[w].at = "answer" /\ Finish(w, "done")
  /\ UNCHANGED <<triageDb, aged, attempts, triaging, answered, failed, admin, trouble>>
\* a failure ends the cycle; attempts counts from what the SELECT read
Tried(w) == triager[w].tries[Chosen(w)] + 1
StoreFailure(w) ==
  /\ triager[w].at = "failure"
  /\ attempts' = [attempts EXCEPT ![Chosen(w)] = Tried(w)]
  /\ aiStatus' = [aiStatus EXCEPT ![Chosen(w)] =
                    IF Tried(w) >= MaxAttempts THEN "error" ELSE "pending"]
  /\ triager' = [triager EXCEPT ![w] = Off]
  /\ UNCHANGED <<triageDb, aged, triaging, answered, failed, admin, trouble>>

\* the UPDATE of an answer raises: the except branch records a failure
StoreRaises(w) ==
  /\ triager[w].at = "answer" /\ trouble < MaxTrouble /\ trouble' = trouble + 1
  /\ triager' = [triager EXCEPT ![w].at = "failure"]
  /\ failed' = [failed EXCEPT ![Chosen(w)] = Min({MaxAttempts, @ + 1})]
  /\ UNCHANGED <<triageDb, aged, aiStatus, attempts, triaging, answered, admin>>
\* the process dies and is started again, or its cycle is late
Trip(w) ==
  /\ triager[w].at # "idle" /\ trouble < MaxTrouble /\ trouble' = trouble + 1
  /\ triager' = [triager EXCEPT ![w] = Off]
  /\ UNCHANGED <<triageDb, aged, aiStatus, attempts, triaging, answered, failed, admin>>
LoseLease(w) ==
  /\ triaging = w /\ triaging' = "free"
  /\ \/ triager[w].at = "idle" /\ trouble' = trouble
     \/ trouble < MaxTrouble /\ trouble' = trouble + 1
  /\ UNCHANGED <<triageDb, aged, aiStatus, attempts, triager, answered, failed, admin>>

\* POST /api/ai/queue/retry and /api/ai/queue/clear
Again == {a \in TriageAlerts : aiStatus[a] \in {"pending", "error", "skipped"}}
Retry ==
  /\ admin < MaxAdmin /\ admin' = admin + 1
  /\ aiStatus' = [a \in TriageAlerts |-> IF a \in Again THEN "pending" ELSE aiStatus[a]]
  /\ attempts' = [a \in TriageAlerts |-> IF a \in Again THEN 0 ELSE attempts[a]]
  /\ UNCHANGED <<triageDb, aged, triager, triaging, answered, failed, trouble>>
Clear ==
  /\ admin < MaxAdmin /\ admin' = admin + 1
  /\ aiStatus' = [a \in TriageAlerts |->
                    IF aiStatus[a] \in {"pending", "error"} THEN "skipped" ELSE aiStatus[a]]
  /\ UNCHANGED <<triageDb, aged, attempts, triager, triaging, answered, failed, trouble>>

TriagerStep(w) == \/ Drain(w) \/ LookUpRaises(w) \/ Skip(w) \/ Reuse(w) \/ Ask(w)
                  \/ StoreAnswer(w) \/ StoreFailure(w)
TriageNext ==
  \/ \E a \in TriageAlerts : Raised(a) \/ Ages(a)
  \/ Retry \/ Clear
  \/ \E w \in Triagers : \/ TriagerStep(w) \/ StoreRaises(w) \/ Trip(w) \/ LoseLease(w)
TriageSpec == TriageInit /\ [][TriageNext]_triageVars
\* the loops go on, every 5 s
TriageFair == WF_triageVars(\E w \in Triagers : TriagerStep(w))

TriageTypeOK ==
  /\ triageDb \in TriageBackends
  /\ aiStatus \in [TriageAlerts -> {"none", "pending", "done", "skipped", "error"}]
  /\ attempts \in [TriageAlerts -> 0..MaxAttempts] /\ aged \subseteq TriageAlerts
  /\ \A w \in Triagers : /\ triager[w].at \in {"idle", "next", "answer", "failure"}
                         /\ triager[w].batch \subseteq TriageAlerts
                         /\ triager[w].tries \in [TriageAlerts -> 0..MaxAttempts]
  /\ triaging \in Triagers \cup {"free"} /\ answered \in [TriageAlerts -> 0..2]
  /\ failed \in [TriageAlerts -> 0..MaxAttempts]

(* "never sent to the AI twice": without trouble an alert is answered once, *)
(* and two of one rule and source only when copies are off, or one of them  *)
(* is more than six hours old.                                              *)
OneAnswerPerGroup ==
  \A a, b \in TriageAlerts : answered[a] > 0 /\ answered[b] > 0 /\ trouble = 0 =>
    /\ answered[a] = 1
    /\ a # b /\ TwinOf[a] = TwinOf[b] /\ DedupGroups => aged \cap {a, b} # {}
(* "retried up to max_attempts, then marked 'error'": late workers may set  *)
(* the count back, but an alert has not failed less often than it says.     *)
AttemptsHappened ==
  \A a \in TriageAlerts :
    /\ attempts[a] <= failed[a]
    /\ aiStatus[a] = "error" => failed[a] >= MaxAttempts
(* What the queue says of an alert is what the model did for it.            *)
TriageAccounted == OneAnswerPerGroup /\ AttemptsHappened
(* "one bad alert can't wedge the queue": every alert leaves the queue,     *)
(* unless one before it cannot be looked up on PostgreSQL.                  *)
Wedged(a) ==
  DedupGroups /\ triageDb = "postgres" /\ \E b \in Queue \ (TooMinor \cup NoSource) : b <= a
AlertsTriaged ==
  \A a \in TriageAlerts : []<>(aiStatus[a] # "pending" \/ Wedged(a))
(* "one bad alert can't wedge the queue": every alert leaves the queue.     *)
EveryAlertTriaged ==
  \A a \in TriageAlerts : []<>(aiStatus[a] # "pending")
=============================================================================
