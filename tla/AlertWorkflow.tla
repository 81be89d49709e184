--------------------------- MODULE AlertWorkflow ----------------------------
(***************************************************************************)
(* alert_workflow.py and the two endpoints of dashboard.py that change the *)
(* triage state of alerts.  A request reads the rows, checks every         *)
(* transition against what it read, and writes the rows and their history  *)
(* events in one transaction: other requests act between the read and the  *)
(* transaction, because the UPDATE does not compare.                       *)
(***************************************************************************)
EXTENDS Naturals, Sequences, FiniteSets, SequencesExt

CONSTANTS
  Alert,      \* alert ids
  Request,    \* requests that may be served at the same time
  Person,     \* assignees
  MaxEvents   \* bound of the model: history events before a request begins

ASSUME WorkflowAssumption == MaxEvents \in Nat

States == {"new", "acknowledged", "investigating", "resolved", "closed"}

\* A faulty variant: an alert may be closed without having been resolved.
TransitionsToClosed(s) ==
  CASE s = "new"           -> {"acknowledged", "investigating", "resolved", "closed"}
    [] s = "acknowledged"  -> {"investigating", "resolved"}
    [] s = "investigating" -> {"resolved"}
    [] s = "resolved"      -> {"closed", "investigating"}
    [] s = "closed"        -> {"investigating"}

Transitions(s) ==
  CASE s = "new"           -> {"acknowledged", "investigating", "resolved"}
    [] s = "acknowledged"  -> {"investigating", "resolved"}
    [] s = "investigating" -> {"resolved"}
    [] s = "resolved"      -> {"closed", "investigating"}
    [] s = "closed"        -> {"investigating"}

Unsupplied == "unsupplied"      \* a field the request's body does not have
Nobody == "nobody"

\* What a request asks for; a bulk request must ask for something.  Bound: a
\* note comes alone.  Beside an assignment it would change nothing, and beside
\* a status only add an event to alerts of a bulk request that have it already.
Body == {b \in [status : States \cup {Unsupplied},
                assignee : Person \cup {Nobody, Unsupplied},
                note : BOOLEAN] : b.note => b.assignee = Unsupplied /\ b.status = Unsupplied}

VARIABLES
  row,       \* row[a]: workflow_status and workflow_assignee
  history,   \* history[a]: its rows of alert_workflow_events, by id
  req,       \* req[r]: the body and the rows it has read, or Idle
  raced      \* the alerts that two requests were serving at the same time

vars == <<row, history, req, raced>>

Row == [status : States, assignee : Person \cup {Nobody}]
Event == [from : States, to : States, assignee : Person \cup {Nobody}]
NoBody == [status |-> Unsupplied, assignee |-> Unsupplied, note |-> FALSE]
Idle == [body |-> NoBody, ids |-> {}, read |-> <<>>]
Busy(r) == req[r].ids # {}

TypeOK ==
  /\ row \in [Alert -> Row]
  /\ history \in [Alert -> Seq(Event)]
  /\ raced \in SUBSET Alert
  /\ DOMAIN req = Request
  /\ \A r \in Request :
       /\ req[r].body \in Body
       /\ req[r].ids \in SUBSET Alert
       /\ req[r].read \in [req[r].ids -> Row]

Init ==
  /\ row = [a \in Alert |-> [status |-> "new", assignee |-> Nobody]]
  /\ history = [a \in Alert |-> <<>>]
  /\ req = [r \in Request |-> Idle]
  /\ raced = {}
-----------------------------------------------------------------------------
WithinBound == MapThenSumSet(LAMBDA a : Len(history[a]), Alert) < MaxEvents

Begin(r, b, ids) ==
  /\ ~Busy(r) /\ WithinBound
  /\ req' = [req EXCEPT ![r] = [body |-> b, ids |-> ids, read |-> [a \in ids |-> row[a]]]]
  /\ raced' = raced \cup (ids \cap UNION {req[q].ids : q \in Request})
  /\ UNCHANGED <<row, history>>

\* SELECT * FROM alerts WHERE id=?
ReadOne(r, b, a) == Begin(r, b, {a})

\* SELECT * FROM alerts WHERE id IN (..)
ReadMany(r, b, ids) == b # NoBody /\ ids # {} /\ Begin(r, b, ids)

Target(b, old) == IF b.status = Unsupplied THEN old.status ELSE b.status

\* A faulty variant: a move that is not allowed is made all the same.
ValidAlways(b, old) == TRUE

\* validate_transition
Valid(b, old) == Target(b, old) = old.status \/ Target(b, old) \in Transitions(old.status)

\* The row that is written: every column, those not supplied as they were read.
Written(b, old) ==
  [status |-> Target(b, old),
   assignee |-> IF b.assignee = Unsupplied THEN old.assignee ELSE b.assignee]

\* A faulty variant: only a note or an assignment is worth an event.
EventsOfNotesOnly(b, old) ==
  IF b.assignee # Unsupplied \/ b.note
  THEN <<[from |-> old.status, to |-> Target(b, old),
          assignee |-> Written(b, old).assignee]>>
  ELSE <<>>

\* The event that is recorded, if there is one.
EventsOf(b, old) ==
  IF Target(b, old) # old.status \/ b.assignee # Unsupplied \/ b.note
  THEN <<[from |-> old.status, to |-> Target(b, old),
          assignee |-> Written(b, old).assignee]>>
  ELSE <<>>

\* _apply_alert_workflow for each row that was read and may make the move, and
\* the commit; the alerts that may not are skipped (409 for a single alert).
Apply(r) ==
  /\ Busy(r)
  /\ LET b == req[r].body
         old == req[r].read
         moved == {a \in req[r].ids : Valid(b, old[a])}
     IN  /\ row' = [a \in Alert |-> IF a \in moved THEN Written(b, old[a]) ELSE row[a]]
         /\ history' = [a \in Alert |-> IF a \in moved
                                        THEN history[a] \o EventsOf(b, old[a])
                                        ELSE history[a]]
  /\ req' = [req EXCEPT ![r] = Idle]
  /\ raced' = raced

\* The database fails (or breaks a deadlock of two bulk requests): rollback.
Abort(r) ==
  /\ Busy(r)
  /\ req' = [req EXCEPT ![r] = Idle]
  /\ UNCHANGED <<row, history, raced>>

Next ==
  \E r \in Request :
    \/ \E b \in Body, a \in Alert : ReadOne(r, b, a)
    \/ \E b \in Body, ids \in SUBSET Alert : ReadMany(r, b, ids)
    \/ Apply(r)
    \/ Abort(r)

Spec == Init /\ [][Next]_vars
-----------------------------------------------------------------------------
(***************************************************************************)
(* Properties.                                                             *)
(***************************************************************************)
\* Whatever requests overlap, an alert is closed only after somebody has
\* resolved it, and the history shows who did.
ClosedWasResolved ==
  \A a \in Alert :
    LET resolvedBefore(n) == \E k \in 1..(n - 1) : history[a][k].to = "resolved"
    IN  /\ row[a].status = "closed" => resolvedBefore(Len(history[a]) + 1)
        /\ \A n \in DOMAIN history[a] :
             history[a][n].to = "closed" => resolvedBefore(n)

LegalHistory(a) ==
  \A n \in DOMAIN history[a] :
    LET state == IF n = 1 THEN "new" ELSE history[a][n - 1].to
    IN  history[a][n].to \in {state} \cup Transitions(state)

\* An alert that no two requests served at the same time has made only moves
\* that its state allowed, and its history is the whole story: the last event
\* says the state and the person the alert has now ("append-only workflow
\* history", ALERT_LIFECYCLE.md:33).
AloneIsTold ==
  \A a \in Alert \ raced :
    /\ LegalHistory(a)
    /\ IF history[a] = <<>>
       THEN row[a] = [status |-> "new", assignee |-> Nobody]
       ELSE row[a] = [status |-> Last(history[a]).to,
                      assignee |-> Last(history[a]).assignee]

\* Every move is one that the state the alert was in allows: "alerts that cannot make the
\* requested move are skipped and reported, not forced" (dashboard.py:1778-1779).
NeverForced == \A a \in Alert : LegalHistory(a)
=============================================================================
