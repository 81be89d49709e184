---------------------------- MODULE Alerts_proof -----------------------------
(***************************************************************************)
(* Proofs about what becomes of findings, alerts, sources and events: the  *)
(* analysts' requests, the linking of findings, the archive, the relay and *)
(* the silence of sources, for any processes, alerts, events and bounds.   *)
(***************************************************************************)
EXTENDS AlertWorkflow, DetectionEmit, Telemetry, Archive, Forwarder, Sums, TLAPS

(***************************************************************************)
(* AlertWorkflow.                                                          *)
(***************************************************************************)
WasResolved(h) == \E k \in DOMAIN h : h[k].to = "resolved"

\* Each event that closes comes after one that resolves.
ClosesLate(h) ==
  \A n \in DOMAIN h : h[n].to = "closed" => \E k \in 1..(n - 1) : h[k].to = "resolved"

Ripe(status) == status \in {"resolved", "closed"}

\* What makes ClosedWasResolved inductive: it holds of the rows that requests
\* have read as well, because that is what they act on.
ResolvedInv ==
  /\ TypeOK
  /\ \A a \in Alert : ClosesLate(history[a])
  /\ \A a \in Alert : Ripe(row[a].status) => WasResolved(history[a])
  /\ \A r \in Request : \A a \in req[r].ids :
       Ripe(req[r].read[a].status) => WasResolved(history[a])
-----------------------------------------------------------------------------
\* What a request writes has the type of a row, and so has its event.
LEMMA WrittenType ==
  ASSUME NEW b \in Body, NEW old \in Row
  PROVE  /\ Written(b, old) \in Row
         /\ Written(b, old).status = Target(b, old)
         /\ \/ EventsOf(b, old) = <<>>
            \/ \E e \in Event : EventsOf(b, old) = <<e>> /\ e.to = Target(b, old)
         /\ EventsOf(b, old) \in Seq(Event)
<1>1. Target(b, old) \in States
  BY DEF Target, Body, Row
<1>2. Written(b, old).assignee \in Person \cup {Nobody}
  BY DEF Written, Body, Row
<1>3. Written(b, old) \in Row /\ Written(b, old).status = Target(b, old)
  BY <1>1, <1>2 DEF Written, Row
<1>4. [from |-> old.status, to |-> Target(b, old), assignee |-> Written(b, old).assignee]
        \in Event
  BY <1>1, <1>2 DEF Event, Row
<1>5. QED
  BY <1>3, <1>4 DEF EventsOf

\* An alert becomes `closed' only from `resolved' or `closed', and an event says
\* so when it becomes `resolved'.
LEMMA RipeMoves ==
  ASSUME NEW b \in Body, NEW old \in Row, Valid(b, old), Ripe(Target(b, old))
  PROVE  \/ Ripe(old.status)
         \/ Target(b, old) = "resolved" /\ EventsOf(b, old) # <<>>
<1>1. old.status \in States
  BY DEF Row
<1>2. Target(b, old) = old.status \/ Target(b, old) \in Transitions(old.status)
  BY DEF Valid
<1>3. CASE Target(b, old) = old.status
  BY <1>3
<1>4. CASE Target(b, old) # old.status
  <2>1. "closed" \in Transitions(old.status) => old.status = "resolved"
    BY <1>1 DEF Transitions, States
  <2>2. EventsOf(b, old) # <<>>
    BY <1>4 DEF EventsOf
  <2>3. QED
    BY <1>2, <1>4, <2>1, <2>2 DEF Ripe
<1>5. QED
  BY <1>3, <1>4

\* A history that grows by nothing, or by an event that closes only what was
\* resolved, remains what it was.
LEMMA HistoryGrows ==
  ASSUME NEW h \in Seq(Event), NEW s \in Seq(Event), ClosesLate(h),
         \/ s = <<>>
         \/ \E e \in Event : s = <<e>> /\ (e.to = "closed" => WasResolved(h))
  PROVE  /\ h \o s \in Seq(Event)
         /\ ClosesLate(h \o s)
         /\ WasResolved(h) => WasResolved(h \o s)
         /\ \A e \in Event : s = <<e>> /\ e.to = "resolved" => WasResolved(h \o s)
<1>1. CASE s = <<>>
  <2>1. h \o s = h
    BY <1>1
  <2>2. QED
    BY <1>1, <2>1
<1>2. CASE s # <<>>
  <2>1. PICK e \in Event : s = <<e>> /\ (e.to = "closed" => WasResolved(h))
    BY <1>2
  <2>2. DOMAIN h = 1..Len(h) /\ Len(h) \in Nat
    OBVIOUS
  <2>3. /\ h \o s \in Seq(Event)
        /\ DOMAIN (h \o s) = 1..(Len(h) + 1)
        /\ \A k \in 1..Len(h) : (h \o s)[k] = h[k]
        /\ (h \o s)[Len(h) + 1] = e
    BY <2>1
  <2>4. ClosesLate(h \o s)
    <3>1. SUFFICES ASSUME NEW n \in 1..(Len(h) + 1), (h \o s)[n].to = "closed"
                   PROVE  \E k \in 1..(n - 1) : (h \o s)[k].to = "resolved"
      BY <2>3 DEF ClosesLate
    <3>2. CASE n \in 1..Len(h)
      BY <3>1, <3>2, <2>2, <2>3 DEF ClosesLate
    <3>3. CASE n = Len(h) + 1
      BY <3>1, <3>3, <2>1, <2>2, <2>3 DEF WasResolved
    <3>4. QED
      BY <3>2, <3>3, <2>2
  <2>5. WasResolved(h) => WasResolved(h \o s)
    BY <2>2, <2>3 DEF WasResolved
  <2>6. e.to = "resolved" => WasResolved(h \o s)
    BY <2>2, <2>3 DEF WasResolved
  <2>7. \A d \in Event : s = <<d>> => d = e
    BY <2>1
  <2>8. QED
    BY <2>3, <2>4, <2>5, <2>6, <2>7
<1>3. QED
  BY <1>1, <1>2
-----------------------------------------------------------------------------
LEMMA InitResolved == Init => ResolvedInv
<1>1. SUFFICES ASSUME Init PROVE ResolvedInv
  OBVIOUS
<1>2. TypeOK
  <2>1. NoBody \in Body
    BY DEF NoBody, Body
  <2>2. <<>> \in [{} -> Row]
    OBVIOUS
  <2>3. [status |-> "new", assignee |-> Nobody] \in Row
    BY DEF Row, States
  <2>4. row \in [Alert -> Row] /\ history \in [Alert -> Seq(Event)] /\ raced \in SUBSET Alert
    BY <1>1, <2>3 DEF Init
  <2>5. DOMAIN req = Request /\ \A r \in Request : req[r] = Idle
    BY <1>1 DEF Init
  <2>6. Idle.body = NoBody /\ Idle.ids = {} /\ Idle.read = <<>>
    BY DEF Idle
  <2>7. QED
    BY <2>1, <2>2, <2>4, <2>5, <2>6 DEF TypeOK
<1>3. QED
  BY <1>1, <1>2 DEF Init, ResolvedInv, ClosesLate, Ripe, Idle

\* A request's read takes over what holds of the rows.
LEMMA BeginKeeps ==
  ASSUME ResolvedInv, NEW r \in Request, NEW b \in Body, NEW ids \in SUBSET Alert,
         Begin(r, b, ids)
  PROVE  ResolvedInv'
<1>1. req' = [req EXCEPT ![r] = [body |-> b, ids |-> ids, read |-> [a \in ids |-> row[a]]]]
  BY DEF Begin
<1>2. UNCHANGED <<row, history>>
  BY DEF Begin
<1>3. raced' \in SUBSET Alert
  BY DEF Begin, ResolvedInv, TypeOK
<1>4. TypeOK'
  <2>1. [a \in ids |-> row[a]] \in [ids -> Row]
    BY DEF ResolvedInv, TypeOK
  <2>2. QED
    BY <1>1, <1>2, <1>3, <2>1 DEF ResolvedInv, TypeOK
<1>5. ASSUME NEW q \in Request, NEW a \in req'[q].ids, Ripe(req'[q].read[a].status)
      PROVE  WasResolved(history'[a])
  <2>1. CASE q = r
    BY <1>1, <1>2, <1>5, <2>1 DEF ResolvedInv, TypeOK
  <2>2. CASE q # r
    BY <1>1, <1>2, <1>5, <2>2 DEF ResolvedInv, TypeOK
  <2>3. QED
    BY <2>1, <2>2
<1>6. QED
  BY <1>2, <1>4, <1>5 DEF ResolvedInv

LEMMA AbortKeeps ==
  ASSUME ResolvedInv, NEW r \in Request, Abort(r)
  PROVE  ResolvedInv'
<1>1. req' = [req EXCEPT ![r] = Idle] /\ UNCHANGED <<row, history, raced>>
  BY DEF Abort
<1>2. TypeOK'
  BY <1>1 DEF ResolvedInv, TypeOK, Idle, NoBody, Body
<1>3. QED
  BY <1>1, <1>2 DEF ResolvedInv, TypeOK, Idle

\* The transaction of a request whose reads may be stale.
LEMMA ApplyKeeps ==
  ASSUME ResolvedInv, NEW r \in Request, Apply(r)
  PROVE  ResolvedInv'
<1> DEFINE b == req[r].body
           old == req[r].read
           moved == {a \in req[r].ids : Valid(b, old[a])}
<1>1. /\ req' = [req EXCEPT ![r] = Idle]
      /\ raced' = raced
      /\ row' = [a \in Alert |-> IF a \in moved THEN Written(b, old[a]) ELSE row[a]]
      /\ history' = [a \in Alert |-> IF a \in moved
                                     THEN history[a] \o EventsOf(b, old[a])
                                     ELSE history[a]]
  BY DEF Apply
<1>2. b \in Body /\ moved \in SUBSET Alert /\ \A a \in moved : old[a] \in Row
  BY DEF ResolvedInv, TypeOK
<1>3. \A a \in Alert : history[a] \in Seq(Event) /\ ClosesLate(history[a])
  BY DEF ResolvedInv, TypeOK
<1>4. ASSUME NEW a \in Alert
      PROVE  /\ row'[a] \in Row
             /\ history'[a] \in Seq(Event)
             /\ ClosesLate(history'[a])
             /\ WasResolved(history[a]) => WasResolved(history'[a])
             /\ Ripe(row'[a].status) => WasResolved(history'[a])
  <2>1. CASE a \notin moved
    BY <1>1, <1>3, <2>1 DEF ResolvedInv, TypeOK
  <2>2. CASE a \in moved
    <3> DEFINE h == history[a]
               s == EventsOf(b, old[a])
               t == Target(b, old[a])
    <3>1. row'[a] = Written(b, old[a]) /\ history'[a] = h \o s
      BY <1>1, <2>2
    <3>2. /\ row'[a] \in Row /\ row'[a].status = t
          /\ s = <<>> \/ \E e \in Event : s = <<e>> /\ e.to = t
          /\ s \in Seq(Event)
      BY <1>2, <2>2, <3>1, WrittenType
    <3>3. Ripe(old[a].status) => WasResolved(h)
      BY <2>2 DEF ResolvedInv
    <3>4. Ripe(t) => WasResolved(h) \/ (t = "resolved" /\ s # <<>>)
      BY <1>2, <2>2, <3>3, RipeMoves
    <3>5. t = "closed" => WasResolved(h)
      BY <3>4 DEF Ripe
    <3>6. /\ h \o s \in Seq(Event)
          /\ ClosesLate(h \o s)
          /\ WasResolved(h) => WasResolved(h \o s)
          /\ \A e \in Event : s = <<e>> /\ e.to = "resolved" => WasResolved(h \o s)
      <4>1. s = <<>> \/ \E e \in Event : s = <<e>> /\ (e.to = "closed" => WasResolved(h))
        BY <3>2, <3>5
      <4> HIDE DEF h, s, t
      <4>2. h \in Seq(Event) /\ ClosesLate(h)
        BY <1>3 DEF h
      <4>3. QED
        BY <3>2, <4>1, <4>2, HistoryGrows
    <3>7. Ripe(t) => WasResolved(h \o s)
      BY <3>2, <3>4, <3>6
    <3>8. QED
      BY <3>1, <3>2, <3>6, <3>7
  <2>3. QED
    BY <2>1, <2>2
<1>5. TypeOK'
  <2>1. row' \in [Alert -> Row] /\ history' \in [Alert -> Seq(Event)]
    BY <1>1, <1>4
  <2>2. raced' \in SUBSET Alert
    BY <1>1 DEF ResolvedInv, TypeOK
  <2>3. /\ DOMAIN req' = Request
        /\ \A q \in Request : /\ req'[q].body \in Body
                              /\ req'[q].ids \in SUBSET Alert
                              /\ req'[q].read \in [req'[q].ids -> Row]
    BY <1>1 DEF ResolvedInv, TypeOK, Idle, NoBody, Body
  <2>4. QED
    BY <2>1, <2>2, <2>3 DEF TypeOK
<1>6. \A q \in Request : \A a \in req'[q].ids :
        Ripe(req'[q].read[a].status) => WasResolved(history'[a])
  BY <1>1, <1>4 DEF ResolvedInv, TypeOK, Idle
<1>7. QED
  BY <1>4, <1>5, <1>6 DEF ResolvedInv

LEMMA NextResolved == ResolvedInv /\ [Next]_vars => ResolvedInv'
<1>1. SUFFICES ASSUME ResolvedInv, [Next]_vars PROVE ResolvedInv'
  OBVIOUS
<1>2. CASE UNCHANGED vars
  BY <1>1, <1>2 DEF ResolvedInv, TypeOK, vars
<1>3. CASE Next
  <2>1. PICK r \in Request :
          \/ \E b \in Body, a \in Alert : ReadOne(r, b, a)
          \/ \E b \in Body, ids \in SUBSET Alert : ReadMany(r, b, ids)
          \/ Apply(r)
          \/ Abort(r)
    BY <1>3 DEF Next
  <2>2. CASE \E b \in Body, a \in Alert : ReadOne(r, b, a)
    BY <1>1, <2>2, BeginKeeps DEF ReadOne
  <2>3. CASE \E b \in Body, ids \in SUBSET Alert : ReadMany(r, b, ids)
    BY <1>1, <2>3, BeginKeeps DEF ReadMany
  <2>4. CASE Apply(r)
    BY <1>1, <2>4, ApplyKeeps
  <2>5. CASE Abort(r)
    BY <1>1, <2>5, AbortKeeps
  <2>6. QED
    BY <2>1, <2>2, <2>3, <2>4, <2>5
<1>4. QED
  BY <1>1, <1>2, <1>3

LEMMA ResolvedAlways == Spec => []ResolvedInv
<1>1. QED
  BY InitResolved, NextResolved, PTL DEF Spec

\* Every reachable state of the workflow is well-typed.
THEOREM WorkflowTypeCorrect == Spec => []TypeOK
<1>1. ResolvedInv => TypeOK
  BY DEF ResolvedInv
<1>2. QED
  BY <1>1, ResolvedAlways, PTL

\* However many requests overlap (_apply_alert_workflow with stale rows), no
\* alert is closed that nobody resolved, and no event says that it was.
THEOREM ClosedWasResolvedHolds == Spec => []ClosedWasResolved
<1>1. ResolvedInv => ClosedWasResolved
  <2>1. SUFFICES ASSUME ResolvedInv, NEW a \in Alert
                 PROVE  /\ row[a].status = "closed" =>
                             \E k \in 1..(Len(history[a]) + 1 - 1) : history[a][k].to = "resolved"
                        /\ \A n \in DOMAIN history[a] :
                             history[a][n].to = "closed" =>
                               \E k \in 1..(n - 1) : history[a][k].to = "resolved"
    BY DEF ClosedWasResolved
  <2>2. ClosesLate(history[a]) /\ (Ripe(row[a].status) => WasResolved(history[a]))
    BY <2>1 DEF ResolvedInv
  <2>3. DOMAIN history[a] = 1..Len(history[a]) /\ Len(history[a]) + 1 - 1 = Len(history[a])
    BY <2>1 DEF ResolvedInv, TypeOK
  <2>4. QED
    BY <2>2, <2>3 DEF ClosesLate, WasResolved, Ripe
<1>2. QED
  BY <1>1, ResolvedAlways, PTL
-----------------------------------------------------------------------------
(***************************************************************************)
(* AloneIsTold.  What a request has read of an alert that it serves alone  *)
(* is what the alert still is.                                             *)
(***************************************************************************)
\* History h is legal and tells row x.
Legal(h) ==
  \A n \in DOMAIN h :
    LET state == IF n = 1 THEN "new" ELSE h[n - 1].to
    IN  h[n].to \in {state} \cup Transitions(state)

Tells(h, x) ==
  IF h = <<>>
  THEN x = [status |-> "new", assignee |-> Nobody]
  ELSE x = [status |-> h[Len(h)].to, assignee |-> h[Len(h)].assignee]

AloneInv ==
  /\ \A q, r \in Request : q # r => req[q].ids \cap req[r].ids \subseteq raced
  /\ \A r \in Request : \A a \in req[r].ids : a \notin raced => req[r].read[a] = row[a]
  /\ \A a \in Alert : a \notin raced => Legal(history[a]) /\ Tells(history[a], row[a])

\* A write that leaves no event changes nothing, and an event says what is written.
LEMMA EventTells ==
  ASSUME NEW b \in Body, NEW old \in Row
  PROVE  \/ EventsOf(b, old) = <<>> /\ Written(b, old) = old
         \/ \E e \in Event : /\ EventsOf(b, old) = <<e>>
                             /\ e.to = Target(b, old)
                             /\ Written(b, old) = [status |-> e.to, assignee |-> e.assignee]
<1> DEFINE e == [from |-> old.status, to |-> Target(b, old), assignee |-> Written(b, old).assignee]
<1>1. CASE Target(b, old) # old.status \/ b.assignee # Unsupplied \/ b.note
  <2>1. EventsOf(b, old) = <<e>>
    BY <1>1 DEF EventsOf
  <2>2. e \in Event
    BY WrittenType DEF Event, Row
  <2>3. Written(b, old) = [status |-> e.to, assignee |-> e.assignee] /\ e.to = Target(b, old)
    BY DEF Written
  <2> QED
    BY <2>1, <2>2, <2>3
<1>2. CASE ~(Target(b, old) # old.status \/ b.assignee # Unsupplied \/ b.note)
  <2>1. EventsOf(b, old) = <<>>
    BY <1>2 DEF EventsOf
  <2>2. Written(b, old) = [status |-> old.status, assignee |-> old.assignee]
    BY <1>2 DEF Written
  <2>3. old = [status |-> old.status, assignee |-> old.assignee]
    BY DEF Row
  <2> QED
    BY <2>1, <2>2, <2>3
<1> QED
  BY <1>1, <1>2

\* A legal history that tells the row stays so with the event of a valid move.
LEMMA StoryGoesOn ==
  ASSUME NEW h \in Seq(Event), NEW b \in Body, NEW old \in Row, Valid(b, old),
         Legal(h), Tells(h, old)
  PROVE  Legal(h \o EventsOf(b, old)) /\ Tells(h \o EventsOf(b, old), Written(b, old))
<1>1. CASE EventsOf(b, old) = <<>> /\ Written(b, old) = old
  <2>1. h \o EventsOf(b, old) = h
    BY <1>1
  <2> QED
    BY <1>1, <2>1
<1>2. ASSUME NEW e \in Event, EventsOf(b, old) = <<e>>, e.to = Target(b, old),
             Written(b, old) = [status |-> e.to, assignee |-> e.assignee]
      PROVE  Legal(h \o EventsOf(b, old)) /\ Tells(h \o EventsOf(b, old), Written(b, old))
  <2> DEFINE g == h \o <<e>>
  <2>1. /\ DOMAIN h = 1..Len(h) /\ Len(h) \in Nat
        /\ DOMAIN g = 1..(Len(h) + 1) /\ Len(g) = Len(h) + 1
        /\ \A k \in 1..Len(h) : g[k] = h[k]
        /\ g[Len(h) + 1] = e
    OBVIOUS
  <2>2. e.to \in {old.status} \cup Transitions(old.status)
    BY <1>2 DEF Valid
  <2>3. old.status = IF Len(h) + 1 = 1 THEN "new" ELSE h[Len(h)].to
    <3>1. CASE h = <<>>
      BY <3>1 DEF Tells
    <3>2. CASE h # <<>>
      BY <2>1, <3>2 DEF Tells
    <3> QED
      BY <3>1, <3>2
  <2> HIDE DEF g
  <2>4. Legal(g)
    <3>1. SUFFICES ASSUME NEW n \in 1..(Len(h) + 1)
                   PROVE  g[n].to \in {IF n = 1 THEN "new" ELSE g[n - 1].to}
                                        \cup Transitions(IF n = 1 THEN "new" ELSE g[n - 1].to)
      BY <2>1 DEF Legal
    <3>2. n = 1 \/ (n - 1 \in 1..Len(h) /\ g[n - 1] = h[n - 1])
      BY <2>1
    <3>3. CASE n \in 1..Len(h)
      <4>1. h[n].to \in {IF n = 1 THEN "new" ELSE h[n - 1].to}
                          \cup Transitions(IF n = 1 THEN "new" ELSE h[n - 1].to)
        BY <2>1, <3>3 DEF Legal
      <4> QED
        BY <2>1, <3>2, <3>3, <4>1
    <3>4. CASE n = Len(h) + 1
      <4>1. (IF n = 1 THEN "new" ELSE g[n - 1].to) = old.status
        BY <2>1, <2>3, <3>2, <3>4
      <4> QED
        BY <2>1, <2>2, <3>4, <4>1
    <3> QED
      BY <2>1, <3>3, <3>4
  <2>5. Tells(g, Written(b, old))
    <3>1. g # <<>>
      BY <2>1
    <3> QED
      BY <1>2, <2>1, <3>1 DEF Tells
  <2> QED
    BY <1>2, <2>4, <2>5 DEF g
<1> QED
  BY <1>1, <1>2, EventTells

LEMMA ApplyKeepsAlone ==
  ASSUME ResolvedInv, AloneInv, NEW r \in Request, Apply(r)
  PROVE  AloneInv'
<1> DEFINE b == req[r].body
           old == req[r].read
           moved == {a \in req[r].ids : Valid(b, old[a])}
<1>1. /\ req' = [req EXCEPT ![r] = Idle] /\ raced' = raced
      /\ row' = [a \in Alert |-> IF a \in moved THEN Written(b, old[a]) ELSE row[a]]
      /\ history' = [a \in Alert |-> IF a \in moved
                                     THEN history[a] \o EventsOf(b, old[a])
                                     ELSE history[a]]
  BY DEF Apply
<1>2. /\ b \in Body /\ moved \subseteq req[r].ids /\ req[r].ids \subseteq Alert
      /\ \A a \in moved : old[a] \in Row /\ Valid(b, old[a])
      /\ \A a \in Alert : history[a] \in Seq(Event)
  BY DEF ResolvedInv, TypeOK
<1>3. DOMAIN req = Request /\ Idle.ids = {}
  BY DEF ResolvedInv, TypeOK, Idle
<1> HIDE DEF b, old, moved
<1>4. \A q \in Request : req'[q].ids = IF q = r THEN {} ELSE req[q].ids
  BY <1>1, <1>3
<1>5. \A q, p \in Request : q # p => req'[q].ids \cap req'[p].ids \subseteq raced'
  BY <1>1, <1>4 DEF AloneInv
<1>6. ASSUME NEW q \in Request, NEW a \in req'[q].ids, a \notin raced
      PROVE  req'[q].read[a] = row'[a]
  <2>1. q # r /\ a \in req[q].ids /\ req'[q] = req[q] /\ a \in Alert
    BY <1>1, <1>3, <1>4, <1>6 DEF ResolvedInv, TypeOK
  <2>2. a \notin req[r].ids
    BY <1>6, <2>1 DEF AloneInv
  <2>3. row'[a] = row[a]
    BY <1>1, <1>2, <2>1, <2>2
  <2> QED
    BY <1>6, <2>1, <2>3 DEF AloneInv
<1>7. ASSUME NEW a \in Alert, a \notin raced
      PROVE  Legal(history'[a]) /\ Tells(history'[a], row'[a])
  <2>1. CASE a \notin moved
    BY <1>1, <1>7, <2>1 DEF AloneInv
  <2>2. CASE a \in moved
    <3>1. old[a] = row[a] /\ Valid(b, old[a]) /\ old[a] \in Row
      BY <1>2, <1>7, <2>2 DEF AloneInv, old
    <3>2. Legal(history[a]) /\ Tells(history[a], old[a])
      BY <1>7, <3>1 DEF AloneInv
    <3>3. row'[a] = Written(b, old[a]) /\ history'[a] = history[a] \o EventsOf(b, old[a])
      BY <1>1, <2>2
    <3> QED
      BY <1>2, <3>1, <3>2, <3>3, StoryGoesOn
  <2> QED
    BY <2>1, <2>2
<1>8. raced' = raced
  BY <1>1
<1> QED
  BY <1>5, <1>6, <1>7, <1>8 DEF AloneInv

\* A request that begins either finds the alert free or marks it as raced.
LEMMA BeginKeepsAlone ==
  ASSUME ResolvedInv, AloneInv, NEW r \in Request, NEW b \in Body, NEW ids \in SUBSET Alert,
         Begin(r, b, ids)
  PROVE  AloneInv'
<1>1. /\ req' = [req EXCEPT ![r] = [body |-> b, ids |-> ids, read |-> [a \in ids |-> row[a]]]]
      /\ raced' = raced \cup (ids \cap UNION {req[q].ids : q \in Request})
      /\ UNCHANGED <<row, history>>
  BY DEF Begin
<1>2. DOMAIN req = Request
  BY DEF ResolvedInv, TypeOK
<1>3. /\ req'[r].ids = ids /\ req'[r].read = [a \in ids |-> row[a]]
      /\ \A q \in Request \ {r} : req'[q] = req[q]
  BY <1>1, <1>2
<1>4. raced \subseteq raced' /\ \A q \in Request : ids \cap req[q].ids \subseteq raced'
  BY <1>1
<1>5. ASSUME NEW q \in Request, NEW p \in Request, q # p
      PROVE  req'[q].ids \cap req'[p].ids \subseteq raced'
  <2>1. req[q].ids \cap req[p].ids \subseteq raced
    BY <1>5 DEF AloneInv
  <2> QED
    BY <1>3, <1>4, <1>5, <2>1
<1>6. ASSUME NEW q \in Request, NEW a \in req'[q].ids, a \notin raced'
      PROVE  req'[q].read[a] = row'[a]
  <2>1. CASE q = r
    BY <1>1, <1>3, <1>6, <2>1
  <2>2. CASE q # r
    BY <1>1, <1>3, <1>4, <1>6, <2>2 DEF AloneInv
  <2> QED
    BY <2>1, <2>2
<1>7. \A a \in Alert : a \notin raced' => Legal(history'[a]) /\ Tells(history'[a], row'[a])
  BY <1>1, <1>4 DEF AloneInv
<1> QED
  BY <1>5, <1>6, <1>7 DEF AloneInv

LEMMA NextAlone == ResolvedInv /\ AloneInv /\ [Next]_vars => AloneInv'
<1> SUFFICES ASSUME ResolvedInv, AloneInv, [Next]_vars PROVE AloneInv'
  OBVIOUS
<1>1. ASSUME NEW r \in Request, Abort(r) PROVE AloneInv'
  BY <1>1 DEF Abort, AloneInv, ResolvedInv, TypeOK, Idle
<1>2. CASE UNCHANGED vars
  BY <1>2 DEF vars, AloneInv
<1> QED
  BY <1>1, <1>2, ApplyKeepsAlone, BeginKeepsAlone DEF Next, ReadOne, ReadMany

\* An alert that no two requests served together has a history of allowed moves
\* that tells the whole story (_apply_alert_workflow: the row and its event in
\* one transaction).
THEOREM AloneIsToldHolds == Spec => []AloneIsTold
<1>1. Init => AloneInv
  BY DEF Init, AloneInv, Legal, Tells, Idle
<1>2. ResolvedInv /\ AloneInv => AloneIsTold
  BY DEF ResolvedInv, TypeOK, AloneInv, AloneIsTold, LegalHistory, Legal, Tells, Last
<1> QED
  BY <1>1, <1>2, NextAlone, ResolvedAlways, PTL DEF Spec
-----------------------------------------------------------------------------
(***************************************************************************)
(* Archive.  The cycles never lose an event and implement EventStore.      *)
(***************************************************************************)
\* the events that were stored so far
Stored == 1..(nextId - 1)

\* What is well-typed, without the bound on the rows of a segment.
ArchTypes ==
  /\ nextId \in 1..(MaxId + 1) /\ hot \subseteq Stored
  /\ catalog \in [Ids -> {0} \cup sealed]
  /\ files \in 0..MaxSegments /\ content \in [Segments -> SUBSET Stored]
  /\ sealed \subseteq 1..files /\ damaged \subseteq 1..files
  /\ cycle \in [Cycles -> [at : CyclePhases, mode : {"copy", "move"},
                           ids : SUBSET Stored, seg : 0..files]]

\* What a cycle has found out stays true until it acts on it: the rows it is
\* about to delete are in intact segments, the file it is about to catalog is
\* intact and holds its rows.
CycleOK(c) ==
  /\ cycle[c].at = "check" => cycle[c].ids \subseteq Cataloged
  /\ cycle[c].at = "evict" => cycle[c].ids \subseteq Readable
  /\ cycle[c].at \in {"verify", "commit"} => cycle[c].seg # 0
  /\ cycle[c].at = "commit" => /\ cycle[c].seg \notin damaged
                               /\ cycle[c].ids \subseteq content[cycle[c].seg]

ArchInv == ArchTypes /\ EvidenceKept /\ \A c \in Cycles : CycleOK(c)

\* A segment that is sealed was made, and its file has a number.
LEMMA SealedAreSegments ==
  ASSUME ArchTypes
  PROVE  /\ sealed \subseteq Segments /\ Readable \subseteq Stored
         /\ \A s \in sealed \ damaged : content[s] \subseteq Readable
<1>1. sealed \subseteq Segments
  BY ArchiveAssumption DEF ArchTypes, Segments
<1>2. \A s \in sealed \ damaged : content[s] \subseteq Stored
  BY <1>1 DEF ArchTypes
<1> QED
  BY <1>1, <1>2 DEF Readable

\* The initial state has no event.
LEMMA ArchInitInv == ArchInit => ArchInv
<1> SUFFICES ASSUME ArchInit PROVE ArchInv
  OBVIOUS
<1>1. Stored = {}
  BY DEF ArchInit, Stored
<1>2. ArchTypes
  BY <1>1, ArchiveAssumption DEF ArchInit, ArchTypes, NoCycle, CyclePhases, Ids
<1>3. EvidenceKept
  BY DEF ArchInit, EvidenceKept
<1>4. \A c \in Cycles : CycleOK(c)
  BY DEF ArchInit, CycleOK, NoCycle
<1> QED
  BY <1>2, <1>3, <1>4 DEF ArchInv

\* A step that changes only what cycle c is at.
LEMMA OnlyCycleMoves ==
  ASSUME NEW c \in Cycles, ArchInv,
         UNCHANGED <<nextId, hot, catalog, files, content, sealed, damaged>>,
         cycle' \in [Cycles -> [at : CyclePhases, mode : {"copy", "move"},
                                ids : SUBSET Stored, seg : 0..files]],
         \A d \in Cycles \ {c} : cycle'[d] = cycle[d],
         CycleOK(c)'
  PROVE  ArchInv'
<1>1. ArchTypes'
  BY DEF ArchInv, ArchTypes, Stored
<1>2. EvidenceKept'
  BY DEF ArchInv, EvidenceKept, Readable
<1>3. \A d \in Cycles : CycleOK(d)'
  BY DEF ArchInv, CycleOK, Cataloged, Readable
<1> QED
  BY <1>1, <1>2, <1>3 DEF ArchInv

\* Every step of a cycle, of the listener and of a failing disk keeps it.
LEMMA ArchStepInv == ArchInv /\ [ArchNext]_archiveVars => ArchInv'
<1> SUFFICES ASSUME ArchInv, [ArchNext]_archiveVars PROVE ArchInv'
  OBVIOUS
<1> USE ArchiveAssumption
<1>1. CASE Ingest
  <2>1. Stored' = Stored \cup {nextId}
    BY <1>1 DEF Ingest, Stored, ArchInv, ArchTypes
  <2>2. ArchTypes'
    BY <1>1, <2>1 DEF Ingest, ArchInv, ArchTypes, Ids
  <2>3. Readable' = Readable
    BY <1>1 DEF Ingest, Readable
  <2>4. EvidenceKept'
    BY <1>1, <2>1, <2>3 DEF Ingest, ArchInv, EvidenceKept, Stored
  <2>5. \A c \in Cycles : CycleOK(c)'
    BY <1>1, <2>3 DEF Ingest, ArchInv, CycleOK, Cataloged
  <2> QED
    BY <2>2, <2>4, <2>5 DEF ArchInv
<1>2. ASSUME NEW c \in Cycles, NEW m \in {"copy", "move"}, BeginCycle(c, m)
      PROVE  ArchInv'
  BY <1>2, OnlyCycleMoves DEF BeginCycle, ArchInv, ArchTypes, CyclePhases, CycleOK
<1>3. ASSUME NEW c \in Cycles, ReadCopies(c) PROVE ArchInv'
  <2>1. Oldest(hot \cap Cataloged) \subseteq hot \cap Cataloged
    BY DEF Oldest
  <2>2. CycleOK(c)'
    BY <1>3, <2>1 DEF ReadCopies, ArchInv, ArchTypes, CycleOK, Cataloged
  <2> QED
    BY ZenonT(60), <1>3, <2>1, <2>2, OnlyCycleMoves DEF ReadCopies, ArchInv, ArchTypes, CyclePhases
<1>4. ASSUME NEW c \in Cycles, CheckCopies(c) PROVE ArchInv'
  <2>1. CASE Intact(cycle[c].ids)
    <3>1. cycle[c].ids \subseteq Readable
      BY <1>4, <2>1 DEF CheckCopies, Intact, ArchInv, ArchTypes, CycleOK, Cataloged, Readable
    <3>2. CycleOK(c)'
      BY <1>4, <2>1, <3>1 DEF CheckCopies, ArchInv, ArchTypes, CycleOK, Readable
    <3> QED
      BY <1>4, <2>1, <3>2, OnlyCycleMoves DEF CheckCopies, ArchInv, ArchTypes, CyclePhases
  <2>2. CASE ~Intact(cycle[c].ids)
    BY <1>4, <2>2, OnlyCycleMoves
    DEF CheckCopies, ArchInv, ArchTypes, CyclePhases, NoCycle, CycleOK
  <2> QED
    BY <2>1, <2>2
<1>5. ASSUME NEW c \in Cycles, Evict(c) PROVE ArchInv'
  <2>1. Readable' = Readable
    BY <1>5 DEF Evict, Readable
  <2>2. ArchTypes'
    BY <1>5 DEF Evict, GoTo, ArchInv, ArchTypes, Stored, CyclePhases
  <2>3. EvidenceKept'
    BY <1>5, <2>1 DEF Evict, ArchInv, CycleOK, EvidenceKept
  <2>4. \A d \in Cycles : CycleOK(d)'
    BY <1>5, <2>1 DEF Evict, GoTo, ArchInv, ArchTypes, CycleOK, Cataloged
  <2> QED
    BY <2>2, <2>3, <2>4 DEF ArchInv
<1>6. ASSUME NEW c \in Cycles, Read(c) PROVE ArchInv'
  <2> DEFINE ids == Oldest(hot \ Cataloged)
             read == [cycle[c] EXCEPT !.ids = ids, !.at = "build"]
             next == IF ids = {} THEN NoCycle ELSE read
             Rec == [at : CyclePhases, mode : {"copy", "move"}, ids : SUBSET Stored, seg : 0..files]
  <2>1. ids \subseteq Stored
    BY DEF Oldest, ArchInv, ArchTypes
  <2>2. cycle' = [cycle EXCEPT ![c] = next]
    BY <1>6 DEF Read
  <2>3. UNCHANGED <<nextId, hot, catalog, files, content, sealed, damaged>>
    BY <1>6 DEF Read
  <2>4. cycle \in [Cycles -> Rec]
    BY DEF ArchInv, ArchTypes
  <2> HIDE DEF ids
  <2>5. NoCycle \in Rec /\ NoCycle.at = "idle"
    BY DEF NoCycle, ArchInv, ArchTypes, CyclePhases
  <2>6. read \in Rec /\ read.at = "build"
    BY <2>1, <2>4 DEF CyclePhases
  <2> HIDE DEF read
  <2>7. next \in Rec /\ next.at \in {"idle", "build"}
    BY <2>5, <2>6
  <2> HIDE DEF next
  <2>8. cycle' \in [Cycles -> Rec] /\ cycle'[c] = next
    BY <2>2, <2>4, <2>7
  <2>9. CycleOK(c)'
    BY <2>7, <2>8 DEF CycleOK
  <2>10. \A d \in Cycles \ {c} : cycle'[d] = cycle[d]
    BY <2>2, <2>4
  <2> QED
    BY <2>3, <2>8, <2>9, <2>10, OnlyCycleMoves
<1>7. ASSUME NEW c \in Cycles, Build(c) PROVE ArchInv'
  <2>1. /\ files + 1 \in Segments /\ files' = files + 1 /\ files + 1 \notin sealed
        /\ content' = [content EXCEPT ![files + 1] = cycle[c].ids]
    BY <1>7 DEF Build, Segments, ArchInv, ArchTypes
  <2>2. ArchTypes'
    BY <1>7, <2>1 DEF Build, ArchInv, ArchTypes, Stored, CyclePhases
  <2>3. Readable' = Readable
    BY <1>7, <2>1, SealedAreSegments DEF Build, ArchInv, ArchTypes, Readable
  <2>4. EvidenceKept'
    BY <1>7, <2>3 DEF Build, ArchInv, EvidenceKept
  <2>5. \A d \in Cycles : CycleOK(d)'
    <3> SUFFICES ASSUME NEW d \in Cycles PROVE CycleOK(d)'
      OBVIOUS
    <3>1. CASE d = c
      BY <1>7, <2>1, <3>1 DEF Build, ArchInv, ArchTypes, CycleOK
    <3>2. CASE d # c
      <4>1. cycle'[d] = cycle[d] /\ cycle[d].seg \in 0..files
        BY <1>7, <3>2 DEF Build, ArchInv, ArchTypes
      <4>2. cycle[d].at = "commit" => content'[cycle[d].seg] = content[cycle[d].seg]
        BY <2>1, <4>1 DEF ArchInv, ArchTypes, CycleOK, Segments
      <4>3. CycleOK(d) /\ Cataloged' = Cataloged /\ damaged' = damaged
        BY <1>7 DEF Build, ArchInv, Cataloged
      <4> QED
        BY <2>3, <4>1, <4>2, <4>3 DEF CycleOK
    <3> QED
      BY <3>1, <3>2
  <2> QED
    BY <2>2, <2>4, <2>5 DEF ArchInv
<1>8. ASSUME NEW c \in Cycles, Verify(c) PROVE ArchInv'
  <2>1. \/ cycle' = [cycle EXCEPT ![c] = NoCycle]
        \/ /\ cycle' = [cycle EXCEPT ![c] = [@ EXCEPT !.at = "commit"]]
           /\ cycle[c].seg \notin damaged /\ cycle[c].ids \subseteq content[cycle[c].seg]
    BY <1>8 DEF Verify
  <2>2. /\ cycle' \in [Cycles -> [at : CyclePhases, mode : {"copy", "move"},
                                   ids : SUBSET Stored, seg : 0..files]]
        /\ \A d \in Cycles \ {c} : cycle'[d] = cycle[d]
    BY <2>1 DEF ArchInv, ArchTypes, CyclePhases, NoCycle
  <2>3. CycleOK(c)'
    BY <1>8, <2>1 DEF Verify, ArchInv, ArchTypes, NoCycle, CycleOK
  <2> QED
    BY <1>8, <2>2, <2>3, OnlyCycleMoves DEF Verify
<1>9. ASSUME NEW c \in Cycles, Seal(c) PROVE ArchInv'
  <2> DEFINE g == cycle[c].seg
  <2>1. /\ g \in 1..files /\ g \in Segments /\ g \notin damaged
        /\ cycle[c].ids \subseteq content[g] /\ sealed' = sealed \cup {g}
    BY <1>9 DEF Seal, ArchInv, ArchTypes, CycleOK, Segments
  <2>2. Readable \subseteq Readable' /\ content[g] \subseteq Readable'
    BY <1>9, <2>1 DEF Seal, Readable
  <2>3. ArchTypes'
    <3>1. catalog' \in [Ids -> {0} \cup sealed']
      BY <1>9, <2>1 DEF Seal, ArchInv, ArchTypes
    <3>2. cycle' \in [Cycles -> [at : CyclePhases, mode : {"copy", "move"},
                                ids : SUBSET Stored, seg : 0..files]]
      BY <1>9, <2>1 DEF Seal, ArchInv, ArchTypes, CyclePhases, NoCycle
    <3>3. sealed' \subseteq 1..files /\ hot' \subseteq Stored
      BY <1>9, <2>1 DEF Seal, ArchInv, ArchTypes
    <3> QED
      BY <1>9, <3>1, <3>2, <3>3 DEF Seal, ArchInv, ArchTypes, Stored
  <2>4. EvidenceKept'
    BY <1>9, <2>1, <2>2 DEF Seal, ArchInv, EvidenceKept
  <2>5. \A d \in Cycles : CycleOK(d)'
    <3> SUFFICES ASSUME NEW d \in Cycles PROVE CycleOK(d)'
      OBVIOUS
    <3>1. CASE d = c
      BY <1>9, <3>1 DEF Seal, ArchInv, ArchTypes, CycleOK, NoCycle
    <3>2. CASE d # c
      <4>1. cycle'[d] = cycle[d]
        BY <1>9, <3>2 DEF Seal, ArchInv, ArchTypes
      <4>2. Cataloged \subseteq Cataloged'
        BY <1>9 DEF Seal, Cataloged, ArchInv, ArchTypes
      <4> QED
        BY <1>9, <2>2, <4>1, <4>2 DEF Seal, ArchInv, CycleOK
    <3> QED
      BY <3>1, <3>2
  <2> QED
    BY <2>3, <2>4, <2>5 DEF ArchInv
<1>10. ASSUME NEW c \in Cycles, GiveUpCycle(c) PROVE ArchInv'
  BY <1>10, OnlyCycleMoves DEF GiveUpCycle, ArchInv, ArchTypes, CyclePhases, NoCycle, CycleOK
<1>11. ASSUME NEW s \in Segments, Damage(s) PROVE ArchInv'
  <2>1. damaged' = damaged \cup {s} /\ s \in 1..files
    BY <1>11 DEF Damage, Segments, ArchInv, ArchTypes
  <2>2. ArchTypes'
    BY <1>11, <2>1 DEF Damage, ArchInv, ArchTypes, Stored
  <2>3. Readable \ content[s] \subseteq Readable'
    BY <1>11, <2>1 DEF Damage, Readable
  <2>4. EvidenceKept'
    BY <1>11, <2>3 DEF Damage, ArchInv, EvidenceKept
  <2>5. \A d \in Cycles : CycleOK(d)'
    BY <1>11, <2>1, <2>3 DEF Damage, ArchInv, CycleOK, Cataloged
  <2> QED
    BY <2>2, <2>4, <2>5 DEF ArchInv
<1>12. CASE UNCHANGED archiveVars
  BY <1>12 DEF archiveVars, ArchInv, ArchTypes, EvidenceKept, CycleOK, Cataloged, Readable, Stored
<1> QED
  BY <1>1, <1>2, <1>3, <1>4, <1>5, <1>6, <1>7, <1>8, <1>9, <1>10, <1>11, <1>12
  DEF ArchNext, CycleStep

\* The invariant holds of the archive's cycles.
THEOREM ArchInvariant == ArchSpec => []ArchInv
BY ArchInitInv, ArchStepInv, PTL DEF ArchSpec

\* No event that was stored is ever lost: it is hot or in an intact segment
\* (archive.py: eviction only after verification, catalog and eviction in one
\* transaction).
THEOREM EvidenceKeptHolds == ArchSpec => []EvidenceKept
<1>1. ArchInv => EvidenceKept
  BY DEF ArchInv
<1> QED
  BY <1>1, ArchInvariant, PTL

\* A segment takes no more rows than it may: the oldest ones up to the last of
\* them are all that count.
LEMMA OldestFew ==
  ASSUME NEW S, S \subseteq Ids
  PROVE  Oldest(S) \subseteq Ids /\ Cardinality(Oldest(S)) <= BatchRows
<1> DEFINE T == Oldest(S)
<1>1. /\ T \subseteq S /\ S \subseteq 1..MaxId /\ MaxId \in Nat /\ BatchRows \in Nat
      /\ \A e \in T : Cardinality({f \in S : f <= e}) <= BatchRows
  BY ArchiveAssumption DEF Oldest, Ids
<1>2. CASE T = {}
  BY <1>1, <1>2, FS_EmptySet DEF Ids
<1>3. CASE T # {}
  <2> HIDE DEF T
  <2> DEFINE U == {n \in Nat : \A y \in T : y <= n}
  <2>1. MaxId \in U
    BY <1>1
  <2>2. PICK n \in U : \A m \in U : n <= m
    <3>1. U \subseteq Nat /\ U # {}
      BY <2>1
    <3> HIDE DEF U
    <3> QED
      BY <3>1, LeastNat
  <2>3. n \in T
    <3> SUFFICES ASSUME n \notin T PROVE FALSE
      OBVIOUS
    <3>1. \A y \in T : y < n /\ 1 <= y /\ y \in Nat
      BY <1>1, <2>2
    <3>2. PICK x \in T : TRUE
      BY <1>3
    <3>3. n \in Nat /\ x \in Nat /\ x < n /\ 1 <= x
      BY <2>2, <3>1, <3>2
    <3>4. n - 1 \in Nat /\ \A y \in T : y <= n - 1
      BY <3>1, <3>3
    <3>5. n <= n - 1
      BY <2>2, <3>4
    <3> QED
      BY <3>3, <3>5
  <2> DEFINE V == {f \in S : f <= n}
  <2>4. Cardinality(V) <= BatchRows
    BY <1>1, <2>3
  <2>5. T \subseteq V /\ V \subseteq 1..MaxId
    BY <1>1, <2>2
  <2>6. IsFiniteSet(1..MaxId)
    BY <1>1, FS_Interval
  <2> HIDE DEF U, V
  <2>7. IsFiniteSet(V)
    BY <2>5, <2>6, FS_Subset
  <2>8. Cardinality(T) \in Nat /\ Cardinality(V) \in Nat /\ Cardinality(T) <= Cardinality(V)
    BY <2>5, <2>7, FS_Subset, FS_CardinalityType
  <2>9. Cardinality(T) <= BatchRows
    BY <1>1, <2>4, <2>8
  <2> QED
    BY <1>1, <2>9 DEF T, Ids
<1> QED
  BY <1>2, <1>3

SmallBatches == \A c \in Cycles : Cardinality(cycle[c].ids) <= BatchRows

LEMMA BatchesStaySmall ==
  ASSUME ArchInv, SmallBatches, [ArchNext]_archiveVars
  PROVE  SmallBatches'
<1>1. cycle \in [Cycles -> [at : CyclePhases, mode : {"copy", "move"},
                            ids : SUBSET Stored, seg : 0..files]]
  BY DEF ArchInv, ArchTypes
<1>2. ASSUME \A d \in Cycles : \/ cycle'[d].ids \in {cycle[d].ids, {}}
                               \/ \E S : S \subseteq Ids /\ cycle'[d].ids = Oldest(S)
      PROVE  SmallBatches'
  <2>1. Cardinality({}) = 0 /\ BatchRows \in Nat
    BY FS_EmptySet, ArchiveAssumption
  <2>2. ASSUME NEW d \in Cycles PROVE Cardinality(cycle'[d].ids) <= BatchRows
    <3>1. CASE cycle'[d].ids = cycle[d].ids
      BY <3>1 DEF SmallBatches
    <3>2. CASE cycle'[d].ids = {}
      BY <2>1, <3>2
    <3>3. CASE \E S : S \subseteq Ids /\ cycle'[d].ids = Oldest(S)
      BY <3>3, OldestFew
    <3> QED
      BY <1>2, <3>1, <3>2, <3>3
  <2> QED
    BY <2>2 DEF SmallBatches
<1>3. NoCycle.ids = {}
  BY DEF NoCycle
<1>4. hot \cap Cataloged \subseteq Ids /\ hot \ Cataloged \subseteq Ids
  <2>1. Stored \subseteq Ids
    BY ArchiveAssumption DEF ArchInv, ArchTypes, Stored, Ids
  <2> QED
    BY <2>1 DEF ArchInv, ArchTypes
<1>5. ASSUME NEW c \in Cycles, CycleStep(c) PROVE SmallBatches'
  <2>1. CASE ReadCopies(c)
    BY <1>1, <1>2, <1>4, <2>1 DEF ReadCopies
  <2>2. CASE CheckCopies(c)
    BY <1>1, <1>2, <1>3, <2>2 DEF CheckCopies
  <2>3. CASE Evict(c)
    BY <1>1, <1>2, <2>3 DEF Evict, GoTo
  <2>4. CASE Read(c)
    BY <1>1, <1>2, <1>3, <1>4, <2>4 DEF Read
  <2>5. CASE Build(c)
    BY <1>1, <1>2, <2>5 DEF Build
  <2>6. CASE Verify(c)
    BY <1>1, <1>2, <1>3, <2>6 DEF Verify
  <2>7. CASE Seal(c)
    BY <1>1, <1>2, <1>3, <2>7 DEF Seal
  <2> QED
    BY <1>5, <2>1, <2>2, <2>3, <2>4, <2>5, <2>6, <2>7 DEF CycleStep
<1>6. ASSUME NEW c \in Cycles, NEW m, BeginCycle(c, m) PROVE SmallBatches'
  BY <1>1, <1>2, <1>6 DEF BeginCycle
<1>7. ASSUME NEW c \in Cycles, GiveUpCycle(c) PROVE SmallBatches'
  BY <1>1, <1>2, <1>3, <1>7 DEF GiveUpCycle
<1>8. ASSUME UNCHANGED cycle PROVE SmallBatches'
  BY <1>8 DEF SmallBatches
<1>9. CASE Ingest \/ UNCHANGED archiveVars \/ \E s \in Segments : Damage(s)
  BY <1>8, <1>9 DEF Ingest, archiveVars, Damage
<1> QED
  BY <1>5, <1>6, <1>7, <1>9 DEF ArchNext

\* ArchTypeOK for any cycles, sizes and damage: what a cycle holds was stored
\* and is no more than a segment takes (archive.py: run_archive_cycle).
THEOREM ArchTypeCorrect == ArchSpec => []ArchTypeOK
<1>1. ArchInit => SmallBatches
  BY SMTT(60), FS_EmptySet, ArchiveAssumption DEF ArchInit, SmallBatches, NoCycle
<1>2. ASSUME ArchInv, SmallBatches PROVE ArchTypeOK
  <2>1. Stored \subseteq Ids
    BY <1>2, ArchiveAssumption DEF ArchInv, ArchTypes, Stored, Ids
  <2>2. content \in [Segments -> SUBSET Ids]
    BY <1>2, <2>1 DEF ArchInv, ArchTypes
  <2>3. cycle \in [Cycles -> [at : CyclePhases, mode : {"copy", "move"},
                              ids : SUBSET Ids, seg : 0..files]]
    BY <1>2, <2>1 DEF ArchInv, ArchTypes
  <2> QED
    BY <1>2, <2>2, <2>3 DEF ArchInv, ArchTypes, SmallBatches, ArchTypeOK, Stored
<1> QED
  BY <1>1, <1>2, BatchesStaySmall, ArchInvariant, PTL DEF ArchSpec

\* The cycles implement EventStore: what leaves the hot tables is archived, a
\* copy is only lost while its event is hot.
THEOREM ArchiveImplementsEventStore == ArchSpec => ImplementsEventStore
<1>1. ArchInit => Abstract!ESInit
  BY DEF ArchInit, Abstract!ESInit, Readable
<1>2. ArchInv /\ [ArchNext]_archiveVars => [Abstract!ESNext]_(Abstract!esVars)
  <2> SUFFICES ASSUME ArchInv, [ArchNext]_archiveVars
               PROVE  Abstract!ESNext \/ UNCHANGED Abstract!esVars
    OBVIOUS
  <2> USE ArchiveAssumption DEF ArchInv
  <2>1. CASE Ingest
    <3>1. nextId \in Ids /\ nextId \notin 1..(nextId - 1)
      BY <2>1 DEF Ingest, Ids, ArchTypes
    <3>2. (1..(nextId - 1))' = 1..(nextId - 1) \cup {nextId}
      BY <2>1 DEF Ingest, ArchTypes
    <3>3. Readable' = Readable
      BY <2>1 DEF Ingest, Readable
    <3>4. Abstract!StoreOne(nextId)
      BY <2>1, <3>1, <3>2, <3>3 DEF Ingest, Abstract!StoreOne
    <3> QED
      BY <3>1, <3>4 DEF Abstract!ESNext
  <2>2. ASSUME NEW c \in Cycles, Evict(c) PROVE Abstract!ArchiveSome
    <3>1. Readable' = Readable
      BY <2>2 DEF Evict, Readable
    <3>2. cycle[c].ids \subseteq Readable
      BY <2>2 DEF Evict, CycleOK
    <3> QED
      BY <2>2, <3>1, <3>2 DEF Evict, Abstract!ArchiveSome
  <2>3. ASSUME NEW c \in Cycles, Seal(c) PROVE Abstract!ArchiveSome
    <3> DEFINE g == cycle[c].seg
    <3>1. /\ g \in Segments /\ g \notin damaged /\ cycle[c].ids \subseteq content[g]
          /\ sealed' = sealed \cup {g}
      BY <2>3 DEF Seal, ArchTypes, CycleOK, Segments
    <3>2. Readable' = Readable \cup content[g]
      BY <2>3, <3>1 DEF Seal, Readable
    <3>3. content[g] \subseteq hot \cup Readable
      BY <3>1 DEF ArchTypes, EvidenceKept, Stored
    <3>4. hot' \subseteq hot /\ hot \ hot' \subseteq Readable'
      BY <2>3, <3>1, <3>2 DEF Seal
    <3>5. nextId' = nextId
      BY <2>3 DEF Seal
    <3> QED
      BY <3>2, <3>3, <3>4, <3>5 DEF Abstract!ArchiveSome
  <2>4. ASSUME NEW s \in Segments, Damage(s) PROVE Abstract!LoseCopies
    <3>1. /\ Readable' \subseteq Readable /\ Readable \ Readable' \subseteq content[s]
          /\ content[s] \subseteq hot
      BY <2>4 DEF Damage, Readable
    <3>2. nextId' = nextId /\ hot' = hot
      BY <2>4 DEF Damage
    <3> QED
      BY <3>1, <3>2 DEF Abstract!LoseCopies
  <2>5. ASSUME NEW c \in Cycles, Build(c) PROVE UNCHANGED Abstract!esVars
    <3>1. files + 1 \notin sealed
      BY DEF ArchTypes
    <3>2. Readable' = Readable
      BY <2>5, <3>1, SealedAreSegments DEF Build, Readable, ArchTypes
    <3>3. nextId' = nextId /\ hot' = hot
      BY <2>5 DEF Build
    <3> QED
      BY <3>2, <3>3 DEF Abstract!esVars
  <2>6. ASSUME NEW c \in Cycles,
               \/ \E m \in {"copy", "move"} : BeginCycle(c, m)
               \/ ReadCopies(c) \/ CheckCopies(c) \/ Read(c) \/ Verify(c)
               \/ GiveUpCycle(c)
        PROVE  UNCHANGED Abstract!esVars
    BY <2>6 DEF BeginCycle, ReadCopies, CheckCopies, Read, Verify, GiveUpCycle,
                Abstract!esVars, Readable
  <2>7. CASE UNCHANGED archiveVars
    BY <2>7 DEF archiveVars, Abstract!esVars, Readable
  <2> QED
    BY <2>1, <2>2, <2>3, <2>4, <2>5, <2>6, <2>7 DEF ArchNext, CycleStep, Abstract!ESNext
<1> QED
  BY <1>1, <1>2, ArchInvariant, PTL DEF ArchSpec, ImplementsEventStore, Abstract!ESSpec
-----------------------------------------------------------------------------
(***************************************************************************)
(* DetectionEmit.  A stream that was not split is linked to the only alert *)
(* it has, and whoever holds the state row goes by that link.              *)
(***************************************************************************)
LinkRow == [alert : Nat, age : Nat]
AlertRow == [stream : Streams, open : BOOLEAN, occurrences : Nat]
EmitterState == [at : {"idle", "read", "write"}, stream : Streams, old : Nat]
EmitTypes ==
  /\ backend \in EmitBackends /\ alerts \in 0..MaxAlerts
  /\ links \in [Streams -> LinkRow] /\ alertOf \in [1..MaxAlerts -> AlertRow]
  /\ emitter \in [Emitters -> EmitterState] /\ found \in [Streams -> Nat]
  /\ split \subseteq Streams /\ mergedIn \in BOOLEAN
  /\ \A e \in Emitters : emitter[e].at = "idle" <=> rowLock # e

Linked == {k \in Streams : links[k].alert # 0}
LinksOK ==
  /\ \A k \in Linked : links[k].alert \in AlertsOf(k)
  /\ \A j, k \in Linked : j # k => links[j].age # links[k].age
  /\ Cardinality(Linked) <= KeysKept
UnsplitOK == \A k \in Streams \ split : \A a \in AlertsOf(k) : links[k].alert = a /\ alertOf[a].open
EmitterOK(e) ==
  LET k == emitter[e].stream  old == emitter[e].old IN
  /\ emitter[e].at \in {"read", "write"} /\ old # 0 => old \in AlertsOf(k)
  /\ emitter[e].at = "read" => old = links[k].alert
  /\ emitter[e].at = "write" => /\ k \notin split => old = links[k].alert
                                /\ backend = "sqlite" /\ old # 0 => alertOf[old].open
EmitInv == /\ EmitTypes /\ LinksOK /\ UnsplitOK /\ (\A e \in Emitters : EmitterOK(e))
           /\ EveryFindingCounted /\ ResolvedNotReused
-----------------------------------------------------------------------------
LEMMA NoLinkOK == NoLink \in LinkRow /\ NoLink.alert = 0 /\ NoLink.age = 0
BY DEF NoLink, LinkRow

KeptWith(w, k, a) ==
  /\ w \in [Streams -> LinkRow] /\ w[k].alert = a
  /\ \A j \in Streams : j # k => w[j].alert \in {links[j].alert, 0}
  /\ \A i, j \in Streams : w[i].alert # 0 /\ w[j].alert # 0 /\ i # j => w[i].age # w[j].age
  /\ Cardinality({j \in Streams : w[j].alert # 0}) <= KeysKept
\* The newest identities: that of the stream, and of the others those that are
\* not too many, in the order they had.
LEMMA NewestOK ==
  ASSUME links \in [Streams -> LinkRow], NEW k \in Streams, NEW a \in Nat \ {0},
         \A i, j \in Linked : i # j => links[i].age # links[j].age
  PROVE  KeptWith(Newest(k, a), k, a)
<1>1. PICK older : older = [j \in Streams |-> IF links[j].alert = 0 THEN NoLink
                                              ELSE [links[j] EXCEPT !.age = links[j].age + 1]]
  OBVIOUS
<1>2. PICK now_ : now_ = [older EXCEPT ![k] = [alert |-> a, age |-> 0]]
  OBVIOUS
<1> DEFINE Younger(j) == {i \in Streams : now_[i].alert # 0 /\ now_[i].age < now_[j].age}
<1>3. PICK rank : rank = [j \in Streams |-> Cardinality(Younger(j))]
  OBVIOUS
<1>4. PICK kept : kept = [j \in Streams |-> IF now_[j].alert # 0 /\ rank[j] < KeysKept
                            THEN [now_[j] EXCEPT !.age = rank[j]] ELSE NoLink]
  OBVIOUS
<1>5. Newest(k, a) = kept
  BY <1>1, <1>2, <1>3, <1>4 DEF Newest
<1>6. ASSUME NEW j \in Streams
      PROVE  /\ older[j] \in LinkRow /\ older[j].alert = links[j].alert
             /\ links[j].alert # 0 => older[j].age = links[j].age + 1
  <2>1. PICK l \in LinkRow : l = links[j]
    OBVIOUS
  <2>2. CASE l.alert = 0
    BY <1>1, <2>1, <2>2, NoLinkOK
  <2>3. CASE l.alert # 0
    <3>1. older[j] = [l EXCEPT !.age = l.age + 1] /\ l.age + 1 \in Nat
      BY <1>1, <2>1, <2>3 DEF LinkRow
    <3> QED
      BY <2>1, <3>1 DEF LinkRow
  <2> QED
    BY <2>2, <2>3
<1>7. /\ now_[k] = [alert |-> a, age |-> 0] /\ now_[k].alert = a /\ now_[k].age = 0
      /\ \A j \in Streams : j # k => now_[j] = older[j]
  BY <1>1, <1>2
<1>8. ASSUME NEW j \in Streams PROVE now_[j] \in LinkRow /\ now_[j].alert \in Nat /\ now_[j].age \in Nat
  BY <1>6, <1>7 DEF LinkRow
<1>9. ASSUME NEW i \in Streams, NEW j \in Streams, i # j, now_[i].alert # 0, now_[j].alert # 0
      PROVE  now_[i].age # now_[j].age
  <2>1. CASE i = k
    <3>1. now_[j].age = links[j].age + 1 /\ links[j].age \in Nat
      BY <1>6, <1>7, <1>9, <2>1 DEF LinkRow
    <3> QED
      BY <1>7, <2>1, <3>1
  <2>2. CASE j = k
    <3>1. now_[i].age = links[i].age + 1 /\ links[i].age \in Nat
      BY <1>6, <1>7, <1>9, <2>2 DEF LinkRow
    <3> QED
      BY <1>7, <2>2, <3>1
  <2>3. CASE i # k /\ j # k
    <3>1. /\ now_[i].age = links[i].age + 1 /\ links[i].age \in Nat /\ i \in Linked
          /\ now_[j].age = links[j].age + 1 /\ links[j].age \in Nat /\ j \in Linked
      BY <1>6, <1>7, <1>9, <2>3 DEF LinkRow, Linked
    <3>2. links[i].age # links[j].age
      BY <1>9, <3>1
    <3> QED
      BY <3>1, <3>2
  <2> QED
    BY <2>1, <2>2, <2>3
<1>10. ASSUME NEW j \in Streams PROVE IsFiniteSet(Younger(j)) /\ rank[j] \in Nat /\ rank[j] = Cardinality(Younger(j))
  <2>1. IsFiniteSet(Younger(j))
    BY EmitAssumption, FS_Subset
  <2> QED
    BY <1>3, <2>1, FS_CardinalityType
<1>11. ASSUME NEW i \in Streams, NEW j \in Streams, now_[i].alert # 0, now_[i].age < now_[j].age
       PROVE  rank[i] < rank[j]
  <2>1. now_[i].age \in Nat /\ now_[j].age \in Nat
    BY <1>8
  <2>2. ASSUME NEW h \in Younger(i) PROVE h \in Younger(j)
    <3>1. h \in Streams /\ now_[h].age \in Nat /\ now_[h].age < now_[i].age /\ now_[h].alert # 0
      BY <1>8
    <3> QED
      BY <1>11, <2>1, <3>1
  <2>3. i \in Younger(j) /\ i \notin Younger(i)
    BY <1>11, <2>1
  <2>4. Younger(i) \in SUBSET Younger(j) /\ Younger(i) # Younger(j)
    BY <2>2, <2>3
  <2> HIDE DEF Younger
  <2>5. Cardinality(Younger(i)) <= Cardinality(Younger(j)) /\ Cardinality(Younger(i)) # Cardinality(Younger(j))
    BY <1>10, <2>4, FS_Subset
  <2> QED
    BY <1>10, <2>5
<1>12. ASSUME NEW i \in Streams, NEW j \in Streams, i # j, now_[i].alert # 0, now_[j].alert # 0
       PROVE  rank[i] # rank[j]
  <2>1. now_[i].age \in Nat /\ now_[j].age \in Nat /\ now_[i].age # now_[j].age
    BY <1>8, <1>9, <1>12
  <2>2. rank[i] \in Nat /\ rank[j] \in Nat
    BY <1>10
  <2>3. CASE now_[i].age < now_[j].age
    BY <1>11, <1>12, <2>2, <2>3
  <2>4. CASE now_[j].age < now_[i].age
    BY <1>11, <1>12, <2>2, <2>4
  <2> QED
    BY <2>1, <2>3, <2>4
<1>13. rank[k] = 0 /\ rank[k] < KeysKept
  <2>1. ASSUME NEW i \in Younger(k) PROVE FALSE
    BY <1>7, <1>8
  <2>2. Younger(k) = {}
    BY <2>1
  <2>3. rank[k] = Cardinality(Younger(k))
    BY <1>10
  <2> HIDE DEF Younger
  <2>4. rank[k] = 0
    BY <2>2, <2>3, FS_EmptySet
  <2> QED
    BY <2>4, EmitAssumption
<1>14. ASSUME NEW j \in Streams
       PROVE  /\ kept[j] \in LinkRow
              /\ kept[j].alert # 0 <=> now_[j].alert # 0 /\ rank[j] < KeysKept
              /\ kept[j].alert # 0 => kept[j].alert = now_[j].alert /\ kept[j].age = rank[j]
  <2>1. CASE now_[j].alert # 0 /\ rank[j] < KeysKept
    <3>1. kept[j] = [now_[j] EXCEPT !.age = rank[j]]
      BY <1>4, <2>1
    <3>2. kept[j] \in LinkRow /\ kept[j].alert = now_[j].alert /\ kept[j].age = rank[j]
      BY <1>8, <1>10, <3>1 DEF LinkRow
    <3> QED
      BY <2>1, <3>2
  <2>2. CASE ~(now_[j].alert # 0 /\ rank[j] < KeysKept)
    BY <1>4, <2>2, NoLinkOK
  <2> QED
    BY <2>1, <2>2
<1> HIDE DEF Younger
<1>15. kept \in [Streams -> LinkRow]
  BY <1>4, <1>14
<1>16. kept[k].alert = a
  BY <1>7, <1>13, <1>14
<1>17. ASSUME NEW j \in Streams, j # k PROVE kept[j].alert \in {links[j].alert, 0}
  BY <1>6, <1>7, <1>14, <1>17
<1>18. ASSUME NEW i \in Streams, NEW j \in Streams, kept[i].alert # 0, kept[j].alert # 0, i # j
       PROVE  kept[i].age # kept[j].age
  BY <1>12, <1>14, <1>18
<1>19. Cardinality({j \in Streams : kept[j].alert # 0}) <= KeysKept
  <2> DEFINE K == {j \in Streams : kept[j].alert # 0}
             f == [j \in K |-> rank[j]]
             R == 0..(KeysKept - 1)
  <2>1. \A j \in K : rank[j] \in R
    BY <1>10, <1>14, EmitAssumption
  <2>2. \A i, j \in K : i # j => rank[i] # rank[j]
    BY <1>12, <1>14
  <2>3. f \in Injection(K, R)
    BY <2>1, <2>2 DEF Injection, IsInjective
  <2>4. IsFiniteSet(R) /\ Cardinality(R) = KeysKept
    BY FS_Interval, EmitAssumption
  <2> HIDE DEF K, f, R
  <2>5. Cardinality(K) <= Cardinality(R)
    BY <2>3, <2>4, FS_Injection
  <2> QED
    BY <2>4, <2>5 DEF K
<1> QED
  BY <1>5, <1>15, <1>16, <1>17, <1>18, <1>19 DEF KeptWith
-----------------------------------------------------------------------------
LEMMA AlertsFinite ==
  ASSUME EmitTypes, NEW k \in Streams
  PROVE  /\ IsFiniteSet(AlertsOf(k)) /\ AlertsOf(k) \subseteq 1..MaxAlerts
         /\ \A a \in AlertsOf(k) : a \in Nat \ {0} /\ a <= alerts /\ alertOf[a].stream = k
<1>1. alerts \in Nat /\ alerts <= MaxAlerts
  BY EmitAssumption DEF EmitTypes
<1>2. IsFiniteSet(1..alerts)
  BY <1>1, FS_Interval
<1>3. AlertsOf(k) \in SUBSET (1..alerts)
  BY DEF AlertsOf
<1> QED
  BY <1>1, <1>2, <1>3, FS_Subset, EmitAssumption DEF AlertsOf

LEMMA AlertTyped ==
  ASSUME EmitTypes, NEW a \in 1..MaxAlerts
  PROVE  /\ alertOf[a] \in AlertRow /\ alertOf[a].occurrences \in Nat
         /\ alertOf[a].stream \in Streams /\ alertOf[a].open \in BOOLEAN
BY DEF EmitTypes, AlertRow

LEMMA LinkTyped ==
  ASSUME EmitTypes, NEW k \in Streams
  PROVE  links[k] \in LinkRow /\ links[k].alert \in Nat /\ links[k].age \in Nat
BY DEF EmitTypes, LinkRow

LEMMA EmitterTyped ==
  ASSUME EmitTypes, NEW e \in Emitters
  PROVE  /\ emitter[e] \in EmitterState /\ emitter[e].at \in {"idle", "read", "write"}
         /\ emitter[e].stream \in Streams /\ emitter[e].old \in Nat
BY DEF EmitTypes, EmitterState

\* Who is at work holds the state row, so that no other one is.
LEMMA OneAtWork ==
  ASSUME EmitTypes, NEW e \in Emitters
  PROVE  /\ emitter[e].at # "idle" => rowLock = e
         /\ emitter[e].at # "idle" => \A f \in Emitters : f # e => emitter[f].at = "idle"
         /\ rowLock = "free" => emitter[e].at = "idle"
BY EmitAssumption DEF EmitTypes

LEMMA QuietOK == Quiet \in EmitterState /\ Quiet.at = "idle"
BY EmitAssumption DEF Quiet, EmitterState

LEMMA EmitInitInv == EmitInit => EmitInv
<1> SUFFICES ASSUME EmitInit PROVE EmitInv
  OBVIOUS
<1> USE DEF EmitInit
<1>1. /\ links \in [Streams -> LinkRow] /\ \A k \in Streams : links[k].alert = 0
  BY NoLinkOK
<1>2. emitter \in [Emitters -> EmitterState] /\ \A e \in Emitters : emitter[e].at = "idle"
  BY QuietOK
<1>3. alertOf \in [1..MaxAlerts -> AlertRow]
  <2>1. [stream |-> Quiet.stream, open |-> FALSE, occurrences |-> 0] \in AlertRow
    BY QuietOK DEF AlertRow, EmitterState
  <2> QED
    BY <2>1
<1>4. EmitTypes
  <2>1. alerts \in 0..MaxAlerts /\ found \in [Streams -> Nat] /\ split \subseteq Streams
    BY EmitAssumption
  <2>2. mergedIn \in BOOLEAN /\ backend \in EmitBackends
    OBVIOUS
  <2>3. \A e \in Emitters : emitter[e].at = "idle" <=> rowLock # e
    BY <1>2, EmitAssumption
  <2> QED
    BY <1>1, <1>2, <1>3, <2>1, <2>2, <2>3 DEF EmitTypes
<1>5. ASSUME NEW k \in Streams PROVE AlertsOf(k) = {}
  BY DEF AlertsOf
<1>6. LinksOK
  <2>1. Linked = {}
    BY <1>1 DEF Linked
  <2> QED
    BY <2>1, FS_EmptySet, EmitAssumption DEF LinksOK
<1>7. ASSUME NEW k \in Streams PROVE Occurrences(k) = found[k]
  BY <1>5, SumStep, FS_EmptySet DEF Occurrences
<1> QED
  BY <1>2, <1>4, <1>5, <1>6, <1>7
     DEF EmitInv, UnsplitOK, EmitterOK, EveryFindingCounted, ResolvedNotReused

\* A step that leaves the alerts and the state row alone.
LEMMA EmitterMoves ==
  ASSUME EmitInv, UNCHANGED <<backend, links, alerts, alertOf, found, split, mergedIn>>,
         NEW e \in Emitters, NEW h \in EmitterState, emitter' = [emitter EXCEPT ![e] = h],
         h.at = "idle" <=> rowLock' # e, \A f \in Emitters : f # e => (rowLock' = f <=> rowLock = f),
         h.at # "idle" => /\ h.old # 0 => h.old \in AlertsOf(h.stream)
                          /\ h.at = "read" => h.old = links[h.stream].alert
                          /\ h.at = "write" =>
                               /\ h.stream \notin split => h.old = links[h.stream].alert
                               /\ backend = "sqlite" /\ h.old # 0 => alertOf[h.old].open
  PROVE  EmitInv'
<1>1. emitter' \in [Emitters -> EmitterState] /\ emitter'[e] = h
      /\ \A f \in Emitters : f # e => emitter'[f] = emitter[f]
  BY DEF EmitInv, EmitTypes
<1>2. EmitTypes'
  BY <1>1 DEF EmitInv, EmitTypes
<1>3. ASSUME NEW k \in Streams
      PROVE  AlertsOf(k)' = AlertsOf(k) /\ Occurrences(k)' = Occurrences(k)
  BY DEF AlertsOf, Occurrences
<1>4. LinksOK'
  <2>1. Linked' = Linked /\ Linked \subseteq Streams
    BY DEF Linked
  <2> QED
    BY <1>3, <2>1 DEF EmitInv, LinksOK
<1>5. UnsplitOK' /\ EveryFindingCounted' /\ ResolvedNotReused'
  BY <1>3 DEF EmitInv, UnsplitOK, EveryFindingCounted, ResolvedNotReused
<1>6. ASSUME NEW f \in Emitters PROVE EmitterOK(f)'
  <2>1. CASE f = e
    <3>1. h.stream \in Streams
      BY DEF EmitterState
    <3>2. AlertsOf(h.stream)' = AlertsOf(h.stream)
      BY <1>3, <3>1
    <3>3. emitter[f]' = h
      BY <1>1, <2>1
    <3> QED
      BY <3>2, <3>3 DEF EmitterOK, AlertsOf
  <2>2. CASE f # e
    <3>1. emitter[f]' = emitter[f] /\ emitter[f].stream \in Streams
      BY <1>1, <2>2, EmitterTyped DEF EmitInv
    <3>2. EmitterOK(f)
      BY DEF EmitInv
    <3> QED
      BY <3>1, <3>2 DEF EmitterOK, AlertsOf
  <2> QED
    BY <2>1, <2>2
<1> QED
  BY <1>2, <1>4, <1>5, <1>6 DEF EmitInv

LEMMA EmitLock == ASSUME EmitInv, NEW e \in Emitters, LockState(e) PROVE EmitInv'
<1>1. PICK k \in Streams :
        emitter' = [emitter EXCEPT ![e] = [at |-> "read", stream |-> k, old |-> links[k].alert]]
  BY DEF LockState
<1>2. PICK h : h = [at |-> "read", stream |-> k, old |-> links[k].alert]
  OBVIOUS
<1>3. EmitTypes
  BY DEF EmitInv
<1>4. h \in EmitterState /\ h.at = "read" /\ h.stream = k /\ h.old = links[k].alert
  BY <1>2, <1>3, LinkTyped DEF EmitterState
<1>5. h.old # 0 => h.old \in AlertsOf(k)
  BY <1>4 DEF EmitInv, LinksOK, Linked
<1>6. rowLock' = e /\ \A f \in Emitters : f # e => (rowLock' = f <=> rowLock = f)
  BY EmitAssumption DEF LockState, MayLock
<1>7. emitter' = [emitter EXCEPT ![e] = h]
  BY <1>1, <1>2
<1> QED
  BY <1>4, <1>5, <1>6, <1>7, EmitterMoves DEF LockState

LEMMA EmitRead == ASSUME EmitInv, NEW e \in Emitters, ReadAlert(e) PROVE EmitInv'
<1>1. PICK q \in EmitterState : q = emitter[e]
  BY EmitterTyped DEF EmitInv
<1>2. PICK o : o = IF q.old # 0 /\ Reusable(q.old) THEN q.old ELSE 0
  OBVIOUS
<1>3. PICK h : h = [q EXCEPT !.at = "write", !.old = o]
  OBVIOUS
<1>4. q.old \in Nat /\ o \in {q.old, 0} /\ q.stream \in Streams /\ q.at = "read"
  BY <1>1, <1>2 DEF EmitterState, ReadAlert
<1>5. h \in EmitterState /\ h.at = "write" /\ h.stream = q.stream /\ h.old = o
  <2>1. o \in Nat
    BY <1>4
  <2> QED
    BY <1>3, <1>4, <2>1 DEF EmitterState
<1>6. emitter' = [emitter EXCEPT ![e] = h]
  <2>1. emitter' = [emitter EXCEPT ![e].at = "write", ![e].old = o]
    BY <1>1, <1>2 DEF ReadAlert
  <2> QED
    BY <1>1, <1>3, <2>1 DEF EmitInv, EmitTypes
<1>7. EmitterOK(e) /\ EmitTypes
  BY DEF EmitInv
<1>8. /\ q.old # 0 => q.old \in AlertsOf(q.stream)
      /\ q.old = links[q.stream].alert
  BY <1>1, <1>4, <1>7 DEF EmitterOK
<1>9. h.stream \notin split => h.old = links[h.stream].alert
  <2>1. CASE q.old = 0
    BY <1>2, <1>5, <1>8, <2>1
  <2>2. CASE q.old # 0 /\ q.stream \notin split
    <3>1. alertOf[q.old].open
      BY <1>4, <1>8, <2>2 DEF EmitInv, UnsplitOK
    <3> QED
      BY <1>2, <1>5, <1>8, <2>2, <3>1 DEF Reusable
  <2> QED
    BY <1>5, <2>1, <2>2
<1>10. h.old # 0 => alertOf[h.old].open /\ h.old \in AlertsOf(h.stream)
  BY <1>2, <1>5, <1>8 DEF Reusable
<1>11. h.at = "idle" <=> rowLock' # e
  BY <1>1, <1>4, <1>5, <1>7, OneAtWork DEF ReadAlert
<1> QED
  BY <1>5, <1>6, <1>9, <1>10, <1>11, EmitterMoves DEF ReadAlert

LEMMA EmitRollback == ASSUME EmitInv, NEW e \in Emitters, Rollback_(e) PROVE EmitInv'
<1>1. rowLock' = "free" /\ rowLock = e
  BY DEF Rollback_
<1>2. \A f \in Emitters : f # e => (rowLock' = f <=> rowLock = f)
  BY <1>1, EmitAssumption
<1>3. rowLock' # e
  BY <1>1, EmitAssumption
<1> QED
  BY <1>2, <1>3, QuietOK, EmitterMoves DEF Rollback_
\* An analyst's change leaves every alert with its stream and its occurrences.
LEMMA EmitAnalyst == ASSUME EmitInv, NEW a \in 1..MaxAlerts, Analyst(a) PROVE EmitInv'
<1>1. EmitTypes
  BY DEF EmitInv
<1>2. PICK r \in AlertRow : r = alertOf[a]
  BY <1>1, AlertTyped
<1>3. PICK t : t = [r EXCEPT !.open = ~r.open]
  OBVIOUS
<1>4. t \in AlertRow /\ t.stream = r.stream /\ t.occurrences = r.occurrences
  <2>1. r.open \in BOOLEAN /\ (~r.open) \in BOOLEAN
    BY DEF AlertRow
  <2> QED
    BY <1>3, <2>1 DEF AlertRow
<1>5. alertOf' = [alertOf EXCEPT ![a] = t]
  BY <1>1, <1>2, <1>3 DEF Analyst, EmitTypes
<1>6. alertOf' \in [1..MaxAlerts -> AlertRow] /\ alertOf'[a] = t
      /\ \A b \in 1..MaxAlerts : b # a => alertOf'[b] = alertOf[b]
  BY <1>1, <1>4, <1>5 DEF EmitTypes
<1>7. ASSUME NEW b \in 1..MaxAlerts
      PROVE  alertOf'[b].stream = alertOf[b].stream /\ alertOf'[b].occurrences = alertOf[b].occurrences
  BY <1>2, <1>4, <1>6
<1>8. ASSUME NEW k \in Streams PROVE AlertsOf(k)' = AlertsOf(k)
  <2>1. alerts' = alerts /\ alerts <= MaxAlerts /\ alerts \in Nat
    BY <1>1, EmitAssumption DEF Analyst, EmitTypes
  <2>2. ASSUME NEW b \in 1..alerts PROVE alertOf'[b].stream = alertOf[b].stream
    BY <1>7, <2>1, EmitAssumption
  <2> QED
    BY <2>1, <2>2 DEF AlertsOf
<1>9. ASSUME NEW k \in Streams PROVE Occurrences(k)' = found'[k]
  <2>1. PICK F : F = [b \in 1..MaxAlerts |-> alertOf[b].occurrences]
    OBVIOUS
  <2>2. PICK G : G = [b \in 1..MaxAlerts |-> alertOf'[b].occurrences]
    OBVIOUS
  <2>3. PICK S : S = AlertsOf(k)
    OBVIOUS
  <2>4. IsFiniteSet(S) /\ \A b \in S : F[b] = G[b]
    BY <1>1, <1>7, <2>1, <2>2, <2>3, AlertsFinite
  <2>5. SumFunctionOnSet(F, S) = SumFunctionOnSet(G, S)
    BY <2>4, SumSame
  <2>6. Occurrences(k) = SumFunctionOnSet(F, S)
    BY <2>1, <2>3 DEF Occurrences
  <2>7. Occurrences(k)' = SumFunctionOnSet(G, S)
    BY <1>8, <2>2, <2>3 DEF Occurrences
  <2>8. Occurrences(k) = found[k] /\ found' = found
    BY DEF EmitInv, EveryFindingCounted, Analyst
  <2> QED
    BY <2>5, <2>6, <2>7, <2>8
<1>10. EmitTypes'
  <2>1. split' \subseteq Streams
    BY <1>1, <1>2 DEF Analyst, EmitTypes, AlertRow
  <2> QED
    BY <1>1, <1>6, <2>1 DEF Analyst, EmitTypes
<1>11. LinksOK'
  <2>1. Linked' = Linked /\ Linked \subseteq Streams /\ links' = links
    BY DEF Linked, Analyst
  <2> QED
    BY <1>8, <2>1 DEF EmitInv, LinksOK
<1>12. UnsplitOK'
  <2> SUFFICES ASSUME NEW k \in Streams, k \notin split', NEW b \in AlertsOf(k)'
               PROVE  links'[k].alert = b /\ alertOf'[b].open
    BY DEF UnsplitOK
  <2>1. b \in AlertsOf(k) /\ k \notin split /\ k # alertOf[a].stream /\ links' = links
    BY <1>8 DEF Analyst
  <2>2. b \in 1..MaxAlerts /\ b # a
    BY <1>1, <2>1, AlertsFinite
  <2> QED
    BY <1>6, <2>1, <2>2 DEF EmitInv, UnsplitOK
<1>13. ASSUME NEW f \in Emitters PROVE EmitterOK(f)'
  <2>1. PICK q \in EmitterState : q = emitter[f]
    BY <1>1, EmitterTyped
  <2>2. emitter'[f] = q /\ q.stream \in Streams /\ links' = links /\ backend' = backend
    BY <2>1 DEF Analyst, EmitterState
  <2>3. EmitterOK(f)
    BY DEF EmitInv
  <2>4. q.at \in {"read", "write"} /\ q.old # 0 => q.old \in AlertsOf(q.stream)'
    BY <1>8, <2>1, <2>2, <2>3 DEF EmitterOK
  <2>5. q.at = "read" => q.old = links'[q.stream].alert
    BY <2>1, <2>2, <2>3 DEF EmitterOK
  <2>6. q.at = "write" /\ q.stream \notin split' => q.old = links'[q.stream].alert
    BY <2>1, <2>2, <2>3 DEF EmitterOK, Analyst
  <2>7. q.at = "write" => backend # "sqlite"
    BY <1>1, <2>1, OneAtWork DEF Analyst
  <2>8. AlertsOf(emitter[f].stream)' = AlertsOf(q.stream)'
    BY <2>2 DEF AlertsOf
  <2> QED
    BY <2>2, <2>4, <2>5, <2>6, <2>7, <2>8 DEF EmitterOK
<1>14. EveryFindingCounted' /\ ResolvedNotReused'
  BY <1>9 DEF EmitInv, EveryFindingCounted, ResolvedNotReused, Analyst
<1> QED
  BY <1>10, <1>11, <1>12, <1>13, <1>14 DEF EmitInv

LEMMA EmitLapse == ASSUME EmitInv, NEW k \in Streams, Lapse(k) PROVE EmitInv'
<1>1. EmitTypes /\ LinksOK
  BY DEF EmitInv
<1>2. /\ links' \in [Streams -> LinkRow] /\ links'[k].alert = 0
      /\ \A j \in Streams : j # k => links'[j] = links[j]
  BY <1>1, NoLinkOK DEF Lapse, EmitTypes
<1>3. EmitTypes'
  BY <1>1, <1>2 DEF EmitTypes, Lapse
<1>4. ASSUME NEW j \in Streams
      PROVE  AlertsOf(j)' = AlertsOf(j) /\ Occurrences(j)' = Occurrences(j)
  BY DEF AlertsOf, Occurrences, Lapse
<1>5. LinksOK'
  <2>1. Linked' = Linked \ {k} /\ Linked \subseteq Streams
    BY <1>2 DEF Linked
  <2>2. IsFiniteSet(Linked)
    BY <2>1, EmitAssumption, FS_Subset
  <2>3. Cardinality(Linked') <= Cardinality(Linked) /\ Cardinality(Linked) <= KeysKept
    BY <1>1, <2>1, <2>2, FS_Subset DEF LinksOK
  <2>4. Cardinality(Linked') \in Nat /\ Cardinality(Linked) \in Nat
    BY <2>1, <2>2, FS_Subset, FS_CardinalityType
  <2>5. Cardinality(Linked)' <= KeysKept
    BY <2>3, <2>4, EmitAssumption
  <2>6. ASSUME NEW j \in Linked' PROVE links'[j].alert \in AlertsOf(j)'
    BY <1>1, <1>2, <1>4, <2>1 DEF LinksOK
  <2>7. ASSUME NEW i \in Linked', NEW j \in Linked', i # j PROVE links'[i].age # links'[j].age
    BY <1>1, <1>2, <2>1, <2>7 DEF LinksOK
  <2> QED
    BY <2>5, <2>6, <2>7 DEF LinksOK
<1>6. UnsplitOK'
  <2> SUFFICES ASSUME NEW j \in Streams, j \notin split', NEW b \in AlertsOf(j)'
               PROVE  links'[j].alert = b /\ alertOf'[b].open
    BY DEF UnsplitOK
  <2>1. j # k /\ j \notin split /\ b \in AlertsOf(j) /\ alertOf' = alertOf
    BY <1>4 DEF Lapse
  <2> QED
    BY <1>2, <2>1 DEF EmitInv, UnsplitOK
<1>7. ASSUME NEW f \in Emitters PROVE EmitterOK(f)'
  <2>1. emitter'[f].at = "idle"
    BY <1>1, OneAtWork DEF Lapse
  <2> QED
    BY <2>1 DEF EmitterOK
<1>8. EveryFindingCounted' /\ ResolvedNotReused'
  BY <1>4 DEF EmitInv, EveryFindingCounted, ResolvedNotReused, Lapse
<1> QED
  BY <1>3, <1>5, <1>6, <1>7, <1>8 DEF EmitInv

LEMMA MaxOfTwo ==
  ASSUME NEW x \in Nat, NEW y \in Nat
  PROVE  Max({x, y}) = IF x <= y THEN y ELSE x
<1>1. PICK z \in {x, y} : \A u \in {x, y} : u <= z
  OBVIOUS
<1>2. \A v \in {x, y} : (\A u \in {x, y} : u <= v) => v = z
  BY <1>1
<1>3. Max({x, y}) = z
  BY <1>1, <1>2 DEF Max
<1> QED
  BY <1>1, <1>3

\* What a finding does to the alerts: one row gets one occurrence more.
LEMMA OneMore ==
  ASSUME EmitTypes, EveryFindingCounted, NEW k \in Streams, NEW a \in 1..MaxAlerts,
         NEW t \in AlertRow, alertOf' = [alertOf EXCEPT ![a] = t], t.stream = k,
         \/ a \in AlertsOf(k) /\ t.occurrences = alertOf[a].occurrences + 1
         \/ a \notin AlertsOf(k) /\ t.occurrences = 1,
         AlertsOf(k)' = AlertsOf(k) \cup {a},
         \A j \in Streams : j # k => AlertsOf(j)' = AlertsOf(j) /\ a \notin AlertsOf(j),
         found' = [found EXCEPT ![k] = found[k] + 1]
  PROVE  EveryFindingCounted'
<1>1. PICK F : F = [b \in 1..MaxAlerts |-> alertOf[b].occurrences]
  OBVIOUS
<1>2. PICK G : G = [b \in 1..MaxAlerts |-> alertOf'[b].occurrences]
  OBVIOUS
<1>3. alertOf'[a] = t /\ \A b \in 1..MaxAlerts : b # a => alertOf'[b] = alertOf[b]
  BY DEF EmitTypes
<1>4. ASSUME NEW b \in 1..MaxAlerts PROVE F[b] \in Nat /\ F[b] = alertOf[b].occurrences
  BY <1>1, AlertTyped
<1>5. G[a] = t.occurrences /\ t.occurrences \in Nat
  BY <1>2, <1>3 DEF AlertRow
<1>6. ASSUME NEW b \in 1..MaxAlerts, b # a PROVE G[b] = F[b]
  BY <1>1, <1>2, <1>3, <1>6
<1>7. ASSUME NEW j \in Streams PROVE Occurrences(j) = SumFunctionOnSet(F, AlertsOf(j))
  BY <1>1 DEF Occurrences
<1>8. ASSUME NEW j \in Streams PROVE Occurrences(j)' = SumFunctionOnSet(G, AlertsOf(j)')
  BY <1>2 DEF Occurrences
<1>9. ASSUME NEW j \in Streams, j # k PROVE Occurrences(j)' = found'[j]
  <2>1. PICK S : S = AlertsOf(j)
    OBVIOUS
  <2>2. IsFiniteSet(S) /\ S \subseteq 1..MaxAlerts /\ a \notin S
    BY <1>9, <2>1, AlertsFinite
  <2>3. \A b \in S : F[b] = G[b]
    BY <1>6, <2>2
  <2>4. SumFunctionOnSet(F, S) = SumFunctionOnSet(G, S)
    BY <2>2, <2>3, SumSame
  <2>5. found'[j] = found[j] /\ Occurrences(j) = found[j]
    BY <1>9 DEF EmitTypes, EveryFindingCounted
  <2>6. Occurrences(j)' = SumFunctionOnSet(G, S)
    BY <1>8, <1>9, <2>1
  <2>7. Occurrences(j) = SumFunctionOnSet(F, S)
    BY <1>7, <2>1
  <2> QED
    BY <2>4, <2>5, <2>6, <2>7
<1>10. Occurrences(k)' = found'[k]
  <2>1. PICK S : S = AlertsOf(k)
    OBVIOUS
  <2>2. IsFiniteSet(S) /\ S \subseteq 1..MaxAlerts
    BY <2>1, AlertsFinite
  <2>3. PICK c : c = a
    OBVIOUS
  <2>4. IsFiniteSet(S) /\ \A b \in S \cup {c} : F[b] \in Int
    BY <1>4, <2>2, <2>3
  <2>5. \A b \in S : b # c => G[b] = F[b]
    BY <1>6, <2>2, <2>3
  <2>6. (c \in S => G[c] = F[c] + 1) /\ (c \notin S => G[c] = 1)
    BY <1>4, <1>5, <2>1, <2>3
  <2>7. SumFunctionOnSet(G, S \cup {c}) = SumFunctionOnSet(F, S) + 1
    BY <2>4, <2>5, <2>6, SumOneMore
  <2>8. found'[k] = found[k] + 1 /\ Occurrences(k) = found[k]
    BY DEF EmitTypes, EveryFindingCounted
  <2>9. Occurrences(k) = SumFunctionOnSet(F, S)
    BY <1>7, <2>1
  <2>10. Occurrences(k)' = SumFunctionOnSet(G, S \cup {a})
    BY <1>8, <2>1
  <2> QED
    BY <2>3, <2>8, <2>9, <2>10, <2>7
<1> QED
  BY <1>9, <1>10 DEF EveryFindingCounted

LEMMA EmitLink == ASSUME EmitInv, NEW e \in Emitters, Link(e) PROVE EmitInv'
<1>1. EmitTypes /\ LinksOK /\ UnsplitOK /\ EmitterOK(e) /\ EveryFindingCounted
  BY DEF EmitInv
<1>2. PICK q \in EmitterState : q = emitter[e]
  BY <1>1, EmitterTyped
<1>3. PICK k \in Streams : k = q.stream
  BY DEF EmitterState
<1>4. PICK old \in Nat : old = q.old
  BY DEF EmitterState
<1>5. PICK a : a = IF old # 0 THEN old ELSE alerts + 1
  OBVIOUS
<1>6. /\ q.at = "write" /\ a <= MaxAlerts /\ alerts' = Max({alerts, a}) /\ links' = Newest(k, a)
      /\ found' = [found EXCEPT ![k] = found[k] + 1]
      /\ mergedIn' = (mergedIn \/ (old # 0 /\ ~alertOf[old].open))
      /\ split' = split \cup {j \in Streams : links[j].alert # 0 /\ Newest(k, a)[j].alert = 0}
      /\ rowLock' = "free" /\ emitter' = [emitter EXCEPT ![e] = Quiet] /\ backend' = backend
  BY <1>2, <1>3, <1>4, <1>5 DEF Link
<1>7. /\ old # 0 => old \in AlertsOf(k)
      /\ k \notin split => old = links[k].alert
      /\ backend = "sqlite" /\ old # 0 => alertOf[old].open
  BY <1>1, <1>2, <1>3, <1>4, <1>6 DEF EmitterOK
<1>8. alerts \in Nat /\ alerts <= MaxAlerts
  BY <1>1, EmitAssumption DEF EmitTypes
<1>9. ASSUME NEW j \in Streams, NEW b \in AlertsOf(j)
      PROVE  b \in 1..MaxAlerts /\ b <= alerts /\ b # 0 /\ b \in Nat
  BY <1>1, AlertsFinite, EmitAssumption
<1>10. a \in 1..MaxAlerts /\ a \in Nat \ {0}
  BY <1>5, <1>6, <1>7, <1>8, <1>9, EmitAssumption
<1>11. alerts' = IF old # 0 THEN alerts ELSE a
  <2>1. CASE old # 0
    <3>1. a = old /\ a <= alerts
      BY <1>5, <1>7, <1>9, <2>1
    <3> QED
      BY <1>6, <1>8, <1>10, <2>1, <3>1, MaxOfTwo
  <2>2. CASE old = 0
    <3>1. a = alerts + 1
      BY <1>5, <2>2
    <3> QED
      BY <1>6, <1>8, <1>10, <2>2, <3>1, MaxOfTwo
  <2> QED
    BY <2>1, <2>2
<1>12. PICK t : t = IF old # 0 THEN [alertOf[a] EXCEPT !.occurrences = alertOf[a].occurrences + 1]
                               ELSE [stream |-> k, open |-> TRUE, occurrences |-> 1]
  OBVIOUS
<1>13. alertOf' = [alertOf EXCEPT ![a] = t]
  BY <1>2, <1>3, <1>4, <1>5, <1>12 DEF Link
<1>14. /\ t \in AlertRow /\ t.stream = k
       /\ old # 0 => t.open = alertOf[a].open /\ t.occurrences = alertOf[a].occurrences + 1
       /\ old = 0 => t.open = TRUE /\ t.occurrences = 1
  <2>1. CASE old # 0
    <3>1. PICK r \in AlertRow : r = alertOf[a]
      BY <1>1, <1>10, AlertTyped
    <3>2. r.stream = k
      BY <1>1, <1>5, <1>7, <2>1, <3>1, AlertsFinite
    <3>3. t = [r EXCEPT !.occurrences = r.occurrences + 1] /\ r.occurrences + 1 \in Nat
      BY <1>12, <2>1, <3>1 DEF AlertRow
    <3>4. t \in AlertRow /\ t.stream = r.stream /\ t.open = r.open /\ t.occurrences = r.occurrences + 1
      BY <3>3 DEF AlertRow
    <3> QED
      BY <2>1, <3>1, <3>2, <3>4
  <2>2. CASE old = 0
    BY <1>12, <2>2 DEF AlertRow
  <2> QED
    BY <2>1, <2>2
<1>15. /\ alertOf' \in [1..MaxAlerts -> AlertRow] /\ alertOf'[a] = t
       /\ \A b \in 1..MaxAlerts : b # a => alertOf'[b] = alertOf[b]
  BY <1>1, <1>10, <1>13, <1>14 DEF EmitTypes
<1>16. /\ AlertsOf(k)' = AlertsOf(k) \cup {a}
       /\ a \in AlertsOf(k) <=> old # 0
       /\ \A j \in Streams : j # k => AlertsOf(j)' = AlertsOf(j) /\ a \notin AlertsOf(j)
  <2>1. ASSUME NEW j \in Streams, NEW b
        PROVE  /\ b \in AlertsOf(j)' <=> b \in 1..alerts' /\ alertOf'[b].stream = j
               /\ b \in AlertsOf(j) <=> b \in 1..alerts /\ alertOf[b].stream = j
    BY DEF AlertsOf
  <2>2. a \in 1..alerts'
    BY <1>8, <1>10, <1>11, <1>5, <1>7, <1>9
  <2>3. ASSUME NEW b, b # a PROVE b \in 1..alerts' <=> b \in 1..alerts
    BY <1>5, <1>8, <1>10, <1>11, <2>3
  <2>4. ASSUME NEW b \in 1..alerts, b # a PROVE alertOf'[b] = alertOf[b]
    BY <1>8, <1>15, <2>4, EmitAssumption
  <2>5. a \in AlertsOf(k) <=> old # 0
    <3>1. CASE old = 0
      BY <1>5, <1>8, <1>9, <3>1
    <3> QED
      BY <1>5, <1>7, <3>1
  <2>6. ASSUME NEW j \in Streams, j # k PROVE a \notin AlertsOf(j)
    <3>1. CASE old = 0
      BY <1>5, <1>8, <1>9, <3>1
    <3>2. CASE old # 0
      BY <1>1, <1>5, <1>7, <2>6, <3>2, AlertsFinite
    <3> QED
      BY <3>1, <3>2
  <2>7. ASSUME NEW j \in Streams, NEW b, b # a PROVE b \in AlertsOf(j)' <=> b \in AlertsOf(j)
    BY <2>1, <2>3, <2>4, <2>7
  <2>8. a \in AlertsOf(k)'
    BY <1>14, <1>15, <2>1, <2>2
  <2>9. ASSUME NEW j \in Streams, j # k PROVE a \notin AlertsOf(j)'
    BY <1>14, <1>15, <2>1, <2>9
  <2>10. AlertsOf(k)' = AlertsOf(k) \cup {a}
    BY <2>7, <2>8
  <2> QED
    BY <2>5, <2>6, <2>7, <2>9, <2>10
<1>17. EveryFindingCounted'
  BY <1>1, <1>6, <1>10, <1>13, <1>14, <1>16, OneMore
<1>18. PICK w : w = Newest(k, a)
  OBVIOUS
<1>19. \A i, j \in Linked : i # j => links[i].age # links[j].age
  BY <1>1 DEF LinksOK
<1>20. /\ w \in [Streams -> LinkRow] /\ w[k].alert = a
       /\ \A j \in Streams : j # k => w[j].alert \in {links[j].alert, 0}
       /\ \A i, j \in Streams : w[i].alert # 0 /\ w[j].alert # 0 /\ i # j => w[i].age # w[j].age
       /\ Cardinality({j \in Streams : w[j].alert # 0}) <= KeysKept
  <2>1. links \in [Streams -> LinkRow]
    BY <1>1 DEF EmitTypes
  <2>2. KeptWith(w, k, a)
    <3>1. KeptWith(Newest(k, a), k, a)
      BY <1>10, <1>19, <2>1, NewestOK
    <3> QED
      BY <1>18, <3>1
  <2> QED
    BY <2>2 DEF KeptWith
<1>21. links' = w /\ split' = split \cup {j \in Streams : links[j].alert # 0 /\ w[j].alert = 0}
  BY <1>6, <1>18
<1>22. ASSUME NEW f \in Emitters PROVE emitter'[f].at = "idle"
  BY <1>1, <1>2, <1>6, QuietOK, OneAtWork DEF EmitTypes
<1>23. EmitTypes'
  <2>1. emitter' \in [Emitters -> EmitterState] /\ found' \in [Streams -> Nat]
    BY <1>1, <1>6, QuietOK DEF EmitTypes
  <2>2. alerts' \in 0..MaxAlerts
    BY <1>8, <1>10, <1>11
  <2>3. mergedIn' \in BOOLEAN
    BY <1>6
  <2>4. split' \subseteq Streams /\ backend' \in EmitBackends
    BY <1>1, <1>6, <1>21 DEF EmitTypes
  <2>5. \A f \in Emitters : emitter'[f].at = "idle" <=> rowLock' # f
    BY <1>6, <1>22, EmitAssumption
  <2> QED
    BY <1>15, <1>20, <1>21, <2>1, <2>2, <2>3, <2>4, <2>5 DEF EmitTypes
<1>24. LinksOK'
  <2>1. Linked' = {j \in Streams : w[j].alert # 0}
    BY <1>21 DEF Linked
  <2>2. ASSUME NEW j \in Linked' PROVE w[j].alert \in AlertsOf(j)'
    <3>1. j \in Streams /\ w[j].alert # 0
      BY <2>1
    <3>2. CASE j = k
      BY <1>16, <1>20, <3>2
    <3>3. CASE j # k
      <4>1. w[j].alert = links[j].alert /\ j \in Linked
        BY <1>20, <3>1, <3>3 DEF Linked
      <4> QED
        BY <1>1, <1>16, <3>1, <3>3, <4>1 DEF LinksOK
    <3> QED
      BY <3>2, <3>3
  <2>3. ASSUME NEW i \in Linked', NEW j \in Linked', i # j PROVE w[i].age # w[j].age
    BY <1>20, <2>1, <2>3
  <2> QED
    BY <1>20, <1>21, <2>1, <2>2, <2>3 DEF LinksOK
<1>25. UnsplitOK'
  <2> SUFFICES ASSUME NEW j \in Streams, j \notin split', NEW b \in AlertsOf(j)'
               PROVE  w[j].alert = b /\ alertOf'[b].open
    BY <1>21 DEF UnsplitOK
  <2>1. j \notin split
    BY <1>21
  <2>2. CASE j = k /\ b = a
    <3>1. t.open
      <4>1. CASE old # 0
        BY <1>1, <1>5, <1>14, <1>16, <2>1, <2>2, <4>1 DEF UnsplitOK
      <4> QED
        BY <1>14, <4>1
    <3> QED
      BY <1>15, <1>20, <2>2, <3>1
  <2>3. CASE j = k /\ b # a
    <3>1. b \in AlertsOf(k) /\ b # 0
      BY <1>9, <1>16, <2>3
    <3>2. links[k].alert = b /\ old = b
      BY <1>1, <1>7, <2>1, <2>3, <3>1 DEF UnsplitOK
    <3> QED
      BY <1>5, <2>3, <3>1, <3>2
  <2>4. CASE j # k
    <3>1. b \in AlertsOf(j) /\ b # 0 /\ b # a /\ b \in 1..MaxAlerts
      BY <1>9, <1>16, <2>4
    <3>2. links[j].alert = b /\ alertOf[b].open
      BY <1>1, <2>1, <3>1 DEF UnsplitOK
    <3>3. w[j].alert # 0
      BY <1>21, <3>1, <3>2
    <3>4. w[j].alert = b
      BY <1>20, <2>4, <3>2, <3>3
    <3> QED
      BY <1>15, <3>1, <3>2, <3>4
  <2> QED
    BY <2>2, <2>3, <2>4
<1>26. ResolvedNotReused'
  BY <1>6, <1>7 DEF EmitInv, ResolvedNotReused
<1>27. ASSUME NEW f \in Emitters PROVE EmitterOK(f)'
  BY <1>22 DEF EmitterOK
<1> QED
  BY <1>17, <1>23, <1>24, <1>25, <1>26, <1>27 DEF EmitInv
-----------------------------------------------------------------------------
LEMMA EmitStep == EmitInv /\ [EmitNext]_emitVars => EmitInv'
<1> SUFFICES ASSUME EmitInv, [EmitNext]_emitVars PROVE EmitInv'
  OBVIOUS
<1>1. CASE EmitNext
  BY <1>1, EmitLock, EmitRead, EmitLink, EmitRollback, EmitAnalyst, EmitLapse DEF EmitNext
<1>2. CASE UNCHANGED emitVars
  BY <1>2 DEF emitVars, EmitInv, EmitTypes, LinksOK, Linked, UnsplitOK, EmitterOK, AlertsOf,
              EveryFindingCounted, Occurrences, ResolvedNotReused
<1> QED
  BY <1>1, <1>2

LEMMA EmitAlways == EmitSpec => []EmitInv
BY EmitInitInv, EmitStep, PTL DEF EmitSpec

(* For any processes and streams: every committed finding is one occurrence *)
(* of one alert of its stream, a stream that was not split has one alert,   *)
(* and on SQLite no occurrence goes into a resolved one (emit).             *)
THEOREM FindingsAccountedHolds == EmitSpec => []FindingsAccounted
<1>1. ASSUME EmitInv PROVE OneAlertPerStream
  <2> SUFFICES ASSUME NEW k \in Streams \ split PROVE Cardinality(AlertsOf(k)) <= 1
    BY DEF OneAlertPerStream
  <2>1. EmitTypes /\ UnsplitOK
    BY <1>1 DEF EmitInv
  <2>2. AlertsOf(k) \in SUBSET {links[k].alert}
    BY <2>1 DEF UnsplitOK
  <2>3. IsFiniteSet({links[k].alert}) /\ Cardinality({links[k].alert}) = 1
    BY FS_Singleton
  <2> QED
    BY <2>2, <2>3, FS_Subset
<1>2. EmitInv => FindingsAccounted
  BY <1>1 DEF EmitInv, FindingsAccounted
<1> QED
  BY <1>2, EmitAlways, PTL

(* EmitTypeOK for any processes, streams and bounds: links point at alerts  *)
(* given out, at most KeysKept of them, and who works holds the row.        *)
THEOREM EmitTypeCorrect == EmitSpec => []EmitTypeOK
<1>1. ASSUME EmitInv PROVE EmitTypeOK
  <2>1. EmitTypes /\ LinksOK
    BY <1>1 DEF EmitInv
  <2>2. ASSUME NEW k \in Streams PROVE links[k].alert \in 0..alerts
    <3>1. alerts \in Nat /\ links[k].alert \in Nat
      BY <2>1, LinkTyped, EmitAssumption DEF EmitTypes
    <3>2. CASE links[k].alert # 0
      BY <2>1, <3>1, <3>2, AlertsFinite DEF LinksOK, Linked
    <3> QED
      BY <3>1, <3>2
  <2> QED
    BY <2>1, <2>2, EmitterTyped DEF EmitTypes, LinksOK, Linked, EmitTypeOK
<1> QED
  BY <1>1, EmitAlways, PTL
-----------------------------------------------------------------------------
(***************************************************************************)
(* Forwarder.                                                              *)
(***************************************************************************)
SenderState == [at : {"idle", "socket", "connect", "first", "second", "count", "add"},
                object : Objects, conn : 0..MaxConns, n : Nat]
RowTypes ==
  /\ versions \in Objects /\ configRow \in 0..versions
  /\ loops \subseteq 1..versions /\ loaded \in (0..versions) \ loops
SocketTypes ==
  /\ conns \in 0..MaxConns /\ closed \subseteq 1..conns /\ sock \in [Objects -> 0..conns]
  /\ wire \in [1..MaxConns -> Seq(Senders \X {1, 2})] /\ mixed \in BOOLEAN
CountTypes ==
  /\ pendingCount \in [Objects -> Nat] /\ total \in Nat
  /\ flusher \in [at : {"idle", "zero", "store"}, n : Nat]
  /\ relayed \in 0..MaxRelayed /\ complete \in Nat /\ writtenBack \in Nat
ForwardTypes == RowTypes /\ SocketTypes /\ CountTypes /\ sender \in [Senders -> SenderState]

\* A connection is the socket of one object, as long as it is not closed, and
\* nothing was sent on those that are not made yet.
SocketsOwned ==
  /\ \A o \in Objects : sock[o] \notin closed
  /\ \A o, p \in Objects : sock[o] = sock[p] /\ sock[o] # 0 => o = p
  /\ \A c \in 1..MaxConns : c > conns => wire[c] = <<>>

\* A worker between the two pieces has sent the first as the last of its
\* connection, which no other object has.
InMessage(w) ==
  sender[w].at = "second" =>
    /\ sender[w].conn \in 1..conns
    /\ \A o \in Objects : sock[o] = sender[w].conn => o = sender[w].object
    /\ ~mixed => /\ wire[sender[w].conn] # <<>>
                 /\ wire[sender[w].conn][Len(wire[sender[w].conn])] = <<w, 1>>
\* A connection with half of a message at its end is that of the worker, or
\* no object has it any more.
Halved(c) == wire[c] # <<>> /\ wire[c][Len(wire[c])][2] = 1
Whole(c) ==
  /\ \A i \in 2..Len(wire[c]) :
       wire[c][i] = <<wire[c][i - 1][1], 2>> \/ (wire[c][i - 1][2] = 2 /\ wire[c][i][2] = 1)
  /\ Halved(c) => \/ \E w \in Senders : sender[w].at = "second" /\ sender[w].conn = c
                  \/ \A o \in Objects : sock[o] # c
WiresWhole == (\A w \in Senders : InMessage(w)) /\ (~mixed => \A c \in 1..MaxConns : Whole(c))

\* A message is counted where it is: taken up, sent but not yet counted, or in
\* the pending count, in the flush and in the row.
Underway == {w \in Senders : sender[w].at \in {"socket", "connect", "first", "second"}}
Counting == {w \in Senders : sender[w].at \in {"count", "add"}}
InStore == IF flusher.at = "store" THEN flusher.n ELSE 0
OfLoaded == IF loaded = 0 THEN 0 ELSE pendingCount[loaded]
\* What a worker read is as good as the count itself, until it stores it: the
\* two are covered alike, and what a flush moves away while a worker has read
\* it is allowed twice.
CountsCovered ==
  /\ complete + Cardinality(Underway) <= relayed
  /\ \A o \in Objects : pendingCount[o] + Cardinality(Counting) <= complete
  /\ \A w \in Senders : sender[w].at = "add" => sender[w].n + Cardinality(Counting) <= complete
  /\ total + InStore + OfLoaded + Cardinality(Counting) <= complete + writtenBack
  /\ \A w \in Senders : sender[w].at = "add" /\ sender[w].object = loaded =>
       total + InStore + sender[w].n + Cardinality(Counting) <= complete + writtenBack
  /\ flusher.at = "zero" =>
       loaded # 0 /\ total + flusher.n + Cardinality(Counting) <= complete + writtenBack
\* No worker has an object that was not made yet, and it counted nothing.
Fresh(o) == pendingCount[o] = 0 /\ \A w \in Senders : sender[w].at # "idle" => sender[w].object # o
RowsFresh ==
  /\ \A o \in Objects : o > versions => Fresh(o)
  /\ configRow # 0 /\ configRow # loaded => Fresh(configRow)
ForwardInv == ForwardTypes /\ SocketsOwned /\ WiresWhole /\ CountsCovered /\ RowsFresh
-----------------------------------------------------------------------------
LEMMA InOrOut ==
  ASSUME NEW S, IsFiniteSet(S), NEW x
  PROVE  /\ Cardinality(S) \in Nat
         /\ IsFiniteSet(S \ {x}) /\ IsFiniteSet(S \cup {x})
         /\ x \in S => Cardinality(S \ {x}) = Cardinality(S) - 1
         /\ x \notin S => Cardinality(S \cup {x}) = Cardinality(S) + 1
BY FS_AddElement, FS_RemoveElement, FS_CardinalityType

LEMMA SenderTyped ==
  ASSUME ForwardTypes, NEW w \in Senders
  PROVE  /\ sender[w] \in SenderState /\ sender[w].object \in Objects /\ sender[w].conn \in 0..MaxConns
         /\ sock[sender[w].object] \in 0..conns /\ conns \in 0..MaxConns
         /\ MaxConns \in Nat /\ conns \in Nat
BY ForwardAssumption DEF ForwardTypes, SocketTypes, SenderState

LEMMA ForwardInitInv == ForwardInit => ForwardInv
<1> SUFFICES ASSUME ForwardInit PROVE ForwardInv
  OBVIOUS
<1>1. ForwardTypes
  <2>1. 1 \in Objects /\ 0 \in 0..MaxConns
    BY ForwardAssumption DEF Objects
  <2>2. RowTypes
    BY <2>1, ForwardAssumption DEF ForwardInit, RowTypes, Wanted
  <2>3. SocketTypes
    <3>1. sock \in [Objects -> 0..conns] /\ conns \in 0..MaxConns
      BY <2>1 DEF ForwardInit
    <3>2. wire \in [1..MaxConns -> Seq(Senders \X {1, 2})]
      BY DEF ForwardInit
    <3> QED
      BY <3>1, <3>2 DEF ForwardInit, SocketTypes
  <2>4. CountTypes
    BY ForwardAssumption DEF ForwardInit, CountTypes
  <2>5. sender \in [Senders -> SenderState]
    BY <2>1 DEF ForwardInit, Free, SenderState
  <2> QED
    BY <2>2, <2>3, <2>4, <2>5 DEF ForwardTypes
<1>2. SocketsOwned
  BY DEF ForwardInit, SocketsOwned
<1>3. WiresWhole
  BY DEF ForwardInit, WiresWhole, InMessage, Whole, Halved, Free
<1>4. CountsCovered
  <2>1. Underway = {} /\ Counting = {}
    BY DEF ForwardInit, Underway, Counting, Free
  <2>2. Cardinality(Underway) = 0 /\ Cardinality(Counting) = 0
    BY <2>1, FS_EmptySet
  <2>3. 1 \in Objects
    BY ForwardAssumption DEF Objects
  <2>4. \A w \in Senders : sender[w].at = "idle"
    BY DEF ForwardInit, Free
  <2>5. /\ \A o \in Objects : pendingCount[o] = 0
        /\ total = 0 /\ complete = 0 /\ relayed = 0 /\ writtenBack = 0 /\ flusher.at = "idle"
        /\ loaded # 0 => loaded \in Objects
    BY <2>3 DEF ForwardInit, Wanted
  <2>6. InStore = 0 /\ OfLoaded = 0
    BY <2>5 DEF InStore, OfLoaded
  <2> QED
    BY <2>2, <2>4, <2>5, <2>6 DEF CountsCovered
<1>5. RowsFresh
  <2>1. \A w \in Senders : sender[w].at = "idle"
    BY DEF ForwardInit, Free
  <2>2. \A o \in Objects : pendingCount[o] = 0
    BY DEF ForwardInit
  <2>3. configRow \in Objects
    BY ForwardAssumption DEF ForwardInit, Objects
  <2> QED
    BY <2>1, <2>2, <2>3 DEF RowsFresh, Fresh
<1> QED
  BY <1>1, <1>2, <1>3, <1>4, <1>5 DEF ForwardInv

\* The steps keep the types.
LEMMA ForwardTypesStep ==
  ASSUME ForwardInv, ForwardNext
  PROVE  ForwardTypes'
<1> USE ForwardAssumption
<1>0. RowTypes /\ SocketTypes /\ CountTypes /\ sender \in [Senders -> SenderState]
  BY DEF ForwardInv, ForwardTypes
<1>a. ASSUME NEW w \in Senders, NEW s \in SenderState, Go(w, s)
      PROVE  sender' \in [Senders -> SenderState]
  BY <1>0, <1>a DEF Go
<1>f. Free \in SenderState
  BY DEF Free, SenderState, Objects
<1>o. \A o \in Objects : o \in Nat /\ o >= 1
  BY DEF Objects
<1>c. ASSUME NEW o \in Objects, CloseTcp(o), UNCHANGED <<conns, wire, mixed>>
      PROVE  SocketTypes'
  <2>1. sock[o] \in 0..conns /\ conns \in Nat
    BY <1>0 DEF SocketTypes
  <2>2. closed' \subseteq 1..conns
    <3>1. \A c \in {sock[o]} \ {0} : c \in 1..conns
      BY <2>1
    <3> QED
      BY <1>0, <1>c, <3>1 DEF SocketTypes, CloseTcp
  <2>3. sock' \in [Objects -> 0..conns]
    BY <1>0, <1>c, <2>1 DEF SocketTypes, CloseTcp
  <2> QED
    BY <1>0, <1>c, <2>2, <2>3 DEF SocketTypes
<1>1. ASSUME NEW w \in Senders, Take(w) PROVE ForwardTypes'
  <2>1. loaded \in Objects
    BY <1>0, <1>1, <1>o DEF Take, RowTypes, Objects
  <2>2. [Free EXCEPT !.at = "socket", !.object = loaded] \in SenderState
    BY <1>f, <2>1 DEF SenderState, Free
  <2>3. relayed' \in 0..MaxRelayed
    BY <1>0, <1>1 DEF Take, CountTypes
  <2>4. sender' \in [Senders -> SenderState]
    BY <1>1, <1>a, <2>2 DEF Take
  <2> QED
    BY <1>0, <1>1, <2>3, <2>4 DEF Take, ForwardTypes, RowTypes, SocketTypes, CountTypes, configured,
       connected, counted
<1>2. ASSUME NEW w \in Senders, LookForSocket(w) PROVE ForwardTypes'
  <2>1. sender[w] \in SenderState
    BY <1>0
  <2>2. [sender[w] EXCEPT !.at = IF Socket(w) = 0 THEN "connect" ELSE "first"] \in SenderState
    BY <2>1 DEF SenderState
  <2>3. sender' \in [Senders -> SenderState]
    BY <1>2, <1>a, <2>2 DEF LookForSocket
  <2> QED
    BY <1>0, <1>2, <2>3 DEF LookForSocket, ForwardTypes, RowTypes, SocketTypes, CountTypes, configured,
       connected, counted
<1>3. ASSUME NEW w \in Senders, Connect(w) PROVE ForwardTypes'
  <2>1. sender[w] \in SenderState /\ sender[w].object \in Objects
    BY <1>0 DEF SenderState
  <2>2. [sender[w] EXCEPT !.at = "first"] \in SenderState
    BY <2>1 DEF SenderState
  <2>3. sender' \in [Senders -> SenderState]
    BY <1>3, <1>a, <2>2 DEF Connect
  <2>4. conns' \in 0..MaxConns /\ conns' = conns + 1 /\ conns \in Nat
    BY <1>0, <1>3 DEF Connect, SocketTypes
  <2>5. sock' \in [Objects -> 0..conns']
    <3>1. \A o \in Objects : sock[o] \in 0..conns'
      BY <1>0, <2>4 DEF SocketTypes
    <3> QED
      BY <1>0, <1>3, <2>1, <2>4, <3>1 DEF Connect, SocketTypes
  <2>6. SocketTypes'
    BY <1>0, <1>3, <2>4, <2>5 DEF Connect, SocketTypes
  <2> QED
    BY <1>0, <1>3, <2>3, <2>6 DEF Connect, ForwardTypes, RowTypes, CountTypes, configured, counted
<1>4. ASSUME NEW w \in Senders, SendFirst(w) PROVE ForwardTypes'
  <2>1. sender[w] \in SenderState /\ sender[w].object \in Objects
    BY <1>0 DEF SenderState
  <2>2. PICK c : c = Socket(w)
    OBVIOUS
  <2>3. c \in 1..MaxConns
    BY <1>0, <1>4, <2>1, <2>2 DEF Socket, SendFirst, Usable, SocketTypes
  <2>4. [sender[w] EXCEPT !.at = "second", !.conn = c] \in SenderState
    <3>1. c \in 0..MaxConns
      BY <2>3
    <3> QED
      BY <2>1, <3>1 DEF SenderState
  <2>5. sender' \in [Senders -> SenderState]
    BY <1>4, <1>a, <2>2, <2>4 DEF SendFirst
  <2>6. wire' \in [1..MaxConns -> Seq(Senders \X {1, 2})]
    <3>1. Append(wire[c], <<w, 1>>) \in Seq(Senders \X {1, 2})
      BY <1>0, <2>3 DEF SocketTypes
    <3>2. wire' = [wire EXCEPT ![c] = Append(wire[c], <<w, 1>>)]
      BY <1>4, <2>2 DEF SendFirst
    <3> QED
      BY <1>0, <3>1, <3>2 DEF SocketTypes
  <2>7. mixed' \in BOOLEAN
    BY <1>4 DEF SendFirst
  <2>8. SocketTypes'
    BY <1>0, <1>4, <2>6, <2>7 DEF SendFirst, SocketTypes
  <2> QED
    BY <1>0, <1>4, <2>5, <2>8 DEF SendFirst, ForwardTypes, RowTypes, CountTypes, configured, counted
<1>5. ASSUME NEW w \in Senders, SendSecond(w) PROVE ForwardTypes'
  <2>1. sender[w] \in SenderState
    BY <1>0
  <2>2. PICK c : c = sender[w].conn
    OBVIOUS
  <2>3. c \in 1..MaxConns
    BY <1>5, <2>1, <2>2 DEF SendSecond, Usable, SenderState
  <2>4. [sender[w] EXCEPT !.at = "count"] \in SenderState
    BY <2>1 DEF SenderState
  <2>5. sender' \in [Senders -> SenderState]
    BY <1>5, <1>a, <2>4 DEF SendSecond
  <2>6. wire' \in [1..MaxConns -> Seq(Senders \X {1, 2})]
    <3>1. Append(wire[c], <<w, 2>>) \in Seq(Senders \X {1, 2})
      BY <1>0, <2>3 DEF SocketTypes
    <3>2. wire' = [wire EXCEPT ![c] = Append(wire[c], <<w, 2>>)]
      BY <1>5, <2>2 DEF SendSecond
    <3> QED
      BY <1>0, <3>1, <3>2 DEF SocketTypes
  <2>7. SocketTypes'
    BY <1>0, <1>5, <2>6 DEF SendSecond, SocketTypes
  <2>8. CountTypes'
    BY <1>0, <1>5 DEF SendSecond, CountTypes, counted
  <2> QED
    BY <1>0, <1>5, <2>5, <2>7, <2>8 DEF SendSecond, ForwardTypes, RowTypes, configured
<1>6. ASSUME NEW w \in Senders, StoreCount(w) PROVE ForwardTypes'
  <2>1. sender[w].object \in Objects /\ sender[w].n + 1 \in Nat
    BY <1>0 DEF SenderState
  <2>2. sender' \in [Senders -> SenderState]
    BY <1>6, <1>a, <1>f DEF StoreCount
  <2>3. pendingCount' \in [Objects -> Nat]
    BY <1>0, <1>6, <2>1 DEF StoreCount, CountTypes
  <2> QED
    BY <1>0, <1>6, <2>2, <2>3 DEF StoreCount, ForwardTypes, RowTypes, SocketTypes, CountTypes, configured,
       connected, counted
<1>13. ASSUME NEW w \in Senders, ReadCount(w) PROVE ForwardTypes'
  <2>1. PICK q : q = pendingCount[sender[w].object]
    OBVIOUS
  <2>2. sender[w] \in SenderState /\ q \in Nat
    BY <1>0, <2>1 DEF SenderState, CountTypes
  <2>3. [sender[w] EXCEPT !.at = "add", !.n = q] \in SenderState
    BY <2>2 DEF SenderState
  <2>4. sender' \in [Senders -> SenderState]
    BY <1>13, <1>a, <2>1, <2>3 DEF ReadCount
  <2> QED
    BY <1>0, <1>13, <2>4 DEF ReadCount, ForwardTypes, RowTypes, SocketTypes, CountTypes, configured,
       connected, counted
<1>7. ASSUME NEW w \in Senders, SendRaises(w) PROVE ForwardTypes'
  <2>1. sender[w].object \in Objects
    BY <1>0 DEF SenderState
  <2>2. sender' \in [Senders -> SenderState]
    BY <1>7, <1>a, <1>f DEF SendRaises
  <2>3. SocketTypes'
    BY <1>7, <1>c, <2>1 DEF SendRaises
  <2> QED
    BY <1>0, <1>7, <2>2, <2>3 DEF SendRaises, ForwardTypes, RowTypes, CountTypes, configured, counted
<1>8. ASSUME EditRow PROVE ForwardTypes'
  <2>1. RowTypes'
    <3>1. CASE configRow' = 0 /\ UNCHANGED <<versions, loops>>
      BY <1>0, <1>8, <3>1 DEF EditRow, RowTypes, Objects
    <3>2. CASE versions < MaxRows /\ versions' = versions + 1 /\ configRow' = versions'
               /\ loops' \in {loops, loops \cup {versions'}}
      BY <1>0, <1>8, <3>2 DEF EditRow, RowTypes, Objects
    <3> QED
      BY <1>8, <3>1, <3>2 DEF EditRow
  <2> QED
    BY <1>0, <1>8, <2>1 DEF EditRow, ForwardTypes, SocketTypes, CountTypes, connected, counted
<1>9. ASSUME ReloadRow PROVE ForwardTypes'
  <2>1. /\ loaded # 0 => loaded \in Objects
        /\ Wanted \in (0..versions) \ loops
    BY <1>0, <1>9 DEF ReloadRow, RowTypes, Objects, Wanted
  <2>2. RowTypes'
    BY <1>0, <1>9, <2>1 DEF ReloadRow, RowTypes
  <2>3. pendingCount' \in [Objects -> Nat]
    BY <1>0, <1>9, <2>1 DEF ReloadRow, CountTypes
  <2>4. SocketTypes'
    <3>1. CASE loaded # 0 /\ CloseTcp(loaded)
      BY <1>9, <1>c, <2>1, <3>1 DEF ReloadRow
    <3>2. CASE UNCHANGED <<closed, sock>>
      BY <1>0, <1>9, <3>2 DEF ReloadRow, SocketTypes
    <3> QED
      BY <1>9, <3>1, <3>2 DEF ReloadRow
  <2> QED
    BY <1>0, <1>9, <2>2, <2>3, <2>4 DEF ReloadRow, ForwardTypes, CountTypes, counted
<1>10. ASSUME ReadCounts PROVE ForwardTypes'
  <2>1. pendingCount[loaded] \in Nat
    BY <1>0, <1>10 DEF ReadCounts, RowTypes, CountTypes, Objects
  <2>2. CountTypes'
    BY <1>0, <1>10, <2>1 DEF ReadCounts, CountTypes
  <2> QED
    BY <1>0, <1>10, <2>2 DEF ReadCounts, ForwardTypes, RowTypes, SocketTypes, configured, connected
<1>11. ASSUME ZeroCounts PROVE ForwardTypes'
  <2>1. flusher' \in [at : {"idle", "zero", "store"}, n : Nat]
    BY <1>0, <1>11 DEF ZeroCounts, CountTypes
  <2>2. pendingCount' \in [Objects -> Nat]
    BY <1>0, <1>11 DEF ZeroCounts, CountTypes
  <2>3. writtenBack' \in Nat
    BY <1>0, <1>11 DEF ZeroCounts, CountTypes
  <2> QED
    BY <1>0, <1>11, <2>1, <2>2, <2>3 DEF ZeroCounts, ForwardTypes, RowTypes, SocketTypes, CountTypes, configured,
       connected
<1>12. ASSUME StoreCounts PROVE ForwardTypes'
  <2>1. total' \in Nat /\ flusher' \in [at : {"idle", "zero", "store"}, n : Nat]
    BY <1>0, <1>12 DEF StoreCounts, CountTypes
  <2> QED
    BY <1>0, <1>12, <2>1 DEF StoreCounts, ForwardTypes, RowTypes, SocketTypes, CountTypes, configured,
       connected
<1> QED
  BY <1>1, <1>2, <1>3, <1>4, <1>5, <1>6, <1>7, <1>8, <1>9, <1>10, <1>11, <1>12, <1>13
     DEF ForwardNext, SenderStep
-----------------------------------------------------------------------------
LEMMA ClosedOwned ==
  ASSUME ForwardInv, NEW o \in Objects, CloseTcp(o), UNCHANGED <<conns, wire>>
  PROVE  SocketsOwned'
<1>1. sock \in [Objects -> 0..conns] /\ closed \subseteq 1..conns /\ SocketsOwned
  BY DEF ForwardInv, ForwardTypes, SocketTypes
<1>2. \A p \in Objects : sock'[p] = IF p = o THEN 0 ELSE sock[p]
  BY <1>1 DEF CloseTcp
<1>3. 0 \notin closed'
  BY <1>1 DEF CloseTcp
<1>4. \A p \in Objects : sock'[p] \notin closed'
  BY <1>1, <1>2, <1>3 DEF SocketsOwned, CloseTcp
<1>5. \A p, q \in Objects : sock'[p] = sock'[q] /\ sock'[p] # 0 => p = q
  BY <1>1, <1>2 DEF SocketsOwned
<1> QED
  BY <1>1, <1>4, <1>5 DEF SocketsOwned

\* The steps keep the owners of the sockets.
LEMMA ForwardSocketsStep ==
  ASSUME ForwardInv, ForwardNext
  PROVE  SocketsOwned'
<1>0. ForwardTypes /\ SocketTypes /\ SocketsOwned
  BY DEF ForwardInv, ForwardTypes
<1>1. ASSUME NEW w \in Senders, Connect(w) PROVE SocketsOwned'
  <2>1. sender[w].object \in Objects /\ conns \in Nat /\ conns' = conns + 1
    BY <1>0, <1>1, SenderTyped DEF Connect
  <2>2. \A p \in Objects : sock'[p] = IF p = sender[w].object THEN conns + 1 ELSE sock[p]
    BY <1>0, <1>1, <2>1 DEF Connect, SocketTypes
  <2>3. \A p \in Objects : sock[p] \in 0..conns /\ sock[p] # conns + 1
    BY <1>0, <2>1 DEF SocketTypes
  <2>4. \A p \in Objects : sock'[p] \notin closed
    BY <1>0, <2>1, <2>2 DEF SocketsOwned, SocketTypes
  <2>5. \A p, q \in Objects : sock'[p] = sock'[q] /\ sock'[p] # 0 => p = q
    BY <1>0, <2>2, <2>3 DEF SocketsOwned
  <2>6. \A c \in 1..MaxConns : c > conns' => wire[c] = <<>>
    BY <1>0, <2>1 DEF SocketsOwned
  <2> QED
    BY <1>1, <2>4, <2>5, <2>6 DEF SocketsOwned, Connect
<1>2. ASSUME NEW w \in Senders, NEW c \in 1..conns, NEW r, wire' = [wire EXCEPT ![c] = r],
             UNCHANGED <<sock, closed, conns>>
      PROVE  SocketsOwned'
  <2>1. \A b \in 1..MaxConns : b > conns => wire'[b] = wire[b]
    BY <1>0, <1>2 DEF SocketTypes
  <2> QED
    BY <1>0, <1>2, <2>1 DEF SocketsOwned
<1>3. ASSUME NEW w \in Senders, SendFirst(w) PROVE SocketsOwned'
  <2>1. PICK c : c = Socket(w)
    OBVIOUS
  <2>2. c \in 1..conns
    BY <1>0, <1>3, <2>1, SenderTyped DEF SendFirst, Usable, Socket
  <2>3. PICK r : r = Append(wire[c], <<w, 1>>)
    OBVIOUS
  <2>4. wire' = [wire EXCEPT ![c] = r]
    BY <1>3, <2>1, <2>3 DEF SendFirst
  <2> QED
    BY <1>2, <1>3, <2>2, <2>4 DEF SendFirst
<1>4. ASSUME NEW w \in Senders, SendSecond(w) PROVE SocketsOwned'
  <2>1. PICK c : c = sender[w].conn
    OBVIOUS
  <2>2. c \in 1..conns
    BY <1>4, <2>1 DEF SendSecond, ForwardInv, WiresWhole, InMessage
  <2>3. PICK r : r = Append(wire[c], <<w, 2>>)
    OBVIOUS
  <2>4. wire' = [wire EXCEPT ![c] = r]
    BY <1>4, <2>1, <2>3 DEF SendSecond
  <2> QED
    BY <1>2, <1>4, <2>2, <2>4 DEF SendSecond
<1>5. ASSUME NEW w \in Senders, SendRaises(w) PROVE SocketsOwned'
  BY <1>0, <1>5, SenderTyped, ClosedOwned DEF SendRaises
<1>6. ASSUME ReloadRow PROVE SocketsOwned'
  <2>1. loaded # 0 => loaded \in Objects
    BY <1>0, ForwardAssumption DEF ForwardTypes, RowTypes, Objects
  <2>2. CASE UNCHANGED <<closed, sock>>
    BY <1>0, <1>6, <2>2 DEF ReloadRow, SocketsOwned
  <2> QED
    BY <1>6, <2>1, <2>2, ClosedOwned DEF ReloadRow
<1>7. ASSUME UNCHANGED <<sock, closed, conns, wire>> PROVE SocketsOwned'
  BY <1>0, <1>7 DEF SocketsOwned
<1>8. ASSUME NEW w \in Senders, Take(w) \/ LookForSocket(w) \/ ReadCount(w) \/ StoreCount(w)
      PROVE  SocketsOwned'
  BY <1>7, <1>8 DEF Take, LookForSocket, ReadCount, StoreCount, connected
<1>9. ASSUME EditRow \/ ReadCounts \/ ZeroCounts \/ StoreCounts PROVE SocketsOwned'
  BY <1>7, <1>9 DEF EditRow, ReadCounts, ZeroCounts, StoreCounts, connected
<1> QED
  BY <1>1, <1>3, <1>4, <1>5, <1>6, <1>8, <1>9 DEF ForwardNext, SenderStep
-----------------------------------------------------------------------------
\* While no sends mixed, one worker at most is in a message on a connection.
LEMMA OneInMessage ==
  ASSUME ForwardInv, ~mixed, NEW v \in Senders, NEW w \in Senders,
         sender[v].at = "second", sender[w].at = "second", sender[v].conn = sender[w].conn
  PROVE  v = w
BY DEF ForwardInv, WiresWhole, InMessage

\* A step that sends nothing: workers leave a message only when no object has
\* their connection any more.
LEMMA WiresKept ==
  ASSUME ForwardInv, UNCHANGED <<wire, mixed>>, conns' \in Nat, conns' >= conns,
         \A o \in Objects : sock'[o] = sock[o] \/ sock'[o] = 0 \/ sock'[o] = conns + 1,
         \A v \in Senders : \/ sender'[v] = sender[v]
                            \/ /\ sender'[v].at # "second"
                               /\ sender[v].at = "second" =>
                                    \A o \in Objects : sock'[o] # sender[v].conn
  PROVE  WiresWhole'
<1>0. conns \in 0..MaxConns /\ MaxConns \in Nat /\ SocketsOwned /\ WiresWhole
  BY ForwardAssumption DEF ForwardInv, ForwardTypes, SocketTypes
<1>1. ASSUME NEW v \in Senders PROVE InMessage(v)'
  <2> SUFFICES ASSUME sender'[v].at = "second" PROVE InMessage(v)'
    BY DEF InMessage
  <2>1. sender'[v] = sender[v] /\ InMessage(v)
    BY <1>0 DEF WiresWhole
  <2>2. PICK c : c = sender[v].conn
    OBVIOUS
  <2>3. c \in 1..conns /\ c \in 1..conns' /\ c # 0 /\ c # conns + 1
    BY <1>0, <2>1, <2>2 DEF InMessage
  <2>4. \A o \in Objects : sock'[o] = c => o = sender[v].object
    BY <2>1, <2>2, <2>3 DEF InMessage
  <2> QED
    BY <2>1, <2>2, <2>3, <2>4 DEF InMessage
<1>2. ASSUME ~mixed, NEW c \in 1..MaxConns PROVE Whole(c)'
  <2>1. Whole(c)
    BY <1>0, <1>2 DEF WiresWhole
  <2>2. ASSUME Halved(c)
        PROVE  \/ \E w \in Senders : sender'[w].at = "second" /\ sender'[w].conn = c
               \/ \A o \in Objects : sock'[o] # c
    <3>1. c <= conns /\ c # 0 /\ c # conns + 1
      BY <1>0, <2>2 DEF SocketsOwned, Halved
    <3>2. CASE \A o \in Objects : sock[o] # c
      BY <3>1, <3>2
    <3>3. CASE \E w \in Senders : sender[w].at = "second" /\ sender[w].conn = c
      BY <3>3
    <3> QED
      BY <2>1, <2>2, <3>2, <3>3 DEF Whole
  <2> QED
    BY <2>1, <2>2 DEF Whole, Halved
<1> QED
  BY <1>1, <1>2 DEF WiresWhole

\* After a send, connection c ends with the piece p, which follows the last.
LEMMA WireAppended ==
  ASSUME NEW S, NEW s \in Seq(S \X {1, 2}), NEW p \in S \X {1, 2},
         \A i \in 2..Len(s) : s[i] = <<s[i - 1][1], 2>> \/ (s[i - 1][2] = 2 /\ s[i][2] = 1),
         s = <<>> \/ p = <<s[Len(s)][1], 2>> \/ (s[Len(s)][2] = 2 /\ p[2] = 1),
         NEW t, t = Append(s, p)
  PROVE  /\ t # <<>> /\ t[Len(t)] = p
         /\ \A i \in 2..Len(t) : t[i] = <<t[i - 1][1], 2>> \/ (t[i - 1][2] = 2 /\ t[i][2] = 1)
<1>1. Len(t) = Len(s) + 1 /\ Len(s) \in Nat /\ t[Len(t)] = p /\ t \in Seq(S \X {1, 2})
  OBVIOUS
<1>2. \A i \in 1..Len(s) : t[i] = s[i]
  OBVIOUS
<1>3. ASSUME NEW i \in 2..Len(t)
      PROVE  t[i] = <<t[i - 1][1], 2>> \/ (t[i - 1][2] = 2 /\ t[i][2] = 1)
  <2>1. CASE i \in 2..Len(s)
    <3>1. i \in 1..Len(s) /\ i - 1 \in 1..Len(s)
      BY <2>1
    <3>2. t[i] = s[i] /\ t[i - 1] = s[i - 1]
      BY <1>2, <3>1
    <3> QED
      BY <2>1, <3>2
  <2>2. CASE i = Len(s) + 1
    <3>1. Len(s) \in 1..Len(s) /\ i - 1 = Len(s) /\ s # <<>>
      BY <1>1, <1>3, <2>2
    <3>2. t[i] = p /\ t[i - 1] = s[Len(s)]
      BY <1>1, <1>2, <2>2, <3>1
    <3> QED
      BY <3>1, <3>2
  <2> QED
    BY <1>1, <2>1, <2>2
<1> QED
  BY <1>1, <1>3
-----------------------------------------------------------------------------
\* A send by w on c, while no other worker is in a message there.
LEMMA WiresSent ==
  ASSUME ForwardInv, NEW w \in Senders, NEW c \in 1..conns, NEW k \in {1, 2},
         wire' = [wire EXCEPT ![c] = Append(wire[c], <<w, k>>)], UNCHANGED <<sock, conns>>,
         NEW s \in SenderState, sender' = [sender EXCEPT ![w] = s],
         k = 1 => s.at = "second" /\ s.conn = c /\ sock[s.object] = c,
         k = 2 => s.at # "second",
         sender[w].at = "second" => sender[w].conn = c,
         mixed => mixed',
         ~mixed' => /\ \A v \in Senders : sender[v].at = "second" /\ sender[v].conn = c => v = w
                    /\ k = 1 => ~Halved(c)
                    /\ k = 2 => Halved(c) /\ wire[c][Len(wire[c])] = <<w, 1>>
  PROVE  WiresWhole'
<1>0. /\ conns \in Nat /\ conns \in 0..MaxConns /\ MaxConns \in Nat /\ SocketsOwned /\ WiresWhole
      /\ sender \in [Senders -> SenderState] /\ c \in 1..MaxConns
      /\ wire \in [1..MaxConns -> Seq(Senders \X {1, 2})] /\ sock \in [Objects -> 0..conns]
  BY ForwardAssumption DEF ForwardInv, ForwardTypes, SocketTypes
<1>1. PICK t : t = Append(wire[c], <<w, k>>)
  OBVIOUS
<1>2. wire'[c] = t /\ \A d \in 1..MaxConns : d # c => wire'[d] = wire[d]
  BY <1>0, <1>1
<1>3. sender'[w] = s /\ \A v \in Senders : v # w => sender'[v] = sender[v]
  BY <1>0
<1>4. wire[c] \in Seq(Senders \X {1, 2}) /\ <<w, k>> \in Senders \X {1, 2}
  BY <1>0
<1>5. t # <<>> /\ t[Len(t)] = <<w, k>>
  BY <1>1, <1>4
<1>6. ASSUME NEW v \in Senders PROVE InMessage(v)'
  <2>1. CASE v = w /\ k = 1
    <3>1. s.object \in Objects
      BY DEF SenderState
    <3>2. \A o \in Objects : sock[o] = c => o = s.object
      BY <1>0, <2>1, <3>1 DEF SocketsOwned
    <3> QED
      BY <1>2, <1>3, <1>5, <2>1, <3>2 DEF InMessage
  <2>2. CASE v = w /\ k = 2
    BY <1>3, <2>2 DEF InMessage
  <2>3. CASE v # w
    <3> SUFFICES ASSUME sender[v].at = "second" PROVE InMessage(v)'
      BY <1>3, <2>3 DEF InMessage
    <3>1. PICK d : d = sender[v].conn
      OBVIOUS
    <3>2. InMessage(v)
      BY <1>0 DEF WiresWhole
    <3>3. d \in 1..conns /\ d \in 1..MaxConns /\ \A o \in Objects : sock[o] = d => o = sender[v].object
      BY <1>0, <3>1, <3>2 DEF InMessage
    <3>4. ASSUME ~mixed' PROVE wire'[d] = wire[d]
      BY <1>2, <2>3, <3>1, <3>3, <3>4
    <3>5. ASSUME ~mixed' PROVE wire[d] # <<>> /\ wire[d][Len(wire[d])] = <<v, 1>>
      BY <3>1, <3>2, <3>5 DEF InMessage
    <3> QED
      BY <1>3, <2>3, <3>1, <3>3, <3>4, <3>5 DEF InMessage
  <2> QED
    BY <2>1, <2>2, <2>3
<1>7. ASSUME ~mixed', NEW d \in 1..MaxConns PROVE Whole(d)'
  <2>1. Whole(d) /\ Whole(c)
    BY <1>0, <1>7 DEF WiresWhole
  <2>2. CASE d = c
    <3>1. wire[c] = <<>> \/ <<w, k>> = <<wire[c][Len(wire[c])][1], 2>>
            \/ (wire[c][Len(wire[c])][2] = 2 /\ <<w, k>>[2] = 1)
      <4>1. CASE k = 1
        <5>1. wire[c] # <<>> => wire[c][Len(wire[c])] \in Senders \X {1, 2}
          BY <1>4
        <5> QED
          BY <1>7, <4>1, <5>1 DEF Halved
      <4>2. CASE k = 2
        BY <1>7, <4>2
      <4> QED
        BY <4>1, <4>2
    <3>2. \A i \in 2..Len(t) : t[i] = <<t[i - 1][1], 2>> \/ (t[i - 1][2] = 2 /\ t[i][2] = 1)
      <4>1. PICK q : q = wire[c]
        OBVIOUS
      <4>2. \A i \in 2..Len(q) : q[i] = <<q[i - 1][1], 2>> \/ (q[i - 1][2] = 2 /\ q[i][2] = 1)
        BY <2>1, <4>1 DEF Whole
      <4>3. PICK p : p = <<w, k>>
        OBVIOUS
      <4>4. q = <<>> \/ p = <<q[Len(q)][1], 2>> \/ (q[Len(q)][2] = 2 /\ p[2] = 1)
        BY <3>1, <4>1, <4>3
      <4>5. q \in Seq(Senders \X {1, 2}) /\ p \in Senders \X {1, 2} /\ t = Append(q, p)
        BY <1>1, <1>4, <4>1, <4>3
      <4> QED
        BY <4>2, <4>4, <4>5, WireAppended
    <3>3. ASSUME k = 2 PROVE ~Halved(c)'
      BY <1>2, <1>5, <3>3 DEF Halved
    <3>4. ASSUME k = 1 PROVE \E v \in Senders : sender'[v].at = "second" /\ sender'[v].conn = c
      BY <1>3, <3>4
    <3> QED
      BY ZenonT(60), <1>2, <2>2, <3>2, <3>3, <3>4 DEF Whole
  <2>3. CASE d # c
    <3>1. wire'[d] = wire[d]
      BY <1>2, <2>3
    <3>2. ASSUME Halved(d)
          PROVE  \/ \E v \in Senders : sender'[v].at = "second" /\ sender'[v].conn = d
                 \/ \A o \in Objects : sock'[o] # d
      <4>1. CASE \A o \in Objects : sock[o] # d
        BY <4>1
      <4>2. ASSUME NEW v \in Senders, sender[v].at = "second", sender[v].conn = d
            PROVE  \E u \in Senders : sender'[u].at = "second" /\ sender'[u].conn = d
        <5>1. CASE v # w
          BY <1>3, <4>2, <5>1
        <5>2. CASE v = w
          BY <2>3, <4>2, <5>2
        <5> QED
          BY <5>1, <5>2
      <4> QED
        BY <2>1, <3>2, <4>1, <4>2 DEF Whole
    <3> QED
      BY <2>1, <3>1, <3>2 DEF Whole, Halved
  <2> QED
    BY <2>2, <2>3
<1> QED
  BY <1>6, <1>7 DEF WiresWhole

\* The steps keep the messages on the connections whole.
LEMMA ForwardWiresStep ==
  ASSUME ForwardInv, ForwardNext
  PROVE  WiresWhole'
<1>0. /\ ForwardTypes /\ SocketTypes /\ SocketsOwned /\ WiresWhole /\ conns \in Nat
      /\ sender \in [Senders -> SenderState] /\ Free \in SenderState
  BY SMTT(60), ForwardAssumption DEF ForwardInv, ForwardTypes, SocketTypes, Free, SenderState, Objects
<1>1. ASSUME UNCHANGED <<wire, mixed, sender, conns>>,
             \A o \in Objects : sock'[o] = sock[o] \/ sock'[o] = 0
      PROVE  WiresWhole'
  BY <1>0, <1>1, WiresKept
<1>2. ASSUME NEW o \in Objects, CloseTcp(o)
      PROVE  \A p \in Objects : sock'[p] = IF p = o THEN 0 ELSE sock[p]
  BY <1>0, <1>2 DEF CloseTcp, SocketTypes
<1>3. ASSUME EditRow \/ ReadCounts \/ ZeroCounts \/ StoreCounts PROVE WiresWhole'
  <2>1. UNCHANGED <<wire, mixed, sender, conns, sock>>
    BY <1>3 DEF EditRow, ReadCounts, ZeroCounts, StoreCounts, connected
  <2> QED
    BY <1>1, <2>1
<1>4. ASSUME ReloadRow PROVE WiresWhole'
  <2>1. loaded # 0 => loaded \in Objects
    BY <1>0, ForwardAssumption DEF ForwardTypes, RowTypes, Objects
  <2> QED
    BY <1>1, <1>2, <1>4, <2>1 DEF ReloadRow
<1>5. ASSUME NEW w \in Senders, NEW s \in SenderState, Go(w, s), s.at # "second",
             sender[w].at # "second", UNCHANGED <<wire, mixed>>, conns' \in {conns, conns + 1},
             \A o \in Objects : sock'[o] = sock[o] \/ sock'[o] = 0 \/ sock'[o] = conns + 1
      PROVE  WiresWhole'
  <2>1. \A v \in Senders : sender'[v] = IF v = w THEN s ELSE sender[v]
    BY <1>0, <1>5 DEF Go
  <2>2. conns' \in Nat /\ conns' >= conns
    BY <1>0, <1>5
  <2> QED
    BY <1>5, <2>1, <2>2, WiresKept
<1>6. ASSUME NEW w \in Senders, Take(w) PROVE WiresWhole'
  <2>1. [Free EXCEPT !.at = "socket", !.object = loaded] \in SenderState
    <3>1. loaded \in Objects
      BY <1>0, <1>6, ForwardAssumption DEF Take, ForwardTypes, RowTypes, Objects
    <3> QED
      BY <1>0, <3>1 DEF SenderState, Free
  <2>2. PICK s : s = [Free EXCEPT !.at = "socket", !.object = loaded]
    OBVIOUS
  <2>3. s.at = "socket" /\ sender[w].at = "idle" /\ Go(w, s)
    BY <1>6, <2>2 DEF Take, Free
  <2> QED
    BY <1>5, <1>6, <2>1, <2>2, <2>3 DEF Take, connected
<1>7. ASSUME NEW w \in Senders, LookForSocket(w) PROVE WiresWhole'
  <2>1. PICK s : s = [sender[w] EXCEPT !.at = IF Socket(w) = 0 THEN "connect" ELSE "first"]
    OBVIOUS
  <2>2. s \in SenderState /\ s.at # "second" /\ sender[w].at = "socket" /\ Go(w, s)
    BY <1>0, <1>7, <2>1 DEF LookForSocket, SenderState
  <2> QED
    BY <1>5, <1>7, <2>2 DEF LookForSocket, connected
<1>8. ASSUME NEW w \in Senders, Connect(w) PROVE WiresWhole'
  <2>1. PICK s : s = [sender[w] EXCEPT !.at = "first"]
    OBVIOUS
  <2>2. s \in SenderState /\ s.at # "second" /\ sender[w].at = "connect" /\ Go(w, s)
    BY <1>0, <1>8, <2>1 DEF Connect, SenderState
  <2>3. \A o \in Objects : sock'[o] = sock[o] \/ sock'[o] = conns + 1
    BY <1>0, <1>8 DEF Connect, SocketTypes
  <2> QED
    BY <1>5, <1>8, <2>2, <2>3 DEF Connect
<1>9. ASSUME NEW w \in Senders, StoreCount(w) PROVE WiresWhole'
  <2>1. Free.at = "idle" /\ sender[w].at = "add"
    BY <1>9 DEF StoreCount, Free
  <2> QED
    BY <1>0, <1>5, <1>9, <2>1 DEF StoreCount, connected
<1>13. ASSUME NEW w \in Senders, ReadCount(w) PROVE WiresWhole'
  <2>1. PICK s : s = [sender[w] EXCEPT !.at = "add", !.n = pendingCount[sender[w].object]]
    OBVIOUS
  <2>2. PICK q : q = pendingCount[sender[w].object]
    OBVIOUS
  <2>3. sender[w] \in SenderState /\ q \in Nat /\ s = [sender[w] EXCEPT !.at = "add", !.n = q]
    BY <1>0, <2>1, <2>2 DEF ForwardTypes, CountTypes, SenderState
  <2>4. s \in SenderState /\ s.at = "add" /\ sender[w].at = "count" /\ Go(w, s)
    BY <1>13, <2>1, <2>3 DEF ReadCount, SenderState
  <2> QED
    BY <1>5, <1>13, <2>4 DEF ReadCount, connected
<1>10. ASSUME NEW w \in Senders, SendRaises(w) PROVE WiresWhole'
  <2>1. sender[w].object \in Objects /\ CloseTcp(sender[w].object)
    BY <1>0, <1>10, SenderTyped DEF SendRaises
  <2>2. \A p \in Objects : sock'[p] = IF p = sender[w].object THEN 0 ELSE sock[p]
    BY <1>2, <2>1
  <2>3. \A v \in Senders : sender'[v] = IF v = w THEN Free ELSE sender[v]
    BY <1>0, <1>10 DEF SendRaises, Go
  <2>4. ASSUME sender[w].at = "second" PROVE \A o \in Objects : sock'[o] # sender[w].conn
    <3>1. InMessage(w)
      BY <1>0 DEF WiresWhole
    <3> QED
      BY <1>0, <2>2, <2>4, <3>1 DEF InMessage
  <2>5. Free.at # "second"
    BY DEF Free
  <2> QED
    BY <1>0, <1>10, <2>2, <2>3, <2>4, <2>5, WiresKept DEF SendRaises
<1>11. ASSUME NEW w \in Senders, SendFirst(w) PROVE WiresWhole'
  <2>1. PICK c : c = Socket(w)
    OBVIOUS
  <2>2. sender[w] \in SenderState /\ sender[w].object \in Objects
    BY <1>0, SenderTyped
  <2>3. c \in 1..conns /\ sock[sender[w].object] = c
    BY <1>0, <1>11, <2>1, <2>2 DEF SendFirst, Usable, Socket, SocketTypes
  <2>4. PICK s : s = [sender[w] EXCEPT !.at = "second", !.conn = c]
    OBVIOUS
  <2>5. s \in SenderState /\ s.at = "second" /\ s.conn = c /\ s.object = sender[w].object
    <3>1. c \in 0..MaxConns
      BY <1>0, <2>3, SenderTyped
    <3> QED
      BY <2>2, <2>4, <3>1 DEF SenderState
  <2>6. sender[w].at = "first" /\ sender' = [sender EXCEPT ![w] = s]
        /\ wire' = [wire EXCEPT ![c] = Append(wire[c], <<w, 1>>)] /\ UNCHANGED <<sock, conns>>
        /\ mixed' = (mixed \/ \E v \in Senders : sender[v].at = "second" /\ sender[v].conn = c)
    BY <1>11, <2>1, <2>4 DEF SendFirst, Go
  <2>7. ASSUME ~mixed' PROVE ~Halved(c)
    <3>1. Whole(c)
      <4>1. c \in 1..MaxConns
        BY <2>3, <1>0, ForwardAssumption DEF SocketTypes
      <4> QED
        BY <1>0, <2>6, <2>7, <4>1 DEF WiresWhole
    <3> QED
      BY <2>2, <2>3, <2>6, <2>7, <3>1 DEF Whole
  <2>8. mixed => mixed'
    BY <2>6
  <2>9. ASSUME ~mixed', NEW v \in Senders, sender[v].at = "second", sender[v].conn = c PROVE v = w
    BY <2>6, <2>9
  <2>10. PICK k : k \in {1, 2} /\ k = 1
    OBVIOUS
  <2>11. wire' = [wire EXCEPT ![c] = Append(wire[c], <<w, k>>)] /\ UNCHANGED <<sock, conns>>
    BY <2>6, <2>10
  <2>12. /\ k = 1 => s.at = "second" /\ s.conn = c /\ sock[s.object] = c
         /\ k = 2 => s.at # "second"
         /\ sender[w].at = "second" => sender[w].conn = c
    BY <2>3, <2>5, <2>6, <2>10
  <2>13. ~mixed' => /\ \A v \in Senders : sender[v].at = "second" /\ sender[v].conn = c => v = w
                    /\ k = 1 => ~Halved(c)
                    /\ k = 2 => Halved(c) /\ wire[c][Len(wire[c])] = <<w, 1>>
    BY <2>7, <2>9, <2>10
  <2> QED
    BY <2>3, <2>5, <2>6, <2>8, <2>10, <2>11, <2>12, <2>13, WiresSent
<1>12. ASSUME NEW w \in Senders, SendSecond(w) PROVE WiresWhole'
  <2>1. PICK c : c = sender[w].conn
    OBVIOUS
  <2>2. sender[w] \in SenderState /\ sender[w].at = "second" /\ InMessage(w)
    BY <1>0, <1>12 DEF SendSecond, WiresWhole
  <2>3. c \in 1..conns
    BY <2>1, <2>2 DEF InMessage
  <2>4. PICK s : s = [sender[w] EXCEPT !.at = "count"]
    OBVIOUS
  <2>5. s \in SenderState /\ s.at # "second"
    BY <2>2, <2>4 DEF SenderState
  <2>6. sender' = [sender EXCEPT ![w] = s] /\ mixed' = mixed
        /\ wire' = [wire EXCEPT ![c] = Append(wire[c], <<w, 2>>)] /\ UNCHANGED <<sock, conns>>
    BY <1>12, <2>1, <2>4 DEF SendSecond, Go
  <2>7. ASSUME ~mixed' PROVE Halved(c) /\ wire[c][Len(wire[c])] = <<w, 1>>
    BY <2>1, <2>2, <2>6, <2>7 DEF InMessage, Halved
  <2>8. ASSUME ~mixed', NEW v \in Senders, sender[v].at = "second", sender[v].conn = c PROVE v = w
    BY <2>1, <2>2, <2>6, <2>8, OneInMessage
  <2>10. PICK k : k \in {1, 2} /\ k = 2
    OBVIOUS
  <2>11. wire' = [wire EXCEPT ![c] = Append(wire[c], <<w, k>>)] /\ UNCHANGED <<sock, conns>>
    BY <2>6, <2>10
  <2>12. /\ k = 1 => s.at = "second" /\ s.conn = c /\ sock[s.object] = c
         /\ k = 2 => s.at # "second"
         /\ sender[w].at = "second" => sender[w].conn = c
         /\ mixed => mixed'
    BY <2>1, <2>5, <2>6, <2>10
  <2>13. ~mixed' => /\ \A v \in Senders : sender[v].at = "second" /\ sender[v].conn = c => v = w
                    /\ k = 1 => ~Halved(c)
                    /\ k = 2 => Halved(c) /\ wire[c][Len(wire[c])] = <<w, 1>>
    BY <2>7, <2>8, <2>10
  <2> QED
    BY <2>3, <2>5, <2>6, <2>10, <2>11, <2>12, <2>13, WiresSent
<1> QED
  BY <1>3, <1>4, <1>6, <1>7, <1>8, <1>9, <1>10, <1>11, <1>12, <1>13 DEF ForwardNext, SenderStep
-----------------------------------------------------------------------------
\* The steps keep the versions that were not loaded yet unused.
LEMMA ForwardFreshStep ==
  ASSUME ForwardInv, ForwardNext
  PROVE  RowsFresh'
<1>0. /\ RowTypes /\ CountTypes /\ RowsFresh /\ sender \in [Senders -> SenderState]
      /\ versions \in Objects /\ configRow \in 0..versions /\ loaded \in 0..versions
  BY DEF ForwardInv, ForwardTypes, RowTypes
<1>1. ASSUME NEW w \in Senders, NEW s, Go(w, s), UNCHANGED configured,
             sender[w].at = "idle" => s.object = loaded /\ loaded # 0,
             sender[w].at # "idle" => s.at = "idle" \/ s.object = sender[w].object,
             \A o \in Objects : \/ pendingCount'[o] = pendingCount[o]
                                \/ sender[w].at # "idle" /\ o = sender[w].object
      PROVE  RowsFresh'
  <2>1. \A v \in Senders : sender'[v] = IF v = w THEN s ELSE sender[v]
    BY <1>0, <1>1 DEF Go
  <2>2. ASSUME NEW o \in Objects, Fresh(o), o # loaded PROVE Fresh(o)'
    BY <1>1, <2>1, <2>2 DEF Fresh
  <2>3. \A o \in Objects : o > versions => o # loaded
    BY <1>0 DEF Objects
  <2>4. configRow # 0 => configRow \in Objects
    BY <1>0, ForwardAssumption DEF Objects
  <2> QED
    BY <1>0, <1>1, <2>2, <2>3, <2>4 DEF RowsFresh, configured
<1>2. ASSUME NEW w \in Senders, Take(w) PROVE RowsFresh'
  <2>1. PICK s : s = [Free EXCEPT !.at = "socket", !.object = loaded]
    OBVIOUS
  <2>2. Go(w, s) /\ sender[w].at = "idle" /\ s.object = loaded /\ loaded # 0
    BY <1>2, <2>1 DEF Take, Free
  <2> QED
    BY <1>1, <1>2, <2>2 DEF Take
<1>3. ASSUME NEW w \in Senders, LookForSocket(w) \/ Connect(w) \/ SendFirst(w) \/ SendSecond(w)
                                \/ ReadCount(w)
      PROVE  RowsFresh'
  <2>1. ASSUME NEW a, NEW c
        PROVE  /\ [sender[w] EXCEPT !.at = a].object = sender[w].object
               /\ [sender[w] EXCEPT !.at = a, !.conn = c].object = sender[w].object
               /\ [sender[w] EXCEPT !.at = a, !.n = c].object = sender[w].object
    BY <1>0 DEF SenderState
  <2>2. ASSUME LookForSocket(w) \/ Connect(w) \/ SendSecond(w)
        PROVE  \E s : Go(w, s) /\ s.object = sender[w].object
    <3>1. \E a : Go(w, [sender[w] EXCEPT !.at = a])
      BY <2>2 DEF LookForSocket, Connect, SendSecond
    <3> QED
      BY <2>1, <3>1
  <2>5. ASSUME SendFirst(w)
        PROVE  \E s : Go(w, s) /\ s.object = sender[w].object
    <3>1. PICK c : Go(w, [sender[w] EXCEPT !.at = "second", !.conn = c])
      BY <2>5 DEF SendFirst
    <3>2. PICK s : s = [sender[w] EXCEPT !.at = "second", !.conn = c]
      OBVIOUS
    <3>3. Go(w, s) /\ s.object = sender[w].object
      BY <2>1, <3>1, <3>2
    <3> QED
      BY <3>3
  <2>6. ASSUME ReadCount(w)
        PROVE  \E s : Go(w, s) /\ s.object = sender[w].object
    <3>1. PICK n : Go(w, [sender[w] EXCEPT !.at = "add", !.n = n])
      BY <2>6 DEF ReadCount
    <3>2. PICK s : s = [sender[w] EXCEPT !.at = "add", !.n = n]
      OBVIOUS
    <3>3. Go(w, s) /\ s.object = sender[w].object
      BY <2>1, <3>1, <3>2
    <3> QED
      BY <3>3
  <2>3. PICK s : Go(w, s) /\ s.object = sender[w].object
    BY <1>3, <2>2, <2>5, <2>6
  <2>4. UNCHANGED <<configured, pendingCount>> /\ sender[w].at # "idle"
    BY <1>3 DEF LookForSocket, Connect, SendFirst, SendSecond, ReadCount
  <2> QED
    BY <1>1, <2>3, <2>4
<1>4. ASSUME NEW w \in Senders, StoreCount(w) \/ SendRaises(w) PROVE RowsFresh'
  <2>1. Go(w, Free) /\ UNCHANGED configured /\ sender[w].at # "idle" /\ Free.at = "idle"
    BY <1>4 DEF StoreCount, SendRaises, Free
  <2>2. \A o \in Objects : pendingCount'[o] = pendingCount[o] \/ o = sender[w].object
    BY <1>0, <1>4 DEF StoreCount, SendRaises, CountTypes
  <2> QED
    BY <1>1, <2>1, <2>2
<1>5. ASSUME EditRow PROVE RowsFresh'
  <2>1. UNCHANGED <<loaded, pendingCount, sender>> /\ \A o : Fresh(o)' = Fresh(o)
    BY <1>5 DEF EditRow, Fresh
  <2>2. CASE configRow' = 0 /\ UNCHANGED versions
    BY <1>0, <2>1, <2>2 DEF RowsFresh
  <2>3. CASE versions < MaxRows /\ versions' = versions + 1 /\ configRow' = versions'
    <3>1. versions' \in Objects /\ versions' > versions /\ \A o \in Objects : o > versions' => o > versions
      BY <1>0, <2>3, ForwardAssumption DEF Objects
    <3> QED
      BY <1>0, <2>1, <2>3, <3>1 DEF RowsFresh
  <2> QED
    BY <1>5, <2>2, <2>3 DEF EditRow
<1>6. ASSUME ReloadRow PROVE RowsFresh'
  <2>1. /\ UNCHANGED <<configRow, versions, sender>> /\ loaded' = Wanted
        /\ \A o \in Objects : o # Wanted => pendingCount'[o] = pendingCount[o]
    BY <1>6 DEF ReloadRow
  <2>2. ASSUME NEW o \in Objects, Fresh(o), o # Wanted PROVE Fresh(o)'
    BY <2>1, <2>2 DEF Fresh
  <2>3. \A o \in Objects : o > versions => o # Wanted
    BY <1>0, ForwardAssumption DEF Objects, Wanted
  <2>4. configRow # 0 /\ configRow # Wanted => configRow # loaded /\ configRow \in Objects
    BY <1>0, ForwardAssumption DEF Wanted, RowTypes, Objects
  <2> QED
    BY <1>0, <2>1, <2>2, <2>3, <2>4 DEF RowsFresh
<1>7. ASSUME ReadCounts \/ StoreCounts PROVE RowsFresh'
  <2>1. UNCHANGED <<configRow, versions, loaded, pendingCount, sender>>
    BY <1>7 DEF ReadCounts, StoreCounts, configured
  <2> QED
    BY <1>0, <2>1 DEF RowsFresh, Fresh
<1>8. ASSUME ZeroCounts PROVE RowsFresh'
  <2>1. UNCHANGED <<configRow, versions, loaded, sender>>
        /\ \A o \in Objects : pendingCount'[o] \in {0, pendingCount[o]}
    BY <1>0, <1>8 DEF ZeroCounts, configured, CountTypes
  <2>2. configRow # 0 => configRow \in Objects
    BY <1>0, ForwardAssumption DEF Objects
  <2> QED
    BY <1>0, <2>1, <2>2 DEF RowsFresh, Fresh
<1> QED
  BY <1>2, <1>3, <1>4, <1>5, <1>6, <1>7, <1>8 DEF ForwardNext, SenderStep
-----------------------------------------------------------------------------
\* Two sets that differ in x at most.
LEMMA SetMoves ==
  ASSUME NEW S, IsFiniteSet(S), NEW T, NEW x, T \ {x} = S \ {x}
  PROVE  /\ Cardinality(S) \in Nat /\ Cardinality(T) \in Nat
         /\ (x \in S <=> x \in T) => Cardinality(T) = Cardinality(S)
         /\ x \in S /\ x \notin T => Cardinality(T) = Cardinality(S) - 1
         /\ x \notin S /\ x \in T => Cardinality(T) = Cardinality(S) + 1
<1>1. CASE x \in S /\ x \in T
  <2>1. T = S
    BY <1>1
  <2> QED
    BY <1>1, <2>1, InOrOut
<1>2. CASE x \notin S /\ x \notin T
  <2>1. T = S
    BY <1>2
  <2> QED
    BY <1>2, <2>1, InOrOut
<1>3. CASE x \in S /\ x \notin T
  <2>1. T = S \ {x}
    BY <1>3
  <2>2. Cardinality(S \ {x}) = Cardinality(S) - 1 /\ Cardinality(S \ {x}) \in Nat /\ Cardinality(S) \in Nat
    BY <1>3, InOrOut
  <2> QED
    BY <1>3, <2>1, <2>2
<1>4. CASE x \notin S /\ x \in T
  <2>1. T = S \cup {x}
    BY <1>4
  <2>2. Cardinality(S \cup {x}) = Cardinality(S) + 1 /\ Cardinality(S) \in Nat
    BY <1>4, InOrOut
  <2> QED
    BY <1>4, <2>1, <2>2
<1> QED
  BY <1>1, <1>2, <1>3, <1>4

LEMMA Shifted ==
  ASSUME NEW q \in Nat, NEW k \in Nat, NEW l \in Nat, NEW c \in Nat, NEW d \in Nat,
         q + k <= c, l + c <= k + d
  PROVE  q + l <= d
OBVIOUS

Waits(a) == a \in {"socket", "connect", "first", "second"}
Counts(a) == a \in {"count", "add"}
LEMMA SenderMoves ==
  ASSUME ForwardTypes, NEW w \in Senders, NEW s, Go(w, s), NEW a, a = sender[w].at
  PROVE  /\ Cardinality(Underway) \in Nat /\ Cardinality(Underway)' \in Nat
         /\ Cardinality(Counting) \in Nat /\ Cardinality(Counting)' \in Nat
         /\ (Waits(a) <=> Waits(s.at)) => Cardinality(Underway)' = Cardinality(Underway)
         /\ Waits(a) /\ ~Waits(s.at) => Cardinality(Underway)' = Cardinality(Underway) - 1
         /\ ~Waits(a) /\ Waits(s.at) => Cardinality(Underway)' = Cardinality(Underway) + 1
         /\ (Counts(a) <=> Counts(s.at)) => Cardinality(Counting)' = Cardinality(Counting)
         /\ Counts(a) /\ ~Counts(s.at) => Cardinality(Counting)' = Cardinality(Counting) - 1
         /\ ~Counts(a) /\ Counts(s.at) => Cardinality(Counting)' = Cardinality(Counting) + 1
<1>1. \A v \in Senders : sender'[v] = IF v = w THEN s ELSE sender[v]
  BY DEF Go, ForwardTypes
<1>2. IsFiniteSet(Underway) /\ IsFiniteSet(Counting)
  BY ForwardAssumption, FS_Subset DEF Underway, Counting
<1>3. PICK T, V : T = Underway' /\ V = Counting'
  OBVIOUS
<1>4. T \ {w} = Underway \ {w} /\ V \ {w} = Counting \ {w}
  BY <1>1, <1>3 DEF Underway, Counting
<1>5. w \in Underway <=> Waits(a)
  BY DEF Underway, Waits
<1>6. w \in T <=> Waits(s.at)
  BY <1>1, <1>3 DEF Underway, Waits
<1>7. w \in Counting <=> Counts(a)
  BY DEF Counting, Counts
<1>8. w \in V <=> Counts(s.at)
  BY <1>1, <1>3 DEF Counting, Counts
<1>9. /\ Cardinality(Underway) \in Nat /\ Cardinality(T) \in Nat
      /\ (Waits(a) <=> Waits(s.at)) => Cardinality(T) = Cardinality(Underway)
      /\ Waits(a) /\ ~Waits(s.at) => Cardinality(T) = Cardinality(Underway) - 1
      /\ ~Waits(a) /\ Waits(s.at) => Cardinality(T) = Cardinality(Underway) + 1
  BY <1>2, <1>4, <1>5, <1>6, SetMoves
<1>10. /\ Cardinality(Counting) \in Nat /\ Cardinality(V) \in Nat
       /\ (Counts(a) <=> Counts(s.at)) => Cardinality(V) = Cardinality(Counting)
       /\ Counts(a) /\ ~Counts(s.at) => Cardinality(V) = Cardinality(Counting) - 1
       /\ ~Counts(a) /\ Counts(s.at) => Cardinality(V) = Cardinality(Counting) + 1
  BY <1>2, <1>4, <1>7, <1>8, SetMoves
<1> QED
  BY <1>3, <1>9, <1>10

\* The steps keep what is counted covered by what was sent.
LEMMA ForwardCountsStep ==
  ASSUME ForwardInv, ForwardNext
  PROVE  CountsCovered'
<1>0. /\ ForwardTypes /\ CountTypes /\ CountsCovered
      /\ sender \in [Senders -> SenderState]
  BY DEF ForwardInv, ForwardTypes
<1>1. /\ pendingCount \in [Objects -> Nat] /\ total \in Nat /\ flusher.n \in Nat
      /\ flusher \in [at : {"idle", "zero", "store"}, n : Nat]
      /\ relayed \in Nat /\ complete \in Nat /\ InStore \in Nat /\ writtenBack \in Nat
      /\ loaded # 0 => loaded \in Objects
      /\ \A w \in Senders : sender[w].n \in Nat /\ sender[w].object \in Objects
  BY <1>0, ForwardAssumption DEF CountTypes, InStore, ForwardTypes, RowTypes, Objects, SenderState
<1>2. OfLoaded \in Nat
  BY <1>1 DEF OfLoaded
<1>3. PICK U, K, B : U = Cardinality(Underway) /\ K = Cardinality(Counting) /\ B = complete + writtenBack
  OBVIOUS
<1>4. U \in Nat /\ K \in Nat /\ B \in Nat
  BY <1>1, <1>3, ForwardAssumption, FS_Subset, FS_CardinalityType DEF Underway, Counting
<1>5. /\ complete + U <= relayed
      /\ \A o \in Objects : pendingCount[o] + K <= complete
      /\ \A w \in Senders : sender[w].at = "add" => sender[w].n + K <= complete
      /\ total + InStore + OfLoaded + K <= B
      /\ \A w \in Senders : sender[w].at = "add" /\ sender[w].object = loaded =>
           total + InStore + sender[w].n + K <= B
      /\ flusher.at = "zero" => loaded # 0 /\ total + flusher.n + K <= B
  BY <1>0, <1>3 DEF CountsCovered
<1>6. PICK V, L : V = Cardinality(Underway)' /\ L = Cardinality(Counting)'
  OBVIOUS
\* A step of a worker that leaves the counts alone and reads none of them.
<1>7. ASSUME NEW w \in Senders, NEW s, Go(w, s), s.at # "add",
             UNCHANGED <<loaded, pendingCount, total, flusher, writtenBack>>,
             V \in Nat, L \in Nat, complete' \in Nat, relayed' \in Nat,
             complete' + V <= relayed', L + complete <= K + complete'
      PROVE  CountsCovered'
  <2>1. InStore' = InStore /\ OfLoaded' = OfLoaded
    BY <1>7 DEF InStore, OfLoaded
  <2>2. PICK b \in Nat, c \in Nat, d \in Nat : b = writtenBack /\ c = complete /\ d = complete'
    BY <1>1, <1>7
  <2>a. B = c + b /\ L + c <= K + d
    BY <1>3, <1>7, <2>2
  <2>b. L + B <= K + (d + b) /\ d + b \in Nat
    BY <1>4, <1>7, <2>a
  <2>3. ASSUME NEW q \in Nat PROVE /\ q + K <= complete => q + L <= complete'
                                   /\ q + K <= B => q + L <= complete' + writtenBack
    <3>1. q + K <= c => q + L <= d
      BY <1>4, <1>7, <2>a, Shifted
    <3>2. q + K <= B => q + L <= d + b
      BY <1>4, <1>7, <2>b, Shifted
    <3> QED
      BY <2>2, <3>1, <3>2
  <2>4. \A v \in Senders : sender'[v].at = "add" => sender'[v] = sender[v]
    BY <1>0, <1>7 DEF Go
  <2>5. \A o \in Objects : pendingCount[o] + L <= complete'
    BY <1>1, <1>5, <2>3
  <2>6. \A v \in Senders : sender'[v].at = "add" => sender'[v].n + L <= complete'
    BY <1>1, <1>5, <2>3, <2>4
  <2>7. total + InStore + OfLoaded + L <= complete' + writtenBack
    <3>1. total + InStore + OfLoaded \in Nat
      BY <1>1, <1>2
    <3> QED
      BY <1>5, <2>3, <3>1
  <2>8. ASSUME NEW v \in Senders, sender'[v].at = "add", sender'[v].object = loaded
        PROVE  total + InStore + sender'[v].n + L <= complete' + writtenBack
    <3>1. total + InStore + sender[v].n \in Nat
      BY <1>1
    <3> QED
      BY <1>5, <2>3, <2>4, <2>8, <3>1
  <2>9. ASSUME flusher.at = "zero" PROVE loaded # 0 /\ total + flusher.n + L <= complete' + writtenBack
    <3>1. total + flusher.n \in Nat
      BY <1>1
    <3> QED
      BY <1>5, <2>3, <2>9, <3>1
  <2> QED
    BY ZenonT(60), <1>6, <1>7, <2>1, <2>5, <2>6, <2>7, <2>8, <2>9 DEF CountsCovered
<1>8. ASSUME NEW w \in Senders, Take(w) PROVE CountsCovered'
  <2>1. PICK s : s = [Free EXCEPT !.at = "socket", !.object = loaded]
    OBVIOUS
  <2>2. s.at = "socket" /\ sender[w].at = "idle" /\ Go(w, s) /\ relayed' = relayed + 1 /\ complete' = complete
    BY <1>8, <2>1 DEF Take, Free
  <2>3. V = U + 1 /\ L = K
    BY <1>0, <1>3, <1>6, <2>2, SenderMoves DEF Waits, Counts
  <2>4. UNCHANGED <<loaded, pendingCount, total, flusher, writtenBack>>
    BY <1>8 DEF Take, configured, counted
  <2>5. V \in Nat /\ L \in Nat /\ complete' + V <= relayed' /\ L + complete <= K + complete'
        /\ complete' \in Nat /\ relayed' \in Nat
    BY <1>1, <1>4, <1>5, <2>2, <2>3
  <2> QED
    BY <1>7, <2>2, <2>4, <2>5
<1>9. ASSUME NEW w \in Senders, LookForSocket(w) PROVE CountsCovered'
  <2>1. PICK s : s = [sender[w] EXCEPT !.at = IF Socket(w) = 0 THEN "connect" ELSE "first"]
    OBVIOUS
  <2>2. s.at \in {"connect", "first"} /\ sender[w].at = "socket" /\ Go(w, s)
        /\ relayed' = relayed /\ complete' = complete
    BY <1>0, <1>9, <2>1 DEF LookForSocket, SenderState
  <2>3. V = U /\ L = K
    BY <1>0, <1>3, <1>6, <2>2, SenderMoves DEF Waits, Counts
  <2>4. UNCHANGED <<loaded, pendingCount, total, flusher, writtenBack>>
    BY <1>9 DEF LookForSocket, configured, counted
  <2>5. V \in Nat /\ L \in Nat /\ complete' + V <= relayed' /\ L + complete <= K + complete'
        /\ complete' \in Nat /\ relayed' \in Nat
    BY <1>1, <1>4, <1>5, <2>2, <2>3
  <2> QED
    BY <1>7, <2>2, <2>4, <2>5
<1>10. ASSUME NEW w \in Senders, Connect(w) PROVE CountsCovered'
  <2>1. PICK s : s = [sender[w] EXCEPT !.at = "first"]
    OBVIOUS
  <2>2. s.at = "first" /\ sender[w].at = "connect" /\ Go(w, s) /\ relayed' = relayed /\ complete' = complete
    BY <1>0, <1>10, <2>1 DEF Connect, SenderState
  <2>3. V = U /\ L = K
    BY <1>0, <1>3, <1>6, <2>2, SenderMoves DEF Waits, Counts
  <2>4. UNCHANGED <<loaded, pendingCount, total, flusher, writtenBack>>
    BY <1>10 DEF Connect, configured, counted
  <2>5. V \in Nat /\ L \in Nat /\ complete' + V <= relayed' /\ L + complete <= K + complete'
        /\ complete' \in Nat /\ relayed' \in Nat
    BY <1>1, <1>4, <1>5, <2>2, <2>3
  <2> QED
    BY <1>7, <2>2, <2>4, <2>5
<1>11. ASSUME NEW w \in Senders, SendFirst(w) PROVE CountsCovered'
  <2>1. PICK s : s = [sender[w] EXCEPT !.at = "second", !.conn = Socket(w)]
    OBVIOUS
  <2>2. s.at = "second" /\ sender[w].at = "first" /\ Go(w, s) /\ relayed' = relayed /\ complete' = complete
    BY <1>0, <1>11, <2>1 DEF SendFirst, SenderState
  <2>3. V = U /\ L = K
    BY <1>0, <1>3, <1>6, <2>2, SenderMoves DEF Waits, Counts
  <2>4. UNCHANGED <<loaded, pendingCount, total, flusher, writtenBack>>
    BY <1>11 DEF SendFirst, configured, counted
  <2>5. V \in Nat /\ L \in Nat /\ complete' + V <= relayed' /\ L + complete <= K + complete'
        /\ complete' \in Nat /\ relayed' \in Nat
    BY <1>1, <1>4, <1>5, <2>2, <2>3
  <2> QED
    BY <1>7, <2>2, <2>4, <2>5
<1>12. ASSUME NEW w \in Senders, SendSecond(w) PROVE CountsCovered'
  <2>1. PICK s : s = [sender[w] EXCEPT !.at = "count"]
    OBVIOUS
  <2>2. s.at = "count" /\ sender[w].at = "second" /\ Go(w, s) /\ relayed' = relayed /\ complete' = complete + 1
    BY <1>0, <1>12, <2>1 DEF SendSecond, SenderState
  <2>3. V = U - 1 /\ L = K + 1 /\ V \in Nat
    BY <1>0, <1>3, <1>6, <2>2, SenderMoves DEF Waits, Counts
  <2>4. UNCHANGED <<loaded, pendingCount, total, flusher, writtenBack>>
    BY <1>12 DEF SendSecond, configured, counted
  <2>5. V \in Nat /\ L \in Nat /\ complete' + V <= relayed' /\ L + complete <= K + complete'
        /\ complete' \in Nat /\ relayed' \in Nat
    BY <1>1, <1>4, <1>5, <2>2, <2>3
  <2> QED
    BY <1>7, <2>2, <2>4, <2>5
<1>13. ASSUME NEW w \in Senders, SendRaises(w) PROVE CountsCovered'
  <2>1. Free.at = "idle" /\ sender[w].at \in {"connect", "first", "second"} /\ Go(w, Free)
        /\ relayed' = relayed /\ complete' = complete
    BY <1>13 DEF SendRaises, Free
  <2>2. V = U - 1 /\ L = K /\ V \in Nat
    BY <1>0, <1>3, <1>6, <2>1, SenderMoves DEF Waits, Counts
  <2>3. UNCHANGED <<loaded, pendingCount, total, flusher, writtenBack>>
    BY <1>13 DEF SendRaises, configured, counted
  <2>4. V \in Nat /\ L \in Nat /\ complete' + V <= relayed' /\ L + complete <= K + complete'
        /\ complete' \in Nat /\ relayed' \in Nat
    BY <1>1, <1>4, <1>5, <2>1, <2>2
  <2> QED
    BY <1>7, <2>1, <2>3, <2>4
<1>14. ASSUME NEW w \in Senders, StoreCount(w) PROVE CountsCovered'
  <2>1. /\ Free.at = "idle" /\ sender[w].at = "add" /\ Go(w, Free)
        /\ UNCHANGED <<loaded, total, flusher, relayed, complete, writtenBack>>
    BY <1>14 DEF StoreCount, Free, configured, counted
  <2>2. V = U /\ L = K - 1 /\ L \in Nat /\ L <= K
    BY <1>0, <1>3, <1>4, <1>6, <2>1, SenderMoves DEF Waits, Counts
  <2>3. PICK n \in Nat, p \in Objects : n = sender[w].n /\ p = sender[w].object
    BY <1>1
  <2>4. \A o \in Objects : pendingCount'[o] = IF o = p THEN n + 1 ELSE pendingCount[o]
    BY <1>1, <1>14, <2>3 DEF StoreCount
  <2>5. \A v \in Senders : sender'[v].at = "add" => sender'[v] = sender[v]
    BY <1>0, <2>1 DEF Go
  <2>6. ASSUME NEW q \in Nat, NEW c \in Nat, q + K <= c PROVE q + L <= c
    BY <1>4, <2>2, <2>6
  <2>7. \A o \in Objects : pendingCount'[o] + L <= complete
    <3>1. n + K <= complete
      BY <1>5, <2>1, <2>3
    <3>2. n + 1 + L <= complete
      BY <1>1, <1>4, <2>2, <3>1
    <3>3. \A o \in Objects : pendingCount[o] + L <= complete
      BY <1>1, <1>5, <2>6
    <3> QED
      BY <2>4, <3>2, <3>3
  <2>8. \A v \in Senders : sender'[v].at = "add" => sender'[v].n + L <= complete
    BY <1>1, <1>5, <2>5, <2>6
  <2>9. InStore' = InStore
    BY <2>1 DEF InStore
  <2>10. total + InStore + OfLoaded' + L <= B
    <3>1. PICK q \in Nat : q = total + InStore
      BY <1>1
    <3>2. CASE loaded = p
      <4>1. OfLoaded' = n + 1
        BY <1>1, <2>1, <2>4, <3>2 DEF OfLoaded, Objects
      <4>2. q + n + K <= B
        BY <1>5, <2>1, <2>3, <3>1, <3>2
      <4>3. q + (n + 1) + L <= B
        BY <1>4, <2>2, <4>2
      <4> QED
        BY <3>1, <4>1, <4>3
    <3>3. CASE loaded # p
      <4>1. OfLoaded' = OfLoaded
        BY <1>1, <2>1, <2>4, <3>3 DEF OfLoaded
      <4>2. q + OfLoaded \in Nat /\ q + OfLoaded + K <= B
        BY <1>2, <1>5, <3>1
      <4> QED
        BY <1>4, <2>6, <3>1, <4>1, <4>2
    <3> QED
      BY <3>2, <3>3
  <2>11. ASSUME NEW v \in Senders, sender'[v].at = "add", sender'[v].object = loaded
         PROVE  total + InStore + sender'[v].n + L <= B
    <3>1. total + InStore + sender[v].n \in Nat
      BY <1>1
    <3> QED
      BY <1>4, <1>5, <2>5, <2>6, <2>11, <3>1
  <2>12. ASSUME flusher.at = "zero" PROVE loaded # 0 /\ total + flusher.n + L <= B
    <3>1. total + flusher.n \in Nat
      BY <1>1
    <3> QED
      BY <1>4, <1>5, <2>6, <2>12, <3>1
  <2> QED
    BY ZenonT(60), <1>3, <1>5, <1>6, <2>1, <2>2, <2>7, <2>8, <2>9, <2>10, <2>11, <2>12 DEF CountsCovered
<1>21. ASSUME NEW w \in Senders, ReadCount(w) PROVE CountsCovered'
  <2>1. PICK o \in Objects, n \in Nat : o = sender[w].object /\ n = pendingCount[o]
    BY <1>1
  <2>2. PICK s : s = [sender[w] EXCEPT !.at = "add", !.n = n]
    OBVIOUS
  <2>3. /\ s.at = "add" /\ s.n = n /\ s.object = o /\ sender[w].at = "count" /\ Go(w, s)
        /\ UNCHANGED <<loaded, pendingCount, total, flusher, relayed, complete, writtenBack>>
    BY <1>0, <1>21, <2>1, <2>2 DEF ReadCount, SenderState, configured, counted
  <2>4. V = U /\ L = K
    BY <1>0, <1>3, <1>6, <2>3, SenderMoves DEF Waits, Counts
  <2>5. InStore' = InStore /\ OfLoaded' = OfLoaded
    BY <2>3 DEF InStore, OfLoaded
  <2>6. \A v \in Senders : sender'[v] = IF v = w THEN s ELSE sender[v]
    BY <1>0, <2>3 DEF Go
  <2>7. \A v \in Senders : sender'[v].at = "add" => sender'[v].n + K <= complete
    BY <1>5, <2>1, <2>3, <2>6
  <2>8. o = loaded => OfLoaded = n
    BY <2>1 DEF OfLoaded, Objects
  <2>9. \A v \in Senders : sender'[v].at = "add" /\ sender'[v].object = loaded =>
          total + InStore + sender'[v].n + K <= B
    BY <1>5, <2>3, <2>6, <2>8
  <2> QED
    BY ZenonT(60), <1>3, <1>5, <1>6, <2>3, <2>4, <2>5, <2>7, <2>9 DEF CountsCovered
<1>15. ASSUME UNCHANGED <<sender, relayed, complete>> PROVE V = U /\ L = K
  BY <1>3, <1>6, <1>15 DEF Underway, Counting
<1>16. ASSUME EditRow PROVE CountsCovered'
  <2>1. UNCHANGED <<loaded, pendingCount, sender, total, flusher, relayed, complete, writtenBack>>
    BY <1>16 DEF EditRow, counted
  <2> QED
    BY <1>0, <2>1 DEF CountsCovered, InStore, OfLoaded, Underway, Counting
<1>17. ASSUME ReloadRow PROVE CountsCovered'
  <2>1. /\ flusher.at = "idle" /\ loaded # Wanted /\ loaded' = Wanted
        /\ UNCHANGED <<sender, total, flusher, relayed, complete, writtenBack>>
        /\ \A o \in Objects : pendingCount'[o] = IF o = Wanted /\ loaded # 0 THEN pendingCount[loaded]
                                               ELSE pendingCount[o]
    BY <1>17 DEF ReloadRow, counted
  <2>2. Wanted # 0 => Wanted \in Objects /\ Fresh(Wanted)
    BY <1>0, <2>1, ForwardAssumption DEF ForwardInv, RowsFresh, ForwardTypes, RowTypes, Objects, Wanted
  <2>3. \A o \in Objects : pendingCount'[o] + K <= complete
    BY <1>1, <1>5, <2>1
  <2>4. InStore' = InStore
    BY <2>1 DEF InStore
  <2>5. OfLoaded' \in {0, OfLoaded}
    <3>1. CASE Wanted = 0
      BY <2>1, <3>1 DEF OfLoaded
    <3>2. CASE Wanted # 0 /\ loaded # 0
      BY <2>1, <2>2, <3>2 DEF OfLoaded
    <3>3. CASE Wanted # 0 /\ loaded = 0
      BY <2>1, <2>2, <3>3 DEF OfLoaded, Fresh
    <3> QED
      BY <3>1, <3>2, <3>3
  <2>6. total + InStore + OfLoaded' + K <= B
    <3>1. PICK q, x, y : q = total + InStore /\ x = OfLoaded /\ y = OfLoaded'
      OBVIOUS
    <3>2. q \in Nat /\ x \in Nat /\ y \in {0, x} /\ q + x + K <= B
      BY <1>1, <1>2, <1>5, <2>5, <3>1
    <3>3. q + y + K <= B
      BY <1>4, <3>2
    <3> QED
      BY <3>1, <3>3
  <2>7. ASSUME NEW v \in Senders, sender[v].at = "add" PROVE sender[v].object # Wanted
    BY <1>1, <2>2, <2>7 DEF Fresh, Objects
  <2> QED
    BY ZenonT(60), <1>3, <1>5, <1>6, <1>15, <2>1, <2>3, <2>4, <2>6, <2>7 DEF CountsCovered
<1>18. ASSUME ReadCounts PROVE CountsCovered'
  <2>1. /\ flusher.at = "idle" /\ loaded # 0 /\ flusher' = [at |-> "zero", n |-> pendingCount[loaded]]
        /\ UNCHANGED <<sender, total, loaded, pendingCount, relayed, complete, writtenBack>>
    BY <1>18 DEF ReadCounts, configured
  <2>2. InStore' = 0 /\ InStore = 0 /\ OfLoaded' = OfLoaded /\ OfLoaded = pendingCount[loaded]
    BY <2>1 DEF InStore, OfLoaded
  <2>3. total + flusher'.n + K <= B
    BY <1>1, <1>2, <1>4, <1>5, <2>1, <2>2
  <2> QED
    BY ZenonT(60), <1>3, <1>5, <1>6, <1>15, <2>1, <2>2, <2>3 DEF CountsCovered
<1>19. ASSUME ZeroCounts PROVE CountsCovered'
  <2>1. /\ flusher.at = "zero" /\ loaded # 0 /\ loaded \in Objects
        /\ total + flusher.n + K <= B
        /\ UNCHANGED <<sender, total, loaded, relayed, complete>>
        /\ writtenBack' = writtenBack + IF Adding(loaded) THEN flusher.n ELSE 0
    BY <1>1, <1>5, <1>19 DEF ZeroCounts, configured
  <2>2. \A o \in Objects : pendingCount'[o] = IF o = loaded THEN 0 ELSE pendingCount[o]
    BY <1>1, <1>19 DEF ZeroCounts
  <2>3. flusher'.at = "store" /\ flusher'.n = flusher.n
    BY <1>1, <1>19 DEF ZeroCounts
  <2>4. InStore' = flusher.n /\ InStore = 0 /\ OfLoaded' = 0
    BY <2>1, <2>2, <2>3 DEF InStore, OfLoaded
  <2>5. PICK t \in Nat, f \in Nat : t = total /\ f = flusher.n /\ t + f + K <= B
    BY <1>1, <2>1
  <2>6. complete + writtenBack' \in {B, B + f}
        /\ (Adding(loaded) => complete + writtenBack' = B + f)
    BY <1>1, <1>3, <2>1, <2>5
  <2>7. t + f + 0 + K <= complete + writtenBack'
    BY <1>4, <2>5, <2>6
  <2>8. ASSUME NEW o \in Objects PROVE pendingCount'[o] + K <= complete
    <3>1. pendingCount[o] \in Nat /\ pendingCount[o] + K <= complete
      BY <1>1, <1>5
    <3>2. pendingCount'[o] \in {0, pendingCount[o]}
      BY <2>2
    <3> QED
      BY <1>1, <1>4, <3>1, <3>2
  <2>9. ASSUME NEW v \in Senders, sender[v].at = "add", sender[v].object = loaded
        PROVE  total + InStore' + sender[v].n + K <= complete + writtenBack'
    <3>1. PICK n \in Nat : n = sender[v].n
      BY <1>1
    <3>2. CASE n = 0
      BY <1>4, <2>4, <2>5, <2>7, <3>1, <3>2
    <3>3. CASE n > 0
      <4>1. Adding(loaded)
        BY <2>9, <3>1, <3>3 DEF Adding
      <4>2. t + 0 + n + K <= B
        BY <1>5, <2>4, <2>5, <2>9, <3>1
      <4>3. t + f + n + K <= B + f
        BY <1>4, <4>2
      <4> QED
        BY <2>4, <2>5, <2>6, <3>1, <4>1, <4>3
    <3> QED
      BY <3>1, <3>2, <3>3
  <2> QED
    BY ZenonT(60), <1>5, <1>6, <1>15, <2>1, <2>3, <2>4, <2>5, <2>7, <2>8, <2>9 DEF CountsCovered
<1>20. ASSUME StoreCounts PROVE CountsCovered'
  <2>1. /\ flusher.at = "store" /\ flusher' = [at |-> "idle", n |-> 0]
        /\ total' \in {total, total + flusher.n}
        /\ UNCHANGED <<sender, loaded, pendingCount, relayed, complete, writtenBack>>
    BY <1>20 DEF StoreCounts, configured
  <2>2. InStore = flusher.n /\ InStore' = 0 /\ OfLoaded' = OfLoaded
    BY <2>1 DEF InStore, OfLoaded
  <2>3. ASSUME NEW x \in Nat, total + InStore + x + K <= B PROVE total' + InStore' + x + K <= B
    <3>1. PICK q, t : q = total /\ t = total'
      OBVIOUS
    <3>2. q \in Nat /\ t \in {q, q + flusher.n} /\ q + flusher.n + x + K <= B
      BY <1>1, <2>1, <2>2, <2>3, <3>1
    <3>3. t + 0 + x + K <= B
      BY <1>1, <1>4, <3>2
    <3> QED
      BY <2>2, <3>1, <3>3
  <2>4. total' + InStore' + OfLoaded' + K <= B
    BY <1>2, <1>5, <2>2, <2>3
  <2>5. \A v \in Senders : sender[v].at = "add" /\ sender[v].object = loaded =>
          total' + InStore' + sender[v].n + K <= B
    BY <1>1, <1>5, <2>3
  <2> QED
    BY ZenonT(60), <1>3, <1>5, <1>6, <1>15, <2>1, <2>4, <2>5 DEF CountsCovered
<1> QED
  BY <1>8, <1>9, <1>10, <1>11, <1>12, <1>13, <1>14, <1>16, <1>17, <1>18, <1>19, <1>20, <1>21
     DEF ForwardNext, SenderStep

LEMMA ForwardAlways == ForwardSpec => []ForwardInv
<1>1. ForwardInv /\ [ForwardNext]_forwardVars => ForwardInv'
  <2> SUFFICES ASSUME ForwardInv, [ForwardNext]_forwardVars PROVE ForwardInv'
    OBVIOUS
  <2>1. CASE UNCHANGED forwardVars
    <3>1. UNCHANGED <<configRow, versions, loops, loaded, sock, pendingCount, conns, closed, wire,
                      sender, total, flusher, relayed, complete, mixed, writtenBack>>
      BY <2>1 DEF forwardVars
    <3>2. ForwardTypes' /\ SocketsOwned'
      BY <3>1 DEF ForwardInv, ForwardTypes, RowTypes, SocketTypes, CountTypes, SocketsOwned
    <3>3. WiresWhole'
      BY <3>1 DEF ForwardInv, WiresWhole, InMessage, Whole, Halved
    <3>4. CountsCovered' /\ RowsFresh'
      BY <3>1 DEF ForwardInv, CountsCovered, InStore, OfLoaded, Underway, Counting, RowsFresh, Fresh
    <3> QED
      BY <3>2, <3>3, <3>4 DEF ForwardInv
  <2>2. CASE ForwardNext
    BY <2>2, ForwardTypesStep, ForwardSocketsStep, ForwardWiresStep, ForwardCountsStep,
       ForwardFreshStep DEF ForwardInv
  <2> QED
    BY <2>1, <2>2
<1> QED
  BY <1>1, ForwardInitInv, PTL DEF ForwardSpec

LEMMA HonestInv == ForwardInv => RelayHonest
<1> SUFFICES ASSUME ForwardInv PROVE RelayHonest
  OBVIOUS
<1>1. MessagesWhole
  <2>1. \A c \in 1..conns : c \in 1..MaxConns
    BY ForwardAssumption DEF ForwardInv, ForwardTypes, SocketTypes
  <2> QED
    BY <2>1 DEF ForwardInv, WiresWhole, Whole, MessagesWhole
<1>2. NeverOvercounted
  <2>1. total + InStore + OfLoaded + Cardinality(Counting) <= complete + writtenBack
    BY DEF ForwardInv, CountsCovered
  <2>2. /\ total \in Nat /\ InStore \in Nat /\ OfLoaded \in Nat /\ complete \in Nat
        /\ writtenBack \in Nat
    BY ForwardAssumption DEF ForwardInv, ForwardTypes, CountTypes, RowTypes, Objects, InStore, OfLoaded
  <2>3. Cardinality(Counting) \in Nat
    BY ForwardAssumption, FS_Subset, FS_CardinalityType DEF Counting
  <2>4. total + InStore + OfLoaded <= complete + writtenBack
    BY <2>1, <2>2, <2>3
  <2> QED
    BY <2>4 DEF NeverOvercounted, InStore, OfLoaded
<1> QED
  BY <1>1, <1>2 DEF RelayHonest

LEMMA ForwardTypedOK == ForwardInv => ForwardTypeOK
<1> SUFFICES ASSUME ForwardInv PROVE ForwardTypeOK
  OBVIOUS
<1>1. RowTypes /\ SocketTypes /\ CountTypes /\ SocketsOwned /\ CountsCovered
      /\ sender \in [Senders -> SenderState]
  BY DEF ForwardInv, ForwardTypes
<1>2. PICK U, K : /\ U = Cardinality(Underway) /\ K = Cardinality(Counting)
                  /\ U \in Nat /\ K \in Nat
  BY ForwardAssumption, FS_Subset, FS_CardinalityType DEF Underway, Counting
<1>3. complete <= relayed /\ relayed <= MaxRelayed /\ complete \in Nat /\ relayed \in Nat /\ MaxRelayed \in Nat
  BY <1>1, <1>2, ForwardAssumption DEF CountsCovered, CountTypes
<1>4. ASSUME NEW o \in Objects PROVE sock[o] \notin closed \ {0} /\ pendingCount[o] \in 0..MaxRelayed
  <2>1. pendingCount[o] \in Nat /\ pendingCount[o] + K <= complete
    BY <1>1, <1>2 DEF CountsCovered, CountTypes
  <2>2. pendingCount[o] <= MaxRelayed
    BY <1>2, <1>3, <2>1
  <2> QED
    BY <1>1, <1>3, <2>1, <2>2 DEF SocketsOwned
<1> QED
  BY <1>1, <1>3, <1>4 DEF ForwardTypeOK, RowTypes, SocketTypes, CountTypes, SenderState

-----------------------------------------------------------------------------
(***************************************************************************)
(* Telemetry.                                                              *)
(***************************************************************************)
MonitorState == [at : {"wait", "evaluate", "clear"}, snap : [Sources -> Nat],
                 tnow : Nat, done : Nat]
StateRow == [since : Nat, last : Nat, alert : BOOLEAN]
TelTypes ==
  /\ now \in 1..MaxNow /\ watched \subseteq Sources /\ seen \in [Sources -> Nat]
  /\ pending \in [Monitors -> [Sources -> Nat]] /\ entry \in [Sources -> StateRow]
  /\ monitor \in [Monitors -> MonitorState] /\ excused \in BOOLEAN
  /\ warned \in [Sources -> Nat] /\ again = FALSE /\ newest \in Nat /\ crossed \in BOOLEAN
  /\ monEvents \in 0..MaxMonEvents

\* No time is in the future, and none is later than the event it is of.
TimesOK ==
  /\ \A k \in Sources : /\ seen[k] <= now /\ entry[k].since <= now /\ entry[k].last <= seen[k]
                        /\ \A m \in Monitors : pending[m][k] <= seen[k] /\ monitor[m].snap[k] <= seen[k]
  /\ \A m \in Monitors : monitor[m].at # "wait" =>
       1 <= monitor[m].tnow /\ monitor[m].tnow <= now /\ now <= monitor[m].tnow + MaxLag

\* The last event is in the row or in a monitor's notes, and what a tick copied
\* is in the row when it removes the notes.
NotesKept ==
  \A k \in Sources :
    /\ seen[k] = entry[k].last \/ \E m \in Monitors : seen[k] = pending[m][k]
    /\ \A m \in Monitors : monitor[m].at = "clear" => monitor[m].snap[k] <= entry[k].last

\* The tick that is running has started by t, or the next one will have.
StartsBy(m, t) ==
  /\ monitor[m].at = "evaluate" => monitor[m].tnow <= t
  /\ monitor[m].at = "clear" => now + 1 <= t
  /\ monitor[m].at = "wait" => now <= t /\ monitor[m].done + 1 <= t
Slow == 1 + MaxLag        \* from one tick's start to the next one's
Slack == Slow * monEvents \* what failing ticks have cost
\* The first tick of a monitor that does not fail expects the sources.
ExpectedSoon ==
  \A k \in Sources :
    /\ entry[k].since = 0 => /\ entry[k] = NoEntry /\ warned[k] = 0
                             /\ \A m \in Monitors : monitor[m].at # "clear" /\ StartsBy(m, 1 + Slack)
    /\ entry[k].since <= 1 + Slack
Heard(k) == IF seen[k] = 0 THEN 1 ELSE seen[k]
\* While there is no alert, a monitor ticks soon enough to raise it in time: the
\* one that evaluated last did so before the silence was too long.
TickIsDue ==
  \A k \in Sources : ~entry[k].alert =>
    \E m \in Monitors : StartsBy(m, Heard(k) + MaxSilence + Slack + Slow)

\* What an alert counted from is behind the row when there is no alert any more,
\* because a tick that is not late ends an alert only for a newer event.
AlertedOnce ==
  \A k \in Sources :
    /\ entry[k].alert => newest > warned[k] + MaxSilence
    /\ ~entry[k].alert => IF entry[k].last = 0 THEN warned[k] = 0 ELSE entry[k].last > warned[k]

TelInv ==
  /\ TelTypes /\ TimesOK
  /\ ~excused => watched = Sources /\ NotesKept /\ ExpectedSoon /\ TickIsDue
  /\ ~excused /\ ~crossed => AlertedOnce
-----------------------------------------------------------------------------
LEMMA TelTyped ==
  ASSUME TelTypes
  PROVE  /\ now \in Nat /\ now >= 1 /\ newest \in Nat /\ monEvents \in Nat
         /\ MaxLag \in Nat /\ MaxSilence \in Nat /\ Slow \in Nat /\ Slow = 1 + MaxLag /\ Slack \in Nat
         /\ \A k \in Sources : /\ seen[k] \in Nat /\ warned[k] \in Nat /\ entry[k] \in StateRow
                               /\ entry[k].since \in Nat /\ entry[k].last \in Nat
                               /\ Heard(k) \in Nat /\ Heard(k) >= 1 /\ seen[k] <= Heard(k)
         /\ \A m \in Monitors : /\ monitor[m] \in MonitorState
                                /\ monitor[m].tnow \in Nat /\ monitor[m].done \in Nat
                                /\ \A k \in Sources : pending[m][k] \in Nat /\ monitor[m].snap[k] \in Nat
<1>1. MaxLag \in Nat /\ MaxSilence \in Nat /\ MaxNow \in Nat /\ MaxMonEvents \in Nat
  BY TelemetryAssumption
<1>2. now \in Nat /\ now >= 1 /\ newest \in Nat /\ monEvents \in Nat
  BY <1>1 DEF TelTypes
<1>3. Slow \in Nat /\ Slow = 1 + MaxLag /\ Slack \in Nat
  BY <1>1, <1>2 DEF Slow, Slack
<1>4. ASSUME NEW k \in Sources
      PROVE  /\ seen[k] \in Nat /\ warned[k] \in Nat /\ entry[k] \in StateRow
             /\ entry[k].since \in Nat /\ entry[k].last \in Nat
             /\ Heard(k) \in Nat /\ Heard(k) >= 1 /\ seen[k] <= Heard(k)
  BY DEF TelTypes, StateRow, Heard
<1>5. ASSUME NEW m \in Monitors
      PROVE  /\ monitor[m] \in MonitorState
             /\ monitor[m].tnow \in Nat /\ monitor[m].done \in Nat
             /\ \A k \in Sources : pending[m][k] \in Nat /\ monitor[m].snap[k] \in Nat
  BY DEF TelTypes, MonitorState
<1> QED
  BY <1>1, <1>2, <1>3, <1>4, <1>5

LEMMA SlackGrows ==
  ASSUME TelTypes, monEvents' = monEvents + 1
  PROVE  Slack' = Slack + Slow
<1>1. ASSUME NEW s \in Nat, NEW n \in Nat PROVE s * (n + 1) = s * n + s
  OBVIOUS
<1>2. Slow \in Nat /\ monEvents \in Nat
  BY TelTyped
<1> QED
  BY <1>1, <1>2 DEF Slack, Slow

LEMMA StartsLater ==
  ASSUME TelTypes, NEW m \in Monitors, NEW t \in Nat, NEW u \in Nat, t <= u, StartsBy(m, t)
  PROVE  StartsBy(m, u)
<1>1. now \in Nat /\ monitor[m].tnow \in Nat /\ monitor[m].done \in Nat
  BY TelTyped
<1>2. monitor[m].at = "evaluate" => monitor[m].tnow <= u
  BY <1>1 DEF StartsBy
<1>3. monitor[m].at = "clear" => now + 1 <= u
  BY <1>1 DEF StartsBy
<1>4. monitor[m].at = "wait" => now <= u /\ monitor[m].done + 1 <= u
  BY <1>1 DEF StartsBy
<1> QED
  BY <1>2, <1>3, <1>4 DEF StartsBy

LEMMA TelInitInv == TelInit => TelInv
<1> SUFFICES ASSUME TelInit PROVE TelInv
  OBVIOUS
<1> USE TelemetryAssumption
<1>1. TelTypes
  <2>1. NoNotes \in [Sources -> Nat] /\ NoEntry \in StateRow
    BY DEF NoNotes, NoEntry, StateRow
  <2>2. \A n : n = NoNotes => [at |-> "wait", snap |-> n, tnow |-> 0, done |-> 0] \in MonitorState
    BY <2>1 DEF MonitorState
  <2>3. monitor \in [Monitors -> MonitorState]
    BY <2>2 DEF TelInit
  <2>4. seen \in [Sources -> Nat] /\ warned \in [Sources -> Nat] /\ entry \in [Sources -> StateRow]
        /\ pending \in [Monitors -> [Sources -> Nat]]
    BY <2>1 DEF TelInit
  <2>5. now \in 1..MaxNow /\ newest \in Nat /\ monEvents \in 0..MaxMonEvents
    BY DEF TelInit
  <2>6. watched \subseteq Sources /\ excused \in BOOLEAN /\ again = FALSE /\ crossed \in BOOLEAN
    BY DEF TelInit
  <2> QED
    BY <2>3, <2>4, <2>5, <2>6 DEF TelTypes
<1>2. TimesOK
  BY DEF TelInit, TimesOK, NoNotes, NoEntry
<1>3. NotesKept
  BY DEF TelInit, NotesKept, NoNotes, NoEntry
<1>4. Slack \in Nat /\ Slow \in Nat /\ Slow = 1 + MaxLag
  BY <1>1, TelTyped
<1>5. ExpectedSoon
  <2>1. \A m \in Monitors : monitor[m].at = "wait" /\ monitor[m].done = 0 /\ now = 1
    BY DEF TelInit
  <2>2. \A m \in Monitors : StartsBy(m, 1 + Slack)
    BY <1>4, <2>1 DEF StartsBy
  <2>3. \A k \in Sources : entry[k] = NoEntry /\ warned[k] = 0 /\ entry[k].since = 0
    BY DEF TelInit, NoNotes, NoEntry
  <2> QED
    BY <1>4, <2>1, <2>2, <2>3 DEF ExpectedSoon
<1>6. TickIsDue
  <2>1. PICK m \in Monitors : TRUE
    OBVIOUS
  <2>2. ASSUME NEW k \in Sources PROVE StartsBy(m, Heard(k) + MaxSilence + Slack + Slow)
    <3>1. monitor[m].at = "wait" /\ monitor[m].done = 0 /\ now = 1
      BY DEF TelInit
    <3>2. Heard(k) \in Nat /\ Heard(k) >= 1
      BY <1>1, TelTyped
    <3> QED
      BY <1>4, <3>1, <3>2 DEF StartsBy
  <2> QED
    BY <2>1, <2>2 DEF TickIsDue
<1>7. AlertedOnce
  BY DEF TelInit, AlertedOnce, NoNotes, NoEntry
<1>8. watched = Sources
  BY DEF TelInit
<1> QED
  BY <1>1, <1>2, <1>3, <1>5, <1>6, <1>7, <1>8 DEF TelInv

-----------------------------------------------------------------------------
\* An ingest thread notes an event.
LEMMA ObserveKeeps ==
  ASSUME TelInv, NEW m \in Monitors, NEW k \in Sources, Observe(m, k)
  PROVE  TelInv'
<1>0. TelTypes /\ TimesOK
  BY DEF TelInv
<1>1. /\ UNCHANGED <<now, watched, entry, monitor, excused, warned, again, newest, crossed, monEvents>>
      /\ seen' = [seen EXCEPT ![k] = now] /\ pending' = [pending EXCEPT ![m][k] = now]
  BY DEF Observe, telHistory
<1>2. /\ \A j \in Sources : seen'[j] = IF j = k THEN now ELSE seen[j]
      /\ \A n \in Monitors : \A j \in Sources :
           pending'[n][j] = IF n = m /\ j = k THEN now ELSE pending[n][j]
  BY <1>0, <1>1 DEF TelTypes
<1>3. /\ now \in Nat /\ now >= 1 /\ \A j \in Sources : seen[j] \in Nat /\ seen[j] <= now
  BY <1>0, TelTyped DEF TimesOK
<1>4. TelTypes'
  <2>1. seen' \in [Sources -> Nat]
    BY <1>0, <1>1, <1>3 DEF TelTypes
  <2>2. pending' \in [Monitors -> [Sources -> Nat]]
    BY <1>0, <1>1, <1>3 DEF TelTypes
  <2> QED
    BY <1>0, <1>1, <2>1, <2>2 DEF TelTypes
<1>5. TimesOK'
  <2>1. ASSUME NEW j \in Sources
        PROVE  /\ seen'[j] <= now /\ seen[j] <= seen'[j]
               /\ entry[j].last <= seen'[j]
               /\ \A n \in Monitors : pending'[n][j] <= seen'[j] /\ monitor[n].snap[j] <= seen'[j]
    <3>1. seen[j] \in Nat /\ entry[j].last \in Nat /\ entry[j].last <= seen[j]
      BY <1>0, TelTyped DEF TimesOK
    <3>2. seen'[j] \in Nat /\ seen'[j] <= now /\ seen[j] <= seen'[j]
      BY <1>2, <1>3
    <3>3. ASSUME NEW n \in Monitors PROVE pending'[n][j] <= seen'[j] /\ monitor[n].snap[j] <= seen'[j]
      <4>1. pending[n][j] \in Nat /\ monitor[n].snap[j] \in Nat
            /\ pending[n][j] <= seen[j] /\ monitor[n].snap[j] <= seen[j]
        BY <1>0, TelTyped DEF TimesOK
      <4>2. (pending'[n][j] = now /\ j = k) \/ pending'[n][j] = pending[n][j]
        BY <1>2
      <4> QED
        BY <1>2, <1>3, <3>1, <3>2, <4>1, <4>2
    <3> QED
      BY <3>1, <3>2, <3>3
  <2> QED
    BY <1>0, <1>1, <2>1 DEF TimesOK
<1>6. ASSUME ~excused PROVE watched = Sources /\ NotesKept' /\ ExpectedSoon' /\ TickIsDue'
  <2>1. watched = Sources /\ NotesKept /\ ExpectedSoon /\ TickIsDue
    BY <1>6 DEF TelInv
  <2>2. NotesKept'
    <3>1. ASSUME NEW j \in Sources PROVE seen'[j] = entry[j].last \/ \E n \in Monitors : seen'[j] = pending'[n][j]
      <4>1. CASE j = k
        BY <1>2, <4>1
      <4>2. CASE j # k
        BY <1>2, <2>1, <4>2 DEF NotesKept
      <4> QED
        BY <4>1, <4>2
    <3> QED
      BY <1>1, <2>1, <3>1 DEF NotesKept
  <2>3. ExpectedSoon'
    BY <1>1, <2>1 DEF ExpectedSoon, StartsBy, Slack
  <2>4. TickIsDue'
    <3>1. ASSUME NEW j \in Sources, ~entry[j].alert
          PROVE  \E n \in Monitors : StartsBy(n, Heard(j)' + MaxSilence + Slack + Slow)
      <4>1. PICK n \in Monitors : StartsBy(n, Heard(j) + MaxSilence + Slack + Slow)
        BY <2>1, <3>1 DEF TickIsDue
      <4>2. PICK h, i : h = Heard(j) /\ i = Heard(j)'
        OBVIOUS
      <4>3. h \in Nat /\ i \in Nat /\ h <= i
        BY <1>2, <1>3, <4>2 DEF Heard
      <4>4. h + MaxSilence + Slack + Slow \in Nat /\ i + MaxSilence + Slack + Slow \in Nat
            /\ h + MaxSilence + Slack + Slow <= i + MaxSilence + Slack + Slow
        BY <1>0, <4>3, TelTyped
      <4> QED
        BY <1>0, <4>1, <4>2, <4>4, StartsLater
    <3> QED
      BY <1>1, <3>1 DEF TickIsDue, StartsBy, Slack
  <2> QED
    BY <2>1, <2>2, <2>3, <2>4
<1>7. ASSUME ~excused, ~crossed PROVE AlertedOnce'
  BY <1>1, <1>7 DEF TelInv, AlertedOnce
<1> QED
  BY <1>1, <1>4, <1>5, <1>6, <1>7 DEF TelInv

\* A note is dropped, or a profile switched: only the times are claimed then.
LEMMA ExcuseKeeps ==
  ASSUME TelInv,
         \/ \E m \in Monitors, k \in Sources : DropNote(m, k)
         \/ \E k \in Sources : Profile(k)
  PROVE  TelInv'
<1>0. TelTypes /\ TimesOK
  BY DEF TelInv
<1>1. /\ UNCHANGED <<now, seen, entry, monitor, warned, again, newest, crossed>>
      /\ excused' = TRUE /\ monEvents < MaxMonEvents /\ monEvents' = monEvents + 1
  BY DEF DropNote, Profile, MonEvent, telHistory
<1>2. monEvents' \in 0..MaxMonEvents
  BY <1>0, <1>1, TelemetryAssumption DEF TelTypes
<1>3. CASE \E k \in Sources : Profile(k)
  <2>1. pending' = pending /\ watched' \subseteq Sources
    BY <1>0, <1>3 DEF Profile, TelTypes
  <2>2. TelTypes' /\ TimesOK'
    BY <1>0, <1>1, <1>2, <2>1 DEF TelTypes, TimesOK
  <2> QED
    BY <1>1, <2>2 DEF TelInv
<1>4. ASSUME NEW m \in Monitors, NEW k \in Sources, DropNote(m, k) PROVE TelInv'
  <2>1. pending' = [pending EXCEPT ![m][k] = 0] /\ watched' = watched
    BY <1>4 DEF DropNote
  <2>2. pending' \in [Monitors -> [Sources -> Nat]]
    BY <1>0, <2>1 DEF TelTypes
  <2>3. \A n \in Monitors : \A j \in Sources : pending'[n][j] \in {0, pending[n][j]}
    BY <1>0, <2>1 DEF TelTypes
  <2>4. ASSUME NEW n \in Monitors, NEW j \in Sources PROVE pending'[n][j] <= seen[j]
    <3>1. pending[n][j] <= seen[j] /\ seen[j] \in Nat
      BY <1>0, TelTyped DEF TimesOK
    <3> QED
      BY <2>3, <3>1
  <2>5. TelTypes' /\ TimesOK'
    BY <1>0, <1>1, <1>2, <2>1, <2>2, <2>4 DEF TelTypes, TimesOK
  <2> QED
    BY <1>1, <2>5 DEF TelInv
<1> QED
  BY <1>3, <1>4
\* Time passes: no tick takes longer than MaxLag, no wait longer than one unit.
LEMMA PassesKeeps ==
  ASSUME TelInv, Passes
  PROVE  TelInv'
<1>0. TelTypes /\ TimesOK
  BY DEF TelInv
<1>1. /\ now < MaxNow /\ now' = now + 1
      /\ \A m \in Monitors : IF monitor[m].at = "evaluate" THEN now < monitor[m].tnow + MaxLag
                             ELSE monitor[m].at = "wait" /\ now <= monitor[m].done
      /\ UNCHANGED <<watched, seen, pending, entry, monitor, excused, warned, again, newest,
                     crossed, monEvents>>
  BY DEF Passes, telHistory
<1>2. now \in Nat
  BY <1>0, TelTyped
<1>3. TelTypes'
  <2>1. now' \in 1..MaxNow
    BY <1>1, <1>2, TelemetryAssumption
  <2> QED
    BY <1>0, <1>1, <2>1 DEF TelTypes
<1>4. TimesOK'
  <2>1. ASSUME NEW k \in Sources PROVE seen[k] <= now' /\ entry[k].since <= now'
    <3>1. seen[k] \in Nat /\ entry[k].since \in Nat /\ seen[k] <= now /\ entry[k].since <= now
      BY <1>0, TelTyped DEF TimesOK
    <3> QED
      BY <1>1, <1>2, <3>1
  <2>2. ASSUME NEW m \in Monitors, monitor[m].at # "wait"
        PROVE  1 <= monitor[m].tnow /\ monitor[m].tnow <= now' /\ now' <= monitor[m].tnow + MaxLag
    <3>1. monitor[m].tnow \in Nat /\ MaxLag \in Nat /\ 1 <= monitor[m].tnow /\ monitor[m].tnow <= now
      BY <1>0, <2>2, TelTyped DEF TimesOK
    <3>2. now < monitor[m].tnow + MaxLag
      BY <1>1, <2>2
    <3> QED
      BY <1>1, <1>2, <3>1, <3>2
  <2> QED
    BY <1>0, <1>1, <2>1, <2>2 DEF TimesOK
<1>5. ASSUME NEW m \in Monitors, NEW t \in Nat, StartsBy(m, t)
      PROVE  monitor[m].at \in {"evaluate", "wait"} /\ StartsBy(m, t)'
  <2>1. monitor[m].done \in Nat
    BY <1>0, TelTyped
  <2> QED
    BY <1>1, <1>2, <1>5, <2>1 DEF StartsBy
<1>6. ASSUME ~excused PROVE watched = Sources /\ NotesKept' /\ ExpectedSoon' /\ TickIsDue'
  <2>1. watched = Sources /\ NotesKept /\ ExpectedSoon /\ TickIsDue
    BY <1>6 DEF TelInv
  <2>2. NotesKept'
    BY <1>1, <2>1 DEF NotesKept
  <2>3. Slack' = Slack /\ 1 + Slack \in Nat /\ Slack \in Nat /\ Slow \in Nat /\ MaxSilence \in Nat
    BY <1>0, <1>1, TelTyped DEF Slack
  <2>4. \A m \in Monitors : StartsBy(m, 1 + Slack) => StartsBy(m, 1 + Slack)'
    <3>1. PICK t : t = 1 + Slack
      OBVIOUS
    <3>2. \A m \in Monitors : StartsBy(m, t) => StartsBy(m, t)'
      BY <1>5, <2>3, <3>1
    <3> QED
      BY <1>1, <2>3, <3>1, <3>2 DEF StartsBy
  <2>5. ExpectedSoon'
    BY <1>1, <2>1, <2>3, <2>4 DEF ExpectedSoon
  <2>6. TickIsDue'
    <3>1. ASSUME NEW k \in Sources, ~entry[k].alert
          PROVE  \E m \in Monitors : StartsBy(m, Heard(k) + MaxSilence + Slack + Slow)'
      <4>1. PICK t : t = Heard(k) + MaxSilence + Slack + Slow
        OBVIOUS
      <4>2. t \in Nat /\ Heard(k)' = Heard(k)
        BY <1>0, <1>1, <2>3, <4>1, TelTyped DEF Heard
      <4>3. PICK m \in Monitors : StartsBy(m, t)
        BY <2>1, <3>1, <4>1 DEF TickIsDue
      <4>4. StartsBy(m, t)'
        BY <1>5, <4>2, <4>3
      <4> QED
        BY <1>1, <2>3, <4>1, <4>2, <4>4 DEF StartsBy
    <3> QED
      BY <1>1, <3>1 DEF TickIsDue
  <2> QED
    BY <2>1, <2>2, <2>5, <2>6
<1>7. ASSUME ~excused, ~crossed PROVE AlertedOnce'
  BY <1>1, <1>7 DEF TelInv, AlertedOnce
<1> QED
  BY <1>1, <1>3, <1>4, <1>6, <1>7 DEF TelInv

\* Only monitor m moves, to r; the row and the sources stay.
LEMMA MonitorMoves ==
  ASSUME TelInv, NEW m \in Monitors, NEW r \in MonitorState, monitor' = [monitor EXCEPT ![m] = r],
         UNCHANGED <<now, watched, seen, entry, excused, warned, again, newest, crossed>>,
         pending' \in [Monitors -> [Sources -> Nat]], monEvents' \in {monEvents, monEvents + 1},
         monEvents' <= MaxMonEvents,
         \A n \in Monitors : \A k \in Sources : pending'[n][k] <= seen[k],
         \A k \in Sources : r.snap[k] <= seen[k],
         r.at # "clear",
         r.at = "evaluate" => 1 <= r.tnow /\ r.tnow <= now /\ now <= r.tnow + MaxLag,
         ~excused => \A k \in Sources :
           seen[k] = entry[k].last \/ \E n \in Monitors : seen[k] = pending'[n][k],
         \A t \in Nat : StartsBy(m, t) =>
           IF monEvents' = monEvents THEN StartsBy(m, t)' ELSE StartsBy(m, t + Slow)'
  PROVE  TelInv'
<1>0. TelTypes /\ TimesOK
  BY DEF TelInv
<1>1. \A n \in Monitors : monitor'[n] = IF n = m THEN r ELSE monitor[n]
  BY <1>0 DEF TelTypes
<1>2. now \in Nat /\ monEvents \in Nat
  BY <1>0, TelTyped
<1>3. TelTypes'
  <2>1. monitor' \in [Monitors -> MonitorState] /\ monEvents' \in 0..MaxMonEvents
    BY <1>0, <1>2, TelemetryAssumption DEF TelTypes
  <2> QED
    BY <1>0, <2>1 DEF TelTypes
<1>4. TimesOK'
  <2>1. \A n \in Monitors : \A k \in Sources : monitor'[n].snap[k] <= seen[k]
    BY <1>0, <1>1 DEF TimesOK
  <2>2. \A n \in Monitors : monitor'[n].at # "wait" =>
          1 <= monitor'[n].tnow /\ monitor'[n].tnow <= now /\ now <= monitor'[n].tnow + MaxLag
    <3>1. r.at = "evaluate" \/ r.at = "wait"
      BY DEF MonitorState
    <3> QED
      BY <1>0, <1>1, <3>1 DEF TimesOK
  <2> QED
    BY <1>0, <2>1, <2>2 DEF TimesOK
<1>5. Slack \in Nat /\ Slow \in Nat /\ MaxSilence \in Nat /\ Slack' \in {Slack, Slack + Slow}
      /\ Slack <= Slack' /\ (monEvents' # monEvents => Slack' = Slack + Slow) /\ Slack' \in Nat
  <2>1. Slack \in Nat /\ Slow \in Nat /\ MaxSilence \in Nat
    BY <1>0, TelTyped
  <2>2. CASE monEvents' = monEvents
    BY <2>1, <2>2 DEF Slack
  <2>3. CASE monEvents' = monEvents + 1
    <3>1. Slack' = Slack + Slow
      BY <1>0, <2>3, SlackGrows
    <3> QED
      BY <2>1, <3>1
  <2> QED
    BY <2>2, <2>3
<1>6. ASSUME NEW n \in Monitors, NEW t \in Nat, NEW u \in Nat, StartsBy(n, t), t <= u,
             monEvents' # monEvents => u = t + Slow
      PROVE  StartsBy(n, u)'
  <2>1. CASE n = m /\ monEvents' = monEvents
    <3>1. StartsBy(n, t)'
      BY <1>6, <2>1
    <3>2. now \in Nat /\ r.tnow \in Nat /\ r.done \in Nat /\ r.at # "clear"
      BY <1>2 DEF MonitorState
    <3>3. /\ r.at = "evaluate" => r.tnow <= t
          /\ r.at = "wait" => now <= t /\ r.done + 1 <= t
      BY <1>1, <2>1, <3>1 DEF StartsBy
    <3>4. /\ r.at = "evaluate" => r.tnow <= u
          /\ r.at = "wait" => now <= u /\ r.done + 1 <= u
      BY <1>6, <3>2, <3>3
    <3> QED
      BY <1>1, <2>1, <3>2, <3>4 DEF StartsBy
  <2>2. CASE n = m /\ monEvents' # monEvents
    BY <1>6, <2>2
  <2>3. CASE n # m
    <3>1. StartsBy(n, u)
      BY <1>0, <1>6, StartsLater
    <3> QED
      BY <1>1, <2>3, <3>1 DEF StartsBy
  <2> QED
    BY <2>1, <2>2, <2>3
<1>7. ASSUME ~excused PROVE watched = Sources /\ NotesKept' /\ ExpectedSoon' /\ TickIsDue'
  <2>1. watched = Sources /\ NotesKept /\ ExpectedSoon /\ TickIsDue
    BY <1>7 DEF TelInv
  <2>2. NotesKept'
    <3>1. \A k \in Sources : \A n \in Monitors :
            monitor'[n].at = "clear" => monitor'[n].snap[k] <= entry[k].last
      BY <1>1, <2>1 DEF NotesKept
    <3> QED
      BY <1>7, <3>1 DEF NotesKept
  <2>3. ExpectedSoon'
    <3>1. PICK t, u : t = 1 + Slack /\ u = 1 + Slack'
      OBVIOUS
    <3>2. t \in Nat /\ u \in Nat /\ t <= u /\ (monEvents' # monEvents => u = t + Slow)
      <4>1. PICK x, y : x = Slack /\ y = Slack'
        OBVIOUS
      <4>2. x \in Nat /\ y \in Nat /\ x <= y /\ Slow \in Nat /\ (monEvents' # monEvents => y = x + Slow)
        BY <1>5, <4>1
      <4>3. t = 1 + x /\ u = 1 + y
        BY <3>1, <4>1
      <4> QED
        BY <4>2, <4>3
    <3>3. \A n \in Monitors : StartsBy(n, t) => StartsBy(n, u)'
      BY <1>6, <3>2
    <3>4. ASSUME NEW k \in Sources
          PROVE  /\ entry[k].since = 0 => /\ entry[k] = NoEntry /\ warned[k] = 0
                                          /\ \A n \in Monitors : monitor'[n].at # "clear" /\ StartsBy(n, u)'
                 /\ entry[k].since <= u
      <4>1. /\ entry[k].since = 0 => /\ entry[k] = NoEntry /\ warned[k] = 0
                                     /\ \A n \in Monitors : monitor[n].at # "clear" /\ StartsBy(n, t)
            /\ entry[k].since <= t
        BY <2>1, <3>1 DEF ExpectedSoon
      <4>2. entry[k].since \in Nat
        BY <1>0, TelTyped
      <4>3. entry[k].since <= u
        BY <3>2, <4>1, <4>2
      <4> QED
        BY <1>1, <3>3, <4>1, <4>3
    <3>5. \A n \in Monitors : StartsBy(n, u)' => StartsBy(n, 1 + Slack)'
      BY <3>1 DEF StartsBy
    <3> QED
      BY <3>1, <3>4, <3>5 DEF ExpectedSoon
  <2>4. TickIsDue'
    <3>1. ASSUME NEW k \in Sources, ~entry[k].alert
          PROVE  \E n \in Monitors : StartsBy(n, Heard(k) + MaxSilence + Slack + Slow)'
      <4>1. PICK h : h = Heard(k) + MaxSilence /\ h \in Nat
        BY <1>0, <1>5, TelTyped
      <4>2. PICK t, u : t = h + Slack + Slow /\ u = h + Slack' + Slow
        OBVIOUS
      <4>3. t \in Nat /\ u \in Nat /\ t <= u /\ (monEvents' # monEvents => u = t + Slow)
        BY <1>5, <4>1, <4>2
      <4>4. PICK n \in Monitors : StartsBy(n, t)
        BY <2>1, <3>1, <4>1, <4>2 DEF TickIsDue
      <4>5. StartsBy(n, u)'
        BY <1>6, <4>3, <4>4
      <4>6. Heard(k)' = Heard(k)
        BY DEF Heard
      <4> QED
        BY <4>1, <4>2, <4>5, <4>6 DEF StartsBy
    <3> QED
      BY <3>1 DEF TickIsDue
  <2> QED
    BY <2>1, <2>2, <2>3, <2>4
<1>8. ASSUME ~excused, ~crossed PROVE AlertedOnce'
  BY <1>8 DEF TelInv, AlertedOnce
<1> QED
  BY <1>3, <1>4, <1>7, <1>8 DEF TelInv

LEMMA SnapKeeps ==
  ASSUME TelInv, NEW m \in Monitors, Snap(m)
  PROVE  TelInv'
<1>0. TelTypes /\ TimesOK
  BY DEF TelInv
<1>1. PICK r : r = [at |-> "evaluate", snap |-> pending[m], tnow |-> now, done |-> 0]
  OBVIOUS
<1>2. monitor[m].at = "wait" /\ monitor' = [monitor EXCEPT ![m] = r]
      /\ UNCHANGED <<now, watched, seen, pending, entry, excused, warned, again, newest, crossed, monEvents>>
  BY <1>1 DEF Snap, telHistory
<1>3. now \in Nat /\ now >= 1 /\ MaxLag \in Nat /\ monEvents <= MaxMonEvents
  BY <1>0, TelTyped, TelemetryAssumption DEF TelTypes
<1>4. r \in MonitorState /\ r.at = "evaluate" /\ r.tnow = now /\ \A k \in Sources : r.snap[k] = pending[m][k]
  BY <1>0, <1>1, <1>3 DEF TelTypes, MonitorState
<1>5. monitor'[m] = r
  BY <1>0, <1>2 DEF TelTypes
<1>6. \A t \in Nat : StartsBy(m, t) => StartsBy(m, t)'
  BY <1>2, <1>4, <1>5 DEF StartsBy
<1>7. \A n \in Monitors : \A k \in Sources : pending[n][k] <= seen[k]
  BY <1>0 DEF TimesOK
<1>8. ~excused => \A k \in Sources : seen[k] = entry[k].last \/ \E n \in Monitors : seen[k] = pending[n][k]
  BY DEF TelInv, NotesKept
<1>9. pending' \in [Monitors -> [Sources -> Nat]]
  BY <1>0, <1>2 DEF TelTypes
<1>10. \A k \in Sources : r.snap[k] <= seen[k]
  BY <1>4, <1>7
<1>11. 1 <= r.tnow /\ r.tnow <= now /\ now <= r.tnow + MaxLag /\ monEvents' <= MaxMonEvents
  BY <1>2, <1>3, <1>4
<1>12. r.at # "clear" /\ monEvents' = monEvents
  BY <1>2, <1>4
<1> QED
  BY <1>2, <1>4, <1>6, <1>7, <1>8, <1>9, <1>10, <1>11, <1>12, MonitorMoves

LEMMA FailsKeeps ==
  ASSUME TelInv, NEW m \in Monitors, TickFails(m)
  PROVE  TelInv'
<1>0. TelTypes /\ TimesOK
  BY DEF TelInv
<1>1. PICK r : r = [at |-> "wait", snap |-> NoNotes, tnow |-> 0, done |-> now]
  OBVIOUS
<1>2. monitor[m].at = "evaluate" /\ monitor' = [monitor EXCEPT ![m] = r]
      /\ UNCHANGED <<now, watched, seen, pending, entry, excused, warned, again, newest, crossed>>
      /\ monEvents < MaxMonEvents /\ monEvents' = monEvents + 1
  BY <1>1 DEF TickFails, MonEvent, telHistory
<1>3. /\ now \in Nat /\ MaxLag \in Nat /\ Slow = 1 + MaxLag /\ monEvents \in Nat
      /\ monitor[m].tnow \in Nat /\ now <= monitor[m].tnow + MaxLag
  BY <1>0, <1>2, TelTyped DEF TimesOK
<1>4. r \in MonitorState /\ r.at = "wait" /\ r.done = now /\ \A k \in Sources : r.snap[k] = 0
  BY <1>1, <1>3 DEF NoNotes, MonitorState
<1>5. monitor'[m] = r
  BY <1>0, <1>2 DEF TelTypes
<1>6. ASSUME NEW t \in Nat, StartsBy(m, t) PROVE StartsBy(m, t + Slow)'
  <2>1. monitor[m].tnow <= t
    BY <1>2, <1>6 DEF StartsBy
  <2>2. now + 1 <= t + Slow /\ now <= t + Slow
    BY <1>3, <2>1
  <2> QED
    BY <1>2, <1>4, <1>5, <2>2 DEF StartsBy
<1>7. \A n \in Monitors : \A k \in Sources : pending[n][k] <= seen[k] /\ 0 <= seen[k]
  BY <1>0, TelTyped DEF TimesOK
<1>8. ~excused => \A k \in Sources : seen[k] = entry[k].last \/ \E n \in Monitors : seen[k] = pending[n][k]
  BY DEF TelInv, NotesKept
<1>9. pending' \in [Monitors -> [Sources -> Nat]] /\ monEvents' <= MaxMonEvents /\ monEvents' # monEvents
  BY <1>0, <1>2, <1>3, TelemetryAssumption DEF TelTypes
<1> QED
  BY ZenonT(60), <1>2, <1>4, <1>6, <1>7, <1>8, <1>9, MonitorMoves

LEMMA ClearKeeps ==
  ASSUME TelInv, NEW m \in Monitors, Clear_(m)
  PROVE  TelInv'
<1>0. TelTypes /\ TimesOK
  BY DEF TelInv
<1>1. PICK r : r = [at |-> "wait", snap |-> NoNotes, tnow |-> 0, done |-> now]
  OBVIOUS
<1>2. monitor[m].at = "clear" /\ monitor' = [monitor EXCEPT ![m] = r]
      /\ pending' = [pending EXCEPT ![m] = [k \in Sources |-> Left(m, k)]]
      /\ UNCHANGED <<now, watched, seen, entry, excused, warned, again, newest, crossed, monEvents>>
  BY <1>1 DEF Clear_, telHistory
<1>3. now \in Nat /\ monEvents \in Nat /\ monEvents <= MaxMonEvents
  BY <1>0, TelTyped, TelemetryAssumption DEF TelTypes
<1>4. r \in MonitorState /\ r.at = "wait" /\ r.done = now /\ \A k \in Sources : r.snap[k] = 0
  BY <1>1, <1>3 DEF NoNotes, MonitorState
<1>5. monitor'[m] = r
  BY <1>0, <1>2 DEF TelTypes
<1>6. ASSUME NEW t \in Nat, StartsBy(m, t) PROVE StartsBy(m, t)'
  <2>1. now + 1 <= t
    BY <1>2, <1>6 DEF StartsBy
  <2>2. now <= t
    BY <1>3, <2>1
  <2> QED
    BY <1>2, <1>4, <1>5, <2>1, <2>2 DEF StartsBy
<1>7. \A k \in Sources : Left(m, k) \in Nat
  BY <1>0, TelTyped DEF Left
<1>8. pending' \in [Monitors -> [Sources -> Nat]]
  BY <1>0, <1>2, <1>7 DEF TelTypes
<1>9. \A n \in Monitors : \A k \in Sources : pending'[n][k] = IF n = m THEN Left(m, k) ELSE pending[n][k]
  BY <1>0, <1>2 DEF TelTypes
<1>10. ASSUME NEW n \in Monitors, NEW k \in Sources PROVE pending'[n][k] <= seen[k] /\ r.snap[k] <= seen[k]
  <2>1. pending[n][k] <= seen[k] /\ seen[k] \in Nat
    BY <1>0, TelTyped DEF TimesOK
  <2>2. pending'[n][k] \in {0, pending[n][k]}
    BY <1>9 DEF Left
  <2> QED
    BY <1>4, <2>1, <2>2
<1>11. ASSUME ~excused, NEW k \in Sources
       PROVE  seen[k] = entry[k].last \/ \E n \in Monitors : seen[k] = pending'[n][k]
  <2>1. NotesKept
    BY <1>11 DEF TelInv
  <2>2. ASSUME NEW n \in Monitors, seen[k] = pending[n][k], pending'[n][k] # pending[n][k]
        PROVE  seen[k] = entry[k].last
    <3>1. n = m /\ pending[m][k] = monitor[m].snap[k]
      BY <1>9, <2>2 DEF Left
    <3>2. monitor[m].snap[k] <= entry[k].last
      BY <1>2, <2>1 DEF NotesKept
    <3>3. entry[k].last <= seen[k] /\ entry[k].last \in Nat /\ seen[k] \in Nat
      BY <1>0, TelTyped DEF TimesOK
    <3> QED
      BY <2>2, <3>1, <3>2, <3>3
  <2> QED
    BY <2>1, <2>2 DEF NotesKept
<1> QED
  BY <1>2, <1>3, <1>4, <1>6, <1>8, <1>10, <1>11, MonitorMoves
-----------------------------------------------------------------------------
\* The row of a source after a tick.
LEMMA UpdatedRow ==
  ASSUME TelInv, NEW m \in Monitors, NEW k \in Sources, monitor[m].at = "evaluate",
         NEW u, u = Updated(m, k), NEW e, e = entry[k],
         NEW t, t = monitor[m].tnow, NEW s, s = monitor[m].snap[k]
  PROVE  /\ u \in StateRow /\ u.since = (IF e.since = 0 THEN t ELSE e.since)
         /\ Anchor(u) = (IF u.last = 0 THEN u.since ELSE u.last) /\ Anchor(u) \in Nat
         /\ e.since # 0 => u.last = (IF e.last <= s THEN s ELSE e.last)
         /\ e.since = 0 => u.last = s
         /\ u.alert <=> \/ t > Anchor(u) + MaxSilence
                        \/ e.since # 0 /\ e.alert /\ u.last = 0
<1>0. TelTypes
  BY DEF TelInv
<1>1. t \in Nat /\ s \in Nat /\ e \in StateRow /\ e.since \in Nat /\ e.last \in Nat /\ e.alert \in BOOLEAN
      /\ MaxSilence \in Nat
  BY <1>0, TelTyped DEF StateRow
<1>2. PICK o : o = IF entry[k].since = 0 THEN [NoEntry EXCEPT !.since = monitor[m].tnow] ELSE entry[k]
  OBVIOUS
<1>3. o \in StateRow /\ o.since = (IF e.since = 0 THEN t ELSE e.since)
      /\ (e.since = 0 => o.last = 0 /\ o.alert = FALSE)
      /\ (e.since # 0 => o.last = e.last /\ o.alert = e.alert)
  BY <1>1, <1>2 DEF NoEntry, StateRow
<1>4. PICK n : n = Merged(o.last, s)
  OBVIOUS
<1>5. o.last \in Nat /\ o.alert \in BOOLEAN /\ o.since \in Nat
  BY <1>3 DEF StateRow
<1>6. n = (IF o.last <= s THEN s ELSE o.last) /\ n \in Nat
  BY <1>1, <1>4, <1>5, MaxOfTwo DEF Merged
<1>7. PICK p : p = [o EXCEPT !.last = n]
  OBVIOUS
<1>8. p \in StateRow /\ p.last = n /\ p.since = o.since /\ p.alert = o.alert
  BY <1>3, <1>6, <1>7 DEF StateRow
<1>9. u = [p EXCEPT !.alert = Silent(p, t) \/ (p.alert /\ p.last = 0)]
  BY <1>2, <1>4, <1>7 DEF Updated
<1>10. PICK b : b = (Silent(p, t) \/ (p.alert /\ p.last = 0)) /\ b \in BOOLEAN
  OBVIOUS
<1>11. u = [p EXCEPT !.alert = b]
  BY <1>9, <1>10
<1>12. u \in StateRow /\ u.last = n /\ u.since = o.since /\ u.alert = b
  BY <1>8, <1>10, <1>11 DEF StateRow
<1>13. Anchor(u) = (IF u.last = 0 THEN u.since ELSE u.last) /\ Anchor(p) = Anchor(u)
  BY <1>8, <1>12 DEF Anchor
<1>14. Anchor(u) \in Nat
  BY <1>12, <1>13 DEF StateRow
<1>15. u.alert <=> (t > Anchor(u) + MaxSilence \/ (o.alert /\ n = 0))
  BY <1>8, <1>10, <1>12, <1>13 DEF Silent
<1>16. u.since = (IF e.since = 0 THEN t ELSE e.since)
  BY <1>3, <1>12
<1>17. e.since # 0 => u.last = (IF e.last <= s THEN s ELSE e.last)
  BY <1>3, <1>6, <1>12
<1>18. e.since = 0 => u.last = s
  BY <1>1, <1>3, <1>6, <1>12
<1>19. u.alert <=> \/ t > Anchor(u) + MaxSilence
                   \/ e.since # 0 /\ e.alert /\ u.last = 0
  BY <1>3, <1>12, <1>15
<1> QED
  BY <1>12, <1>13, <1>14, <1>16, <1>17, <1>18, <1>19

\* The transaction of a tick.
LEMMA EvaluateKeeps ==
  ASSUME TelInv, NEW m \in Monitors, Evaluate(m)
  PROVE  TelInv'
<1>0. TelTypes /\ TimesOK /\ MaxLag \in Nat /\ MaxSilence \in Nat /\ Slow \in Nat /\ Slow = 1 + MaxLag
      /\ Slack \in Nat
  BY TelTyped DEF TelInv
<1>1. /\ monitor[m].at = "evaluate"
      /\ entry' = [k \in Sources |-> IF k \in watched THEN Updated(m, k) ELSE NoEntry]
      /\ monitor' = [monitor EXCEPT ![m].at = "clear"]
      /\ warned' = [k \in Sources |-> IF Raises(k) THEN Anchor(entry'[k]) ELSE warned[k]]
      /\ newest' = Max({newest, monitor[m].tnow})
      /\ crossed' = (crossed \/ monitor[m].tnow < newest)
      /\ again' = (again \/ (/\ ~excused /\ ~crossed'
                            /\ \E k \in Sources : Raises(k) /\ Anchor(entry'[k]) <= warned[k]))
      /\ UNCHANGED <<now, watched, seen, pending, excused, monEvents>>
  BY DEF Evaluate
<1>2. PICK t : t = monitor[m].tnow
  OBVIOUS
<1>3. t \in Nat /\ now \in Nat /\ newest \in Nat /\ 1 <= t /\ t <= now /\ now <= t + MaxLag
  BY <1>0, <1>1, <1>2, TelTyped DEF TimesOK
<1>4. newest' = (IF newest <= t THEN t ELSE newest) /\ newest' \in Nat /\ newest' >= newest /\ newest' >= t
  BY <1>1, <1>2, <1>3, MaxOfTwo
\* the monitor only goes on to clear its notes
<1>5. PICK r : r = [monitor[m] EXCEPT !.at = "clear"]
  OBVIOUS
<1>6. /\ r \in MonitorState /\ r.at = "clear" /\ r.tnow = t /\ r.snap = monitor[m].snap
      /\ monitor' = [monitor EXCEPT ![m] = r]
  BY <1>0, <1>1, <1>2, <1>5 DEF TelTypes, MonitorState
<1>7. \A n \in Monitors : monitor'[n] = IF n = m THEN r ELSE monitor[n]
  BY <1>0, <1>6 DEF TelTypes
<1>8. ASSUME NEW k \in Sources, k \in watched
      PROVE  entry'[k] = Updated(m, k)
  BY <1>1, <1>8
<1>9. ASSUME NEW k \in Sources
      PROVE  /\ entry'[k] \in StateRow /\ entry'[k].since <= now /\ entry'[k].last <= seen[k]
             /\ k \in watched => entry'[k].since # 0 /\ monitor[m].snap[k] <= entry'[k].last
             /\ k \in watched /\ entry[k].since # 0 => entry[k].last <= entry'[k].last
  <2>1. CASE k \notin watched
    <3>1. entry'[k] = NoEntry
      BY <1>1, <2>1
    <3>2. seen[k] \in Nat
      BY <1>0, TelTyped
    <3> QED
      BY <1>3, <2>1, <3>1, <3>2 DEF NoEntry, StateRow
  <2>2. CASE k \in watched
    <3>1. PICK u, e, s : u = Updated(m, k) /\ e = entry[k] /\ s = monitor[m].snap[k]
      OBVIOUS
    <3>2. /\ e.since \in Nat /\ e.last \in Nat /\ s \in Nat /\ seen[k] \in Nat
          /\ e.last <= seen[k] /\ s <= seen[k] /\ e.since <= now
      BY <1>0, <3>1, TelTyped DEF TimesOK
    <3>3. /\ u \in StateRow /\ u.since = (IF e.since = 0 THEN t ELSE e.since)
          /\ e.since # 0 => u.last = (IF e.last <= s THEN s ELSE e.last)
          /\ e.since = 0 => u.last = s
      BY <1>1, <1>2, <3>1, UpdatedRow
    <3>4. entry'[k] = u
      BY <1>8, <2>2, <3>1
    <3> QED
      BY <1>3, <3>1, <3>2, <3>3, <3>4
  <2> QED
    BY <2>1, <2>2
<1>10. \A k \in Sources : entry'[k].alert \in BOOLEAN /\ entry[k].alert \in BOOLEAN
                          /\ entry'[k].last \in Nat /\ entry'[k].since \in Nat
  BY <1>0, <1>9, TelTyped DEF StateRow
\* what an alert raised now counts from
<1>11. ASSUME ~excused, ~crossed', NEW k \in Sources, NEW u, u = entry'[k]
       PROVE  /\ Raises(k) => Anchor(u) > warned[k] /\ t > Anchor(u) + MaxSilence
              /\ Anchor(u) \in Nat
              /\ Raises(k) <=> u.alert /\ ~entry[k].alert
              /\ u.alert => newest' > (IF Raises(k) THEN Anchor(u) ELSE warned[k]) + MaxSilence
              /\ ~u.alert => IF u.last = 0 THEN warned[k] = 0 ELSE u.last > warned[k]
  <2>1. ~crossed /\ t >= newest /\ k \in watched /\ ExpectedSoon /\ AlertedOnce
    <3>1. ~crossed /\ ~(t < newest)
      BY <1>1, <1>2, <1>11
    <3>2. t >= newest
      BY <1>3, <3>1
    <3> QED
      BY <1>11, <3>1, <3>2 DEF TelInv
  <2>2. PICK e, s : e = entry[k] /\ s = monitor[m].snap[k]
    OBVIOUS
  <2>3. /\ e.since \in Nat /\ e.last \in Nat /\ s \in Nat /\ warned[k] \in Nat /\ e.alert \in BOOLEAN
    BY <1>0, <2>2, TelTyped DEF StateRow
  <2>4. u = Updated(m, k)
    BY <1>8, <1>11, <2>1
  <2>5. /\ u \in StateRow /\ u.since = (IF e.since = 0 THEN t ELSE e.since)
        /\ Anchor(u) = (IF u.last = 0 THEN u.since ELSE u.last) /\ Anchor(u) \in Nat
        /\ e.since # 0 => u.last = (IF e.last <= s THEN s ELSE e.last)
        /\ e.since = 0 => u.last = s
        /\ u.alert <=> \/ t > Anchor(u) + MaxSilence
                       \/ e.since # 0 /\ e.alert /\ u.last = 0
    BY <1>1, <1>2, <2>2, <2>4, UpdatedRow
  <2>6. e.since = 0 => e.alert = FALSE /\ e.last = 0 /\ warned[k] = 0
    BY <2>1, <2>2 DEF ExpectedSoon, NoEntry
  <2>7. /\ e.alert => newest > warned[k] + MaxSilence
        /\ ~e.alert => IF e.last = 0 THEN warned[k] = 0 ELSE e.last > warned[k]
    BY <2>1, <2>2 DEF AlertedOnce
  <2>8. Raises(k) <=> u.alert /\ ~e.alert
    BY <1>11, <2>2 DEF Raises
  <2>9. u.last \in Nat /\ u.since \in Nat /\ e.last <= u.last /\ Anchor(u) >= 1
    BY <1>3, <2>3, <2>5, <2>6 DEF StateRow
  <2>10. ASSUME u.alert, ~e.alert PROVE Anchor(u) > warned[k] /\ t > Anchor(u) + MaxSilence
    <3>1. t > Anchor(u) + MaxSilence
      BY <2>5, <2>10
    <3>2. CASE e.last = 0
      <4>1. warned[k] = 0
        BY <2>7, <2>10, <3>2
      <4>2. Anchor(u) >= 1 /\ Anchor(u) \in Nat
        BY <2>5, <2>9
      <4> QED
        BY <3>1, <4>1, <4>2
    <3>3. CASE e.last # 0
      <4>1. u.last # 0 /\ Anchor(u) = u.last
        BY <2>3, <2>5, <2>9, <3>3
      <4> QED
        BY <2>3, <2>7, <2>9, <2>10, <3>1, <3>3, <4>1
    <3> QED
      BY <3>2, <3>3
  <2>11. ASSUME u.alert PROVE newest' > (IF Raises(k) THEN Anchor(u) ELSE warned[k]) + MaxSilence
    <3>1. CASE Raises(k)
      BY <1>0, <1>3, <1>4, <2>5, <2>8, <2>10, <2>11, <3>1
    <3>2. CASE ~Raises(k)
      BY <1>0, <1>3, <1>4, <2>3, <2>7, <2>8, <2>11, <3>2
    <3> QED
      BY <3>1, <3>2
  <2>12. ASSUME ~u.alert PROVE IF u.last = 0 THEN warned[k] = 0 ELSE u.last > warned[k]
    <3>1. CASE e.alert
      <4>1. e.since # 0 /\ u.last # 0 /\ t <= u.last + MaxSilence
        BY <1>0, <1>3, <2>5, <2>6, <2>9, <2>12, <3>1
      <4> QED
        BY <1>0, <1>3, <2>1, <2>3, <2>7, <2>9, <3>1, <4>1
    <3>2. CASE ~e.alert
      BY <2>3, <2>7, <2>9, <3>2
    <3> QED
      BY <2>3, <3>1, <3>2
  <2> QED
    BY <2>2, <2>5, <2>8, <2>10, <2>11, <2>12
<1>12. again' = FALSE
  <2>1. again = FALSE
    BY <1>0 DEF TelTypes
  <2>2. ASSUME ~excused, ~crossed', NEW k \in Sources, Raises(k), Anchor(entry'[k]) <= warned[k]
        PROVE  FALSE
    <3>1. PICK u : u = entry'[k]
      OBVIOUS
    <3>2. Anchor(u) > warned[k] /\ Anchor(u) \in Nat
      BY <1>11, <2>2, <3>1
    <3>3. warned[k] \in Nat /\ Anchor(u) <= warned[k]
      BY <1>0, <2>2, <3>1, TelTyped
    <3> QED
      BY <3>2, <3>3
  <2> QED
    BY <1>1, <2>1, <2>2
<1>13. TelTypes'
  <2>1. entry' \in [Sources -> StateRow]
    BY <1>1, <1>9
  <2>2. warned' \in [Sources -> Nat]
    <3>1. \A k \in Sources : Anchor(entry'[k]) \in Nat /\ warned[k] \in Nat
      BY <1>0, <1>10, TelTyped DEF Anchor
    <3> QED
      BY <1>1, <3>1
  <2>3. monitor' \in [Monitors -> MonitorState] /\ crossed' \in BOOLEAN
    BY <1>0, <1>1, <1>6 DEF TelTypes
  <2> QED
    BY <1>0, <1>1, <1>4, <1>12, <2>1, <2>2, <2>3 DEF TelTypes
<1>14. TimesOK'
  <2>1. \A n \in Monitors : \A k \in Sources : monitor'[n].snap[k] <= seen[k]
    BY <1>0, <1>6, <1>7 DEF TimesOK
  <2>2. \A n \in Monitors : monitor'[n].at # "wait" =>
          1 <= monitor'[n].tnow /\ monitor'[n].tnow <= now /\ now <= monitor'[n].tnow + MaxLag
    BY <1>0, <1>3, <1>6, <1>7 DEF TimesOK
  <2> QED
    BY <1>0, <1>1, <1>9, <2>1, <2>2 DEF TimesOK
<1>15. Slack' = Slack
  BY <1>1 DEF Slack
<1>16. ASSUME NEW n \in Monitors, n # m, NEW b \in Nat, StartsBy(n, b)
       PROVE  StartsBy(n, b)'
  BY <1>1, <1>7, <1>16 DEF StartsBy
<1>17. ASSUME ~excused PROVE watched = Sources /\ NotesKept' /\ ExpectedSoon' /\ TickIsDue'
  <2>1. watched = Sources /\ NotesKept /\ ExpectedSoon /\ TickIsDue
    BY <1>17 DEF TelInv
  <2>2. NotesKept'
    <3>1. ASSUME NEW k \in Sources
          PROVE  /\ seen[k] = entry'[k].last \/ \E n \in Monitors : seen[k] = pending[n][k]
                 /\ \A n \in Monitors : monitor'[n].at = "clear" => monitor'[n].snap[k] <= entry'[k].last
      <4>1. /\ entry'[k].last <= seen[k] /\ monitor[m].snap[k] <= entry'[k].last
            /\ entry[k].since # 0 => entry[k].last <= entry'[k].last
        BY <1>9, <2>1
      <4>2. entry[k].last <= entry'[k].last
        <5>1. entry[k].since = 0 => entry[k].last = 0
          BY <2>1 DEF ExpectedSoon, NoEntry
        <5> QED
          BY <1>10, <4>1, <5>1
      <4>3. seen[k] = entry[k].last => seen[k] = entry'[k].last
        BY <1>0, <1>10, <4>1, <4>2, TelTyped
      <4>4. ASSUME NEW n \in Monitors, monitor'[n].at = "clear"
            PROVE  monitor'[n].snap[k] <= entry'[k].last
        <5>1. CASE n = m
          BY <1>6, <1>7, <4>1, <5>1
        <5>2. CASE n # m
          <6>1. monitor[n].snap[k] <= entry[k].last /\ monitor[n].snap[k] \in Nat /\ entry[k].last \in Nat
            BY <1>0, <1>7, <2>1, <4>4, <5>2, TelTyped DEF NotesKept
          <6>2. monitor'[n].snap[k] = monitor[n].snap[k]
            BY <1>7, <5>2
          <6> QED
            BY <1>10, <4>2, <6>1, <6>2
        <5> QED
          BY <5>1, <5>2
      <4> QED
        BY <2>1, <4>3, <4>4 DEF NotesKept
    <3> QED
      BY <1>1, <3>1 DEF NotesKept
  <2>3. ASSUME NEW k \in Sources PROVE entry'[k].since # 0 /\ entry'[k].since <= 1 + Slack
    <3>1. entry'[k].since # 0 /\ entry'[k].since = IF entry[k].since = 0 THEN t ELSE entry[k].since
      <4>1. entry'[k] = Updated(m, k)
        BY <1>8, <2>1
      <4> QED
        BY <1>1, <1>2, <1>9, <2>1, <4>1, UpdatedRow
    <3>2. entry[k].since = 0 => t <= 1 + Slack
      BY <1>1, <1>2, <2>1 DEF ExpectedSoon, StartsBy
    <3>3. entry[k].since <= 1 + Slack
      BY <2>1 DEF ExpectedSoon
    <3> QED
      BY <3>1, <3>2, <3>3
  <2>4. ExpectedSoon'
    BY <1>15, <2>3 DEF ExpectedSoon
  <2>5. ASSUME NEW k \in Sources, ~entry'[k].alert
        PROVE  StartsBy(m, Heard(k) + MaxSilence + Slack + Slow)'
    <3>1. PICK u : u = entry'[k]
      OBVIOUS
    <3>2. u = Updated(m, k)
      BY <1>8, <2>1, <3>1
    <3>3. /\ Anchor(u) = (IF u.last = 0 THEN u.since ELSE u.last) /\ Anchor(u) \in Nat
          /\ ~(t > Anchor(u) + MaxSilence)
      BY <1>1, <1>2, <2>5, <3>1, <3>2, UpdatedRow
    <3>4. u.last <= seen[k] /\ u.since <= 1 + Slack /\ u.last \in Nat /\ u.since \in Nat
      BY <1>9, <1>10, <2>3, <3>1
    <3>5. Heard(k) \in Nat /\ Heard(k) >= 1 /\ seen[k] <= Heard(k) /\ seen[k] \in Nat
      BY <1>0, TelTyped
    <3>6. PICK h : h = Heard(k)
      OBVIOUS
    <3>7. Anchor(u) <= h + Slack
      BY <1>0, <3>3, <3>4, <3>5, <3>6
    <3>8. t <= h + Slack + MaxSilence
      BY <1>0, <1>3, <3>3, <3>5, <3>6, <3>7
    <3>9. now + 1 <= h + MaxSilence + Slack + Slow
      BY <1>0, <1>3, <3>5, <3>6, <3>8
    <3>10. Heard(k)' = h
      BY <1>1, <3>6 DEF Heard
    <3> QED
      BY <1>1, <1>6, <1>7, <1>15, <3>9, <3>10 DEF StartsBy
  <2>6. TickIsDue'
    BY <2>5 DEF TickIsDue
  <2> QED
    BY <2>1, <2>2, <2>4, <2>6
<1>18. ASSUME ~excused, ~crossed' PROVE AlertedOnce'
  <2>1. ASSUME NEW k \in Sources
        PROVE  /\ entry'[k].alert => newest' > warned'[k] + MaxSilence
               /\ ~entry'[k].alert => IF entry'[k].last = 0 THEN warned'[k] = 0 ELSE entry'[k].last > warned'[k]
    <3>1. PICK u : u = entry'[k]
      OBVIOUS
    <3>2. /\ Raises(k) <=> u.alert /\ ~entry[k].alert
          /\ u.alert => newest' > (IF Raises(k) THEN Anchor(u) ELSE warned[k]) + MaxSilence
          /\ ~u.alert => IF u.last = 0 THEN warned[k] = 0 ELSE u.last > warned[k]
      BY <1>11, <1>18, <3>1
    <3>3. warned'[k] = IF Raises(k) THEN Anchor(u) ELSE warned[k]
      BY <1>1, <3>1
    <3> QED
      BY <3>1, <3>2, <3>3
  <2> QED
    BY <2>1 DEF AlertedOnce
<1> QED
  BY <1>1, <1>13, <1>14, <1>17, <1>18 DEF TelInv

LEMMA TelAlways == TelSpec => []TelInv
<1>1. TelInv /\ [TelNext]_telVars => TelInv'
  <2> SUFFICES ASSUME TelInv, [TelNext]_telVars PROVE TelInv'
    OBVIOUS
  <2>1. CASE UNCHANGED telVars
    <3>1. UNCHANGED <<now, watched, seen, pending, entry, monitor, excused, warned, again, newest,
                      crossed, monEvents>>
      BY <2>1 DEF telVars, telHistory
    <3> QED
      BY <3>1 DEF TelInv, TelTypes, TimesOK, NotesKept, ExpectedSoon, TickIsDue, AlertedOnce, StartsBy,
                  Slack, Heard
  <2>2. CASE TelNext
    BY <2>2, PassesKeeps, ExcuseKeeps, SnapKeeps, EvaluateKeeps, ClearKeeps, FailsKeeps, ObserveKeeps
    DEF TelNext, MonitorStep
  <2> QED
    BY <2>1, <2>2
<1> QED
  BY <1>1, TelInitInv, PTL DEF TelSpec

LEMMA MaxIs ==
  ASSUME NEW S, S \subseteq Int, NEW x \in S, \A y \in S : y <= x
  PROVE  Max(S) = x
<1>1. \A v \in S : (\A u \in S : u <= v) => v = x
  OBVIOUS
<1> QED
  BY <1>1 DEF Max

LEMMA OutagesWarnedInv == TelInv => OutagesWarned
<1> SUFFICES ASSUME TelInv PROVE OutagesWarned
  OBVIOUS
<1>0. TelTypes /\ TimesOK
  BY DEF TelInv
<1>1. NothingForgotten
  <2> SUFFICES ASSUME NEW k \in watched, ~excused
               PROVE  seen[k] = Max({entry[k].last} \cup {pending[m][k] : m \in Monitors})
    BY DEF NothingForgotten
  <2>1. k \in Sources
    BY <1>0 DEF TelTypes
  <2>2. PICK S : S = {entry[k].last} \cup {pending[m][k] : m \in Monitors}
    OBVIOUS
  <2>3. seen[k] \in S
    BY <2>1, <2>2 DEF TelInv, NotesKept
  <2>4. S \subseteq Int /\ \A y \in S : y <= seen[k]
    BY <1>0, <2>1, <2>2, TelTyped DEF TimesOK
  <2> QED
    BY <2>2, <2>3, <2>4, MaxIs
<1>2. OutageIsAlerted
  <2> SUFFICES ASSUME NEW k \in watched, ~excused, ~entry[k].alert,
                      now > Max({1, seen[k]}) + MaxSilence + MaxLag + (1 + MaxLag) * (1 + monEvents)
               PROVE  FALSE
    BY DEF OutageIsAlerted
  <2>1. k \in Sources
    BY <1>0 DEF TelTypes
  <2>2. /\ now \in Nat /\ MaxLag \in Nat /\ MaxSilence \in Nat /\ Slow \in Nat /\ Slow = 1 + MaxLag
        /\ Slack \in Nat /\ monEvents \in Nat /\ Heard(k) \in Nat /\ seen[k] \in Nat
    BY <1>0, <2>1, TelTyped
  <2>3. Max({1, seen[k]}) = Heard(k)
    BY <2>2, MaxOfTwo DEF Heard
  <2>4. (1 + MaxLag) * (1 + monEvents) = Slack + Slow
    <3>1. ASSUME NEW s \in Nat, NEW n \in Nat PROVE s * (1 + n) = s * n + s
      OBVIOUS
    <3> QED
      BY <2>2, <3>1 DEF Slack, Slow
  <2>5. PICK m \in Monitors : StartsBy(m, Heard(k) + MaxSilence + Slack + Slow)
    BY <2>1 DEF TelInv, TickIsDue
  <2>6. PICK t : t = Heard(k) + MaxSilence + Slack + Slow
    OBVIOUS
  <2>7. t \in Nat /\ now > t + MaxLag
    BY <2>2, <2>3, <2>4, <2>6
  <2>8. monitor[m].at = "evaluate" => monitor[m].tnow \in Nat /\ now <= monitor[m].tnow + MaxLag
    BY <1>0, TelTyped DEF TimesOK
  <2>9. monitor[m].at \in {"wait", "evaluate", "clear"}
    BY <1>0, TelTyped DEF MonitorState
  <2>10. StartsBy(m, t)
    BY <2>5, <2>6
  <2> QED
    BY <2>2, <2>7, <2>8, <2>9, <2>10 DEF StartsBy
<1>3. OneWarningPerOutage
  BY <1>0 DEF TelTypes, OneWarningPerOutage
<1> QED
  BY <1>1, <1>2, <1>3 DEF OutagesWarned

LEMMA TelTypedOK == TelInv => TelTypeOK
<1> SUFFICES ASSUME TelInv PROVE TelTypeOK
  OBVIOUS
<1>0. TelTypes /\ TimesOK
  BY DEF TelInv
<1>1. seen \in [Sources -> 0..now]
  <2>1. \A k \in Sources : seen[k] \in 0..now
    BY <1>0, TelTyped DEF TimesOK
  <2> QED
    BY <1>0, <2>1 DEF TelTypes
<1>2. ASSUME NEW m \in Monitors
      PROVE  pending[m] \in [Sources -> 0..now] /\ monitor[m].at \in {"wait", "evaluate", "clear"}
  <2>1. ASSUME NEW k \in Sources PROVE pending[m][k] \in 0..now
    <3>1. pending[m][k] \in Nat /\ seen[k] \in Nat /\ now \in Nat /\ pending[m][k] <= seen[k] /\ seen[k] <= now
      BY <1>0, TelTyped DEF TimesOK
    <3> QED
      BY <3>1
  <2> QED
    BY <1>0, <2>1 DEF TelTypes, MonitorState
<1>3. ASSUME NEW k \in Sources PROVE entry[k].since <= now /\ entry[k].last <= now
  BY <1>0, TelTyped DEF TimesOK
<1> QED
  BY <1>0, <1>1, <1>2, <1>3 DEF TelTypeOK, TelTypes
=============================================================================
