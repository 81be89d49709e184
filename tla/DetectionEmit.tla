--------------------------- MODULE DetectionEmit ---------------------------
(***************************************************************************)
(* detection.py, emit(): a finding is linked into the alert that its       *)
(* fingerprint has, or makes a new one, in a transaction that holds the    *)
(* state row.  Meanwhile analysts resolve and reopen alerts: on SQLite the *)
(* transaction keeps them out, on PostgreSQL it locks only the state row.  *)
(***************************************************************************)
EXTENDS Naturals, FiniteSets, FiniteSetsExt, Functions

CONSTANTS Emitters,      \* ingest processes
          Streams,       \* fingerprints
          KeysKept,      \* identities the state row keeps (512)
          EmitBackends,  \* subset of {"sqlite", "postgres"}
          MaxAlerts,     \* bound on the alerts
          MaxFound,      \* bound on the findings
          MaxEmitEvents  \* bound on the analysts' changes and lapses
ASSUME EmitAssumption == /\ EmitBackends \subseteq {"sqlite", "postgres"}
                         /\ KeysKept \in Nat \ {0} /\ "free" \notin Emitters
                         /\ IsFiniteSet(Streams) /\ Streams # {} /\ MaxAlerts \in Nat

VARIABLES
  backend,   \* the database
  links,     \* the state row: stream -> [alert, age], alert 0 if absent
  alerts,    \* ids given out
  alertOf,   \* alert -> [stream, open, occurrences]
  emitter,   \* per process: [at, stream, old]
  rowLock,   \* who holds the state row, or "free"
  found,     \* history: findings committed per stream
  split,     \* history: streams whose link lapsed, was dropped or whose alert
             \* an analyst touched
  mergedIn,  \* history: an occurrence went into an alert that was resolved
  emitEvents
emitVars == <<backend, links, alerts, alertOf, emitter, rowLock, found, split,
              mergedIn, emitEvents>>

Quiet == [at |-> "idle", stream |-> CHOOSE k \in Streams : TRUE, old |-> 0]
NoLink == [alert |-> 0, age |-> 0]
EmitInit ==
  /\ backend \in EmitBackends
  /\ links = [k \in Streams |-> NoLink] /\ alerts = 0
  /\ alertOf = [a \in 1..MaxAlerts |->
                  [stream |-> Quiet.stream, open |-> FALSE, occurrences |-> 0]]
  /\ emitter = [e \in Emitters |-> Quiet] /\ rowLock = "free"
  /\ found = [k \in Streams |-> 0] /\ split = {} /\ mergedIn = FALSE /\ emitEvents = 0

Total == SumFunctionOnSet(found, Streams)
MayLockAnyway == TRUE                      \* mutant: no row lock
MayLock == rowLock = "free"
\* _locked_json: the row lock of the state, and what it says of the stream
LockState(e) ==
  /\ emitter[e].at = "idle" /\ MayLock /\ rowLock' = e
  /\ Total < MaxFound
  /\ \E k \in Streams :
       emitter' = [emitter EXCEPT ![e] = [at |-> "read", stream |-> k, old |-> links[k].alert]]
  /\ UNCHANGED <<backend, links, alerts, alertOf, found, split, mergedIn, emitEvents>>
Reusable(a) == alertOf[a].open
\* the SELECT of the linked alert: resolved and closed ones are not reused
ReadAlert(e) ==
  LET old == emitter[e].old IN
  /\ emitter[e].at = "read"
  /\ emitter' = [emitter EXCEPT ![e].at = "write",
                   ![e].old = IF old # 0 /\ Reusable(old) THEN old ELSE 0]
  /\ UNCHANGED <<backend, links, alerts, alertOf, rowLock, found, split, mergedIn, emitEvents>>
\* the alert, the state row with the newest identities, and the commit
Newest(k, a) ==
  LET older == [j \in Streams |-> IF links[j].alert = 0 THEN NoLink
                                  ELSE [links[j] EXCEPT !.age = @ + 1]]
      now_ == [older EXCEPT ![k] = [alert |-> a, age |-> 0]]
      Rank(j) == Cardinality({i \in Streams : now_[i].alert # 0 /\ now_[i].age < now_[j].age})
  IN [j \in Streams |-> IF now_[j].alert # 0 /\ Rank(j) < KeysKept
                        THEN [now_[j] EXCEPT !.age = Rank(j)] ELSE NoLink]
Link(e) ==
  LET k == emitter[e].stream  old == emitter[e].old
      a == IF old # 0 THEN old ELSE alerts + 1 IN
  /\ emitter[e].at = "write" /\ a <= MaxAlerts
  /\ alerts' = Max({alerts, a})
  /\ alertOf' = [alertOf EXCEPT ![a] =
       IF old # 0 THEN [alertOf[a] EXCEPT !.occurrences = alertOf[a].occurrences + 1]
       ELSE [stream |-> k, open |-> TRUE, occurrences |-> 1]]
  /\ links' = Newest(k, a)
  /\ found' = [found EXCEPT ![k] = @ + 1]
  /\ mergedIn' = (mergedIn \/ (old # 0 /\ ~alertOf[old].open))
  /\ split' = split \cup {j \in Streams : links[j].alert # 0 /\ Newest(k, a)[j].alert = 0}
  /\ rowLock' = "free" /\ emitter' = [emitter EXCEPT ![e] = Quiet]
  /\ UNCHANGED <<backend, emitEvents>>
\* an exception or a crash: rolled back
Rollback_(e) ==
  /\ rowLock = e /\ rowLock' = "free" /\ emitter' = [emitter EXCEPT ![e] = Quiet]
  /\ UNCHANGED <<backend, links, alerts, alertOf, found, split, mergedIn, emitEvents>>

\* the workflow endpoints resolve or reopen; SQLite's writer lock waits
Analyst(a) ==
  /\ backend = "sqlite" => rowLock = "free"
  /\ a <= alerts /\ emitEvents < MaxEmitEvents /\ emitEvents' = emitEvents + 1
  /\ alertOf' = [alertOf EXCEPT ![a].open = ~@]
  /\ split' = split \cup {alertOf[a].stream}
  /\ UNCHANGED <<backend, links, alerts, emitter, rowLock, found, mergedIn>>
\* five minutes without a finding: the next transaction forgets the link
Lapse(k) ==
  /\ rowLock = "free" /\ links[k].alert # 0 /\ emitEvents < MaxEmitEvents
  /\ emitEvents' = emitEvents + 1
  /\ links' = [links EXCEPT ![k] = NoLink] /\ split' = split \cup {k}
  /\ UNCHANGED <<backend, alerts, alertOf, emitter, rowLock, found, mergedIn>>

EmitNext ==
  \/ \E e \in Emitters : LockState(e) \/ ReadAlert(e) \/ Link(e) \/ Rollback_(e)
  \/ \E a \in 1..MaxAlerts : Analyst(a)
  \/ \E k \in Streams : Lapse(k)
EmitSpec == EmitInit /\ [][EmitNext]_emitVars

EmitTypeOK ==
  /\ backend \in EmitBackends /\ alerts \in 0..MaxAlerts
  /\ \A k \in Streams : links[k].alert \in 0..alerts
  /\ Cardinality({k \in Streams : links[k].alert # 0}) <= KeysKept
  /\ \A e \in Emitters : /\ emitter[e].at \in {"idle", "read", "write"}
                         /\ emitter[e].at = "idle" <=> rowLock # e
  /\ split \subseteq Streams /\ mergedIn \in BOOLEAN

AlertsOf(k) == {a \in 1..alerts : alertOf[a].stream = k}
Occurrences(k) ==
  SumFunctionOnSet([a \in 1..MaxAlerts |-> alertOf[a].occurrences], AlertsOf(k))
(* "all original events remain": whatever is linked, dropped, resolved or   *)
(* rolled back, every committed finding is one occurrence of one alert of   *)
(* its stream.                                                              *)
EveryFindingCounted == \A k \in Streams : Occurrences(k) = found[k]
(* A stream that keeps firing has one alert, unless its link lapsed or was  *)
(* dropped for newer ones, or an analyst touched its alert.                 *)
OneAlertPerStream ==
  \A k \in Streams \ split : Cardinality(AlertsOf(k)) <= 1
(* "Resolved/closed alerts are not reused": true where the transaction      *)
(* excludes the analyst.                                                    *)
ResolvedNotReused == backend = "sqlite" => ~mergedIn
(* What a finding becomes: an occurrence of one alert, the stream's own.    *)
FindingsAccounted == EveryFindingCounted /\ OneAlertPerStream /\ ResolvedNotReused
=============================================================================
