----------------------------- MODULE Telemetry -----------------------------
(***************************************************************************)
(* detection_runtime.py, TelemetryMonitor: every ingest process notes what *)
(* it receives from the expected sources, and its health thread brings the *)
(* notes into the state row they share and raises an alert for a source    *)
(* that is silent.  Time counts in units of the monitor's interval.        *)
(***************************************************************************)
EXTENDS Naturals, FiniteSets, FiniteSetsExt

CONSTANTS Monitors,    \* processes with a monitor
          Sources,     \* expected host and source pairs
          MaxSilence,  \* max_silence_seconds of the host
          MaxLag,      \* longest tick, from its snapshot to its commit
          MaxNow,      \* bound on the time
          MaxMonEvents \* bound on failing ticks, dropped notes and changes of profiles
ASSUME TelemetryAssumption ==
  /\ Monitors # {} /\ MaxSilence \in Nat /\ MaxLag \in Nat /\ MaxLag < MaxSilence
  /\ MaxNow \in Nat \ {0} /\ MaxMonEvents \in Nat

VARIABLES
  now,      \* the clock
  watched,  \* sources whose profile expects telemetry
  seen,     \* history: time of the last event of a source, 0 if none
  pending,  \* _pending of a monitor: source -> time, 0 if absent
  entry,    \* the state row: source -> [since, last, alert], since 0 if absent
  monitor,  \* [at, snap, tnow, done]; done is when its last tick ended
  excused,  \* history: a note was dropped or a profile switched
  warned,   \* history: what the latest alert of a source counted from, 0 if none
  again,    \* history: an alert did not count from later than the one before
  newest,   \* history: the latest `now` of a tick that has evaluated
  crossed,  \* history: a tick evaluated after one that started later
  monEvents
telHistory == <<warned, again, newest, crossed>>
telVars == <<now, watched, seen, pending, entry, monitor, excused, telHistory,
             monEvents>>

NoNotes == [k \in Sources |-> 0]
NoEntry == [since |-> 0, last |-> 0, alert |-> FALSE]
TelInit ==
  /\ now = 1 /\ watched = Sources /\ seen = NoNotes
  /\ pending = [m \in Monitors |-> NoNotes]
  /\ entry = [k \in Sources |-> NoEntry]
  /\ monitor = [m \in Monitors |-> [at |-> "wait", snap |-> NoNotes, tnow |-> 0, done |-> 0]]
  /\ excused = FALSE /\ monEvents = 0
  /\ warned = NoNotes /\ again = FALSE /\ newest = 0 /\ crossed = FALSE

\* bounds: few events, each early, after which there is less time left
MonEvent == /\ monEvents < MaxMonEvents /\ monEvents' = monEvents + 1
            /\ now + 2 * MaxSilence < MaxNow

\* observe()
Observe(m, k) ==
  /\ seen' = [seen EXCEPT ![k] = now]
  /\ pending' = [pending EXCEPT ![m][k] = now]
  /\ UNCHANGED <<now, watched, entry, monitor, excused, telHistory, monEvents>>
\* beyond 1000 hosts, configured or not, the note inserted first is dropped
DropNote(m, k) ==
  /\ pending[m][k] # 0 /\ MonEvent
  /\ pending' = [pending EXCEPT ![m][k] = 0] /\ excused' = TRUE
  /\ UNCHANGED <<now, watched, seen, entry, monitor, telHistory>>

\* tick(): the time and a copy of the notes ...
Snap(m) ==
  /\ monitor[m].at = "wait"
  /\ monitor' = [monitor EXCEPT ![m] = [at |-> "evaluate", snap |-> pending[m],
                                        tnow |-> now, done |-> 0]]
  /\ UNCHANGED <<now, watched, seen, pending, entry, excused, telHistory, monEvents>>
\* ... then one transaction over the locked state row
Anchor(e) == IF e.last = 0 THEN e.since ELSE e.last
Merged(last, note) == Max({last, note})
Silent(e, t) == t > Anchor(e) + MaxSilence
Updated(m, k) ==
  LET tnow == monitor[m].tnow
      old == IF entry[k].since = 0 THEN [NoEntry EXCEPT !.since = tnow] ELSE entry[k]
      e == [old EXCEPT !.last = Merged(@, monitor[m].snap[k])]
  IN [e EXCEPT !.alert = Silent(e, tnow) \/ (@ /\ e.last = 0)]
Raises(k) == entry'[k].alert /\ ~entry[k].alert
Evaluate(m) ==
  /\ monitor[m].at = "evaluate"
  /\ entry' = [k \in Sources |-> IF k \in watched THEN Updated(m, k) ELSE NoEntry]
  /\ monitor' = [monitor EXCEPT ![m].at = "clear"]
  /\ warned' = [k \in Sources |-> IF Raises(k) THEN Anchor(entry'[k]) ELSE warned[k]]
  /\ newest' = Max({newest, monitor[m].tnow})
  /\ crossed' = (crossed \/ monitor[m].tnow < newest)
  /\ again' = (again \/ (/\ ~excused /\ ~crossed'
                        /\ \E k \in Sources : Raises(k) /\ Anchor(entry'[k]) <= warned[k]))
  /\ UNCHANGED <<now, watched, seen, pending, excused, monEvents>>
LeftNone(m, k) == 0                        \* mutant: all notes are removed
Left(m, k) == IF pending[m][k] = monitor[m].snap[k] THEN 0 ELSE pending[m][k]
\* ... then the notes that are still what was copied are removed
Clear_(m) ==
  /\ monitor[m].at = "clear"
  /\ pending' = [pending EXCEPT ![m] = [k \in Sources |-> Left(m, k)]]
  /\ monitor' = [monitor EXCEPT ![m] = [at |-> "wait", snap |-> NoNotes, tnow |-> 0,
                                        done |-> now]]
  /\ UNCHANGED <<now, watched, seen, entry, excused, telHistory, monEvents>>

\* the transaction fails, or the configuration is rejected: nothing changes
TickFails(m) ==
  /\ monitor[m].at = "evaluate" /\ MonEvent
  /\ monitor' = [monitor EXCEPT ![m] = [at |-> "wait", snap |-> NoNotes, tnow |-> 0,
                                        done |-> now]]
  /\ UNCHANGED <<now, watched, seen, pending, entry, excused, telHistory>>
\* telemetry_enabled of the host is switched
Profile(k) ==
  /\ MonEvent
  /\ watched' = IF k \in watched THEN watched \ {k} ELSE watched \cup {k}
  /\ excused' = TRUE
  /\ UNCHANGED <<now, seen, pending, entry, monitor, telHistory>>

\* _run(): a tick ends within MaxLag, the next one starts an interval later
Passes ==
  /\ now < MaxNow /\ now' = now + 1
  /\ monEvents > 0 => now + MaxSilence < MaxNow
  /\ \A m \in Monitors : IF monitor[m].at = "evaluate" THEN now < monitor[m].tnow + MaxLag
                         ELSE monitor[m].at = "wait" /\ now <= monitor[m].done
  /\ UNCHANGED <<watched, seen, pending, entry, monitor, excused, telHistory, monEvents>>

MonitorStep(m) == Snap(m) \/ Evaluate(m) \/ Clear_(m)
TelNext ==
  \/ Passes \/ \E k \in Sources : Profile(k)
  \/ \E m \in Monitors : \/ MonitorStep(m) \/ TickFails(m)
                         \/ \E k \in Sources : Observe(m, k) \/ DropNote(m, k)
TelSpec == TelInit /\ [][TelNext]_telVars

TelTypeOK ==
  /\ now \in 1..MaxNow /\ watched \subseteq Sources
  /\ seen \in [Sources -> 0..now]
  /\ \A m \in Monitors : /\ pending[m] \in [Sources -> 0..now]
                         /\ monitor[m].at \in {"wait", "evaluate", "clear"}
  /\ \A k \in Sources : entry[k].since <= now /\ entry[k].last <= now
  /\ excused \in BOOLEAN /\ monEvents \in 0..MaxMonEvents

(* What was received is in somebody's notes or in the state row until newer *)
(* events are, also when it arrives in the middle of a tick or a tick fails.*)
NothingForgotten ==
  \A k \in watched : ~excused =>
    seen[k] = Max({entry[k].last} \cup {pending[m][k] : m \in Monitors})
(* A source that is silent to every process has its alert by the tick after *)
(* the longest silence, or by a later one when ticks fail.                  *)
OutageIsAlerted ==
  \A k \in watched : ~excused
    /\ now > Max({1, seen[k]}) + MaxSilence + MaxLag + (1 + MaxLag) * (1 + monEvents)
      => entry[k].alert
(* "one warning per silent period" (DETECTION_RULE_MANAGEMENT.md:172): what *)
(* an alert counts from is later than for the alert before it, though every *)
(* process has a monitor, unless their ticks commit in another order than   *)
(* they started in.                                                         *)
OneWarningPerOutage == ~again
(* An outage is noticed in time and alerted once, and no note is lost on    *)
(* its way to the row that all processes share.                             *)
OutagesWarned == NothingForgotten /\ OutageIsAlerted /\ OneWarningPerOutage
=============================================================================
