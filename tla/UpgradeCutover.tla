--------------------------- MODULE UpgradeCutover ---------------------------
(***************************************************************************)
(* upgrade-existing.sh with its journal, tools/upgrade_cutover_state.py:   *)
(* one upgrade of an installed tree, killed, failing or rebooted between   *)
(* any two commands, and the recoveries an operator runs afterwards.  The  *)
(* scripts are straight lines, so the rest of the running one is a         *)
(* sequence of commands, todo.                                             *)
(* As shipped no upgrade writes its first journal entry: the state tool,   *)
(* run as a script, cannot import the package `tools` that it is part of.  *)
(* ToolsImport is TRUE only where PYTHONPATH names the source tree.        *)
(***************************************************************************)
EXTENDS Naturals, Sequences, FiniteSets, SequencesExt

CONSTANTS Backends,     \* backends that are upgraded: "sqlite", "postgres"
          ToolsImport,  \* does the state tool find the package `tools`
          MaxFaults,    \* bound on kills, failing commands and reboots
          MaxEvents     \* bound on the events stored in the SQLite file
ASSUME UpgradeAssumption == /\ MaxFaults \in Nat /\ MaxEvents \in Nat
                            /\ ToolsImport \in BOOLEAN

VARIABLES
  backend,
  target, stage, previous,  \* the three trees: their code and SQLite rows
  schema,                   \* the PostgreSQL schema: "old", "partial", "new"
  journal,                  \* the journal's phase, "none" without a journal
  wereActive,               \* services_were_active of the journal
  running,                  \* the code the services run, "none" when stopped
  mode,                     \* "upgrade", "handler" (the ERR trap), "recover"
  todo,                     \* the commands the running script has left
  stored, faults,           \* history: rows committed, faults
  unstopped                 \* history: services ran that the scripts take for
                            \* stopped: a reboot, or a `systemctl stop` that failed

trees == <<target, stage, previous>>
upVars == <<backend, trees, schema, journal, wereActive, running, mode, todo,
            stored, faults, unstopped>>

NoTree == [code |-> "none", rows |-> {}]
Phases == <<"STAGED", "SERVICES_STOPPED", "STATE_COPIED",
            "DATABASE_MUTATION_STARTED", "DATABASE_MIGRATED",
            "READY_FOR_CUTOVER", "CUTOVER_STARTED", "CUTOVER_COMPLETE",
            "SERVICES_INSTALLED", "OPERATIONAL">>
At(p) == CHOOSE i \in DOMAIN Phases : Phases[i] = p
Before(p, q) == At(p) < At(q)

\* upgrade-existing.sh from the staging on; a phase name journals that phase
Tail4 == <<"CUTOVER_COMPLETE", "services", "SERVICES_INSTALLED", "verify",
           "OPERATIONAL", "archive">>
Prepare == <<"unpack", "STAGED", "stop", "SERVICES_STOPPED", "copy", "STATE_COPIED">>
MoveInFirst == <<"moveIn", "setAside">>
Swap == <<"setAside", "moveIn">>
Upgrade ==
  Prepare
  \o (IF backend = "postgres"
      THEN <<"backup", "DATABASE_MUTATION_STARTED", "mutate", "migrate",
             "DATABASE_MIGRATED">> ELSE <<>>)
  \o <<"READY_FOR_CUTOVER", "CUTOVER_STARTED">> \o Swap \o Tail4

PlanUntilComplete ==
  IF Before(journal, "CUTOVER_COMPLETE") THEN "RESTORE" ELSE "FORWARD"
Plan == CASE journal = "OPERATIONAL" -> "NONE"
          [] Before(journal, "DATABASE_MUTATION_STARTED") -> "RESTORE"
          [] journal = "DATABASE_MUTATION_STARTED" -> "RERUN"
          [] OTHER -> "FORWARD"

\* the ERR trap archives the journal first, recovery archives it last
Handler == CASE Plan = "RESTORE" -> <<"archive", "dropStage", "restart">>
             [] Plan = "RERUN" -> <<"archive", "dropStage">>
             [] OTHER -> <<>>
Forward == IF target.code = "new" THEN Tail4
           ELSE (IF target = NoTree THEN <<>> ELSE <<"setAside">>)
                \o <<"moveIn">> \o Tail4
Recovery == CASE Plan = "NONE" -> <<"archive">>
              [] Plan = "RESTORE" -> <<"dropStage", "restart", "archive">>
              [] Plan = "RERUN" -> <<"dropStage", "archive">>
              [] OTHER -> Forward

UpInit == /\ backend \in Backends
          /\ target = [code |-> "old", rows |-> {}]
          /\ stage = NoTree /\ previous = NoTree
          /\ schema = "old" /\ journal = "none" /\ wereActive = FALSE
          /\ running \in {"none", "old"} /\ mode = "upgrade" /\ todo = <<>>
          /\ stored = {} /\ faults = 0 /\ unstopped = FALSE

\* a script is started by an operator: without a journal an upgrade, with
\* one only --recover-interrupted, which gives up when no new tree is left
StartUpgrade ==
  /\ todo = <<>> /\ journal = "none" /\ target.code = "old"
  /\ mode' = "upgrade" /\ todo' = Upgrade
  /\ UNCHANGED <<backend, trees, schema, journal, wereActive, running, stored,
                 faults, unstopped>>
StartRecovery ==
  /\ todo = <<>> /\ journal # "none"
  /\ Plan = "RESTORE" => target # NoTree \/ previous # NoTree
  /\ Plan = "FORWARD" => target.code = "new" \/ stage # NoTree
  /\ mode' = "recover" /\ todo' = Recovery
  /\ UNCHANGED <<backend, trees, schema, journal, wereActive, running, stored,
                 faults, unstopped>>

Command == Head(todo)
Regresses == /\ Command \in ToSet(Phases) /\ journal # "none"
             /\ Before(Command, journal)
Imported == Command \in ToSet(Phases) \cup {"archive"} => ToolsImport
MayRun == ~Regresses /\ Imported

\* what a command that succeeds does to the trees
MoveTrees ==
  CASE Command = "unpack" ->
         /\ stage' = [code |-> "new", rows |-> {}]
         /\ UNCHANGED <<target, previous>>
    [] Command = "copy" ->
         /\ stage' = [stage EXCEPT !.rows = target.rows]
         /\ UNCHANGED <<target, previous>>
    [] Command = "setAside" ->
         /\ previous' = target /\ target' = NoTree /\ UNCHANGED stage
    [] Command = "moveIn" ->
         /\ target' = stage /\ stage' = NoTree /\ UNCHANGED previous
    [] Command = "dropStage" ->
         /\ stage' = NoTree
         /\ target' = IF target = NoTree THEN previous ELSE target
         /\ previous' = IF target = NoTree THEN NoTree ELSE previous
    [] OTHER -> UNCHANGED trees

\* set_phase and archive_and_remove; init refuses nothing the guard let in
WriteJournal ==
  /\ journal' = CASE Command \in ToSet(Phases) -> Command
                  [] Command = "archive" -> "none"
                  [] OTHER -> journal
  /\ wereActive' = IF Command = "STAGED" THEN running # "none" ELSE wereActive

\* systemctl; install-services.sh restarts the services from the new tree
Services == CASE Command = "stop" -> "none"
              [] Command = "services" -> target.code
              [] Command = "restart" /\ wereActive -> target.code
              [] OTHER -> running

Run == /\ todo # <<>> /\ MayRun
       /\ Command = "verify" => running = "new"
       /\ MoveTrees /\ WriteJournal
       /\ schema' = CASE Command = "mutate" /\ schema = "old" -> "partial"
                      [] Command = "migrate" -> "new"
                      [] OTHER -> schema
       /\ running' = Services
       /\ todo' = Tail(todo)
       /\ UNCHANGED <<backend, mode, stored, faults, unstopped>>

\* `|| true` after the command; the trap is set after SERVICES_STOPPED
Tolerated == \/ Command \in {"stop", "restart"}
             \/ mode = "handler" /\ Command = "archive"
Trapped == /\ mode = "upgrade" /\ journal # "none"
           /\ ~Before(journal, "SERVICES_STOPPED")
GiveUp == /\ todo' = CASE Tolerated -> Tail(todo)
                       [] ~Tolerated /\ Trapped -> Handler
                       [] OTHER -> <<>>
          /\ mode' = IF Trapped THEN "handler" ELSE mode
          /\ UNCHANGED <<backend, trees, schema, journal, wereActive, stored>>
Refused == /\ todo # <<>> /\ ~MayRun
           /\ GiveUp /\ UNCHANGED <<running, faults, unstopped>>
Fault == faults < MaxFaults /\ faults' = faults + 1
\* install-services.sh may fail after it restarted the services
Fail == /\ todo # <<>> /\ Fault /\ GiveUp
        /\ running' \in {running} \cup (IF Command = "services" THEN {target.code} ELSE {})
        /\ unstopped' = (unstopped \/ (Command = "stop" /\ running # "none"))

Kill == /\ todo # <<>> /\ Fault /\ todo' = <<>>
        /\ UNCHANGED <<backend, trees, schema, journal, wereActive, running,
                       mode, stored, unstopped>>
\* the services are enabled: they start from whatever tree is the target
Reboot == /\ Fault /\ todo' = <<>> /\ unstopped' = TRUE
          /\ running' = target.code
          /\ UNCHANGED <<backend, trees, schema, journal, wereActive, mode,
                         stored>>

\* the listener commits a row into the tree it was started from
Store == /\ backend = "sqlite" /\ running # "none"
         /\ Cardinality(stored) < MaxEvents
         /\ LET e == Cardinality(stored) + 1 IN
            /\ stored' = stored \cup {e}
            /\ IF running = target.code
               THEN /\ target' = [target EXCEPT !.rows = @ \cup {e}]
                    /\ UNCHANGED previous
               ELSE /\ previous' = [previous EXCEPT !.rows = @ \cup {e}]
                    /\ UNCHANGED target
         /\ UNCHANGED <<backend, stage, schema, journal, wereActive, running,
                        mode, todo, faults, unstopped>>

UpNext == \/ StartUpgrade \/ StartRecovery \/ Run \/ Refused \/ Fail \/ Kill
          \/ Reboot \/ Store
UpSpec == UpInit /\ [][UpNext]_upVars

Trees == [code : {"none", "old", "new"}, rows : SUBSET (1..MaxEvents)]
UpTypeOK == /\ backend \in Backends
            /\ target \in Trees /\ stage \in Trees /\ previous \in Trees
            /\ stage.code # "old" /\ previous.code # "new"
            /\ schema \in {"old", "partial", "new"}
            /\ journal \in ToSet(Phases) \cup {"none"}
            /\ wereActive \in BOOLEAN /\ unstopped \in BOOLEAN
            /\ running \in {"none", "old", "new"}
            /\ mode \in {"upgrade", "handler", "recover"}
            /\ stored \subseteq 1..MaxEvents /\ faults \in 0..MaxFaults

(* At whatever command the upgrade is killed, a missing stable tree can be  *)
(* put back: the journal says so and the staged tree is complete.           *)
NeverStranded == target = NoTree =>
  /\ journal # "none" /\ Plan = "FORWARD" /\ stage.code = "new"
  /\ stage.rows = previous.rows \/ unstopped

(* Neither the upgrade, nor its handler, nor a recovery starts old code on  *)
(* a schema that a migration has touched; it meets one only after a reboot  *)
(* or where it went on through a `systemctl stop` that failed.              *)
SchemaRespected == running = "old" /\ schema # "old" => unstopped

(* No event the listener stored is missing from the database the services   *)
(* run on, unless a reboot or an ignored failing stop let the old services  *)
(* run on while the upgrade took them for stopped.                          *)
RowsCarried == running # "none" => \/ stored \subseteq target.rows
                                   \/ unstopped

(* Wherever the upgrade is cut off, a tree, a schema and the rows that fit  *)
(* together are there to go on with.                                        *)
UpgradeSafe == NeverStranded /\ SchemaRespected /\ RowsCarried

(* The operator runs the recovery of an interrupted upgrade to its end.     *)
UpFair == WF_upVars(Run) /\ WF_upVars(Refused) /\ WF_upVars(StartRecovery)
(* An interrupted upgrade is recovered: its journal goes away.              *)
RecoveryCompletes == []<>(journal = "none")
(* ... unless it was interrupted with SERVICES_INSTALLED in the journal.    *)
RecoveryEnds == []<>(journal \in {"none", "SERVICES_INSTALLED"})
=============================================================================
