----------------------------- MODULE MCDeployment -----------------------------
(* Deployment, side by side: the upgrade of an installation, a fresh one,    *)
(* the schema that the services find at their start, the partitions of the   *)
(* events, and the backups of both databases.  A behaviour is one of the     *)
(* part that is active.                                                      *)
EXTENDS UpgradeCutover, FreshInstall, SchemaLedger, EventPartitions,
        BackupRotation, BackupRestore, TLC

CONSTANT Deploying      \* the parts that are checked
VARIABLE active
deployVars == <<active, upVars, freshVars, schemaVars, partVars, rotationVars,
                restoreVars>>

LogMonths == 1 :> 1 @@ 2 :> 2 @@ 3 :> 4

\* all but the part x rest
Alone(x) ==
  /\ active = x /\ UNCHANGED active
  /\ x # "upgrade" => UNCHANGED upVars
  /\ x # "fresh" => UNCHANGED freshVars
  /\ x # "schema" => UNCHANGED schemaVars
  /\ x # "parts" => UNCHANGED partVars
  /\ x # "rotation" => UNCHANGED rotationVars
  /\ x # "restore" => UNCHANGED restoreVars

\* one initial state of the parts that rest, in which nothing is to be done
Init == /\ active \in Deploying /\ UpInit /\ FreshInit /\ SchemaInit /\ PartInit
        /\ RotationInit /\ RestoreInit
        /\ active # "upgrade" => backend = "sqlite"
        /\ active # "fresh" => freshBackend = "sqlite" /\ inPlace
        /\ active # "schema" => schemaDb = "sqlite" /\ exists /\ built = {}
        /\ active # "parts" => Missing = {}
        /\ active # "restore" => liveLedger = 1 /\ \A d \in Targets : targetDb[d] = "none"
Next == \/ Alone("upgrade") /\ UpNext
        \/ Alone("fresh") /\ FreshNext
        \/ Alone("schema") /\ SchemaNext
        \/ Alone("parts") /\ PartNext
        \/ Alone("rotation") /\ RotationNext
        \/ Alone("restore") /\ RestoreNext
Fairness ==
  /\ WF_deployVars(Alone("upgrade") /\ Run) /\ WF_deployVars(Alone("upgrade") /\ Refused)
  /\ WF_deployVars(Alone("upgrade") /\ StartRecovery)
  /\ WF_deployVars(Alone("fresh") /\ Execute) /\ WF_deployVars(Alone("fresh") /\ Reject)
  /\ WF_deployVars(Alone("fresh") /\ Resume)
  /\ \A p \in Starters : WF_deployVars(Alone("schema") /\ StartStep(p))
  /\ WF_deployVars(Alone("parts") /\ Maintain)
  /\ \A p \in Backfillers : WF_deployVars(Alone("parts") /\ BackfillStep(p))
Spec == Init /\ [][Next]_deployVars /\ Fairness

(* The type invariants of all the parts.                                    *)
DeploymentTypes == /\ UpTypeOK /\ FreshTypeOK /\ SchemaTypeOK /\ PartTypeOK
                   /\ RotationTypeOK /\ RestoreTypeOK
(* An upgrade and an installation, cut off anywhere, leave a usable tree,    *)
(* schema, rows and credentials, and touch nothing foreign.                 *)
CutoversSafe == UpgradeSafe /\ InstallSafe
(* What a recovery needs is there: verified copies of the SQLite database    *)
(* through every rotation, and PostgreSQL backups that can be restored.     *)
RecoveryMaterial == RotationKeeps /\ BackupsUsable
(* The services find the database that they expect: tables, columns, the    *)
(* partition of the month and one projection of every log.                  *)
DatabaseReady == UpIsComplete /\ ProjectedOnce /\ MonthIsReady
(* Every procedure that is taken up again ends: the recovery of an upgrade, *)
(* the resume of an installation, the start of the services on an older     *)
(* database, the daily partitions and the backfill.                         *)
DeploymentEnds == /\ RecoveryEnds /\ SqliteResumes /\ MigratedAdvances
                  /\ ServicesStart /\ PartitionsCatchUp /\ BackfillEnds
=============================================================================
