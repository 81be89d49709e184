---------------------------- MODULE BackupRestore ----------------------------
(***************************************************************************)
(* tools/postgres_backup_restore.py: a backup of the PostgreSQL database   *)
(* into an archive and its manifest, beside a schema upgrade, and restores *)
(* of it into new databases by commands that may run at the same time and  *)
(* be cut off anywhere.  A database's content is its migration ledger.     *)
(***************************************************************************)
EXTENDS Integers

CONSTANTS MaxLedger,  \* newest migration
          Restorers,  \* restore commands that run at the same time
          Targets,    \* database names given to them
          MaxCutOffs  \* bound on commands that are killed or fail
ASSUME RestoreAssumption == MaxLedger \in Nat \ {0} /\ "nobody" \notin Restorers

VARIABLES
  liveLedger, \* the live database's newest migration
  archive,   \* the archive file: -1 none, 0 partial, n a dump with ledger n
  manifest,  \* the manifest: 0 none, or the ledger it names
  dumper,    \* the backup command: "off", "meta", "dumped"
  meta,      \* the ledger it has read
  targetDb,  \* target -> "none", "empty", "foreign" or "restored"
  owner,     \* target -> the command that created it, "nobody"
  restorer,  \* per command: [at, target, ledger: of the manifest it has read]
  reported,  \* history: targets whose restore was reported as done
  moved,     \* history: the schema moved while a backup was made
  cutOffs
restoreVars == <<liveLedger, archive, manifest, dumper, meta, targetDb, owner,
                 restorer, reported, moved, cutOffs>>
backupFiles == <<archive, manifest>>
targetVars == <<targetDb, owner>>

NoRestore == [at |-> "off", target |-> CHOOSE t \in Targets : TRUE, ledger |-> 0]
RestoreInit ==
  /\ liveLedger \in 1..MaxLedger /\ archive = -1 /\ manifest = 0 /\ dumper = "off"
  /\ meta = 0 /\ targetDb \in [Targets -> {"none", "foreign"}]
  /\ owner = [t \in Targets |-> "nobody"]
  /\ restorer = [r \in Restorers |-> NoRestore] /\ reported = {}
  /\ moved = FALSE /\ cutOffs = 0

\* an upgrade of the live database, which nothing holds back
Migrate ==
  /\ liveLedger < MaxLedger /\ liveLedger' = liveLedger + 1
  /\ moved' = (moved \/ dumper = "meta")
  /\ UNCHANGED <<backupFiles, dumper, meta, targetVars, restorer, reported, cutOffs>>

\* create_backup refuses files that exist, and reads the ledger
BeginBackup ==
  /\ dumper = "off" /\ archive = -1 /\ manifest = 0
  /\ dumper' = "meta" /\ meta' = liveLedger /\ moved' = FALSE
  /\ UNCHANGED <<liveLedger, backupFiles, targetVars, restorer, reported, cutOffs>>
\* pg_dump's snapshot, and pg_restore -l
Dump ==
  /\ dumper = "meta" /\ dumper' = "dumped" /\ archive' = liveLedger
  /\ UNCHANGED <<liveLedger, manifest, meta, targetVars, restorer, reported, moved, cutOffs>>
WriteManifest ==
  /\ dumper = "dumped" /\ dumper' = "off" /\ manifest' = meta
  /\ UNCHANGED <<liveLedger, archive, meta, targetVars, restorer, reported, moved, cutOffs>>
CutOff == cutOffs < MaxCutOffs /\ cutOffs' = cutOffs + 1
\* an error removes the archive, a kill leaves what there is of it
BackupFails ==
  /\ dumper # "off" /\ CutOff /\ dumper' = "off"
  /\ archive' \in IF dumper = "meta" THEN {-1, 0} ELSE {-1, archive}
  /\ UNCHANGED <<liveLedger, manifest, meta, targetVars, restorer, reported, moved>>
\* the operator clears a backup or its remains away, whoever restores from it
RemoveBackup ==
  /\ dumper = "off" /\ archive # -1 /\ CutOff /\ archive' = -1 /\ manifest' = 0
  /\ UNCHANGED <<liveLedger, dumper, meta, targetVars, restorer, reported, moved>>

Go(r, where) == restorer' = [restorer EXCEPT ![r].at = where]
\* the manifest, the archive's checksum, then "already exists"
BeginRestore(r, t) ==
  /\ restorer[r].at = "off" /\ manifest # 0 /\ archive > 0
  /\ targetDb[t] = "none"
  /\ restorer' = [restorer EXCEPT ![r] =
       [at |-> "create", target |-> t, ledger |-> manifest]]
  /\ UNCHANGED <<liveLedger, backupFiles, dumper, meta, targetVars, reported, moved, cutOffs>>
CreateRefusedDrops(r) == Go(r, "drop")           \* mutant: created was set before
\* CREATE DATABASE fails if another command was faster: `created` is false
CreateRefused(r) == Go(r, "off")
CreateTarget(r) ==
  LET t == restorer[r].target IN
  /\ restorer[r].at = "create"
  /\ IF targetDb[t] = "none"
     THEN /\ Go(r, "load") /\ targetDb' = [targetDb EXCEPT ![t] = "empty"]
          /\ owner' = [owner EXCEPT ![t] = r]
     ELSE CreateRefused(r) /\ UNCHANGED targetVars
  /\ UNCHANGED <<liveLedger, backupFiles, dumper, meta, reported, moved, cutOffs>>
\* pg_restore --single-transaction, and the ledger against the manifest's
LedgerMatches(r) == archive = restorer[r].ledger
LoadTarget(r) ==
  LET t == restorer[r].target IN
  /\ restorer[r].at = "load" /\ targetDb[t] = "empty" /\ archive > 0
  /\ Go(r, IF LedgerMatches(r) THEN "verified" ELSE "drop")
  /\ targetDb' = [targetDb EXCEPT ![t] = "restored"]
  /\ UNCHANGED <<liveLedger, backupFiles, dumper, meta, owner, reported, moved, cutOffs>>
ReportRestore(r) ==
  /\ restorer[r].at = "verified" /\ Go(r, "off")
  /\ reported' = reported \cup {restorer[r].target}
  /\ UNCHANGED <<liveLedger, backupFiles, dumper, meta, targetVars, moved, cutOffs>>
\* an error of pg_restore or the check, an archive that is gone by then: the
\* database is dropped
RestoreFails(r) ==
  /\ restorer[r].at = "load" /\ Go(r, "drop")
  /\ IF archive > 0 THEN CutOff ELSE UNCHANGED cutOffs
  /\ UNCHANGED <<liveLedger, backupFiles, dumper, meta, targetVars, reported, moved>>
DropTarget(r) ==
  LET t == restorer[r].target IN
  /\ restorer[r].at = "drop" /\ Go(r, "off")
  /\ targetDb' = [targetDb EXCEPT ![t] = "none"] /\ owner' = [owner EXCEPT ![t] = "nobody"]
  /\ UNCHANGED <<liveLedger, backupFiles, dumper, meta, reported, moved, cutOffs>>
\* a kill, --keep-failed-target, or a DROP that fails: the target stays
RestoreEnds(r) ==
  /\ restorer[r].at # "off" /\ CutOff /\ Go(r, "off")
  /\ UNCHANGED <<liveLedger, backupFiles, dumper, meta, targetVars, reported, moved>>

RestoreStep(r) == \/ \E t \in Targets : BeginRestore(r, t)
                  \/ CreateTarget(r) \/ LoadTarget(r) \/ ReportRestore(r)
                  \/ RestoreFails(r) \/ DropTarget(r) \/ RestoreEnds(r)
RestoreNext == \/ Migrate \/ BeginBackup \/ Dump \/ WriteManifest \/ BackupFails
               \/ RemoveBackup \/ \E r \in Restorers : RestoreStep(r)
RestoreSpec == RestoreInit /\ [][RestoreNext]_restoreVars

RestoreTypeOK ==
  /\ liveLedger \in 1..MaxLedger /\ archive \in -1..MaxLedger /\ {manifest, meta} \subseteq 0..MaxLedger
  /\ dumper \in {"off", "meta", "dumped"}
  /\ targetDb \in [Targets -> {"none", "empty", "foreign", "restored"}]
  /\ owner \in [Targets -> Restorers \cup {"nobody"}]
  /\ \A r \in Restorers : /\ restorer[r].at \in {"off", "create", "load", "verified", "drop"}
                          /\ restorer[r].ledger \in 0..MaxLedger

(* "A dump without its validated manifest is not a usable P5 backup": where *)
(* there is a manifest its archive is whole, wherever a backup was cut off, *)
(* and a restore accepts it unless the schema moved while it was made.     *)
ManifestMeansBackup ==
  manifest # 0 => archive > 0 /\ (archive = manifest \/ moved)
(* A restore that was reported as done is still there.                      *)
ReportedIsRestored == \A t \in reported : targetDb[t] = "restored"
(* A restore drops nothing but what it has created itself: no database that *)
(* was there, and none of another command on the same target.              *)
DropsOnlyOwn ==
  /\ \A r \in Restorers : restorer[r].at \in {"load", "verified", "drop"} =>
       owner[restorer[r].target] = r
  /\ \A t \in Targets : targetDb[t] # "foreign" => (owner[t] = "nobody" <=> targetDb[t] = "none")
(* A backup that has its manifest can be restored, and restoring harms     *)
(* nothing.                                                                *)
BackupsUsable == ManifestMeansBackup /\ ReportedIsRestored /\ DropsOnlyOwn
=============================================================================
