------------------------- MODULE Deployment_proof -------------------------
(***************************************************************************)
(* Proofs about the deployment: what a recovery needs, what a service      *)
(* finds at its start, and what an upgrade or an installation that is cut  *)
(* off leaves, for any requests, months, logs, versions and faults.        *)
(***************************************************************************)
EXTENDS MCDeployment, Sums, SequenceTheorems, TLAPS

(***************************************************************************)
(* BackupRestore.  Between the reading of the ledger and the manifest the  *)
(* backup command knows whether the schema has moved.  A database that a   *)
(* command loads, has verified or is to drop is its own, and no reported   *)
(* one is among them.                                                      *)
(***************************************************************************)
DumpTypes == /\ liveLedger \in 1..MaxLedger /\ archive \in -1..MaxLedger
             /\ manifest \in 0..MaxLedger /\ meta \in 0..MaxLedger
             /\ dumper \in {"off", "meta", "dumped"}
DumperOK ==
  /\ dumper = "meta" => archive = -1 /\ manifest = 0 /\ meta > 0 /\ (meta = liveLedger \/ moved)
  /\ dumper = "dumped" => archive > 0 /\ manifest = 0 /\ meta > 0 /\ (archive = meta \/ moved)
DumpInv == DumpTypes /\ DumperOK /\ ManifestMeansBackup

Busy == {"load", "verified", "drop"}
RestorerState == [at : Busy \cup {"off", "create"}, target : Targets, ledger : 0..MaxLedger]
CommandTypes ==
  /\ targetDb \in [Targets -> {"none", "empty", "foreign", "restored"}]
  /\ owner \in [Targets -> Restorers \cup {"nobody"}]
  /\ reported \subseteq Targets
  /\ DOMAIN restorer = Restorers /\ restorer = [r \in Restorers |-> restorer[r]]
  /\ \A r \in Restorers : restorer[r] = NoRestore \/ restorer[r] \in RestorerState
BusyOK ==
  \A r \in Restorers : restorer[r].at \in Busy =>
    owner[restorer[r].target] = r /\ restorer[r].target \notin reported
VerifiedOK ==
  \A r \in Restorers : restorer[r].at = "verified" => targetDb[restorer[r].target] = "restored"
OwnersOK == \A t \in Targets : targetDb[t] # "foreign" => (owner[t] = "nobody" <=> targetDb[t] = "none")
CommandInv == CommandTypes /\ BusyOK /\ VerifiedOK /\ ReportedIsRestored /\ OwnersOK
-----------------------------------------------------------------------------
LEMMA DumpInitInv == RestoreInit => DumpInv
<1> SUFFICES ASSUME RestoreInit PROVE DumpInv
  OBVIOUS
<1>1. MaxLedger \in Nat /\ MaxLedger > 0
  BY RestoreAssumption
<1>2. DumpTypes
  BY <1>1 DEF RestoreInit, DumpTypes
<1>3. DumperOK /\ ManifestMeansBackup
  BY DEF RestoreInit, DumperOK, ManifestMeansBackup
<1> QED
  BY <1>2, <1>3 DEF DumpInv

LEMMA DumpStep == DumpInv /\ [RestoreNext]_restoreVars => DumpInv'
<1> SUFFICES ASSUME DumpInv, [RestoreNext]_restoreVars PROVE DumpInv'
  OBVIOUS
<1> USE DEF DumpInv, DumpTypes, DumperOK, ManifestMeansBackup
<1>0. MaxLedger \in Nat /\ MaxLedger > 0
  BY RestoreAssumption
<1>1. CASE UNCHANGED restoreVars
  BY <1>1 DEF restoreVars, backupFiles
<1>2. CASE Migrate
  <2>1. /\ UNCHANGED <<archive, manifest, dumper, meta>> /\ liveLedger' = liveLedger + 1
        /\ liveLedger < MaxLedger
    BY <1>2 DEF Migrate, backupFiles
  <2>2. (moved => moved') /\ (dumper = "meta" => moved')
    BY <1>2 DEF Migrate
  <2>3. DumpTypes'
    BY <1>0, <2>1
  <2> QED
    BY <2>1, <2>2, <2>3
<1>3. CASE BeginBackup
  BY <1>0, <1>3 DEF BeginBackup, backupFiles
<1>4. CASE Dump
  BY <1>0, <1>4 DEF Dump
<1>5. CASE WriteManifest
  BY <1>0, <1>5 DEF WriteManifest
<1>6. CASE BackupFails
  <2>1. archive' \in {-1, 0, archive} /\ manifest = 0 /\ dumper' = "off"
    BY <1>6 DEF BackupFails
  <2>2. UNCHANGED <<liveLedger, manifest, meta>>
    BY <1>6 DEF BackupFails
  <2> QED
    BY <1>0, <2>1, <2>2
<1>7. CASE RemoveBackup
  BY <1>0, <1>7 DEF RemoveBackup
<1>8. ASSUME NEW r \in Restorers, RestoreStep(r) PROVE DumpInv'
  <2>1. UNCHANGED <<liveLedger, archive, manifest, dumper, meta, moved>>
    BY <1>8 DEF RestoreStep, BeginRestore, CreateTarget, LoadTarget, ReportRestore,
                RestoreFails, DropTarget, RestoreEnds, backupFiles
  <2> QED
    BY <2>1
<1> QED
  BY <1>1, <1>2, <1>3, <1>4, <1>5, <1>6, <1>7, <1>8 DEF RestoreNext

LEMMA CommandInitInv == RestoreInit => CommandInv
<1> SUFFICES ASSUME RestoreInit PROVE CommandInv
  OBVIOUS
<1>1. CommandTypes
  BY DEF RestoreInit, CommandTypes
<1>2. \A r \in Restorers : restorer[r].at = "off"
  BY DEF RestoreInit, NoRestore
<1> QED
  BY <1>1, <1>2 DEF RestoreInit, CommandInv, BusyOK, VerifiedOK, ReportedIsRestored, OwnersOK, Busy

\* a command that goes on with the target it has
LEMMA CommandGoes ==
  ASSUME NEW r \in Restorers, NEW where \in Busy \cup {"off"}, CommandTypes, Go(r, where),
         restorer[r] \in RestorerState
  PROVE  /\ restorer'[r] = [restorer[r] EXCEPT !.at = where]
         /\ restorer'[r].at = where /\ restorer'[r].target = restorer[r].target
         /\ restorer'[r] \in RestorerState
         /\ \A o \in Restorers \ {r} : restorer'[o] = restorer[o]
         /\ DOMAIN restorer' = Restorers /\ restorer' = [o \in Restorers |-> restorer'[o]]
<1>1. restorer' = [restorer EXCEPT ![r] = [restorer[r] EXCEPT !.at = where]]
  BY DEF Go
<1>2. /\ restorer'[r] = [restorer[r] EXCEPT !.at = where]
      /\ \A o \in Restorers \ {r} : restorer'[o] = restorer[o]
      /\ DOMAIN restorer' = Restorers /\ restorer' = [o \in Restorers |-> restorer'[o]]
  BY <1>1 DEF CommandTypes
<1>3. PICK q \in RestorerState : q = restorer[r]
  OBVIOUS
<1>4. PICK n : n = [q EXCEPT !.at = where]
  OBVIOUS
<1>5. n \in RestorerState /\ n.at = where /\ n.target = q.target
  BY <1>4 DEF RestorerState
<1> QED
  BY <1>2, <1>3, <1>4, <1>5

LEMMA Moving == ASSUME NEW r \in Restorers, CommandTypes, restorer[r].at # "off"
                PROVE  restorer[r] \in RestorerState /\ restorer[r].target \in Targets
BY DEF CommandTypes, NoRestore, RestorerState

LEMMA CommandStep == DumpInv /\ CommandInv /\ [RestoreNext]_restoreVars => CommandInv'
<1> SUFFICES ASSUME DumpInv, CommandInv, [RestoreNext]_restoreVars PROVE CommandInv'
  OBVIOUS
<1>0. CommandTypes /\ BusyOK /\ VerifiedOK /\ ReportedIsRestored /\ OwnersOK
  BY DEF CommandInv
<1>1. CASE UNCHANGED <<targetDb, owner, restorer, reported>>
  BY <1>0, <1>1 DEF CommandInv, CommandTypes, BusyOK, VerifiedOK, ReportedIsRestored, OwnersOK
<1>2. ASSUME NEW r \in Restorers, NEW t \in Targets, BeginRestore(r, t) PROVE CommandInv'
  <2>1. PICK n : n = [at |-> "create", target |-> t, ledger |-> manifest]
    OBVIOUS
  <2>2. restorer' = [restorer EXCEPT ![r] = n] /\ UNCHANGED <<targetDb, owner, reported>>
    BY <1>2, <2>1 DEF BeginRestore, targetVars
  <2>3. n \in RestorerState /\ n.at = "create"
    BY <2>1 DEF RestorerState, DumpInv, DumpTypes
  <2>4. /\ restorer'[r] = n /\ \A o \in Restorers \ {r} : restorer'[o] = restorer[o]
        /\ DOMAIN restorer' = Restorers /\ restorer' = [o \in Restorers |-> restorer'[o]]
    BY <1>0, <2>2 DEF CommandTypes
  <2>5. CommandTypes'
    BY <1>0, <2>2, <2>3, <2>4 DEF CommandTypes
  <2>6. BusyOK' /\ VerifiedOK'
    BY <1>0, <2>2, <2>3, <2>4 DEF BusyOK, VerifiedOK, Busy
  <2> QED
    BY <1>0, <2>2, <2>5, <2>6 DEF CommandInv, ReportedIsRestored, OwnersOK
\* a step of r that touches no database
<1>3. ASSUME NEW r \in Restorers, NEW where \in Busy \cup {"off"}, Go(r, where),
             restorer[r].at # "off", UNCHANGED <<targetDb, owner, reported>>,
             where \in Busy => restorer[r].at \in Busy /\ where = "drop"
      PROVE  CommandInv'
  <2>1. /\ restorer'[r].at = where /\ restorer'[r].target = restorer[r].target
        /\ restorer'[r] \in RestorerState
        /\ \A o \in Restorers \ {r} : restorer'[o] = restorer[o]
        /\ DOMAIN restorer' = Restorers /\ restorer' = [o \in Restorers |-> restorer'[o]]
    BY <1>0, <1>3, Moving, CommandGoes
  <2>2. CommandTypes'
    BY <1>0, <1>3, <2>1 DEF CommandTypes
  <2>3. BusyOK' /\ VerifiedOK'
    BY <1>0, <1>3, <2>1 DEF BusyOK, VerifiedOK, Busy
  <2> QED
    BY <1>0, <1>3, <2>2, <2>3 DEF CommandInv, ReportedIsRestored, OwnersOK
<1>4. ASSUME NEW r \in Restorers, CreateTarget(r) PROVE CommandInv'
  <2>0. PICK t : t = restorer[r].target
    OBVIOUS
  <2>1. restorer[r] \in RestorerState /\ t \in Targets
    BY <1>0, <1>4, <2>0, Moving DEF CreateTarget
  <2>2. CASE targetDb[t] # "none"
    <3>1. Go(r, "off") /\ UNCHANGED <<targetDb, owner, reported>> /\ restorer[r].at # "off"
      BY <1>4, <2>0, <2>2 DEF CreateTarget, CreateRefused, targetVars
    <3> QED
      BY <1>3, <3>1 DEF Busy
  <2>3. CASE targetDb[t] = "none"
    <3>1. /\ Go(r, "load") /\ targetDb' = [targetDb EXCEPT ![t] = "empty"]
          /\ owner' = [owner EXCEPT ![t] = r] /\ reported' = reported
      BY <1>4, <2>0, <2>3 DEF CreateTarget
    <3>2. /\ restorer'[r].at = "load" /\ restorer'[r].target = t
          /\ restorer'[r] \in RestorerState
          /\ \A o \in Restorers \ {r} : restorer'[o] = restorer[o]
          /\ DOMAIN restorer' = Restorers /\ restorer' = [o \in Restorers |-> restorer'[o]]
      BY <1>0, <2>0, <2>1, <3>1, CommandGoes DEF Busy
    <3>3. /\ targetDb'[t] = "empty" /\ owner'[t] = r
          /\ \A u \in Targets \ {t} : targetDb'[u] = targetDb[u] /\ owner'[u] = owner[u]
      BY <1>0, <2>1, <3>1 DEF CommandTypes
    <3>4. CommandTypes'
      BY <1>0, <2>1, <3>1, <3>2 DEF CommandTypes
    <3>5. owner[t] = "nobody" /\ t \notin reported
      BY <1>0, <2>1, <2>3 DEF OwnersOK, ReportedIsRestored
    <3>6. \A o \in Restorers \ {r} : restorer[o].at \in Busy =>
             restorer[o].target # t /\ restorer[o].target \in Targets
      BY <1>0, <3>5, RestoreAssumption, Moving DEF BusyOK, Busy
    <3>7. BusyOK'
      BY <1>0, <3>1, <3>2, <3>3, <3>5, <3>6 DEF BusyOK
    <3>8. VerifiedOK'
      BY <1>0, <3>1, <3>2, <3>3, <3>6 DEF VerifiedOK, Busy
    <3>9. ReportedIsRestored' /\ OwnersOK'
      BY <1>0, <3>1, <3>3, <3>5, RestoreAssumption DEF ReportedIsRestored, OwnersOK, CommandTypes
    <3> QED
      BY <3>4, <3>7, <3>8, <3>9 DEF CommandInv
  <2> QED
    BY <2>2, <2>3
<1>5. ASSUME NEW r \in Restorers, LoadTarget(r) PROVE CommandInv'
  <2>0. PICK t : t = restorer[r].target
    OBVIOUS
  <2>1. restorer[r] \in RestorerState /\ t \in Targets /\ targetDb[t] = "empty" /\ restorer[r].at = "load"
    BY <1>0, <1>5, <2>0, Moving DEF LoadTarget
  <2>2. PICK where \in {"verified", "drop"} : Go(r, where)
    BY <1>5 DEF LoadTarget
  <2>3. targetDb' = [targetDb EXCEPT ![t] = "restored"] /\ UNCHANGED <<owner, reported>>
    BY <1>5, <2>0 DEF LoadTarget
  <2>4. /\ restorer'[r].at = where /\ restorer'[r].target = t
        /\ restorer'[r] \in RestorerState
        /\ \A o \in Restorers \ {r} : restorer'[o] = restorer[o]
        /\ DOMAIN restorer' = Restorers /\ restorer' = [o \in Restorers |-> restorer'[o]]
    BY <1>0, <2>0, <2>1, <2>2, CommandGoes DEF Busy
  <2>5. targetDb'[t] = "restored" /\ \A u \in Targets \ {t} : targetDb'[u] = targetDb[u]
    BY <1>0, <2>1, <2>3 DEF CommandTypes
  <2>6. CommandTypes'
    BY <1>0, <2>1, <2>3, <2>4 DEF CommandTypes
  <2>7. BusyOK'
    BY <1>0, <2>0, <2>1, <2>3, <2>4 DEF BusyOK, Busy
  <2>8. VerifiedOK'
    <3>1. \A o \in Restorers \ {r} : restorer[o].at = "verified" => restorer[o].target \in Targets
      BY <1>0, Moving
    <3> QED
      BY <1>0, <2>4, <2>5, <3>1 DEF VerifiedOK
  <2>9. ReportedIsRestored' /\ OwnersOK'
    BY <1>0, <2>1, <2>3, <2>5 DEF ReportedIsRestored, OwnersOK, CommandTypes
  <2> QED
    BY <2>6, <2>7, <2>8, <2>9 DEF CommandInv
<1>6. ASSUME NEW r \in Restorers, ReportRestore(r) PROVE CommandInv'
  <2>0. PICK t : t = restorer[r].target
    OBVIOUS
  <2>1. restorer[r] \in RestorerState /\ t \in Targets /\ restorer[r].at = "verified"
    BY <1>0, <1>6, <2>0, Moving DEF ReportRestore
  <2>2. Go(r, "off") /\ reported' = reported \cup {t} /\ UNCHANGED <<targetDb, owner>>
    BY <1>6, <2>0 DEF ReportRestore, targetVars
  <2>3. /\ restorer'[r].at = "off" /\ restorer'[r] \in RestorerState
        /\ \A o \in Restorers \ {r} : restorer'[o] = restorer[o]
        /\ DOMAIN restorer' = Restorers /\ restorer' = [o \in Restorers |-> restorer'[o]]
    BY <1>0, <2>1, <2>2, CommandGoes
  <2>4. CommandTypes'
    BY <1>0, <2>1, <2>2, <2>3 DEF CommandTypes
  <2>5. owner[t] = r /\ targetDb[t] = "restored"
    BY <1>0, <2>0, <2>1 DEF BusyOK, Busy, VerifiedOK
  <2>6. BusyOK' /\ VerifiedOK'
    BY <1>0, <2>2, <2>3, <2>5 DEF BusyOK, VerifiedOK, Busy
  <2> QED
    BY <1>0, <2>2, <2>4, <2>5, <2>6 DEF CommandInv, ReportedIsRestored, OwnersOK
<1>7. ASSUME NEW r \in Restorers, DropTarget(r) PROVE CommandInv'
  <2>0. PICK t : t = restorer[r].target
    OBVIOUS
  <2>1. restorer[r] \in RestorerState /\ t \in Targets /\ restorer[r].at = "drop"
    BY <1>0, <1>7, <2>0, Moving DEF DropTarget
  <2>2. /\ Go(r, "off") /\ targetDb' = [targetDb EXCEPT ![t] = "none"]
        /\ owner' = [owner EXCEPT ![t] = "nobody"] /\ reported' = reported
    BY <1>7, <2>0 DEF DropTarget
  <2>3. /\ restorer'[r].at = "off" /\ restorer'[r] \in RestorerState
        /\ \A o \in Restorers \ {r} : restorer'[o] = restorer[o]
        /\ DOMAIN restorer' = Restorers /\ restorer' = [o \in Restorers |-> restorer'[o]]
    BY <1>0, <2>1, <2>2, CommandGoes
  <2>4. /\ targetDb'[t] = "none" /\ owner'[t] = "nobody"
        /\ \A u \in Targets \ {t} : targetDb'[u] = targetDb[u] /\ owner'[u] = owner[u]
    BY <1>0, <2>1, <2>2 DEF CommandTypes
  <2>5. CommandTypes'
    BY <1>0, <2>1, <2>2, <2>3 DEF CommandTypes
  <2>6. owner[t] = r /\ t \notin reported
    BY <1>0, <2>0, <2>1 DEF BusyOK, Busy
  <2>7. \A o \in Restorers \ {r} : restorer[o].at \in Busy =>
           restorer[o].target # t /\ restorer[o].target \in Targets
    BY <1>0, <2>6, Moving DEF BusyOK, Busy
  <2>8. BusyOK' /\ VerifiedOK'
    BY <1>0, <2>2, <2>3, <2>4, <2>7 DEF BusyOK, VerifiedOK, Busy
  <2>9. ReportedIsRestored' /\ OwnersOK'
    BY <1>0, <2>2, <2>4, <2>6 DEF ReportedIsRestored, OwnersOK, CommandTypes
  <2> QED
    BY <2>5, <2>8, <2>9 DEF CommandInv
<1>8. ASSUME NEW r \in Restorers, RestoreFails(r) \/ RestoreEnds(r) PROVE CommandInv'
  <2>1. /\ restorer[r].at # "off" /\ UNCHANGED <<targetDb, owner, reported>>
        /\ Go(r, "off") \/ (Go(r, "drop") /\ restorer[r].at = "load")
    BY <1>8 DEF RestoreFails, RestoreEnds, targetVars
  <2> QED
    BY <1>3, <2>1 DEF Busy
<1>9. CASE Migrate \/ BeginBackup \/ Dump \/ WriteManifest \/ BackupFails \/ RemoveBackup
  BY <1>1, <1>9 DEF Migrate, BeginBackup, Dump, WriteManifest, BackupFails, RemoveBackup, targetVars
<1>10. CASE UNCHANGED restoreVars
  BY <1>1, <1>10 DEF restoreVars
<1> QED
  BY <1>2, <1>4, <1>5, <1>6, <1>7, <1>8, <1>9, <1>10 DEF RestoreNext, RestoreStep

LEMMA RestoreAlways == RestoreSpec => [](DumpInv /\ CommandInv)
BY DumpInitInv, DumpStep, CommandInitInv, CommandStep, PTL DEF RestoreSpec

LEMMA UsableInv == DumpInv /\ CommandInv => BackupsUsable
BY DEF DumpInv, CommandInv, BackupsUsable, DropsOnlyOwn, BusyOK, OwnersOK, Busy

LEMMA RestoreTypedOK == DumpInv /\ CommandInv => RestoreTypeOK
<1> SUFFICES ASSUME DumpInv, CommandInv PROVE RestoreTypeOK
  OBVIOUS
<1>1. \A r \in Restorers : /\ restorer[r].at \in {"off", "create", "load", "verified", "drop"}
                          /\ restorer[r].ledger \in 0..MaxLedger
  BY RestoreAssumption DEF CommandInv, CommandTypes, NoRestore, RestorerState, Busy
<1> QED
  BY <1>1 DEF DumpInv, DumpTypes, CommandInv, CommandTypes, RestoreTypeOK
-----------------------------------------------------------------------------
(***************************************************************************)
(* EventPartitions.  What the job last did holds for good, and the job ran *)
(* in this month or the one before.  A backfill that runs alone has added  *)
(* only logs without a projection; of those that overlap, each adds one    *)
(* row at most to a log, and only while there was none.                    *)
(***************************************************************************)
BackfillState == [at : {"idle", "create"}, months : SUBSET Months, logs : SUBSET Legacy,
                  new : SUBSET Legacy]
PartTypes ==
  /\ month \in Months /\ parts \subseteq Months /\ stray \subseteq Months /\ ranIn \in 1..month
  /\ projected \in [Legacy -> Nat] /\ backfill \in [Backfillers -> BackfillState]
  /\ \A p \in Backfillers : backfill[p].at = "idle" => backfill[p] = NoBackfill

Ready(m) == Ahead(m) \subseteq parts \/ Refuses(Ahead(m))
JobOK == Ready(ranIn) /\ (~missed => month <= ranIn + 1)

Adding(l) == {p \in Backfillers : l \in backfill[p].new}
\* every backfill of a log that has been projected or will be
RowsBounded(l) == projected[l] + Cardinality(Adding(l)) <= Cardinality(Backfillers)
ProjectionsOK ==
  /\ \A l \in Legacy : RowsBounded(l)
  /\ ~overlap =>
       /\ \A p, q \in Backfillers : p # q => backfill[p].at = "idle" \/ backfill[q].at = "idle"
       /\ \A p \in Backfillers : \A l \in backfill[p].new : projected[l] = 0
       /\ \A l \in Legacy : projected[l] <= 1
PartInv == PartTypes /\ JobOK /\ ProjectionsOK
-----------------------------------------------------------------------------
LEMMA MinIn ==
  ASSUME NEW S, S \subseteq Nat, S # {}
  PROVE  Min(S) \in S
<1>1. \E x \in S : \A y \in S : x <= y
  BY LeastNat
<1> QED
  BY <1>1 DEF Min

LEMMA PartInitInv == PartInit => PartInv
<1> SUFFICES ASSUME PartInit PROVE PartInv
  OBVIOUS
<1>0. /\ MaxMonth \in Nat /\ 1 <= MaxMonth /\ 1 \in Months
      /\ IsFiniteSet(Backfillers) /\ Cardinality(Backfillers) \in Nat /\ Cardinality(Backfillers) >= 1
  <2>1. MaxMonth \in Nat /\ 1 <= MaxMonth /\ IsFiniteSet(Backfillers) /\ Backfillers # {}
    BY PartitionAssumption
  <2>2. Cardinality(Backfillers) \in Nat /\ Cardinality(Backfillers) # 0
    BY <2>1, FS_CardinalityType, FS_EmptySet
  <2> QED
    BY <2>1, <2>2 DEF Months
<1>1. /\ month = 1 /\ parts = Ahead(1) /\ stray = {} /\ missed = FALSE /\ ranIn = 1
      /\ overlap = FALSE /\ backfill = [p \in Backfillers |-> NoBackfill]
  BY DEF PartInit
<1>2. PICK n \in 0..1 : projected = [l \in Legacy |-> n]
  BY DEF PartInit
<1>3. NoBackfill \in BackfillState
  BY DEF NoBackfill, BackfillState
<1>4. PartTypes
  BY <1>0, <1>1, <1>2, <1>3 DEF PartTypes, Ahead
<1>5. JobOK
  BY <1>1 DEF JobOK, Ready
<1>6. \A p \in Backfillers : backfill[p].at = "idle" /\ backfill[p].new = {}
  BY <1>1 DEF NoBackfill
<1>7. \A l \in Legacy : Adding(l) = {} /\ projected[l] \in 0..1
  BY <1>2, <1>6 DEF Adding
<1>8. ASSUME NEW l \in Legacy PROVE RowsBounded(l)
  <2>1. Cardinality(Adding(l)) = 0 /\ projected[l] \in 0..1
    BY <1>7, FS_EmptySet
  <2>2. projected[l] + Cardinality(Adding(l)) <= Cardinality(Backfillers)
    BY <1>0, <2>1
  <2> QED
    BY <2>2 DEF RowsBounded
<1>9. ProjectionsOK
  BY <1>6, <1>7, <1>8 DEF ProjectionsOK
<1> QED
  BY <1>4, <1>5, <1>9 DEF PartInv

LEMMA MonthsOfLogs ==
  ASSUME NEW S, S \subseteq Legacy
  PROVE  {MonthOf[l] : l \in S} \subseteq Months
BY PartitionAssumption DEF Months

\* what a call made new is not what kept other calls from it
LEMMA NoneUnrefused ==
  ASSUME NEW ms, ms \subseteq Months, NEW ks, ks \subseteq Months, PartTypes,
         parts' = Ensured(ks) \/ parts' = parts, stray \subseteq stray', stray' \subseteq Months
  PROVE  /\ parts \subseteq parts' /\ parts' \subseteq Months
         /\ Refuses(ms) => Refuses(ms)'
         /\ ms \subseteq parts => ms \subseteq parts'
<1>1. parts \subseteq parts' /\ parts' \subseteq Months /\ (parts' \ parts) \cap stray = {}
  BY DEF Ensured, Refuses, PartTypes
<1> QED
  BY <1>1 DEF Refuses

\* of the daily job
LEMMA JobKept ==
  ASSUME PartTypes, JobOK, NEW ks, ks \subseteq Months,
         parts' = Ensured(ks) \/ parts' = parts, stray \subseteq stray', stray' \subseteq Months,
         UNCHANGED <<month, ranIn, missed>>
  PROVE  JobOK'
<1>1. PICK r : r = ranIn
  OBVIOUS
<1>2. Ahead(r) \subseteq Months
  BY DEF Ahead
<1>3. Ready(r)
  BY <1>1 DEF JobOK
<1>4. Ready(r)'
  BY <1>2, <1>3, NoneUnrefused DEF Ready
<1> QED
  BY <1>1, <1>4 DEF JobOK

\* A backfill that goes on with b.
LEMMA BackfillMoves ==
  ASSUME PartTypes, NEW p \in Backfillers, NEW b \in BackfillState, Keep(p, b),
         b.at = "idle" => b = NoBackfill
  PROVE  /\ backfill'[p] = b /\ \A q \in Backfillers \ {p} : backfill'[q] = backfill[q]
         /\ backfill' \in [Backfillers -> BackfillState]
         /\ \A q \in Backfillers : backfill'[q].at = "idle" => backfill'[q] = NoBackfill
         /\ \A l \in Legacy : Adding(l)' \subseteq Adding(l) \cup {p}
<1>1. /\ backfill'[p] = b /\ \A q \in Backfillers \ {p} : backfill'[q] = backfill[q]
      /\ backfill' \in [Backfillers -> BackfillState]
  BY DEF Keep, PartTypes
<1>2. \A l \in Legacy : Adding(l)' = {q \in Backfillers : l \in backfill'[q].new}
  BY DEF Adding
<1>3. \A q \in Backfillers : backfill'[q].at = "idle" => backfill'[q] = NoBackfill
  BY <1>1 DEF PartTypes
<1> QED
  BY <1>1, <1>2, <1>3 DEF Adding

LEMMA Backfilling ==
  ASSUME PartTypes, NEW p \in Backfillers
  PROVE  /\ backfill[p] \in BackfillState
         /\ backfill[p].months \subseteq Months /\ backfill[p].logs \subseteq Legacy
         /\ backfill[p].new \subseteq Legacy /\ backfill[p].logs \subseteq Nat /\ Months \subseteq Nat
         /\ backfill[p].at \in {"idle", "create"}
<1>1. backfill[p] \in BackfillState
  BY DEF PartTypes
<1>2. Months \subseteq Nat /\ Legacy \subseteq Nat
  BY PartitionAssumption DEF Months
<1> QED
  BY <1>1, <1>2 DEF BackfillState

\* A step that adds no log keeps the bounds.
LEMMA NoneAdded ==
  ASSUME PartTypes, ProjectionsOK, projected' = projected,
         backfill' \in [Backfillers -> BackfillState], overlap => overlap',
         \A p \in Backfillers : backfill'[p].new \subseteq backfill[p].new,
         ~overlap' => \A p, q \in Backfillers : p # q => backfill'[p].at = "idle" \/ backfill'[q].at = "idle"
  PROVE  ProjectionsOK'
<1>1. ASSUME NEW l \in Legacy PROVE RowsBounded(l)'
  <2>1. Adding(l)' \subseteq Adding(l)
    BY DEF Adding
  <2>2. IsFiniteSet(Adding(l)) /\ Cardinality(Adding(l)) \in Nat /\ Cardinality(Backfillers) \in Nat
    BY PartitionAssumption, FS_Subset, FS_CardinalityType DEF Adding
  <2>3. Cardinality(Adding(l)') \in Nat /\ Cardinality(Adding(l)') <= Cardinality(Adding(l))
    BY <2>1, <2>2, FS_Subset, FS_CardinalityType
  <2>4. projected[l] \in Nat /\ projected[l] + Cardinality(Adding(l)) <= Cardinality(Backfillers)
    BY DEF PartTypes, ProjectionsOK, RowsBounded
  <2>5. projected[l] + Cardinality(Adding(l)') <= Cardinality(Backfillers)
    BY <2>2, <2>3, <2>4
  <2> QED
    BY <2>5 DEF RowsBounded
<1>2. ASSUME ~overlap'
      PROVE  /\ \A p \in Backfillers : \A l \in backfill'[p].new : projected'[l] = 0
             /\ \A l \in Legacy : projected'[l] <= 1
  BY <1>2 DEF ProjectionsOK
<1> QED
  BY <1>1, <1>2 DEF ProjectionsOK

LEMMA ProjectInv ==
  ASSUME PartInv, NEW p \in Backfillers, Project(p)
  PROVE  PartInv'
<1>0. PartTypes /\ JobOK /\ ProjectionsOK
  BY DEF PartInv
<1>1. PICK b : b = backfill[p]
  OBVIOUS
<1>2. PICK k : k = Min(b.logs)
  OBVIOUS
<1>3. /\ b \in BackfillState /\ b.logs \subseteq Nat /\ b.logs # {} /\ b.at = "create"
      /\ b.logs \subseteq Legacy /\ b.new \subseteq Legacy
  BY <1>0, <1>1, Backfilling DEF Project
<1>4. k \in Legacy
  BY <1>2, <1>3, MinIn
<1>5. PICK new : new = IF Unprojected(k) THEN b.new \cup {k} ELSE b.new
  OBVIOUS
<1>6. PICK n : n = [b EXCEPT !.logs = b.logs \ {k}, !.new = new]
  OBVIOUS
<1>7. Keep(p, n) /\ UNCHANGED <<month, parts, stray, projected, missed, ranIn, breaks, overlap>>
  BY <1>1, <1>2, <1>5, <1>6 DEF Project
<1>8. n \in BackfillState /\ n.at = "create" /\ n.new = new
  BY <1>3, <1>4, <1>5, <1>6 DEF BackfillState
<1>9. /\ backfill'[p] = n /\ \A q \in Backfillers \ {p} : backfill'[q] = backfill[q]
      /\ backfill' \in [Backfillers -> BackfillState]
      /\ \A q \in Backfillers : backfill'[q].at = "idle" => backfill'[q] = NoBackfill
  BY <1>0, <1>7, <1>8, BackfillMoves
<1>10. PartTypes'
  BY <1>0, <1>7, <1>9 DEF PartTypes
<1>11. JobOK'
  BY <1>0, <1>7, JobKept DEF PartTypes
<1>12. CASE ~Unprojected(k)
  <2>1. \A q \in Backfillers : backfill'[q].new = backfill[q].new /\ backfill'[q].at = backfill[q].at
    BY <1>1, <1>3, <1>5, <1>8, <1>9, <1>12
  <2>2. ProjectionsOK'
    BY <1>0, <1>7, <1>9, <2>1, NoneAdded DEF ProjectionsOK
  <2> QED
    BY <1>10, <1>11, <2>2 DEF PartInv
<1>13. CASE Unprojected(k)
  <2>1. projected[k] = 0 /\ new = b.new \cup {k}
    BY <1>5, <1>13 DEF Unprojected
  <2>2. ASSUME NEW l \in Legacy PROVE RowsBounded(l)'
    <3>1. CASE l = k
      <4>1. Adding(l)' \subseteq Backfillers
        BY DEF Adding
      <4>2. Cardinality(Adding(l)') \in Nat /\ Cardinality(Adding(l)') <= Cardinality(Backfillers)
        BY <4>1, PartitionAssumption, FS_Subset, FS_CardinalityType
      <4>3. projected'[l] = 0
        BY <1>7, <2>1, <3>1
      <4>4. Cardinality(Backfillers) \in Nat
        BY PartitionAssumption, FS_CardinalityType
      <4>5. projected'[l] + Cardinality(Adding(l)') <= Cardinality(Backfillers)
        BY <4>2, <4>3, <4>4
      <4> QED
        BY <4>5 DEF RowsBounded
    <3>2. CASE l # k
      <4>1. Adding(l)' = Adding(l)
        BY <1>1, <1>8, <1>9, <2>1, <3>2 DEF Adding
      <4>2. RowsBounded(l)
        BY <1>0 DEF ProjectionsOK
      <4> QED
        BY <1>7, <4>1, <4>2 DEF RowsBounded
    <3> QED
      BY <3>1, <3>2
  <2>3. ASSUME ~overlap'
        PROVE  /\ \A q, o \in Backfillers : q # o => backfill'[q].at = "idle" \/ backfill'[o].at = "idle"
               /\ \A q \in Backfillers : \A l \in backfill'[q].new : projected'[l] = 0
               /\ \A l \in Legacy : projected'[l] <= 1
    <3>1. ~overlap
      BY <1>7, <2>3
    <3>2. \A q \in Backfillers : backfill'[q].at = backfill[q].at
      BY <1>1, <1>3, <1>8, <1>9
    <3>3. \A l \in backfill'[p].new : projected'[l] = 0
      BY <1>0, <1>1, <1>7, <1>8, <1>9, <2>1, <3>1 DEF ProjectionsOK
    <3> QED
      BY <1>0, <1>7, <1>9, <3>1, <3>2, <3>3 DEF ProjectionsOK
  <2>4. ProjectionsOK'
    BY <2>2, <2>3 DEF ProjectionsOK
  <2> QED
    BY <1>10, <1>11, <2>4 DEF PartInv
<1> QED
  BY <1>12, <1>13

LEMMA CommitProjectedInv ==
  ASSUME PartInv, NEW p \in Backfillers, CommitProjected(p)
  PROVE  PartInv'
<1>0. PartTypes /\ JobOK /\ ProjectionsOK
  BY DEF PartInv
<1>1. PICK b : b = backfill[p]
  OBVIOUS
<1>2. b \in BackfillState /\ b.at = "create" /\ b.new \subseteq Legacy
  BY <1>0, <1>1, Backfilling DEF CommitProjected
<1>3. PICK n : n = IF b.logs = {} THEN NoBackfill ELSE [b EXCEPT !.new = {}]
  OBVIOUS
<1>4. /\ Keep(p, n) /\ UNCHANGED <<month, parts, missed, ranIn, breaks, overlap>>
      /\ projected' = [l \in Legacy |-> projected[l] + (IF l \in b.new THEN 1 ELSE 0)]
      /\ Into({MonthOf[l] : l \in b.new})
  BY <1>1, <1>3 DEF CommitProjected
<1>5. n \in BackfillState /\ n.new = {} /\ (n.at = "idle" => n = NoBackfill)
  BY <1>2, <1>3 DEF BackfillState, NoBackfill
<1>6. /\ backfill'[p] = n /\ \A q \in Backfillers \ {p} : backfill'[q] = backfill[q]
      /\ backfill' \in [Backfillers -> BackfillState]
      /\ \A q \in Backfillers : backfill'[q].at = "idle" => backfill'[q] = NoBackfill
  BY <1>0, <1>4, <1>5, BackfillMoves
<1>7. /\ \A l \in b.new : projected'[l] = projected[l] + 1
      /\ \A l \in Legacy \ b.new : projected'[l] = projected[l]
      /\ projected' \in [Legacy -> Nat] /\ \A l \in Legacy : projected[l] \in Nat
  BY <1>0, <1>2, <1>4 DEF PartTypes
<1>8. stray \subseteq stray' /\ stray' \subseteq Months
  BY <1>0, <1>2, <1>4, MonthsOfLogs DEF Into, PartTypes
<1>9. PartTypes'
  BY <1>0, <1>4, <1>6, <1>7, <1>8 DEF PartTypes
<1>10. JobOK'
  BY <1>0, <1>4, <1>8, JobKept DEF PartTypes
<1>11. ASSUME NEW l \in Legacy PROVE RowsBounded(l)'
  <2>1. IsFiniteSet(Adding(l)) /\ Cardinality(Adding(l)) \in Nat /\ Cardinality(Backfillers) \in Nat
    BY PartitionAssumption, FS_Subset, FS_CardinalityType DEF Adding
  <2>2. projected[l] + Cardinality(Adding(l)) <= Cardinality(Backfillers)
    BY <1>0 DEF ProjectionsOK, RowsBounded
  <2>3. Adding(l)' = Adding(l) \ {p}
    BY <1>5, <1>6 DEF Adding
  <2>4. CASE l \in b.new
    <3>1. p \in Adding(l)
      BY <1>1, <2>4 DEF Adding
    <3>2. Cardinality(Adding(l)') = Cardinality(Adding(l)) - 1
      BY <2>1, <2>3, <3>1, FS_RemoveElement
    <3>3. projected'[l] + Cardinality(Adding(l)') <= Cardinality(Backfillers)
      BY <1>7, <2>1, <2>2, <2>4, <3>2
    <3> QED
      BY <3>3 DEF RowsBounded
  <2>5. CASE l \notin b.new
    <3>1. Adding(l)' = Adding(l)
      BY <1>1, <2>3, <2>5 DEF Adding
    <3> QED
      BY <1>7, <2>2, <2>5, <3>1 DEF RowsBounded
  <2> QED
    BY <2>4, <2>5
<1>12. ASSUME ~overlap'
       PROVE  /\ \A q, o \in Backfillers : q # o => backfill'[q].at = "idle" \/ backfill'[o].at = "idle"
              /\ \A q \in Backfillers : \A l \in backfill'[q].new : projected'[l] = 0
              /\ \A l \in Legacy : projected'[l] <= 1
  <2>1. ~overlap
    BY <1>4, <1>12
  <2>2. ASSUME NEW q \in Backfillers, q # p PROVE backfill'[q].at = "idle" /\ backfill'[q].new = {}
    <3>1. backfill[q].at = "idle"
      BY <1>0, <1>1, <1>2, <2>1, <2>2 DEF ProjectionsOK
    <3>2. backfill[q] = NoBackfill
      BY <1>0, <3>1 DEF PartTypes
    <3> QED
      BY <1>6, <2>2, <3>2 DEF NoBackfill
  <2>3. \A q \in Backfillers : backfill'[q].new = {}
    BY <1>5, <1>6, <2>2
  <2>4. \A l \in b.new : projected[l] = 0
    BY <1>0, <1>1, <2>1 DEF ProjectionsOK
  <2>5. \A l \in Legacy : projected[l] <= 1
    BY <1>0, <2>1 DEF ProjectionsOK
  <2> QED
    BY <1>2, <1>7, <2>2, <2>3, <2>4, <2>5
<1>13. ProjectionsOK'
  BY <1>11, <1>12 DEF ProjectionsOK
<1> QED
  BY <1>9, <1>10, <1>13 DEF PartInv

LEMMA OtherBackfillInv ==
  ASSUME PartInv, NEW p \in Backfillers, StartBackfill(p) \/ Precreate(p) \/ BreakBackfill(p)
  PROVE  PartInv'
<1>0. PartTypes /\ JobOK /\ ProjectionsOK
  BY DEF PartInv
<1>1. PICK b : b = backfill[p]
  OBVIOUS
<1>2. b \in BackfillState /\ b.months \subseteq Months /\ Months \subseteq Nat
  BY <1>0, <1>1, Backfilling
<1>3. NoBackfill \in BackfillState /\ NoBackfill.at = "idle" /\ NoBackfill.new = {}
  BY DEF NoBackfill, BackfillState
<1>4. CASE StartBackfill(p)
  <2>1. PICK n : n = [NoBackfill EXCEPT !.at = "create", !.months = {MonthOf[l] : l \in Legacy},
                                        !.logs = Legacy]
    OBVIOUS
  <2>2. Keep(p, n) /\ UNCHANGED <<month, parts, stray, projected, missed, ranIn, breaks>>
        /\ overlap' = (overlap \/ \E q \in Backfillers \ {p} : backfill[q].at # "idle")
    BY <1>4, <2>1 DEF StartBackfill
  <2>3. n \in BackfillState /\ n.at = "create" /\ n.new = {}
    BY <2>1, MonthsOfLogs DEF BackfillState, NoBackfill
  <2>4. /\ backfill'[p] = n /\ \A q \in Backfillers \ {p} : backfill'[q] = backfill[q]
        /\ backfill' \in [Backfillers -> BackfillState]
        /\ \A q \in Backfillers : backfill'[q].at = "idle" => backfill'[q] = NoBackfill
    BY <1>0, <2>2, <2>3, BackfillMoves
  <2>5. PartTypes'
    BY <1>0, <2>2, <2>4 DEF PartTypes
  <2>6. JobOK'
    BY <1>0, <2>2, JobKept DEF PartTypes
  <2>7. \A q \in Backfillers : backfill'[q].new \subseteq backfill[q].new
    BY <2>3, <2>4
  <2>8. ~overlap' => \A q, o \in Backfillers : q # o => backfill'[q].at = "idle" \/ backfill'[o].at = "idle"
    <3>1. \A q \in Backfillers \ {p} : ~overlap' => backfill'[q].at = "idle"
      BY <2>2, <2>4
    <3> QED
      BY <3>1
  <2>9. ProjectionsOK'
    BY <1>0, <2>2, <2>4, <2>7, <2>8, NoneAdded
  <2> QED
    BY <2>5, <2>6, <2>9 DEF PartInv
<1>5. CASE Precreate(p)
  <2>0. PICK m : m = Min(b.months)
    OBVIOUS
  <2>1. m \in Months
    BY <1>1, <1>2, <1>5, <2>0, MinIn DEF Precreate
  <2>2. PICK n : n = IF Refuses({m}) THEN NoBackfill ELSE [b EXCEPT !.months = b.months \ {m}]
    OBVIOUS
  <2>3. /\ Keep(p, n) /\ UNCHANGED <<month, stray, projected, missed, ranIn, breaks, overlap>>
        /\ parts' = Ensured({m}) /\ b.at = "create"
    BY <1>1, <1>5, <2>0, <2>2 DEF Precreate
  <2>4. n \in BackfillState /\ n.new \subseteq b.new /\ (n.at = "idle" => n = NoBackfill)
    BY <1>2, <1>3, <2>2, <2>3 DEF BackfillState
  <2>5. /\ backfill'[p] = n /\ \A q \in Backfillers \ {p} : backfill'[q] = backfill[q]
        /\ backfill' \in [Backfillers -> BackfillState]
        /\ \A q \in Backfillers : backfill'[q].at = "idle" => backfill'[q] = NoBackfill
    BY <1>0, <2>3, <2>4, BackfillMoves
  <2>6. parts' \subseteq Months
    BY <1>0, <2>1, <2>3, NoneUnrefused DEF PartTypes
  <2>7. PartTypes'
    BY <1>0, <2>3, <2>5, <2>6 DEF PartTypes
  <2>8. JobOK'
    BY <1>0, <2>1, <2>3, JobKept DEF PartTypes
  <2>9. \A q \in Backfillers : backfill'[q].new \subseteq backfill[q].new
    BY <1>1, <2>4, <2>5
  <2>9a. \A q \in Backfillers : backfill[q].at = "idle" => backfill'[q].at = "idle"
    BY <1>1, <2>3, <2>5
  <2>10. ~overlap' => \A q, o \in Backfillers : q # o => backfill'[q].at = "idle" \/ backfill'[o].at = "idle"
    <3> SUFFICES ASSUME ~overlap', NEW q \in Backfillers, NEW o \in Backfillers, q # o
                 PROVE  backfill'[q].at = "idle" \/ backfill'[o].at = "idle"
      OBVIOUS
    <3>1. backfill[q].at = "idle" \/ backfill[o].at = "idle"
      BY <1>0, <2>3 DEF ProjectionsOK
    <3> QED
      BY <3>1, <2>9a
  <2>11. ProjectionsOK'
    BY <1>0, <2>3, <2>5, <2>9, <2>10, NoneAdded
  <2> QED
    BY <2>7, <2>8, <2>11 DEF PartInv
<1>6. CASE BreakBackfill(p)
  <2>1. Keep(p, NoBackfill) /\ UNCHANGED <<month, parts, stray, projected, missed, ranIn, overlap>>
    BY <1>6 DEF BreakBackfill
  <2>2. /\ backfill'[p] = NoBackfill /\ \A q \in Backfillers \ {p} : backfill'[q] = backfill[q]
        /\ backfill' \in [Backfillers -> BackfillState]
        /\ \A q \in Backfillers : backfill'[q].at = "idle" => backfill'[q] = NoBackfill
    BY <1>0, <1>3, <2>1, BackfillMoves
  <2>3. PartTypes'
    BY <1>0, <2>1, <2>2 DEF PartTypes
  <2>4. JobOK'
    BY <1>0, <2>1, JobKept DEF PartTypes
  <2>5. \A q \in Backfillers : backfill'[q].new \subseteq backfill[q].new
    BY <1>3, <2>2
  <2>5a. \A q \in Backfillers : backfill[q].at = "idle" => backfill'[q].at = "idle"
    BY <1>3, <2>2
  <2>6. ~overlap' => \A q, o \in Backfillers : q # o => backfill'[q].at = "idle" \/ backfill'[o].at = "idle"
    <3> SUFFICES ASSUME ~overlap', NEW q \in Backfillers, NEW o \in Backfillers, q # o
                 PROVE  backfill'[q].at = "idle" \/ backfill'[o].at = "idle"
      OBVIOUS
    <3>1. backfill[q].at = "idle" \/ backfill[o].at = "idle"
      BY <1>0, <2>1 DEF ProjectionsOK
    <3> QED
      BY <3>1, <2>5a
  <2>7. ProjectionsOK'
    BY <1>0, <2>1, <2>2, <2>5, <2>6, NoneAdded
  <2> QED
    BY <2>3, <2>4, <2>7 DEF PartInv
<1> QED
  BY <1>4, <1>5, <1>6

LEMMA PartStep == PartInv /\ [PartNext]_partVars => PartInv'
<1> SUFFICES ASSUME PartInv, [PartNext]_partVars PROVE PartInv'
  OBVIOUS
<1>0. PartTypes /\ JobOK /\ ProjectionsOK
  BY DEF PartInv
<1>1. ASSUME UNCHANGED <<projected, backfill, overlap>> PROVE ProjectionsOK'
  BY <1>0, <1>1 DEF ProjectionsOK, RowsBounded, Adding
<1>2. CASE UNCHANGED partVars
  <2>1. PartTypes' /\ JobOK'
    BY <1>0, <1>2, JobKept DEF PartTypes, partVars
  <2> QED
    BY <1>1, <1>2, <2>1 DEF PartInv, partVars
<1>3. ASSUME NEW m \in Months, AppendEvent(m) PROVE PartInv'
  <2>1. stray \subseteq stray' /\ stray' \subseteq Months
    BY <1>0, <1>3 DEF AppendEvent, Into, PartTypes
  <2>2. PartTypes'
    BY <1>0, <1>3, <2>1 DEF PartTypes, AppendEvent
  <2>3. JobOK'
    BY <1>0, <1>3, <2>1, JobKept DEF AppendEvent
  <2> QED
    BY <1>1, <1>3, <2>2, <2>3 DEF PartInv, AppendEvent
<1>4. CASE NextMonth
  <2>1. /\ month < MaxMonth /\ month' = month + 1 /\ missed' = (missed \/ ranIn < month)
        /\ UNCHANGED <<parts, stray, projected, backfill, ranIn, breaks, overlap>>
    BY <1>4 DEF NextMonth
  <2>2. MaxMonth \in Nat /\ month \in Nat /\ month >= 1 /\ ranIn \in 1..month
    BY <1>0, PartitionAssumption DEF PartTypes, Months
  <2>3. month' \in Months /\ ranIn' \in 1..month'
    BY <2>1, <2>2 DEF Months
  <2>4. PartTypes'
    BY <1>0, <2>1, <2>3 DEF PartTypes
  <2>5. ~missed' => ~(ranIn < month)
    BY <2>1
  <2>6. ~missed' => month' <= ranIn' + 1
    BY <2>1, <2>2, <2>5
  <2>7. PICK r : r = ranIn
    OBVIOUS
  <2>8. Ready(r)'
    BY <1>0, <2>1, <2>7 DEF JobOK, Ready, Refuses
  <2>9. JobOK'
    BY <2>1, <2>6, <2>7, <2>8 DEF JobOK
  <2> QED
    BY <1>1, <2>1, <2>4, <2>9 DEF PartInv
<1>5. CASE Maintain
  <2>0. PICK m : m = month
    OBVIOUS
  <2>1. /\ parts' = Ensured(Ahead(m)) /\ ranIn' = m
        /\ UNCHANGED <<month, stray, projected, backfill, missed, breaks, overlap>>
    BY <1>5, <2>0 DEF Maintain
  <2>2. Ahead(m) \subseteq Months
    BY DEF Ahead
  <2>3. parts' \subseteq Months
    BY <1>0, <2>1, <2>2, NoneUnrefused DEF PartTypes
  <2>4. m \in Nat /\ 1 <= m
    BY <1>0, <2>0 DEF PartTypes, Months
  <2>5. PartTypes'
    BY <1>0, <2>0, <2>1, <2>3, <2>4 DEF PartTypes
  <2>6. Ready(m)'
    BY <2>1 DEF Ready, Ensured, Refuses
  <2>7. JobOK'
    BY <2>0, <2>1, <2>4, <2>6 DEF JobOK
  <2> QED
    BY <1>1, <2>1, <2>5, <2>7 DEF PartInv
<1>6. ASSUME NEW p \in Backfillers, BackfillStep(p) \/ BreakBackfill(p) PROVE PartInv'
  BY <1>6, OtherBackfillInv, ProjectInv, CommitProjectedInv DEF BackfillStep
<1> QED
  BY <1>2, <1>3, <1>4, <1>5, <1>6 DEF PartNext

LEMMA PartAlways == PartSpec => []PartInv
BY PartInitInv, PartStep, PTL DEF PartSpec

LEMMA ProjectedOnceInv == PartInv => ProjectedOnce
BY DEF PartInv, ProjectionsOK, ProjectedOnce

\* With one month ahead of time it would be too late: the month begins before
\* the job runs.
LEMMA MonthReadyInv == ASSUME Window > 1 PROVE PartInv => MonthIsReady
<1> SUFFICES ASSUME PartInv, ~missed
             PROVE  \/ month \in parts \/ Refuses(Ahead(month))
                    \/ month > 1 /\ Refuses(Ahead(month - 1))
  BY DEF MonthIsReady
<1>1. /\ month \in Months /\ month \in Nat /\ ranIn \in 1..month /\ month <= ranIn + 1
      /\ Window \in Nat /\ Ready(ranIn)
  BY PartitionAssumption DEF PartInv, PartTypes, JobOK, Months
<1>2. CASE ranIn = month
  <2>1. month \in month..month + Window - 1
    BY <1>1
  <2>2. month \in Ahead(month)
    BY <1>1, <2>1 DEF Ahead
  <2> QED
    BY <1>1, <1>2, <2>2 DEF Ready
<1>3. CASE ranIn # month
  <2>1. ranIn = month - 1 /\ month > 1
    BY <1>1, <1>3
  <2>2. month \in ranIn..ranIn + Window - 1
    BY <1>1, <2>1
  <2>3. month \in Ahead(ranIn)
    BY <1>1, <2>2 DEF Ahead
  <2> QED
    BY <1>1, <2>1, <2>3 DEF Ready
<1> QED
  BY <1>2, <1>3

LEMMA PartTypedOK == PartInv => PartTypeOK
<1> SUFFICES ASSUME PartInv PROVE PartTypeOK
  OBVIOUS
<1>0. PartTypes /\ ProjectionsOK
  BY DEF PartInv
<1>1. ASSUME NEW l \in Legacy PROVE projected[l] \in 0..Cardinality(Backfillers)
  <2>1. Cardinality(Adding(l)) \in Nat /\ Cardinality(Backfillers) \in Nat /\ projected[l] \in Nat
    BY <1>0, PartitionAssumption, FS_Subset, FS_CardinalityType DEF Adding, PartTypes
  <2>2. projected[l] + Cardinality(Adding(l)) <= Cardinality(Backfillers)
    BY <1>0 DEF ProjectionsOK, RowsBounded
  <2> QED
    BY <2>1, <2>2
<1>2. \A p \in Backfillers : backfill[p].at \in {"idle", "create"}
  BY <1>0, Backfilling
<1> QED
  BY <1>0, <1>1, <1>2 DEF PartTypes, PartTypeOK
-----------------------------------------------------------------------------
(***************************************************************************)
(* SchemaLedger.  Tables, columns and rows of the ledger only come.  A     *)
(* service that is starting on SQLite has run the base statements, and     *)
(* what it has applied is in the ledger.                                   *)
(***************************************************************************)
StartStates == {"down", "baseline", "read", "apply", "record", "add", "up"}
StarterState == [at : StartStates, applied : SUBSET Versions, version : {0} \cup Versions]
SchemaTypes == /\ built \subseteq Versions /\ ledger \subseteq Versions /\ stops \in 0..MaxStartStops
               /\ starter \in [Starters -> StarterState]
Complete == /\ ledger = Versions
            /\ \/ built = Versions
               \/ schemaDb = "postgres" /\ Indexed \cup Tables \subseteq built
LedgerOK == ledger \cap (Indexed \cup Tables) \subseteq built
StarterOK(p) ==
  /\ starter[p].applied \subseteq ledger
  /\ Is(p, "record") => starter[p].version \in Versions /\ starter[p].version \in built \cup Helpers
  /\ Is(p, "add") => starter[p].version \in Versions
  /\ Is(p, "baseline") => Indexed \cup Tables \cup Helpers \subseteq built
  /\ p \in Starting => /\ Is(p, "up") => Complete
                       /\ Is(p, "down") \/ Is(p, "up") \/ Tables \cup Helpers \subseteq built
                       /\ Is(p, "down") \/ Is(p, "up") \/ schemaDb = "sqlite"
SchemaInv == SchemaTypes /\ LedgerOK /\ \A p \in Starters : StarterOK(p)
-----------------------------------------------------------------------------
LEMMA ManyVersions ==
  /\ Versions \subseteq Nat /\ Indexed \subseteq Versions /\ Tables \subseteq Versions
  /\ Helpers \subseteq Versions /\ Columns \subseteq Versions /\ MaxStartStops \in Nat
  /\ Indexed \cap Helpers = {} /\ Tables \cap Helpers = {}
  /\ \A k \in {0} \cup Versions : 1..k \subseteq Versions
<1>1. PICK n \in Nat : Versions = 1..n
  BY SchemaAssumption, FS_CardinalityType
<1>2. \A k \in {0} \cup 1..n : 1..k \subseteq 1..n
  BY <1>1
<1>3. /\ Indexed \subseteq Versions /\ Tables \subseteq Versions /\ Helpers \subseteq Versions
      /\ Columns \subseteq Versions /\ MaxStartStops \in Nat
      /\ Indexed \cap Helpers = {} /\ Tables \cap Helpers = {}
  BY SchemaAssumption DEF Columns
<1> QED
  BY <1>1, <1>2, <1>3

LEMMA SchemaInitInv == SchemaInit => SchemaInv
<1> SUFFICES ASSUME SchemaInit PROVE SchemaInv
  OBVIOUS
<1>1. starter = [p \in Starters |-> Stopped] /\ stops = 0 /\ Stopped \in StarterState
  BY DEF SchemaInit, Stopped, StarterState, StartStates
<1>2. \A p \in Starters : starter[p].at = "down" /\ starter[p].applied = {}
  BY <1>1 DEF Stopped
<1>3. \A p \in Starters : StarterOK(p)
  BY <1>2 DEF StarterOK, Is
<1>4. built \subseteq Versions /\ ledger \subseteq Versions /\ LedgerOK
  <2>1. CASE built = {} /\ ledger = {}
    BY <2>1 DEF LedgerOK
  <2>2. ASSUME NEW k \in Versions, built = 1..k, ledger = built PROVE <1>4!1 /\ <1>4!2 /\ LedgerOK
    BY <2>2, ManyVersions DEF LedgerOK
  <2>3. ASSUME NEW k \in {0} \cup Versions, built = 1..k, ledger = {}
        PROVE <1>4!1 /\ <1>4!2 /\ LedgerOK
    BY <2>3, ManyVersions DEF LedgerOK
  <2>4. ASSUME NEW missing \in Columns \ Indexed, built = Versions \ {missing}, ledger = Versions
        PROVE <1>4!1 /\ <1>4!2 /\ LedgerOK
    BY <2>4, ManyVersions DEF LedgerOK, Columns
  <2> QED
    BY <2>1, <2>2, <2>3, <2>4 DEF SchemaInit
<1> QED
  BY <1>1, <1>3, <1>4, ManyVersions DEF SchemaInv, SchemaTypes

\* What a start may become.
Goes(p, s) ==
  /\ s.applied \subseteq ledger'
  /\ s.at = "record" => s.version \in Versions /\ s.version \in built' \cup Helpers
  /\ s.at = "add" => s.version \in Versions
  /\ s.at = "baseline" => Indexed \cup Tables \cup Helpers \subseteq built'
  /\ p \in Starting => /\ s.at = "up" => Complete'
                       /\ s.at \in {"down", "up"} \/ Tables \cup Helpers \subseteq built'
                       /\ s.at \in {"down", "up"} \/ schemaDb = "sqlite"

LEMMA StarterMoves ==
  ASSUME SchemaInv, NEW p \in Starters, NEW s \in StarterState, Put(p, s), schemaDb' = schemaDb,
         built \subseteq built', built' \subseteq Versions,
         ledger \subseteq ledger', ledger' \subseteq Versions,
         ledger' \cap (Indexed \cup Tables) \subseteq built', stops' \in 0..MaxStartStops,
         Goes(p, s)
  PROVE  SchemaInv'
<1>1. /\ starter'[p] = s /\ \A q \in Starters \ {p} : starter'[q] = starter[q]
      /\ starter' \in [Starters -> StarterState]
  BY DEF Put, SchemaInv, SchemaTypes
<1>2. Complete => Complete'
  BY DEF Complete, SchemaInv, SchemaTypes
<1>3. ASSUME NEW q \in Starters, q # p PROVE StarterOK(q)'
  <2>1. StarterOK(q) /\ starter'[q] = starter[q]
    BY <1>1, <1>3 DEF SchemaInv
  <2> QED
    BY <1>2, <2>1 DEF StarterOK, Is
<1>4. StarterOK(p)'
  BY <1>1 DEF StarterOK, Is, Goes
<1>5. SchemaTypes' /\ LedgerOK'
  BY <1>1 DEF SchemaTypes, LedgerOK
<1> QED
  BY <1>3, <1>4, <1>5 DEF SchemaInv

LEMMA StoppedGoes == ASSUME NEW p \in Starters PROVE Stopped \in StarterState /\ Goes(p, Stopped)
BY DEF Stopped, StarterState, StartStates, Goes

LEMMA SchemaFacts ==
  ASSUME SchemaInv, NEW p \in Starters
  PROVE  /\ starter[p] \in StarterState /\ starter[p].applied \subseteq ledger
         /\ built \subseteq Versions /\ ledger \subseteq Versions /\ stops \in 0..MaxStartStops
         /\ ledger \cap (Indexed \cup Tables) \subseteq built /\ StarterOK(p)
BY DEF SchemaInv, SchemaTypes, LedgerOK, StarterOK

LEMMA CreateBaselineInv ==
  ASSUME SchemaInv, NEW p \in Starters, CreateSchema(p) \/ Baseline(p) \/ ReadLedger(p)
  PROVE  SchemaInv'
<1>0. /\ starter[p] \in StarterState /\ starter[p].applied \subseteq ledger
      /\ built \subseteq Versions /\ ledger \subseteq Versions /\ stops \in 0..MaxStartStops
      /\ ledger \cap (Indexed \cup Tables) \subseteq built /\ StarterOK(p)
  BY SchemaFacts
<1>1. CASE CreateSchema(p)
  <2>1. PICK s : s = [Stopped EXCEPT !.at = "baseline"]
    OBVIOUS
  <2>2. /\ s \in StarterState /\ s.at = "baseline" /\ s.applied = {}
    BY <2>1 DEF Stopped, StarterState, StartStates
  <2>3. /\ Put(p, s) /\ UNCHANGED <<schemaDb, ledger, stops>>
        /\ exists => Indexed \cup Helpers \subseteq built
        /\ built' = IF exists THEN built \cup Tables ELSE Versions
    BY <1>1, <2>1 DEF CreateSchema
  <2>4. p \in Starting => schemaDb = "sqlite"
    BY <1>1, SchemaAssumption DEF CreateSchema
  <2>5. /\ built \subseteq built' /\ built' \subseteq Versions
        /\ Indexed \cup Tables \cup Helpers \subseteq built'
    BY <1>0, <2>3, ManyVersions
  <2>6. Goes(p, s)
    BY <2>2, <2>4, <2>5 DEF Goes
  <2> QED
    BY <1>0, <2>2, <2>3, <2>5, <2>6, StarterMoves
<1>2. CASE Baseline(p)
  <2>1. PICK s : s = [Stopped EXCEPT !.at = "read"]
    OBVIOUS
  <2>2. /\ s \in StarterState /\ s.at = "read" /\ s.applied = {}
    BY <2>1 DEF Stopped, StarterState, StartStates
  <2>3. /\ Put(p, s) /\ UNCHANGED <<schemaDb, built, stops>> /\ starter[p].at = "baseline"
        /\ ledger' = IF ledger = {} THEN Versions ELSE ledger
    BY <1>2, <2>1 DEF Baseline, Stamped, Is
  <2>4. /\ Indexed \cup Tables \cup Helpers \subseteq built
        /\ p \in Starting => schemaDb = "sqlite"
    BY <1>0, <2>3 DEF StarterOK, Is
  <2>5. ledger \subseteq ledger' /\ ledger' \subseteq Versions
    BY <1>0, <2>3
  <2>6. Goes(p, s)
    BY <2>2, <2>3, <2>4 DEF Goes
  <2> QED
    BY <1>0, <2>2, <2>3, <2>4, <2>5, <2>6, StarterMoves
<1>3. CASE ReadLedger(p)
  <2>1. PICK s : s = [Stopped EXCEPT !.at = "apply", !.applied = ledger]
    OBVIOUS
  <2>2. /\ s \in StarterState /\ s.at = "apply" /\ s.applied = ledger
    BY <1>0, <2>1 DEF Stopped, StarterState, StartStates
  <2>3. /\ Put(p, s) /\ UNCHANGED <<schemaDb, built, ledger, stops>>
        /\ starter[p].at = "read" \/ p = "owner"
    BY <1>3, <2>1 DEF ReadLedger, Is
  <2>4. p \in Starting => Tables \cup Helpers \subseteq built /\ schemaDb = "sqlite"
    BY <1>0, <2>3, SchemaAssumption DEF StarterOK, Is
  <2>5. Goes(p, s)
    BY <2>2, <2>3, <2>4 DEF Goes
  <2> QED
    BY <1>0, <2>2, <2>3, <2>5, StarterMoves
<1> QED
  BY <1>1, <1>2, <1>3

LEMMA ApplyRecordInv ==
  ASSUME SchemaInv, NEW p \in Starters, Apply(p) \/ Record(p)
  PROVE  SchemaInv'
<1>0. /\ starter[p] \in StarterState /\ starter[p].applied \subseteq ledger
      /\ built \subseteq Versions /\ ledger \subseteq Versions /\ stops \in 0..MaxStartStops
      /\ ledger \cap (Indexed \cup Tables) \subseteq built /\ StarterOK(p)
  BY SchemaFacts
<1>1. PICK o \in StarterState : o = starter[p]
  BY <1>0
<1>2. p \in Starting => Tables \cup Helpers \subseteq built /\ schemaDb = "sqlite"
  BY <1>0 DEF StarterOK, Is, Apply, Record
<1>3. CASE Apply(p)
  <2>0. PICK v : v = Min(Pending(p))
    OBVIOUS
  <2>1. Pending(p) \subseteq Nat /\ Pending(p) # {} /\ Pending(p) \subseteq Versions
    BY <1>3, ManyVersions DEF Apply, Pending
  <2>2. v \in Versions
    BY <2>0, <2>1, MinIn
  <2>3. CASE ~Applies(p, v)
    <3>1. Put(p, Stopped) /\ UNCHANGED <<schemaDb, exists, built, ledger, stops>>
      BY <1>3, <2>0, <2>3 DEF Apply
    <3> QED
      BY <1>0, <3>1, StoppedGoes, StarterMoves
  <2>4. CASE Applies(p, v) /\ schemaDb = "sqlite"
    <3>1. PICK s : s = [o EXCEPT !.at = "record", !.version = v]
      OBVIOUS
    <3>2. s \in StarterState /\ s.at = "record" /\ s.version = v /\ s.applied = o.applied
      BY <2>2, <3>1 DEF StarterState, StartStates
    <3>3. Put(p, s) /\ UNCHANGED <<schemaDb, ledger, stops>> /\ built' = built \cup ({v} \ Helpers)
      BY <1>1, <1>3, <2>0, <2>4, <3>1 DEF Apply
    <3>4. built \subseteq built' /\ built' \subseteq Versions /\ v \in built' \cup Helpers
      BY <1>0, <2>2, <3>3
    <3>5. Goes(p, s)
      BY <1>0, <1>1, <1>2, <2>2, <3>2, <3>3, <3>4 DEF Goes
    <3> QED
      BY <1>0, <3>2, <3>3, <3>4, <3>5, StarterMoves
  <2>5. CASE Applies(p, v) /\ schemaDb # "sqlite"
    <3>1. PICK s : s = [o EXCEPT !.applied = o.applied \cup {v}]
      OBVIOUS
    <3>2. s \in StarterState /\ s.at = o.at /\ s.version = o.version /\ s.applied = o.applied \cup {v}
      BY <2>2, <3>1 DEF StarterState
    <3>3. /\ Put(p, s) /\ UNCHANGED <<schemaDb, stops>> /\ built' = built \cup ({v} \ Helpers)
          /\ ledger' = ledger \cup {v} /\ o.at = "apply"
      BY <1>1, <1>3, <2>0, <2>5, <3>1 DEF Apply, Is
    <3>4. /\ built \subseteq built' /\ built' \subseteq Versions
          /\ ledger \subseteq ledger' /\ ledger' \subseteq Versions
      BY <1>0, <2>2, <3>3
    <3>5. ledger' \cap (Indexed \cup Tables) \subseteq built'
      BY <1>0, <3>3, ManyVersions
    <3>6. Goes(p, s)
      BY <1>0, <1>1, <1>2, <2>5, <3>2, <3>3, <3>4 DEF Goes
    <3> QED
      BY <1>0, <3>2, <3>3, <3>4, <3>5, <3>6, StarterMoves
  <2> QED
    BY <2>3, <2>4, <2>5
<1>4. CASE Record(p)
  <2>0. PICK v : v = o.version
    OBVIOUS
  <2>1. /\ v \in Versions /\ v \in built \cup Helpers
        /\ ledger' = ledger \cup {v} /\ UNCHANGED <<schemaDb, exists, built, stops>>
    BY <1>0, <1>1, <1>4, <2>0 DEF Record, StarterOK
  <2>2. /\ ledger \subseteq ledger' /\ ledger' \subseteq Versions
        /\ ledger' \cap (Indexed \cup Tables) \subseteq built
    BY <1>0, <2>1, ManyVersions
  <2>3. CASE v \in ledger
    <3>1. Put(p, Stopped)
      BY <1>1, <1>4, <2>0, <2>3 DEF Record
    <3> QED
      BY <1>0, <2>1, <2>2, <3>1, StoppedGoes, StarterMoves
  <2>4. CASE v \notin ledger
    <3>1. PICK s : s = [o EXCEPT !.at = "apply", !.applied = o.applied \cup {v}]
      OBVIOUS
    <3>2. s \in StarterState /\ s.at = "apply" /\ s.applied = o.applied \cup {v}
      BY <2>1, <3>1 DEF StarterState, StartStates
    <3>3. Put(p, s)
      BY <1>1, <1>4, <2>0, <2>4, <3>1 DEF Record
    <3>4. Goes(p, s)
      BY <1>0, <1>1, <1>2, <2>1, <3>2 DEF Goes
    <3> QED
      BY <1>0, <2>1, <2>2, <3>2, <3>3, <3>4, StarterMoves
  <2> QED
    BY <2>3, <2>4
<1> QED
  BY <1>3, <1>4

LEMMA RepairAddInv ==
  ASSUME SchemaInv, NEW p \in Starters,
         Repair(p) \/ AddColumn(p) \/ EnsureRuntimeReady(p) \/ StartFails(p)
  PROVE  SchemaInv'
<1>0. /\ starter[p] \in StarterState /\ starter[p].applied \subseteq ledger
      /\ built \subseteq Versions /\ ledger \subseteq Versions /\ stops \in 0..MaxStartStops
      /\ ledger \cap (Indexed \cup Tables) \subseteq built /\ StarterOK(p)
  BY SchemaFacts
<1>1. PICK o \in StarterState : o = starter[p]
  BY <1>0
<1>2. PICK up : up = [Stopped EXCEPT !.at = "up"]
  OBVIOUS
<1>3. up \in StarterState /\ up.at = "up" /\ up.applied = {}
  BY <1>2 DEF Stopped, StarterState, StartStates
<1>4. CASE Repair(p)
  <2>1. /\ o.at = "apply" /\ Versions \subseteq o.applied
        /\ UNCHANGED <<schemaDb, exists, built, ledger, stops>>
    BY <1>1, <1>4 DEF Repair, Is, Pending
  <2>2. p \in Starting => Tables \cup Helpers \subseteq built /\ schemaDb = "sqlite"
    BY <1>0, <1>1, <2>1 DEF StarterOK, Is
  <2>3. ledger = Versions
    BY <1>0, <1>1, <2>1
  <2>4. CASE Lacking(p) = {}
    <3>1. Put(p, up)
      BY <1>2, <1>4, <2>4 DEF Repair
    <3>2. p \in Starting => Columns \subseteq built
      BY <2>4, SchemaAssumption DEF Lacking
    <3>3. p \in Starting => built = Versions
      BY <1>0, <2>2, <3>2 DEF Columns
    <3>4. Goes(p, up)
      BY <1>3, <2>1, <2>3, <3>3 DEF Goes, Complete
    <3> QED
      BY <1>0, <1>3, <2>1, <3>1, <3>4, StarterMoves
  <2>5. CASE Lacking(p) # {}
    <3>0. PICK v : v = Min(Lacking(p))
      OBVIOUS
    <3>1. Lacking(p) \subseteq Nat /\ Lacking(p) \subseteq Versions
      BY ManyVersions DEF Lacking
    <3>2. v \in Versions
      BY <2>5, <3>0, <3>1, MinIn
    <3>3. PICK s : s = [o EXCEPT !.at = "add", !.version = v]
      OBVIOUS
    <3>4. s \in StarterState /\ s.at = "add" /\ s.version = v /\ s.applied = o.applied
      BY <3>2, <3>3 DEF StarterState, StartStates
    <3>5. Put(p, s)
      BY <1>1, <1>4, <2>5, <3>0, <3>3 DEF Repair
    <3>6. Goes(p, s)
      BY <1>0, <1>1, <2>1, <2>2, <3>2, <3>4 DEF Goes
    <3> QED
      BY <1>0, <2>1, <3>4, <3>5, <3>6, StarterMoves
  <2> QED
    BY <2>4, <2>5
<1>5. CASE AddColumn(p)
  <2>0. PICK v : v = o.version
    OBVIOUS
  <2>1. /\ v \in Versions /\ o.at = "add" /\ built' = built \cup {v}
        /\ UNCHANGED <<schemaDb, exists, ledger, stops>>
    BY <1>0, <1>1, <1>5, <2>0 DEF AddColumn, StarterOK, Is
  <2>2. /\ built \subseteq built' /\ built' \subseteq Versions
        /\ ledger \cap (Indexed \cup Tables) \subseteq built'
        /\ p \in Starting => Tables \cup Helpers \subseteq built' /\ schemaDb = "sqlite"
    BY <1>0, <1>1, <2>1 DEF StarterOK, Is
  <2>3. CASE v \in built
    <3>1. Put(p, Stopped)
      BY <1>1, <1>5, <2>0, <2>3 DEF AddColumn
    <3> QED
      BY <1>0, <2>1, <2>2, <3>1, StoppedGoes, StarterMoves
  <2>4. CASE v \notin built
    <3>1. PICK s : s = [o EXCEPT !.at = "apply"]
      OBVIOUS
    <3>2. s \in StarterState /\ s.at = "apply" /\ s.applied = o.applied
      BY <3>1 DEF StarterState, StartStates
    <3>3. Put(p, s)
      BY <1>1, <1>5, <2>0, <2>4, <3>1 DEF AddColumn
    <3>4. Goes(p, s)
      BY <1>0, <1>1, <2>1, <2>2, <3>2 DEF Goes
    <3> QED
      BY <1>0, <2>1, <2>2, <3>2, <3>3, <3>4, StarterMoves
  <2> QED
    BY <2>3, <2>4
<1>6. CASE EnsureRuntimeReady(p)
  <2>1. /\ Put(p, up) /\ UNCHANGED <<schemaDb, exists, built, ledger, stops>>
        /\ schemaDb = "postgres" /\ Tables \subseteq built /\ ledger = Versions
    BY <1>2, <1>6 DEF EnsureRuntimeReady
  <2>2. Indexed \cup Tables \subseteq built
    BY <1>0, <2>1, ManyVersions
  <2>3. Goes(p, up)
    BY <1>3, <2>1, <2>2 DEF Goes, Complete
  <2> QED
    BY <1>0, <1>3, <2>1, <2>3, StarterMoves
<1>7. CASE StartFails(p)
  <2>1. /\ Put(p, Stopped) /\ UNCHANGED <<schemaDb, exists, built, ledger>>
        /\ stops' = stops + 1 /\ stops < MaxStartStops
    BY <1>7 DEF StartFails
  <2>2. stops' \in 0..MaxStartStops
    BY <1>0, <2>1, ManyVersions
  <2> QED
    BY <1>0, <2>1, <2>2, StoppedGoes, StarterMoves
<1> QED
  BY <1>4, <1>5, <1>6, <1>7

LEMMA SchemaStep == SchemaInv /\ [SchemaNext]_schemaVars => SchemaInv'
<1> SUFFICES ASSUME SchemaInv, [SchemaNext]_schemaVars PROVE SchemaInv'
  OBVIOUS
<1>1. CASE UNCHANGED schemaVars
  BY <1>1 DEF schemaVars, SchemaInv, SchemaTypes, LedgerOK, StarterOK, Is, Complete
<1>2. ASSUME NEW p \in Starters, StartStep(p) \/ StartFails(p) PROVE SchemaInv'
  BY <1>2, CreateBaselineInv, ApplyRecordInv, RepairAddInv DEF StartStep
<1> QED
  BY <1>1, <1>2 DEF SchemaNext

LEMMA SchemaAlways == SchemaSpec => []SchemaInv
BY SchemaInitInv, SchemaStep, PTL DEF SchemaSpec

LEMMA UpIsCompleteInv == SchemaInv => UpIsComplete
BY DEF SchemaInv, StarterOK, Complete, UpIsComplete, Starters

LEMMA SchemaTypedOK == SchemaInv => SchemaTypeOK
<1> SUFFICES ASSUME SchemaInv PROVE SchemaTypeOK
  OBVIOUS
<1>1. ASSUME NEW p \in Starters
      PROVE  /\ starter[p].at \in {"down", "baseline", "read", "apply", "record", "add", "up"}
             /\ starter[p].applied \subseteq ledger
             /\ Is(p, "record") => starter[p].version \in built \cup Helpers
  BY SchemaFacts DEF StarterState, StartStates, StarterOK
<1> QED
  BY <1>1 DEF SchemaInv, SchemaTypes, SchemaTypeOK
-----------------------------------------------------------------------------
(***************************************************************************)
(* BackupRotation.  A request lists the oldest files; what it spares are   *)
(* KeepCopies files, each verified, unfinished or wasted.  From then on    *)
(* that many are safe: those that another request lists later are not      *)
(* among them, since the verified files keep their order.                  *)
(***************************************************************************)
Older(s, x, y) == \E i, j \in 1..Len(s) : i < j /\ s[i] = x /\ s[j] = y

UnfinishedStates == {"copy", "check"}
MakerState == [at : UnfinishedStates \cup {"idle", "list", "remove"}, file : Nat, old : Seq(Nat)]
RotationTypes ==
  /\ copies \in 0..MaxCopies /\ order \in Seq(Nat) /\ IsInjective(order) /\ Present \subseteq 1..copies
  /\ whole \subseteq Present /\ verified \subseteq 1..copies /\ wasted \subseteq 1..copies
  /\ maker \in [Makers -> MakerState]
  /\ \A m \in Makers : maker[m].at # "idle" => maker[m].file \in 1..copies

IsUnfinished(m) == maker[m].at \in UnfinishedStates
FilesApart == /\ \A m, n \in Makers : m # n /\ IsUnfinished(m) /\ IsUnfinished(n) =>
                   maker[m].file # maker[n].file
              /\ Unfinished \cap verified = {}
FilesKnown == Present \subseteq verified \cup Unfinished \cup wasted /\ verified \cap Present \subseteq whole

Listed(m) == ToSet(maker[m].old)
\* nothing that a request spared is older than what it listed
OldestListed ==
  \A m \in Makers : /\ Listed(m) \subseteq verified \cup wasted
                    /\ \A x \in (Listed(m) \cap Present) \ wasted :
                         \A y \in Present \ (Listed(m) \cup wasted) : Older(order, x, y)

Doomed == UNION {Listed(m) : m \in Makers}
Safe == ((verified \cap whole) \ Doomed) \cup Unfinished \cup wasted
EnoughSafe == Doomed # {} \/ ~(verified \subseteq whole) => Cardinality(Safe) >= KeepCopies
RotationInv == RotationTypes /\ FilesApart /\ FilesKnown /\ OldestListed /\ EnoughSafe
-----------------------------------------------------------------------------
LEMMA Places == ASSUME NEW s \in Seq(Nat)
                PROVE  /\ DOMAIN s = 1..Len(s) /\ Len(s) \in Nat
                       /\ \A i \in 1..Len(s) : s[i] \in Nat
                       /\ \A x : x \in ToSet(s) <=> \E i \in 1..Len(s) : s[i] = x
                       /\ IsInjective(s) <=> \A i, j \in 1..Len(s) : s[i] = s[j] => i = j
BY SMTT(60) DEF ToSet, IsInjective

\* without the element at k
LEMMA TakenOut ==
  ASSUME NEW s \in Seq(Nat), IsInjective(s), NEW k \in 1..Len(s), NEW t, t = RemoveAt(s, k)
  PROVE  /\ t \in Seq(Nat) /\ IsInjective(t) /\ ToSet(t) = ToSet(s) \ {s[k]}
         /\ \A x, y \in ToSet(t) : Older(s, x, y) => Older(t, x, y)
<1>0. PICK n \in Nat : n = Len(s)
  OBVIOUS
<1>1. /\ SubSeq(s, 1, k - 1) \in Seq(Nat) /\ SubSeq(s, k + 1, n) \in Seq(Nat)
      /\ Len(SubSeq(s, 1, k - 1)) = k - 1 /\ Len(SubSeq(s, k + 1, n)) = n - k
      /\ \A i \in 1..k - 1 : SubSeq(s, 1, k - 1)[i] = s[i]
      /\ \A i \in 1..n - k : SubSeq(s, k + 1, n)[i] = s[k + i]
  <2>1. k \in Nat /\ k >= 1 /\ k <= n
    BY <1>0
  <2>2. \A i \in 1..n : s[i] \in Nat
    BY <1>0, Places
  <2>3. /\ SubSeq(s, 1, k - 1) \in Seq(Nat) /\ Len(SubSeq(s, 1, k - 1)) = k - 1
        /\ \A i \in 1..k - 1 : SubSeq(s, 1, k - 1)[i] = s[i]
    <3>1. \A i \in 1..k - 1 : s[i] \in Nat
      BY <2>1, <2>2
    <3>2. /\ SubSeq(s, 1, k - 1) \in Seq(Nat)
          /\ Len(SubSeq(s, 1, k - 1)) = IF 1 <= k - 1 THEN k - 1 - 1 + 1 ELSE 0
          /\ \A i \in 1..k - 1 - 1 + 1 : SubSeq(s, 1, k - 1)[i] = s[1 + i - 1]
      BY <2>1, <3>1, SubSeqProperties
    <3> QED
      BY <2>1, <3>2
  <2>4. /\ SubSeq(s, k + 1, n) \in Seq(Nat) /\ Len(SubSeq(s, k + 1, n)) = n - k
        /\ \A i \in 1..n - k : SubSeq(s, k + 1, n)[i] = s[k + i]
    <3>1. \A i \in k + 1..n : s[i] \in Nat
      BY <2>1, <2>2
    <3>2. /\ SubSeq(s, k + 1, n) \in Seq(Nat)
          /\ Len(SubSeq(s, k + 1, n)) = IF k + 1 <= n THEN n - (k + 1) + 1 ELSE 0
          /\ \A i \in 1..n - (k + 1) + 1 : SubSeq(s, k + 1, n)[i] = s[(k + 1) + i - 1]
      BY <2>1, <3>1, SubSeqProperties
    <3> QED
      BY <2>1, <3>2
  <2> QED
    BY <2>3, <2>4
<1>2. /\ t \in Seq(Nat) /\ Len(t) = n - 1
      /\ \A i \in 1..n - 1 : t[i] = IF i < k THEN s[i] ELSE s[i + 1]
  <2>1. t = SubSeq(s, 1, k - 1) \o SubSeq(s, k + 1, n)
    BY <1>0 DEF RemoveAt
  <2>2. PICK u \in Seq(Nat) : u = SubSeq(s, 1, k - 1)
    BY <1>1
  <2>3. PICK v \in Seq(Nat) : v = SubSeq(s, k + 1, n)
    BY <1>1
  <2>4. t \in Seq(Nat) /\ Len(t) = Len(u) + Len(v)
        /\ \A i \in 1..Len(u) + Len(v) : t[i] = IF i <= Len(u) THEN u[i] ELSE v[i - Len(u)]
    BY <2>1, <2>2, <2>3, ConcatProperties
  <2>5. Len(u) = k - 1 /\ Len(v) = n - k
    BY <1>1, <2>2, <2>3
  <2>6. Len(t) = n - 1
    BY <1>0, <2>4, <2>5
  <2>7. ASSUME NEW i \in 1..n - 1 PROVE t[i] = IF i < k THEN s[i] ELSE s[i + 1]
    <3>1. CASE i < k
      <4>1. i \in 1..Len(u) + Len(v) /\ i <= Len(u) /\ i \in 1..k - 1
        BY <1>0, <2>5, <3>1
      <4> QED
        BY <1>1, <2>2, <2>4, <3>1, <4>1
    <3>2. CASE ~(i < k)
      <4>1. i \in 1..Len(u) + Len(v) /\ ~(i <= Len(u)) /\ i - Len(u) \in 1..n - k /\ k + (i - Len(u)) = i + 1
        BY <1>0, <2>5, <3>2
      <4> QED
        BY <1>1, <2>3, <2>4, <3>2, <4>1
    <3> QED
      BY <3>1, <3>2
  <2> QED
    BY <2>4, <2>6, <2>7
\* the place in t of the element at i
<1> DEFINE NewAt(i) == IF i < k THEN i ELSE i - 1
           From(i) == IF i < k THEN i ELSE i + 1
<1>3. \A i \in 1..n : i # k => NewAt(i) \in 1..n - 1 /\ t[NewAt(i)] = s[i]
  BY SMTT(60), <1>0, <1>2
<1>4. \A i \in 1..n - 1 : From(i) \in 1..n /\ From(i) # k /\ t[i] = s[From(i)]
  BY SMTT(60), <1>0, <1>2
<1>5. \A i, j \in 1..n - 1 : From(i) = From(j) => i = j
  BY <1>0
<1>6. \A i, j \in 1..n : i # k /\ j # k /\ i < j => NewAt(i) < NewAt(j)
  BY <1>0
<1>7. \A i, j \in 1..n : s[i] = s[j] => i = j
  BY <1>0, Places
<1> HIDE DEF NewAt, From
<1>8. IsInjective(t)
  <2>1. ASSUME NEW i \in 1..n - 1, NEW j \in 1..n - 1, t[i] = t[j] PROVE i = j
    <3>1. s[From(i)] = s[From(j)] /\ From(i) \in 1..n /\ From(j) \in 1..n
      BY <1>4, <2>1
    <3>2. From(i) = From(j)
      BY <1>7, <3>1
    <3> QED
      BY <1>5, <3>2
  <2> QED
    BY <1>2, <2>1, Places
<1>9. ToSet(t) = ToSet(s) \ {s[k]}
  <2>1. ASSUME NEW x \in ToSet(t) PROVE x \in ToSet(s) /\ x # s[k]
    <3>1. PICK i \in 1..n - 1 : t[i] = x
      BY <1>2, Places
    <3> QED
      BY <1>0, <1>4, <1>7, <3>1, Places
  <2>2. ASSUME NEW x \in ToSet(s), x # s[k] PROVE x \in ToSet(t)
    <3>1. PICK i \in 1..n : s[i] = x
      BY <1>0, Places
    <3>2. NewAt(i) \in 1..n - 1 /\ t[NewAt(i)] = x
      BY <1>3, <2>2, <3>1
    <3> QED
      BY <1>2, <3>2, Places
  <2> QED
    BY <2>1, <2>2
<1>10. ASSUME NEW x \in ToSet(t), NEW y \in ToSet(t), Older(s, x, y) PROVE Older(t, x, y)
  <2>1. PICK i, j \in 1..n : i < j /\ s[i] = x /\ s[j] = y
    BY <1>0, <1>10 DEF Older
  <2>2. i # k /\ j # k
    BY <1>9, <2>1
  <2>3. /\ NewAt(i) \in 1..n - 1 /\ NewAt(j) \in 1..n - 1 /\ NewAt(i) < NewAt(j)
        /\ t[NewAt(i)] = x /\ t[NewAt(j)] = y
    BY <1>3, <1>6, <2>1, <2>2
  <2> QED
    BY <1>2, <2>3 DEF Older
<1> QED
  BY <1>2, <1>8, <1>9, <1>10

LEMMA PutLast ==
  ASSUME NEW s \in Seq(Nat), IsInjective(s), NEW f \in Nat, f \notin ToSet(s), NEW t, t = Append(s, f)
  PROVE  /\ t \in Seq(Nat) /\ IsInjective(t) /\ ToSet(t) = ToSet(s) \cup {f}
         /\ \A x, y : Older(s, x, y) => Older(t, x, y)
         /\ \A x \in ToSet(s) : Older(t, x, f)
<1>0. PICK n \in Nat : n = Len(s)
  OBVIOUS
<1>1. /\ t \in Seq(Nat) /\ Len(t) = n + 1 /\ t[n + 1] = f /\ \A i \in 1..n : t[i] = s[i]
  BY <1>0, AppendProperties
<1>2. \A i \in 1..n + 1 : i \in 1..n \/ i = n + 1
  BY <1>0
<1>3. n + 1 \in 1..n + 1 /\ \A i \in 1..n : i \in 1..n + 1 /\ i < n + 1
  BY <1>0
<1>4. /\ \A i, j \in 1..n : s[i] = s[j] => i = j
      /\ \A i \in 1..n : s[i] # f
  BY <1>0, Places
<1>5. IsInjective(t)
  <2>1. \A i, j \in 1..n + 1 : t[i] = t[j] => i = j
    BY <1>1, <1>2, <1>4
  <2> QED
    BY <1>1, <2>1, Places
<1>6. \A x : x \in ToSet(t) <=> x \in ToSet(s) \cup {f}
  <2>0. \A x : x \in ToSet(t) <=> \E i \in 1..Len(t) : t[i] = x
    BY <1>1, Places
  <2>1. \A x : x \in ToSet(t) <=> \E i \in 1..n + 1 : t[i] = x
    BY <1>1, <2>0
  <2>2. \A x : x \in ToSet(s) <=> \E i \in 1..n : s[i] = x
    BY <1>0, Places
  <2> QED
    BY <1>1, <1>2, <1>3, <2>1, <2>2
<1>7. ASSUME NEW x, NEW y, Older(s, x, y) PROVE Older(t, x, y)
  <2>1. PICK i, j \in 1..n : i < j /\ s[i] = x /\ s[j] = y
    BY <1>0, <1>7 DEF Older
  <2> QED
    BY <1>1, <1>3, <2>1 DEF Older
<1>8. ASSUME NEW x \in ToSet(s) PROVE Older(t, x, f)
  <2>1. PICK i \in 1..n : s[i] = x
    BY <1>0, Places
  <2> QED
    BY <1>1, <1>3, <2>1 DEF Older
<1>9. ToSet(t) = ToSet(s) \cup {f}
  BY <1>6
<1> QED
  BY <1>1, <1>5, <1>7, <1>8, <1>9

LEMMA FirstOnes ==
  ASSUME NEW s \in Seq(Nat), IsInjective(s), NEW k \in 0..Len(s), NEW t, t = SubSeq(s, 1, k)
  PROVE  /\ t \in Seq(Nat) /\ ToSet(t) \subseteq ToSet(s)
         /\ \A x \in ToSet(t) : \A y \in ToSet(s) \ ToSet(t) : Older(s, x, y)
         /\ IsFiniteSet(ToSet(s) \ ToSet(t)) => Cardinality(ToSet(s) \ ToSet(t)) >= Len(s) - k
<1>0. PICK n \in Nat : n = Len(s) /\ k \in 0..n
  OBVIOUS
<1>1. /\ t \in Seq(Nat) /\ Len(t) = k /\ \A i \in 1..k : t[i] = s[i]
  <2>1. \A i \in 1..k : s[i] \in Nat
    BY <1>0, Places
  <2>2. /\ t \in Seq(Nat) /\ Len(t) = IF 1 <= k THEN k - 1 + 1 ELSE 0
        /\ \A i \in 1..k - 1 + 1 : t[i] = s[1 + i - 1]
    BY <1>0, <2>1, SubSeqProperties
  <2> QED
    BY <1>0, <2>2
<1>2. \A x : x \in ToSet(t) <=> \E i \in 1..k : s[i] = x
  <2>1. \A x : x \in ToSet(t) <=> \E i \in 1..Len(t) : t[i] = x
    BY <1>1, Places
  <2>2. \A x : x \in ToSet(t) <=> \E i \in 1..k : t[i] = x
    BY <1>1, <2>1
  <2> QED
    BY <1>1, <2>2
<1>3. \A x : x \in ToSet(s) <=> \E i \in 1..n : s[i] = x
  BY <1>0, Places
<1>4. \A i, j \in 1..n : s[i] = s[j] => i = j
  BY <1>0, Places
<1>5. \A i \in 1..k : i \in 1..n
  BY <1>0
<1>6. ToSet(t) \subseteq ToSet(s)
  BY <1>2, <1>3, <1>5
<1>7. ASSUME NEW x \in ToSet(t), NEW y \in ToSet(s) \ ToSet(t) PROVE Older(s, x, y)
  <2>1. PICK i \in 1..k : s[i] = x
    BY <1>2
  <2>2. PICK j \in 1..n : s[j] = y
    BY <1>3
  <2>3. j \notin 1..k
    BY <1>2, <2>2
  <2>4. i < j
    BY <1>0, <2>3
  <2> QED
    BY <1>0, <1>5, <2>1, <2>2, <2>4 DEF Older
<1>8. ASSUME IsFiniteSet(ToSet(s) \ ToSet(t)) PROVE Cardinality(ToSet(s) \ ToSet(t)) >= n - k
  <2>1. PICK R : R = ToSet(s) \ ToSet(t)
    OBVIOUS
  <2>2. PICK g : g = [i \in k + 1..n |-> s[i]]
    OBVIOUS
  <2>3. \A i \in k + 1..n : i \in 1..n /\ i \notin 1..k
    BY <1>0
  <2>4. \A i \in k + 1..n : g[i] \in R
    <3>1. ASSUME NEW i \in k + 1..n PROVE s[i] \in R
      <4>1. s[i] \in ToSet(s)
        BY <1>3, <2>3
      <4>2. s[i] \notin ToSet(t)
        BY <1>2, <1>4, <1>5, <2>3
      <4> QED
        BY <2>1, <4>1, <4>2
    <3> QED
      BY <2>2, <3>1
  <2>5. \A i, j \in k + 1..n : g[i] = g[j] => i = j
    BY <1>4, <2>2, <2>3
  <2>6. g \in Injection(k + 1..n, R)
    BY <2>2, <2>4, <2>5 DEF Injection, IsInjective
  <2>7. IsFiniteSet(R)
    BY <1>8, <2>1
  <2>8. Cardinality(k + 1..n) <= Cardinality(R)
    BY <2>6, <2>7, FS_Injection
  <2>9. Cardinality(k + 1..n) = n - k
    <3>1. k + 1 \in Int /\ n \in Int
      BY <1>0
    <3>2. Cardinality(k + 1..n) = IF k + 1 > n THEN 0 ELSE n - (k + 1) + 1
      BY <3>1, FS_Interval
    <3> QED
      BY <1>0, <3>2
  <2>10. Cardinality(R) \in Nat
    BY <2>7, FS_CardinalityType
  <2> QED
    BY <1>0, <2>1, <2>8, <2>9, <2>10
<1> QED
  BY <1>0, <1>1, <1>6, <1>7, <1>8

LEMMA OlderOnce ==
  ASSUME NEW s \in Seq(Nat), IsInjective(s), NEW x, NEW y, Older(s, x, y), Older(s, y, x)
  PROVE  FALSE
<1>1. PICK i, j \in 1..Len(s) : i < j /\ s[i] = x /\ s[j] = y
  BY DEF Older
<1>2. PICK k, l \in 1..Len(s) : k < l /\ s[k] = y /\ s[l] = x
  BY DEF Older
<1>3. i = l /\ j = k
  BY <1>1, <1>2, Places
<1> QED
  BY <1>1, <1>2, <1>3
-----------------------------------------------------------------------------
LEMMA WithoutIs ==
  ASSUME RotationTypes, NEW f
  PROVE  /\ Without(f) \in Seq(Nat) /\ IsInjective(Without(f)) /\ ToSet(Without(f)) = Present \ {f}
         /\ \A x, y \in Present \ {f} : Older(order, x, y) => Older(Without(f), x, y)
<1>0. order \in Seq(Nat) /\ IsInjective(order)
  BY DEF RotationTypes
<1>1. CASE f \notin Present
  <2>1. Without(f) = order /\ Present \ {f} = Present
    BY <1>1 DEF Without
  <2> QED
    BY <1>0, <2>1 DEF Present
<1>2. CASE f \in Present
  <2>1. \E i \in 1..Len(order) : order[i] = f
    BY <1>0, <1>2, Places DEF Present
  <2>2. PICK k : k = PlaceOf(f)
    OBVIOUS
  <2>3. k \in 1..Len(order) /\ order[k] = f
    BY <1>0, <2>1, <2>2, Places DEF PlaceOf
  <2>4. PICK t : t = Without(f)
    OBVIOUS
  <2>5. t = RemoveAt(order, k)
    BY <1>2, <2>2, <2>4 DEF Without
  <2>6. /\ t \in Seq(Nat) /\ IsInjective(t) /\ ToSet(t) = ToSet(order) \ {f}
        /\ \A x, y \in ToSet(t) : Older(order, x, y) => Older(t, x, y)
    BY <1>0, <2>3, <2>5, TakenOut
  <2> QED
    BY <2>4, <2>6 DEF Present
<1> QED
  BY <1>1, <1>2

Others(m) == {maker[n].file : n \in {k \in Makers \ {m} : IsUnfinished(k)}}

LEMMA UnfinishedParts ==
  ASSUME RotationTypes, NEW m \in Makers
  PROVE  /\ IsUnfinished(m) => Unfinished = Others(m) \cup {maker[m].file}
         /\ ~IsUnfinished(m) => Unfinished = Others(m)
         /\ Unfinished \subseteq 1..copies /\ Others(m) \subseteq Unfinished
         /\ FilesApart /\ IsUnfinished(m) => maker[m].file \notin Others(m)
<1>1. Unfinished = {maker[n].file : n \in {k \in Makers : IsUnfinished(k)}}
  BY DEF Unfinished, IsUnfinished, UnfinishedStates
<1>2. Unfinished \subseteq 1..copies
  BY <1>1 DEF RotationTypes, IsUnfinished, UnfinishedStates
<1> QED
  BY <1>1, <1>2 DEF Others, FilesApart

LEMMA MakerMoves ==
  ASSUME RotationTypes, NEW m \in Makers, NEW s \in MakerState, maker' = [maker EXCEPT ![m] = s]
  PROVE  /\ maker'[m] = s /\ \A n \in Makers \ {m} : maker'[n] = maker[n]
         /\ maker' \in [Makers -> MakerState]
         /\ s.at \in UnfinishedStates => Unfinished' = Others(m) \cup {s.file}
         /\ s.at \notin UnfinishedStates => Unfinished' = Others(m)
         /\ Listed(m)' = ToSet(s.old) /\ \A n \in Makers \ {m} : Listed(n)' = Listed(n)
         /\ Doomed' \subseteq Doomed \cup ToSet(s.old)
<1>1. /\ maker'[m] = s /\ \A n \in Makers \ {m} : maker'[n] = maker[n]
      /\ maker' \in [Makers -> MakerState]
  BY DEF RotationTypes
<1>2. Unfinished' = {maker'[n].file : n \in {k \in Makers : maker'[k].at \in UnfinishedStates}}
  BY DEF Unfinished, UnfinishedStates
<1>3. Others(m) = {maker[n].file : n \in {k \in Makers \ {m} : maker[k].at \in UnfinishedStates}}
  BY DEF Others, IsUnfinished
<1>4. /\ s.at \in UnfinishedStates => Unfinished' = Others(m) \cup {s.file}
      /\ s.at \notin UnfinishedStates => Unfinished' = Others(m)
  BY <1>1, <1>2, <1>3
<1>5. Listed(m)' = ToSet(s.old) /\ \A n \in Makers \ {m} : Listed(n)' = Listed(n)
  BY <1>1 DEF Listed
<1>6. Doomed' \subseteq Doomed \cup ToSet(s.old)
  BY <1>5 DEF Doomed
<1> QED
  BY <1>1, <1>4, <1>5, <1>6

LEMMA ApartKept ==
  ASSUME FilesApart, NEW m \in Makers, NEW s, maker'[m] = s,
         \A n \in Makers \ {m} : maker'[n] = maker[n],
         s.at \in UnfinishedStates => s.file \notin Others(m), Unfinished' \cap verified' = {}
  PROVE  FilesApart'
<1>1. \A n \in Makers \ {m} : IsUnfinished(n)' <=> IsUnfinished(n)
  BY DEF IsUnfinished
<1>2. IsUnfinished(m)' <=> s.at \in UnfinishedStates
  BY DEF IsUnfinished
<1>3. ASSUME NEW k \in Makers, NEW n \in Makers, k # n, IsUnfinished(k)', IsUnfinished(n)'
      PROVE  maker'[k].file # maker'[n].file
  <2>1. CASE k = m
    BY <1>1, <1>2, <1>3, <2>1 DEF Others
  <2>2. CASE n = m
    BY <1>1, <1>2, <1>3, <2>2 DEF Others
  <2>3. CASE k # m /\ n # m
    BY <1>1, <1>3, <2>3 DEF FilesApart
  <2> QED
    BY <2>1, <2>2, <2>3
<1> QED
  BY <1>3 DEF FilesApart

LEMMA SafeKept ==
  ASSUME RotationTypes', EnoughSafe, Safe \subseteq Safe', Unfinished' \subseteq 1..copies',
         Doomed' # {} \/ ~(verified' \subseteq whole') => Doomed # {} \/ ~(verified \subseteq whole)
  PROVE  EnoughSafe'
<1>1. IsFiniteSet(1..copies')
  BY FS_Interval DEF RotationTypes
<1>2. IsFiniteSet(Safe') /\ Cardinality(Safe') \in Nat
  <2>1. Safe' \subseteq 1..copies'
    BY DEF Safe, RotationTypes
  <2> QED
    BY <1>1, <2>1, FS_Subset, FS_CardinalityType
<1>3. Cardinality(Safe) <= Cardinality(Safe') /\ Cardinality(Safe) \in Nat
  BY <1>2, FS_Subset, FS_CardinalityType
<1>4. Doomed' # {} \/ ~(verified' \subseteq whole') => Cardinality(Safe) >= KeepCopies
  BY DEF EnoughSafe
<1>5. KeepCopies \in Nat
  BY RotationAssumption
<1>6. Doomed' # {} \/ ~(verified' \subseteq whole') => Cardinality(Safe') >= KeepCopies
  BY <1>2, <1>3, <1>4, <1>5
<1> QED
  BY <1>6 DEF EnoughSafe

\* The files that are verified keep their places among those that are there.
Ordered ==
  \A x \in verified \cap Present' : \A y \in Present' :
    /\ x \in Present
    /\ Older(order', x, y) \/ (y \in Present /\ (Older(order, x, y) => Older(order', x, y)))
LEMMA ListsKept ==
  ASSUME OldestListed, Ordered, verified \cup wasted \subseteq verified' \cup wasted', wasted \subseteq wasted',
         \A n \in Makers : \/ Listed(n)' = {}
                           \/ /\ Listed(n)' \subseteq Listed(n)
                              /\ Listed(n) \cap Present' \subseteq Listed(n)'
  PROVE  OldestListed'
<1> SUFFICES ASSUME NEW n \in Makers
             PROVE  /\ Listed(n)' \subseteq verified' \cup wasted'
                    /\ \A x \in (Listed(n)' \cap Present') \ wasted' :
                         \A y \in Present' \ (Listed(n)' \cup wasted') : Older(order', x, y)
  BY DEF OldestListed
<1>1. CASE Listed(n)' = {}
  BY <1>1
<1>2. CASE Listed(n)' \subseteq Listed(n) /\ Listed(n) \cap Present' \subseteq Listed(n)'
  <2>1. Listed(n) \subseteq verified \cup wasted
    BY DEF OldestListed
  <2>2. ASSUME NEW x \in (Listed(n)' \cap Present') \ wasted',
               NEW y \in Present' \ (Listed(n)' \cup wasted')
        PROVE  Older(order', x, y)
    <3>1. x \in verified /\ x \in Present /\ x \in Listed(n) /\ x \notin wasted
      BY <1>2, <2>1, <2>2 DEF Ordered
    <3>2. y \notin Listed(n) /\ y \notin wasted
      BY <1>2, <2>2
    <3>3. y \in Present => Older(order, x, y)
      BY <3>1, <3>2 DEF OldestListed
    <3>4. Older(order', x, y) \/ (y \in Present /\ (Older(order, x, y) => Older(order', x, y)))
      BY <2>2, <3>1 DEF Ordered
    <3> QED
      BY <3>3, <3>4
  <2> QED
    BY <1>2, <2>1, <2>2
<1> QED
  BY <1>1, <1>2

LEMMA RotationFacts ==
  ASSUME RotationInv, NEW m \in Makers
  PROVE  /\ RotationTypes /\ FilesApart /\ FilesKnown /\ OldestListed /\ EnoughSafe
         /\ maker[m] \in MakerState /\ copies \in Nat /\ MaxCopies \in Nat /\ KeepCopies \in Nat
         /\ maker[m].at # "idle" => maker[m].file \in 1..copies
         /\ IsUnfinished(m) => Unfinished = Others(m) \cup {maker[m].file}
         /\ ~IsUnfinished(m) => Unfinished = Others(m)
         /\ Unfinished \subseteq 1..copies /\ Others(m) \subseteq Unfinished
         /\ Unfinished \cap verified = {}
         /\ IsUnfinished(m) => maker[m].file \notin Others(m)
<1>1. RotationTypes /\ FilesApart /\ FilesKnown /\ OldestListed /\ EnoughSafe
  BY DEF RotationInv
<1>2. /\ maker[m] \in MakerState /\ copies \in Nat /\ MaxCopies \in Nat /\ KeepCopies \in Nat
      /\ maker[m].at # "idle" => maker[m].file \in 1..copies
  BY <1>1, RotationAssumption DEF RotationTypes
<1> QED
  BY <1>1, <1>2, UnfinishedParts DEF FilesApart

LEMMA RotationInitInv == RotationInit => RotationInv
<1> SUFFICES ASSUME RotationInit PROVE RotationInv
  OBVIOUS
<1>1. /\ order = <<>> /\ whole = {} /\ copies = 0 /\ verified = {} /\ wasted = {}
      /\ maker = [m \in Makers |-> Resting]
  BY DEF RotationInit
<1>2. Resting \in MakerState /\ Resting.at = "idle" /\ Resting.old = <<>>
  BY DEF Resting, MakerState
<1>3. <<>> \in Seq(Nat) /\ ToSet(<<>>) = {} /\ IsInjective(<<>>)
  BY DEF ToSet, IsInjective
<1>4. RotationTypes
  BY <1>1, <1>2, <1>3, RotationAssumption DEF RotationTypes, Present
<1>5. \A m \in Makers : ~IsUnfinished(m) /\ Listed(m) = {}
  BY <1>1, <1>2, <1>3 DEF IsUnfinished, UnfinishedStates, Listed
<1>6. FilesApart /\ FilesKnown
  BY <1>1, <1>3, <1>5 DEF FilesApart, FilesKnown, Present
<1>7. OldestListed /\ Doomed = {}
  BY <1>5 DEF OldestListed, Doomed
<1>8. EnoughSafe
  BY <1>1, <1>7 DEF EnoughSafe
<1> QED
  BY <1>4, <1>6, <1>7, <1>8 DEF RotationInv

LEMMA MakeFileInv ==
  ASSUME RotationInv, NEW m \in Makers, MakeFile(m)
  PROVE  RotationInv'
<1>0. /\ RotationTypes /\ FilesApart /\ FilesKnown /\ OldestListed /\ EnoughSafe
      /\ copies \in Nat /\ MaxCopies \in Nat
      /\ ~IsUnfinished(m) => Unfinished = Others(m)
      /\ Unfinished \subseteq 1..copies /\ Unfinished \cap verified = {}
  BY RotationFacts
<1>1. PICK c : c = copies + 1
  OBVIOUS
<1>2. PICK s : s = [at |-> "copy", file |-> c, old |-> <<>>]
  OBVIOUS
<1>3. /\ copies' = c /\ maker' = [maker EXCEPT ![m] = s] /\ order' = Append(order, c)
      /\ maker[m].at = "idle" /\ copies < MaxCopies /\ UNCHANGED <<whole, verified, wasted>>
  BY <1>1, <1>2 DEF MakeFile
<1>4. c \in Nat /\ c \in 1..c /\ c \notin 1..copies /\ 1..copies \subseteq 1..c /\ c \in 0..MaxCopies
  BY <1>0, <1>1, <1>3
<1>5. s \in MakerState /\ s.at = "copy" /\ s.file = c /\ s.old = <<>> /\ s.at \in UnfinishedStates
  BY <1>2, <1>4 DEF MakerState, UnfinishedStates
<1>6. ToSet(s.old) = {}
  BY <1>5 DEF ToSet
<1>7. /\ maker'[m] = s /\ \A n \in Makers \ {m} : maker'[n] = maker[n]
      /\ maker' \in [Makers -> MakerState] /\ Unfinished' = Others(m) \cup {c}
      /\ Listed(m)' = {} /\ \A n \in Makers \ {m} : Listed(n)' = Listed(n)
      /\ Doomed' \subseteq Doomed
  BY <1>0, <1>3, <1>5, <1>6, MakerMoves
<1>8. Unfinished = Others(m)
  BY <1>0, <1>3 DEF IsUnfinished, UnfinishedStates
<1>9. order \in Seq(Nat) /\ IsInjective(order) /\ c \notin ToSet(order)
  BY <1>0, <1>4 DEF RotationTypes, Present
<1>10. /\ order' \in Seq(Nat) /\ IsInjective(order') /\ Present' = Present \cup {c}
       /\ \A x, y : Older(order, x, y) => Older(order', x, y)
       /\ \A x \in Present : Older(order', x, c)
  BY <1>3, <1>4, <1>9, PutLast DEF Present
<1>11. RotationTypes'
  BY <1>0, <1>3, <1>4, <1>5, <1>7, <1>10 DEF RotationTypes
<1>12. c \notin verified /\ c \notin Others(m) /\ c \notin Present
  BY <1>0, <1>4, <1>8, <1>9 DEF RotationTypes, Present
<1>13. FilesApart'
  BY <1>0, <1>3, <1>5, <1>7, <1>8, <1>12, ApartKept
<1>14. FilesKnown'
  BY <1>0, <1>3, <1>7, <1>8, <1>10, <1>12 DEF FilesKnown
<1>15. Ordered
  BY <1>10, <1>12 DEF Ordered
<1>16. OldestListed'
  BY <1>0, <1>3, <1>7, <1>15, ListsKept
<1>17. Safe \subseteq Safe' /\ Unfinished' \subseteq 1..copies'
  BY <1>0, <1>3, <1>4, <1>7, <1>8 DEF Safe
<1>18. EnoughSafe'
  BY <1>0, <1>3, <1>7, <1>11, <1>17, SafeKept
<1> QED
  BY <1>11, <1>13, <1>14, <1>16, <1>18 DEF RotationInv

LEMMA CopyDatabaseInv ==
  ASSUME RotationInv, NEW m \in Makers, CopyDatabase(m)
  PROVE  RotationInv'
<1>0. /\ RotationTypes /\ FilesApart /\ FilesKnown /\ OldestListed /\ EnoughSafe
      /\ maker[m] \in MakerState
      /\ maker[m].at # "idle" => maker[m].file \in 1..copies
      /\ IsUnfinished(m) => Unfinished = Others(m) \cup {maker[m].file}
      /\ Unfinished \subseteq 1..copies /\ Unfinished \cap verified = {}
      /\ IsUnfinished(m) => maker[m].file \notin Others(m)
  BY RotationFacts
<1>1. PICK o \in MakerState : o = maker[m]
  BY <1>0
<1>2. PICK f : f = o.file
  OBVIOUS
<1>3. PICK s : s = [o EXCEPT !.at = "check"]
  OBVIOUS
<1>4. /\ s \in MakerState /\ s.at = "check" /\ s.file = f /\ s.old = o.old /\ s.at \in UnfinishedStates
  BY <1>2, <1>3 DEF MakerState, UnfinishedStates
<1>5. /\ maker' = [maker EXCEPT ![m] = s] /\ o.at = "copy" /\ UNCHANGED <<copies, verified, wasted>>
      /\ \/ order' = Append(Without(f), f) /\ whole' \in {whole, whole \cup {f}}
         \/ UNCHANGED <<order, whole>>
  BY <1>1, <1>2, <1>3 DEF CopyDatabase, To
<1>6. /\ f \in 1..copies /\ Unfinished = Others(m) \cup {f} /\ f \notin Others(m) /\ f \notin verified
  BY <1>0, <1>1, <1>2, <1>5 DEF IsUnfinished, UnfinishedStates
<1>7. /\ maker'[m] = s /\ \A n \in Makers \ {m} : maker'[n] = maker[n]
      /\ maker' \in [Makers -> MakerState] /\ Unfinished' = Unfinished
      /\ \A n \in Makers : Listed(n)' = Listed(n)
  <2>1. /\ maker'[m] = s /\ \A n \in Makers \ {m} : maker'[n] = maker[n]
        /\ maker' \in [Makers -> MakerState] /\ Unfinished' = Others(m) \cup {f}
        /\ Listed(m)' = ToSet(o.old) /\ \A n \in Makers \ {m} : Listed(n)' = Listed(n)
    BY ZenonT(60), <1>0, <1>4, <1>5, MakerMoves
  <2> QED
    BY <1>1, <1>6, <2>1 DEF Listed
<1>8. Doomed' = Doomed
  BY <1>7 DEF Doomed
<1>9. f \in Nat /\ order \in Seq(Nat) /\ IsInjective(order) /\ Present \subseteq 1..copies /\ whole \subseteq Present
  BY <1>0, <1>6 DEF RotationTypes
<1>10. /\ order' \in Seq(Nat) /\ IsInjective(order') /\ Present' \in {Present, Present \cup {f}}
       /\ whole' \in {whole, whole \cup {f}} /\ whole' \subseteq Present' /\ Ordered
  <2>1. CASE UNCHANGED <<order, whole>>
    <3>1. Present' = Present
      BY <2>1 DEF Present
    <3> QED
      BY <1>9, <2>1, <3>1 DEF Ordered
  <2>2. CASE order' = Append(Without(f), f) /\ whole' \in {whole, whole \cup {f}}
    <3>1. PICK t : t = Without(f)
      OBVIOUS
    <3>2. /\ t \in Seq(Nat) /\ IsInjective(t) /\ ToSet(t) = Present \ {f}
          /\ \A x, y \in Present \ {f} : Older(order, x, y) => Older(t, x, y)
      BY <1>0, <3>1, WithoutIs
    <3>3. PICK u : u = Append(t, f)
      OBVIOUS
    <3>4. /\ u \in Seq(Nat) /\ IsInjective(u) /\ ToSet(u) = ToSet(t) \cup {f}
          /\ \A x, y : Older(t, x, y) => Older(u, x, y)
          /\ \A x \in ToSet(t) : Older(u, x, f)
      BY <1>9, <3>2, <3>3, PutLast
    <3>5. order' = u /\ Present' = Present \cup {f}
      BY <2>2, <3>1, <3>2, <3>3, <3>4 DEF Present
    <3>6. Ordered
      BY <1>6, <3>2, <3>4, <3>5 DEF Ordered
    <3> QED
      BY <1>9, <2>2, <3>4, <3>5, <3>6
  <2> QED
    BY <1>5, <2>1, <2>2
<1>11. Present' \subseteq 1..copies' /\ copies' = copies
  BY <1>5, <1>6, <1>9, <1>10
<1>12. \A n \in Makers : maker'[n].at # "idle" => maker'[n].file \in 1..copies'
  BY <1>0, <1>4, <1>6, <1>7, <1>11 DEF RotationTypes
<1>13. RotationTypes'
  BY <1>0, <1>5, <1>7, <1>10, <1>11, <1>12 DEF RotationTypes
<1>14. FilesApart'
  BY <1>0, <1>4, <1>5, <1>6, <1>7, ApartKept
<1>15. FilesKnown'
  BY <1>0, <1>5, <1>6, <1>7, <1>10 DEF FilesKnown
<1>16. OldestListed'
  BY <1>0, <1>5, <1>7, <1>10, ListsKept
<1>17. Safe \subseteq Safe' /\ Unfinished' \subseteq 1..copies'
  BY <1>0, <1>5, <1>7, <1>8, <1>10 DEF Safe
<1>18. EnoughSafe'
  BY <1>0, <1>5, <1>8, <1>10, <1>13, <1>17, SafeKept
<1> QED
  BY <1>13, <1>14, <1>15, <1>16, <1>18 DEF RotationInv
-----------------------------------------------------------------------------
\* order without f, or as it is, keeps the files in order
LEMMA TakenOrdered ==
  ASSUME RotationTypes, NEW f, order' = Without(f) \/ order' = order
  PROVE  /\ order' \in Seq(Nat) /\ IsInjective(order') /\ Ordered
         /\ order' = Without(f) => Present' = Present \ {f}
         /\ order' = order => Present' = Present
<1>1. CASE order' = order
  <2>1. Present' = Present
    BY <1>1 DEF Present
  <2>2. order' = Without(f) => f \notin Present
    BY <1>1, <2>1, WithoutIs DEF Present
  <2> QED
    BY <1>1, <2>1, <2>2 DEF Ordered, RotationTypes
<1>2. CASE order' = Without(f)
  <2>1. PICK t : t = Without(f)
    OBVIOUS
  <2>2. /\ t \in Seq(Nat) /\ IsInjective(t) /\ ToSet(t) = Present \ {f}
        /\ \A x, y \in Present \ {f} : Older(order, x, y) => Older(t, x, y)
    BY <2>1, WithoutIs
  <2>3. order' = t /\ Present' = Present \ {f}
    BY <1>2, <2>1, <2>2 DEF Present
  <2>4. order' = order => Present' = Present
    BY DEF Present
  <2> QED
    BY <2>2, <2>3, <2>4 DEF Ordered
<1> QED
  BY <1>1, <1>2

LEMMA RestingTyped == Resting \in MakerState /\ Resting.at = "idle" /\ ToSet(Resting.old) = {}
                      /\ Resting.at \notin UnfinishedStates
BY DEF Resting, MakerState, UnfinishedStates, ToSet

LEMMA GiveUpCopyInv ==
  ASSUME RotationInv, NEW m \in Makers, GiveUpCopy(m)
  PROVE  RotationInv'
<1>0. /\ RotationTypes /\ FilesApart /\ FilesKnown /\ OldestListed /\ EnoughSafe
      /\ maker[m].at # "idle" => maker[m].file \in 1..copies
      /\ IsUnfinished(m) => Unfinished = Others(m) \cup {maker[m].file}
      /\ Unfinished \subseteq 1..copies /\ Unfinished \cap verified = {}
      /\ IsUnfinished(m) => maker[m].file \notin Others(m)
  BY RotationFacts
<1>1. PICK f : f = maker[m].file
  OBVIOUS
<1>2. /\ maker' = [maker EXCEPT ![m] = Resting] /\ maker[m].at \in {"copy", "check"}
      /\ wasted' = wasted \cup {f} /\ UNCHANGED <<copies, verified>>
      /\ \/ order' = Without(f) /\ whole' = whole \ {f}
         \/ UNCHANGED <<order, whole>>
  BY <1>1 DEF GiveUpCopy, RestRequest
<1>3. /\ f \in 1..copies /\ Unfinished = Others(m) \cup {f} /\ f \notin Others(m) /\ f \notin verified
  BY <1>0, <1>1, <1>2 DEF IsUnfinished, UnfinishedStates
<1>4. /\ maker'[m] = Resting /\ \A n \in Makers \ {m} : maker'[n] = maker[n]
      /\ maker' \in [Makers -> MakerState] /\ Unfinished' = Others(m)
      /\ Listed(m)' = {} /\ \A n \in Makers \ {m} : Listed(n)' = Listed(n)
      /\ Doomed' \subseteq Doomed
  BY <1>0, <1>2, RestingTyped, MakerMoves
<1>5. order' = Without(f) \/ order' = order
  BY <1>2
<1>6. /\ order' \in Seq(Nat) /\ IsInjective(order') /\ Ordered
      /\ order' = Without(f) => Present' = Present \ {f}
      /\ order' = order => Present' = Present
  BY <1>0, <1>5, TakenOrdered
<1>7. /\ Present' \subseteq Present /\ whole' \subseteq Present' /\ whole' \subseteq whole
      /\ whole \subseteq whole' \cup {f}
  BY <1>0, <1>2, <1>6 DEF RotationTypes
<1>8. RotationTypes'
  BY <1>0, <1>2, <1>3, <1>4, <1>6, <1>7, RestingTyped DEF RotationTypes
<1>9. FilesApart'
  BY <1>0, <1>2, <1>3, <1>4, RestingTyped, ApartKept
<1>10. FilesKnown'
  BY <1>0, <1>2, <1>3, <1>4, <1>7 DEF FilesKnown
<1>11. OldestListed'
  BY <1>0, <1>2, <1>4, <1>6, ListsKept
<1>12. Safe \subseteq Safe' /\ Unfinished' \subseteq 1..copies'
  BY <1>0, <1>2, <1>3, <1>4, <1>7 DEF Safe
<1>13. verified \subseteq whole => verified' \subseteq whole'
  BY <1>2, <1>3, <1>7
<1>14. EnoughSafe'
  BY <1>0, <1>4, <1>8, <1>12, <1>13, SafeKept
<1> QED
  BY <1>8, <1>9, <1>10, <1>11, <1>14 DEF RotationInv

LEMMA CheckCopyInv ==
  ASSUME RotationInv, NEW m \in Makers, CheckCopy(m)
  PROVE  RotationInv'
<1>0. /\ RotationTypes /\ FilesApart /\ FilesKnown /\ OldestListed /\ EnoughSafe
      /\ maker[m] \in MakerState
      /\ maker[m].at # "idle" => maker[m].file \in 1..copies
      /\ IsUnfinished(m) => Unfinished = Others(m) \cup {maker[m].file}
      /\ Unfinished \subseteq 1..copies /\ Unfinished \cap verified = {}
      /\ IsUnfinished(m) => maker[m].file \notin Others(m)
  BY RotationFacts
<1>1. PICK o \in MakerState : o = maker[m]
  BY <1>0
<1>2. PICK f : f = o.file
  OBVIOUS
<1>3. PICK s : s = [o EXCEPT !.at = "list"]
  OBVIOUS
<1>4. /\ s \in MakerState /\ s.at = "list" /\ s.file = f /\ s.old = o.old /\ s.at \notin UnfinishedStates
  BY <1>2, <1>3 DEF MakerState, UnfinishedStates
<1>5. /\ maker' = [maker EXCEPT ![m] = s] /\ o.at = "check" /\ f \in whole
      /\ verified' = verified \cup {f} /\ UNCHANGED <<order, whole, copies, wasted>>
  BY <1>1, <1>2, <1>3 DEF CheckCopy, To, Checked
<1>6. /\ f \in 1..copies /\ Unfinished = Others(m) \cup {f} /\ f \notin Others(m) /\ f \notin verified
  BY <1>0, <1>1, <1>2, <1>5 DEF IsUnfinished, UnfinishedStates
<1>7. /\ maker'[m] = s /\ \A n \in Makers \ {m} : maker'[n] = maker[n]
      /\ maker' \in [Makers -> MakerState] /\ Unfinished' = Others(m)
      /\ \A n \in Makers : Listed(n)' = Listed(n)
  <2>1. /\ maker'[m] = s /\ \A n \in Makers \ {m} : maker'[n] = maker[n]
        /\ maker' \in [Makers -> MakerState] /\ Unfinished' = Others(m)
        /\ Listed(m)' = ToSet(o.old) /\ \A n \in Makers \ {m} : Listed(n)' = Listed(n)
    BY <1>0, <1>4, <1>5, MakerMoves
  <2> QED
    BY <1>1, <2>1 DEF Listed
<1>8. Doomed' = Doomed /\ Present' = Present
  BY <1>5, <1>7 DEF Doomed, Present
<1>9. \A n \in Makers : maker'[n].at # "idle" => maker'[n].file \in 1..copies'
  BY <1>0, <1>4, <1>5, <1>6, <1>7 DEF RotationTypes
<1>10. RotationTypes'
  BY <1>0, <1>5, <1>6, <1>7, <1>8, <1>9 DEF RotationTypes
<1>11. FilesApart'
  BY <1>0, <1>4, <1>5, <1>6, <1>7, ApartKept
<1>12. FilesKnown'
  BY <1>0, <1>5, <1>6, <1>7, <1>8 DEF FilesKnown
<1>13. Ordered
  BY <1>5, <1>8 DEF Ordered
<1>14. OldestListed'
  BY <1>0, <1>5, <1>7, <1>13, ListsKept
\* a file listed before it was verified is wasted
<1>15. f \in Doomed => f \in wasted
  BY <1>0, <1>6 DEF Doomed, OldestListed
<1>16. Safe \subseteq Safe' /\ Unfinished' \subseteq 1..copies'
  BY <1>0, <1>5, <1>6, <1>7, <1>8, <1>15 DEF Safe
<1>17. verified \subseteq whole => verified' \subseteq whole'
  BY <1>5
<1>18. EnoughSafe'
  BY <1>0, <1>8, <1>10, <1>16, <1>17, SafeKept
<1> QED
  BY <1>10, <1>11, <1>12, <1>14, <1>18 DEF RotationInv

LEMMA RemoveOneInv ==
  ASSUME RotationInv, NEW m \in Makers, RemoveOne(m)
  PROVE  RotationInv'
<1>0. /\ RotationTypes /\ FilesApart /\ FilesKnown /\ OldestListed /\ EnoughSafe
      /\ maker[m] \in MakerState
      /\ maker[m].at # "idle" => maker[m].file \in 1..copies
      /\ ~IsUnfinished(m) => Unfinished = Others(m)
      /\ Unfinished \subseteq 1..copies /\ Unfinished \cap verified = {}
  BY RotationFacts
<1>1. PICK o \in MakerState : o = maker[m]
  BY <1>0
<1>2. PICK q \in Seq(Nat) : q = o.old
  BY <1>1 DEF MakerState
<1>3. PICK f : f = Head(q)
  OBVIOUS
<1>4. PICK s : s = [o EXCEPT !.old = Tail(q)]
  OBVIOUS
<1>5. /\ maker' = [maker EXCEPT ![m] = s] /\ o.at = "remove" /\ q # <<>> /\ f \in Present
      /\ order' = Without(f) /\ whole' = whole \ {f} /\ UNCHANGED <<copies, verified, wasted>>
  BY <1>1, <1>2, <1>3, <1>4 DEF RemoveOne
<1>6. /\ Tail(q) \in Seq(Nat) /\ ToSet(q) = {f} \cup ToSet(Tail(q))
  <2>1. /\ f \in Nat /\ Tail(q) \in Seq(Nat) /\ Len(Tail(q)) = Len(q) - 1 /\ f = q[1]
        /\ \A i \in 1..Len(Tail(q)) : Tail(q)[i] = q[i + 1]
    BY <1>3, <1>5, HeadTailProperties
  <2>2. Len(q) \in Nat /\ Len(q) >= 1
    BY <1>5, EmptySeq
  <2>3. PICK t \in Seq(Nat) : t = Tail(q)
    BY <2>1
  <2>4. \A x : x \in ToSet(t) <=> \E i \in 1..Len(t) : t[i] = x
    BY Places
  <2>5. \A x : x \in ToSet(q) <=> \E i \in 1..Len(q) : q[i] = x
    BY Places
  <2>6. \A i \in 1..Len(t) : i + 1 \in 1..Len(q) /\ t[i] = q[i + 1]
    BY <2>1, <2>2, <2>3
  <2>7. \A i \in 1..Len(q) : i = 1 \/ (i - 1 \in 1..Len(t) /\ t[i - 1] = q[i])
    BY <2>1, <2>2, <2>3
  <2>8. 1 \in 1..Len(q)
    BY <2>2
  <2>9. \A x : x \in ToSet(q) <=> x = f \/ x \in ToSet(t)
    BY ZenonT(60), <2>1, <2>4, <2>5, <2>6, <2>7, <2>8
  <2> QED
    BY <2>1, <2>3, <2>9
<1>7. /\ s \in MakerState /\ s.at = "remove" /\ s.file = o.file /\ s.old = Tail(q)
      /\ s.at \notin UnfinishedStates
  BY <1>4, <1>5, <1>6 DEF MakerState, UnfinishedStates
<1>8. Unfinished = Others(m)
  BY <1>0, <1>1, <1>5 DEF IsUnfinished, UnfinishedStates
<1>9. /\ maker'[m] = s /\ \A n \in Makers \ {m} : maker'[n] = maker[n]
      /\ maker' \in [Makers -> MakerState] /\ Unfinished' = Unfinished
      /\ Listed(m)' = ToSet(Tail(q)) /\ \A n \in Makers \ {m} : Listed(n)' = Listed(n)
  BY ZenonT(60), <1>0, <1>5, <1>7, <1>8, MakerMoves
<1>10. Listed(m) = {f} \cup Listed(m)' /\ f \in Doomed
  BY <1>1, <1>2, <1>6, <1>9 DEF Listed, Doomed
<1>11. Doomed' \subseteq Doomed
  BY <1>9, <1>10 DEF Doomed
<1>12. order' \in Seq(Nat) /\ IsInjective(order') /\ Ordered /\ Present' = Present \ {f}
  BY <1>0, <1>5, TakenOrdered
<1>13. \A n \in Makers : maker'[n].at # "idle" => maker'[n].file \in 1..copies'
  BY <1>0, <1>1, <1>5, <1>7, <1>9 DEF RotationTypes
<1>14. RotationTypes'
  BY <1>0, <1>5, <1>9, <1>12, <1>13 DEF RotationTypes
<1>15. FilesApart'
  BY <1>0, <1>5, <1>7, <1>9, ApartKept
<1>16. FilesKnown'
  BY <1>0, <1>5, <1>9, <1>12 DEF FilesKnown
<1>17. \A n \in Makers : /\ Listed(n)' \subseteq Listed(n)
                        /\ Listed(n) \cap Present' \subseteq Listed(n)'
  BY <1>9, <1>10, <1>12
<1>18. OldestListed'
  BY <1>0, <1>5, <1>12, <1>17, ListsKept
<1>19. Safe \subseteq Safe' /\ Unfinished' \subseteq 1..copies'
  BY <1>0, <1>5, <1>9, <1>10, <1>11 DEF Safe
<1>20. EnoughSafe'
  BY <1>0, <1>10, <1>14, <1>19, SafeKept
<1> QED
  BY <1>14, <1>15, <1>16, <1>18, <1>20 DEF RotationInv

LEMMA RequestEndsInv ==
  ASSUME RotationInv, NEW m \in Makers, RemoveRaises(m) \/ Answer(m)
  PROVE  RotationInv'
<1>0. /\ RotationTypes /\ FilesApart /\ FilesKnown /\ OldestListed /\ EnoughSafe
      /\ ~IsUnfinished(m) => Unfinished = Others(m)
      /\ Unfinished \subseteq 1..copies /\ Unfinished \cap verified = {}
  BY RotationFacts
<1>1. /\ maker' = [maker EXCEPT ![m] = Resting] /\ maker[m].at \in {"list", "remove"}
      /\ UNCHANGED <<order, whole, copies, verified, wasted>>
  BY DEF RemoveRaises, Answer, RestRequest
<1>2. Unfinished = Others(m)
  BY <1>0, <1>1 DEF IsUnfinished, UnfinishedStates
<1>3. /\ maker'[m] = Resting /\ \A n \in Makers \ {m} : maker'[n] = maker[n]
      /\ maker' \in [Makers -> MakerState] /\ Unfinished' = Unfinished
      /\ Listed(m)' = {} /\ \A n \in Makers \ {m} : Listed(n)' = Listed(n)
      /\ Doomed' \subseteq Doomed
  BY <1>0, <1>1, <1>2, RestingTyped, MakerMoves
<1>4. Present' = Present /\ Ordered
  BY <1>1 DEF Present, Ordered
<1>5. RotationTypes'
  BY <1>0, <1>1, <1>3, <1>4, RestingTyped DEF RotationTypes
<1>6. FilesApart' /\ FilesKnown'
  BY <1>0, <1>1, <1>3, <1>4, RestingTyped, ApartKept DEF FilesKnown
<1>7. OldestListed'
  BY <1>0, <1>1, <1>3, <1>4, ListsKept
<1>8. Safe \subseteq Safe' /\ Unfinished' \subseteq 1..copies'
  BY <1>0, <1>1, <1>3 DEF Safe
<1>9. EnoughSafe'
  BY <1>0, <1>1, <1>3, <1>5, <1>8, SafeKept
<1> QED
  BY <1>5, <1>6, <1>7, <1>9 DEF RotationInv

LEMMA DashboardCrashInv ==
  ASSUME RotationInv, DashboardCrash
  PROVE  RotationInv'
<1>0. /\ RotationTypes /\ FilesApart /\ FilesKnown /\ OldestListed /\ EnoughSafe
  BY DEF RotationInv
<1>1. /\ maker' = [m \in Makers |-> Resting] /\ wasted' = wasted \cup Unfinished
      /\ UNCHANGED <<order, whole, copies, verified>>
  BY DEF DashboardCrash
<1>2. /\ maker' \in [Makers -> MakerState] /\ \A m \in Makers : maker'[m] = Resting
  BY <1>1, RestingTyped
<1>3. \A m \in Makers : ~IsUnfinished(m)' /\ Listed(m)' = {}
  BY <1>2, RestingTyped DEF IsUnfinished, Listed
<1>4. Unfinished' = {} /\ Doomed' = {}
  BY <1>2, <1>3, RestingTyped DEF Unfinished, UnfinishedStates, Doomed
<1>5. Unfinished \subseteq 1..copies
  BY <1>0 DEF Unfinished, RotationTypes
<1>6. Present' = Present /\ Ordered
  BY <1>1 DEF Present, Ordered
<1>7. RotationTypes'
  BY <1>0, <1>1, <1>2, <1>5, <1>6, RestingTyped DEF RotationTypes
<1>8. FilesApart' /\ FilesKnown'
  BY <1>0, <1>1, <1>3, <1>4, <1>6 DEF FilesApart, FilesKnown
<1>9. OldestListed'
  BY <1>0, <1>1, <1>3, <1>6, ListsKept
<1>10. Safe \subseteq Safe' /\ Unfinished' \subseteq 1..copies'
  BY <1>1, <1>4 DEF Safe
<1>11. EnoughSafe'
  BY <1>0, <1>1, <1>4, <1>7, <1>10, SafeKept
<1> QED
  BY <1>7, <1>8, <1>9, <1>11 DEF RotationInv

LEMMA ListCopiesInv ==
  ASSUME RotationInv, NEW m \in Makers, ListCopies(m)
  PROVE  RotationInv'
<1>0. /\ RotationTypes /\ FilesApart /\ FilesKnown /\ OldestListed /\ EnoughSafe
      /\ maker[m] \in MakerState /\ KeepCopies \in Nat
      /\ maker[m].at # "idle" => maker[m].file \in 1..copies
      /\ ~IsUnfinished(m) => Unfinished = Others(m)
      /\ Unfinished \subseteq 1..copies /\ Unfinished \cap verified = {}
  BY RotationFacts
<1>1. PICK o \in MakerState : o = maker[m]
  BY <1>0
<1>2. PICK t : t = OldOnes
  OBVIOUS
<1>3. PICK L : L = ToSet(t)
  OBVIOUS
<1>4. PICK s : s = [o EXCEPT !.at = "remove", !.old = t]
  OBVIOUS
<1>5. /\ maker' = [maker EXCEPT ![m] = s] /\ o.at = "list" /\ wasted' = wasted \cup (L \cap Unfinished)
      /\ UNCHANGED <<order, whole, copies, verified>>
  BY <1>0, <1>1, <1>2, <1>3, <1>4 DEF ListCopies, RotationTypes
\* the oldest files, and how many are spared
<1>6. order \in Seq(Nat) /\ IsInjective(order) /\ Present \subseteq 1..copies /\ Len(order) \in Nat
  BY <1>0 DEF RotationTypes
<1>7. IsFiniteSet(Present \ L)
  <2>1. copies \in Int /\ 1 \in Int
    BY <1>0 DEF RotationTypes
  <2> QED
    BY <1>6, <2>1, FS_Interval, FS_Subset
<1>8. /\ t \in Seq(Nat) /\ L \subseteq Present
      /\ \A x \in L : \A y \in Present \ L : Older(order, x, y)
      /\ L # {} => Cardinality(Present \ L) >= KeepCopies
  <2>1. CASE t = <<>>
    BY <1>3, <2>1 DEF ToSet
  <2>2. CASE t # <<>>
    <3>1. PICK k : k = Len(order) - KeepCopies
      OBVIOUS
    <3>2. t = SubSeq(order, 1, k) /\ Len(order) > KeepCopies
      BY <1>2, <2>2, <3>1 DEF OldOnes, OldestFirst
    <3>3. k \in 0..Len(order) /\ Len(order) - k = KeepCopies
      BY <1>0, <1>6, <3>1, <3>2
    <3>4. /\ t \in Seq(Nat) /\ ToSet(t) \subseteq ToSet(order)
          /\ \A x \in ToSet(t) : \A y \in ToSet(order) \ ToSet(t) : Older(order, x, y)
          /\ IsFiniteSet(ToSet(order) \ ToSet(t)) => Cardinality(ToSet(order) \ ToSet(t)) >= Len(order) - k
      BY <1>6, <3>2, <3>3, FirstOnes
    <3> QED
      BY <1>3, <1>7, <3>3, <3>4 DEF Present
  <2> QED
    BY <2>1, <2>2
<1>9. /\ s \in MakerState /\ s.at = "remove" /\ s.file = o.file /\ s.old = t
      /\ s.at \notin UnfinishedStates
  BY <1>4, <1>8 DEF MakerState, UnfinishedStates
<1>10. Unfinished = Others(m)
  BY <1>0, <1>1, <1>5 DEF IsUnfinished, UnfinishedStates
<1>11. /\ maker'[m] = s /\ \A n \in Makers \ {m} : maker'[n] = maker[n]
       /\ maker' \in [Makers -> MakerState] /\ Unfinished' = Unfinished
       /\ Listed(m)' = L /\ \A n \in Makers \ {m} : Listed(n)' = Listed(n)
       /\ Doomed' \subseteq Doomed \cup L
  BY <1>0, <1>3, <1>5, <1>9, <1>10, MakerMoves
<1>12. Present' = Present
  BY <1>5 DEF Present
<1>13. \A n \in Makers : maker'[n].at # "idle" => maker'[n].file \in 1..copies'
  BY <1>0, <1>1, <1>5, <1>9, <1>11 DEF RotationTypes
<1>14. RotationTypes'
  BY <1>0, <1>5, <1>11, <1>12, <1>13 DEF RotationTypes
<1>15. FilesApart' /\ FilesKnown'
  BY <1>0, <1>5, <1>9, <1>11, <1>12, ApartKept DEF FilesKnown
<1>16. OldestListed'
  <2>1. L \subseteq verified' \cup wasted'
    BY <1>0, <1>5, <1>8 DEF FilesKnown
  <2>2. ASSUME NEW n \in Makers
        PROVE  /\ Listed(n)' \subseteq verified' \cup wasted'
               /\ \A x \in (Listed(n)' \cap Present') \ wasted' :
                    \A y \in Present' \ (Listed(n)' \cup wasted') : Older(order', x, y)
    <3>1. CASE n = m
      BY <1>5, <1>8, <1>11, <1>12, <2>1, <3>1
    <3>2. CASE n # m
      <4>1. /\ Listed(n) \subseteq verified \cup wasted
            /\ \A x \in (Listed(n) \cap Present) \ wasted :
                 \A y \in Present \ (Listed(n) \cup wasted) : Older(order, x, y)
        BY <1>0 DEF OldestListed
      <4>2. Listed(n)' = Listed(n) /\ order' = order /\ wasted \subseteq wasted' /\ verified' = verified
        BY <1>5, <1>11, <3>2
      <4> QED
        BY <1>12, <4>1, <4>2
    <3> QED
      BY <3>1, <3>2
  <2> QED
    BY <2>2 DEF OldestListed
<1>17. Unfinished' \subseteq 1..copies'
  BY <1>0, <1>5, <1>11
<1>18. CASE L = {}
  <2>1. Doomed' \subseteq Doomed
    BY <1>11, <1>18
  <2>2. Safe \subseteq Safe'
    BY <1>5, <1>11, <2>1 DEF Safe
  <2>3. EnoughSafe'
    BY <1>0, <1>5, <1>14, <1>17, <2>1, <2>2, SafeKept
  <2> QED
    BY <1>14, <1>15, <1>16, <2>3 DEF RotationInv
\* another request has listed a verified file that this one spares: then all
\* the verified files that this one lists are that other's as well
<1>19. ASSUME NEW x \in Doomed, x \in (verified \cap Present) \ (L \cup wasted) PROVE RotationInv'
  <2>1. PICK n \in Makers : x \in Listed(n)
    BY <1>19 DEF Doomed
  <2>2. ASSUME NEW y \in L, y \in verified \cap whole, y \notin Doomed PROVE y \in wasted
    <3>1. y \in Present /\ y \notin Listed(n)
      BY <1>8, <2>2 DEF Doomed
    <3>2. Older(order, y, x)
      BY <1>8, <1>19, <2>2
    <3>3. y \notin wasted => Older(order, x, y)
      BY <1>0, <1>19, <2>1, <3>1 DEF OldestListed
    <3> QED
      BY <1>6, <3>2, <3>3, OlderOnce
  <2>3. Safe \subseteq Safe'
    BY <1>5, <1>11, <2>2 DEF Safe
  <2>4. EnoughSafe'
    BY <1>0, <1>14, <1>17, <1>19, <2>3, SafeKept
  <2> QED
    BY <1>14, <1>15, <1>16, <2>4 DEF RotationInv
<1>20. ASSUME L # {}, \A x \in Doomed : x \notin (verified \cap Present) \ (L \cup wasted)
       PROVE  RotationInv'
  <2>1. Present \ L \subseteq Safe'
    <3>1. ASSUME NEW x \in Present \ L PROVE x \in Safe'
      <4>1. x \in verified \cup Unfinished \cup wasted /\ (x \in verified => x \in whole)
        BY <1>0, <3>1 DEF FilesKnown
      <4>2. x \in verified /\ x \notin wasted => x \notin Doomed'
        BY <1>11, <1>20, <3>1
      <4> QED
        BY <1>5, <1>11, <4>1, <4>2 DEF Safe
    <3> QED
      BY <3>1
  <2>2. IsFiniteSet(Safe') /\ Cardinality(Safe') \in Nat
    <3>1. Safe' \subseteq 1..copies'
      BY <1>14, <1>17 DEF Safe, RotationTypes
    <3>2. copies' \in Int /\ 1 \in Int
      BY <1>14 DEF RotationTypes
    <3>3. IsFiniteSet(1..copies')
      BY <3>2, FS_Interval
    <3> QED
      BY <3>1, <3>3, FS_Subset, FS_CardinalityType
  <2>3. Cardinality(Present \ L) <= Cardinality(Safe') /\ Cardinality(Present \ L) \in Nat
    BY <1>7, <2>1, <2>2, FS_Subset, FS_CardinalityType
  <2>4. Cardinality(Safe') >= KeepCopies
    BY <1>0, <1>8, <1>20, <2>2, <2>3
  <2>5. EnoughSafe'
    BY <2>4 DEF EnoughSafe
  <2> QED
    BY <1>14, <1>15, <1>16, <2>5 DEF RotationInv
<1> QED
  BY <1>18, <1>19, <1>20

LEMMA RotationStep == RotationInv /\ [RotationNext]_rotationVars => RotationInv'
<1> SUFFICES ASSUME RotationInv, [RotationNext]_rotationVars PROVE RotationInv'
  OBVIOUS
<1>1. CASE UNCHANGED rotationVars
  BY <1>1 DEF rotationVars, RotationInv, RotationTypes, FilesApart, FilesKnown, OldestListed, EnoughSafe,
              IsUnfinished, Unfinished, Present, Listed, Doomed, Safe
<1>2. CASE DashboardCrash
  BY <1>2, DashboardCrashInv
<1>3. ASSUME NEW m \in Makers,
             \/ MakeFile(m) \/ CopyDatabase(m) \/ GiveUpCopy(m) \/ CheckCopy(m) \/ ListCopies(m)
             \/ RemoveOne(m) \/ RemoveRaises(m) \/ Answer(m)
      PROVE  RotationInv'
  BY <1>3, MakeFileInv, CopyDatabaseInv, GiveUpCopyInv, CheckCopyInv, ListCopiesInv, RemoveOneInv,
     RequestEndsInv
<1> QED
  BY <1>1, <1>2, <1>3 DEF RotationNext

LEMMA RotationAlways == RotationSpec => []RotationInv
BY RotationInitInv, RotationStep, PTL DEF RotationSpec

LEMMA SmallerOfTwo == ASSUME NEW x \in Nat, NEW y \in Nat
                      PROVE  Min({x, y}) <= x /\ Min({x, y}) <= y /\ Min({x, y}) \in Nat
<1>1. \E v \in {x, y} : \A w \in {x, y} : v <= w
  OBVIOUS
<1> QED
  BY <1>1 DEF Min

LEMMA RotationKeepsInv == RotationInv => RotationKeeps
<1> SUFFICES ASSUME RotationInv
             PROVE  Cardinality(verified \cap whole) + Cardinality(Unfinished \cup wasted)
                      >= Min({KeepCopies, Cardinality(verified)})
  BY DEF RotationKeeps
<1>0. RotationTypes /\ EnoughSafe /\ KeepCopies \in Nat /\ Unfinished \subseteq 1..copies
  BY RotationAssumption DEF RotationInv, RotationTypes, Unfinished
<1>1. IsFiniteSet(1..copies)
  BY <1>0, FS_Interval DEF RotationTypes
<1>2. PICK V : V = verified \cap whole
  OBVIOUS
<1>3. PICK W : W = Unfinished \cup wasted
  OBVIOUS
<1>4. IsFiniteSet(V) /\ IsFiniteSet(W) /\ IsFiniteSet(verified) /\ IsFiniteSet(V \cup W)
  <2>1. V \subseteq 1..copies /\ W \subseteq 1..copies /\ verified \subseteq 1..copies
    BY <1>0, <1>2, <1>3 DEF RotationTypes
  <2>2. V \cup W \subseteq 1..copies
    BY <2>1
  <2> QED
    BY <1>1, <2>1, <2>2, FS_Subset
<1>5. /\ Cardinality(V) \in Nat /\ Cardinality(W) \in Nat /\ Cardinality(verified) \in Nat
      /\ Cardinality(V \cup W) \in Nat /\ Cardinality(V \cup W) <= Cardinality(V) + Cardinality(W)
  <2>1. Cardinality(V \cup W) = Cardinality(V) + Cardinality(W) - Cardinality(V \cap W)
    BY <1>4, FS_Union
  <2>2. Cardinality(V \cap W) \in Nat
    BY <1>4, FS_Subset, FS_CardinalityType
  <2>3. /\ Cardinality(V) \in Nat /\ Cardinality(W) \in Nat /\ Cardinality(verified) \in Nat
        /\ Cardinality(V \cup W) \in Nat
    BY <1>4, FS_CardinalityType
  <2> QED
    BY <2>1, <2>2, <2>3
<1>6. PICK k : k = Min({KeepCopies, Cardinality(verified)})
  OBVIOUS
<1>7. k \in Nat /\ k <= KeepCopies /\ k <= Cardinality(verified)
  BY <1>0, <1>5, <1>6, SmallerOfTwo
<1>8. CASE verified \subseteq whole
  <2>1. V = verified
    BY <1>2, <1>8
  <2> QED
    BY SMTT(60), <1>2, <1>3, <1>5, <1>6, <1>7, <2>1
<1>9. CASE ~(verified \subseteq whole)
  <2>1. Safe \subseteq V \cup W /\ Cardinality(Safe) >= KeepCopies
    BY <1>0, <1>2, <1>3, <1>9 DEF EnoughSafe, Safe
  <2>2. Cardinality(Safe) <= Cardinality(V \cup W) /\ Cardinality(Safe) \in Nat
    BY <1>4, <2>1, FS_Subset, FS_CardinalityType
  <2>3. Cardinality(V) + Cardinality(W) >= k
    BY <1>0, <1>5, <1>7, <2>1, <2>2
  <2> QED
    BY <1>2, <1>3, <1>6, <2>3
<1> QED
  BY <1>8, <1>9

LEMMA RotationTypedOK == RotationInv => RotationTypeOK
BY DEF RotationInv, RotationTypes, RotationTypeOK, MakerState, UnfinishedStates
-----------------------------------------------------------------------------
\* A command before a script, a script before a script.
Then(c, s) == <<c>> \o s
LEMMA ThenIs ==
  ASSUME NEW S, NEW c \in S, NEW s \in Seq(S)
  PROVE  /\ Head(Then(c, s)) = c /\ Tail(Then(c, s)) = s
         /\ Then(c, s) # <<>> /\ Then(c, s) \in Seq(S)
<1>1. Head(<<c>> \o s) = c
  OBVIOUS
<1>2. Tail(<<c>> \o s) = s
  OBVIOUS
<1>3. <<c>> \o s # <<>> /\ <<c>> \o s \in Seq(S)
  OBVIOUS
<1> QED
  BY <1>1, <1>2, <1>3 DEF Then

LEMMA HeadAndTail ==
  ASSUME NEW S, NEW q \in Seq(S), q # <<>>
  PROVE  q = Then(Head(q), Tail(q)) /\ Head(q) \in S /\ Tail(q) \in Seq(S)
<1>1. Head(q) \in S /\ Tail(q) \in Seq(S) /\ Len(Tail(q)) = Len(q) - 1 /\ Len(q) \in Nat /\ Len(q) > 0
  OBVIOUS
<1>2. PICK h \in S : h = Head(q)
  BY <1>1
<1>3. PICK t \in Seq(S) : t = Tail(q)
  BY <1>1
<1>4. PICK w \in Seq(S) : w = <<h>> \o t
  <2>1. <<h>> \o t \in Seq(S)
    OBVIOUS
  <2> QED
    BY <2>1
<1>5. Len(w) = Len(q)
  <2>1. Len(w) = 1 + Len(t)
    BY <1>4
  <2> QED
    BY <1>1, <1>3, <2>1
<1>6. ASSUME NEW i \in 1..Len(w) PROVE w[i] = q[i]
  <2>1. CASE i = 1
    BY <1>2, <1>4, <2>1
  <2>2. CASE i # 1
    <3>1. i - 1 \in 1..Len(t)
      BY <1>1, <1>3, <1>5, <2>2
    <3>2. w[i] = t[i - 1]
      BY <1>4, <2>2, <3>1
    <3>3. Tail(q)[i - 1] = q[i]
      BY <1>1, <1>3, <2>2, <3>1
    <3> QED
      BY <1>3, <3>2, <3>3
  <2> QED
    BY <2>1, <2>2
<1>7. w = q
  BY <1>5, <1>6, SeqEqual
<1> QED
  BY <1>1, <1>2, <1>3, <1>4, <1>7 DEF Then

LEMMA Chained ==
  ASSUME NEW S, NEW q \in Seq(S), NEW s \in Seq(S), q # <<>>
  PROVE  q \o s = Then(Head(q), Tail(q) \o s) /\ Tail(q) \o s \in Seq(S)
<1>1. q \o s \in Seq(S) /\ q \o s # <<>> /\ Tail(q) \o s \in Seq(S)
  OBVIOUS
<1>2. Head(q \o s) = Head(q) /\ Tail(q \o s) = Tail(q) \o s
  OBVIOUS
<1>3. q \o s = Then(Head(q \o s), Tail(q \o s))
  BY <1>1, HeadAndTail
<1> QED
  BY <1>1, <1>2, <1>3

LEMMA ChainedFirst ==
  ASSUME NEW S, NEW c, NEW q, NEW s \in Seq(S), NEW p \in Seq(S), p # <<>>, Head(p) = c, Tail(p) = q
  PROVE  p \o s = Then(c, q \o s)
BY Chained

LEMMA LastInChain == ASSUME NEW S, NEW s \in Seq(S), NEW c \in S PROVE <<c>> \o s = Then(c, s)
BY DEF Then
-----------------------------------------------------------------------------
(***************************************************************************)
(* UpgradeCutover.  The rest of a script is a tail of the upgrade, of the  *)
(* handler or of a recovery; at each the journal, the trees and the        *)
(* services are as the commands before it have left them, and the journal  *)
(* alone says enough of them for the script that a recovery runs.          *)
(***************************************************************************)
Early == {"STAGED", "SERVICES_STOPPED", "STATE_COPIED"}
Swapping == {"DATABASE_MIGRATED", "READY_FOR_CUTOVER", "CUTOVER_STARTED"}
Late == {"CUTOVER_COMPLETE", "SERVICES_INSTALLED", "OPERATIONAL"}
Mutating == "DATABASE_MUTATION_STARTED"

\* the ends of the scripts
Operational == <<"OPERATIONAL", "archive">>
Verify == <<"verify", "OPERATIONAL", "archive">>
Installed == <<"SERVICES_INSTALLED", "verify", "OPERATIONAL", "archive">>
Serve == <<"services", "SERVICES_INSTALLED", "verify", "OPERATIONAL", "archive">>
MoveIn == Then("moveIn", Tail4)
SetAside == Then("setAside", MoveIn)
CutOver == Then("CUTOVER_STARTED", SetAside)
GetReady == Then("READY_FOR_CUTOVER", CutOver)
Migrated == Then("DATABASE_MIGRATED", GetReady)
MigrateDb == Then("migrate", Migrated)
MutateDb == Then("mutate", MigrateDb)
JournalDb == Then(Mutating, MutateDb)
BackupDb == Then("backup", JournalDb)
Copied(s) == Then("STATE_COPIED", s)
CopyState(s) == Then("copy", Copied(s))
Stopped4(s) == Then("SERVICES_STOPPED", CopyState(s))
StopAll(s) == Then("stop", Stopped4(s))
Staged(s) == Then("STAGED", StopAll(s))
Unpack(s) == Then("unpack", Staged(s))
AfterCopy == {BackupDb, GetReady}

Current == IF target = NoTree THEN previous ELSE target
Quiet == ~unstopped => running = "none"
StageIsCopy == ~unstopped => stage.rows = Current.rows
MayRestart == ~unstopped /\ schema # "old" => ~wereActive

TreesOK == /\ target \in Trees /\ stage \in Trees /\ previous \in Trees
           /\ stage.code # "old" /\ previous.code # "new"
           /\ target.code = "none" => target = NoTree
           /\ stage.code = "none" => stage = NoTree
JournalOK ==
  /\ target = NoTree => journal \in Swapping
  /\ journal \in Early \cup {Mutating} => target.code = "old"
  /\ journal \in Early => MayRestart
  /\ journal \in Swapping /\ target.code # "new" => stage.code = "new" /\ StageIsCopy
  /\ journal \in Swapping \cup {Mutating} => Quiet
  /\ journal \in Late => target.code = "new"
RunningOK == ~unstopped => /\ running \in {"none", target.code} /\ stored \subseteq Current.rows
                           /\ schema # "old" => running # "old"
UpTypes ==
  /\ backend \in Backends /\ schema \in {"old", "partial", "new"}
  /\ journal \in Early \cup {Mutating} \cup Swapping \cup Late \cup {"none"}
  /\ wereActive \in BOOLEAN /\ unstopped \in BOOLEAN /\ running \in {"none", "old", "new"}
  /\ mode \in {"upgrade", "handler", "recover"}
  /\ stored \subseteq 1..MaxEvents /\ faults \in 0..MaxFaults

StagedTree == target.code = "old" /\ stage.code = "new"
ReadyTree == StagedTree /\ Quiet /\ StageIsCopy
UpgradeLeft ==
  \E s \in AfterCopy :
    \/ todo = Unpack(s) /\ journal = "none" /\ target.code = "old"
    \/ todo = Staged(s) /\ journal = "none" /\ StagedTree
    \/ todo = StopAll(s) /\ journal = "STAGED" /\ StagedTree
    \/ todo = Stopped4(s) /\ journal = "STAGED" /\ StagedTree /\ Quiet
    \/ todo = CopyState(s) /\ journal = "SERVICES_STOPPED" /\ StagedTree /\ Quiet
    \/ todo = Copied(s) /\ journal = "SERVICES_STOPPED" /\ ReadyTree
DatabaseLeft ==
  \/ todo \in {BackupDb, JournalDb} /\ journal = "STATE_COPIED" /\ ReadyTree
  \/ todo \in {MutateDb, MigrateDb, Migrated} /\ journal = Mutating /\ ReadyTree
CutoverLeft ==
  \/ todo = GetReady /\ journal \in {"STATE_COPIED", "DATABASE_MIGRATED"} /\ ReadyTree
  \/ todo = CutOver /\ journal = "READY_FOR_CUTOVER" /\ ReadyTree
  \/ todo = SetAside /\ journal \in Swapping /\ target.code = "old"
  \/ todo = MoveIn /\ journal \in Swapping /\ target = NoTree
  \/ todo = Tail4 /\ journal \in Swapping \cup Late /\ target.code = "new"
  \/ todo \in {Serve, Installed, Verify, Operational} /\ journal \in Late
RestoreLeft ==
  \/ /\ todo \in {<<"archive", "dropStage", "restart">>, <<"dropStage", "restart">>, <<"restart">>}
     /\ journal \in Early \cup {"none"} /\ target.code = "old" /\ MayRestart
  \/ /\ todo \in {<<"dropStage", "restart", "archive">>, <<"restart", "archive">>}
     /\ journal \in Early /\ target.code = "old" /\ MayRestart
RerunLeft ==
  \/ /\ todo \in {<<"archive", "dropStage">>, <<"dropStage">>}
     /\ journal \in {Mutating, "none"} /\ target.code = "old"
  \/ todo = <<"dropStage", "archive">> /\ journal = Mutating /\ target.code = "old"
Left == \/ todo = <<>> \/ (todo = <<"archive">> /\ target # NoTree)
        \/ UpgradeLeft \/ DatabaseLeft \/ CutoverLeft \/ RestoreLeft \/ RerunLeft
UpInv == UpTypes /\ TreesOK /\ JournalOK /\ RunningOK /\ Left
-----------------------------------------------------------------------------
PhaseSet == Early \cup {Mutating} \cup Swapping \cup Late

LEMMA PhaseNames == ToSet(Phases) = PhaseSet
<1>1. \A x : x \in ToSet(Phases) => x \in PhaseSet
  BY DEF ToSet, Phases, PhaseSet, Early, Mutating, Swapping, Late
<1>2. \A i \in 1..10 : Phases[i] \in ToSet(Phases)
  BY DEF ToSet, Phases
<1>3. /\ "STAGED" \in ToSet(Phases) /\ "SERVICES_STOPPED" \in ToSet(Phases)
      /\ "STATE_COPIED" \in ToSet(Phases) /\ "DATABASE_MUTATION_STARTED" \in ToSet(Phases)
      /\ "DATABASE_MIGRATED" \in ToSet(Phases) /\ "READY_FOR_CUTOVER" \in ToSet(Phases)
      /\ "CUTOVER_STARTED" \in ToSet(Phases) /\ "CUTOVER_COMPLETE" \in ToSet(Phases)
      /\ "SERVICES_INSTALLED" \in ToSet(Phases) /\ "OPERATIONAL" \in ToSet(Phases)
  BY <1>2 DEF Phases
<1>4. \A x \in PhaseSet : x \in ToSet(Phases)
  BY <1>3 DEF PhaseSet, Early, Mutating, Swapping, Late
<1> QED
  BY <1>1, <1>4

LEMMA PhasePlaces ==
  /\ At("STAGED") = 1 /\ At("SERVICES_STOPPED") = 2 /\ At("STATE_COPIED") = 3 /\ At(Mutating) = 4
  /\ At("DATABASE_MIGRATED") = 5 /\ At("READY_FOR_CUTOVER") = 6 /\ At("CUTOVER_STARTED") = 7
  /\ At("CUTOVER_COMPLETE") = 8 /\ At("SERVICES_INSTALLED") = 9 /\ At("OPERATIONAL") = 10
BY DEF At, Phases, Mutating

LEMMA PlanIs ==
  /\ journal \in Early => Plan = "RESTORE"
  /\ journal = Mutating => Plan = "RERUN"
  /\ journal \in Swapping \cup {"CUTOVER_COMPLETE", "SERVICES_INSTALLED"} => Plan = "FORWARD"
  /\ journal = "OPERATIONAL" => Plan = "NONE"
<1>1. At("DATABASE_MUTATION_STARTED") = 4
  BY PhasePlaces DEF Mutating
<1>2. ASSUME journal \in Early PROVE Plan = "RESTORE"
  <2>1. At(journal) < 4 /\ journal # "OPERATIONAL"
    BY <1>2, PhasePlaces DEF Early
  <2> QED
    BY <1>1, <2>1 DEF Plan, Before
<1>3. ASSUME journal \in Swapping \cup {"CUTOVER_COMPLETE", "SERVICES_INSTALLED"}
      PROVE  Plan = "FORWARD"
  <2>1. At(journal) \in Nat /\ ~(At(journal) < 4) /\ journal # "OPERATIONAL"
        /\ journal # "DATABASE_MUTATION_STARTED"
    BY <1>3, PhasePlaces DEF Swapping
  <2> QED
    BY <1>1, <2>1 DEF Plan, Before
<1>4. ASSUME journal = Mutating PROVE Plan = "RERUN"
  <2>1. ~(At(journal) < 4) /\ journal # "OPERATIONAL" /\ journal = "DATABASE_MUTATION_STARTED"
    BY <1>1, <1>4 DEF Mutating
  <2> QED
    BY <1>1, <2>1 DEF Plan, Before
<1>5. ASSUME journal = "OPERATIONAL" PROVE Plan = "NONE"
  <2>1. At(journal) = 10 /\ journal # "DATABASE_MUTATION_STARTED"
    BY <1>5, PhasePlaces
  <2> QED
    BY <1>1, <1>5, <2>1 DEF Plan, Before
<1> QED
  BY <1>2, <1>3, <1>4, <1>5

LEMMA Regression ==
  ASSUME Regresses
  PROVE  Command \in PhaseSet /\ journal # "none" /\ At(Command) < At(journal)
BY PhaseNames DEF Regresses, Before

CommandNames == PhaseSet \cup {"unpack", "stop", "copy", "backup", "mutate", "migrate", "setAside", "moveIn",
                             "services", "verify", "archive", "dropStage", "restart"}
LEMMA Named ==
  /\ \A c \in {"unpack", "stop", "copy", "backup", "mutate", "migrate", "setAside", "moveIn",
             "services", "verify", "archive", "dropStage", "restart"} : c \in CommandNames
  /\ \A c \in PhaseSet : c \in CommandNames /\ c \notin CommandNames \ PhaseSet
  /\ "STAGED" \in CommandNames /\ "SERVICES_STOPPED" \in CommandNames /\ "STATE_COPIED" \in CommandNames
  /\ "DATABASE_MUTATION_STARTED" \in CommandNames /\ Mutating \in CommandNames
  /\ "DATABASE_MIGRATED" \in CommandNames /\ "READY_FOR_CUTOVER" \in CommandNames
  /\ "CUTOVER_STARTED" \in CommandNames /\ "CUTOVER_COMPLETE" \in CommandNames
  /\ "SERVICES_INSTALLED" \in CommandNames /\ "OPERATIONAL" \in CommandNames
BY DEF CommandNames, PhaseSet, Early, Mutating, Swapping, Late

Database4 == <<"backup", "DATABASE_MUTATION_STARTED", "mutate", "migrate", "DATABASE_MIGRATED">>
\* the literal scripts
LEMMA Literals ==
  /\ Prepare \in Seq(CommandNames) /\ Swap \in Seq(CommandNames) /\ Database4 \in Seq(CommandNames)
  /\ <<"READY_FOR_CUTOVER", "CUTOVER_STARTED">> \in Seq(CommandNames)
  /\ <<Mutating, "mutate", "migrate", "DATABASE_MIGRATED">> \in Seq(CommandNames)
  /\ <<"mutate", "migrate", "DATABASE_MIGRATED">> \in Seq(CommandNames)
  /\ <<"migrate", "DATABASE_MIGRATED">> \in Seq(CommandNames)
  /\ <<"DATABASE_MIGRATED">> \in Seq(CommandNames)
  /\ <<"STAGED", "stop", "SERVICES_STOPPED", "copy", "STATE_COPIED">> \in Seq(CommandNames)
  /\ <<"stop", "SERVICES_STOPPED", "copy", "STATE_COPIED">> \in Seq(CommandNames)
  /\ <<"SERVICES_STOPPED", "copy", "STATE_COPIED">> \in Seq(CommandNames)
  /\ <<"copy", "STATE_COPIED">> \in Seq(CommandNames)
  /\ <<"moveIn">> \in Seq(CommandNames)
  /\ <<"setAside">> \in Seq(CommandNames)
<1>1. /\ "unpack" \in CommandNames /\ "stop" \in CommandNames /\ "copy" \in CommandNames /\ "backup" \in CommandNames /\ "mutate" \in CommandNames /\ "migrate" \in CommandNames /\ "setAside" \in CommandNames /\ "moveIn" \in CommandNames /\ "STAGED" \in CommandNames /\ "SERVICES_STOPPED" \in CommandNames /\ "STATE_COPIED" \in CommandNames /\ "DATABASE_MUTATION_STARTED" \in CommandNames /\ "DATABASE_MIGRATED" \in CommandNames /\ "READY_FOR_CUTOVER" \in CommandNames /\ "CUTOVER_STARTED" \in CommandNames /\ Mutating \in CommandNames
  BY Named
<1>2. Prepare \in Seq(CommandNames)
  BY <1>1 DEF Prepare
<1>3. Swap \in Seq(CommandNames)
  BY <1>1 DEF Swap
<1>4. Database4 \in Seq(CommandNames)
  BY <1>1 DEF Database4
<1>5. <<"READY_FOR_CUTOVER", "CUTOVER_STARTED">> \in Seq(CommandNames)
  BY <1>1
<1>6. <<Mutating, "mutate", "migrate", "DATABASE_MIGRATED">> \in Seq(CommandNames)
  BY <1>1
<1>7. <<"mutate", "migrate", "DATABASE_MIGRATED">> \in Seq(CommandNames)
  BY <1>1
<1>8. <<"migrate", "DATABASE_MIGRATED">> \in Seq(CommandNames)
  BY <1>1
<1>9. <<"DATABASE_MIGRATED">> \in Seq(CommandNames)
  BY <1>1
<1>10. <<"STAGED", "stop", "SERVICES_STOPPED", "copy", "STATE_COPIED">> \in Seq(CommandNames)
  BY <1>1
<1>11. <<"stop", "SERVICES_STOPPED", "copy", "STATE_COPIED">> \in Seq(CommandNames)
  BY <1>1
<1>12. <<"SERVICES_STOPPED", "copy", "STATE_COPIED">> \in Seq(CommandNames)
  BY <1>1
<1>13. <<"copy", "STATE_COPIED">> \in Seq(CommandNames)
  BY <1>1
<1>14. <<"moveIn">> \in Seq(CommandNames)
  BY <1>1
<1>15. <<"setAside">> \in Seq(CommandNames)
  BY <1>1
<1> QED
  BY <1>2, <1>3, <1>4, <1>5, <1>6, <1>7, <1>8, <1>9, <1>10, <1>11, <1>12, <1>13, <1>14, <1>15

\* the rest of each script, and what it goes on with
LEMMA Rests ==
  /\ \A s \in {Tail4, MoveIn, SetAside, CutOver, GetReady, Migrated, MigrateDb, MutateDb, JournalDb, BackupDb} :
       s \in Seq(CommandNames)
  /\ Head(MoveIn) = "moveIn" /\ Tail(MoveIn) = Tail4
  /\ Head(SetAside) = "setAside" /\ Tail(SetAside) = MoveIn
  /\ Head(CutOver) = "CUTOVER_STARTED" /\ Tail(CutOver) = SetAside
  /\ Head(GetReady) = "READY_FOR_CUTOVER" /\ Tail(GetReady) = CutOver
  /\ Head(Migrated) = "DATABASE_MIGRATED" /\ Tail(Migrated) = GetReady
  /\ Head(MigrateDb) = "migrate" /\ Tail(MigrateDb) = Migrated
  /\ Head(MutateDb) = "mutate" /\ Tail(MutateDb) = MigrateDb
  /\ Head(JournalDb) = Mutating /\ Tail(JournalDb) = MutateDb
  /\ Head(BackupDb) = "backup" /\ Tail(BackupDb) = JournalDb
<1>0. Tail4 \in Seq(CommandNames)
  BY Named DEF Tail4
<1>1. MoveIn \in Seq(CommandNames) /\ Head(MoveIn) = "moveIn" /\ Tail(MoveIn) = Tail4
  BY <1>0, ThenIs, Named DEF MoveIn
<1>2. SetAside \in Seq(CommandNames) /\ Head(SetAside) = "setAside" /\ Tail(SetAside) = MoveIn
  BY <1>1, ThenIs, Named DEF SetAside
<1>3. CutOver \in Seq(CommandNames) /\ Head(CutOver) = "CUTOVER_STARTED" /\ Tail(CutOver) = SetAside
  BY <1>2, ThenIs, Named DEF CutOver
<1>4. GetReady \in Seq(CommandNames) /\ Head(GetReady) = "READY_FOR_CUTOVER" /\ Tail(GetReady) = CutOver
  BY <1>3, ThenIs, Named DEF GetReady
<1>5. Migrated \in Seq(CommandNames) /\ Head(Migrated) = "DATABASE_MIGRATED" /\ Tail(Migrated) = GetReady
  BY <1>4, ThenIs, Named DEF Migrated
<1>6. MigrateDb \in Seq(CommandNames) /\ Head(MigrateDb) = "migrate" /\ Tail(MigrateDb) = Migrated
  BY <1>5, ThenIs, Named DEF MigrateDb
<1>7. MutateDb \in Seq(CommandNames) /\ Head(MutateDb) = "mutate" /\ Tail(MutateDb) = MigrateDb
  BY <1>6, ThenIs, Named DEF MutateDb
<1>8. JournalDb \in Seq(CommandNames) /\ Head(JournalDb) = Mutating /\ Tail(JournalDb) = MutateDb
  BY <1>7, ThenIs, Named DEF JournalDb, Mutating
<1>9. BackupDb \in Seq(CommandNames) /\ Head(BackupDb) = "backup" /\ Tail(BackupDb) = JournalDb
  BY <1>8, ThenIs, Named DEF BackupDb
<1> QED
  BY ZenonT(60), <1>0, <1>1, <1>2, <1>3, <1>4, <1>5, <1>6, <1>7, <1>8, <1>9

LEMMA PrepareRests ==
  ASSUME NEW s \in AfterCopy
  PROVE  /\ Head(Copied(s)) = "STATE_COPIED" /\ Tail(Copied(s)) = s
         /\ Head(CopyState(s)) = "copy" /\ Tail(CopyState(s)) = Copied(s)
         /\ Head(Stopped4(s)) = "SERVICES_STOPPED" /\ Tail(Stopped4(s)) = CopyState(s)
         /\ Head(StopAll(s)) = "stop" /\ Tail(StopAll(s)) = Stopped4(s)
         /\ Head(Staged(s)) = "STAGED" /\ Tail(Staged(s)) = StopAll(s)
         /\ Head(Unpack(s)) = "unpack" /\ Tail(Unpack(s)) = Staged(s)
<1>0. s \in Seq(CommandNames)
  BY Rests DEF AfterCopy
<1>1. Copied(s) \in Seq(CommandNames) /\ Head(Copied(s)) = "STATE_COPIED" /\ Tail(Copied(s)) = s
  BY <1>0, ThenIs, Named DEF Copied
<1>2. CopyState(s) \in Seq(CommandNames) /\ Head(CopyState(s)) = "copy" /\ Tail(CopyState(s)) = Copied(s)
  BY <1>1, ThenIs, Named DEF CopyState
<1>3. Stopped4(s) \in Seq(CommandNames) /\ Head(Stopped4(s)) = "SERVICES_STOPPED" /\ Tail(Stopped4(s)) = CopyState(s)
  BY <1>2, ThenIs, Named DEF Stopped4
<1>4. StopAll(s) \in Seq(CommandNames) /\ Head(StopAll(s)) = "stop" /\ Tail(StopAll(s)) = Stopped4(s)
  BY <1>3, ThenIs, Named DEF StopAll
<1>5. Staged(s) \in Seq(CommandNames) /\ Head(Staged(s)) = "STAGED" /\ Tail(Staged(s)) = StopAll(s)
  BY <1>4, ThenIs, Named DEF Staged
<1>6. Head(Unpack(s)) = "unpack" /\ Tail(Unpack(s)) = Staged(s)
  BY <1>5, ThenIs, Named DEF Unpack
<1> QED
  BY <1>1, <1>2, <1>3, <1>4, <1>5, <1>6

LEMMA EndRests ==
  /\ Head(Tail4) = "CUTOVER_COMPLETE" /\ Tail(Tail4) = Serve
  /\ Head(Serve) = "services" /\ Tail(Serve) = Installed
  /\ Head(Installed) = "SERVICES_INSTALLED" /\ Tail(Installed) = Verify
  /\ Head(Verify) = "verify" /\ Tail(Verify) = Operational
  /\ Head(Operational) = "OPERATIONAL" /\ Tail(Operational) = <<"archive">>
  /\ Head(<<"archive">>) = "archive" /\ Tail(<<"archive">>) = <<>>
<1>1. Head(Tail4) = "CUTOVER_COMPLETE" /\ Tail(Tail4) = Serve
  BY DEF Tail4, Serve
<1>2. Head(Serve) = "services" /\ Tail(Serve) = Installed
  BY DEF Serve, Installed
<1>3. Head(Installed) = "SERVICES_INSTALLED" /\ Tail(Installed) = Verify
  BY DEF Installed, Verify
<1>4. Head(Verify) = "verify" /\ Tail(Verify) = Operational
  BY DEF Verify, Operational
<1>5. Head(Operational) = "OPERATIONAL" /\ Tail(Operational) = <<"archive">>
  BY DEF Operational
<1>6. Head(<<"archive">>) = "archive" /\ Tail(<<"archive">>) = <<>>
  OBVIOUS
<1> QED
  BY <1>1, <1>2, <1>3, <1>4, <1>5, <1>6

LEMMA RestoreRests ==
  /\ Head(<<"archive", "dropStage", "restart">>) = "archive"
  /\ Tail(<<"archive", "dropStage", "restart">>) = <<"dropStage", "restart">>
  /\ Head(<<"dropStage", "restart">>) = "dropStage" /\ Tail(<<"dropStage", "restart">>) = <<"restart">>
  /\ Head(<<"restart">>) = "restart" /\ Tail(<<"restart">>) = <<>>
  /\ Head(<<"dropStage", "restart", "archive">>) = "dropStage"
  /\ Tail(<<"dropStage", "restart", "archive">>) = <<"restart", "archive">>
  /\ Head(<<"restart", "archive">>) = "restart" /\ Tail(<<"restart", "archive">>) = <<"archive">>
  /\ Head(<<"archive", "dropStage">>) = "archive" /\ Tail(<<"archive", "dropStage">>) = <<"dropStage">>
  /\ Head(<<"dropStage">>) = "dropStage" /\ Tail(<<"dropStage">>) = <<>>
  /\ Head(<<"dropStage", "archive">>) = "dropStage" /\ Tail(<<"dropStage", "archive">>) = <<"archive">>
<1>1. /\ Head(<<"archive", "dropStage", "restart">>) = "archive"
      /\ Tail(<<"archive", "dropStage", "restart">>) = <<"dropStage", "restart">>
  OBVIOUS
<1>2. Head(<<"dropStage", "restart">>) = "dropStage" /\ Tail(<<"dropStage", "restart">>) = <<"restart">>
  OBVIOUS
<1>3. Head(<<"restart">>) = "restart" /\ Tail(<<"restart">>) = <<>>
  OBVIOUS
<1>4. /\ Head(<<"dropStage", "restart", "archive">>) = "dropStage"
      /\ Tail(<<"dropStage", "restart", "archive">>) = <<"restart", "archive">>
  OBVIOUS
<1>5. Head(<<"restart", "archive">>) = "restart" /\ Tail(<<"restart", "archive">>) = <<"archive">>
  OBVIOUS
<1>6. Head(<<"archive", "dropStage">>) = "archive" /\ Tail(<<"archive", "dropStage">>) = <<"dropStage">>
  OBVIOUS
<1>7. Head(<<"dropStage">>) = "dropStage" /\ Tail(<<"dropStage">>) = <<>>
  OBVIOUS
<1>8. Head(<<"dropStage", "archive">>) = "dropStage" /\ Tail(<<"dropStage", "archive">>) = <<"archive">>
  OBVIOUS
<1> QED
  BY <1>1, <1>2, <1>3, <1>4, <1>5, <1>6, <1>7, <1>8

\* the script of an upgrade, command by command
LEMMA SwapIs == Swap \o Tail4 = SetAside /\ <<"setAside">> \o (<<"moveIn">> \o Tail4) = SetAside
<1>1. PICK p \in Seq(CommandNames) : p = Swap
  BY Literals
<1>2. p # <<>> /\ Head(p) = "setAside" /\ Tail(p) = <<"moveIn">>
  BY <1>1 DEF Swap
<1>3. Tail4 \in Seq(CommandNames)
  BY Rests
<1>4. p \o Tail4 = Then("setAside", <<"moveIn">> \o Tail4)
  <2>1. p \o Tail4 = Then(Head(p), Tail(p) \o Tail4)
    BY <1>1, <1>2, <1>3, Chained
  <2> QED
    BY <1>1, <1>2, <1>3, <2>1
<1> QED
  BY <1>1, <1>4 DEF SetAside, MoveIn, Then

LEMMA ReadyIs == <<"READY_FOR_CUTOVER", "CUTOVER_STARTED">> \o SetAside = GetReady
<1>1. PICK p \in Seq(CommandNames) : p = <<"READY_FOR_CUTOVER", "CUTOVER_STARTED">>
  BY Literals
<1>2. p # <<>> /\ Head(p) = "READY_FOR_CUTOVER" /\ Tail(p) = <<"CUTOVER_STARTED">>
  BY <1>1
<1>3. SetAside \in Seq(CommandNames)
  BY Rests
<1>4. p \o SetAside = Then("READY_FOR_CUTOVER", <<"CUTOVER_STARTED">> \o SetAside)
  <2>1. p \o SetAside = Then(Head(p), Tail(p) \o SetAside)
    BY <1>1, <1>2, <1>3, Chained
  <2> QED
    BY <1>1, <1>2, <1>3, <2>1
<1> QED
  BY <1>1, <1>4 DEF GetReady, CutOver, Then

LEMMA DatabaseIs == Database4 \o GetReady = BackupDb
<1>1. PICK p \in Seq(CommandNames) : p = Database4
  BY Literals
<1>2. PICK q1 \in Seq(CommandNames) : q1 = <<Mutating, "mutate", "migrate", "DATABASE_MIGRATED">>
  BY Literals
<1>3. PICK q2 \in Seq(CommandNames) : q2 = <<"mutate", "migrate", "DATABASE_MIGRATED">>
  BY Literals
<1>4. PICK q3 \in Seq(CommandNames) : q3 = <<"migrate", "DATABASE_MIGRATED">>
  BY Literals
<1>5. PICK q4 \in Seq(CommandNames) : q4 = <<"DATABASE_MIGRATED">>
  BY Literals
<1>6. p # <<>> /\ Head(p) = "backup" /\ Tail(p) = q1
  BY <1>1, <1>2 DEF Database4, Mutating
<1>7. q1 # <<>> /\ Head(q1) = Mutating /\ Tail(q1) = q2
  BY <1>2, <1>3
<1>8. q2 # <<>> /\ Head(q2) = "mutate" /\ Tail(q2) = q3
  BY <1>3, <1>4
<1>9. q3 # <<>> /\ Head(q3) = "migrate" /\ Tail(q3) = q4
  BY <1>4, <1>5
<1>10. GetReady \in Seq(CommandNames)
  BY Rests
<1>11. p \o GetReady = Then("backup", q1 \o GetReady)
  <2>1. p \o GetReady = Then(Head(p), Tail(p) \o GetReady)
    BY <1>6, <1>10, Chained
  <2> QED
    BY <1>6, <1>10, <2>1
<1>12. q1 \o GetReady = Then(Mutating, q2 \o GetReady)
  <2>1. q1 \o GetReady = Then(Head(q1), Tail(q1) \o GetReady)
    BY <1>2, <1>3, <1>7, <1>10, Chained
  <2> QED
    BY <1>2, <1>3, <1>7, <1>10, <2>1
<1>13. q2 \o GetReady = Then("mutate", q3 \o GetReady)
  <2>1. q2 \o GetReady = Then(Head(q2), Tail(q2) \o GetReady)
    BY <1>3, <1>4, <1>8, <1>10, Chained
  <2> QED
    BY <1>3, <1>4, <1>8, <1>10, <2>1
<1>14. q3 \o GetReady = Then("migrate", q4 \o GetReady)
  <2>1. q3 \o GetReady = Then(Head(q3), Tail(q3) \o GetReady)
    BY <1>4, <1>5, <1>9, <1>10, Chained
  <2> QED
    BY <1>4, <1>5, <1>9, <1>10, <2>1
<1>15. q4 \o GetReady = Then("DATABASE_MIGRATED", GetReady)
  BY <1>5 DEF Then
<1> QED
  BY <1>1, <1>11, <1>12, <1>13, <1>14, <1>15 DEF BackupDb, JournalDb, MutateDb, MigrateDb, Migrated

LEMMA PrepareIs == ASSUME NEW s \in AfterCopy PROVE Prepare \o s = Unpack(s)
<1>1. PICK p \in Seq(CommandNames) : p = Prepare
  BY Literals
<1>2. PICK q1 \in Seq(CommandNames) : q1 = <<"STAGED", "stop", "SERVICES_STOPPED", "copy", "STATE_COPIED">>
  BY Literals
<1>3. PICK q2 \in Seq(CommandNames) : q2 = <<"stop", "SERVICES_STOPPED", "copy", "STATE_COPIED">>
  BY Literals
<1>4. PICK q3 \in Seq(CommandNames) : q3 = <<"SERVICES_STOPPED", "copy", "STATE_COPIED">>
  BY Literals
<1>5. PICK q4 \in Seq(CommandNames) : q4 = <<"copy", "STATE_COPIED">>
  BY Literals
<1>6. p # <<>> /\ Head(p) = "unpack" /\ Tail(p) = q1
  BY <1>1, <1>2 DEF Prepare
<1>7. q1 # <<>> /\ Head(q1) = "STAGED" /\ Tail(q1) = q2
  BY <1>2, <1>3
<1>8. q2 # <<>> /\ Head(q2) = "stop" /\ Tail(q2) = q3
  BY <1>3, <1>4
<1>9. q3 # <<>> /\ Head(q3) = "SERVICES_STOPPED" /\ Tail(q3) = q4
  BY <1>4, <1>5
<1>10. q4 # <<>> /\ Head(q4) = "copy" /\ Tail(q4) = <<"STATE_COPIED">>
  BY <1>5
<1>11. s \in Seq(CommandNames)
  BY Rests DEF AfterCopy
<1>12. p \o s = Then("unpack", q1 \o s)
  <2>1. p \o s = Then(Head(p), Tail(p) \o s)
    BY <1>6, <1>11, Chained
  <2> QED
    BY <1>6, <1>11, <2>1
<1>13. q1 \o s = Then("STAGED", q2 \o s)
  <2>1. q1 \o s = Then(Head(q1), Tail(q1) \o s)
    BY <1>2, <1>3, <1>7, <1>11, Chained
  <2> QED
    BY <1>2, <1>3, <1>7, <1>11, <2>1
<1>14. q2 \o s = Then("stop", q3 \o s)
  <2>1. q2 \o s = Then(Head(q2), Tail(q2) \o s)
    BY <1>3, <1>4, <1>8, <1>11, Chained
  <2> QED
    BY <1>3, <1>4, <1>8, <1>11, <2>1
<1>15. q3 \o s = Then("SERVICES_STOPPED", q4 \o s)
  <2>1. q3 \o s = Then(Head(q3), Tail(q3) \o s)
    BY <1>4, <1>5, <1>9, <1>11, Chained
  <2> QED
    BY <1>4, <1>5, <1>9, <1>11, <2>1
<1>16. q4 \o s = Then("copy", <<"STATE_COPIED">> \o s)
  <2>1. q4 \o s = Then(Head(q4), Tail(q4) \o s)
    BY <1>5, <1>10, <1>11, Chained
  <2> QED
    BY <1>5, <1>10, <1>11, <2>1
<1> QED
  BY <1>1, <1>12, <1>13, <1>14, <1>15, <1>16
  DEF Unpack, Staged, StopAll, Stopped4, CopyState, Copied, Then

LEMMA UpgradeIs == \E s \in AfterCopy : Upgrade = Unpack(s)
<1>1. PICK p \in Seq(CommandNames) : p = Prepare
  BY Literals
<1>2. PICK m \in Seq(CommandNames) : m = IF backend = "postgres" THEN Database4 ELSE <<>>
  <2>1. Database4 \in Seq(CommandNames) /\ <<>> \in Seq(CommandNames)
    BY Literals
  <2> QED
    BY <2>1
<1>3. PICK r \in Seq(CommandNames) : r = <<"READY_FOR_CUTOVER", "CUTOVER_STARTED">>
  BY Literals
<1>4. PICK w \in Seq(CommandNames) : w = Swap
  BY Literals
<1>5. PICK t \in Seq(CommandNames) : t = Tail4
  BY Rests
<1>6. Upgrade = (((p \o m) \o r) \o w) \o t
  BY <1>1, <1>2, <1>3, <1>4, <1>5 DEF Upgrade, Database4
<1>7. (((p \o m) \o r) \o w) \o t = p \o (m \o (r \o (w \o t)))
  <2>0. /\ p \in Seq(CommandNames) /\ m \in Seq(CommandNames) /\ r \in Seq(CommandNames)
        /\ w \in Seq(CommandNames) /\ t \in Seq(CommandNames)
    BY <1>1, <1>2, <1>3, <1>4, <1>5
  <2>1a. p \o m \in Seq(CommandNames)
    BY <2>0
  <2>1. PICK a \in Seq(CommandNames) : a = p \o m
    BY <2>1a
  <2>2a. a \o r \in Seq(CommandNames)
    BY <2>0, <2>1
  <2>2. PICK b \in Seq(CommandNames) : b = a \o r
    BY <2>2a
  <2>3. (b \o w) \o t = b \o (w \o t)
    BY SMTT(60)
  <2>4a. w \o t \in Seq(CommandNames)
    BY <2>0
  <2>4. PICK d \in Seq(CommandNames) : d = w \o t
    BY <2>4a
  <2>5. (a \o r) \o d = a \o (r \o d)
    BY SMTT(60)
  <2>6a. r \o d \in Seq(CommandNames)
    BY <2>0, <2>4
  <2>6. PICK e \in Seq(CommandNames) : e = r \o d
    BY <2>6a
  <2>7. (p \o m) \o e = p \o (m \o e)
    BY SMTT(60)
  <2> QED
    BY <2>1, <2>2, <2>3, <2>4, <2>5, <2>6, <2>7
<1>8. r \o (w \o t) = GetReady
  BY <1>3, <1>4, <1>5, SwapIs, ReadyIs
<1>9. m \o GetReady \in AfterCopy
  <2>1. CASE backend = "postgres"
    BY <1>2, <2>1, DatabaseIs DEF AfterCopy
  <2>2. CASE backend # "postgres"
    <3>1. m = <<>> /\ GetReady \in Seq(CommandNames)
      BY <1>2, <2>2, Rests
    <3>2. m \o GetReady = GetReady
      BY <3>1, ConcatEmptySeq
    <3> QED
      BY <3>2 DEF AfterCopy
  <2> QED
    BY <2>1, <2>2
<1>10. p \o (m \o GetReady) = Unpack(m \o GetReady)
  BY <1>1, <1>9, PrepareIs
<1> QED
  BY <1>6, <1>7, <1>8, <1>9, <1>10

LEMMA ForwardIs ==
  /\ target.code = "new" => Forward = Tail4
  /\ target.code # "new" /\ target = NoTree => Forward = MoveIn
  /\ target.code # "new" /\ target # NoTree => Forward = SetAside
<1>1. PICK t \in Seq(CommandNames) : t = Tail4
  BY Rests
<1>2. PICK i \in Seq(CommandNames) : i = <<"moveIn">>
  BY Literals
<1>3. PICK a \in Seq(CommandNames) : a = IF target = NoTree THEN <<>> ELSE <<"setAside">>
  <2>1. <<"setAside">> \in Seq(CommandNames) /\ <<>> \in Seq(CommandNames)
    BY Named
  <2> QED
    BY <2>1
<1>4. target.code # "new" => Forward = (a \o i) \o t
  BY <1>1, <1>2, <1>3 DEF Forward
<1>5. (a \o i) \o t = a \o (i \o t)
  OBVIOUS
<1>6. i \o t = MoveIn /\ MoveIn \in Seq(CommandNames)
  BY <1>1, <1>2, Rests DEF MoveIn, Then
<1>7. a = <<>> => a \o MoveIn = MoveIn
  BY <1>6, ConcatEmptySeq
<1>8. a = <<"setAside">> => a \o MoveIn = SetAside
  BY DEF SetAside, Then
<1> QED
  BY <1>3, <1>4, <1>5, <1>6, <1>7, <1>8 DEF Forward
-----------------------------------------------------------------------------
\* What a command does.
LEMMA RunKeeps ==
  ASSUME Run
  PROVE  /\ todo' = Tail(todo) /\ backend' = backend /\ mode' = mode /\ stored' = stored
         /\ faults' = faults /\ unstopped' = unstopped /\ ~Regresses
<1>1. MayRun => ~Regresses
  BY DEF MayRun
<1> QED
  BY <1>1 DEF Run

LEMMA RunPhase ==
  ASSUME Run, Command \in PhaseSet
  PROVE  /\ target' = target /\ stage' = stage /\ previous' = previous
         /\ schema' = schema /\ running' = running /\ journal' = Command
         /\ wereActive' = IF Command = "STAGED" THEN running # "none" ELSE wereActive
<1>1. Command \notin {"unpack", "copy", "setAside", "moveIn", "dropStage", "mutate", "migrate", "stop",
                      "services", "restart"}
  BY DEF PhaseSet, Early, Mutating, Swapping, Late
<1>2. target' = target /\ stage' = stage /\ previous' = previous
  BY <1>1 DEF Run, MoveTrees, trees
<1>3. schema' = schema
  BY <1>1 DEF Run
<1>4. running' = running
  BY <1>1 DEF Run, Services
<1>5. Command \in ToSet(Phases) /\ WriteJournal
  BY PhaseNames DEF Run
<1>6. journal' = Command
  <2>1. Command # "archive"
    BY DEF PhaseSet, Early, Mutating, Swapping, Late
  <2> QED
    BY <1>5, <2>1 DEF WriteJournal
<1>7. wereActive' = IF Command = "STAGED" THEN running # "none" ELSE wereActive
  BY <1>5 DEF WriteJournal
<1> QED
  BY <1>2, <1>3, <1>4, <1>6, <1>7

LEMMA RunPlain ==
  ASSUME Run, Command \notin PhaseSet
  PROVE  /\ journal' = IF Command = "archive" THEN "none" ELSE journal
         /\ wereActive' = wereActive
<1>1. Command # "STAGED"
  BY DEF PhaseSet, Early
<1> QED
  BY <1>1, PhaseNames DEF Run, WriteJournal

LEMMA RunServices ==
  ASSUME Run
  PROVE  /\ Command \notin {"stop", "services", "restart"} => running' = running
         /\ Command = "stop" => running' = "none"
         /\ Command = "services" => running' = target.code
         /\ Command = "restart" => running' = IF wereActive THEN target.code ELSE running
<1>1. running' = Services
  BY DEF Run
<1> QED
  BY <1>1 DEF Services

LEMMA RunSchema ==
  ASSUME Run
  PROVE  /\ Command \notin {"mutate", "migrate"} => schema' = schema
         /\ schema' \in {"partial", "new", schema}
BY DEF Run

LEMMA RunTrees ==
  ASSUME Run
  PROVE  /\ Command \notin {"unpack", "copy", "setAside", "moveIn", "dropStage"} =>
              target' = target /\ stage' = stage /\ previous' = previous
         /\ Command = "unpack" =>
              stage' = [code |-> "new", rows |-> {}] /\ target' = target /\ previous' = previous
         /\ Command = "copy" =>
              /\ stage' = [stage EXCEPT !.rows = target.rows]
              /\ target' = target /\ previous' = previous
         /\ Command = "setAside" => previous' = target /\ target' = NoTree /\ stage' = stage
         /\ Command = "moveIn" => target' = stage /\ stage' = NoTree /\ previous' = previous
         /\ Command = "dropStage" /\ target # NoTree =>
              target' = target /\ stage' = NoTree /\ previous' = previous
<1>1. MoveTrees
  BY DEF Run
<1>2. Command \notin {"unpack", "copy", "setAside", "moveIn", "dropStage"} =>
        target' = target /\ stage' = stage /\ previous' = previous
  BY <1>1 DEF MoveTrees, trees
<1>3. Command = "unpack" =>
        stage' = [code |-> "new", rows |-> {}] /\ target' = target /\ previous' = previous
  BY <1>1 DEF MoveTrees
<1>4. Command = "copy" => /\ stage' = [stage EXCEPT !.rows = target.rows]
                          /\ target' = target /\ previous' = previous
  BY <1>1 DEF MoveTrees
<1>5. Command = "setAside" => previous' = target /\ target' = NoTree /\ stage' = stage
  BY <1>1 DEF MoveTrees
<1>6. Command = "moveIn" => target' = stage /\ stage' = NoTree /\ previous' = previous
  BY <1>1 DEF MoveTrees
<1>7. Command = "dropStage" /\ target # NoTree =>
        target' = target /\ stage' = NoTree /\ previous' = previous
  BY <1>1 DEF MoveTrees
<1> QED
  BY <1>2, <1>3, <1>4, <1>5, <1>6, <1>7

LEMMA TreeFacts ==
  /\ NoTree.code = "none" /\ NoTree.rows = {} /\ NoTree \in Trees
  /\ \A t \in Trees : t.code \in {"none", "old", "new"} /\ t.rows \subseteq 1..MaxEvents
                      /\ (t.code # "none" => t # NoTree)
                      /\ [t EXCEPT !.rows = {}].code = t.code
  /\ \A t \in Trees, r \in SUBSET (1..MaxEvents) :
       [t EXCEPT !.rows = r] \in Trees /\ [t EXCEPT !.rows = r].code = t.code
       /\ [t EXCEPT !.rows = r].rows = r
<1>1. NoTree.code = "none" /\ NoTree.rows = {} /\ NoTree \in Trees
  BY DEF NoTree, Trees
<1>2. ASSUME NEW t \in Trees
      PROVE  t.code \in {"none", "old", "new"} /\ t.rows \subseteq 1..MaxEvents
             /\ (t.code # "none" => t # NoTree) /\ [t EXCEPT !.rows = {}].code = t.code
  BY <1>1 DEF Trees
<1>3. ASSUME NEW t \in Trees, NEW r \in SUBSET (1..MaxEvents)
      PROVE  [t EXCEPT !.rows = r] \in Trees /\ [t EXCEPT !.rows = r].code = t.code
             /\ [t EXCEPT !.rows = r].rows = r
  BY DEF Trees
<1> QED
  BY <1>1, <1>2, <1>3

\* A phase that is journalled changes nothing else.
LEMMA PhaseMoves ==
  ASSUME UpInv, Run, Command \in PhaseSet
  PROVE  /\ TreesOK' /\ RunningOK'
         /\ Quiet => Quiet'
         /\ StageIsCopy => StageIsCopy'
         /\ MayRestart /\ Command # "STAGED" => MayRestart'
         /\ StagedTree => StagedTree'
         /\ ReadyTree => ReadyTree'
         /\ journal' = Command /\ target' = target /\ stage' = stage
<1>1. /\ target' = target /\ stage' = stage /\ previous' = previous
      /\ schema' = schema /\ running' = running /\ journal' = Command
      /\ Command # "STAGED" => wereActive' = wereActive
  BY RunPhase
<1>2. stored' = stored /\ unstopped' = unstopped
  BY RunKeeps
<1>3. TreesOK'
  BY <1>1 DEF UpInv, TreesOK
<1>4. Current' = Current
  BY <1>1 DEF Current
<1>5. RunningOK'
  BY <1>1, <1>2, <1>4 DEF UpInv, RunningOK
<1>6. Quiet => Quiet'
  BY <1>1, <1>2 DEF Quiet
<1>7. StageIsCopy => StageIsCopy'
  BY <1>1, <1>2, <1>4 DEF StageIsCopy
<1>8. MayRestart /\ Command # "STAGED" => MayRestart'
  BY <1>1, <1>2 DEF MayRestart
<1>9. StagedTree => StagedTree'
  BY <1>1 DEF StagedTree
<1> QED
  BY <1>1, <1>3, <1>5, <1>6, <1>7, <1>8, <1>9 DEF ReadyTree

\* Places at which only an early phase, or none, is in the journal.
LEMMA EarlyJournal ==
  ASSUME journal' \in Early \cup {"none"}, target'.code = "old", journal' # "none" => MayRestart'
  PROVE  JournalOK'
<1>1. journal' \notin Swapping \cup Late \cup {Mutating}
  BY DEF Early, Swapping, Late, Mutating
<1>2. target' # NoTree
  BY TreeFacts
<1>3. journal' \in Early => MayRestart'
  BY DEF Early
<1> QED
  BY <1>1, <1>2, <1>3 DEF JournalOK

LEMMA UpgradeSteps ==
  ASSUME UpInv, Run, UpgradeLeft
  PROVE  TreesOK' /\ JournalOK' /\ RunningOK' /\ Left'
<1> USE DEF Command
<1>0. /\ target.code = "old" /\ target # NoTree /\ target \in Trees /\ stage \in Trees
      /\ journal \in Early => MayRestart
  BY TreeFacts DEF UpInv, TreesOK, JournalOK, UpgradeLeft, StagedTree, ReadyTree
<1>1. PICK s \in AfterCopy :
        \/ todo = Unpack(s) /\ journal = "none" /\ target.code = "old"
        \/ todo = Staged(s) /\ journal = "none" /\ StagedTree
        \/ todo = StopAll(s) /\ journal = "STAGED" /\ StagedTree
        \/ todo = Stopped4(s) /\ journal = "STAGED" /\ StagedTree /\ Quiet
        \/ todo = CopyState(s) /\ journal = "SERVICES_STOPPED" /\ StagedTree /\ Quiet
        \/ todo = Copied(s) /\ journal = "SERVICES_STOPPED" /\ ReadyTree
  BY DEF UpgradeLeft
<1>2. todo' = Tail(todo) /\ stored' = stored /\ unstopped' = unstopped
  BY RunKeeps
<1>3. CASE todo = Unpack(s) /\ journal = "none"
  <2>1. Command = "unpack" /\ todo' = Staged(s)
    BY <1>2, <1>3, PrepareRests
  <2>2. Command \notin PhaseSet
    BY <2>1 DEF PhaseSet, Early, Mutating, Swapping, Late
  <2>3. /\ stage' = [code |-> "new", rows |-> {}] /\ target' = target /\ previous' = previous
        /\ running' = running /\ schema' = schema /\ journal' = "none"
    BY <1>3, <2>1, <2>2, RunTrees, RunPlain, RunServices, RunSchema
  <2>4. stage' \in Trees /\ stage'.code = "new"
    BY <2>3 DEF Trees
  <2>5. TreesOK'
    BY <2>3, <2>4 DEF UpInv, TreesOK
  <2>6. JournalOK'
    BY <1>0, <2>3, EarlyJournal
  <2>7. Current' = Current
    BY <2>3 DEF Current
  <2>8. RunningOK'
    BY <1>2, <2>3, <2>7 DEF UpInv, RunningOK
  <2>9. Left'
    BY <1>0, <2>1, <2>3, <2>4 DEF Left, UpgradeLeft, StagedTree
  <2> QED
    BY <2>5, <2>6, <2>8, <2>9
<1>4. CASE todo = Staged(s) /\ journal = "none" /\ StagedTree
  <2>1. Command = "STAGED" /\ todo' = StopAll(s)
    BY <1>2, <1>4, PrepareRests
  <2>2. Command \in PhaseSet
    BY <2>1 DEF PhaseSet, Early
  <2>3. /\ target' = target /\ running' = running /\ schema' = schema
        /\ wereActive' = (running # "none")
    BY <2>1, <2>2, RunPhase
  <2>4. MayRestart'
    BY <1>0, <1>2, <2>3 DEF UpInv, RunningOK, MayRestart
  <2>5. TreesOK' /\ RunningOK' /\ StagedTree' /\ journal' = "STAGED"
    BY <1>4, <2>1, <2>2, PhaseMoves
  <2>6. JournalOK'
    BY <1>0, <2>3, <2>4, <2>5, EarlyJournal DEF Early
  <2>7. Left'
    BY <2>1, <2>5 DEF Left, UpgradeLeft
  <2> QED
    BY <2>5, <2>6, <2>7
<1>5. CASE todo = StopAll(s) /\ journal = "STAGED" /\ StagedTree
  <2>1. Command = "stop" /\ todo' = Stopped4(s)
    BY <1>2, <1>5, PrepareRests
  <2>2. Command \notin PhaseSet
    BY <2>1 DEF PhaseSet, Early, Mutating, Swapping, Late
  <2>3. /\ stage' = stage /\ target' = target /\ previous' = previous
        /\ running' = "none" /\ schema' = schema /\ journal' = "STAGED" /\ wereActive' = wereActive
    BY <1>5, <2>1, <2>2, RunTrees, RunPlain, RunServices, RunSchema
  <2>4. TreesOK'
    BY <2>3 DEF UpInv, TreesOK
  <2>5. MayRestart'
    BY <1>0, <1>2, <1>5, <2>3 DEF MayRestart, Early
  <2>6. JournalOK'
    BY <1>0, <2>3, <2>5, EarlyJournal DEF Early
  <2>7. Current' = Current
    BY <2>3 DEF Current
  <2>8. RunningOK'
    BY <1>2, <2>3, <2>7 DEF UpInv, RunningOK
  <2>9. StagedTree' /\ Quiet'
    BY <1>5, <2>3 DEF StagedTree, Quiet
  <2>10. Left'
    BY <2>1, <2>3, <2>9 DEF Left, UpgradeLeft
  <2> QED
    BY <2>4, <2>6, <2>8, <2>10
<1>6. CASE todo = Stopped4(s) /\ journal = "STAGED" /\ StagedTree /\ Quiet
  <2>1. Command = "SERVICES_STOPPED" /\ todo' = CopyState(s)
    BY <1>2, <1>6, PrepareRests
  <2>2. Command \in PhaseSet
    BY <2>1 DEF PhaseSet, Early
  <2>3. /\ TreesOK' /\ RunningOK' /\ StagedTree' /\ Quiet' /\ MayRestart'
        /\ journal' = "SERVICES_STOPPED" /\ target' = target
    BY <1>0, <1>6, <2>1, <2>2, PhaseMoves DEF Early
  <2>4. JournalOK'
    BY <1>0, <2>3, EarlyJournal DEF Early
  <2>5. Left'
    BY <2>1, <2>3 DEF Left, UpgradeLeft
  <2> QED
    BY <2>3, <2>4, <2>5
<1>7. CASE todo = CopyState(s) /\ journal = "SERVICES_STOPPED" /\ StagedTree /\ Quiet
  <2>1. Command = "copy" /\ todo' = Copied(s)
    BY <1>2, <1>7, PrepareRests
  <2>2. Command \notin PhaseSet
    BY <2>1 DEF PhaseSet, Early, Mutating, Swapping, Late
  <2>3. /\ stage' = [stage EXCEPT !.rows = target.rows] /\ target' = target /\ previous' = previous
        /\ running' = running /\ schema' = schema /\ journal' = "SERVICES_STOPPED" /\ wereActive' = wereActive
    BY <1>7, <2>1, <2>2, RunTrees, RunPlain, RunServices, RunSchema
  <2>4. stage' \in Trees /\ stage'.code = stage.code /\ stage'.rows = target.rows
    BY <1>0, <2>3, TreeFacts
  <2>5. stage.code = "new"
    BY <1>7 DEF StagedTree
  <2>6. TreesOK'
    BY <2>3, <2>4, <2>5 DEF UpInv, TreesOK
  <2>7. MayRestart'
    BY <1>0, <1>2, <1>7, <2>3 DEF MayRestart, Early
  <2>8. JournalOK'
    BY <1>0, <2>3, <2>7, EarlyJournal DEF Early
  <2>9. Current' = Current /\ Current' = target
    BY <1>0, <2>3 DEF Current
  <2>10. RunningOK'
    BY <1>2, <2>3, <2>9 DEF UpInv, RunningOK
  <2>11. StagedTree' /\ Quiet' /\ StageIsCopy'
    BY <1>2, <1>7, <2>3, <2>4, <2>9 DEF StagedTree, Quiet, StageIsCopy
  <2>12. Left'
    BY <2>1, <2>3, <2>11 DEF Left, UpgradeLeft, ReadyTree
  <2> QED
    BY <2>6, <2>8, <2>10, <2>12
<1>8. CASE todo = Copied(s) /\ journal = "SERVICES_STOPPED" /\ ReadyTree
  <2>1. Command = "STATE_COPIED" /\ todo' = s
    BY <1>2, <1>8, PrepareRests
  <2>2. Command \in PhaseSet
    BY <2>1 DEF PhaseSet, Early
  <2>3. /\ TreesOK' /\ RunningOK' /\ ReadyTree' /\ MayRestart'
        /\ journal' = "STATE_COPIED" /\ target' = target
    BY <1>0, <1>8, <2>1, <2>2, PhaseMoves DEF Early
  <2>4. JournalOK'
    BY <1>0, <2>3, EarlyJournal DEF Early
  <2>5. CASE s = BackupDb
    BY <2>1, <2>3, <2>4, <2>5 DEF Left, DatabaseLeft
  <2>6. CASE s = GetReady
    BY <2>1, <2>3, <2>4, <2>6 DEF Left, CutoverLeft
  <2> QED
    BY <2>5, <2>6 DEF AfterCopy
<1> QED
  BY <1>1, <1>3, <1>4, <1>5, <1>6, <1>7, <1>8

\* Places at which the journal is in the middle, before the trees are swapped.
LEMMA ReadyJournal ==
  ASSUME journal' \in Swapping \cup {Mutating}, ReadyTree'
  PROVE  JournalOK'
<1>1. journal' \notin Early \cup Late
  BY DEF Early, Swapping, Late, Mutating
<1>2. target'.code = "old" /\ stage'.code = "new" /\ Quiet' /\ StageIsCopy'
  BY DEF ReadyTree, StagedTree
<1>3. target' # NoTree
  BY <1>2, TreeFacts
<1> QED
  BY <1>1, <1>2, <1>3 DEF JournalOK

LEMMA DatabaseSteps ==
  ASSUME UpInv, Run, DatabaseLeft
  PROVE  TreesOK' /\ JournalOK' /\ RunningOK' /\ Left'
<1> USE DEF Command
<1>0. ReadyTree /\ target.code = "old" /\ (journal \in Early => MayRestart) /\ Quiet /\ target # NoTree
  BY TreeFacts DEF UpInv, JournalOK, DatabaseLeft, StagedTree, ReadyTree
<1>1. todo' = Tail(todo) /\ stored' = stored /\ unstopped' = unstopped
  BY RunKeeps
<1>2. CASE todo = BackupDb /\ journal = "STATE_COPIED"
  <2>1. Command = "backup" /\ todo' = JournalDb
    BY <1>1, <1>2, Rests
  <2>2. Command \notin PhaseSet
    BY <2>1 DEF PhaseSet, Early, Mutating, Swapping, Late
  <2>3. /\ stage' = stage /\ target' = target /\ previous' = previous
        /\ running' = running /\ schema' = schema /\ journal' = "STATE_COPIED" /\ wereActive' = wereActive
    BY <1>2, <2>1, <2>2, RunTrees, RunPlain, RunServices, RunSchema
  <2>4. TreesOK'
    BY <2>3 DEF UpInv, TreesOK
  <2>5. MayRestart'
    BY <1>0, <1>1, <1>2, <2>3 DEF MayRestart, Early
  <2>6. JournalOK'
    BY <1>0, <2>3, <2>5, EarlyJournal DEF Early
  <2>7. Current' = Current
    BY <2>3 DEF Current
  <2>8. RunningOK'
    BY <1>1, <2>3, <2>7 DEF UpInv, RunningOK
  <2>9. ReadyTree'
    BY <1>0, <1>1, <2>3, <2>7 DEF ReadyTree, StagedTree, Quiet, StageIsCopy
  <2>10. Left'
    BY <2>1, <2>3, <2>9 DEF Left, DatabaseLeft
  <2> QED
    BY <2>4, <2>6, <2>8, <2>10
<1>3. CASE todo = JournalDb /\ journal = "STATE_COPIED"
  <2>1. Command = Mutating /\ todo' = MutateDb
    BY <1>1, <1>3, Rests
  <2>2. Command \in PhaseSet
    BY <2>1 DEF PhaseSet
  <2>3. TreesOK' /\ RunningOK' /\ ReadyTree' /\ journal' = Mutating
    BY <1>0, <2>1, <2>2, PhaseMoves
  <2>4. JournalOK'
    BY <2>3, ReadyJournal
  <2>5. Left'
    BY <2>1, <2>3 DEF Left, DatabaseLeft
  <2> QED
    BY <2>3, <2>4, <2>5
<1>4. CASE todo \in {MutateDb, MigrateDb} /\ journal = Mutating
  <2>1. /\ todo = MutateDb => Command = "mutate" /\ todo' = MigrateDb
        /\ todo = MigrateDb => Command = "migrate" /\ todo' = Migrated
    BY <1>1, Rests
  <2>2. Command \in {"mutate", "migrate"} /\ todo' \in {MigrateDb, Migrated}
    BY <1>4, <2>1
  <2>3. Command \notin PhaseSet
    BY <2>2 DEF PhaseSet, Early, Mutating, Swapping, Late
  <2>4. stage' = stage /\ target' = target /\ previous' = previous
    BY <2>2, RunTrees
  <2>5. running' = running /\ journal' = Mutating /\ schema' \in {"partial", "new", schema}
    BY <1>4, <2>2, <2>3, RunPlain, RunServices, RunSchema
  <2>6. TreesOK'
    BY <2>4 DEF UpInv, TreesOK
  <2>7. Current' = Current
    BY <2>4 DEF Current
  <2>8. RunningOK'
    <3>1. ~unstopped => running = "none"
      BY <1>0 DEF Quiet
    <3> QED
      BY <1>1, <2>4, <2>5, <2>7, <3>1 DEF UpInv, RunningOK
  <2>9. ReadyTree'
    BY <1>0, <1>1, <2>4, <2>5, <2>7 DEF ReadyTree, StagedTree, Quiet, StageIsCopy
  <2>10. JournalOK'
    BY <2>5, <2>9, ReadyJournal
  <2>11. Left'
    BY <2>2, <2>5, <2>9 DEF Left, DatabaseLeft
  <2> QED
    BY <2>6, <2>8, <2>10, <2>11
<1>5. CASE todo = Migrated /\ journal = Mutating
  <2>1. Command = "DATABASE_MIGRATED" /\ todo' = GetReady
    BY <1>1, <1>5, Rests
  <2>2. Command \in PhaseSet
    BY <2>1 DEF PhaseSet, Swapping
  <2>3. TreesOK' /\ RunningOK' /\ ReadyTree' /\ journal' = "DATABASE_MIGRATED"
    BY <1>0, <2>1, <2>2, PhaseMoves
  <2>4. JournalOK'
    BY <2>3, ReadyJournal DEF Swapping
  <2>5. Left'
    BY <2>1, <2>3 DEF Left, CutoverLeft
  <2> QED
    BY <2>3, <2>4, <2>5
<1> QED
  BY <1>2, <1>3, <1>4, <1>5 DEF DatabaseLeft

\* Places at which the new tree is the target.
LEMMA NewJournal ==
  ASSUME journal' \in Swapping \cup Late \cup {"none"}, target'.code = "new",
         journal' \in Swapping => Quiet'
  PROVE  JournalOK'
<1>1. journal' \notin Early \cup {Mutating}
  BY DEF Early, Swapping, Late, Mutating
<1>2. target' # NoTree
  BY TreeFacts
<1> QED
  BY <1>1, <1>2 DEF JournalOK

LEMMA CutoverSteps ==
  ASSUME UpInv, Run, CutoverLeft
  PROVE  TreesOK' /\ JournalOK' /\ RunningOK' /\ Left'
<1> USE DEF Command
<1>0. /\ target \in Trees /\ stage \in Trees /\ previous \in Trees
      /\ journal \in Swapping => Quiet
      /\ journal \in Swapping /\ target.code # "new" => stage.code = "new" /\ StageIsCopy
      /\ journal \in Late => target.code = "new"
  BY DEF UpInv, TreesOK, JournalOK
<1>1. todo' = Tail(todo) /\ stored' = stored /\ unstopped' = unstopped
  BY RunKeeps
<1>2. CASE todo = GetReady /\ ReadyTree
  <2>1. Command = "READY_FOR_CUTOVER" /\ todo' = CutOver
    BY <1>1, <1>2, Rests
  <2>2. Command \in PhaseSet
    BY <2>1 DEF PhaseSet, Swapping
  <2>3. TreesOK' /\ RunningOK' /\ ReadyTree' /\ journal' = "READY_FOR_CUTOVER"
    BY <1>2, <2>1, <2>2, PhaseMoves
  <2>4. JournalOK'
    BY <2>3, ReadyJournal DEF Swapping
  <2>5. Left'
    BY <2>1, <2>3 DEF Left, CutoverLeft
  <2> QED
    BY <2>3, <2>4, <2>5
<1>3. CASE todo = CutOver /\ ReadyTree
  <2>1. Command = "CUTOVER_STARTED" /\ todo' = SetAside
    BY <1>1, <1>3, Rests
  <2>2. Command \in PhaseSet
    BY <2>1 DEF PhaseSet, Swapping
  <2>3. TreesOK' /\ RunningOK' /\ ReadyTree' /\ journal' = "CUTOVER_STARTED"
    BY <1>3, <2>1, <2>2, PhaseMoves
  <2>4. JournalOK'
    BY <2>3, ReadyJournal DEF Swapping
  <2>5. target'.code = "old" /\ journal' \in Swapping
    BY <2>3 DEF ReadyTree, StagedTree, Swapping
  <2>6. Left'
    BY <2>1, <2>5 DEF Left, CutoverLeft
  <2> QED
    BY <2>3, <2>4, <2>6
<1>4. CASE todo = SetAside /\ journal \in Swapping /\ target.code = "old"
  <2>1. Command = "setAside" /\ todo' = MoveIn
    BY <1>1, <1>4, Rests
  <2>2. Command \notin PhaseSet
    BY <2>1 DEF PhaseSet, Early, Mutating, Swapping, Late
  <2>3. previous' = target /\ target' = NoTree /\ stage' = stage
    BY <2>1, RunTrees
  <2>4. running' = running /\ schema' = schema /\ journal' = journal
    BY <2>1, <2>2, RunPlain, RunServices, RunSchema
  <2>5. target # NoTree
    BY <1>4, TreeFacts
  <2>6. TreesOK'
    <3>1. NoTree \in Trees /\ NoTree.code = "none"
      BY TreeFacts
    <3> QED
      BY <1>4, <2>3, <3>1 DEF UpInv, TreesOK
  <2>7. Current = target /\ Current' = target
    BY <2>3, <2>5 DEF Current
  <2>8. Quiet' /\ StageIsCopy' /\ stage'.code = "new"
    BY <1>0, <1>1, <1>4, <2>3, <2>4, <2>7 DEF Quiet, StageIsCopy
  <2>9. journal' \notin Early \cup Late \cup {Mutating} /\ target'.code = "none"
    BY <1>4, <2>3, <2>4, TreeFacts DEF Early, Swapping, Late, Mutating
  <2>10. JournalOK'
    BY <1>4, <2>4, <2>8, <2>9 DEF JournalOK
  <2>11. RunningOK'
    BY <1>1, <2>4, <2>7, <2>8 DEF UpInv, RunningOK, Quiet
  <2>12. Left'
    BY <1>4, <2>1, <2>3, <2>4 DEF Left, CutoverLeft
  <2> QED
    BY <2>6, <2>10, <2>11, <2>12
<1>5. CASE todo = MoveIn /\ journal \in Swapping /\ target = NoTree
  <2>1. Command = "moveIn" /\ todo' = Tail4
    BY <1>1, <1>5, Rests
  <2>2. Command \notin PhaseSet
    BY <2>1 DEF PhaseSet, Early, Mutating, Swapping, Late
  <2>3. target' = stage /\ stage' = NoTree /\ previous' = previous
    BY <2>1, RunTrees
  <2>4. running' = running /\ schema' = schema /\ journal' = journal
    BY <2>1, <2>2, RunPlain, RunServices, RunSchema
  <2>5. stage.code = "new" /\ StageIsCopy /\ Quiet
    BY <1>0, <1>5, TreeFacts
  <2>6. NoTree \in Trees /\ NoTree.code = "none" /\ target' # NoTree
    BY <2>3, <2>5, TreeFacts
  <2>7. TreesOK'
    BY <2>3, <2>5, <2>6 DEF UpInv, TreesOK
  <2>8. Current = previous /\ Current' = stage
    BY <1>5, <2>3, <2>6 DEF Current
  <2>9. Quiet'
    BY <1>1, <2>4, <2>5 DEF Quiet
  <2>10. JournalOK'
    BY <1>5, <2>3, <2>4, <2>5, <2>9, NewJournal
  <2>11. RunningOK'
    BY <1>1, <2>4, <2>5, <2>8, <2>9 DEF UpInv, RunningOK, Quiet, StageIsCopy
  <2>12. Left'
    BY <1>5, <2>1, <2>3, <2>4, <2>5 DEF Left, CutoverLeft
  <2> QED
    BY <2>7, <2>10, <2>11, <2>12
<1>6. CASE todo = Tail4 /\ journal \in Swapping \cup Late /\ target.code = "new"
  <2>1. Command = "CUTOVER_COMPLETE" /\ todo' = Serve
    BY <1>1, <1>6, EndRests
  <2>2. Command \in PhaseSet
    BY <2>1 DEF PhaseSet, Late
  <2>3. TreesOK' /\ RunningOK' /\ journal' \in Late /\ target'.code = "new"
    BY <1>6, <2>1, <2>2, PhaseMoves DEF Late
  <2>4. JournalOK'
    BY <2>3, NewJournal DEF Swapping, Late
  <2>5. Left'
    BY <2>1, <2>3 DEF Left, CutoverLeft
  <2> QED
    BY <2>3, <2>4, <2>5
<1>7. CASE todo = Serve /\ journal \in Late
  <2>1. Command = "services" /\ todo' = Installed
    BY <1>1, <1>7, EndRests
  <2>2. Command \notin PhaseSet
    BY <2>1 DEF PhaseSet, Early, Mutating, Swapping, Late
  <2>3. target' = target /\ stage' = stage /\ previous' = previous
    BY <2>1, RunTrees
  <2>4. running' = "new" /\ schema' = schema /\ journal' = journal /\ target.code = "new"
    BY <1>0, <1>7, <2>1, <2>2, RunPlain, RunServices, RunSchema
  <2>5. TreesOK'
    BY <2>3 DEF UpInv, TreesOK
  <2>6. JournalOK'
    BY <1>7, <2>3, <2>4, NewJournal DEF Swapping, Late
  <2>7. Current' = Current
    BY <2>3 DEF Current
  <2>8. RunningOK'
    BY <1>1, <2>3, <2>4, <2>7 DEF UpInv, RunningOK
  <2>9. Left'
    BY <1>7, <2>1, <2>4 DEF Left, CutoverLeft
  <2> QED
    BY <2>5, <2>6, <2>8, <2>9
<1>8. CASE todo \in {Installed, Operational} /\ journal \in Late
  <2>1. /\ todo = Installed => Command = "SERVICES_INSTALLED" /\ todo' = Verify
        /\ todo = Operational => Command = "OPERATIONAL" /\ todo' = <<"archive">>
    BY <1>1, EndRests
  <2>2. Command \in Late /\ todo' \in {Verify, <<"archive">>}
    BY <1>8, <2>1 DEF Late
  <2>3. Command \in PhaseSet
    BY <2>2 DEF PhaseSet
  <2>4. TreesOK' /\ RunningOK' /\ journal' \in Late /\ target'.code = "new"
    BY <1>0, <1>8, <2>2, <2>3, PhaseMoves
  <2>5. JournalOK'
    BY <2>4, NewJournal DEF Swapping, Late
  <2>6. Left'
    BY <2>2, <2>4, TreeFacts DEF Left, CutoverLeft
  <2> QED
    BY <2>4, <2>5, <2>6
<1>9. CASE todo = Verify /\ journal \in Late
  <2>1. Command = "verify" /\ todo' = Operational
    BY <1>1, <1>9, EndRests
  <2>2. Command \notin PhaseSet
    BY <2>1 DEF PhaseSet, Early, Mutating, Swapping, Late
  <2>3. target' = target /\ stage' = stage /\ previous' = previous
    BY <2>1, RunTrees
  <2>4. running' = running /\ schema' = schema /\ journal' = journal /\ target.code = "new"
    BY <1>0, <1>9, <2>1, <2>2, RunPlain, RunServices, RunSchema
  <2>5. TreesOK'
    BY <2>3 DEF UpInv, TreesOK
  <2>6. JournalOK'
    BY <1>9, <2>3, <2>4, NewJournal DEF Swapping, Late
  <2>7. Current' = Current
    BY <2>3 DEF Current
  <2>8. RunningOK'
    BY <1>1, <2>3, <2>4, <2>7 DEF UpInv, RunningOK
  <2>9. Left'
    BY <1>9, <2>1, <2>4 DEF Left, CutoverLeft
  <2> QED
    BY <2>5, <2>6, <2>8, <2>9
<1> QED
  BY <1>2, <1>3, <1>4, <1>5, <1>6, <1>7, <1>8, <1>9 DEF CutoverLeft

\* The handler and the recoveries that put the old tree back.
LEMMA OldTreeSteps ==
  ASSUME UpInv, Run, target.code = "old", journal \in Early \cup {"none", Mutating},
         Command \in {"archive", "dropStage", "restart"}, Command = "restart" => MayRestart /\ journal # Mutating
  PROVE  /\ TreesOK' /\ JournalOK' /\ RunningOK' /\ target'.code = "old"
         /\ journal' = IF Command = "archive" THEN "none" ELSE journal
         /\ MayRestart => MayRestart'
<1>0. target # NoTree
  BY TreeFacts
<1>1. stored' = stored /\ unstopped' = unstopped
  BY RunKeeps
<1>2. Command \notin PhaseSet
  BY DEF PhaseSet, Early, Mutating, Swapping, Late
<1>3. /\ journal' = IF Command = "archive" THEN "none" ELSE journal
      /\ wereActive' = wereActive /\ schema' = schema
  BY <1>2, RunPlain, RunSchema
<1>4. target' = target /\ previous' = previous /\ stage' \in {stage, NoTree}
  BY <1>0, RunTrees
<1>5. TreesOK'
  <2>1. NoTree \in Trees /\ NoTree.code = "none"
    BY TreeFacts
  <2> QED
    BY <1>4, <2>1 DEF UpInv, TreesOK
<1>6. MayRestart => MayRestart'
  BY <1>1, <1>3 DEF MayRestart
<1>7. Current' = Current
  BY <1>4 DEF Current
<1>8. running' = running \/ (Command = "restart" /\ wereActive /\ running' = "old")
  BY RunServices
<1>9. RunningOK'
  BY <1>1, <1>3, <1>4, <1>7, <1>8 DEF UpInv, RunningOK, MayRestart
<1>10. JournalOK'
  <2>1. CASE journal' \in Early \cup {"none"}
    <3>1. journal' \in Early => journal \in Early
      BY <1>3, <2>1 DEF Early
    <3>2. journal' # "none" => journal' \in Early
      BY <2>1
    <3>3. journal' # "none" => MayRestart'
      BY <1>6, <3>1, <3>2 DEF UpInv, JournalOK
    <3> QED
      BY <1>4, <2>1, <3>3, EarlyJournal
  <2>2. CASE journal' \notin Early \cup {"none"}
    <3>1. journal' = Mutating /\ journal = Mutating /\ Command # "restart"
      BY <1>3, <2>2
    <3>2. Quiet'
      BY <1>1, <1>8, <3>1 DEF UpInv, JournalOK, Quiet
    <3>3. journal' \notin Early \cup Swapping \cup Late
      BY <3>1 DEF Early, Swapping, Late, Mutating
    <3> QED
      BY <1>0, <1>4, <3>1, <3>2, <3>3 DEF JournalOK
  <2> QED
    BY <2>1, <2>2
<1> QED
  BY <1>3, <1>4, <1>5, <1>6, <1>9, <1>10

LEMMA RestoreSteps ==
  ASSUME UpInv, Run, RestoreLeft
  PROVE  TreesOK' /\ JournalOK' /\ RunningOK' /\ Left'
<1> USE DEF Command
<1>1. target.code = "old" /\ MayRestart /\ journal \in Early \cup {"none"} /\ journal # Mutating
  BY DEF RestoreLeft, Early, Mutating
<1>2. todo' = Tail(todo)
  BY RunKeeps
<1>3. Command \in {"archive", "dropStage", "restart"}
  BY RestoreRests DEF RestoreLeft
<1>4. /\ TreesOK' /\ JournalOK' /\ RunningOK' /\ target'.code = "old" /\ MayRestart'
      /\ journal' = IF Command = "archive" THEN "none" ELSE journal
  BY <1>1, <1>3, OldTreeSteps
<1>5. target' # NoTree
  BY <1>4, TreeFacts
<1>6. Left'
  <2>1. CASE todo = <<"archive", "dropStage", "restart">>
    <3>1. todo' = <<"dropStage", "restart">> /\ journal' = "none"
      BY <1>2, <1>4, <2>1, RestoreRests
    <3> QED
      BY <1>4, <3>1 DEF Left, RestoreLeft
  <2>2. CASE todo = <<"dropStage", "restart">>
    <3>1. todo' = <<"restart">> /\ journal' = journal
      BY <1>2, <1>4, <2>2, RestoreRests
    <3> QED
      BY <1>1, <1>4, <3>1 DEF Left, RestoreLeft
  <2>3. CASE todo = <<"restart">>
    <3>1. todo' = <<>>
      BY <1>2, <2>3, RestoreRests
    <3> QED
      BY <3>1 DEF Left
  <2>4. CASE todo = <<"dropStage", "restart", "archive">> /\ journal \in Early
    <3>1. todo' = <<"restart", "archive">> /\ journal' = journal
      BY <1>2, <1>4, <2>4, RestoreRests
    <3> QED
      BY <1>4, <2>4, <3>1 DEF Left, RestoreLeft
  <2>5. CASE todo = <<"restart", "archive">>
    <3>1. todo' = <<"archive">>
      BY <1>2, <2>5, RestoreRests
    <3> QED
      BY <1>5, <3>1 DEF Left
  <2> QED
    BY <2>1, <2>2, <2>3, <2>4, <2>5 DEF RestoreLeft
<1> QED
  BY <1>4, <1>6

LEMMA RerunSteps ==
  ASSUME UpInv, Run, RerunLeft
  PROVE  TreesOK' /\ JournalOK' /\ RunningOK' /\ Left'
<1> USE DEF Command
<1>1. target.code = "old" /\ journal \in {"none", Mutating}
  BY DEF RerunLeft
<1>2. todo' = Tail(todo)
  BY RunKeeps
<1>3. Command \in {"archive", "dropStage"}
  BY RestoreRests DEF RerunLeft
<1>4. /\ TreesOK' /\ JournalOK' /\ RunningOK' /\ target'.code = "old"
      /\ journal' = IF Command = "archive" THEN "none" ELSE journal
  BY <1>1, <1>3, OldTreeSteps
<1>5. target' # NoTree
  BY <1>4, TreeFacts
<1>6. Left'
  <2>1. CASE todo = <<"archive", "dropStage">>
    <3>1. todo' = <<"dropStage">> /\ journal' = "none"
      BY <1>2, <1>4, <2>1, RestoreRests
    <3> QED
      BY <1>4, <3>1 DEF Left, RerunLeft
  <2>2. CASE todo = <<"dropStage">>
    <3>1. todo' = <<>>
      BY <1>2, <2>2, RestoreRests
    <3> QED
      BY <3>1 DEF Left
  <2>3. CASE todo = <<"dropStage", "archive">>
    <3>1. todo' = <<"archive">>
      BY <1>2, <2>3, RestoreRests
    <3> QED
      BY <1>5, <3>1 DEF Left
  <2> QED
    BY <2>1, <2>2, <2>3 DEF RerunLeft
<1> QED
  BY <1>4, <1>6

LEMMA ArchiveStep ==
  ASSUME UpInv, Run, todo = <<"archive">>, target # NoTree
  PROVE  TreesOK' /\ JournalOK' /\ RunningOK' /\ Left'
<1> USE DEF Command
<1>1. Command = "archive" /\ todo' = <<>> /\ stored' = stored /\ unstopped' = unstopped
  BY RunKeeps, EndRests
<1>2. Command \notin PhaseSet
  BY <1>1 DEF PhaseSet, Early, Mutating, Swapping, Late
<1>3. target' = target /\ stage' = stage /\ previous' = previous
  BY <1>1, RunTrees
<1>4. running' = running /\ schema' = schema /\ journal' = "none"
  BY <1>1, <1>2, RunPlain, RunServices, RunSchema
<1>5. TreesOK'
  BY <1>3 DEF UpInv, TreesOK
<1>6. JournalOK'
  BY <1>3, <1>4 DEF JournalOK, Early, Mutating, Swapping, Late
<1>7. Current' = Current
  BY <1>3 DEF Current
<1>8. RunningOK'
  BY <1>1, <1>3, <1>4, <1>7 DEF UpInv, RunningOK
<1> QED
  BY <1>1, <1>5, <1>6, <1>8 DEF Left

LEMMA RunInv == UpInv /\ Run => UpInv'
<1> SUFFICES ASSUME UpInv, Run PROVE UpInv'
  OBVIOUS
<1>1. TreesOK' /\ JournalOK' /\ RunningOK' /\ Left'
  <2>1. todo # <<>>
    BY DEF Run
  <2> QED
    BY <2>1, UpgradeSteps, DatabaseSteps, CutoverSteps, RestoreSteps, RerunSteps, ArchiveStep DEF UpInv, Left
<1>2. UpTypes'
  <2>1. /\ backend' = backend /\ mode' = mode /\ stored' = stored /\ faults' = faults /\ unstopped' = unstopped
    BY RunKeeps
  <2>2. schema' \in {"old", "partial", "new"}
    BY RunSchema DEF UpInv, UpTypes
  <2>3. journal' \in PhaseSet \cup {"none"} /\ wereActive' \in BOOLEAN
    <3>1. CASE Command \in PhaseSet
      BY <3>1, RunPhase DEF UpInv, UpTypes
    <3>2. CASE Command \notin PhaseSet
      BY <3>2, RunPlain DEF UpInv, UpTypes, PhaseSet
    <3> QED
      BY <3>1, <3>2
  <2>4. running' \in {"none", "old", "new"}
    BY RunServices, TreeFacts DEF UpInv, UpTypes, TreesOK
  <2> QED
    BY <2>1, <2>2, <2>3, <2>4 DEF UpInv, UpTypes, PhaseSet
<1> QED
  BY <1>1, <1>2 DEF UpInv
-----------------------------------------------------------------------------
\* What is cut off leaves the trees, the journal and the database as they are.
LEMMA Untouched ==
  ASSUME UpInv, UNCHANGED <<target, stage, previous, schema, journal, wereActive, stored>>,
         unstopped => unstopped',
         running' = running \/ (running' = "new" /\ target.code = "new" /\ journal \in Late)
  PROVE  TreesOK' /\ JournalOK' /\ RunningOK'
<1>1. /\ target' = target /\ stage' = stage /\ previous' = previous /\ schema' = schema /\ journal' = journal
      /\ wereActive' = wereActive /\ stored' = stored /\ (unstopped => unstopped')
  OBVIOUS
<1>2. TreesOK'
  BY <1>1 DEF UpInv, TreesOK
<1>3. Current' = Current
  BY <1>1 DEF Current
<1>4. RunningOK'
  BY <1>1, <1>3 DEF UpInv, RunningOK
<1>5. CASE running' = running
  <2>1. (Quiet => Quiet') /\ (StageIsCopy => StageIsCopy') /\ (MayRestart => MayRestart')
    BY <1>1, <1>3, <1>5 DEF Quiet, StageIsCopy, MayRestart
  <2>2. JournalOK'
    BY <1>1, <2>1 DEF UpInv, JournalOK
  <2> QED
    BY <1>2, <1>4, <2>2
<1>6. CASE target.code = "new" /\ journal \in Late
  <2>1. JournalOK'
    BY <1>1, <1>6, NewJournal DEF Swapping, Late
  <2> QED
    BY <1>2, <1>4, <2>1
<1> QED
  BY <1>5, <1>6

\* The conditions of the places without running.
LEMMA HandlerLeft ==
  ASSUME UpInv, Trapped, todo' = Handler,
         UNCHANGED <<target, stage, previous, schema, journal, wereActive, stored>>,
         unstopped => unstopped'
  PROVE  Left'
<1>1. /\ target' = target /\ schema' = schema /\ journal' = journal
      /\ wereActive' = wereActive /\ (unstopped => unstopped')
  OBVIOUS
<1>2. journal \in PhaseSet
  BY DEF Trapped, UpInv, UpTypes, PhaseSet
<1>3. CASE journal \in Early
  <2>1. todo' = <<"archive", "dropStage", "restart">>
    BY <1>3, PlanIs DEF Handler
  <2>2. target'.code = "old" /\ MayRestart'
    BY <1>1, <1>3 DEF UpInv, JournalOK, MayRestart
  <2> QED
    BY <1>1, <1>3, <2>1, <2>2 DEF Left, RestoreLeft
<1>4. CASE journal = Mutating
  <2>1. todo' = <<"archive", "dropStage">>
    BY <1>4, PlanIs DEF Handler
  <2>2. target'.code = "old"
    BY <1>1, <1>4 DEF UpInv, JournalOK
  <2> QED
    BY <1>1, <1>4, <2>1, <2>2 DEF Left, RerunLeft
<1>5. CASE journal \in Swapping \cup Late
  <2>1. Plan \notin {"RESTORE", "RERUN"}
    BY <1>5, PlanIs DEF Late
  <2>2. todo' = <<>>
    BY <2>1 DEF Handler
  <2> QED
    BY <2>2 DEF Left
<1> QED
  BY <1>2, <1>3, <1>4, <1>5 DEF PhaseSet

LEMMA ToleratedLeft ==
  ASSUME UpInv, todo # <<>>, Tolerated, todo' = Tail(todo),
         UNCHANGED <<target, stage, previous, schema, journal, wereActive, stored>>,
         unstopped => unstopped', Command = "stop" => Quiet'
  PROVE  Left'
<1>0. Command = Head(todo)
  BY DEF Command
<1>1. /\ target' = target /\ stage' = stage /\ schema' = schema /\ journal' = journal
      /\ wereActive' = wereActive /\ (unstopped => unstopped')
  OBVIOUS
<1>2. Command \in {"stop", "restart", "archive"}
  BY DEF Tolerated
<1>3. CASE UpgradeLeft
  <2>1. PICK s \in AfterCopy : \/ todo \in {Unpack(s), Staged(s), Stopped4(s), CopyState(s), Copied(s)}
                               \/ todo = StopAll(s) /\ journal = "STAGED" /\ StagedTree
    BY <1>3 DEF UpgradeLeft
  <2>2. Command \notin {"unpack", "STAGED", "SERVICES_STOPPED", "copy", "STATE_COPIED"}
    BY <1>2
  <2>3. todo = StopAll(s) /\ journal = "STAGED" /\ StagedTree
    BY <1>0, <2>1, <2>2, PrepareRests
  <2>4. todo' = Stopped4(s) /\ Quiet'
    BY <1>0, <2>3, PrepareRests
  <2>5. journal' = "STAGED" /\ StagedTree'
    BY <1>1, <2>3 DEF StagedTree
  <2> QED
    BY <2>4, <2>5 DEF Left, UpgradeLeft
<1>4. ~DatabaseLeft
  BY <1>0, <1>2, Rests DEF DatabaseLeft, Mutating
<1>5. ~CutoverLeft
  BY <1>0, <1>2, Rests, EndRests DEF CutoverLeft
<1>6. CASE todo = <<"archive">>
  BY <1>6, EndRests DEF Left
<1>7. CASE RestoreLeft
  <2>1. target'.code = "old" /\ MayRestart' /\ target' # NoTree
    BY <1>1, <1>7, TreeFacts DEF RestoreLeft, MayRestart
  <2>2. CASE todo = <<"archive", "dropStage", "restart">> /\ journal \in Early \cup {"none"}
    <3>1. todo' = <<"dropStage", "restart">>
      BY <2>2, RestoreRests
    <3> QED
      BY <1>1, <2>1, <2>2, <3>1 DEF Left, RestoreLeft
  <2>3. CASE todo = <<"restart">>
    <3>1. todo' = <<>>
      BY <2>3, RestoreRests
    <3> QED
      BY <3>1 DEF Left
  <2>4. CASE todo = <<"restart", "archive">>
    <3>1. todo' = <<"archive">>
      BY <2>4, RestoreRests
    <3> QED
      BY <2>1, <3>1 DEF Left
  <2>5. CASE todo \in {<<"dropStage", "restart">>, <<"dropStage", "restart", "archive">>}
    BY <1>0, <1>2, <2>5, RestoreRests
  <2> QED
    BY <1>7, <2>2, <2>3, <2>4, <2>5 DEF RestoreLeft
<1>8. CASE RerunLeft
  <2>1. CASE todo = <<"archive", "dropStage">> /\ journal \in {Mutating, "none"} /\ target.code = "old"
    <3>1. todo' = <<"dropStage">>
      BY <2>1, RestoreRests
    <3> QED
      BY <1>1, <2>1, <3>1 DEF Left, RerunLeft
  <2>2. CASE todo \in {<<"dropStage">>, <<"dropStage", "archive">>}
    BY <1>0, <1>2, <2>2, RestoreRests
  <2> QED
    BY <1>8, <2>1, <2>2 DEF RerunLeft
<1> QED
  BY <1>3, <1>4, <1>5, <1>6, <1>7, <1>8 DEF UpInv, Left

LEMMA GiveUpLeft ==
  ASSUME UpInv, todo # <<>>, GiveUp, unstopped => unstopped', Command = "stop" => Quiet'
  PROVE  Left' /\ mode' \in {"upgrade", "handler", "recover"}
<1>1. UNCHANGED <<target, stage, previous, schema, journal, wereActive, stored>>
  BY DEF GiveUp, trees
<1>2. mode' \in {"upgrade", "handler", "recover"}
  BY DEF GiveUp, UpInv, UpTypes
<1>3. CASE Tolerated
  <2>1. todo' = Tail(todo)
    BY <1>3 DEF GiveUp
  <2> QED
    BY <1>1, <1>2, <1>3, <2>1, ToleratedLeft
<1>4. CASE ~Tolerated /\ Trapped
  <2>1. todo' = Handler
    BY <1>4 DEF GiveUp
  <2> QED
    BY <1>1, <1>2, <1>4, <2>1, HandlerLeft
<1>5. CASE ~Tolerated /\ ~Trapped
  <2>1. todo' = <<>>
    BY <1>5 DEF GiveUp
  <2> QED
    BY <1>2, <2>1 DEF Left
<1> QED
  BY <1>3, <1>4, <1>5

\* only the new tree's services are started by a script that may fail in it
LEMMA ServeIsLate == ASSUME UpInv, todo # <<>>, Command = "services"
                     PROVE  journal \in Late /\ target.code = "new"
<1> USE DEF Command
<1>1. ~UpgradeLeft
  <2> SUFFICES ASSUME NEW s \in AfterCopy,
                      todo \in {Unpack(s), Staged(s), StopAll(s), Stopped4(s), CopyState(s), Copied(s)}
               PROVE  FALSE
    BY DEF UpgradeLeft
  <2> QED
    BY PrepareRests
<1>2. ~DatabaseLeft
  BY Rests DEF DatabaseLeft, Mutating
<1>3. ~RestoreLeft /\ ~RerunLeft /\ todo # <<"archive">>
  BY RestoreRests, EndRests DEF RestoreLeft, RerunLeft
<1>4. CutoverLeft
  BY <1>1, <1>2, <1>3 DEF UpInv, Left
<1>5. journal \in Late
  <2>1. todo \notin {GetReady, CutOver, SetAside, MoveIn, Tail4}
    BY ZenonT(60), Rests, EndRests
  <2> QED
    BY <1>4, <2>1 DEF CutoverLeft
<1> QED
  BY <1>5 DEF UpInv, JournalOK

LEMMA CutOffInv == UpInv /\ (Refused \/ Fail \/ Kill) => UpInv'
<1> SUFFICES ASSUME UpInv, Refused \/ Fail \/ Kill PROVE UpInv'
  OBVIOUS
<1>0. unstopped' \in BOOLEAN /\ (unstopped => unstopped')
  BY DEF Refused, Fail, Kill, UpInv, UpTypes
<1>1. /\ UNCHANGED <<target, stage, previous, schema, journal, wereActive, stored, backend>>
      /\ todo # <<>> /\ faults' \in 0..MaxFaults
  BY UpgradeAssumption DEF Refused, Fail, Kill, GiveUp, Fault, trees, UpInv, UpTypes
<1>2. running' = running \/ (running' = "new" /\ target.code = "new" /\ journal \in Late)
  <2>1. CASE Fail
    <3>1. CASE Command = "services"
      BY <1>1, <2>1, <3>1, ServeIsLate DEF Fail
    <3>2. CASE Command # "services"
      BY <2>1, <3>2 DEF Fail
    <3> QED
      BY <3>1, <3>2
  <2>2. CASE Refused \/ Kill
    BY <2>2 DEF Refused, Kill
  <2> QED
    BY <2>1, <2>2
<1>3. TreesOK' /\ JournalOK' /\ RunningOK'
  BY <1>0, <1>1, <1>2, Untouched
<1>4. Left' /\ mode' \in {"upgrade", "handler", "recover"}
  <2>1. CASE Kill
    BY <2>1 DEF Kill, Left, UpInv, UpTypes
  <2>2. CASE Refused \/ Fail
    <3>1. GiveUp
      BY <2>2 DEF Refused, Fail
    <3>2. Command = "stop" => Quiet'
      <4>1. CASE Fail
        BY <4>1 DEF Fail, Quiet
      <4>2. CASE Refused
        <5>1. "stop" \notin ToSet(Phases) \cup {"archive"}
          BY PhaseNames DEF PhaseSet, Early, Mutating, Swapping, Late
        <5>2. Regresses \/ ~Imported
          BY <4>2 DEF Refused, MayRun
        <5>3. Command \in ToSet(Phases) \cup {"archive"}
          BY <5>2 DEF Regresses, Imported
        <5> QED
          BY <5>1, <5>3
      <4> QED
        BY <2>2, <4>1, <4>2
    <3> QED
      BY <1>0, <1>1, <3>1, <3>2, GiveUpLeft
  <2> QED
    BY <2>1, <2>2
<1>5. UpTypes'
  BY <1>0, <1>1, <1>2, <1>4 DEF UpInv, UpTypes
<1> QED
  BY <1>3, <1>4, <1>5 DEF UpInv

LEMMA RebootInv == UpInv /\ Reboot => UpInv'
<1> SUFFICES ASSUME UpInv, Reboot PROVE UpInv'
  OBVIOUS
<1>1. /\ target' = target /\ stage' = stage /\ previous' = previous /\ schema' = schema /\ journal' = journal
      /\ wereActive' = wereActive /\ stored' = stored /\ backend' = backend /\ mode' = mode
      /\ unstopped' = TRUE /\ running' = target.code /\ todo' = <<>> /\ faults' \in 0..MaxFaults
  BY UpgradeAssumption DEF Reboot, Fault, trees, UpInv, UpTypes
<1>2. TreesOK'
  BY <1>1 DEF UpInv, TreesOK
<1>3. Quiet' /\ StageIsCopy' /\ MayRestart'
  BY <1>1 DEF Quiet, StageIsCopy, MayRestart
<1>4. JournalOK'
  BY <1>1, <1>3 DEF UpInv, JournalOK
<1>5. RunningOK'
  BY <1>1 DEF RunningOK
<1>6. target.code \in {"none", "old", "new"}
  BY TreeFacts DEF UpInv, TreesOK
<1>7. UpTypes'
  BY <1>1, <1>6 DEF UpInv, UpTypes
<1> QED
  BY <1>1, <1>2, <1>4, <1>5, <1>7 DEF UpInv, Left

LEMMA StartInv == UpInv /\ (StartUpgrade \/ StartRecovery) => UpInv'
<1> SUFFICES ASSUME UpInv, StartUpgrade \/ StartRecovery PROVE UpInv'
  OBVIOUS
<1>1. /\ UNCHANGED <<target, stage, previous, schema, journal, wereActive, stored, unstopped, backend, running, faults>>
      /\ mode' \in {"upgrade", "recover"}
  BY DEF StartUpgrade, StartRecovery, trees
<1>2. TreesOK' /\ JournalOK' /\ RunningOK'
  BY <1>1, Untouched
<1>3. UpTypes'
  BY <1>1 DEF UpInv, UpTypes
<1>4. /\ target' = target /\ journal' = journal /\ schema' = schema
      /\ wereActive' = wereActive /\ unstopped' = unstopped
  BY <1>1
<1>5. Left'
  <2>1. CASE StartUpgrade
    <3>1. todo' = Upgrade /\ journal = "none" /\ target.code = "old"
      BY <2>1 DEF StartUpgrade
    <3>2. PICK s \in AfterCopy : Upgrade = Unpack(s)
      BY UpgradeIs
    <3> QED
      BY <1>4, <3>1, <3>2 DEF Left, UpgradeLeft
  <2>2. CASE StartRecovery
    <3>1. todo' = Recovery /\ journal \in PhaseSet
      BY <2>2 DEF StartRecovery, UpInv, UpTypes, PhaseSet
    <3>2. CASE journal \in Early
      <4>1. todo' = <<"dropStage", "restart", "archive">>
        BY <3>1, <3>2, PlanIs DEF Recovery
      <4>2. target'.code = "old" /\ MayRestart'
        BY <1>4, <3>2 DEF UpInv, JournalOK, MayRestart
      <4> QED
        BY <1>4, <3>2, <4>1, <4>2 DEF Left, RestoreLeft
    <3>3. CASE journal = Mutating
      <4>1. todo' = <<"dropStage", "archive">>
        BY <3>1, <3>3, PlanIs DEF Recovery
      <4>2. target'.code = "old"
        BY <1>4, <3>3 DEF UpInv, JournalOK
      <4> QED
        BY <1>4, <3>3, <4>1, <4>2 DEF Left, RerunLeft
    <3>4. CASE journal = "OPERATIONAL"
      <4>1. todo' = <<"archive">>
        BY <3>1, <3>4, PlanIs DEF Recovery
      <4>2. target'.code = "new"
        BY <1>4, <3>4 DEF UpInv, JournalOK, Late
      <4> QED
        BY <4>1, <4>2, TreeFacts DEF Left
    <3>5. CASE journal \in Swapping \cup {"CUTOVER_COMPLETE", "SERVICES_INSTALLED"}
      <4>1. Plan = "FORWARD"
        BY <3>5, PlanIs
      <4>2. todo' = Forward
        BY <3>1, <4>1 DEF Recovery
      <4>3. CASE target.code = "new"
        <5>1. todo' = Tail4
          BY <4>2, <4>3, ForwardIs
        <5>2. journal' \in Swapping \cup Late /\ target'.code = "new"
          BY <1>4, <3>5, <4>3 DEF Late
        <5> QED
          BY <5>1, <5>2 DEF Left, CutoverLeft
      <4>4. CASE target.code # "new"
        <5>1. journal \in Swapping
          BY <3>5, <4>4 DEF UpInv, JournalOK, Late
        <5>2. CASE target = NoTree
          <6>1. todo' = MoveIn
            BY <4>2, <4>4, <5>2, ForwardIs
          <6> QED
            BY <1>4, <5>1, <5>2, <6>1 DEF Left, CutoverLeft
        <5>3. CASE target # NoTree
          <6>1. todo' = SetAside
            BY <4>2, <4>4, <5>3, ForwardIs
          <6>2. target.code = "old"
            BY <4>4, <5>3, TreeFacts DEF UpInv, TreesOK
          <6> QED
            BY <1>4, <5>1, <6>1, <6>2 DEF Left, CutoverLeft
        <5> QED
          BY <5>2, <5>3
      <4> QED
        BY <4>3, <4>4
    <3> QED
      BY <3>1, <3>2, <3>3, <3>4, <3>5 DEF PhaseSet, Late
  <2> QED
    BY <2>1, <2>2
<1> QED
  BY <1>2, <1>3, <1>5 DEF UpInv

LEMMA StoreInv == UpInv /\ Store => UpInv'
<1> SUFFICES ASSUME UpInv, Store PROVE UpInv'
  OBVIOUS
<1>1. PICK e : e = Cardinality(stored) + 1
  OBVIOUS
<1>2. e \in 1..MaxEvents
  <2>1. IsFiniteSet(stored)
    <3>1. IsFiniteSet(1..MaxEvents)
      BY UpgradeAssumption, FS_Interval
    <3> QED
      BY <3>1, FS_Subset DEF UpInv, UpTypes
  <2>2. Cardinality(stored) \in Nat /\ Cardinality(stored) < MaxEvents
    BY <2>1, FS_CardinalityType DEF Store
  <2> QED
    BY <1>1, <2>2, UpgradeAssumption
<1>3. /\ stored' = stored \cup {e} /\ running # "none"
      /\ stage' = stage /\ schema' = schema /\ journal' = journal /\ wereActive' = wereActive
      /\ running' = running /\ unstopped' = unstopped /\ todo' = todo
  BY <1>1 DEF Store
<1>4. \/ /\ running = target.code /\ target' = [target EXCEPT !.rows = target.rows \cup {e}]
         /\ previous' = previous
      \/ /\ running # target.code /\ previous' = [previous EXCEPT !.rows = previous.rows \cup {e}]
         /\ target' = target
  BY <1>1 DEF Store
<1>5. target \in Trees /\ previous \in Trees
  BY DEF UpInv, TreesOK
<1>6. target.rows \cup {e} \in SUBSET (1..MaxEvents) /\ previous.rows \cup {e} \in SUBSET (1..MaxEvents)
  BY <1>2, <1>5, TreeFacts
<1>7. /\ target' \in Trees /\ previous' \in Trees /\ target'.code = target.code
      /\ previous'.code = previous.code
  <2>1. CASE running = target.code
    <3>1. target' = [target EXCEPT !.rows = target.rows \cup {e}] /\ previous' = previous
      BY <1>4, <2>1
    <3> QED
      BY <1>5, <1>6, <3>1, TreeFacts
  <2>2. CASE running # target.code
    <3>1. previous' = [previous EXCEPT !.rows = previous.rows \cup {e}] /\ target' = target
      BY <1>4, <2>2
    <3> QED
      BY <1>5, <1>6, <3>1, TreeFacts
  <2> QED
    BY <2>1, <2>2
<1>8. target' = NoTree <=> target = NoTree
  <2>1. target.code = "none" => target' = target
    BY <1>3, <1>4
  <2>2. target.code # "none" => target # NoTree /\ target' # NoTree
    BY <1>7, TreeFacts
  <2> QED
    BY <2>1, <2>2
<1>9. TreesOK'
  BY <1>3, <1>7, <1>8, TreeFacts DEF UpInv, TreesOK
<1>10. /\ Quiet => unstopped /\ Quiet' /\ StageIsCopy'
       /\ MayRestart => MayRestart'
  BY <1>3 DEF Quiet, StageIsCopy, MayRestart
<1>11. JournalOK'
  BY <1>3, <1>7, <1>8, <1>10 DEF UpInv, JournalOK
<1>12. RunningOK'
  <2> SUFFICES ASSUME ~unstopped PROVE RunningOK'
    BY <1>3 DEF RunningOK
  <2>1. running = target.code
    BY <1>3 DEF UpInv, RunningOK
  <2>2. target # NoTree
    BY <1>3, <2>1, TreeFacts
  <2>3. Current = target /\ Current' = target'
    BY <1>8, <2>2 DEF Current
  <2>4. target'.rows = target.rows \cup {e}
    <3>1. target' = [target EXCEPT !.rows = target.rows \cup {e}]
      BY <1>4, <2>1
    <3> QED
      BY <1>5, <3>1 DEF Trees
  <2>5. stored \subseteq target.rows /\ (schema # "old" => running # "old")
    BY <2>3 DEF UpInv, RunningOK
  <2> QED
    BY <1>3, <1>7, <2>1, <2>3, <2>4, <2>5 DEF RunningOK
<1>13. Left'
  <2>1. StagedTree => StagedTree'
    BY <1>3, <1>7 DEF StagedTree
  <2>2. ReadyTree => ReadyTree'
    BY <1>10, <2>1 DEF ReadyTree
  <2>3. UpgradeLeft => UpgradeLeft'
    <3> SUFFICES ASSUME UpgradeLeft PROVE UpgradeLeft'
      OBVIOUS
    <3>1. PICK s \in AfterCopy :
            \/ todo = Unpack(s) /\ journal = "none" /\ target.code = "old"
            \/ todo = Staged(s) /\ journal = "none" /\ StagedTree
            \/ todo = StopAll(s) /\ journal = "STAGED" /\ StagedTree
            \/ todo = Stopped4(s) /\ journal = "STAGED" /\ StagedTree /\ Quiet
            \/ todo = CopyState(s) /\ journal = "SERVICES_STOPPED" /\ StagedTree /\ Quiet
            \/ todo = Copied(s) /\ journal = "SERVICES_STOPPED" /\ ReadyTree
      BY DEF UpgradeLeft
    <3>2. \/ todo' = Unpack(s) /\ journal' = "none" /\ target'.code = "old"
          \/ todo' = Staged(s) /\ journal' = "none" /\ StagedTree'
          \/ todo' = StopAll(s) /\ journal' = "STAGED" /\ StagedTree'
          \/ todo' = Stopped4(s) /\ journal' = "STAGED" /\ StagedTree' /\ Quiet'
          \/ todo' = CopyState(s) /\ journal' = "SERVICES_STOPPED" /\ StagedTree' /\ Quiet'
          \/ todo' = Copied(s) /\ journal' = "SERVICES_STOPPED" /\ ReadyTree'
      BY <1>3, <1>7, <1>10, <2>1, <2>2, <3>1
    <3> QED
      BY <3>2 DEF UpgradeLeft
  <2>4. DatabaseLeft => DatabaseLeft'
    BY <1>3, <2>2 DEF DatabaseLeft
  <2>5. CutoverLeft => CutoverLeft'
    BY <1>3, <1>7, <1>8, <2>2 DEF CutoverLeft
  <2>6. RestoreLeft => RestoreLeft'
    BY <1>3, <1>7, <1>10 DEF RestoreLeft
  <2>7. RerunLeft => RerunLeft'
    BY <1>3, <1>7 DEF RerunLeft
  <2>8. Left
    BY DEF UpInv
  <2> QED
    BY <1>3, <1>8, <2>3, <2>4, <2>5, <2>6, <2>7, <2>8 DEF Left
<1>14. UpTypes'
  <2>1. stored' \subseteq 1..MaxEvents
    BY <1>2, <1>3 DEF UpInv, UpTypes
  <2>2. backend' = backend /\ mode' = mode /\ faults' = faults
    BY DEF Store
  <2> QED
    BY <1>3, <2>1, <2>2 DEF UpInv, UpTypes
<1> QED
  BY <1>9, <1>11, <1>12, <1>13, <1>14 DEF UpInv

LEMMA UpInitInv == UpInit => UpInv
<1> SUFFICES ASSUME UpInit PROVE UpInv
  OBVIOUS
<1>1. target.code = "old" /\ target.rows = {} /\ target \in Trees
  BY DEF UpInit, Trees
<1>2. target # NoTree /\ Current = target
  BY <1>1, TreeFacts DEF Current
<1>3. TreesOK
  BY <1>1, TreeFacts DEF UpInit, TreesOK
<1>4. JournalOK
  BY <1>2 DEF UpInit, JournalOK, Early, Mutating, Swapping, Late
<1>5. RunningOK
  BY <1>1, <1>2 DEF UpInit, RunningOK
<1>6. UpTypes
  <2>1. stored \subseteq 1..MaxEvents
    BY DEF UpInit
  <2>2. faults \in 0..MaxFaults
    BY UpgradeAssumption DEF UpInit
  <2>3. wereActive \in BOOLEAN /\ unstopped \in BOOLEAN
    BY Zenon DEF UpInit
  <2> QED
    BY <2>1, <2>2, <2>3 DEF UpInit, UpTypes
<1>7. Left
  BY DEF UpInit, Left
<1> QED
  BY <1>3, <1>4, <1>5, <1>6, <1>7 DEF UpInv

LEMMA UpStep == UpInv /\ [UpNext]_upVars => UpInv'
<1> SUFFICES ASSUME UpInv, [UpNext]_upVars PROVE UpInv'
  OBVIOUS
<1>1. CASE UNCHANGED upVars
  BY <1>1 DEF upVars, trees, UpInv, UpTypes, TreesOK, JournalOK, RunningOK, Left, UpgradeLeft, DatabaseLeft,
     CutoverLeft, RestoreLeft, RerunLeft, Current, Quiet, StageIsCopy, MayRestart, StagedTree, ReadyTree
<1> QED
  BY <1>1, StartInv, RunInv, CutOffInv, RebootInv, StoreInv DEF UpNext

LEMMA UpAlways == UpSpec => []UpInv
BY UpInitInv, UpStep, PTL DEF UpSpec

LEMMA UpgradeSafeInv == UpInv => UpgradeSafe
<1> SUFFICES ASSUME UpInv PROVE UpgradeSafe
  OBVIOUS
<1>1. NeverStranded
  <2> SUFFICES ASSUME target = NoTree
               PROVE  /\ journal # "none" /\ Plan = "FORWARD" /\ stage.code = "new"
                      /\ stage.rows = previous.rows \/ unstopped
    BY DEF NeverStranded
  <2>1. journal \in Swapping /\ target.code # "new"
    BY TreeFacts DEF UpInv, JournalOK
  <2>2. stage.code = "new" /\ StageIsCopy
    BY <2>1 DEF UpInv, JournalOK
  <2>3. journal # "none" /\ Plan = "FORWARD"
    BY <2>1, PlanIs DEF Swapping
  <2> QED
    BY <2>2, <2>3 DEF StageIsCopy, Current
<1>2. SchemaRespected
  BY DEF UpInv, RunningOK, SchemaRespected
<1>3. RowsCarried
  <2> SUFFICES ASSUME running # "none", ~unstopped PROVE stored \subseteq target.rows
    BY DEF RowsCarried
  <2>1. running = target.code /\ stored \subseteq Current.rows
    BY DEF UpInv, RunningOK
  <2>2. target # NoTree
    BY <2>1, TreeFacts
  <2> QED
    BY <2>1, <2>2 DEF Current
<1> QED
  BY <1>1, <1>2, <1>3 DEF UpgradeSafe

LEMMA UpTypedOK == UpInv => UpTypeOK
<1> SUFFICES ASSUME UpInv PROVE UpTypeOK
  OBVIOUS
<1>1. journal \in ToSet(Phases) \cup {"none"}
  BY PhaseNames DEF UpInv, UpTypes, PhaseSet
<1> QED
  BY <1>1 DEF UpInv, UpTypes, TreesOK, UpTypeOK
(***************************************************************************)
(* FreshInstall.  The rest of the script is a tail of the bootstrap and of *)
(* the installation; at each the passwords are as far as the commands      *)
(* before it have brought them, and a resume, which starts at the first    *)
(* one again, never makes a second set.                                    *)
(***************************************************************************)
FreshPhaseSet == {"STAGED", "OWNER_READY", "DATABASE_READY", "SCHEMA_MIGRATED", "SCHEMA_VERIFIED",
                  "RUNTIME_CREDENTIALS_READY", "SERVICES_INSTALLED", "OPERATIONAL"}
FreshNames == FreshPhaseSet \cup {"unpack", "secrets", "inspect", "owner", "migrate", "roles", "config",
                                 "credentials", "units", "start", "check", "dropSecrets"}

\* the scripts from a command on
FromDrop == <<"dropSecrets">>
FromOperational == <<"OPERATIONAL", "dropSecrets">>
FromCheck == <<"check", "OPERATIONAL", "dropSecrets">>
FromStart == <<"start", "check", "OPERATIONAL", "dropSecrets">>
FromInstalled == <<"SERVICES_INSTALLED", "start", "check", "OPERATIONAL", "dropSecrets">>
FromRuntimeReady == Then("RUNTIME_CREDENTIALS_READY", Install)
FromCredentials == Then("credentials", FromRuntimeReady)
FromConfig == Then("config", FromCredentials)
FromRoles == Then("roles", FromConfig)
FromVerified == Then("SCHEMA_VERIFIED", FromRoles)
FromMigrated == Then("SCHEMA_MIGRATED", FromVerified)
FromMigrate == Then("migrate", FromMigrated)
FromDatabaseReady == Then("DATABASE_READY", FromMigrate)
FromOwnerReady == Then("OWNER_READY", FromDatabaseReady)
FromOwner == Then("owner", FromOwnerReady)
FromInspect == Then("inspect", FromOwner)
FromSecrets == Then("secrets", FromInspect)
WholeInstall == IF freshBackend = "postgres" THEN FromSecrets ELSE Install
FromStaged == Then("STAGED", WholeInstall)
FromUnpack == Then("unpack", FromStaged)

LoggedIn == objects = "ours" /\ runtimePw = 2 /\ credFiles = 2
FreshTypes ==
  /\ freshBackend \in FreshBackends /\ inPlace \in BOOLEAN
  /\ unpacked \in BOOLEAN /\ pinned \in BOOLEAN /\ resuming \in BOOLEAN
  /\ checkpoint \in FreshPhaseSet \cup {"none"}
  /\ objects \in {"none", "foreign", "ours"}
  /\ services \in {"absent", "installed", "up", "down"}
  /\ mishaps \in 0..FreshFaults
Passwords ==
  /\ made \in {1, 2} /\ secrets \in {0, 2} /\ (secrets = 2 => made = 2)
  /\ ownerPw \in {0, 1, 2} /\ runtimePw \in {0, 1, 2} /\ credFiles \in {0, 2}
  /\ made = 2 /\ secrets = 0 => checkpoint = "OPERATIONAL"
  /\ objects = "foreign" <=> ownerPw = 1
  /\ ownerPw = 1 => runtimePw = 1
  /\ objects = "ours" => freshBackend = "postgres" /\ ownerPw = 2
  /\ ownerPw = 2 /\ checkpoint # "OPERATIONAL" => secrets = 2
  /\ freshBackend = "postgres" /\ services \in {"up", "down"} => LoggedIn
FreshLeft ==
  \/ script = <<>>
  \/ script = FromDrop /\ checkpoint = "OPERATIONAL"
  \/ /\ checkpoint # "OPERATIONAL"
     /\ \/ script \in {FromUnpack, FromStaged}
        \/ freshBackend = "postgres" /\ script = FromSecrets
        \/ /\ freshBackend = "postgres" /\ secrets = 2
           /\ script \in {FromInspect, FromOwner, FromOwnerReady, FromDatabaseReady, FromMigrate}
        \/ /\ freshBackend = "postgres" /\ secrets = 2 /\ objects = "ours"
           /\ \/ script \in {FromMigrated, FromVerified, FromRoles}
              \/ runtimePw = 2 /\ script \in {FromConfig, FromCredentials}
        \/ /\ freshBackend = "postgres" => LoggedIn
           /\ \/ script \in {Install, FromInstalled, FromStart, FromCheck, FromOperational}
              \/ freshBackend = "postgres" /\ script = FromRuntimeReady
FreshInv == FreshTypes /\ Passwords /\ FreshLeft
-----------------------------------------------------------------------------
LEMMA FreshPhaseNames == ToSet(FreshPhases) = FreshPhaseSet
<1>1. \A x : x \in ToSet(FreshPhases) => x \in FreshPhaseSet
  BY DEF ToSet, FreshPhases, FreshPhaseSet
<1>2. \A i \in 1..8 : FreshPhases[i] \in ToSet(FreshPhases)
  BY DEF ToSet, FreshPhases
<1>3. /\ "STAGED" \in ToSet(FreshPhases)
      /\ "OWNER_READY" \in ToSet(FreshPhases)
      /\ "DATABASE_READY" \in ToSet(FreshPhases)
      /\ "SCHEMA_MIGRATED" \in ToSet(FreshPhases)
      /\ "SCHEMA_VERIFIED" \in ToSet(FreshPhases)
      /\ "RUNTIME_CREDENTIALS_READY" \in ToSet(FreshPhases)
      /\ "SERVICES_INSTALLED" \in ToSet(FreshPhases)
      /\ "OPERATIONAL" \in ToSet(FreshPhases)
  BY <1>2 DEF FreshPhases
<1>4. \A x \in FreshPhaseSet : x \in ToSet(FreshPhases)
  BY <1>3 DEF FreshPhaseSet
<1> QED
  BY <1>1, <1>4

LEMMA FreshPlaces ==
  /\ Nth("OPERATIONAL") = 8
  /\ \A p \in FreshPhaseSet : p # "OPERATIONAL" => Nth(p) \in 1..7
<1>1. Nth("STAGED") = 1
  BY DEF Nth, FreshPhases
<1>2. Nth("OWNER_READY") = 2
  BY DEF Nth, FreshPhases
<1>3. Nth("DATABASE_READY") = 3
  BY DEF Nth, FreshPhases
<1>4. Nth("SCHEMA_MIGRATED") = 4
  BY DEF Nth, FreshPhases
<1>5. Nth("SCHEMA_VERIFIED") = 5
  BY DEF Nth, FreshPhases
<1>6. Nth("RUNTIME_CREDENTIALS_READY") = 6
  BY DEF Nth, FreshPhases
<1>7. Nth("SERVICES_INSTALLED") = 7
  BY DEF Nth, FreshPhases
<1>8. Nth("OPERATIONAL") = 8
  BY DEF Nth, FreshPhases
<1> QED
  BY <1>1, <1>2, <1>3, <1>4, <1>5, <1>6, <1>7, <1>8 DEF FreshPhaseSet

LEMMA FreshNamed ==
  /\ "unpack" \in FreshNames
  /\ "STAGED" \in FreshNames
  /\ "secrets" \in FreshNames
  /\ "inspect" \in FreshNames
  /\ "owner" \in FreshNames
  /\ "OWNER_READY" \in FreshNames
  /\ "DATABASE_READY" \in FreshNames
  /\ "migrate" \in FreshNames
  /\ "SCHEMA_MIGRATED" \in FreshNames
  /\ "SCHEMA_VERIFIED" \in FreshNames
  /\ "roles" \in FreshNames
  /\ "config" \in FreshNames
  /\ "credentials" \in FreshNames
  /\ "RUNTIME_CREDENTIALS_READY" \in FreshNames
  /\ "units" \in FreshNames
  /\ "SERVICES_INSTALLED" \in FreshNames
  /\ "start" \in FreshNames
  /\ "check" \in FreshNames
  /\ "OPERATIONAL" \in FreshNames
  /\ "dropSecrets" \in FreshNames
BY DEF FreshNames, FreshPhaseSet

LEMMA InstallIn ==
  /\ Install \in Seq(FreshNames)
  /\ FromInstalled \in Seq(FreshNames)
  /\ FromStart \in Seq(FreshNames)
  /\ FromCheck \in Seq(FreshNames)
  /\ FromOperational \in Seq(FreshNames)
  /\ FromDrop \in Seq(FreshNames)
<1>1. Install \in Seq(FreshNames)
  BY FreshNamed DEF Install
<1>2. FromInstalled \in Seq(FreshNames)
  BY FreshNamed DEF FromInstalled
<1>3. FromStart \in Seq(FreshNames)
  BY FreshNamed DEF FromStart
<1>4. FromCheck \in Seq(FreshNames)
  BY FreshNamed DEF FromCheck
<1>5. FromOperational \in Seq(FreshNames)
  BY FreshNamed DEF FromOperational
<1>6. FromDrop \in Seq(FreshNames)
  BY FreshNamed DEF FromDrop
<1> QED
  BY <1>1, <1>2, <1>3, <1>4, <1>5, <1>6

LEMMA InstallRests ==
  /\ Head(Install) = "units" /\ Tail(Install) = FromInstalled
  /\ Head(FromInstalled) = "SERVICES_INSTALLED" /\ Tail(FromInstalled) = FromStart
  /\ Head(FromStart) = "start" /\ Tail(FromStart) = FromCheck
  /\ Head(FromCheck) = "check" /\ Tail(FromCheck) = FromOperational
  /\ Head(FromOperational) = "OPERATIONAL" /\ Tail(FromOperational) = FromDrop
  /\ Head(FromDrop) = "dropSecrets" /\ Tail(FromDrop) = <<>>
<1>1. Head(Install) = "units" /\ Tail(Install) = FromInstalled
  BY DEF Install, FromInstalled
<1>2. Head(FromInstalled) = "SERVICES_INSTALLED" /\ Tail(FromInstalled) = FromStart
  BY DEF FromInstalled, FromStart
<1>3. Head(FromStart) = "start" /\ Tail(FromStart) = FromCheck
  BY DEF FromStart, FromCheck
<1>4. Head(FromCheck) = "check" /\ Tail(FromCheck) = FromOperational
  BY DEF FromCheck, FromOperational
<1>5. Head(FromOperational) = "OPERATIONAL" /\ Tail(FromOperational) = FromDrop
  BY DEF FromOperational, FromDrop
<1>6. Head(FromDrop) = "dropSecrets" /\ Tail(FromDrop) = <<>>
  BY DEF FromDrop
<1> QED
  BY <1>1, <1>2, <1>3, <1>4, <1>5, <1>6

LEMMA BootstrapRests ==
  /\ FromSecrets \in Seq(FreshNames) /\ Head(FromSecrets) = "secrets" /\ Tail(FromSecrets) = FromInspect
  /\ FromInspect \in Seq(FreshNames) /\ Head(FromInspect) = "inspect" /\ Tail(FromInspect) = FromOwner
  /\ FromOwner \in Seq(FreshNames) /\ Head(FromOwner) = "owner" /\ Tail(FromOwner) = FromOwnerReady
  /\ FromOwnerReady \in Seq(FreshNames) /\ Head(FromOwnerReady) = "OWNER_READY" /\ Tail(FromOwnerReady) = FromDatabaseReady
  /\ FromDatabaseReady \in Seq(FreshNames) /\ Head(FromDatabaseReady) = "DATABASE_READY" /\ Tail(FromDatabaseReady) = FromMigrate
  /\ FromMigrate \in Seq(FreshNames) /\ Head(FromMigrate) = "migrate" /\ Tail(FromMigrate) = FromMigrated
  /\ FromMigrated \in Seq(FreshNames) /\ Head(FromMigrated) = "SCHEMA_MIGRATED" /\ Tail(FromMigrated) = FromVerified
  /\ FromVerified \in Seq(FreshNames) /\ Head(FromVerified) = "SCHEMA_VERIFIED" /\ Tail(FromVerified) = FromRoles
  /\ FromRoles \in Seq(FreshNames) /\ Head(FromRoles) = "roles" /\ Tail(FromRoles) = FromConfig
  /\ FromConfig \in Seq(FreshNames) /\ Head(FromConfig) = "config" /\ Tail(FromConfig) = FromCredentials
  /\ FromCredentials \in Seq(FreshNames) /\ Head(FromCredentials) = "credentials" /\ Tail(FromCredentials) = FromRuntimeReady
  /\ FromRuntimeReady \in Seq(FreshNames) /\ Head(FromRuntimeReady) = "RUNTIME_CREDENTIALS_READY" /\ Tail(FromRuntimeReady) = Install
<1>1. FromRuntimeReady \in Seq(FreshNames) /\ Head(FromRuntimeReady) = "RUNTIME_CREDENTIALS_READY" /\ Tail(FromRuntimeReady) = Install
  BY InstallIn, ThenIs, FreshNamed DEF FromRuntimeReady
<1>2. FromCredentials \in Seq(FreshNames) /\ Head(FromCredentials) = "credentials" /\ Tail(FromCredentials) = FromRuntimeReady
  BY <1>1, ThenIs, FreshNamed DEF FromCredentials
<1>3. FromConfig \in Seq(FreshNames) /\ Head(FromConfig) = "config" /\ Tail(FromConfig) = FromCredentials
  BY <1>2, ThenIs, FreshNamed DEF FromConfig
<1>4. FromRoles \in Seq(FreshNames) /\ Head(FromRoles) = "roles" /\ Tail(FromRoles) = FromConfig
  BY <1>3, ThenIs, FreshNamed DEF FromRoles
<1>5. FromVerified \in Seq(FreshNames) /\ Head(FromVerified) = "SCHEMA_VERIFIED" /\ Tail(FromVerified) = FromRoles
  BY <1>4, ThenIs, FreshNamed DEF FromVerified
<1>6. FromMigrated \in Seq(FreshNames) /\ Head(FromMigrated) = "SCHEMA_MIGRATED" /\ Tail(FromMigrated) = FromVerified
  BY <1>5, ThenIs, FreshNamed DEF FromMigrated
<1>7. FromMigrate \in Seq(FreshNames) /\ Head(FromMigrate) = "migrate" /\ Tail(FromMigrate) = FromMigrated
  BY <1>6, ThenIs, FreshNamed DEF FromMigrate
<1>8. FromDatabaseReady \in Seq(FreshNames) /\ Head(FromDatabaseReady) = "DATABASE_READY" /\ Tail(FromDatabaseReady) = FromMigrate
  BY <1>7, ThenIs, FreshNamed DEF FromDatabaseReady
<1>9. FromOwnerReady \in Seq(FreshNames) /\ Head(FromOwnerReady) = "OWNER_READY" /\ Tail(FromOwnerReady) = FromDatabaseReady
  BY <1>8, ThenIs, FreshNamed DEF FromOwnerReady
<1>10. FromOwner \in Seq(FreshNames) /\ Head(FromOwner) = "owner" /\ Tail(FromOwner) = FromOwnerReady
  BY <1>9, ThenIs, FreshNamed DEF FromOwner
<1>11. FromInspect \in Seq(FreshNames) /\ Head(FromInspect) = "inspect" /\ Tail(FromInspect) = FromOwner
  BY <1>10, ThenIs, FreshNamed DEF FromInspect
<1>12. FromSecrets \in Seq(FreshNames) /\ Head(FromSecrets) = "secrets" /\ Tail(FromSecrets) = FromInspect
  BY <1>11, ThenIs, FreshNamed DEF FromSecrets
<1> QED
  BY <1>1, <1>2, <1>3, <1>4, <1>5, <1>6, <1>7, <1>8, <1>9, <1>10, <1>11, <1>12

LEMMA FirstRests ==
  /\ WholeInstall \in Seq(FreshNames)
  /\ FromStaged \in Seq(FreshNames) /\ Head(FromStaged) = "STAGED" /\ Tail(FromStaged) = WholeInstall
  /\ Head(FromUnpack) = "unpack" /\ Tail(FromUnpack) = FromStaged
<1>1. WholeInstall \in Seq(FreshNames)
  BY InstallIn, BootstrapRests DEF WholeInstall
<1>2. FromStaged \in Seq(FreshNames) /\ Head(FromStaged) = "STAGED" /\ Tail(FromStaged) = WholeInstall
  BY <1>1, ThenIs, FreshNamed DEF FromStaged
<1>3. Head(FromUnpack) = "unpack" /\ Tail(FromUnpack) = FromStaged
  BY <1>2, ThenIs, FreshNamed DEF FromUnpack
<1> QED
  BY <1>1, <1>2, <1>3

LEMMA BootstrapIn ==
  /\ Bootstrap \in Seq(FreshNames) /\ <<"STAGED">> \in Seq(FreshNames) /\ <<"unpack">> \in Seq(FreshNames)
  /\ <<"inspect", "owner", "OWNER_READY", "DATABASE_READY", "migrate", "SCHEMA_MIGRATED", "SCHEMA_VERIFIED", "roles", "config", "credentials", "RUNTIME_CREDENTIALS_READY">> \in Seq(FreshNames)
  /\ <<"owner", "OWNER_READY", "DATABASE_READY", "migrate", "SCHEMA_MIGRATED", "SCHEMA_VERIFIED", "roles", "config", "credentials", "RUNTIME_CREDENTIALS_READY">> \in Seq(FreshNames)
  /\ <<"OWNER_READY", "DATABASE_READY", "migrate", "SCHEMA_MIGRATED", "SCHEMA_VERIFIED", "roles", "config", "credentials", "RUNTIME_CREDENTIALS_READY">> \in Seq(FreshNames)
  /\ <<"DATABASE_READY", "migrate", "SCHEMA_MIGRATED", "SCHEMA_VERIFIED", "roles", "config", "credentials", "RUNTIME_CREDENTIALS_READY">> \in Seq(FreshNames)
  /\ <<"migrate", "SCHEMA_MIGRATED", "SCHEMA_VERIFIED", "roles", "config", "credentials", "RUNTIME_CREDENTIALS_READY">> \in Seq(FreshNames)
  /\ <<"SCHEMA_MIGRATED", "SCHEMA_VERIFIED", "roles", "config", "credentials", "RUNTIME_CREDENTIALS_READY">> \in Seq(FreshNames)
  /\ <<"SCHEMA_VERIFIED", "roles", "config", "credentials", "RUNTIME_CREDENTIALS_READY">> \in Seq(FreshNames)
  /\ <<"roles", "config", "credentials", "RUNTIME_CREDENTIALS_READY">> \in Seq(FreshNames)
  /\ <<"config", "credentials", "RUNTIME_CREDENTIALS_READY">> \in Seq(FreshNames)
  /\ <<"credentials", "RUNTIME_CREDENTIALS_READY">> \in Seq(FreshNames)
  /\ <<"RUNTIME_CREDENTIALS_READY">> \in Seq(FreshNames)
<1>1. Bootstrap \in Seq(FreshNames)
  BY FreshNamed DEF Bootstrap
<1>2. <<"STAGED">> \in Seq(FreshNames) /\ <<"unpack">> \in Seq(FreshNames)
  BY FreshNamed
<1>3. <<"inspect", "owner", "OWNER_READY", "DATABASE_READY", "migrate", "SCHEMA_MIGRATED", "SCHEMA_VERIFIED", "roles", "config", "credentials", "RUNTIME_CREDENTIALS_READY">> \in Seq(FreshNames)
  BY FreshNamed
<1>4. <<"owner", "OWNER_READY", "DATABASE_READY", "migrate", "SCHEMA_MIGRATED", "SCHEMA_VERIFIED", "roles", "config", "credentials", "RUNTIME_CREDENTIALS_READY">> \in Seq(FreshNames)
  BY FreshNamed
<1>5. <<"OWNER_READY", "DATABASE_READY", "migrate", "SCHEMA_MIGRATED", "SCHEMA_VERIFIED", "roles", "config", "credentials", "RUNTIME_CREDENTIALS_READY">> \in Seq(FreshNames)
  BY FreshNamed
<1>6. <<"DATABASE_READY", "migrate", "SCHEMA_MIGRATED", "SCHEMA_VERIFIED", "roles", "config", "credentials", "RUNTIME_CREDENTIALS_READY">> \in Seq(FreshNames)
  BY FreshNamed
<1>7. <<"migrate", "SCHEMA_MIGRATED", "SCHEMA_VERIFIED", "roles", "config", "credentials", "RUNTIME_CREDENTIALS_READY">> \in Seq(FreshNames)
  BY FreshNamed
<1>8. <<"SCHEMA_MIGRATED", "SCHEMA_VERIFIED", "roles", "config", "credentials", "RUNTIME_CREDENTIALS_READY">> \in Seq(FreshNames)
  BY FreshNamed
<1>9. <<"SCHEMA_VERIFIED", "roles", "config", "credentials", "RUNTIME_CREDENTIALS_READY">> \in Seq(FreshNames)
  BY FreshNamed
<1>10. <<"roles", "config", "credentials", "RUNTIME_CREDENTIALS_READY">> \in Seq(FreshNames)
  BY FreshNamed
<1>11. <<"config", "credentials", "RUNTIME_CREDENTIALS_READY">> \in Seq(FreshNames)
  BY FreshNamed
<1>12. <<"credentials", "RUNTIME_CREDENTIALS_READY">> \in Seq(FreshNames)
  BY FreshNamed
<1>13. <<"RUNTIME_CREDENTIALS_READY">> \in Seq(FreshNames)
  BY FreshNamed
<1> QED
  BY <1>1, <1>2, <1>3, <1>4, <1>5, <1>6, <1>7, <1>8, <1>9, <1>10, <1>11, <1>12, <1>13

LEMMA BootstrapIs == Bootstrap \o Install = FromSecrets
<1>1. PICK q1 \in Seq(FreshNames) : q1 = Bootstrap
  BY BootstrapIn
<1>2. PICK q2 \in Seq(FreshNames) : q2 = <<"inspect", "owner", "OWNER_READY", "DATABASE_READY", "migrate", "SCHEMA_MIGRATED", "SCHEMA_VERIFIED", "roles", "config", "credentials", "RUNTIME_CREDENTIALS_READY">>
  BY BootstrapIn
<1>3. PICK q3 \in Seq(FreshNames) : q3 = <<"owner", "OWNER_READY", "DATABASE_READY", "migrate", "SCHEMA_MIGRATED", "SCHEMA_VERIFIED", "roles", "config", "credentials", "RUNTIME_CREDENTIALS_READY">>
  BY BootstrapIn
<1>4. PICK q4 \in Seq(FreshNames) : q4 = <<"OWNER_READY", "DATABASE_READY", "migrate", "SCHEMA_MIGRATED", "SCHEMA_VERIFIED", "roles", "config", "credentials", "RUNTIME_CREDENTIALS_READY">>
  BY BootstrapIn
<1>5. PICK q5 \in Seq(FreshNames) : q5 = <<"DATABASE_READY", "migrate", "SCHEMA_MIGRATED", "SCHEMA_VERIFIED", "roles", "config", "credentials", "RUNTIME_CREDENTIALS_READY">>
  BY BootstrapIn
<1>6. PICK q6 \in Seq(FreshNames) : q6 = <<"migrate", "SCHEMA_MIGRATED", "SCHEMA_VERIFIED", "roles", "config", "credentials", "RUNTIME_CREDENTIALS_READY">>
  BY BootstrapIn
<1>7. PICK q7 \in Seq(FreshNames) : q7 = <<"SCHEMA_MIGRATED", "SCHEMA_VERIFIED", "roles", "config", "credentials", "RUNTIME_CREDENTIALS_READY">>
  BY BootstrapIn
<1>8. PICK q8 \in Seq(FreshNames) : q8 = <<"SCHEMA_VERIFIED", "roles", "config", "credentials", "RUNTIME_CREDENTIALS_READY">>
  BY BootstrapIn
<1>9. PICK q9 \in Seq(FreshNames) : q9 = <<"roles", "config", "credentials", "RUNTIME_CREDENTIALS_READY">>
  BY BootstrapIn
<1>10. PICK q10 \in Seq(FreshNames) : q10 = <<"config", "credentials", "RUNTIME_CREDENTIALS_READY">>
  BY BootstrapIn
<1>11. PICK q11 \in Seq(FreshNames) : q11 = <<"credentials", "RUNTIME_CREDENTIALS_READY">>
  BY BootstrapIn
<1>12. PICK q12 \in Seq(FreshNames) : q12 = <<"RUNTIME_CREDENTIALS_READY">>
  BY BootstrapIn
<1>13. Install \in Seq(FreshNames)
  BY InstallIn
<1>14. q1 # <<>> /\ Head(q1) = "secrets" /\ Tail(q1) = q2
  BY <1>1, <1>2 DEF Bootstrap
<1>15. q2 # <<>> /\ Head(q2) = "inspect" /\ Tail(q2) = q3
  BY <1>2, <1>3
<1>16. q3 # <<>> /\ Head(q3) = "owner" /\ Tail(q3) = q4
  BY <1>3, <1>4
<1>17. q4 # <<>> /\ Head(q4) = "OWNER_READY" /\ Tail(q4) = q5
  BY <1>4, <1>5
<1>18. q5 # <<>> /\ Head(q5) = "DATABASE_READY" /\ Tail(q5) = q6
  BY <1>5, <1>6
<1>19. q6 # <<>> /\ Head(q6) = "migrate" /\ Tail(q6) = q7
  BY <1>6, <1>7
<1>20. q7 # <<>> /\ Head(q7) = "SCHEMA_MIGRATED" /\ Tail(q7) = q8
  BY <1>7, <1>8
<1>21. q8 # <<>> /\ Head(q8) = "SCHEMA_VERIFIED" /\ Tail(q8) = q9
  BY <1>8, <1>9
<1>22. q9 # <<>> /\ Head(q9) = "roles" /\ Tail(q9) = q10
  BY <1>9, <1>10
<1>23. q10 # <<>> /\ Head(q10) = "config" /\ Tail(q10) = q11
  BY <1>10, <1>11
<1>24. q11 # <<>> /\ Head(q11) = "credentials" /\ Tail(q11) = q12
  BY <1>11, <1>12
<1>25. q1 \o Install = Then("secrets", q2 \o Install)
  <2>1. q1 \o Install = Then(Head(q1), Tail(q1) \o Install)
    BY <1>13, <1>14, Chained
  <2> QED
    BY <1>14, <2>1
<1>26. q2 \o Install = Then("inspect", q3 \o Install)
  <2>1. q2 \o Install = Then(Head(q2), Tail(q2) \o Install)
    BY <1>13, <1>15, Chained
  <2> QED
    BY <1>15, <2>1
<1>27. q3 \o Install = Then("owner", q4 \o Install)
  <2>1. q3 \o Install = Then(Head(q3), Tail(q3) \o Install)
    BY <1>13, <1>16, Chained
  <2> QED
    BY <1>16, <2>1
<1>28. q4 \o Install = Then("OWNER_READY", q5 \o Install)
  <2>1. q4 \o Install = Then(Head(q4), Tail(q4) \o Install)
    BY <1>13, <1>17, Chained
  <2> QED
    BY <1>17, <2>1
<1>29. q5 \o Install = Then("DATABASE_READY", q6 \o Install)
  <2>1. q5 \o Install = Then(Head(q5), Tail(q5) \o Install)
    BY <1>13, <1>18, Chained
  <2> QED
    BY <1>18, <2>1
<1>30. q6 \o Install = Then("migrate", q7 \o Install)
  <2>1. q6 \o Install = Then(Head(q6), Tail(q6) \o Install)
    BY <1>13, <1>19, Chained
  <2> QED
    BY <1>19, <2>1
<1>31. q7 \o Install = Then("SCHEMA_MIGRATED", q8 \o Install)
  <2>1. q7 \o Install = Then(Head(q7), Tail(q7) \o Install)
    BY <1>13, <1>20, Chained
  <2> QED
    BY <1>20, <2>1
<1>32. q8 \o Install = Then("SCHEMA_VERIFIED", q9 \o Install)
  <2>1. q8 \o Install = Then(Head(q8), Tail(q8) \o Install)
    BY <1>13, <1>21, Chained
  <2> QED
    BY <1>21, <2>1
<1>33. q9 \o Install = Then("roles", q10 \o Install)
  <2>1. q9 \o Install = Then(Head(q9), Tail(q9) \o Install)
    BY <1>13, <1>22, Chained
  <2> QED
    BY <1>22, <2>1
<1>34. q10 \o Install = Then("config", q11 \o Install)
  <2>1. q10 \o Install = Then(Head(q10), Tail(q10) \o Install)
    BY <1>13, <1>23, Chained
  <2> QED
    BY <1>23, <2>1
<1>35. q11 \o Install = Then("credentials", q12 \o Install)
  <2>1. q11 \o Install = Then(Head(q11), Tail(q11) \o Install)
    BY <1>13, <1>24, Chained
  <2> QED
    BY <1>24, <2>1
<1>36. q12 \o Install = FromRuntimeReady
  BY <1>12 DEF Then, FromRuntimeReady
<1> QED
  BY <1>1, <1>25, <1>26, <1>27, <1>28, <1>29, <1>30, <1>31, <1>32, <1>33, <1>34, <1>35, <1>36 DEF FromSecrets, FromInspect, FromOwner, FromOwnerReady, FromDatabaseReady, FromMigrate, FromMigrated, FromVerified, FromRoles, FromConfig, FromCredentials

LEMMA RemainingIs ==
  /\ Remaining(<<>>) = WholeInstall
  /\ Remaining(<<>> \o <<"STAGED">>) = FromStaged
  /\ Remaining(<<"unpack">> \o <<"STAGED">>) = FromUnpack
<1>1. PICK b \in Seq(FreshNames) : b = IF freshBackend = "postgres" THEN Bootstrap ELSE <<>>
  <2>1. Bootstrap \in Seq(FreshNames) /\ <<>> \in Seq(FreshNames)
    BY BootstrapIn
  <2> QED
    BY <2>1
<1>2. PICK i \in Seq(FreshNames) : i = Install
  BY InstallIn
<1>3. PICK g \in Seq(FreshNames) : g = <<"STAGED">>
  BY BootstrapIn
<1>4. PICK u \in Seq(FreshNames) : u = <<"unpack">>
  BY BootstrapIn
<1>5. b \o i = WholeInstall
  <2>1. b = <<>> => b \o i = i
    OBVIOUS
  <2> QED
    BY <1>1, <1>2, <2>1, BootstrapIs DEF WholeInstall
<1>6. (<<>> \o b) \o i = b \o i /\ (g \o b) \o i = g \o (b \o i)
  OBVIOUS
<1>7. <<>> \o g = g
  OBVIOUS
<1>8. ((u \o g) \o b) \o i = u \o (g \o (b \o i))
  <2>1. u \o g \in Seq(FreshNames) /\ b \o i \in Seq(FreshNames)
    OBVIOUS
  <2>2. PICK v \in Seq(FreshNames) : v = u \o g
    BY <2>1
  <2>3. PICK d \in Seq(FreshNames) : d = b \o i
    BY <2>1
  <2>4. (v \o b) \o i = v \o (b \o i)
    BY SMTT(60)
  <2>5. (u \o g) \o d = u \o (g \o d)
    BY SMTT(60)
  <2> QED
    BY <2>2, <2>3, <2>4, <2>5
<1>9. g \o WholeInstall = FromStaged /\ u \o FromStaged = FromUnpack
  BY <1>3, <1>4 DEF FromStaged, FromUnpack, Then
<1>10. Remaining(<<>>) = WholeInstall
  BY <1>1, <1>2, <1>5, <1>6 DEF Remaining
<1>11. Remaining(<<>> \o g) = FromStaged
  BY <1>1, <1>2, <1>5, <1>6, <1>7, <1>9 DEF Remaining
<1>12. Remaining(u \o g) = FromUnpack
  BY <1>1, <1>2, <1>5, <1>8, <1>9 DEF Remaining
<1> QED
  BY <1>3, <1>4, <1>10, <1>11, <1>12

\* What a command does.
LEMMA ExecuteIs ==
  ASSUME Execute
  PROVE  /\ script' = Tail(script) /\ freshBackend' = freshBackend
         /\ Cmd \notin FreshPhaseSet => checkpoint' = checkpoint
         /\ checkpoint' \in {Cmd, checkpoint}
         /\ Cmd \notin {"secrets", "dropSecrets"} => secrets' = secrets /\ made' = made
         /\ Cmd # "owner" => ownerPw' = ownerPw
         /\ Cmd # "migrate" => objects' = objects
         /\ Cmd # "roles" => runtimePw' = runtimePw
         /\ Cmd # "credentials" => credFiles' = credFiles
         /\ Cmd \notin {"units", "start"} => services' = services
<1>1. Cmd \notin FreshPhaseSet => checkpoint' = checkpoint
  BY FreshPhaseNames DEF Execute, Advance
<1>2. checkpoint' \in {Cmd, checkpoint}
  BY DEF Execute, Advance
<1>3. Cmd \notin {"secrets", "dropSecrets"} => secrets' = secrets /\ made' = made
  BY DEF Execute, NewSecrets
<1>4. /\ Cmd # "owner" => ownerPw' = ownerPw
      /\ Cmd # "roles" => runtimePw' = runtimePw
      /\ Cmd # "credentials" => credFiles' = credFiles
  BY DEF Execute, Database
<1>5. Cmd # "migrate" => objects' = objects
  BY DEF Execute, Database
<1>6. Cmd \notin {"units", "start"} => services' = services
  BY DEF Execute
<1> QED
  BY <1>1, <1>2, <1>3, <1>4, <1>5, <1>6 DEF Execute

LEMMA FreshTypesKept ==
  ASSUME FreshTypes, Execute, Cmd = "migrate" => objects # "foreign"
  PROVE  FreshTypes'
<1>1. inPlace' \in BOOLEAN /\ resuming' \in BOOLEAN
  BY DEF FreshTypes, Execute
<1>2. unpacked' \in BOOLEAN /\ pinned' \in BOOLEAN
  BY Zenon DEF FreshTypes, Execute
<1>3. checkpoint' \in FreshPhaseSet \cup {"none"}
  BY FreshPhaseNames DEF FreshTypes, Execute, Advance
<1>4. objects' \in {"none", "foreign", "ours"}
  <2>1. CASE Cmd = "migrate"
    <3>1. objects' = IF objects = "none" THEN "ours" ELSE objects
      BY <2>1 DEF Execute, Database
    <3> QED
      BY <3>1 DEF FreshTypes
  <2>2. CASE Cmd # "migrate"
    BY <2>2, ExecuteIs DEF FreshTypes
  <2> QED
    BY <2>1, <2>2
<1>5. services' \in {"absent", "installed", "up", "down"}
  BY DEF FreshTypes, Execute
<1>6. freshBackend' = freshBackend /\ mishaps' = mishaps
  BY DEF Execute
<1> QED
  BY <1>1, <1>2, <1>3, <1>4, <1>5, <1>6 DEF FreshTypes

\* A command that changes neither passwords nor schema nor services.
LEMMA PasswordsKept ==
  ASSUME Passwords, freshBackend' = freshBackend, secrets' = secrets, made' = made, ownerPw' = ownerPw,
         objects' = objects, runtimePw' = runtimePw, credFiles' = credFiles, services' = services,
         checkpoint = "OPERATIONAL" => checkpoint' = "OPERATIONAL"
  PROVE  Passwords' /\ (LoggedIn => LoggedIn')
BY DEF Passwords, LoggedIn
-----------------------------------------------------------------------------
\* A command that writes the checkpoint, or nothing of what is kept here.
LEMMA PlainCommand ==
  ASSUME FreshInv, Execute, checkpoint # "OPERATIONAL", Cmd # "OPERATIONAL",
         Cmd \notin {"secrets", "dropSecrets", "owner", "migrate", "roles", "credentials", "units", "start"}
  PROVE  /\ FreshTypes' /\ Passwords' /\ (LoggedIn => LoggedIn') /\ checkpoint' # "OPERATIONAL"
         /\ secrets' = secrets /\ objects' = objects /\ runtimePw' = runtimePw
         /\ freshBackend' = freshBackend /\ script' = Tail(script)
<1>1. /\ secrets' = secrets /\ made' = made /\ ownerPw' = ownerPw /\ objects' = objects
      /\ runtimePw' = runtimePw /\ credFiles' = credFiles /\ services' = services
      /\ freshBackend' = freshBackend /\ script' = Tail(script) /\ checkpoint' \in {Cmd, checkpoint}
  BY ExecuteIs
<1>2. FreshTypes'
  BY FreshTypesKept DEF FreshInv
<1>3. Passwords' /\ (LoggedIn => LoggedIn')
  BY <1>1, PasswordsKept DEF FreshInv
<1> QED
  BY <1>1, <1>2, <1>3

\* The first commands of the script.
LEMMA FirstSteps ==
  ASSUME FreshInv, Execute, checkpoint # "OPERATIONAL", script \in {FromUnpack, FromStaged}
  PROVE  FreshInv'
<1>1. CASE script = FromUnpack
  <2>1. Cmd = "unpack" /\ Tail(script) = FromStaged
    BY <1>1, FirstRests DEF Cmd
  <2>2. /\ FreshTypes' /\ Passwords' /\ checkpoint' # "OPERATIONAL" /\ script' = FromStaged
        /\ freshBackend' = freshBackend
    BY <2>1, PlainCommand
  <2>3. FromStaged' = FromStaged
    BY <2>2 DEF FromStaged, WholeInstall
  <2> QED
    BY <2>2, <2>3 DEF FreshInv, FreshLeft
<1>2. CASE script = FromStaged
  <2>1. Cmd = "STAGED" /\ Tail(script) = WholeInstall
    BY <1>2, FirstRests DEF Cmd
  <2>2. /\ FreshTypes' /\ Passwords' /\ checkpoint' # "OPERATIONAL" /\ script' = WholeInstall
        /\ freshBackend' = freshBackend
    BY <2>1, PlainCommand
  <2>3. CASE freshBackend = "postgres"
    BY <2>2, <2>3 DEF FreshInv, FreshLeft, WholeInstall
  <2>4. CASE freshBackend # "postgres"
    BY <2>2, <2>4 DEF FreshInv, FreshLeft, WholeInstall
  <2> QED
    BY <2>3, <2>4
<1> QED
  BY <1>1, <1>2

\* the bootstrap makes the passwords once
LEMMA SecretsStep ==
  ASSUME FreshInv, Execute, checkpoint # "OPERATIONAL", freshBackend = "postgres", script = FromSecrets
  PROVE  FreshInv'
<1>1. Cmd = "secrets" /\ Tail(script) = FromInspect
  BY BootstrapRests DEF Cmd
<1>2. /\ script' = FromInspect /\ freshBackend' = freshBackend /\ checkpoint' = checkpoint
      /\ ownerPw' = ownerPw /\ objects' = objects /\ runtimePw' = runtimePw
      /\ credFiles' = credFiles /\ services' = services
  BY <1>1, ExecuteIs DEF FreshPhaseSet
<1>3. secrets' = 2 /\ made' = 2
  <2>1. CASE secrets = 0
    <3>1. made = 1
      BY <2>1 DEF FreshInv, Passwords
    <3> QED
      BY <1>1, <2>1, <3>1 DEF Execute, NewSecrets
  <2>2. CASE secrets # 0
    <3>1. secrets = 2 /\ made = 2
      BY <2>2 DEF FreshInv, Passwords
    <3> QED
      BY <1>1, <2>2, <3>1 DEF Execute, NewSecrets
  <2> QED
    BY <2>1, <2>2
<1>4. FreshTypes'
  BY <1>1, FreshTypesKept DEF FreshInv
<1>5. Passwords'
  BY <1>2, <1>3 DEF FreshInv, Passwords, LoggedIn
<1> QED
  BY <1>2, <1>3, <1>4, <1>5 DEF FreshInv, FreshLeft

\* the owner's role gets its password, and only it may migrate
LEMMA OwnerSteps ==
  ASSUME FreshInv, Execute, checkpoint # "OPERATIONAL", freshBackend = "postgres", secrets = 2,
         script \in {FromInspect, FromOwner, FromOwnerReady, FromDatabaseReady, FromMigrate}
  PROVE  FreshInv'
<1>1. CASE script = FromInspect
  <2>1. Cmd = "inspect" /\ Tail(script) = FromOwner
    BY <1>1, BootstrapRests DEF Cmd
  <2>2. /\ FreshTypes' /\ Passwords' /\ (LoggedIn => LoggedIn') /\ checkpoint' # "OPERATIONAL"
        /\ secrets' = secrets /\ objects' = objects /\ runtimePw' = runtimePw
        /\ freshBackend' = freshBackend /\ script' = FromOwner
    BY <2>1, PlainCommand
  <2> QED
    BY <2>2 DEF FreshInv, FreshLeft
<1>2. CASE script = FromOwner
  <2>1. Cmd = "owner" /\ Tail(script) = FromOwnerReady
    BY <1>2, BootstrapRests DEF Cmd
  <2>2. /\ script' = FromOwnerReady /\ freshBackend' = freshBackend /\ checkpoint' = checkpoint
        /\ secrets' = secrets /\ made' = made /\ objects' = objects /\ runtimePw' = runtimePw
        /\ credFiles' = credFiles /\ services' = services
    BY <2>1, ExecuteIs DEF FreshPhaseSet
  <2>3. ownerPw' = IF ownerPw = 0 THEN 2 ELSE ownerPw
    BY <2>1 DEF Execute, Database
  <2>4. FreshTypes'
    BY <2>1, FreshTypesKept DEF FreshInv
  <2>5. Passwords'
    BY <2>2, <2>3 DEF FreshInv, Passwords, LoggedIn
  <2> QED
    BY <2>2, <2>4, <2>5 DEF FreshInv, FreshLeft
<1>3. CASE script = FromOwnerReady
  <2>1. Cmd = "OWNER_READY" /\ Tail(script) = FromDatabaseReady
    BY <1>3, BootstrapRests DEF Cmd
  <2>2. /\ FreshTypes' /\ Passwords' /\ (LoggedIn => LoggedIn') /\ checkpoint' # "OPERATIONAL"
        /\ secrets' = secrets /\ objects' = objects /\ runtimePw' = runtimePw
        /\ freshBackend' = freshBackend /\ script' = FromDatabaseReady
    BY <2>1, PlainCommand
  <2> QED
    BY <2>2 DEF FreshInv, FreshLeft
<1>4. CASE script = FromDatabaseReady
  <2>1. Cmd = "DATABASE_READY" /\ Tail(script) = FromMigrate
    BY <1>4, BootstrapRests DEF Cmd
  <2>2. /\ FreshTypes' /\ Passwords' /\ (LoggedIn => LoggedIn') /\ checkpoint' # "OPERATIONAL"
        /\ secrets' = secrets /\ objects' = objects /\ runtimePw' = runtimePw
        /\ freshBackend' = freshBackend /\ script' = FromMigrate
    BY <2>1, PlainCommand
  <2> QED
    BY <2>2 DEF FreshInv, FreshLeft
<1>5. CASE script = FromMigrate
  <2>1. Cmd = "migrate" /\ Tail(script) = FromMigrated
    BY <1>5, BootstrapRests DEF Cmd
  <2>2. /\ script' = FromMigrated /\ freshBackend' = freshBackend /\ checkpoint' = checkpoint
        /\ secrets' = secrets /\ made' = made /\ ownerPw' = ownerPw /\ runtimePw' = runtimePw
        /\ credFiles' = credFiles /\ services' = services
    BY <2>1, ExecuteIs DEF FreshPhaseSet
  <2>3. ownerPw = 2
    BY <2>1 DEF Execute, Accepted, OwnerLogsIn
  <2>4. objects \in {"none", "ours"}
    BY <2>3 DEF FreshInv, FreshTypes, Passwords
  <2>5. objects' = "ours"
    BY <2>1, <2>4 DEF Execute, Database
  <2>6. FreshTypes'
    BY <2>1, <2>4, FreshTypesKept DEF FreshInv
  <2>7. Passwords'
    BY <2>2, <2>3, <2>5 DEF FreshInv, Passwords, LoggedIn
  <2> QED
    BY <2>2, <2>5, <2>6, <2>7 DEF FreshInv, FreshLeft
<1> QED
  BY <1>1, <1>2, <1>3, <1>4, <1>5

\* the runtime roles and the components get the passwords of the resume file
LEMMA RoleSteps ==
  ASSUME FreshInv, Execute, checkpoint # "OPERATIONAL", freshBackend = "postgres", secrets = 2,
         objects = "ours",
         \/ script \in {FromMigrated, FromVerified, FromRoles}
         \/ runtimePw = 2 /\ script \in {FromConfig, FromCredentials}
  PROVE  FreshInv'
<1>1. CASE script = FromMigrated
  <2>1. Cmd = "SCHEMA_MIGRATED" /\ Tail(script) = FromVerified
    BY <1>1, BootstrapRests DEF Cmd
  <2>2. /\ FreshTypes' /\ Passwords' /\ (LoggedIn => LoggedIn') /\ checkpoint' # "OPERATIONAL"
        /\ secrets' = secrets /\ objects' = objects /\ runtimePw' = runtimePw
        /\ freshBackend' = freshBackend /\ script' = FromVerified
    BY <2>1, PlainCommand
  <2> QED
    BY <2>2 DEF FreshInv, FreshLeft
<1>2. CASE script = FromVerified
  <2>1. Cmd = "SCHEMA_VERIFIED" /\ Tail(script) = FromRoles
    BY <1>2, BootstrapRests DEF Cmd
  <2>2. /\ FreshTypes' /\ Passwords' /\ (LoggedIn => LoggedIn') /\ checkpoint' # "OPERATIONAL"
        /\ secrets' = secrets /\ objects' = objects /\ runtimePw' = runtimePw
        /\ freshBackend' = freshBackend /\ script' = FromRoles
    BY <2>1, PlainCommand
  <2> QED
    BY <2>2 DEF FreshInv, FreshLeft
<1>3. CASE script = FromRoles
  <2>1. Cmd = "roles" /\ Tail(script) = FromConfig
    BY <1>3, BootstrapRests DEF Cmd
  <2>2. /\ script' = FromConfig /\ freshBackend' = freshBackend /\ checkpoint' = checkpoint
        /\ secrets' = secrets /\ made' = made /\ ownerPw' = ownerPw /\ objects' = objects
        /\ credFiles' = credFiles /\ services' = services
    BY <2>1, ExecuteIs DEF FreshPhaseSet
  <2>3. runtimePw' = 2
    BY <2>1 DEF Execute, Database
  <2>4. FreshTypes'
    BY <2>1, FreshTypesKept DEF FreshInv
  <2>5. Passwords'
    BY <2>2, <2>3 DEF FreshInv, Passwords, LoggedIn
  <2> QED
    BY <2>2, <2>3, <2>4, <2>5 DEF FreshInv, FreshLeft
<1>4. CASE script = FromConfig /\ runtimePw = 2
  <2>1. Cmd = "config" /\ Tail(script) = FromCredentials
    BY <1>4, BootstrapRests DEF Cmd
  <2>2. /\ FreshTypes' /\ Passwords' /\ (LoggedIn => LoggedIn') /\ checkpoint' # "OPERATIONAL"
        /\ secrets' = secrets /\ objects' = objects /\ runtimePw' = runtimePw
        /\ freshBackend' = freshBackend /\ script' = FromCredentials
    BY <2>1, PlainCommand
  <2> QED
    BY <1>4, <2>2 DEF FreshInv, FreshLeft
<1>5. CASE script = FromCredentials /\ runtimePw = 2
  <2>1. Cmd = "credentials" /\ Tail(script) = FromRuntimeReady
    BY <1>5, BootstrapRests DEF Cmd
  <2>2. /\ script' = FromRuntimeReady /\ freshBackend' = freshBackend /\ checkpoint' = checkpoint
        /\ secrets' = secrets /\ made' = made /\ ownerPw' = ownerPw /\ objects' = objects
        /\ runtimePw' = runtimePw /\ services' = services
    BY <2>1, ExecuteIs DEF FreshPhaseSet
  <2>3. credFiles' = 2
    BY <2>1 DEF Execute
  <2>4. FreshTypes'
    BY <2>1, FreshTypesKept DEF FreshInv
  <2>5. Passwords' /\ LoggedIn'
    BY <1>5, <2>2, <2>3 DEF FreshInv, Passwords, LoggedIn
  <2> QED
    BY <2>2, <2>4, <2>5 DEF FreshInv, FreshLeft
<1> QED
  BY <1>1, <1>2, <1>3, <1>4, <1>5

\* services start when the passwords fit
LEMMA InstallSteps ==
  ASSUME FreshInv, Execute, checkpoint # "OPERATIONAL", freshBackend = "postgres" => LoggedIn,
         \/ script \in {Install, FromInstalled, FromStart, FromCheck, FromOperational}
         \/ freshBackend = "postgres" /\ script = FromRuntimeReady
  PROVE  FreshInv'
<1>1. CASE script = FromRuntimeReady
  <2>1. Cmd = "RUNTIME_CREDENTIALS_READY" /\ Tail(script) = Install
    BY <1>1, BootstrapRests DEF Cmd
  <2>2. /\ FreshTypes' /\ Passwords' /\ (LoggedIn => LoggedIn') /\ checkpoint' # "OPERATIONAL"
        /\ secrets' = secrets /\ objects' = objects /\ runtimePw' = runtimePw
        /\ freshBackend' = freshBackend /\ script' = Install
    BY <2>1, PlainCommand
  <2> QED
    BY <2>2 DEF FreshInv, FreshLeft
<1>2. CASE script = Install
  <2>1. Cmd = "units" /\ Tail(script) = FromInstalled
    BY <1>2, InstallRests DEF Cmd
  <2>2. /\ script' = FromInstalled /\ freshBackend' = freshBackend /\ checkpoint' = checkpoint
        /\ secrets' = secrets /\ made' = made /\ ownerPw' = ownerPw /\ objects' = objects
        /\ runtimePw' = runtimePw /\ credFiles' = credFiles
    BY <2>1, ExecuteIs DEF FreshPhaseSet
  <2>3. FreshTypes'
    BY <2>1, FreshTypesKept DEF FreshInv
  <2>4. Passwords' /\ (LoggedIn => LoggedIn')
    BY <2>2, <2>3 DEF FreshInv, Passwords, LoggedIn
  <2> QED
    BY <2>2, <2>3, <2>4 DEF FreshInv, FreshLeft
<1>3. CASE script = FromInstalled
  <2>1. Cmd = "SERVICES_INSTALLED" /\ Tail(script) = FromStart
    BY <1>3, InstallRests DEF Cmd
  <2>2. /\ FreshTypes' /\ Passwords' /\ (LoggedIn => LoggedIn') /\ checkpoint' # "OPERATIONAL"
        /\ secrets' = secrets /\ objects' = objects /\ runtimePw' = runtimePw
        /\ freshBackend' = freshBackend /\ script' = FromStart
    BY <2>1, PlainCommand
  <2> QED
    BY <2>2 DEF FreshInv, FreshLeft
<1>4. CASE script = FromStart
  <2>1. Cmd = "start" /\ Tail(script) = FromCheck
    BY <1>4, InstallRests DEF Cmd
  <2>2. /\ script' = FromCheck /\ freshBackend' = freshBackend /\ checkpoint' = checkpoint
        /\ secrets' = secrets /\ made' = made /\ ownerPw' = ownerPw /\ objects' = objects
        /\ runtimePw' = runtimePw /\ credFiles' = credFiles
    BY <2>1, ExecuteIs DEF FreshPhaseSet
  <2>3. FreshTypes'
    BY <2>1, FreshTypesKept DEF FreshInv
  <2>4. Passwords' /\ (LoggedIn => LoggedIn')
    BY <2>2, <2>3 DEF FreshInv, Passwords, LoggedIn
  <2> QED
    BY <2>2, <2>3, <2>4 DEF FreshInv, FreshLeft
<1>5. CASE script = FromCheck
  <2>1. Cmd = "check" /\ Tail(script) = FromOperational
    BY <1>5, InstallRests DEF Cmd
  <2>2. /\ FreshTypes' /\ Passwords' /\ (LoggedIn => LoggedIn') /\ checkpoint' # "OPERATIONAL"
        /\ secrets' = secrets /\ objects' = objects /\ runtimePw' = runtimePw
        /\ freshBackend' = freshBackend /\ script' = FromOperational
    BY <2>1, PlainCommand
  <2> QED
    BY <2>2 DEF FreshInv, FreshLeft
<1>6. CASE script = FromOperational
  <2>1. Cmd = "OPERATIONAL" /\ Tail(script) = FromDrop
    BY <1>6, InstallRests DEF Cmd
  <2>2. /\ script' = FromDrop /\ freshBackend' = freshBackend
        /\ secrets' = secrets /\ made' = made /\ ownerPw' = ownerPw /\ objects' = objects
        /\ runtimePw' = runtimePw /\ credFiles' = credFiles /\ services' = services
    BY <2>1, ExecuteIs
  <2>3. checkpoint' = "OPERATIONAL"
    <3>1. "OPERATIONAL" \in ToSet(FreshPhases)
      BY FreshPhaseNames DEF FreshPhaseSet
    <3>2. checkpoint = "none" \/ Nth(checkpoint) < Nth("OPERATIONAL")
      <4>1. checkpoint # "none" => Nth(checkpoint) \in 1..7
        BY FreshPlaces DEF FreshInv, FreshTypes
      <4> QED
        BY <4>1, FreshPlaces
    <3> QED
      BY <2>1, <3>1, <3>2 DEF Execute, Advance
  <2>4. FreshTypes'
    BY <2>1, FreshTypesKept DEF FreshInv
  <2>5. Passwords'
    BY <2>2, <2>3, PasswordsKept DEF FreshInv
  <2> QED
    BY <2>2, <2>3, <2>4, <2>5 DEF FreshInv, FreshLeft
<1> QED
  BY <1>1, <1>2, <1>3, <1>4, <1>5, <1>6

LEMMA DropStep ==
  ASSUME FreshInv, Execute, checkpoint = "OPERATIONAL", script = FromDrop
  PROVE  FreshInv'
<1>1. Cmd = "dropSecrets" /\ Tail(script) = <<>>
  BY InstallRests DEF Cmd
<1>2. /\ script' = <<>> /\ freshBackend' = freshBackend /\ checkpoint' = checkpoint
      /\ ownerPw' = ownerPw /\ objects' = objects /\ runtimePw' = runtimePw
      /\ credFiles' = credFiles /\ services' = services
  BY <1>1, ExecuteIs DEF FreshPhaseSet
<1>3. secrets' = 0 /\ made' = made
  BY <1>1 DEF Execute, NewSecrets
<1>4. FreshTypes'
  BY <1>1, FreshTypesKept DEF FreshInv
<1>5. Passwords'
  BY <1>2, <1>3 DEF FreshInv, Passwords, LoggedIn
<1> QED
  BY <1>2, <1>4, <1>5 DEF FreshInv, FreshLeft

LEMMA ExecuteInv == FreshInv /\ Execute => FreshInv'
<1> SUFFICES ASSUME FreshInv, Execute PROVE FreshInv'
  OBVIOUS
<1>1. script # <<>>
  BY DEF Execute
<1>2. CASE script = FromDrop /\ checkpoint = "OPERATIONAL"
  BY <1>2, DropStep
<1>3. CASE checkpoint # "OPERATIONAL"
  BY <1>1, <1>3, FirstSteps, SecretsStep, OwnerSteps, RoleSteps, InstallSteps, InstallRests
  DEF FreshInv, FreshLeft
<1> QED
  BY <1>1, <1>2, <1>3 DEF FreshInv, FreshLeft

\* The script is started, resumed or cut off; a service fails.
LEMMA FreshRestInv ==
  ASSUME FreshInv, StartFresh \/ Resume \/ Reject \/ Interrupt \/ Flip
  PROVE  FreshInv'
<1>1. CASE StartFresh
  <2>1. /\ UNCHANGED <<freshBackend, inPlace, unpacked, checkpoint, pinned, made,
                       secrets, database, credFiles, services, mishaps>>
        /\ resuming' = FALSE /\ checkpoint = "none"
    BY <1>1 DEF StartFresh
  <2>2. script' \in {FromUnpack, FromStaged}
    BY <1>1, RemainingIs DEF StartFresh
  <2>3. FromUnpack' = FromUnpack /\ FromStaged' = FromStaged
    BY <2>1 DEF FromUnpack, FromStaged, WholeInstall
  <2>4. FreshTypes'
    BY <2>1 DEF FreshInv, FreshTypes, database
  <2>5. Passwords'
    BY <2>1 DEF FreshInv, Passwords, LoggedIn, database
  <2> QED
    BY <2>1, <2>2, <2>3, <2>4, <2>5 DEF FreshInv, FreshLeft
<1>2. CASE Resume
  <2>1. /\ UNCHANGED <<freshBackend, inPlace, unpacked, checkpoint, pinned, made,
                       secrets, database, credFiles, services, mishaps>>
        /\ resuming' = TRUE /\ checkpoint # "OPERATIONAL"
    BY <1>2 DEF Resume, MayResume
  <2>2. script' = WholeInstall
    BY <1>2, RemainingIs DEF Resume
  <2>3. FreshTypes'
    BY <2>1 DEF FreshInv, FreshTypes, database
  <2>4. Passwords'
    BY <2>1 DEF FreshInv, Passwords, LoggedIn, database
  <2>5. FreshLeft'
    <3>1. CASE freshBackend = "postgres"
      BY <2>1, <2>2, <3>1 DEF FreshLeft, WholeInstall
    <3>2. CASE freshBackend # "postgres"
      BY <2>1, <2>2, <3>2 DEF FreshLeft, WholeInstall
    <3> QED
      BY <3>1, <3>2
  <2> QED
    BY <2>3, <2>4, <2>5 DEF FreshInv
<1>3. CASE Reject \/ Interrupt
  <2>1. StopScript /\ services' = services
    BY <1>3 DEF Reject, Interrupt
  <2>2. mishaps' \in 0..FreshFaults
    <3>1. mishaps \in 0..FreshFaults /\ (mishaps' = mishaps \/ (mishaps < FreshFaults /\ mishaps' = mishaps + 1))
      BY <1>3 DEF Reject, Interrupt, Mishap, FreshInv, FreshTypes
    <3> QED
      BY <3>1, FreshAssumption
  <2>3. FreshTypes'
    BY <2>1, <2>2 DEF StopScript, FreshInv, FreshTypes, database
  <2>4. Passwords'
    BY <2>1 DEF StopScript, FreshInv, Passwords, LoggedIn, database
  <2> QED
    BY <2>1, <2>3, <2>4 DEF StopScript, FreshInv, FreshLeft
<1>4. CASE Flip
  <2>1. /\ UNCHANGED <<freshBackend, inPlace, unpacked, checkpoint, pinned,
                       made, secrets, database, credFiles, resuming, script>>
        /\ services \in {"up", "down"} /\ services' \in {"up", "down"}
    BY <1>4 DEF Flip
  <2>2. mishaps' \in 0..FreshFaults
    <3>1. mishaps \in 0..FreshFaults /\ mishaps < FreshFaults /\ mishaps' = mishaps + 1
      BY <1>4 DEF Flip, Mishap, FreshInv, FreshTypes
    <3> QED
      BY <3>1, FreshAssumption
  <2>3. FreshTypes'
    BY <2>1, <2>2 DEF FreshInv, FreshTypes, database
  <2>4. Passwords'
    BY <2>1 DEF FreshInv, Passwords, LoggedIn, database
  <2>5. FreshLeft'
    BY <2>1 DEF FreshInv, FreshLeft, FromUnpack, FromStaged, WholeInstall, LoggedIn, database
  <2> QED
    BY <2>3, <2>4, <2>5 DEF FreshInv
<1> QED
  BY <1>1, <1>2, <1>3, <1>4

LEMMA FreshInitInv == FreshInit => FreshInv
<1> SUFFICES ASSUME FreshInit PROVE FreshInv
  OBVIOUS
<1>1. mishaps \in 0..FreshFaults
  BY FreshAssumption DEF FreshInit
<1>2. unpacked \in BOOLEAN /\ pinned \in BOOLEAN /\ resuming \in BOOLEAN /\ inPlace \in BOOLEAN
  BY Zenon DEF FreshInit
<1>3. FreshTypes
  BY <1>1, <1>2 DEF FreshInit, FreshTypes
<1>4. Passwords
  BY DEF FreshInit, Passwords
<1> QED
  BY <1>3, <1>4 DEF FreshInit, FreshInv, FreshLeft

LEMMA FreshStep == FreshInv /\ [FreshNext]_freshVars => FreshInv'
<1> SUFFICES ASSUME FreshInv, [FreshNext]_freshVars PROVE FreshInv'
  OBVIOUS
<1>1. CASE UNCHANGED freshVars
  BY <1>1 DEF freshVars, database, FreshInv, FreshTypes, Passwords, FreshLeft, LoggedIn,
     FromUnpack, FromStaged, WholeInstall
<1> QED
  BY <1>1, ExecuteInv, FreshRestInv DEF FreshNext

LEMMA FreshAlways == FreshSpec => []FreshInv
BY FreshInitInv, FreshStep, PTL DEF FreshSpec

LEMMA InstallSafeInv == FreshInv => InstallSafe
<1> SUFFICES ASSUME FreshInv PROVE InstallSafe
  OBVIOUS
<1>1. ForeignUntouched
  BY DEF FreshInv, FreshTypes, Passwords, ForeignUntouched
<1>2. ServicesCanLogIn
  BY DEF FreshInv, Passwords, LoggedIn, ServicesCanLogIn
<1>3. SecretsOutlive
  BY DEF FreshInv, Passwords, SecretsOutlive
<1> QED
  BY <1>1, <1>2, <1>3 DEF InstallSafe

LEMMA FreshTypedOK == FreshInv => FreshTypeOK
<1> SUFFICES ASSUME FreshInv PROVE FreshTypeOK
  OBVIOUS
<1>1. {made, secrets, ownerPw, runtimePw, credFiles} \subseteq 0..2
  BY DEF FreshInv, Passwords
<1> QED
  BY <1>1, FreshPhaseNames DEF FreshInv, FreshTypes, FreshTypeOK
-----------------------------------------------------------------------------
(***************************************************************************)
(* Side by side.  A behaviour of MCDeployment is a behaviour of each part. *)
(***************************************************************************)
THEOREM DeploymentSideBySide ==
  Spec => UpSpec /\ FreshSpec /\ SchemaSpec /\ PartSpec /\ RotationSpec /\ RestoreSpec
<1>1. Init => UpInit /\ FreshInit /\ SchemaInit /\ PartInit /\ RotationInit /\ RestoreInit
  BY DEF Init
<1>2. [Next]_deployVars => /\ [UpNext]_upVars /\ [FreshNext]_freshVars /\ [SchemaNext]_schemaVars
                           /\ [PartNext]_partVars /\ [RotationNext]_rotationVars
                           /\ [RestoreNext]_restoreVars
  <2> SUFFICES ASSUME [Next]_deployVars
               PROVE  /\ [UpNext]_upVars /\ [FreshNext]_freshVars /\ [SchemaNext]_schemaVars
                      /\ [PartNext]_partVars /\ [RotationNext]_rotationVars
                      /\ [RestoreNext]_restoreVars
    OBVIOUS
  <2>1. CASE UNCHANGED deployVars
    BY <2>1 DEF deployVars
  <2>2. CASE Alone("upgrade") /\ UpNext
    BY <2>2 DEF Alone
  <2>3. CASE Alone("fresh") /\ FreshNext
    BY <2>3 DEF Alone
  <2>4. CASE Alone("schema") /\ SchemaNext
    BY <2>4 DEF Alone
  <2>5. CASE Alone("parts") /\ PartNext
    BY <2>5 DEF Alone
  <2>6. CASE Alone("rotation") /\ RotationNext
    BY <2>6 DEF Alone
  <2>7. CASE Alone("restore") /\ RestoreNext
    BY <2>7 DEF Alone
  <2> QED
    BY <2>1, <2>2, <2>3, <2>4, <2>5, <2>6, <2>7 DEF Next
<1> QED
  BY <1>1, <1>2, PTL DEF Spec, UpSpec, FreshSpec, SchemaSpec, PartSpec, RotationSpec, RestoreSpec

\* Once up, a service finds every table, index and column; a log is projected
\* once unless backfills overlap; and the month that begins has its partition
\* unless the job was missed for long or is refused by logs in no partition.
\* The window has two months at least (the timer passes three).
THEOREM DatabaseReadyHolds == ASSUME Window > 1 PROVE Spec => []DatabaseReady
<1>1. SchemaInv => UpIsComplete
  BY UpIsCompleteInv
<1>2. PartInv => ProjectedOnce /\ MonthIsReady
  BY ProjectedOnceInv, MonthReadyInv
<1> QED
  BY <1>1, <1>2, DeploymentSideBySide, SchemaAlways, PartAlways, PTL DEF DatabaseReady

\* Through any rotations, refused, failed and killed ones too, as many verified
\* copies of the SQLite database are kept as there were, up to KeepCopies; and
\* a manifest is written only for an archive that a restore can bring back.
THEOREM RecoveryMaterialHolds == Spec => []RecoveryMaterial
<1>1. RotationInv => RotationKeeps
  BY RotationKeepsInv
<1>2. DumpInv /\ CommandInv => BackupsUsable
  BY UsableInv
<1> QED
  BY <1>1, <1>2, DeploymentSideBySide, RotationAlways, RestoreAlways, PTL DEF RecoveryMaterial

\* At whatever command an upgrade is killed or resumed, a missing tree can be
\* put back and, but for a reboot or an ignored failing stop, old code meets no
\* new schema and no row is left behind; wherever an installation is cut off,
\* passwords, roles and schema fit together and a foreign database is left alone.
THEOREM CutoversSafeHold == Spec => []CutoversSafe
<1>1. UpInv => UpgradeSafe
  BY UpgradeSafeInv
<1>2. FreshInv => InstallSafe
  BY InstallSafeInv
<1> QED
  BY <1>1, <1>2, DeploymentSideBySide, UpAlways, FreshAlways, PTL DEF CutoversSafe

\* The types of the upgrade, the installation, the schema, the partitions and
\* the backups, for any bounds.
THEOREM DeploymentTypesHold == Spec => []DeploymentTypes
<1>1. UpInv => UpTypeOK
  BY UpTypedOK
<1>2. FreshInv => FreshTypeOK
  BY FreshTypedOK
<1>3. SchemaInv => SchemaTypeOK
  BY SchemaTypedOK
<1>4. PartInv => PartTypeOK
  BY PartTypedOK
<1>5. RotationInv => RotationTypeOK
  BY RotationTypedOK
<1>6. DumpInv /\ CommandInv => RestoreTypeOK
  BY RestoreTypedOK
<1> QED
  BY <1>1, <1>2, <1>3, <1>4, <1>5, <1>6, DeploymentSideBySide, UpAlways, FreshAlways,
     SchemaAlways, PartAlways, RotationAlways, RestoreAlways, PTL DEF DeploymentTypes
=============================================================================
