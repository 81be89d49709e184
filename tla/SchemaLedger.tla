----------------------------- MODULE SchemaLedger -----------------------------
(***************************************************************************)
(* db.py's initialize(), which each service runs at its start on SQLite,   *)
(* and on PostgreSQL the owner's bootstrap or upgrade                      *)
(* (postgres_upgrade_existing.py) and the services' ensure_runtime_ready.  *)
(* A version is a migration of the ledger; it adds a column or a table, or *)
(* marks what a helper of initialize() adds.  On SQLite an ALTER TABLE is  *)
(* committed by itself, on PostgreSQL with the row of the ledger.          *)
(***************************************************************************)
EXTENDS Naturals, FiniteSets, FiniteSetsExt

CONSTANTS Starting,    \* listener and dashboard
          SchemaBackends,
          Versions,    \* 1..n
          Indexed,     \* versions whose column an index of the base schema names
          Tables,      \* versions that create a table, if it does not exist
          Helpers,     \* "SELECT 1" versions, their columns indexed as well
          MaxStartStops   \* bound on crashes, errors and stops
ASSUME SchemaAssumption ==
  /\ "owner" \notin Starting /\ MaxStartStops \in Nat
  /\ IsFiniteSet(Versions) /\ Versions = 1..Cardinality(Versions)
  /\ Indexed \cup Tables \cup Helpers \subseteq Versions
  /\ Indexed \cap (Tables \cup Helpers) = {} /\ Tables \cap Helpers = {}

VARIABLES
  schemaDb,  \* the backend
  exists,    \* are there tables?
  built,      \* versions whose column or table is there
  ledger,    \* schema_migrations
  starter,   \* process -> [at, applied, version]
  stops
schemaVars == <<schemaDb, exists, built, ledger, starter, stops>>

Columns == Versions \ (Tables \cup Helpers)
Starters == Starting \cup {"owner"}
Stopped == [at |-> "down", applied |-> {}, version |-> 0]
\* no database, one of an earlier release with or without a ledger, or one
\* that was recorded as current though a column was missing from its tables
SchemaInit ==
  /\ schemaDb \in SchemaBackends /\ starter = [p \in Starters |-> Stopped] /\ stops = 0
  /\ \/ exists = FALSE /\ built = {} /\ ledger = {}
     \/ /\ exists = TRUE
        /\ \/ \E k \in Versions : built = 1..k /\ ledger = built
           \/ schemaDb = "sqlite" /\ ledger = {} /\ \E k \in {0} \cup Versions : built = 1..k
           \/ ledger = Versions /\ \E missing \in Columns \ Indexed : built = Versions \ {missing}

Put(p, s) == starter' = [starter EXCEPT ![p] = s]
Is(p, at) == starter[p].at = at
\* the base statements and ensure_*_schema; an index on a column that is not
\* there raises before anything is changed
CreateSchema(p) ==
  /\ Is(p, "down")
  /\ IF schemaDb = "sqlite" THEN p \in Starting ELSE p = "owner" /\ ledger = {}
  /\ exists => Indexed \cup Helpers \subseteq built
  /\ exists' = TRUE /\ built' = IF exists THEN built \cup Tables ELSE Versions
  /\ Put(p, [Stopped EXCEPT !.at = "baseline"])
  /\ UNCHANGED <<schemaDb, ledger, stops>>
\* ensure_schema_baseline; of two at once the second is refused, and goes on
Stamped == IF ledger = {} THEN Versions ELSE ledger
Baseline(p) ==
  /\ Is(p, "baseline") /\ ledger' = Stamped
  /\ Put(p, [Stopped EXCEPT !.at = "read"])
  /\ UNCHANGED <<schemaDb, exists, built, stops>>
\* the upgrade of PostgreSQL refuses an empty ledger
ReadLedger(p) ==
  /\ \/ Is(p, "read")
     \/ Is(p, "down") /\ p = "owner" /\ schemaDb = "postgres" /\ ledger # {}
  /\ Put(p, [Stopped EXCEPT !.at = "apply", !.applied = ledger])
  /\ UNCHANGED <<schemaDb, exists, built, ledger, stops>>
Pending(p) == Versions \ starter[p].applied
\* ADD COLUMN raises when the column is there
Applies(p, v) == v \in Columns => v \notin built
Apply(p) ==
  LET v == Min(Pending(p)) IN
  /\ Is(p, "apply") /\ Pending(p) # {}
  /\ IF ~Applies(p, v) THEN Put(p, Stopped) /\ UNCHANGED <<built, ledger>>
     ELSE /\ built' = built \cup ({v} \ Helpers)
          /\ IF schemaDb = "sqlite"
             THEN Put(p, [starter[p] EXCEPT !.at = "record", !.version = v]) /\ UNCHANGED ledger
             ELSE Put(p, [starter[p] EXCEPT !.applied = @ \cup {v}]) /\ ledger' = ledger \cup {v}
  /\ UNCHANGED <<schemaDb, exists, stops>>
\* the INSERT raises when another process has recorded the version
Record(p) ==
  LET v == starter[p].version IN
  /\ Is(p, "record")
  /\ IF v \in ledger THEN Put(p, Stopped)
     ELSE Put(p, [starter[p] EXCEPT !.at = "apply", !.applied = @ \cup {v}])
  /\ ledger' = ledger \cup {v}
  /\ UNCHANGED <<schemaDb, exists, built, stops>>
\* _repair_missing_migration_columns, not a part of the upgrade
LackingNone(p) == {}
Lacking(p) == IF p = "owner" THEN {} ELSE Columns \ built
Repair(p) ==
  /\ Is(p, "apply") /\ Pending(p) = {}
  /\ Put(p, IF Lacking(p) = {} THEN [Stopped EXCEPT !.at = "up"]
            ELSE [starter[p] EXCEPT !.at = "add", !.version = Min(Lacking(p))])
  /\ UNCHANGED <<schemaDb, exists, built, ledger, stops>>
AddColumn(p) ==
  LET v == starter[p].version IN
  /\ Is(p, "add") /\ built' = built \cup {v}
  /\ Put(p, IF v \in built THEN Stopped ELSE [starter[p] EXCEPT !.at = "apply"])
  /\ UNCHANGED <<schemaDb, exists, ledger, stops>>
EnsureRuntimeReady(p) ==
  /\ Is(p, "down") /\ p \in Starting /\ schemaDb = "postgres"
  /\ exists /\ Tables \subseteq built /\ ledger = Versions
  /\ Put(p, [Stopped EXCEPT !.at = "up"])
  /\ UNCHANGED <<schemaDb, exists, built, ledger, stops>>
\* a crash, a database locked for too long, a restart of a service
StartFails(p) ==
  /\ ~Is(p, "down") /\ stops < MaxStartStops /\ stops' = stops + 1 /\ Put(p, Stopped)
  /\ UNCHANGED <<schemaDb, exists, built, ledger>>

StartStep(p) == \/ CreateSchema(p) \/ Baseline(p) \/ ReadLedger(p) \/ Apply(p) \/ Record(p)
                \/ Repair(p) \/ AddColumn(p) \/ EnsureRuntimeReady(p)
SchemaNext == \E p \in Starters : StartStep(p) \/ StartFails(p)
SchemaSpec == SchemaInit /\ [][SchemaNext]_schemaVars
\* systemd restarts a service that failed, the operator repeats the upgrade
SchemaFair == \A p \in Starters : WF_schemaVars(StartStep(p))

SchemaTypeOK ==
  /\ built \subseteq Versions /\ ledger \subseteq Versions /\ stops \in 0..MaxStartStops
  /\ \A p \in Starters :
       /\ starter[p].at \in {"down", "baseline", "read", "apply", "record", "add", "up"}
       /\ starter[p].applied \subseteq ledger
       /\ Is(p, "record") => starter[p].version \in built \cup Helpers

(* A service that is up has every table and column of its release and a     *)
(* complete ledger, whatever release the database is of, however the starts *)
(* of two services interleave and wherever one is cut off.  On PostgreSQL   *)
(* what no ALTER of the ledger adds, or the ledger wrongly has, may miss.   *)
UpIsComplete ==
  \A p \in Starting : Is(p, "up") =>
    /\ ledger = Versions
    /\ \/ built = Versions
       \/ schemaDb = "postgres" /\ Indexed \cup Tables \subseteq built
(* "apply migrations.  Idempotent": whatever fails or interleaves, both     *)
(* services come up in the end, but for a database that lacks an indexed    *)
(* column and one whose process ended between an ALTER and its record.      *)
TooOld == schemaDb = "sqlite" /\ exists /\ ~(Indexed \cup Helpers \subseteq built)
Torn == \E v \in Columns \cap built : /\ v \notin ledger /\ ledger # {}
           /\ \A p \in Starters : Is(p, "record") => starter[p].version # v
ServicesUp == \A p \in Starting : Is(p, "up")
ServicesStart == []<>(TooOld \/ Torn \/ ServicesUp)
(* "Create all tables and indexes if missing, then apply migrations.        *)
(* Idempotent": the database of an earlier release is brought up to date.   *)
OldDatabasesStart == []<>(Torn \/ ServicesUp)
=============================================================================
