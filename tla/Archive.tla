------------------------------ MODULE Archive ------------------------------
(***************************************************************************)
(* archive.py: cycles that copy old events into sealed segment files, and  *)
(* in "move" mode evict them from the hot tables.  A cycle is a process of *)
(* tools/archive_now.py, so that two may overlap; each transaction of      *)
(* theirs is a step, and a crash may come between any two.                 *)
(***************************************************************************)
EXTENDS Naturals, FiniteSets

CONSTANTS Cycles,      \* processes that may run a cycle
          MaxId,       \* bound on the ids of the events that are stored
          BatchRows,   \* rows a segment takes at most
          MaxSegments, \* bound on the segment files
          MaxDamage    \* bound on the files that get damaged
ASSUME ArchiveAssumption == BatchRows \in Nat \ {0} /\ MaxId \in Nat /\ MaxSegments \in Nat

VARIABLES
  nextId,      \* next id of logs.id, which is never used again
  hot,         \* ids in the hot tables
  catalog,     \* archive_occurrence_catalog: id -> segment, 0 if none
  files,       \* number of segment files made
  content,     \* segment file -> ids of the rows in it
  sealed,      \* rows of archive_segments
  damaged,     \* files that no longer have their checksum
  cycle        \* what every cycle is at: [at, mode, ids, seg]
archiveVars == <<nextId, hot, catalog, files, content, sealed, damaged, cycle>>

Ids == 1..MaxId
Segments == 1..MaxSegments
Cataloged == {e \in Ids : catalog[e] # 0}
NoCycle == [at |-> "idle", mode |-> "copy", ids |-> {}, seg |-> 0]

ArchInit ==
  /\ nextId = 1 /\ hot = {} /\ catalog = [e \in Ids |-> 0]
  /\ files = 0 /\ content = [s \in Segments |-> {}]
  /\ sealed = {} /\ damaged = {}
  /\ cycle = [c \in Cycles |-> NoCycle]

\* an event is committed to the hot tables, and is old enough at once
Ingest ==
  /\ nextId <= MaxId
  /\ hot' = hot \cup {nextId} /\ nextId' = nextId + 1
  /\ UNCHANGED <<catalog, files, content, sealed, damaged, cycle>>

Oldest(S) == {e \in S : Cardinality({f \in S : f <= e}) <= BatchRows}
GoTo(c, where) == cycle' = [cycle EXCEPT ![c].at = where]

\* run_archive_cycle with the mode the configuration has now
BeginCycle(c, m) ==
  /\ cycle[c].at = "idle"
  /\ cycle' = [cycle EXCEPT ![c].mode = m,
                            ![c].at = IF m = "move" THEN "copies" ELSE "read"]
  /\ UNCHANGED <<nextId, hot, catalog, files, content, sealed, damaged>>
\* _evict_verified_existing_copies: the rows, the check, the deletion
ReadCopies(c) ==
  LET ids == Oldest(hot \cap Cataloged) IN
  /\ cycle[c].at = "copies"
  /\ cycle' = [cycle EXCEPT ![c].ids = ids,
                            ![c].at = IF ids = {} THEN "read" ELSE "check"]
  /\ UNCHANGED <<nextId, hot, catalog, files, content, sealed, damaged>>
IntactUnchecked(ids) == TRUE               \* mutant: no verification
Intact(ids) == \A e \in ids : catalog[e] \notin damaged /\ e \in content[catalog[e]]
CheckCopies(c) ==
  /\ cycle[c].at = "check"
  /\ cycle' = [cycle EXCEPT ![c] = IF Intact(@.ids) THEN [@ EXCEPT !.at = "evict"]
                                   ELSE NoCycle]
  /\ UNCHANGED <<nextId, hot, catalog, files, content, sealed, damaged>>
Evict(c) ==
  /\ cycle[c].at = "evict"
  /\ hot' = hot \ cycle[c].ids
  /\ GoTo(c, "read")
  /\ UNCHANGED <<nextId, catalog, files, content, sealed, damaged>>

\* the oldest rows that are not in the catalog
Read(c) ==
  LET ids == Oldest(hot \ Cataloged) IN
  /\ cycle[c].at = "read"
  /\ cycle' = [cycle EXCEPT ![c] = IF ids = {} THEN NoCycle
                                   ELSE [@ EXCEPT !.ids = ids, !.at = "build"]]
  /\ UNCHANGED <<nextId, hot, catalog, files, content, sealed, damaged>>
\* the file, its VACUUM, checksum and manifest; its name is never used again
Build(c) ==
  /\ cycle[c].at = "build" /\ files < MaxSegments
  /\ files' = files + 1
  /\ content' = [content EXCEPT ![files + 1] = cycle[c].ids]
  /\ cycle' = [cycle EXCEPT ![c].seg = files + 1, ![c].at = "verify"]
  /\ UNCHANGED <<nextId, hot, catalog, sealed, damaged>>
\* verify_on_create, on by default: the file is read back and compared
Verify(c) ==
  /\ cycle[c].at = "verify"
  /\ cycle' = [cycle EXCEPT ![c] =
       IF @.seg \notin damaged /\ @.ids \subseteq content[@.seg]
       THEN [@ EXCEPT !.at = "commit"] ELSE NoCycle]
  /\ UNCHANGED <<nextId, hot, catalog, files, content, sealed, damaged>>
\* _catalog_segment and, in move mode, the eviction: one transaction
Seal(c) ==
  /\ cycle[c].at = "commit"
  /\ sealed' = sealed \cup {cycle[c].seg}
  /\ catalog' = [e \in Ids |-> IF e \in cycle[c].ids /\ catalog[e] = 0
                               THEN cycle[c].seg ELSE catalog[e]]
  /\ hot' = IF cycle[c].mode = "move" THEN hot \ cycle[c].ids ELSE hot
  /\ cycle' = [cycle EXCEPT ![c] = NoCycle]
  /\ UNCHANGED <<nextId, files, content, damaged>>

\* an error or a crash: the transaction is rolled back, a file stays
GiveUpCycle(c) ==
  /\ cycle[c].at # "idle"
  /\ cycle' = [cycle EXCEPT ![c] = NoCycle]
  /\ UNCHANGED <<nextId, hot, catalog, files, content, sealed, damaged>>
\* a file is damaged while its rows are hot and no cycle has verified it
Damage(s) ==
  /\ s <= files /\ s \notin damaged /\ content[s] \subseteq hot
  /\ Cardinality(damaged) < MaxDamage
  /\ \A c \in Cycles : /\ cycle[c].at = "commit" => cycle[c].seg # s
                       /\ cycle[c].at = "evict" => cycle[c].ids \cap content[s] = {}
  /\ damaged' = damaged \cup {s}
  /\ UNCHANGED <<nextId, hot, catalog, files, content, sealed, cycle>>

CycleStep(c) == \/ ReadCopies(c) \/ CheckCopies(c) \/ Evict(c) \/ Read(c)
                \/ Build(c) \/ Verify(c) \/ Seal(c)
ArchNext == \/ Ingest
            \/ \E c \in Cycles : \/ \E m \in {"copy", "move"} : BeginCycle(c, m)
                                 \/ CycleStep(c) \/ GiveUpCycle(c)
            \/ \E s \in Segments : Damage(s)
ArchSpec == ArchInit /\ [][ArchNext]_archiveVars

CyclePhases == {"idle", "copies", "check", "evict", "read", "build", "verify", "commit"}
ArchTypeOK ==
  /\ nextId \in 1..(MaxId + 1) /\ hot \subseteq 1..(nextId - 1)
  /\ catalog \in [Ids -> {0} \cup sealed]
  /\ files \in 0..MaxSegments /\ content \in [Segments -> SUBSET Ids]
  /\ sealed \subseteq 1..files /\ damaged \subseteq 1..files
  /\ cycle \in [Cycles -> [at : CyclePhases, mode : {"copy", "move"},
                           ids : SUBSET Ids, seg : 0..files]]
  /\ \A c \in Cycles : Cardinality(cycle[c].ids) <= BatchRows

Readable == UNION {content[s] : s \in sealed \ damaged}
(* An event that was stored is in the hot tables or in a sealed segment     *)
(* that still has its checksum, whatever crashed, overlapped or was damaged.*)
EvidenceKept == \A e \in 1..(nextId - 1) : e \in hot \cup Readable

(* The cycles implement EventStore, the sealed segments that still have     *)
(* their checksum being the archive: an event leaves the hot tables only    *)
(* when it is in one, and no crash, retry, overlap of two cycles or damage  *)
(* loses it.                                                                *)
Abstract == INSTANCE EventStore WITH
  Events <- Ids, stored <- 1..(nextId - 1), hotSet <- hot, archived <- Readable
ImplementsEventStore == Abstract!ESSpec
=============================================================================
