---------------------------- MODULE BackupRotation ----------------------------
(***************************************************************************)
(* backup_restore.py, create_sqlite_backup: requests of the dashboard that *)
(* copy the SQLite database into files of one directory, check the copies  *)
(* and rotate old ones out, side by side and with crashes.  `order` is the *)
(* directory by modification time.                                         *)
(***************************************************************************)
EXTENDS Naturals, Sequences, FiniteSets, SequencesExt, FiniteSetsExt

CONSTANTS Makers,     \* requests that run at the same time
          KeepCopies, \* keep=14
          MaxCopies   \* bound on the files that are made
ASSUME RotationAssumption == KeepCopies \in Nat \ {0} /\ MaxCopies \in Nat

VARIABLES
  order,     \* files of the directory, oldest first
  whole,     \* files that hold a whole copy
  copies,    \* number of files made
  maker,     \* per request: [at, file, old], old the files to be removed
  verified,  \* history: files that passed the check
  wasted     \* history: files whose request failed or crashed, or that were
             \* listed for removal while they were being made
rotationVars == <<order, whole, copies, maker, verified, wasted>>

Resting == [at |-> "idle", file |-> 0, old |-> <<>>]
RotationInit == /\ order = <<>> /\ whole = {} /\ copies = 0 /\ verified = {}
                /\ maker = [m \in Makers |-> Resting] /\ wasted = {}

Present == ToSet(order)
PlaceOf(f) == CHOOSE i \in DOMAIN order : order[i] = f
Without(f) == IF f \in Present THEN RemoveAt(order, PlaceOf(f)) ELSE order
To(m, where) == maker' = [maker EXCEPT ![m].at = where]
\* mkstemp, with a name of its own
MakeFile(m) ==
  /\ maker[m].at = "idle" /\ copies < MaxCopies /\ copies' = copies + 1
  /\ maker' = [maker EXCEPT ![m] = [at |-> "copy", file |-> copies', old |-> <<>>]]
  /\ order' = Append(order, copies')
  /\ UNCHANGED <<whole, verified, wasted>>
\* the online backup, of a database that may be damaged; a file removed
\* meanwhile is lost, or made again if it was not open yet
CopyDatabase(m) ==
  LET f == maker[m].file IN
  /\ maker[m].at = "copy" /\ To(m, "check")
  /\ \/ order' = Append(Without(f), f) /\ whole' \in {whole, whole \cup {f}}
     \/ f \notin Present /\ UNCHANGED <<order, whole>>
  /\ UNCHANGED <<copies, verified, wasted>>
RestRequest(m) == maker' = [maker EXCEPT ![m] = Resting]
\* an exception while copying, or a copy that fails the check: unlink; a
\* check that raises itself leaves the file
GiveUpCopy(m) ==
  LET f == maker[m].file IN
  /\ maker[m].at \in {"copy", "check"} /\ RestRequest(m)
  /\ \/ order' = Without(f) /\ whole' = whole \ {f}
     \/ maker[m].at = "check" /\ UNCHANGED <<order, whole>>
  /\ wasted' = wasted \cup {f}
  /\ UNCHANGED <<copies, verified>>
CheckedAnyway(f) == TRUE                   \* mutant: no integrity check
Checked(f) == f \in Present /\ f \in whole
CheckCopy(m) ==
  LET f == maker[m].file IN
  /\ maker[m].at = "check" /\ Checked(f)
  /\ verified' = verified \cup {f} /\ To(m, "list")
  /\ UNCHANGED <<order, whole, copies, wasted>>
Unfinished == {maker[m].file : m \in {n \in Makers : maker[n].at \in {"copy", "check"}}}
\* backups[:-keep] of all the files there, also those of other requests
OldestFirst(n) == SubSeq(order, 1, n)
OldOnes == IF Len(order) > KeepCopies THEN OldestFirst(Len(order) - KeepCopies) ELSE <<>>
ListCopies(m) ==
  /\ maker[m].at = "list"
  /\ maker' = [maker EXCEPT ![m].at = "remove", ![m].old = OldOnes]
  /\ wasted' = wasted \cup (ToSet(OldOnes) \cap Unfinished)
  /\ UNCHANGED <<order, whole, copies, verified>>
RemoveOne(m) ==
  LET f == Head(maker[m].old) IN
  /\ maker[m].at = "remove" /\ maker[m].old # <<>> /\ f \in Present
  /\ order' = Without(f) /\ whole' = whole \ {f}
  /\ maker' = [maker EXCEPT ![m].old = Tail(@)]
  /\ UNCHANGED <<copies, verified, wasted>>
\* stat() or unlink() of a file another request has removed raises: the
\* request fails, its copy stays
RemoveRaises(m) ==
  /\ \/ maker[m].at = "list" /\ \E n \in Makers \ {m} : maker[n].old # <<>>
     \/ maker[m].at = "remove" /\ maker[m].old # <<>> /\ Head(maker[m].old) \notin Present
  /\ RestRequest(m)
  /\ UNCHANGED <<order, whole, copies, verified, wasted>>
\* the answer; stat() of the own file raises if it is gone
Answer(m) ==
  /\ maker[m].at = "remove" /\ maker[m].old = <<>> /\ RestRequest(m)
  /\ UNCHANGED <<order, whole, copies, verified, wasted>>
\* the dashboard dies: unfinished files stay in the directory
DashboardCrash ==
  /\ \E m \in Makers : maker[m].at # "idle"
  /\ maker' = [m \in Makers |-> Resting]
  /\ wasted' = wasted \cup Unfinished
  /\ UNCHANGED <<order, whole, copies, verified>>

RotationNext ==
  \/ \E m \in Makers : \/ MakeFile(m) \/ CopyDatabase(m) \/ GiveUpCopy(m)
                       \/ CheckCopy(m) \/ ListCopies(m) \/ RemoveOne(m)
                       \/ RemoveRaises(m) \/ Answer(m)
  \/ DashboardCrash
RotationSpec == RotationInit /\ [][RotationNext]_rotationVars

RotationTypeOK ==
  /\ copies \in 0..MaxCopies /\ Present \subseteq 1..copies /\ IsInjective(order)
  /\ whole \subseteq Present /\ verified \cup wasted \subseteq 1..copies
  /\ \A m \in Makers : /\ maker[m].at \in {"idle", "copy", "check", "list", "remove"}
                       /\ maker[m].at # "idle" => maker[m].file \in 1..copies

(* "Rotation occurs only after the new copy passes a full integrity check": *)
(* the directory keeps KeepCopies verified copies, or all there were; each  *)
(* copy that is unfinished, failed, was cut off, or was listed before it was *)
(* finished, can cost one of them, not more, however the requests overlap.  *)
RotationKeeps ==
  Cardinality(verified \cap whole) + Cardinality(Unfinished \cup wasted)
    >= Min({KeepCopies, Cardinality(verified)})
=============================================================================
