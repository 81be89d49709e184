----------------------------- MODULE Lines_proof -----------------------------
(***************************************************************************)
(* Proofs about what agents send and what is made of a line: the journal   *)
(* reader, the Windows agent and the tail of a file, for any entries,      *)
(* records, lines, batches and restarts; the fields extracted from a log,  *)
(* for any jobs and logs; and the frames of a TCP stream, for any limits.  *)
(***************************************************************************)
EXTENDS AgentTail, JournalReader, WinAgent, TcpFramer, FieldReindex, Sums, SequenceTheorems, TLAPS

(***************************************************************************)
(* JournalReader.  What was given reaches from the saved cursor to where   *)
(* journalctl is without a gap, and what was given since the last save is  *)
(* what was counted.                                                       *)
(***************************************************************************)
JournalTypes ==
  /\ unwanted \subseteq Entries /\ before \subseteq Entries
  /\ written \in Nat /\ written <= MaxEntries
  /\ cursor \in Nat /\ cursor <= written /\ onDisk \in Nat /\ onDisk <= written
  /\ at \in Nat /\ at <= written /\ count \in Nat /\ count < SaveEvery
  /\ reader \in {"down", "read", "sent", "ended"} /\ given \in [Entries -> 0..2]
  /\ killed \in BOOLEAN /\ unsaved \in BOOLEAN /\ ends \in 0..MaxEnds
CoveredTo(c) == \A i \in 1..c : i \in Given \cup unwanted \cup before
NoGap ==
  /\ CoveredTo(cursor) /\ CoveredTo(onDisk) /\ (reader # "down" => CoveredTo(at))
  /\ \A i \in Given : CoveredTo(i) /\ i \notin unwanted
InOrder ==
  /\ reader # "down" => onDisk <= cursor /\ cursor <= at
  /\ reader = "sent" => cursor < at
  /\ reader = "read" => \A i \in Given : cursor < i /\ i <= at => i \in before
  /\ reader = "sent" => \A i \in Given : cursor < i /\ i < at => i \in before
GivenOnce ==
  ~killed /\ ~unsaved =>
    \A i \in Given : /\ given[i] = 1 /\ (reader = "down" => i <= onDisk)
                     /\ (reader \in {"read", "ended"} => i <= cursor)
                     /\ (reader = "sent" => i <= at)
Repeatable == {i \in Given \ before : i > onDisk}
SinceSave == {i \in Given \ before : i > onDisk /\ i <= cursor}
FewSinceSave ==
  ~unsaved => /\ Cardinality(Repeatable) <= SaveEvery
              /\ reader \in {"read", "sent"} => Cardinality(SinceSave) <= count
JournalInv == JournalTypes /\ NoGap /\ InOrder /\ GivenOnce /\ FewSinceSave
-----------------------------------------------------------------------------
LEMMA SmallerSet ==
  ASSUME NEW S, NEW T, S \subseteq T, IsFiniteSet(T)
  PROVE  /\ IsFiniteSet(S) /\ Cardinality(S) <= Cardinality(T)
         /\ Cardinality(S) \in Nat /\ Cardinality(T) \in Nat
BY FS_Subset, FS_CardinalityType

LEMMA OneLarger ==
  ASSUME NEW S, NEW T, NEW x, S \subseteq T \cup {x}, IsFiniteSet(T)
  PROVE  /\ IsFiniteSet(S) /\ Cardinality(S) <= Cardinality(T) + 1
         /\ Cardinality(S) \in Nat /\ Cardinality(T) \in Nat
<1>1. IsFiniteSet(T \cup {x}) /\ Cardinality(T) \in Nat
      /\ Cardinality(T \cup {x}) \in {Cardinality(T), Cardinality(T) + 1}
  BY FS_AddElement, FS_CardinalityType
<1>2. Cardinality(S) <= Cardinality(T \cup {x}) /\ IsFiniteSet(S) /\ Cardinality(S) \in Nat
  BY <1>1, SmallerSet
<1> QED
  BY <1>1, <1>2

LEMMA NextCount ==
  ASSUME NEW n \in Nat \ {0}, NEW c \in Nat, c < n
  PROVE  /\ (c + 1) % n \in Nat /\ (c + 1) % n < n
         /\ (c + 1) % n = 0 <=> c + 1 = n
         /\ (c + 1) % n # 0 => (c + 1) % n = c + 1
OBVIOUS

LEMMA GivenTyped ==
  ASSUME JournalTypes
  PROVE  /\ \A i \in Given : i \in Entries /\ i \in Nat /\ i >= 1 /\ i <= MaxEntries /\ given[i] \in 1..2
         /\ IsFiniteSet(Given) /\ IsFiniteSet(Repeatable) /\ IsFiniteSet(SinceSave)
         /\ SinceSave \subseteq Repeatable
         /\ Cardinality(Repeatable) \in Nat /\ Cardinality(SinceSave) \in Nat
<1>1. \A i \in Given : i \in Entries /\ i \in Nat /\ i >= 1 /\ i <= MaxEntries /\ given[i] \in 1..2
  BY JournalAssumption DEF JournalTypes, Given, Entries
<1>2. IsFiniteSet(1..MaxEntries)
  BY FS_Interval, JournalAssumption
<1>3. Given \subseteq 1..MaxEntries /\ Repeatable \subseteq Given /\ SinceSave \subseteq Repeatable
  BY <1>1 DEF Repeatable, SinceSave, Entries
<1> QED
  BY <1>1, <1>2, <1>3, SmallerSet

LEMMA JournalInitInv == JournalInit => JournalInv
<1> SUFFICES ASSUME JournalInit PROVE JournalInv
  OBVIOUS
<1> USE DEF JournalInit
<1>1. JournalTypes
  <2>1. written \in Nat /\ written <= MaxEntries /\ given \in [Entries -> 0..2]
    BY JournalAssumption
  <2>2. 0 <= written /\ 0 < SaveEvery /\ ends \in 0..MaxEnds
    BY JournalAssumption
  <2>3. killed \in BOOLEAN /\ unsaved \in BOOLEAN
    OBVIOUS
  <2> QED
    BY <2>1, <2>2, <2>3 DEF JournalTypes
<1>2. Given = {}
  BY DEF Given
<1>3. NoGap /\ InOrder /\ GivenOnce
  BY <1>2 DEF NoGap, CoveredTo, InOrder, GivenOnce
<1>4. FewSinceSave
  <2>1. Repeatable = {} /\ SinceSave = {}
    BY <1>2 DEF Repeatable, SinceSave
  <2> QED
    BY <2>1, FS_EmptySet, JournalAssumption DEF FewSinceSave
<1> QED
  BY <1>1, <1>3, <1>4 DEF JournalInv

\* A step that gives nothing and forgets nothing.
LEMMA NothingGiven ==
  ASSUME JournalTypes, NoGap, UNCHANGED <<unwanted, given, before>>,
         cursor' \in {cursor, onDisk, at}, onDisk' \in {cursor, onDisk, at},
         (cursor' = at \/ onDisk' = at) => reader # "down" \/ at \in {cursor, onDisk},
         reader' # "down" => at' = at /\ reader # "down"
  PROVE  NoGap' /\ Given' = Given
<1>1. Given' = Given
  BY DEF Given
<1>2. ASSUME NEW c, CoveredTo(c) PROVE \A i \in 1..c : i \in Given' \cup unwanted' \cup before'
  BY <1>1, <1>2 DEF CoveredTo
<1>3. CoveredTo(cursor) /\ CoveredTo(onDisk) /\ (reader # "down" => CoveredTo(at))
  BY DEF NoGap
<1>4. \A i \in 1..cursor' : i \in Given' \cup unwanted' \cup before'
  BY <1>2, <1>3
<1>5. \A i \in 1..onDisk' : i \in Given' \cup unwanted' \cup before'
  BY <1>2, <1>3
<1>6. reader' # "down" => \A i \in 1..at' : i \in Given' \cup unwanted' \cup before'
  BY <1>2, <1>3
<1>7. ASSUME NEW i \in Given' PROVE CoveredTo(i)' /\ i \notin unwanted'
  <2>1. CoveredTo(i) /\ i \notin unwanted
    BY <1>1 DEF NoGap
  <2> QED
    BY <1>2, <2>1 DEF CoveredTo
<1> QED
  BY <1>1, <1>4, <1>5, <1>6, <1>7 DEF NoGap, CoveredTo

LEMMA JournalLogs == ASSUME JournalInv, LogEntry PROVE JournalInv'
<1>1. JournalTypes'
  BY JournalAssumption DEF LogEntry, JournalInv, JournalTypes
<1>2. NoGap' /\ Given' = Given
  BY NothingGiven DEF LogEntry, JournalInv
<1>3. InOrder' /\ GivenOnce'
  BY <1>2 DEF LogEntry, JournalInv, InOrder, GivenOnce
<1>4. Repeatable' = Repeatable /\ SinceSave' = SinceSave
  BY <1>2 DEF LogEntry, Repeatable, SinceSave
<1>5. FewSinceSave'
  BY <1>4 DEF LogEntry, JournalInv, FewSinceSave
<1> QED
  BY <1>1, <1>2, <1>3, <1>5 DEF JournalInv

LEMMA JournalStarts == ASSUME JournalInv, StartReader PROVE JournalInv'
<1>1. JournalTypes /\ NoGap /\ GivenOnce /\ FewSinceSave
  BY DEF JournalInv
<1>2. /\ reader = "down" /\ reader' = "read" /\ cursor' = onDisk /\ count' = 0
      /\ UNCHANGED <<unwanted, written, onDisk, given, killed, unsaved, ends>>
      /\ Given' = Given /\ written \in Nat /\ onDisk \in Nat /\ onDisk <= written
  BY <1>1 DEF StartReader, Given, JournalTypes
<1>3. /\ onDisk # 0 => at' = onDisk /\ before' = before
      /\ onDisk = 0 => at' = written /\ before' = before \cup 1..written
      /\ before \subseteq before'
  BY DEF StartReader
<1>4. JournalTypes'
  <2>1. before' \subseteq Entries
    BY <1>1, <1>3, JournalAssumption DEF JournalTypes, Entries
  <2>2. at' \in Nat /\ at' <= written'
    BY <1>2, <1>3
  <2> QED
    BY <1>1, <1>2, <2>1, <2>2, JournalAssumption DEF JournalTypes
<1>5. ASSUME NEW i \in Given' PROVE i \in Nat /\ given[i] = given'[i]
  BY <1>1, <1>2, GivenTyped
<1>6. NoGap'
  <2>1. \A i \in 1..onDisk : i \in Given' \cup unwanted' \cup before'
    BY <1>1, <1>2, <1>3 DEF NoGap, CoveredTo
  <2>2. \A i \in 1..at' : i \in Given' \cup unwanted' \cup before'
    <3>1. CASE onDisk # 0
      BY <1>3, <2>1, <3>1
    <3>2. CASE onDisk = 0
      BY <1>3, <3>2
    <3> QED
      BY <3>1, <3>2
  <2>3. ASSUME NEW i \in Given' PROVE CoveredTo(i)' /\ i \notin unwanted'
    <3>1. CoveredTo(i) /\ i \notin unwanted
      BY <1>1, <1>2 DEF NoGap
    <3> QED
      BY <1>2, <1>3, <3>1 DEF CoveredTo
  <2> QED
    BY <1>2, <2>1, <2>2, <2>3 DEF NoGap, CoveredTo
<1>7. InOrder'
  <2>1. onDisk' <= cursor' /\ cursor' <= at'
    BY <1>2, <1>3
  <2>2. ASSUME NEW i \in Given', cursor' < i, i <= at' PROVE i \in before'
    <3>1. i \in Nat
      BY <1>5
    <3>2. onDisk = 0
      BY <1>2, <1>3, <2>2, <3>1
    <3> QED
      BY <1>2, <1>3, <2>2, <3>1, <3>2
  <2> QED
    BY <1>2, <2>1, <2>2 DEF InOrder
<1>8. GivenOnce'
  BY <1>1, <1>2, <1>5 DEF GivenOnce
<1>9. FewSinceSave'
  <2> SUFFICES ASSUME ~unsaved
               PROVE  Cardinality(Repeatable') <= SaveEvery /\ Cardinality(SinceSave') <= 0
    BY <1>2 DEF FewSinceSave
  <2>1. Repeatable' \subseteq Repeatable
    BY <1>2, <1>3 DEF Repeatable
  <2>2. Cardinality(Repeatable') <= Cardinality(Repeatable) /\ Cardinality(Repeatable') \in Nat
        /\ Cardinality(Repeatable) \in Nat
    BY <1>1, <2>1, GivenTyped, SmallerSet
  <2>3. SinceSave' = {}
    BY <1>2, <1>5 DEF SinceSave
  <2> QED
    BY <1>1, <2>2, <2>3, FS_EmptySet, JournalAssumption DEF FewSinceSave
<1> QED
  BY <1>4, <1>6, <1>7, <1>8, <1>9 DEF JournalInv

LEMMA JournalSkips == ASSUME JournalInv, SkipEntry PROVE JournalInv'
<1>1. JournalTypes /\ NoGap /\ InOrder /\ GivenOnce /\ FewSinceSave
  BY DEF JournalInv
<1>2. /\ reader = "read" /\ reader' = "read" /\ at < written /\ at + 1 \in unwanted /\ at' = at + 1
      /\ UNCHANGED <<unwanted, written, cursor, onDisk, count, given, before, killed, unsaved, ends>>
      /\ Given' = Given /\ at \in Nat /\ cursor \in Nat /\ onDisk \in Nat /\ written \in Nat
  BY <1>1 DEF SkipEntry, Given, JournalTypes
<1>3. JournalTypes'
  BY <1>1, <1>2 DEF JournalTypes
<1>4. ASSUME NEW c, CoveredTo(c) PROVE CoveredTo(c)'
  BY <1>2, <1>4 DEF CoveredTo
<1>5. ASSUME NEW i \in 1..(at + 1) PROVE i \in Given' \cup unwanted' \cup before'
  <2>1. CASE i = at + 1
    BY <1>2, <2>1
  <2>2. CASE i # at + 1
    <3>1. i \in 1..at
      BY <1>2, <2>2
    <3> QED
      BY <1>1, <1>2, <3>1 DEF NoGap, CoveredTo
  <2> QED
    BY <2>1, <2>2
<1>6. NoGap'
  <2>1. \A i \in 1..cursor' : i \in Given' \cup unwanted' \cup before'
    BY <1>1, <1>2 DEF NoGap, CoveredTo
  <2>2. \A i \in 1..onDisk' : i \in Given' \cup unwanted' \cup before'
    BY <1>1, <1>2 DEF NoGap, CoveredTo
  <2>3. ASSUME NEW i \in Given' PROVE CoveredTo(i)' /\ i \notin unwanted'
    BY <1>1, <1>2, <1>4 DEF NoGap
  <2>4. \A i \in 1..at' : i \in Given' \cup unwanted' \cup before'
    BY <1>2, <1>5
  <2> QED
    BY <2>1, <2>2, <2>3, <2>4 DEF NoGap, CoveredTo
<1>7. InOrder'
  <2>1. ASSUME NEW i \in Given', cursor' < i, i <= at' PROVE i \in before'
    <3>1. i \in Nat /\ i # at + 1 /\ i <= at
      BY <1>1, <1>2, <2>1, GivenTyped DEF NoGap
    <3> QED
      BY <1>1, <1>2, <2>1, <3>1 DEF InOrder
  <2>2. onDisk' <= cursor' /\ cursor' <= at'
    BY <1>1, <1>2 DEF InOrder
  <2> QED
    BY <1>2, <2>1, <2>2 DEF InOrder
<1>8. GivenOnce'
  BY <1>1, <1>2 DEF GivenOnce
<1>9. FewSinceSave'
  BY <1>1, <1>2 DEF FewSinceSave, Repeatable, SinceSave
<1> QED
  BY <1>3, <1>6, <1>7, <1>8, <1>9 DEF JournalInv
LEMMA JournalSends == ASSUME JournalInv, SendEntry PROVE JournalInv'
<1>1. JournalTypes /\ NoGap /\ InOrder /\ GivenOnce /\ FewSinceSave
  BY DEF JournalInv
<1>2. PICK n : n = at + 1
  OBVIOUS
<1>3. PICK g : g = IF given[n] = 0 THEN 1 ELSE 2
  OBVIOUS
<1>4. /\ reader = "read" /\ reader' = "sent" /\ at < written /\ n \notin unwanted /\ at' = n
      /\ UNCHANGED <<unwanted, written, cursor, onDisk, count, before, killed, unsaved, ends>>
      /\ at \in Nat /\ cursor \in Nat /\ onDisk \in Nat /\ written \in Nat
      /\ n \in Entries /\ n \in Nat /\ n <= written
  BY <1>1, <1>2, JournalAssumption DEF SendEntry, JournalTypes, Entries
<1>5. /\ given' \in [Entries -> 0..2] /\ given'[n] = g /\ g \in 1..2
      /\ \A i \in Entries : i # n => given'[i] = given[i]
  BY <1>1, <1>2, <1>3, <1>4 DEF SendEntry, JournalTypes
<1>6. Given' = Given \cup {n}
  <2>1. n \in Given'
    BY <1>4, <1>5 DEF Given
  <2>2. ASSUME NEW i, i # n PROVE i \in Given' <=> i \in Given
    BY <1>5, <2>2 DEF Given
  <2> QED
    BY <2>1, <2>2
<1>7. JournalTypes'
  BY <1>1, <1>2, <1>4, <1>5 DEF JournalTypes
<1>8. ASSUME NEW c, CoveredTo(c) PROVE CoveredTo(c)'
  BY <1>4, <1>6, <1>8 DEF CoveredTo
<1>9. CoveredTo(at) /\ \A i \in Given : CoveredTo(i) /\ i \notin unwanted
  BY <1>1, <1>4 DEF NoGap
<1>10. CoveredTo(n)'
  <2> SUFFICES ASSUME NEW i \in 1..n PROVE i \in Given' \cup unwanted' \cup before'
    BY DEF CoveredTo
  <2>1. CASE i = n
    BY <1>6, <2>1
  <2>2. CASE i # n
    <3>1. i \in 1..at
      BY <1>2, <1>4, <2>2
    <3> QED
      BY <1>4, <1>6, <1>9, <3>1 DEF CoveredTo
  <2> QED
    BY <2>1, <2>2
<1>11. NoGap'
  <2>1. ASSUME NEW i \in Given' PROVE CoveredTo(i)' /\ i \notin unwanted'
    BY <1>4, <1>6, <1>8, <1>9, <1>10
  <2>2. CoveredTo(cursor) /\ CoveredTo(onDisk)
    BY <1>1 DEF NoGap
  <2>3. \A i \in 1..cursor' : i \in Given' \cup unwanted' \cup before'
    BY <1>4, <1>6, <2>2 DEF CoveredTo
  <2>4. \A i \in 1..onDisk' : i \in Given' \cup unwanted' \cup before'
    BY <1>4, <1>6, <2>2 DEF CoveredTo
  <2>5. \A i \in 1..at' : i \in Given' \cup unwanted' \cup before'
    BY <1>4, <1>10 DEF CoveredTo
  <2> QED
    BY <2>1, <2>3, <2>4, <2>5 DEF NoGap, CoveredTo
<1>12. onDisk <= cursor /\ cursor <= at /\ \A i \in Given : cursor < i /\ i <= at => i \in before
  BY <1>1, <1>4 DEF InOrder
<1>13. ASSUME NEW i \in Given PROVE i \in Nat /\ i >= 1 /\ i \in Entries
  BY <1>1, GivenTyped
<1>14. InOrder'
  <2>1. ASSUME NEW i \in Given', cursor' < i, i < at' PROVE i \in before'
    <3>1. i \in Given /\ i <= at
      BY <1>2, <1>4, <1>6, <1>13, <2>1
    <3> QED
      BY <1>4, <1>12, <2>1, <3>1
  <2> QED
    BY <1>2, <1>4, <1>12, <2>1 DEF InOrder
<1>15. GivenOnce'
  <2> SUFFICES ASSUME ~killed, ~unsaved, NEW i \in Given' PROVE given'[i] = 1 /\ i <= n
    BY <1>4 DEF GivenOnce
  <2>1. ASSUME NEW j \in Given PROVE given[j] = 1 /\ j <= cursor /\ j < n
    BY <1>1, <1>2, <1>4, <1>12, <1>13 DEF GivenOnce
  <2>2. n \notin Given
    BY <1>4, <2>1
  <2>3. given[n] = 0
    BY <1>1, <1>4, <2>2 DEF Given, JournalTypes
  <2>4. given'[n] = 1
    BY <1>3, <1>5, <2>3
  <2> QED
    BY <1>4, <1>5, <1>6, <1>13, <2>1, <2>4
<1>16. FewSinceSave'
  <2> SUFFICES ASSUME ~unsaved
               PROVE  Cardinality(Repeatable') <= SaveEvery /\ Cardinality(SinceSave') <= count
    BY <1>4 DEF FewSinceSave
  <2>1. Cardinality(Repeatable) <= SaveEvery /\ Cardinality(SinceSave) <= count
    BY <1>1, <1>4 DEF FewSinceSave
  <2>2. SinceSave' = SinceSave
    BY <1>2, <1>4, <1>6, <1>12 DEF SinceSave
  <2>3. CASE n \in Given \/ n \in before
    <3>1. Repeatable' = Repeatable
      BY <1>4, <1>6, <2>3 DEF Repeatable
    <3> QED
      BY <2>1, <2>2, <3>1
  <2>4. CASE n \notin Given /\ n \notin before
    <3>1. ASSUME NEW i \in Given PROVE i <= at
      <4>1. CASE n < i
        <5>1. n \in 1..i
          BY <1>2, <1>4, <1>13, <4>1
        <5> QED
          BY <1>4, <1>9, <2>4, <5>1 DEF CoveredTo
      <4> QED
        BY <1>2, <1>4, <1>13, <2>4, <4>1
    <3>2. Repeatable' \subseteq SinceSave \cup {n}
      <4> SUFFICES ASSUME NEW i \in Repeatable', i # n PROVE i \in SinceSave
        OBVIOUS
      <4>1. i \in Given /\ i \notin before /\ i > onDisk
        BY <1>4, <1>6 DEF Repeatable
      <4>2. i \in Nat /\ i <= cursor
        BY <1>4, <1>12, <1>13, <3>1, <4>1
      <4> QED
        BY <4>1, <4>2 DEF SinceSave
    <3>3. IsFiniteSet(SinceSave)
      BY <1>1, GivenTyped
    <3>4. /\ Cardinality(Repeatable') <= Cardinality(SinceSave) + 1
          /\ Cardinality(Repeatable') \in Nat /\ Cardinality(SinceSave) \in Nat
      BY <3>2, <3>3, OneLarger
    <3>5. count \in Nat /\ count < SaveEvery
      BY <1>1 DEF JournalTypes
    <3> QED
      BY <2>1, <2>2, <3>4, <3>5, JournalAssumption
  <2> QED
    BY <2>3, <2>4
<1> QED
  BY <1>7, <1>11, <1>14, <1>15, <1>16 DEF JournalInv

\* A save that succeeds: what is beyond the cursor is what was.
LEMMA LessToRepeat ==
  ASSUME JournalInv, UNCHANGED <<given, before>>, onDisk' \in Nat, onDisk <= onDisk'
  PROVE  /\ Repeatable' \subseteq Repeatable /\ Cardinality(Repeatable') <= Cardinality(Repeatable)
         /\ Cardinality(Repeatable') \in Nat /\ Cardinality(Repeatable) \in Nat
<1>1. IsFiniteSet(Repeatable) /\ \A i \in Given : i \in Nat
  BY GivenTyped DEF JournalInv
<1>2. Given' = Given /\ onDisk \in Nat
  BY DEF Given, JournalInv, JournalTypes
<1>3. Repeatable' \subseteq Repeatable
  BY <1>1, <1>2 DEF Repeatable
<1> QED
  BY <1>1, <1>3, SmallerSet

LEMMA JournalKeeps == ASSUME JournalInv, KeepCursor PROVE JournalInv'
<1>1. JournalTypes /\ NoGap /\ InOrder /\ GivenOnce /\ FewSinceSave
  BY DEF JournalInv
<1>2. /\ reader = "sent" /\ reader' = "read" /\ cursor' = at /\ count' = (count + 1) % SaveEvery
      /\ UNCHANGED <<unwanted, written, at, given, before, killed>>
      /\ at \in Nat /\ at <= written /\ cursor \in Nat /\ onDisk \in Nat /\ count \in Nat /\ count < SaveEvery
  BY <1>1 DEF KeepCursor, JournalTypes
<1>3. \/ SaveDue /\ onDisk' = at /\ UNCHANGED <<unsaved, ends>>
      \/ SaveDue /\ onDisk' = onDisk /\ unsaved' = TRUE /\ Ending
      \/ ~SaveDue /\ UNCHANGED <<onDisk, unsaved, ends>>
  BY DEF KeepCursor, SaveOf
<1>4. /\ count' \in Nat /\ count' < SaveEvery /\ (SaveDue <=> count + 1 = SaveEvery)
      /\ ~SaveDue => count' = count + 1
  BY <1>2, NextCount, JournalAssumption DEF SaveDue
<1>5. onDisk <= cursor /\ cursor < at /\ \A i \in Given : cursor < i /\ i < at => i \in before
  BY <1>1, <1>2 DEF InOrder
<1>6. JournalTypes'
  <2>1. ends' \in 0..MaxEnds
    BY <1>1, <1>3, JournalAssumption DEF Ending, JournalTypes
  <2>2. onDisk' \in Nat /\ onDisk' <= written /\ unsaved' \in BOOLEAN
    BY <1>1, <1>2, <1>3 DEF JournalTypes
  <2> QED
    BY <1>1, <1>2, <1>4, <2>1, <2>2 DEF JournalTypes
<1>7. NoGap' /\ Given' = Given
  BY <1>1, <1>2, <1>3, NothingGiven
<1>8. ASSUME NEW i \in Given PROVE i \in Nat
  BY <1>1, GivenTyped
<1>9. InOrder'
  <2>1. onDisk' <= cursor' /\ cursor' <= at'
    BY <1>2, <1>3, <1>5
  <2>2. ASSUME NEW i \in Given PROVE ~(cursor' < i /\ i <= at')
    BY <1>2, <1>8
  <2> QED
    BY <1>2, <1>7, <2>1, <2>2 DEF InOrder
<1>10. GivenOnce'
  BY <1>1, <1>2, <1>3, <1>7 DEF GivenOnce
<1>11. FewSinceSave'
  <2> SUFFICES ASSUME ~unsaved'
               PROVE  Cardinality(Repeatable') <= SaveEvery /\ Cardinality(SinceSave') <= count'
    BY <1>2 DEF FewSinceSave
  <2>1. ~unsaved /\ Cardinality(Repeatable) <= SaveEvery /\ Cardinality(SinceSave) <= count
    BY <1>1, <1>2, <1>3 DEF FewSinceSave
  <2>2. onDisk' \in Nat /\ onDisk <= onDisk'
    BY <1>2, <1>3, <1>5
  <2>3. /\ Cardinality(Repeatable') <= Cardinality(Repeatable)
        /\ Cardinality(Repeatable') \in Nat /\ Cardinality(Repeatable) \in Nat
    BY <1>2, <2>2, LessToRepeat
  <2>4. CASE onDisk' = at
    <3>1. SinceSave' = {}
      BY <1>2, <1>7, <1>8, <2>4 DEF SinceSave
    <3> QED
      BY <1>4, <2>1, <2>3, <3>1, FS_EmptySet, JournalAssumption
  <2>5. CASE ~SaveDue /\ onDisk' = onDisk
    <3>1. SinceSave' \subseteq SinceSave \cup {at}
      BY <1>2, <1>5, <1>7, <1>8, <2>5 DEF SinceSave
    <3>2. IsFiniteSet(SinceSave)
      BY <1>1, GivenTyped
    <3>3. /\ Cardinality(SinceSave') <= Cardinality(SinceSave) + 1
          /\ Cardinality(SinceSave') \in Nat /\ Cardinality(SinceSave) \in Nat
      BY <3>1, <3>2, OneLarger
    <3> QED
      BY <1>2, <1>4, <2>1, <2>3, <2>5, <3>3, JournalAssumption
  <2> QED
    BY <1>3, <2>4, <2>5
<1> QED
  BY <1>6, <1>7, <1>9, <1>10, <1>11 DEF JournalInv
\* file_loop's save, the end of journalctl's output, a stop and a kill.
LEMMA JournalOtherSave == ASSUME JournalInv, OtherSave PROVE JournalInv'
<1>1. JournalTypes /\ NoGap /\ InOrder /\ GivenOnce /\ FewSinceSave
  BY DEF JournalInv
<1>2. /\ reader # "down" /\ onDisk' = cursor
      /\ UNCHANGED <<unwanted, written, cursor, reader, at, count, given, before, killed, unsaved, ends>>
      /\ cursor \in Nat /\ onDisk \in Nat
  BY <1>1 DEF OtherSave, JournalTypes
<1>3. JournalTypes'
  BY <1>1, <1>2 DEF JournalTypes
<1>4. NoGap' /\ Given' = Given
  BY <1>1, <1>2, NothingGiven
<1>5. InOrder' /\ GivenOnce'
  BY <1>1, <1>2, <1>4 DEF InOrder, GivenOnce
<1>6. FewSinceSave'
  <2> SUFFICES ASSUME ~unsaved
               PROVE  /\ Cardinality(Repeatable') <= SaveEvery
                      /\ reader = "ended" \/ Cardinality(SinceSave') <= count
    BY <1>1, <1>2 DEF FewSinceSave, JournalTypes
  <2>1. Cardinality(Repeatable) <= SaveEvery
    BY <1>1 DEF FewSinceSave
  <2>2. onDisk <= cursor
    BY <1>1, <1>2 DEF InOrder
  <2>3. /\ Cardinality(Repeatable') <= Cardinality(Repeatable)
        /\ Cardinality(Repeatable') \in Nat /\ Cardinality(Repeatable) \in Nat
    BY <1>2, <2>2, LessToRepeat
  <2>4. \A i \in Given : i \in Nat
    BY <1>1, GivenTyped
  <2>5. SinceSave' = {}
    BY <1>2, <1>4, <2>4 DEF SinceSave
  <2>6. count \in Nat
    BY <1>1 DEF JournalTypes
  <2> QED
    BY <2>1, <2>3, <2>5, <2>6, FS_EmptySet, JournalAssumption
<1> QED
  BY <1>3, <1>4, <1>5, <1>6 DEF JournalInv

LEMMA JournalLeaves ==
  ASSUME JournalInv, JournalEnds \/ StopReader \/ KillReader
  PROVE  JournalInv'
<1>1. JournalTypes /\ NoGap /\ InOrder /\ GivenOnce /\ FewSinceSave
  BY DEF JournalInv
<1>2. /\ reader # "down" /\ reader' \in {"down", "ended"} /\ onDisk' \in {onDisk, cursor} /\ Ending
      /\ UNCHANGED <<unwanted, written, cursor, at, count, given, before>>
      /\ cursor \in Nat /\ onDisk \in Nat
  BY <1>1 DEF JournalEnds, StopReader, KillReader, JournalTypes
<1>3. /\ reader' = "ended" => /\ reader = "read" /\ killed' = killed
                              /\ onDisk' = cursor \/ unsaved' = TRUE
                              /\ unsaved' = unsaved \/ unsaved' = TRUE
      /\ reader' = "down" => /\ unsaved' = unsaved
                             /\ \/ killed' = TRUE
                                \/ killed' = killed /\ onDisk' = cursor /\ reader # "sent"
      /\ killed' \in BOOLEAN /\ unsaved' \in BOOLEAN
  BY <1>1 DEF JournalEnds, StopReader, KillReader, JournalTypes
<1>4. onDisk <= cursor /\ cursor <= at
  BY <1>1, <1>2 DEF InOrder
<1>5. JournalTypes'
  <2>1. ends' \in 0..MaxEnds
    BY <1>1, <1>2, JournalAssumption DEF Ending, JournalTypes
  <2>2. onDisk' \in Nat /\ onDisk' <= written
    BY <1>1, <1>2 DEF JournalTypes
  <2> QED
    BY <1>1, <1>2, <1>3, <2>1, <2>2 DEF JournalTypes
<1>6. NoGap' /\ Given' = Given
  BY <1>1, <1>2, NothingGiven
<1>7. InOrder'
  BY <1>2, <1>4 DEF InOrder
<1>8. GivenOnce'
  BY <1>1, <1>2, <1>3, <1>6 DEF GivenOnce, JournalTypes
<1>9. FewSinceSave'
  <2> SUFFICES ASSUME ~unsaved' PROVE Cardinality(Repeatable') <= SaveEvery
    BY <1>2 DEF FewSinceSave
  <2>1. ~unsaved /\ Cardinality(Repeatable) <= SaveEvery
    BY <1>1, <1>2, <1>3 DEF FewSinceSave
  <2>2. onDisk' \in Nat /\ onDisk <= onDisk'
    BY <1>2, <1>4
  <2>3. /\ Cardinality(Repeatable') <= Cardinality(Repeatable)
        /\ Cardinality(Repeatable') \in Nat /\ Cardinality(Repeatable) \in Nat
    BY <1>2, <2>2, LessToRepeat
  <2> QED
    BY <2>1, <2>3, JournalAssumption
<1> QED
  BY <1>5, <1>6, <1>7, <1>8, <1>9 DEF JournalInv

LEMMA JournalAlways == JournalSpec => []JournalInv
<1>1. JournalInv /\ [JournalNext]_journalVars => JournalInv'
  <2> SUFFICES ASSUME JournalInv, [JournalNext]_journalVars PROVE JournalInv'
    OBVIOUS
  <2>1. CASE UNCHANGED journalVars
    BY <2>1 DEF journalVars, JournalInv, JournalTypes, NoGap, CoveredTo, InOrder, GivenOnce,
                FewSinceSave, Repeatable, SinceSave, Given
  <2> QED
    BY <2>1, JournalLogs, JournalStarts, JournalSkips, JournalSends, JournalKeeps,
       JournalOtherSave, JournalLeaves DEF JournalNext
<1> QED
  BY <1>1, JournalInitInv, PTL DEF JournalSpec

(* For any journal, save interval and number of ends: no wanted entry up to *)
(* a cursor is left out, and what a kill repeats is at most what is sent    *)
(* between two saves (journald_loop).                                       *)
LEMMA JournalShippedInv == JournalInv => JournalShipped
<1> SUFFICES ASSUME JournalInv PROVE JournalShipped
  OBVIOUS
<1>1. CursorCovers
  BY DEF JournalInv, NoGap, CoveredTo, CursorCovers
<1>2. RepeatsBounded
  <2>1. Repeatable = {i \in Given \ before : i > onDisk}
    BY DEF Repeatable
  <2>2. ASSUME ~killed, ~unsaved, NEW i \in Entries PROVE given[i] <= 1
    <3>1. given[i] \in 0..2
      BY DEF JournalInv, JournalTypes
    <3> QED
      BY <2>2, <3>1 DEF JournalInv, GivenOnce, Given
  <2> QED
    BY <2>1, <2>2 DEF JournalInv, FewSinceSave, RepeatsBounded
<1> QED
  BY <1>1, <1>2 DEF JournalShipped

LEMMA JournalTyped == JournalInv => JournalTypeOK
<1> SUFFICES ASSUME JournalInv PROVE JournalTypeOK
  OBVIOUS
<1>1. JournalTypes
  BY DEF JournalInv
<1>2. written \in 0..MaxEntries /\ {cursor, onDisk, at} \subseteq 0..written
  BY <1>1, JournalAssumption DEF JournalTypes
<1>3. count \in 0..(SaveEvery - 1)
  BY <1>1, JournalAssumption DEF JournalTypes
<1> QED
  BY <1>1, <1>2, <1>3 DEF JournalTypes, JournalTypeOK
-----------------------------------------------------------------------------
(***************************************************************************)
(* WinAgent.  Between batches the file says what the memory says, and what *)
(* was forwarded beyond the file is part of one batch.                     *)
(***************************************************************************)
Bookmarks == [Channels -> Nat]
WinTypes ==
  /\ records \in Bookmarks /\ winState \in Bookmarks /\ stateFile \in Bookmarks
  /\ \A c \in Channels : /\ records[c] <= MaxRecords /\ winState[c] <= records[c]
                         /\ stateFile[c] <= records[c]
  /\ torn \in BOOLEAN /\ collector \in {"off", "idle", "batch", "save"} /\ channel \in Channels
  /\ upTo \in Nat /\ upTo <= MaxRecords /\ lastOf \in Nat /\ lastOf <= MaxRecords
  /\ forwarded \in [Channels -> [1..MaxRecords -> 0..2]]
  /\ crashed \in BOOLEAN /\ lost \in BOOLEAN /\ outages \in 0..MaxOutages
SentTo(c, n) == \A i \in 1..n : i \in Forwarded(c)
BatchOK ==
  /\ collector = "batch" => /\ winState[channel] <= upTo /\ upTo <= lastOf /\ lastOf <= records[channel]
                            /\ lastOf <= winState[channel] + BatchSize /\ SentTo(channel, upTo)
  /\ \A c \in Channels : SentTo(c, winState[c]) /\ SentTo(c, stateFile[c])
FileOK ==
  /\ torn => lost \/ collector = "off"
  /\ ~torn /\ ~lost =>
       /\ collector \in {"idle", "batch"} => winState = stateFile
       /\ \A c \in Channels : collector = "save" => stateFile[c] <= winState[c]
       /\ \A c \in Channels : \A i \in Forwarded(c) : i <= stateFile[c] + BatchSize
SentOnce ==
  ~crashed =>
    /\ ~torn /\ ~lost /\ (collector = "off" => winState = stateFile)
    /\ \A c \in Channels : \A i \in Forwarded(c) :
         /\ forwarded[c][i] = 1
         /\ i <= winState[c] \/ (collector = "batch" /\ c = channel /\ i <= upTo)
WinInv == WinTypes /\ BatchOK /\ FileOK /\ SentOnce
-----------------------------------------------------------------------------
LEMMA WinTyped ==
  ASSUME WinTypes, NEW c \in Channels
  PROVE  /\ records[c] \in Nat /\ winState[c] \in Nat /\ stateFile[c] \in Nat
         /\ IsFiniteSet(Forwarded(c)) /\ forwarded[c] \in [1..MaxRecords -> 0..2]
         /\ \A i \in Forwarded(c) : i \in Nat /\ i >= 1 /\ i <= MaxRecords /\ forwarded[c][i] \in 1..2
<1>1. forwarded[c] \in [1..MaxRecords -> 0..2]
  BY DEF WinTypes
<1>2. ASSUME NEW i \in Forwarded(c) PROVE i \in 1..MaxRecords /\ forwarded[c][i] \in 1..2
  <2>1. i \in 1..MaxRecords /\ forwarded[c][i] > 0
    BY DEF Forwarded
  <2>2. PICK x \in 0..2 : x = forwarded[c][i]
    BY <1>1, <2>1
  <2> QED
    BY <2>1, <2>2
<1>3. IsFiniteSet(1..MaxRecords) /\ Forwarded(c) \subseteq 1..MaxRecords
  BY <1>2, FS_Interval, WinAssumption
<1> QED
  BY <1>1, <1>2, <1>3, FS_Subset, WinAssumption DEF WinTypes, Bookmarks

LEMMA ChannelsOK == 1 \in Channels /\ (channel \in Channels => NextChannel \in Channels)
<1>1. Cardinality(Channels) \in Nat
  BY WinAssumption, FS_CardinalityType
<1>2. PICK n \in Nat : n = Cardinality(Channels)
  BY <1>1
<1>3. Channels = 1..n /\ Channels # {}
  BY <1>2, WinAssumption
<1> QED
  <2>1. 1 <= n /\ 1 \in Channels
    <3>1. PICK c : c \in 1..n
      BY <1>3
    <3>2. 1 <= n /\ 1 \in 1..n
      BY <1>2, <3>1
    <3> QED
      BY <1>3, <3>2
  <2>2. NextChannel = IF channel = n THEN 1 ELSE channel + 1
    BY <1>2 DEF NextChannel
  <2>3. channel \in 1..n => NextChannel \in 1..n
    BY <1>2, <2>1, <2>2
  <2> QED
    BY <1>3, <2>1, <2>3

LEMMA WinInitInv == WinInit => WinInv
<1> SUFFICES ASSUME WinInit PROVE WinInv
  OBVIOUS
<1> USE DEF WinInit
<1>1. NoneSent \in Bookmarks /\ \A c \in Channels : NoneSent[c] = 0
  BY DEF NoneSent, Bookmarks
<1>2. forwarded \in [Channels -> [1..MaxRecords -> 0..2]]
  OBVIOUS
<1>3. WinTypes
  <2>1. records \in Bookmarks /\ \A c \in Channels : records[c] <= MaxRecords /\ 0 <= records[c]
    BY WinAssumption DEF Bookmarks
  <2>2. torn \in BOOLEAN /\ crashed \in BOOLEAN /\ lost \in BOOLEAN
    OBVIOUS
  <2>3. outages \in 0..MaxOutages /\ 0 <= MaxRecords
    BY WinAssumption
  <2> QED
    BY <1>1, <1>2, <2>1, <2>2, <2>3, ChannelsOK DEF WinTypes
<1>4. ASSUME NEW c \in Channels PROVE Forwarded(c) = {}
  BY DEF Forwarded
<1>5. BatchOK /\ FileOK
  BY <1>1, <1>4 DEF BatchOK, SentTo, FileOK
<1>6. SentOnce
  BY <1>4 DEF SentOnce
<1> QED
  BY <1>3, <1>5, <1>6 DEF WinInv

\* A step that forwards nothing.
LEMMA SentStays ==
  ASSUME NEW c, NEW n, SentTo(c, n), forwarded' = forwarded
  PROVE  Forwarded(c)' = Forwarded(c) /\ \A i \in 1..n : i \in Forwarded(c)'
BY DEF SentTo, Forwarded

LEMMA WinRecords == ASSUME WinInv, NEW d \in Channels, Record(d) PROVE WinInv'
<1>1. WinTypes /\ BatchOK /\ FileOK /\ SentOnce
  BY DEF WinInv
<1>2. UNCHANGED <<winState, stateFile, torn, collector, channel, upTo, lastOf, cut, forwarded, crashed, lost, outages>>
  BY DEF Record
<1>3. /\ records' \in Bookmarks
      /\ \A c \in Channels : records'[c] <= MaxRecords /\ records[c] <= records'[c] /\ records'[c] \in Nat
  <2>1. records[d] \in Nat /\ records[d] + 1 <= MaxRecords /\ records' = [records EXCEPT ![d] = records[d] + 1]
    BY <1>1, WinTyped, WinAssumption DEF Record
  <2>2. \A c \in Channels : records'[c] = IF c = d THEN records[d] + 1 ELSE records[c]
    BY <1>1, <2>1 DEF WinTypes, Bookmarks
  <2>3. \A c \in Channels : records[c] \in Nat /\ records[c] <= MaxRecords
    BY <1>1 DEF WinTypes, Bookmarks
  <2>4. records' \in Bookmarks
    BY <1>1, <2>1 DEF WinTypes, Bookmarks
  <2> QED
    BY <2>1, <2>2, <2>3, <2>4
<1>4. WinTypes'
  <2>1. ASSUME NEW c \in Channels
        PROVE  records'[c] <= MaxRecords /\ winState'[c] <= records'[c] /\ stateFile'[c] <= records'[c]
    <3>1. winState[c] <= records[c] /\ stateFile[c] <= records[c]
      BY <1>1 DEF WinTypes
    <3> QED
      BY <1>1, <1>2, <1>3, <3>1, WinTyped
  <2> QED
    BY <1>1, <1>2, <1>3, <2>1 DEF WinTypes
<1>5. ASSUME NEW c PROVE Forwarded(c)' = Forwarded(c)
  BY <1>2 DEF Forwarded
<1>6. BatchOK'
  <2>1. collector = "batch" => lastOf <= records'[channel]
    <3>1. channel \in Channels /\ lastOf \in Nat /\ records[channel] \in Nat
      BY <1>1, WinTyped DEF WinTypes
    <3> QED
      BY <1>1, <1>3, <3>1 DEF BatchOK
  <2> QED
    BY <1>1, <1>2, <1>5, <2>1 DEF BatchOK, SentTo
<1>7. FileOK' /\ SentOnce'
  BY <1>1, <1>2, <1>5 DEF FileOK, SentOnce
<1> QED
  BY <1>4, <1>6, <1>7 DEF WinInv

LEMMA WinStarts == ASSUME WinInv, StartCollector PROVE WinInv'
<1>1. WinTypes /\ BatchOK /\ FileOK /\ SentOnce
  BY DEF WinInv
<1>2. /\ collector = "off" /\ collector' = "idle" /\ channel' = 1 /\ (lost' <=> lost \/ torn)
      /\ winState' = IF torn THEN NoneSent ELSE stateFile
      /\ UNCHANGED <<records, stateFile, torn, upTo, lastOf, cut, forwarded, crashed, outages>>
  BY <1>1 DEF StartCollector, WinTypes
<1>3. NoneSent \in Bookmarks /\ \A c \in Channels : NoneSent[c] = 0
  BY DEF NoneSent, Bookmarks
<1>4. winState' \in Bookmarks /\ \A c \in Channels : winState'[c] \in {0, stateFile[c]}
  BY <1>1, <1>2, <1>3 DEF WinTypes
<1>5. lost' \in BOOLEAN
  BY DEF StartCollector
<1>6. WinTypes'
  <2>1. ASSUME NEW c \in Channels PROVE winState'[c] <= records'[c]
    <3>1. stateFile[c] <= records[c] /\ 0 <= records[c]
      BY <1>1, WinTyped DEF WinTypes
    <3> QED
      BY <1>2, <1>4, <3>1
  <2> QED
    BY <1>1, <1>2, <1>4, <1>5, <2>1, ChannelsOK DEF WinTypes
<1>7. ASSUME NEW c \in Channels PROVE Forwarded(c)' = Forwarded(c)
  BY <1>2 DEF Forwarded
<1>8. BatchOK'
  <2>1. ASSUME NEW c \in Channels PROVE SentTo(c, winState'[c]) /\ SentTo(c, stateFile[c])
    <3>1. CASE winState'[c] = 0
      BY <1>1, <3>1 DEF BatchOK, SentTo
    <3>2. CASE winState'[c] = stateFile[c]
      BY <1>1, <3>2 DEF BatchOK
    <3> QED
      BY <1>4, <3>1, <3>2
  <2> QED
    BY <1>2, <1>7, <2>1 DEF BatchOK, SentTo
<1>9. FileOK'
  BY <1>1, <1>2, <1>7 DEF FileOK
<1>10. SentOnce'
  BY <1>1, <1>2, <1>7 DEF SentOnce
<1> QED
  BY <1>6, <1>8, <1>9, <1>10 DEF WinInv

LEMMA WinReads == ASSUME WinInv, ReadChannel PROVE WinInv'
<1>1. WinTypes /\ BatchOK /\ FileOK /\ SentOnce
  BY DEF WinInv
<1>2. /\ collector = "idle" /\ collector' = "batch" /\ upTo' = winState[channel]
      /\ records[channel] > winState[channel]
      /\ lastOf' = Smaller(records[channel], winState[channel] + BatchSize)
      /\ UNCHANGED <<records, winState, stateFile, torn, channel, forwarded, crashed, lost, outages>>
  BY DEF ReadChannel
<1>3. PICK r \in Nat, w \in Nat : r = records[channel] /\ w = winState[channel] /\ r <= MaxRecords
  BY <1>1, WinTyped DEF WinTypes
<1>4. upTo' = w /\ lastOf' \in Nat /\ w <= lastOf' /\ lastOf' <= r /\ lastOf' <= w + BatchSize
  BY <1>2, <1>3, WinAssumption DEF Smaller
<1>5. WinTypes'
  <2>1. upTo' \in Nat /\ upTo' <= MaxRecords /\ lastOf' <= MaxRecords
    BY <1>3, <1>4, WinAssumption
  <2> QED
    BY <1>1, <1>2, <1>4, <2>1 DEF WinTypes
<1>6. ASSUME NEW c \in Channels PROVE Forwarded(c)' = Forwarded(c)
  BY <1>2 DEF Forwarded
<1>7. channel \in Channels
  BY <1>1 DEF WinTypes
<1>8. BatchOK'
  <2>1. SentTo(channel, w)
    BY <1>1, <1>3, <1>7 DEF BatchOK
  <2>2. SentTo(channel, upTo)'
    BY <1>2, <1>4, <1>6, <1>7, <2>1 DEF SentTo
  <2>3. winState'[channel'] = w /\ records'[channel'] = r
    BY <1>2, <1>3
  <2> QED
    BY <1>1, <1>2, <1>4, <1>6, <2>2, <2>3 DEF BatchOK, SentTo
<1>9. FileOK' /\ SentOnce'
  BY <1>1, <1>2, <1>6 DEF FileOK, SentOnce
<1> QED
  BY <1>5, <1>8, <1>9 DEF WinInv

LEMMA WinNoBatch == ASSUME WinInv, NoBatch \/ SendFails PROVE WinInv'
<1>1. WinTypes /\ BatchOK /\ FileOK /\ SentOnce
  BY DEF WinInv
<1>2. /\ UNCHANGED <<records, winState, stateFile, torn, collector, upTo, lastOf, forwarded, crashed, lost>>
      /\ channel' \in Channels /\ (collector = "batch" => channel' = channel) /\ outages' \in 0..MaxOutages
  BY <1>1, ChannelsOK, WinAssumption DEF NoBatch, SendFails, StaysAtFailed, Outage, WinTypes
<1>3. WinTypes'
  BY <1>1, <1>2 DEF WinTypes
<1>4. ASSUME NEW c \in Channels PROVE Forwarded(c)' = Forwarded(c)
  BY <1>2 DEF Forwarded
<1>5. channel \in Channels
  BY <1>1 DEF WinTypes
<1>6. BatchOK'
  BY <1>1, <1>2, <1>4, <1>5 DEF BatchOK, SentTo
<1>7. FileOK' /\ SentOnce'
  BY <1>1, <1>2, <1>4 DEF FileOK, SentOnce
<1> QED
  BY <1>3, <1>6, <1>7 DEF WinInv
LEMMA WinSends == ASSUME WinInv, SendRecord PROVE WinInv'
<1>1. WinTypes /\ BatchOK /\ FileOK /\ SentOnce
  BY DEF WinInv
<1>2. PICK ch \in Channels : ch = channel
  BY <1>1 DEF WinTypes
<1>3. PICK n \in Nat : n = upTo + 1
  BY <1>1 DEF WinTypes
<1>4. PICK v : v = IF forwarded[ch][n] = 0 THEN 1 ELSE 2
  OBVIOUS
<1>5. /\ collector = "batch" /\ upTo < lastOf /\ upTo' = n
      /\ UNCHANGED <<records, winState, stateFile, torn, collector, channel, lastOf, crashed, lost, outages>>
      /\ upTo \in Nat /\ lastOf \in Nat /\ lastOf <= MaxRecords /\ upTo < n /\ n <= lastOf
      /\ n \in 1..MaxRecords
  BY <1>1, <1>3, WinAssumption DEF SendRecord, WinTypes
<1>6. /\ winState[ch] <= upTo /\ upTo <= lastOf /\ lastOf <= records[ch]
      /\ lastOf <= winState[ch] + BatchSize /\ SentTo(ch, upTo)
      /\ winState[ch] \in Nat /\ records[ch] \in Nat
  BY <1>1, <1>2, <1>5, WinTyped DEF BatchOK
<1>7. forwarded' = [forwarded EXCEPT ![ch][n] = v]
  BY <1>2, <1>3, <1>4 DEF SendRecord
<1>8. /\ forwarded' \in [Channels -> [1..MaxRecords -> 0..2]] /\ forwarded'[ch][n] = v /\ v \in 1..2
      /\ \A c \in Channels : c # ch => forwarded'[c] = forwarded[c]
      /\ \A i \in 1..MaxRecords : i # n => forwarded'[ch][i] = forwarded[ch][i]
  <2>1. PICK g \in [1..MaxRecords -> 0..2] : g = forwarded[ch]
    BY <1>1 DEF WinTypes
  <2>2. PICK h : h = [g EXCEPT ![n] = v]
    OBVIOUS
  <2>3. v \in 1..2
    BY <1>4
  <2>4. h \in [1..MaxRecords -> 0..2] /\ h[n] = v /\ \A i \in 1..MaxRecords : i # n => h[i] = g[i]
    BY <1>5, <2>2, <2>3
  <2>5. forwarded' = [forwarded EXCEPT ![ch] = h]
    BY <1>1, <1>7, <2>1, <2>2 DEF WinTypes
  <2> QED
    BY <1>1, <2>1, <2>3, <2>4, <2>5 DEF WinTypes
<1>9. ASSUME NEW c \in Channels, c # ch PROVE Forwarded(c)' = Forwarded(c)
  BY <1>8, <1>9 DEF Forwarded
<1>10. Forwarded(ch)' = Forwarded(ch) \cup {n}
  <2>1. n \in Forwarded(ch)'
    BY <1>5, <1>8 DEF Forwarded
  <2>2. ASSUME NEW i, i # n PROVE i \in Forwarded(ch)' <=> i \in Forwarded(ch)
    BY <1>8, <2>2 DEF Forwarded
  <2> QED
    BY <2>1, <2>2
<1>11. WinTypes'
  BY <1>1, <1>5, <1>8 DEF WinTypes
<1>12. ASSUME NEW c \in Channels, NEW m, SentTo(c, m) PROVE SentTo(c, m)'
  BY <1>9, <1>10, <1>12 DEF SentTo
<1>13. SentTo(ch, n)'
  <2> SUFFICES ASSUME NEW i \in 1..n PROVE i \in Forwarded(ch)'
    BY DEF SentTo
  <2>1. CASE i = n
    BY <1>10, <2>1
  <2>2. CASE i # n
    <3>1. i \in 1..upTo
      BY <1>3, <1>5, <2>2
    <3> QED
      BY <1>6, <1>10, <3>1 DEF SentTo
  <2> QED
    BY <2>1, <2>2
<1>14. BatchOK'
  <2>1. ASSUME NEW c \in Channels PROVE SentTo(c, winState[c])' /\ SentTo(c, stateFile[c])'
    <3>1. SentTo(c, winState[c]) /\ SentTo(c, stateFile[c])
      BY <1>1 DEF BatchOK
    <3>2. PICK x, y : x = winState[c] /\ y = stateFile[c]
      OBVIOUS
    <3>3. SentTo(c, x)' /\ SentTo(c, y)'
      BY <1>12, <3>1, <3>2
    <3> QED
      BY <1>5, <3>2, <3>3 DEF SentTo
  <2>2. SentTo(channel, upTo)'
    BY <1>2, <1>5, <1>13 DEF SentTo
  <2>3. winState'[channel'] <= upTo' /\ upTo' <= lastOf' /\ lastOf' <= records'[channel']
        /\ lastOf' <= winState'[channel'] + BatchSize
    BY <1>2, <1>5, <1>6
  <2> QED
    BY <2>1, <2>2, <2>3 DEF BatchOK
<1>15. FileOK'
  <2>1. ASSUME ~torn, ~lost, NEW c \in Channels, NEW i \in Forwarded(c)' PROVE i <= stateFile[c] + BatchSize
    <3>1. CASE i \in Forwarded(c)
      BY <1>1, <2>1, <3>1 DEF FileOK
    <3>2. CASE i \notin Forwarded(c)
      <4>1. c = ch /\ i = n
        BY <1>9, <1>10, <3>2
      <4>2. winState[ch] = stateFile[ch]
        BY <1>1, <1>5, <2>1 DEF FileOK
      <4> QED
        BY <1>5, <1>6, <4>1, <4>2, WinAssumption
    <3> QED
      BY <3>1, <3>2
  <2> QED
    BY <1>1, <1>5, <2>1 DEF FileOK
<1>16. SentOnce'
  <2> SUFFICES ASSUME ~crashed, NEW c \in Channels, NEW i \in Forwarded(c)'
               PROVE  forwarded'[c][i] = 1 /\ (i <= winState[c] \/ (c = ch /\ i <= n))
    BY <1>1, <1>2, <1>5 DEF SentOnce
  <2>1. n \notin Forwarded(ch)
    <3>1. ASSUME n \in Forwarded(ch) PROVE n <= winState[ch] \/ n <= upTo
      BY <1>1, <1>2, <3>1 DEF SentOnce
    <3> QED
      BY <1>5, <1>6, <3>1
  <2>2. forwarded[ch][n] = 0
    <3>1. forwarded[ch][n] \in 0..2
      BY <1>1, <1>5 DEF WinTypes
    <3> QED
      BY <1>5, <2>1, <3>1 DEF Forwarded
  <2>3. CASE c = ch /\ i = n
    BY <1>4, <1>8, <2>2, <2>3
  <2>4. CASE ~(c = ch /\ i = n)
    <3>1. i \in Forwarded(c)
      BY <1>9, <1>10, <2>4
    <3>2. i \in 1..MaxRecords /\ i \in Nat
      BY <1>1, <3>1, WinTyped DEF Forwarded
    <3>3. forwarded'[c][i] = forwarded[c][i]
      BY <1>8, <2>4, <3>2
    <3>4. forwarded[c][i] = 1 /\ (i <= winState[c] \/ (c = ch /\ i <= upTo))
      BY <1>1, <1>2, <3>1 DEF SentOnce
    <3>5. i <= upTo => i <= n
      BY <1>5, <3>2
    <3> QED
      BY <3>3, <3>4, <3>5
  <2> QED
    BY <2>3, <2>4
<1> QED
  BY <1>11, <1>14, <1>15, <1>16 DEF WinInv

LEMMA WinEndsBatch == ASSUME WinInv, EndBatch PROVE WinInv'
<1>1. WinTypes /\ BatchOK /\ FileOK /\ SentOnce
  BY DEF WinInv
<1>2. PICK ch \in Channels : ch = channel
  BY <1>1 DEF WinTypes
<1>3. PICK n \in Nat, w \in Nat : n = upTo /\ w = winState[ch]
  BY <1>1, WinTyped DEF WinTypes
<1>4. /\ collector = "batch" /\ collector' = IF n > w THEN "save" ELSE "idle"
      /\ winState' = [winState EXCEPT ![ch] = n]
      /\ channel' = IF n > w THEN ch ELSE NextChannel
      /\ UNCHANGED <<records, stateFile, torn, upTo, lastOf, cut, forwarded, crashed, lost, outages>>
  BY <1>2, <1>3 DEF EndBatch
<1>5. /\ w <= n /\ n <= lastOf /\ lastOf <= records[ch] /\ SentTo(ch, n)
      /\ lastOf \in Nat /\ records[ch] \in Nat
  BY <1>1, <1>2, <1>3, <1>4, WinTyped DEF BatchOK, WinTypes
<1>6. /\ winState' \in Bookmarks /\ winState'[ch] = n
      /\ \A c \in Channels : c # ch => winState'[c] = winState[c]
      /\ n = w => winState' = winState
  BY <1>1, <1>3, <1>4 DEF WinTypes, Bookmarks
<1>7. collector' \in {"save", "idle"} /\ channel' \in Channels
      /\ (n > w <=> collector' = "save") /\ (collector' = "save" => channel' = ch)
  BY <1>2, <1>4, ChannelsOK
<1>8. WinTypes'
  <2>1. ASSUME NEW c \in Channels PROVE winState'[c] <= records'[c]
    <3>1. CASE c = ch
      BY <1>4, <1>5, <1>6, <3>1
    <3>2. CASE c # ch
      BY <1>1, <1>4, <1>6, <3>2 DEF WinTypes
    <3> QED
      BY <3>1, <3>2
  <2> QED
    BY <1>1, <1>4, <1>6, <1>7, <2>1 DEF WinTypes
<1>9. ASSUME NEW c \in Channels PROVE Forwarded(c)' = Forwarded(c)
  BY <1>4 DEF Forwarded
<1>10. BatchOK'
  <2>1. ASSUME NEW c \in Channels PROVE SentTo(c, winState'[c]) /\ SentTo(c, stateFile[c])
    BY <1>1, <1>5, <1>6 DEF BatchOK
  <2> QED
    BY <1>4, <1>7, <1>9, <2>1 DEF BatchOK, SentTo
<1>11. FileOK'
  <2>1. ASSUME ~torn, ~lost PROVE /\ collector' = "idle" => winState' = stateFile
                                  /\ \A c \in Channels : stateFile[c] <= winState'[c]
    <3>1. winState = stateFile
      BY <1>1, <1>4, <2>1 DEF FileOK
    <3>2. ASSUME NEW c \in Channels PROVE stateFile[c] <= winState'[c]
      <4>1. winState[c] \in Nat
        BY <1>1, WinTyped
      <4> QED
        BY <1>3, <1>5, <1>6, <3>1, <4>1
    <3> QED
      BY <1>3, <1>5, <1>6, <1>7, <3>1, <3>2
  <2> QED
    BY <1>1, <1>4, <1>7, <1>9, <2>1 DEF FileOK
<1>12. SentOnce'
  <2> SUFFICES ASSUME ~crashed, NEW c \in Channels, NEW i \in Forwarded(c)
               PROVE  forwarded[c][i] = 1 /\ i <= winState'[c]
    BY <1>1, <1>4, <1>7, <1>9 DEF SentOnce
  <2>1. forwarded[c][i] = 1 /\ (i <= winState[c] \/ (c = ch /\ i <= n))
    BY <1>1, <1>2, <1>3 DEF SentOnce
  <2>2. i \in Nat
    BY <1>1, WinTyped
  <2> QED
    BY <1>3, <1>5, <1>6, <2>1, <2>2
<1> QED
  BY <1>8, <1>10, <1>11, <1>12 DEF WinInv

LEMMA WinSaves == ASSUME WinInv, SaveStateFile PROVE WinInv'
<1>1. WinTypes /\ BatchOK /\ FileOK /\ SentOnce
  BY DEF WinInv
<1>2. /\ collector = "save" /\ stateFile' = winState /\ torn' = FALSE /\ collector' = "idle"
      /\ channel' = NextChannel
      /\ UNCHANGED <<records, winState, upTo, lastOf, cut, forwarded, crashed, lost, outages>>
  BY DEF SaveStateFile
<1>3. WinTypes'
  BY <1>1, <1>2, ChannelsOK DEF WinTypes
<1>4. ASSUME NEW c \in Channels PROVE Forwarded(c)' = Forwarded(c)
  BY <1>2 DEF Forwarded
<1>5. BatchOK'
  BY <1>1, <1>2, <1>4 DEF BatchOK, SentTo
<1>6. FileOK'
  <2>1. ASSUME ~lost, NEW c \in Channels, NEW i \in Forwarded(c) PROVE i <= winState[c] + BatchSize
    <3>1. ~torn
      BY <1>1, <1>2, <2>1 DEF FileOK
    <3>2. i <= stateFile[c] + BatchSize /\ stateFile[c] <= winState[c]
      BY <1>1, <1>2, <2>1, <3>1 DEF FileOK
    <3>3. i \in Nat /\ stateFile[c] \in Nat /\ winState[c] \in Nat
      BY <1>1, WinTyped
    <3> QED
      BY <3>2, <3>3, WinAssumption
  <2> QED
    BY <1>1, <1>2, <1>4, <2>1 DEF FileOK
<1>7. SentOnce'
  BY <1>1, <1>2, <1>4 DEF SentOnce
<1> QED
  BY <1>3, <1>5, <1>6, <1>7 DEF WinInv

LEMMA WinEnds == ASSUME WinInv, EndCollector PROVE WinInv'
<1>1. WinTypes /\ BatchOK /\ FileOK /\ SentOnce
  BY DEF WinInv
<1>2. /\ collector # "off" /\ collector' = "off" /\ torn' \in BOOLEAN /\ outages' \in 0..MaxOutages
      /\ crashed' \in BOOLEAN /\ (crashed' <=> crashed \/ collector \in {"batch", "save"})
      /\ collector # "save" => torn' = torn
      /\ UNCHANGED <<records, winState, stateFile, channel, upTo, lastOf, cut, forwarded, lost>>
  <2>1. torn' \in BOOLEAN /\ (collector # "save" => torn' = torn)
    BY <1>1 DEF EndCollector, WinTypes
  <2>2. outages' \in 0..MaxOutages
    BY <1>1, WinAssumption DEF EndCollector, Outage, WinTypes
  <2>3. crashed' \in BOOLEAN /\ (crashed' <=> crashed \/ collector \in {"batch", "save"})
    BY <1>1 DEF EndCollector, WinTypes
  <2> QED
    BY <2>1, <2>2, <2>3 DEF EndCollector
<1>3. WinTypes'
  BY <1>1, <1>2 DEF WinTypes
<1>4. ASSUME NEW c \in Channels PROVE Forwarded(c)' = Forwarded(c)
  BY <1>2 DEF Forwarded
<1>5. BatchOK'
  BY <1>1, <1>2, <1>4 DEF BatchOK, SentTo
<1>6. FileOK'
  BY <1>1, <1>2, <1>4 DEF FileOK
<1>7. SentOnce'
  <2> SUFFICES ASSUME ~crashed' PROVE SentOnce'
    BY DEF SentOnce
  <2>1. collector = "idle" /\ ~crashed /\ torn' = torn
    BY <1>1, <1>2 DEF WinTypes
  <2>2. winState = stateFile
    BY <1>1, <2>1 DEF FileOK, SentOnce
  <2> QED
    BY <1>1, <1>2, <1>4, <2>1, <2>2 DEF SentOnce
<1> QED
  BY <1>3, <1>5, <1>6, <1>7 DEF WinInv

LEMMA WinAlways == WinSpec => []WinInv
<1>1. WinInv /\ [WinNext]_winVars => WinInv'
  <2> SUFFICES ASSUME WinInv, [WinNext]_winVars PROVE WinInv'
    OBVIOUS
  <2>1. CASE UNCHANGED winVars
    BY <2>1 DEF winVars, WinInv, WinTypes, BatchOK, SentTo, FileOK, SentOnce, Forwarded
  <2> QED
    BY <2>1, WinRecords, WinStarts, WinReads, WinNoBatch, WinSends, WinEndsBatch, WinSaves,
       WinEnds DEF WinNext
<1> QED
  BY <1>1, WinInitInv, PTL DEF WinSpec

LEMMA RecordsForwardedInv == WinInv => RecordsForwarded
<1> SUFFICES ASSUME WinInv PROVE RecordsForwarded
  OBVIOUS
<1>1. WinTypes
  BY DEF WinInv
<1>2. StatePassesOnlySent
  BY DEF WinInv, BatchOK, SentTo, StatePassesOnlySent
<1>3. ASSUME ~crashed, NEW c \in Channels, NEW i \in 1..MaxRecords PROVE forwarded[c][i] <= 1
  <2>1. forwarded[c][i] \in 0..2
    BY <1>1 DEF WinTypes
  <2> QED
    BY <1>3, <2>1 DEF WinInv, SentOnce, Forwarded
<1>4. ASSUME ~torn, ~lost, NEW c \in Channels
      PROVE  Cardinality({i \in Forwarded(c) : i > stateFile[c]}) <= BatchSize
  <2>1. PICK b \in Nat : b = stateFile[c]
    BY <1>1, WinTyped
  <2>2. ASSUME NEW i \in Forwarded(c), i > b PROVE i \in (b + 1)..(b + BatchSize)
    <3>1. i \in Nat /\ i <= b + BatchSize
      BY <1>1, <1>4, <2>1, WinTyped DEF WinInv, FileOK
    <3> QED
      BY <2>1, <2>2, <3>1, WinAssumption
  <2>3. IsFiniteSet((b + 1)..(b + BatchSize)) /\ Cardinality((b + 1)..(b + BatchSize)) = BatchSize
    BY FS_Interval, WinAssumption
  <2>4. {i \in Forwarded(c) : i > b} \subseteq (b + 1)..(b + BatchSize)
    BY <2>2
  <2>5. Cardinality({i \in Forwarded(c) : i > b}) <= BatchSize
    BY <2>3, <2>4, SmallerSet
  <2> QED
    BY <2>1, <2>5
<1> QED
  BY <1>2, <1>3, <1>4 DEF RepeatsOneBatch, RecordsForwarded

LEMMA WinTypedOK == WinInv => WinTypeOK
<1> SUFFICES ASSUME WinInv PROVE WinTypeOK
  OBVIOUS
<1>1. WinTypes
  BY DEF WinInv
<1>2. records \in [Channels -> 0..MaxRecords]
  BY <1>1, WinAssumption DEF WinTypes, Bookmarks
<1>3. ASSUME NEW c \in Channels PROVE {winState[c], stateFile[c]} \subseteq 0..records[c]
  BY <1>1, WinTyped DEF WinTypes
<1>4. {upTo, lastOf} \subseteq 0..MaxRecords
  BY <1>1, WinAssumption DEF WinTypes
<1> QED
  BY <1>1, <1>2, <1>3, <1>4 DEF WinTypes, WinTypeOK
-----------------------------------------------------------------------------
(***************************************************************************)
(* AgentTail.  The offset belongs to a generation, and what was sent of it *)
(* is what is before the offset, or before the position of the open file.  *)
(***************************************************************************)
TailRow == [offset : Nat, inode : Nat, of : Nat]
FileTypes ==
  /\ present \in BOOLEAN /\ gen \in Nat /\ 1 <= gen /\ gen <= MaxGen
  /\ inodeOf \in [Gens -> Nat] /\ size \in [Gens -> Nat]
  /\ \A g \in Gens : 1 <= inodeOf[g] /\ inodeOf[g] <= g /\ size[g] <= MaxLines
OffsetTypes ==
  /\ tail \in TailRow /\ saved \in TailRow /\ first \in TailRow
  /\ tail.offset <= MaxLines /\ tail.inode <= gen /\ tail.of <= gen
  /\ saved.offset <= MaxLines /\ saved.inode <= gen /\ saved.of <= gen
  /\ handle \in Nat /\ 1 <= handle /\ handle <= gen /\ pos \in Nat /\ pos <= MaxLines
AgentTypes ==
  /\ agent \in {"down", "stat", "open", "read", "sent", "save"}
  /\ shipped \in [Gens -> [1..MaxLines -> 0..2]]
  /\ masked \in BOOLEAN /\ rough \in BOOLEAN /\ restarts \in 0..MaxRestarts
TailTypes == FileTypes /\ OffsetTypes /\ AgentTypes

SentBefore(g, n) == \A i \in 1..n : shipped[g][i] > 0 \/ (g = first.of /\ i <= first.offset)
OffsetCovers(t) ==
  ~masked /\ t.of # 0 /\ t.inode = inodeOf[t.of] => SentBefore(t.of, t.offset)
OffsetsCover ==
  /\ OffsetCovers(tail) /\ OffsetCovers(saved)
  /\ tail.inode = 0 => tail.offset = 0
  /\ saved.inode = 0 => saved.offset = 0
  /\ agent \in {"open", "read", "sent"} => tail.inode # 0
  /\ agent \in {"read", "sent"} /\ ~masked /\ tail.of = handle /\ tail.inode = inodeOf[handle] =>
       SentBefore(handle, pos)
\* what was sent of generation g is among its first n lines
SentWithin(g, n) == \A i \in 1..MaxLines : shipped[g][i] > 0 => i <= n /\ n <= size[g]
NoneAfter(n) == \A g \in Gens : g > n => \A i \in 1..MaxLines : shipped[g][i] = 0
NoReplay ==
  ~rough =>
    /\ \A g \in Gens, i \in 1..MaxLines : shipped[g][i] <= 1
    /\ agent = "sent" => NoneAfter(handle) /\ SentWithin(handle, pos)
    /\ agent # "sent" => NoneAfter(tail.of) /\ (tail.of # 0 => SentWithin(tail.of, tail.offset))
    /\ agent = "read" => pos = tail.offset
    /\ agent = "down" => saved = tail
    /\ tail.of # 0 => tail.inode \in {0, inodeOf[tail.of]}
    /\ agent \in {"read", "sent"} => tail.of <= handle /\ inodeOf[handle] = tail.inode
TailInv == TailTypes /\ OffsetsCover /\ NoReplay
-----------------------------------------------------------------------------
LEMMA TailTyped ==
  ASSUME TailTypes
  PROVE  /\ tail.offset \in Nat /\ tail.inode \in Nat /\ tail.of \in Nat
         /\ saved.offset \in Nat /\ saved.inode \in Nat /\ saved.of \in Nat
         /\ gen \in Gens /\ handle \in Gens /\ gen \in Nat /\ handle \in Nat
         /\ (tail.of # 0 => tail.of \in Gens) /\ (saved.of # 0 => saved.of \in Gens)
         /\ \A g \in Gens : g \in Nat /\ inodeOf[g] \in Nat /\ size[g] \in Nat
<1>1. /\ tail \in TailRow /\ saved \in TailRow /\ gen \in Nat /\ handle \in Nat /\ 1 <= gen
      /\ gen <= MaxGen /\ 1 <= handle /\ handle <= gen /\ tail.of <= gen /\ saved.of <= gen
      /\ inodeOf \in [Gens -> Nat] /\ size \in [Gens -> Nat]
  BY DEF TailTypes, FileTypes, OffsetTypes
<1>2. /\ tail.offset \in Nat /\ tail.inode \in Nat /\ tail.of \in Nat
      /\ saved.offset \in Nat /\ saved.inode \in Nat /\ saved.of \in Nat
  BY <1>1 DEF TailRow
<1>3. gen \in Gens /\ handle \in Gens
  BY <1>1, TailAssumption DEF Gens
<1>4. ASSUME NEW g \in Nat, g # 0, g <= gen PROVE g \in Gens
  BY <1>1, <1>4, TailAssumption DEF Gens
<1>5. ASSUME NEW g \in Gens PROVE g \in Nat /\ inodeOf[g] \in Nat /\ size[g] \in Nat
  BY <1>1, TailAssumption DEF Gens
<1> QED
  BY <1>1, <1>2, <1>3, <1>4, <1>5

LEMMA NoTailOK == NoTail \in TailRow /\ NoTail.offset = 0 /\ NoTail.inode = 0 /\ NoTail.of = 0
BY DEF NoTail, TailRow

LEMMA TailInitInv == TailInit => TailInv
<1> SUFFICES ASSUME TailInit PROVE TailInv
  OBVIOUS
<1> USE DEF TailInit
<1>1. shipped \in [Gens -> [1..MaxLines -> 0..2]] /\ \A g \in Gens, i \in 1..MaxLines : shipped[g][i] = 0
  OBVIOUS
<1>2. FileTypes
  <2>1. size \in [Gens -> Nat] /\ \A g \in Gens : size[g] <= MaxLines
    BY TailAssumption
  <2>2. gen \in Nat /\ 1 <= gen /\ gen <= MaxGen
    BY TailAssumption
  <2>3. inodeOf \in [Gens -> Nat] /\ \A g \in Gens : 1 <= inodeOf[g] /\ inodeOf[g] <= g
    BY TailAssumption DEF Gens
  <2> QED
    BY <2>1, <2>2, <2>3 DEF FileTypes
<1>3. OffsetTypes
  BY NoTailOK, TailAssumption DEF OffsetTypes
<1>4. AgentTypes
  <2>1. masked \in BOOLEAN /\ rough \in BOOLEAN
    OBVIOUS
  <2>2. restarts \in 0..MaxRestarts
    BY TailAssumption
  <2> QED
    BY <1>1, <2>1, <2>2 DEF AgentTypes
<1>5. OffsetsCover
  BY NoTailOK DEF OffsetsCover, OffsetCovers
<1>6. NoReplay
  BY <1>1, NoTailOK DEF NoReplay, NoneAfter
<1> QED
  BY <1>2, <1>3, <1>4, <1>5, <1>6 DEF TailInv, TailTypes

LEMMA TailAppends == ASSUME TailInv, AppendLine PROVE TailInv'
<1>1. TailTypes /\ OffsetsCover /\ NoReplay
  BY DEF TailInv
<1>2. /\ UNCHANGED <<present, gen, inodeOf, tail, saved, agent, handle, pos, tailHistory>>
      /\ UNCHANGED <<shipped, first, masked, rough, restarts>>
  BY DEF AppendLine, tailHistory
<1>3. /\ size' \in [Gens -> Nat]
      /\ \A g \in Gens : size[g] <= size'[g] /\ size'[g] <= MaxLines
  <2>1. size[gen] \in Nat /\ size[gen] + 1 <= MaxLines /\ size' = [size EXCEPT ![gen] = size[gen] + 1]
    BY <1>1, TailTyped, TailAssumption DEF AppendLine
  <2>2. \A g \in Gens : size[g] \in Nat /\ size[g] <= MaxLines
    BY <1>1, TailTyped DEF TailTypes, FileTypes
  <2>3. size' \in [Gens -> Nat]
    <3>1. PICK x \in Nat : x = size[gen] + 1
      BY <2>1
    <3>2. size' = [size EXCEPT ![gen] = x] /\ size \in [Gens -> Nat]
      BY <1>1, <2>1, <3>1 DEF TailTypes, FileTypes
    <3> QED
      BY <3>2
  <2>4. size'[gen] = size[gen] + 1 /\ \A g \in Gens : g # gen => size'[g] = size[g]
    BY <1>1, <2>1, TailTyped DEF TailTypes, FileTypes
  <2> QED
    BY <2>1, <2>2, <2>3, <2>4
<1>4. TailTypes'
  BY <1>1, <1>2, <1>3 DEF TailTypes, FileTypes, OffsetTypes, AgentTypes
<1>5. OffsetsCover'
  BY <1>1, <1>2 DEF OffsetsCover, OffsetCovers, SentBefore
<1>6. ASSUME NEW g \in Gens, NEW n \in Nat, SentWithin(g, n) PROVE SentWithin(g, n)'
  <2>1. size[g] \in Nat /\ size'[g] \in Nat /\ size[g] <= size'[g]
    BY <1>3, <1>1, TailTyped
  <2> QED
    BY <1>2, <1>6, <2>1 DEF SentWithin
<1>7. NoReplay'
  <2> SUFFICES ASSUME ~rough PROVE NoReplay'
    BY <1>2 DEF NoReplay
  <2>1. agent = "sent" => SentWithin(handle, pos)'
    <3>1. PICK h \in Gens, p \in Nat : h = handle /\ p = pos
      BY <1>1, TailTyped DEF TailTypes, OffsetTypes
    <3>2. agent = "sent" => SentWithin(h, p)'
      BY <1>1, <1>6, <3>1 DEF NoReplay
    <3> QED
      BY <1>2, <3>1, <3>2 DEF SentWithin
  <2>2. agent # "sent" /\ tail.of # 0 => SentWithin(tail.of, tail.offset)'
    <3> SUFFICES ASSUME agent # "sent", tail.of # 0 PROVE SentWithin(tail.of, tail.offset)'
      OBVIOUS
    <3>1. PICK h \in Gens, p \in Nat : h = tail.of /\ p = tail.offset
      BY <1>1, TailTyped
    <3>2. SentWithin(h, p)'
      BY <1>1, <1>6, <3>1 DEF NoReplay
    <3> QED
      BY <1>2, <3>1, <3>2 DEF SentWithin
  <2> QED
    BY <1>1, <1>2, <2>1, <2>2 DEF NoReplay, NoneAfter
<1> QED
  BY <1>4, <1>5, <1>7 DEF TailInv

\* A new generation: offsets and what was sent are of earlier ones.
LEMMA NewGeneration ==
  ASSUME TailInv, NewGen, NEW n \in Nat, 1 <= n, n <= gen', inodeOf' = [inodeOf EXCEPT ![gen'] = n],
         present' \in BOOLEAN, UNCHANGED <<size, tail, saved, agent, pos, shipped, first, masked, rough, restarts>>,
         \/ handle' = handle
         \/ agent \in {"read", "sent"} /\ handle = gen /\ handle' = gen' /\ n = inodeOf[gen]
  PROVE  TailInv'
<1>1. TailTypes /\ OffsetsCover /\ NoReplay
  BY DEF TailInv
<1>2. gen' = gen + 1 /\ gen \in Nat /\ gen' \in Gens /\ gen' <= MaxGen /\ 1 <= gen /\ gen' \in Nat
  BY <1>1, TailAssumption DEF NewGen, TailTypes, FileTypes, Gens
<1>3. /\ inodeOf' \in [Gens -> Nat] /\ inodeOf'[gen'] = n
      /\ \A g \in Gens : g # gen' => inodeOf'[g] = inodeOf[g]
  BY <1>1, <1>2 DEF TailTypes, FileTypes
<1>4. handle \in Nat /\ handle' \in Nat /\ handle <= gen /\ handle <= handle' /\ handle' <= gen' /\ 1 <= handle'
  BY <1>1, <1>2 DEF TailTypes, OffsetTypes
<1>5. TailTypes'
  <2>1. FileTypes'
    BY <1>1, <1>2, <1>3 DEF TailTypes, FileTypes
  <2>2. OffsetTypes'
    <3>1. tail'.inode <= gen' /\ tail'.of <= gen' /\ saved'.inode <= gen' /\ saved'.of <= gen'
      BY <1>1, <1>2, TailTyped DEF TailTypes, OffsetTypes
    <3> QED
      BY <1>1, <1>4, <3>1 DEF TailTypes, OffsetTypes
  <2> QED
    BY <1>1, <2>1, <2>2 DEF TailTypes, AgentTypes
<1>6. ASSUME NEW g \in Gens, g <= gen PROVE inodeOf'[g] = inodeOf[g] /\ g # gen'
  BY <1>2, <1>3, <1>6 DEF Gens
<1>7. /\ tail.of # 0 => inodeOf'[tail.of] = inodeOf[tail.of] /\ tail.of # gen'
      /\ saved.of # 0 => inodeOf'[saved.of] = inodeOf[saved.of]
  BY <1>1, <1>6, TailTyped DEF TailTypes, OffsetTypes
<1>8. tail.of # gen'
  BY <1>2, <1>7
<1>9. handle' = handle => inodeOf'[handle'] = inodeOf[handle]
  BY <1>1, <1>4, <1>6, TailTyped
<1>10. OffsetsCover'
  <2>1. OffsetCovers(tail)'
    BY <1>1, <1>7 DEF OffsetsCover, OffsetCovers, SentBefore
  <2>2. OffsetCovers(saved)'
    BY <1>1, <1>7 DEF OffsetsCover, OffsetCovers, SentBefore
  <2>3. handle' # handle => tail'.of # handle'
    BY <1>8
  <2>4. handle' = handle /\ agent \in {"read", "sent"} /\ ~masked /\ tail.of = handle /\ tail.inode = inodeOf'[handle'] =>
          SentBefore(handle, pos)'
    BY <1>1, <1>9 DEF OffsetsCover, SentBefore
  <2> QED
    BY <1>1, <2>1, <2>2, <2>3, <2>4 DEF OffsetsCover, SentBefore
<1>11. NoReplay'
  <2> SUFFICES ASSUME ~rough PROVE NoReplay'
    BY DEF NoReplay
  <2>1. ASSUME agent = "sent" PROVE NoneAfter(handle)' /\ SentWithin(handle, pos)'
    <3>1. NoneAfter(handle) /\ SentWithin(handle, pos)
      BY <1>1, <2>1 DEF NoReplay
    <3>2. NoneAfter(handle)'
      <4> SUFFICES ASSUME NEW g \in Gens, g > handle', NEW i \in 1..MaxLines PROVE shipped[g][i] = 0
        BY DEF NoneAfter
      <4>1. g > handle
        BY <1>4 DEF Gens
      <4> QED
        BY <3>1, <4>1 DEF NoneAfter
    <3>3. CASE handle' = handle
      BY <3>1, <3>2, <3>3 DEF SentWithin
    <3>4. CASE handle' = gen' /\ handle = gen
      <4>1. \A i \in 1..MaxLines : shipped[gen'][i] = 0
        BY <1>2, <3>1, <3>4 DEF NoneAfter
      <4> QED
        BY <3>2, <3>4, <4>1 DEF SentWithin
    <3> QED
      BY <3>3, <3>4
  <2>2. ASSUME agent # "sent" PROVE NoneAfter(tail.of)' /\ (tail.of # 0 => SentWithin(tail.of, tail.offset)')
    BY <1>1, <2>2 DEF NoReplay, NoneAfter, SentWithin
  <2>3. ASSUME agent \in {"read", "sent"} PROVE tail.of <= handle' /\ inodeOf'[handle'] = tail.inode
    <3>1. tail.of <= handle /\ inodeOf[handle] = tail.inode /\ tail.of \in Nat
      BY <1>1, <2>3, TailTyped DEF NoReplay
    <3> QED
      BY <1>3, <1>4, <1>9, <3>1
  <2> QED
    BY <1>1, <1>7, <2>1, <2>2, <2>3 DEF NoReplay
<1> QED
  BY <1>5, <1>10, <1>11 DEF TailInv

LEMMA TailFileChanges == ASSUME TailInv, DeleteFile \/ Create \/ Truncate PROVE TailInv'
<1>1. TailTypes /\ OffsetsCover /\ NoReplay
  BY DEF TailInv
<1>2. /\ gen \in Gens /\ gen \in Nat /\ inodeOf[gen] \in Nat
      /\ 1 <= inodeOf[gen] /\ inodeOf[gen] <= gen /\ 1 <= gen
  BY <1>1, TailTyped DEF TailTypes, FileTypes
<1>3. CASE DeleteFile
  <2>1. UNCHANGED <<gen, inodeOf, size, tail, saved, agent, handle, pos, shipped, first, masked, rough, restarts>>
        /\ present' = FALSE
    BY <1>3 DEF DeleteFile, tailHistory
  <2>2. TailTypes'
    BY <1>1, <2>1 DEF TailTypes, FileTypes, OffsetTypes, AgentTypes
  <2>3. OffsetsCover' /\ NoReplay'
    BY <1>1, <2>1 DEF OffsetsCover, OffsetCovers, SentBefore, NoReplay, NoneAfter, SentWithin
  <2> QED
    BY <2>2, <2>3 DEF TailInv
<1>4. CASE Create
  <2>1. PICK n \in {gen', inodeOf[gen]} : inodeOf' = [inodeOf EXCEPT ![gen'] = n]
    BY <1>4 DEF Create
  <2>2. gen' = gen + 1 /\ n \in Nat /\ 1 <= n /\ n <= gen'
    BY <1>2, <1>4, <2>1 DEF Create, NewGen
  <2>3. /\ NewGen /\ present' \in BOOLEAN /\ handle' = handle
        /\ UNCHANGED <<size, tail, saved, agent, pos, shipped, first, masked, rough, restarts>>
    BY <1>4 DEF Create, tailHistory
  <2> QED
    BY <2>1, <2>2, <2>3, NewGeneration
<1>5. CASE Truncate
  <2>1. PICK n : n = inodeOf[gen]
    OBVIOUS
  <2>2. n \in Nat /\ 1 <= n /\ n <= gen' /\ inodeOf' = [inodeOf EXCEPT ![gen'] = n]
    BY <1>2, <1>5, <2>1 DEF Truncate, NewGen
  <2>3. /\ NewGen /\ present' \in BOOLEAN
        /\ UNCHANGED <<size, tail, saved, agent, pos, shipped, first, masked, rough, restarts>>
    BY <1>1, <1>5 DEF Truncate, tailHistory, TailTypes, FileTypes
  <2>4. \/ handle' = handle
        \/ agent \in {"read", "sent"} /\ handle = gen /\ handle' = gen' /\ n = inodeOf[gen]
    BY <1>5, <2>1 DEF Truncate
  <2> QED
    BY <2>2, <2>3, <2>4, NewGeneration
<1> QED
  BY <1>3, <1>4, <1>5
LEMMA TailStarts == ASSUME TailInv, StartAgent PROVE TailInv'
<1>1. TailTypes /\ OffsetsCover /\ NoReplay
  BY DEF TailInv
<1>2. /\ agent = "down" /\ agent' = "stat" /\ saved' = tail'
      /\ first' = IF saved = NoTail THEN tail' ELSE first
      /\ UNCHANGED <<present, gen, inodeOf, size, handle, pos, shipped, masked, rough, restarts>>
  BY DEF StartAgent, fileVars
<1>3. PICK n \in Nat, d \in Nat, g \in Gens : n = size[gen] /\ d = inodeOf[gen] /\ g = gen /\ g # 0 /\ g \in Nat
                               /\ n <= MaxLines /\ 1 <= d /\ d <= g
  BY <1>1, TailTyped DEF TailTypes, FileTypes
<1>4. PICK p : p = [offset |-> n, inode |-> d, of |-> g]
  OBVIOUS
<1>5. PICK q : q = [NoTail EXCEPT !.of = g]
  OBVIOUS
<1>6. /\ p \in TailRow /\ p.offset = n /\ p.inode = d /\ p.of = g
      /\ q \in TailRow /\ q.offset = 0 /\ q.inode = 0 /\ q.of = g
  BY <1>3, <1>4, <1>5 DEF NoTail, TailRow
<1>7. PICK t : t = tail'
  OBVIOUS
<1>8. \/ saved # NoTail /\ t = saved
      \/ saved = NoTail /\ t = p
      \/ saved = NoTail /\ t = q
  BY <1>3, <1>4, <1>5, <1>7 DEF StartAgent
<1>9. /\ t \in TailRow /\ t.offset <= MaxLines /\ t.inode <= g /\ t.of <= g /\ (t.inode = 0 => t.offset = 0)
  <2>1. saved \in TailRow /\ saved.offset <= MaxLines /\ saved.inode <= g /\ saved.of <= g
        /\ (saved.inode = 0 => saved.offset = 0)
    BY <1>1, <1>3 DEF TailTypes, OffsetTypes, OffsetsCover
  <2>2. 0 <= g /\ 0 <= MaxLines /\ g <= g /\ d # 0
    BY <1>3, TailAssumption
  <2> QED
    BY <1>3, <1>6, <1>8, <2>1, <2>2
<1>10. TailTypes'
  <2>1. first' \in TailRow
    BY <1>1, <1>2, <1>7, <1>9 DEF TailTypes, OffsetTypes
  <2> QED
    BY <1>1, <1>2, <1>3, <1>7, <1>9, <2>1 DEF TailTypes, FileTypes, OffsetTypes, AgentTypes
<1>11. OffsetsCover'
  <2>1. ASSUME ~masked, t.of # 0, t.inode = inodeOf[t.of], NEW i \in 1..t.offset
        PROVE  shipped[t.of][i] > 0 \/ (t.of = first'.of /\ i <= first'.offset)
    <3>1. CASE saved # NoTail /\ t = saved
      BY <1>1, <1>2, <2>1, <3>1 DEF OffsetsCover, OffsetCovers, SentBefore
    <3>2. CASE saved = NoTail
      <4>1. first' = t /\ i <= t.offset
        BY <1>2, <1>7, <1>9, <2>1, <3>2 DEF TailRow
      <4> QED
        BY <4>1
    <3> QED
      BY <1>8, <3>1, <3>2
  <2>2. OffsetCovers(tail)'
    BY <1>2, <1>7, <2>1 DEF OffsetCovers, SentBefore
  <2>3. OffsetCovers(saved)'
    BY <1>2, <2>2 DEF OffsetCovers, SentBefore
  <2> QED
    BY <1>2, <1>7, <1>9, <2>2, <2>3 DEF OffsetsCover
<1>12. NoReplay'
  <2> SUFFICES ASSUME ~rough PROVE NoReplay'
    BY <1>2 DEF NoReplay
  <2>1. /\ saved = tail /\ NoneAfter(tail.of) /\ (tail.of # 0 => SentWithin(tail.of, tail.offset))
        /\ \A f \in Gens, i \in 1..MaxLines : shipped[f][i] <= 1
        /\ tail.of # 0 => tail.inode \in {0, inodeOf[tail.of]}
    BY <1>1, <1>2 DEF NoReplay
  <2>2. /\ NoneAfter(t.of)' /\ (t.of # 0 => SentWithin(t.of, t.offset)')
        /\ t.of # 0 => t.inode \in {0, inodeOf[t.of]}
    <3>1. CASE saved # NoTail /\ t = saved
      BY <1>2, <2>1, <3>1 DEF NoneAfter, SentWithin
    <3>2. CASE saved = NoTail /\ t \in {p, q}
      <4>1. \A f \in Gens, i \in 1..MaxLines : shipped[f][i] = 0
        BY <2>1, <3>2, NoTailOK DEF NoneAfter, Gens
      <4>2. t.of = g /\ t.inode \in {0, d}
        BY <1>6, <3>2
      <4> QED
        BY <1>2, <1>3, <4>1, <4>2 DEF NoneAfter, SentWithin
    <3> QED
      BY <1>8, <3>1, <3>2
  <2> QED
    BY <1>2, <1>7, <2>1, <2>2 DEF NoReplay, NoneAfter, SentWithin
<1> QED
  BY <1>10, <1>11, <1>12 DEF TailInv

LEMMA TailStats == ASSUME TailInv, StatFile PROVE TailInv'
<1>1. TailTypes /\ OffsetsCover /\ NoReplay
  BY DEF TailInv
<1>2. /\ agent = "stat" /\ agent' \in {"open", "save"} /\ (agent' = "open" => present)
      /\ masked' = (masked \/ (present /\ LooksTheSame /\ tail.of # gen /\ tail.offset > 0))
      /\ UNCHANGED <<present, gen, inodeOf, size, saved, handle, pos, shipped, first, rough, restarts>>
  BY DEF StatFile, fileVars
<1>3. PICK d \in Nat, g \in Gens : d = inodeOf[gen] /\ g = gen /\ g # 0 /\ g \in Nat /\ 1 <= d /\ d <= g
  BY <1>1, TailTyped DEF TailTypes, FileTypes
<1>4. PICK n : n = IF Rotated THEN 0 ELSE tail.offset
  OBVIOUS
<1>5. PICK r : r = [offset |-> n, inode |-> d, of |-> g]
  OBVIOUS
<1>6. n \in Nat /\ n <= MaxLines /\ (n # 0 => ~Rotated /\ n = tail.offset)
  BY <1>1, <1>4, TailTyped, TailAssumption DEF TailTypes, OffsetTypes
<1>7. r \in TailRow /\ r.offset = n /\ r.inode = d /\ r.of = g
  BY <1>3, <1>5, <1>6 DEF TailRow
<1>8. tail' = IF present THEN r ELSE tail
  BY <1>3, <1>4, <1>5 DEF StatFile
<1>9. masked' \in BOOLEAN /\ (masked => masked')
  BY <1>1, <1>2 DEF TailTypes, AgentTypes
<1>10. TailTypes'
  <2>1. tail' \in TailRow /\ tail'.offset <= MaxLines /\ tail'.inode <= gen /\ tail'.of <= gen
    BY <1>1, <1>3, <1>6, <1>7, <1>8 DEF TailTypes, OffsetTypes
  <2> QED
    BY <1>1, <1>2, <1>9, <2>1 DEF TailTypes, FileTypes, OffsetTypes, AgentTypes
<1>11. ASSUME present, n # 0, n = tail.offset
       PROVE  /\ tail.inode = d /\ n <= size[g] /\ (~masked' => tail.of = g)
  <2>1. tail.inode # 0 /\ tail.inode \in {0, d} /\ ~(size[g] < n)
    BY <1>1, <1>3, <1>6, <1>11 DEF Rotated, OffsetsCover
  <2>2. tail.inode = d /\ size[g] >= n /\ n > 0
    BY <1>1, <1>3, <1>6, <2>1, <1>11, TailTyped
  <2>3. ~masked' => tail.of = g
    BY <1>2, <1>3, <1>11, <2>2 DEF LooksTheSame
  <2> QED
    BY <2>2, <2>3, <1>1, <1>3, <1>6, TailTyped
<1>12. OffsetsCover'
  <2>1. OffsetCovers(saved)'
    BY <1>1, <1>2, <1>9 DEF OffsetsCover, OffsetCovers, SentBefore
  <2>2. OffsetCovers(tail)' /\ (tail'.inode = 0 => tail'.offset = 0)
    <3>1. CASE present
      <4>1. ASSUME ~masked', NEW i \in 1..n PROVE shipped[g][i] > 0 \/ (g = first.of /\ i <= first.offset)
        <5>1. n # 0 /\ n = tail.offset /\ ~masked
          BY <1>6, <1>9, <4>1
        <5>2. tail.of = g /\ tail.inode = d /\ tail.of # 0
          BY <1>3, <1>11, <3>1, <4>1, <5>1
        <5> QED
          BY <1>1, <1>3, <4>1, <5>1, <5>2 DEF OffsetsCover, OffsetCovers, SentBefore
      <4>2. tail'.of = g /\ tail'.offset = n /\ tail'.inode = d /\ d # 0
        BY <1>3, <1>7, <1>8, <3>1
      <4> QED
        BY <1>2, <4>1, <4>2 DEF OffsetCovers, SentBefore
    <3>2. CASE ~present
      BY <1>1, <1>2, <1>8, <1>9, <3>2 DEF OffsetsCover, OffsetCovers, SentBefore
    <3> QED
      BY <3>1, <3>2
  <2>3. agent' = "open" => tail'.inode # 0
    BY <1>2, <1>3, <1>7, <1>8
  <2> QED
    BY <1>1, <1>2, <2>1, <2>2, <2>3 DEF OffsetsCover
<1>13. NoReplay'
  <2> SUFFICES ASSUME ~rough PROVE NoReplay'
    BY <1>2 DEF NoReplay
  <2>1. /\ NoneAfter(tail.of) /\ (tail.of # 0 => SentWithin(tail.of, tail.offset))
        /\ \A f \in Gens, i \in 1..MaxLines : shipped[f][i] <= 1
        /\ tail.of # 0 => tail.inode \in {0, inodeOf[tail.of]}
    BY <1>1, <1>2 DEF NoReplay
  <2>2. CASE present
    <3>1. tail.of \in Nat /\ tail.of <= g
      BY <1>1, <1>3, TailTyped DEF TailTypes, OffsetTypes
    <3>2. NoneAfter(g)
      <4> SUFFICES ASSUME NEW f \in Gens, f > g, NEW i \in 1..MaxLines PROVE shipped[f][i] = 0
        BY DEF NoneAfter
      <4>1. f > tail.of
        BY <1>3, <3>1 DEF Gens
      <4> QED
        BY <2>1, <4>1 DEF NoneAfter
    <3>3. SentWithin(g, n)
      <4> SUFFICES ASSUME NEW i \in 1..MaxLines, shipped[g][i] > 0 PROVE i <= n /\ n <= size[g]
        BY DEF SentWithin
      <4>1. tail.of = g
        <5>1. CASE tail.of < g
          <6>1. shipped[g][i] = 0
            BY <2>1, <5>1 DEF NoneAfter
          <6> QED
            BY <6>1
        <5> QED
          BY <1>3, <3>1, <5>1
      <4>2. i <= tail.offset /\ tail.offset <= size[g]
        BY <1>3, <2>1, <4>1 DEF SentWithin
      <4>3. tail.inode \in {0, d} /\ ~(size[g] < tail.offset)
        BY <1>1, <1>3, <2>1, <4>1, <4>2, TailTyped
      <4>4. ~Rotated
        BY <1>3, <4>3 DEF Rotated
      <4> QED
        BY <1>4, <4>2, <4>4
    <3>4. tail'.of = g /\ tail'.offset = n /\ tail'.inode = d /\ inodeOf'[g] = d
      BY <1>2, <1>3, <1>7, <1>8, <2>2
    <3> QED
      BY <1>2, <2>1, <3>2, <3>3, <3>4 DEF NoReplay, NoneAfter, SentWithin
  <2>3. CASE ~present
    BY <1>2, <1>8, <2>1, <2>3 DEF NoReplay, NoneAfter, SentWithin
  <2> QED
    BY <2>2, <2>3
<1> QED
  BY <1>10, <1>12, <1>13 DEF TailInv

LEMMA TailOpens == ASSUME TailInv, OpenFile PROVE TailInv'
<1>1. TailTypes /\ OffsetsCover /\ NoReplay
  BY DEF TailInv
<1>2. /\ agent = "open" /\ handle' = gen /\ pos' = tail.offset /\ agent' \in {"read", "save"}
      /\ rough' = (rough \/ tail.of # gen)
      /\ UNCHANGED <<present, gen, inodeOf, size, tail, saved, shipped, first, masked, restarts>>
  BY DEF OpenFile, fileVars
<1>3. gen \in Nat /\ 1 <= gen /\ tail.offset \in Nat /\ tail.offset <= MaxLines
  BY <1>1, TailTyped DEF TailTypes, FileTypes, OffsetTypes
<1>4. TailTypes'
  <2>1. rough' \in BOOLEAN
    BY <1>2, <1>1 DEF TailTypes, AgentTypes
  <2> QED
    BY <1>1, <1>2, <1>3, <2>1 DEF TailTypes, FileTypes, OffsetTypes, AgentTypes
<1>5. OffsetsCover'
  <2>1. OffsetCovers(tail)' /\ OffsetCovers(saved)'
    BY <1>1, <1>2 DEF OffsetsCover, OffsetCovers, SentBefore
  <2>2. ~masked /\ tail.of = gen /\ tail.inode = inodeOf[gen] => SentBefore(gen, tail.offset)
    BY <1>1, <1>3 DEF OffsetsCover, OffsetCovers
  <2> QED
    BY <1>1, <1>2, <2>1, <2>2 DEF OffsetsCover, SentBefore
<1>6. NoReplay'
  <2> SUFFICES ASSUME ~rough, tail.of = gen PROVE NoReplay'
    BY <1>2 DEF NoReplay
  <2>1. tail.inode = inodeOf[gen] /\ tail.of <= gen
    BY <1>1, <1>2, <1>3 DEF NoReplay, OffsetsCover
  <2> QED
    BY <1>1, <1>2, <2>1 DEF NoReplay, NoneAfter, SentWithin
<1> QED
  BY <1>4, <1>5, <1>6 DEF TailInv
LEMMA TailSends == ASSUME TailInv, SendLine PROVE TailInv'
<1>1. TailTypes /\ OffsetsCover /\ NoReplay
  BY DEF TailInv
<1>2. PICK h \in Gens : h = handle
  BY <1>1, TailTyped
<1>3. PICK n : n = pos + 1
  OBVIOUS
<1>4. PICK v : v = IF shipped[h][n] = 0 THEN 1 ELSE 2
  OBVIOUS
<1>5. /\ agent = "read" /\ agent' = "sent" /\ pos < size[h] /\ pos' = n
      /\ UNCHANGED <<present, gen, inodeOf, size, tail, saved, handle, first, masked, rough, restarts>>
      /\ shipped' = [shipped EXCEPT ![h][n] = v]
  BY <1>2, <1>3, <1>4 DEF SendLine, fileVars
<1>6. /\ pos \in Nat /\ n \in Nat /\ n <= size[h] /\ size[h] \in Nat /\ size[h] <= MaxLines
      /\ n \in 1..MaxLines /\ pos < n /\ n <= MaxLines
  BY <1>1, <1>3, <1>5, TailTyped, TailAssumption DEF TailTypes, FileTypes, OffsetTypes
<1>7. /\ shipped' \in [Gens -> [1..MaxLines -> 0..2]] /\ shipped'[h][n] = v /\ v \in 1..2
      /\ \A g \in Gens : g # h => shipped'[g] = shipped[g]
      /\ \A i \in 1..MaxLines : i # n => shipped'[h][i] = shipped[h][i]
  <2>1. PICK f \in [1..MaxLines -> 0..2] : f = shipped[h]
    BY <1>1 DEF TailTypes, AgentTypes
  <2>2. PICK e : e = [f EXCEPT ![n] = v]
    OBVIOUS
  <2>3. v \in 1..2
    BY <1>4
  <2>4. e \in [1..MaxLines -> 0..2] /\ e[n] = v /\ \A i \in 1..MaxLines : i # n => e[i] = f[i]
    BY <1>6, <2>2, <2>3
  <2>5. shipped' = [shipped EXCEPT ![h] = e]
    BY <1>1, <1>5, <2>1, <2>2 DEF TailTypes, AgentTypes
  <2> QED
    BY <1>1, <2>1, <2>3, <2>4, <2>5 DEF TailTypes, AgentTypes
<1>8. TailTypes'
  BY <1>1, <1>5, <1>6, <1>7 DEF TailTypes, FileTypes, OffsetTypes, AgentTypes
<1>9. ASSUME NEW g \in Gens, NEW i \in 1..MaxLines, shipped[g][i] > 0 PROVE shipped'[g][i] > 0
  <2>1. CASE g = h /\ i = n
    BY <1>7, <2>1
  <2> QED
    BY <1>7, <1>9, <2>1
<1>10. ASSUME NEW g \in Gens, NEW m \in Nat, m <= MaxLines, SentBefore(g, m) PROVE SentBefore(g, m)'
  <2> SUFFICES ASSUME NEW i \in 1..m PROVE shipped'[g][i] > 0 \/ (g = first'.of /\ i <= first'.offset)
    BY DEF SentBefore
  <2>1. i \in 1..MaxLines
    BY <1>10, TailAssumption
  <2> QED
    BY <1>5, <1>9, <1>10, <2>1 DEF SentBefore
<1>11. OffsetsCover'
  <2>1. ASSUME NEW t \in {tail, saved} PROVE OffsetCovers(t)'
    <3>1. t \in TailRow /\ t.of <= gen /\ t.offset <= MaxLines /\ OffsetCovers(t)
      BY <1>1 DEF TailTypes, OffsetTypes, OffsetsCover
    <3>2. t.of # 0 => t.of \in Gens /\ t.offset \in Nat
      BY <1>1, <3>1, TailTyped DEF TailRow
    <3> QED
      BY <1>5, <1>10, <3>1, <3>2 DEF OffsetCovers
  <2>2. PICK s, t : s = saved /\ t = tail
    OBVIOUS
  <2>3. OffsetCovers(s)' /\ OffsetCovers(t)'
    BY <2>1, <2>2
  <2>4. OffsetCovers(saved)' /\ OffsetCovers(tail)'
    BY <1>5, <2>2, <2>3 DEF OffsetCovers
  <2>5. ASSUME ~masked, tail.of = h, tail.inode = inodeOf[h] PROVE SentBefore(h, n)'
    <3> SUFFICES ASSUME NEW i \in 1..n PROVE shipped'[h][i] > 0 \/ (h = first'.of /\ i <= first'.offset)
      BY DEF SentBefore
    <3>1. CASE i = n
      BY <1>7, <3>1
    <3>2. CASE i # n
      <4>1. i \in 1..pos /\ i \in 1..MaxLines
        BY <1>3, <1>6, <3>2, TailAssumption
      <4> QED
        BY <1>1, <1>2, <1>5, <1>9, <2>5, <4>1 DEF OffsetsCover, SentBefore
    <3> QED
      BY <3>1, <3>2
  <2> QED
    BY <1>1, <1>2, <1>5, <2>4, <2>5 DEF OffsetsCover, SentBefore
<1>12. NoReplay'
  <2> SUFFICES ASSUME ~rough PROVE NoReplay'
    BY <1>5 DEF NoReplay
  <2>1. /\ NoneAfter(tail.of) /\ (tail.of # 0 => SentWithin(tail.of, tail.offset)) /\ pos = tail.offset
        /\ \A g \in Gens, i \in 1..MaxLines : shipped[g][i] <= 1
        /\ (tail.of # 0 => tail.inode \in {0, inodeOf[tail.of]}) /\ tail.of <= h /\ inodeOf[h] = tail.inode
    BY <1>1, <1>2, <1>5 DEF NoReplay
  <2>2. tail.of \in Nat /\ h \in Nat /\ h # 0
    BY <1>1, TailTyped, TailAssumption DEF Gens
  <2>3. ASSUME NEW i \in 1..MaxLines, shipped[h][i] > 0 PROVE i <= pos
    <3>1. CASE tail.of < h
      <4>1. shipped[h][i] = 0
        BY <2>1, <3>1 DEF NoneAfter
      <4> QED
        BY <2>3, <4>1
    <3>2. CASE tail.of = h
      BY <2>1, <2>2, <2>3, <3>2 DEF SentWithin
    <3> QED
      BY <2>1, <2>2, <3>1, <3>2
  <2>4. shipped[h][n] = 0
    <3>1. shipped[h][n] \in 0..2
      BY <1>1, <1>6 DEF TailTypes, AgentTypes
    <3>2. ~(shipped[h][n] > 0)
      BY <1>6, <2>3
    <3> QED
      BY <3>1, <3>2
  <2>5. v = 1
    BY <1>4, <2>4
  <2>6. ASSUME NEW g \in Gens, NEW i \in 1..MaxLines PROVE shipped'[g][i] <= 1
    <3>1. CASE g = h /\ i = n
      BY <1>7, <2>5, <3>1
    <3> QED
      BY <1>7, <2>1, <3>1
  <2>7. SentWithin(h, n)'
    <3> SUFFICES ASSUME NEW i \in 1..MaxLines, shipped'[h][i] > 0 PROVE i <= n /\ n <= size'[h]
      BY DEF SentWithin
    <3>1. CASE i = n
      BY <1>5, <1>6, <3>1
    <3>2. CASE i # n
      <4>1. i <= pos
        BY <1>7, <2>3, <3>2
      <4> QED
        BY <1>5, <1>6, <4>1
    <3> QED
      BY <3>1, <3>2
  <2>8. NoneAfter(h)'
    <3> SUFFICES ASSUME NEW g \in Gens, g > h, NEW i \in 1..MaxLines PROVE shipped'[g][i] = 0
      BY DEF NoneAfter
    <3>1. g > tail.of /\ g # h
      BY <2>1, <2>2, TailAssumption DEF Gens
    <3> QED
      BY <1>7, <2>1, <3>1 DEF NoneAfter
  <2>9. SentWithin(handle, pos)' /\ NoneAfter(handle)'
    BY <1>2, <1>5, <2>7, <2>8 DEF SentWithin, NoneAfter
  <2> QED
    BY <1>2, <1>5, <2>1, <2>6, <2>9 DEF NoReplay
<1> QED
  BY <1>8, <1>11, <1>12 DEF TailInv

LEMMA TailKeeps == ASSUME TailInv, KeepOffset PROVE TailInv'
<1>1. TailTypes /\ OffsetsCover /\ NoReplay
  BY DEF TailInv
<1>2. PICK t \in TailRow : t = tail
  BY <1>1 DEF TailTypes, OffsetTypes
<1>3. PICK u : u = [t EXCEPT !.offset = pos, !.of = handle]
  OBVIOUS
<1>4. /\ agent = "sent" /\ agent' = "read" /\ tail' = u
      /\ masked' = (masked \/ (t.of # handle /\ t.inode = inodeOf[handle]))
      /\ UNCHANGED <<present, gen, inodeOf, size, saved, handle, pos, shipped, first, rough, restarts>>
  BY <1>2, <1>3 DEF KeepOffset, Tell, fileVars
<1>5. pos \in Nat /\ handle \in Nat /\ pos <= MaxLines /\ 1 <= handle /\ handle <= gen
  BY <1>1 DEF TailTypes, OffsetTypes
<1>6. u \in TailRow /\ u.offset = pos /\ u.of = handle /\ u.inode = t.inode
  BY <1>3, <1>5 DEF TailRow
<1>7. masked' \in BOOLEAN /\ (masked => masked')
  BY <1>4
<1>8. TailTypes'
  <2>1. u.inode <= gen
    BY <1>1, <1>2, <1>6 DEF TailTypes, OffsetTypes
  <2> QED
    BY <1>1, <1>4, <1>5, <1>6, <1>7, <2>1 DEF TailTypes, FileTypes, OffsetTypes, AgentTypes
<1>9. ~masked' /\ t.inode = inodeOf[handle] => SentBefore(handle, pos)
  BY <1>1, <1>2, <1>4, <1>7 DEF OffsetsCover
<1>10. OffsetsCover'
  <2>1. OffsetCovers(saved)'
    BY <1>1, <1>4, <1>7 DEF OffsetsCover, OffsetCovers, SentBefore
  <2>2. OffsetCovers(tail)'
    BY <1>4, <1>6, <1>9 DEF OffsetCovers, SentBefore
  <2>3. u.inode # 0
    BY <1>1, <1>2, <1>4, <1>6 DEF OffsetsCover
  <2>4. ~masked' /\ tail'.of = handle' /\ tail'.inode = inodeOf'[handle'] => SentBefore(handle, pos)'
    BY <1>4, <1>6, <1>9 DEF SentBefore
  <2> QED
    BY <1>1, <1>4, <2>1, <2>2, <2>3, <2>4 DEF OffsetsCover
<1>11. NoReplay'
  <2> SUFFICES ASSUME ~rough PROVE NoReplay'
    BY <1>4 DEF NoReplay
  <2>1. /\ NoneAfter(handle) /\ SentWithin(handle, pos) /\ inodeOf[handle] = t.inode
        /\ \A g \in Gens, i \in 1..MaxLines : shipped[g][i] <= 1
    BY <1>1, <1>2, <1>4 DEF NoReplay
  <2>2. NoneAfter(tail.of)' /\ SentWithin(tail.of, tail.offset)'
    BY <1>4, <1>6, <2>1 DEF NoneAfter, SentWithin
  <2> QED
    BY <1>4, <1>5, <1>6, <2>1, <2>2 DEF NoReplay
<1> QED
  BY <1>8, <1>10, <1>11 DEF TailInv

\* The end of the file, the save, a stop and a kill.
LEMMA TailLeaves ==
  ASSUME TailInv, EndOfFile \/ SaveState \/ SaveStateFails \/ StopAgent \/ KillAgent
  PROVE  TailInv'
<1>1. TailTypes /\ OffsetsCover /\ NoReplay
  BY DEF TailInv
<1>2. /\ UNCHANGED <<present, gen, inodeOf, size, tail, handle, pos, shipped, first, masked>>
      /\ saved' \in {saved, tail} /\ agent' \in {"down", "stat", "save"}
  BY DEF EndOfFile, SaveState, SaveStateFails, StopAgent, KillAgent, fileVars, tailHistory
<1>3. /\ ~rough' => ~rough /\ agent # "sent" /\ (agent' = "down" => saved' = tail)
      /\ rough' \in BOOLEAN
  BY <1>1 DEF EndOfFile, SaveState, SaveStateFails, StopAgent, KillAgent, tailHistory, TailTypes, AgentTypes
<1>4. restarts' \in 0..MaxRestarts
  BY <1>1, TailAssumption
     DEF EndOfFile, SaveState, SaveStateFails, StopAgent, KillAgent, tailHistory, Disturb, TailTypes, AgentTypes
<1>5. TailTypes'
  BY <1>1, <1>2, <1>3, <1>4 DEF TailTypes, FileTypes, OffsetTypes, AgentTypes
<1>6. OffsetsCover'
  <2>1. OffsetCovers(tail)'
    BY <1>1, <1>2 DEF OffsetsCover, OffsetCovers, SentBefore
  <2>2. OffsetCovers(saved)'
    <3>1. CASE saved' = saved
      BY <1>1, <1>2, <3>1 DEF OffsetsCover, OffsetCovers, SentBefore
    <3>2. CASE saved' = tail
      BY <1>1, <1>2, <3>2 DEF OffsetsCover, OffsetCovers, SentBefore
    <3> QED
      BY <1>2, <3>1, <3>2
  <2> QED
    BY <1>1, <1>2, <2>1, <2>2 DEF OffsetsCover
<1>7. NoReplay'
  <2> SUFFICES ASSUME ~rough' PROVE NoReplay'
    BY DEF NoReplay
  <2> QED
    BY <1>1, <1>2, <1>3 DEF NoReplay, NoneAfter, SentWithin
<1> QED
  BY <1>5, <1>6, <1>7 DEF TailInv

LEMMA TailAlways == TailSpec => []TailInv
<1>1. TailInv /\ [TailNext]_tailVars => TailInv'
  <2> SUFFICES ASSUME TailInv, [TailNext]_tailVars PROVE TailInv'
    OBVIOUS
  <2>1. CASE UNCHANGED tailVars
    BY <2>1 DEF tailVars, TailInv, TailTypes, FileTypes, OffsetTypes, AgentTypes, OffsetsCover,
                OffsetCovers, SentBefore, NoReplay, NoneAfter, SentWithin
  <2> QED
    BY <2>1, TailAppends, TailFileChanges, TailStarts, TailStats, TailOpens, TailSends,
       TailKeeps, TailLeaves DEF TailNext
<1> QED
  BY <1>1, TailInitInv, PTL DEF TailSpec

LEMMA LinesShippedInv == TailInv => LinesShipped
<1> SUFFICES ASSUME TailInv PROVE LinesShipped
  OBVIOUS
<1>1. NoLineSkipped
  BY DEF TailInv, OffsetsCover, OffsetCovers, SentBefore, NoLineSkipped
<1>2. ReplaysExcused
  BY DEF TailInv, NoReplay, ReplaysExcused
<1> QED
  BY <1>1, <1>2 DEF LinesShipped

LEMMA TailTypedOK == TailInv => TailTypeOK
<1> SUFFICES ASSUME TailInv PROVE TailTypeOK
  OBVIOUS
<1>1. TailTypes
  BY DEF TailInv
<1>2. gen \in Gens /\ handle \in 1..gen
  BY <1>1, TailTyped DEF TailTypes, OffsetTypes
<1>3. size \in [Gens -> 0..MaxLines]
  BY <1>1, TailAssumption DEF TailTypes, FileTypes
<1>4. ASSUME NEW t \in {tail, saved}
      PROVE  t.offset \in 0..MaxLines /\ t.inode \in 0..gen /\ t.of \in 0..gen
  BY <1>1, TailTyped, TailAssumption DEF TailTypes, OffsetTypes
<1> QED
  BY <1>1, <1>2, <1>3, <1>4 DEF TailTypes, AgentTypes, TailTypeOK

-----------------------------------------------------------------------------
(***************************************************************************)
(* FieldReindex.  What a job has deleted and not committed is what is      *)
(* stored, unless another job may write; and what it has passed of the     *)
(* logs it covers is rebuilt or in the batch it is about to commit.        *)
(***************************************************************************)
FieldSet == [by : Jobs \cup {"ingest"}, run : Nat, patterns : Nat]
JobState == [at : {"idle", "start", "read", "delete", "insert"}, run : Nat, patterns : Nat,
             max : Nat, last : Nat, rows : SUBSET LogIds, replaced : SUBSET LogIds,
             seen : [LogIds -> SUBSET FieldSet]]
Rebuilding(j) == job[j].at \in {"read", "delete", "insert"}
InBatch(j) == job[j].rows \cup job[j].replaced
Replacing(j) == IF job[j].at = "insert" THEN job[j].replaced \cup {Min(job[j].rows)}
                ELSE job[j].replaced
Known(l) == l <= lastLog /\ l \notin pendingLogs

FieldTypes ==
  /\ fieldDb \in FieldBackends /\ patterns \in 1..MaxPatterns /\ lastLog \in 0..MaxLogs
  /\ logs \subseteq LogIds /\ pendingLogs \subseteq LogIds /\ logs \cap pendingLogs = {}
  /\ \A l \in logs \cup pendingLogs : l <= lastLog
  /\ fields \in [LogIds -> SUBSET FieldSet]
  /\ \A l \in LogIds : \A s \in fields[l] : s.patterns \in 1..patterns
  /\ job \in [Jobs -> JobState] /\ running \in [Jobs -> BOOLEAN]
  /\ promised \in [LogIds -> Nat] /\ covers \in [Jobs -> SUBSET LogIds]
  /\ met \in BOOLEAN /\ evictedIn \subseteq LogIds /\ \A l \in evictedIn : Known(l)

\* A batch is of logs that are stored or were evicted while it was at work.
JobOK(j) ==
  /\ AtWork(j) => running[j]
  /\ ~Rebuilding(j) => InBatch(j) = {} /\ covers[j] = {} /\ job[j].last = 0
  /\ job[j].at = "read" => InBatch(j) = {}
  /\ job[j].at = "insert" => job[j].rows # {}
  /\ Rebuilding(j) => job[j].patterns \in 1..patterns
  /\ job[j].rows \cap job[j].replaced = {}
  /\ \A r \in job[j].rows : job[j].last < r
  /\ InBatch(j) \subseteq logs \cup evictedIn
  /\ \A l \in covers[j] : Known(l)

JobsApart ==
  \A j, k \in Jobs : j # k =>
    /\ ~met => ~Rebuilding(j) \/ ~Rebuilding(k)
    /\ fieldDb = "sqlite" => ~Writes(j) \/ ~Writes(k)

Exclusive == fieldDb = "sqlite" \/ ~met
SetsOK ==
  /\ \A l \in LogIds \ (logs \cup evictedIn) : fields[l] = {}
  /\ Exclusive => /\ \A l \in logs : \E s \in FieldSet : fields[l] = {s}
                  /\ \A j \in Jobs : \A l \in Replacing(j) \cap logs :
                       job[j].seen[l] = fields[l]

\* The logs that a job covers and has passed are rebuilt; those up to the end
\* of its batch are in it.
RebuildOK(j) ==
  /\ \A l \in LogIds : promised[l] <= job[j].patterns
  /\ \A l \in covers[j] : l <= job[j].max
  /\ \A l \in covers[j] \cap logs :
       /\ l <= job[j].last =>
            l \in job[j].replaced \/ \A s \in fields[l] : s.patterns >= job[j].patterns
       /\ job[j].last < l => \A r \in job[j].rows : l <= r => l \in job[j].rows
Rebuilt ==
  /\ \A l \in LogIds : promised[l] <= patterns /\ (promised[l] # 0 => Known(l))
  /\ ~met => /\ \A l \in logs : \A s \in fields[l] : s.patterns >= promised[l]
             /\ \A j \in Jobs : Rebuilding(j) => RebuildOK(j)

FieldInv == FieldTypes /\ (\A j \in Jobs : JobOK(j)) /\ JobsApart /\ SetsOK /\ Rebuilt

\* A set of logs that is not empty has a first and a last one.
LEMMA FirstLog ==
  ASSUME NEW S, S \subseteq LogIds, S # {}
  PROVE  Min(S) \in S /\ \A y \in S : Min(S) <= y
<1>1. S \subseteq Nat
  BY FieldAssumption DEF LogIds
<1>2. \E x \in S : \A y \in S : x <= y
  BY <1>1, LeastNat
<1> QED
  BY <1>2 DEF Min
LEMMA LastLog ==
  ASSUME NEW S, S \subseteq LogIds, S # {}
  PROVE  Max(S) \in S /\ \A y \in S : y <= Max(S)
<1> DEFINE T == {n \in Nat : \A y \in S : y <= n}
<1>1. S \subseteq Nat
  BY FieldAssumption DEF LogIds
<1>2. MaxLogs \in T
  BY FieldAssumption DEF LogIds
<1>3. PICK n \in T : \A m \in T : n <= m
  <2>1. T \subseteq Nat /\ T # {}
    BY <1>2
  <2> HIDE DEF T
  <2> QED
    BY <2>1, LeastNat
<1>4. n \in S
  <2>1. SUFFICES ASSUME n \notin S PROVE FALSE
    OBVIOUS
  <2>2. \A y \in S : y < n /\ 1 <= y
    BY <1>1, <1>3, <2>1 DEF LogIds
  <2>0. PICK z \in S : TRUE
    OBVIOUS
  <2>3. n \in Nat /\ n # 0
    <3>1. z \in Nat /\ z < n /\ n \in Nat
      BY <1>1, <1>3, <2>0, <2>2
    <3> QED
      BY <3>1
  <2>4. n - 1 \in Nat /\ \A y \in S : y <= n - 1
    BY <1>1, <2>2, <2>3
  <2> QED
    BY <1>3, <2>3, <2>4
<1>5. \A y \in S : y <= n
  BY <1>3
<1>6. \E x \in S : \A y \in S : x >= y
  BY <1>1, <1>4, <1>5
<1>7. Max(S) \in S /\ \A y \in S : Max(S) >= y
  BY <1>6 DEF Max
<1> QED
  BY <1>1, <1>7

LEMMA JobTyped ==
  ASSUME FieldTypes, NEW j \in Jobs
  PROVE  /\ job[j] \in JobState /\ running[j] \in BOOLEAN /\ covers[j] \subseteq LogIds
         /\ job[j].at \in {"idle", "start", "read", "delete", "insert"}
         /\ job[j].run \in Nat /\ job[j].patterns \in Nat /\ job[j].max \in Nat
         /\ job[j].last \in Nat /\ job[j].rows \subseteq LogIds
         /\ job[j].replaced \subseteq LogIds /\ job[j].seen \in [LogIds -> SUBSET FieldSet]
<1>1. job[j] \in JobState /\ running[j] \in BOOLEAN /\ covers[j] \subseteq LogIds
  BY DEF FieldTypes
<1> QED
  BY <1>1 DEF JobState
LEMMA FieldsTyped ==
  ASSUME FieldTypes
  PROVE  /\ patterns \in Nat /\ 1 <= patterns /\ patterns <= MaxPatterns
         /\ lastLog \in Nat /\ lastLog <= MaxLogs /\ LogIds \subseteq Nat
         /\ \A l \in LogIds : /\ 1 <= l /\ fields[l] \subseteq FieldSet /\ promised[l] \in Nat
                              /\ \A s \in fields[l] : s.patterns \in Nat
<1>1. \A l \in LogIds : fields[l] \subseteq FieldSet /\ promised[l] \in Nat
  BY DEF FieldTypes
<1>2. \A s \in FieldSet : s.patterns \in Nat
  BY DEF FieldSet
<1>3. /\ patterns \in Nat /\ 1 <= patterns /\ patterns <= MaxPatterns
      /\ lastLog \in Nat /\ lastLog <= MaxLogs /\ LogIds \subseteq Nat /\ \A l \in LogIds : 1 <= l
  BY FieldAssumption DEF FieldTypes, LogIds
<1> QED
  BY <1>1, <1>2, <1>3

\* What a job replaces is of its batch, and only a job at work has one.
LEMMA OfBatch ==
  ASSUME FieldTypes, NEW j \in Jobs, JobOK(j)
  PROVE  /\ Replacing(j) \subseteq InBatch(j) /\ Replacing(j) \subseteq LogIds
         /\ Replacing(j) # {} => Writes(j) /\ Rebuilding(j)
         /\ Writes(j) => Rebuilding(j)
<1>1. job[j].rows \subseteq LogIds /\ job[j].replaced \subseteq LogIds
  BY JobTyped
<1>2. job[j].at = "insert" => Min(job[j].rows) \in job[j].rows
  BY <1>1, FirstLog DEF JobOK
<1>3. Replacing(j) \subseteq InBatch(j) /\ InBatch(j) \subseteq LogIds
  BY <1>1, <1>2 DEF Replacing, InBatch
<1>4. job[j].replaced # {} => Rebuilding(j)
  BY DEF JobOK, InBatch
<1>5. job[j].at = "insert" => Rebuilding(j)
  BY DEF Rebuilding
<1>6. Writes(j) => Rebuilding(j)
  BY <1>4, <1>5 DEF Writes
<1>7. Replacing(j) # {} => Writes(j)
  BY DEF Replacing, Writes
<1> QED
  BY <1>3, <1>6, <1>7

LEMMA FieldInitInv == FieldInit => FieldInv
<1> SUFFICES ASSUME FieldInit PROVE FieldInv
  OBVIOUS
<1> USE DEF FieldInit
<1>1. \A j \in Jobs : job[j] = NoJob(0)
  OBVIOUS
<1>2. NoRows \in [LogIds -> SUBSET FieldSet] /\ NoJob(0) \in JobState
  BY DEF NoRows, NoJob, JobState
<1>3. /\ NoJob(0).at = "idle" /\ NoJob(0).last = 0 /\ NoJob(0).rows = {} /\ NoJob(0).replaced = {}
  BY DEF NoJob
<1>4. \A l \in LogIds : fields[l] = {}
  BY DEF NoRows
<1>5. FieldTypes
  <2>1. 1 \in 1..MaxPatterns /\ 0 \in 0..MaxLogs
    BY FieldAssumption
  <2>2. job \in [Jobs -> JobState] /\ running \in [Jobs -> BOOLEAN]
    BY <1>2
  <2>3. promised \in [LogIds -> Nat] /\ covers \in [Jobs -> SUBSET LogIds] /\ met \in BOOLEAN
    OBVIOUS
  <2> QED
    BY <1>2, <1>4, <2>1, <2>2, <2>3 DEF FieldTypes
<1>6. ASSUME NEW j \in Jobs PROVE JobOK(j) /\ ~Rebuilding(j) /\ ~Writes(j) /\ Replacing(j) = {}
  <2>1. job[j].at = "idle" /\ job[j].rows = {} /\ job[j].replaced = {} /\ covers[j] = {}
        /\ job[j].last = 0
    BY <1>1, <1>3
  <2> QED
    BY <2>1 DEF JobOK, Rebuilding, Writes, Replacing, InBatch, AtWork
<1>7. JobsApart
  BY <1>6 DEF JobsApart
<1>8. SetsOK
  BY <1>4, <1>6 DEF SetsOK
<1>9. Rebuilt
  <2>1. \A l \in LogIds : promised[l] = 0 /\ patterns = 1
    OBVIOUS
  <2> QED
    BY <1>6, <2>1 DEF Rebuilt
<1> QED
  BY <1>5, <1>6, <1>7, <1>8, <1>9 DEF FieldInv

\* Steps that leave the jobs, the logs and the fields alone.
LEMMA SavePatternsKeeps ==
  ASSUME FieldInv, SavePatterns
  PROVE  FieldInv'
<1> USE DEF SavePatterns, logVars, fieldHistory
<1>1. FieldTypes /\ patterns \in Nat /\ 1 <= patterns /\ patterns' = patterns + 1
      /\ patterns' <= MaxPatterns
  BY FieldsTyped, FieldAssumption DEF FieldInv
<1>2. \A n \in 1..patterns : n \in 1..patterns'
  BY <1>1
<1>3. FieldTypes'
  <2>1. \A l \in LogIds : \A s \in fields[l] : s.patterns \in 1..patterns'
    BY <1>1, <1>2 DEF FieldTypes
  <2>2. patterns' \in 1..MaxPatterns
    BY <1>1, FieldAssumption
  <2> QED
    BY <2>1, <2>2, <1>1 DEF FieldTypes, Known
<1>4. \A j \in Jobs : JobOK(j)'
  BY <1>2 DEF FieldInv, JobOK, Rebuilding, InBatch, AtWork, Known
<1>5. JobsApart'
  BY DEF FieldInv, JobsApart, Rebuilding, Writes
<1>6. SetsOK'
  BY DEF FieldInv, SetsOK, Exclusive, Replacing
<1>7. Rebuilt'
  <2>1. \A l \in LogIds : promised[l] \in Nat /\ promised[l] <= patterns
    BY <1>1, FieldsTyped DEF FieldInv, Rebuilt
  <2>2. \A l \in LogIds : promised[l] <= patterns'
    BY <1>1, <2>1
  <2> QED
    BY <2>2 DEF FieldInv, Rebuilt, RebuildOK, Rebuilding, Known
<1> QED
  BY <1>3, <1>4, <1>5, <1>6, <1>7 DEF FieldInv

LEMMA InsertLogKeeps ==
  ASSUME FieldInv, InsertLog
  PROVE  FieldInv'
<1> USE DEF InsertLog, logVars, fieldHistory
<1>1. FieldTypes /\ lastLog \in Nat /\ lastLog' = lastLog + 1 /\ lastLog' \in LogIds
      /\ LogIds \subseteq Nat
  BY FieldsTyped, FieldAssumption DEF FieldInv, LogIds
<1>2. \A l \in LogIds : l <= lastLog => l <= lastLog' /\ l # lastLog'
  BY <1>1
<1>3. \A l \in LogIds : Known(l) => Known(l)'
  BY <1>2 DEF Known
<1>4. FieldTypes'
  <2>1. pendingLogs' \subseteq LogIds /\ lastLog' \in 0..MaxLogs
    BY <1>1, FieldAssumption DEF FieldTypes
  <2>2. lastLog' \notin logs
    BY <1>1, <1>2 DEF FieldTypes
  <2>3. \A l \in logs \cup pendingLogs' : l <= lastLog'
    BY <1>1, <1>2 DEF FieldTypes
  <2>4. \A l \in evictedIn : Known(l)'
    BY <1>1, <1>3 DEF FieldTypes
  <2> QED
    BY <1>1, <2>1, <2>2, <2>3, <2>4 DEF FieldTypes
<1>5. ASSUME NEW j \in Jobs PROVE JobOK(j)'
  <2>1. JobOK(j) /\ covers[j] \subseteq LogIds
    BY <1>1, JobTyped DEF FieldInv
  <2>2. \A l \in covers[j] : Known(l)'
    BY <1>3, <2>1 DEF JobOK
  <2> QED
    BY <2>1, <2>2 DEF JobOK, Rebuilding, InBatch, AtWork
<1>6. JobsApart'
  BY DEF FieldInv, JobsApart, Rebuilding, Writes
<1>7. SetsOK'
  BY DEF FieldInv, SetsOK, Exclusive, Replacing
<1>8. Rebuilt'
  <2>1. \A l \in LogIds : promised[l] <= patterns /\ (promised[l] # 0 => Known(l)')
    BY <1>3 DEF FieldInv, Rebuilt
  <2> QED
    BY <2>1 DEF FieldInv, Rebuilt, RebuildOK, Rebuilding
<1> QED
  BY <1>4, <1>5, <1>6, <1>7, <1>8 DEF FieldInv

LEMMA CommitLogKeeps ==
  ASSUME FieldInv, NEW l \in LogIds, CommitLog(l)
  PROVE  FieldInv'
<1> USE DEF CommitLog, fieldHistory
<1>1. FieldTypes /\ l \in pendingLogs /\ l \notin logs /\ l <= lastLog /\ ~Known(l)
  BY DEF FieldInv, FieldTypes, Known
<1>2. PICK g \in 1..patterns : fields' = [fields EXCEPT ![l] = {[by |-> "ingest", run |-> 0, patterns |-> g]}]
  BY DEF Loaded
<1> DEFINE new == [by |-> "ingest", run |-> 0, patterns |-> g]
<1>3. g \in Nat /\ new \in FieldSet /\ new.patterns = g
  BY FieldsTyped, <1>1 DEF FieldSet
<1> HIDE DEF new
<1>4. \A k \in LogIds : fields'[k] = IF k = l THEN {new} ELSE fields[k]
  BY <1>1, <1>2 DEF FieldTypes, new
<1>5. \A k \in LogIds : Known(k) => Known(k)'
  BY DEF Known
<1>6. Known(l)'
  BY <1>1 DEF Known
<1>7. l \notin evictedIn /\ promised[l] = 0 /\ \A j \in Jobs : l \notin covers[j] /\ l \notin Replacing(j)
  <2>1. l \notin evictedIn
    BY <1>1 DEF FieldTypes
  <2>2. promised[l] = 0
    BY <1>1 DEF FieldInv, Rebuilt
  <2>3. ASSUME NEW j \in Jobs PROVE l \notin covers[j] /\ l \notin Replacing(j)
    <3>1. JobOK(j)
      BY DEF FieldInv
    <3> QED
      BY <1>1, <2>1, <3>1, OfBatch DEF JobOK
  <2> QED
    BY <2>1, <2>2, <2>3
<1>8. FieldTypes'
  <2>1. fields' \in [LogIds -> SUBSET FieldSet]
    BY <1>1, <1>2, <1>3 DEF FieldTypes, new
  <2>2. \A k \in LogIds : \A s \in fields'[k] : s.patterns \in 1..patterns
    BY <1>1, <1>3, <1>4 DEF FieldTypes
  <2>3. logs' \subseteq LogIds /\ pendingLogs' \subseteq LogIds /\ logs' \cap pendingLogs' = {}
        /\ \A k \in logs' \cup pendingLogs' : k <= lastLog
    BY <1>1 DEF FieldTypes
  <2>4. \A k \in evictedIn : Known(k)'
    BY <1>1, <1>5 DEF FieldTypes
  <2> QED
    BY <1>1, <2>1, <2>2, <2>3, <2>4 DEF FieldTypes
<1>9. ASSUME NEW j \in Jobs PROVE JobOK(j)'
  <2>1. JobOK(j) /\ covers[j] \subseteq LogIds
    BY <1>1, JobTyped DEF FieldInv
  <2>2. \A k \in covers[j] : Known(k)'
    BY <1>5, <2>1 DEF JobOK
  <2>3. InBatch(j) \subseteq logs' \cup evictedIn
    BY <2>1 DEF JobOK
  <2> QED
    BY <2>1, <2>2, <2>3 DEF JobOK, Rebuilding, InBatch, AtWork
<1>10. JobsApart'
  BY DEF FieldInv, JobsApart, Rebuilding, Writes
<1>11. SetsOK'
  <2>1. \A k \in LogIds \ (logs' \cup evictedIn) : fields'[k] = {}
    BY <1>4 DEF FieldInv, SetsOK
  <2>2. ASSUME Exclusive, NEW k \in logs' PROVE \E s \in FieldSet : fields'[k] = {s}
    BY ZenonT(60), <1>1, <1>3, <1>4, <2>2 DEF FieldInv, SetsOK, FieldTypes
  <2>3. ASSUME Exclusive, NEW j \in Jobs, NEW k \in Replacing(j) \cap logs'
        PROVE  job[j].seen[k] = fields'[k]
    <3>1. k # l /\ k \in logs /\ k \in LogIds
      BY <1>1, <1>7 DEF FieldTypes
    <3> QED
      BY <1>4, <2>3, <3>1 DEF FieldInv, SetsOK
  <2> QED
    BY <2>1, <2>2, <2>3 DEF SetsOK, Exclusive, Replacing
<1>12. Rebuilt'
  <2>1. \A k \in LogIds : promised[k] <= patterns /\ (promised[k] # 0 => Known(k)')
    BY <1>5 DEF FieldInv, Rebuilt
  <2>2. ASSUME ~met, NEW k \in logs', NEW s \in fields'[k] PROVE s.patterns >= promised[k]
    <3>1. CASE k = l
      <4>1. s.patterns \in Nat /\ promised[k] = 0
        BY <1>3, <1>4, <1>7, <2>2, <3>1
      <4> QED
        BY <4>1
    <3>2. CASE k # l
      BY <1>1, <1>4, <2>2, <3>2 DEF FieldInv, Rebuilt, FieldTypes
    <3> QED
      BY <3>1, <3>2
  <2>3. ASSUME ~met, NEW j \in Jobs, Rebuilding(j) PROVE RebuildOK(j)'
    <3>1. RebuildOK(j)
      BY <2>3 DEF FieldInv, Rebuilt
    <3>2. \A k \in covers[j] \cap logs' : k \in logs /\ fields'[k] = fields[k]
      BY <1>1, <1>4, <1>7, JobTyped
    <3> QED
      BY <3>1, <3>2 DEF RebuildOK
  <2> QED
    BY <2>1, <2>2, <2>3 DEF Rebuilt, Rebuilding
<1> QED
  BY <1>8, <1>9, <1>10, <1>11, <1>12 DEF FieldInv

LEMMA EvictLogKeeps ==
  ASSUME FieldInv, NEW l \in LogIds, EvictLog(l)
  PROVE  FieldInv'
<1> USE DEF EvictLog
<1>1. FieldTypes /\ l \in logs /\ Known(l)
  BY DEF FieldInv, FieldTypes, Known
<1>2. \A k \in LogIds : fields'[k] = IF k = l THEN {} ELSE fields[k]
  BY <1>1 DEF FieldTypes
<1>3. \A k : Known(k)' = Known(k)
  BY DEF Known
<1>4. evictedIn \subseteq evictedIn' /\ evictedIn' \subseteq evictedIn \cup {l}
  OBVIOUS
<1>5. FieldTypes'
  <2>1. fields' \in [LogIds -> SUBSET FieldSet]
    BY <1>1 DEF FieldTypes
  <2>2. \A k \in LogIds : \A s \in fields'[k] : s.patterns \in 1..patterns
    BY <1>1, <1>2 DEF FieldTypes
  <2>3. evictedIn' \subseteq LogIds /\ \A k \in evictedIn' : Known(k)'
    BY <1>1, <1>3, <1>4 DEF FieldTypes
  <2> QED
    BY <1>1, <2>1, <2>2, <2>3 DEF FieldTypes
<1>6. ASSUME NEW j \in Jobs PROVE JobOK(j)'
  <2>1. JobOK(j)
    BY DEF FieldInv
  <2>2. l \in InBatch(j) => l \in evictedIn'
    BY DEF InBatch
  <2>3. InBatch(j) \subseteq logs' \cup evictedIn'
    BY <1>4, <2>1, <2>2 DEF JobOK
  <2> QED
    BY <1>3, <2>1, <2>3 DEF JobOK, Rebuilding, InBatch, AtWork
<1>7. JobsApart'
  BY DEF FieldInv, JobsApart, Rebuilding, Writes
<1>8. SetsOK'
  <2>1. \A k \in LogIds \ (logs' \cup evictedIn') : fields'[k] = {}
    BY <1>2, <1>4 DEF FieldInv, SetsOK
  <2>2. \A k \in logs' : k \in logs /\ fields'[k] = fields[k]
    BY <1>1, <1>2 DEF FieldTypes
  <2> QED
    BY <2>1, <2>2 DEF FieldInv, SetsOK, Exclusive, Replacing
<1>9. Rebuilt'
  <2>2. \A k \in logs' : k \in logs /\ fields'[k] = fields[k]
    BY <1>1, <1>2 DEF FieldTypes
  <2> QED
    BY <1>3, <2>2 DEF FieldInv, Rebuilt, RebuildOK, Rebuilding
<1> QED
  BY <1>5, <1>6, <1>7, <1>8, <1>9 DEF FieldInv

\* A step of job j: the state of the others is as it was.
LEMMA OneJob ==
  ASSUME FieldTypes, NEW j \in Jobs, NEW rec, SetJob(j, rec)
  PROVE  /\ job'[j] = rec /\ \A k \in Jobs \ {j} : job'[k] = job[k]
         /\ rec \in JobState => job' \in [Jobs -> JobState]
BY DEF SetJob, FieldTypes

\* A job that has no batch: it starts, ends or fails.
LEMMA QuietJob ==
  ASSUME FieldInv, NEW j \in Jobs, NEW rec, SetJob(j, rec), rec \in JobState,
         rec.at \in {"idle", "start"}, rec.rows = {}, rec.replaced = {}, rec.last = 0,
         covers' = [covers EXCEPT ![j] = {}], rec.at = "start" => running'[j],
         running' \in [Jobs -> BOOLEAN], \A k \in Jobs \ {j} : running'[k] = running[k],
         promised' \in [LogIds -> Nat],
         UNCHANGED <<fieldDb, patterns, logVars, fields, met, evictedIn>>
  PROVE  /\ FieldTypes' /\ (\A k \in Jobs : JobOK(k)') /\ JobsApart' /\ SetsOK'
         /\ UNCHANGED promised => Rebuilt'
<1> USE DEF logVars
<1>1. FieldTypes /\ job'[j] = rec /\ (\A k \in Jobs \ {j} : job'[k] = job[k])
      /\ job' \in [Jobs -> JobState]
  BY OneJob DEF FieldInv
<1>2. covers'[j] = {} /\ (\A k \in Jobs \ {j} : covers'[k] = covers[k])
      /\ covers' \in [Jobs -> SUBSET LogIds]
  BY <1>1 DEF FieldTypes
<1>3. \A k : Known(k)' = Known(k)
  BY DEF Known
<1>4. ~Rebuilding(j)' /\ ~Writes(j)' /\ Replacing(j)' = {} /\ InBatch(j)' = {}
  BY <1>1 DEF Rebuilding, Writes, Replacing, InBatch
<1>5. FieldTypes'
  BY <1>1, <1>2, <1>3 DEF FieldTypes
<1>6. ASSUME NEW k \in Jobs PROVE JobOK(k)'
  <2>1. CASE k = j
    BY <1>1, <1>2, <1>4, <2>1 DEF JobOK, AtWork, Rebuilding
  <2>2. CASE k # j
    <3>1. JobOK(k) /\ job'[k] = job[k] /\ covers'[k] = covers[k] /\ running'[k] = running[k]
      BY <1>1, <1>2, <2>2 DEF FieldInv
    <3> QED
      BY <1>3, <3>1 DEF JobOK, Rebuilding, InBatch, AtWork
  <2> QED
    BY <2>1, <2>2
<1>7. JobsApart'
  BY <1>1, <1>4 DEF FieldInv, JobsApart, Rebuilding, Writes
<1>8. SetsOK'
  BY <1>1, <1>4 DEF FieldInv, SetsOK, Exclusive, Replacing
<1>9. ASSUME UNCHANGED promised PROVE Rebuilt'
  <2>1. ASSUME ~met, NEW k \in Jobs, Rebuilding(k)' PROVE RebuildOK(k)'
    <3>1. k # j /\ job'[k] = job[k] /\ covers'[k] = covers[k]
      BY <1>1, <1>2, <1>4, <2>1
    <3>2. RebuildOK(k)
      BY <2>1, <3>1 DEF FieldInv, Rebuilt, Rebuilding
    <3> QED
      BY <1>9, <3>1, <3>2 DEF RebuildOK
  <2> QED
    BY <1>3, <1>9, <2>1 DEF FieldInv, Rebuilt
<1> QED
  BY <1>5, <1>6, <1>7, <1>8, <1>9

LEMMA IdleJob ==
  ASSUME NEW n \in Nat
  PROVE  /\ NoJob(n) \in JobState /\ NoJob(n).at = "idle"
         /\ NoJob(n).rows = {} /\ NoJob(n).replaced = {} /\ NoJob(n).last = 0
         /\ LET started == [NoJob(n) EXCEPT !.at = "start"] IN
              /\ started \in JobState /\ started.at = "start"
              /\ started.rows = {} /\ started.replaced = {} /\ started.last = 0
<1>1. NoRows \in [LogIds -> SUBSET FieldSet]
  BY DEF NoRows
<1> QED
  BY <1>1 DEF NoJob, JobState

LEMMA StartJobKeeps ==
  ASSUME FieldInv, NEW j \in Jobs, StartJob(j)
  PROVE  FieldInv'
<1> DEFINE rec == [NoJob(job[j].run + 1) EXCEPT !.at = "start"]
<1>1. FieldTypes /\ job[j].run + 1 \in Nat /\ covers \in [Jobs -> SUBSET LogIds]
  BY JobTyped DEF FieldInv, FieldTypes
<1>2. rec \in JobState /\ rec.at = "start" /\ rec.rows = {} /\ rec.replaced = {} /\ rec.last = 0
  BY <1>1, IdleJob
<1>3. running' = [running EXCEPT ![j] = TRUE] /\ SetJob(j, rec) /\ ~running[j]
      /\ UNCHANGED <<fieldDb, patterns, logVars, fields, met, evictedIn, covers, promised>>
  BY DEF StartJob, fieldHistory
<1> HIDE DEF rec
<1>4. covers[j] = {}
  BY <1>3 DEF FieldInv, JobOK, AtWork, Rebuilding
<1>5. covers' = [covers EXCEPT ![j] = {}]
  BY <1>1, <1>3, <1>4
<1>6. running'[j] /\ running' \in [Jobs -> BOOLEAN] /\ (\A k \in Jobs \ {j} : running'[k] = running[k])
      /\ promised' \in [LogIds -> Nat]
  BY <1>1, <1>3 DEF FieldTypes
<1>7. /\ FieldTypes' /\ (\A k \in Jobs : JobOK(k)') /\ JobsApart' /\ SetsOK'
      /\ UNCHANGED promised => Rebuilt'
  BY <1>2, <1>3, <1>5, <1>6, QuietJob
<1> QED
  BY <1>3, <1>7 DEF FieldInv

LEMMA ConnectFailsKeeps ==
  ASSUME FieldInv, NEW j \in Jobs, ConnectFails(j)
  PROVE  FieldInv'
<1> DEFINE rec == NoJob(job[j].run)
<1>1. FieldTypes /\ job[j].run \in Nat /\ covers \in [Jobs -> SUBSET LogIds]
  BY JobTyped DEF FieldInv, FieldTypes
<1>2. rec \in JobState /\ rec.at = "idle" /\ rec.rows = {} /\ rec.replaced = {} /\ rec.last = 0
  BY <1>1, IdleJob
<1>3. job[j].at = "start" /\ SetJob(j, rec)
      /\ UNCHANGED <<fieldDb, patterns, logVars, fields, met, evictedIn, running, covers, promised>>
  BY DEF ConnectFails, fieldHistory
<1> HIDE DEF rec
<1>4. covers[j] = {}
  BY <1>3 DEF FieldInv, JobOK, Rebuilding
<1>5. covers' = [covers EXCEPT ![j] = {}]
  BY <1>1, <1>3, <1>4
<1>6. running' \in [Jobs -> BOOLEAN] /\ (\A k \in Jobs \ {j} : running'[k] = running[k])
      /\ promised' \in [LogIds -> Nat]
  BY <1>1, <1>3 DEF FieldTypes
<1>7. /\ FieldTypes' /\ (\A k \in Jobs : JobOK(k)') /\ JobsApart' /\ SetsOK'
      /\ UNCHANGED promised => Rebuilt'
  BY <1>2, <1>3, <1>5, <1>6, QuietJob
<1> QED
  BY <1>3, <1>7 DEF FieldInv

LEMMA AbortJobKeeps ==
  ASSUME FieldInv, NEW j \in Jobs, AbortJob(j)
  PROVE  FieldInv'
<1> DEFINE rec == NoJob(job[j].run)
<1>1. FieldTypes /\ job[j].run \in Nat
  BY JobTyped DEF FieldInv
<1>2. rec \in JobState /\ rec.at = "idle" /\ rec.rows = {} /\ rec.replaced = {} /\ rec.last = 0
  BY <1>1, IdleJob
<1>3. SetJob(j, rec) /\ running' = [running EXCEPT ![j] = FALSE]
      /\ covers' = [covers EXCEPT ![j] = {}]
      /\ UNCHANGED <<fieldDb, patterns, logVars, fields, met, evictedIn, promised>>
  BY DEF AbortJob
<1> HIDE DEF rec
<1>4. running' \in [Jobs -> BOOLEAN] /\ (\A k \in Jobs \ {j} : running'[k] = running[k])
      /\ promised' \in [LogIds -> Nat]
  BY <1>1, <1>3 DEF FieldTypes
<1>5. /\ FieldTypes' /\ (\A k \in Jobs : JobOK(k)') /\ JobsApart' /\ SetsOK'
      /\ UNCHANGED promised => Rebuilt'
  BY <1>2, <1>3, <1>4, QuietJob
<1> QED
  BY <1>3, <1>5 DEF FieldInv

\* A job that ends has passed every log it covers.
LEMMA NoneLeft ==
  ASSUME FieldTypes, NEW j \in Jobs, NextBatch(j) = {}, NEW l \in logs
  PROVE  l <= job[j].last
<1>1. logs \subseteq LogIds /\ LogIds \subseteq Nat /\ job[j].last \in Nat
  BY FieldsTyped, JobTyped DEF FieldTypes
<1> DEFINE S == {k \in logs : k > job[j].last}
<1> SUFFICES ASSUME S # {} PROVE FALSE
  BY <1>1
<1> DEFINE m == Min(S)
<1>2. m \in S /\ \A y \in S : m <= y
  BY <1>1, FirstLog
<1> HIDE DEF m
<1> DEFINE T == {k \in logs : job[j].last < k /\ k <= m}
<1>3. m \in logs /\ m \in Nat /\ m > job[j].last
  BY <1>1, <1>2
<1>4. ASSUME NEW k \in T PROVE k = m
  <2>1. k \in Nat /\ k \in S /\ k <= m
    BY <1>1
  <2>2. m <= k
    BY <1>2, <2>1
  <2> QED
    BY <1>3, <2>1, <2>2
<1>5. m \in T
  BY <1>1, <1>3
<1>6. T = {m}
  BY <1>4, <1>5
<1>7. Cardinality(T) = 1
  BY <1>6, FS_Singleton
<1>8. Cardinality(T) <= BatchLogs
  BY <1>7, FieldAssumption
<1>9. m \in NextBatch(j)
  BY <1>3, <1>8 DEF NextBatch
<1> QED
  BY <1>9

LEMMA EndJobKeeps ==
  ASSUME FieldInv, NEW j \in Jobs, EndJob(j)
  PROVE  FieldInv'
<1> DEFINE rec == NoJob(job[j].run)
<1>1. FieldTypes /\ job[j].run \in Nat /\ job[j].patterns \in Nat /\ covers[j] \subseteq LogIds
      /\ job[j].last \in Nat /\ job[j].max \in Nat /\ LogIds \subseteq Nat
  BY JobTyped, FieldsTyped DEF FieldInv
<1>2. rec \in JobState /\ rec.at = "idle" /\ rec.rows = {} /\ rec.replaced = {} /\ rec.last = 0
  BY <1>1, IdleJob
<1>3. job[j].at = "read" /\ (job[j].last >= job[j].max \/ NextBatch(j) = {})
      /\ SetJob(j, rec) /\ running' = [running EXCEPT ![j] = FALSE]
      /\ covers' = [covers EXCEPT ![j] = {}]
      /\ promised' = [l \in LogIds |-> IF l \in covers[j] THEN job[j].patterns ELSE promised[l]]
      /\ UNCHANGED <<fieldDb, patterns, logVars, fields, met, evictedIn>>
  BY DEF EndJob
<1> HIDE DEF rec
<1>4. running' \in [Jobs -> BOOLEAN] /\ (\A k \in Jobs \ {j} : running'[k] = running[k])
      /\ promised' \in [LogIds -> Nat]
  BY <1>1, <1>3 DEF FieldTypes
<1>5. FieldTypes' /\ (\A k \in Jobs : JobOK(k)') /\ JobsApart' /\ SetsOK'
  BY <1>2, <1>3, <1>4, QuietJob
<1>6. Rebuilding(j) /\ JobOK(j) /\ InBatch(j) = {} /\ job[j].patterns \in 1..patterns
  BY <1>3 DEF FieldInv, JobOK, Rebuilding
<1>7. \A l : Known(l)' = Known(l)
  BY <1>3 DEF Known, logVars
<1>8. \A l \in LogIds : promised'[l] <= patterns /\ (promised'[l] # 0 => Known(l))
  <2>1. ASSUME NEW l \in LogIds PROVE promised'[l] <= patterns /\ (promised'[l] # 0 => Known(l))
    <3>1. CASE l \in covers[j]
      <4>1. promised'[l] = job[j].patterns /\ Known(l)
        BY <1>3, <1>6, <3>1 DEF JobOK
      <4> QED
        BY <1>6, <4>1, FieldsTyped, <1>1
    <3>2. CASE l \notin covers[j]
      BY <1>3, <3>2 DEF FieldInv, Rebuilt
    <3> QED
      BY <3>1, <3>2
  <2> QED
    BY <2>1
<1>9. ASSUME ~met, NEW l \in logs, NEW s \in fields[l] PROVE s.patterns >= promised'[l]
  <2>0. l \in LogIds /\ RebuildOK(j)
    BY <1>1, <1>6, <1>9 DEF FieldInv, Rebuilt, FieldTypes
  <2>1. CASE l \in covers[j]
    <3>1. l <= job[j].last
      <4>1. l <= job[j].max
        BY <2>0, <2>1 DEF RebuildOK
      <4>2. CASE job[j].last >= job[j].max
        BY <1>1, <2>0, <4>1, <4>2
      <4>3. CASE NextBatch(j) = {}
        BY <1>1, <4>3, NoneLeft
      <4> QED
        BY <1>3, <4>2, <4>3
    <3>2. l \notin job[j].replaced
      BY <1>6 DEF InBatch
    <3>3. s.patterns >= job[j].patterns
      BY <2>0, <2>1, <3>1, <3>2 DEF RebuildOK
    <3> QED
      BY <1>3, <2>0, <2>1, <3>3
  <2>2. CASE l \notin covers[j]
    BY <1>3, <1>9, <2>0, <2>2 DEF FieldInv, Rebuilt
  <2> QED
    BY <2>1, <2>2
<1>10. ASSUME ~met, NEW k \in Jobs PROVE ~Rebuilding(k)'
  <2>1. CASE k = j
    BY <1>1, <1>2, <1>3, <2>1, OneJob DEF Rebuilding
  <2>2. CASE k # j
    <3>1. ~Rebuilding(k) /\ job'[k] = job[k]
      BY <1>1, <1>3, <1>6, <1>10, <2>2, OneJob DEF FieldInv, JobsApart
    <3> QED
      BY <3>1 DEF Rebuilding
  <2> QED
    BY <2>1, <2>2
<1>11. Rebuilt'
  <2>1. logs' = logs /\ fields' = fields /\ met' = met /\ patterns' = patterns
    BY <1>3 DEF logVars
  <2>2. met' \/ \A l \in logs' : \A s \in fields'[l] : s.patterns >= promised'[l]
    BY <1>9, <2>1
  <2>3. met' \/ \A k \in Jobs : ~Rebuilding(k)'
    BY <1>10, <2>1
  <2> QED
    BY <1>7, <1>8, <2>1, <2>2, <2>3 DEF Rebuilt
<1> QED
  BY <1>5, <1>11 DEF FieldInv

LEMMA BeginJobKeeps ==
  ASSUME FieldInv, NEW j \in Jobs, BeginJob(j)
  PROVE  FieldInv'
<1> DEFINE top == IF logs = {} THEN 0 ELSE Max(logs)
           rec == [job[j] EXCEPT !.at = "read", !.patterns = patterns, !.max = top]
<1>1. FieldTypes /\ job[j] \in JobState /\ patterns \in Nat /\ patterns \in 1..patterns
      /\ logs \subseteq LogIds /\ LogIds \subseteq Nat /\ JobOK(j)
  BY JobTyped, FieldsTyped DEF FieldInv, FieldTypes
<1>2. top \in Nat /\ \A l \in logs : l <= top
  BY <1>1, LastLog
<1>3. job[j].at = "start" /\ SetJob(j, rec) /\ covers' = [covers EXCEPT ![j] = logs]
      /\ met' = (met \/ \E k \in Jobs \ {j} : job[k].at \notin {"idle", "start"})
      /\ UNCHANGED <<fieldDb, patterns, logVars, fields, running, promised, evictedIn>>
  BY DEF BeginJob
<1> HIDE DEF top
<1>4. /\ rec \in JobState /\ rec.at = "read" /\ rec.patterns = patterns /\ rec.max = top
      /\ rec.rows = job[j].rows /\ rec.replaced = job[j].replaced
      /\ rec.last = job[j].last
  BY <1>1, <1>2 DEF JobState
<1> HIDE DEF rec
<1>5. job'[j] = rec /\ (\A k \in Jobs \ {j} : job'[k] = job[k]) /\ job' \in [Jobs -> JobState]
  BY <1>1, <1>3, <1>4, OneJob
<1>6. covers'[j] = logs /\ (\A k \in Jobs \ {j} : covers'[k] = covers[k])
      /\ covers' \in [Jobs -> SUBSET LogIds]
  BY <1>1, <1>3 DEF FieldTypes
<1>7. rec.rows = {} /\ rec.replaced = {} /\ rec.last = 0 /\ running[j]
  <2>1. ~Rebuilding(j) /\ AtWork(j)
    BY <1>3 DEF Rebuilding, AtWork
  <2> QED
    BY <1>1, <1>4, <2>1 DEF JobOK, InBatch
<1>8. (\A k : Known(k)' = Known(k)) /\ \A l \in logs : Known(l)
  BY <1>1, <1>3 DEF Known, logVars, FieldTypes
<1>9. ~Writes(j)' /\ Replacing(j)' = {} /\ InBatch(j)' = {}
  BY <1>4, <1>5, <1>7 DEF Writes, Replacing, InBatch
<1>10. met' \in BOOLEAN /\ (~met' => ~met /\ \A k \in Jobs \ {j} : ~Rebuilding(k))
  BY <1>1, <1>3 DEF FieldTypes, Rebuilding
<1>11. FieldTypes'
  BY <1>1, <1>3, <1>5, <1>6, <1>8, <1>10 DEF FieldTypes, logVars
<1>12. ASSUME NEW k \in Jobs PROVE JobOK(k)'
  <2>1. CASE k = j
    BY <1>1, <1>3, <1>4, <1>5, <1>6, <1>7, <1>8, <1>9, <2>1 DEF JobOK, AtWork, Rebuilding, logVars
  <2>2. CASE k # j
    <3>1. JobOK(k) /\ job'[k] = job[k] /\ covers'[k] = covers[k]
      BY <1>5, <1>6, <2>2 DEF FieldInv
    <3> QED
      BY <1>3, <1>8, <3>1 DEF JobOK, Rebuilding, InBatch, AtWork, logVars
  <2> QED
    BY <2>1, <2>2
<1>13. JobsApart'
  <2>1. \A k \in Jobs \ {j} : Writes(k)' = Writes(k) /\ Rebuilding(k)' = Rebuilding(k)
    BY <1>5 DEF Writes, Rebuilding
  <2> QED
    BY <1>3, <1>9, <1>10, <2>1 DEF FieldInv, JobsApart
<1>14. SetsOK'
  <2>1. \A k \in Jobs \ {j} : Replacing(k)' = Replacing(k) /\ job'[k].seen = job[k].seen
    BY <1>5 DEF Replacing
  <2>2. Exclusive' => Exclusive
    BY <1>3, <1>10 DEF Exclusive
  <2> QED
    BY <1>3, <1>9, <2>1, <2>2 DEF FieldInv, SetsOK, logVars
<1>15. Rebuilt'
  <2>1. \A l \in LogIds : promised[l] <= patterns /\ (promised[l] # 0 => Known(l)')
    BY <1>8 DEF FieldInv, Rebuilt
  <2>2. ASSUME ~met' PROVE RebuildOK(j)'
    <3>1. \A l \in covers'[j] : l <= job'[j].max
      BY <1>2, <1>4, <1>5, <1>6
    <3>2. \A l \in LogIds : promised[l] <= job'[j].patterns
      BY <1>4, <1>5, <2>1
    <3>3. ASSUME NEW l \in logs, l <= job'[j].last PROVE FALSE
      <4>1. l <= 0 /\ l \in LogIds
        BY <1>1, <1>5, <1>7, <3>3
      <4> QED
        BY <4>1, <1>1, FieldsTyped
    <3> QED
      BY <1>3, <1>5, <1>6, <1>7, <3>1, <3>2, <3>3 DEF RebuildOK, logVars
  <2>3. ASSUME ~met', NEW k \in Jobs, Rebuilding(k)' PROVE RebuildOK(k)'
    <3>1. k = j
      BY <1>5, <1>10, <2>3 DEF Rebuilding
    <3> QED
      BY <2>2, <2>3, <3>1
  <2>4. ~met' => \A l \in logs : \A s \in fields[l] : s.patterns >= promised[l]
    BY <1>10 DEF FieldInv, Rebuilt
  <2> QED
    BY <1>3, <2>1, <2>3, <2>4 DEF Rebuilt, logVars
<1> QED
  BY <1>11, <1>12, <1>13, <1>14, <1>15 DEF FieldInv

\* A step of a job within its batch, which leaves the fields alone.
LEMMA BatchStep ==
  ASSUME FieldInv, NEW j \in Jobs, NEW rec, SetJob(j, rec), rec \in JobState, Rebuilding(j),
         rec.at \in {"read", "delete", "insert"},
         UNCHANGED <<fieldDb, patterns, logVars, fields, running, fieldHistory>>,
         JobOK(j)',
         fieldDb = "sqlite" /\ Writes(j)' => \A k \in Jobs \ {j} : ~Writes(k),
         Exclusive => \A l \in Replacing(j)' \cap logs : rec.seen[l] = fields[l],
         ~met => RebuildOK(j)'
  PROVE  FieldInv'
<1> USE DEF logVars, fieldHistory
<1>1. FieldTypes /\ job'[j] = rec /\ (\A k \in Jobs \ {j} : job'[k] = job[k])
      /\ job' \in [Jobs -> JobState]
  BY OneJob DEF FieldInv
<1>2. \A k : Known(k)' = Known(k)
  BY DEF Known
<1>3. FieldTypes'
  BY <1>1, <1>2 DEF FieldTypes
<1>4. ASSUME NEW k \in Jobs PROVE JobOK(k)'
  <2>1. CASE k # j
    <3>1. JobOK(k) /\ job'[k] = job[k]
      BY <1>1, <2>1 DEF FieldInv
    <3> QED
      BY <1>2, <3>1 DEF JobOK, Rebuilding, InBatch, AtWork
  <2> QED
    BY <2>1
<1>5. JobsApart'
  <2>1. \A k \in Jobs \ {j} : Writes(k)' = Writes(k) /\ Rebuilding(k)' = Rebuilding(k)
    BY <1>1 DEF Writes, Rebuilding
  <2> QED
    BY <2>1 DEF FieldInv, JobsApart
<1>6. SetsOK'
  <2>1. \A k \in Jobs \ {j} : Replacing(k)' = Replacing(k) /\ job'[k].seen = job[k].seen
    BY <1>1 DEF Replacing
  <2> QED
    BY <1>1, <2>1 DEF FieldInv, SetsOK, Exclusive
<1>7. Rebuilt'
  <2>1. ASSUME ~met, NEW k \in Jobs, Rebuilding(k)' PROVE RebuildOK(k)'
    <3>1. CASE k # j
      <4>1. job'[k] = job[k]
        BY <1>1, <3>1
      <4>2. RebuildOK(k)
        BY <2>1, <4>1 DEF FieldInv, Rebuilt, Rebuilding
      <4> QED
        BY <4>1, <4>2 DEF RebuildOK
    <3> QED
      BY <2>1, <3>1
  <2> QED
    BY <1>2, <2>1 DEF FieldInv, Rebuilt
<1> QED
  BY <1>3, <1>4, <1>5, <1>6, <1>7 DEF FieldInv

\* A batch is the next logs: any log before one of them is in it.
LEMMA BatchIsNext ==
  ASSUME FieldTypes, NEW j \in Jobs
  PROVE  /\ NextBatch(j) \subseteq logs /\ \A r \in NextBatch(j) : job[j].last < r
         /\ \A l \in logs, r \in NextBatch(j) : job[j].last < l /\ l <= r => l \in NextBatch(j)
<1>1. logs \subseteq LogIds /\ LogIds \subseteq Nat /\ job[j].last \in Nat
  BY FieldsTyped, JobTyped DEF FieldTypes
<1>2. IsFiniteSet(LogIds)
  BY FS_Interval, FieldAssumption DEF LogIds
<1>3. ASSUME NEW l \in logs, NEW r \in NextBatch(j), job[j].last < l, l <= r
      PROVE  l \in NextBatch(j)
  <2> DEFINE S == {k \in logs : job[j].last < k /\ k <= l}
             T == {k \in logs : job[j].last < k /\ k <= r}
  <2>1. l \in Nat /\ r \in Nat /\ Cardinality(T) <= BatchLogs
    BY <1>1, <1>3 DEF NextBatch
  <2>2. S \subseteq T /\ T \subseteq LogIds
    <3>1. ASSUME NEW k \in logs, k <= l PROVE k <= r
      <4>1. k \in Nat
        BY <1>1
      <4> QED
        BY <1>3, <2>1, <3>1, <4>1
    <3> QED
      BY <1>1, <3>1
  <2>3. IsFiniteSet(T)
    BY <1>2, <2>2, FS_Subset
  <2>4. Cardinality(S) <= Cardinality(T) /\ Cardinality(S) \in Nat /\ Cardinality(T) \in Nat
    BY <2>2, <2>3, FS_Subset, FS_CardinalityType
  <2>5. Cardinality(S) <= BatchLogs
    BY <2>1, <2>4, FieldAssumption
  <2> QED
    BY <1>1, <1>3, <2>1, <2>5 DEF NextBatch
<1>4. NextBatch(j) \subseteq logs /\ \A r \in NextBatch(j) : job[j].last < r
  BY <1>1 DEF NextBatch
<1> QED
  BY <1>3, <1>4

LEMMA ReadLogsKeeps ==
  ASSUME FieldInv, NEW j \in Jobs, ReadLogs(j)
  PROVE  FieldInv'
<1> DEFINE rec == [job[j] EXCEPT !.at = "delete", !.rows = NextBatch(j)]
<1>1. FieldTypes /\ JobOK(j) /\ job[j] \in JobState /\ logs \subseteq LogIds
      /\ job[j].at = "read" /\ Rebuilding(j) /\ SetJob(j, rec)
      /\ UNCHANGED <<fieldDb, patterns, logVars, fields, running, fieldHistory>>
  BY JobTyped DEF FieldInv, FieldTypes, ReadLogs, Rebuilding
<1>2. /\ NextBatch(j) \subseteq logs /\ \A r \in NextBatch(j) : job[j].last < r
      /\ \A l \in logs, r \in NextBatch(j) : job[j].last < l /\ l <= r => l \in NextBatch(j)
  BY <1>1, BatchIsNext
<1>3. /\ rec \in JobState /\ rec.at = "delete" /\ rec.rows = NextBatch(j)
      /\ rec.replaced = job[j].replaced /\ rec.last = job[j].last /\ rec.max = job[j].max
      /\ rec.patterns = job[j].patterns
  BY <1>1, <1>2 DEF JobState
<1> HIDE DEF rec
<1>4. job'[j] = rec /\ rec.replaced = {}
  BY <1>1, <1>3, OneJob DEF JobOK, InBatch
<1>5. JobOK(j)'
  <2>1. InBatch(j)' \subseteq logs
    BY <1>2, <1>3, <1>4 DEF InBatch
  <2> QED
    BY <1>1, <1>2, <1>3, <1>4, <2>1
       DEF JobOK, AtWork, Rebuilding, Known, logVars, fieldHistory
<1>6. ~Writes(j)' /\ Replacing(j)' = {}
  BY <1>3, <1>4 DEF Writes, Replacing
<1>7. ASSUME ~met PROVE RebuildOK(j)'
  <2>1. RebuildOK(j) /\ job[j].replaced = {}
    BY <1>1, <1>7 DEF FieldInv, Rebuilt, JobOK, InBatch
  <2> QED
    BY <1>1, <1>2, <1>3, <1>4, <2>1 DEF RebuildOK, logVars, fieldHistory
<1> QED
  BY <1>1, <1>3, <1>5, <1>6, <1>7, BatchStep

LEMMA DeleteFieldsKeeps ==
  ASSUME FieldInv, NEW j \in Jobs, DeleteFields(j)
  PROVE  FieldInv'
<1> DEFINE l == Min(job[j].rows)
           rec == [job[j] EXCEPT !.at = "insert", !.seen[l] = fields[l]]
<1>1. FieldTypes /\ JobOK(j) /\ job[j] \in JobState /\ job[j].rows \subseteq LogIds
      /\ job[j].seen \in [LogIds -> SUBSET FieldSet]
      /\ job[j].at = "delete" /\ Rebuilding(j) /\ job[j].rows # {} /\ WriterFree(j)
      /\ SetJob(j, rec)
      /\ UNCHANGED <<fieldDb, patterns, logVars, fields, running, fieldHistory>>
  BY JobTyped DEF FieldInv, DeleteFields, Rebuilding
<1>2. l \in job[j].rows /\ l \in LogIds
  BY <1>1, FirstLog
<1>3. [job[j].seen EXCEPT ![l] = fields[l]] \in [LogIds -> SUBSET FieldSet]
  BY <1>1, <1>2, FieldsTyped
<1>4. /\ rec \in JobState /\ rec.at = "insert" /\ rec.rows = job[j].rows
      /\ rec.replaced = job[j].replaced /\ rec.last = job[j].last /\ rec.max = job[j].max
      /\ rec.patterns = job[j].patterns /\ rec.seen = [job[j].seen EXCEPT ![l] = fields[l]]
  BY <1>1, <1>3 DEF JobState
<1> HIDE DEF rec
<1>5. job'[j] = rec
  BY <1>1, OneJob
<1>6. JobOK(j)'
  BY <1>1, <1>4, <1>5 DEF JobOK, InBatch, AtWork, Rebuilding, Known, logVars, fieldHistory
<1>7. fieldDb = "sqlite" => \A k \in Jobs \ {j} : ~Writes(k)
  BY <1>1 DEF WriterFree
<1>8. Replacing(j)' = job[j].replaced \cup {l} /\ Replacing(j) = job[j].replaced
  BY <1>1, <1>4, <1>5 DEF Replacing
<1>9. ASSUME Exclusive, NEW k \in Replacing(j)' \cap logs PROVE rec.seen[k] = fields[k]
  <2>1. k \in LogIds
    BY <1>9, <1>1 DEF FieldTypes
  <2>2. CASE k = l
    BY <1>1, <1>2, <1>4, <2>2
  <2>3. CASE k # l
    <3>1. job[j].seen[k] = fields[k]
      BY <1>8, <1>9, <2>3 DEF FieldInv, SetsOK
    <3> QED
      BY <1>1, <1>4, <2>1, <2>3, <3>1
  <2> QED
    BY <2>2, <2>3
<1>10. ASSUME ~met PROVE RebuildOK(j)'
  <2>1. RebuildOK(j)
    BY <1>1, <1>10 DEF FieldInv, Rebuilt
  <2> QED
    BY <1>1, <1>4, <1>5, <2>1 DEF RebuildOK, logVars, fieldHistory
<1> QED
  BY <1>1, <1>4, <1>6, <1>7, <1>9, <1>10, BatchStep

LEMMA InsertFieldsKeeps ==
  ASSUME FieldInv, NEW j \in Jobs, InsertFields(j)
  PROVE  FieldInv'
<1> DEFINE l == Min(job[j].rows)
           rec == [job[j] EXCEPT !.at = "delete", !.rows = @ \ {l},
                                !.replaced = @ \cup {l}, !.last = l]
<1>1. FieldTypes /\ JobOK(j) /\ job[j] \in JobState /\ job[j].rows \subseteq LogIds
      /\ job[j].replaced \subseteq LogIds /\ LogIds \subseteq Nat /\ job[j].last \in Nat
      /\ job[j].at = "insert" /\ Rebuilding(j) /\ SetJob(j, rec)
      /\ UNCHANGED <<fieldDb, patterns, logVars, fields, running, fieldHistory>>
  BY JobTyped, FieldsTyped DEF FieldInv, InsertFields, Rebuilding
<1>2. l \in job[j].rows /\ l \in LogIds /\ l \in Nat /\ \A r \in job[j].rows : l <= r
  BY <1>1, FirstLog DEF JobOK
<1>3. /\ rec \in JobState /\ rec.at = "delete" /\ rec.rows = job[j].rows \ {l}
      /\ rec.replaced = job[j].replaced \cup {l} /\ rec.last = l /\ rec.max = job[j].max
      /\ rec.patterns = job[j].patterns /\ rec.seen = job[j].seen
  BY <1>1, <1>2 DEF JobState
<1>4. Replacing(j) = job[j].replaced \cup {l}
  BY <1>1 DEF Replacing
<1> HIDE DEF rec, l
<1>5. job'[j] = rec
  BY <1>1, OneJob
<1>6. JobOK(j)'
  <2>1. InBatch(j)' = InBatch(j)
    BY <1>2, <1>3, <1>5 DEF InBatch
  <2>2. ASSUME NEW r \in rec.rows PROVE l < r
    <3>1. r \in job[j].rows /\ r # l
      BY <1>3
    <3>2. r \in Nat /\ l <= r
      BY <1>1, <1>2, <3>1
    <3> QED
      BY <1>2, <3>1, <3>2
  <2> QED
    BY <1>1, <1>3, <1>5, <2>1, <2>2 DEF JobOK, AtWork, Rebuilding, Known, logVars, fieldHistory
<1>7. fieldDb = "sqlite" => \A k \in Jobs \ {j} : ~Writes(k)
  BY <1>1 DEF FieldInv, JobsApart, Writes
<1>8. Replacing(j)' = Replacing(j)
  BY <1>3, <1>4, <1>5 DEF Replacing
<1>9. Exclusive => \A k \in Replacing(j)' \cap logs : rec.seen[k] = fields[k]
  BY <1>3, <1>8 DEF FieldInv, SetsOK
<1>10. ASSUME ~met PROVE RebuildOK(j)'
  <2>1. RebuildOK(j)
    BY <1>1, <1>10 DEF FieldInv, Rebuilt
  <2>2. job[j].last < l
    BY <1>1, <1>2 DEF JobOK
  <2>3. ASSUME NEW c \in covers[j] \cap logs
        PROVE  /\ c <= l => c \in rec.replaced \/ \A s \in fields[c] : s.patterns >= job[j].patterns
               /\ l < c => \A r \in rec.rows : c <= r => c \in rec.rows
    <3>1. c \in Nat
      BY <1>1 DEF FieldTypes
    <3>2. CASE c <= job[j].last
      <4>1. ~(l < c)
        BY <1>1, <1>2, <2>2, <3>1, <3>2
      <4> QED
        BY <1>3, <2>1, <3>2, <4>1 DEF RebuildOK
    <3>3. CASE job[j].last < c
      <4>1. \A r \in job[j].rows : c <= r => c \in job[j].rows
        BY <2>1, <3>3 DEF RebuildOK
      <4>2. c <= l => c = l
        BY <1>2, <3>1, <4>1
      <4>3. l < c => c # l
        BY <1>2, <3>1
      <4> QED
        BY <1>3, <4>1, <4>2, <4>3
    <3> QED
      BY <1>1, <3>1, <3>2, <3>3
  <2>4. (\A k \in LogIds : promised[k] <= job[j].patterns) /\ \A k \in covers[j] : k <= job[j].max
    BY <2>1 DEF RebuildOK
  <2> QED
    BY <1>1, <1>3, <1>5, <2>3, <2>4 DEF RebuildOK, logVars, fieldHistory
<1> QED
  BY <1>1, <1>3, <1>6, <1>7, <1>9, <1>10, BatchStep

\* What a batch puts in the place of the fields that it saw.
LEMMA NewSets ==
  ASSUME FieldInv, NEW j \in Jobs, Rebuilding(j), NEW l \in job[j].replaced
  PROVE  /\ l \in LogIds /\ Replaced(j, l) \subseteq FieldSet
         /\ NewSet(j) \in FieldSet /\ NewSet(j).patterns = job[j].patterns
         /\ \A s \in Replaced(j, l) : s.patterns \in 1..patterns
         /\ Exclusive /\ l \in logs => Replaced(j, l) = {NewSet(j)}
<1>1. FieldTypes /\ JobOK(j) /\ job[j].run \in Nat /\ job[j].patterns \in Nat /\ l \in LogIds
  BY JobTyped DEF FieldInv
<1>2. fields[l] \subseteq FieldSet /\ \A s \in fields[l] : s.patterns \in 1..patterns
  BY <1>1, FieldsTyped DEF FieldTypes
<1>3. NewSet(j) \in FieldSet /\ NewSet(j).patterns = job[j].patterns
  BY <1>1 DEF NewSet, FieldSet
<1>4. job[j].patterns \in 1..patterns
  BY <1>1 DEF JobOK
<1>5. Exclusive /\ l \in logs => job[j].seen[l] = fields[l]
  BY DEF FieldInv, SetsOK, Replacing
<1>6. Exclusive /\ l \in logs => Replaced(j, l) = {NewSet(j)}
  BY <1>5 DEF Replaced
<1>7. \A s \in Replaced(j, l) : s \in fields[l] \/ s = NewSet(j)
  BY DEF Replaced
<1>8. Replaced(j, l) \subseteq FieldSet
  BY <1>2, <1>3, <1>7
<1>9. \A s \in Replaced(j, l) : s.patterns \in 1..patterns
  BY <1>2, <1>3, <1>4, <1>7
<1> QED
  BY <1>1, <1>3, <1>6, <1>8, <1>9

LEMMA CommitBatchKeeps ==
  ASSUME FieldInv, NEW j \in Jobs, CommitBatch(j)
  PROVE  FieldInv'
<1> DEFINE rec == [job[j] EXCEPT !.at = "read", !.replaced = {}, !.seen = NoRows]
<1>1. FieldTypes /\ JobOK(j) /\ job[j] \in JobState /\ job[j].replaced \subseteq LogIds
      /\ job[j].at = "delete" /\ Rebuilding(j) /\ job[j].rows = {} /\ SetJob(j, rec)
      /\ logs \subseteq LogIds
      /\ UNCHANGED <<fieldDb, patterns, logVars, running, fieldHistory>>
  BY JobTyped DEF FieldInv, FieldTypes, CommitBatch, Rebuilding
<1>2. NoRows \in [LogIds -> SUBSET FieldSet]
  BY DEF NoRows
<1>3. /\ rec \in JobState /\ rec.at = "read" /\ rec.rows = {} /\ rec.replaced = {}
      /\ rec.last = job[j].last /\ rec.max = job[j].max /\ rec.patterns = job[j].patterns
  BY <1>1, <1>2 DEF JobState
<1> HIDE DEF rec
<1>4. job'[j] = rec /\ (\A k \in Jobs \ {j} : job'[k] = job[k]) /\ job' \in [Jobs -> JobState]
  BY <1>1, <1>3, OneJob
<1>5. fields' = [l \in LogIds |-> IF l \in job[j].replaced THEN Replaced(j, l) ELSE fields[l]]
  BY DEF CommitBatch
<1>6. \A l \in LogIds : fields'[l] = IF l \in job[j].replaced THEN Replaced(j, l) ELSE fields[l]
  BY <1>5
<1>7. (\A k : Known(k)' = Known(k)) /\ (Exclusive' = Exclusive)
  BY <1>1 DEF Known, Exclusive, logVars, fieldHistory
<1>8. ~Writes(j)' /\ Replacing(j)' = {} /\ InBatch(j)' = {}
  BY <1>3, <1>4 DEF Writes, Replacing, InBatch
<1>9. FieldTypes'
  <2>1. ASSUME NEW l \in LogIds
        PROVE  fields'[l] \subseteq FieldSet /\ \A s \in fields'[l] : s.patterns \in 1..patterns
    <3>1. CASE l \in job[j].replaced
      BY <1>1, <1>6, <3>1, NewSets
    <3>2. CASE l \notin job[j].replaced
      BY <1>1, <1>6, <3>2, FieldsTyped DEF FieldTypes
    <3> QED
      BY <3>1, <3>2
  <2>2. fields' \in [LogIds -> SUBSET FieldSet]
    BY <1>5, <2>1
  <2> QED
    BY <1>1, <1>4, <1>7, <2>1, <2>2 DEF FieldTypes, logVars, fieldHistory
<1>10. ASSUME NEW k \in Jobs PROVE JobOK(k)'
  <2>1. CASE k = j
    BY <1>1, <1>3, <1>4, <1>8, <2>1 DEF JobOK, AtWork, Rebuilding, Known, logVars, fieldHistory
  <2>2. CASE k # j
    <3>1. JobOK(k) /\ job'[k] = job[k]
      BY <1>4, <2>2 DEF FieldInv
    <3> QED
      BY <1>1, <1>7, <3>1 DEF JobOK, Rebuilding, InBatch, AtWork, logVars, fieldHistory
  <2> QED
    BY <2>1, <2>2
<1>11. JobsApart'
  <2>1. \A k \in Jobs \ {j} : Writes(k)' = Writes(k) /\ Rebuilding(k)' = Rebuilding(k)
    BY <1>4 DEF Writes, Rebuilding
  <2> QED
    BY <1>1, <1>8, <2>1 DEF FieldInv, JobsApart, fieldHistory
<1>12. SetsOK'
  <2>1. ASSUME NEW l \in LogIds \ (logs \cup evictedIn) PROVE fields'[l] = {}
    <3>1. l \notin job[j].replaced
      BY <1>1 DEF JobOK, InBatch
    <3> QED
      BY <1>6, <3>1 DEF FieldInv, SetsOK
  <2>2. ASSUME Exclusive, NEW l \in logs PROVE \E s \in FieldSet : fields'[l] = {s}
    <3>1. CASE l \in job[j].replaced
      BY <1>1, <1>6, <2>2, <3>1, NewSets
    <3>2. CASE l \notin job[j].replaced
      BY <1>1, <1>6, <2>2, <3>2 DEF FieldInv, SetsOK
    <3> QED
      BY <3>1, <3>2
  <2>3. ASSUME Exclusive, NEW k \in Jobs, NEW l \in Replacing(k)' \cap logs
        PROVE  job'[k].seen[l] = fields'[l]
    <3>1. k # j /\ job'[k] = job[k] /\ Replacing(k)' = Replacing(k)
      BY <1>4, <1>8, <2>3 DEF Replacing
    <3>2. Writes(k) /\ Rebuilding(k)
      BY <1>1, <2>3, <3>1, OfBatch DEF FieldInv
    <3>3. ~Writes(j)
      BY <1>1, <2>3, <3>1, <3>2 DEF FieldInv, JobsApart, Exclusive
    <3>4. l \notin job[j].replaced
      BY <3>3 DEF Writes
    <3> QED
      BY <1>1, <1>6, <2>3, <3>1, <3>4 DEF FieldInv, SetsOK
  <2> QED
    BY <1>1, <1>7, <2>1, <2>2, <2>3 DEF SetsOK, logVars, fieldHistory
<1>13. ASSUME ~met PROVE RebuildOK(j)' /\ \A l \in logs : \A s \in fields'[l] : s.patterns >= promised[l]
  <2>1. RebuildOK(j) /\ Exclusive
    BY <1>1, <1>13 DEF FieldInv, Rebuilt, Exclusive
  <2>2. ASSUME NEW l \in logs \cap job[j].replaced, NEW s \in fields'[l]
        PROVE  s.patterns = job[j].patterns
    BY <1>1, <1>6, <2>1, <2>2, NewSets
  <2>3. \A l \in logs : l \notin job[j].replaced => fields'[l] = fields[l]
    BY <1>1, <1>6
  <2>4. ASSUME NEW l \in logs, NEW s \in fields'[l] PROVE s.patterns >= promised[l]
    <3>1. CASE l \in job[j].replaced
      <4>1. promised[l] <= job[j].patterns /\ promised[l] \in Nat /\ job[j].patterns \in Nat
        BY <1>1, <2>1, FieldsTyped, JobTyped DEF RebuildOK
      <4>2. s.patterns = job[j].patterns
        BY <2>2, <2>4, <3>1
      <4> QED
        BY <4>1, <4>2
    <3>2. CASE l \notin job[j].replaced
      BY <1>13, <2>3, <2>4, <3>2 DEF FieldInv, Rebuilt
    <3> QED
      BY <3>1, <3>2
  <2>5. ASSUME NEW l \in covers[j] \cap logs, l <= job[j].last, NEW s \in fields'[l]
        PROVE  s.patterns >= job[j].patterns
    <3>1. CASE l \in job[j].replaced
      <4>1. s.patterns = job[j].patterns /\ job[j].patterns \in Nat
        BY <1>1, <2>2, <2>5, <3>1, JobTyped
      <4> QED
        BY <4>1
    <3>2. CASE l \notin job[j].replaced
      BY <2>1, <2>3, <2>5, <3>2 DEF RebuildOK
    <3> QED
      BY <3>1, <3>2
  <2>6. (\A l \in LogIds : promised[l] <= job[j].patterns) /\ \A l \in covers[j] : l <= job[j].max
    BY <2>1 DEF RebuildOK
  <2>7. RebuildOK(j)'
    BY <1>1, <1>3, <1>4, <2>5, <2>6 DEF RebuildOK, logVars, fieldHistory
  <2> QED
    BY <2>4, <2>7
<1>14. Rebuilt'
  <2>1. ASSUME ~met, NEW k \in Jobs, Rebuilding(k)' PROVE RebuildOK(k)'
    <3>1. k = j
      <4>1. CASE k # j
        <5>1. Rebuilding(k)
          BY <1>4, <2>1, <4>1 DEF Rebuilding
        <5> QED
          BY <1>1, <2>1, <4>1, <5>1 DEF FieldInv, JobsApart
      <4> QED
        BY <4>1
    <3> QED
      BY <1>13, <2>1, <3>1
  <2>2. \A l \in LogIds : promised[l] <= patterns /\ (promised[l] # 0 => Known(l))
    BY DEF FieldInv, Rebuilt
  <2> QED
    BY <1>1, <1>7, <1>13, <2>1, <2>2 DEF Rebuilt, logVars, fieldHistory
<1> QED
  BY <1>9, <1>10, <1>11, <1>12, <1>14 DEF FieldInv

LEMMA FieldNextInv == FieldInv /\ [FieldNext]_fieldVars => FieldInv'
<1> SUFFICES ASSUME FieldInv, [FieldNext]_fieldVars PROVE FieldInv'
  OBVIOUS
<1>1. CASE UNCHANGED fieldVars
  BY <1>1 DEF fieldVars, logVars, FieldInv, FieldTypes, JobOK, JobsApart, SetsOK, Rebuilt,
              RebuildOK, Exclusive, Replacing, Rebuilding, InBatch, Writes, AtWork, Known
<1>2. CASE SavePatterns
  BY <1>2, SavePatternsKeeps
<1>3. CASE InsertLog
  BY <1>3, InsertLogKeeps
<1>4. ASSUME NEW l \in LogIds, CommitLog(l) \/ EvictLog(l) PROVE FieldInv'
  BY <1>4, CommitLogKeeps, EvictLogKeeps
<1>5. ASSUME NEW j \in Jobs, JobStep(j) \/ AbortJob(j) PROVE FieldInv'
  BY <1>5, StartJobKeeps, ConnectFailsKeeps, BeginJobKeeps, ReadLogsKeeps, DeleteFieldsKeeps,
     InsertFieldsKeeps, CommitBatchKeeps, EndJobKeeps, AbortJobKeeps DEF JobStep
<1> QED
  BY <1>1, <1>2, <1>3, <1>4, <1>5 DEF FieldNext

LEMMA FieldAlways == FieldSpec => []FieldInv
BY FieldInitInv, FieldNextInv, PTL DEF FieldSpec

LEMMA FieldTypesFollow == FieldInv => FieldTypeOK
<1> SUFFICES ASSUME FieldInv PROVE FieldTypeOK
  OBVIOUS
<1>1. FieldTypes
  BY DEF FieldInv
<1>2. logs \cup pendingLogs \subseteq 1..lastLog
  BY <1>1, FieldsTyped DEF FieldTypes, LogIds
<1>3. \A l \in LogIds : \A s \in fields[l] : s.patterns \in 1..MaxPatterns
  <2>1. \A n \in 1..patterns : n \in 1..MaxPatterns
    BY <1>1, FieldsTyped, FieldAssumption
  <2> QED
    BY <1>1, <2>1 DEF FieldTypes
<1>4. \A j \in Jobs : /\ job[j].at \in {"idle", "start", "read", "delete", "insert"}
                      /\ AtWork(j) => running[j]
  BY <1>1, JobTyped DEF FieldInv, JobOK
<1> QED
  BY <1>1, <1>2, <1>3, <1>4 DEF FieldTypes, FieldTypeOK

LEMMA FieldsFollow == FieldInv => FieldsExact
<1> SUFFICES ASSUME FieldInv PROVE FieldsExact
  OBVIOUS
<1>1. fieldDb \in {"sqlite", "postgres"} /\ logs \subseteq LogIds
  BY FieldAssumption DEF FieldInv, FieldTypes
<1>2. ASSUME ~(met /\ fieldDb = "postgres"), NEW l \in logs PROVE Cardinality(fields[l]) = 1
  <2>1. Exclusive
    BY <1>1, <1>2 DEF Exclusive
  <2>2. PICK s : fields[l] = {s}
    BY <2>1 DEF FieldInv, SetsOK
  <2> QED
    BY <2>2, FS_Singleton
<1>3. OneSetOfFields
  BY <1>2 DEF OneSetOfFields
<1>4. RebuiltWithCurrent /\ OrphansExplained
  BY DEF FieldInv, Rebuilt, SetsOK, RebuiltWithCurrent, OrphansExplained
<1> QED
  BY <1>3, <1>4 DEF FieldsExact

\* The fields of a log are one set, its own and of patterns no older than those
\* of the last job that rebuilt it (reindex(), insert_log, the archive).
THEOREM FieldsExactHolds == FieldSpec => [](FieldTypeOK /\ FieldsExact)
BY FieldAlways, FieldTypesFollow, FieldsFollow, PTL

-----------------------------------------------------------------------------
(***************************************************************************)
(* TcpFramer.  What was delivered and what the running feed() has are the  *)
(* first frames of the stream, whatever follows; the rest are those of the *)
(* buffer.                                                                 *)
(***************************************************************************)
\* A recursive function whose argument gets smaller exists and has its type.
Recursive(f, S, Stop, base, op, nx) ==
  f = [r \in S |-> IF r \in Stop THEN base ELSE op[<<r, f[nx[r]]>>]]

LEMMA RecursionOn ==
  ASSUME NEW S, NEW V, NEW length \in [S -> Nat], NEW Stop, NEW nx \in [S -> S],
         NEW base \in V, NEW op \in [S \X V -> V],
         \A r \in S \ Stop : length[nx[r]] < length[r]
  PROVE  \E f \in [S -> V] : Recursive(f, S, Stop, base, op, nx)
<1> DEFINE Up(n) == {r \in S : length[r] <= n}
           Step(g, r) == IF r \in Stop THEN base ELSE op[<<r, g[nx[r]]>>]
           Is(g, n) == g \in [Up(n) -> V] /\ \A r \in Up(n) : g[r] = Step(g, r)
           Bad == {n \in Nat : ~\E g : Is(g, n)}
<1>0. \A r \in S : length[r] \in Nat /\ nx[r] \in S /\ length[nx[r]] \in Nat
  OBVIOUS
<1>1. ASSUME NEW n \in Nat, NEW h, \A r \in Up(n) : r \notin Stop => h[nx[r]] \in V
      PROVE  [r \in Up(n) |-> Step(h, r)] \in [Up(n) -> V]
  <2>1. ASSUME NEW r \in Up(n) PROVE Step(h, r) \in V
    <3>1. CASE r \in Stop
      BY <3>1
    <3>2. CASE r \notin Stop
      <4>1. <<r, h[nx[r]]>> \in S \X V
        BY <1>1, <2>1, <3>2
      <4>2. op[<<r, h[nx[r]]>>] \in V
        BY <4>1
      <4> QED
        BY <3>2, <4>2
    <3> QED
      BY <3>1, <3>2
  <2> HIDE DEF Step
  <2> QED
    BY <2>1
<1>2. \E g : Is(g, 0)
  <2>1. \A r \in Up(0) : r \in Stop
    <3>1. ASSUME NEW r \in Up(0), r \notin Stop PROVE FALSE
      <4>1. length[r] <= 0 /\ length[r] \in Nat /\ length[nx[r]] \in Nat /\ length[nx[r]] < length[r]
        BY <1>0, <3>1
      <4> QED
        BY <4>1
    <3> QED
      BY <3>1
  <2> DEFINE g == [r \in Up(0) |-> base]
  <2>2. Is(g, 0)
    BY <2>1
  <2> QED
    BY <2>2
<1>3. ASSUME NEW n \in Nat, NEW g, Is(g, n) PROVE \E h : Is(h, n + 1)
  <2> DEFINE h == [r \in Up(n + 1) |-> Step(g, r)]
  <2>1. \A r \in Up(n + 1) : r \notin Stop => nx[r] \in Up(n)
    <3>1. ASSUME NEW r \in Up(n + 1), r \notin Stop PROVE nx[r] \in Up(n)
      <4>1. length[r] <= n + 1 /\ length[r] \in Nat /\ length[nx[r]] \in Nat /\ length[nx[r]] < length[r]
        BY <1>0, <3>1
      <4>2. length[nx[r]] <= n
        BY <4>1
      <4> QED
        BY <1>0, <3>1, <4>2
    <3> QED
      BY <3>1
  <2>2. \A r \in Up(n) : r \in Up(n + 1) /\ g[r] \in V /\ g[r] = Step(g, r)
    <3>1. \A r \in Up(n) : length[r] <= n + 1
      BY <1>0
    <3> QED
      BY <1>3, <3>1
  <2>3. h \in [Up(n + 1) -> V]
    <3>1. \A r \in Up(n + 1) : r \notin Stop => g[nx[r]] \in V
      BY <2>1, <2>2
    <3>2. n + 1 \in Nat
      OBVIOUS
    <3> HIDE DEF Up, Step
    <3> QED
      BY <1>1, <3>1, <3>2
  <2>4. \A r \in Up(n) : h[r] = g[r]
    <3> HIDE DEF Step, Up
    <3> QED
      BY <2>2
  <2>5. ASSUME NEW r \in Up(n + 1) PROVE h[r] = Step(h, r)
    <3>1. h[r] = Step(g, r)
      <4> HIDE DEF Step, Up
      <4> QED
        BY <2>5
    <3>2. r \notin Stop => h[nx[r]] = g[nx[r]]
      <4> HIDE DEF Step, Up, h
      <4> QED
        BY <2>1, <2>4, <2>5
    <3> HIDE DEF h, Up
    <3> QED
      BY <3>1, <3>2
  <2> HIDE DEF h
  <2> QED
    BY <2>3, <2>5
<1>4. \A n \in Nat : \E g : Is(g, n)
  <2> HIDE DEF Is
  <2>1. SUFFICES ASSUME Bad # {} PROVE FALSE
    OBVIOUS
  <2>2. PICK n \in Bad : \A m \in Bad : n <= m
    BY <2>1, LeastNat
  <2>3. n # 0 /\ n \in Nat /\ ~\E g : Is(g, n)
    BY <1>2, <2>2
  <2>4. n - 1 \in Nat /\ n - 1 \notin Bad /\ (n - 1) + 1 = n
    BY <2>2, <2>3
  <2> QED
    BY <1>3, <2>3, <2>4
<1>5. ASSUME NEW n \in Nat, NEW m \in Nat, NEW g, NEW h, Is(g, n), Is(h, m),
             NEW q \in S, length[q] <= n, length[q] <= m
      PROVE  g[q] = h[q]
  <2> DEFINE Diff == {k \in Nat : \E r \in S : /\ length[r] = k /\ k <= n /\ k <= m
                                               /\ g[r] # h[r]}
  <2>1. SUFFICES ASSUME Diff # {} PROVE FALSE
    BY <1>0, <1>5
  <2>2. PICK k \in Diff : \A l \in Diff : k <= l
    BY <2>1, LeastNat
  <2>3. PICK r \in S : length[r] = k /\ k <= n /\ k <= m /\ g[r] # h[r]
    BY <2>2
  <2>4. r \in Up(n) /\ r \in Up(m)
    BY <2>3
  <2>5. g[r] = Step(g, r) /\ h[r] = Step(h, r)
    <3> HIDE DEF Step, Up
    <3> QED
      BY <1>5, <2>4
  <2>6. r \notin Stop /\ g[nx[r]] # h[nx[r]]
    BY <2>3, <2>5
  <2>7. length[nx[r]] \in Nat /\ length[nx[r]] < k /\ k \in Nat
    BY <1>0, <2>2, <2>3, <2>6
  <2>8. length[nx[r]] <= n /\ length[nx[r]] <= m
    BY <2>3, <2>7
  <2>9. length[nx[r]] \in Diff
    BY <1>0, <2>6, <2>7, <2>8
  <2> QED
    BY <2>2, <2>7, <2>9
<1> DEFINE Upto(n) == CHOOSE g : Is(g, n)
           f == [r \in S |-> Upto(length[r])[r]]
<1>6. \A n \in Nat : Is(Upto(n), n)
  <2> HIDE DEF Is
  <2> QED
    BY <1>4
<1>7. ASSUME NEW r \in S PROVE f[r] \in V /\ f[r] = Step(f, r)
  <2> DEFINE n == length[r]  g == Upto(n)
  <2>1. n \in Nat /\ r \in Up(n) /\ f[r] = g[r]
    BY <1>0, <1>7
  <2>2. g[r] \in V /\ g[r] = Step(g, r)
    <3>1. Is(g, n)
      BY <1>6, <2>1
    <3> HIDE DEF g, n, Step, Up
    <3> QED
      BY <2>1, <3>1
  <2>3. ASSUME r \notin Stop PROVE f[nx[r]] = g[nx[r]]
    <3> DEFINE q == nx[r]  m == length[q]
    <3>1. q \in S /\ m \in Nat /\ m < n /\ f[q] = Upto(m)[q]
      BY <1>0, <1>7, <2>3
    <3> HIDE DEF Is, Upto, f
    <3>2. Is(Upto(m), m) /\ Is(g, n)
      BY <1>6, <2>1, <3>1
    <3>4. m <= n /\ m <= m
      BY <2>1, <3>1
    <3> HIDE DEF n, g
    <3>3. Upto(m)[q] = g[q]
      BY <1>5, <2>1, <3>1, <3>2, <3>4
    <3> QED
      BY <3>1, <3>3
  <2> HIDE DEF f, g, n, Up, Is, Upto
  <2> QED
    BY <2>1, <2>2, <2>3
<1>8. f \in [S -> V]
  <2>1. \A r \in S : Upto(length[r])[r] \in V
    BY <1>7
  <2> HIDE DEF Upto
  <2> QED
    BY <2>1
<1>9. f = [r \in S |-> Step(f, r)]
  <2> DEFINE h == [r \in S |-> Step(f, r)]
  <2>1. \A r \in S : f[r] = h[r]
    <3> HIDE DEF f, Step
    <3> QED
      BY <1>7
  <2> HIDE DEF Upto, Step
  <2> QED
    BY <2>1
<1> HIDE DEF f
<1> QED
  BY <1>8, <1>9 DEF Recursive

\* What holds of an argument if it holds of all smaller ones holds of all.
LEMMA TypedBySize ==
  ASSUME NEW S, NEW V, NEW length \in [S -> Nat], NEW f,
         \A r \in S : (\A q \in S : length[q] < length[r] => f[q] \in V) => f[r] \in V
  PROVE  \A r \in S : f[r] \in V
<1> DEFINE Bad == {k \in Nat : \E r \in S : length[r] = k /\ f[r] \notin V}
<1>1. SUFFICES ASSUME Bad # {} PROVE FALSE
  OBVIOUS
<1>2. PICK k \in Bad : \A l \in Bad : k <= l
  BY <1>1, LeastNat
<1>3. PICK r \in S : length[r] = k /\ f[r] \notin V
  BY <1>2
<1>4. PICK q \in S : length[q] < length[r] /\ f[q] \notin V
  BY <1>3
<1>5. length[q] \in Bad /\ length[q] < k /\ length[q] \in Nat /\ k \in Nat
  BY <1>3, <1>4
<1> QED
  BY <1>2, <1>5

LEMMA UntilOK ==
  ASSUME NEW b \in Seq(Bytes), NEW C
  PROVE  /\ Len(b) \in Nat /\ Until(b, C) \in 0..Len(b)
         /\ \A i \in 1..Until(b, C) : b[i] \notin C
         /\ Until(b, C) < Len(b) => b[Until(b, C) + 1] \in C
<1> DEFINE P(k) == /\ \A i \in 1..k : b[i] \notin C
                   /\ k < Len(b) => b[k + 1] \in C
           T == {i \in 1..Len(b) : b[i] \in C}
<1>0. Len(b) \in Nat
  OBVIOUS
<1>1. \E k \in 0..Len(b) : P(k)
  <2>1. CASE T = {}
    <3>1. P(Len(b))
      BY <1>0, <2>1
    <3> QED
      BY <1>0, <3>1
  <2>2. CASE T # {}
    <3>1. T \subseteq Nat
      BY <1>0
    <3>2. PICK m \in T : \A i \in T : m <= i
      BY <2>2, <3>1, LeastNat
    <3>3. m \in 1..Len(b) /\ b[m] \in C /\ m - 1 \in 0..Len(b) /\ (m - 1) + 1 = m
      BY <1>0, <3>2
    <3>4. \A i \in 1..(m - 1) : b[i] \notin C
      <4>1. ASSUME NEW i \in 1..(m - 1), b[i] \in C PROVE FALSE
        <5>1. i \in 1..Len(b) /\ i < m
          BY <1>0, <3>3
        <5>2. i \in T
          BY <4>1, <5>1
        <5> QED
          BY <3>2, <3>3, <5>1, <5>2
      <4> QED
        BY <4>1
    <3> QED
      BY <3>3, <3>4
  <2> QED
    BY <2>1, <2>2
<1>2. Until(b, C) = CHOOSE k \in 0..Len(b) : P(k)
  BY DEF Until
<1>3. Until(b, C) \in 0..Len(b) /\ P(Until(b, C))
  <2> HIDE DEF P
  <2> QED
    BY <1>1, <1>2
<1> QED
  BY <1>0, <1>3

LEMMA UntilIs ==
  ASSUME NEW b \in Seq(Bytes), NEW C, NEW k \in 0..Len(b),
         \A i \in 1..k : b[i] \notin C, k < Len(b) => b[k + 1] \in C
  PROVE  Until(b, C) = k
<1> DEFINE u == Until(b, C)
<1>1. /\ Len(b) \in Nat /\ u \in 0..Len(b) /\ \A i \in 1..u : b[i] \notin C
      /\ u < Len(b) => b[u + 1] \in C
  BY UntilOK
<1> HIDE DEF u
<1>2. ~(u < k)
  <2>1. u < k => u + 1 \in 1..k /\ u < Len(b)
    BY <1>1
  <2> QED
    BY <1>1, <2>1
<1>3. ~(k < u)
  <2>1. k < u => k + 1 \in 1..u /\ k < Len(b)
    BY <1>1
  <2> QED
    BY <1>1, <2>1
<1>4. u = k
  BY <1>1, <1>2, <1>3
<1> QED
  BY <1>4 DEF u

\* What follows a buffer does not move the first byte of C that is in it.
LEMMA UntilMore ==
  ASSUME NEW b \in Seq(Bytes), NEW t \in Seq(Bytes), NEW C
  PROVE  /\ Until(b, C) <= Until(b \o t, C)
         /\ Until(b, C) < Len(b) => Until(b \o t, C) = Until(b, C)
         /\ Until(b \o t, C) < Len(b) => Until(b \o t, C) = Until(b, C)
<1> DEFINE u == Until(b, C)  v == Until(b \o t, C)
<1>1. /\ Len(b) \in Nat /\ u \in 0..Len(b) /\ \A i \in 1..u : b[i] \notin C
      /\ u < Len(b) => b[u + 1] \in C
  BY UntilOK
<1>2. /\ b \o t \in Seq(Bytes) /\ Len(b \o t) \in Nat /\ Len(b) <= Len(b \o t)
      /\ \A i \in 1..Len(b) : (b \o t)[i] = b[i]
  BY ConcatProperties
<1>3. /\ v \in 0..Len(b \o t) /\ \A i \in 1..v : (b \o t)[i] \notin C
      /\ v < Len(b \o t) => (b \o t)[v + 1] \in C
  BY <1>2, UntilOK
<1> HIDE DEF u, v
<1>4. u < Len(b) => u = v
  <2>1. ASSUME u < Len(b) PROVE u = v
    <3>1. u \in 0..Len(b \o t) /\ \A i \in 1..u : i \in 1..Len(b)
      BY <1>1, <1>2
    <3>2. u + 1 \in 1..Len(b)
      BY <1>1, <2>1
    <3>3. (\A i \in 1..u : (b \o t)[i] \notin C) /\ (b \o t)[u + 1] \in C
      BY <1>1, <1>2, <2>1, <3>1, <3>2
    <3> QED
      BY <1>2, <3>1, <3>3, UntilIs DEF v
  <2> QED
    BY <2>1
<1>5. v < Len(b) => v = u
  <2>1. ASSUME v < Len(b) PROVE v = u
    <3>1. v \in 0..Len(b) /\ (\A i \in 1..v : i \in 1..Len(b)) /\ v < Len(b \o t)
      BY <1>1, <1>2, <1>3, <2>1
    <3>2. v + 1 \in 1..Len(b)
      BY <1>1, <2>1, <3>1
    <3>3. (\A i \in 1..v : b[i] \notin C) /\ b[v + 1] \in C
      BY <1>2, <1>3, <3>1, <3>2
    <3> QED
      BY <3>1, <3>3, UntilIs DEF u
  <2> QED
    BY <2>1
<1>6. u <= v
  BY <1>1, <1>2, <1>3, <1>5
<1> QED
  BY <1>4, <1>5, <1>6 DEF u, v

LEMMA SpelledNat ==
  ASSUME NEW b \in Seq(Bytes)
  PROVE  Spelled(b) \in Nat
<1> DEFINE n == Len(b)
           S == 0..n
           one(k) == IF b[k] = "1" THEN 1 ELSE 0
           length == [k \in S |-> k]
           nx == [k \in S |-> IF k = 0 THEN 0 ELSE k - 1]
           op == [p \in S \X Nat |-> 10 * p[2] + one(p[1])]
<1>1. n \in Nat
  OBVIOUS
<1> HIDE DEF n
<1>2. length \in [S -> Nat] /\ nx \in [S -> S] /\ \A k \in S \ {0} : length[nx[k]] < length[k]
  BY <1>1
<1>3. op \in [S \X Nat -> Nat]
  BY <1>1
<1> DEFINE Value(f) == f = [k \in 0..n |-> IF k = 0 THEN 0 ELSE 10 * f[k - 1] + one(k)]
<1>4. ASSUME NEW f \in [S -> Nat], Recursive(f, S, {0}, 0, op, nx) PROVE Value(f)
  <2>1. f = [k \in S |-> IF k \in {0} THEN 0 ELSE op[<<k, f[nx[k]]>>]]
    BY Zenon, <1>4 DEF Recursive
  <2>2. ASSUME NEW k \in S PROVE f[k] = IF k = 0 THEN 0 ELSE 10 * f[k - 1] + one(k)
    <3>1. k # 0 => nx[k] = k - 1 /\ f[k - 1] \in Nat /\ <<k, f[k - 1]>> \in S \X Nat
      BY <1>1, <1>4
    <3>2. k # 0 => op[<<k, f[k - 1]>>] = 10 * f[k - 1] + one(k)
      BY <3>1
    <3>3. f[k] = IF k \in {0} THEN 0 ELSE op[<<k, f[nx[k]]>>]
      BY <2>1, Zenon
    <3> HIDE DEF op, nx, one
    <3> QED
      BY <3>1, <3>2, <3>3
  <2>3. f = [k \in S |-> f[k]]
    BY <1>4
  <2> HIDE DEF one
  <2> QED
    BY Zenon, <2>2, <2>3
<1>5. \E f : Value(f)
  <2> HIDE DEF length, op, nx, S, Value
  <2>1. \E f \in [S -> Nat] : Recursive(f, S, {0}, 0, op, nx)
    BY <1>2, <1>3, RecursionOn
  <2> QED
    BY <1>4, <2>1
<1>6. ASSUME NEW f, Value(f) PROVE f[n] \in Nat
  <2> DEFINE Bad == {k \in 0..n : f[k] \notin Nat}
  <2>1. SUFFICES ASSUME Bad # {} PROVE FALSE
    BY <1>1
  <2>2. Bad \subseteq Nat
    OBVIOUS
  <2>3. PICK k \in Bad : \A l \in Bad : k <= l
    BY <2>1, <2>2, LeastNat
  <2>4. f[k] = IF k = 0 THEN 0 ELSE 10 * f[k - 1] + one(k)
    <3> HIDE DEF one
    <3> QED
      BY <1>6, <2>3
  <2>5. k # 0 /\ k \in 0..n
    BY <2>3, <2>4
  <2>6. k - 1 \in 0..n /\ k - 1 \notin Bad
    <3>1. k - 1 \in 0..n /\ k - 1 < k /\ k \in Nat
      BY <1>1, <2>5
    <3>2. k - 1 \in Bad => k <= k - 1
      BY <2>3
    <3> QED
      BY <3>1, <3>2
  <2>7. f[k - 1] \in Nat /\ one(k) \in Nat
    BY <2>6
  <2>8. f[k] \in Nat
    <3> HIDE DEF one
    <3> QED
      BY <2>4, <2>5, <2>7
  <2> QED
    BY <2>3, <2>8
<1>7. Spelled(b) = (CHOOSE f : Value(f))[n]
  BY DEF Spelled, n
<1>8. Value(CHOOSE f : Value(f))
  <2> HIDE DEF Value
  <2> QED
    BY <1>5
<1> HIDE DEF Value
<1> QED
  BY <1>6, <1>7, <1>8

LEMMA RestOK ==
  ASSUME NEW r \in Seq(Bytes), NEW n \in Nat
  PROVE  /\ Rest(r, n) \in Seq(Bytes)
         /\ Len(Rest(r, n)) = IF n < Len(r) THEN Len(r) - n ELSE 0
         /\ \A i \in 1..(Len(r) - n) : Rest(r, n)[i] = r[n + i]
<1>1. Len(r) \in Nat /\ n + 1 \in Int /\ Len(r) \in Int
  OBVIOUS
<1>2. \A i \in (n + 1)..Len(r) : r[i] \in Bytes
  BY <1>1
<1>3. /\ SubSeq(r, n + 1, Len(r)) \in Seq(Bytes)
      /\ Len(SubSeq(r, n + 1, Len(r))) = IF n + 1 <= Len(r) THEN Len(r) - (n + 1) + 1 ELSE 0
      /\ \A i \in 1..(Len(r) - (n + 1) + 1) : SubSeq(r, n + 1, Len(r))[i] = r[(n + 1) + i - 1]
  BY <1>1, <1>2, SubSeqProperties
<1>4. Rest(r, n) = SubSeq(r, n + 1, Len(r))
  BY DEF Rest
<1>5. \A i \in 1..(Len(r) - n) : i \in 1..(Len(r) - (n + 1) + 1) /\ (n + 1) + i - 1 = n + i
  BY <1>1
<1>6. (n < Len(r)) = (n + 1 <= Len(r)) /\ Len(r) - (n + 1) + 1 = Len(r) - n
  BY <1>1
<1> QED
  BY <1>3, <1>4, <1>5, <1>6

LEMMA PartOK ==
  ASSUME NEW r \in Seq(Bytes), NEW m \in Nat \ {0}, NEW n \in Nat, n <= Len(r)
  PROVE  /\ SubSeq(r, m, n) \in Seq(Bytes) /\ NonBlank(SubSeq(r, m, n)) \in Seq(Seq(Bytes))
         /\ Len(SubSeq(r, m, n)) = IF m <= n THEN n - m + 1 ELSE 0
         /\ \A i \in 1..(n - m + 1) : SubSeq(r, m, n)[i] = r[m + i - 1]
<1>1. \A i \in m..n : r[i] \in Bytes
  OBVIOUS
<1>2. m \in Int /\ n \in Int
  OBVIOUS
<1>3. /\ SubSeq(r, m, n) \in Seq(Bytes)
      /\ Len(SubSeq(r, m, n)) = IF m <= n THEN n - m + 1 ELSE 0
      /\ \A i \in 1..(n - m + 1) : SubSeq(r, m, n)[i] = r[m + i - 1]
  BY <1>1, <1>2, SubSeqProperties
<1>4. \A f \in Seq(Bytes) : NonBlank(f) \in Seq(Seq(Bytes))
  BY DEF NonBlank
<1> QED
  BY <1>3, <1>4

LEMMA CountNat ==
  ASSUME NEW b \in Seq(Bytes)
  PROVE  Count(b) \in Nat /\ Prefix(b) \in Nat /\ Prefix(b) <= Len(b) /\ Len(b) \in Nat
<1>1. Prefix(b) \in Nat /\ Prefix(b) <= Len(b) /\ Len(b) \in Nat
  BY UntilOK DEF Prefix
<1>2. 1 \in Nat \ {0}
  OBVIOUS
<1>3. SubSeq(b, 1, Prefix(b)) \in Seq(Bytes)
  BY <1>1, <1>2, PartOK
<1> QED
  BY <1>1, <1>3, SpelledNat DEF Count

\* A list that is put together from the rests of a stream exists, and has frames.
ListOf(f, Stop, opening, next) ==
  f = [r \in Seq(Bytes) |-> IF r \in Stop THEN <<>> ELSE opening[r] \o f[next[r]]]
LEMMA ListOfRests ==
  ASSUME NEW V, V = Seq(Seq(Bytes)), NEW Stop,
         NEW opening \in [Seq(Bytes) -> V], NEW next \in [Seq(Bytes) -> Seq(Bytes)],
         \A r \in Seq(Bytes) \ Stop : Len(next[r]) < Len(r)
  PROVE  /\ \E f : ListOf(f, Stop, opening, next)
         /\ \A f : ListOf(f, Stop, opening, next) => f \in [Seq(Bytes) -> V]
<1> DEFINE S == Seq(Bytes)
           length == [r \in S |-> Len(r)]
           op == [p \in S \X V |-> opening[p[1]] \o p[2]]
           Value(f) == f = [r \in S |-> IF r \in Stop THEN <<>> ELSE opening[r] \o f[next[r]]]
<1>1. <<>> \in V /\ \A v \in V, w \in V : v \o w \in V
  OBVIOUS
<1>2. \A r \in S : opening[r] \in V /\ next[r] \in S /\ length[r] = Len(r) /\ length[next[r]] = Len(next[r])
  OBVIOUS
<1>3. length \in [S -> Nat]
  OBVIOUS
<1>4. \A r \in S \ Stop : length[next[r]] < length[r]
  BY <1>2
<1> HIDE DEF S, length
<1>5. op \in [S \X V -> V]
  <2>1. ASSUME NEW p \in S \X V PROVE opening[p[1]] \o p[2] \in V
    BY <1>1, <1>2
  <2> QED
    BY <2>1
<1>6. \E f : Value(f)
  <2> HIDE DEF op
  <2>0. opening \in [S -> V] /\ next \in [S -> S]
    BY DEF S
  <2>1. PICK f \in [S -> V] : Recursive(f, S, Stop, <<>>, op, next)
    BY <1>1, <1>3, <1>4, <1>5, <2>0, RecursionOn
  <2>2. f = [r \in S |-> IF r \in Stop THEN <<>> ELSE op[<<r, f[next[r]]>>]]
    BY <2>1 DEF Recursive
  <2>3. ASSUME NEW r \in S PROVE f[r] = IF r \in Stop THEN <<>> ELSE opening[r] \o f[next[r]]
    <3>1. <<r, f[next[r]]>> \in S \X V
      BY <1>2, <2>1
    <3>2. op[<<r, f[next[r]]>>] = opening[r] \o f[next[r]]
      BY <3>1 DEF op
    <3>3. f[r] = IF r \in Stop THEN <<>> ELSE op[<<r, f[next[r]]>>]
      BY <2>2, Zenon
    <3> QED
      BY <3>2, <3>3
  <2>4. f = [r \in S |-> f[r]]
    BY <2>1
  <2> QED
    BY <2>3, <2>4
<1>7. ASSUME NEW f, Value(f) PROVE f \in [S -> V]
  <2>1. \A r \in S : f[r] = IF r \in Stop THEN <<>> ELSE opening[r] \o f[next[r]]
    BY <1>7, Zenon
  <2>2. ASSUME NEW r \in S, \A q \in S : length[q] < length[r] => f[q] \in V PROVE f[r] \in V
    <3>1. CASE r \in Stop
      BY <1>1, <2>1, <3>1
    <3>2. CASE r \notin Stop
      <4>1. next[r] \in S /\ length[next[r]] < length[r]
        BY <1>2, <1>4, <3>2
      <4>2. f[next[r]] \in V /\ opening[r] \in V
        BY <1>2, <2>2, <4>1
      <4>3. opening[r] \o f[next[r]] \in V
        BY <1>1, <4>2
      <4> QED
        BY <2>1, <3>2, <4>3
    <3> QED
      BY <3>1, <3>2
  <2>5. \A r \in S : (\A q \in S : length[q] < length[r] => f[q] \in V) => f[r] \in V
    BY <2>2
  <2>3. \A r \in S : f[r] \in V
    BY ONLY <1>3, <2>5, TypedBySize
  <2>4. f = [r \in S |-> f[r]]
    BY <1>7
  <2> QED
    BY <2>3, <2>4
<1> QED
  BY <1>6, <1>7 DEF S, ListOf

\* The definition of the frames of a stream, unfolded once.
LEMMA OctetFramesIs ==
  /\ octetFrames \in [Seq(Bytes) -> Seq(Seq(Bytes))]
  /\ \A r \in Seq(Bytes) :
       octetFrames[r] = IF ~Counted(r) THEN <<>>
                        ELSE NonBlank(SubSeq(r, Prefix(r) + 2, Prefix(r) + 1 + Count(r))) \o octetFrames[Rest(r, Prefix(r) + 1 + Count(r))]
<1> DEFINE S == Seq(Bytes)  V == Seq(Seq(Bytes))
           Stop == {r \in S : ~Counted(r)}
           opening == [r \in S |-> IF r \in Stop THEN <<>> ELSE NonBlank(SubSeq(r, Prefix(r) + 2, Prefix(r) + 1 + Count(r)))]
           next == [r \in S |-> IF r \in Stop THEN r ELSE Rest(r, Prefix(r) + 1 + Count(r))]
           Value(f) == f = [r \in S |-> IF ~Counted(r) THEN <<>>
                                        ELSE NonBlank(SubSeq(r, Prefix(r) + 2, Prefix(r) + 1 + Count(r))) \o f[Rest(r, Prefix(r) + 1 + Count(r))]]
           Valued(f) == ListOf(f, Stop, opening, next)
<1>1. ASSUME NEW r \in S \ Stop
      PROVE  /\ NonBlank(SubSeq(r, Prefix(r) + 2, Prefix(r) + 1 + Count(r))) \in V
             /\ Rest(r, Prefix(r) + 1 + Count(r)) \in S /\ Len(Rest(r, Prefix(r) + 1 + Count(r))) < Len(r)
  <2> DEFINE n == Prefix(r) + 1 + Count(r)
  <2>1. Count(r) \in Nat /\ Prefix(r) \in Nat /\ Len(r) \in Nat /\ n <= Len(r)
    BY <1>1, CountNat DEF Counted
  <2>2. n \in Nat /\ Prefix(r) + 2 \in Nat \ {0} /\ 0 < n
    BY <2>1
  <2> HIDE DEF n
  <2>3. NonBlank(SubSeq(r, Prefix(r) + 2, n)) \in V
    BY <2>1, <2>2, PartOK
  <2>4. Rest(r, n) \in S /\ Len(Rest(r, n)) = IF n < Len(r) THEN Len(r) - n ELSE 0
    BY <2>2, RestOK
  <2>5. Len(Rest(r, n)) < Len(r)
    BY <2>1, <2>2, <2>4
  <2> QED
    BY <2>3, <2>4, <2>5 DEF n
<1>2. \A r \in S : r \notin Stop => opening[r] = NonBlank(SubSeq(r, Prefix(r) + 2, Prefix(r) + 1 + Count(r))) /\ next[r] = Rest(r, Prefix(r) + 1 + Count(r))
  OBVIOUS
<1>3. \A r \in S : (IF r \in Stop THEN <<>> ELSE NonBlank(SubSeq(r, Prefix(r) + 2, Prefix(r) + 1 + Count(r)))) \in V
                   /\ (IF r \in Stop THEN r ELSE Rest(r, Prefix(r) + 1 + Count(r))) \in S
  BY <1>1
<1>4. opening \in [S -> V] /\ next \in [S -> S]
  <2> HIDE DEF S, V, Stop
  <2> QED
    BY <1>3
<1>5. \A r \in S \ Stop : Len(next[r]) < Len(r)
  BY <1>1, <1>2
<1>6. \A f : Valued(f) <=> Value(f)
  <2>1. \A f : \A r \in S : (IF r \in Stop THEN <<>> ELSE opening[r] \o f[next[r]])
                          = IF ~Counted(r) THEN <<>> ELSE NonBlank(SubSeq(r, Prefix(r) + 2, Prefix(r) + 1 + Count(r))) \o f[Rest(r, Prefix(r) + 1 + Count(r))]
    <3> HIDE DEF opening, next
    <3> QED
      BY <1>2
  <2> HIDE DEF Stop, opening, next
  <2> QED
    BY <2>1, ZenonT(60) DEF ListOf
<1>7. (\E f : Valued(f)) /\ \A f : Valued(f) => f \in [S -> V]
  <2>1. V = Seq(Seq(Bytes))
    OBVIOUS
  <2> HIDE DEF Stop, opening, next, V
  <2> QED
    BY <1>4, <1>5, <2>1, ListOfRests
<1>8. octetFrames = CHOOSE f : Value(f)
  BY DEF octetFrames
<1>9. Value(octetFrames) /\ octetFrames \in [S -> V]
  <2> HIDE DEF Value, Valued
  <2> QED
    BY <1>6, <1>7, <1>8
<1>10. \A r \in S : octetFrames[r] = IF ~Counted(r) THEN <<>>
                                ELSE NonBlank(SubSeq(r, Prefix(r) + 2, Prefix(r) + 1 + Count(r))) \o octetFrames[Rest(r, Prefix(r) + 1 + Count(r))]
  BY <1>9, Zenon
<1> QED
  BY <1>9, <1>10

LEMMA LineFramesIs ==
  /\ lineFrames \in [Seq(Bytes) -> Seq(Seq(Bytes))]
  /\ \A r \in Seq(Bytes) :
       lineFrames[r] = IF r = <<>> \/ FirstLine(r) > MaxFrame THEN <<>>
                        ELSE NonBlank(SubSeq(r, 1, FirstLine(r))) \o lineFrames[Rest(r, FirstLine(r) + 1)]
<1> DEFINE S == Seq(Bytes)  V == Seq(Seq(Bytes))
           Stop == {r \in S : r = <<>> \/ FirstLine(r) > MaxFrame}
           opening == [r \in S |-> IF r \in Stop THEN <<>> ELSE NonBlank(SubSeq(r, 1, FirstLine(r)))]
           next == [r \in S |-> IF r \in Stop THEN r ELSE Rest(r, FirstLine(r) + 1)]
           Value(f) == f = [r \in S |-> IF r = <<>> \/ FirstLine(r) > MaxFrame THEN <<>>
                                        ELSE NonBlank(SubSeq(r, 1, FirstLine(r))) \o f[Rest(r, FirstLine(r) + 1)]]
           Valued(f) == ListOf(f, Stop, opening, next)
<1>1. ASSUME NEW r \in S \ Stop
      PROVE  /\ NonBlank(SubSeq(r, 1, FirstLine(r))) \in V
             /\ Rest(r, FirstLine(r) + 1) \in S /\ Len(Rest(r, FirstLine(r) + 1)) < Len(r)
  <2> DEFINE n == FirstLine(r)
  <2>1. n \in Nat /\ Len(r) \in Nat /\ n <= Len(r)
    BY UntilOK DEF FirstLine
  <2>2. r # <<>> /\ Len(r) # 0
    BY <1>1
  <2> HIDE DEF n
  <2>3. NonBlank(SubSeq(r, 1, n)) \in V
    BY <2>1, PartOK
  <2>6. n + 1 \in Nat
    BY <2>1
  <2>4. Rest(r, n + 1) \in S
        /\ Len(Rest(r, n + 1)) = IF n + 1 < Len(r) THEN Len(r) - (n + 1) ELSE 0
    BY <2>6, RestOK
  <2>5. Len(Rest(r, n + 1)) < Len(r)
    BY <2>1, <2>2, <2>4
  <2> QED
    BY <2>3, <2>4, <2>5 DEF n
<1>2. \A r \in S : r \notin Stop => opening[r] = NonBlank(SubSeq(r, 1, FirstLine(r))) /\ next[r] = Rest(r, FirstLine(r) + 1)
  OBVIOUS
<1>3. \A r \in S : (IF r \in Stop THEN <<>> ELSE NonBlank(SubSeq(r, 1, FirstLine(r)))) \in V
                   /\ (IF r \in Stop THEN r ELSE Rest(r, FirstLine(r) + 1)) \in S
  BY <1>1
<1>4. opening \in [S -> V] /\ next \in [S -> S]
  <2> HIDE DEF S, V, Stop
  <2> QED
    BY <1>3
<1>5. \A r \in S \ Stop : Len(next[r]) < Len(r)
  BY <1>1, <1>2
<1>6. \A f : Valued(f) <=> Value(f)
  <2>1. \A f : \A r \in S : (IF r \in Stop THEN <<>> ELSE opening[r] \o f[next[r]])
                          = IF r = <<>> \/ FirstLine(r) > MaxFrame THEN <<>> ELSE NonBlank(SubSeq(r, 1, FirstLine(r))) \o f[Rest(r, FirstLine(r) + 1)]
    <3> HIDE DEF opening, next
    <3> QED
      BY <1>2
  <2> HIDE DEF Stop, opening, next
  <2> QED
    BY <2>1, ZenonT(60) DEF ListOf
<1>7. (\E f : Valued(f)) /\ \A f : Valued(f) => f \in [S -> V]
  <2>1. V = Seq(Seq(Bytes))
    OBVIOUS
  <2> HIDE DEF Stop, opening, next, V
  <2> QED
    BY <1>4, <1>5, <2>1, ListOfRests
<1>8. lineFrames = CHOOSE f : Value(f)
  BY DEF lineFrames
<1>9. Value(lineFrames) /\ lineFrames \in [S -> V]
  <2> HIDE DEF Value, Valued
  <2> QED
    BY <1>6, <1>7, <1>8
<1>10. \A r \in S : lineFrames[r] = IF r = <<>> \/ FirstLine(r) > MaxFrame THEN <<>>
                                ELSE NonBlank(SubSeq(r, 1, FirstLine(r))) \o lineFrames[Rest(r, FirstLine(r) + 1)]
  BY <1>9, Zenon
<1> QED
  BY <1>9, <1>10

\* A buffer and what follows it.
LEMMA More ==
  ASSUME NEW b \in Seq(Bytes), NEW t \in Seq(Bytes)
  PROVE  /\ b \o t \in Seq(Bytes) /\ Len(b) \in Nat /\ Len(b \o t) \in Nat /\ Len(t) \in Nat
         /\ Len(b \o t) = Len(b) + Len(t) /\ Len(b) <= Len(b \o t)
         /\ \A i \in 1..Len(b) : (b \o t)[i] = b[i]
         /\ \A i \in 1..Len(t) : (b \o t)[Len(b) + i] = t[i]
<1>1. /\ b \o t \in Seq(Bytes) /\ Len(b \o t) = Len(b) + Len(t)
      /\ \A i \in 1 .. Len(b) + Len(t) : (b \o t)[i] = IF i <= Len(b) THEN b[i] ELSE t[i - Len(b)]
  BY ConcatProperties
<1>2. Len(b) \in Nat /\ Len(t) \in Nat
  OBVIOUS
<1>3. ASSUME NEW i \in 1..Len(t) PROVE (b \o t)[Len(b) + i] = t[i]
  <2>1. Len(b) + i \in 1..(Len(b) + Len(t)) /\ ~(Len(b) + i <= Len(b)) /\ (Len(b) + i) - Len(b) = i
    BY <1>2
  <2> QED
    BY <1>1, <2>1
<1>4. ASSUME NEW i \in 1..Len(b) PROVE (b \o t)[i] = b[i]
  BY <1>1, <1>2
<1> QED
  BY <1>1, <1>2, <1>3, <1>4

LEMMA PartMore ==
  ASSUME NEW b \in Seq(Bytes), NEW t \in Seq(Bytes), NEW m \in Nat \ {0}, NEW n \in Nat, n <= Len(b)
  PROVE  SubSeq(b \o t, m, n) = SubSeq(b, m, n)
<1> DEFINE x == SubSeq(b \o t, m, n)  y == SubSeq(b, m, n)
<1>1. /\ b \o t \in Seq(Bytes) /\ n <= Len(b \o t) /\ Len(b) \in Nat
      /\ \A i \in 1..Len(b) : (b \o t)[i] = b[i]
  BY More
<1>2. /\ x \in Seq(Bytes) /\ Len(x) = (IF m <= n THEN n - m + 1 ELSE 0)
      /\ \A i \in 1..(n - m + 1) : x[i] = (b \o t)[m + i - 1]
  BY <1>1, PartOK
<1>3. /\ y \in Seq(Bytes) /\ Len(y) = (IF m <= n THEN n - m + 1 ELSE 0)
      /\ \A i \in 1..(n - m + 1) : y[i] = b[m + i - 1]
  BY PartOK
<1> HIDE DEF x, y
<1>4. ASSUME NEW i \in 1..Len(x) PROVE x[i] = y[i]
  <2>1. i \in 1..(n - m + 1) /\ m + i - 1 \in 1..Len(b)
    BY <1>1, <1>2
  <2> QED
    BY <1>1, <1>2, <1>3, <2>1
<1>5. x = y
  BY <1>2, <1>3, <1>4, SeqEqual
<1> QED
  BY <1>5 DEF x, y

LEMMA RestMore ==
  ASSUME NEW b \in Seq(Bytes), NEW t \in Seq(Bytes), NEW n \in Nat, n <= Len(b)
  PROVE  Rest(b \o t, n) = Rest(b, n) \o t
<1> DEFINE x == Rest(b \o t, n)  r == Rest(b, n)  y == r \o t
<1>1. /\ b \o t \in Seq(Bytes) /\ Len(b \o t) = Len(b) + Len(t) /\ Len(b) \in Nat /\ Len(t) \in Nat
      /\ \A i \in 1..Len(b) : (b \o t)[i] = b[i]
      /\ \A i \in 1..Len(t) : (b \o t)[Len(b) + i] = t[i]
  BY More
<1>2. /\ x \in Seq(Bytes) /\ Len(x) = (IF n < Len(b \o t) THEN Len(b \o t) - n ELSE 0)
      /\ \A i \in 1..(Len(b \o t) - n) : x[i] = (b \o t)[n + i]
  BY <1>1, RestOK
<1>3. /\ r \in Seq(Bytes) /\ Len(r) = (IF n < Len(b) THEN Len(b) - n ELSE 0)
      /\ \A i \in 1..(Len(b) - n) : r[i] = b[n + i]
  BY RestOK
<1>4. /\ y \in Seq(Bytes) /\ Len(y) = Len(r) + Len(t)
      /\ \A i \in 1..Len(r) : y[i] = r[i]
      /\ \A i \in 1..Len(t) : y[Len(r) + i] = t[i]
  BY <1>3, More
<1> HIDE DEF x, y, r
<1>5. Len(r) = Len(b) - n /\ Len(x) = Len(y) /\ Len(x) = Len(b) + Len(t) - n
  BY <1>1, <1>2, <1>3, <1>4
<1>6. ASSUME NEW i \in 1..Len(x) PROVE x[i] = y[i]
  <2>0. i \in Nat /\ 1 <= i /\ x[i] = (b \o t)[n + i] /\ i <= Len(b) + Len(t) - n
    BY <1>1, <1>2, <1>5
  <2>1. CASE i <= Len(b) - n
    <3>1. i \in 1..(Len(b) - n) /\ i \in 1..Len(r) /\ n + i \in 1..Len(b)
      BY <1>1, <1>5, <2>0, <2>1
    <3> QED
      BY <1>1, <1>3, <1>4, <2>0, <3>1
  <2>2. CASE ~(i <= Len(b) - n)
    <3> DEFINE k == i - Len(r)
    <3>1. k \in 1..Len(t) /\ Len(r) + k = i /\ Len(b) + k = n + i
      BY <1>1, <1>5, <2>0, <2>2
    <3>2. y[Len(r) + k] = t[k] /\ (b \o t)[Len(b) + k] = t[k]
      BY <1>1, <1>4, <3>1
    <3> QED
      BY <2>0, <3>1, <3>2
  <2> QED
    BY <2>1, <2>2
<1>7. x = y
  BY <1>2, <1>4, <1>5, <1>6, SeqEqual
<1> QED
  BY <1>7 DEF x, y, r

LEMMA CountMore ==
  ASSUME NEW b \in Seq(Bytes), NEW t \in Seq(Bytes), HasCount(b)
  PROVE  HasCount(b \o t) /\ Prefix(b \o t) = Prefix(b) /\ Count(b \o t) = Count(b)
<1>1. /\ b \o t \in Seq(Bytes) /\ Len(b) <= Len(b \o t) /\ Len(b) \in Nat /\ Len(b \o t) \in Nat
      /\ \A i \in 1..Len(b) : (b \o t)[i] = b[i]
  BY More
<1>2. /\ Prefix(b) \in 1..MaxDigits /\ b[1] # "0" /\ Prefix(b) < Len(b)
      /\ b[Prefix(b) + 1] = "s"
  BY DEF HasCount
<1>3. Prefix(b \o t) = Prefix(b)
  BY <1>2, UntilMore DEF Prefix
<1>4. Prefix(b) \in Nat /\ 1 \in 1..Len(b) /\ Prefix(b) + 1 \in 1..Len(b)
      /\ Prefix(b) < Len(b \o t) /\ 1 \in Nat \ {0} /\ Prefix(b) <= Len(b)
  BY <1>1, <1>2, FramerAssumption
<1>5. HasCount(b \o t)
  BY <1>1, <1>2, <1>3, <1>4 DEF HasCount
<1>6. SubSeq(b \o t, 1, Prefix(b)) = SubSeq(b, 1, Prefix(b))
  BY <1>4, PartMore
<1> QED
  BY <1>3, <1>5, <1>6 DEF Count

\* One turn of the octet loop, and of the newline loop, whatever follows.
LEMMA OctetTurn ==
  ASSUME NEW b \in Seq(Bytes), NEW t \in Seq(Bytes), Counted(b),
         NEW n, n = Prefix(b) + 1 + Count(b)
  PROVE  /\ n \in Nat /\ n <= Len(b) /\ Rest(b, n) \in Seq(Bytes)
         /\ NonBlank(SubSeq(b, Prefix(b) + 2, n)) \in Seq(Seq(Bytes))
         /\ octetFrames[b \o t] =
              NonBlank(SubSeq(b, Prefix(b) + 2, n)) \o octetFrames[Rest(b, n) \o t]
<1>1. /\ Count(b) \in Nat /\ Prefix(b) \in Nat /\ Len(b) \in Nat
      /\ HasCount(b) /\ Count(b) <= MaxFrame /\ n <= Len(b)
  BY CountNat DEF Counted
<1>2. n \in Nat /\ Prefix(b) + 2 \in Nat \ {0}
  BY <1>1
<1>3. /\ b \o t \in Seq(Bytes) /\ Len(b \o t) \in Nat /\ Len(b) <= Len(b \o t)
  BY More
<1>4. HasCount(b \o t) /\ Prefix(b \o t) = Prefix(b) /\ Count(b \o t) = Count(b)
  BY <1>1, CountMore
<1>5. n <= Len(b \o t)
  BY <1>1, <1>2, <1>3
<1>6. Counted(b \o t)
  BY <1>1, <1>4, <1>5 DEF Counted
<1>7. octetFrames[b \o t] = NonBlank(SubSeq(b \o t, Prefix(b) + 2, n)) \o octetFrames[Rest(b \o t, n)]
  BY <1>3, <1>4, <1>6, OctetFramesIs
<1>8. SubSeq(b \o t, Prefix(b) + 2, n) = SubSeq(b, Prefix(b) + 2, n)
  BY <1>1, <1>2, PartMore
<1>9. Rest(b \o t, n) = Rest(b, n) \o t /\ Rest(b, n) \in Seq(Bytes)
  BY <1>1, <1>2, RestMore, RestOK
<1>10. NonBlank(SubSeq(b, Prefix(b) + 2, n)) \in Seq(Seq(Bytes))
  BY <1>1, <1>2, PartOK
<1> QED
  BY <1>1, <1>2, <1>7, <1>8, <1>9, <1>10

LEMMA LineTurn ==
  ASSUME NEW b \in Seq(Bytes), NEW t \in Seq(Bytes), HasLine(b),
         NEW n, n = FirstLine(b), n <= MaxFrame
  PROVE  /\ n \in Nat /\ n + 1 \in Nat /\ n + 1 <= Len(b) /\ Rest(b, n + 1) \in Seq(Bytes)
         /\ NonBlank(SubSeq(b, 1, n)) \in Seq(Seq(Bytes))
         /\ lineFrames[b \o t] = NonBlank(SubSeq(b, 1, n)) \o lineFrames[Rest(b, n + 1) \o t]
<1>1. n \in Nat /\ Len(b) \in Nat /\ n < Len(b)
  BY UntilOK DEF FirstLine, HasLine
<1>2. n + 1 \in Nat /\ n + 1 <= Len(b) /\ n <= Len(b) /\ 1 \in Nat \ {0}
  BY <1>1
<1>3. b \o t \in Seq(Bytes) /\ Len(b \o t) # 0
  BY <1>1, More
<1>4. FirstLine(b \o t) = n /\ b \o t # <<>>
  BY <1>1, <1>3, UntilMore DEF FirstLine
<1>5. MaxFrame \in Nat /\ ~(n > MaxFrame)
  BY <1>1, FramerAssumption
<1>6. lineFrames[b \o t] = NonBlank(SubSeq(b \o t, 1, n)) \o lineFrames[Rest(b \o t, n + 1)]
  BY <1>3, <1>4, <1>5, LineFramesIs
<1>7. SubSeq(b \o t, 1, n) = SubSeq(b, 1, n)
  BY <1>1, <1>2, PartMore
<1>8. Rest(b \o t, n + 1) = Rest(b, n + 1) \o t /\ Rest(b, n + 1) \in Seq(Bytes)
  BY <1>2, RestMore, RestOK
<1>9. NonBlank(SubSeq(b, 1, n)) \in Seq(Seq(Bytes))
  BY <1>1, <1>2, PartOK
<1> QED
  BY <1>1, <1>2, <1>6, <1>7, <1>8, <1>9

\* Framing by newlines is chosen when no octet count can come any more.
LEMMA Decided ==
  ASSUME NEW b \in Seq(Bytes), NEW t \in Seq(Bytes), NEW e, b # <<>>, ~HasCount(b),
         ~Undecided(b, e), e => t = <<>>
  PROVE  ~HasCount(b \o t)
<1> SUFFICES ASSUME HasCount(b \o t) PROVE FALSE
  OBVIOUS
<1> DEFINE p == Prefix(b \o t)
<1>1. /\ b \o t \in Seq(Bytes) /\ Len(b) <= Len(b \o t) /\ Len(b) \in Nat /\ Len(b \o t) \in Nat
      /\ \A i \in 1..Len(b) : (b \o t)[i] = b[i]
  BY More
<1>2. /\ p \in 1..MaxDigits /\ (b \o t)[1] # "0" /\ p < Len(b \o t) /\ (b \o t)[p + 1] = "s"
  BY DEF HasCount
<1>3. p \in Nat /\ Len(b) \in Nat \ {0} /\ 1 \in 1..Len(b)
  BY <1>1, <1>2, FramerAssumption
<1>4. /\ Prefix(b) <= p /\ (p < Len(b) => Prefix(b) = p)
      /\ \A i \in 1..p : (b \o t)[i] \notin Bytes \ Digits
  <2>1. Prefix(b) <= p /\ (p < Len(b) => Prefix(b) = p)
    BY UntilMore DEF Prefix
  <2>2. \A i \in 1..p : (b \o t)[i] \notin Bytes \ Digits
    BY <1>1, UntilOK DEF Prefix
  <2> QED
    BY <2>1, <2>2
<1> HIDE DEF p
<1>5. Len(b) <= p
  <2>1. SUFFICES ASSUME p < Len(b) PROVE FALSE
    BY <1>3
  <2>2. p + 1 \in 1..Len(b)
    BY <1>3, <2>1
  <2>3. Prefix(b) = p /\ b[1] # "0" /\ b[p + 1] = "s"
    BY <1>1, <1>2, <1>3, <1>4, <2>1, <2>2
  <2>4. HasCount(b)
    BY <1>2, <2>1, <2>3 DEF HasCount
  <2> QED
    BY <2>4
<1>6. \A i \in 1..Len(b) : b[i] \in Digits
  <2>1. ASSUME NEW i \in 1..Len(b) PROVE b[i] \in Digits
    <3>1. i \in 1..p /\ b[i] \in Bytes /\ (b \o t)[i] = b[i]
      BY <1>1, <1>3, <1>5
    <3> QED
      BY <1>4, <3>1
  <2> QED
    BY <2>1
<1>7. \A i \in 1..Len(b) : b[i] \notin Bytes \ Digits /\ b[i] \notin {"s"} /\ b[i] \notin {"n"}
  BY <1>6 DEF Digits
<1>8. Len(b) \in 0..Len(b) /\ ~(Len(b) < Len(b))
  BY <1>1
<1>9. Prefix(b) = Len(b) /\ Until(b, {"s"}) = Len(b) /\ FirstLine(b) = Len(b)
  BY <1>7, <1>8, UntilIs DEF Prefix, FirstLine
<1>10. Prefix(b) <= MaxDigits
  BY <1>2, <1>3, <1>5, <1>9, FramerAssumption
<1>11. b[1] \in Digits /\ ~HasLine(b)
  BY <1>3, <1>6, <1>8, <1>9 DEF HasLine
<1>12. e
  BY <1>9, <1>10, <1>11 DEF Undecided
<1>13. b \o t = b
  BY <1>12, ConcatEmptySeq
<1> QED
  BY <1>13

FrameTypes ==
  /\ stream \in Seq(Bytes) /\ buffer \in Seq(Bytes) /\ mode \in {"none", "octet", "newline"}
  /\ frames \in Seq(Seq(Bytes)) /\ delivered \in Seq(Seq(Bytes))
  /\ eof \in BOOLEAN /\ reading \in BOOLEAN /\ broken \in BOOLEAN
\* what may still come
Follows(t) == t \in Seq(Bytes) /\ (eof => t = <<>>)
BufferIsEnd == \E u \in Seq(Bytes) : stream = u \o buffer
NoModeYet == mode = "none" => /\ buffer = stream /\ frames = <<>> /\ delivered = <<>>
                              /\ eof => buffer = <<>>
AsOctets ==
  mode = "octet" => \A t : Follows(t) =>
    /\ HasCount(stream \o t)
    /\ octetFrames[stream \o t] = (delivered \o frames) \o octetFrames[buffer \o t]
AsLines ==
  mode = "newline" => \A t : Follows(t) =>
    /\ ~HasCount(stream \o t)
    /\ lineFrames[stream \o t] = (delivered \o frames) \o lineFrames[buffer \o t]
InRecv == reading => /\ frames = <<>> /\ Len(buffer) <= MaxFrame + MaxDigits + 1
                     /\ eof => delivered = Frames(stream)
FrameInv == FrameTypes /\ BufferIsEnd /\ NoModeYet /\ AsOctets /\ AsLines /\ InRecv

LEMMA NoBytes ==
  /\ <<>> \in Seq(Bytes) /\ <<>> \in Seq(Seq(Bytes)) /\ Len(<<>>) = 0
  /\ ~HasCount(<<>>) /\ lineFrames[<<>>] = <<>> /\ Frames(<<>>) = <<>> /\ Blank(<<>>)
<1>1. <<>> \in Seq(Bytes) /\ <<>> \in Seq(Seq(Bytes)) /\ Len(<<>>) = 0
  OBVIOUS
<1>2. Prefix(<<>>) \in 0..0
  BY <1>1, UntilOK DEF Prefix
<1>3. Prefix(<<>>) \notin 1..MaxDigits
  BY <1>2, FramerAssumption
<1>4. ~HasCount(<<>>)
  BY <1>3 DEF HasCount
<1>5. lineFrames[<<>>] = <<>>
  BY <1>1, LineFramesIs
<1>6. Blank(<<>>)
  BY DEF Blank, ToSet
<1> QED
  BY <1>1, <1>4, <1>5, <1>6 DEF Frames

LEMMA FrameInitInv == FrameInit => FrameInv
<1> SUFFICES ASSUME FrameInit PROVE FrameInv
  OBVIOUS
<1>1. FrameTypes /\ NoModeYet /\ AsOctets /\ AsLines
  BY NoBytes DEF FrameInit, FrameTypes, NoModeYet, AsOctets, AsLines
<1>2. BufferIsEnd
  <2>1. <<>> = <<>> \o <<>>
    OBVIOUS
  <2> QED
    BY <2>1, NoBytes DEF FrameInit, BufferIsEnd
<1>3. InRecv
  <2>1. 0 <= MaxFrame + MaxDigits + 1
    BY FramerAssumption
  <2> QED
    BY <2>1, NoBytes DEF FrameInit, InRecv
<1> QED
  BY <1>1, <1>2, <1>3 DEF FrameInv

\* The mode that is chosen holds whatever follows.
LEMMA RecvKeeps ==
  ASSUME FrameInv, Recv
  PROVE  FrameInv'
<1>0. /\ reading /\ ~eof /\ reading' = FALSE /\ UNCHANGED <<frames, delivered, broken>>
      /\ stream \in Seq(Bytes) /\ buffer \in Seq(Bytes) /\ frames \in Seq(Seq(Bytes))
      /\ delivered \in Seq(Seq(Bytes))
  BY DEF Recv, FrameInv, FrameTypes
<1> DEFINE Got(n, chunk) == /\ stream' = stream \o chunk /\ buffer' = buffer \o chunk
                            /\ eof' = (n = 0) /\ mode' = Selected(buffer', eof')
<1>a. PICK n \in 0..MaxChunk : \E c \in [1..n -> Bytes] : Got(n, c)
  BY DEF Recv
<1>1. PICK chunk \in [1..n -> Bytes] : Got(n, chunk)
  BY <1>a
<1>2. n \in Nat /\ chunk \in Seq(Bytes) /\ eof' \in BOOLEAN
  <2>1. n \in Nat
    BY FramerAssumption
  <2> QED
    BY <1>1, <2>1
<1>3. stream' \in Seq(Bytes) /\ buffer' \in Seq(Bytes)
  BY <1>0, <1>1, <1>2
<1>4. mode' \in {"none", "octet", "newline"}
  BY <1>1 DEF Selected, FrameInv, FrameTypes
<1>5. FrameTypes'
  BY <1>0, <1>2, <1>3, <1>4 DEF FrameTypes, FrameInv
<1>6. BufferIsEnd'
  <2>1. PICK u \in Seq(Bytes) : stream = u \o buffer
    BY DEF FrameInv, BufferIsEnd
  <2>2. stream \o chunk = u \o (buffer \o chunk)
    BY SMTT(60), <1>0, <1>2, <2>1, ConcatAssociative
  <2> QED
    BY <1>1, <2>1, <2>2 DEF BufferIsEnd
<1>7. ASSUME NEW t, Follows(t)'
      PROVE  /\ t \in Seq(Bytes) /\ (eof' => t = <<>>) /\ Follows(chunk \o t)
             /\ stream' \o t = stream \o (chunk \o t) /\ buffer' \o t = buffer \o (chunk \o t)
             /\ stream' \o t \in Seq(Bytes) /\ buffer' \o t \in Seq(Bytes)
  <2>1. t \in Seq(Bytes) /\ (eof' => t = <<>>)
    BY <1>7 DEF Follows
  <2>2. chunk \o t \in Seq(Bytes)
    BY <1>2, <2>1
  <2>3. stream' \o t = stream \o (chunk \o t) /\ buffer' \o t = buffer \o (chunk \o t)
    <3>1. (stream \o chunk) \o t = stream \o (chunk \o t)
      BY SMTT(60), <1>0, <1>2, <2>1, ConcatAssociative
    <3>2. (buffer \o chunk) \o t = buffer \o (chunk \o t)
      BY SMTT(60), <1>0, <1>2, <2>1, ConcatAssociative
    <3> QED
      BY <1>1, <3>1, <3>2, Zenon
  <2>4. stream' \o t \in Seq(Bytes) /\ buffer' \o t \in Seq(Bytes)
    BY <1>3, <2>1
  <2> QED
    BY <1>0, <2>1, <2>2, <2>3, <2>4 DEF Follows
<1>8. CASE mode # "none"
  <2>1. mode' = mode
    BY <1>1, <1>8 DEF Selected
  <2>2. ASSUME mode = "octet", NEW t, Follows(t)'
        PROVE  /\ HasCount(stream' \o t)
               /\ octetFrames[stream' \o t] = (delivered' \o frames') \o octetFrames[buffer' \o t]
    <3> DEFINE w == chunk \o t
    <3>1. Follows(w) /\ stream' \o t = stream \o w /\ buffer' \o t = buffer \o w
      BY <1>7, <2>2
    <3> HIDE DEF w
    <3>2. HasCount(stream \o w)
          /\ octetFrames[stream \o w] = (delivered \o frames) \o octetFrames[buffer \o w]
      BY <2>2, <3>1 DEF FrameInv, AsOctets
    <3>3. delivered' = delivered /\ frames' = frames
      BY <1>0
    <3> QED
      BY <3>1, <3>2, <3>3, Zenon
  <2>3. ASSUME mode = "newline", NEW t, Follows(t)'
        PROVE  /\ ~HasCount(stream' \o t)
               /\ lineFrames[stream' \o t] = (delivered' \o frames') \o lineFrames[buffer' \o t]
    <3> DEFINE w == chunk \o t
    <3>1. Follows(w) /\ stream' \o t = stream \o w /\ buffer' \o t = buffer \o w
      BY <1>7, <2>3
    <3> HIDE DEF w
    <3>2. ~HasCount(stream \o w)
          /\ lineFrames[stream \o w] = (delivered \o frames) \o lineFrames[buffer \o w]
      BY <2>3, <3>1 DEF FrameInv, AsLines
    <3>3. delivered' = delivered /\ frames' = frames
      BY <1>0
    <3> QED
      BY <3>1, <3>2, <3>3, Zenon
  <2>4. NoModeYet'
    BY <1>8, <2>1 DEF NoModeYet
  <2>5. AsOctets' /\ AsLines'
    BY <2>1, <2>2, <2>3 DEF AsOctets, AsLines
  <2>6. InRecv'
    BY <1>0 DEF InRecv
  <2> QED
    BY <1>5, <1>6, <2>4, <2>5, <2>6 DEF FrameInv
<1>9. CASE mode = "none"
  <2>1. buffer' = stream' /\ frames' = <<>> /\ delivered' = <<>>
    BY <1>0, <1>1, <1>9 DEF FrameInv, NoModeYet
  <2>2. mode' = IF buffer' = <<>> THEN "none"
                ELSE IF HasCount(buffer') THEN "octet"
                ELSE IF Undecided(buffer', eof') THEN "none" ELSE "newline"
    BY <1>1, <1>9 DEF Selected
  <2>3. NoModeYet'
    <3>1. ASSUME mode' = "none", eof', buffer' # <<>> PROVE FALSE
      <4>1. ~Undecided(buffer', eof')
        BY <3>1 DEF Undecided
      <4> QED
        BY <2>2, <3>1, <4>1
    <3> QED
      BY <2>1, <3>1 DEF NoModeYet
  <2>4. \A s \in Seq(Seq(Bytes)) : (delivered' \o frames') \o s = s
    <3>1. <<>> \o <<>> = <<>>
      BY NoBytes, ConcatEmptySeq
    <3> QED
      BY <2>1, <3>1, ConcatEmptySeq
  <2>5. ASSUME mode' = "octet", NEW t, Follows(t)'
        PROVE  /\ HasCount(stream' \o t)
               /\ octetFrames[stream' \o t] = (delivered' \o frames') \o octetFrames[buffer' \o t]
    <3>1. HasCount(buffer') /\ octetFrames[buffer' \o t] \in Seq(Seq(Bytes))
      BY <1>7, <2>2, <2>5, OctetFramesIs
    <3>2. HasCount(buffer' \o t)
      BY <1>3, <1>7, <2>5, <3>1, CountMore
    <3> QED
      BY <2>1, <2>4, <3>1, <3>2
  <2>6. ASSUME mode' = "newline", NEW t, Follows(t)'
        PROVE  /\ ~HasCount(stream' \o t)
               /\ lineFrames[stream' \o t] = (delivered' \o frames') \o lineFrames[buffer' \o t]
    <3>1. buffer' # <<>> /\ ~HasCount(buffer') /\ ~Undecided(buffer', eof')
          /\ lineFrames[buffer' \o t] \in Seq(Seq(Bytes))
      BY <1>7, <2>2, <2>6, LineFramesIs
    <3>2. ~HasCount(buffer' \o t)
      BY <1>3, <1>7, <2>6, <3>1, Decided
    <3> QED
      BY <2>1, <2>4, <3>1, <3>2
  <2>7. AsOctets' /\ AsLines'
    BY Zenon, <2>5, <2>6 DEF AsOctets, AsLines
  <2>8. InRecv'
    BY <1>0 DEF InRecv
  <2> QED
    BY <1>5, <1>6, <2>3, <2>7, <2>8 DEF FrameInv
<1> QED
  BY <1>8, <1>9

\* A frame is cut off the buffer and added to those of this feed().
LEMMA SplitAt ==
  ASSUME NEW b \in Seq(Bytes), NEW n \in Nat, n <= Len(b)
  PROVE  SubSeq(b, 1, n) \in Seq(Bytes) /\ b = SubSeq(b, 1, n) \o Rest(b, n)
<1>1. Len(b) \in Nat /\ 1 \in 1..(Len(b) + 1) /\ n \in 0..Len(b) /\ Len(b) \in n..Len(b)
      /\ 1 \in Nat \ {0} /\ n \in (1 - 1)..Len(b)
  OBVIOUS
<1>2. SubSeq(b, 1, n) \o SubSeq(b, n + 1, Len(b)) = SubSeq(b, 1, Len(b))
  BY <1>1, ConcatAdjacentSubSeq
<1>3. SubSeq(b, 1, Len(b)) = b
  BY SubSeqFull
<1>4. SubSeq(b, 1, n) \in Seq(Bytes)
  BY <1>1, PartOK
<1> QED
  BY Zenon, <1>2, <1>3, <1>4 DEF Rest

LEMMA CutAdds ==
  ASSUME FrameTypes, NEW n, NEW m, Cut(n, m), SubSeq(buffer, n, m) \in Seq(Bytes)
  PROVE  /\ frames' = frames \o NonBlank(SubSeq(buffer, n, m))
         /\ frames' \in Seq(Seq(Bytes)) /\ NonBlank(SubSeq(buffer, n, m)) \in Seq(Seq(Bytes))
         /\ UNCHANGED <<stream, mode, eof, reading, delivered, broken>>
<1> DEFINE f == SubSeq(buffer, n, m)
<1>1. frames' = (IF Blank(f) THEN frames ELSE Append(frames, f)) /\ f \in Seq(Bytes)
      /\ frames \in Seq(Seq(Bytes)) /\ UNCHANGED <<stream, mode, eof, reading, delivered, broken>>
  BY DEF Cut, FrameTypes
<1> HIDE DEF f
<1>2. CASE Blank(f)
  <2>1. NonBlank(f) = <<>> /\ frames \o <<>> = frames
    BY <1>1, <1>2, ConcatEmptySeq DEF NonBlank
  <2> QED
    BY <1>1, <1>2, <2>1, NoBytes DEF f
<1>3. CASE ~Blank(f)
  <2>1. NonBlank(f) = <<f>> /\ <<f>> \in Seq(Seq(Bytes))
    BY <1>1, <1>3 DEF NonBlank
  <2>2. Append(frames, f) = frames \o <<f>> /\ Append(frames, f) \in Seq(Seq(Bytes))
    BY <1>1, AppendIsConcat, AppendProperties
  <2> QED
    BY <1>1, <1>3, <2>1, <2>2 DEF f
<1> QED
  BY <1>2, <1>3

LEMMA FourFrames ==
  ASSUME FrameTypes, NEW c \in Seq(Seq(Bytes)), NEW d \in Seq(Seq(Bytes))
  PROVE  (delivered \o frames) \o (c \o d) = (delivered \o (frames \o c)) \o d
<1> DEFINE S == Seq(Bytes)
<1>1. c \in Seq(S) /\ d \in Seq(S) /\ delivered \in Seq(S) /\ frames \in Seq(S)
  BY DEF FrameTypes
<1> HIDE DEF S
<1>2. delivered \o frames \in Seq(S) /\ frames \o c \in Seq(S)
  BY <1>1, ConcatProperties
<1>3. (delivered \o frames) \o (c \o d) = ((delivered \o frames) \o c) \o d
  <2> DEFINE w == delivered \o frames
  <2>1. w \in Seq(S)
    BY <1>2
  <2> HIDE DEF w
  <2>2. (w \o c) \o d = w \o (c \o d)
    BY SMTT(60), <1>1, <2>1, ConcatAssociative
  <2> QED
    BY <2>2 DEF w
<1>4. (delivered \o frames) \o c = delivered \o (frames \o c)
  BY SMTT(60), <1>1, ConcatAssociative
<1> QED
  BY <1>3, <1>4, Zenon

\* The buffer after a cut is still the end of the stream.
LEMMA StillEnd ==
  ASSUME FrameTypes, BufferIsEnd, NEW n \in Nat, n <= Len(buffer), buffer' = Rest(buffer, n),
         stream' = stream
  PROVE  BufferIsEnd' /\ buffer' \in Seq(Bytes)
<1>1. stream \in Seq(Bytes) /\ buffer \in Seq(Bytes)
  BY DEF FrameTypes
<1>2. PICK u \in Seq(Bytes) : stream = u \o buffer
  BY DEF BufferIsEnd
<1> DEFINE c == SubSeq(buffer, 1, n)  r == Rest(buffer, n)
<1>3. c \in Seq(Bytes) /\ r \in Seq(Bytes) /\ buffer = c \o r
  BY <1>1, SplitAt, RestOK
<1> HIDE DEF c, r
<1>4. u \o (c \o r) = (u \o c) \o r /\ u \o c \in Seq(Bytes)
  BY SMTT(60), <1>2, <1>3, ConcatAssociative, ConcatProperties
<1>5. stream' = (u \o c) \o buffer'
  BY <1>2, <1>3, <1>4 DEF r
<1> QED
  BY <1>3, <1>4, <1>5 DEF BufferIsEnd, r

LEMMA OctetKeeps ==
  ASSUME FrameInv, Octet
  PROVE  FrameInv'
<1> DEFINE n == Prefix(buffer) + 1 + Count(buffer)
<1>1. /\ FrameTypes /\ BufferIsEnd /\ stream \in Seq(Bytes) /\ buffer \in Seq(Bytes)
      /\ frames \in Seq(Seq(Bytes)) /\ delivered \in Seq(Seq(Bytes)) /\ mode = "octet" /\ ~reading
  BY DEF FrameInv, FrameTypes, Octet, OctetReady
<1>2. Counted(buffer)
  BY DEF Octet, OctetReady, Counted
<1>3. Count(buffer) \in Nat /\ Prefix(buffer) \in Nat
  BY <1>1, CountNat
<1>4. Prefix(buffer) + 2 + Count(buffer) - 1 = n
  BY <1>3
<1>5. /\ Cut(Prefix(buffer) + 2, n) /\ buffer' = SubSeq(buffer, n + 1, Len(buffer))
  BY <1>4 DEF Octet
<1> HIDE DEF n
<1>6. buffer' = Rest(buffer, n)
  BY <1>5 DEF Rest
<1> DEFINE f == SubSeq(buffer, Prefix(buffer) + 2, n)
<1>7. n \in Nat /\ n <= Len(buffer) /\ f \in Seq(Bytes)
  <2>1. n = Prefix(buffer) + 1 + Count(buffer)
    BY DEF n
  <2>2. n \in Nat /\ n <= Len(buffer)
    BY <1>2, <1>3, <2>1 DEF Counted
  <2>3. Prefix(buffer) + 2 \in Nat \ {0}
    BY <1>3
  <2> QED
    BY <1>1, <2>2, <2>3, PartOK
<1>8. /\ frames' = frames \o NonBlank(f) /\ frames' \in Seq(Seq(Bytes))
      /\ NonBlank(f) \in Seq(Seq(Bytes))
      /\ UNCHANGED <<stream, mode, eof, reading, delivered, broken>>
  BY <1>1, <1>5, <1>7, CutAdds
<1> HIDE DEF f
<1>9. BufferIsEnd' /\ buffer' \in Seq(Bytes)
  BY <1>1, <1>6, <1>7, <1>8, StillEnd
<1>10. FrameTypes'
  BY <1>1, <1>8, <1>9 DEF FrameTypes
<1>11. ASSUME NEW t, Follows(t)
       PROVE  /\ HasCount(stream \o t)
              /\ octetFrames[stream \o t] = (delivered \o frames') \o octetFrames[buffer' \o t]
  <2>1. t \in Seq(Bytes) /\ buffer' \o t \in Seq(Bytes)
    BY <1>9, <1>11 DEF Follows
  <2>2. /\ HasCount(stream \o t)
        /\ octetFrames[stream \o t] = (delivered \o frames) \o octetFrames[buffer \o t]
    BY <1>1, <1>11 DEF FrameInv, AsOctets
  <2>3. octetFrames[buffer \o t] = NonBlank(f) \o octetFrames[buffer' \o t]
    <3>1. n = Prefix(buffer) + 1 + Count(buffer)
      BY DEF n
    <3> QED
      BY ZenonT(60), <1>1, <1>2, <1>6, <2>1, <3>1, OctetTurn DEF f
  <2>4. octetFrames[buffer' \o t] \in Seq(Seq(Bytes))
    BY <2>1, OctetFramesIs
  <2>5. (delivered \o frames) \o (NonBlank(f) \o octetFrames[buffer' \o t])
          = (delivered \o (frames \o NonBlank(f))) \o octetFrames[buffer' \o t]
    <3> DEFINE c == NonBlank(f)  d == octetFrames[buffer' \o t]
    <3>1. c \in Seq(Seq(Bytes)) /\ d \in Seq(Seq(Bytes))
      BY <1>8, <2>4
    <3> HIDE DEF c, d
    <3>2. (delivered \o frames) \o (c \o d) = (delivered \o (frames \o c)) \o d
      BY <1>1, <3>1, FourFrames, Zenon
    <3> QED
      BY <3>2 DEF c, d
  <2> QED
    BY <1>8, <2>2, <2>3, <2>5, Zenon
<1>12. AsOctets' /\ AsLines' /\ NoModeYet' /\ InRecv'
  BY <1>1, <1>8, <1>11 DEF AsOctets, AsLines, NoModeYet, InRecv, Follows
<1> QED
  BY <1>9, <1>10, <1>12 DEF FrameInv

LEMMA LineKeeps ==
  ASSUME FrameInv, Line
  PROVE  FrameInv'
<1> DEFINE n == FirstLine(buffer)
<1>1. /\ FrameTypes /\ BufferIsEnd /\ stream \in Seq(Bytes) /\ buffer \in Seq(Bytes)
      /\ frames \in Seq(Seq(Bytes)) /\ delivered \in Seq(Seq(Bytes)) /\ mode = "newline" /\ ~reading
  BY DEF FrameInv, FrameTypes, Line, LineReady
<1>2. HasLine(buffer) /\ n <= MaxFrame /\ Cut(1, n) /\ buffer' = SubSeq(buffer, n + 2, Len(buffer))
  BY DEF Line, LineReady
<1>3. n \in Nat /\ n + 1 \in Nat /\ n + 1 <= Len(buffer) /\ (n + 1) + 1 = n + 2 /\ n <= Len(buffer)
      /\ 1 \in Nat \ {0}
  BY <1>1, <1>2, UntilOK DEF FirstLine, HasLine
<1> HIDE DEF n
<1>6. buffer' = Rest(buffer, n + 1)
  BY <1>2, <1>3 DEF Rest
<1> DEFINE f == SubSeq(buffer, 1, n)
<1>7. f \in Seq(Bytes)
  BY <1>1, <1>3, PartOK
<1>8. /\ frames' = frames \o NonBlank(f) /\ frames' \in Seq(Seq(Bytes))
      /\ NonBlank(f) \in Seq(Seq(Bytes))
      /\ UNCHANGED <<stream, mode, eof, reading, delivered, broken>>
  BY <1>1, <1>2, <1>7, CutAdds
<1> HIDE DEF f
<1>9. BufferIsEnd' /\ buffer' \in Seq(Bytes)
  BY <1>1, <1>3, <1>6, <1>8, StillEnd
<1>10. FrameTypes'
  BY <1>1, <1>8, <1>9 DEF FrameTypes
<1>11. ASSUME NEW t, Follows(t)
       PROVE  /\ ~HasCount(stream \o t)
              /\ lineFrames[stream \o t] = (delivered \o frames') \o lineFrames[buffer' \o t]
  <2>1. t \in Seq(Bytes) /\ buffer' \o t \in Seq(Bytes)
    BY <1>9, <1>11 DEF Follows
  <2>2. /\ ~HasCount(stream \o t)
        /\ lineFrames[stream \o t] = (delivered \o frames) \o lineFrames[buffer \o t]
    BY <1>1, <1>11 DEF FrameInv, AsLines
  <2>3. lineFrames[buffer \o t] = NonBlank(f) \o lineFrames[buffer' \o t]
    <3>1. n = FirstLine(buffer)
      BY DEF n
    <3>2. lineFrames[buffer \o t]
            = NonBlank(SubSeq(buffer, 1, n)) \o lineFrames[Rest(buffer, n + 1) \o t]
      BY ZenonT(60), <1>1, <1>2, <2>1, <3>1, LineTurn
    <3> QED
      BY <1>6, <3>2, Zenon DEF f
  <2>4. lineFrames[buffer' \o t] \in Seq(Seq(Bytes))
    BY <2>1, LineFramesIs
  <2>5. (delivered \o frames) \o (NonBlank(f) \o lineFrames[buffer' \o t])
          = (delivered \o (frames \o NonBlank(f))) \o lineFrames[buffer' \o t]
    <3> DEFINE c == NonBlank(f)  d == lineFrames[buffer' \o t]
    <3>1. c \in Seq(Seq(Bytes)) /\ d \in Seq(Seq(Bytes))
      BY <1>8, <2>4
    <3> HIDE DEF c, d
    <3>2. (delivered \o frames) \o (c \o d) = (delivered \o (frames \o c)) \o d
      BY <1>1, <3>1, FourFrames, Zenon
    <3> QED
      BY <3>2 DEF c, d
  <2> QED
    BY <1>8, <2>2, <2>3, <2>5, Zenon
<1>12. AsOctets' /\ AsLines' /\ NoModeYet' /\ InRecv'
  BY <1>1, <1>8, <1>11 DEF AsOctets, AsLines, NoModeYet, InRecv, Follows
<1> QED
  BY <1>9, <1>10, <1>12 DEF FrameInv

LEMMA LastLineKeeps ==
  ASSUME FrameInv, LastLine
  PROVE  FrameInv'
<1> DEFINE n == Len(buffer)
<1>1. /\ FrameTypes /\ stream \in Seq(Bytes) /\ buffer \in Seq(Bytes)
      /\ frames \in Seq(Seq(Bytes)) /\ delivered \in Seq(Seq(Bytes)) /\ mode = "newline" /\ ~reading
      /\ eof /\ ~HasLine(buffer) /\ ~Blank(buffer) /\ n <= MaxFrame /\ n \in Nat
      /\ Cut(1, n) /\ buffer' = <<>>
  BY DEF FrameInv, FrameTypes, LastLine, LastReady
<1>2. SubSeq(buffer, 1, n) = buffer /\ buffer # <<>>
  BY <1>1, SubSeqFull, NoBytes
<1>3. FirstLine(buffer) = n
  <2>1. FirstLine(buffer) \in 0..n /\ ~(FirstLine(buffer) < n)
    BY <1>1, UntilOK DEF FirstLine, HasLine
  <2> QED
    BY <1>1, <2>1
<1>4. n + 1 \in Nat /\ ~(n + 1 < n) /\ ~(n > MaxFrame)
  BY <1>1, FramerAssumption
<1>5. Rest(buffer, n + 1) = <<>>
  <2>1. Rest(buffer, n + 1) \in Seq(Bytes) /\ Len(Rest(buffer, n + 1)) = 0
    BY <1>1, <1>4, RestOK
  <2> QED
    BY <2>1, EmptySeq
<1> DEFINE f == SubSeq(buffer, 1, n)
<1>6. /\ frames' = frames \o NonBlank(f) /\ frames' \in Seq(Seq(Bytes))
      /\ NonBlank(f) \in Seq(Seq(Bytes))
      /\ UNCHANGED <<stream, mode, eof, reading, delivered, broken>>
  BY <1>1, <1>2, CutAdds
<1>7. lineFrames[buffer] = NonBlank(f) \o lineFrames[<<>>]
  <2>1. lineFrames[buffer] = NonBlank(SubSeq(buffer, 1, FirstLine(buffer)))
                               \o lineFrames[Rest(buffer, FirstLine(buffer) + 1)]
    BY <1>1, <1>2, <1>3, <1>4, LineFramesIs
  <2> HIDE DEF n
  <2> QED
    BY <1>3, <1>5, <2>1, Zenon
<1> HIDE DEF f, n
<1>8. BufferIsEnd'
  <2>1. stream = stream \o <<>>
    BY <1>1, ConcatEmptySeq
  <2> QED
    BY <1>1, <1>6, <2>1 DEF BufferIsEnd
<1>9. FrameTypes'
  BY <1>1, <1>6, NoBytes DEF FrameTypes
<1>10. ASSUME NEW t, Follows(t)
       PROVE  /\ ~HasCount(stream \o t)
              /\ lineFrames[stream \o t] = (delivered \o frames') \o lineFrames[buffer' \o t]
  <2>1. t = <<>> /\ buffer \o t = buffer /\ buffer' \o t = <<>>
    <3>1. t = <<>>
      BY <1>1, <1>10 DEF Follows
    <3> QED
      BY <1>1, <3>1, ConcatEmptySeq, NoBytes
  <2>2. /\ ~HasCount(stream \o t)
        /\ lineFrames[stream \o t] = (delivered \o frames) \o lineFrames[buffer \o t]
    BY <1>1, <1>10 DEF FrameInv, AsLines
  <2> DEFINE c == NonBlank(f)  d == lineFrames[<<>>]
  <2>3. c \in Seq(Seq(Bytes)) /\ d \in Seq(Seq(Bytes))
    BY <1>6, NoBytes
  <2>4. lineFrames[buffer \o t] = c \o d /\ frames' = frames \o c /\ lineFrames[buffer' \o t] = d
    BY <1>6, <1>7, <2>1, Zenon
  <2> HIDE DEF c, d
  <2>5. (delivered \o frames) \o (c \o d) = (delivered \o (frames \o c)) \o d
    BY <1>1, <2>3, FourFrames, Zenon
  <2> QED
    BY <2>2, <2>4, <2>5, Zenon
<1>11. AsOctets' /\ AsLines' /\ NoModeYet' /\ InRecv'
  BY <1>1, <1>6, <1>10 DEF AsOctets, AsLines, NoModeYet, InRecv, Follows
<1> QED
  BY <1>8, <1>9, <1>11 DEF FrameInv

\* What is left when feed() returns is short, and at the end it has no frame.
LEMMA Leftover ==
  ASSUME FrameTypes, ~Invalid, ~OctetReady, ~LineReady, ~LastReady
  PROVE  /\ Len(buffer) <= MaxFrame + MaxDigits + 1
         /\ mode = "octet" => octetFrames[buffer] = <<>>
         /\ mode = "newline" /\ eof => lineFrames[buffer] = <<>>
<1>1. /\ buffer \in Seq(Bytes) /\ Len(buffer) \in Nat /\ mode \in {"none", "octet", "newline"}
      /\ Count(buffer) \in Nat /\ Prefix(buffer) \in Nat
      /\ MaxFrame \in Nat /\ MaxDigits \in Nat
  BY CountNat, FramerAssumption DEF FrameTypes
<1>2. CASE mode = "none"
  BY <1>1, <1>2 DEF Invalid
<1>3. CASE mode = "octet"
  <2>1. ~OctetError /\ ~Counted(buffer)
    BY <1>3 DEF Invalid, OctetReady, Counted
  <2>2. octetFrames[buffer] = <<>>
    BY <1>1, <2>1, OctetFramesIs
  <2>3. CASE HasCount(buffer)
    <3>1. Count(buffer) <= MaxFrame /\ ~(Prefix(buffer) + 1 + Count(buffer) <= Len(buffer))
      BY <1>1, <2>1, <2>3 DEF OctetError, Counted
    <3>2. Prefix(buffer) <= MaxDigits
      BY <1>1, <2>3 DEF HasCount
    <3>3. Len(buffer) <= MaxFrame + MaxDigits + 1
      BY <1>1, <3>1, <3>2
    <3> QED
      BY <1>3, <2>2, <3>3
  <2>4. CASE ~HasCount(buffer)
    <3>1. buffer = <<>> \/ ~(Len(buffer) > MaxDigits + 1)
      BY <2>1, <2>4 DEF OctetError
    <3>2. Len(buffer) <= MaxFrame + MaxDigits + 1
      BY <1>1, <3>1, NoBytes
    <3> QED
      BY <1>3, <2>2, <3>2
  <2> QED
    BY <2>3, <2>4
<1>4. CASE mode = "newline"
  <2>1. FirstLine(buffer) \in 0..Len(buffer)
    BY <1>1, UntilOK DEF FirstLine
  <2>2. ~(FirstLine(buffer) > MaxFrame)
    BY <1>4 DEF Invalid, LineError
  <2>3. ~HasLine(buffer)
    BY <1>1, <1>4, <2>1, <2>2 DEF LineReady
  <2>4. FirstLine(buffer) = Len(buffer) /\ Len(buffer) <= MaxFrame
    BY <1>1, <2>1, <2>2, <2>3 DEF HasLine
  <2>5. Len(buffer) <= MaxFrame + MaxDigits + 1
    BY <1>1, <2>4
  <2>6. ASSUME eof, buffer # <<>> PROVE lineFrames[buffer] = <<>>
    <3>1. Blank(buffer)
      BY <1>4, <2>3, <2>4, <2>6 DEF LastReady
    <3>2. lineFrames[buffer] = NonBlank(SubSeq(buffer, 1, FirstLine(buffer)))
                                 \o lineFrames[Rest(buffer, FirstLine(buffer) + 1)]
      BY <1>1, <2>2, <2>6, LineFramesIs
    <3>3. SubSeq(buffer, 1, FirstLine(buffer)) = buffer
      BY <1>1, <2>4, SubSeqFull
    <3>4. Len(buffer) + 1 \in Nat /\ ~(Len(buffer) + 1 < Len(buffer))
      BY <1>1
    <3>5. Rest(buffer, Len(buffer) + 1) \in Seq(Bytes) /\ Len(Rest(buffer, Len(buffer) + 1)) = 0
      BY <1>1, <3>4, RestOK
    <3>6. Rest(buffer, FirstLine(buffer) + 1) = <<>>
      BY <2>4, <3>5, EmptySeq
    <3>7. NonBlank(buffer) = <<>> /\ lineFrames[<<>>] = <<>>
      BY <3>1, NoBytes DEF NonBlank
    <3>8. lineFrames[buffer] = <<>> \o <<>>
      BY <3>2, <3>3, <3>6, <3>7, Zenon
    <3> QED
      BY <3>8, NoBytes, ConcatEmptySeq
  <2>7. eof => lineFrames[buffer] = <<>>
    BY <2>6, NoBytes
  <2> QED
    BY <1>4, <2>5, <2>7
<1> QED
  BY <1>1, <1>2, <1>3, <1>4

LEMMA ReturnKeeps ==
  ASSUME FrameInv, Return
  PROVE  FrameInv'
<1>1. /\ FrameTypes /\ stream \in Seq(Bytes) /\ buffer \in Seq(Bytes) /\ mode \in {"none", "octet", "newline"}
      /\ frames \in Seq(Seq(Bytes)) /\ delivered \in Seq(Seq(Bytes))
      /\ delivered' = delivered \o frames /\ frames' = <<>> /\ reading' = TRUE
      /\ UNCHANGED <<stream, buffer, mode, eof, broken>>
  BY DEF FrameInv, FrameTypes, Return
<1>2. /\ Len(buffer) <= MaxFrame + MaxDigits + 1
      /\ mode = "octet" => octetFrames[buffer] = <<>>
      /\ mode = "newline" /\ eof => lineFrames[buffer] = <<>>
  BY <1>1, Leftover DEF Return
<1>3. delivered' \in Seq(Seq(Bytes)) /\ delivered' \o frames' = delivered \o frames
      /\ delivered' \o <<>> = delivered'
  <2>1. delivered \o frames \in Seq(Seq(Bytes))
    BY <1>1, ConcatProperties
  <2> QED
    BY <1>1, <2>1, ConcatEmptySeq
<1>4. FrameTypes'
  BY <1>1, <1>3, NoBytes DEF FrameTypes
<1>5. BufferIsEnd'
  BY <1>1 DEF FrameInv, BufferIsEnd
<1>6. NoModeYet'
  <2>1. mode = "none" => delivered' = <<>>
    BY <1>1, NoBytes, ConcatEmptySeq DEF FrameInv, NoModeYet
  <2> QED
    BY <1>1, <2>1 DEF FrameInv, NoModeYet
<1>7. AsOctets' /\ AsLines'
  <2>1. ASSUME mode = "octet", NEW t, Follows(t)
        PROVE  /\ HasCount(stream \o t)
               /\ octetFrames[stream \o t] = (delivered' \o frames') \o octetFrames[buffer \o t]
    <3>1. /\ HasCount(stream \o t)
          /\ octetFrames[stream \o t] = (delivered \o frames) \o octetFrames[buffer \o t]
      BY <2>1 DEF FrameInv, AsOctets
    <3> QED
      BY <1>3, <3>1, Zenon
  <2>2. ASSUME mode = "newline", NEW t, Follows(t)
        PROVE  /\ ~HasCount(stream \o t)
               /\ lineFrames[stream \o t] = (delivered' \o frames') \o lineFrames[buffer \o t]
    <3>1. /\ ~HasCount(stream \o t)
          /\ lineFrames[stream \o t] = (delivered \o frames) \o lineFrames[buffer \o t]
      BY <2>2 DEF FrameInv, AsLines
    <3> QED
      BY <1>3, <3>1, Zenon
  <2> QED
    BY <1>1, <2>1, <2>2 DEF AsOctets, AsLines, Follows
<1>8. ASSUME eof PROVE delivered' = Frames(stream)
  <2>1. Follows(<<>>) /\ stream \o <<>> = stream /\ buffer \o <<>> = buffer
    BY <1>1, NoBytes, ConcatEmptySeq DEF Follows
  <2>2. CASE mode = "octet"
    <3>1. HasCount(stream \o <<>>)
          /\ octetFrames[stream \o <<>>] = (delivered \o frames) \o octetFrames[buffer \o <<>>]
      BY <2>1, <2>2 DEF FrameInv, AsOctets
    <3>2. HasCount(stream) /\ octetFrames[stream] = delivered' \o <<>>
      BY <1>1, <1>2, <2>1, <2>2, <3>1, Zenon
    <3> QED
      BY <1>3, <3>2 DEF Frames
  <2>3. CASE mode = "newline"
    <3>1. ~HasCount(stream \o <<>>)
          /\ lineFrames[stream \o <<>>] = (delivered \o frames) \o lineFrames[buffer \o <<>>]
      BY <2>1, <2>3 DEF FrameInv, AsLines
    <3>2. ~HasCount(stream) /\ lineFrames[stream] = delivered' \o <<>>
      BY <1>1, <1>2, <1>8, <2>1, <2>3, <3>1, Zenon
    <3> QED
      BY <1>3, <3>2 DEF Frames
  <2>4. CASE mode = "none"
    <3>1. stream = <<>> /\ delivered' = <<>>
      BY <1>1, <1>6, <1>8, <2>4 DEF FrameInv, NoModeYet
    <3> QED
      BY <3>1, NoBytes
  <2> QED
    BY <1>1, <2>2, <2>3, <2>4
<1>9. InRecv'
  <2>1. Frames(stream') = Frames(stream)
    BY <1>1
  <2> QED
    BY <1>1, <1>2, <1>8, <2>1 DEF InRecv
<1> QED
  BY <1>4, <1>5, <1>6, <1>7, <1>9 DEF FrameInv

LEMMA FrameNextInv == FrameInv /\ [FrameNext]_frameVars => FrameInv'
<1> SUFFICES ASSUME FrameInv, [FrameNext]_frameVars PROVE FrameInv'
  OBVIOUS
<1>1. CASE UNCHANGED frameVars
  BY <1>1 DEF frameVars, FrameInv, FrameTypes, BufferIsEnd, NoModeYet, AsOctets, AsLines, InRecv,
              Follows
<1>2. CASE Break
  <2>1. UNCHANGED <<stream, buffer, mode, frames, eof, reading, delivered>> /\ broken' = TRUE
    BY <1>2 DEF Break
  <2> QED
    BY <2>1 DEF FrameInv, FrameTypes, BufferIsEnd, NoModeYet, AsOctets, AsLines, InRecv, Follows
<1> QED
  BY <1>1, <1>2, RecvKeeps, OctetKeeps, LineKeeps, LastLineKeeps, ReturnKeeps DEF FrameNext

LEMMA FrameAlways == FrameSpec => []FrameInv
BY FrameInitInv, FrameNextInv, PTL DEF FrameSpec

LEMMA FirstPart ==
  ASSUME NEW S, NEW s \in Seq(S), NEW u \in Seq(S)
  PROVE  IsPrefix(s, s \o u)
<1>1. s \o u \in Seq(S) /\ Len(s \o u) = Len(s) + Len(u) /\ Len(s) \in Nat /\ Len(u) \in Nat
  BY ConcatProperties
<1>2. CASE Len(s) = 0
  <2>1. SubSeq(s \o u, 1, 0) = <<>> /\ SubSeq(s, 1, 0) = <<>>
    BY SubSeqEmpty
  <2> QED
    BY <1>1, <1>2, <2>1 DEF IsPrefix
<1>3. CASE Len(s) # 0
  <2>1. 1 \in 1..Len(s) /\ Len(s) \in 1..Len(s) /\ Len(s) <= Len(s) + Len(u)
    BY <1>1, <1>3
  <2>2. SubSeq(s \o u, 1, Len(s)) = SubSeq(s, 1, Len(s))
    BY <2>1, SubSeqOfConcat1
  <2> QED
    BY <1>1, <2>1, <2>2 DEF IsPrefix
<1> QED
  BY <1>2, <1>3

LEMMA ReverseIs ==
  ASSUME NEW S, NEW s \in Seq(S)
  PROVE  /\ Reverse(s) \in Seq(S) /\ Len(Reverse(s)) = Len(s)
         /\ \A i \in 1..Len(s) : Reverse(s)[i] = s[Len(s) - i + 1]
<1>1. Len(s) \in Nat /\ \A i \in 1..Len(s) : Len(s) - i + 1 \in 1..Len(s)
  OBVIOUS
<1>2. \A i \in 1..Len(s) : s[Len(s) - i + 1] \in S
  BY <1>1
<1>3. Reverse(s) = [i \in 1..Len(s) |-> s[Len(s) - i + 1]]
  BY DEF Reverse
<1> DEFINE r == Reverse(s)  n == Len(s)
<1>4. r \in [1..n -> S] /\ n \in Nat
  BY <1>1, <1>2, <1>3
<1>5. \A i \in 1..n : r[i] = s[n - i + 1]
  BY <1>3
<1> HIDE DEF r, n
<1>6. r \in Seq(S) /\ Len(r) = n
  BY <1>4, SeqDef
<1> QED
  BY <1>5, <1>6 DEF r, n

LEMMA LastPart ==
  ASSUME NEW S, NEW u \in Seq(S), NEW b \in Seq(S)
  PROVE  IsSuffix(b, u \o b)
<1> DEFINE n == Len(b)  x == Reverse(b)  y == Reverse(u \o b)
<1>1. /\ u \o b \in Seq(S) /\ Len(u \o b) = Len(u) + n /\ n \in Nat /\ Len(u) \in Nat
      /\ \A i \in 1..(Len(u) + n) : (u \o b)[i] = IF i <= Len(u) THEN u[i] ELSE b[i - Len(u)]
  BY ConcatProperties
<1>2. /\ x \in Seq(S) /\ Len(x) = n /\ \A i \in 1..n : x[i] = b[n - i + 1]
  BY ReverseIs
<1>3. /\ y \in Seq(S) /\ Len(y) = Len(u) + n
      /\ \A i \in 1..(Len(u) + n) : y[i] = (u \o b)[Len(u) + n - i + 1]
  <2> DEFINE z == u \o b
  <2>1. z \in Seq(S) /\ Len(z) = Len(u) + n
    BY <1>1
  <2> HIDE DEF z
  <2>2. /\ Reverse(z) \in Seq(S) /\ Len(Reverse(z)) = Len(z)
        /\ \A i \in 1..Len(z) : Reverse(z)[i] = z[Len(z) - i + 1]
    BY <2>1, ReverseIs
  <2> QED
    BY <2>1, <2>2 DEF z
<1> HIDE DEF n, x, y
<1>4. \A i \in 1..n : y[i] = x[i]
  <2>1. ASSUME NEW i \in 1..n PROVE y[i] = x[i]
    <3> DEFINE j == Len(u) + n - i + 1
    <3>1. i \in 1..(Len(u) + n) /\ j \in 1..(Len(u) + n) /\ ~(j <= Len(u)) /\ j - Len(u) = n - i + 1
      BY <1>1
    <3>2. y[i] = (u \o b)[j]
      BY <1>3, <3>1
    <3> HIDE DEF j
    <3>3. (u \o b)[j] = b[j - Len(u)]
      BY <1>1, <3>1
    <3> QED
      BY <1>2, <3>1, <3>2, <3>3
  <2> QED
    BY <2>1
<1>5. SubSeq(y, 1, n) = x
  <2>1. \A i \in 1..n : y[i] \in S
    BY <1>2, <1>4
  <2>2. /\ SubSeq(y, 1, n) \in Seq(S) /\ Len(SubSeq(y, 1, n)) = (IF 1 <= n THEN n - 1 + 1 ELSE 0)
        /\ \A i \in 1..(n - 1 + 1) : SubSeq(y, 1, n)[i] = y[1 + i - 1]
    BY <1>1, <2>1, SubSeqProperties
  <2>3. Len(SubSeq(y, 1, n)) = n
    BY <1>1, <2>2
  <2>4. \A i \in 1..n : SubSeq(y, 1, n)[i] = x[i]
    <3>1. ASSUME NEW i \in 1..n PROVE SubSeq(y, 1, n)[i] = x[i]
      <4>1. i \in 1..(n - 1 + 1) /\ 1 + i - 1 = i
        BY <1>1
      <4>2. SubSeq(y, 1, n)[i] = y[i]
        BY <2>2, <4>1
      <4> QED
        BY <1>4, <4>2
    <3> QED
      BY <3>1
  <2> QED
    BY <1>2, <2>2, <2>3, <2>4, SeqEqual
<1>6. SubSeq(x, 1, n) = x
  BY <1>2, SubSeqFull
<1>7. IsPrefix(x, y)
  BY <1>1, <1>2, <1>3, <1>5, <1>6 DEF IsPrefix
<1> QED
  BY <1>7 DEF IsSuffix, x, y

LEMMA FrameTypesFollow == FrameInv => FrameTypeOK
<1> SUFFICES ASSUME FrameInv PROVE FrameTypeOK
  OBVIOUS
<1>1. FrameTypes /\ buffer \in Seq(Bytes)
  BY DEF FrameInv, FrameTypes
<1>2. PICK u \in Seq(Bytes) : stream = u \o buffer
  BY DEF FrameInv, BufferIsEnd
<1>3. IsSuffix(buffer, stream)
  BY <1>1, <1>2, LastPart
<1>4. reading => Len(buffer) <= MaxFrame + MaxDigits + 1
  BY DEF FrameInv, InRecv
<1>5. {eof, reading, broken} \subseteq BOOLEAN
  BY <1>1, Zenon DEF FrameTypes
<1> QED
  BY <1>1, <1>3, <1>4, <1>5 DEF FrameTypeOK, FrameTypes

\* At any moment: nothing may follow, so what was delivered begins the
\* stream's frames.
LEMMA FramesFollow == FrameInv => FramesExact
<1> SUFFICES ASSUME FrameInv PROVE FramesExact
  OBVIOUS
<1>1. /\ FrameTypes /\ stream \in Seq(Bytes) /\ buffer \in Seq(Bytes)
      /\ frames \in Seq(Seq(Bytes)) /\ delivered \in Seq(Seq(Bytes))
      /\ mode \in {"none", "octet", "newline"}
  BY DEF FrameInv, FrameTypes
<1>2. Follows(<<>>) /\ stream \o <<>> = stream /\ buffer \o <<>> = buffer
  BY <1>1, NoBytes, ConcatEmptySeq DEF Follows
<1>3. ASSUME NEW rest \in Seq(Seq(Bytes)), Frames(stream) = (delivered \o frames) \o rest
      PROVE  OnlyFrames
  <2> DEFINE S == Seq(Bytes)
  <2>1. delivered \in Seq(S) /\ frames \in Seq(S) /\ rest \in Seq(S)
    BY <1>1, <1>3
  <2> HIDE DEF S
  <2>2. frames \o rest \in Seq(S)
    BY <2>1, ConcatProperties
  <2>3. (delivered \o frames) \o rest = delivered \o (frames \o rest)
    BY <2>1, ConcatAssociative
  <2>4. IsPrefix(delivered, delivered \o (frames \o rest))
    BY <2>1, <2>2, FirstPart
  <2> QED
    BY <1>3, <2>3, <2>4, Zenon DEF OnlyFrames
<1>4. CASE mode = "octet"
  <2>1. HasCount(stream \o <<>>)
        /\ octetFrames[stream \o <<>>] = (delivered \o frames) \o octetFrames[buffer \o <<>>]
    BY <1>2, <1>4 DEF FrameInv, AsOctets
  <2>2. Frames(stream) = (delivered \o frames) \o octetFrames[buffer]
    BY <1>2, <2>1 DEF Frames
  <2>3. octetFrames[buffer] \in Seq(Seq(Bytes))
    BY <1>1, OctetFramesIs
  <2>4. OnlyFrames
    BY <1>3, <2>2, <2>3
  <2> QED
    BY <2>4 DEF FramesExact, FrameInv, InRecv, AllFrames
<1>5. CASE mode = "newline"
  <2>1. ASSUME Follows(<<>>) PROVE OnlyFrames
    <3>1. ~HasCount(stream \o <<>>)
          /\ lineFrames[stream \o <<>>] = (delivered \o frames) \o lineFrames[buffer \o <<>>]
      BY <1>2, <1>5 DEF FrameInv, AsLines
    <3>2. Frames(stream) = (delivered \o frames) \o lineFrames[buffer]
      BY <1>2, <3>1 DEF Frames
    <3>3. lineFrames[buffer] \in Seq(Seq(Bytes))
      BY <1>1, LineFramesIs
    <3> QED
      BY <1>3, <3>2, <3>3
  <2> QED
    BY <1>2, <2>1 DEF FramesExact, FrameInv, InRecv, AllFrames
<1>6. CASE mode = "none"
  <2> DEFINE S == Seq(Bytes)
  <2>1. delivered = <<>> /\ Frames(stream) \in Seq(S)
    BY <1>1, <1>6, OctetFramesIs, LineFramesIs DEF FrameInv, NoModeYet, Frames
  <2>2. <<>> \in Seq(S)
    BY <1>1, <2>1
  <2> HIDE DEF S
  <2>3. <<>> \o Frames(stream) = Frames(stream)
    BY <2>1, ConcatEmptySeq
  <2>4. IsPrefix(<<>>, <<>> \o Frames(stream))
    BY <2>1, <2>2, FirstPart
  <2>5. OnlyFrames
    BY <2>1, <2>3, <2>4 DEF OnlyFrames
  <2> QED
    BY <2>5 DEF FramesExact, FrameInv, InRecv, AllFrames
<1> QED
  BY <1>1, <1>4, <1>5, <1>6

\* However a connection's bytes are cut into the chunks that recv() returns,
\* the framer hands on the frames of the whole stream in their order, no part
\* of one, and all of them at the end of a stream that breaks no rule; what it
\* keeps for the next chunk is bounded.
THEOREM FramesExactHolds == FrameSpec => [](FrameTypeOK /\ FramesExact)
BY FrameAlways, FrameTypesFollow, FramesFollow, PTL
=============================================================================
