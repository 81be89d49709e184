---------------------------- MODULE JournalReader ----------------------------
(***************************************************************************)
(* linux_agent/minisiem-agent.py, journald_loop: the entries that          *)
(* `journalctl --follow` hands out are given to send() and the cursor of   *)
(* the last one is kept in the State that file_loop saves too.  Without a  *)
(* cursor the reader starts at the journal's end.                          *)
(***************************************************************************)
EXTENDS Naturals, FiniteSets

CONSTANTS MaxEntries,   \* bound on the entries of the journal
          SaveEvery,    \* cursors between two saves (20)
          MaxEnds       \* bound on ends of the agent and failed saves
ASSUME JournalAssumption == /\ MaxEntries \in Nat \ {0} /\ SaveEvery \in Nat \ {0}
                            /\ MaxEnds \in Nat

VARIABLES
  unwanted,   \* entries over min_priority or of another unit
  written,    \* entries in the journal
  cursor,     \* state.data["cursor"], 0 is none
  onDisk,     \* the cursor of the state file
  reader,     \* "down", "read", "sent" (cursor not yet kept), "ended"
  at,         \* entries that journalctl has handed out or skipped
  count,      \* cursors kept since the start, modulo SaveEvery
  given,      \* history: how often an entry was given to send() (2: or more)
  before,     \* history: entries skipped by a start without a cursor
  killed,     \* history: a kill, or a stop between send() and the cursor
  unsaved,    \* history: a save failed
  ends
journalVars == <<unwanted, written, cursor, onDisk, reader, at, count, given,
                 before, killed, unsaved, ends>>

Entries == 1..MaxEntries
JournalInit ==
  /\ unwanted \in SUBSET Entries /\ written \in 0..1
  /\ cursor = 0 /\ onDisk = 0 /\ reader = "down" /\ at = 0 /\ count = 0
  /\ given = [i \in Entries |-> 0] /\ before = {} /\ killed = FALSE
  /\ unsaved = FALSE /\ ends = 0

LogEntry ==
  /\ written < MaxEntries /\ written' = written + 1
  /\ UNCHANGED <<unwanted, cursor, onDisk, reader, at, count, given, before,
                 killed, unsaved, ends>>
\* State.load(), then journalctl --after-cursor or -n 0
StartReader ==
  /\ reader = "down" /\ reader' = "read" /\ cursor' = onDisk /\ count' = 0
  /\ at' = IF onDisk # 0 THEN onDisk ELSE written
  /\ before' = IF onDisk # 0 THEN before ELSE before \cup 1..written
  /\ UNCHANGED <<unwanted, written, onDisk, given, killed, unsaved, ends>>
\* journalctl filters by unit, the loop by priority: the cursor stays
SkipEntry ==
  /\ reader = "read" /\ at < written /\ at + 1 \in unwanted /\ at' = at + 1
  /\ UNCHANGED <<unwanted, written, cursor, onDisk, reader, count, given,
                 before, killed, unsaved, ends>>
\* send(), whether or not the line gets out
SendEntry ==
  /\ reader = "read" /\ at < written /\ at + 1 \notin unwanted
  /\ reader' = "sent" /\ at' = at + 1
  /\ given' = [given EXCEPT ![at + 1] = IF @ = 0 THEN 1 ELSE 2]
  /\ UNCHANGED <<unwanted, written, cursor, onDisk, count, before, killed,
                 unsaved, ends>>
Ending == ends < MaxEnds /\ ends' = ends + 1
\* the tmp file is renamed or nothing changes; an exception is logged
SaveOf(c) == \/ onDisk' = c /\ UNCHANGED <<unsaved, ends>>
             \/ UNCHANGED onDisk /\ unsaved' = TRUE /\ Ending
SaveLate == (count + 1) % (SaveEvery + 1) = 0     \* mutant: one more
SaveDue == (count + 1) % SaveEvery = 0
KeepCursor ==
  /\ reader = "sent" /\ reader' = "read" /\ cursor' = at
  /\ count' = (count + 1) % SaveEvery
  /\ IF SaveDue THEN SaveOf(at) ELSE UNCHANGED <<onDisk, unsaved, ends>>
  /\ UNCHANGED <<unwanted, written, at, given, before, killed>>
\* file_loop saves the same State after each round
OtherSave ==
  /\ reader # "down" /\ onDisk # cursor /\ onDisk' = cursor
  /\ UNCHANGED <<unwanted, written, cursor, reader, at, count, given, before,
                 killed, unsaved, ends>>
\* journalctl's output ends: `finally` saves, the source stays off
JournalEnds ==
  /\ reader = "read" /\ reader' = "ended" /\ Ending
  /\ \E ok \in BOOLEAN : /\ onDisk' = IF ok THEN cursor ELSE onDisk
                        /\ unsaved' = (unsaved \/ ~ok)
  /\ UNCHANGED <<unwanted, written, cursor, at, count, given, before, killed>>
\* SIGTERM: main() waits two seconds for the threads and saves; if that
\* fails, it is a kill
StopReader ==
  /\ reader # "down" /\ reader' = "down" /\ Ending /\ onDisk' = cursor
  /\ killed' = (killed \/ reader = "sent")
  /\ UNCHANGED <<unwanted, written, cursor, at, count, given, before, unsaved>>
KillReader ==
  /\ reader # "down" /\ reader' = "down" /\ Ending /\ killed' = TRUE
  /\ UNCHANGED <<unwanted, written, cursor, onDisk, at, count, given, before, unsaved>>

JournalNext == \/ LogEntry \/ StartReader \/ SkipEntry \/ SendEntry \/ KeepCursor
               \/ OtherSave \/ JournalEnds \/ StopReader \/ KillReader
JournalSpec == JournalInit /\ [][JournalNext]_journalVars

JournalTypeOK ==
  /\ unwanted \subseteq Entries /\ written \in 0..MaxEntries
  /\ {cursor, onDisk, at} \subseteq 0..written /\ count \in 0..(SaveEvery - 1)
  /\ reader \in {"down", "read", "sent", "ended"}
  /\ given \in [Entries -> 0..2] /\ before \subseteq Entries /\ ends \in 0..MaxEnds

Given == {i \in Entries : given[i] > 0}
(* "using the cursor to resume exactly where it left off": wherever the     *)
(* agent is stopped or killed, no wanted entry up to the cursor in memory,  *)
(* the saved one and journalctl's position has not been given to send(),    *)
(* except those a start without a cursor passes.                            *)
CursorCovers ==
  \A c \in {cursor, onDisk} \cup (IF reader = "down" THEN {} ELSE {at}) :
    1..c \subseteq Given \cup unwanted \cup before
(* What a kill repeats is bounded by the save interval: no more than        *)
(* SaveEvery entries were given to send() after the saved cursor, unless a  *)
(* save failed; and without a kill nothing is given twice.                  *)
RepeatsBounded ==
  /\ ~unsaved => Cardinality({i \in Given \ before : i > onDisk}) <= SaveEvery
  /\ ~killed /\ ~unsaved => \A i \in Entries : given[i] <= 1
(* The journal is shipped without a gap and with bounded repeats.           *)
JournalShipped == CursorCovers /\ RepeatsBounded
=============================================================================
