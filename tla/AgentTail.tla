------------------------------ MODULE AgentTail ------------------------------
(***************************************************************************)
(* linux_agent/minisiem-agent.py, file_loop: the tailing of one log file   *)
(* that is appended to, removed and created again or truncated, by an      *)
(* agent that is stopped, killed and started.  What the path names after a *)
(* creation or truncation is a new generation; a created file may get the  *)
(* inode of the one before it.  Lines are whole, offsets count lines.      *)
(***************************************************************************)
EXTENDS Naturals

CONSTANTS MaxGen,     \* bound on the generations of the file
          MaxLines,   \* bound on the lines of a generation
          MaxRestarts \* bound on stops, kills and states not saved
ASSUME TailAssumption == /\ MaxGen \in Nat \ {0} /\ MaxLines \in Nat \ {0}
                         /\ MaxRestarts \in Nat

VARIABLES
  present, gen, inodeOf, size,  \* the file: is it there, its generation,
                                \* and the inode and lines of each generation
  tail,      \* state.data["files"][path]; `of` is the offset's generation
  saved,     \* the state file, NoTail when there is none
  agent,     \* what file_loop is at, "down" without an agent
  handle, pos,  \* the open file and the position in it
  shipped,   \* history: how often a line was given to send() (2: or more)
  first,     \* history: the tail of the first start, past what was there
  masked,    \* history: a new generation was taken for the old one
  rough,     \* history: a kill, a stop within a line, a state not saved, or
             \* a file exchanged between stat() and open()
  restarts
tailVars == <<present, gen, inodeOf, size, tail, saved, agent, handle, pos,
              shipped, first, masked, rough, restarts>>
fileVars == <<present, gen, inodeOf, size>>
tailHistory == <<shipped, first, masked, rough, restarts>>

Gens == 1..MaxGen
NoTail == [offset |-> 0, inode |-> 0, of |-> 0]
TailInit ==
  /\ present \in BOOLEAN /\ gen = 1 /\ inodeOf = [g \in Gens |-> g]
  /\ size \in {[g \in Gens |-> IF g = 1 /\ present THEN n ELSE 0] : n \in 0..1}
  /\ tail = NoTail /\ saved = NoTail /\ agent = "down" /\ handle = 1 /\ pos = 0
  /\ shipped = [g \in Gens |-> [i \in 1..MaxLines |-> 0]] /\ first = NoTail
  /\ masked = FALSE /\ rough = FALSE /\ restarts = 0

\* the program that writes the log, and logrotate
AppendLine ==
  /\ present /\ size[gen] < MaxLines /\ size' = [size EXCEPT ![gen] = @ + 1]
  /\ UNCHANGED <<present, gen, inodeOf, tail, saved, agent, handle, pos, tailHistory>>
DeleteFile ==
  /\ present /\ present' = FALSE
  /\ UNCHANGED <<gen, inodeOf, size, tail, saved, agent, handle, pos, tailHistory>>
NewGen == gen < MaxGen /\ gen' = gen + 1
Create ==
  /\ ~present /\ present' = TRUE /\ NewGen
  /\ \E n \in {gen', inodeOf[gen]} : inodeOf' = [inodeOf EXCEPT ![gen'] = n]
  /\ UNCHANGED <<size, tail, saved, agent, handle, pos, tailHistory>>
\* truncated in place: who has it open has the new generation
Truncate ==
  /\ present /\ NewGen /\ inodeOf' = [inodeOf EXCEPT ![gen'] = inodeOf[gen]]
  /\ handle' = IF agent \in {"read", "sent"} /\ handle = gen THEN gen' ELSE handle
  /\ UNCHANGED <<present, size, tail, saved, agent, pos, tailHistory>>

\* State.load(), and on first sight of the file its end, saved at once
StartAgent ==
  /\ agent = "down" /\ agent' = "stat"
  /\ tail' = IF saved # NoTail THEN saved
             ELSE IF present THEN [offset |-> size[gen], inode |-> inodeOf[gen], of |-> gen]
             ELSE [NoTail EXCEPT !.of = gen]
  /\ saved' = tail'
  /\ first' = IF saved = NoTail THEN tail' ELSE first
  /\ UNCHANGED <<fileVars, handle, pos, shipped, masked, rough, restarts>>
RotatedByInode == tail.inode \notin {0, inodeOf[gen]}   \* mutant: no truncation
\* a file with another inode, or shorter than the offset, is read from 0
Rotated == tail.inode \notin {0, inodeOf[gen]} \/ size[gen] < tail.offset
LooksTheSame == tail.inode = inodeOf[gen] /\ size[gen] >= tail.offset
StatFile ==
  /\ agent = "stat"
  /\ tail' = IF ~present THEN tail
             ELSE [offset |-> IF Rotated THEN 0 ELSE tail.offset,
                   inode |-> inodeOf[gen], of |-> gen]
  /\ agent' = IF present /\ size[gen] # tail'.offset THEN "open" ELSE "save"
  /\ masked' = (masked \/ (present /\ LooksTheSame /\ tail.of # gen /\ tail.offset > 0))
  /\ UNCHANGED <<fileVars, saved, handle, pos, shipped, first, rough, restarts>>
OpenFile ==
  /\ agent = "open" /\ handle' = gen /\ pos' = tail.offset
  /\ agent' = IF present THEN "read" ELSE "save"
  /\ rough' = (rough \/ tail.of # gen)
  /\ UNCHANGED <<fileVars, tail, saved, shipped, first, masked, restarts>>
\* readline() and send(), whether or not the line gets out
SendLine ==
  /\ agent = "read" /\ pos < size[handle]
  /\ agent' = "sent" /\ pos' = pos + 1
  /\ shipped' = [shipped EXCEPT ![handle][pos + 1] = IF @ = 0 THEN 1 ELSE 2]
  /\ UNCHANGED <<fileVars, tail, saved, handle, first, masked, rough, restarts>>
EndOfFile ==
  /\ agent = "read" /\ pos >= size[handle] /\ agent' = "save"
  /\ UNCHANGED <<fileVars, tail, saved, handle, pos, tailHistory>>
TellAhead == pos + 1                       \* mutant: the line after
Tell == pos
\* st["offset"] = f.tell()
KeepOffset ==
  /\ agent = "sent" /\ agent' = "read"
  /\ tail' = [tail EXCEPT !.offset = Tell, !.of = handle]
  /\ masked' = (masked \/ (tail.of # handle /\ tail.inode = inodeOf[handle]))
  /\ UNCHANGED <<fileVars, saved, handle, pos, shipped, first, rough, restarts>>
SaveState ==
  /\ agent = "save" /\ agent' = "stat" /\ saved' = tail
  /\ UNCHANGED <<fileVars, tail, handle, pos, tailHistory>>

Disturb == restarts < MaxRestarts /\ restarts' = restarts + 1
\* State.save() raises: it is logged and the loop goes on
SaveStateFails ==
  /\ agent = "save" /\ agent' = "stat" /\ Disturb /\ rough' = TRUE
  /\ UNCHANGED <<fileVars, tail, saved, handle, pos, shipped, first, masked>>
\* SIGTERM: main() waits two seconds for the thread and saves what there is
StopAgent ==
  /\ agent # "down" /\ agent' = "down" /\ saved' = tail /\ Disturb
  /\ rough' = (rough \/ agent = "sent")
  /\ UNCHANGED <<fileVars, tail, handle, pos, shipped, first, masked>>
KillAgent ==
  /\ agent # "down" /\ agent' = "down" /\ Disturb /\ rough' = TRUE
  /\ UNCHANGED <<fileVars, tail, saved, handle, pos, shipped, first, masked>>

TailNext == \/ AppendLine \/ DeleteFile \/ Create \/ Truncate
            \/ StartAgent \/ StatFile \/ OpenFile \/ SendLine \/ EndOfFile
            \/ KeepOffset \/ SaveState \/ SaveStateFails \/ StopAgent \/ KillAgent
TailSpec == TailInit /\ [][TailNext]_tailVars

TailTypeOK ==
  /\ gen \in Gens /\ handle \in 1..gen /\ size \in [Gens -> 0..MaxLines]
  /\ \A t \in {tail, saved} : t.offset \in 0..MaxLines /\ t.inode \in 0..gen /\ t.of \in 0..gen
  /\ agent \in {"down", "stat", "open", "read", "sent", "save"}
  /\ shipped \in [Gens -> [1..MaxLines -> 0..2]] /\ restarts \in 0..MaxRestarts

(* "byte offsets persisted, and rotation/truncation detection": the offset  *)
(* of a file never passes a line of it that was not sent, whenever the file *)
(* is exchanged and the agent restarted, unless a new file with the old     *)
(* inode has already grown past the offset.                                 *)
NoLineSkipped ==
  \A t \in {tail, saved} :
    ~masked /\ t.of # 0 /\ t.inode = inodeOf[t.of] =>
      \A i \in 1..t.offset : shipped[t.of][i] > 0 \/ (t.of = first.of /\ i <= first.offset)
(* "a restart doesn't replay": a line is sent twice only after a kill, a    *)
(* stop within a line, a state that was not saved or an exchange of the     *)
(* file between the look at it and its opening.                             *)
ReplaysExcused ==
  ~rough => \A g \in Gens, i \in 1..MaxLines : shipped[g][i] <= 1
(* Each line is shipped once, but for the exceptions that the parts name.   *)
LinesShipped == NoLineSkipped /\ ReplaysExcused
=============================================================================
