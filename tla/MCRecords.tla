------------------------------ MODULE MCRecords ------------------------------
(* What becomes of lines, events and alerts, side by side: the tail of a log *)
(* file, the journal and the Windows event logs read by the agents, the      *)
(* framing of a TCP stream, the relay, the extracted fields, the silence of  *)
(* sources, the linking of findings into alerts, the analysts' requests and  *)
(* the archive.  A behaviour is one of the part that is active, the others   *)
(* rest in an initial state.                                                 *)
EXTENDS AlertWorkflow, DetectionEmit, Telemetry, Archive, TcpFramer,
        AgentTail, JournalReader, WinAgent, Forwarder, FieldReindex, TLC

CONSTANTS Active,       \* the parts that are checked
          a1, a2, r1, r2
VARIABLE active
workflowVars == vars
recordVars == <<active, workflowVars, emitVars, telVars, archiveVars, frameVars,
                tailVars, journalVars, winVars, forwardVars, fieldVars>>

\* all but the part x rest
Alone(x) ==
  /\ active = x /\ UNCHANGED active
  /\ x # "workflow" => UNCHANGED workflowVars
  /\ x # "emit" => UNCHANGED emitVars
  /\ x # "telemetry" => UNCHANGED telVars
  /\ x # "archive" => UNCHANGED archiveVars
  /\ x # "frames" => UNCHANGED frameVars
  /\ x # "tail" => UNCHANGED tailVars
  /\ x # "journal" => UNCHANGED journalVars
  /\ x # "windows" => UNCHANGED winVars
  /\ x # "relay" => UNCHANGED forwardVars
  /\ x # "fields" => UNCHANGED fieldVars

InitRecords == /\ active \in Active /\ Init /\ EmitInit /\ TelInit
               /\ ArchInit /\ FrameInit /\ TailInit /\ ForwardInit
               /\ JournalInit /\ WinInit /\ FieldInit
               /\ active # "emit" => backend = "sqlite"
               /\ active # "tail" => ~present
               /\ active # "journal" => unwanted = {} /\ written = 0
               /\ active # "windows" => records = NoneSent
               /\ active # "fields" => fieldDb = "sqlite"
NextRecords ==
  \/ Alone("workflow") /\ Next
  \/ Alone("emit") /\ EmitNext
  \/ Alone("telemetry") /\ TelNext
  \/ Alone("archive") /\ ArchNext
  \/ Alone("frames") /\ FrameNext
  \/ Alone("tail") /\ TailNext
  \/ Alone("journal") /\ JournalNext
  \/ Alone("windows") /\ WinNext
  \/ Alone("relay") /\ ForwardNext
  \/ Alone("fields") /\ FieldNext
SpecRecords == InitRecords /\ [][NextRecords]_recordVars

\* r1 and r2 are the two actors of every part that has two: requests, emitters,
\* cycles, monitors, ingest workers of the relay, jobs.  No part tells them apart.
Symmetry == Permutations(Alert) \cup Permutations(Request)

(* The type invariants of all the parts.                                    *)
RecordTypes == /\ TypeOK /\ EmitTypeOK /\ TelTypeOK /\ ArchTypeOK
               /\ FrameTypeOK /\ TailTypeOK /\ ForwardTypeOK
               /\ JournalTypeOK /\ WinTypeOK /\ FieldTypeOK
(* What an agent has passed in its file, journal or event log was given to  *)
(* send(), or delivered, once or with the repeats that a restart explains.  *)
LinesForwarded == LinesShipped /\ JournalShipped /\ RecordsForwarded
(* The stream becomes the frames of the definition, and a stored log has the *)
(* fields of one extraction.                                                *)
ParsedExactly == FramesExact /\ FieldsExact
=============================================================================
