---------------------------- MODULE Records_proof ----------------------------
(***************************************************************************)
(* What the parts of MCRecords were proved to do holds of them side by     *)
(* side: a step is one of a single part, the others rest.                  *)
(***************************************************************************)
EXTENDS MCRecords, Alerts_proof, Lines_proof, TLAPS

\* A behaviour of the records is one of each of their parts.
THEOREM RecordsSideBySide ==
  SpecRecords => /\ Spec /\ EmitSpec /\ TelSpec /\ ArchSpec /\ FrameSpec
                 /\ TailSpec /\ JournalSpec /\ WinSpec /\ ForwardSpec /\ FieldSpec
<1>1. InitRecords => /\ Init /\ EmitInit /\ TelInit /\ ArchInit /\ FrameInit
                     /\ TailInit /\ JournalInit /\ WinInit /\ ForwardInit /\ FieldInit
  BY DEF InitRecords
<1>2. [NextRecords]_recordVars =>
        /\ [Next]_vars /\ [EmitNext]_emitVars /\ [TelNext]_telVars
        /\ [ArchNext]_archiveVars /\ [FrameNext]_frameVars
        /\ [TailNext]_tailVars /\ [JournalNext]_journalVars /\ [WinNext]_winVars
        /\ [ForwardNext]_forwardVars /\ [FieldNext]_fieldVars
  <2> SUFFICES ASSUME [NextRecords]_recordVars
               PROVE  /\ [Next]_vars /\ [EmitNext]_emitVars /\ [TelNext]_telVars
                      /\ [ArchNext]_archiveVars /\ [FrameNext]_frameVars
                      /\ [TailNext]_tailVars /\ [JournalNext]_journalVars /\ [WinNext]_winVars
                      /\ [ForwardNext]_forwardVars /\ [FieldNext]_fieldVars
    OBVIOUS
  <2>1. CASE UNCHANGED recordVars
    BY <2>1 DEF recordVars, workflowVars
  <2>2. CASE Alone("workflow") /\ Next
    BY <2>2 DEF Alone
  <2>3. CASE Alone("emit") /\ EmitNext
    BY <2>3 DEF Alone, workflowVars
  <2>4. CASE Alone("telemetry") /\ TelNext
    BY <2>4 DEF Alone, workflowVars
  <2>5. CASE Alone("archive") /\ ArchNext
    BY <2>5 DEF Alone, workflowVars
  <2>6. CASE Alone("frames") /\ FrameNext
    BY <2>6 DEF Alone, workflowVars
  <2>7. CASE Alone("tail") /\ TailNext
    BY <2>7 DEF Alone, workflowVars
  <2>8. CASE Alone("journal") /\ JournalNext
    BY <2>8 DEF Alone, workflowVars
  <2>9. CASE Alone("windows") /\ WinNext
    BY <2>9 DEF Alone, workflowVars
  <2>10. CASE Alone("relay") /\ ForwardNext
    BY <2>10 DEF Alone, workflowVars
  <2>11. CASE Alone("fields") /\ FieldNext
    BY <2>11 DEF Alone, workflowVars
  <2> QED
    BY <2>1, <2>2, <2>3, <2>4, <2>5, <2>6, <2>7, <2>8, <2>9, <2>10, <2>11 DEF NextRecords
<1> QED
  BY <1>1, <1>2, PTL DEF SpecRecords, Spec, EmitSpec, TelSpec, ArchSpec, FrameSpec, TailSpec,
                         JournalSpec, WinSpec, ForwardSpec, FieldSpec

\* What an agent has passed in a log file, the journal or an event log was given
\* to send(), or delivered, once or with the repeats that a restart explains.
THEOREM LinesForwardedHolds == SpecRecords => []LinesForwarded
<1>1. TailInv /\ JournalInv /\ WinInv => LinesForwarded
  BY LinesShippedInv, JournalShippedInv, RecordsForwardedInv DEF LinesForwarded
<1> QED
  BY <1>1, RecordsSideBySide, TailAlways, JournalAlways, WinAlways, PTL

\* What a destination reads on a connection are whole messages, and the page
\* never says that it was sent more than it was.
THEOREM RelayHonestHolds == SpecRecords => []RelayHonest
BY RecordsSideBySide, ForwardAlways, HonestInv, PTL

\* An outage is alerted in time and once, and no note of an event is forgotten.
THEOREM OutagesWarnedHolds == SpecRecords => []OutagesWarned
BY RecordsSideBySide, TelAlways, OutagesWarnedInv, PTL

\* The frames that are handed on are those of the stream, however it is cut into
\* chunks, and a stored log has the fields of one extraction, of patterns no
\* older than those of the last job that rebuilt it.
THEOREM ParsedExactlyHolds == SpecRecords => []ParsedExactly
<1>1. FrameInv /\ FieldInv => ParsedExactly
  BY FramesFollow, FieldsFollow DEF ParsedExactly
<1> QED
  BY <1>1, RecordsSideBySide, FrameAlways, FieldAlways, PTL

\* The type invariants of all the parts, for any processes, alerts, sources,
\* lines, streams and bounds.
THEOREM RecordTypesHold == SpecRecords => []RecordTypes
<1>1. SpecRecords => [](TypeOK /\ EmitTypeOK /\ ArchTypeOK)
  BY RecordsSideBySide, WorkflowTypeCorrect, EmitTypeCorrect, ArchTypeCorrect, PTL
<1>2. SpecRecords => [](TelTypeOK /\ ForwardTypeOK)
  BY RecordsSideBySide, TelAlways, TelTypedOK, ForwardAlways, ForwardTypedOK, PTL
<1>3. SpecRecords => [](TailTypeOK /\ JournalTypeOK /\ WinTypeOK)
  BY RecordsSideBySide, TailAlways, TailTypedOK, JournalAlways, JournalTyped, WinAlways,
     WinTypedOK, PTL
<1>4. SpecRecords => [](FrameTypeOK /\ FieldTypeOK)
  BY RecordsSideBySide, FramesExactHolds, FieldsExactHolds, PTL
<1>5. TypeOK /\ EmitTypeOK /\ ArchTypeOK /\ TelTypeOK /\ ForwardTypeOK /\ TailTypeOK
      /\ JournalTypeOK /\ WinTypeOK /\ FrameTypeOK /\ FieldTypeOK => RecordTypes
  BY DEF RecordTypes
<1> QED
  BY <1>1, <1>2, <1>3, <1>4, <1>5, PTL
=============================================================================
