------------------------------ MODULE WinAgent ------------------------------
(***************************************************************************)
(* windows_agent/MiniSiemAgent.ps1, the event log collector: each poll     *)
(* takes a batch of every channel's records after the last one forwarded,  *)
(* stops at the first that could not be sent and then writes the state     *)
(* file, in place.  A record is one that the channel's filter selects.     *)
(***************************************************************************)
EXTENDS Naturals, FiniteSets

CONSTANTS Channels,   \* event log channels, 1..n, polled in this order
          BatchSize,  \* BatchSizePerChannel
          MaxRecords, \* bound on the records of a channel
          MaxOutages  \* bound on failed sends and ends of the agent
ASSUME WinAssumption == /\ IsFiniteSet(Channels) /\ Channels # {} /\ Channels = 1..Cardinality(Channels)
                        /\ BatchSize \in Nat \ {0} /\ MaxRecords \in Nat \ {0}
                        /\ MaxOutages \in Nat

VARIABLES
  records,    \* channel -> newest EventRecordID
  winState,   \* $State, channel -> last forwarded record
  stateFile,  \* what is in the file; torn is a file cut within a write
  torn,
  collector,  \* "off", "idle", "batch" or "save"
  channel,    \* the channel of the pass
  upTo, lastOf, \* the batch: $sentUpTo, and the last record of it
  cut,        \* a send of the batch failed
  forwarded,  \* history: how often a record was sent (2: or more)
  crashed,    \* history: the agent ended within a batch or its save
  lost,       \* history: a torn state file was read: "starting fresh"
  outages
winVars == <<records, winState, stateFile, torn, collector, channel, upTo, lastOf,
             cut, forwarded, crashed, lost, outages>>

NoneSent == [c \in Channels |-> 0]
WinInit ==
  /\ records \in [Channels -> 0..1] /\ winState = NoneSent /\ stateFile = NoneSent
  /\ torn = FALSE /\ collector = "off" /\ channel = 1 /\ upTo = 0 /\ lastOf = 0
  /\ cut = FALSE /\ forwarded = [c \in Channels |-> [i \in 1..MaxRecords |-> 0]]
  /\ crashed = FALSE /\ lost = FALSE /\ outages = 0

Record(c) ==
  /\ records[c] < MaxRecords /\ records' = [records EXCEPT ![c] = @ + 1]
  /\ UNCHANGED <<winState, stateFile, torn, collector, channel, upTo, lastOf, cut,
                 forwarded, crashed, lost, outages>>
\* Load-State
StartCollector ==
  /\ collector = "off" /\ collector' = "idle" /\ channel' = 1
  /\ winState' = IF torn THEN NoneSent ELSE stateFile
  /\ lost' = (lost \/ torn)
  /\ UNCHANGED <<records, stateFile, torn, upTo, lastOf, cut, forwarded, crashed, outages>>

Smaller(a, b) == IF a < b THEN a ELSE b
NextChannel == IF channel = Cardinality(Channels) THEN 1 ELSE channel + 1
\* Process-Channel: Get-WinEvent -Oldest with the record id and the maximum
ReadChannel ==
  /\ collector = "idle" /\ records[channel] > winState[channel]
  /\ collector' = "batch" /\ cut' = FALSE /\ upTo' = winState[channel]
  /\ lastOf' = Smaller(records[channel], winState[channel] + BatchSize)
  /\ UNCHANGED <<records, winState, stateFile, torn, channel, forwarded, crashed,
                 lost, outages>>
\* "No events were found", or the channel cannot be read
NoBatch ==
  /\ collector = "idle" /\ channel' = NextChannel
  /\ UNCHANGED <<records, winState, stateFile, torn, collector, upTo, lastOf, cut,
                 forwarded, crashed, lost, outages>>
Outage == outages < MaxOutages /\ outages' = outages + 1
\* Send-Syslog returned $true
SendRecord ==
  /\ collector = "batch" /\ ~cut /\ upTo < lastOf /\ upTo' = upTo + 1
  /\ forwarded' = [forwarded EXCEPT ![channel][upTo + 1] = IF @ = 0 THEN 1 ELSE 2]
  /\ UNCHANGED <<records, winState, stateFile, torn, collector, channel, lastOf, cut,
                 crashed, lost, outages>>
PassesFailed == upTo' = upTo + 1           \* mutant: counted as forwarded
StaysAtFailed == UNCHANGED upTo
\* ... or $false: the rest of the batch waits for the next poll
SendFails ==
  /\ collector = "batch" /\ ~cut /\ upTo < lastOf /\ Outage /\ cut' = TRUE
  /\ StaysAtFailed
  /\ UNCHANGED <<records, winState, stateFile, torn, collector, channel, lastOf,
                 forwarded, crashed, lost>>
\* $State[$name] = $sentUpTo, if there is progress
EndBatch ==
  /\ collector = "batch" /\ (cut \/ upTo = lastOf)
  /\ collector' = IF upTo > winState[channel] THEN "save" ELSE "idle"
  /\ winState' = [winState EXCEPT ![channel] = upTo]
  /\ channel' = IF upTo > winState[channel] THEN channel ELSE NextChannel
  /\ UNCHANGED <<records, stateFile, torn, upTo, lastOf, cut, forwarded, crashed,
                 lost, outages>>
\* Save-State: Set-Content truncates the file, then writes it
SaveStateFile ==
  /\ collector = "save" /\ stateFile' = winState /\ torn' = FALSE
  /\ collector' = "idle" /\ channel' = NextChannel
  /\ UNCHANGED <<records, winState, upTo, lastOf, cut, forwarded, crashed, lost, outages>>
\* the agent ends, or Set-Content throws, which ends it too
EndCollector ==
  /\ collector # "off" /\ collector' = "off" /\ Outage
  /\ crashed' = (crashed \/ collector \in {"batch", "save"})
  /\ torn' \in IF collector = "save" THEN BOOLEAN ELSE {torn}
  /\ UNCHANGED <<records, winState, stateFile, channel, upTo, lastOf, cut, forwarded, lost>>

WinNext == \/ \E c \in Channels : Record(c)
           \/ StartCollector \/ ReadChannel \/ NoBatch \/ SendRecord \/ SendFails
           \/ EndBatch \/ SaveStateFile \/ EndCollector
WinSpec == WinInit /\ [][WinNext]_winVars

WinTypeOK ==
  /\ records \in [Channels -> 0..MaxRecords]
  /\ \A c \in Channels : {winState[c], stateFile[c]} \subseteq 0..records[c]
  /\ collector \in {"off", "idle", "batch", "save"} /\ channel \in Channels
  /\ {upTo, lastOf} \subseteq 0..MaxRecords /\ outages \in 0..MaxOutages
  /\ forwarded \in [Channels -> [1..MaxRecords -> 0..2]]

Forwarded(c) == {i \in 1..MaxRecords : forwarded[c][i] > 0}
(* "channel state only advances past events that were actually sent":      *)
(* neither the state in memory nor the state file passes a record that was *)
(* not forwarded, whatever sends fail and wherever the agent ends.         *)
StatePassesOnlySent ==
  \A c \in Channels : 1..winState[c] \subseteq Forwarded(c) /\ 1..stateFile[c] \subseteq Forwarded(c)
(* "so restarts never duplicate": a failed send repeats nothing, and an end *)
(* within a batch, which saves nothing, at most that batch: while the state *)
(* file was not torn, no more records than a batch were forwarded after    *)
(* those in it.                                                            *)
RepeatsOneBatch ==
  /\ ~crashed => \A c \in Channels, i \in 1..MaxRecords : forwarded[c][i] <= 1
  /\ ~torn /\ ~lost => \A c \in Channels :
       Cardinality({i \in Forwarded(c) : i > stateFile[c]}) <= BatchSize
(* Windows records are forwarded without a gap and with bounded repeats.   *)
RecordsForwarded == StatePassesOnlySent /\ RepeatsOneBatch
=============================================================================
