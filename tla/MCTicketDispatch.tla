-------------------------- MODULE MCTicketDispatch --------------------------
(***************************************************************************)
(* Instances of TicketDispatch for TLC.  One unit of time is the 15 s      *)
(* timeout of _http in MCTicketSlow, where TTL = 4 is the 60 s lease and   *)
(* Batch = 5 the batch of the worker.                                      *)
(***************************************************************************)
EXTENDS TicketDispatch

CONSTANTS p1, p2, MCTTLValue, MCCycleValue

MCTTL == [j \in Job |-> MCTTLValue]
MCMaxCycle == [j \in Job |-> MCCycleValue]
=============================================================================
