------------------------------ MODULE MCLeases ------------------------------
(***************************************************************************)
(* An instance of Leases for TLC: two processes whose clocks differ, one   *)
(* job, and cycles that use all the slack a lease leaves                   *)
(* (MaxCycle + Skew = TTL).                                                *)
(***************************************************************************)
EXTENDS Leases

CONSTANTS p1, p2, ticket, MCTTLValue, MCCycleValue

MCTTL == [j \in Job |-> MCTTLValue]
MCMaxCycle == [j \in Job |-> MCCycleValue]
=============================================================================
