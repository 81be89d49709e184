------------------------ MODULE TicketDispatch_proof ------------------------
(***************************************************************************)
(* Proofs about Leases, for every set of processes and jobs, every ttl,    *)
(* cycle length, clock difference and time bound, and about                *)
(* TicketDispatch, for every set of processes and alerts, any batch,       *)
(* attempt limit, lease and POST time.  The type invariant needs           *)
(* nothing of the lease; the rest assumes CycleFits, under which Leases    *)
(* lets one process at a time work through a batch.                        *)
(***************************************************************************)
EXTENDS TicketDispatch, FiniteSetTheorems, SequenceTheorems, TLAPS

(***************************************************************************)
(* Leases.                                                                 *)
(***************************************************************************)
LEMMA NowType ==
  ASSUME TypeOK, NEW p \in Proc
  PROVE  Now(p) \in Nat /\ clock <= Now(p) /\ Now(p) <= clock + Skew
BY TimeAssumption DEF TypeOK, Now

\* Every variable stays in its type, whatever the loops, the crashes and the
\* clock do.
THEOREM TypeCorrect == Spec => []TypeOK
<1>1. Init => TypeOK
  BY NoOwnerAssumption, TimeAssumption DEF Init, TypeOK
<1>2. TypeOK /\ [Next]_vars => TypeOK'
  <2> SUFFICES ASSUME TypeOK, [Next]_vars PROVE TypeOK'
    OBVIOUS
  <2> USE TimeAssumption DEF TypeOK, Timed
  <2>1. ASSUME NEW p \in Proc, NEW j \in Job, LoopStep(p, j) PROVE TypeOK'
    <3>0. Now(p) \in Nat
      BY NowType
    <3>1. Claimed(p, j) \in [owner : Proc \cup {NoOwner}, expires : Nat]
      BY DEF Claimed
    <3>2. CASE BeginHold(p, j)
      BY <3>0, <3>2 DEF BeginHold, Goto
    <3>3. CASE Grant(p, j)
      BY <3>1, <3>3 DEF Grant, Goto
    <3>4. CASE Deny(p, j)
      BY <3>4 DEF Deny, Goto
    <3>5. CASE FailHold(p, j)
      BY ZenonT(60), <3>1, <3>5 DEF FailHold, Goto
    <3>6. CASE FallBack(p, j)
      BY <3>6 DEF FallBack, Goto
    <3>7. CASE ReturnHeld(p, j)
      BY <3>7 DEF ReturnHeld, Goto
    <3>8. CASE ReturnDenied(p, j)
      BY <3>8 DEF ReturnDenied, Goto
    <3>9. CASE EndCycle(p, j)
      <4>1. pc' = [pc EXCEPT ![p][j] = "idle"]
        BY <3>9 DEF EndCycle, Goto
      <4> QED
        BY <3>9, <4>1 DEF EndCycle
    <3>10. CASE BeginRelease(p, j)
      <4>1. \/ pc' = [pc EXCEPT ![p][j] = "idle"]
            \/ pc' = [pc EXCEPT ![p][j] = "releasing"]
        BY <3>10 DEF BeginRelease, Goto
      <4>2. heldUntil' \in [Proc -> [Job -> Nat]]
        BY <3>10 DEF BeginRelease
      <4>3. CASE pc' = [pc EXCEPT ![p][j] = "idle"]
        BY <3>10, <4>2, <4>3 DEF BeginRelease
      <4>4. CASE pc' = [pc EXCEPT ![p][j] = "releasing"]
        BY <3>10, <4>2, <4>4 DEF BeginRelease
      <4> QED
        BY <4>1, <4>3, <4>4
    <3>11. CASE FinishRelease(p, j)
      <4>1. CASE row' = row
        BY <3>11, <4>1 DEF FinishRelease, Goto
      <4>2. CASE row' = [row EXCEPT ![j] = [owner |-> p, expires |-> 0]]
        BY <3>11, <4>2 DEF FinishRelease, Goto
      <4> QED
        BY <3>11, <4>1, <4>2 DEF FinishRelease
    <3> QED
      BY <2>1, <3>2, <3>3, <3>4, <3>5, <3>6, <3>7, <3>8, <3>9, <3>10, <3>11
      DEF LoopStep
  <2>2. ASSUME NEW p \in Proc, Crash(p) PROVE TypeOK'
    BY <2>2 DEF Crash
  <2>3. CASE CreateTable
    BY <2>3 DEF CreateTable, procVars
  <2>4. CASE Tick
    BY <2>4 DEF Tick, procVars
  <2>5. CASE UNCHANGED vars
    BY <2>5 DEF vars, procVars
  <2> QED
    BY <2>1, <2>2, <2>3, <2>4, <2>5 DEF Next
<1> QED
  BY <1>1, <1>2, PTL DEF Spec
-----------------------------------------------------------------------------
(***************************************************************************)
(* LeaseLag.  The dict entry of p is either backed by p's own row or older *)
(* than every clock that could have taken the row over.  It is inductive   *)
(* together with: a claim is never dated in the future, a renewal never    *)
(* ends before the entry it replaces, and a release empties the entry      *)
(* before it touches the row.                                              *)
(***************************************************************************)
Backed(p, j, until) ==
  \/ row[j].owner = p /\ until <= row[j].expires
  \/ until < Now(p) + Skew

LagInv ==
  \A p \in Proc, j \in Job :
    /\ tnow[p][j] <= Now(p)
    /\ heldUntil[p][j] <= Now(p) + TTL[j]
    /\ pc[p][j] \in {"claiming", "granted"} => heldUntil[p][j] <= tnow[p][j] + TTL[j]
    /\ pc[p][j] = "releasing" => heldUntil[p][j] = 0
    /\ pc[p][j] = "granted" => Backed(p, j, tnow[p][j] + TTL[j])
    /\ Backed(p, j, heldUntil[p][j])

\* A claim that writes the row keeps every process's entry backed: the row was
\* p's own, or it had expired by p's clock, so by everyone's up to Skew.
LEMMA ClaimKeepsBacked ==
  ASSUME TypeOK, TypeOK', LagInv,
         NEW p \in Proc, NEW j \in Job,
         pc[p][j] = "claiming", Claimable(p, j),
         row' = [row EXCEPT ![j] = Claimed(p, j)],
         UNCHANGED <<clock, offset>>,
         NEW q \in Proc, NEW k \in Job, NEW until \in Nat, until <= Now(q) + TTL[k],
         Backed(q, k, until),
         q = p /\ k = j => until <= tnow[p][j] + TTL[j]
  PROVE  Backed(q, k, until)'
<1> USE TimeAssumption DEF TypeOK
<1>1. Now(q)' = Now(q) /\ Now(q) \in Nat /\ Now(p) \in Nat /\ tnow[p][j] \in Nat
  BY NowType DEF Now
<1>2. CASE k # j
  <2>1. row'[k] = row[k]
    BY <1>2
  <2> QED
    BY <1>1, <2>1 DEF Backed
<1>3. CASE k = j /\ q = p
  <2>1. row'[k].owner = q /\ row'[k].expires = tnow[p][j] + TTL[j]
    BY <1>3 DEF Claimed
  <2> QED
    BY <1>1, <1>3, <2>1 DEF Backed
<1>4. CASE k = j /\ q # p
  <2>1. CASE until < Now(q) + Skew
    BY <1>1, <2>1 DEF Backed
  <2>2. CASE row[j].owner = q /\ until <= row[j].expires
    <3>1. row[j].expires < tnow[p][j]
      BY <1>4, <2>2, NoOwnerAssumption DEF Claimable
    <3>2. tnow[p][j] <= Now(p) /\ Now(p) <= clock + Skew /\ clock <= Now(q)
      BY NowType DEF LagInv
    <3> QED
      BY <1>1, <2>2, <3>1, <3>2 DEF Backed
  <2> QED
    BY <1>4, <2>1, <2>2 DEF Backed
<1> QED
  BY <1>2, <1>3, <1>4

\* One loop step of p on job j keeps what LagInv says of q on job k.
LEMMA LagInvStep ==
  ASSUME TypeOK, TypeOK', LagInv, NEW p \in Proc, NEW j \in Job, LoopStep(p, j)
  PROVE  LagInv'
<1> SUFFICES ASSUME NEW q \in Proc, NEW k \in Job
             PROVE  /\ tnow'[q][k] <= Now(q)'
                    /\ heldUntil'[q][k] <= Now(q)' + TTL[k]
                    /\ pc'[q][k] \in {"claiming", "granted"}
                         => heldUntil'[q][k] <= tnow'[q][k] + TTL[k]
                    /\ pc'[q][k] = "releasing" => heldUntil'[q][k] = 0
                    /\ pc'[q][k] = "granted" => Backed(q, k, tnow[q][k] + TTL[k])'
                    /\ Backed(q, k, heldUntil[q][k])'
  BY DEF LagInv
<1> USE TimeAssumption DEF TypeOK
<1>1. UNCHANGED <<clock, offset>>
  BY DEF LoopStep, BeginHold, Grant, Deny, FailHold, FallBack, ReturnHeld,
         ReturnDenied, EndCycle, BeginRelease, FinishRelease
<1>2. Now(q)' = Now(q) /\ Now(q) \in Nat /\ Now(p) \in Nat /\ clock <= Now(q)
  BY <1>1, NowType DEF Now
<1>3. /\ tnow[q][k] <= Now(q)
      /\ heldUntil[q][k] <= Now(q) + TTL[k]
      /\ pc[q][k] \in {"claiming", "granted"} => heldUntil[q][k] <= tnow[q][k] + TTL[k]
      /\ pc[q][k] = "releasing" => heldUntil[q][k] = 0
      /\ pc[q][k] = "granted" => Backed(q, k, tnow[q][k] + TTL[k])
      /\ Backed(q, k, heldUntil[q][k])
  BY DEF LagInv
<1>4. tnow[q][k] \in Nat /\ heldUntil[q][k] \in Nat /\ TTL[k] \in Nat
  OBVIOUS
<1>5. CASE BeginHold(p, j)
  BY <1>2, <1>3, <1>4, <1>5 DEF BeginHold, Goto, Backed
<1>6. ASSUME pc[p][j] = "claiming", Claimable(p, j),
             row' = [row EXCEPT ![j] = Claimed(p, j)],
             UNCHANGED <<clock, offset, heldUntil, tnow>>,
             Grant(p, j) \/ FailHold(p, j)
      PROVE  /\ pc'[q][k] = "granted" => Backed(q, k, tnow[q][k] + TTL[k])'
             /\ Backed(q, k, heldUntil[q][k])'
  <2>1. q = p /\ k = j => heldUntil[q][k] <= tnow[p][j] + TTL[j]
    BY <1>3, <1>6
  <2>2. Backed(q, k, heldUntil[q][k])'
    BY <1>1, <1>3, <1>4, <1>6, <2>1, ClaimKeepsBacked DEF Backed
  <2>3. ASSUME pc'[q][k] = "granted" PROVE Backed(q, k, tnow[q][k] + TTL[k])'
    <3>1. CASE q = p /\ k = j
      BY <1>2, <1>4, <1>6, <3>1 DEF Backed, Claimed
    <3>2. CASE ~(q = p /\ k = j)
      <4>1. pc[q][k] = "granted"
        BY <1>6, <2>3, <3>2 DEF Grant, FailHold, Goto
      <4>2. tnow[q][k] + TTL[k] \in Nat /\ tnow[q][k] + TTL[k] <= Now(q) + TTL[k]
        BY <1>2, <1>3, <1>4
      <4>3. PICK until \in Nat : until = tnow[q][k] + TTL[k]
        BY <4>2
      <4>4. Backed(q, k, until)
        BY <1>3, <4>1, <4>3
      <4>5. Backed(q, k, until)'
        BY ZenonT(60), <1>1, <1>6, <3>2, <4>2, <4>3, <4>4, ClaimKeepsBacked
      <4> QED
        BY <1>6, <4>3, <4>5 DEF Backed
    <3> QED
      BY <3>1, <3>2
  <2> QED
    BY <2>2, <2>3
<1>7. CASE Grant(p, j)
  BY <1>2, <1>3, <1>4, <1>6, <1>7 DEF Grant, Goto
<1>8. CASE FailHold(p, j)
  <2>1. CASE row' = row
    BY <1>2, <1>3, <1>4, <1>8, <2>1 DEF FailHold, Goto, Backed
  <2>2. CASE row' = [row EXCEPT ![j] = Claimed(p, j)] /\ Claimable(p, j)
    BY <1>2, <1>3, <1>4, <1>6, <1>8, <2>2 DEF FailHold, Goto
  <2> QED
    BY <1>8, <2>1, <2>2 DEF FailHold
<1>9. CASE Deny(p, j) \/ FallBack(p, j) \/ EndCycle(p, j)
  <2>1. UNCHANGED <<row, tnow, heldUntil>>
    BY <1>9 DEF Deny, FallBack, EndCycle
  <2>2. pc'[q][k] \in {"claiming", "granted", "releasing"} => pc'[q][k] = pc[q][k]
    <3>1. CASE pc' = [pc EXCEPT ![p][j] = "idle"]
      BY <3>1
    <3>2. CASE pc' = [pc EXCEPT ![p][j] = "denied"]
      BY <3>2
    <3>3. CASE pc' = [pc EXCEPT ![p][j] = "local"]
      BY <3>3
    <3> QED
      BY <1>9, <3>1, <3>2, <3>3 DEF Deny, FallBack, EndCycle, Goto
  <2> QED
    BY <1>2, <1>3, <1>4, <2>1, <2>2 DEF Backed
<1>11. CASE ReturnHeld(p, j)
  <2>1. CASE q = p /\ k = j
    BY <1>2, <1>3, <1>4, <1>11, <2>1 DEF ReturnHeld, Goto, Backed
  <2>2. CASE ~(q = p /\ k = j)
    BY <1>2, <1>3, <1>4, <1>11, <2>2 DEF ReturnHeld, Goto, Backed
  <2> QED
    BY <2>1, <2>2
<1>12. CASE ReturnDenied(p, j)
  BY <1>2, <1>3, <1>4, <1>12 DEF ReturnDenied, Goto, Backed
<1>13. CASE BeginRelease(p, j)
  <2>1. \/ pc' = [pc EXCEPT ![p][j] = "idle"]
        \/ pc' = [pc EXCEPT ![p][j] = "releasing"]
    BY <1>13 DEF BeginRelease, Goto
  <2>2. heldUntil'[q][k] = IF q = p /\ k = j THEN 0 ELSE heldUntil[q][k]
    BY <1>13 DEF BeginRelease
  <2>3. pc'[q][k] \in {"claiming", "granted", "releasing"} /\ ~(q = p /\ k = j)
          => pc'[q][k] = pc[q][k]
    BY <2>1
  <2>4. UNCHANGED <<row, tnow>>
    BY <1>13 DEF BeginRelease
  <2>5. q = p /\ k = j => pc'[q][k] \notin {"claiming", "granted"}
    BY <2>1
  <2> QED
    BY <1>2, <1>3, <1>4, <2>2, <2>3, <2>4, <2>5 DEF Backed
<1>14. CASE FinishRelease(p, j)
  <2>1. CASE row' = row
    BY <1>2, <1>3, <1>4, <1>14, <2>1 DEF FinishRelease, Goto, Backed
  <2>2. CASE row[j].owner = p /\ row' = [row EXCEPT ![j] = [owner |-> p, expires |-> 0]]
    <3>1. CASE q = p /\ k = j
      BY <1>2, <1>3, <1>4, <1>14, <2>2, <3>1 DEF FinishRelease, Goto, Backed
    <3>2. CASE k = j /\ q # p
      BY <1>2, <1>3, <1>4, <1>14, <2>2, <3>2 DEF FinishRelease, Goto, Backed
    <3>3. CASE k # j
      BY <1>2, <1>3, <1>4, <1>14, <2>2, <3>3 DEF FinishRelease, Goto, Backed
    <3> QED
      BY <3>1, <3>2, <3>3
  <2> QED
    BY <1>14, <2>1, <2>2 DEF FinishRelease
<1> QED
  BY <1>5, <1>7, <1>8, <1>9, <1>11, <1>12, <1>13, <1>14 DEF LoopStep

LEMMA LagInvariant == Spec => []LagInv
<1>1. Init => LagInv
  BY NoOwnerAssumption, TimeAssumption DEF Init, LagInv, Backed, Now
<1>2. TypeOK /\ TypeOK' /\ LagInv /\ [Next]_vars => LagInv'
  <2> SUFFICES ASSUME TypeOK, TypeOK', LagInv, [Next]_vars PROVE LagInv'
    OBVIOUS
  <2> USE TimeAssumption DEF TypeOK
  <2>1. ASSUME NEW p \in Proc, NEW j \in Job, LoopStep(p, j) PROVE LagInv'
    BY <2>1, LagInvStep
  <2>2. ASSUME NEW p \in Proc, Crash(p) PROVE LagInv'
    <3> SUFFICES ASSUME NEW q \in Proc, NEW k \in Job
                 PROVE  /\ tnow'[q][k] <= Now(q)'
                        /\ heldUntil'[q][k] <= Now(q)' + TTL[k]
                        /\ pc'[q][k] \in {"claiming", "granted"}
                             => heldUntil'[q][k] <= tnow'[q][k] + TTL[k]
                        /\ pc'[q][k] = "releasing" => heldUntil'[q][k] = 0
                        /\ pc'[q][k] = "granted" => Backed(q, k, tnow[q][k] + TTL[k])'
                        /\ Backed(q, k, heldUntil[q][k])'
      BY DEF LagInv
    <3>1. /\ heldUntil'[q][k] = IF q = p THEN 0 ELSE heldUntil[q][k]
          /\ pc'[q][k] = IF q = p THEN "idle" ELSE pc[q][k]
          /\ UNCHANGED <<clock, offset, row, tnow>>
      BY <2>2 DEF Crash
    <3>2. Now(q)' = Now(q) /\ Now(q) \in Nat /\ clock <= Now(q)
      BY <3>1, NowType DEF Now
    <3> QED
      BY <3>1, <3>2 DEF LagInv, Backed
  <2>3. CASE CreateTable \/ UNCHANGED vars
    BY <2>3 DEF CreateTable, vars, procVars, LagInv, Backed, Now
  <2>4. CASE Tick
    BY <2>4 DEF Tick, procVars, LagInv, Backed, Now
  <2> QED
    BY <2>1, <2>2, <2>3, <2>4 DEF Next
<1> QED
  BY <1>1, <1>2, TypeCorrect, PTL DEF Spec

\* A process whose row was taken over is told that it holds the lease only while
\* its clock is behind, with equal clocks (Skew = 0) never; or it once met a
\* missing table.
THEOREM LeaseLagHolds == Spec => []LeaseLag
<1>1. TypeOK /\ LagInv => LeaseLag
  BY TimeAssumption DEF TypeOK, LagInv, LeaseLag, Holds, Backed
<1> QED
  BY <1>1, LagInvariant, TypeCorrect, PTL
-----------------------------------------------------------------------------
(***************************************************************************)
(* One process at a time, for cycles that fit into their leases.  Time in  *)
(* a cycle is bounded from the clock reading on, so a claim that finds the *)
(* row expired finds its previous holder's cycle over.                     *)
(***************************************************************************)
RunInv ==
  /\ \A p \in Proc, j \in Job :
       /\ tnow[p][j] <= Now(p)
       /\ pc[p][j] \in Timed => clock <= tnow[p][j] - offset[p] + MaxCycle[j]
  /\ RunBacked

\* No process can claim the row under a running holder.
LEMMA NoClaimUnderRunner ==
  ASSUME CycleFits, TypeOK, RunInv,
         NEW p \in Proc, NEW q \in Proc, NEW j \in Job,
         pc[p][j] \in {"granted", "running"}, Claimable(q, j)
  PROVE  p = q
<1> USE TimeAssumption DEF TypeOK
<1>1. row[j].owner = p /\ row[j].expires >= tnow[p][j] + TTL[j]
  BY DEF RunInv, RunBacked
<1>2. clock <= tnow[p][j] - offset[p] + MaxCycle[j]
  BY DEF RunInv, Timed
<1>3. tnow[q][j] <= clock + offset[q] /\ offset[q] <= Skew /\ offset[p] >= 0
  BY DEF RunInv, Now
<1>4. MaxCycle[j] + Skew <= TTL[j]
  BY DEF CycleFits
<1>5. ~(row[j].expires < tnow[q][j])
  BY <1>1, <1>2, <1>3, <1>4
<1> QED
  BY <1>1, <1>5, NoOwnerAssumption DEF Claimable

LEMMA RunInvStep ==
  ASSUME CycleFits, TypeOK, RunInv, NEW p \in Proc, NEW j \in Job, LoopStep(p, j)
  PROVE  RunInv'
<1> SUFFICES ASSUME NEW q \in Proc, NEW k \in Job
             PROVE  /\ tnow'[q][k] <= Now(q)'
                    /\ pc'[q][k] \in Timed
                         => clock' <= tnow'[q][k] - offset'[q] + MaxCycle[k]
                    /\ pc'[q][k] \in {"granted", "running"} =>
                         /\ row'[k].owner = q
                         /\ row'[k].expires >= tnow'[q][k] + TTL[k]
  BY DEF RunInv, RunBacked
<1> USE TimeAssumption DEF TypeOK
<1>1. UNCHANGED <<clock, offset>>
  BY DEF LoopStep, BeginHold, Grant, Deny, FailHold, FallBack, ReturnHeld,
         ReturnDenied, EndCycle, BeginRelease, FinishRelease
<1>2. /\ tnow[q][k] <= Now(q)
      /\ pc[q][k] \in Timed => clock <= tnow[q][k] - offset[q] + MaxCycle[k]
      /\ pc[q][k] \in {"granted", "running"} =>
           row[k].owner = q /\ row[k].expires >= tnow[q][k] + TTL[k]
  BY DEF RunInv, RunBacked
<1>3. Now(q)' = Now(q) /\ Now(q) = clock + offset[q]
  BY <1>1 DEF Now
\* The steps that only move pc, to a place that promises nothing new.
<1>4. ASSUME UNCHANGED <<row, tnow>>,
             pc'[q][k] \in Timed => pc[q][k] \in Timed,
             pc'[q][k] \in {"granted", "running"} => pc[q][k] \in {"granted", "running"}
      PROVE  /\ tnow'[q][k] <= Now(q)'
             /\ pc'[q][k] \in Timed
                  => clock' <= tnow'[q][k] - offset'[q] + MaxCycle[k]
             /\ pc'[q][k] \in {"granted", "running"} =>
                  /\ row'[k].owner = q
                  /\ row'[k].expires >= tnow'[q][k] + TTL[k]
  BY <1>1, <1>2, <1>3, <1>4
<1>5. CASE BeginHold(p, j)
  BY <1>1, <1>2, <1>3, <1>5 DEF BeginHold, Goto, Timed, Now
\* The steps that write the row.
<1>6. ASSUME pc[p][j] = "claiming", Claimable(p, j),
             row' = [row EXCEPT ![j] = Claimed(p, j)], tnow' = tnow,
             pc' = [pc EXCEPT ![p][j] = "granted"] \/ pc' = [pc EXCEPT ![p][j] = "denied"]
      PROVE  /\ tnow'[q][k] <= Now(q)'
             /\ pc'[q][k] \in Timed
                  => clock' <= tnow'[q][k] - offset'[q] + MaxCycle[k]
             /\ pc'[q][k] \in {"granted", "running"} =>
                  /\ row'[k].owner = q
                  /\ row'[k].expires >= tnow'[q][k] + TTL[k]
  <2>1. CASE q = p /\ k = j
    <3>1. row'[j].owner = p /\ row'[j].expires = tnow[p][j] + TTL[j]
      BY <1>6 DEF Claimed
    <3> QED
      BY <1>1, <1>2, <1>3, <1>6, <2>1, <3>1 DEF Timed
  <2>2. CASE ~(q = p /\ k = j)
    <3>1. pc'[q][k] = pc[q][k]
      BY <1>6, <2>2
    <3>2. pc[q][k] \in {"granted", "running"} => k # j
      BY <1>6, <2>2, NoClaimUnderRunner
    <3> QED
      BY <1>1, <1>2, <1>3, <1>6, <3>1, <3>2
  <2> QED
    BY <2>1, <2>2
<1>7. CASE Grant(p, j)
  BY <1>6, <1>7 DEF Grant, Goto
<1>8. CASE FailHold(p, j)
  <2>1. pc[p][j] = "claiming" /\ pc' = [pc EXCEPT ![p][j] = "denied"] /\ tnow' = tnow
    BY <1>8 DEF FailHold, Goto
  <2>2. CASE row' = row
    BY <1>4, <2>1, <2>2 DEF Timed
  <2>3. CASE Claimable(p, j) /\ row' = [row EXCEPT ![j] = Claimed(p, j)]
    BY <1>6, <2>1, <2>3
  <2> QED
    BY <1>8, <2>2, <2>3 DEF FailHold
<1>9. CASE Deny(p, j)
  BY <1>4, <1>9 DEF Deny, Goto, Timed
<1>10. CASE FallBack(p, j)
  BY <1>4, <1>10 DEF FallBack, Goto, Timed
<1>11. CASE ReturnHeld(p, j)
  BY <1>4, <1>11 DEF ReturnHeld, Goto, Timed
<1>12. CASE ReturnDenied(p, j)
  BY <1>4, <1>12 DEF ReturnDenied, Goto, Timed
<1>13. CASE EndCycle(p, j)
  <2>1. pc' = [pc EXCEPT ![p][j] = "idle"]
    BY <1>13 DEF EndCycle, Goto
  <2> QED
    BY <1>4, <1>13, <2>1 DEF EndCycle, Timed
<1>14. CASE BeginRelease(p, j)
  <2>1. \/ pc' = [pc EXCEPT ![p][j] = "idle"]
        \/ pc' = [pc EXCEPT ![p][j] = "releasing"]
    BY <1>14 DEF BeginRelease, Goto
  <2>2. UNCHANGED <<row, tnow>>
    BY <1>14 DEF BeginRelease
  <2>3. pc'[q][k] \in Timed => pc'[q][k] = pc[q][k]
    <3>1. CASE pc' = [pc EXCEPT ![p][j] = "idle"]
      BY <3>1 DEF Timed
    <3>2. CASE pc' = [pc EXCEPT ![p][j] = "releasing"]
      BY <3>2 DEF Timed
    <3> QED
      BY <2>1, <3>1, <3>2
  <2> QED
    BY <1>4, <2>2, <2>3 DEF Timed
<1>15. CASE FinishRelease(p, j)
  <2>1. pc[p][j] = "releasing" /\ pc' = [pc EXCEPT ![p][j] = "idle"] /\ tnow' = tnow
    BY <1>15 DEF FinishRelease, Goto
  <2>2. CASE row' = row
    BY <1>4, <2>1, <2>2 DEF Timed
  <2>3. CASE row[j].owner = p /\ row' = [row EXCEPT ![j] = [owner |-> p, expires |-> 0]]
    <3>1. pc[q][k] \in {"granted", "running"} => k # j
      BY <1>2, <2>1, <2>3
    <3>2. pc'[q][k] \in Timed => pc'[q][k] = pc[q][k]
      BY <2>1 DEF Timed
    <3> QED
      BY <1>1, <1>2, <1>3, <2>1, <2>3, <3>1, <3>2 DEF Timed
  <2> QED
    BY <1>15, <2>2, <2>3 DEF FinishRelease
<1> QED
  BY <1>5, <1>7, <1>8, <1>9, <1>10, <1>11, <1>12, <1>13, <1>14, <1>15 DEF LoopStep

LEMMA RunInvariant ==
  ASSUME CycleFits
  PROVE  Spec => []RunInv
<1>1. Init => RunInv
  BY TimeAssumption DEF Init, RunInv, RunBacked, Timed, Now
<1>2. TypeOK /\ RunInv /\ [Next]_vars => RunInv'
  <2> SUFFICES ASSUME TypeOK, RunInv, [Next]_vars PROVE RunInv'
    OBVIOUS
  <2> USE TimeAssumption DEF TypeOK
  <2>1. ASSUME NEW p \in Proc, NEW j \in Job, LoopStep(p, j) PROVE RunInv'
    BY <2>1, RunInvStep
  <2>2. ASSUME NEW p \in Proc, Crash(p) PROVE RunInv'
    <3> SUFFICES ASSUME NEW q \in Proc, NEW k \in Job
                 PROVE  /\ tnow'[q][k] <= Now(q)'
                        /\ pc'[q][k] \in Timed
                             => clock' <= tnow'[q][k] - offset'[q] + MaxCycle[k]
                        /\ pc'[q][k] \in {"granted", "running"} =>
                             /\ row'[k].owner = q
                             /\ row'[k].expires >= tnow'[q][k] + TTL[k]
      BY DEF RunInv, RunBacked
    <3>1. pc'[q][k] = IF q = p THEN "idle" ELSE pc[q][k]
      BY <2>2 DEF Crash
    <3>2. UNCHANGED <<clock, offset, row, tnow>>
      BY <2>2 DEF Crash
    <3> QED
      BY <3>1, <3>2 DEF RunInv, RunBacked, Timed, Now
  <2>3. CASE CreateTable \/ UNCHANGED vars
    BY <2>3 DEF CreateTable, vars, procVars, RunInv, RunBacked, Timed, Now
  <2>4. CASE Tick
    BY <2>4 DEF Tick, procVars, RunInv, RunBacked, Timed, Now
  <2> QED
    BY <2>1, <2>2, <2>3, <2>4 DEF Next
<1> QED
  BY <1>1, <1>2, TypeCorrect, PTL DEF Spec

\* A running job's lease row names its process until the lease it was given ends.
THEOREM RunBackedHolds ==
  ASSUME CycleFits
  PROVE  Spec => []RunBacked
<1>1. RunInv => RunBacked
  BY DEF RunInv
<1> QED
  BY <1>1, RunInvariant, PTL

\* Each leased job runs in one process at a time (leases.py:1).
THEOREM OneProcessAtATime ==
  ASSUME CycleFits
  PROVE  Spec => []RunExclusive
<1>1. RunBacked => RunExclusive
  BY DEF RunBacked, RunExclusive, Runners
<1> QED
  BY <1>1, RunBackedHolds, PTL

\* The lease protocol implements JobMutex: a loop step starts or stops one job,
\* a crash stops all of the process's jobs, every other step is a stutter.
THEOREM LeasesImplementJobMutex ==
  ASSUME CycleFits
  PROVE  Spec => ImplementsJobMutex
<1> DEFINE run == [j \in Job |-> Runners(j)]
<1>1. Init => Mutex!Init
  BY DEF Init, Mutex!Init, Runners
<1>2. TypeOK /\ RunBacked /\ [Next]_vars => [Mutex!Next]_run
  <2> SUFFICES ASSUME TypeOK, RunBacked, [Next]_vars
               PROVE  Mutex!Next \/ run' = run
    BY DEF Runners
  <2>1. ASSUME NEW p \in Proc, NEW j \in Job, LoopStep(p, j)
        PROVE  Mutex!Next \/ run' = run
    <3>1. CASE ReturnHeld(p, j)
      <4>1. Runners(j) = {}
        BY <3>1 DEF RunBacked, Runners, ReturnHeld, Goto, TypeOK
      <4>2. pc' = [pc EXCEPT ![p][j] = "running"]
        BY <3>1 DEF ReturnHeld, Goto
      <4>3. Runners(j)' = {p}
        BY <4>1, <4>2 DEF Runners, TypeOK
      <4>4. \A k \in Job \ {j} : Runners(k)' = Runners(k)
        BY <4>2 DEF Runners, TypeOK
      <4>5. run' = [run EXCEPT ![j] = {p}]
        BY <4>3, <4>4
      <4> QED
        BY <4>1, <4>5 DEF Mutex!Next, Mutex!Start
    <3>2. CASE EndCycle(p, j) /\ pc[p][j] = "running"
      <4>1. Runners(j) = {p}
        BY <3>2 DEF RunBacked, Runners
      <4>2. pc' = [pc EXCEPT ![p][j] = "idle"]
        BY <3>2 DEF EndCycle, Goto
      <4>3. Runners(j)' = {}
        BY <4>1, <4>2 DEF Runners, TypeOK
      <4>4. \A k \in Job \ {j} : Runners(k)' = Runners(k)
        BY <4>2 DEF Runners, TypeOK
      <4>5. run' = [k \in Job |-> IF k \in {j} THEN {} ELSE run[k]]
        BY <4>3, <4>4
      <4>6. Mutex!Stop(p, {j})
        BY <4>1, <4>5 DEF Mutex!Stop
      <4>7. {j} \in SUBSET Job
        OBVIOUS
      <4> QED
        BY <4>6, <4>7 DEF Mutex!Next
    <3>3. CASE ~ReturnHeld(p, j) /\ ~(EndCycle(p, j) /\ pc[p][j] = "running")
      <4>1. /\ pc[p][j] # "running"
            /\ \E to \in {"idle", "claiming", "granted", "denied", "local", "releasing"} :
                 pc' = [pc EXCEPT ![p][j] = to]
        BY <2>1, <3>3
        DEF LoopStep, BeginHold, Grant, Deny, FailHold, FallBack, ReturnDenied,
            EndCycle, BeginRelease, FinishRelease, Goto
      <4> QED
        BY <4>1 DEF Runners, TypeOK
    <3> QED
      BY <2>1, <3>1, <3>2, <3>3
  <2>2. ASSUME NEW p \in Proc, Crash(p) PROVE Mutex!Next \/ run' = run
    <3> DEFINE mine == {j \in Job : pc[p][j] = "running"}
    <3>1. \A j \in mine : Runners(j) = {p}
      BY DEF RunBacked, Runners
    <3>2. run' = [j \in Job |-> IF j \in mine THEN {} ELSE run[j]]
      BY <2>2, <3>1 DEF Runners, Crash, TypeOK
    <3> QED
      BY <3>1, <3>2 DEF Mutex!Next, Mutex!Stop
  <2>3. CASE CreateTable \/ Tick \/ UNCHANGED vars
    BY <2>3 DEF CreateTable, Tick, vars, procVars, Runners
  <2> QED
    BY <2>1, <2>2, <2>3 DEF Next
<1> QED
  BY <1>1, <1>2, TypeCorrect, RunBackedHolds, PTL DEF Spec, ImplementsJobMutex, Mutex!Spec
-----------------------------------------------------------------------------
(***************************************************************************)
(* TicketDispatch.                                                         *)
(***************************************************************************)
\* The dispatcher uses the lease protocol as it is: what Leases proves holds
\* of the leases here.
THEOREM TicketsUseLeases == TicketSpec => Spec
<1>1. TicketInit => Init
  BY DEF TicketInit
<1>2. [TicketNext]_allVars => [Next]_vars
  <2> SUFFICES ASSUME [TicketNext]_allVars PROVE Next \/ UNCHANGED vars
    OBVIOUS
  <2> USE TicketAssumption
  <2>1. CASE NewAlert
    BY <2>1 DEF NewAlert
  <2>2. ASSUME NEW p \in Proc, LeaseStep(p) PROVE Next \/ UNCHANGED vars
    <3>1. LoopStep(p, ticket)
      BY <2>2 DEF LeaseStep, LoopStep
    <3> QED
      BY <3>1 DEF Next
  <2>3. ASSUME NEW p \in Proc, CycleStep(p) PROVE Next \/ UNCHANGED vars
    <3>1. EndCycle(p, ticket) \/ UNCHANGED vars
      BY <2>3 DEF CycleStep, Fetch, Skip, Post, ApiAccepts, ApiRejects, RecordCreated,
           RecordCreatedFails, RecordFailure, CycleAborts, Finish, EndTicketCycle
    <3> QED
      BY <3>1 DEF Next, LoopStep
  <2>4. ASSUME NEW p \in Proc, CrashTicket(p) PROVE Next \/ UNCHANGED vars
    BY <2>4 DEF CrashTicket, Next
  <2>5. CASE TicketTick
    BY <2>5 DEF TicketTick, Next
  <2>6. CASE UNCHANGED allVars
    BY <2>6 DEF allVars
  <2> QED
    BY <2>1, <2>2, <2>3, <2>4, <2>5, <2>6 DEF TicketNext
<1> QED
  BY <1>1, <1>2, PTL DEF TicketSpec, Spec
-----------------------------------------------------------------------------
(***************************************************************************)
(* Lemmas: the snapshot, and the rest of a batch.                          *)
(***************************************************************************)
\* The i-th smallest element of a finite set of numbers exists, for every i up
\* to its size: ranking is an injection between two sets of one size.
LEMMA NthExists ==
  ASSUME NEW S, S \subseteq Nat, IsFiniteSet(S), NEW i \in 1..Cardinality(S)
  PROVE  \E a \in S : Cardinality({b \in S : b <= a}) = i
<1> DEFINE below(a) == {b \in S : b <= a}
           rank == [a \in S |-> Cardinality(below(a))]
<1>1. ASSUME NEW a \in S
      PROVE  /\ IsFiniteSet(below(a))
             /\ Cardinality(below(a)) \in 1..Cardinality(S)
  <2>1. below(a) \in SUBSET S /\ a \in below(a)
    OBVIOUS
  <2>2. IsFiniteSet(below(a)) /\ Cardinality(below(a)) <= Cardinality(S)
    BY <2>1, FS_Subset
  <2>3. Cardinality(below(a)) # 0
    BY <2>1, <2>2, FS_EmptySet
  <2>4. Cardinality(below(a)) \in Nat /\ Cardinality(S) \in Nat
    BY <2>2, FS_CardinalityType
  <2> QED
    BY <2>2, <2>3, <2>4
<1>2. ASSUME NEW a \in S, NEW c \in S, a < c
      PROVE  Cardinality(below(a)) # Cardinality(below(c))
  <2>0. \A x \in S : x \in Nat
    OBVIOUS
  <2>1. c \in below(c) /\ c \notin below(a)
    BY <1>2, <2>0
  <2>2. \A x \in below(a) : x \in below(c)
    BY <1>2, <2>0
  <2> QED
    BY <1>1, <2>1, <2>2, FS_Subset
<1>3. rank \in Injection(S, 1..Cardinality(S))
  <2>1. rank \in [S -> 1..Cardinality(S)]
    BY <1>1
  <2>2. ASSUME NEW a \in S, NEW c \in S, rank[a] = rank[c] PROVE a = c
    <3>1. a \in Nat /\ c \in Nat
      OBVIOUS
    <3>2. ~(a < c) /\ ~(c < a)
      BY <1>2, <2>2
    <3> QED
      BY <3>1, <3>2
  <2> QED
    BY <2>1, <2>2 DEF Injection, IsInjective
<1>4. /\ IsFiniteSet(1..Cardinality(S))
      /\ Cardinality(1..Cardinality(S)) = Cardinality(S)
  <2>1. Cardinality(S) \in Nat
    BY FS_CardinalityType
  <2> QED
    BY <2>1, FS_Interval
<1>5. rank \in Surjection(S, 1..Cardinality(S))
  BY <1>3, <1>4, FS_Injection
<1>6. PICK a \in S : rank[a] = i
  BY <1>5 DEF Surjection
<1> QED
  BY <1>6

AlertRow == [id : Alert, attempts : 0..MaxAttempts]

\* The snapshot holds the open alerts of the batch, with the attempts they
\* have in the table, no alert twice.
LEMMA SnapshotFacts ==
  ASSUME TicketTypeOK
  PROVE  /\ Snapshot \in Seq(AlertRow)
         /\ \A i \in 1..Len(Snapshot) :
              /\ Snapshot[i].id \in Open
              /\ Snapshot[i].attempts = attempts[Snapshot[i].id]
              /\ \A j \in 1..Len(Snapshot) : Snapshot[j].id = Snapshot[i].id => j = i
<1> DEFINE n == Cardinality(FirstOpen)
           rank(a) == Cardinality({b \in FirstOpen : b <= a})
           nth(i) == CHOOSE a \in FirstOpen : rank(a) = i
<1>1. Open \subseteq Alert /\ Open \subseteq 1..nalerts /\ nalerts \in Nat
  <2>1. nalerts \in 0..MaxAlert /\ MaxAlert \in Nat
    BY TicketAssumption DEF TicketTypeOK
  <2>2. \A a \in 1..nalerts : a \in Alert
    BY <2>1 DEF Alert
  <2>3. Open \subseteq 1..nalerts
    BY DEF Open
  <2> QED
    BY <2>1, <2>2, <2>3
<1>2. FirstOpen \subseteq Open
  BY DEF FirstOpen
<1>3. IsFiniteSet(FirstOpen) /\ n \in Nat
  <2>1. IsFiniteSet(1..nalerts)
    BY <1>1, FS_Interval
  <2>2. FirstOpen \in SUBSET (1..nalerts)
    BY <1>1, <1>2
  <2> QED
    BY <2>1, <2>2, FS_Subset, FS_CardinalityType
<1>4. ASSUME NEW i \in 1..n PROVE nth(i) \in FirstOpen /\ rank(nth(i)) = i
  <2>1. FirstOpen \subseteq Nat
    BY <1>1, <1>2
  <2>2. \E a \in FirstOpen : rank(a) = i
    BY <1>3, <2>1, NthExists
  <2> QED
    BY <2>2
<1>5. Snapshot = [i \in 1..n |-> [id |-> nth(i), attempts |-> attempts[nth(i)]]]
  BY DEF Snapshot
<1> HIDE DEF n, rank, nth
<1>6. ASSUME NEW i \in 1..n
      PROVE  Snapshot[i] \in AlertRow /\ Snapshot[i].id = nth(i)
             /\ Snapshot[i].attempts = attempts[nth(i)]
  BY <1>1, <1>2, <1>4, <1>5 DEF AlertRow, TicketTypeOK
<1>7. Snapshot \in Seq(AlertRow) /\ Len(Snapshot) = n
  BY <1>3, <1>5, <1>6, IsASeq
<1> QED
  BY <1>2, <1>4, <1>6, <1>7

\* What is left of a batch after its first row.
LEMMA RestOfRows ==
  ASSUME NEW S, NEW s \in Seq(S), s # <<>>
  PROVE  /\ Tail(s) \in Seq(S)
         /\ Len(s) \in Nat \ {0} /\ Len(Tail(s)) = Len(s) - 1
         /\ s[1] \in S
         /\ \A i \in 1..Len(Tail(s)) : i + 1 \in 1..Len(s) /\ Tail(s)[i] = s[i + 1]
<1>1. Len(s) \in Nat \ {0}
  BY EmptySeq, LenProperties
<1>2. Tail(s) \in Seq(S) /\ Len(Tail(s)) = Len(s) - 1
      /\ \A i \in 1..Len(Tail(s)) : Tail(s)[i] = s[i + 1]
  BY HeadTailProperties
<1>3. s[1] \in S
  BY <1>1, ElementOfSeq
<1> QED
  BY <1>1, <1>2, <1>3
-----------------------------------------------------------------------------
(***************************************************************************)
(* The type invariant.  It needs one more fact, that a row of a batch was  *)
(* selected with attempts left, for then one more stays within             *)
(* MaxAttempts, however late the outcome is written.                       *)
(***************************************************************************)
AttemptsLeft ==
  \A p \in Proc : \A i \in 1..Len(work[p].rows) : work[p].rows[i].attempts < MaxAttempts

WorkRecord ==
  [stage : {"fetch", "rows"}, rows : Seq(AlertRow),
   post : {"none", "sending", "ok", "failed"}, since : Nat, took : BOOLEAN]

LEMMA NoWorkType == NoWork \in WorkRecord
BY EmptySeq DEF NoWork, WorkRecord

\* A step of a cycle that starts the next row or ends the batch.
LEMMA NextRowType ==
  ASSUME TicketTypeOK, AttemptsLeft, NEW p \in Proc, work[p].rows # <<>>, NextRow(p)
  PROVE  work' \in [Proc -> WorkRecord] /\ AttemptsLeft'
<1>1. work[p].rows \in Seq(AlertRow) /\ work \in [Proc -> WorkRecord]
  BY DEF TicketTypeOK, AlertRow, WorkRecord
<1> DEFINE rest == Tail(work[p].rows)
<1>2. /\ rest \in Seq(AlertRow)
      /\ \A i \in 1..Len(rest) : i + 1 \in 1..Len(work[p].rows) /\ rest[i] = work[p].rows[i + 1]
  BY <1>1, RestOfRows
<1> HIDE DEF rest
<1>3. work' = [work EXCEPT ![p] = [NoWork EXCEPT !.stage = "rows", !.rows = rest]]
  BY DEF NextRow, rest
<1>4. [NoWork EXCEPT !.stage = "rows", !.rows = rest] \in WorkRecord
  BY <1>2 DEF NoWork, WorkRecord
<1>5. work' \in [Proc -> WorkRecord]
  BY <1>1, <1>3, <1>4
<1>6. work'[p].rows = rest /\ \A q \in Proc \ {p} : work'[q] = work[q]
  BY <1>1, <1>3 DEF NoWork
<1> QED
  BY ZenonT(60), <1>2, <1>5, <1>6 DEF AttemptsLeft

TicketTypes == TicketTypeOK /\ AttemptsLeft

LEMMA ModelBounds ==
  /\ MaxAlert \in Nat /\ MaxFailures \in Nat
  /\ Batch \in Nat \ {0} /\ MaxAttempts \in Nat \ {0} /\ PostMax \in Nat \ {0}
BY TicketAssumption

\* The counters of the model and the bookkeeping of lost answers.
LEMMA CountersTyped ==
  ASSUME TicketTypeOK
  PROVE  /\ nalerts < MaxAlert => nalerts + 1 \in 0..MaxAlert
         /\ Fail => failures' \in 0..MaxFailures
         /\ \A p \in Proc : Forget(p) => lost' \in [Alert -> Nat]
<1>1. nalerts \in 0..MaxAlert /\ failures \in 0..MaxFailures /\ lost \in [Alert -> Nat]
  BY DEF TicketTypeOK
<1>2. nalerts < MaxAlert => nalerts + 1 \in 0..MaxAlert
  BY <1>1, ModelBounds
<1>3. Fail => failures' \in 0..MaxFailures
  BY <1>1, ModelBounds DEF Fail
<1>4. ASSUME NEW p \in Proc, Forget(p) PROVE lost' \in [Alert -> Nat]
  <2> DEFINE a == Head1(p).id
  <2> HIDE DEF a
  <2>1. CASE work[p].took
    <3>1. lost' = [lost EXCEPT ![a] = @ + 1]
      BY <1>4, <2>1 DEF Forget, a
    <3>2. CASE a \in Alert
      BY <1>1, <3>1, <3>2
    <3>3. CASE a \notin Alert
      BY <1>1, <3>1, <3>3
    <3> QED
      BY <3>2, <3>3
  <2>2. CASE ~work[p].took
    BY <1>1, <1>4, <2>2 DEF Forget
  <2> QED
    BY <2>1, <2>2
<1> QED
  BY <1>2, <1>3, <1>4

\* A step that starts no new row keeps every batch as it is, or empties it.
LEMMA RowsKept ==
  ASSUME AttemptsLeft, NEW p \in Proc,
         \A q \in Proc : work'[q].rows \in {work[q].rows, <<>>}
  PROVE  AttemptsLeft'
BY DEF AttemptsLeft

LEMMA CycleTypes ==
  ASSUME TicketTypes, TypeOK', NEW p \in Proc, CycleStep(p)
  PROVE  TicketTypes'
<1> USE TicketAssumption DEF TicketTypes
<1>1. work \in [Proc -> WorkRecord] /\ work[p] \in WorkRecord
  BY DEF TicketTypeOK, WorkRecord, AlertRow
<1>2. HasRow(p) => /\ Head1(p) \in AlertRow /\ Head1(p).attempts < MaxAttempts
                   /\ Head1(p).id \in Alert /\ Head1(p).attempts \in Nat
  <2>1. SUFFICES ASSUME HasRow(p)
                 PROVE  Head1(p) \in AlertRow /\ Head1(p).attempts < MaxAttempts
    BY DEF AlertRow
  <2>2. work[p].rows \in Seq(AlertRow) /\ work[p].rows # <<>>
    BY <1>1, <2>1 DEF WorkRecord, HasRow
  <2>3. 1 \in 1..Len(work[p].rows)
    BY <2>2, RestOfRows
  <2> QED
    BY <2>2, <2>3, RestOfRows DEF Head1, AttemptsLeft
<1>3. ASSUME work' \in [Proc -> WorkRecord], AttemptsLeft', nalerts' = nalerts,
             status' \in [Alert -> Settled \cup {""}],
             attempts' \in [Alert -> 0..MaxAttempts],
             accepted' \in [Alert -> Seq(Proc)], lost' \in [Alert -> Nat],
             failures' \in 0..MaxFailures
      PROVE  TicketTypes'
  BY <1>3 DEF TicketTypeOK, WorkRecord, AlertRow
<1>4. CASE Fetch(p)
  <2>1. Snapshot \in Seq(AlertRow)
        /\ \A i \in 1..Len(Snapshot) : Snapshot[i].attempts < MaxAttempts
    BY SnapshotFacts DEF Open
  <2>2. work' = [work EXCEPT ![p] = [NoWork EXCEPT !.stage = "rows", !.rows = Snapshot]]
    BY <1>4 DEF Fetch
  <2>3. [NoWork EXCEPT !.stage = "rows", !.rows = Snapshot] \in WorkRecord
    BY <2>1 DEF NoWork, WorkRecord
  <2>4. work' \in [Proc -> WorkRecord] /\ work'[p].rows = Snapshot
        /\ \A q \in Proc \ {p} : work'[q] = work[q]
    BY <1>1, <2>2, <2>3 DEF NoWork
  <2>5. AttemptsLeft'
    BY <2>1, <2>4 DEF AttemptsLeft
  <2> QED
    BY <1>3, <1>4, <2>4, <2>5 DEF Fetch, TicketTypeOK
<1>5. CASE Skip(p)
  <2>1. work' \in [Proc -> WorkRecord] /\ AttemptsLeft'
    BY <1>5, NextRowType DEF Skip, HasRow
  <2>2. status' \in [Alert -> Settled \cup {""}]
    BY <1>2, <1>5 DEF Skip, TicketTypeOK, Settled
  <2> QED
    BY <1>3, <1>5, <2>1, <2>2 DEF Skip, TicketTypeOK
<1>6. CASE RecordCreated(p)
  <2>1. work' \in [Proc -> WorkRecord] /\ AttemptsLeft'
    BY <1>6, NextRowType DEF RecordCreated, HasRow
  <2>2. status' \in [Alert -> Settled \cup {""}]
    BY <1>2, <1>6 DEF RecordCreated, TicketTypeOK, Settled
  <2> QED
    BY <1>3, <1>6, <2>1, <2>2 DEF RecordCreated, TicketTypeOK
<1>7. CASE Post(p)
  <2>0. clock \in Nat
    BY DEF TicketTypeOK, TypeOK
  <2>1. work' \in [Proc -> WorkRecord] /\ \A q \in Proc : work'[q].rows = work[q].rows
    BY <1>1, <1>7, <2>0 DEF Post, WorkRecord
  <2> QED
    BY <1>3, <1>7, <2>1, RowsKept DEF Post, TicketTypeOK
<1>8. CASE ApiAccepts(p)
  <2>1. PICK answer \in {"ok", "failed"} :
          work' = [work EXCEPT ![p].post = answer, ![p].took = TRUE]
    BY <1>8 DEF ApiAccepts
  <2>2. work' \in [Proc -> WorkRecord] /\ \A q \in Proc : work'[q].rows = work[q].rows
    BY <1>1, <2>1 DEF WorkRecord
  <2>3. accepted' \in [Alert -> Seq(Proc)]
    <3>1. Append(accepted[Head1(p).id], p) \in Seq(Proc)
      BY <1>2, <1>8, AppendProperties DEF ApiAccepts, TicketTypeOK
    <3> QED
      BY <1>2, <1>8, <3>1 DEF ApiAccepts, TicketTypeOK
  <2> QED
    BY <1>3, <1>8, <2>2, <2>3, RowsKept DEF ApiAccepts, TicketTypeOK
<1>9. CASE ApiRejects(p) \/ RecordCreatedFails(p)
  <2>1. work' = [work EXCEPT ![p].post = "failed"]
    BY <1>9 DEF ApiRejects, RecordCreatedFails
  <2>2. work' \in [Proc -> WorkRecord] /\ \A q \in Proc : work'[q].rows = work[q].rows
    BY <1>1, <2>1 DEF WorkRecord
  <2>3. failures' \in 0..MaxFailures
    BY <1>9, CountersTyped DEF ApiRejects, RecordCreatedFails, TicketTypeOK
  <2> QED
    BY <1>3, <1>9, <2>2, <2>3, RowsKept DEF ApiRejects, RecordCreatedFails, TicketTypeOK
\* The steps that end the cycle.
<1>10. ASSUME EndTicketCycle(p) PROVE work' \in [Proc -> WorkRecord] /\ AttemptsLeft'
  <2>1. work' = [work EXCEPT ![p] = NoWork]
    BY <1>10 DEF EndTicketCycle
  <2>2. work' \in [Proc -> WorkRecord] /\ \A q \in Proc : work'[q].rows \in {work[q].rows, <<>>}
    BY <1>1, <2>1, NoWorkType DEF NoWork
  <2> QED
    BY <2>2, RowsKept
<1>11. CASE RecordFailure(p)
  <2> DEFINE a == Head1(p).id
             n == Head1(p).attempts + 1
  <2>0. a \in Alert /\ Head1(p).attempts \in Nat /\ Head1(p).attempts < MaxAttempts
    BY <1>2, <1>11 DEF RecordFailure
  <2>1. a \in Alert /\ n \in 0..MaxAttempts
    BY <2>0, ModelBounds
  <2>2. /\ attempts' = [attempts EXCEPT ![a] = n]
        /\ status' = [status EXCEPT ![a] = IF n >= MaxAttempts THEN "error" ELSE ""]
    BY <1>11 DEF RecordFailure
  <2> HIDE DEF a, n
  <2>3. attempts' \in [Alert -> 0..MaxAttempts] /\ status' \in [Alert -> Settled \cup {""}]
    BY <2>1, <2>2 DEF TicketTypeOK, Settled
  <2> QED
    BY <1>3, <1>10, <1>11, <2>3 DEF RecordFailure, TicketTypeOK
<1>12. CASE CycleAborts(p)
  <2>1. failures' \in 0..MaxFailures
    BY <1>12, CountersTyped DEF CycleAborts
  <2>2. lost' \in [Alert -> Nat]
    BY <1>12, CountersTyped DEF CycleAborts
  <2> QED
    BY <1>3, <1>10, <1>12, <2>1, <2>2 DEF CycleAborts, TicketTypeOK
<1>13. CASE Finish(p)
  BY <1>3, <1>10, <1>13 DEF Finish, TicketTypeOK
<1> QED
  BY <1>4, <1>5, <1>6, <1>7, <1>8, <1>9, <1>11, <1>12, <1>13 DEF CycleStep

LEMMA TicketTypesInvariant == TicketSpec => []TicketTypes
<1>1. TicketInit /\ TypeOK => TicketTypes
  <2> SUFFICES ASSUME TicketInit, TypeOK PROVE TicketTypes
    OBVIOUS
  <2>1. work \in [Proc -> WorkRecord] /\ \A p \in Proc : work[p].rows = <<>>
    BY NoWorkType DEF TicketInit, NoWork
  <2>2. AttemptsLeft
    BY <2>1, EmptySeq DEF AttemptsLeft
  <2>3. 0 \in 0..MaxAlert /\ 0 \in 0..MaxFailures /\ 0 \in 0..MaxAttempts
    BY ModelBounds
  <2>4. nalerts \in 0..MaxAlert /\ failures \in 0..MaxFailures
    BY <2>3 DEF TicketInit
  <2>5. /\ status \in [Alert -> Settled \cup {""}]
        /\ attempts \in [Alert -> 0..MaxAttempts]
        /\ lost \in [Alert -> Nat]
    BY <2>3 DEF TicketInit
  <2>6. accepted \in [Alert -> Seq(Proc)]
    BY EmptySeq DEF TicketInit
  <2> QED
    BY <2>1, <2>2, <2>4, <2>5, <2>6 DEF TicketTypes, TicketTypeOK, WorkRecord, AlertRow
<1>2. TicketTypes /\ TypeOK' /\ [TicketNext]_allVars => TicketTypes'
  <2> SUFFICES ASSUME TicketTypes, TypeOK', [TicketNext]_allVars PROVE TicketTypes'
    OBVIOUS
  <2>1. ASSUME UNCHANGED <<status, attempts, work, accepted, lost>>,
               nalerts' \in 0..MaxAlert, failures' \in 0..MaxFailures
        PROVE  TicketTypes'
    BY <2>1 DEF TicketTypes, TicketTypeOK, AttemptsLeft
  <2>2. CASE NewAlert
    <3>1. nalerts' \in 0..MaxAlert
      BY <2>2, CountersTyped DEF NewAlert, TicketTypes
    <3> QED
      BY <2>1, <2>2, <3>1 DEF NewAlert, TicketTypes, TicketTypeOK
  <2>3. ASSUME NEW p \in Proc, LeaseStep(p) PROVE TicketTypes'
    <3>1. failures' \in 0..MaxFailures
      BY <2>3, CountersTyped DEF LeaseStep, ticketVars, TicketTypes, TicketTypeOK
    <3> QED
      BY <2>1, <2>3, <3>1 DEF LeaseStep, ticketVars, TicketTypes, TicketTypeOK
  <2>4. ASSUME NEW p \in Proc, CycleStep(p) PROVE TicketTypes'
    BY <2>4, CycleTypes
  <2>5. ASSUME NEW p \in Proc, CrashTicket(p) PROVE TicketTypes'
    <3>1. work' \in [Proc -> WorkRecord] /\ \A q \in Proc : work'[q].rows \in {work[q].rows, <<>>}
      BY <2>5, NoWorkType
      DEF CrashTicket, NoWork, TicketTypes, TicketTypeOK, WorkRecord, AlertRow
    <3>2. failures' \in 0..MaxFailures
      BY <2>5, CountersTyped DEF CrashTicket, TicketTypes
    <3>3. lost' \in [Alert -> Nat]
      BY <2>5, CountersTyped DEF CrashTicket, TicketTypes
    <3> QED
      BY <2>5, <3>1, <3>2, <3>3, RowsKept
      DEF CrashTicket, TicketTypes, TicketTypeOK, WorkRecord, AlertRow
  <2>6. CASE TicketTick \/ UNCHANGED allVars
    BY <2>1, <2>6 DEF TicketTick, ticketVars, allVars, TicketTypes, TicketTypeOK
  <2> QED
    BY <2>2, <2>3, <2>4, <2>5, <2>6 DEF TicketNext
<1> QED
  BY <1>1, <1>2, TicketsUseLeases, TypeCorrect, PTL DEF TicketSpec

\* Every variable of the dispatcher stays in its type, with or without a lease
\* that fits: in particular no attempt count passes MaxAttempts.
THEOREM TicketTypeCorrect == TicketSpec => []TicketTypeOK
<1>1. TicketTypes => TicketTypeOK
  BY DEF TicketTypes
<1> QED
  BY <1>1, TicketTypesInvariant, PTL
-----------------------------------------------------------------------------
(***************************************************************************)
(* What the table says, under CycleFits.  The inductive invariant says     *)
(* that a batch in hand is still what the table holds (Current: one        *)
(* sender, so nobody else settled or retried its alerts), that a POST      *)
(* belongs to the first row of a batch in a cycle (Shape), and that an     *)
(* outcome in the table is what happened (OutcomesHonest, Counted).        *)
(***************************************************************************)
Shape(p) ==
  /\ ~InCycle(p) => work[p] = NoWork
  /\ work[p].stage = "fetch" => work[p] = NoWork
  /\ work[p].post # "none" => work[p].rows # <<>> /\ Head1(p).id \in Qualifying
  /\ work[p].took => work[p].post \in {"ok", "failed"} /\ accepted[Head1(p).id] # <<>>
  /\ work[p].post = "ok" => work[p].took

Current(p) ==
  \A i \in 1..Len(work[p].rows) :
    /\ status[work[p].rows[i].id] = ""
    /\ attempts[work[p].rows[i].id] = work[p].rows[i].attempts
    /\ \A j \in 1..Len(work[p].rows) : work[p].rows[j].id = work[p].rows[i].id => j = i

OutcomesHonest ==
  \A a \in Alert :
    /\ status[a] = "created" => accepted[a] # <<>>
    /\ status[a] = "skipped" => a \notin Qualifying
    /\ accepted[a] # <<>> => a \in Qualifying

\* 1 when an accepted POST for a is in hand, for the work W of the processes.
InHand(W, a) == IF \E p \in Proc : W[p].took /\ W[p].rows[1].id = a THEN 1 ELSE 0

\* The accepted POSTs that n attempts, the status s, l lost answers and h POSTs
\* in hand account for.
Accounts(n, s, l, h) == n + (IF s = "created" THEN 1 ELSE 0) + l + h

Counted ==
  \A a \in Alert :
    Len(accepted[a]) <= Accounts(attempts[a], status[a], lost[a], InHand(work, a))

TicketInv ==
  /\ \A p \in Proc : Shape(p) /\ Current(p)
  /\ OutcomesHonest
  /\ Counted

LEMMA AccountsFacts ==
  ASSUME NEW n \in Nat, NEW l \in Nat, NEW s, s # "created"
  PROVE  /\ Accounts(n, s, l, 0) = n + l
         /\ Accounts(n, s, l, 1) = n + l + 1
         /\ Accounts(n, "created", l, 0) = n + l + 1
         /\ Accounts(n + 1, s, l, 0) = n + l + 1
         /\ Accounts(n, s, l + 1, 0) = n + l + 1
<1>1. (IF s = "created" THEN 1 ELSE 0) = 0
  OBVIOUS
<1> QED
  BY <1>1 DEF Accounts

\* A process without work satisfies its part of the invariant.
LEMMA NoWorkIsFine ==
  ASSUME NEW p \in Proc, work'[p] = NoWork
  PROVE  Shape(p)' /\ Current(p)'
BY EmptySeq DEF Shape, Current, NoWork

\* While one process works through a batch, no other does.
LEMMA OthersRest ==
  ASSUME RunExclusive, TicketInv, NEW p \in Proc, InCycle(p), NEW q \in Proc, q # p
  PROVE  work[q] = NoWork
BY TicketAssumption DEF RunExclusive, Runners, TicketInv, Shape, InCycle

\* The accepted POST in hand is the working process's.
LEMMA OneHand ==
  ASSUME NEW W, NEW p \in Proc, NEW a, \A q \in Proc \ {p} : W[q] = NoWork
  PROVE  /\ W[p].took /\ W[p].rows[1].id = a => InHand(W, a) = 1
         /\ ~W[p].took => InHand(W, a) = 0
         /\ W[p].rows[1].id # a => InHand(W, a) = 0
BY DEF InHand, NoWork

\* The first row of a batch, and what the invariant says of it.
LEMMA FirstRow ==
  ASSUME TicketTypes, TicketInv, NEW p \in Proc, HasRow(p)
  PROVE  /\ work[p].rows \in Seq(AlertRow) /\ work[p].rows # <<>>
         /\ Head1(p).id \in Alert
         /\ status[Head1(p).id] = ""
         /\ attempts[Head1(p).id] = Head1(p).attempts
         /\ Head1(p).attempts \in Nat
<1>1. work[p].rows \in Seq(AlertRow) /\ work[p].rows # <<>>
  BY DEF TicketTypes, TicketTypeOK, AlertRow, HasRow
<1>2. Head1(p) \in AlertRow /\ 1 \in 1..Len(work[p].rows)
  BY <1>1, RestOfRows DEF Head1
<1>3. Current(p)
  BY DEF TicketInv
<1>4. status[Head1(p).id] = "" /\ attempts[Head1(p).id] = Head1(p).attempts
  BY <1>2, <1>3 DEF Current, Head1
<1>5. Head1(p).id \in Alert /\ Head1(p).attempts \in 0..MaxAttempts
  BY <1>2 DEF AlertRow
<1>6. Head1(p).attempts \in Nat
  BY <1>5, ModelBounds
<1> QED
  BY <1>1, <1>4, <1>5, <1>6

\* A row is done and the batch goes on: the rest of it is still current.
LEMMA RestCurrent ==
  ASSUME TicketTypes, TicketInv, NEW p \in Proc, HasRow(p), NextRow(p), InCycle(p)',
         attempts' = attempts, NEW s, status' = [status EXCEPT ![Head1(p).id] = s]
  PROVE  Shape(p)' /\ Current(p)' /\ work'[p].took = FALSE
<1> DEFINE rows == work[p].rows
           rest == Tail(rows)
<1>1. /\ rest \in Seq(AlertRow) /\ Len(rows) \in Nat \ {0}
      /\ \A i \in 1..Len(rest) : i + 1 \in 1..Len(rows) /\ rest[i] = rows[i + 1]
  BY FirstRow, RestOfRows
<1>2. \A i \in 1..Len(rows) :
        /\ status[rows[i].id] = "" /\ attempts[rows[i].id] = rows[i].attempts
        /\ \A j \in 1..Len(rows) : rows[j].id = rows[i].id => j = i
  BY DEF TicketInv, Current
<1>3. Head1(p) = rows[1] /\ 1 \in 1..Len(rows)
  BY <1>1 DEF Head1
<1>4. work'[p] = [NoWork EXCEPT !.stage = "rows", !.rows = rest]
  BY DEF NextRow, TicketTypes, TicketTypeOK
<1> HIDE DEF rows, rest
<1>5. work'[p].rows = rest /\ work'[p].post = "none" /\ work'[p].took = FALSE
      /\ work'[p].stage = "rows"
  BY <1>4 DEF NoWork
<1>6. Shape(p)'
  BY <1>5 DEF Shape
<1>7. ASSUME NEW i \in 1..Len(rest)
      PROVE  /\ status'[rest[i].id] = ""
             /\ attempts'[rest[i].id] = rest[i].attempts
             /\ \A j \in 1..Len(rest) : rest[j].id = rest[i].id => j = i
  <2>1. i \in Nat /\ i + 1 \in 1..Len(rows) /\ rest[i] = rows[i + 1] /\ i + 1 # 1
    BY <1>1
  <2>2. rest[i].id # Head1(p).id
    BY <1>2, <1>3, <2>1
  <2>3. status'[rest[i].id] = status[rest[i].id]
    BY <2>2
  <2>4. ASSUME NEW j \in 1..Len(rest), rest[j].id = rest[i].id PROVE j = i
    <3>1. j \in Nat /\ j + 1 \in 1..Len(rows) /\ rest[j] = rows[j + 1]
      BY <1>1
    <3>2. j + 1 = i + 1
      BY <1>2, <2>1, <2>4, <3>1
    <3> QED
      BY <2>1, <3>1, <3>2
  <2> QED
    BY <1>2, <2>1, <2>3, <2>4
<1> QED
  BY ZenonT(60), <1>5, <1>6, <1>7 DEF Current

\* A step of the POST leaves the batch as it is.
LEMMA SameRowsCurrent ==
  ASSUME TicketInv, NEW p \in Proc, work'[p].rows = work[p].rows,
         UNCHANGED <<status, attempts>>
  PROVE  Current(p)'
<1>1. Current(p)
  BY DEF TicketInv
<1> DEFINE rows == work[p].rows
<1>2. /\ \A i \in 1..Len(rows) :
           /\ status[rows[i].id] = "" /\ attempts[rows[i].id] = rows[i].attempts
           /\ \A j \in 1..Len(rows) : rows[j].id = rows[i].id => j = i
      /\ work'[p].rows = rows
  BY <1>1 DEF Current
<1> HIDE DEF rows
<1> QED
  BY <1>2 DEF Current

\* A cycle that ends with an accepted POST in hand counts it as lost, so that
\* the sum still covers what the API accepted.
LEMMA ForgetCounts ==
  ASSUME TicketTypes, RunExclusive, TicketInv, NEW p \in Proc, InCycle(p), Forget(p),
         UNCHANGED <<status, attempts, accepted>>,
         NEW c \in Alert, InHand(work', c) = 0
  PROVE  Len(accepted'[c]) <= Accounts(attempts'[c], status'[c], lost'[c], InHand(work', c))
<1>1. Len(accepted[c]) <= Accounts(attempts[c], status[c], lost[c], InHand(work, c))
  BY DEF TicketInv, Counted
<1>2. attempts[c] \in 0..MaxAttempts /\ lost \in [Alert -> Nat] /\ accepted[c] \in Seq(Proc)
  BY DEF TicketTypes, TicketTypeOK
<1>3. attempts[c] \in Nat /\ lost[c] \in Nat
  BY <1>2, ModelBounds
<1>4. \A q \in Proc \ {p} : work[q] = NoWork
  BY OthersRest
<1>5. /\ work[p].took /\ work[p].rows[1].id = c => InHand(work, c) = 1
      /\ ~work[p].took => InHand(work, c) = 0
      /\ work[p].rows[1].id # c => InHand(work, c) = 0
  BY <1>4, OneHand
<1>6. UNCHANGED <<accepted[c], attempts[c], status[c]>>
  OBVIOUS
<1>7. CASE work[p].took /\ Head1(p).id = c
  <2>1. InHand(work, c) = 1
    BY <1>5, <1>7 DEF Head1
  <2>2. lost'[c] = lost[c] + 1
    BY <1>2, <1>7 DEF Forget
  <2>3. HasRow(p)
    BY <1>7 DEF TicketInv, Shape, HasRow
  <2>4. status[c] = ""
    BY <1>7, <2>3, FirstRow
  <2>5. Accounts(attempts[c], status[c], lost[c], InHand(work, c))
          = Accounts(attempts[c], "", lost[c], 1)
    BY <2>1, <2>4
  <2>6. Accounts(attempts'[c], status'[c], lost'[c], InHand(work', c))
          = Accounts(attempts[c], "", lost[c] + 1, 0)
    BY <1>6, <2>2, <2>4
  <2>7. Accounts(attempts[c], "", lost[c], 1) = Accounts(attempts[c], "", lost[c] + 1, 0)
    <3>1. Accounts(attempts[c], "", lost[c], 1) = attempts[c] + lost[c] + 1
      BY ZenonT(60), <1>3, AccountsFacts
    <3>2. Accounts(attempts[c], "", lost[c] + 1, 0) = attempts[c] + lost[c] + 1
      BY ZenonT(60), <1>3, AccountsFacts
    <3> QED
      BY <3>1, <3>2
  <2> QED
    BY <1>1, <1>6, <2>5, <2>6, <2>7
<1>8. CASE ~(work[p].took /\ Head1(p).id = c)
  <2>1. InHand(work, c) = 0
    BY <1>5, <1>8 DEF Head1
  <2>2. lost'[c] = lost[c]
    <3>1. CASE ~work[p].took
      BY <3>1 DEF Forget
    <3>2. CASE work[p].took /\ Head1(p).id # c
      BY <1>2, <3>2 DEF Forget
    <3> QED
      BY <1>8, <3>1, <3>2
  <2> QED
    BY <1>1, <1>6, <2>1, <2>2
<1> QED
  BY <1>7, <1>8

\* Every step of a cycle keeps the invariant.  The facts about the alert in hand
\* are written out; the other alerts keep what they have.
LEMMA CycleKeepsInv ==
  ASSUME TicketTypes, RunExclusive, TicketInv, NEW p \in Proc, CycleStep(p)
  PROVE  TicketInv'
<1> DEFINE a == Head1(p).id
<1>1. InCycle(p)
  BY DEF CycleStep, Fetch, Skip, Post, ApiAccepts, ApiRejects, RecordCreated,
     RecordCreatedFails, RecordFailure, CycleAborts, Finish, HasRow
<1>2. /\ work \in [Proc -> WorkRecord]
      /\ status \in [Alert -> Settled \cup {""}]
      /\ attempts \in [Alert -> 0..MaxAttempts]
      /\ accepted \in [Alert -> Seq(Proc)]
      /\ lost \in [Alert -> Nat]
  BY DEF TicketTypes, TicketTypeOK, WorkRecord, AlertRow
<1>3. Shape(p) /\ OutcomesHonest /\ Counted
  BY DEF TicketInv
<1>4. \A q \in Proc \ {p} : work[q] = NoWork
  BY <1>1, OthersRest
<1>5. ASSUME NEW c \in Alert
      PROVE  /\ work[p].took /\ work[p].rows[1].id = c => InHand(work, c) = 1
             /\ ~work[p].took => InHand(work, c) = 0
             /\ work[p].rows[1].id # c => InHand(work, c) = 0
  BY <1>4, OneHand
<1>50. ASSUME \A q \in Proc \ {p} : work'[q] = work[q], NEW c \in Alert
       PROVE  /\ work'[p].took /\ work'[p].rows[1].id = c => InHand(work', c) = 1
              /\ ~work'[p].took => InHand(work', c) = 0
              /\ work'[p].rows[1].id # c => InHand(work', c) = 0
  <2>1. \A q \in Proc \ {p} : work'[q] = NoWork
    BY <1>4, <1>50
  <2> QED
    BY <2>1, OneHand
\* What a step owes: p's part, and the outcomes.
<1>6. ASSUME Shape(p)' /\ Current(p)', \A q \in Proc \ {p} : work'[q] = work[q],
             \A c \in Alert :
               /\ status'[c] = "created" => accepted'[c] # <<>>
               /\ status'[c] = "skipped" => c \notin Qualifying
               /\ accepted'[c] # <<>> => c \in Qualifying
               /\ Len(accepted'[c]) <=
                    Accounts(attempts'[c], status'[c], lost'[c], InHand(work', c))
      PROVE  TicketInv'
  <2>1. \A q \in Proc \ {p} : work'[q] = NoWork
    BY <1>4, <1>6
  <2>2. \A q \in Proc : Shape(q)' /\ Current(q)'
    BY <1>6, <2>1, NoWorkIsFine
  <2> QED
    BY <1>6, <2>2 DEF TicketInv, OutcomesHonest, Counted
<1>7. ASSUME NEW c \in Alert
      PROVE  /\ accepted[c] \in Seq(Proc) /\ Len(accepted[c]) \in Nat
             /\ attempts[c] \in Nat /\ lost[c] \in Nat
             /\ status[c] = "created" => accepted[c] # <<>>
             /\ status[c] = "skipped" => c \notin Qualifying
             /\ accepted[c] # <<>> => c \in Qualifying
             /\ InHand(work, c) \in {0, 1}
             /\ Len(accepted[c]) <= Accounts(attempts[c], status[c], lost[c], InHand(work, c))
  <2>0. attempts[c] \in 0..MaxAttempts
    BY <1>2
  <2>1. attempts[c] \in Nat
    BY <2>0, ModelBounds
  <2>2. accepted[c] \in Seq(Proc) /\ lost[c] \in Nat /\ Len(accepted[c]) \in Nat
    BY <1>2, LenProperties
  <2> QED
    BY <1>3, <2>1, <2>2 DEF OutcomesHonest, Counted, InHand
<1>8. HasRow(p) => /\ a \in Alert /\ status[a] = "" /\ attempts[a] = Head1(p).attempts
                   /\ work[p].rows[1].id = a
  BY FirstRow DEF Head1
<1>9. work[p].took => HasRow(p) /\ work[p].post \in {"ok", "failed"}
  BY <1>1, <1>3 DEF Shape, HasRow
<1> HIDE DEF a
<1>10. CASE Fetch(p)
  <2>1. /\ work'[p] = [NoWork EXCEPT !.stage = "rows", !.rows = Snapshot]
        /\ \A q \in Proc \ {p} : work'[q] = work[q]
        /\ UNCHANGED <<pc, status, attempts, accepted, lost>>
        /\ work[p].stage = "fetch"
    BY <1>2, <1>10 DEF Fetch, vars, procVars
  <2>2. work'[p].rows = Snapshot /\ work'[p].post = "none" /\ ~work'[p].took
        /\ work'[p].stage = "rows" /\ InCycle(p)'
    BY <1>1, <2>1 DEF NoWork, InCycle
  <2>3. Shape(p)'
    BY <2>2 DEF Shape
  <2>4. \A i \in 1..Len(Snapshot) :
          /\ status[Snapshot[i].id] = ""
          /\ attempts[Snapshot[i].id] = Snapshot[i].attempts
          /\ \A j \in 1..Len(Snapshot) : Snapshot[j].id = Snapshot[i].id => j = i
    BY SnapshotFacts DEF Open, TicketTypes
  <2>5. Current(p)'
    BY <2>1, <2>2, <2>4 DEF Current
  <2>6. ~work[p].took
    BY <1>3, <2>1 DEF Shape, NoWork
  <2>7. \A c \in Alert : InHand(work', c) = 0 /\ InHand(work, c) = 0
    BY <1>5, <1>50, <2>1, <2>2, <2>6
  <2> QED
    BY <1>6, <1>7, <2>1, <2>3, <2>5, <2>7
<1>11. CASE Skip(p)
  <2>1. /\ HasRow(p) /\ work[p].post = "none" /\ a \notin Qualifying
        /\ NextRow(p) /\ status' = [status EXCEPT ![a] = "skipped"]
        /\ UNCHANGED <<pc, attempts, accepted, lost>>
    BY <1>11 DEF Skip, vars, procVars, a
  <2>2. Shape(p)' /\ Current(p)' /\ work'[p].took = FALSE
    BY <1>1, <2>1, RestCurrent DEF InCycle, a
  <2>3. ~work[p].took /\ \A q \in Proc \ {p} : work'[q] = work[q]
    BY <1>2, <1>9, <2>1 DEF NextRow
  <2>4. ASSUME NEW c \in Alert
        PROVE  /\ status'[c] = "created" => accepted'[c] # <<>>
               /\ status'[c] = "skipped" => c \notin Qualifying
               /\ accepted'[c] # <<>> => c \in Qualifying
               /\ Len(accepted'[c]) <=
                    Accounts(attempts'[c], status'[c], lost'[c], InHand(work', c))
    <3>1. status'[c] = IF c = a THEN "skipped" ELSE status[c]
      BY <1>2, <2>1
    <3>2. attempts'[c] = attempts[c] /\ lost'[c] = lost[c] /\ accepted'[c] = accepted[c]
      BY <2>1
    <3>3. InHand(work', c) = 0
      BY <1>50, <2>2, <2>3
    <3>4. InHand(work, c) = 0
      BY <1>5, <2>3
    <3>5. Accounts(attempts'[c], status'[c], lost'[c], InHand(work', c))
            = Accounts(attempts[c], status[c], lost[c], InHand(work, c))
      <4>1. status[c] = "created" <=> status'[c] = "created"
        <5>1. CASE c = a
          <6>1. status[c] = "" /\ status'[c] = "skipped"
            BY <1>8, <2>1, <3>1, <5>1
          <6> QED
            BY <6>1
        <5>2. CASE c # a
          BY <3>1, <5>2
        <5> QED
          BY <5>1, <5>2
      <4> QED
        BY <3>2, <3>3, <3>4, <4>1 DEF Accounts
    <3>6. Len(accepted[c]) <= Accounts(attempts[c], status[c], lost[c], InHand(work, c))
      BY <1>7
    <3>7. status'[c] = "created" => accepted'[c] # <<>>
      BY <1>7, <3>1, <3>2
    <3>8. status'[c] = "skipped" => c \notin Qualifying
      BY <1>7, <2>1, <3>1
    <3>9. accepted'[c] # <<>> => c \in Qualifying
      BY <1>7, <3>2
    <3> QED
      BY <3>2, <3>5, <3>6, <3>7, <3>8, <3>9
  <2> QED
    BY <1>6, <2>2, <2>3, <2>4
<1>12. CASE RecordCreated(p)
  <2>1. /\ HasRow(p) /\ work[p].post = "ok"
        /\ NextRow(p) /\ status' = [status EXCEPT ![a] = "created"]
        /\ UNCHANGED <<pc, attempts, accepted, lost>>
    BY <1>12 DEF RecordCreated, vars, procVars, a
  <2>2. Shape(p)' /\ Current(p)' /\ work'[p].took = FALSE
    BY <1>1, <2>1, RestCurrent DEF InCycle, a
  <2>3. /\ work[p].took /\ accepted[a] # <<>>
        /\ \A q \in Proc \ {p} : work'[q] = work[q]
    BY <1>2, <1>3, <2>1 DEF NextRow, Shape, a
  <2>4. ASSUME NEW c \in Alert
        PROVE  /\ status'[c] = "created" => accepted'[c] # <<>>
               /\ status'[c] = "skipped" => c \notin Qualifying
               /\ accepted'[c] # <<>> => c \in Qualifying
               /\ Len(accepted'[c]) <=
                    Accounts(attempts'[c], status'[c], lost'[c], InHand(work', c))
    <3>1. status'[c] = IF c = a THEN "created" ELSE status[c]
      BY <1>2, <2>1
    <3>2. attempts'[c] = attempts[c] /\ lost'[c] = lost[c] /\ accepted'[c] = accepted[c]
      BY <2>1
    <3>3. InHand(work', c) = 0
      BY <1>50, <2>2, <2>3
    <3>4. InHand(work, c) = IF c = a THEN 1 ELSE 0
      <4>1. CASE c = a
        BY <1>5, <1>8, <2>1, <2>3, <4>1
      <4>2. CASE c # a
        BY <1>5, <1>8, <2>1, <4>2
      <4> QED
        BY <4>1, <4>2
    <3>5. Accounts(attempts'[c], status'[c], lost'[c], InHand(work', c))
            = Accounts(attempts[c], status[c], lost[c], InHand(work, c))
      <4>0. attempts[c] \in Nat /\ lost[c] \in Nat
        BY <1>7
      <4>1. CASE c = a
        <5>1. status[c] = "" /\ status'[c] = "created"
          BY <1>8, <2>1, <3>1, <4>1
        <5>2. InHand(work, c) = 1 /\ InHand(work', c) = 0
          BY <3>3, <3>4, <4>1
        <5>3. Accounts(attempts[c], status[c], lost[c], InHand(work, c))
                = attempts[c] + lost[c] + 1
          <6>1. Accounts(attempts[c], status[c], lost[c], InHand(work, c))
                  = Accounts(attempts[c], "", lost[c], 1)
            BY <5>1, <5>2
          <6>2. Accounts(attempts[c], "", lost[c], 1) = attempts[c] + lost[c] + 1
            BY <4>0, AccountsFacts
          <6> QED
            BY <6>1, <6>2
        <5>4. Accounts(attempts'[c], status'[c], lost'[c], InHand(work', c))
                = attempts[c] + lost[c] + 1
          BY ZenonT(60), <3>2, <4>0, <5>1, <5>2, AccountsFacts
        <5> QED
          BY <5>3, <5>4
      <4>2. CASE c # a
        BY <3>1, <3>2, <3>3, <3>4, <4>2
      <4> QED
        BY <4>1, <4>2
    <3> QED
      BY <1>7, <2>3, <3>1, <3>2, <3>5
  <2> QED
    BY <1>6, <2>2, <2>3, <2>4
<1>13. CASE Post(p)
  <2>1. /\ HasRow(p) /\ work[p].post = "none" /\ a \in Qualifying
        /\ work' = [work EXCEPT ![p].post = "sending", ![p].since = clock]
        /\ UNCHANGED <<pc, status, attempts, accepted, lost>>
    BY <1>13 DEF Post, vars, procVars, a
  <2>2. /\ \A q \in Proc \ {p} : work'[q] = work[q]
        /\ work'[p].rows = work[p].rows /\ work'[p].post = "sending"
        /\ work'[p].took = work[p].took /\ work'[p].stage = work[p].stage
    BY <1>2, <2>1 DEF WorkRecord
  <2>3. Current(p)' /\ InCycle(p)' /\ ~work[p].took
    BY <1>1, <1>9, <2>1, <2>2, SameRowsCurrent DEF InCycle
  <2>4. work[p].stage # "fetch"
    BY <1>3, <2>1 DEF Shape, HasRow, NoWork
  <2>5. Shape(p)'
    BY <2>1, <2>2, <2>3, <2>4 DEF Shape, Head1, HasRow, a
  <2>6. \A c \in Alert : InHand(work', c) = 0 /\ InHand(work, c) = 0
    BY <1>5, <1>50, <2>2, <2>3
  <2> QED
    BY <1>6, <1>7, <2>1, <2>2, <2>3, <2>5, <2>6
<1>14. CASE ApiAccepts(p)
  <2>1. PICK answer \in {"ok", "failed"} :
          work' = [work EXCEPT ![p].post = answer, ![p].took = TRUE]
    BY <1>14 DEF ApiAccepts
  <2>2. /\ HasRow(p) /\ work[p].post = "sending"
        /\ accepted' = [accepted EXCEPT ![a] = Append(@, p)]
        /\ UNCHANGED <<pc, status, attempts, lost>>
    BY <1>14 DEF ApiAccepts, vars, procVars, a
  <2>3. /\ \A q \in Proc \ {p} : work'[q] = work[q]
        /\ work'[p].rows = work[p].rows /\ work'[p].post = answer
        /\ work'[p].took = TRUE /\ work'[p].stage = work[p].stage
    BY ZenonT(60), <1>2, <2>1 DEF WorkRecord
  <2>4. Current(p)' /\ InCycle(p)' /\ ~work[p].took /\ a \in Qualifying
    BY <1>1, <1>3, <2>2, <2>3, SameRowsCurrent DEF InCycle, Shape, a
  <2>5. work[p].stage # "fetch"
    BY <1>3, <2>2 DEF Shape, HasRow, NoWork
  <2>6. accepted'[a] # <<>> /\ Len(accepted'[a]) = Len(accepted[a]) + 1
    <3>1. accepted'[a] = Append(accepted[a], p)
      BY <1>2, <1>8, <2>2
    <3>2. accepted[a] \in Seq(Proc)
      BY <1>7, <1>8, <2>2
    <3> QED
      BY <3>1, <3>2, AppendProperties, EmptySeq
  <2>7. Shape(p)'
    BY <2>2, <2>3, <2>4, <2>5, <2>6 DEF Shape, Head1, HasRow, a
  <2>8. ASSUME NEW c \in Alert
        PROVE  /\ status'[c] = "created" => accepted'[c] # <<>>
               /\ status'[c] = "skipped" => c \notin Qualifying
               /\ accepted'[c] # <<>> => c \in Qualifying
               /\ Len(accepted'[c]) <=
                    Accounts(attempts'[c], status'[c], lost'[c], InHand(work', c))
    <3>1. attempts'[c] = attempts[c] /\ lost'[c] = lost[c] /\ status'[c] = status[c]
      BY <2>2
    <3>2. InHand(work, c) = 0
      BY <1>5, <2>4
    <3>3. CASE c = a
      <4>1. InHand(work', c) = 1
        BY <1>8, <1>50, <2>2, <2>3, <3>3
      <4>2. status[c] = "" /\ attempts[c] \in Nat /\ lost[c] \in Nat /\ Len(accepted[c]) \in Nat
        BY <1>7, <1>8, <2>2, <3>3
      <4>3. Len(accepted[c]) <= Accounts(attempts[c], status[c], lost[c], InHand(work, c))
        BY <1>7
      <4>4. Len(accepted[c]) <= attempts[c] + lost[c]
        BY ZenonT(60), <3>2, <4>2, <4>3, AccountsFacts
      <4>5. Accounts(attempts'[c], status'[c], lost'[c], InHand(work', c)) = attempts[c] + lost[c] + 1
        <5>1. Accounts(attempts'[c], status'[c], lost'[c], InHand(work', c))
                = Accounts(attempts[c], "", lost[c], 1)
          BY <3>1, <4>1, <4>2
        <5>2. Accounts(attempts[c], "", lost[c], 1) = attempts[c] + lost[c] + 1
          BY ZenonT(60), <4>2, AccountsFacts
        <5> QED
          BY <5>1, <5>2
      <4>6. Len(accepted'[c]) = Len(accepted[c]) + 1 /\ c \in Qualifying /\ accepted'[c] # <<>>
        BY <2>4, <2>6, <3>3
      <4>7. Len(accepted'[c]) <=
              Accounts(attempts'[c], status'[c], lost'[c], InHand(work', c))
        <5>1. Len(accepted'[c]) <= attempts[c] + lost[c] + 1
          <6> DEFINE k == Len(accepted[c])
                     m == attempts[c] + lost[c]
          <6>1. k \in Nat /\ m \in Nat
            <7>1. k \in Nat /\ attempts[c] \in Nat /\ lost[c] \in Nat
              BY <4>2
            <7> QED
              BY <7>1
          <6>2. k <= m /\ Len(accepted'[c]) = k + 1
            BY <4>4, <4>6
          <6> HIDE DEF k, m
          <6>3. Len(accepted'[c]) <= m + 1
            BY <6>1, <6>2
          <6> QED
            BY <6>3 DEF m
        <5> QED
          BY <4>5, <5>1
      <4> QED
        BY <3>1, <4>2, <4>6, <4>7
    <3>4. CASE c # a
      <4>1. InHand(work', c) = 0 /\ accepted'[c] = accepted[c]
        <5>1. work'[p].rows[1].id # c
          BY <1>8, <2>2, <2>3, <3>4
        <5> QED
          BY <1>2, <1>50, <2>2, <2>3, <3>4, <5>1
      <4> QED
        BY <1>7, <3>1, <3>2, <4>1
    <3> QED
      BY <3>3, <3>4
  <2> QED
    BY <1>6, <2>3, <2>4, <2>7, <2>8
<1>15. CASE ApiRejects(p) \/ RecordCreatedFails(p)
  <2>1. /\ HasRow(p) /\ work[p].post \in {"sending", "ok"}
        /\ work' = [work EXCEPT ![p].post = "failed"]
        /\ UNCHANGED <<pc, status, attempts, accepted, lost>>
    BY <1>15 DEF ApiRejects, RecordCreatedFails, vars, procVars
  <2>2. /\ \A q \in Proc \ {p} : work'[q] = work[q]
        /\ work'[p].rows = work[p].rows /\ work'[p].post = "failed"
        /\ work'[p].took = work[p].took /\ work'[p].stage = work[p].stage
    BY <1>2, <2>1 DEF WorkRecord
  <2>3. Current(p)' /\ InCycle(p)' /\ work[p].stage # "fetch"
    BY <1>1, <1>3, <2>1, <2>2, SameRowsCurrent DEF InCycle, Shape, NoWork
  <2>4. Shape(p)'
    BY <1>3, <2>1, <2>2, <2>3 DEF Shape, Head1, HasRow
  <2>5. \A c \in Alert : InHand(work', c) = InHand(work, c)
    BY <2>2 DEF InHand
  <2> QED
    BY <1>6, <1>7, <2>1, <2>2, <2>3, <2>4, <2>5
\* The steps that end the cycle: the row in hand has its outcome, or is lost.
<1>16. ASSUME EndTicketCycle(p)
       PROVE  /\ Shape(p)' /\ Current(p)' /\ \A q \in Proc \ {p} : work'[q] = work[q]
              /\ \A c \in Alert : InHand(work', c) = 0
  <2>1. work'[p] = NoWork /\ \A q \in Proc \ {p} : work'[q] = work[q]
    BY <1>2, <1>16 DEF EndTicketCycle
  <2>2. ~work'[p].took
    BY <2>1 DEF NoWork
  <2>3. \A c \in Alert : InHand(work', c) = 0
    BY <1>50, <2>1, <2>2
  <2> QED
    BY <2>1, <2>3, NoWorkIsFine
<1>17. CASE RecordFailure(p)
  <2> DEFINE n == Head1(p).attempts + 1
             s == IF n >= MaxAttempts THEN "error" ELSE ""
  <2>1. /\ HasRow(p) /\ work[p].post = "failed" /\ EndTicketCycle(p)
        /\ attempts' = [attempts EXCEPT ![a] = n]
        /\ status' = [status EXCEPT ![a] = s]
        /\ UNCHANGED <<accepted, lost>>
    BY <1>17 DEF RecordFailure, a
  <2>2. a \in Alert /\ status[a] = "" /\ n = attempts[a] + 1 /\ attempts[a] \in Nat
    BY <1>7, <1>8, <2>1
  <2>3. s \in {"error", ""}
    OBVIOUS
  <2> HIDE DEF n, s
  <2>4. ASSUME NEW c \in Alert
        PROVE  /\ status'[c] = "created" => accepted'[c] # <<>>
               /\ status'[c] = "skipped" => c \notin Qualifying
               /\ accepted'[c] # <<>> => c \in Qualifying
               /\ Len(accepted'[c]) <=
                    Accounts(attempts'[c], status'[c], lost'[c], InHand(work', c))
    <3>1. accepted'[c] = accepted[c] /\ lost'[c] = lost[c] /\ InHand(work', c) = 0
      BY <1>16, <2>1
    <3>2. CASE c = a
      <4>1. attempts'[c] = attempts[c] + 1 /\ status'[c] = s
        BY <1>2, <2>1, <2>2, <3>2
      <4>2. /\ attempts[c] \in Nat /\ lost[c] \in Nat /\ Len(accepted[c]) \in Nat
            /\ status[c] = "" /\ s # "created"
        BY <1>7, <2>2, <2>3, <3>2
      <4>3. Len(accepted[c]) <= attempts[c] + lost[c] + 1
        <5>1. Len(accepted[c]) <= Accounts(attempts[c], status[c], lost[c], InHand(work, c))
          BY <1>7
        <5>2. CASE InHand(work, c) = 0
          <6> DEFINE k == Len(accepted[c])
                     m == attempts[c] + lost[c]
          <6>0. Accounts(attempts[c], status[c], lost[c], 0) = attempts[c] + lost[c]
            <7>1. attempts[c] \in Nat /\ lost[c] \in Nat /\ status[c] # "created"
              BY <4>2
            <7> QED
              BY <7>1, AccountsFacts
          <6>1. k <= m
            BY <5>1, <5>2, <6>0
          <6>2. k \in Nat /\ m \in Nat
            <7>1. k \in Nat /\ attempts[c] \in Nat /\ lost[c] \in Nat
              BY <4>2
            <7> QED
              BY <7>1
          <6> HIDE DEF k, m
          <6>3. k <= m + 1
            BY <6>1, <6>2
          <6> QED
            BY <6>3 DEF k, m
        <5>3. CASE InHand(work, c) = 1
          <6>1. Len(accepted[c]) <= Accounts(attempts[c], "", lost[c], 1)
            BY <4>2, <5>1, <5>3
          <6>2. Accounts(attempts[c], "", lost[c], 1) = attempts[c] + lost[c] + 1
            BY ZenonT(60), <4>2, AccountsFacts
          <6> QED
            BY <6>1, <6>2
        <5> QED
          BY <1>7, <5>2, <5>3
      <4>4. Accounts(attempts'[c], status'[c], lost'[c], InHand(work', c))
              = Accounts(attempts[c] + 1, s, lost[c], 0)
        BY <3>1, <4>1
      <4>5. Accounts(attempts[c] + 1, s, lost[c], 0) = attempts[c] + lost[c] + 1
        BY ZenonT(60), <4>2, AccountsFacts
      <4>6. status'[c] \notin {"created", "skipped"}
        BY <2>3, <4>1
      <4> QED
        BY <1>7, <3>1, <4>3, <4>4, <4>5, <4>6
    <3>3. CASE c # a
      <4>1. attempts'[c] = attempts[c] /\ status'[c] = status[c]
        BY <1>2, <2>1, <3>3
      <4>2. InHand(work, c) = 0
        BY <1>5, <1>8, <2>1, <3>3
      <4> QED
        BY <1>7, <3>1, <4>1, <4>2
    <3> QED
      BY <3>2, <3>3
  <2> QED
    BY <1>6, <1>16, <2>1, <2>4
<1>18. CASE CycleAborts(p)
  <2>1. EndTicketCycle(p) /\ Forget(p) /\ UNCHANGED <<status, attempts, accepted>>
    BY <1>18 DEF CycleAborts
  <2>2. ASSUME NEW c \in Alert
        PROVE  Len(accepted'[c]) <=
                 Accounts(attempts'[c], status'[c], lost'[c], InHand(work', c))
    <3>1. InHand(work', c) = 0
      BY <1>16, <2>1
    <3> QED
      BY <1>1, <2>1, <3>1, ForgetCounts
  <2> QED
    BY <1>6, <1>7, <1>16, <2>1, <2>2
<1>19. CASE Finish(p)
  <2>1. EndTicketCycle(p) /\ work[p].rows = <<>>
        /\ UNCHANGED <<status, attempts, accepted, lost>>
    BY <1>19 DEF Finish
  <2>2. ~work[p].took
    BY <1>9, <2>1 DEF HasRow
  <2>3. \A c \in Alert : InHand(work, c) = 0
    BY <1>5, <2>2
  <2> QED
    BY <1>6, <1>7, <1>16, <2>1, <2>3
<1> QED
  BY <1>10, <1>11, <1>12, <1>13, <1>14, <1>15, <1>17, <1>18, <1>19 DEF CycleStep

\* A crash drops the process's work, and counts an accepted POST as lost.
LEMMA CrashKeepsInv ==
  ASSUME TicketTypes, RunExclusive, TicketInv, NEW p \in Proc, CrashTicket(p)
  PROVE  TicketInv'
<1>1. /\ work' = [work EXCEPT ![p] = NoWork] /\ Forget(p)
      /\ UNCHANGED <<status, attempts, accepted>>
      /\ pc' = [pc EXCEPT ![p] = [j \in Job |-> "idle"]]
  BY DEF CrashTicket, Crash
<1>2. work \in [Proc -> WorkRecord] /\ pc \in [Proc -> [Job -> Timed \cup {"idle", "denied", "releasing"}]]
  BY DEF TicketTypes, TicketTypeOK, TypeOK, WorkRecord, AlertRow
<1>3. work'[p] = NoWork /\ \A q \in Proc \ {p} : work'[q] = work[q] /\ pc'[q] = pc[q]
  BY <1>1, <1>2
<1>4. ASSUME NEW q \in Proc PROVE Shape(q)' /\ Current(q)'
  <2>1. CASE q = p
    BY <1>3, <2>1, NoWorkIsFine
  <2>2. CASE q # p
    <3>1. work'[q] = work[q] /\ pc'[q] = pc[q] /\ UNCHANGED <<status, attempts, accepted>>
      BY <1>1, <1>3, <2>2
    <3>2. Current(q)'
      BY <3>1, SameRowsCurrent
    <3>3. Shape(q)
      BY DEF TicketInv
    <3>4. Shape(q)'
      BY <3>1, <3>3 DEF Shape, InCycle, Head1
    <3> QED
      BY <3>2, <3>4
  <2> QED
    BY <2>1, <2>2
<1>5. OutcomesHonest'
  BY <1>1 DEF TicketInv, OutcomesHonest
<1>6. ASSUME NEW c \in Alert
      PROVE  Len(accepted'[c]) <= Accounts(attempts'[c], status'[c], lost'[c], InHand(work', c))
  <2>1. CASE InCycle(p)
    <3>1. \A q \in Proc \ {p} : work'[q] = NoWork
      BY <1>3, <2>1, OthersRest
    <3>2. InHand(work', c) = 0
      BY <1>3, <3>1 DEF InHand, NoWork
    <3> QED
      BY <1>1, <2>1, <3>2, ForgetCounts
  <2>2. CASE ~InCycle(p)
    <3>1. work[p] = NoWork
      BY <2>2 DEF TicketInv, Shape
    <3>2. work' = work /\ lost' = lost
      BY <1>1, <1>2, <3>1 DEF Forget, NoWork
    <3> QED
      BY <1>1, <3>2 DEF TicketInv, Counted
  <2> QED
    BY <2>1, <2>2
<1> QED
  BY <1>4, <1>5, <1>6 DEF TicketInv, Counted

\* The steps that leave tickets, table and batches alone.
LEMMA QuietKeepsInv ==
  ASSUME TicketInv, UNCHANGED <<status, attempts, work, accepted, lost>>,
         \A p \in Proc : InCycle(p) => InCycle(p)'
  PROVE  TicketInv'
<1>1. ASSUME NEW p \in Proc PROVE Shape(p)' /\ Current(p)'
  <2>1. Shape(p) /\ (InCycle(p) => InCycle(p)')
    BY DEF TicketInv
  <2>2. Shape(p)'
    BY <2>1 DEF Shape, Head1
  <2> QED
    BY <2>2, SameRowsCurrent
<1>2. OutcomesHonest' /\ Counted'
  BY DEF TicketInv, OutcomesHonest, Counted
<1> QED
  BY <1>1, <1>2 DEF TicketInv

LEMMA TicketInvariant ==
  ASSUME CycleFits
  PROVE  TicketSpec => [](TicketTypes /\ RunExclusive /\ TicketInv)
<1>1. TicketInit => TicketInv
  <2> SUFFICES ASSUME TicketInit PROVE TicketInv
    OBVIOUS
  <2>1. /\ \A p \in Proc : work[p] = NoWork
        /\ \A a \in Alert : /\ status[a] = "" /\ accepted[a] = <<>>
                            /\ attempts[a] = 0 /\ lost[a] = 0
    BY DEF TicketInit
  <2>2. ASSUME NEW p \in Proc PROVE Shape(p) /\ Current(p)
    <3>1. work[p] = NoWork
      BY <2>1
    <3> QED
      BY <3>1 DEF Shape, Current, NoWork
  <2>3. ASSUME NEW a PROVE InHand(work, a) = 0
    <3>1. ASSUME NEW p \in Proc PROVE ~work[p].took
      <4>1. work[p] = NoWork
        BY <2>1
      <4> QED
        BY <4>1 DEF NoWork
    <3> QED
      BY <3>1 DEF InHand
  <2>4. Accounts(0, "", 0, 0) = 0 /\ Len(<<>>) = 0
    BY DEF Accounts
  <2>5. ASSUME NEW a \in Alert
        PROVE  Len(accepted[a]) <=
                 Accounts(attempts[a], status[a], lost[a], InHand(work, a))
    <3>1. Accounts(attempts[a], status[a], lost[a], InHand(work, a)) = Accounts(0, "", 0, 0)
      BY <2>1, <2>3
    <3>2. Accounts(attempts[a], status[a], lost[a], InHand(work, a)) = 0
      BY <2>4, <3>1
    <3>3. Len(accepted[a]) = 0
      BY <2>1, <2>4
    <3>4. 0 <= 0
      OBVIOUS
    <3> QED
      BY <3>2, <3>3, <3>4
  <2> QED
    BY <2>1, <2>2, <2>5 DEF TicketInv, OutcomesHonest, Counted
<1>2. TypeOK /\ TicketTypes /\ RunExclusive /\ TicketInv /\ [TicketNext]_allVars => TicketInv'
  <2> SUFFICES ASSUME TypeOK, TicketTypes, RunExclusive, TicketInv, [TicketNext]_allVars
               PROVE  TicketInv'
    OBVIOUS
  <2>1. CASE NewAlert
    BY <2>1, QuietKeepsInv DEF NewAlert, vars, procVars, InCycle
  <2>2. ASSUME NEW p \in Proc, LeaseStep(p) PROVE TicketInv'
    <3>1. /\ UNCHANGED <<status, attempts, work, accepted, lost>>
          /\ pc[p][ticket] # "running"
          /\ \E to \in {"claiming", "granted", "denied", "running", "idle"} :
               pc' = [pc EXCEPT ![p][ticket] = to]
      BY <2>2 DEF LeaseStep, ticketVars, BeginHold, Grant, Deny, FailHold, ReturnHeld,
                  ReturnDenied, Goto
    <3>2. \A q \in Proc : InCycle(q) => InCycle(q)'
      BY <3>1 DEF InCycle, TypeOK
    <3> QED
      BY <3>1, <3>2, QuietKeepsInv
  <2>3. ASSUME NEW p \in Proc, CycleStep(p) PROVE TicketInv'
    BY <2>3, CycleKeepsInv
  <2>4. ASSUME NEW p \in Proc, CrashTicket(p) PROVE TicketInv'
    BY <2>4, CrashKeepsInv
  <2>5. CASE TicketTick \/ UNCHANGED allVars
    <3>1. UNCHANGED <<pc, status, attempts, work, accepted, lost>>
      BY <2>5 DEF TicketTick, Tick, allVars, ticketVars, vars, procVars
    <3> QED
      BY <3>1, QuietKeepsInv DEF InCycle
  <2> QED
    BY <2>1, <2>2, <2>3, <2>4, <2>5 DEF TicketNext
<1>3. Spec => []RunExclusive
  BY OneProcessAtATime
<1> QED
  BY <1>1, <1>2, <1>3, TicketsUseLeases, TypeCorrect, TicketTypesInvariant, PTL DEF TicketSpec
-----------------------------------------------------------------------------
\* No alert is in two POSTs at once: what workers.py:295 promises holds of every
\* cycle that fits into its lease.
THEOREM OneSenderHolds ==
  ASSUME CycleFits
  PROVE  TicketSpec => []OneSenderPerAlert
<1>1. RunExclusive /\ TicketInv => OneSenderPerAlert
  <2> SUFFICES ASSUME RunExclusive, TicketInv, NEW p \in Proc, NEW q \in Proc,
                      work[p].post = "sending", work[q].post = "sending"
               PROVE  p = q
    BY DEF OneSenderPerAlert
  <2>1. InCycle(p)
    BY DEF TicketInv, Shape, NoWork
  <2> QED
    BY <2>1, OthersRest DEF NoWork
<1> QED
  BY <1>1, TicketInvariant, PTL

\* Every ticket the API opened is accounted for by the table, a POST in hand or a
\* cycle that died between POST and record; `created' has a ticket, `skipped'
\* has none.
THEOREM TicketsAccountedHolds ==
  ASSUME CycleFits
  PROVE  TicketSpec => []TicketsAccounted
<1>1. TicketTypes /\ RunExclusive /\ TicketInv => TicketsAccounted
  <2> SUFFICES ASSUME TicketTypes, RunExclusive, TicketInv PROVE TicketsAccounted
    OBVIOUS
  <2>1. RecordsTruthful
    BY DEF TicketInv, OutcomesHonest, RecordsTruthful
  <2>2. ASSUME NEW a \in Alert
        PROVE  InHand(work, a) = Cardinality({p \in Proc : HasRow(p) /\ Head1(p).id = a /\ work[p].took})
    <3> DEFINE hands == {p \in Proc : HasRow(p) /\ Head1(p).id = a /\ work[p].took}
    <3>1. \A p \in Proc : work[p].took => HasRow(p)
      BY DEF TicketInv, Shape, HasRow, NoWork
    <3>2. CASE \E p \in Proc : work[p].took /\ work[p].rows[1].id = a
      <4>1. PICK p \in Proc : work[p].took /\ work[p].rows[1].id = a
        BY <3>2
      <4>2. \A q \in Proc \ {p} : work[q] = NoWork
        BY <3>1, <4>1, OthersRest DEF HasRow
      <4>3. hands = {p}
        BY <3>1, <4>1, <4>2 DEF Head1, NoWork
      <4> QED
        BY <3>2, <4>3, FS_Singleton DEF InHand
    <3>3. CASE ~\E p \in Proc : work[p].took /\ work[p].rows[1].id = a
      <4>1. hands = {}
        BY <3>3 DEF Head1
      <4> QED
        BY <3>3, <4>1, FS_EmptySet DEF InHand
    <3> QED
      BY <3>2, <3>3
  <2>3. SendsAccounted
    BY <2>2 DEF TicketInv, Counted, Accounts, SendsAccounted
  <2> QED
    BY <2>1, <2>3 DEF TicketsAccounted
<1> QED
  BY <1>1, TicketInvariant, PTL

\* A settled alert is never reopened or relabelled: a write of the batch finds
\* its alert still open, because no other process has worked on it since.
THEOREM SettledStaysHolds ==
  ASSUME CycleFits
  PROVE  TicketSpec => SettledStays
<1>1. TicketTypes /\ TicketInv /\ [TicketNext]_allVars =>
        [\A a \in Alert : status[a] \in Settled => status'[a] = status[a]]_allVars
  <2> SUFFICES ASSUME TicketTypes, TicketInv, TicketNext,
                      NEW a \in Alert, status[a] \in Settled
               PROVE  status'[a] = status[a]
    OBVIOUS
  <2>1. status[a] # "" /\ status \in [Alert -> Settled \cup {""}]
    BY DEF Settled, TicketTypes, TicketTypeOK
  <2>2. CASE UNCHANGED status
    BY <2>2
  <2>3. ASSUME NEW p \in Proc, HasRow(p), NEW s, status' = [status EXCEPT ![Head1(p).id] = s]
        PROVE  status'[a] = status[a]
    <3>1. Head1(p).id # a
      BY <2>1, <2>3, FirstRow
    <3> QED
      BY <2>1, <2>3, <3>1
  <2>4. ASSUME NEW p \in Proc, CycleStep(p) PROVE status'[a] = status[a]
    <3>1. \/ UNCHANGED status
          \/ HasRow(p) /\ \E s : status' = [status EXCEPT ![Head1(p).id] = s]
      BY <2>4 DEF CycleStep, Fetch, Skip, Post, ApiAccepts, ApiRejects, RecordCreated,
         RecordCreatedFails, RecordFailure, CycleAborts, Finish
    <3> QED
      BY <2>3, <3>1
  <2> QED
    BY <2>2, <2>4 DEF TicketNext, NewAlert, LeaseStep, CrashTicket, TicketTick, ticketVars
<1> QED
  BY <1>1, TicketInvariant, PTL DEF TicketSpec, SettledStays

=============================================================================
