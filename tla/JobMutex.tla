------------------------------ MODULE JobMutex ------------------------------
(***************************************************************************)
(* What the job leases promise to the background jobs: "each background    *)
(* job runs in one process at a time" (leases.py:1).  A job is started by  *)
(* a process only when no process runs it, and a process may stop any      *)
(* number of its jobs at once, because it may die.                         *)
(***************************************************************************)
CONSTANTS Proc, Job

VARIABLE running        \* running[j]: the processes that run job j now

Init == running = [j \in Job |-> {}]

Start(p, j) ==
  /\ running[j] = {}
  /\ running' = [running EXCEPT ![j] = {p}]

Stop(p, jobs) ==
  /\ \A j \in jobs : running[j] = {p}
  /\ running' = [j \in Job |-> IF j \in jobs THEN {} ELSE running[j]]

Next ==
  \E p \in Proc :
    \/ \E j \in Job : Start(p, j)
    \/ \E jobs \in SUBSET Job : Stop(p, jobs)

Spec == Init /\ [][Next]_running
=============================================================================
