------------------------------ MODULE JobBatch ------------------------------
(***************************************************************************)
(* What a thread-budget batch runner promises, with no loop, polling or    *)
(* process in it: each job goes pending -> running -> finished, several    *)
(* may start or finish in one step, and the threads needed by the running  *)
(* jobs never exceed the budget.  A job whose need is above the budget can *)
(* never start.                                                            *)
(***************************************************************************)
EXTENDS Integers, Functions

CONSTANTS Jobs, Budget

VARIABLES status, need

vars == <<status, need>>

Threads(S) == SumFunctionOnSet(need, S)

InState(s) == {j \in Jobs : status[j] = s}

Init ==
  /\ need \in [Jobs -> Int]
  /\ status = [j \in Jobs |-> "pending"]

(* Some pending jobs start together, if their threads are free. *)
Start(S) ==
  /\ S # {}
  /\ S \subseteq InState("pending")
  /\ Threads(InState("running") \cup S) <= Budget
  /\ status' = [j \in Jobs |-> IF j \in S THEN "running" ELSE status[j]]
  /\ UNCHANGED need

(* Some running jobs finish together. *)
Finish(S) ==
  /\ S # {}
  /\ S \subseteq InState("running")
  /\ status' = [j \in Jobs |-> IF j \in S THEN "finished" ELSE status[j]]
  /\ UNCHANGED need

Next == \E S \in SUBSET Jobs : Start(S) \/ Finish(S)

Spec == Init /\ [][Next]_vars

====
