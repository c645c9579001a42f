----------------------------- MODULE MCJobsAndSets -----------------------------
(***************************************************************************)
(* A warmup job, in every scenario of MCWarmup, and a set of groups, in    *)
(* the instance of MCGroupSet.  The two controllers share nothing that     *)
(* their properties are about, so part says which of them a behaviour is   *)
(* about, and the other one stays at rest.                                 *)
(***************************************************************************)
EXTENDS MCWarmup, MCGroupSet

VARIABLE part      \* rigid: "job" or "set"

\* Nothing that fairness names can run.
JobIdle ==
  /\ conf = Fixed(NoPolicies) /\ group = Deleted
  /\ job = [exists |-> FALSE, paused |-> FALSE,
            st |-> [phase |-> "", started |-> FALSE, finished |-> FALSE, desired |-> 0, active |-> 0,
                    succeeded |-> 0, failed |-> 0, ready |-> "", action |-> "",
                    results |-> [n \in Nodes |-> NoResult]]]
  /\ seenJob = job /\ fresh = TRUE
  /\ pods = <<>> /\ seen = <<>> /\ feed = <<>>
  /\ queued = FALSE /\ timer = FALSE /\ expired = FALSE /\ aged = FALSE
  /\ moves = 0 /\ faults = 0 /\ pauses = 0
SetIdle ==
  /\ set = None /\ setSeen = None
  /\ groups = [i \in Indexes |-> None] /\ groupsSeen = groups /\ unseen = {} /\ loud = {}
  /\ orphanLost = FALSE /\ setQueued = FALSE /\ setBudget = 0

allVars == <<part, vars, setVars>>
PartInit ==
  \/ part = "job" /\ Init /\ SetIdle
  \/ part = "set" /\ SetInit /\ JobIdle
PartNext ==
  /\ UNCHANGED part
  /\ \/ part = "job" /\ Next /\ UNCHANGED setVars
     \/ part = "set" /\ SetNext /\ UNCHANGED vars
PartSpec == PartInit /\ [][PartNext]_allVars /\ JobFairness /\ SetFairness
================================================================================
