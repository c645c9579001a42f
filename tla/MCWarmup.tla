------------------------------- MODULE MCWarmup -------------------------------
(***************************************************************************)
(* Instances of Warmup: jobs for fixed nodes, and for groups whose pods    *)
(* appear, move and vanish.                                                *)
(***************************************************************************)
EXTENDS Warmup

Image == [items |-> 1, blank |-> FALSE, timeout |-> None]
NoPolicies == [parallelism |-> None, backoffLimit |-> None, maxFailedNodes |-> None,
               timeout |-> FALSE, ttl |-> FALSE]
Retries(limit, tolerated) == [NoPolicies EXCEPT !.backoffLimit = limit, !.maxFailedNodes = tolerated]

\* The prefill role is warmed up; decode is not.
Decode == [r \in Roles |-> IF r = "decode" THEN 1 ELSE 0]
Prefill(replicas, adapter, on) ==
  [exists |-> TRUE, replicas |-> [Decode EXCEPT !["prefill"] = replicas],
   adapter |-> [[r \in Roles |-> None] EXCEPT !["prefill"] = adapter],
   on |-> [[r \in Roles |-> {}] EXCEPT !["prefill"] = on]]
Deleted == [Prefill(0, None, {}) EXCEPT !.exists = FALSE]

Fixed(policies) ==
  [actions |-> {Image}, target |-> Nodes, roles |-> {}, policies |-> policies, groups |-> {Deleted},
   maxMoves |-> 0, maxPods |-> 3, maxLag |-> 1, maxFaults |-> 0, maxPauses |-> 0]
Moving(policies, groups) ==
  [Fixed(policies) EXCEPT !.target = None, !.roles = {"prefill"}, !.groups = groups, !.maxMoves = 2]

\* A pod that moves to another node, a group that is deleted, one that waits for
\* the pods its scaling adapter asks for.
Moves == {Prefill(1, None, {1}), Prefill(1, None, {2}), Deleted}
Grows == {Prefill(1, 2, {1}), Prefill(1, 2, {1, 2}), Prefill(1, 0, {})}

Jobs ==
  {[Fixed(NoPolicies) EXCEPT !.actions = {Image, [Image EXCEPT !.blank = TRUE]}],
   [Fixed([Retries(1, 0) EXCEPT !.parallelism = 1]) EXCEPT !.maxFaults = 1, !.maxLag = 2],
   [Fixed([Retries(0, 1) EXCEPT !.timeout = TRUE, !.ttl = TRUE]) EXCEPT !.maxPauses = 2, !.maxPods = 2],
   [Fixed(NoPolicies) EXCEPT !.target = {1}, !.maxPods = 4, !.maxLag = 2],
   [Moving([Retries(0, 0) EXCEPT !.timeout = TRUE], Moves) EXCEPT !.maxPods = 2],
   Moving(Retries(1, 0), Moves),
   [Moving([NoPolicies EXCEPT !.timeout = TRUE], Grows) EXCEPT !.maxPods = 2]}

===============================================================================
