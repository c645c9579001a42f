------------------------------- MODULE MCGroup -------------------------------
(***************************************************************************)
(* The scenarios of the group: two roles, prefill and decode.              *)
(***************************************************************************)
EXTENDS GroupSystem

Both(x, y) == [r \in Roles |-> IF r = "decode" THEN x ELSE y]
Same(x) == Both(x, x)
NoRule == [roles |-> Roles, scaling |-> None, rolling |-> None, gang |-> None]
Scaling(skew, progression) == [NoRule EXCEPT !.scaling = [maxSkew |-> skew, progression |-> progression]]
RollingRule(skew) == [NoRule EXCEPT !.rolling = [maxSkew |-> skew, maxUnavailable |-> None, partition |-> None]]
Plain == [replicas |-> Same(1), size |-> Same(1), deps |-> Same({}), adapters |-> {}, policy |-> <<>>,
          annotated |-> FALSE, settled |-> FALSE, scheduler |-> "volcano", events |-> {}, maxEvents |-> 0, maxReplicas |-> 2]

ScaleUp == {[Plain EXCEPT !.replicas = Both(2, 1), !.policy = <<Scaling(50, "OrderScheduled")>>]}
Minimums == [Plain EXCEPT !.events = {"policy"}, !.maxEvents = 1,
                           !.policy = <<[Scaling(50, "OrderReady") EXCEPT !.gang = Both(2, 1)]>>]
GangScaleUp ==
  {[Plain EXCEPT !.replicas = Both(2, 1), !.policy = <<[Scaling(50, "OrderReady") EXCEPT !.gang = NoMinimum]>>,
                 !.scheduler = "scheduler-plugins"],
   Minimums, [Minimums EXCEPT !.replicas = Both(2, 1), !.scheduler = "volcano without subgroups"],
   [Minimums EXCEPT !.replicas = Both(2, 1), !.scheduler = "scheduler-plugins"]}
Recreated ==
  {[Plain EXCEPT !.replicas = Both(2, 1), !.deps = Both({"prefill"}, {}), !.adapters = {"decode"}, !.settled = TRUE,
                 !.events = {"recreate"}, !.maxEvents = 1],
   [Plain EXCEPT !.deps = Both({"prefill"}, {}), !.adapters = {"decode"}, !.events = {"fault"}, !.maxEvents = 1],
   [Plain EXCEPT !.annotated = TRUE, !.settled = TRUE, !.scheduler = "scheduler-plugins",
                 !.events = {"recreate"}, !.maxEvents = 1],
   [Plain EXCEPT !.replicas = Both(1, 0), !.adapters = {"decode"}, !.events = {"disable"}, !.maxEvents = 1]}
Bound == [Plain EXCEPT !.adapters = {"decode"}, !.settled = TRUE, !.maxEvents = 2]
Changed ==
  {[Bound EXCEPT !.replicas = Both(2, 1), !.events = {"drop", "fault", "autoscale"}, !.maxEvents = 3],
   [Bound EXCEPT !.replicas = Both(2, 1), !.events = {"replace", "disable"}],
   [Bound EXCEPT !.deps = Both({"prefill"}, {}), !.events = {"remove", "add", "autoscale"}],
   [Bound EXCEPT !.events = {"rollout", "scale"}, !.maxEvents = 1],
   [Bound EXCEPT !.adapters = {}, !.replicas = Both(1, 0), !.events = {"invalid", "rollout"}]}
Rolled == {[Plain EXCEPT !.replicas = Both(2, 1), !.policy = <<RollingRule(50)>>, !.settled = TRUE,
                          !.events = {"rollout"}, !.maxEvents = 1]}
\* A maxSkew of a quarter of two replicas: one instance.
RolledFromStale == {[Plain EXCEPT !.replicas = Same(2), !.policy = <<RollingRule(25)>>, !.settled = TRUE,
                                   !.events = {"rollout"}, !.maxEvents = 1]}
\* decode waits for prefill, and the scheduler waits for both.
GangDependency == {[Plain EXCEPT !.annotated = TRUE, !.deps = Both({"prefill"}, {})]}
All == ScaleUp \cup GangScaleUp \cup Recreated \cup Changed \cup Rolled
=============================================================================
