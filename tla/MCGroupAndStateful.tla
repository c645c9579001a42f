-------------------------- MODULE MCGroupAndStateful --------------------------
(***************************************************************************)
(* A group with its adapters, in every scenario of MCGroup, and a set of   *)
(* instances with ordinals, in an instance of MCStateful.  A group sees a  *)
(* set of instances only as a workload with a status, so part says which   *)
(* of the two a behaviour is about, and the other one stays at rest.       *)
(***************************************************************************)
EXTENDS MCGroup, MCStateful

VARIABLE part      \* rigid: "group" or "instances"

\* Nothing that fairness names can run.
GroupIdle ==
  /\ conf = [Plain EXCEPT !.settled = TRUE]
  /\ group = [uid |-> 1, roles |-> Roles, replicas |-> conf.replicas, adapters |-> {},
              tmpl |-> 1, mode |-> "refine", policed |-> FALSE, valid |-> TRUE]
  /\ Settled /\ acache = adapter /\ adirty = {} /\ pass = None /\ events = 0
InstancesIdle ==
  /\ apiSet = [spec |-> InitSpec, gen |-> 0, status |-> InitStatus] /\ cacheSet = apiSet
  /\ insts = [o \in Ordinals |-> IF o < InitSpec.replicas THEN Running(InitSpec.template) ELSE NoInstance]
  /\ cacheInsts = insts /\ setLag = FALSE /\ instLag = {}
  /\ exp = NoExpectation /\ window = [o \in Ordinals |-> "none"] /\ awaitRepl = FALSE
  /\ queued = FALSE /\ timer = FALSE /\ faults = 0 /\ outages = 0

allVars == <<part, groupVars, vars>>
PartInit ==
  \/ part = "group" /\ InitGroup /\ InstancesIdle
  \/ part = "instances" /\ Init /\ GroupIdle
PartNext ==
  /\ UNCHANGED part
  /\ \/ part = "group" /\ NextGroup /\ UNCHANGED vars
     \/ part = "instances" /\ Next /\ UNCHANGED groupVars
PartSpec == PartInit /\ [][PartNext]_allVars /\ GroupFairness /\ Fairness
===============================================================================
