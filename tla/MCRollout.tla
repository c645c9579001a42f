------------------------------ MODULE MCRollout ------------------------------
(***************************************************************************)
(* Instances of StatefulInstanceSet for its rollouts.  A behaviour is one  *)
(* of four scenes, which narrow the constants of the .cfg file; in each of *)
(* them ordinal 0 is below the partition of every spec:                    *)
(*   rollout:  three replicas, of which one may be unavailable, and one    *)
(*             surge instance; from A, B is reached in place and C by      *)
(*             deletion;                                                   *)
(*   rollback: three replicas of which none may be unavailable, one surge  *)
(*             instance, a template that changes forth and back, pauses;   *)
(*   eviction: two replicas without surge, whose template changes twice;   *)
(*   creation: a set that is paused while its first instances come up.     *)
(***************************************************************************)
EXTENDS StatefulInstanceSet

VARIABLE scene     \* rigid: which of them

Rolling(maxUnavailable, rev) ==
  [replicas |-> 3, partition |-> Pct(40), maxUnavailable |-> Abs(maxUnavailable),
   maxSurge |-> Abs(1), paused |-> FALSE, ordered |-> FALSE, template |-> rev]
Pair(rev) ==
  [Rolling(1, rev) EXCEPT !.replicas = 2, !.partition = Abs(1), !.maxSurge = Unset]

RollingA == Rolling(1, "A")
Rollouts == {Rolling(1, rev) : rev \in {"A", "B", "C"}}
Rollbacks ==
  {[Rolling(0, rev) EXCEPT !.paused = paused] : paused \in BOOLEAN, rev \in {"A", "B"}}
Pairs == {Pair(rev) : rev \in {"A", "B", "C"}}
Creations == {[Pair("A") EXCEPT !.paused = paused] : paused \in BOOLEAN}
AnyScene == Rollouts \cup Rollbacks \cup Pairs \cup Creations
InPlaceAB == {<<"A", "B">>}

Rollout == INSTANCE StatefulInstanceSet WITH Specs <- Rollouts, MaxEdits <- 1
\* SurgeHeld says nothing once an instance has failed.
Rollback == INSTANCE StatefulInstanceSet
              WITH InitSpec <- Rolling(0, "A"), Specs <- Rollbacks, InPlacePairs <- {}, MaxOutages <- 0
Eviction == INSTANCE StatefulInstanceSet WITH InitSpec <- Pair("A"), Specs <- Pairs
Creation == INSTANCE StatefulInstanceSet
              WITH InitSpec <- Pair("A"), Specs <- Creations, StartSettled <- FALSE, MaxEdits <- 1

sceneVars == <<scene, vars>>
SceneInit ==
  \/ scene = "rollout" /\ Rollout!Init
  \/ scene = "rollback" /\ Rollback!Init
  \/ scene = "eviction" /\ Eviction!Init
  \/ scene = "creation" /\ Creation!Init
SceneNext ==
  /\ UNCHANGED scene
  /\ \/ scene = "rollout" /\ Rollout!Next
     \/ scene = "rollback" /\ Rollback!Next
     \/ scene = "eviction" /\ Eviction!Next
     \/ scene = "creation" /\ Creation!Next
SceneSpec == SceneInit /\ [][SceneNext]_sceneVars

-----------------------------------------------------------------------------
\* While only the controller takes instances down, no more than maxUnavailable
\* of the replicas are unserved by base and surge together, however far the
\* caches lag behind what progressUpdate has deleted and updated: within one
\* rollout, not when its template changes back on the way.
FloorInOneRollout == scene = "rollout" => AvailabilityFloor
=============================================================================
