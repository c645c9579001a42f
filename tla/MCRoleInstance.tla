---------------------------- MODULE MCRoleInstance ----------------------------
(***************************************************************************)
(* Instances of RoleInstance: a leader and workers.                        *)
(***************************************************************************)
EXTENDS RoleInstance

TwoComponents == {"leader", "worker"}
Size(leaders, workers) == [c \in TwoComponents |-> IF c = "leader" THEN leaders ELSE workers]
Unordered == [c \in TwoComponents |-> {}]
WorkerAfterLeader == [c \in TwoComponents |-> IF c = "worker" THEN {"leader"} ELSE {}]

\* b changes the leader's image, c the worker's shape.
Templates ==
  [r \in {"a", "b", "c"} |->
    [c \in TwoComponents |->
      [image |-> IF r = "b" /\ c = "leader" THEN "v2" ELSE "v1",
       shape |-> IF r = "c" /\ c = "worker" THEN "new" ELSE "old"]]]
Sized(r, size) == [rev |-> r, size |-> size]

\* A leader and a worker that run, and nothing happens to them.
Quiet ==
  [policy |-> FALSE, baseDelay |-> 1, maxDelay |-> 1, ignored |-> {}, startAfter |-> Unordered, deleteAfter |-> Unordered,
   gang |-> FALSE, gated |-> FALSE, spec |-> Sized("a", Size(1, 1)), settled |-> TRUE,
   edits |-> {}, readsFail |-> FALSE, maxEdits |-> 0, maxFaults |-> 0, maxFailures |-> 0]

\* One pod under the restart policy: a crash and a fault, or two crashes.
OnePod == [Quiet EXCEPT !.policy = TRUE, !.spec.size = Size(1, 0)]
Crashes == {[OnePod EXCEPT !.maxDelay = 2, !.maxFailures = 1, !.maxFaults = 1], [OnePod EXCEPT !.maxFailures = 2]}

\* In-place updates by the set, to any of the revisions.
Update == [Quiet EXCEPT !.gated = TRUE, !.edits = {Sized(r, Size(1, 1)) : r \in Revisions}, !.maxEdits = 1]
\* Two workers that start after the leader, from nothing.
Starting ==
  [Quiet EXCEPT !.startAfter = WorkerAfterLeader, !.spec.size = Size(1, 2), !.settled = FALSE,
                !.maxFaults = 1]
\* A leader and a worker that are scaled to nothing.
TearDown ==
  [Quiet EXCEPT !.startAfter = WorkerAfterLeader, !.edits = {Sized("a", Size(0, 0))}, !.maxEdits = 1]
Changes ==
  {[Update EXCEPT !.maxEdits = 2], [Update EXCEPT !.maxFaults = 1], [Update EXCEPT !.gang = TRUE],
   Starting, [TearDown EXCEPT !.maxFaults = 1]}
\* Two leaders, of which one pod may fail, and a worker that starts after them.
TwoLeaders ==
  {[Quiet EXCEPT !.startAfter = WorkerAfterLeader, !.spec.size = Size(2, 1), !.settled = FALSE,
                 !.maxFailures = 1]}
OnlyTearDown == {TearDown}
CrashesAndChanges == Crashes \cup Changes
=============================================================================
