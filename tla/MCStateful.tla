----------------------------- MODULE MCStateful -----------------------------
(***************************************************************************)
(* Instances of StatefulInstanceSet for TLC: the specs of the runs about   *)
(* what a set comes to rest at, and about its current revision.            *)
(***************************************************************************)
EXTENDS StatefulInstanceSet

Rolling(replicas, partition, maxUnavailable, maxSurge, rev) ==
  [replicas |-> replicas, partition |-> partition, maxUnavailable |-> maxUnavailable,
   maxSurge |-> maxSurge, paused |-> FALSE, ordered |-> FALSE, template |-> rev]

\* One at a time, no surge.
OneDown(replicas, ordered, rev) ==
  [Rolling(replicas, Unset, Abs(1), Unset, rev) EXCEPT !.ordered = ordered]
OneDownA == OneDown(2, FALSE, "A")
OneDownScaled == {OneDown(1, FALSE, "B"), OneDown(2, FALSE, "B")}
OrderedA == OneDown(2, TRUE, "A")
InPlaceAB == {<<"A", "B">>}
InPlaceBothWays == {<<"A", "B">>, <<"B", "A">>}
OneA == OneDown(1, FALSE, "A")
OneAB == {OneDown(1, FALSE, rev) : rev \in {"A", "B"}}
Changes == {OneDown(3, ordered, rev) : ordered \in BOOLEAN, rev \in {"B", "C"}}
=============================================================================
