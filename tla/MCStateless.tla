----------------------------- MODULE MCStateless ------------------------------
(***************************************************************************)
(* Instances of StatelessInstanceSet: two revisions, one to three replicas.*)
(***************************************************************************)
EXTENDS StatelessInstanceSet

Percent(n) == [percent |-> TRUE, value |-> n]
First == CHOOSE r \in Revisions : TRUE
Plain == [maxSurge |-> IntVal(0), maxUnavailable |-> IntVal(1), scaleMaxUnavailable |-> None,
          inPlace |-> FALSE, handlers |-> {}, labels |-> {}, markNotReady |-> FALSE,
          minReady |-> FALSE, faults |-> FALSE, requests |-> FALSE, failures |-> FALSE, pauses |-> TRUE,
          sizes |-> {1}, revisions |-> Revisions, partitions |-> {IntVal(1)}]
Start(c, n, settled) ==
  [conf |-> c, settled |-> settled,
   spec |-> [replicas |-> n, rev |-> First, partition |-> IntVal(0), paused |-> FALSE]]

\* Instances replaced one by one, with sizes and partitions changing.
Recreate == Start([Plain EXCEPT !.sizes = {1, 3}], 2, TRUE)
\* The same with one instance more instead of one less (20% of 2 is 0).
Surge == Start([Plain EXCEPT !.maxSurge = Percent(50), !.maxUnavailable = Percent(20)], 2, TRUE)
\* Updates in place that must stay ready for a while, forth and back.
InPlaceUpdates ==
  Start([Plain EXCEPT !.inPlace = TRUE, !.minReady = TRUE, !.partitions = {IntVal(1), IntVal(2)}], 2, TRUE)
\* A new set that may have one unavailable instance at a time.
Growing == Start([Plain EXCEPT !.scaleMaxUnavailable = IntVal(1), !.sizes = {3},
                                !.revisions = {First}], 2, FALSE)
\* Lifecycle hooks before an update in place and before a deletion; an update
\* is not taken back, since an instance prepared for one would wait for ever:
\* the first revision does not return and the partition stays 0.
Hooked ==
  Start([Plain EXCEPT !.inPlace = TRUE, !.handlers = Hooks, !.labels = Hooks, !.sizes = {1, 2},
                      !.revisions = Revisions \ {First}, !.partitions = {IntVal(0)}], 2, TRUE)
\* Failing instances and restarts of the controller.
Failing == Start([Plain EXCEPT !.failures = TRUE, !.pauses = FALSE, !.sizes = {}, !.partitions = {},
                                !.revisions = Revisions \ {First}], 2, TRUE)
\* Calls that fail.
Faults == Start([Plain EXCEPT !.faults = TRUE, !.sizes = {3}, !.partitions = {},
                               !.revisions = Revisions \ {First}], 2, TRUE)
InPlaceFaults == Start([Plain EXCEPT !.faults = TRUE, !.inPlace = TRUE], 2, TRUE)
\* Requests to delete an instance.
Requests == Start([Plain EXCEPT !.requests = TRUE, !.pauses = FALSE, !.sizes = {}, !.partitions = {},
                                !.revisions = Revisions \ {First}], 2, TRUE)

All == {Recreate, Surge, InPlaceUpdates, Growing, Hooked, [Hooked EXCEPT !.conf.markNotReady = TRUE],
        Failing, Faults, InPlaceFaults, Requests}
OnlyFailing == {Failing}
=============================================================================
