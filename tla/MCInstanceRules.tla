--------------------------- MODULE MCInstanceRules ---------------------------
(***************************************************************************)
(* The algorithms of a RoleInstance pass against what they are for.  One   *)
(* instance of one pod per component is started and torn down in the order *)
(* of its graphs, for every pair of graphs; another never stops crashing,  *)
(* for every delay configuration that validation admits (base <= max).     *)
(* DetectCycle is the code's depth-first search, which visits the nodes    *)
(* and the dependencies in any order a map and a list may have them.       *)
(***************************************************************************)
EXTENDS ComponentGraph, BackoffDelay, SequencesExt

CONSTANTS
  MaxDeletes,                \* bound on the components with a deleteAfter
  MaxSeconds, MaxRestarts    \* bounds on the delays and on the restart count

VARIABLES
  start, del,        \* the instance's graphs
  ready, stopping,   \* the components that run, and whether they are torn down
  base, max, count   \* the delays of its restart policy and its RestartCount
graphVars == <<start, del, ready, stopping>>
backoffVars == <<base, max, count>>
vars == <<graphVars, backoffVars>>

RECURSIVE Dfs(_, _, _, _), Visit(_, _, _, _)

\* Mutant: a node that is fully processed still counts as on the stack.
VisitNoBlack(g, deps, order, s) ==
  IF deps = <<>> \/ s.cycle THEN s
  ELSE Visit(g, Tail(deps), order,
         IF Head(deps) \in s.gray \cup s.black THEN [s EXCEPT !.cycle = TRUE]
         ELSE Dfs(g, Head(deps), order, s))

\* The loop over the dependencies of a node.
Visit(g, deps, order, s) ==
  IF deps = <<>> \/ s.cycle THEN s
  ELSE Visit(g, Tail(deps), order,
         IF Head(deps) \in s.gray THEN [s EXCEPT !.cycle = TRUE]
         ELSE IF Head(deps) \in s.black THEN s
         ELSE Dfs(g, Head(deps), order, s))

Dfs(g, node, order, s) ==
  LET after == Visit(g, SelectSeq(order, LAMBDA c : c \in g[node]), order,
                     [s EXCEPT !.gray = @ \cup {node}])
  IN  IF after.cycle THEN after
      ELSE [after EXCEPT !.gray = @ \ {node}, !.black = @ \cup {node}]

\* The outer loop is a visit of every node, at which none is gray.
DetectCycle(g, order) ==
  Visit(g, order, order, [gray |-> {}, black |-> {}, cycle |-> FALSE]).cycle

-----------------------------------------------------------------------------
Parallel == ~Ordered(start, del)

OrderedInit ==
  /\ start \in Graphs
  /\ del \in Graphs /\ Cardinality({c \in Components : del[c] # {}}) <= MaxDeletes
  /\ stopping = FALSE
  /\ base = 0 /\ max = 0

CrashingInit ==
  /\ start = [c \in Components |-> {}] /\ del = start
  /\ stopping = TRUE
  /\ base \in 0 .. MaxSeconds /\ max \in 1 .. MaxSeconds /\ base <= max

Init == (OrderedInit \/ CrashingInit) /\ ready = {} /\ count = 0

\* The scale-out loop, then the component becomes ready.
Start(c) ==
  /\ ~stopping /\ c \notin ready
  /\ Parallel \/ start[c] \subseteq ready
  /\ ready' = ready \cup {c}
  /\ UNCHANGED <<start, del, stopping, backoffVars>>

TearDown ==
  /\ ~stopping /\ ready = Components
  /\ stopping' = TRUE
  /\ UNCHANGED <<start, del, ready, backoffVars>>

\* The scale-in loop, then the pods are gone.
Stop(c) ==
  /\ stopping /\ c \in ready
  /\ Parallel \/ BuildDeletionGates(start, del)[c] \cap ready = {}
  /\ ready' = ready \ {c}
  /\ UNCHANGED <<start, del, stopping, backoffVars>>

\* updateRestartTracking
Recreate ==
  /\ max > 0 /\ count < MaxRestarts
  /\ count' = count + 1
  /\ UNCHANGED <<base, max, graphVars>>

Scales == (\E c \in Components : Start(c) \/ Stop(c)) \/ TearDown
Next == Scales \/ Recreate
Spec == Init /\ [][Next]_vars /\ WF_vars(Scales)

\* The three-colour search finds a cycle exactly when there is one, in whatever
\* order it meets the nodes, in both graphs.
CycleIsFound ==
  \A g \in {start, BuildDeletionGates(start, del)} :
    \A order \in SetToSeqs(Components) : DetectCycle(g, order) = Cyclic(g)

\* Every graph lets the instance start completely and go completely: those
\* that would block it fall back to parallel mode.
NeverBlocked == []<>(stopping /\ ready = {})

\* The delay is min(base * 2^(count-1), max), as the comment of
\* calculateRestartDelay promises, at every count and through every overflow of
\* the product; it is 0 before the first recreation and without a base.
DelayIsExact ==
  CalculateRestartDelay(base, max, count) =
    IF base = 0 \/ count = 0 THEN 0
    ELSE IF base * 2^(count - 1) > max THEN max ELSE base * 2^(count - 1)
=============================================================================
