---------------------------- MODULE ComponentGraph ----------------------------
(***************************************************************************)
(* The component-depends-on annotations of an instance                     *)
(* (pkg/component-discovery/component_lifecycle.go).  A graph maps a       *)
(* component to the components it waits for: to be ready before it starts, *)
(* or to be gone before it goes.                                           *)
(***************************************************************************)
EXTENDS Integers, FiniteSets

CONSTANT Components     \* component names
ASSUME ComponentsAssumption == IsFiniteSet(Components)

Graphs == [Components -> SUBSET Components]
BuildReverseDependencies(g) == [c \in Components |-> {d \in Components : c \in g[d]}]

BuildDeletionGates(start, del) ==
  [c \in Components |-> BuildReverseDependencies(start)[c] \cup del[c]]

\* A cycle is a non-empty set in which everyone waits for a member.
Cyclic(g) == \E S \in SUBSET Components : S # {} /\ \A c \in S : g[c] \cap S # {}

\* Mutant: only the start graph is searched for a cycle.
OrderedByStart(start, del) ==
  /\ \E c \in Components : start[c] # {} \/ del[c] # {}
  /\ ~Cyclic(start)

\* hasDeps, after the fall-back to parallel mode.
Ordered(start, del) ==
  /\ \E c \in Components : start[c] # {} \/ del[c] # {}
  /\ ~Cyclic(start)
  /\ ~Cyclic(BuildDeletionGates(start, del))
=============================================================================
