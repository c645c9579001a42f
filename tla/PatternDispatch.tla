--------------------------- MODULE PatternDispatch ---------------------------
(***************************************************************************)
(* The RoleInstanceSet controller chooses between two reconcilers by the   *)
(* pattern annotation of the set, after it has deleted the instances that  *)
(* the other pattern left.  The annotation can be flipped and the set can  *)
(* be deleted and created again while events of its instances are still on *)
(* their way; the scale expectations of the stateless mode are kept under  *)
(* the name of the set.                                                    *)
(*                                                                         *)
(* A set of one replica or none.  Ordinal is the name of its stateful      *)
(* instance, RandomNames are the names of stateless ones, which carry the  *)
(* label with the uid of their set.                                        *)
(***************************************************************************)
EXTENDS Optional, Integers, FiniteSets

CONSTANTS Ordinal, RandomNames, DispatchUids,
          DispatchBudget   \* changes by users
VARIABLES ris, risSeen,      \* the set: at the API server, in the informer
          insts, instsSeen,  \* owner of the instance of a name, likewise
          instsUnseen,       \* names (None: the set) written since the informer heard
          expected,          \* scale expectations: [create, delete]
          risQueued,         \* the set's key is in the work queue
          dispatchBudget
dispatchVars == <<ris, risSeen, insts, instsSeen, instsUnseen, expected, risQueued, dispatchBudget>>

Names == RandomNames \cup {Ordinal}
Patterns == {"Stateless", "Stateful"}
RoleInstanceSet == [uid : DispatchUids, pattern : Patterns, replicas : {0, 1}]

\* What is absent is no name, no uid and no set; a set always gets a uid.
ASSUME DispatchAssumption ==
  /\ IsFiniteSet(RandomNames) /\ Ordinal \notin RandomNames /\ None \notin Names
  /\ DispatchUids # {} /\ None \notin DispatchUids /\ None \notin RoleInstanceSet
  /\ DispatchBudget \in Nat

DispatchTypeOK ==
  /\ ris \in RoleInstanceSet \cup {None} /\ risSeen \in RoleInstanceSet \cup {None}
  /\ insts \in [Names -> DispatchUids \cup {None}] /\ instsSeen \in [Names -> DispatchUids \cup {None}]
  /\ instsUnseen \subseteq Names \cup {None}
  /\ expected \in [create : SUBSET RandomNames, delete : SUBSET RandomNames]
  /\ risQueued \in BOOLEAN /\ dispatchBudget \in 0 .. DispatchBudget

-----------------------------------------------------------------------------
\* Mutant.
NothingExpected == FALSE

InstanceBelongsToPattern(n) == IF risSeen.pattern = "Stateless" THEN n \in RandomNames ELSE n = Ordinal

\* Does the stateless mode wait?
Unsatisfied == expected.create \cup expected.delete # {}

\* The event handler of the stateless mode, for a name that came or went.
IsStatelessPattern == IF risSeen = None THEN FALSE ELSE risSeen.pattern = "Stateless"
ObserveScale(n) ==
  IF IsStatelessPattern
  THEN [create |-> expected.create \ {n},
        delete |-> IF insts[n] = None THEN expected.delete \ {n} ELSE expected.delete]
  ELSE expected

Owned == {n \in Names : instsSeen[n] = risSeen.uid}
StaleOfPattern == {n \in Owned : ~InstanceBelongsToPattern(n)}

-----------------------------------------------------------------------------
Writes(is) ==
  /\ insts' = is
  /\ instsUnseen' = instsUnseen \cup {n \in Names : is[n] # insts[n]}

\* A set that is gone: the pass ends before either mode is called, and with
\* it the place where the expectations of the set would be dropped.
SkipRIS ==
  /\ risQueued /\ risSeen = None
  /\ risQueued' = FALSE
  /\ UNCHANGED <<ris, risSeen, insts, instsSeen, instsUnseen, expected, dispatchBudget>>

CleanupStaleInstances ==
  /\ risQueued /\ risSeen # None /\ StaleOfPattern # {}
  /\ Writes([n \in Names |-> IF n \in StaleOfPattern THEN None ELSE insts[n]])
  /\ UNCHANGED <<ris, risSeen, instsSeen, expected, risQueued, dispatchBudget>>

\* A pass of the stateless mode that waits comes again until the timeout of
\* the expectations, and not after it.
StatelessWait ==
  /\ risQueued /\ IsStatelessPattern /\ StaleOfPattern = {} /\ Unsatisfied
  /\ risQueued' \in BOOLEAN
  /\ UNCHANGED <<ris, risSeen, insts, instsSeen, instsUnseen, expected, dispatchBudget>>

StatelessMode ==
  /\ risQueued /\ IsStatelessPattern /\ StaleOfPattern = {} /\ ~Unsatisfied
  /\ risQueued' = FALSE
  /\ \/ /\ Cardinality(Owned) = risSeen.replicas
        /\ UNCHANGED <<insts, instsUnseen, expected>>
     \/ /\ Cardinality(Owned) < risSeen.replicas
        /\ \E n \in {m \in RandomNames : insts[m] = None /\ m \notin instsUnseen} :
             /\ Writes([insts EXCEPT ![n] = risSeen.uid])
             /\ expected' = [expected EXCEPT !.create = @ \cup {n}]
     \/ /\ Cardinality(Owned) > risSeen.replicas
        /\ \E n \in Owned :
             /\ Writes([insts EXCEPT ![n] = None])
             /\ expected' = [expected EXCEPT !.delete = @ \cup {n}]
  /\ UNCHANGED <<ris, risSeen, instsSeen, dispatchBudget>>

\* The name may still be taken, by an instance of an earlier set or by one
\* the informer has not heard of: the creation fails and the pass comes again.
StatefulMode ==
  /\ risQueued /\ risSeen # None /\ ~IsStatelessPattern /\ StaleOfPattern = {}
  /\ \/ /\ Cardinality(Owned) = risSeen.replicas
        /\ risQueued' = FALSE /\ UNCHANGED <<insts, instsUnseen>>
     \/ /\ Cardinality(Owned) < risSeen.replicas
        /\ risQueued' = (insts[Ordinal] # None)
        /\ Writes(IF insts[Ordinal] = None THEN [insts EXCEPT ![Ordinal] = risSeen.uid] ELSE insts)
     \/ /\ Cardinality(Owned) > risSeen.replicas
        /\ risQueued' = FALSE /\ Writes([insts EXCEPT ![Ordinal] = None])
  /\ UNCHANGED <<ris, risSeen, instsSeen, expected, dispatchBudget>>

-----------------------------------------------------------------------------
(***************************************************************************)
(* Informers, the garbage collector and users.                             *)
(***************************************************************************)
DeliverRIS ==
  /\ None \in instsUnseen /\ instsUnseen' = instsUnseen \ {None}
  /\ risSeen' = ris /\ risQueued' = TRUE
  /\ UNCHANGED <<ris, insts, instsSeen, expected, dispatchBudget>>

DeliverInstance(n) ==
  /\ n \in instsUnseen /\ instsUnseen' = instsUnseen \ {n}
  /\ instsSeen' = [instsSeen EXCEPT ![n] = insts[n]]
  /\ expected' = ObserveScale(n)
  /\ risQueued' = TRUE
  /\ UNCHANGED <<ris, risSeen, insts, dispatchBudget>>

CollectInstance(n) ==
  /\ insts[n] \notin {None} \cup {s.uid : s \in {ris} \ {None}}
  /\ Writes([insts EXCEPT ![n] = None])
  /\ UNCHANGED <<ris, risSeen, instsSeen, expected, risQueued, dispatchBudget>>

ChangeRIS(new) ==
  /\ dispatchBudget > 0 /\ dispatchBudget' = dispatchBudget - 1
  /\ ris' = new /\ instsUnseen' = instsUnseen \cup {None}
  /\ UNCHANGED <<risSeen, insts, instsSeen, expected, risQueued>>
Flip ==
  /\ ris # None
  /\ \E p \in Patterns \ {ris.pattern} : ChangeRIS([ris EXCEPT !.pattern = p])
Scale == ris # None /\ ChangeRIS([ris EXCEPT !.replicas = 1 - @])
DeleteRIS == ris # None /\ ChangeRIS(None)
UidsTaken ==
  {insts[n] : n \in Names} \cup {instsSeen[n] : n \in Names} \cup {s.uid : s \in {risSeen} \ {None}}
CreateRIS ==
  /\ ris = None /\ \E u \in DispatchUids : u \notin UidsTaken
  /\ \E p \in Patterns : ChangeRIS([uid |-> CHOOSE u \in DispatchUids : u \notin UidsTaken, pattern |-> p, replicas |-> 1])

-----------------------------------------------------------------------------
\* A set that was just created.
DispatchInit ==
  /\ \E p \in Patterns : ris = [uid |-> CHOOSE u \in DispatchUids : TRUE, pattern |-> p, replicas |-> 1]
  /\ risSeen = ris
  /\ insts = [n \in Names |-> None] /\ instsSeen = insts /\ instsUnseen = {}
  /\ expected = [create |-> {}, delete |-> {}]
  /\ risQueued = TRUE /\ dispatchBudget = DispatchBudget

DispatchPass ==
  SkipRIS \/ CleanupStaleInstances \/ StatelessWait \/ StatelessMode \/ StatefulMode
DispatchNext ==
  \/ DispatchPass \/ DeliverRIS \/ Flip \/ Scale \/ DeleteRIS \/ CreateRIS
  \/ \E n \in Names : DeliverInstance(n) \/ CollectInstance(n)

DispatchSpec == DispatchInit /\ [][DispatchNext]_dispatchVars
\* The work queue, the informers and the collector go on.
DispatchFairness ==
  /\ WF_dispatchVars(DispatchPass) /\ WF_dispatchVars(DeliverRIS)
  /\ \A n \in Names : WF_dispatchVars(DeliverInstance(n)) /\ WF_dispatchVars(CollectInstance(n))

-----------------------------------------------------------------------------
\* However far the informers lag behind the flips of the annotation and the
\* lives of the set, the stateless mode never runs two instances of one set
\* that asks for one at most: a creation that was not observed is waited for
\* (doReconcile, SatisfiedExpectations), under every later incarnation too.
NoDuplicates ==
  \A u \in DispatchUids : Cardinality({n \in RandomNames : insts[n] = u}) <= 1

\* Has the set exactly the instances it asks for?
DispatchAtRest ==
  IF ris # None => ris.replicas = 0 THEN \A n \in Names : insts[n] = None
  ELSE \E n \in IF ris.pattern = "Stateless" THEN RandomNames ELSE {Ordinal} :
         insts = [m \in Names |-> IF m = n THEN ris.uid ELSE None]
\* An expectation whose event has passed: nobody will meet it any more.
Stranded == \E n \in RandomNames :
  n \in expected.create \cup expected.delete /\ n \notin instsUnseen

\* When the changes end, the set has exactly the instances, of the pattern,
\* it asks for (cleanupStaleInstances and the mode it is dispatched to) -
\* unless an expectation was stranded (the expectations never expire).
DispatchSettles == <>[](DispatchAtRest \/ Stranded)

=============================================================================
