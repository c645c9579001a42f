-------------------------- MODULE RoleBasedGroupSet --------------------------
(***************************************************************************)
(* The controller of a RoleBasedGroupSet: one group per index, created,    *)
(* updated and deleted from the informers' copies of the set and of the    *)
(* groups.  A set can be deleted, its groups collected or orphaned, and a  *)
(* set of the same name created while leftovers of the first still exist.  *)
(*                                                                         *)
(* groups[i] is the group named after index i.  Its roles are a template,  *)
(* which may be spelled in the old way; the labels and annotations that    *)
(* come from the set's template are one value (meta).                      *)
(***************************************************************************)
EXTENDS Optional, Integers, FiniteSets

CONSTANTS Indexes,        \* indexes of groups, 0 .. n
          Uids,           \* incarnations of the set
          Bodies, Metas,  \* roles and metadata there are
          Templates,      \* the templates users give the set
          SetBudget       \* changes by users, and failing calls
VARIABLES set, setSeen,       \* the set: at the API server, in the informer
          groups, groupsSeen, \* the groups, likewise
          unseen,             \* what was written since the informer heard (None: the set)
          loud,               \* the groups of those events that name a controller
          setQueued,          \* its key is in the work queue
          setBudget,          \* changes left
          orphanLost          \* history: a group without owner was seen to go
setVars == <<set, setSeen, groups, groupsSeen, unseen, loud, setQueued, setBudget,
             orphanLost>>

TemplateRoles == [body : Bodies, legacy : BOOLEAN]
Template == [roles : TemplateRoles, meta : Metas]
SetStatus == [replicas : 0 .. Cardinality(Indexes), ready : 0 .. Cardinality(Indexes),
           condition : BOOLEAN]
Set == [uid : Uids, replicas : 0 .. Cardinality(Indexes), template : Template,
        orphaning : BOOLEAN, status : SetStatus]
Group == [owner : Uids \cup {None}, indexed : BOOLEAN, roles : TemplateRoles,
          meta : Metas \cup {None}, ready : BOOLEAN]
NoSetStatus == [replicas |-> 0, ready |-> 0, condition |-> FALSE]

ASSUME SetAssumption ==
  /\ IsFiniteSet(Indexes) /\ Indexes # {} /\ Indexes = 0 .. Cardinality(Indexes) - 1
  /\ Uids # {} /\ Templates \subseteq Template /\ SetBudget \in Nat
  /\ None \notin Uids /\ None \notin Metas /\ None \notin Set /\ None \notin Group /\ None \notin Indexes

SetTypeOK ==
  /\ set \in Set \cup {None} /\ setSeen \in Set \cup {None}
  /\ groups \in [Indexes -> Group \cup {None}] /\ groupsSeen \in [Indexes -> Group \cup {None}]
  /\ unseen \subseteq Indexes \cup {None} /\ loud \subseteq Indexes
  /\ setQueued \in BOOLEAN /\ setBudget \in 0 .. SetBudget
  /\ orphanLost \in BOOLEAN

-----------------------------------------------------------------------------
Normalize(roles) == [roles EXCEPT !.legacy = FALSE]
RolesEqual(r, s) == Normalize(r) = Normalize(s)

\* Mutants: every group with the set's label is taken; metadata is not compared.
AnyOwner(g) == TRUE
RolesDiffer(g) == ~RolesEqual(g.roles, setSeen.template.roles)

IsOwnedOrAdoptable(g) == g.owner \in {None, setSeen.uid}
NeedsUpdate(g) ==
  \/ ~RolesEqual(g.roles, setSeen.template.roles)
  \/ g.meta # setSeen.template.meta

\* A write of a copy that is not the latest is refused.
Stale(i) == i \in unseen

\* The groups a pass takes for its own, as it lists them.  An orphan that is
\* gone when it is to be adopted is passed over.
Mine == {i \in Indexes : groupsSeen[i] # None /\ IsOwnedOrAdoptable(groupsSeen[i])}
Orphans == {i \in Mine : groupsSeen[i].indexed /\ groupsSeen[i].owner = None}
Existing == {i \in Mine : groupsSeen[i].indexed /\ (i \in Orphans => groups[i] # None)}
Desired == {i \in Indexes : i < setSeen.replicas}
ToAdopt == Orphans \cap Existing
ToDelete == {i \in Mine : ~groupsSeen[i].indexed} \cup (Existing \ Desired)
ToUpdate == {i \in Existing \ ToDelete : NeedsUpdate(groupsSeen[i])}
\* A name that is taken by a group the informer knows is passed over.
ToCreate == {i \in Desired \ Existing : groupsSeen[i] = None}

NewGroup ==
  [owner |-> setSeen.uid, indexed |-> TRUE, roles |-> Normalize(setSeen.template.roles),
   meta |-> setSeen.template.meta, ready |-> FALSE]
Adopted(g) == [g EXCEPT !.owner = setSeen.uid]
Updated(g) ==
  [g EXCEPT !.roles = Normalize(setSeen.template.roles), !.meta = setSeen.template.meta]

\* The status counts what is listed after the writes: the informer's copy.
NewStatus ==
  LET ready == {i \in Mine : groupsSeen[i].ready}
  IN [replicas |-> Cardinality(Mine), ready |-> Cardinality(ready),
      condition |-> Cardinality(ready) >= setSeen.replicas]

-----------------------------------------------------------------------------
(***************************************************************************)
(* A pass: adoption while listing, then deletions, updates, creations and  *)
(* the status.  An adoption that is refused ends it; the deletions, the    *)
(* updates and the creations are each tried for all before an error ends   *)
(* the pass.  A pass that ends in an error is run again.                   *)
(***************************************************************************)
\* The indexes of S for which a call succeeds, if some may fail.
Tried(S) == IF setBudget > 0 THEN SUBSET S ELSE {S}

AfterAdoption(S) == [i \in Indexes |-> IF i \in S THEN Adopted(groups[i]) ELSE groups[i]]
Without(gs, S) == [i \in Indexes |-> IF i \in S THEN None ELSE gs[i]]
WithUpdates(gs, S) ==
  [i \in Indexes |-> IF i \in S /\ gs[i] # None THEN Updated(gs[i]) ELSE gs[i]]
WithCreated(gs, S) == [i \in Indexes |-> IF i \in S /\ gs[i] = None THEN NewGroup ELSE gs[i]]

\* The calls of the three phases that succeed, the phases after a failed one
\* left out.  Creating what exists already counts as a success.
Outcome(deleted, updated, created) ==
  IF deleted # ToDelete THEN [groups |-> Without(AfterAdoption(ToAdopt), deleted), ok |-> FALSE]
  ELSE IF updated # ToUpdate
  THEN [groups |-> WithUpdates(Without(AfterAdoption(ToAdopt), deleted), updated), ok |-> FALSE]
  ELSE [groups |-> WithCreated(WithUpdates(Without(AfterAdoption(ToAdopt), deleted), updated), created),
        ok |-> created = ToCreate]

\* The status is written, if it changed, to the set as the informer has it.
StatusWritten == set # None /\ ~Stale(None)

\* An update re-reads the informer's copy and is refused if that is old; it is
\* tried again, and the informer may have caught up by then.  Who controls the
\* group now is not asked again.
Conflicted == {i \in ToUpdate : Stale(i) \/ i \in ToAdopt}
Retried == {i \in Conflicted : groups[i] # None}

PassOfSet ==
  /\ setQueued /\ setSeen # None /\ ~setSeen.orphaning
  /\ \/ /\ \E i \in ToAdopt : Stale(i)
        /\ \E S \in SUBSET {i \in ToAdopt : ~Stale(i)} : groups' = AfterAdoption(S)
        /\ UNCHANGED <<set, setQueued, setBudget>>
     \/ /\ \A i \in ToAdopt : ~Stale(i)
        /\ \E deleted \in Tried(ToDelete), created \in Tried(ToCreate), retried \in SUBSET Retried :
           \E r \in {Outcome(deleted, (ToUpdate \ Conflicted) \cup retried, created)} :
             /\ groups' = r.groups
             /\ set' = IF r.ok /\ StatusWritten THEN [set EXCEPT !.status = NewStatus] ELSE set
             /\ setQueued' = ~(r.ok /\ (StatusWritten \/ setSeen.status = NewStatus))
             /\ setBudget' = IF deleted = ToDelete /\ created = ToCreate THEN setBudget
                             ELSE setBudget - 1
  /\ UNCHANGED <<setSeen, groupsSeen>>

\* Nothing is done for a set that is gone or being deleted.
SkipSet ==
  /\ setQueued /\ (setSeen # None => setSeen.orphaning)
  /\ setQueued' = FALSE
  /\ UNCHANGED <<set, setSeen, groups, groupsSeen, setBudget>>

-----------------------------------------------------------------------------
(***************************************************************************)
(* Informers.  An event of a group wakes the set its old or its new copy   *)
(* names as its controller, by name.                                       *)
(***************************************************************************)
DeliverSet ==
  /\ Stale(None) /\ unseen' = unseen \ {None}
  /\ setSeen' = set /\ setQueued' = TRUE
  /\ UNCHANGED <<set, groups, groupsSeen, loud, setBudget, orphanLost>>

DeliverGroup(i) ==
  /\ Stale(i) /\ unseen' = unseen \ {i}
  /\ groupsSeen' = [groupsSeen EXCEPT ![i] = groups[i]]
  /\ setQueued' = (setQueued \/ i \in loud) /\ loud' = loud \ {i}
  /\ orphanLost' = (orphanLost \/ (groupsSeen[i] # None /\ groups[i] = None /\ i \notin loud))
  /\ UNCHANGED <<set, setSeen, groups, setBudget>>

-----------------------------------------------------------------------------
(***************************************************************************)
(* The garbage collector, the controller of the groups and users.          *)
(***************************************************************************)
OnlyGroup(i, g) ==
  /\ groups' = [groups EXCEPT ![i] = g]
  /\ UNCHANGED <<set, setSeen, groupsSeen, setQueued>>

Collect(i) ==
  /\ groups[i] # None
  /\ groups[i].owner \notin {None} \cup {s.uid : s \in {set} \ {None}}
  /\ OnlyGroup(i, None) /\ UNCHANGED setBudget

\* A deletion that orphans: the groups lose their owner, then the set goes.
OrphanGroup(i) ==
  /\ set # None /\ set.orphaning
  /\ groups[i] # None /\ groups[i].owner = set.uid
  /\ OnlyGroup(i, [groups[i] EXCEPT !.owner = None]) /\ UNCHANGED setBudget
FinishOrphaning ==
  /\ set # None /\ set.orphaning
  /\ \A i \in Indexes : groups[i] # None => groups[i].owner # set.uid
  /\ set' = None
  /\ UNCHANGED <<setSeen, groups, groupsSeen, setQueued, setBudget>>

GroupBecomesReady(i) ==
  /\ groups[i] # None /\ ~groups[i].ready
  /\ OnlyGroup(i, [groups[i] EXCEPT !.ready = TRUE]) /\ UNCHANGED setBudget

SpendOnSet == setBudget > 0 /\ setBudget' = setBudget - 1

ChangeSet ==
  /\ SpendOnSet /\ set # None /\ ~set.orphaning
  /\ \/ \E n \in 0 .. Cardinality(Indexes) : set' = [set EXCEPT !.replicas = n]
     \/ \E t \in Templates : set' = [set EXCEPT !.template = t]
     \/ set' = None
     \/ set' = [set EXCEPT !.orphaning = TRUE]
  /\ UNCHANGED <<setSeen, groups, groupsSeen, setQueued>>

\* A set of the same name; a uid that nothing refers to is as good as new.
UidsInUse ==
  {g.owner : g \in ({groups[i] : i \in Indexes} \cup {groupsSeen[i] : i \in Indexes}) \ {None}}
    \cup {s.uid : s \in {setSeen} \ {None}}
CreateSet ==
  /\ set = None /\ \E u \in Uids : u \notin UidsInUse
  /\ \E t \in Templates :
       set' = [uid |-> CHOOSE u \in Uids : u \notin UidsInUse, replicas |-> Cardinality(Indexes),
               template |-> t, orphaning |-> FALSE, status |-> NoSetStatus]
  /\ UNCHANGED <<setSeen, groups, groupsSeen, setQueued, setBudget>>

\* Somebody else writes a group: its metadata, or away with its index label.
Tamper(i) ==
  /\ SpendOnSet /\ groups[i] # None
  /\ \/ OnlyGroup(i, [groups[i] EXCEPT !.meta = None])
     \/ OnlyGroup(i, [groups[i] EXCEPT !.indexed = FALSE])

-----------------------------------------------------------------------------
\* A set that has come to rest.
SetInit ==
  /\ \E t \in Templates :
       /\ set = [uid |-> CHOOSE u \in Uids : TRUE, replicas |-> 1, template |-> t, orphaning |-> FALSE,
                 status |-> [replicas |-> 1, ready |-> 1, condition |-> TRUE]]
       /\ groups = [i \in Indexes |->
                      IF i < 1 THEN [owner |-> CHOOSE u \in Uids : TRUE, indexed |-> TRUE, roles |-> Normalize(t.roles),
                                     meta |-> t.meta, ready |-> TRUE]
                      ELSE None]
  /\ setSeen = set /\ groupsSeen = groups /\ unseen = {} /\ loud = {} /\ orphanLost = FALSE
  /\ setQueued = FALSE /\ setBudget = SetBudget

GroupWorld ==
  \/ FinishOrphaning
  \/ \E i \in Indexes : Collect(i) \/ OrphanGroup(i) \/ GroupBecomesReady(i)
Heed ==
  /\ UNCHANGED orphanLost
  /\ loud' = loud \cup {i \in Indexes : /\ groups'[i] # groups[i]
                                       /\ \E g \in {groups[i], groups'[i]} \ {None} : g.owner # None}
  /\ unseen' = unseen \cup {i \in Indexes : groups'[i] # groups[i]}
                     \cup (IF set' # set THEN {None} ELSE {})
PassSet == (PassOfSet \/ SkipSet) /\ Heed
RunWorld == GroupWorld /\ Heed
SetNext ==
  \/ PassSet \/ DeliverSet \/ (\E i \in Indexes : DeliverGroup(i)) \/ RunWorld
  \/ (ChangeSet \/ CreateSet \/ \E i \in Indexes : Tamper(i)) /\ Heed

SetSpec == SetInit /\ [][SetNext]_setVars
\* The work queue, the informers, the collector and the groups go on.
SetFairness ==
  /\ WF_setVars(PassSet) /\ WF_setVars(DeliverSet)
  /\ WF_setVars(\E i \in Indexes : DeliverGroup(i)) /\ WF_setVars(RunWorld)

-----------------------------------------------------------------------------
\* No pass changes the spec of a group that another incarnation of the set
\* controls, however old the copies it works on and whatever call of it fails
\* (isOwnedOrAdoptable; the conflict that refuses the write of an old copy; and
\* the order in which incarnations come and go, where the retry of an update asks
\* for no owner).  A group that was orphaned meanwhile may be written.  Somebody
\* else's writes take metadata away.
ForeignUntouched ==
  [][\A i \in Indexes :
       (/\ groups[i] # None /\ groups'[i] # None
        /\ groups'[i].roles # groups[i].roles \/ groups'[i].meta \notin {groups[i].meta, None})
       => setSeen # None /\ groups'[i].owner \in {None, setSeen.uid}]_setVars

\* When the changes end, a set that was not deleted comes to rest with one
\* group of its own for every index, each as the template says, nothing else
\* under its name, and a status that tells the truth.  (The deletion of an
\* orphan wakes no set: if a pass deleted one because it had no index label,
\* its index may stay empty.)
SetAtRest ==
  /\ ~setQueued
  /\ set # None =>
       /\ \A i \in Indexes :
            IF i < set.replicas
            THEN /\ groups[i] # None /\ groups[i].owner = set.uid /\ groups[i].indexed
                 /\ groups[i].roles = Normalize(set.template.roles)
                 /\ groups[i].meta = set.template.meta
            ELSE groups[i] = None
       /\ set.status = [replicas |-> set.replicas, ready |-> set.replicas, condition |-> TRUE]
SetSettles == <>[](SetAtRest \/ orphanLost)
=============================================================================
