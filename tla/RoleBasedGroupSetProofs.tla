----------------------- MODULE RoleBasedGroupSetProofs -----------------------
(***************************************************************************)
(* Theorems about RoleBasedGroupSet, for every number of groups, every     *)
(* number of incarnations of the set and every templates: the variables    *)
(* keep their types, and no pass writes the spec of a group of another     *)
(* incarnation of the set.                                                 *)
(***************************************************************************)
EXTENDS RoleBasedGroupSet, TLAPS, FiniteSetTheorems

\* A copy of a group that is not the latest has an event under way, so the
\* API server refuses what is written from it.
CopiesCurrent == \A i \in Indexes : i \notin unseen => groupsSeen[i] = groups[i]

SetInv == SetTypeOK /\ CopiesCurrent

\* Incarnations come one after the other: the informer knows of no group of an
\* incarnation of the set it has not heard of, and a group it has as one of the
\* incarnation it knows has not gone to another one since.
NotYetHeard == set # None /\ (setSeen = None \/ setSeen.uid # set.uid)
OwnersFollow ==
  /\ NotYetHeard => \A i \in Indexes : /\ groups[i] # None => groups[i].owner # set.uid
                                       /\ groupsSeen[i] # None => groupsSeen[i].owner # set.uid
  /\ setSeen # None =>
       \A i \in Indexes :
         groupsSeen[i] # None /\ groupsSeen[i].owner = setSeen.uid /\ groups[i] # None
           => groups[i].owner \in {None, setSeen.uid}

OwnerInv == SetInv /\ OwnersFollow

Tables == [Indexes -> Group \cup {None}]

-----------------------------------------------------------------------------
(***************************************************************************)
(* What the writes of a pass make of a group.                              *)
(***************************************************************************)
LEMMA NormalRoles ==
  ASSUME NEW r \in TemplateRoles
  PROVE  Normalize(r) \in TemplateRoles
BY DEF Normalize, TemplateRoles

LEMMA WrittenGroups ==
  ASSUME setSeen \in Set
  PROVE  /\ setSeen.uid \in Uids
         /\ NewGroup \in Group /\ NewGroup.owner = setSeen.uid
         /\ \A g \in Group : /\ Adopted(g) \in Group /\ Adopted(g).owner = setSeen.uid
                             /\ Adopted(g).roles = g.roles /\ Adopted(g).meta = g.meta
                             /\ Updated(g) \in Group /\ Updated(g).owner = g.owner
<1>1. setSeen.uid \in Uids /\ setSeen.template \in Template BY DEF Set
<1>2. setSeen.template.roles \in TemplateRoles /\ setSeen.template.meta \in Metas BY <1>1 DEF Template
<1>3. PICK r \in TemplateRoles : r = Normalize(setSeen.template.roles) BY <1>2, NormalRoles
<1>4. NewGroup \in Group /\ NewGroup.owner = setSeen.uid BY <1>1, <1>2, <1>3 DEF NewGroup, Group
<1>5. ASSUME NEW g \in Group
      PROVE  /\ Adopted(g) \in Group /\ Adopted(g).owner = setSeen.uid
             /\ Adopted(g).roles = g.roles /\ Adopted(g).meta = g.meta
  BY <1>1 DEF Adopted, Group
<1>6. ASSUME NEW g \in Group
      PROVE  Updated(g) \in Group /\ Updated(g).owner = g.owner
  BY <1>2, <1>3 DEF Updated, Group
<1> QED BY <1>1, <1>4, <1>5, <1>6

\* The tables of groups a pass builds.
LEMMA BuiltTables ==
  ASSUME setSeen \in Set, NEW S
  PROVE  \A gs \in Tables : /\ Without(gs, S) \in Tables
                            /\ WithUpdates(gs, S) \in Tables
                            /\ WithCreated(gs, S) \in Tables
BY WrittenGroups DEF Without, WithUpdates, WithCreated, Tables

\* Only what exists is adopted.
LEMMA AdoptedTable ==
  ASSUME SetTypeOK, setSeen \in Set, NEW S \in SUBSET ToAdopt
  PROVE  /\ AfterAdoption(S) \in Tables
         /\ \A i \in Indexes :
              /\ AfterAdoption(S)[i] = None <=> groups[i] = None
              /\ i \notin S => AfterAdoption(S)[i] = groups[i]
              /\ i \in S => AfterAdoption(S)[i].owner = setSeen.uid
              /\ groups[i] # None => /\ AfterAdoption(S)[i].roles = groups[i].roles
                                     /\ AfterAdoption(S)[i].meta = groups[i].meta
<1>1. \A i \in S : i \in Indexes /\ groups[i] # None BY DEF ToAdopt, Existing, Orphans, Mine
<1>2. \A i \in S : groups[i] \in Group BY <1>1 DEF SetTypeOK
<1> QED BY <1>1, <1>2, WrittenGroups, SetAssumption DEF AfterAdoption, Tables, SetTypeOK

LEMMA OutcomeTable ==
  ASSUME SetTypeOK, setSeen \in Set, NEW deleted, NEW updated, NEW created
  PROVE  Outcome(deleted, updated, created).groups \in Tables
<1>1. PICK gs \in Tables : gs = AfterAdoption(ToAdopt) BY AdoptedTable
<1>2. PICK hs \in Tables : hs = Without(gs, deleted) BY BuiltTables
<1>3. PICK is \in Tables : is = WithUpdates(hs, updated) BY BuiltTables
<1>4. WithCreated(is, created) \in Tables BY BuiltTables
<1> QED BY <1>1, <1>2, <1>3, <1>4 DEF Outcome

\* Where an outcome differs from what was there, in roles or in metadata, the
\* group was updated, which leaves its owner, or made anew.
LEMMA OutcomeChanges ==
  ASSUME SetTypeOK, setSeen \in Set, NEW deleted, NEW updated, NEW created,
         NEW i \in Indexes, NEW g, g = Outcome(deleted, updated, created).groups[i],
         groups[i] # None, g # None, g.roles # groups[i].roles \/ g.meta # groups[i].meta
  PROVE  g # NewGroup => /\ i \in updated
                         /\ g.owner = IF i \in ToAdopt THEN setSeen.uid ELSE groups[i].owner
<1> DEFINE as == AfterAdoption(ToAdopt)
           ds == Without(as, deleted)
           us == WithUpdates(ds, updated)
           cs == WithCreated(us, created)
<1>1. /\ as[i] # None /\ as[i].roles = groups[i].roles /\ as[i].meta = groups[i].meta
      /\ as[i] \in Group /\ as[i].owner = IF i \in ToAdopt THEN setSeen.uid ELSE groups[i].owner
  BY AdoptedTable DEF Tables
<1>2. g \in {ds[i], us[i], cs[i]} BY DEF Outcome
<1> HIDE DEF as
<1>3. ds[i] \in {None, as[i]} BY DEF Without
<1> HIDE DEF ds
<1>4. us[i] = ds[i] \/ (i \in updated /\ ds[i] # None /\ us[i] = Updated(ds[i])) BY DEF WithUpdates
<1>w. Updated(as[i]).owner = as[i].owner BY <1>1, WrittenGroups
<1> HIDE DEF us
<1>5. cs[i] \in {us[i], NewGroup} BY DEF WithCreated
<1> HIDE DEF cs
<1> QED BY <1>1, <1>2, <1>3, <1>4, <1>5, <1>w

-----------------------------------------------------------------------------
(***************************************************************************)
(* Types.                                                                  *)
(***************************************************************************)
LEMMA CountBound ==
  ASSUME NEW S \in SUBSET Indexes
  PROVE  Cardinality(S) \in 0 .. Cardinality(Indexes)
<1>1. IsFiniteSet(S) /\ Cardinality(S) <= Cardinality(Indexes) BY SetAssumption, FS_Subset
<1>2. Cardinality(S) \in Nat /\ Cardinality(Indexes) \in Nat BY <1>1, SetAssumption, FS_CardinalityType
<1> QED BY <1>1, <1>2

LEMMA StatusType ==
  NewStatus \in SetStatus
<1> DEFINE ready == {i \in Mine : groupsSeen[i].ready}
<1>1. Mine \in SUBSET Indexes /\ ready \in SUBSET Indexes BY DEF Mine
<1>2. Cardinality(Mine) \in 0 .. Cardinality(Indexes) /\ Cardinality(ready) \in 0 .. Cardinality(Indexes)
  BY <1>1, CountBound
<1>3. NewStatus.replicas = Cardinality(Mine) /\ NewStatus.ready = Cardinality(ready) BY DEF NewStatus
<1> QED BY <1>2 DEF NewStatus, SetStatus

\* The changes of a pass, by what they leave of the variables' types.
LEMMA PassType ==
  ASSUME SetTypeOK, PassOfSet
  PROVE  /\ groups' \in Tables /\ set' \in Set \cup {None}
         /\ setQueued' \in BOOLEAN /\ setBudget' \in 0 .. SetBudget
         /\ UNCHANGED <<setSeen, groupsSeen>>
<1>0. setSeen \in Set /\ UNCHANGED <<setSeen, groupsSeen>> BY DEF PassOfSet, SetTypeOK
<1>1. CASE /\ \E S \in SUBSET {i \in ToAdopt : ~Stale(i)} : groups' = AfterAdoption(S)
           /\ UNCHANGED <<set, setQueued, setBudget>>
  <2>1. PICK S \in SUBSET ToAdopt : groups' = AfterAdoption(S) BY <1>1
  <2> QED BY <1>0, <1>1, <2>1, AdoptedTable DEF SetTypeOK
<1>2. ASSUME NEW deleted \in Tried(ToDelete), NEW created \in Tried(ToCreate), NEW updated, NEW r,
             r = Outcome(deleted, updated, created),
             groups' = r.groups,
             set' = IF r.ok /\ StatusWritten THEN [set EXCEPT !.status = NewStatus] ELSE set,
             setQueued' = ~(r.ok /\ (StatusWritten \/ setSeen.status = NewStatus)),
             setBudget' = IF deleted = ToDelete /\ created = ToCreate THEN setBudget ELSE setBudget - 1
      PROVE  /\ groups' \in Tables /\ set' \in Set \cup {None}
             /\ setQueued' \in BOOLEAN /\ setBudget' \in 0 .. SetBudget
  <2>1. groups' \in Tables BY <1>0, <1>2, OutcomeTable
  <2>2. set' \in Set \cup {None}
    <3>1. StatusWritten => set \in Set BY DEF StatusWritten, SetTypeOK
    <3>2. \A x \in SetStatus : set \in Set => [set EXCEPT !.status = x] \in Set BY DEF Set
    <3> QED BY <1>2, <3>1, <3>2, StatusType DEF SetTypeOK
  <2>3. setQueued' \in BOOLEAN BY <1>2
  <2>4. setBudget' \in 0 .. SetBudget
    <3>1. setBudget > 0 \/ (deleted = ToDelete /\ created = ToCreate) BY DEF Tried
    <3> QED BY <1>2, <3>1, SetAssumption DEF SetTypeOK
  <2> QED BY <2>1, <2>2, <2>3, <2>4
<1>3. CASE \E deleted \in Tried(ToDelete), created \in Tried(ToCreate), retried \in SUBSET Retried :
           \E r \in {Outcome(deleted, (ToUpdate \ Conflicted) \cup retried, created)} :
             /\ groups' = r.groups
             /\ set' = IF r.ok /\ StatusWritten THEN [set EXCEPT !.status = NewStatus] ELSE set
             /\ setQueued' = ~(r.ok /\ (StatusWritten \/ setSeen.status = NewStatus))
             /\ setBudget' = IF deleted = ToDelete /\ created = ToCreate THEN setBudget
                             ELSE setBudget - 1
  <2> DEFINE U(retried) == (ToUpdate \ Conflicted) \cup retried
  <2>1. PICK deleted \in Tried(ToDelete), created \in Tried(ToCreate), retried \in SUBSET Retried :
             /\ groups' = Outcome(deleted, U(retried), created).groups
             /\ set' = IF Outcome(deleted, U(retried), created).ok /\ StatusWritten
                       THEN [set EXCEPT !.status = NewStatus] ELSE set
             /\ setQueued' = ~(Outcome(deleted, U(retried), created).ok /\ (StatusWritten \/ setSeen.status = NewStatus))
             /\ setBudget' = IF deleted = ToDelete /\ created = ToCreate THEN setBudget
                             ELSE setBudget - 1
    BY <1>3
  <2> QED BY <1>0, <1>2, <2>1
<1> QED BY <1>0, <1>1, <1>3, PassOfSet DEF PassOfSet

LEMMA OneGroupType ==
  ASSUME SetTypeOK, NEW i \in Indexes, NEW g \in Group \cup {None}, OnlyGroup(i, g)
  PROVE  groups' \in Tables /\ UNCHANGED <<set, setSeen, groupsSeen, setQueued>>
BY DEF OnlyGroup, SetTypeOK, Tables

LEMMA SetTypeStep ==
  ASSUME SetTypeOK, SetNext
  PROVE  SetTypeOK'
<1> USE SetAssumption
<1>b. SpendOnSet => setBudget' \in 0 .. SetBudget BY DEF SpendOnSet, SetTypeOK
\* A step that the informers have yet to hear of.
<1>h. ASSUME Heed, groups' \in Tables, set' \in Set \cup {None}, setQueued' \in BOOLEAN,
             setBudget' \in 0 .. SetBudget, UNCHANGED <<setSeen, groupsSeen>>
      PROVE  SetTypeOK'
  <2>1. unseen' \subseteq Indexes \cup {None} /\ loud' \subseteq Indexes /\ orphanLost' \in BOOLEAN
    BY <1>h DEF Heed, SetTypeOK
  <2> QED BY <1>h, <2>1 DEF SetTypeOK, Tables
<1>g. ASSUME NEW i \in Indexes, groups[i] # None
      PROVE  /\ groups[i] \in Group
             /\ [groups[i] EXCEPT !.owner = None] \in Group
             /\ [groups[i] EXCEPT !.ready = TRUE] \in Group
             /\ [groups[i] EXCEPT !.meta = None] \in Group
             /\ [groups[i] EXCEPT !.indexed = FALSE] \in Group
  BY <1>g DEF SetTypeOK, Group
<1>1. CASE PassOfSet /\ Heed
  BY <1>1, <1>h, PassType
<1>2. CASE SkipSet /\ Heed
  BY <1>2, <1>h DEF SkipSet, SetTypeOK, Tables
<1>3. CASE DeliverSet
  BY <1>3 DEF DeliverSet, SetTypeOK
<1>4. ASSUME NEW i \in Indexes, DeliverGroup(i) PROVE SetTypeOK'
  <2>1. groupsSeen' \in [Indexes -> Group \cup {None}] BY <1>4 DEF DeliverGroup, SetTypeOK
  <2>2. setQueued' \in BOOLEAN /\ orphanLost' \in BOOLEAN BY <1>4 DEF DeliverGroup, SetTypeOK
  <2> QED BY <1>4, <2>1, <2>2 DEF DeliverGroup, SetTypeOK
<1>5. ASSUME NEW i \in Indexes, Collect(i) \/ OrphanGroup(i) \/ GroupBecomesReady(i), Heed PROVE SetTypeOK'
  <2>1. PICK g \in Group \cup {None} : OnlyGroup(i, g) BY <1>5, <1>g DEF Collect, OrphanGroup, GroupBecomesReady
  <2>2. UNCHANGED setBudget BY <1>5 DEF Collect, OrphanGroup, GroupBecomesReady
  <2> QED BY <1>5, <1>h, <2>1, <2>2, OneGroupType DEF SetTypeOK
<1>6. CASE FinishOrphaning /\ Heed
  BY <1>6, <1>h DEF FinishOrphaning, SetTypeOK, Tables
<1>7. CASE ChangeSet /\ Heed
  <2>1. set \in Set BY <1>7 DEF ChangeSet, SetTypeOK
  <2>2. set' \in Set \cup {None} BY <1>7, <2>1 DEF ChangeSet, Set
  <2> QED BY <1>7, <1>b, <1>h, <2>2 DEF ChangeSet, SetTypeOK, Tables
<1>8. CASE CreateSet /\ Heed
  <2>1. (CHOOSE u \in Uids : u \notin UidsInUse) \in Uids BY <1>8 DEF CreateSet
  <2>2. Cardinality(Indexes) \in 0 .. Cardinality(Indexes) /\ 0 \in 0 .. Cardinality(Indexes)
    <3>1. Cardinality(Indexes) \in Nat BY FS_CardinalityType
    <3> QED BY <3>1
  <2>3. NoSetStatus \in SetStatus BY <2>2 DEF NoSetStatus, SetStatus
  <2>4. set' \in Set \cup {None} BY <1>8, <2>1, <2>2, <2>3 DEF CreateSet, Set
  <2> QED BY <1>8, <1>h, <2>4 DEF CreateSet, SetTypeOK, Tables
<1>9. ASSUME NEW i \in Indexes, Tamper(i), Heed PROVE SetTypeOK'
  <2>1. PICK g \in Group \cup {None} : OnlyGroup(i, g) BY <1>9, <1>g DEF Tamper
  <2> QED BY <1>9, <1>b, <1>h, <2>1, OneGroupType DEF SetTypeOK, Tamper
<1> QED BY <1>1, <1>2, <1>3, <1>4, <1>5, <1>6, <1>7, <1>8, <1>9, SetNext
        DEF SetNext, PassSet, RunWorld, GroupWorld

LEMMA CopiesStep ==
  ASSUME SetInv, SetNext
  PROVE  CopiesCurrent'
<1> USE SetAssumption DEF SetInv
<1>1. CASE Heed /\ UNCHANGED groupsSeen
  BY <1>1 DEF Heed, CopiesCurrent
<1>2. CASE DeliverSet
  BY <1>2 DEF DeliverSet, CopiesCurrent
<1>3. ASSUME NEW i \in Indexes, DeliverGroup(i) PROVE CopiesCurrent'
  <2>1. groupsSeen'[i] = groups[i] /\ \A j \in Indexes \ {i} : groupsSeen'[j] = groupsSeen[j]
    BY <1>3 DEF DeliverGroup, SetTypeOK
  <2> QED BY <1>3, <2>1 DEF DeliverGroup, CopiesCurrent
<1>4. CASE PassSet
  BY <1>1, <1>4 DEF PassSet, PassOfSet, SkipSet
<1>5. CASE RunWorld
  BY <1>1, <1>5 DEF RunWorld, GroupWorld, FinishOrphaning, Collect, OrphanGroup, GroupBecomesReady, OnlyGroup
<1>6. CASE (ChangeSet \/ CreateSet \/ \E i \in Indexes : Tamper(i)) /\ Heed
  BY <1>1, <1>6 DEF ChangeSet, CreateSet, Tamper, OnlyGroup
<1> QED BY <1>2, <1>3, <1>4, <1>5, <1>6, SetNext DEF SetNext

LEMMA SetInitial ==
  ASSUME SetInit
  PROVE  SetInv
<1> USE SetAssumption
<1>1. PICK t \in Templates, u \in {CHOOSE u \in Uids : TRUE} :
        /\ set = [uid |-> u, replicas |-> 1, template |-> t, orphaning |-> FALSE,
                  status |-> [replicas |-> 1, ready |-> 1, condition |-> TRUE]]
        /\ groups = [i \in Indexes |->
                       IF i < 1 THEN [owner |-> u, indexed |-> TRUE, roles |-> Normalize(t.roles),
                                      meta |-> t.meta, ready |-> TRUE]
                       ELSE None]
  BY DEF SetInit
<1>2. u \in Uids /\ t \in Template /\ t.roles \in TemplateRoles /\ t.meta \in Metas BY DEF Template
<1>3. 1 \in 0 .. Cardinality(Indexes)
  <2>1. Cardinality(Indexes) \in Nat /\ Cardinality(Indexes) # 0 BY FS_CardinalityType, FS_EmptySet
  <2> QED BY <2>1
<1>4. PICK r \in TemplateRoles : r = Normalize(t.roles) BY <1>2, NormalRoles
<1>5. set \in Set BY <1>1, <1>2, <1>3 DEF Set, SetStatus
<1>6. groups \in [Indexes -> Group \cup {None}] BY <1>1, <1>2, <1>4 DEF Group
<1>7. setBudget \in 0 .. SetBudget BY DEF SetInit
<1> QED BY <1>5, <1>6, <1>7 DEF SetInit, SetInv, SetTypeOK, CopiesCurrent

\* Whatever the informers still owe, whoever writes, and whichever calls fail,
\* the set, the groups and their copies keep the types of the API.
THEOREM SetTypeCorrect == SetSpec => []SetInv
<1>1. SetInit => SetInv BY SetInitial
<1>2. SetInv /\ [SetNext]_setVars => SetInv'
  <2>1. ASSUME SetInv, SetNext PROVE SetInv'
    BY <2>1, SetTypeStep, CopiesStep DEF SetInv
  <2>2. ASSUME SetInv, UNCHANGED setVars PROVE SetInv'
    BY <2>2 DEF SetInv, SetTypeOK, CopiesCurrent, setVars
  <2> QED BY <2>1, <2>2
<1> QED BY <1>1, <1>2, PTL DEF SetSpec

-----------------------------------------------------------------------------
(***************************************************************************)
(* Whose groups a pass writes.                                             *)
(***************************************************************************)
\* What an outcome leaves at an index: nothing, a new group, or the group that
\* was there, its owner the old one or, by adoption, the set of the pass.
LEMMA OutcomeOwners ==
  ASSUME SetTypeOK, setSeen \in Set, NEW deleted, NEW updated, NEW created,
         NEW i \in Indexes, NEW g, g = Outcome(deleted, updated, created).groups[i], g # None
  PROVE  g.owner = setSeen.uid \/ (groups[i] # None /\ g.owner = groups[i].owner)
<1> DEFINE as == AfterAdoption(ToAdopt)
           ds == Without(as, deleted)
           us == WithUpdates(ds, updated)
           cs == WithCreated(us, created)
<1>1. /\ as[i] \in Group \cup {None}
      /\ as[i] # None => as[i].owner = setSeen.uid \/ (groups[i] # None /\ as[i].owner = groups[i].owner)
  BY AdoptedTable DEF Tables
<1>2. g \in {ds[i], us[i], cs[i]} BY DEF Outcome
<1> HIDE DEF as
<1>3. ds[i] \in {None, as[i]} BY DEF Without
<1> HIDE DEF ds
<1>4. us[i] = ds[i] \/ (ds[i] # None /\ us[i] = Updated(ds[i])) BY DEF WithUpdates
<1>w. as[i] # None => Updated(as[i]).owner = as[i].owner BY <1>1, WrittenGroups
<1>n. NewGroup.owner = setSeen.uid BY WrittenGroups
<1> HIDE DEF us
<1>5. cs[i] \in {us[i], NewGroup} BY DEF WithCreated
<1> HIDE DEF cs
<1> QED BY <1>1, <1>2, <1>3, <1>4, <1>5, <1>w, <1>n

LEMMA PassOwners ==
  ASSUME SetTypeOK, PassOfSet, NEW i \in Indexes, groups'[i] # None
  PROVE  groups'[i].owner = setSeen.uid \/ (groups[i] # None /\ groups'[i].owner = groups[i].owner)
<1>0. setSeen \in Set BY DEF PassOfSet, SetTypeOK
<1>1. CASE \E S \in SUBSET {j \in ToAdopt : ~Stale(j)} : groups' = AfterAdoption(S)
  <2>1. PICK S \in SUBSET ToAdopt : groups' = AfterAdoption(S) BY <1>1
  <2> QED BY <1>0, <2>1, AdoptedTable
<1>2. CASE \E deleted, updated, created : groups' = Outcome(deleted, updated, created).groups
  BY <1>0, <1>2, OutcomeOwners
<1> QED BY <1>1, <1>2 DEF PassOfSet

\* The API server's uid and the informer's are of the same incarnation after a
\* write of the set, unless it was created.
LEMMA PassKeepsUid ==
  ASSUME SetTypeOK, PassOfSet
  PROVE  /\ set' # None => set # None /\ set'.uid = set.uid
         /\ UNCHANGED <<setSeen, groupsSeen>>
<1>1. set' = set \/ (set # None /\ set' = [set EXCEPT !.status = NewStatus])
  BY DEF PassOfSet, StatusWritten
<1>2. set # None => [set EXCEPT !.status = NewStatus].uid = set.uid BY DEF SetTypeOK, Set
<1> QED BY <1>1, <1>2 DEF PassOfSet

LEMMA OwnersStep ==
  ASSUME OwnerInv, SetNext
  PROVE  OwnersFollow'
<1> USE SetAssumption DEF OwnerInv, SetInv
<1>1. CASE PassOfSet
  <2>1. setSeen # None /\ setSeen \in Set BY <1>1 DEF PassOfSet, SetTypeOK
  <2>2. UNCHANGED <<setSeen, groupsSeen>> /\ (set' # None => set # None /\ set'.uid = set.uid)
    BY <1>1, PassKeepsUid
  <2>3. \A i \in Indexes : groups'[i] # None =>
          groups'[i].owner = setSeen.uid \/ (groups[i] # None /\ groups'[i].owner = groups[i].owner)
    BY <1>1, PassOwners
  <2> QED BY <2>1, <2>2, <2>3 DEF OwnersFollow, NotYetHeard
<1>2. CASE UNCHANGED <<setSeen, groupsSeen, groups>> /\ (set' # None => set # None /\ set'.uid = set.uid)
  BY <1>2 DEF OwnersFollow, NotYetHeard
<1>3. CASE SkipSet \/ FinishOrphaning
  BY <1>2, <1>3 DEF SkipSet, FinishOrphaning
<1>4. CASE ChangeSet
  <2>1. set \in Set /\ set # None BY <1>4 DEF ChangeSet, SetTypeOK
  <2>2. set' # None => set'.uid = set.uid BY <1>4, <2>1 DEF ChangeSet, Set
  <2> QED BY <1>2, <1>4, <2>1, <2>2 DEF ChangeSet
<1>5. CASE CreateSet
  <2>1. UNCHANGED <<setSeen, groupsSeen, groups>> BY <1>5 DEF CreateSet
  <2>2. PICK u \in Uids : u \notin UidsInUse /\ set' # None /\ set'.uid = u
    <3>1. (CHOOSE u \in Uids : u \notin UidsInUse) \in Uids \ UidsInUse BY <1>5 DEF CreateSet
    <3>2. set' # None /\ set'.uid = CHOOSE u \in Uids : u \notin UidsInUse
      <4>1. PICK t \in Templates :
              set' = [uid |-> CHOOSE u \in Uids : u \notin UidsInUse, replicas |-> Cardinality(Indexes),
                      template |-> t, orphaning |-> FALSE, status |-> NoSetStatus]
        BY <1>5 DEF CreateSet
      <4>2. Cardinality(Indexes) \in 0 .. Cardinality(Indexes) /\ 0 \in 0 .. Cardinality(Indexes)
        <5>1. Cardinality(Indexes) \in Nat BY FS_CardinalityType
        <5> QED BY <5>1
      <4>3. NoSetStatus \in SetStatus BY <4>2 DEF NoSetStatus, SetStatus
      <4>4. set' \in Set BY <3>1, <4>1, <4>2, <4>3 DEF Set
      <4> QED BY <4>1, <4>4
    <3> QED BY <3>1, <3>2
  <2>3. \A i \in Indexes : /\ groups[i] # None => groups[i].owner # u
                           /\ groupsSeen[i] # None => groupsSeen[i].owner # u
    BY <2>2 DEF UidsInUse
  <2> QED BY <2>1, <2>2, <2>3 DEF OwnersFollow, NotYetHeard
<1>6. CASE DeliverSet
  BY <1>6 DEF DeliverSet, OwnersFollow, NotYetHeard
<1>7. ASSUME NEW i \in Indexes, DeliverGroup(i) PROVE OwnersFollow'
  <2>1. groupsSeen'[i] = groups[i] /\ \A j \in Indexes \ {i} : groupsSeen'[j] = groupsSeen[j]
    BY <1>7 DEF DeliverGroup, SetTypeOK
  <2> QED BY <1>7, <2>1 DEF DeliverGroup, OwnersFollow, NotYetHeard
<1>8. ASSUME NEW i \in Indexes, Collect(i) \/ OrphanGroup(i) \/ GroupBecomesReady(i) \/ Tamper(i)
      PROVE  OwnersFollow'
  <2>1. groups[i] # None /\ groups[i] \in Group
    BY <1>8 DEF Collect, OrphanGroup, GroupBecomesReady, Tamper, SetTypeOK
  <2>2. PICK g \in {None, [groups[i] EXCEPT !.owner = None], [groups[i] EXCEPT !.ready = TRUE],
                    [groups[i] EXCEPT !.meta = None], [groups[i] EXCEPT !.indexed = FALSE]} : OnlyGroup(i, g)
    BY <1>8 DEF Collect, OrphanGroup, GroupBecomesReady, Tamper
  <2>3. g # None => g.owner \in {None, groups[i].owner} BY <2>1, <2>2 DEF Group
  <2>4. groups'[i] = g /\ \A j \in Indexes \ {i} : groups'[j] = groups[j]
    BY <2>2 DEF OnlyGroup, SetTypeOK
  <2>5. UNCHANGED <<set, setSeen, groupsSeen>> BY <2>2 DEF OnlyGroup
  <2>6. None \notin Uids /\ (set # None => set.uid \in Uids) BY DEF SetTypeOK, Set
  <2> QED BY <2>1, <2>3, <2>4, <2>5, <2>6 DEF OwnersFollow, NotYetHeard
<1> QED BY <1>1, <1>3, <1>4, <1>5, <1>6, <1>7, <1>8, SetNext DEF SetNext, PassSet, RunWorld, GroupWorld

LEMMA OwnersInitial ==
  ASSUME SetInit
  PROVE  OwnersFollow
BY DEF SetInit, OwnersFollow, NotYetHeard

LEMMA OwnersKnown == SetSpec => []OwnerInv
<1>1. SetInit => OwnerInv BY SetInitial, OwnersInitial DEF OwnerInv
<1>2. OwnerInv /\ [SetNext]_setVars => OwnersFollow'
  <2>1. ASSUME OwnerInv, UNCHANGED setVars PROVE OwnersFollow'
    BY <2>1 DEF OwnerInv, OwnersFollow, NotYetHeard, setVars
  <2> QED BY <2>1, OwnersStep
<1>3. OwnerInv <=> SetInv /\ OwnersFollow BY DEF OwnerInv
<1> QED BY <1>1, <1>2, <1>3, SetTypeCorrect, PTL DEF SetSpec

\* What a pass updates without adopting it, on the first try or a later one, has
\* gone to no other incarnation since the pass listed it.
LEMMA UpdatesOwn ==
  ASSUME OwnerInv, setSeen \in Set, NEW i \in ToUpdate, i \notin ToAdopt, groups[i] # None
  PROVE  groups[i].owner \in {None, setSeen.uid}
<1>1. i \in Existing BY DEF ToUpdate
<1>2. i \in Mine /\ groupsSeen[i].indexed BY <1>1 DEF Existing
<1>3. /\ i \in Indexes /\ groupsSeen[i] # None
      /\ groupsSeen[i].owner \in {None, setSeen.uid}
  BY <1>2 DEF Mine, IsOwnedOrAdoptable
<1>4. groupsSeen[i].owner # None BY <1>1, <1>2 DEF ToAdopt, Orphans
<1>5. setSeen # None BY SetAssumption
<1> QED BY <1>3, <1>4, <1>5 DEF OwnerInv, OwnersFollow

\* The controller of a set (updateExistingRBGs) never writes the spec of a group
\* that another incarnation of the set controls, although it decides from copies
\* that may be old, tries a refused update again without asking who controls the
\* group now, and any of its calls may fail.
THEOREM ForeignGroupsUntouched == SetSpec => ForeignUntouched
<1> USE SetAssumption
<1> DEFINE Rewritten(i) == /\ groups[i] # None /\ groups'[i] # None
                           /\ groups'[i].roles # groups[i].roles \/ groups'[i].meta \notin {groups[i].meta, None}
           A == \A i \in Indexes : Rewritten(i) => setSeen # None /\ groups'[i].owner \in {None, setSeen.uid}
<1>1. OwnerInv /\ [SetNext]_setVars => [A]_setVars
  <2> SUFFICES ASSUME OwnerInv, SetNext, NEW i \in Indexes, Rewritten(i)
               PROVE  setSeen # None /\ groups'[i].owner \in {None, setSeen.uid}
    OBVIOUS
  <2> USE DEF OwnerInv
  <2>g. groups[i] \in Group BY DEF SetInv, SetTypeOK
  <2>1. CASE PassOfSet
    <3>0. setSeen \in Set /\ setSeen # None BY <2>1 DEF PassOfSet, SetInv, SetTypeOK
    <3>1. CASE \E S \in SUBSET {j \in ToAdopt : ~Stale(j)} : groups' = AfterAdoption(S)
      <4>1. PICK S \in SUBSET ToAdopt : groups' = AfterAdoption(S) BY <3>1
      <4> QED BY <3>0, <4>1, AdoptedTable DEF SetInv
    <3>2. CASE \E deleted, created : \E retried \in SUBSET Retried :
                 groups' = Outcome(deleted, (ToUpdate \ Conflicted) \cup retried, created).groups
      <4>0. PICK deleted, created :
              \E retried \in SUBSET Retried :
                groups' = Outcome(deleted, (ToUpdate \ Conflicted) \cup retried, created).groups
        BY <3>2
      <4>1. PICK U \in SUBSET ToUpdate : groups' = Outcome(deleted, U, created).groups
        BY <4>0 DEF Retried, Conflicted
      <4>2. \/ groups'[i] = NewGroup
            \/ i \in U /\ groups'[i].owner = IF i \in ToAdopt THEN setSeen.uid ELSE groups[i].owner
        <5>1. /\ SetTypeOK /\ groups[i] # None /\ groups'[i] # None
              /\ groups'[i].roles # groups[i].roles \/ groups'[i].meta # groups[i].meta
          BY DEF SetInv
        <5>2. PICK g : g = groups'[i] OBVIOUS
        <5>3. g = Outcome(deleted, U, created).groups[i] BY <4>1, <5>2
        <5>4. g # NewGroup => /\ i \in U
                              /\ g.owner = IF i \in ToAdopt THEN setSeen.uid ELSE groups[i].owner
          BY <3>0, <5>1, <5>2, <5>3, OutcomeChanges
        <5> QED BY <5>2, <5>4
      <4>3. CASE groups'[i] = NewGroup
        BY <3>0, <4>3, WrittenGroups
      <4>4. CASE i \in U /\ i \in ToAdopt /\ groups'[i].owner = setSeen.uid
        BY <3>0, <4>4
      <4>5. CASE i \in U /\ i \notin ToAdopt /\ groups'[i].owner = groups[i].owner
        BY <3>0, <4>5, UpdatesOwn
      <4> QED BY <4>2, <4>3, <4>4, <4>5
    <3> QED BY <2>1, <3>1, <3>2 DEF PassOfSet
  <2>2. CASE UNCHANGED groups
    BY <2>2
  <2>3. ASSUME NEW j \in Indexes, Collect(j) \/ OrphanGroup(j) \/ GroupBecomesReady(j) \/ Tamper(j) PROVE FALSE
    <3>1. j = i BY <2>3 DEF Collect, OrphanGroup, GroupBecomesReady, Tamper, OnlyGroup, SetInv, SetTypeOK
    <3>2. groups'[i] \in {None, [groups[i] EXCEPT !.owner = None], [groups[i] EXCEPT !.ready = TRUE],
                          [groups[i] EXCEPT !.meta = None], [groups[i] EXCEPT !.indexed = FALSE]}
      BY <2>3, <3>1 DEF Collect, OrphanGroup, GroupBecomesReady, Tamper, OnlyGroup, SetInv, SetTypeOK
    <3> QED BY <2>g, <3>2 DEF Group
  <2>4. CASE SkipSet \/ DeliverSet \/ (\E j \in Indexes : DeliverGroup(j)) \/ FinishOrphaning
             \/ ChangeSet \/ CreateSet
    BY <2>2, <2>4 DEF SkipSet, DeliverSet, DeliverGroup, FinishOrphaning, ChangeSet, CreateSet
  <2> QED BY <2>1, <2>3, <2>4, SetNext DEF SetNext, PassSet, RunWorld, GroupWorld
<1> QED BY <1>1, OwnersKnown, PTL DEF SetSpec, ForeignUntouched

=============================================================================
