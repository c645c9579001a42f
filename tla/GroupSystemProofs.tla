-------------------------- MODULE GroupSystemProofs --------------------------
(***************************************************************************)
(* The group and its scaling adapters: what a deleted group left behind is *)
(* not inherited, and an upgrade does not undo the autoscaler.             *)
(***************************************************************************)
EXTENDS GroupSystem, TLAPS

-----------------------------------------------------------------------------
(***************************************************************************)
(* The inductive invariant.                                                *)
(***************************************************************************)
\* The group has a uid, and replicas for every role.
GroupOK ==
  /\ {"uid", "replicas", "mode"} \subseteq DOMAIN group
  /\ group.uid \in Nat \ {0} /\ group.replicas \in [Roles -> Nat]
  /\ conf \in Scenarios /\ ids \in Nat

\* Every workload and the PodGroup have an owner.
WorkloadsOK ==
  /\ DOMAIN wl = Roles /\ \A r \in Roles : {"owner", "replicas"} \subseteq DOMAIN wl[r]
  /\ "owner" \in DOMAIN pg

\* An adapter is of a group that exists or existed, has a number handed out
\* already, and once bound it asks for replicas.
AdapterOK(a) ==
  /\ {"owner", "id", "replicas", "phase"} \subseteq DOMAIN a
  /\ a.owner \in Int /\ a.owner <= group.uid
  /\ a.id \in Nat /\ a.id <= ids /\ (a.owner # Absent => a.id > 0)
  /\ a.phase = "Bound" => a.replicas \in Nat
AdaptersOK ==
  /\ DOMAIN adapter = Roles /\ DOMAIN acache = Roles
  /\ \A r \in Roles : AdapterOK(adapter[r]) /\ AdapterOK(acache[r])

\* A copy that names this group is of the adapter that is there, or of one that
\* is gone: no adapter changes hands while the group lives.
CopiesHonest ==
  \A r \in Roles : acache[r].owner = group.uid /\ acache[r].id = adapter[r].id => adapter[r].owner = group.uid

\* A pass works for this group or a predecessor of it, with the adapters of then.
PassOK ==
  pass # None =>
    /\ {"g", "adapters"} \subseteq DOMAIN pass
    /\ pass.g.uid \in Nat \ {0} /\ pass.g.uid <= group.uid
    /\ \A r \in Roles : pass.adapters[r].owner \in Int /\ pass.adapters[r].owner <= pass.g.uid

\* The discovery mode is stored before anything is created for the group, so a
\* pass that finds an adapter keeps its copy of the group, and the override.
Overridden(p) ==
  \A r \in p.g.adapters \cap p.g.roles \cap Roles :
    p.adapters[r].owner = p.g.uid /\ p.adapters[r].phase = "Bound" => p.g.replicas[r] = p.adapters[r].replicas
ModeKept ==
  "replace" \notin conf.events =>
    /\ \A r \in Roles : adapter[r].owner = group.uid \/ acache[r].owner = group.uid => group.mode # ""
    /\ pass # None => (pass.g.uid = group.uid => group.mode # "") /\ Overridden(pass)

GroupInv == GroupOK /\ WorkloadsOK /\ AdaptersOK /\ CopiesHonest /\ PassOK /\ ModeKept

-----------------------------------------------------------------------------
(***************************************************************************)
(* Initial states, and steps that change only the spec of the group.       *)
(***************************************************************************)
LEMMA Nobody == Absent \in Int /\ Absent <= 0 /\ 0 <= Absent /\ Orphan \in Int /\ Orphan < 0
BY DEF Absent, Orphan

LEMMA NobodysAdapter ==
  ASSUME NEW a, a = NoAdapter
  PROVE  /\ {"owner", "id", "replicas", "phase"} \subseteq DOMAIN a
         /\ a.owner = Absent /\ a.id \in {0} /\ a.phase # "Bound"
BY DEF NoAdapter

LEMMA NoAdapterOK ==
  ASSUME group.uid \in Nat, ids \in Nat, NEW a, a = NoAdapter
  PROVE  AdapterOK(a)
BY NobodysAdapter, Nobody DEF AdapterOK

LEMMA GroupInit == InitGroup => GroupInv
<1> SUFFICES ASSUME InitGroup PROVE GroupInv OBVIOUS
<1>1. conf \in Scenarios /\ conf.replicas \in [Roles -> Nat]
  BY GroupAssumption DEF InitGroup, IsConfiguration
<1>2. /\ group.uid = 1 /\ group.replicas = conf.replicas
      /\ {"uid", "replicas", "mode"} \subseteq DOMAIN group
  BY DEF InitGroup
<1>3. acache = adapter /\ pass = None BY DEF InitGroup
<1> HIDE DEF InitGroup
<1>4. CASE conf.settled
  <2>1. Settled BY <1>4, Zenon DEF InitGroup
  <2>2. /\ ids = 1
        /\ wl = [r \in Roles |-> [owner |-> 1, replicas |-> conf.replicas[r], tmpl |-> 1, partition |-> 0,
                                  gang |-> InjectPodSchedulingFields(r, Gang(group)), seen |-> TRUE,
                                  status |-> wl[r].status]]
        /\ pg = NoPodGroup \/ pg = [owner |-> 1, spec |-> DesiredGroup(group, Gang(group))]
        /\ adapter = [r \in Roles |-> IF r \in conf.adapters
                                      THEN [owner |-> 1, id |-> 1, replicas |-> conf.replicas[r], phase |-> "Bound"]
                                      ELSE NoAdapter]
    BY <2>1 DEF Settled
  <2>3. GroupOK BY <1>1, <1>2, <2>2 DEF GroupOK
  <2>6. WorkloadsOK BY <2>2 DEF WorkloadsOK, NoPodGroup
  <2>4. AdaptersOK /\ CopiesHonest
    <3>1. \A r \in Roles : AdapterOK(adapter[r])
      <4> SUFFICES ASSUME NEW r \in Roles PROVE AdapterOK(adapter[r]) OBVIOUS
      <4>1. CASE r \in conf.adapters
        <5>1. PICK n \in Nat : n = conf.replicas[r] BY <1>1
        <5>2. adapter[r] = [owner |-> 1, id |-> 1, replicas |-> n, phase |-> "Bound"] BY <2>2, <4>1, <5>1
        <5> QED BY <1>2, <2>2, <5>2 DEF AdapterOK
      <4>2. CASE r \notin conf.adapters
        <5>1. adapter[r] = NoAdapter BY <2>2, <4>2
        <5> QED BY <1>2, <2>2, <5>1, NoAdapterOK
      <4> QED BY <4>1, <4>2
    <3>2. DOMAIN adapter = Roles BY <2>2
    <3> QED BY <1>3, <3>1, <3>2 DEF AdaptersOK, CopiesHonest
  <2>5. PassOK /\ ModeKept
    <3>1. group.mode = "refine" BY <1>4 DEF InitGroup
    <3> QED BY <1>3, <3>1 DEF PassOK, ModeKept
  <2> QED BY <2>3, <2>4, <2>5, <2>6 DEF GroupInv
<1>5. CASE ~conf.settled
  <2>1. Fresh BY <1>5, Zenon DEF InitGroup
  <2>2. /\ ids = 0 /\ pg = NoPodGroup
        /\ wl = [r \in Roles |-> NoWorkload] /\ adapter = [r \in Roles |-> NoAdapter]
    BY <2>1 DEF Fresh
  <2>3. GroupOK BY <1>1, <1>2, <2>2 DEF GroupOK
  <2>6. WorkloadsOK BY <2>2 DEF WorkloadsOK, NoPodGroup, NoWorkload
  <2>4. AdaptersOK /\ CopiesHonest
    <3>1. \A r \in Roles : AdapterOK(adapter[r])
      BY <1>2, <2>2, NoAdapterOK
    <3>2. DOMAIN adapter = Roles BY <2>2
    <3> QED BY <1>3, <3>1, <3>2 DEF AdaptersOK, CopiesHonest
  <2>5. PassOK /\ ModeKept
    <3>1. \A r \in Roles : adapter[r].owner # group.uid BY <1>2, <2>2, NobodysAdapter, Nobody
    <3> QED BY <1>3, <3>1 DEF PassOK, ModeKept
  <2> QED BY <2>3, <2>4, <2>5, <2>6 DEF GroupInv
<1> QED BY <1>4, <1>5

\* Nobody looks at what a change of the spec leaves alone, except at the mode.
LEMMA SpecEdit ==
  ASSUME GroupInv, UNCHANGED <<conf, wl, pg, adapter, acache, ids, pass>>,
         {"uid", "replicas", "mode"} \subseteq DOMAIN group',
         group'.uid = group.uid, group'.replicas \in [Roles -> Nat],
         group'.mode = group.mode \/ "replace" \in conf.events
  PROVE  GroupInv'
<1>1. GroupOK' /\ WorkloadsOK' BY DEF GroupInv, GroupOK, WorkloadsOK
<1>2. AdaptersOK' /\ CopiesHonest' BY DEF GroupInv, AdaptersOK, AdapterOK, CopiesHonest
<1>3. PassOK' BY DEF GroupInv, PassOK
<1>4. ModeKept' BY DEF GroupInv, ModeKept, Overridden
<1> QED BY <1>1, <1>2, <1>3, <1>4 DEF GroupInv

-----------------------------------------------------------------------------
(***************************************************************************)
(* Steps that change adapters: an adapter keeps its owner and its number,  *)
(* goes, or is a new one, and only a pass of this group creates one for it.*)
(***************************************************************************)
PassGoesOn ==
  \/ pass' \in {None, pass}
  \/ pass # None /\ {"g", "adapters"} \subseteq DOMAIN pass' /\ pass'.g = pass.g /\ pass'.adapters = pass.adapters
SameAdapter(r) == AdapterOK(adapter[r])' /\ adapter'[r].owner = adapter[r].owner /\ adapter'[r].id = adapter[r].id
OtherAdapter(r) ==
  /\ AdapterOK(adapter[r])' /\ adapter'[r].id > ids
  /\ adapter'[r].owner = group.uid => pass # None /\ pass.g.uid = group.uid
AdapterGone(r) == adapter'[r] = NoAdapter
ModeStays == group.mode # "" => group'.mode # ""

LEMMA AdaptersMove ==
  ASSUME GroupInv, UNCHANGED <<conf, acache>>, PassGoesOn,
         group'.uid = group.uid, ModeStays,
         DOMAIN adapter' = Roles, ids' \in Nat, ids <= ids',
         \A r \in Roles : SameAdapter(r) \/ OtherAdapter(r) \/ AdapterGone(r)
  PROVE  AdaptersOK' /\ CopiesHonest' /\ PassOK' /\ ModeKept'
<1>1. GroupOK /\ AdaptersOK /\ CopiesHonest /\ PassOK /\ ModeKept BY DEF GroupInv
<1>2. \A r \in Roles : AdapterOK(acache[r])' /\ AdapterOK(adapter[r])'
  <2> SUFFICES ASSUME NEW r \in Roles PROVE AdapterOK(acache[r])' /\ AdapterOK(adapter[r])' OBVIOUS
  <2>1. AdapterOK(acache[r])' BY <1>1 DEF AdaptersOK, AdapterOK, GroupOK
  <2>2. CASE AdapterGone(r)
    <3>1. /\ {"owner", "id", "replicas", "phase"} \subseteq DOMAIN adapter'[r]
          /\ adapter'[r].owner = Absent /\ adapter'[r].id \in {0} /\ adapter'[r].phase # "Bound"
      BY <2>2, NobodysAdapter DEF AdapterGone
    <3> QED BY <1>1, <2>1, <3>1, Nobody DEF AdapterOK, GroupOK
  <2> QED BY <2>1, <2>2 DEF SameAdapter, OtherAdapter
<1>3. AdaptersOK' BY <1>1, <1>2 DEF AdaptersOK
<1>4. CopiesHonest'
  <2> SUFFICES ASSUME NEW r \in Roles, acache[r].owner = group.uid, acache[r].id = adapter'[r].id
               PROVE  adapter'[r].owner = group.uid
    BY DEF CopiesHonest
  <2>1. acache[r].id \in Nat /\ acache[r].id <= ids /\ acache[r].id > 0
    BY <1>1, Nobody DEF AdaptersOK, AdapterOK, GroupOK
  <2>2. CASE SameAdapter(r) BY <1>1, <2>2 DEF SameAdapter, CopiesHonest
  <2>3. CASE OtherAdapter(r) BY <1>1, <2>1, <2>3 DEF OtherAdapter, GroupOK
  <2>4. CASE AdapterGone(r)
    <3>1. adapter'[r].id \in {0} BY <2>4, NobodysAdapter DEF AdapterGone
    <3> QED BY <2>1, <3>1
  <2> QED BY <2>2, <2>3, <2>4
<1>5. PassOK'
  <2>1. CASE pass' \in {None, pass} BY <1>1, <2>1 DEF PassOK
  <2>2. CASE pass' \notin {None, pass}
    <3>1. pass # None /\ {"g", "adapters"} \subseteq DOMAIN pass' /\ pass'.g = pass.g /\ pass'.adapters = pass.adapters
      BY <2>2 DEF PassGoesOn
    <3> QED BY <1>1, <3>1 DEF PassOK
  <2> QED BY <2>1, <2>2
<1>6. ModeKept'
  <2> SUFFICES ASSUME "replace" \notin conf.events
               PROVE  /\ \A r \in Roles : adapter'[r].owner = group.uid \/ acache[r].owner = group.uid => group.mode # ""
                      /\ pass' # None => (pass'.g.uid = group.uid => group.mode # "") /\ Overridden(pass')
    BY DEF ModeKept, Overridden, ModeStays
  <2>1. /\ \A r \in Roles : adapter[r].owner = group.uid \/ acache[r].owner = group.uid => group.mode # ""
        /\ pass # None => (pass.g.uid = group.uid => group.mode # "") /\ Overridden(pass)
    BY <1>1 DEF ModeKept
  <2>2. ASSUME NEW r \in Roles, adapter'[r].owner = group.uid PROVE group.mode # ""
    <3>1. CASE SameAdapter(r) BY <2>1, <2>2, <3>1 DEF SameAdapter
    <3>2. CASE OtherAdapter(r) BY <2>1, <2>2, <3>2 DEF OtherAdapter
    <3>3. CASE AdapterGone(r)
      <4>1. adapter'[r].owner = Absent BY <3>3, NobodysAdapter DEF AdapterGone
      <4>2. group.uid # Absent BY <1>1, Nobody DEF GroupOK
      <4> QED BY <2>2, <4>1, <4>2
    <3> QED BY <3>1, <3>2, <3>3
  <2>3. pass' # None => (pass'.g.uid = group.uid => group.mode # "") /\ Overridden(pass')
    <3>1. CASE pass' \in {None, pass} BY <2>1, <3>1 DEF Overridden
    <3>2. CASE pass' \notin {None, pass}
      <4>1. pass # None /\ pass'.g = pass.g /\ pass'.adapters = pass.adapters BY <3>2 DEF PassGoesOn
      <4> QED BY <2>1, <4>1 DEF Overridden
    <3> QED BY <3>1, <3>2
  <2> QED BY <2>1, <2>2, <2>3
<1> QED BY <1>3, <1>4, <1>5, <1>6

-----------------------------------------------------------------------------
(***************************************************************************)
(* The adapter controller and its informer.                                *)
(***************************************************************************)
LEMMA AdapterPassKeeps ==
  ASSUME GroupInv, NEW r \in Roles, AdapterPass(r)
  PROVE  GroupInv'
<1>1. GroupOK /\ WorkloadsOK /\ AdaptersOK BY DEF GroupInv
<1>2. UNCHANGED <<conf, wl, pg, acache, pass>> BY DEF AdapterPass
<1>3. /\ AdapterOK(adapter[r]) /\ AdapterOK(acache[r]) /\ group.replicas[r] \in Nat
      /\ DOMAIN adapter = Roles
  BY <1>1 DEF AdaptersOK, GroupOK
<1>4. PassGoesOn BY <1>2 DEF PassGoesOn
<1>5. \A q \in Roles : AdapterOK(adapter[q]) BY <1>1 DEF AdaptersOK
<1>6. group.uid \in Nat /\ ids \in Nat BY <1>1 DEF GroupOK
<1>7. CASE SkipAdapter(r)
  BY <1>1, <1>2, <1>7, SpecEdit DEF SkipAdapter, GroupOK
<1>8. CASE UnbindAdapter(r)
  <2>1. group' = group /\ ids' = ids /\ adapter' \in {adapter, [adapter EXCEPT ![r].phase = "NotBound"]}
    BY <1>8 DEF UnbindAdapter
  <2>2. \A q \in Roles : SameAdapter(q)
    BY <1>3, <1>5, <2>1 DEF SameAdapter, AdapterOK
  <2>3. DOMAIN adapter' = Roles BY <1>3, <2>1
  <2>4. AdaptersOK' /\ CopiesHonest' /\ PassOK' /\ ModeKept'
    <3>1. ModeStays BY <2>1 DEF ModeStays
    <3> QED BY <1>2, <1>4, <1>6, <2>1, <2>2, <2>3, <3>1, AdaptersMove
  <2>5. GroupOK' /\ WorkloadsOK' BY <1>1, <1>2, <2>1 DEF GroupOK, WorkloadsOK
  <2> QED BY <2>4, <2>5 DEF GroupInv
<1>9. CASE BindAdapter(r)
  <2>1. group' = group BY <1>9 DEF BindAdapter
  <2>2. PICK n \in Nat : n = group.replicas[r] BY <1>3
  <2>3. \/ /\ ids' = ids + 1
           /\ \E p : adapter' = [adapter EXCEPT ![r] = [owner |-> Orphan, id |-> ids + 1, replicas |-> n, phase |-> p]]
        \/ /\ ids' = ids
           /\ \E p : adapter' = [adapter EXCEPT ![r].replicas = n, ![r].phase = p]
    BY <1>9, <2>2, Zenon DEF BindAdapter
  <2>4. DOMAIN adapter' = Roles /\ ids' \in Nat /\ ids <= ids' BY <1>3, <1>6, <2>3
  <2>5. \A q \in Roles : SameAdapter(q) \/ OtherAdapter(q)
    <3>1. CASE \E p : ids' = ids + 1 /\ adapter' = [adapter EXCEPT ![r] =
                        [owner |-> Orphan, id |-> ids + 1, replicas |-> n, phase |-> p]]
      <4>1. PICK p : ids' = ids + 1 /\ adapter' = [adapter EXCEPT ![r] =
                       [owner |-> Orphan, id |-> ids + 1, replicas |-> n, phase |-> p]]
        BY <3>1
      <4>2. OtherAdapter(r)
        <5>1. adapter'[r] = [owner |-> Orphan, id |-> ids + 1, replicas |-> n, phase |-> p]
          BY <1>3, <4>1
        <5> QED BY <1>6, <2>1, <4>1, <5>1, Nobody DEF OtherAdapter, AdapterOK
      <4>3. \A q \in Roles \ {r} : SameAdapter(q)
        BY <1>3, <1>5, <1>6, <2>1, <4>1 DEF SameAdapter, AdapterOK
      <4> QED BY <4>2, <4>3
    <3>2. CASE \E p : ids' = ids /\ adapter' = [adapter EXCEPT ![r].replicas = n, ![r].phase = p]
      <4>1. PICK p : ids' = ids /\ adapter' = [adapter EXCEPT ![r].replicas = n, ![r].phase = p] BY <3>2
      <4> QED BY <1>3, <1>5, <2>1, <4>1 DEF SameAdapter, AdapterOK
    <3> QED BY <2>3, <3>1, <3>2
  <2>6. AdaptersOK' /\ CopiesHonest' /\ PassOK' /\ ModeKept'
    BY <1>2, <1>4, <2>1, <2>4, <2>5, AdaptersMove DEF ModeStays
  <2>7. GroupOK' /\ WorkloadsOK' BY <1>1, <1>2, <2>1, <2>4 DEF GroupOK, WorkloadsOK
  <2> QED BY <2>6, <2>7 DEF GroupInv
<1>10. CASE ScaleRole(r)
  <2>1. adapter' = adapter /\ ids' = ids BY <1>10 DEF ScaleRole
  <2>2. group' = group \/ group' = [group EXCEPT !.replicas[r] = acache[r].replicas] BY <1>10 DEF ScaleRole
  <2>3. acache[r].replicas \in Nat BY <1>3, <1>10 DEF ScaleRole, AdapterOK
  <2>4. /\ {"uid", "replicas", "mode"} \subseteq DOMAIN group' /\ group'.uid = group.uid
        /\ group'.replicas \in [Roles -> Nat] /\ group'.mode = group.mode
    BY <1>1, <2>2, <2>3 DEF GroupOK
  <2> QED BY <1>2, <2>1, <2>4, SpecEdit
<1> QED BY <1>7, <1>8, <1>9, <1>10 DEF AdapterPass

LEMMA CatchUpKeeps ==
  ASSUME GroupInv, NEW r \in Roles, CatchUp(r)
  PROVE  GroupInv'
<1>1. GroupOK /\ WorkloadsOK /\ AdaptersOK /\ CopiesHonest /\ PassOK /\ ModeKept BY DEF GroupInv
<1>2. /\ UNCHANGED <<conf, group, wl, pg, adapter, ids, pass>>
      /\ acache' = [acache EXCEPT ![r] = adapter[r]]
  BY DEF CatchUp
<1>3. GroupOK' /\ WorkloadsOK' /\ PassOK' BY <1>1, <1>2 DEF GroupOK, WorkloadsOK, PassOK
<1>4. DOMAIN acache' = Roles /\ \A q \in Roles : acache'[q] = IF q = r THEN adapter[q] ELSE acache[q]
  BY <1>1, <1>2 DEF AdaptersOK
<1>5. AdaptersOK' BY <1>1, <1>2, <1>4 DEF AdaptersOK, AdapterOK
<1>6. CopiesHonest' BY <1>1, <1>2, <1>4 DEF CopiesHonest
<1>7. ModeKept' BY <1>1, <1>2, <1>4 DEF ModeKept, Overridden
<1> QED BY <1>3, <1>5, <1>6, <1>7 DEF GroupInv

-----------------------------------------------------------------------------
(***************************************************************************)
(* The workloads' controllers and the garbage collector.                   *)
(***************************************************************************)
\* Only workloads, the PodGroup and what no conjunct names change.
LEMMA WorkloadsMove ==
  ASSUME GroupInv, UNCHANGED <<conf, group, adapter, acache, ids, pass>>, WorkloadsOK'
  PROVE  GroupInv'
<1>1. GroupOK' /\ PassOK' /\ CopiesHonest' BY DEF GroupInv, GroupOK, PassOK, CopiesHonest
<1>2. AdaptersOK' BY DEF GroupInv, AdaptersOK, AdapterOK
<1>3. ModeKept' BY DEF GroupInv, ModeKept, Overridden
<1> QED BY <1>1, <1>2, <1>3 DEF GroupInv

LEMMA WorldKeeps ==
  ASSUME GroupInv, World
  PROVE  GroupInv'
<1>1. GroupOK /\ WorkloadsOK /\ AdaptersOK BY DEF GroupInv
<1>2. CASE CollectPodGroup
  <2>1. UNCHANGED <<conf, group, wl, adapter, acache, ids, pass>> /\ pg' = NoPodGroup
    BY <1>2 DEF CollectPodGroup
  <2>2. "owner" \in DOMAIN pg' BY <2>1 DEF NoPodGroup
  <2>3. WorkloadsOK' BY <1>1, <2>1, <2>2 DEF WorkloadsOK
  <2> QED BY <2>1, <2>3, WorkloadsMove
<1>3. CASE CollectRest
  <2>1. UNCHANGED <<conf, group, wl, pg, acache, ids, pass>> BY <1>3 DEF CollectRest
  <2>2. adapter' = [q \in Roles |-> IF Gone(adapter[q].owner) THEN NoAdapter ELSE adapter[q]]
    BY <1>3 DEF CollectRest
  <2>3. \A q \in Roles : SameAdapter(q) \/ AdapterGone(q)
    BY <1>1, <2>1, <2>2 DEF SameAdapter, AdapterGone, AdaptersOK, AdapterOK
  <2>4. DOMAIN adapter' = Roles /\ ids' \in Nat /\ ids <= ids' BY <1>1, <2>1, <2>2 DEF GroupOK
  <2>5. PassGoesOn BY <2>1 DEF PassGoesOn
  <2>6. AdaptersOK' /\ CopiesHonest' /\ PassOK' /\ ModeKept' BY <2>1, <2>3, <2>4, <2>5, AdaptersMove DEF ModeStays
  <2>7. GroupOK' /\ WorkloadsOK' BY <1>1, <2>1 DEF GroupOK, WorkloadsOK
  <2> QED BY <2>6, <2>7 DEF GroupInv
<1>4. ASSUME NEW r \in Roles, InstanceStep(r) PROVE GroupInv'
  <2>1. UNCHANGED <<conf, group, wl, pg, adapter, acache, ids, pass>> BY <1>4 DEF InstanceStep
  <2>2. WorkloadsOK' BY <1>1, <2>1 DEF WorkloadsOK
  <2> QED BY <2>1, <2>2, WorkloadsMove
<1>5. ASSUME NEW r \in Roles, SyncStatus(r) PROVE GroupInv'
  <2>1. /\ UNCHANGED <<conf, group, pg, adapter, acache, ids, pass>>
        /\ wl' = [wl EXCEPT ![r].seen = TRUE, ![r].status = Observed(r)]
    BY <1>5 DEF SyncStatus
  <2>2. WorkloadsOK' BY <1>1, <2>1 DEF WorkloadsOK
  <2> QED BY <2>1, <2>2, WorkloadsMove
<1>6. ASSUME NEW r \in Roles, CollectWorkload(r) PROVE GroupInv'
  <2>1. UNCHANGED <<conf, group, pg, adapter, acache, ids, pass>> /\ wl' = [wl EXCEPT ![r] = NoWorkload]
    BY <1>6 DEF CollectWorkload
  <2>2. WorkloadsOK' BY <1>1, <2>1 DEF WorkloadsOK, NoWorkload
  <2> QED BY <2>1, <2>2, WorkloadsMove
<1> QED BY <1>2, <1>3, <1>4, <1>5, <1>6, CatchUpKeeps DEF World

-----------------------------------------------------------------------------
(***************************************************************************)
(* Users, the autoscaler and failures.                                     *)
(***************************************************************************)
LEMMA EditsKeep ==
  ASSUME GroupInv, NEW r,
         \/ Rollout \/ Replace \/ DeletePolicy \/ Invalidate
         \/ Scale(r) \/ DropReplicas(r) \/ RemoveRole(r) \/ AddRole(r) \/ DisableAdapter(r)
  PROVE  GroupInv'
<1>1. GroupOK BY DEF GroupInv
<1>2. \E g : SpecChange(g)
  BY DEF Rollout, Replace, DeletePolicy, Invalidate, Scale, DropReplicas, RemoveRole, AddRole, DisableAdapter
<1>3. UNCHANGED <<conf, wl, pg, adapter, acache, ids, pass>> BY <1>2 DEF SpecChange
<1>4. \/ \E v : group' \in {[group EXCEPT !.tmpl = v], [group EXCEPT !.roles = v], [group EXCEPT !.adapters = v],
                             [group EXCEPT !.policed = v], [group EXCEPT !.valid = v]}
      \/ \E n \in Nat : group' = [group EXCEPT !.replicas[r] = n]
      \/ /\ "replace" \in conf.events
         /\ group' = [group EXCEPT !.replicas = [q \in Roles |-> IF q \in group.adapters THEN 1 ELSE @[q]], !.mode = ""]
  <2>1. ASSUME Scale(r) PROVE \E n \in Nat : group' = [group EXCEPT !.replicas[r] = n]
    <3>1. PICK n \in 0 .. conf.maxReplicas : group' = [group EXCEPT !.replicas[r] = n]
      BY <2>1 DEF Scale, SpecChange
    <3>2. n \in Nat BY <3>1
    <3> QED BY <3>1, <3>2
  <2>2. ASSUME DropReplicas(r) PROVE \E n \in Nat : group' = [group EXCEPT !.replicas[r] = n]
    BY <2>2 DEF DropReplicas, SpecChange
  <2> QED
    BY <2>1, <2>2, Zenon DEF Rollout, Replace, DeletePolicy, Invalidate, RemoveRole, AddRole, DisableAdapter,
       SpecChange, Happens
<1>5. /\ {"uid", "replicas", "mode"} \subseteq DOMAIN group' /\ group'.uid = group.uid
      /\ group'.replicas \in [Roles -> Nat] /\ (group'.mode = group.mode \/ "replace" \in conf.events)
  <2>1. ASSUME NEW v, group' \in {[group EXCEPT !.tmpl = v], [group EXCEPT !.roles = v], [group EXCEPT !.adapters = v],
                                 [group EXCEPT !.policed = v], [group EXCEPT !.valid = v]}
        PROVE  DOMAIN group' = DOMAIN group /\ group'.uid = group.uid /\ group'.replicas = group.replicas /\ group'.mode = group.mode
    BY <1>1, <2>1 DEF GroupOK
  <2>2. ASSUME NEW n \in Nat, group' = [group EXCEPT !.replicas[r] = n]
        PROVE  /\ DOMAIN group' = DOMAIN group /\ group'.uid = group.uid /\ group'.replicas \in [Roles -> Nat]
               /\ group'.mode = group.mode
    BY <1>1, <2>2 DEF GroupOK
  <2>3. ASSUME group' = [group EXCEPT !.replicas = [q \in Roles |-> IF q \in group.adapters THEN 1 ELSE @[q]], !.mode = ""]
        PROVE  DOMAIN group' = DOMAIN group /\ group'.uid = group.uid /\ group'.replicas \in [Roles -> Nat]
    BY <1>1, <2>3 DEF GroupOK
  <2> QED BY <1>1, <1>4, <2>1, <2>2, <2>3 DEF GroupOK
<1> QED BY <1>3, <1>5, SpecEdit

\* A group created again has a uid of its own, which nothing that is there names.
LEMMA RecreateKeeps ==
  ASSUME GroupInv, NEW b \in BOOLEAN, Recreate(b)
  PROVE  GroupInv'
<1> DEFINE Left(owner) == IF b /\ owner = group.uid THEN Orphan ELSE owner
<1>1. GroupOK /\ WorkloadsOK /\ AdaptersOK /\ PassOK /\ ModeKept BY DEF GroupInv
<1>2. UNCHANGED <<conf, acache, ids, pass>> BY DEF Recreate
<1>3. /\ group' = [group EXCEPT !.uid = @ + 1, !.roles = Roles, !.tmpl = 1, !.mode = "",
                     !.replicas = [r \in Roles |-> IF r \in group.adapters THEN 1 ELSE conf.replicas[r]]]
      /\ wl' = [r \in Roles |-> [wl[r] EXCEPT !.owner = Left(@)]]
      /\ adapter' = [r \in Roles |-> [adapter[r] EXCEPT !.owner = Left(@)]]
      /\ pg' = [pg EXCEPT !.owner = Left(@)]
  BY DEF Recreate
<1>4. conf.replicas \in [Roles -> Nat] BY <1>1, GroupAssumption DEF GroupOK, IsConfiguration
<1>5. GroupOK' /\ group'.uid = group.uid + 1
  <2>1. /\ DOMAIN group' = DOMAIN group /\ group'.uid = group.uid + 1
        /\ group'.replicas = [r \in Roles |-> IF r \in group.adapters THEN 1 ELSE conf.replicas[r]]
    BY <1>1, <1>3 DEF GroupOK
  <2>2. group'.replicas \in [Roles -> Nat] BY <1>4, <2>1
  <2> QED BY <1>1, <1>2, <2>1, <2>2 DEF GroupOK
<1>6. WorkloadsOK' BY <1>1, <1>3 DEF WorkloadsOK
<1>7. \A r \in Roles : /\ AdapterOK(acache[r])' /\ acache[r].owner < group'.uid
                       /\ AdapterOK(adapter[r])' /\ adapter'[r].owner < group'.uid
  <2> SUFFICES ASSUME NEW r \in Roles
               PROVE  /\ AdapterOK(acache[r])' /\ acache[r].owner < group'.uid
                      /\ AdapterOK(adapter[r])' /\ adapter'[r].owner < group'.uid
    OBVIOUS
  <2>1. AdapterOK(acache[r]) /\ AdapterOK(adapter[r]) /\ group.uid \in Nat \ {0} BY <1>1 DEF AdaptersOK, GroupOK
  <2>2. PICK o \in Int : o = Left(adapter[r].owner) BY <2>1, Nobody DEF AdapterOK
  <2>3. o <= group.uid /\ (o # Absent => adapter[r].owner # Absent) BY <2>1, <2>2, Nobody DEF AdapterOK
  <2>4. adapter'[r] = [adapter[r] EXCEPT !.owner = o] BY <1>3, <2>2
  <2> HIDE DEF Left
  <2>5. AdapterOK(acache[r])' /\ acache[r].owner < group'.uid BY <1>2, <1>5, <2>1 DEF AdapterOK
  <2> QED BY <1>2, <1>5, <2>1, <2>3, <2>4, <2>5 DEF AdapterOK
<1>8. AdaptersOK' BY <1>1, <1>2, <1>3, <1>7 DEF AdaptersOK
<1>9. \A r \in Roles : acache[r].owner # group'.uid /\ adapter'[r].owner # group'.uid
  BY <1>1, <1>5, <1>7, <1>8, <1>2 DEF AdaptersOK, AdapterOK, GroupOK
<1>10. CopiesHonest' BY <1>2, <1>9 DEF CopiesHonest
<1>11. PassOK' BY <1>1, <1>2, <1>5 DEF PassOK, GroupOK
<1>12. pass # None => pass.g.uid # group'.uid BY <1>1, <1>5 DEF PassOK, GroupOK
<1>13. ModeKept' BY <1>1, <1>2, <1>9, <1>12 DEF ModeKept, Overridden
<1> QED BY <1>5, <1>6, <1>8, <1>10, <1>11, <1>13 DEF GroupInv

LEMMA UserKeeps ==
  ASSUME GroupInv, User
  PROVE  GroupInv'
<1>1. GroupOK /\ WorkloadsOK /\ AdaptersOK BY DEF GroupInv
<1>2. CASE Fault
  <2>1. UNCHANGED <<conf, group, wl, pg, adapter, acache, ids>> /\ pass' = None BY <1>2 DEF Fault
  <2>2. PassGoesOn BY <2>1 DEF PassGoesOn
  <2>3. /\ DOMAIN adapter' = Roles /\ ids' \in Nat /\ ids <= ids'
        /\ \A q \in Roles : SameAdapter(q)
    BY <1>1, <2>1 DEF GroupOK, AdaptersOK, AdapterOK, SameAdapter
  <2>4. AdaptersOK' /\ CopiesHonest' /\ PassOK' /\ ModeKept' BY <2>1, <2>2, <2>3, AdaptersMove DEF ModeStays
  <2>5. GroupOK' /\ WorkloadsOK' BY <1>1, <2>1 DEF GroupOK, WorkloadsOK
  <2> QED BY <2>4, <2>5 DEF GroupInv
<1>3. ASSUME NEW r \in Roles, Autoscale(r) PROVE GroupInv'
  <2>1. UNCHANGED <<conf, group, wl, pg, acache, ids, pass>> BY <1>3 DEF Autoscale
  <2>2. PICK n \in 1 .. conf.maxReplicas : adapter' = [adapter EXCEPT ![r].replicas = n] BY <1>3 DEF Autoscale
  <2>3. n \in Nat BY <2>2
  <2>4. PassGoesOn BY <2>1 DEF PassGoesOn
  <2>5. DOMAIN adapter' = Roles /\ ids' \in Nat /\ ids <= ids' BY <1>1, <2>1, <2>2 DEF GroupOK, AdaptersOK
  <2>6. \A q \in Roles : SameAdapter(q)
    BY <1>1, <2>1, <2>2, <2>3 DEF AdaptersOK, AdapterOK, SameAdapter
  <2>7. AdaptersOK' /\ CopiesHonest' /\ PassOK' /\ ModeKept' BY <2>1, <2>4, <2>5, <2>6, AdaptersMove DEF ModeStays
  <2>8. GroupOK' /\ WorkloadsOK' BY <1>1, <2>1 DEF GroupOK, WorkloadsOK
  <2> QED BY <2>7, <2>8 DEF GroupInv
<1>4. CASE Rollout \/ Replace \/ DeletePolicy \/ Invalidate
  BY <1>4, EditsKeep
<1> QED BY <1>2, <1>3, <1>4, RecreateKeeps, EditsKeep DEF User

-----------------------------------------------------------------------------
(***************************************************************************)
(* A pass of the group's controller.                                       *)
(***************************************************************************)
\* The copy a pass works with: of this group, with its discovery mode, and with
\* the bound adapters' replicas where the mode was there before.
LEMMA PassCopy ==
  ASSUME GroupInv, NEW g, g = EnsureDiscoveryConfigMode(ApplyRBGSAReplicasOverride(group))
  PROVE  /\ g.uid = group.uid /\ g.mode # ""
         /\ group.mode # "" => \A r \in g.adapters \cap g.roles \cap Roles :
              acache[r].owner = g.uid /\ acache[r].phase = "Bound" => g.replicas[r] = acache[r].replicas
<1>1. GroupOK /\ AdaptersOK BY DEF GroupInv
<1> DEFINE over == ApplyRBGSAReplicasOverride(group)
<1> DEFINE reps == [r \in Roles |->
     IF /\ r \in group.roles /\ IsScalingAdapterEnable(r, group) /\ ContainsRBGOwner(acache[r], group)
        /\ acache[r].phase = "Bound" /\ acache[r].replicas # None
     THEN acache[r].replicas ELSE group.replicas[r]]
<1>2. over = [group EXCEPT !.replicas = reps] BY DEF ApplyRBGSAReplicasOverride
<1>3. /\ over.uid = group.uid /\ over.mode = group.mode /\ over.replicas = reps
      /\ over.roles = group.roles /\ over.adapters = group.adapters
  <2> HIDE DEF over, reps
  <2> QED BY <1>1, <1>2 DEF GroupOK
<1>4. CASE group.mode # ""
  <2>1. g = over BY <1>3, <1>4 DEF EnsureDiscoveryConfigMode
  <2>2. ASSUME NEW r \in g.adapters \cap g.roles \cap Roles, acache[r].owner = g.uid, acache[r].phase = "Bound"
        PROVE  g.replicas[r] = acache[r].replicas
    <3>1. r \in group.adapters /\ r \in group.roles /\ r \in Roles /\ acache[r].owner = group.uid
      BY <1>3, <2>1, <2>2
    <3>2. acache[r].replicas # None BY <1>1, <2>2, GroupAssumption DEF AdaptersOK, AdapterOK
    <3>3. reps[r] = acache[r].replicas
      BY <2>2, <3>1, <3>2 DEF IsScalingAdapterEnable, ContainsRBGOwner
    <3> HIDE DEF over, reps
    <3> QED BY <1>3, <2>1, <3>3
  <2> HIDE DEF over, reps
  <2> QED BY <1>3, <1>4, <2>1, <2>2
<1>5. CASE group.mode = ""
  <2>1. PICK m \in {"legacy", "refine"} : g = [group EXCEPT !.mode = m]
    <3>1. g = EnsureDiscoveryConfigMode(over) OBVIOUS
    <3> HIDE DEF over, reps
    <3>2. g = [group EXCEPT !.mode = IF ShouldUseLegacyDiscoveryConfig THEN "legacy" ELSE "refine"]
      BY <1>3, <1>5, <3>1 DEF EnsureDiscoveryConfigMode
    <3> QED BY <3>2
  <2>2. g.uid = group.uid /\ g.mode = m BY <1>1, <2>1 DEF GroupOK
  <2> QED BY <1>5, <2>1, <2>2
<1> QED BY <1>4, <1>5

\* What the start of a pass does to the state the invariant speaks of.
BeginsWith(g, gang) ==
  /\ group' = [group EXCEPT !.mode = g.mode]
  /\ \/ /\ pass' = None /\ pg' = pg
        /\ UNCHANGED <<wl, adapter>> \/ Cleanup(g, HandleRevisions(g))
     \/ /\ ~PodGroupRefused(g, gang) /\ GangConfig(g, gang) # Incompatible /\ pg' = ReconcilePodGroup(g, gang)
        /\ UNCHANGED <<wl, adapter>>
        /\ \/ pass' = None
           \/ \E rolling, targets, todo :
                pass' = [g |-> g, adapters |-> acache, gang |-> gang, rolling |-> rolling, failed |-> FALSE,
                         targets |-> targets, todo |-> todo]

LEMMA BeginEffect ==
  ASSUME Begin
  PROVE  /\ UNCHANGED <<conf, acache, ids, events>> /\ pass = None
         /\ \/ pass' = None /\ UNCHANGED <<group, wl, pg, adapter>>
            \/ \E g, gang : /\ g = EnsureDiscoveryConfigMode(ApplyRBGSAReplicasOverride(group))
                            /\ BeginsWith(g, gang)
<1>1. UNCHANGED <<conf, acache, ids, events>> /\ pass = None BY Zenon DEF Begin
<1>2. PICK g \in {EnsureDiscoveryConfigMode(ApplyRBGSAReplicasOverride(group))} :
      \E statuses \in {[r \in Roles |-> ConstructRoleStatus(r, g)]} : StartPass(g, statuses, Gang(g))
  BY Zenon DEF Begin
<1>3. (pass' = None /\ UNCHANGED <<group, wl, pg, adapter>>) \/ BeginsWith(g, Gang(g))
  BY <1>2, Zenon DEF StartPass, BeginsWith, EndGroupPass
<1> QED BY <1>1, <1>2, <1>3, Zenon

LEMMA BeginKeeps ==
  ASSUME GroupInv, Begin
  PROVE  GroupInv'
<1>1. GroupOK /\ WorkloadsOK /\ AdaptersOK /\ CopiesHonest /\ ModeKept BY DEF GroupInv
<1>2. UNCHANGED <<conf, acache, ids>> /\ pass = None BY BeginEffect
<1>3. CASE pass' = None /\ UNCHANGED <<group, wl, pg, adapter>>
  <2>1. pass' = pass BY <1>2, <1>3
  <2>2. WorkloadsOK' BY <1>1, <1>3 DEF WorkloadsOK
  <2> QED BY <1>2, <1>3, <2>1, <2>2, WorkloadsMove
<1>4. ASSUME NEW g, NEW gang, g = EnsureDiscoveryConfigMode(ApplyRBGSAReplicasOverride(group)), BeginsWith(g, gang)
      PROVE  GroupInv'
  <2>1. /\ g.uid = group.uid /\ g.mode # ""
        /\ group.mode # "" => \A r \in g.adapters \cap g.roles \cap Roles :
             acache[r].owner = g.uid /\ acache[r].phase = "Bound" => g.replicas[r] = acache[r].replicas
    BY <1>4, PassCopy
  <2>2. /\ DOMAIN group' = DOMAIN group /\ group'.uid = group.uid /\ group'.replicas = group.replicas
        /\ group'.mode = g.mode
    <3>1. group' = [group EXCEPT !.mode = g.mode] BY <1>4 DEF BeginsWith
    <3> QED BY <1>1, <3>1 DEF GroupOK
  <2>3. GroupOK' BY <1>1, <1>2, <2>2 DEF GroupOK
  <2>4. "owner" \in DOMAIN pg'
    <3>1. pg' \in {pg, NoPodGroup, [owner |-> g.uid, spec |-> DesiredGroup(g, gang)]}
      BY <1>4 DEF BeginsWith, ReconcilePodGroup
    <3> QED BY <1>1, <3>1 DEF WorkloadsOK, NoPodGroup
  <2>5. WorkloadsOK'
    <3>1. wl' = wl \/ wl' = [r \in Roles |-> IF r \notin g.roles /\ wl[r].owner = g.uid THEN NoWorkload ELSE wl[r]]
      BY <1>4 DEF BeginsWith, Cleanup
    <3> QED BY <1>1, <2>4, <3>1 DEF WorkloadsOK, NoWorkload
  <2>6. \/ adapter' = adapter
        \/ adapter' = [r \in Roles |-> IF r \notin g.roles /\ ContainsRBGOwner(acache[r], g) THEN NoAdapter ELSE adapter[r]]
    BY <1>4 DEF BeginsWith, Cleanup, OrphanedAdapters
  <2>7. /\ DOMAIN adapter' = Roles /\ ids' \in Nat /\ ids <= ids'
        /\ \A r \in Roles : SameAdapter(r) \/ AdapterGone(r)
    BY <1>1, <1>2, <2>2, <2>6 DEF GroupOK, AdaptersOK, AdapterOK, SameAdapter, AdapterGone
  <2>8. CASE pass' = None
    <3>0. ModeStays BY <2>1, <2>2 DEF ModeStays
    <3>1. PassGoesOn BY <2>8 DEF PassGoesOn
    <3>2. AdaptersOK' /\ CopiesHonest' /\ PassOK' /\ ModeKept' BY <1>2, <2>2, <2>7, <3>0, <3>1, AdaptersMove
    <3> QED BY <2>3, <2>5, <3>2 DEF GroupInv
  <2>9. CASE pass' # None
    <3>1. adapter' = adapter BY <2>9 , <1>4 DEF BeginsWith
    <3>2. PICK rolling, targets, todo :
            pass' = [g |-> g, adapters |-> acache, gang |-> gang, rolling |-> rolling, failed |-> FALSE,
                     targets |-> targets, todo |-> todo]
      BY <2>9, <1>4 DEF BeginsWith
    <3>3. {"g", "adapters"} \subseteq DOMAIN pass' /\ pass'.g = g /\ pass'.adapters = acache BY <3>2
    <3>4. AdaptersOK' /\ CopiesHonest' BY <1>1, <1>2, <2>2, <3>1 DEF AdaptersOK, AdapterOK, CopiesHonest
    <3>5. PassOK'
      <4>1. pass'.g.uid = group.uid /\ group'.uid = group.uid BY <2>1, <2>2, <3>3
      <4>2. \A r \in Roles : pass'.adapters[r].owner \in Int /\ pass'.adapters[r].owner <= group.uid
        BY <1>1, <3>3 DEF AdaptersOK, AdapterOK
      <4> QED BY <1>1, <3>3, <4>1, <4>2 DEF PassOK, GroupOK
    <3>6. "replace" \notin conf.events => Overridden(pass') BY <1>1, <2>1, <3>3 DEF ModeKept, Overridden
    <3>7. ModeKept' BY <1>2, <2>1, <2>2, <3>6 DEF ModeKept, Overridden
    <3> QED BY <2>3, <2>5, <3>4, <3>5, <3>7 DEF GroupInv
  <2> QED BY <2>8, <2>9
<1> QED BY <1>3, <1>4, BeginEffect

\* The outcomes of a role: nothing, or the workload is applied, and its adapter
\* is left, deleted or replaced by one of the pass's group.
LEMMA ApplyEffect ==
  ASSUME GroupInv, NEW r \in Roles, ApplyRole(r)
  PROVE  /\ UNCHANGED <<conf, group, pg, acache, events>> /\ pass # None /\ PassGoesOn
         /\ \/ wl' = wl
            \/ wl' = [wl EXCEPT ![r] = AppliedWorkload(r)] /\ (wl[r].owner = Absent \/ Claimable(wl[r].owner, pass.g))
         /\ \/ adapter' \in {adapter, [adapter EXCEPT ![r] = NoAdapter]} /\ ids' = ids
            \/ adapter' = [adapter EXCEPT ![r] = CreatedAdapter(pass.g)] /\ ids' = ids + 1
<1>1. UNCHANGED <<conf, group, pg, acache, events>> /\ pass # None BY DEF ApplyRole
<1>2. pass' = None \/ \E f : pass' = NextLevel(r, f) BY Zenon DEF ApplyRole, EndGroupPass
<1>3. PassGoesOn
  <2>1. {"g", "adapters"} \subseteq DOMAIN pass BY <1>1 DEF GroupInv, PassOK
  <2>2. pass' = None \/ \E todo, f : pass' = [pass EXCEPT !.todo = todo, !.failed = f] BY <1>2, Zenon DEF NextLevel
  <2>3. CASE pass' # None
    <3>1. PICK todo, f : pass' = [pass EXCEPT !.todo = todo, !.failed = f] BY <2>2, <2>3
    <3>2. {"g", "adapters"} \subseteq DOMAIN pass' /\ pass'.g = pass.g /\ pass'.adapters = pass.adapters BY <2>1, <3>1
    <3> QED BY <1>1, <3>2 DEF PassGoesOn
  <2> QED BY <2>3 DEF PassGoesOn
<1>4. \/ wl' = wl
      \/ wl' = [wl EXCEPT ![r] = AppliedWorkload(r)] /\ (wl[r].owner = Absent \/ Claimable(wl[r].owner, pass.g))
  BY Zenon DEF ApplyRole
<1>5. \/ adapter' \in {adapter, [adapter EXCEPT ![r] = NoAdapter]} /\ ids' = ids
      \/ adapter' = [adapter EXCEPT ![r] = CreatedAdapter(pass.g)] /\ ids' = ids + 1
  BY Zenon DEF ApplyRole, ReconcileScalingAdapter
<1> QED BY <1>1, <1>3, <1>4, <1>5

\* The workload that is applied has the pass's group as its owner and, without
\* a coordinated target, the replicas of the pass's copy.
LEMMA AppliedOK ==
  ASSUME NEW r, {"owner", "replicas"} \subseteq DOMAIN wl[r]
  PROVE  /\ {"owner", "replicas"} \subseteq DOMAIN AppliedWorkload(r)
         /\ AppliedWorkload(r).owner = pass.g.uid
         /\ r \notin DOMAIN pass.targets => AppliedWorkload(r).replicas = pass.g.replicas[r]
<1> DEFINE n == IF r \in DOMAIN pass.targets THEN pass.targets[r] ELSE pass.g.replicas[r]
<1>1. PICK t, p, x : AppliedWorkload(r) \in
         {[wl[r] EXCEPT !.owner = pass.g.uid, !.tmpl = t, !.replicas = n, !.partition = p, !.gang = x],
          [[wl[r] EXCEPT !.owner = pass.g.uid, !.tmpl = t, !.replicas = n, !.partition = p, !.gang = x] EXCEPT !.seen = FALSE]}
  BY Zenon DEF AppliedWorkload
<1>2. r \notin DOMAIN pass.targets => n = pass.g.replicas[r] OBVIOUS
<1> HIDE DEF n
<1> QED BY <1>1, <1>2

LEMMA ApplyRoleKeeps ==
  ASSUME GroupInv, NEW r \in Roles, ApplyRole(r)
  PROVE  GroupInv'
<1>1. GroupOK /\ WorkloadsOK /\ AdaptersOK /\ PassOK BY DEF GroupInv
<1>2. UNCHANGED <<conf, group, pg, acache>> /\ pass # None /\ PassGoesOn BY ApplyEffect
<1>3. WorkloadsOK'
  <2>1. wl' = wl \/ wl' = [wl EXCEPT ![r] = AppliedWorkload(r)] BY ApplyEffect
  <2>2. {"owner", "replicas"} \subseteq DOMAIN AppliedWorkload(r) BY <1>1, AppliedOK DEF WorkloadsOK
  <2> QED BY <1>1, <1>2, <2>1, <2>2 DEF WorkloadsOK
<1>4. /\ DOMAIN adapter' = Roles /\ ids' \in Nat /\ ids <= ids'
      /\ \A q \in Roles : SameAdapter(q) \/ OtherAdapter(q) \/ AdapterGone(q)
  <2>1. group.uid \in Nat /\ ids \in Nat /\ pass.g.uid \in Nat /\ pass.g.uid <= group.uid
    BY <1>1, <1>2 DEF GroupOK, PassOK
  <2>2. DOMAIN adapter = Roles /\ \A q \in Roles : AdapterOK(adapter[q]) BY <1>1 DEF AdaptersOK
  <2>3. CASE adapter' \in {adapter, [adapter EXCEPT ![r] = NoAdapter]} /\ ids' = ids
    BY <1>2, <2>1, <2>2, <2>3 DEF SameAdapter, AdapterGone, AdapterOK
  <2>4. CASE adapter' = [adapter EXCEPT ![r] = CreatedAdapter(pass.g)] /\ ids' = ids + 1
    <3>1. \A q \in Roles \ {r} : SameAdapter(q) BY <1>2, <2>1, <2>2, <2>4 DEF SameAdapter, AdapterOK
    <3>2. /\ {"owner", "id", "replicas", "phase"} \subseteq DOMAIN CreatedAdapter(pass.g)
          /\ CreatedAdapter(pass.g).owner = pass.g.uid /\ CreatedAdapter(pass.g).id = ids + 1
          /\ CreatedAdapter(pass.g).phase # "Bound"
      BY DEF CreatedAdapter, NoAdapter
    <3>3. OtherAdapter(r)
      <4>1. adapter'[r] = CreatedAdapter(pass.g) BY <2>2, <2>4
      <4>2. AdapterOK(adapter[r])' BY <1>2, <2>1, <2>4, <3>2, <4>1 DEF AdapterOK
      <4> QED BY <1>2, <2>1, <3>2, <4>1, <4>2 DEF OtherAdapter
    <3> QED BY <2>1, <2>2, <2>4, <3>1, <3>3
  <2> QED BY <2>3, <2>4, ApplyEffect
<1>5. AdaptersOK' /\ CopiesHonest' /\ PassOK' /\ ModeKept' BY <1>2, <1>4, AdaptersMove DEF ModeStays
<1>6. GroupOK' BY <1>1, <1>2, <1>4 DEF GroupOK
<1> QED BY <1>3, <1>5, <1>6 DEF GroupInv

LEMMA FinishKeeps ==
  ASSUME GroupInv, Finish
  PROVE  GroupInv'
<1>1. GroupOK /\ WorkloadsOK /\ AdaptersOK BY DEF GroupInv
<1>2. UNCHANGED <<conf, group, pg, acache, ids>> /\ pass' = None /\ Cleanup(pass.g, revs)
  BY Zenon DEF Finish, EndGroupPass
<1>3. /\ wl' = [r \in Roles |-> IF r \notin pass.g.roles /\ wl[r].owner = pass.g.uid THEN NoWorkload ELSE wl[r]]
      /\ adapter' = [r \in Roles |-> IF r \notin pass.g.roles /\ ContainsRBGOwner(acache[r], pass.g)
                                     THEN NoAdapter ELSE adapter[r]]
  BY <1>2 DEF Cleanup, OrphanedAdapters
<1>4. WorkloadsOK' BY <1>1, <1>2, <1>3 DEF WorkloadsOK, NoWorkload
<1>5. /\ DOMAIN adapter' = Roles /\ ids' \in Nat /\ ids <= ids'
      /\ \A q \in Roles : SameAdapter(q) \/ AdapterGone(q)
  BY <1>1, <1>2, <1>3 DEF GroupOK, AdaptersOK, AdapterOK, SameAdapter, AdapterGone
<1>6. PassGoesOn BY <1>2 DEF PassGoesOn
<1>7. AdaptersOK' /\ CopiesHonest' /\ PassOK' /\ ModeKept' BY <1>2, <1>5, <1>6, AdaptersMove DEF ModeStays
<1>8. GroupOK' BY <1>1, <1>2 DEF GroupOK
<1> QED BY <1>4, <1>7, <1>8 DEF GroupInv

-----------------------------------------------------------------------------
(***************************************************************************)
(* The theorems.                                                           *)
(***************************************************************************)
LEMMA GroupStep == GroupInv /\ [NextGroup]_groupVars => GroupInv'
<1> SUFFICES ASSUME GroupInv, [NextGroup]_groupVars PROVE GroupInv' OBVIOUS
<1>1. CASE UNCHANGED groupVars
  <2>1. UNCHANGED <<conf, group, wl, pg, adapter, acache, ids, pass>> BY <1>1 DEF groupVars
  <2>2. WorkloadsOK' BY <2>1 DEF GroupInv, WorkloadsOK
  <2> QED BY <2>1, <2>2, WorkloadsMove
<1>2. CASE Pass BY <1>2, BeginKeeps, ApplyRoleKeeps, FinishKeeps DEF Pass
<1>3. CASE Adapters BY <1>3, AdapterPassKeeps DEF Adapters
<1>4. CASE World BY <1>4, WorldKeeps
<1>5. CASE User BY <1>5, UserKeeps
<1> QED BY <1>1, <1>2, <1>3, <1>4, <1>5 DEF NextGroup

\* Every copy that names the living group is of an adapter of it, a pass works
\* for this group or a predecessor, and it has the bound adapters' replicas.
THEOREM GroupInvariant == GroupSpec => []GroupInv
BY GroupInit, GroupStep, PTL DEF GroupSpec

LEMMA UserCounts == User => events' = events + 1
BY Zenon DEF User, Rollout, Replace, DeletePolicy, Invalidate, Fault, Recreate, Scale, DropReplicas, RemoveRole, AddRole,
   DisableAdapter, Autoscale, Happens

\* The number of events is one.
EventsOK == events \in Nat
LEMMA EventsCounted == GroupSpec => []EventsOK
<1>1. InitGroup => EventsOK
  <2>1. InitGroup => events = 0 BY Zenon DEF InitGroup
  <2> QED BY <2>1 DEF EventsOK
<1>2. EventsOK /\ [NextGroup]_groupVars => EventsOK'
  <2> SUFFICES ASSUME EventsOK, [NextGroup]_groupVars PROVE EventsOK' OBVIOUS
  <2>1. CASE User BY <2>1, UserCounts DEF EventsOK
  <2>2. CASE Pass \/ Adapters \/ World
    <3>1. UNCHANGED events
      BY <2>2, Zenon DEF Pass, Begin, ApplyRole, Finish, Adapters, AdapterPass, World, CollectPodGroup, CollectRest,
         InstanceStep, SyncStatus, CollectWorkload, CatchUp
    <3> QED BY <3>1 DEF EventsOK
  <2>3. CASE UNCHANGED groupVars BY <2>3 DEF groupVars, EventsOK
  <2> QED BY <2>1, <2>2, <2>3 DEF NextGroup
<1> QED BY <1>1, <1>2, PTL DEF GroupSpec

\* An adapter that keeps its owner and number, one that goes and one that is new.
LEMMA NotAdopted ==
  ASSUME GroupInv, NEW r \in Roles, Gone(adapter[r].owner),
         \/ adapter'[r].owner = adapter[r].owner
         \/ adapter'[r] = NoAdapter
         \/ adapter'[r].id = ids + 1
  PROVE  adapter'[r].owner = adapter[r].owner \/ adapter'[r].id # adapter[r].id
<1>1. AdapterOK(adapter[r]) /\ ids \in Nat BY DEF GroupInv, AdaptersOK, GroupOK
<1>2. adapter[r].id \in Nat /\ adapter[r].id > 0 /\ adapter[r].id <= ids BY <1>1 DEF AdapterOK, Gone
<1>3. adapter'[r] = NoAdapter => adapter'[r].id \in {0} BY NobodysAdapter
<1> QED BY <1>1, <1>2, <1>3

\* Steps of the environment.
LEMMA WorldInheritsNothing ==
  ASSUME GroupInv, World
  PROVE  NothingInherited
<1>1. WorkloadsOK /\ AdaptersOK BY DEF GroupInv
<1>2. CASE CollectPodGroup
  <2>1. UNCHANGED <<group, wl, adapter>> /\ pg' = NoPodGroup BY <1>2 DEF CollectPodGroup
  <2>2. pg'.owner = Absent BY <2>1 DEF NoPodGroup
  <2> QED BY <2>1, <2>2 DEF NothingInherited
<1>3. CASE CollectRest
  <2>1. UNCHANGED <<group, wl, pg>> BY <1>3 DEF CollectRest
  <2>2. adapter' = [q \in Roles |-> IF Gone(adapter[q].owner) THEN NoAdapter ELSE adapter[q]] BY <1>3 DEF CollectRest
  <2>3. \A r \in Roles : Gone(adapter[r].owner) => adapter'[r].id # adapter[r].id
    <3> SUFFICES ASSUME NEW r \in Roles, Gone(adapter[r].owner) PROVE adapter'[r].id # adapter[r].id OBVIOUS
    <3>1. adapter'[r] = NoAdapter BY <2>2
    <3>2. adapter[r].id \in Nat /\ adapter[r].id > 0 BY <1>1 DEF AdaptersOK, AdapterOK, Gone
    <3>3. adapter'[r].id \in {0} BY <3>1, NobodysAdapter
    <3> QED BY <3>2, <3>3
  <2> QED BY <2>1, <2>3 DEF NothingInherited
<1>4. ASSUME NEW r \in Roles, InstanceStep(r) PROVE NothingInherited
  BY <1>4 DEF InstanceStep, NothingInherited
<1>5. ASSUME NEW r \in Roles, SyncStatus(r) PROVE NothingInherited
  <2>1. UNCHANGED <<group, pg, adapter>> /\ wl' = [wl EXCEPT ![r].seen = TRUE, ![r].status = Observed(r)]
    BY <1>5 DEF SyncStatus
  <2>2. \A q \in Roles : wl'[q].owner = wl[q].owner BY <1>1, <2>1 DEF WorkloadsOK
  <2> QED BY <2>1, <2>2 DEF NothingInherited
<1>6. ASSUME NEW r \in Roles, CollectWorkload(r) PROVE NothingInherited
  <2>1. UNCHANGED <<group, pg, adapter>> /\ wl' = [wl EXCEPT ![r] = NoWorkload] BY <1>6 DEF CollectWorkload
  <2>2. \A q \in Roles : wl'[q].owner \in {wl[q].owner, Absent} BY <1>1, <2>1 DEF WorkloadsOK, NoWorkload
  <2> QED BY <2>1, <2>2 DEF NothingInherited
<1>7. ASSUME NEW r \in Roles, CatchUp(r) PROVE NothingInherited
  BY <1>7 DEF CatchUp, NothingInherited
<1> QED BY <1>2, <1>3, <1>4, <1>5, <1>6, <1>7 DEF World

\* Steps of the users, which may change the replicas themselves.
LEMMA UserInheritsNothing ==
  ASSUME GroupInv, EventsOK, User
  PROVE  NothingInherited
<1>1. WorkloadsOK /\ AdaptersOK BY DEF GroupInv
<1>2. events' # events BY UserCounts DEF EventsOK
<1>3. CASE UNCHANGED <<wl, adapter, pg>> BY <1>2, <1>3 DEF NothingInherited
<1>4. ASSUME NEW b \in BOOLEAN, Recreate(b) PROVE NothingInherited
  <2> DEFINE Left(owner) == IF b /\ owner = group.uid THEN Orphan ELSE owner
  <2>1. /\ wl' = [r \in Roles |-> [wl[r] EXCEPT !.owner = Left(@)]]
        /\ adapter' = [r \in Roles |-> [adapter[r] EXCEPT !.owner = Left(@)]]
        /\ pg' = [pg EXCEPT !.owner = Left(@)]
    BY <1>4 DEF Recreate
  <2>2. \A o : Gone(o) => Left(o) = o BY DEF Gone
  <2> HIDE DEF Left
  <2>3. /\ \A r \in Roles : wl'[r].owner = Left(wl[r].owner) /\ adapter'[r].owner = Left(adapter[r].owner)
        /\ pg'.owner = Left(pg.owner)
    BY <1>1, <2>1 DEF WorkloadsOK, AdaptersOK, AdapterOK
  <2> QED BY <1>2, <2>2, <2>3 DEF NothingInherited
<1>5. ASSUME NEW r \in Roles, Autoscale(r) PROVE NothingInherited
  <2>1. UNCHANGED <<wl, pg>> BY <1>5 DEF Autoscale
  <2>2. PICK n : adapter' = [adapter EXCEPT ![r].replicas = n] BY <1>5 DEF Autoscale
  <2>3. \A q \in Roles : adapter'[q].owner = adapter[q].owner BY <1>1, <2>2 DEF AdaptersOK, AdapterOK
  <2> QED BY <1>2, <2>1, <2>3 DEF NothingInherited
<1> QED
  BY <1>3, <1>4, <1>5 DEF User, Fault, Rollout, Replace, DeletePolicy, Invalidate, Scale, DropReplicas, RemoveRole,
     AddRole, DisableAdapter, SpecChange

LEMMA InheritanceStep == GroupInv /\ EventsOK /\ [NextGroup]_groupVars => [NothingInherited]_groupVars
<1> SUFFICES ASSUME GroupInv, EventsOK, NextGroup PROVE NothingInherited BY DEF groupVars
<1>1. GroupOK /\ WorkloadsOK /\ AdaptersOK /\ CopiesHonest /\ PassOK BY DEF GroupInv
<1>3. CASE Begin
  <2>1. PICK gang, g : (pass' = None /\ UNCHANGED <<group, wl, pg, adapter>>)
           \/ (g = EnsureDiscoveryConfigMode(ApplyRBGSAReplicasOverride(group)) /\ BeginsWith(g, gang))
    BY <1>3, BeginEffect
  <2>2. CASE UNCHANGED <<group, wl, pg, adapter>> BY <2>2 DEF NothingInherited
  <2>3. CASE g = EnsureDiscoveryConfigMode(ApplyRBGSAReplicasOverride(group)) /\ BeginsWith(g, gang)
    <3>1. g.uid = group.uid BY <2>3, PassCopy
    <3>2. group'.replicas = group.replicas
      <4>1. group' = [group EXCEPT !.mode = g.mode] BY <2>3 DEF BeginsWith
      <4> QED BY <1>1, <4>1 DEF GroupOK
    <3>3. ASSUME NEW r \in Roles, Gone(wl[r].owner) PROVE wl'[r].owner \in {wl[r].owner, Absent}
      <4>1. wl' = wl \/ wl' = [q \in Roles |-> IF q \notin g.roles /\ wl[q].owner = g.uid THEN NoWorkload ELSE wl[q]]
        BY <2>3 DEF BeginsWith, Cleanup
      <4> QED BY <3>1, <3>3, <4>1 DEF Gone
    <3>4. ASSUME NEW r \in Roles, Gone(adapter[r].owner)
          PROVE  adapter'[r].owner = adapter[r].owner \/ adapter'[r].id # adapter[r].id
      <4>1. adapter'[r] \in {adapter[r], NoAdapter} BY <2>3 DEF BeginsWith, Cleanup
      <4> QED BY <3>4, <4>1, NotAdopted
    <3>5. ASSUME Gone(pg.owner) PROVE pg'.owner \in {pg.owner, Absent}
      <4>1. CASE pg' = pg BY <4>1
      <4>2. CASE pg' # pg
        <5>1. ~PodGroupRefused(g, gang) /\ GangConfig(g, gang) # Incompatible /\ pg' = ReconcilePodGroup(g, gang)
          BY <2>3, <4>2 DEF BeginsWith
        <5>2. PodGroupForeign BY <3>5 DEF PodGroupForeign, Gone
        <5>3. gang = None BY <5>1, <5>2 DEF PodGroupRefused
        <5>4. pg' = NoPodGroup BY <4>2, <5>1, <5>3 DEF ReconcilePodGroup
        <5> QED BY <5>4 DEF NoPodGroup
      <4> QED BY <4>1, <4>2
    <3> QED BY <3>2, <3>3, <3>4, <3>5 DEF NothingInherited
  <2> QED BY <2>1, <2>2, <2>3
<1>4. ASSUME NEW r \in Roles, ApplyRole(r) PROVE NothingInherited
  <2>1. UNCHANGED <<group, pg>> BY <1>4, ApplyEffect
  <2>2. ASSUME NEW q \in Roles, Gone(wl[q].owner) PROVE wl'[q].owner \in {wl[q].owner, Absent}
    <3>1. CASE wl' = wl BY <3>1
    <3>2. CASE /\ wl' = [wl EXCEPT ![r] = AppliedWorkload(r)]
               /\ wl[r].owner = Absent \/ Claimable(wl[r].owner, pass.g)
      <4>1. CASE q # r BY <1>1, <3>2, <4>1 DEF WorkloadsOK
      <4>2. CASE q = r
        <5>1. wl[r].owner = pass.g.uid BY <2>2, <3>2, <4>2 DEF Gone, Claimable
        <5>2. wl'[r] = AppliedWorkload(r) BY <1>1, <3>2 DEF WorkloadsOK
        <5> QED BY <1>1, <4>2, <5>1, <5>2, AppliedOK DEF WorkloadsOK
      <4> QED BY <4>1, <4>2
    <3> QED BY <1>4, <3>1, <3>2, ApplyEffect
  <2>3. ASSUME NEW q \in Roles, Gone(adapter[q].owner)
        PROVE  adapter'[q].owner = adapter[q].owner \/ adapter'[q].id # adapter[q].id
    <3>1. CreatedAdapter(pass.g).id = ids + 1 BY DEF CreatedAdapter, NoAdapter
    <3>2. adapter'[q] \in {adapter[q], NoAdapter, CreatedAdapter(pass.g)}
      BY <1>1, <1>4, ApplyEffect DEF AdaptersOK
    <3> QED BY <2>3, <3>1, <3>2, NotAdopted
  <2> QED BY <2>1, <2>2, <2>3 DEF NothingInherited
<1>5. CASE Finish
  <2>1. UNCHANGED <<group, pg>> /\ Cleanup(pass.g, revs) BY <1>5 DEF Finish
  <2>2. \A r \in Roles : wl'[r] \in {wl[r], NoWorkload} /\ adapter'[r] \in {adapter[r], NoAdapter} BY <2>1 DEF Cleanup
  <2>3. \A r \in Roles : wl'[r].owner \in {wl[r].owner, Absent} BY <2>2 DEF NoWorkload
  <2>4. ASSUME NEW r \in Roles, Gone(adapter[r].owner)
        PROVE  adapter'[r].owner = adapter[r].owner \/ adapter'[r].id # adapter[r].id
    BY <2>2, <2>4, NotAdopted
  <2> QED BY <2>1, <2>3, <2>4 DEF NothingInherited
<1>6. ASSUME NEW r \in Roles, AdapterPass(r) PROVE NothingInherited
  <2>1. UNCHANGED <<wl, pg>> BY <1>6 DEF AdapterPass
  <2>2. ASSUME NEW q \in Roles, Gone(adapter[q].owner)
        PROVE  adapter'[q].owner = adapter[q].owner \/ adapter'[q].id # adapter[q].id
    <3>1. DOMAIN adapter = Roles /\ AdapterOK(adapter[r]) BY <1>1 DEF AdaptersOK
    <3>2. CASE SkipAdapter(r) \/ ScaleRole(r) BY <3>2 DEF SkipAdapter, ScaleRole
    <3>3. CASE UnbindAdapter(r)
      <4>1. adapter' \in {adapter, [adapter EXCEPT ![r].phase = "NotBound"]} BY <3>3 DEF UnbindAdapter
      <4> QED BY <3>1, <4>1 DEF AdapterOK
    <3>4. CASE BindAdapter(r)
      <4>1. \/ \E n, p : adapter' = [adapter EXCEPT ![r] = [owner |-> Orphan, id |-> ids + 1, replicas |-> n, phase |-> p]]
            \/ \E n, p : adapter' = [adapter EXCEPT ![r].replicas = n, ![r].phase = p]
        BY <3>4, Zenon DEF BindAdapter
      <4>2. adapter'[q].owner = adapter[q].owner \/ adapter'[q].id = ids + 1
        <5>1. ASSUME NEW n, NEW p, adapter' = [adapter EXCEPT ![r] =
                       [owner |-> Orphan, id |-> ids + 1, replicas |-> n, phase |-> p]]
              PROVE  adapter'[q] = adapter[q] \/ adapter'[q].id = ids + 1
          BY <3>1, <5>1
        <5>2. ASSUME NEW n, NEW p, adapter' = [adapter EXCEPT ![r].replicas = n, ![r].phase = p]
              PROVE  adapter'[q].owner = adapter[q].owner
          BY <3>1, <5>2 DEF AdapterOK
        <5> QED BY <4>1, <5>1, <5>2
      <4> QED BY <2>2, <4>2, NotAdopted
    <3> QED BY <1>6, <3>2, <3>3, <3>4 DEF AdapterPass
  <2>3. ASSUME NEW q \in Roles, group'.replicas[q] # group.replicas[q]
        PROVE  acache[q].owner = group.uid
    <3>1. ScaleRole(r) /\ group' # group
      BY <1>6, <2>3 DEF AdapterPass, SkipAdapter, UnbindAdapter, BindAdapter
    <3>2. Managed(r) /\ group' = [group EXCEPT !.replicas[r] = acache[r].replicas] BY <3>1 DEF ScaleRole
    <3>3. q = r BY <1>1, <2>3, <3>2 DEF GroupOK
    <3> QED BY <3>2, <3>3 DEF Managed, ContainsRBGOwner
  <2> QED BY <1>1, <2>1, <2>2, <2>3 DEF NothingInherited, CopiesHonest
<1> QED BY <1>3, <1>4, <1>5, <1>6, WorldInheritsNothing, UserInheritsNothing DEF NextGroup, Pass, Adapters

\* NoInheritance, for every set of roles, every scenario and any number of
\* events: what a deleted group left under its name is never taken over, and the
\* adapter controller writes to the group only what an adapter of it asked.
THEOREM NothingOfAPredecessor == GroupSpec => NoInheritance
BY GroupInvariant, EventsCounted, InheritanceStep, PTL DEF GroupSpec, NoInheritance

LEMMA ChurnStep ==
  ASSUME GroupInv, [NextGroup]_groupVars, NEW r \in Roles, "replace" \notin conf.events, ServedAsAsked(r)
  PROVE  wl'[r].replicas = wl[r].replicas
<1>1. GroupOK /\ WorkloadsOK /\ AdaptersOK /\ PassOK /\ ModeKept BY DEF GroupInv
<1>2. /\ pass # None /\ r \in pass.g.adapters \cap pass.g.roles /\ r \notin DOMAIN pass.targets
      /\ wl[r].owner = group.uid /\ adapter[r].owner = group.uid /\ adapter[r].phase = "Bound"
      /\ pass.adapters[r] = adapter[r] /\ wl[r].replicas = adapter[r].replicas
  BY DEF ServedAsAsked
<1>3. pass.g.uid = group.uid
  <2>1. pass.adapters[r].owner = group.uid BY <1>2
  <2> QED BY <1>1, <1>2, <2>1 DEF PassOK, GroupOK
<1>4. pass.g.replicas[r] = wl[r].replicas
  <2>1. Overridden(pass) BY <1>1, <1>2 DEF ModeKept
  <2> QED BY <1>2, <1>3, <2>1 DEF Overridden
<1>5. CASE UNCHANGED wl BY <1>5
<1>6. ASSUME NEW q \in Roles, ApplyRole(q) PROVE wl'[r].replicas = wl[r].replicas
  <2>1. wl' = wl \/ wl' = [wl EXCEPT ![q] = AppliedWorkload(q)] BY <1>6, ApplyEffect
  <2>2. AppliedWorkload(r).replicas = wl[r].replicas BY <1>1, <1>2, <1>4, AppliedOK DEF WorkloadsOK
  <2> QED BY <1>1, <2>1, <2>2 DEF WorkloadsOK
<1>7. CASE Finish
  <2>1. wl' = [q \in Roles |-> IF q \notin pass.g.roles /\ wl[q].owner = pass.g.uid THEN NoWorkload ELSE wl[q]]
    BY <1>7 DEF Finish, Cleanup
  <2> QED BY <1>2, <2>1
<1>8. ASSUME NEW q \in Roles, SyncStatus(q) PROVE wl'[r].replicas = wl[r].replicas
  <2>1. wl' = [wl EXCEPT ![q].seen = TRUE, ![q].status = Observed(q)] BY <1>8 DEF SyncStatus
  <2> QED BY <1>1, <2>1 DEF WorkloadsOK
<1>9. ASSUME NEW q \in Roles, CollectWorkload(q) PROVE wl'[r].replicas = wl[r].replicas
  <2>1. wl' = [wl EXCEPT ![q] = NoWorkload] /\ wl[q].owner # group.uid BY <1>9 DEF CollectWorkload, Gone
  <2> QED BY <1>1, <1>2, <2>1 DEF WorkloadsOK
<1>10. ASSUME NEW b \in BOOLEAN, Recreate(b) PROVE wl'[r].replicas = wl[r].replicas
  <2>1. wl' = [q \in Roles |-> [wl[q] EXCEPT !.owner = IF b /\ @ = group.uid THEN Orphan ELSE @]] BY <1>10 DEF Recreate
  <2>2. PICK o : o = IF b /\ wl[r].owner = group.uid THEN Orphan ELSE wl[r].owner OBVIOUS
  <2>3. wl'[r] = [wl[r] EXCEPT !.owner = o] BY <2>1, <2>2
  <2> QED BY <1>1, <2>3 DEF WorkloadsOK
<1>11. ~Begin BY <1>2 DEF Begin
<1>12. CASE groupVars' = groupVars BY <1>12 DEF groupVars
<1>13. CASE Adapters BY <1>5, <1>13 DEF Adapters, AdapterPass
<1>14. CASE World
  BY <1>5, <1>8, <1>9, <1>14 DEF World, CollectPodGroup, CollectRest, InstanceStep, CatchUp
<1>15. CASE User
  BY <1>5, <1>10, <1>15 DEF User, Fault, Rollout, Replace, DeletePolicy, Invalidate, Scale, DropReplicas, RemoveRole,
     AddRole, DisableAdapter, Autoscale, SpecChange
<1> QED BY <1>6, <1>7, <1>11, <1>12, <1>13, <1>14, <1>15 DEF NextGroup, Pass

\* NoChurn, for every set of roles and every scenario without a replace: a pass
\* never takes a workload away from the replicas its bound adapter asks for.
THEOREM UpgradeKeepsAutoscaling == GroupSpec => NoChurn
<1>1. GroupInv /\ [NextGroup]_groupVars =>
        [\A r \in Roles : "replace" \notin conf.events /\ ServedAsAsked(r) => wl'[r].replicas = wl[r].replicas]_wl
  BY ChurnStep
<1> QED BY <1>1, GroupInvariant, PTL DEF GroupSpec, NoChurn
=============================================================================
