---------------------- MODULE StatefulInstanceSetProofs ----------------------
(***************************************************************************)
(* Theorems about StatefulInstanceSet, for every value of its constants:   *)
(* its type invariant, and that a partition pins the ordinals below it.    *)
(***************************************************************************)
EXTENDS StatefulInstanceSet, TLAPS, FiniteSetTheorems

(***************************************************************************)
(* What the sizing helpers return.                                         *)
(***************************************************************************)
\* A scaled int-or-percent is an integer.
LEMMA ScaledType ==
  ASSUME NEW v \in IntOrPercent, NEW total \in Int, NEW up
  PROVE  Scaled(v, total, up) \in Int
<1>1. v.n \in Int BY DEF IntOrPercent
<1>2. v.n * total \in Int BY <1>1
<1>3. \A k \in Int : (v.n * total + k) \div 100 \in Int BY <1>2
<1> QED BY <1>1, <1>3 DEF Scaled

\* computePartition clamps the partition to 0 .. replicas, and a partition
\* above an ordinal is one newVersionedInstance sees too.
LEMMA PartitionBounds ==
  ASSUME NEW s \in SpecType
  PROVE  /\ ComputePartition(s.partition, s.replicas) \in 0 .. s.replicas
         /\ VersioningPartition(s.partition, s.replicas) \in Int
         /\ ComputePartition(s.partition, s.replicas)
              <= NotBelow(0, VersioningPartition(s.partition, s.replicas))
<1>1. s.partition \in IntOrPercent /\ s.replicas \in Nat BY DEF SpecType
<1>a. s.replicas \in Int BY <1>1
<1>2. Scaled(s.partition, s.replicas, FALSE) \in Int BY <1>1, <1>a, ScaledType, Zenon
<1>3. CASE s.partition.kind = "unset"
  BY <1>1, <1>3 DEF ComputePartition, VersioningPartition, NotBelow
<1>4. CASE s.partition.kind # "unset"
  <2> DEFINE x == Scaled(s.partition, s.replicas, FALSE)
  <2>1. x \in Int BY <1>2
  <2>2. VersioningPartition(s.partition, s.replicas) = x BY <1>4 DEF VersioningPartition
  <2>3. ComputePartition(s.partition, s.replicas) = NotBelow(0, NotAbove(s.replicas, x))
    BY <1>4 DEF ComputePartition
  <2> HIDE DEF x
  <2> QED BY <1>1, <2>1, <2>2, <2>3 DEF NotBelow, NotAbove
<1> QED BY <1>3, <1>4

\* The topology carries the replicas and the partition of its spec.
LEMMA TopologyScope ==
  ASSUME NEW set \in SetObject, NEW I
  PROVE  LET t == ComputeTopologyForReconcile(set, I)
         IN  /\ t.replicas = set.spec.replicas
             /\ t.partition = BasePartition(set.spec)
             /\ t.replicas \in Nat
             /\ t.partition \in 0 .. t.replicas
<1>1. set.spec \in SpecType BY DEF SetObject
<1>2. set.spec.replicas \in Nat BY <1>1 DEF SpecType
<1>3. BasePartition(set.spec) \in 0 .. set.spec.replicas
  BY <1>1, PartitionBounds DEF BasePartition
<1> QED BY <1>2, <1>3 DEF ComputeTopologyForReconcile, ComputeTopology, BasePartition

-----------------------------------------------------------------------------
(***************************************************************************)
(* Types of what a pass reads, computes and writes.                        *)
(***************************************************************************)
\* getInstanceSetRevisions always yields two real or empty revisions.
LEMMA RevisionTypes ==
  ASSUME NEW set \in SetObject
  PROVE  /\ UpdateRevision(set) \in Revisions
         /\ CurrentRevision(set) \in AnyRevision
BY DEF SetObject, SpecType, Status, UpdateRevision, CurrentRevision, AnyRevision

\* Every slot of the replicas slice holds an instance.
LEMMA SlotsType ==
  ASSUME NEW set \in SetObject, NEW I \in [Ordinals -> Instance], NEW end
  PROVE  Slots(set, I, end) \in [Ordinals -> Instance]
<1>1. \A rev \in AnyRevision : Unborn(rev) \in Instance
  BY DEF Unborn, NoInstance, Instance, Gates, AnyRevision
<1>2. UpdateRevision(set) \in AnyRevision /\ CurrentRevision(set) \in AnyRevision
  BY RevisionTypes DEF AnyRevision
<1> QED BY <1>1, <1>2 DEF Slots

\* The expectations survive both of their operations.
LEMMA ExpectationTypes ==
  ASSUME NEW e \in Expectation, NEW upd \in AnyRevision
  PROVE  /\ \A I : ObserveUpdated(e, I, upd) \in Expectation
         /\ \A ords \in SUBSET Ordinals : ExpectUpdated(e, upd, ords) \in Expectation
<1>1. NoExpectation \in Expectation BY DEF NoExpectation, Expectation, AnyRevision
<1>2. \A ords \in SUBSET Ordinals : [e EXCEPT !.ords = ords] \in Expectation
  BY DEF Expectation
<1>3. \A rev \in AnyRevision, ords \in SUBSET Ordinals :
        [rev |-> rev, ords |-> ords] \in Expectation
  BY DEF Expectation
<1>4. e.ords \in SUBSET Ordinals BY DEF Expectation
<1>5. ASSUME NEW I PROVE ObserveUpdated(e, I, upd) \in Expectation
  <2> DEFINE left == e.ords \ {o \in {q \in Ordinals : I[q].created} : I[o].rev = upd}
  <2>1. left \in SUBSET Ordinals BY <1>4
  <2> QED BY <1>1, <1>2, <2>1 DEF ObserveUpdated
<1>6. ASSUME NEW ords \in SUBSET Ordinals PROVE ExpectUpdated(e, upd, ords) \in Expectation
  <2>1. ords \cup (IF e.rev = upd THEN e.ords ELSE {}) \in SUBSET Ordinals BY <1>4
  <2> QED BY <1>3, <2>1 DEF ExpectUpdated
<1> QED BY <1>5, <1>6

\* observeInstanceHealth keeps one window per ordinal.
LEMMA WindowType ==
  ASSUME NEW w \in [Ordinals -> Windows], NEW I
  PROVE  ObserveInstanceHealth(w, I) \in [Ordinals -> Windows]
BY DEF ObserveInstanceHealth, Windows

\* No write of a pass makes anything but an instance of an instance.
LEMMA AfterWritesType ==
  ASSUME NEW o \in Ordinals, NEW x \in Instance, NEW done,
         NEW born \in Instance, NEW upd \in AnyRevision
  PROVE  AfterWrites(o, x, done, born, upd) \in Instance
<1>1. [x EXCEPT !.term = TRUE] \in Instance BY DEF Instance
<1>2. \A b \in BOOLEAN : [x EXCEPT !.rev = upd, !.synced = FALSE, !.gate = "closed",
                                     !.ready = @ /\ ~b] \in Instance
  BY DEF Instance, Gates
<1>3. [x EXCEPT !.gate = "closed", !.ready = FALSE] \in Instance BY DEF Instance, Gates
<1>4. [x EXCEPT !.gate = "open"] \in Instance BY DEF Instance, Gates
<1>5. [born EXCEPT !.created = TRUE] \in Instance BY DEF Instance
<1> QED BY <1>1, <1>2, <1>3, <1>4, <1>5 DEF AfterWrites

\* A persisted or inherited replacement state is one.
LEMMA ReplacementTypes ==
  ASSUME NEW set \in SetObject, NEW I
  PROVE  LET t == ComputeTopologyForReconcile(set, I)
         IN  /\ Inherited(set, I) \in Replacement
             /\ PersistedScope(t, Inherited(set, I), UpdateRevision(set)) \in Replacement
<1> DEFINE t == ComputeTopologyForReconcile(set, I)
           x == Inherited(set, I)
<1>1. set.status.repl \in Replacement BY DEF SetObject, Status
<1>2. NoReplacement \in Replacement BY DEF NoReplacement, Replacement, AnyRevision
<1>3. x \in Replacement BY <1>1, <1>2 DEF Inherited
<1>4. t.replicas \in Int /\ t.partition \in Int BY TopologyScope
<1>5. x.partition \in Int /\ x.replicas \in Int BY <1>3 DEF Replacement
<1>6. UpdateRevision(set) \in AnyRevision BY RevisionTypes DEF AnyRevision
<1> HIDE DEF t, x
<1>7. PersistedScope(t, x, UpdateRevision(set)) \in Replacement
  BY <1>4, <1>5, <1>6 DEF PersistedScope, Replacement, NotAbove, NotBelow
<1> QED BY <1>3, <1>7 DEF t, x

\* A count of ordinals is a natural number.
LEMMA CountType ==
  ASSUME NEW T \in SUBSET Ordinals
  PROVE  IsFiniteSet(T) /\ Cardinality(T) \in Nat
<1>1. IsFiniteSet(Ordinals) BY OrdinalAssumption, FS_Interval DEF Ordinals
<1>2. IsFiniteSet(T) BY <1>1, FS_Subset
<1> QED BY <1>2, FS_CardinalityType


\* The end of a pass, wherever it stopped, leaves every variable it writes in
\* its type.
LEMMA FinishPassType ==
  ASSUME FieldTypes, NEW t, t = ComputeTopologyForReconcile(cacheSet, cacheInsts),
         NEW S \in [Ordinals -> Instance], NEW w \in [Ordinals -> Windows],
         NEW e \in Expectation, NEW ws, NEW reach, NEW done, NEW acked, NEW lost,
         FinishPass(t, S, w, e, ws, reach, done, acked, lost)
  PROVE  /\ apiSet' \in SetObject /\ insts' \in [Ordinals -> Instance]
         /\ cacheSet' \in SetObject /\ setLag' \in BOOLEAN
         /\ instLag' \in SUBSET Ordinals /\ exp' \in Expectation
         /\ window' \in [Ordinals -> Windows] /\ awaitRepl' \in BOOLEAN
         /\ queued' \in BOOLEAN /\ timer' \in BOOLEAN
<1> DEFINE upd == UpdateRevision(cacheSet)
           inherited == Inherited(cacheSet, cacheInsts)
           scope == PersistedScope(t, inherited, upd)
           patched == {o \in Ordinals : [op |-> "inplace", ord |-> o] \in acked}
           counted == IF reach > MaxOrdinal + 1 THEN S ELSE cacheInsts
           updated == Cardinality({o \in Ordinals : counted[o].rev = upd})
<1>1. cacheSet \in SetObject /\ apiSet \in SetObject BY DEF FieldTypes
<1>2. upd \in AnyRevision /\ CurrentRevision(cacheSet) \in AnyRevision
  BY <1>1, RevisionTypes DEF AnyRevision
<1>3. inherited \in Replacement /\ scope \in Replacement BY <1>1, ReplacementTypes
<1>4. updated \in Nat BY CountType
<1>5. patched \in SUBSET Ordinals OBVIOUS
<1>6. \A cur \in AnyRevision, n \in Nat, repl \in Replacement :
        [cur |-> cur, upd |-> upd, updated |-> n, repl |-> repl] \in Status
  BY <1>2 DEF Status
<1>7. \A x \in Status : [apiSet EXCEPT !.status = x] \in SetObject BY <1>1 DEF SetObject
<1>8. \A x \in Replacement : [apiSet EXCEPT !.status.repl = x] \in SetObject
  BY <1>1 DEF SetObject, Status
<1>9. \/ apiSet' = apiSet
      \/ apiSet' = [apiSet EXCEPT !.status.repl = scope]
      \/ \E cur \in {upd, CurrentRevision(cacheSet)}, repl \in {scope, inherited} :
           apiSet' = [apiSet EXCEPT !.status =
                        [cur |-> cur, upd |-> upd, updated |-> updated, repl |-> repl]]
  BY DEF FinishPass
<1> HIDE DEF upd, inherited, scope, patched, updated
<1>10. apiSet' \in SetObject BY <1>1, <1>2, <1>3, <1>4, <1>6, <1>7, <1>8, <1>9
<1>11. insts' \in [Ordinals -> Instance]
  <2>1. insts' = [o \in Ordinals |-> AfterWrites(o, insts[o], done, S[o], upd)]
    BY DEF FinishPass, upd
  <2>2. insts \in [Ordinals -> Instance] BY DEF FieldTypes
  <2>3. \A o \in Ordinals : AfterWrites(o, insts[o], done, S[o], upd) \in Instance
    BY <1>2, <2>2, AfterWritesType
  <2> QED BY <2>1, <2>3
<1>12. cacheSet' \in SetObject BY <1>1 DEF FinishPass
<1>13. instLag' \in SUBSET Ordinals BY DEF FinishPass, FieldTypes
<1>14. exp' \in Expectation
  <2>1. exp' = ExpectUpdated(e, upd, patched) BY DEF FinishPass, upd, patched
  <2> QED BY <1>2, <1>5, <2>1, ExpectationTypes
<1>15. window' \in [Ordinals -> Windows] BY DEF FinishPass
<1>16. setLag' \in BOOLEAN /\ awaitRepl' \in BOOLEAN /\ queued' \in BOOLEAN /\ timer' \in BOOLEAN
  BY DEF FinishPass, FieldTypes
<1> QED BY <1>10, <1>11, <1>12, <1>13, <1>14, <1>15, <1>16


-----------------------------------------------------------------------------
(***************************************************************************)
(* The type invariant.                                                     *)
(***************************************************************************)
\* The state a controller starts from is well typed.
LEMMA InitType == Init => FieldTypes
<1> SUFFICES ASSUME Init PROVE FieldTypes OBVIOUS
<1>1. InitSpec \in SpecType BY SpecAssumption
<1>2. InitSpec.template \in Revisions /\ InitSpec.replicas \in Nat BY <1>1 DEF SpecType
<1>3. InitStatus \in Status
  BY <1>2 DEF InitStatus, Status, AnyRevision, NoReplacement, Replacement
<1>4. apiSet \in SetObject /\ cacheSet \in SetObject
  BY <1>1, <1>3, BoundAssumption DEF Init, SetObject
<1>5. insts \in [Ordinals -> Instance] /\ cacheInsts \in [Ordinals -> Instance]
  <2>1. Running(InitSpec.template) \in Instance
    BY <1>2 DEF Running, Instance, Gates, AnyRevision
  <2>2. NoInstance \in Instance BY DEF NoInstance, Instance, Gates, AnyRevision
  <2> QED BY <2>1, <2>2 DEF Init
<1>6. exp \in Expectation BY DEF Init, NoExpectation, Expectation, AnyRevision
<1>7. window \in [Ordinals -> Windows] BY DEF Init, Windows
<1>8. faults \in 0 .. MaxFaults /\ outages \in 0 .. MaxOutages BY BoundAssumption DEF Init
<1> QED BY <1>4, <1>5, <1>6, <1>7, <1>8 DEF Init, FieldTypes

\* What a pass has computed when it starts to write.
PassComputes(t, S, w, e, ws) ==
  /\ t = ComputeTopologyForReconcile(cacheSet, cacheInsts)
  /\ S = Slots(cacheSet, cacheInsts, t.endOrdinal)
  /\ w = ObserveInstanceHealth(window, cacheInsts)
  /\ e = ObserveUpdated(exp, cacheInsts, UpdateRevision(cacheSet))
  /\ ws = PassWrites(cacheSet, cacheInsts, S, t, Updates(cacheSet, S, t, w, e, cacheInsts))

\* A pass computes once and applies some of the writes it computed.
LEMMA ReconcileWitness ==
  ASSUME Reconcile
  PROVE  /\ \E t, S, w, e, ws, reach, done, acked, lost :
              /\ PassComputes(t, S, w, e, ws)
              /\ done \subseteq ws /\ acked \subseteq ws
              /\ FinishPass(t, S, w, e, ws, reach, done, acked, lost)
         /\ \E n \in {0, 1} : faults' = faults + n
         /\ faults' <= MaxFaults
         /\ UNCHANGED <<cacheInsts, outages>>
<1>1. PICK t \in {ComputeTopologyForReconcile(cacheSet, cacheInsts)} :
      \E S \in {Slots(cacheSet, cacheInsts, t.endOrdinal)},
         w \in {ObserveInstanceHealth(window, cacheInsts)},
         e \in {ObserveUpdated(exp, cacheInsts, UpdateRevision(cacheSet))} :
      \E ws \in {PassWrites(cacheSet, cacheInsts, S, t,
                            Updates(cacheSet, S, t, w, e, cacheInsts))} :
        EndPass(t, S, w, e, ws)
  BY Zenon DEF Reconcile
<1>2. PICK S \in {Slots(cacheSet, cacheInsts, t.endOrdinal)},
           w \in {ObserveInstanceHealth(window, cacheInsts)},
           e \in {ObserveUpdated(exp, cacheInsts, UpdateRevision(cacheSet))} :
      \E ws \in {PassWrites(cacheSet, cacheInsts, S, t,
                            Updates(cacheSet, S, t, w, e, cacheInsts))} :
        EndPass(t, S, w, e, ws)
  BY <1>1, Zenon
<1>3. PICK ws \in {PassWrites(cacheSet, cacheInsts, S, t,
                             Updates(cacheSet, S, t, w, e, cacheInsts))} :
        EndPass(t, S, w, e, ws)
  BY <1>2, Zenon
<1>4. PassComputes(t, S, w, e, ws) BY <1>1, <1>2, <1>3, Zenon DEF PassComputes
<1>5. PICK stop, late, lost :
        /\ faults' = faults + (IF stop = EndOfPass /\ ~late /\ ~lost THEN 0 ELSE 1)
        /\ faults' <= MaxFaults
        /\ \E reach, acked, done :
             /\ acked = {x \in ws : Rank(x) < reach}
             /\ done = acked \cup {x \in ws : late /\ Rank(x) = reach /\ Accepted(x)}
             /\ FinishPass(t, S, w, e, ws, reach, done, acked, lost)
  BY <1>3 DEF EndPass
<1>6. \E reach, done, acked : /\ done \subseteq ws /\ acked \subseteq ws
                              /\ FinishPass(t, S, w, e, ws, reach, done, acked, lost)
  BY <1>5
<1>7. UNCHANGED <<cacheInsts, outages>> BY DEF Reconcile
<1>8. (\E n \in {0, 1} : faults' = faults + n) /\ faults' <= MaxFaults BY <1>5
<1> QED BY <1>4, <1>6, <1>7, <1>8

\* A reconcile pass, wherever it stops, keeps the types.
LEMMA ReconcileType == FieldTypes /\ Reconcile => FieldTypes'
<1> SUFFICES ASSUME FieldTypes, Reconcile PROVE FieldTypes' OBVIOUS
<1>1. PICK t, S, w, e, ws, reach, done, acked, lost :
        /\ PassComputes(t, S, w, e, ws)
        /\ FinishPass(t, S, w, e, ws, reach, done, acked, lost)
  BY ReconcileWitness, Zenon
<1>2. S \in [Ordinals -> Instance] BY <1>1, SlotsType DEF FieldTypes, PassComputes
<1>3. w \in [Ordinals -> Windows] BY <1>1, WindowType DEF FieldTypes, PassComputes
<1>4. UpdateRevision(cacheSet) \in AnyRevision BY RevisionTypes DEF FieldTypes, AnyRevision
<1>5. e \in Expectation BY <1>1, <1>4, ExpectationTypes DEF FieldTypes, PassComputes
<1>6. t = ComputeTopologyForReconcile(cacheSet, cacheInsts) BY <1>1 DEF PassComputes
<1>7. faults' \in 0 .. MaxFaults /\ UNCHANGED <<cacheInsts, outages>>
  <2>1. (\E n \in {0, 1} : faults' = faults + n) /\ faults' <= MaxFaults
    BY ReconcileWitness
  <2>2. UNCHANGED <<cacheInsts, outages>> BY ReconcileWitness
  <2> QED BY <2>1, <2>2, BoundAssumption DEF FieldTypes
<1> QED BY <1>1, <1>2, <1>3, <1>5, <1>6, <1>7, FinishPassType DEF FieldTypes

\* Every other step of the controller, the informers and the process.
LEMMA ControlType ==
  ASSUME FieldTypes, ReconcileAwaitsStatus \/ TimerFires \/ SyncSet \/ SyncInsts \/ Restart
  PROVE  FieldTypes'
<1>1. CASE ReconcileAwaitsStatus
  BY <1>1 DEF ReconcileAwaitsStatus, FieldTypes, setVars, instVars, memory, bounds
<1>2. CASE TimerFires BY <1>2 DEF TimerFires, FieldTypes, setVars, instVars, memory, bounds
<1>3. CASE SyncSet BY <1>3 DEF SyncSet, FieldTypes, instVars, bounds
<1>4. CASE SyncInsts BY <1>4 DEF SyncInsts, FieldTypes, setVars, memory, bounds
<1>5. CASE Restart
  <2>1. NoExpectation \in Expectation BY DEF NoExpectation, Expectation, AnyRevision
  <2>2. [o \in Ordinals |-> "none"] \in [Ordinals -> Windows] BY DEF Windows
  <2>3. faults' \in 0 .. MaxFaults BY <1>5, BoundAssumption DEF Restart, FieldTypes
  <2> QED BY <1>5, <2>1, <2>2, <2>3 DEF Restart, FieldTypes
<1> QED BY <1>1, <1>2, <1>3, <1>4, <1>5

\* A status step writes one instance, of the same revision or none.
LEMMA InstanceStep ==
  ASSUME FieldTypes, NEW o \in Ordinals,
         InstanceProgress(o) \/ InstanceFails(o) \/ InstanceEvicted(o)
  PROVE  /\ \E x \in Instance : /\ x = NoInstance \/ (x.rev = insts[o].rev /\ x.created = insts[o].created)
                               /\ ChangeInstance(o, x)
         /\ outages' \in 0 .. MaxOutages
<1>1. insts[o] \in Instance BY DEF FieldTypes
<1>2. \A b \in BOOLEAN : /\ [insts[o] EXCEPT !.ready = b] \in Instance
                          /\ [insts[o] EXCEPT !.ready = b].rev = insts[o].rev
                          /\ [insts[o] EXCEPT !.ready = b].created = insts[o].created
  BY <1>1 DEF Instance
<1>3. /\ [insts[o] EXCEPT !.synced = TRUE] \in Instance
      /\ [insts[o] EXCEPT !.synced = TRUE].rev = insts[o].rev
      /\ [insts[o] EXCEPT !.synced = TRUE].created = insts[o].created
  BY <1>1 DEF Instance
<1>4. /\ [insts[o] EXCEPT !.term = TRUE] \in Instance
      /\ [insts[o] EXCEPT !.term = TRUE].rev = insts[o].rev
      /\ [insts[o] EXCEPT !.term = TRUE].created = insts[o].created
  BY <1>1 DEF Instance
<1>5. NoInstance \in Instance BY DEF NoInstance, Instance, Gates, AnyRevision
<1>6. CASE InstanceUnready(o) \/ InstanceReady(o)
  BY <1>2, <1>6 DEF InstanceUnready, InstanceReady, FieldTypes
<1>7. CASE InstanceSynced(o) BY <1>3, <1>7 DEF InstanceSynced, FieldTypes
<1>8. CASE InstanceGone(o) BY <1>5, <1>8 DEF InstanceGone, FieldTypes
<1>9. CASE InstanceFails(o)
  <2>1. outages' \in 0 .. MaxOutages BY <1>9, BoundAssumption DEF InstanceFails, FieldTypes
  <2> QED BY <1>2, <1>9, <2>1 DEF InstanceFails
<1>10. CASE InstanceEvicted(o)
  <2>1. outages' \in 0 .. MaxOutages BY <1>10, BoundAssumption DEF InstanceEvicted, FieldTypes
  <2> QED BY <1>4, <1>10, <2>1 DEF InstanceEvicted
<1> QED BY <1>6, <1>7, <1>8, <1>9, <1>10 DEF InstanceProgress

\* So does a spec edit, and every step of an instance.
LEMMA EnvironmentType ==
  ASSUME FieldTypes,
         \/ \E s \in Specs : EditSpec(s)
         \/ \E o \in Ordinals : \/ WindowCloses(o) \/ InstanceProgress(o)
                                \/ InstanceFails(o) \/ InstanceEvicted(o)
  PROVE  FieldTypes'
<1>1. ASSUME NEW s \in Specs, EditSpec(s) PROVE FieldTypes'
  <2>1. s \in SpecType BY SpecAssumption
  <2>2. apiSet.gen + 1 \in 0 .. MaxEdits
    <3>1. apiSet.gen \in 0 .. MaxEdits BY DEF FieldTypes, SetObject
    <3>2. apiSet.gen < MaxEdits BY <1>1 DEF EditSpec
    <3> QED BY <3>1, <3>2, BoundAssumption
  <2>3. apiSet' \in SetObject BY <1>1, <2>1, <2>2 DEF EditSpec, FieldTypes, SetObject
  <2> QED BY <1>1, <2>3 DEF EditSpec, FieldTypes, instVars, memory, queue, bounds
<1>2. ASSUME NEW o \in Ordinals, WindowCloses(o) PROVE FieldTypes'
  BY <1>2 DEF WindowCloses, FieldTypes, Windows, setVars, instVars, queue, bounds
<1>3. ASSUME NEW o \in Ordinals, InstanceProgress(o) \/ InstanceFails(o) \/ InstanceEvicted(o)
      PROVE  FieldTypes'
  <2>1. PICK x \in Instance : ChangeInstance(o, x) BY <1>3, InstanceStep
  <2>2. outages' \in 0 .. MaxOutages BY <1>3, InstanceStep
  <2> QED BY <2>1, <2>2 DEF ChangeInstance, FieldTypes, setVars, memory, queue
<1> QED BY <1>1, <1>2, <1>3

\* The types of the fields are inductive.
LEMMA StepType == FieldTypes /\ [Next]_vars => FieldTypes'
<1> SUFFICES ASSUME FieldTypes, [Next]_vars PROVE FieldTypes' OBVIOUS
<1>1. CASE UNCHANGED vars
  BY <1>1 DEF vars, setVars, instVars, memory, queue, bounds, FieldTypes
<1>2. CASE Reconcile BY <1>2, ReconcileType
<1>3. CASE ReconcileAwaitsStatus \/ TimerFires \/ SyncSet \/ SyncInsts \/ Restart
  BY <1>3, ControlType
<1>4. CASE \/ \E s \in Specs : EditSpec(s)
           \/ \E o \in Ordinals : \/ WindowCloses(o) \/ InstanceProgress(o)
                                  \/ InstanceFails(o) \/ InstanceEvicted(o)
  BY <1>4, EnvironmentType
<1> QED BY <1>1, <1>2, <1>3, <1>4 DEF Next, Controller, Informers

\* A pass has two revisions that are not empty.
LEMMA RevisionsOfPass ==
  ASSUME NEW set \in SetObject
  PROVE  UpdateRevision(set) # NoRev /\ CurrentRevision(set) # NoRev
<1>1. UpdateRevision(set) # NoRev BY RevisionTypes, RevisionAssumption
<1> QED BY <1>1 DEF CurrentRevision

\* The in-place updates of a pass are updates, its creations fill slots.
LEMMA WritesMeanWhatTheySay ==
  ASSUME NEW set, NEW I, NEW S, NEW t, NEW ups, NEW o
  PROVE  /\ [op |-> "inplace", ord |-> o] \in PassWrites(set, I, S, t, ups) => o \in ups
         /\ [op |-> "create", ord |-> o] \in PassWrites(set, I, S, t, ups)
              => o \in Creates(S, t.endOrdinal)
<1>1. \A a, b, ords : [op |-> a, ord |-> o] \in Writes(b, ords) => a = b /\ o \in ords
  BY DEF Writes
<1>2. \A a, b, ords : [op |-> a, ord |-> o] \in Writes(b, ords) => [op |-> a, ord |-> o].op = b
  BY DEF Writes
<1> DEFINE patched == {q \in ups : InPlace(S, q, UpdateRevision(set))}
           x == [op |-> "inplace", ord |-> o]
           y == [op |-> "create", ord |-> o]
<1>3. ASSUME x \in PassWrites(set, I, S, t, ups) PROVE o \in ups
  <2>1. x \in Writes("inplace", patched) BY <1>2, <1>3 DEF PassWrites
  <2> QED BY <1>1, <2>1
<1>4. ASSUME y \in PassWrites(set, I, S, t, ups) PROVE o \in Creates(S, t.endOrdinal)
  <2>1. y \in Writes("create", Creates(S, t.endOrdinal)) BY <1>2, <1>4 DEF PassWrites
  <2> QED BY <1>1, <2>1
<1> QED BY <1>3, <1>4

\* What a write makes of an instance has a revision, if it and its slot do.
LEMMA AfterWritesNamed ==
  ASSUME NEW o \in Ordinals, NEW x \in Instance, NEW done, NEW born \in Instance, NEW upd, upd # NoRev,
         [op |-> "create", ord |-> o] \in done => born.rev # NoRev,
         x.created => x.rev # NoRev
  PROVE  LET y == AfterWrites(o, x, done, born, upd) IN y.created => y.rev # NoRev
<1>1. /\ [x EXCEPT !.term = TRUE].rev = x.rev
      /\ [x EXCEPT !.term = TRUE].created = x.created
      /\ [x EXCEPT !.gate = "closed", !.ready = FALSE].rev = x.rev
      /\ [x EXCEPT !.gate = "closed", !.ready = FALSE].created = x.created
      /\ [x EXCEPT !.gate = "open"].rev = x.rev
      /\ [x EXCEPT !.gate = "open"].created = x.created
      /\ [born EXCEPT !.created = TRUE].rev = born.rev
      /\ \A b : [x EXCEPT !.rev = upd, !.synced = FALSE, !.gate = "closed", !.ready = @ /\ ~b].rev = upd
  BY DEF Instance
<1> QED BY <1>1 DEF AfterWrites

\* A pass names both revisions in the status it writes, and gives one to every
\* instance it creates.
LEMMA ReconcileNamed == FieldTypes /\ RevisionsNamed /\ Reconcile => RevisionsNamed'
<1> SUFFICES ASSUME FieldTypes, RevisionsNamed, Reconcile PROVE RevisionsNamed' OBVIOUS
<1>1. PICK t, S, w, e, ws, reach, done, acked, lost :
        /\ PassComputes(t, S, w, e, ws)
        /\ done \subseteq ws
        /\ FinishPass(t, S, w, e, ws, reach, done, acked, lost)
  BY ReconcileWitness, Zenon
<1> DEFINE upd == UpdateRevision(cacheSet)
<1>2. cacheSet \in SetObject /\ apiSet \in SetObject BY DEF FieldTypes
<1>3. upd # NoRev /\ CurrentRevision(cacheSet) # NoRev BY <1>2, RevisionsOfPass
<1>4. S \in [Ordinals -> Instance] BY <1>1, SlotsType DEF FieldTypes, PassComputes
<1>5. cacheInsts' = cacheInsts /\ (cacheSet' = apiSet \/ cacheSet' = cacheSet)
  BY <1>1, ReconcileWitness DEF FinishPass
<1>6. apiSet'.status.upd # NoRev => apiSet'.status.cur # NoRev
  <2>1. \/ apiSet' = apiSet
        \/ \E x : apiSet' = [apiSet EXCEPT !.status.repl = x]
        \/ \E cur \in {upd, CurrentRevision(cacheSet)} : \E n, x :
             apiSet' = [apiSet EXCEPT !.status = [cur |-> cur, upd |-> upd, updated |-> n, repl |-> x]]
    BY <1>1 DEF FinishPass
  <2>2. apiSet.status.upd # NoRev => apiSet.status.cur # NoRev BY DEF RevisionsNamed
  <2> HIDE DEF upd
  <2> QED BY <1>2, <1>3, <2>1, <2>2 DEF SetObject, Status
<1>7. ASSUME NEW o \in Ordinals, insts'[o].created PROVE insts'[o].rev # NoRev
  <2>1. insts'[o] = AfterWrites(o, insts[o], done, S[o], upd) BY <1>1 DEF FinishPass
  <2>2. [op |-> "create", ord |-> o] \in done => S[o].rev # NoRev
    <3>1. ws = PassWrites(cacheSet, cacheInsts, S, t, Updates(cacheSet, S, t, w, e, cacheInsts))
      BY <1>1 DEF PassComputes
    <3>2. [op |-> "create", ord |-> o] \in done => o \in Creates(S, t.endOrdinal)
      BY <1>1, <3>1, WritesMeanWhatTheySay
    <3>3. S = Slots(cacheSet, cacheInsts, t.endOrdinal) BY <1>1 DEF PassComputes
    <3>4. \A r : Unborn(r).rev = r BY DEF Unborn, NoInstance
    <3>5. o \in Creates(S, t.endOrdinal) =>
            S[o] \in {Unborn(upd), Unborn(CurrentRevision(cacheSet))}
      BY <3>3 DEF Creates, Slots
    <3> QED BY <1>3, <3>2, <3>4, <3>5
  <2>3. insts[o] \in Instance /\ S[o] \in Instance BY <1>4 DEF FieldTypes
  <2>4. insts[o].created => insts[o].rev # NoRev BY DEF RevisionsNamed
  <2> HIDE DEF upd
  <2> QED BY <1>3, <1>7, <2>1, <2>2, <2>3, <2>4, AfterWritesNamed, Zenon
<1> QED BY <1>5, <1>6, <1>7 DEF RevisionsNamed

\* RevisionsNamed is inductive, given the types of the fields.
LEMMA StepNamed == FieldTypes /\ RevisionsNamed /\ [Next]_vars => RevisionsNamed'
<1> SUFFICES ASSUME FieldTypes, RevisionsNamed, [Next]_vars PROVE RevisionsNamed' OBVIOUS
<1>1. CASE UNCHANGED <<apiSet, cacheSet, insts, cacheInsts>> BY <1>1 DEF RevisionsNamed
<1>2. CASE Reconcile BY <1>2, ReconcileNamed
<1>3. CASE SyncSet BY <1>3 DEF SyncSet, RevisionsNamed, instVars
<1>4. CASE SyncInsts BY <1>4 DEF SyncInsts, RevisionsNamed, setVars
<1>5. CASE Restart BY <1>5 DEF Restart, RevisionsNamed
<1>6. ASSUME NEW s \in Specs, EditSpec(s) PROVE RevisionsNamed'
  <2>1. apiSet'.status = apiSet.status BY <1>6 DEF EditSpec, FieldTypes, SetObject
  <2>2. UNCHANGED <<cacheSet, insts, cacheInsts>> BY <1>6 DEF EditSpec, instVars
  <2> QED BY <2>1, <2>2 DEF RevisionsNamed
<1>7. ASSUME NEW o \in Ordinals, InstanceProgress(o) \/ InstanceFails(o) \/ InstanceEvicted(o)
      PROVE  RevisionsNamed'
  <2>1. PICK x \in Instance : /\ x = NoInstance \/ (x.rev = insts[o].rev /\ x.created = insts[o].created)
                              /\ ChangeInstance(o, x)
    BY <1>7, InstanceStep
  <2>a. ~NoInstance.created BY DEF NoInstance
  <2>2. x.created => x.rev = insts[o].rev /\ insts[o].created BY <2>1, <2>a, Zenon
  <2>3. insts' = [insts EXCEPT ![o] = x] /\ UNCHANGED <<apiSet, cacheSet, cacheInsts>>
    BY <2>1 DEF ChangeInstance, setVars
  <2>4. \A u \in Ordinals : insts'[u].created => insts'[u].rev # NoRev
    BY <2>2, <2>3 DEF FieldTypes, RevisionsNamed
  <2> QED BY <2>3, <2>4 DEF RevisionsNamed
<1>8. ASSUME NEW o \in Ordinals, WindowCloses(o) PROVE RevisionsNamed'
  BY <1>8, <1>1 DEF WindowCloses, setVars, instVars
<1>9. CASE ReconcileAwaitsStatus \/ TimerFires \/ UNCHANGED vars
  BY <1>9, <1>1 DEF ReconcileAwaitsStatus, TimerFires, vars, setVars, instVars
<1> QED BY <1>2, <1>3, <1>4, <1>5, <1>6, <1>7, <1>8, <1>9 DEF Next, Controller, Informers

\* A new set has no status, and a settled one names its template's revision.
LEMMA InitNamed == Init => RevisionsNamed
<1> SUFFICES ASSUME Init PROVE RevisionsNamed OBVIOUS
<1>1. InitSpec.template # NoRev BY SpecAssumption, RevisionAssumption DEF SpecType
<1>2. apiSet.status = InitStatus /\ cacheSet = apiSet BY DEF Init
<1>3. apiSet.status.upd # NoRev => apiSet.status.cur # NoRev BY <1>1, <1>2 DEF InitStatus
<1>4. \A o \in Ordinals : insts[o].created => insts[o].rev # NoRev
  BY <1>1 DEF Init, Running, NoInstance
<1>5. cacheInsts = insts BY DEF Init
<1> QED BY <1>2, <1>3, <1>4, <1>5 DEF RevisionsNamed

\* Every value the passes, the informers, the faults and the user write, in
\* any interleaving, stays in its type, and no pass writes an empty revision:
\* TypeOK for every number of ordinals, every set of specs and every bound.
THEOREM TypeCorrect == Spec => []TypeOK
BY InitType, StepType, InitNamed, StepNamed, PTL DEF Spec, TypeOK

-----------------------------------------------------------------------------
(***************************************************************************)
(* The partition.  PartitionPinned says nothing of the cache a pass reads  *)
(* nor of the revision it recreates with; PinInv does, for the ordinals    *)
(* below every partition, and is inductive.                                *)
(***************************************************************************)
PinInv ==
  /\ apiSet.spec \in AllSpecs /\ cacheSet.spec \in AllSpecs
  /\ \A o \in Ordinals : Pinned(o) =>
       /\ apiSet.status.cur = InitSpec.template
       /\ cacheSet.status.cur = InitSpec.template
       /\ insts[o].created => insts[o].rev = InitSpec.template
       /\ cacheInsts[o].created => cacheInsts[o].rev = InitSpec.template

\* A settled set runs the initial template everywhere.
LEMMA InitPin == StartSettled /\ Init => PinInv
<1> SUFFICES ASSUME StartSettled, Init PROVE PinInv OBVIOUS
<1>1. apiSet = [spec |-> InitSpec, gen |-> 0, status |-> InitStatus] /\ cacheSet = apiSet
  BY DEF Init
<1>2. apiSet.spec \in AllSpecs /\ cacheSet.spec \in AllSpecs BY <1>1 DEF AllSpecs
<1>3. apiSet.status.cur = InitSpec.template /\ cacheSet.status.cur = InitSpec.template
  BY <1>1 DEF InitStatus
<1>4. \A o \in Ordinals : insts[o].created => insts[o].rev = InitSpec.template
  BY DEF Init, Running, NoInstance
<1>5. cacheInsts = insts BY DEF Init
<1> QED BY <1>2, <1>3, <1>4, <1>5 DEF PinInv

\* No target of progressUpdate lies below the partition.
LEMMA UpdatesAbovePartition ==
  ASSUME NEW set, NEW S, NEW t, t.partition \in Int, NEW w, NEW e, NEW I,
         NEW o \in Updates(set, S, t, w, e, I)
  PROVE  o \in Ordinals /\ t.partition <= o
<1>1. \A lo, end, upd, stable :
        ProgressUpdate(S, t, lo, end, upd, stable) \subseteq OrdRange(lo, end)
  BY DEF ProgressUpdate, CostlyUpdates, FreeUpdates, CostlyTargets, UpdateTargets
<1>2. \A c \in CleanupTarget(set, S, t, w) : c \in Ordinals /\ c >= t.partition
  BY DEF CleanupTarget, Unready, OrdRange
<1>3. \/ o \in OrdRange(t.partition, t.endOrdinal)
      \/ \E c \in CleanupTarget(set, S, t, w) : o \in OrdRange(c, c + 1)
  BY <1>1 DEF Updates
<1>4. CASE o \in OrdRange(t.partition, t.endOrdinal) BY <1>4 DEF OrdRange
<1>5. ASSUME NEW c \in CleanupTarget(set, S, t, w), o \in OrdRange(c, c + 1)
      PROVE  o \in Ordinals /\ t.partition <= o
  BY <1>2, <1>5, OrdinalAssumption DEF OrdRange, Ordinals
<1> QED BY <1>3, <1>4, <1>5

\* A write keeps the revision of an existing instance unless it is an in-place
\* update, and a created instance has the revision of its slot.
LEMMA AfterWritesRevision ==
  ASSUME NEW o \in Ordinals, NEW x \in Instance, NEW done, NEW born \in Instance,
         NEW upd, NEW rev,
         [op |-> "inplace", ord |-> o] \notin done,
         [op |-> "create", ord |-> o] \in done => born.rev = rev,
         x.created => x.rev = rev
  PROVE  LET y == AfterWrites(o, x, done, born, upd) IN y.created => y.rev = rev
<1>1. /\ [x EXCEPT !.term = TRUE].rev = x.rev
      /\ [x EXCEPT !.term = TRUE].created = x.created
      /\ [x EXCEPT !.gate = "closed", !.ready = FALSE].rev = x.rev
      /\ [x EXCEPT !.gate = "closed", !.ready = FALSE].created = x.created
      /\ [x EXCEPT !.gate = "open"].rev = x.rev
      /\ [x EXCEPT !.gate = "open"].created = x.created
      /\ [born EXCEPT !.created = TRUE].rev = born.rev
  BY DEF Instance
<1> QED BY <1>1 DEF AfterWrites

\* An empty slot below every partition is filled with the old revision.
LEMMA PinnedSlots ==
  ASSUME FieldTypes, PinInv, NEW o \in Ordinals, Pinned(o), NEW end,
         o \in Creates(Slots(cacheSet, cacheInsts, end), end)
  PROVE  Slots(cacheSet, cacheInsts, end)[o].rev = InitSpec.template
<1> DEFINE S == Slots(cacheSet, cacheInsts, end)
           vp == VersioningPartition(cacheSet.spec.partition, cacheSet.spec.replicas)
<1>1. cacheSet.spec \in SpecType BY DEF FieldTypes, SetObject
<1>2. o < BasePartition(cacheSet.spec) BY DEF Pinned, PinInv
<1>3. o < vp
  BY <1>1, <1>2, PartitionBounds, OrdinalAssumption DEF BasePartition, NotBelow, Ordinals
<1>4. CurrentRevision(cacheSet) = InitSpec.template
  <2>1. cacheSet.status.cur = InitSpec.template BY DEF PinInv
  <2>2. InitSpec.template \in Revisions BY SpecAssumption DEF SpecType
  <2> QED BY <2>1, <2>2, RevisionAssumption DEF CurrentRevision
<1>5. ~S[o].created /\ o \in OrdRange(0, end) BY DEF Creates
<1>6. S[o] = IF cacheInsts[o].created \/ o \notin OrdRange(0, end) THEN cacheInsts[o]
             ELSE Unborn(IF o >= vp THEN UpdateRevision(cacheSet) ELSE CurrentRevision(cacheSet))
  BY DEF Slots
<1>7. vp \in Int BY <1>1, PartitionBounds
<1>8. o \in Int BY OrdinalAssumption DEF Ordinals
<1> HIDE DEF S, vp
<1>9. S[o] = Unborn(CurrentRevision(cacheSet)) BY <1>3, <1>5, <1>6, <1>7, <1>8
<1>10. \A r : Unborn(r).rev = r BY DEF Unborn, NoInstance
<1> QED BY <1>4, <1>9, <1>10 DEF S

\* A pass keeps the pinned ordinals at their revision: it does not update them,
\* it recreates them with the current revision, and a partition above zero
\* keeps it from advancing that one.
LEMMA ReconcilePin == FieldTypes /\ PinInv /\ Reconcile => PinInv'
<1> SUFFICES ASSUME FieldTypes, PinInv, Reconcile PROVE PinInv' OBVIOUS
<1>1. PICK t, S, w, e, ws, reach, done, acked, lost :
        /\ PassComputes(t, S, w, e, ws)
        /\ done \subseteq ws
        /\ FinishPass(t, S, w, e, ws, reach, done, acked, lost)
  BY ReconcileWitness, Zenon
<1> DEFINE upd == UpdateRevision(cacheSet)
<1>2. cacheSet \in SetObject /\ apiSet \in SetObject BY DEF FieldTypes
<1>3. t.partition = BasePartition(cacheSet.spec) /\ t.partition \in Int
  BY <1>1, <1>2, TopologyScope DEF PassComputes
<1>4. S \in [Ordinals -> Instance] BY <1>1, SlotsType DEF FieldTypes, PassComputes
<1>5. apiSet'.spec = apiSet.spec /\ (cacheSet' = apiSet \/ cacheSet' = cacheSet)
  BY <1>1, <1>2 DEF FinishPass, SetObject
<1>6. cacheInsts' = cacheInsts BY ReconcileWitness
<1>7. ASSUME NEW o \in Ordinals, Pinned(o)
      PROVE  /\ apiSet'.status.cur = InitSpec.template
             /\ insts'[o].created => insts'[o].rev = InitSpec.template
  <2>1. o < t.partition BY <1>3, <1>7 DEF Pinned, PinInv
  <2>2. o \in Nat BY OrdinalAssumption DEF Ordinals
  <2>3. apiSet'.status.cur = InitSpec.template
    <3>1. CurrentRevision(cacheSet) = InitSpec.template
      <4>1. cacheSet.status.cur = InitSpec.template BY <1>7 DEF PinInv
      <4>2. InitSpec.template \in Revisions BY SpecAssumption DEF SpecType
      <4> QED BY <4>1, <4>2, RevisionAssumption DEF CurrentRevision
    <3>2. \A x : ~ShouldAdvanceCurrentRevision(cacheSet, S, t, x)
      BY <1>3, <2>1, <2>2 DEF ShouldAdvanceCurrentRevision
    <3>3. \/ apiSet' = apiSet
          \/ \E x : apiSet' = [apiSet EXCEPT !.status.repl = x]
          \/ \E n, x : apiSet' = [apiSet EXCEPT !.status =
               [cur |-> CurrentRevision(cacheSet), upd |-> upd, updated |-> n, repl |-> x]]
      BY <1>1, <3>2 DEF FinishPass
    <3>4. apiSet.status.cur = InitSpec.template BY <1>7 DEF PinInv
    <3> QED BY <1>2, <3>1, <3>3, <3>4 DEF SetObject, Status
  <2>4. insts'[o] = AfterWrites(o, insts[o], done, S[o], upd)
    BY <1>1 DEF FinishPass
  <2>5. [op |-> "inplace", ord |-> o] \notin done
    <3>1. o \notin Updates(cacheSet, S, t, w, e, cacheInsts)
      BY <1>3, <2>1, <2>2, UpdatesAbovePartition
    <3>2. ws = PassWrites(cacheSet, cacheInsts, S, t, Updates(cacheSet, S, t, w, e, cacheInsts))
      BY <1>1 DEF PassComputes
    <3> QED BY <1>1, <3>1, <3>2, WritesMeanWhatTheySay
  <2>6. [op |-> "create", ord |-> o] \in done => S[o].rev = InitSpec.template
    <3>1. ws = PassWrites(cacheSet, cacheInsts, S, t, Updates(cacheSet, S, t, w, e, cacheInsts))
      BY <1>1 DEF PassComputes
    <3>2. [op |-> "create", ord |-> o] \in done => o \in Creates(S, t.endOrdinal)
      BY <1>1, <3>1, WritesMeanWhatTheySay
    <3>3. S = Slots(cacheSet, cacheInsts, t.endOrdinal) BY <1>1 DEF PassComputes
    <3> QED BY <1>7, <3>2, <3>3, PinnedSlots
  <2>7. insts[o].created => insts[o].rev = InitSpec.template BY <1>7 DEF PinInv
  <2>8. insts[o] \in Instance /\ S[o] \in Instance BY <1>4 DEF FieldTypes
  <2> HIDE DEF upd
  <2>9. AfterWrites(o, insts[o], done, S[o], upd).created
          => AfterWrites(o, insts[o], done, S[o], upd).rev = InitSpec.template
    BY <2>5, <2>6, <2>7, <2>8, AfterWritesRevision, Zenon
  <2> QED BY <2>3, <2>4, <2>9, Zenon
<1>8. cacheSet'.spec \in AllSpecs BY <1>5 DEF PinInv
<1>9. \A o \in Ordinals : Pinned(o) => cacheSet'.status.cur = InitSpec.template
  BY <1>5 DEF PinInv
<1> QED BY <1>5, <1>6, <1>7, <1>8, <1>9 DEF PinInv, Pinned, BasePartition

\* PinInv is inductive, given the types.
LEMMA StepPin == FieldTypes /\ PinInv /\ [Next]_vars => PinInv'
<1> SUFFICES ASSUME FieldTypes, PinInv, [Next]_vars PROVE PinInv' OBVIOUS
<1>1. CASE UNCHANGED <<apiSet, cacheSet, insts, cacheInsts>>
  BY <1>1 DEF PinInv, Pinned, BasePartition
<1>2. CASE Reconcile BY <1>2, ReconcilePin
<1>3. CASE SyncSet BY <1>3 DEF SyncSet, PinInv, Pinned, BasePartition, instVars
<1>4. CASE SyncInsts BY <1>4 DEF SyncInsts, PinInv, Pinned, BasePartition, setVars
<1>5. CASE Restart BY <1>5 DEF Restart, PinInv, Pinned, BasePartition
<1>6. ASSUME NEW s \in Specs, EditSpec(s) PROVE PinInv'
  <2>1. s \in AllSpecs BY DEF AllSpecs
  <2>2. apiSet'.spec = s /\ apiSet'.status = apiSet.status
    BY <1>6 DEF EditSpec, FieldTypes, SetObject
  <2>3. UNCHANGED <<cacheSet, insts, cacheInsts>> BY <1>6 DEF EditSpec, instVars
  <2> QED BY <2>1, <2>2, <2>3 DEF PinInv, Pinned, BasePartition
<1>7. ASSUME NEW o \in Ordinals, InstanceProgress(o) \/ InstanceFails(o) \/ InstanceEvicted(o)
      PROVE  PinInv'
  <2>1. PICK x \in Instance : /\ x = NoInstance \/ (x.rev = insts[o].rev /\ x.created = insts[o].created)
                              /\ ChangeInstance(o, x)
    BY <1>7, InstanceStep
  <2>a. ~NoInstance.created BY DEF NoInstance
  <2>2. x.created => x.rev = insts[o].rev /\ insts[o].created BY <2>1, <2>a, Zenon
  <2>3. insts' = [insts EXCEPT ![o] = x] /\ UNCHANGED <<apiSet, cacheSet, cacheInsts>>
    BY <2>1 DEF ChangeInstance, setVars
  <2>4. \A u \in Ordinals : Pinned(u) /\ insts'[u].created => insts'[u].rev = InitSpec.template
    BY <2>2, <2>3 DEF FieldTypes, PinInv
  <2> QED BY <2>3, <2>4 DEF PinInv, Pinned, BasePartition
<1>8. ASSUME NEW o \in Ordinals, WindowCloses(o) PROVE PinInv'
  BY <1>8, <1>1 DEF WindowCloses, setVars, instVars
<1>9. CASE ReconcileAwaitsStatus \/ TimerFires \/ UNCHANGED vars
  BY <1>9, <1>1 DEF ReconcileAwaitsStatus, TimerFires, vars, setVars, instVars
<1> QED BY <1>2, <1>3, <1>4, <1>5, <1>6, <1>7, <1>8, <1>9 DEF Next, Controller, Informers

\* PartitionPinned for every number of ordinals, every set of specs and every
\* interleaving of passes, lagging caches, failed calls, restarts and evictions:
\* in a set that was running InitSpec, an ordinal that no spec's partition
\* lets go never runs another revision.
THEOREM PartitionHolds == StartSettled /\ Spec => []PartitionPinned
<1>1. FieldTypes /\ PinInv => PartitionPinned BY DEF PinInv, PartitionPinned
<1> QED BY <1>1, InitType, StepType, InitPin, StepPin, PTL DEF Spec

=============================================================================
