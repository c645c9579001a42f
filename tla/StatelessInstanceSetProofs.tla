---------------------- MODULE StatelessInstanceSetProofs ----------------------
(***************************************************************************)
(* Proofs about StatelessInstanceSet: a pass never creates instances above *)
(* the replicas and maxSurge, and never takes available ones below what    *)
(* replicas and maxUnavailable ask for, for every strategy, size, number   *)
(* of changes and lag of the informer.                                     *)
(***************************************************************************)
EXTENDS StatelessInstanceSet, TLAPS, FiniteSetTheorems, SequenceTheorems

\* What the informer knows of an instance: one it has not listed is expected
\* to be created, and a deletion it has seen is not taken back.
Known(e) ==
  /\ e.seen = None => e.create
  /\ e.seen # None /\ e.live # None /\ e.seen.going => e.live.going
SurgeInv == TypeOK /\ \A i \in DOMAIN insts : Known(insts[i])

\* What a write of the controller may make of an entry: nothing the informer
\* has seen of it, and no deletion is undone.
Writes(e, f) ==
  /\ f \in Entry /\ f.seen = e.seen /\ f.create = e.create
  /\ f.live = None <=> e.live = None
  /\ e.live # None /\ e.live.going => f.live.going
\* All entries, written or not.
Written(old, all) ==
  /\ all \in Seq(Entry) /\ Len(all) = Len(old)
  /\ \A i \in DOMAIN old : Writes(old[i], all[i])

-----------------------------------------------------------------------------
(***************************************************************************)
(* The writes.                                                             *)
(***************************************************************************)

\* A write of the lifecycle state.
LEMMA WithStateWrites ==
  ASSUME NEW e \in Entry, e.live # None, NEW state \in LifecycleStates
  PROVE  Writes(e, WithState(e, state)) /\ WithState(e, state).live # None
<1> DEFINE o == [e.live EXCEPT !.state = state]
<1>1. e.live \in Object BY DEF Entry
<1>2. o \in Object /\ o.going = e.live.going BY <1>1 DEF Object
<1>3. WithState(e, state) = [e EXCEPT !.live = o, !.version = TRUE] BY DEF WithState, Entry
<1> HIDE DEF o
<1> QED BY <1>1, <1>2, <1>3, StatelessAssumption DEF Writes, Entry

LEMMA WritesTransitive ==
  ASSUME NEW e, NEW f, NEW g, Writes(e, f), Writes(f, g)
  PROVE  Writes(e, g)
BY DEF Writes

\* A write of a live object that keeps its deletion timestamp.
LEMMA LiveWrites ==
  ASSUME NEW e \in Entry, e.live # None, NEW o \in Object, e.live.going => o.going,
         NEW delete \in BOOLEAN, NEW version \in BOOLEAN,
         NEW f, f = [e EXCEPT !.live = o, !.delete = delete, !.version = version]
  PROVE  Writes(e, f) /\ f.live # None
BY StatelessAssumption DEF Writes, Entry

LEMMA DeleteEntryWrites ==
  ASSUME NEW e \in Entry, e.live # None
  PROVE  Writes(e, DeleteEntry(e))
<1>1. CASE IsRoleInstanceHooked(e.seen, "delete")
  BY <1>1, WithStateWrites DEF DeleteEntry, LifecycleStates
<1>2. CASE ~IsRoleInstanceHooked(e.seen, "delete")
  <2> DEFINE o == [e.live EXCEPT !.going = TRUE]
  <2>1. e.live \in Object BY DEF Entry
  <2>2. o \in Object /\ o.going BY <2>1 DEF Object
  <2>3. DeleteEntry(e) = [e EXCEPT !.live = o, !.delete = TRUE, !.version = e.version]
    BY <1>2 DEF DeleteEntry, Entry
  <2>4. e.version \in BOOLEAN BY DEF Entry
  <2> HIDE DEF o
  <2> QED BY <2>2, <2>3, <2>4, LiveWrites
<1> QED BY <1>1, <1>2

LEMMA RefreshedStates ==
  ASSUME NEW o
  PROVE  RefreshedState(o) \in {"Normal", "Updated", None}
BY Zenon DEF RefreshedState

LEMMA RefreshEntryWrites ==
  ASSUME NEW e \in Entry, e.live # None
  PROVE  Writes(e, RefreshEntry(e))
<1> DEFINE opened == IF e.seen.done THEN [e EXCEPT !.live.gate = TRUE] ELSE e
           o == [e.live EXCEPT !.gate = TRUE]
<1>1. e.live \in Object /\ e.delete \in BOOLEAN /\ e.version \in BOOLEAN BY DEF Entry
<1>2. Writes(e, opened) /\ opened.live # None
  <2>1. CASE e.seen.done
    <3>1. o \in Object /\ o.going = e.live.going BY <1>1 DEF Object
    <3>2. opened = [e EXCEPT !.live = o, !.delete = e.delete, !.version = e.version]
      BY <2>1 DEF Entry
    <3> HIDE DEF o, opened
    <3> QED BY <1>1, <3>1, <3>2, LiveWrites
  <2>2. CASE ~e.seen.done BY <2>2 DEF Writes
  <2> QED BY <2>1, <2>2
<1>3. RefreshEntry(e) = IF RefreshedState(e.seen) = None THEN opened
                        ELSE WithState(opened, RefreshedState(e.seen))
  BY DEF RefreshEntry
<1> HIDE DEF opened
<1>4. CASE RefreshedState(e.seen) = None BY <1>2, <1>3, <1>4
<1>5. CASE RefreshedState(e.seen) # None
  <2>1. RefreshedState(e.seen) \in LifecycleStates BY <1>5, RefreshedStates DEF LifecycleStates
  <2>2. opened \in Entry BY <1>2 DEF Writes
  <2>3. Writes(opened, WithState(opened, RefreshedState(e.seen))) BY <1>2, <2>1, <2>2, WithStateWrites
  <2> QED BY <1>2, <1>3, <1>5, <2>3, WritesTransitive
<1> QED BY <1>4, <1>5

LEMMA RevisionsKnown ==
  ASSUME TypeOK
  PROVE  /\ CurrentRevision \in Revisions /\ UpdateRevision \in Revisions
         /\ \A d : TargetRevision(d) \in Revisions
BY DEF TypeOK, CurrentRevision, UpdateRevision, TargetRevision, SetSpec

LEMMA InPlaceWrites ==
  ASSUME TypeOK, NEW d, NEW e \in Entry, e.live # None
  PROVE  Writes(e, InPlace(d, e))
<1> DEFINE o == [e.live EXCEPT !.gate = FALSE, !.ready = "no", !.done = FALSE,
                               !.rev = TargetRevision(d), !.state = "Updating"]
<1>1. e.live \in Object /\ e.delete \in BOOLEAN BY DEF Entry
<1>2. o \in Object /\ o.going = e.live.going BY <1>1, RevisionsKnown DEF Object, LifecycleStates
<1>3. InPlace(d, e) = [e EXCEPT !.live = o, !.delete = e.delete, !.version = TRUE]
  BY DEF InPlace, Entry
<1> HIDE DEF o
<1> QED BY <1>1, <1>2, <1>3, LiveWrites

LEMMA UpdateEntryWrites ==
  ASSUME TypeOK, NEW d, NEW e \in Entry, e.live # None
  PROVE  Writes(e, UpdateEntry(d, e))
<1> DEFINE doomed == [e EXCEPT !.live.doomed = TRUE, !.version = @ \/ ~e.seen.doomed]
           again == [WithState(e, "PreparingUpdate") EXCEPT !.live.hooks = @ \cup {"update"}]
<1>1. UpdateEntry(d, e) \in {doomed, WithState(e, "PreparingUpdate"), e, again, InPlace(d, e)}
  BY Zenon DEF UpdateEntry
<1>2. e.live \in Object /\ e.delete \in BOOLEAN /\ e.version \in BOOLEAN BY DEF Entry
<1>3. Writes(e, doomed)
  <2> DEFINE o == [e.live EXCEPT !.doomed = TRUE]
  <2>1. o \in Object /\ o.going = e.live.going BY <1>2 DEF Object
  <2>2. PICK v \in BOOLEAN : v = (e.version \/ ~e.seen.doomed) OBVIOUS
  <2>3. doomed = [e EXCEPT !.live = o, !.delete = e.delete, !.version = v]
    BY <2>2 DEF Entry
  <2> HIDE DEF o, doomed
  <2> QED BY <1>2, <2>1, <2>3, LiveWrites
<1>4. Writes(e, WithState(e, "PreparingUpdate")) /\ WithState(e, "PreparingUpdate").live # None
  BY WithStateWrites DEF LifecycleStates
<1>5. Writes(e, again)
  <2> DEFINE w == WithState(e, "PreparingUpdate")
             o == [w.live EXCEPT !.hooks = @ \cup {"update"}]
  <2>1. w \in Entry /\ w.live \in Object /\ w.delete \in BOOLEAN /\ w.version \in BOOLEAN
    BY <1>4 DEF Writes, Entry
  <2>2. o \in Object /\ o.going = w.live.going BY <2>1 DEF Object, Hooks
  <2>3. again = [w EXCEPT !.live = o, !.delete = w.delete, !.version = w.version]
    BY <2>1 DEF Entry
  <2> HIDE DEF o, w, again
  <2>4. Writes(w, again) BY <1>4, <2>1, <2>2, <2>3, LiveWrites DEF w
  <2> QED BY <1>4, <2>4, WritesTransitive DEF w
<1>6. Writes(e, e) BY DEF Writes
<1> HIDE DEF doomed, again
<1> QED BY <1>1, <1>3, <1>4, <1>5, <1>6, InPlaceWrites

\* An update in place that fails half way.
LEMMA FailedEntryWrites ==
  ASSUME NEW e \in Entry, NEW f \in FailedEntries(e)
  PROVE  Writes(e, f)
<1>1. CASE f = e BY <1>1 DEF Writes
<1>2. CASE f # e
  <2> DEFINE o == [e.live EXCEPT !.gate = FALSE, !.ready = "no"]
  <2>1. e.live # None /\ f = [e EXCEPT !.live.gate = FALSE, !.live.ready = "no"]
    BY <1>2 DEF FailedEntries
  <2>2. e.live \in Object /\ e.delete \in BOOLEAN /\ e.version \in BOOLEAN BY <2>1 DEF Entry
  <2>3. o \in Object /\ o.going = e.live.going BY <2>2 DEF Object
  <2>4. f = [e EXCEPT !.live = o, !.delete = e.delete, !.version = e.version]
    BY <2>1 DEF Entry
  <2> HIDE DEF o
  <2> QED BY <2>1, <2>2, <2>3, <2>4, LiveWrites
<1> QED BY <1>1, <1>2

-----------------------------------------------------------------------------
(***************************************************************************)
(* What a pass does to the instances: Update and the deletions write to    *)
(* entries, and only createInstances adds some.                            *)
(***************************************************************************)
LEMMA WrittenTransitive ==
  ASSUME NEW a, NEW b, NEW c, a \in Seq(Entry), Written(a, b), Written(b, c)
  PROVE  Written(a, c)
<1>1. b \in Seq(Entry) /\ c \in Seq(Entry) /\ Len(c) = Len(a) /\ DOMAIN b = DOMAIN a
  BY DEF Written
<1>2. ASSUME NEW i \in DOMAIN a PROVE Writes(a[i], c[i])
  BY <1>1, <1>2, WritesTransitive DEF Written
<1> QED BY <1>1, <1>2 DEF Written

LEMMA WrittenSame ==
  ASSUME NEW a \in Seq(Entry)
  PROVE  Written(a, a)
BY DEF Written, Writes

\* A sequence of entries built entry by entry.
LEMMA WrittenEach ==
  ASSUME NEW a \in Seq(Entry), NEW b, b = [i \in DOMAIN a |-> b[i]],
         \A i \in DOMAIN a : Writes(a[i], b[i])
  PROVE  Written(a, b)
<1>1. DOMAIN a = 1 .. Len(a) /\ Len(a) \in Nat OBVIOUS
<1>2. \A i \in 1 .. Len(a) : b[i] \in Entry BY <1>1 DEF Writes
<1>3. b \in Seq(Entry) /\ Len(b) = Len(a) BY <1>1, <1>2
<1> QED BY <1>3 DEF Written

LEMMA SucceedingLive ==
  ASSUME NEW S, NEW r \in Succeeding(S)
  PROVE  \A i \in r.did : insts[i].live # None
<1>1. CASE r = [did |-> S, failed |-> {}] /\ \A i \in S : insts[i].live # None
  BY <1>1
<1>2. CASE \E D \in SUBSET {i \in S : insts[i].live # None}, f \in {i \in S : CanFail(i)} :
             r = [did |-> D, failed |-> {f}]
  BY <1>2
<1> QED BY <1>1, <1>2 DEF Succeeding

LEMMA DeleteWritten ==
  ASSUME insts \in Seq(Entry), NEW S, NEW r \in DeleteInstances(S)
  PROVE  Written(insts, r.insts)
<1> DEFINE T == {i \in S : ~(IsRoleInstanceHooked(Seen(i), "delete")
                              /\ Seen(i).state = "PreparingDelete")}
<1>1. \E q \in Succeeding(T) :
        r = [insts |-> Map(DeleteEntry, insts, q.did),
             scaling |-> /\ q.did # {}
                         /\ \A f \in q.failed : ~IsRoleInstanceHooked(Seen(f), "delete"),
             failed |-> q.failed # {}]
  BY Zenon DEF DeleteInstances
<1>2. PICK q \in Succeeding(T) : r.insts = Map(DeleteEntry, insts, q.did)
  <2> HIDE DEF T
  <2> QED BY <1>1
<1>3. \A i \in q.did : insts[i].live # None BY <1>2, SucceedingLive
<1>4. r.insts = [i \in DOMAIN insts |-> IF i \in q.did THEN DeleteEntry(insts[i]) ELSE insts[i]]
  BY <1>2 DEF Map
<1>5. ASSUME NEW i \in DOMAIN insts PROVE Writes(insts[i], r.insts[i])
  <2>1. insts[i] \in Entry OBVIOUS
  <2>2. CASE i \in q.did BY <1>3, <1>4, <2>1, <2>2, DeleteEntryWrites
  <2>3. CASE i \notin q.did BY <1>4, <2>1, <2>3 DEF Writes
  <2> QED BY <2>2, <2>3
<1>6. r.insts = [i \in DOMAIN insts |-> r.insts[i]] BY <1>4
<1> QED BY <1>5, <1>6, WrittenEach

LEMMA RegretWritten ==
  ASSUME insts \in Seq(Entry), NEW r \in ManagePreparingDelete
  PROVE  Written(insts, r.insts)
<1> DEFINE F(e) == WithState(e, "Normal")
<1>1. \E q \in UNION {Succeeding(T) : T \in Regretted} :
        r = [insts |-> Map(F, insts, q.did), scaling |-> q.did # {}, failed |-> q.failed # {}]
  BY Zenon DEF ManagePreparingDelete
<1>q. PICK q \in UNION {Succeeding(T) : T \in Regretted} :
        r = [insts |-> Map(F, insts, q.did), scaling |-> q.did # {}, failed |-> q.failed # {}]
  BY <1>1
<1>2. PICK T \in Regretted : q \in Succeeding(T) BY <1>q
<1>3. \A i \in q.did : insts[i].live # None BY <1>2, SucceedingLive
<1>4. r.insts = [i \in DOMAIN insts |-> IF i \in q.did THEN WithState(insts[i], "Normal") ELSE insts[i]]
  BY <1>q DEF Map
<1>5. ASSUME NEW i \in DOMAIN insts PROVE Writes(insts[i], r.insts[i])
  <2>1. insts[i] \in Entry OBVIOUS
  <2>2. CASE i \in q.did BY <1>3, <1>4, <2>1, <2>2, WithStateWrites DEF LifecycleStates
  <2>3. CASE i \notin q.did BY <1>4, <2>1, <2>3 DEF Writes
  <2> QED BY <2>2, <2>3
<1>6. r.insts = [i \in DOMAIN insts |-> r.insts[i]] BY <1>4
<1> QED BY <1>5, <1>6, WrittenEach

\* Scale does one of its steps, or none.
ScaleCases(d, r) ==
  \/ r \in ManagePreparingDelete \/ r = Nothing
  \/ d.scaleUpLimit > 0 /\ r \in CreateInstances(d)
  \/ \E S \in {InPreDelete} \cup SpecifiedToDelete(d) \cup ScaledIn(d) : r \in DeleteInstances(S)

LEMMA ScaleSteps ==
  ASSUME NEW d, NEW r \in Scale(d)
  PROVE  ScaleCases(d, r)
<1>1. CASE r \in (IF Regretted = {} THEN {Nothing} ELSE ManagePreparingDelete) BY <1>1 DEF ScaleCases
<1>2. CASE r \in (IF d.scaleUpLimit > 0 THEN CreateInstances(d)
                  ELSE Otherwise(DeleteInstances(InPreDelete),
                         Otherwise(UNION {DeleteInstances(S) : S \in SpecifiedToDelete(d)},
                           IF d.scaleNum < 0 /\ PlannedDeleted = {}
                           THEN UNION {DeleteInstances(S) : S \in ScaledIn(d)} ELSE {Nothing})))
  <2>1. CASE d.scaleUpLimit > 0 BY <1>2, <2>1 DEF ScaleCases
  <2>2. CASE ~(d.scaleUpLimit > 0)
    <3>1. r \in DeleteInstances(InPreDelete)
            \/ r \in Otherwise(UNION {DeleteInstances(S) : S \in SpecifiedToDelete(d)},
                           IF d.scaleNum < 0 /\ PlannedDeleted = {}
                           THEN UNION {DeleteInstances(S) : S \in ScaledIn(d)} ELSE {Nothing})
      BY <1>2, <2>2 DEF Otherwise
    <3>2. r \in DeleteInstances(InPreDelete)
            \/ r \in UNION {DeleteInstances(S) : S \in SpecifiedToDelete(d)}
            \/ r \in (IF d.scaleNum < 0 /\ PlannedDeleted = {}
                      THEN UNION {DeleteInstances(S) : S \in ScaledIn(d)} ELSE {Nothing})
      BY <3>1 DEF Otherwise
    <3> QED BY <3>2 DEF ScaleCases
  <2> QED BY <2>1, <2>2
<1> QED BY <1>1, <1>2 DEF Scale, Otherwise

\* Scale creates, or writes to what there is.
LEMMA ScaleWritten ==
  ASSUME insts \in Seq(Entry), NEW d, NEW r \in Scale(d)
  PROVE  Written(insts, r.insts) \/ (d.scaleUpLimit > 0 /\ r \in CreateInstances(d))
<1>1. ScaleCases(d, r) BY ScaleSteps
<1>2. CASE r = Nothing BY <1>2, WrittenSame DEF Nothing
<1> QED BY <1>1, <1>2, DeleteWritten, RegretWritten DEF ScaleCases

\* The updates that were made, and one that failed.
LEMMA UpdatesWritten ==
  ASSUME TypeOK, NEW d, NEW all \in Seq(Entry), NEW u \in UpdateInstances(d, all)
  PROVE  Written(all, u.insts)
<1> DEFINE G(e) == UpdateEntry(d, e)
           Live(f, k) == \A j \in 1 .. k : all[f[j]].live # None
<1>1. PICK f \in Sorted(WaitUpdate(d)) :
        u \in UNION {UpdatedTo(d, all, f, CanUpdateCount(d, f), k) :
                     k \in {k \in 0 .. CanUpdateCount(d, f) : Live(f, k)}}
  BY DEF UpdateInstances
<1>2. PICK k \in 0 .. CanUpdateCount(d, f) : Live(f, k) /\ u \in UpdatedTo(d, all, f, CanUpdateCount(d, f), k)
  BY <1>1
<1> DEFINE done == Map(G, all, {f[j] : j \in 1 .. k})
<1>3. done = [i \in DOMAIN all |-> IF i \in {f[j] : j \in 1 .. k} THEN UpdateEntry(d, all[i]) ELSE all[i]]
  BY DEF Map
<1>4. ASSUME NEW i \in DOMAIN all PROVE Writes(all[i], done[i])
  <2>1. all[i] \in Entry OBVIOUS
  <2>2. CASE i \in {f[j] : j \in 1 .. k}
    <3>1. all[i].live # None BY <1>2, <2>2
    <3> QED BY <1>3, <2>1, <2>2, <3>1, UpdateEntryWrites
  <2>3. CASE i \notin {f[j] : j \in 1 .. k} BY <1>3, <2>1, <2>3 DEF Writes
  <2> QED BY <2>2, <2>3
<1>5. \/ u = [insts |-> done, failed |-> FALSE]
      \/ \E e \in FailedEntries(all[f[k + 1]]) :
           u = [insts |-> [done EXCEPT ![f[k + 1]] = e], failed |-> TRUE]
  BY <1>2, Zenon DEF UpdatedTo
<1>6. DOMAIN done = DOMAIN all BY <1>3
<1> HIDE DEF done, Live, G
<1>7. CASE u = [insts |-> done, failed |-> FALSE]
  <2>1. done = [i \in DOMAIN all |-> done[i]] BY <1>3
  <2> QED BY <1>4, <1>7, <2>1, WrittenEach
<1>8. ASSUME NEW e \in FailedEntries(all[f[k + 1]]),
             u = [insts |-> [done EXCEPT ![f[k + 1]] = e], failed |-> TRUE]
      PROVE  Written(all, u.insts)
  <2>1. u.insts = [i \in DOMAIN all |-> IF i = f[k + 1] THEN e ELSE done[i]] BY <1>3, <1>6, <1>8
  <2>2. ASSUME NEW i \in DOMAIN all PROVE Writes(all[i], u.insts[i])
    <3>1. all[i] \in Entry OBVIOUS
    <3>2. CASE i = f[k + 1] BY <1>8, <2>1, <3>1, <3>2, FailedEntryWrites
    <3>3. CASE i # f[k + 1] BY <1>4, <2>1, <3>3
    <3> QED BY <3>2, <3>3
  <2>3. u.insts = [i \in DOMAIN all |-> u.insts[i]] BY <2>1
  <2> QED BY <2>2, <2>3, WrittenEach
<1> QED BY <1>5, <1>7, <1>8

LEMMA UpdateWritten ==
  ASSUME TypeOK, NEW d, NEW all \in Seq(Entry), Written(insts, all), NEW u \in Update(d, all)
  PROVE  Written(insts, u.insts)
<1>1. PICK r \in Succeeding(ToRefresh) :
        \/ u = [insts |-> Map(RefreshEntry, all, r.did), failed |-> r.failed # {}]
        \/ u \in UpdateInstances(d, Map(RefreshEntry, all, r.did))
  BY DEF Update
<1> DEFINE refreshed == Map(RefreshEntry, all, r.did)
<1>2. refreshed = [i \in DOMAIN all |-> IF i \in r.did THEN RefreshEntry(all[i]) ELSE all[i]]
  BY DEF Map
<1>3. \A i \in r.did : insts[i].live # None BY <1>1, SucceedingLive
<1>4. insts \in Seq(Entry) /\ DOMAIN all = DOMAIN insts BY DEF TypeOK, Written
<1>5. ASSUME NEW i \in DOMAIN all PROVE Writes(all[i], refreshed[i])
  <2>1. all[i] \in Entry OBVIOUS
  <2>2. CASE i \in r.did
    <3>1. all[i].live # None BY <1>3, <1>4, <2>2 DEF Written, Writes
    <3> QED BY <1>2, <2>1, <2>2, <3>1, RefreshEntryWrites
  <2>3. CASE i \notin r.did BY <1>2, <2>1, <2>3 DEF Writes
  <2> QED BY <2>2, <2>3
<1>6. refreshed = [i \in DOMAIN all |-> refreshed[i]] BY <1>2
<1> HIDE DEF refreshed
<1>7. Written(all, refreshed) BY <1>5, <1>6, WrittenEach
<1>8. Written(insts, refreshed) /\ refreshed \in Seq(Entry)
  BY <1>4, <1>7, WrittenTransitive DEF Written
<1>9. CASE u = [insts |-> refreshed, failed |-> r.failed # {}] BY <1>8, <1>9
<1>10. CASE u \in UpdateInstances(d, refreshed)
  <2>1. Written(refreshed, u.insts) BY <1>8, <1>10, UpdatesWritten
  <2> QED BY <1>4, <1>8, <2>1, WrittenTransitive
<1> QED BY <1>1, <1>9, <1>10 DEF refreshed

-----------------------------------------------------------------------------
(***************************************************************************)
(* createInstances: new entries behind the old ones, no more than the      *)
(* limit.                                                                  *)
(***************************************************************************)
LEMMA CreatedWithin ==
  ASSUME NEW n \in Int, NEW S \in CreatedOf(n)
  PROVE  S \subseteq 1 .. n
<1>1. CASE S = 1 .. n BY <1>1
<1>2. CASE \E b \in {1, 2, 4, 8} \cap 1 .. n :
             \E D \in (SUBSET (b .. Smaller(2 * b - 1, n))) : S = (1 .. b - 1) \cup D
  BY <1>2 DEF Smaller
<1>3. S = 1 .. n \/ S \in UNION {{(1 .. b - 1) \cup D : D \in (SUBSET (b .. Smaller(2 * b - 1, n)))
                                               \ {b .. Smaller(2 * b - 1, n)}} :
                 b \in {1, 2, 4, 8} \cap 1 .. n}
  BY Zenon DEF CreatedOf
<1>4. CASE S # 1 .. n
  <2>1. PICK b \in {1, 2, 4, 8} \cap 1 .. n :
          S \in {(1 .. b - 1) \cup D : D \in (SUBSET (b .. Smaller(2 * b - 1, n)))
                                               \ {b .. Smaller(2 * b - 1, n)}}
    BY <1>3, <1>4, Zenon
  <2>2. \E D \in SUBSET (b .. Smaller(2 * b - 1, n)) : S = (1 .. b - 1) \cup D
    BY <2>1, Zenon
  <2> QED BY <1>2, <2>1, <2>2
<1> QED BY <1>1, <1>4

LEMMA NewInstanceType ==
  ASSUME TypeOK, NEW rev \in Revisions
  PROVE  NewInstance(rev) \in Entry /\ Known(NewInstance(rev))
<1>1. conf.labels \in SUBSET Hooks BY DEF TypeOK, Configuration
<1> DEFINE o == [rev |-> rev, state |-> "Normal", ready |-> "no", gate |-> FALSE,
                 done |-> FALSE, doomed |-> FALSE, hooks |-> conf.labels, going |-> FALSE]
<1>2. o \in Object BY <1>1 DEF Object, LifecycleStates
<1>3. NewInstance(rev) = [live |-> o, seen |-> None, create |-> TRUE, delete |-> FALSE,
                          version |-> FALSE, named |-> FALSE]
  BY DEF NewInstance
<1> HIDE DEF o
<1> QED BY <1>2, <1>3 DEF Entry, Known

\* The instances that were there, and n new ones.
Longer(all, n) ==
  /\ all \in Seq(Entry) /\ n \in Nat /\ Len(all) = Len(insts) + n
  /\ \A i \in DOMAIN insts : Writes(insts[i], all[i])
  /\ \A i \in DOMAIN all \ DOMAIN insts : Known(all[i])

LEMMA CreateLonger ==
  ASSUME TypeOK, NEW d, d.scaleUpLimit \in Nat, NEW r \in CreateInstances(d)
  PROVE  /\ \E n \in 0 .. d.scaleUpLimit : Longer(r.insts, n)
         /\ \A i \in DOMAIN insts : r.insts[i] = insts[i]
         /\ ~r.scaling => r.insts = insts /\ Written(insts, r.insts)
<1> DEFINE limit == d.scaleUpLimit
           Rev(S, k) == IF k <= Cardinality(S \cap (1 .. Smaller(d.scaleNumOldRevision, limit)))
                        THEN CurrentRevision ELSE UpdateRevision
           New(S) == [k \in 1 .. Cardinality(S) |-> NewInstance(Rev(S, k))]
<1>1. \E S \in CreatedOf(limit) :
        r = [insts |-> insts \o New(S), scaling |-> S # {}, failed |-> S # 1 .. limit]
  BY Zenon DEF CreateInstances
<1>2. PICK S \in CreatedOf(limit) :
        r = [insts |-> insts \o New(S), scaling |-> S # {}, failed |-> S # 1 .. limit]
  BY <1>1, Zenon
<1>a. r.insts = insts \o New(S)
  <2> HIDE DEF New
  <2> QED BY <1>2
<1>b. r.scaling = (S # {}) BY <1>2, Zenon
<1>3. S \subseteq 1 .. limit BY <1>2, CreatedWithin
<1>4. IsFiniteSet(1 .. limit) /\ Cardinality(1 .. limit) = limit BY FS_Interval
<1>5. Cardinality(S) \in 0 .. limit
  <2>1. S \in SUBSET (1 .. limit) BY <1>3
  <2>2. IsFiniteSet(S) /\ Cardinality(S) <= limit BY <1>4, <2>1, FS_Subset
  <2>3. Cardinality(S) \in Nat BY <2>2, FS_CardinalityType
  <2> QED BY <2>2, <2>3
<1>6. \A k : Rev(S, k) \in Revisions BY RevisionsKnown
<1>7. \A k \in 1 .. Cardinality(S) : New(S)[k] \in Entry /\ Known(New(S)[k])
  <2> TAKE k \in 1 .. Cardinality(S)
  <2>1. New(S)[k] = NewInstance(Rev(S, k)) OBVIOUS
  <2> HIDE DEF New, Rev
  <2> QED BY <1>6, <2>1, NewInstanceType
<1>8. New(S) = [k \in 1 .. Cardinality(S) |-> New(S)[k]] OBVIOUS
<1> HIDE DEF New, Rev
<1>9. New(S) \in Seq(Entry) /\ Len(New(S)) = Cardinality(S) BY <1>5, <1>7, <1>8
<1>10. insts \in Seq(Entry) /\ Len(insts) \in Nat /\ DOMAIN insts = 1 .. Len(insts) BY DEF TypeOK
<1>11. Longer(r.insts, Cardinality(S)) /\ \A i \in DOMAIN insts : r.insts[i] = insts[i]
  <2>1. r.insts \in Seq(Entry) /\ Len(r.insts) = Len(insts) + Cardinality(S)
    BY <1>a, <1>9, <1>10, ConcatProperties
  <2>2. \A i \in 1 .. Len(r.insts) : r.insts[i] = IF i <= Len(insts) THEN insts[i] ELSE New(S)[i - Len(insts)]
    BY <1>a, <1>9, <1>10
  <2>3. \A i \in DOMAIN insts : r.insts[i] = insts[i] BY <1>5, <1>10, <2>1, <2>2
  <2>4. \A i \in DOMAIN r.insts \ DOMAIN insts : Known(r.insts[i])
    <3> TAKE i \in DOMAIN r.insts \ DOMAIN insts
    <3>a. DOMAIN r.insts = 1 .. Len(r.insts) BY <2>1
    <3>1. i \in 1 .. Len(r.insts) /\ ~(i <= Len(insts)) BY <1>10, <3>a
    <3>2. i - Len(insts) \in 1 .. Cardinality(S) BY <1>5, <1>10, <2>1, <3>1
    <3>3. r.insts[i] = New(S)[i - Len(insts)] BY <2>2, <3>1
    <3> QED BY <1>7, <3>2, <3>3
  <2>5. \A i \in DOMAIN insts : Writes(insts[i], r.insts[i]) BY <1>10, <2>3 DEF Writes
  <2> QED BY <1>5, <2>1, <2>3, <2>4, <2>5 DEF Longer
<1>12. ASSUME ~r.scaling PROVE r.insts = insts /\ Written(insts, r.insts)
  <2>1. S = {} BY <1>b, <1>12, Zenon
  <2>2. Cardinality(S) = 0 BY <2>1, FS_EmptySet
  <2>3. r.insts = insts BY <1>a, <1>9, <1>10, <2>2
  <2> QED BY <1>10, <2>3, WrittenSame
<1> QED BY <1>5, <1>11, <1>12

\* A pass writes, or creates within its limit.
LEMMA SyncWritten ==
  ASSUME TypeOK, NEW d, d.scaleUpLimit \in Nat, NEW r \in Sync(d)
  PROVE  Written(insts, r.insts) \/ \E n \in 1 .. d.scaleUpLimit : Longer(r.insts, n)
<1>1. PICK q \in Scale(d) :
        \/ q.scaling /\ r = [insts |-> q.insts, failed |-> q.failed]
        \/ ~q.scaling /\ \E u \in Update(d, q.insts) : r = [insts |-> u.insts, failed |-> q.failed \/ u.failed]
  BY Zenon DEF Sync
<1>2. insts \in Seq(Entry) BY DEF TypeOK
<1>3. Written(insts, q.insts) \/ q \in CreateInstances(d) BY <1>2, ScaleWritten
<1>4. ASSUME NEW n \in 0 .. d.scaleUpLimit, Longer(q.insts, n), n = 0 PROVE Written(insts, q.insts)
  <2>1. Len(q.insts) = Len(insts) /\ q.insts \in Seq(Entry) BY <1>2, <1>4 DEF Longer
  <2> QED BY <1>2, <1>4, <2>1 DEF Longer, Written, Writes
<1>5. CASE q.scaling /\ r = [insts |-> q.insts, failed |-> q.failed]
  <2>1. r.insts = q.insts BY <1>5
  <2>2. CASE q \in CreateInstances(d)
    <3>1. PICK n \in 0 .. d.scaleUpLimit : Longer(q.insts, n) BY <2>2, CreateLonger
    <3> QED BY <1>4, <2>1, <3>1
  <2> QED BY <1>3, <2>1, <2>2
<1>6. CASE ~q.scaling /\ \E u \in Update(d, q.insts) : r = [insts |-> u.insts, failed |-> q.failed \/ u.failed]
  <2>a. PICK u \in Update(d, q.insts) : r = [insts |-> u.insts, failed |-> q.failed \/ u.failed]
    BY <1>6, Zenon
  <2>1. r.insts = u.insts BY <2>a
  <2>2. Written(insts, q.insts) BY <1>3, <1>6, CreateLonger
  <2>3. q.insts \in Seq(Entry) BY <2>2 DEF Written
  <2> QED BY <2>1, <2>2, <2>3, UpdateWritten
<1> QED BY <1>1, <1>5, <1>6

-----------------------------------------------------------------------------
(***************************************************************************)
(* The numbers of calculateDiffsWithExpectation.                           *)
(***************************************************************************)
LEMMA ScaledValueType ==
  ASSUME NEW x \in IntOrString, NEW n \in Nat
  PROVE  ScaledValue(x, n) \in Nat
<1>1. x.value \in Nat /\ x.percent \in BOOLEAN BY DEF IntOrString
<1>2. PICK m \in Nat : m = x.value * n BY <1>1
<1>3. (m + 100 - 1) \div 100 \in Nat OBVIOUS
<1> QED BY <1>1, <1>2, <1>3 DEF ScaledValue, CeilDiv

LEMMA StrategyTypes ==
  ASSUME TypeOK
  PROVE  /\ spec.replicas \in Nat /\ Partition \in Int /\ MaxSurge \in Nat
         /\ MaxUnavailable \in Nat /\ ScaleMaxUnavailable \in Nat
<1>1. /\ spec.replicas \in Nat /\ spec.partition \in IntOrString
      /\ conf.maxSurge \in IntOrString /\ conf.maxUnavailable \in IntOrString
      /\ conf.scaleMaxUnavailable \in IntOrString \cup {None}
  BY DEF TypeOK, SetSpec, Configuration
<1>2. Partition \in Int
  <2>1. PICK v \in Nat : v = ScaledValue(spec.partition, spec.replicas) BY <1>1, ScaledValueType
  <2> QED BY <1>1, <2>1 DEF Partition, CalculatePartitionReplicas, AtMost
<1>3. MaxSurge \in Nat BY <1>1, ScaledValueType DEF MaxSurge
<1>4. MaxUnavailable \in Nat
  <2>1. conf.maxUnavailable.value \in Nat BY <1>1 DEF IntOrString
  <2>2. PICK m \in Nat : m = conf.maxUnavailable.value * spec.replicas BY <1>1, <2>1
  <2>3. m \div 100 \in Nat OBVIOUS
  <2> QED BY <1>1, <2>2, <2>3, ScaledValueType DEF MaxUnavailable
<1>5. ScaleMaxUnavailable \in Nat BY <1>1, ScaledValueType DEF ScaleMaxUnavailable
<1> QED BY <1>1, <1>2, <1>3, <1>4, <1>5

LEMMA FiniteInstances ==
  ASSUME TypeOK, NEW S \in SUBSET (DOMAIN insts)
  PROVE  IsFiniteSet(S) /\ Cardinality(S) \in Nat
<1>1. DOMAIN insts = 1 .. Len(insts) /\ Len(insts) \in Nat BY DEF TypeOK
<1>2. IsFiniteSet(DOMAIN insts) BY <1>1, FS_Interval
<1> QED BY <1>2, FS_Subset, FS_CardinalityType

LEMMA UpdateDiffsType ==
  ASSUME TypeOK
  PROVE  UpdateDiffs.old \in Int /\ UpdateDiffs.new \in Int
<1> DEFINE updated == OfRevision(Listed, UpdateRevision)
<1>1. PICK a \in Nat : a = Cardinality((Listed \ updated) \ InPreDelete)
  BY FiniteInstances DEF Listed
<1>2. PICK b \in Nat : b = Cardinality(updated \ InPreDelete)
  BY FiniteInstances DEF Listed, OfRevision
<1>3. UpdateDiffs = IF UpdateRevision = CurrentRevision
                    THEN [old |-> Larger(a - Partition, 0), new |-> Smaller(b - (spec.replicas - Partition), 0)]
                    ELSE [old |-> a - Partition, new |-> b - (spec.replicas - Partition)]
  BY <1>1, <1>2 DEF UpdateDiffs
<1> HIDE DEF updated
<1> QED BY <1>3, StrategyTypes DEF Larger, Smaller

LEMMA UseSurgeBound ==
  ASSUME TypeOK, NEW unavailable \in Nat
  PROVE  /\ UseSurge(UpdateDiffs, unavailable).total \in Int
         /\ UseSurge(UpdateDiffs, unavailable).total <= MaxSurge
<1>1. MaxSurge \in Nat /\ MaxUnavailable \in Nat /\ Partition \in Int /\ spec.replicas \in Nat
  BY StrategyTypes
<1>2. PICK t \in Nat : t = Cardinality(ToDelete)
  BY FiniteInstances DEF ToDelete, Specified, Listed
<1>3. ScaleSurge(unavailable).total \in Int
  BY <1>1, <1>2 DEF ScaleSurge, Smaller, Larger
<1>4. UpdateDiffs.old \in Int /\ UpdateDiffs.new \in Int BY UpdateDiffsType
<1>5. UpdateSurge(UpdateDiffs).total \in Int
  BY <1>4 DEF UpdateSurge, Abs, OppositeSigns
<1>6. PICK m \in Int :
        UseSurge(UpdateDiffs, unavailable).total
          = IF MaxSurge > 0 /\ ~spec.paused THEN Smaller(MaxSurge, m) ELSE 0
  BY <1>3, <1>5 DEF UseSurge
<1> QED BY <1>1, <1>6 DEF Smaller

\* What a pass plans to create fits between what is listed and the surge.
LEMMA PlannedCreations ==
  ASSUME TypeOK, NEW unavailable, unavailable = TotalUnavailable,
         NEW useSurge, useSurge = UseSurge(UpdateDiffs, unavailable),
         NEW d, d = CalculateDiffs(UpdateDiffs, unavailable, useSurge)
  PROVE  /\ d.scaleUpLimit \in Nat
         /\ d.scaleUpLimit > 0 => Cardinality(Listed) + d.scaleUpLimit <= spec.replicas + MaxSurge
<1>1. unavailable \in Nat
  BY FiniteInstances DEF TotalUnavailable, InPreDelete, Listed
<1>2. useSurge.total \in Int /\ useSurge.total <= MaxSurge BY <1>1, UseSurgeBound
<1>3. PICK n \in Nat : n = Cardinality(Listed) BY FiniteInstances DEF Listed
<1>4. spec.replicas \in Nat /\ MaxSurge \in Nat /\ ScaleMaxUnavailable \in Nat BY StrategyTypes
<1>5. PICK num \in Int : num = spec.replicas + useSurge.total - n BY <1>2, <1>4
<1>6. d.scaleUpLimit = IF num > 0 THEN Smaller(num, Larger(ScaleMaxUnavailable - unavailable, 0)) ELSE 0
  BY <1>3, <1>5 DEF CalculateDiffs
<1>7. d.scaleUpLimit \in Nat /\ (d.scaleUpLimit > 0 => d.scaleUpLimit <= num)
  BY <1>1, <1>4, <1>6 DEF Smaller, Larger
<1> QED BY <1>2, <1>3, <1>4, <1>5, <1>7

-----------------------------------------------------------------------------
(***************************************************************************)
(* The invariant.                                                          *)
(***************************************************************************)
LEMMA WritesKnown ==
  ASSUME NEW e \in Entry, Known(e), NEW f, Writes(e, f)
  PROVE  f \in Entry /\ Known(f)
BY DEF Known, Writes

LEMMA TruncatedWritten ==
  ASSUME NEW all \in Seq(Entry)
  PROVE  Written(all, Truncated(all))
<1> DEFINE b == Truncated(all)
<1>1. b = [i \in DOMAIN all |-> [all[i] EXCEPT !.named = @ /\ i \in Listed]] BY DEF Truncated
<1>2. ASSUME NEW i \in DOMAIN all PROVE Writes(all[i], b[i])
  <2>1. all[i] \in Entry OBVIOUS
  <2>2. PICK v \in BOOLEAN : v = (all[i].named /\ i \in Listed) OBVIOUS
  <2>3. b[i] = [all[i] EXCEPT !.named = v] BY <1>1, <2>2
  <2> HIDE DEF b
  <2> QED BY <2>1, <2>3 DEF Writes, Entry
<1>3. b = [i \in DOMAIN all |-> b[i]] BY <1>1
<1> HIDE DEF b
<1>4. Written(all, b) BY <1>2, <1>3, WrittenEach
<1> QED BY <1>4 DEF b

LEMMA LongerWritten ==
  ASSUME NEW all, NEW n, Longer(all, n), NEW b, Written(all, b), insts \in Seq(Entry)
  PROVE  Longer(b, n)
<1>1. all \in Seq(Entry) /\ b \in Seq(Entry) /\ n \in Nat /\ Len(all) = Len(insts) + n
      /\ Len(b) = Len(all) /\ DOMAIN b = DOMAIN all
  BY DEF Longer, Written
<1>2. DOMAIN insts \subseteq DOMAIN all BY <1>1
<1>3. \A i \in DOMAIN insts : Writes(insts[i], b[i])
  BY <1>2, WritesTransitive DEF Longer, Written
<1>4. ASSUME NEW i \in DOMAIN b \ DOMAIN insts PROVE Known(b[i])
  <2>1. i \in DOMAIN all /\ all[i] \in Entry /\ Known(all[i]) /\ Writes(all[i], b[i])
    BY <1>1, <1>4 DEF Longer, Written
  <2> QED BY <2>1, WritesKnown
<1> QED BY <1>1, <1>3, <1>4 DEF Longer

\* What the step of a pass leaves.
LEMMA PassWritten ==
  ASSUME TypeOK, Pass
  PROVE  \/ Written(insts, insts')
         \/ \E n \in Nat : /\ Longer(insts', n)
                           /\ Cardinality(Listed) + n <= spec.replicas + MaxSurge
<1>1. PICK diff \in {UpdateDiffs}, unavailable \in {TotalUnavailable} :
      \E useSurge \in {UseSurge(diff, unavailable)} :
      \E d \in {CalculateDiffs(diff, unavailable, useSurge)} :
      \E r \in Sync(d) : insts' \in {Truncated(r.insts), r.insts}
  BY Zenon DEF Pass
<1>2. PICK useSurge \in {UseSurge(diff, unavailable)} :
      \E d \in {CalculateDiffs(diff, unavailable, useSurge)} :
      \E r \in Sync(d) : insts' \in {Truncated(r.insts), r.insts}
  BY <1>1
<1>3. PICK d \in {CalculateDiffs(diff, unavailable, useSurge)} :
      \E r \in Sync(d) : insts' \in {Truncated(r.insts), r.insts}
  BY <1>2
<1>4. PICK r \in Sync(d) : insts' \in {Truncated(r.insts), r.insts} BY <1>3
<1>5. /\ d.scaleUpLimit \in Nat
      /\ d.scaleUpLimit > 0 => Cardinality(Listed) + d.scaleUpLimit <= spec.replicas + MaxSurge
  BY <1>1, <1>2, <1>3, PlannedCreations
<1>6. insts \in Seq(Entry) BY DEF TypeOK
<1>7. CASE Written(insts, r.insts)
  <2>1. r.insts \in Seq(Entry) BY <1>7 DEF Written
  <2>2. Written(insts, Truncated(r.insts)) BY <1>6, <1>7, <2>1, TruncatedWritten, WrittenTransitive
  <2> QED BY <1>4, <1>7, <2>2
<1>8. ASSUME NEW n \in 1 .. d.scaleUpLimit, Longer(r.insts, n)
      PROVE  \E m \in Nat : /\ Longer(insts', m)
                            /\ Cardinality(Listed) + m <= spec.replicas + MaxSurge
  <2>1. r.insts \in Seq(Entry) BY <1>8 DEF Longer
  <2>2. Longer(Truncated(r.insts), n) BY <1>6, <1>8, <2>1, TruncatedWritten, LongerWritten
  <2>3. Longer(insts', n) BY <1>4, <1>8, <2>2
  <2>4. Cardinality(Listed) \in Nat BY FiniteInstances DEF Listed
  <2>5. Cardinality(Listed) + n <= spec.replicas + MaxSurge BY <1>5, <2>4, StrategyTypes
  <2> QED BY <1>5, <2>3, <2>5
<1> QED BY <1>5, <1>7, <1>8, SyncWritten

LEMMA RemoveAtEntries ==
  ASSUME NEW s \in Seq(Entry), NEW i \in 1 .. Len(s)
  PROVE  /\ RemoveAt(s, i) \in Seq(Entry) /\ Len(RemoveAt(s, i)) = Len(s) - 1
         /\ \A k \in DOMAIN RemoveAt(s, i) : \E j \in DOMAIN s : RemoveAt(s, i)[k] = s[j]
<1>1. Len(s) \in Nat OBVIOUS
<1>2. /\ SubSeq(s, 1, i - 1) \in Seq(Entry) /\ Len(SubSeq(s, 1, i - 1)) = i - 1
      /\ \A k \in 1 .. i - 1 : SubSeq(s, 1, i - 1)[k] = s[k]
  BY <1>1, SubSeqProperties
<1>3. /\ SubSeq(s, i + 1, Len(s)) \in Seq(Entry) /\ Len(SubSeq(s, i + 1, Len(s))) = Len(s) - i
      /\ \A k \in 1 .. Len(s) - i : SubSeq(s, i + 1, Len(s))[k] = s[i + k]
  BY <1>1, SubSeqProperties
<1>4. PICK a \in Seq(Entry) : a = SubSeq(s, 1, i - 1) BY <1>2
<1>5. PICK b \in Seq(Entry) : b = SubSeq(s, i + 1, Len(s)) BY <1>3
<1>6. PICK c \in Seq(Entry) : c = a \o b BY ConcatProperties
<1>7. RemoveAt(s, i) = c BY <1>4, <1>5, <1>6 DEF RemoveAt
<1>8. Len(a) = i - 1 /\ Len(b) = Len(s) - i BY <1>2, <1>3, <1>4, <1>5
<1>9. Len(c) = Len(s) - 1 BY <1>1, <1>6, <1>8, ConcatProperties
<1>10. ASSUME NEW k \in DOMAIN c PROVE \E j \in DOMAIN s : c[k] = s[j]
  <2>1. k \in 1 .. Len(s) - 1 BY <1>9
  <2>2. c[k] = IF k <= Len(a) THEN a[k] ELSE b[k - Len(a)] BY <1>6, <1>9, <2>1, ConcatProperties
  <2>3. CASE k <= i - 1 BY <1>1, <1>2, <1>4, <1>8, <2>1, <2>2, <2>3
  <2>4. CASE ~(k <= i - 1)
    <3>1. k - (i - 1) \in 1 .. Len(s) - i /\ i + (k - (i - 1)) = k + 1 /\ k + 1 \in 1 .. Len(s)
      BY <1>1, <2>1, <2>4
    <3>2. b[k - (i - 1)] = s[i + (k - (i - 1))] BY <1>3, <1>5, <3>1
    <3>3. c[k] = s[k + 1] BY <1>8, <2>2, <2>4, <3>1, <3>2
    <3> QED BY <3>1, <3>3
  <2> QED BY <2>3, <2>4
<1> QED BY <1>7, <1>9, <1>10

\* The part of the invariant that is about the instances.
Sound(all) == all \in Seq(Entry) /\ \A i \in DOMAIN all : Known(all[i])

LEMMA WrittenSound ==
  ASSUME Sound(insts), NEW all, Written(insts, all) \/ \E n \in Nat : Longer(all, n)
  PROVE  Sound(all)
<1>1. CASE Written(insts, all)
  <2>1. all \in Seq(Entry) /\ DOMAIN all = DOMAIN insts BY <1>1 DEF Written, Sound
  <2>2. ASSUME NEW i \in DOMAIN all PROVE Known(all[i])
    <3>1. insts[i] \in Entry /\ Known(insts[i]) /\ Writes(insts[i], all[i])
      BY <1>1, <2>1, <2>2 DEF Written, Sound
    <3> QED BY <3>1, WritesKnown
  <2> QED BY <2>1, <2>2 DEF Sound
<1>2. ASSUME NEW n \in Nat, Longer(all, n) PROVE Sound(all)
  <2>1. ASSUME NEW i \in DOMAIN all PROVE Known(all[i])
    <3>1. CASE i \in DOMAIN insts
      <4>1. insts[i] \in Entry /\ Known(insts[i]) /\ Writes(insts[i], all[i])
        BY <1>2, <3>1 DEF Longer, Sound
      <4> QED BY <4>1, WritesKnown
    <3>2. CASE i \notin DOMAIN insts BY <1>2, <2>1, <3>2 DEF Longer
    <3> QED BY <3>1, <3>2
  <2> QED BY <1>2, <2>1 DEF Longer, Sound
<1> QED BY <1>1, <1>2

LEMMA OneEntrySound ==
  ASSUME Sound(insts), NEW i \in DOMAIN insts, NEW f \in Entry, Known(f),
         NEW b, b = [insts EXCEPT ![i] = f]
  PROVE  Sound(b) /\ Len(b) = Len(insts)
<1>1. insts \in Seq(Entry) /\ Len(insts) \in Nat /\ DOMAIN insts = 1 .. Len(insts) BY DEF Sound
<1>2. b = [j \in 1 .. Len(insts) |-> b[j]] /\ \A j \in 1 .. Len(insts) : b[j] = IF j = i THEN f ELSE insts[j]
  BY <1>1
<1>3. \A j \in 1 .. Len(insts) : b[j] \in Entry /\ Known(b[j]) BY <1>1, <1>2 DEF Sound
<1>4. b \in Seq(Entry) /\ Len(b) = Len(insts) BY <1>1, <1>2, <1>3
<1> QED BY <1>1, <1>3, <1>4 DEF Sound

\* The API server's object of an instance changes.
LEMMA LiveSound ==
  ASSUME Sound(insts), NEW i \in DOMAIN insts, NEW o \in Object \cup {None},
         insts[i].live # None, insts[i].live.going /\ o # None => o.going,
         insts' = [insts EXCEPT ![i].live = o]
  PROVE  Sound(insts') /\ Len(insts') = Len(insts)
<1> DEFINE f == [insts[i] EXCEPT !.live = o]
<1>1. insts[i] \in Entry /\ Known(insts[i]) BY DEF Sound
<1>2. f \in Entry BY <1>1 DEF Entry
<1>3. f.seen = insts[i].seen /\ f.live = o /\ f.create = insts[i].create BY <1>1 DEF Entry
<1>4. Known(f) BY <1>1, <1>3 DEF Known
<1>5. insts' = [insts EXCEPT ![i] = f] OBVIOUS
<1> HIDE DEF f
<1> QED BY <1>2, <1>4, <1>5, OneEntrySound

LEMMA InformerSound ==
  ASSUME Sound(insts), NEW i \in DOMAIN insts, Deliver(i)
  PROVE  Sound(insts') /\ Len(insts') <= Len(insts)
<1>1. insts \in Seq(Entry) /\ Len(insts) \in Nat /\ DOMAIN insts = 1 .. Len(insts) BY DEF Sound
<1>2. CASE insts[i].live = None
  <2>1. insts' = RemoveAt(insts, i) BY <1>2 DEF Deliver
  <2>a. /\ RemoveAt(insts, i) \in Seq(Entry) /\ Len(RemoveAt(insts, i)) = Len(insts) - 1
        /\ \A k \in DOMAIN RemoveAt(insts, i) : \E j \in DOMAIN insts : RemoveAt(insts, i)[k] = insts[j]
    <3>1. i \in 1 .. Len(insts) BY <1>1
    <3> QED BY <1>1, <3>1, RemoveAtEntries, Zenon
  <2>2. PICK b : b = RemoveAt(insts, i) OBVIOUS
  <2>3. b \in Seq(Entry) /\ Len(b) = Len(insts) - 1 /\ \A k \in DOMAIN b : \E j \in DOMAIN insts : b[k] = insts[j]
    BY <2>a, <2>2
  <2>4. \A k \in DOMAIN b : Known(b[k]) BY <2>3 DEF Sound
  <2> QED BY <1>1, <2>1, <2>2, <2>3, <2>4 DEF Sound
<1>3. CASE insts[i].live # None
  <2> DEFINE e == insts[i]
  <2>e. e \in Entry BY <1>1
  <2>1. e \in Entry /\ e.live \in Object BY <1>3, <2>e DEF Entry
  <2>2. PICK v \in BOOLEAN : v = (e.delete /\ ~e.live.going) OBVIOUS
  <2> DEFINE f == [e EXCEPT !.seen = e.live, !.create = FALSE, !.version = FALSE, !.delete = v]
  <2>3. f \in Entry /\ f.seen = e.live /\ f.live = e.live BY <2>1 DEF Entry
  <2>4. Known(f) BY <1>3, <2>3 DEF Known
  <2>5. insts' = [insts EXCEPT ![i] = f] BY <1>1, <1>3, <2>1, <2>2 DEF Deliver, Entry
  <2> HIDE DEF f
  <2>6. Sound(insts') /\ Len(insts') = Len(insts) BY <2>3, <2>4, <2>5, OneEntrySound
  <2> QED BY <1>1, <2>6
<1> QED BY <1>2, <1>3

LEMMA AgeSound ==
  ASSUME Sound(insts), NEW i \in DOMAIN insts, Age(i)
  PROVE  Sound(insts') /\ Len(insts') = Len(insts)
<1> DEFINE Older(o) == IF o # None /\ o.ready = "fresh" THEN [o EXCEPT !.ready = "old"] ELSE o
           e == insts[i]
           f == [e EXCEPT !.live = Older(e.live), !.seen = Older(e.seen)]
<1>1. e \in Entry /\ Known(e) BY DEF Sound
<1>2. \A o \in Object \cup {None} :
        /\ Older(o) \in Object \cup {None} /\ (Older(o) = None <=> o = None)
        /\ o # None => Older(o).going = o.going
  BY StatelessAssumption DEF Object
<1>3. e.live \in Object \cup {None} /\ e.seen \in Object \cup {None} BY <1>1 DEF Entry
<1>4. insts' = [insts EXCEPT ![i] = f] BY DEF Age
<1> HIDE DEF Older
<1>5. f \in Entry /\ f.live = Older(e.live) /\ f.seen = Older(e.seen) /\ f.create = e.create
  BY <1>1, <1>2, <1>3 DEF Entry
<1>6. Known(f) BY <1>1, <1>2, <1>3, <1>5 DEF Known
<1> HIDE DEF f
<1> QED BY <1>4, <1>5, <1>6, OneEntrySound

LEMMA RestartSound ==
  ASSUME Sound(insts), Restart
  PROVE  Sound(insts') /\ Len(insts') <= Len(insts)
<1> DEFINE L == {i \in DOMAIN insts : insts[i].live # None}
<1>1. insts \in Seq(Entry) /\ Len(insts) \in Nat /\ DOMAIN insts = 1 .. Len(insts) BY DEF Sound
<1>2. L \in SUBSET (1 .. Len(insts)) BY <1>1
<1>3. IsFiniteSet(1 .. Len(insts)) /\ Cardinality(1 .. Len(insts)) = Len(insts) BY <1>1, FS_Interval
<1>4. PICK n \in Nat : n = Cardinality(L) /\ n <= Len(insts)
  <2> HIDE DEF L
  <2>1. IsFiniteSet(L) /\ Cardinality(L) <= Len(insts) BY <1>2, <1>3, FS_Subset
  <2> QED BY <2>1, FS_CardinalityType
<1>5. PICK f \in [1 .. n -> L] : insts' = [k \in 1 .. n |-> Relisted(insts[f[k]])]
  BY <1>4 DEF Restart, Ascending
<1>6. ASSUME NEW e \in Entry, e.live # None PROVE Relisted(e) \in Entry /\ Known(Relisted(e))
  <2>1. e.live \in Object BY <1>6 DEF Entry
  <2>2. Relisted(e).seen = e.live /\ Relisted(e).live = e.live BY <1>6 DEF Relisted, Entry
  <2>3. Relisted(e) \in Entry BY <1>6, <2>1 DEF Relisted, Entry
  <2> QED BY <1>6, <2>2, <2>3 DEF Known
<1>7. ASSUME NEW k \in 1 .. n PROVE insts'[k] \in Entry /\ Known(insts'[k])
  <2>1. f[k] \in DOMAIN insts /\ insts[f[k]].live # None BY <1>5, <1>7
  <2>2. insts[f[k]] \in Entry BY <1>1, <2>1
  <2>3. insts'[k] = Relisted(insts[f[k]]) BY <1>5, <1>7
  <2> QED BY <1>6, <2>1, <2>2, <2>3
<1>8. PICK b : b = insts' OBVIOUS
<1>a. b = [k \in 1 .. n |-> b[k]] /\ \A k \in 1 .. n : b[k] \in Entry
  <2>1. DOMAIN b = 1 .. n /\ b = [k \in 1 .. n |-> Relisted(insts[f[k]])] BY <1>5, <1>8
  <2>2. \A k \in 1 .. n : b[k] \in Entry BY <1>7, <1>8
  <2> QED BY <2>1, <2>2
<1>b. b \in Seq(Entry) /\ Len(b) = n
  <2>1. n \in Nat BY <1>4
  <2> HIDE DEF L
  <2> QED BY <2>1, <1>a
<1>9. insts' \in Seq(Entry) /\ Len(insts') = n BY <1>8, <1>b
<1> QED BY <1>1, <1>4, <1>7, <1>9 DEF Sound

\* The instance controller, and what befalls instances: nobody takes a deletion back.
LEMMA InstanceSound ==
  ASSUME SurgeInv, NEW i \in DOMAIN insts,
         \/ Report(i) \/ Finish(i) \/ ReleaseHook(i)
         \/ LabelForDeletion(i) \/ Fail(i) \/ Evict(i)
  PROVE  Sound(insts') /\ Len(insts') = Len(insts)
<1> DEFINE l == insts[i].live
<1>1. Sound(insts) /\ insts[i] \in Entry BY DEF SurgeInv, Sound, TypeOK
<1>2. l \in Object \cup {None} BY <1>1 DEF Entry
<1>3. ASSUME NEW o \in Object \cup {None}, l # None, l.going /\ o # None => o.going, SetLive(i, o)
      PROVE  Sound(insts') /\ Len(insts') = Len(insts)
  BY <1>1, <1>3, LiveSound DEF SetLive
<1> HIDE DEF l
<1>4. CASE Report(i)
  <2>1. l # None /\ l \in Object /\ ~l.going BY <1>2, <1>4 DEF Report, l
  <2>2. CASE SetLive(i, [l EXCEPT !.done = TRUE])
    <3>1. [l EXCEPT !.done = TRUE] \in Object BY <2>1 DEF Object
    <3> QED BY <1>3, <2>1, <2>2, <3>1
  <2>3. ASSUME NEW x \in {"fresh", "old"}, SetLive(i, [l EXCEPT !.ready = x])
        PROVE  Sound(insts') /\ Len(insts') = Len(insts)
    <3>1. [l EXCEPT !.ready = x] \in Object BY <2>1 DEF Object
    <3> QED BY <1>3, <2>1, <2>3, <3>1
  <2> QED BY <1>4, <2>2, <2>3 DEF Report, l
<1>5. CASE Finish(i) BY <1>3, <1>5 DEF Finish, l
<1>6. CASE ReleaseHook(i)
  <2>1. l # None /\ l \in Object /\ ~l.going BY <1>2, <1>6 DEF ReleaseHook, l
  <2>2. ASSUME NEW H \in SUBSET Hooks, SetLive(i, [l EXCEPT !.hooks = H])
        PROVE  Sound(insts') /\ Len(insts') = Len(insts)
    <3>1. [l EXCEPT !.hooks = H] \in Object BY <2>1 DEF Object
    <3> QED BY <1>3, <2>1, <2>2, <3>1
  <2>3. l.hooks \in SUBSET Hooks BY <2>1 DEF Object
  <2>4. PICK H \in SUBSET Hooks : SetLive(i, [l EXCEPT !.hooks = H])
    BY <1>6, <2>3 DEF ReleaseHook, l, Hooks
  <2> QED BY <2>2, <2>4
<1>7. CASE LabelForDeletion(i)
  <2>1. l # None /\ l \in Object BY <1>2, <1>7 DEF LabelForDeletion, l
  <2>2. [l EXCEPT !.doomed = TRUE] \in Object /\ [l EXCEPT !.doomed = TRUE].going = l.going
    BY <2>1 DEF Object
  <2>3. SetLive(i, [l EXCEPT !.doomed = TRUE]) BY <1>7 DEF LabelForDeletion, l
  <2> QED BY <1>3, <2>1, <2>2, <2>3
<1>8. CASE Fail(i)
  <2>1. l # None /\ l \in Object BY <1>2, <1>8 DEF Fail, l
  <2>2. [l EXCEPT !.ready = "no"] \in Object /\ [l EXCEPT !.ready = "no"].going = l.going
    BY <2>1 DEF Object
  <2>3. SetLive(i, [l EXCEPT !.ready = "no"]) BY <1>8 DEF Fail, l
  <2> QED BY <1>3, <2>1, <2>2, <2>3
<1>9. CASE Evict(i)
  <2>1. l # None /\ l \in Object BY <1>2, <1>9 DEF Evict, l
  <2>2. [l EXCEPT !.going = TRUE] \in Object /\ [l EXCEPT !.going = TRUE].going
    BY <2>1 DEF Object
  <2>3. SetLive(i, [l EXCEPT !.going = TRUE]) BY <1>9 DEF Evict, l
  <2> QED BY <1>3, <2>1, <2>2, <2>3
<1> QED BY <1>4, <1>5, <1>6, <1>7, <1>8, <1>9

LEMMA NameSound ==
  ASSUME SurgeInv, NEW i \in DOMAIN insts, NameForDeletion(i)
  PROVE  Sound(insts') /\ Len(insts') = Len(insts)
<1> DEFINE f == [insts[i] EXCEPT !.named = TRUE]
<1>1. Sound(insts) /\ insts[i] \in Entry /\ Known(insts[i]) BY DEF SurgeInv, Sound, TypeOK
<1>2. f \in Entry BY <1>1 DEF Entry
<1>3. f.seen = insts[i].seen /\ f.live = insts[i].live /\ f.create = insts[i].create BY <1>1 DEF Entry
<1>4. Known(f) BY <1>1, <1>3 DEF Known
<1>5. insts' = [insts EXCEPT ![i] = f] BY DEF NameForDeletion
<1> HIDE DEF f
<1> QED BY <1>1, <1>2, <1>4, <1>5, OneEntrySound

\* Whatever happens, the instances stay sound, and only a pass adds to them.
LEMMA StepSound ==
  ASSUME SurgeInv, Next
  PROVE  /\ Sound(insts')
         /\ Len(insts') > Len(insts) => Pass
<1>1. Sound(insts) /\ TypeOK /\ Len(insts) \in Nat BY DEF SurgeInv, Sound, TypeOK
<1>2. ASSUME UNCHANGED insts PROVE Sound(insts') /\ Len(insts') = Len(insts) BY <1>1, <1>2
<1>3. CASE Skip \/ DeliverStatus \/ Fire \/ ChangeSpec
  BY <1>1, <1>2, <1>3 DEF Skip, DeliverStatus, Fire, ChangeSpec
<1>4. CASE Pass BY <1>1, <1>4, PassWritten, WrittenSound
<1>5. ASSUME NEW i \in DOMAIN insts, Deliver(i) PROVE Sound(insts') /\ ~(Len(insts') > Len(insts))
  <2>1. Sound(insts') /\ Len(insts') <= Len(insts) BY <1>1, <1>5, InformerSound
  <2>2. Len(insts') \in Nat BY <2>1 DEF Sound
  <2> QED BY <1>1, <2>1, <2>2
<1>6. ASSUME NEW i \in DOMAIN insts, Age(i) PROVE Sound(insts') /\ ~(Len(insts') > Len(insts))
  BY <1>1, <1>6, AgeSound
<1>7. ASSUME NEW i \in DOMAIN insts, Report(i) \/ Finish(i) \/ ReleaseHook(i)
                                       \/ LabelForDeletion(i) \/ Fail(i) \/ Evict(i)
      PROVE  Sound(insts') /\ ~(Len(insts') > Len(insts))
  BY <1>1, <1>7, InstanceSound
<1>8. ASSUME NEW i \in DOMAIN insts, NameForDeletion(i)
      PROVE  Sound(insts') /\ ~(Len(insts') > Len(insts))
  BY <1>1, <1>8, NameSound
<1>9. CASE Restart
  <2>1. Sound(insts') /\ Len(insts') <= Len(insts) BY <1>1, <1>9, RestartSound
  <2>2. Len(insts') \in Nat BY <2>1 DEF Sound
  <2> QED BY <1>1, <2>1, <2>2
<1> QED BY <1>1, <1>3, <1>4, <1>5, <1>6, <1>7, <1>8, <1>9 DEF Next, Informer, Clock, Instance, Environment

-----------------------------------------------------------------------------
(***************************************************************************)
(* The invariant, and the bound on creations that follows from it.         *)
(***************************************************************************)
LEMMA InitSurge == Init => SurgeInv
<1> SUFFICES ASSUME Init PROVE SurgeInv OBVIOUS
<1>1. PICK s \in Scenarios :
        /\ conf = s.conf /\ spec = s.spec
        /\ \/ s.settled /\ insts = [i \in 1 .. s.spec.replicas |-> SettledInstance(s)]
              /\ current = s.spec.rev /\ currentSeen = s.spec.rev
           \/ ~s.settled /\ insts = << >> /\ current = None /\ currentSeen = None
  BY DEF Init
<1>2. s.conf \in Configuration /\ s.spec \in SetSpec BY StatelessAssumption
<1>3. /\ queued \in BOOLEAN /\ timer \in BOOLEAN /\ budget \in Nat
      /\ current \in Revisions \cup {None} /\ currentSeen \in Revisions \cup {None}
  BY <1>1, <1>2, StatelessAssumption DEF Init, SetSpec
<1>4. Sound(insts)
  <2>1. CASE insts = << >> BY <2>1 DEF Sound
  <2>2. CASE insts = [i \in 1 .. s.spec.replicas |-> SettledInstance(s)]
    <3>1. s.conf.labels \in SUBSET Hooks /\ s.spec.rev \in Revisions /\ s.spec.replicas \in Nat
      BY <1>2 DEF Configuration, SetSpec
    <3>2. PICK x \in Object : x = [rev |-> s.spec.rev, state |-> "Normal", ready |-> "old",
                 gate |-> TRUE, done |-> TRUE, doomed |-> FALSE, hooks |-> s.conf.labels, going |-> FALSE]
      BY <3>1 DEF Object, LifecycleStates
    <3>3. SettledInstance(s) = [live |-> x, seen |-> x, create |-> FALSE, delete |-> FALSE,
                                version |-> FALSE, named |-> FALSE]
      BY <3>2 DEF SettledInstance
    <3>4. PICK y : y = [live |-> x, seen |-> x, create |-> FALSE, delete |-> FALSE,
                        version |-> FALSE, named |-> FALSE]
      OBVIOUS
    <3>a. y \in Entry /\ y.live = x /\ y.seen = x BY <3>4 DEF Entry
    <3>5. Known(y) BY <3>a, StatelessAssumption DEF Known
    <3>6. PICK n \in Nat : n = s.spec.replicas BY <3>1
    <3>7. insts = [i \in 1 .. n |-> y] BY <2>2, <3>3, <3>4, <3>6
    <3>8. insts \in Seq(Entry) BY <3>a, <3>7
    <3> QED BY <3>5, <3>7, <3>8 DEF Sound
  <2> QED BY <1>1, <2>1, <2>2
<1> QED BY <1>1, <1>2, <1>3, <1>4 DEF SurgeInv, Sound, TypeOK

LEMMA StepSurge == SurgeInv /\ [Next]_vars => SurgeInv'
<1> SUFFICES ASSUME SurgeInv, [Next]_vars PROVE SurgeInv' OBVIOUS
<1>1. TypeOK BY DEF SurgeInv
<1>2. CASE UNCHANGED vars BY <1>2 DEF SurgeInv, TypeOK, vars
<1>3. CASE Next
  <2>1. Sound(insts') BY <1>3, StepSound
  <2>2. conf' = conf
    BY <1>3 DEF Next, Skip, Pass, Informer, Deliver, DeliverStatus, Clock, Age, Fire, Instance,
                Report, Finish, ReleaseHook, SetLive, Environment, ChangeSpec, Restart,
                NameForDeletion, LabelForDeletion, Fail, Evict
  <2>3. spec' \in SetSpec
    <3>1. CASE ChangeSpec
      <4>1. conf.sizes \subseteq Nat /\ conf.revisions \subseteq Revisions
              /\ conf.partitions \subseteq IntOrString
        BY <1>1 DEF TypeOK, Configuration
      <4>2. PICK b \in BOOLEAN : b = ~spec.paused OBVIOUS
      <4>3. \/ \E n \in Nat : spec' = [spec EXCEPT !.replicas = n]
            \/ \E rev \in Revisions : spec' = [spec EXCEPT !.rev = rev]
            \/ \E p \in IntOrString : spec' = [spec EXCEPT !.partition = p]
            \/ spec' = [spec EXCEPT !.paused = b]
        BY <3>1, <4>1, <4>2 DEF ChangeSpec
      <4> QED BY <1>1, <4>3 DEF TypeOK, SetSpec
    <3>2. CASE spec' = spec BY <1>1, <3>2 DEF TypeOK
    <3> QED BY <1>3, <3>1, <3>2
          DEF Next, Skip, Pass, Informer, Deliver, DeliverStatus, Clock, Age, Fire, Instance,
              Report, Finish, ReleaseHook, SetLive, Environment, Restart,
              NameForDeletion, LabelForDeletion, Fail, Evict
  <2>4. /\ current' \in Revisions \cup {None} /\ currentSeen' \in Revisions \cup {None}
        /\ queued' \in BOOLEAN /\ timer' \in BOOLEAN /\ budget' \in Nat
    <3>1. CASE Pass
      <4>1. NewCurrent \in Revisions BY <1>1, RevisionsKnown DEF NewCurrent
      <4>2. current' \in {current, NewCurrent} /\ currentSeen' = currentSeen
        BY <3>1, Zenon DEF Pass
      <4>3. queued' \in BOOLEAN /\ timer' \in BOOLEAN BY <3>1, Zenon DEF Pass
      <4>4. budget' = budget \/ (Faulty /\ budget' = budget - 1) BY <3>1, Zenon DEF Pass
      <4> QED BY <1>1, <4>1, <4>2, <4>3, <4>4 DEF TypeOK, Faulty
    <3>2. CASE \/ Skip \/ DeliverStatus \/ Fire \/ ChangeSpec \/ Restart
      <4>1. /\ current \in Revisions \cup {None} /\ currentSeen \in Revisions \cup {None}
            /\ queued \in BOOLEAN /\ timer \in BOOLEAN /\ budget \in Nat
        BY <1>1 DEF TypeOK
      <4>2. CASE Skip BY <4>1, <4>2 DEF Skip
      <4>3. CASE DeliverStatus BY <4>1, <4>3 DEF DeliverStatus
      <4>4. CASE Fire BY <4>1, <4>4 DEF Fire
      <4>5. CASE ChangeSpec BY <4>1, <4>5 DEF ChangeSpec, Spend
      <4>6. CASE Restart
        <5>1. budget > 0 /\ budget' = budget - 1 BY <4>6, Zenon DEF Restart, Spend
        <5>2. /\ current' = current /\ currentSeen' = current
              /\ queued' \in BOOLEAN /\ timer' \in BOOLEAN
          BY <4>6, Zenon DEF Restart
        <5>3. budget' \in Nat BY <4>1, <5>1
        <5> QED BY <4>1, <5>2, <5>3
      <4> QED BY <3>2, <4>2, <4>3, <4>4, <4>5, <4>6
    <3>3. ASSUME NEW i \in DOMAIN insts, Deliver(i) \/ Age(i) \/ NameForDeletion(i)
          PROVE  /\ current' = current /\ currentSeen' = currentSeen
                 /\ queued' \in {TRUE, queued} /\ timer' = timer /\ budget' \in Nat
      <4>1. budget \in Nat BY <1>1 DEF TypeOK
      <4>2. CASE Deliver(i) BY <4>1, <4>2 DEF Deliver
      <4>3. CASE Age(i) BY <4>1, <4>3 DEF Age
      <4>4. CASE NameForDeletion(i) BY <4>1, <4>4 DEF NameForDeletion, Spend
      <4> QED BY <3>3, <4>2, <4>3, <4>4
    <3>4. ASSUME NEW i \in DOMAIN insts, Report(i) \/ Finish(i) \/ ReleaseHook(i)
                                           \/ LabelForDeletion(i) \/ Fail(i) \/ Evict(i)
          PROVE  /\ current' = current /\ currentSeen' = currentSeen
                 /\ queued' = queued /\ timer' = timer /\ budget' \in Nat
      <4>1. budget \in Nat BY <1>1 DEF TypeOK
      <4>2. CASE Report(i) BY <4>1, <4>2 DEF Report, SetLive
      <4>3. CASE Finish(i) BY <4>1, <4>3 DEF Finish, SetLive
      <4>4. CASE ReleaseHook(i) BY <4>1, <4>4 DEF ReleaseHook, SetLive
      <4>5. CASE LabelForDeletion(i) \/ Fail(i) \/ Evict(i)
        BY <4>1, <4>5 DEF LabelForDeletion, Fail, Evict, SetLive, Spend
      <4> QED BY <3>4, <4>2, <4>3, <4>4, <4>5
    <3>5. ASSUME current' = current, currentSeen' = currentSeen,
                 queued' \in {TRUE, queued}, timer' = timer, budget' \in Nat
          PROVE  /\ current' \in Revisions \cup {None} /\ currentSeen' \in Revisions \cup {None}
                 /\ queued' \in BOOLEAN /\ timer' \in BOOLEAN /\ budget' \in Nat
      BY <1>1, <3>5 DEF TypeOK
    <3> QED BY <1>3, <3>1, <3>2, <3>3, <3>4, <3>5 DEF Next, Informer, Clock, Instance, Environment
  <2> QED BY <1>1, <2>1, <2>2, <2>3, <2>4 DEF SurgeInv, Sound, TypeOK
<1> QED BY <1>2, <1>3

\* The types of a stateless set, for every strategy, size and lag: the writes
\* of a pass and the events of the informer keep every entry well-formed, an
\* instance that was never listed is one whose creation is expected, and what
\* the informer has seen deleted is being deleted.
THEOREM StatelessInvariant == Spec => []SurgeInv
BY InitSurge, StepSurge, PTL DEF Spec

\* A pass that adds instances counts every one that is still there: it runs
\* only when no creation is expected, so all of them are listed.
LEMMA PassSurge ==
  ASSUME SurgeInv, Pass, Len(insts') > Len(insts)
  PROVE  Cardinality(Active(insts')) <= spec.replicas + MaxSurge
<1>1. TypeOK /\ insts \in Seq(Entry) /\ Len(insts) \in Nat /\ DOMAIN insts = 1 .. Len(insts)
  BY DEF SurgeInv, TypeOK
<1>2. ScaleSatisfied BY DEF Pass
<1>3. PICK n \in Nat : /\ Longer(insts', n)
                       /\ Cardinality(Listed) + n <= spec.replicas + MaxSurge
  <2>1. ~Written(insts, insts') BY <1>1 DEF Written
  <2> QED BY <1>1, <2>1, PassWritten
<1> DEFINE A == Active(insts')
           L == Listed
           N == Len(insts) + 1 .. Len(insts) + n
<1>4. A \in SUBSET (L \cup N)
  <2> SUFFICES ASSUME NEW i \in A PROVE i \in L \cup N OBVIOUS
  <2>1. i \in 1 .. Len(insts) + n /\ insts'[i].live # None /\ ~insts'[i].live.going
    BY <1>1, <1>3 DEF Active, Longer
  <2>2. CASE i \in DOMAIN insts
    <3>1. Writes(insts[i], insts'[i]) /\ insts[i] \in Entry /\ Known(insts[i]) /\ ~insts[i].create
      BY <1>1, <1>2, <1>3, <2>2 DEF Longer, SurgeInv, ScaleSatisfied
    <3>2. insts[i].live # None /\ ~insts[i].live.going BY <2>1, <3>1 DEF Writes
    <3>3. insts[i].seen # None /\ ~insts[i].seen.going BY <3>1, <3>2 DEF Known
    <3> QED BY <2>2, <3>3 DEF Listed
  <2>3. CASE i \notin DOMAIN insts BY <1>1, <2>1, <2>3
  <2> QED BY <2>2, <2>3
<1>5. IsFiniteSet(N) /\ Cardinality(N) = n
  <2>1. PICK a \in Int, b \in Int : a = Len(insts) + 1 /\ b = Len(insts) + n BY <1>1
  <2>2. N = a .. b BY <2>1
  <2>3. IsFiniteSet(a .. b) /\ Cardinality(a .. b) = IF a > b THEN 0 ELSE b - a + 1
    BY FS_Interval
  <2>4. (IF a > b THEN 0 ELSE b - a + 1) = n BY <1>1, <2>1
  <2> HIDE DEF N
  <2> QED BY <2>2, <2>3, <2>4
<1>6. IsFiniteSet(L) /\ Cardinality(L) \in Nat BY <1>1, FiniteInstances DEF Listed
<1> HIDE DEF A, L, N
<1>7. IsFiniteSet(L \cup N) /\ Cardinality(L \cup N) <= Cardinality(L) + n
        /\ Cardinality(L \cup N) \in Nat
  <2>1. IsFiniteSet(L \cap N) /\ Cardinality(L \cap N) \in Nat
    BY <1>6, FS_Intersection, FS_CardinalityType
  <2>2. /\ IsFiniteSet(L \cup N)
        /\ Cardinality(L \cup N) = Cardinality(L) + Cardinality(N) - Cardinality(L \cap N)
    BY <1>5, <1>6, FS_Union
  <2>3. Cardinality(L \cup N) \in Nat BY <2>2, FS_CardinalityType
  <2> QED BY <1>5, <1>6, <2>1, <2>2, <2>3
<1>8. Cardinality(A) <= Cardinality(L \cup N) /\ Cardinality(A) \in Nat
  BY <1>4, <1>7, FS_Subset, FS_CardinalityType
<1>9. Cardinality(L) + n <= spec.replicas + MaxSurge BY <1>3 DEF L
<1>10. spec.replicas \in Nat /\ MaxSurge \in Nat BY <1>1, StrategyTypes
<1>11. Cardinality(A) <= spec.replicas + MaxSurge BY <1>6, <1>7, <1>8, <1>9, <1>10
<1> QED BY <1>11 DEF A

\* SurgeKept for every strategy, number of replicas and sequence of changes:
\* Reconcile's gate on scaleExpectations makes the count of
\* calculateDiffsWithExpectation one that misses no instance, so that
\* createInstances never brings a set above its replicas and maxSurge, however
\* far the informer lags and whichever creations of an earlier pass failed.
THEOREM SurgeNeverExceeded == Spec => SurgeKept
<1>1. SurgeInv /\ [Next]_vars
        => [Len(insts') > Len(insts) =>
              Cardinality(Active(insts')) <= spec.replicas + MaxSurge]_vars
  BY StepSound, PassSurge
<1> QED BY <1>1, StatelessInvariant, PTL DEF Spec, SurgeKept

-----------------------------------------------------------------------------
(***************************************************************************)
(* The floor.  T is what a pass may take of the instances it lists as      *)
(* available.                                                              *)
(***************************************************************************)
Offered == {i \in Listed : IsInstanceAvailable(Seen(i))}
Serving(e) == e.live # None /\ ~e.live.going /\ IsInstanceAvailable(e.live)
\* Of the instances listed as available no others than T are taken.
Spares(old, all, T) == \A i \in Offered \ T : Serving(old[i]) => Serving(all[i])

LEMMA LeastNatural ==
  ASSUME NEW T \in SUBSET Nat, T # {}
  PROVE  \E x \in T : \A y \in T : x <= y
<1> DEFINE R == OpToRel(<, Nat)
<1>1. IsWellFoundedOn(R, Nat) BY NatLessThanWellFounded, Zenon
<1>2. \A x, y \in Nat : <<y, x>> \in R <=> y < x BY SMT DEF OpToRel
<1> HIDE DEF R
<1>3. PICK x \in T : \A y \in T : ~(<<y, x>> \in R) BY <1>1, WFMin, Zenon
<1>4. \A y \in T : ~(y < x) BY <1>2, <1>3, Zenon
<1> QED BY <1>4

LEMMA MaxBelow ==
  ASSUME NEW S, NEW m \in Nat, S \subseteq 0 .. m, S # {}
  PROVE  Max(S) \in S /\ \A y \in S : y <= Max(S)
<1> DEFINE T == {m - k : k \in S}
<1>1. T \in SUBSET Nat /\ T # {} OBVIOUS
<1>2. PICK x \in T : \A y \in T : x <= y BY <1>1, LeastNatural
<1>3. PICK n \in S : x = m - n BY <1>2
<1>4. \A y \in S : n >= y
  <2> SUFFICES ASSUME NEW y \in S PROVE n >= y OBVIOUS
  <2>1. m - y \in T OBVIOUS
  <2> HIDE DEF T
  <2> QED BY <1>2, <1>3, <2>1
<1> HIDE DEF T
<1>5. Max(S) \in S /\ \A y \in S : Max(S) >= y BY <1>4, Zenon DEF Max
<1> QED BY <1>5

\* A refresh leaves an instance alone that it sees as available.
LEMMA RefreshServing ==
  ASSUME NEW e \in Entry, IsInstanceAvailable(e.seen), Serving(e)
  PROVE  Serving(RefreshEntry(e))
<1>1. RefreshedState(e.seen) = None BY Zenon DEF IsInstanceAvailable, RefreshedState
<1>2. e.live \in Object BY DEF Entry, Serving
<1>3. CASE e.seen.done
  <2> DEFINE o == [e.live EXCEPT !.gate = TRUE]
  <2>1. RefreshEntry(e) = [e EXCEPT !.live.gate = TRUE] BY <1>1, <1>3, Zenon DEF RefreshEntry
  <2>2. RefreshEntry(e).live = o BY <2>1 DEF Entry
  <2>3. o \in Object /\ o.going = e.live.going /\ o.state = e.live.state /\ o.ready = e.live.ready
    BY <1>2 DEF Object
  <2> HIDE DEF o
  <2> QED BY <2>2, <2>3, StatelessAssumption DEF Serving, IsInstanceAvailable
<1>4. CASE ~e.seen.done BY <1>1, <1>4, Zenon DEF RefreshEntry
<1> QED BY <1>3, <1>4

\* An update that is not in place is the label on a doomed instance.
LEMMA RecreateServing ==
  ASSUME NEW d, NEW e \in Entry, ~conf.inPlace, Serving(e)
  PROVE  /\ Serving(UpdateEntry(d, e))
         /\ \A f \in FailedEntries(e) : f = e
<1>1. e.live \in Object BY DEF Entry, Serving
<1> DEFINE o == [e.live EXCEPT !.doomed = TRUE]
<1>2. UpdateEntry(d, e) = [e EXCEPT !.live.doomed = TRUE, !.version = @ \/ ~e.seen.doomed]
  BY Zenon DEF UpdateEntry
<1>3. UpdateEntry(d, e).live = o BY <1>2 DEF Entry
<1>4. o \in Object /\ o.going = e.live.going /\ o.state = e.live.state /\ o.ready = e.live.ready
  BY <1>1 DEF Object
<1> HIDE DEF o
<1>5. Serving(UpdateEntry(d, e)) BY <1>3, <1>4, StatelessAssumption DEF Serving, IsInstanceAvailable
<1>6. FailedEntries(e) = {e} \cup {}
  <2>1. ~(conf.inPlace /\ e.live # None) BY Zenon
  <2> QED BY <2>1, Zenon DEF FailedEntries
<1> QED BY <1>5, <1>6

\* Taking back a deletion takes nothing away.
LEMMA RegretServing ==
  ASSUME NEW e \in Entry, Serving(e)
  PROVE  Serving(WithState(e, "Normal"))
<1>1. e.live \in Object BY DEF Entry, Serving
<1> DEFINE o == [e.live EXCEPT !.state = "Normal"]
<1>2. WithState(e, "Normal").live = o BY DEF WithState, Entry
<1>3. o \in Object /\ o.going = e.live.going /\ o.state = "Normal" /\ o.ready = e.live.ready
  BY <1>1 DEF Object, LifecycleStates
<1> HIDE DEF o
<1> QED BY <1>2, <1>3, StatelessAssumption DEF Serving, IsInstanceAvailable

\* What deleteInstances does to S it does to no others; without a hook on
\* deletions a pass that reports nothing has done nothing.
LEMMA DeleteSpares ==
  ASSUME insts \in Seq(Entry), NEW S, NEW r \in DeleteInstances(S)
  PROVE  /\ Spares(insts, r.insts, S \cap Offered)
         /\ ~r.scaling => r.insts = insts \/ "delete" \in conf.handlers
<1> DEFINE T == {i \in S : ~(IsRoleInstanceHooked(Seen(i), "delete")
                              /\ Seen(i).state = "PreparingDelete")}
<1>1. \E q \in Succeeding(T) :
        r = [insts |-> Map(DeleteEntry, insts, q.did),
             scaling |-> /\ q.did # {}
                         /\ \A f \in q.failed : ~IsRoleInstanceHooked(Seen(f), "delete"),
             failed |-> q.failed # {}]
  BY Zenon DEF DeleteInstances
<1>2. PICK q \in Succeeding(T) :
        /\ r.insts = Map(DeleteEntry, insts, q.did)
        /\ ~r.scaling => q.did = {} \/ \E f \in q.failed : IsRoleInstanceHooked(Seen(f), "delete")
  <2> HIDE DEF T
  <2> QED BY <1>1
<1>3. q.did \subseteq S
  <2>1. CASE q = [did |-> T, failed |-> {}] BY <2>1
  <2>2. CASE \E D \in SUBSET {i \in T : insts[i].live # None}, f \in {i \in T : CanFail(i)} :
               q = [did |-> D, failed |-> {f}]
    BY <2>2
  <2> QED BY <1>2, <2>1, <2>2 DEF Succeeding
<1>4. r.insts = [i \in DOMAIN insts |-> IF i \in q.did THEN DeleteEntry(insts[i]) ELSE insts[i]]
  BY <1>2 DEF Map
<1>5. Offered \subseteq DOMAIN insts BY DEF Offered, Listed
<1>6. Spares(insts, r.insts, S \cap Offered) BY <1>3, <1>4, <1>5 DEF Spares
<1>7. ASSUME ~r.scaling, q.did = {} PROVE r.insts = insts BY <1>4, <1>7
<1>8. ASSUME NEW f, IsRoleInstanceHooked(Seen(f), "delete") PROVE "delete" \in conf.handlers
  BY <1>8 DEF IsRoleInstanceHooked
<1> QED BY <1>2, <1>6, <1>7, <1>8

LEMMA RegretSpares ==
  ASSUME insts \in Seq(Entry), NEW r \in ManagePreparingDelete
  PROVE  Spares(insts, r.insts, {}) /\ (~r.scaling => r.insts = insts)
<1> DEFINE F(e) == WithState(e, "Normal")
<1>1. \E q \in UNION {Succeeding(T) : T \in Regretted} :
        r = [insts |-> Map(F, insts, q.did), scaling |-> q.did # {}, failed |-> q.failed # {}]
  BY Zenon DEF ManagePreparingDelete
<1>2. PICK q \in UNION {Succeeding(T) : T \in Regretted} :
        r = [insts |-> Map(F, insts, q.did), scaling |-> q.did # {}, failed |-> q.failed # {}]
  BY <1>1
<1>3. r.insts = [i \in DOMAIN insts |-> IF i \in q.did THEN WithState(insts[i], "Normal") ELSE insts[i]]
  BY <1>2 DEF Map
<1>4. r.scaling = (q.did # {}) BY <1>2, Zenon
<1>5. ASSUME NEW i \in Offered, Serving(insts[i]) PROVE Serving(r.insts[i])
  <2>1. i \in DOMAIN insts /\ insts[i] \in Entry BY DEF Offered, Listed
  <2> QED BY <1>3, <1>5, <2>1, RegretServing
<1>6. ASSUME ~r.scaling PROVE r.insts = insts
  <2>1. q.did = {} BY <1>4, <1>6, Zenon
  <2> QED BY <1>3, <2>1
<1> QED BY <1>5, <1>6 DEF Spares

\* Of the instances S a step would delete, the ready ones that are within
\* the limit, and all others.
LEMMA LimitedDeletions ==
  ASSUME TypeOK, NEW S \in SUBSET Listed, NEW limit \in Nat,
         NEW T \in Sized({i \in S : IsInstanceReady(Seen(i))}, limit),
         NEW D, D = (S \ {i \in S : IsInstanceReady(Seen(i))}) \cup T
  PROVE  D \cap Offered \in SUBSET T /\ Cardinality(D \cap Offered) <= limit
<1> DEFINE ready == {i \in S : IsInstanceReady(Seen(i))}
<1>1. T \in SUBSET ready /\ Cardinality(T) = Smaller(limit, Cardinality(ready)) BY DEF Sized
<1>2. \A i \in S : i \in Offered => i \in ready
  BY DEF Offered, IsInstanceAvailable, IsInstanceReady
<1>3. D \cap Offered \in SUBSET T BY <1>1, <1>2
<1>4. ready \in SUBSET (DOMAIN insts) /\ T \in SUBSET (DOMAIN insts) BY <1>1 DEF Listed
<1>5. Cardinality(ready) \in Nat /\ IsFiniteSet(T) /\ Cardinality(T) \in Nat BY <1>4, FiniteInstances
<1>6. Cardinality(T) <= limit BY <1>1, <1>5 DEF Smaller
<1>7. Cardinality(D \cap Offered) <= Cardinality(T) /\ Cardinality(D \cap Offered) \in Nat
  BY <1>3, <1>5, FS_Subset, FS_CardinalityType
<1> QED BY <1>3, <1>5, <1>6, <1>7

LEMMA ChosenListed ==
  ASSUME NEW d, NEW U \in ChooseInstancesToDelete(d)
  PROVE  U \in SUBSET Listed
<1> DEFINE total == -d.scaleNum
           old == -d.scaleNumOldRevision
           updated == OfRevision(Listed, UpdateRevision)
           A == Choose(Listed \ updated, total)
           B == Choose(Listed \ updated, old)
           C == Choose(updated, total - old)
           D == Choose(updated, total)
<1>1. ChooseInstancesToDelete(d)
        = IF old >= total THEN A ELSE IF old > 0 THEN {S \cup T : S \in B, T \in C} ELSE D
  BY DEF ChooseInstancesToDelete
<1>2. \A V, n : \A W \in Choose(V, n) : W \in SUBSET V BY Zenon DEF Choose, Sized
<1>3. updated \in SUBSET Listed BY DEF OfRevision
<1> HIDE DEF total, old, updated
<1>4. A \cup B \subseteq SUBSET (Listed \ updated) /\ C \cup D \subseteq SUBSET updated BY <1>2
<1> HIDE DEF A, B, C, D
<1>5. U \in A \/ U \in D \/ \E S \in B, T \in C : U = S \cup T BY <1>1
<1> QED BY <1>3, <1>4, <1>5

LEMMA ScaleSpares ==
  ASSUME TypeOK, NEW d, d.scaleUpLimit \in Nat, d.deleteReadyLimit \in Nat, NEW r \in Scale(d)
  PROVE  /\ \E T \in SUBSET Offered :
              Spares(insts, r.insts, T) /\ Cardinality(T) <= d.deleteReadyLimit
         /\ ~r.scaling => r.insts = insts \/ "delete" \in conf.handlers
<1>1. insts \in Seq(Entry) BY DEF TypeOK
<1>2. ScaleCases(d, r) BY ScaleSteps
<1>3. Cardinality({}) <= d.deleteReadyLimit /\ {} \in SUBSET Offered BY FS_EmptySet
<1>4. ASSUME Spares(insts, r.insts, {}) /\ (~r.scaling => r.insts = insts)
      PROVE  /\ \E T \in SUBSET Offered :
                   Spares(insts, r.insts, T) /\ Cardinality(T) <= d.deleteReadyLimit
             /\ ~r.scaling => r.insts = insts
  BY <1>3, <1>4, Zenon
<1>5. CASE r \in ManagePreparingDelete BY <1>1, <1>4, <1>5, RegretSpares
<1>6. CASE r = Nothing
  <2>1. r.insts = insts BY <1>6 DEF Nothing
  <2>2. Spares(insts, r.insts, {}) BY <2>1 DEF Spares
  <2> QED BY <1>4, <2>1, <2>2
<1>7. CASE r \in CreateInstances(d)
  <2>1. /\ \A i \in DOMAIN insts : r.insts[i] = insts[i]
        /\ ~r.scaling => r.insts = insts
    BY <1>7, CreateLonger
  <2>2. Offered \subseteq DOMAIN insts BY DEF Offered, Listed
  <2>3. Spares(insts, r.insts, {}) BY <2>1, <2>2 DEF Spares
  <2> QED BY <1>4, <2>1, <2>3
<1>8. ASSUME NEW S, r \in DeleteInstances(S), Cardinality(S \cap Offered) <= d.deleteReadyLimit
      PROVE  /\ \E T \in SUBSET Offered :
                   Spares(insts, r.insts, T) /\ Cardinality(T) <= d.deleteReadyLimit
             /\ ~r.scaling => r.insts = insts \/ "delete" \in conf.handlers
  <2>1. S \cap Offered \in SUBSET Offered OBVIOUS
  <2>2. /\ Spares(insts, r.insts, S \cap Offered)
        /\ ~r.scaling => r.insts = insts \/ "delete" \in conf.handlers
    BY <1>1, <1>8, DeleteSpares
  <2> QED BY <1>8, <2>1, <2>2, Zenon
<1>9. CASE r \in DeleteInstances(InPreDelete)
  <2>1. InPreDelete \cap Offered = {} BY DEF InPreDelete, Offered, IsInstanceAvailable
  <2> QED BY <1>3, <1>8, <1>9, <2>1
<1>10. ASSUME NEW S \in SpecifiedToDelete(d), r \in DeleteInstances(S)
       PROVE  Cardinality(S \cap Offered) <= d.deleteReadyLimit
  <2> DEFINE ready == {i \in ToDelete : IsInstanceReady(Seen(i))}
  <2>1. PICK T \in Sized(ready, d.deleteReadyLimit) : S = (ToDelete \ ready) \cup T
    BY <1>10 DEF SpecifiedToDelete
  <2>2. ToDelete \in SUBSET Listed BY DEF ToDelete, Specified
  <2> QED BY <2>1, <2>2, LimitedDeletions
<1>11. ASSUME NEW S \in ScaledIn(d), r \in DeleteInstances(S)
       PROVE  Cardinality(S \cap Offered) <= d.deleteReadyLimit
  <2> DEFINE ready(U) == {i \in U : IsInstanceReady(Seen(i))}
  <2>1. PICK U \in ChooseInstancesToDelete(d) :
          \E T \in Sized(ready(U), d.deleteReadyLimit) : S = (U \ ready(U)) \cup T
    BY <1>11 DEF ScaledIn
  <2>2. PICK T \in Sized(ready(U), d.deleteReadyLimit) : S = (U \ ready(U)) \cup T BY <2>1
  <2>3. U \in SUBSET Listed BY <2>1, ChosenListed
  <2> QED BY <2>2, <2>3, LimitedDeletions
<1> QED BY <1>2, <1>4, <1>5, <1>6, <1>7, <1>8, <1>9, <1>10, <1>11 DEF ScaleCases

\* The updates of a pass take none but the first n of their order, and none at
\* all unless they are in place.
LEMMA UpdatesSpare ==
  ASSUME TypeOK, NEW d, NEW all \in Seq(Entry), DOMAIN all = DOMAIN insts,
         NEW f, NEW n \in Nat, NEW k \in 0 .. n, NEW u \in UpdatedTo(d, all, f, n, k)
  PROVE  /\ Spares(all, u.insts, {f[j] : j \in 1 .. n})
         /\ ~conf.inPlace => Spares(all, u.insts, {})
<1> DEFINE G(e) == UpdateEntry(d, e)
           first == {f[j] : j \in 1 .. k}
           done == Map(G, all, first)
<1>1. done = [i \in DOMAIN all |-> IF i \in first THEN UpdateEntry(d, all[i]) ELSE all[i]]
  BY DEF Map
<1>2. \/ u = [insts |-> done, failed |-> FALSE]
      \/ /\ k # n
         /\ \E e \in FailedEntries(all[f[k + 1]]) :
              u = [insts |-> [done EXCEPT ![f[k + 1]] = e], failed |-> TRUE]
  BY Zenon DEF UpdatedTo
<1>3. \A i \in Offered : i \in DOMAIN all /\ all[i] \in Entry BY DEF Offered, Listed
<1>4. first \subseteq {f[j] : j \in 1 .. n} /\ (k # n => f[k + 1] \in {f[j] : j \in 1 .. n})
  <2>1. \A j \in 1 .. k : j \in 1 .. n OBVIOUS
  <2>2. k # n => k + 1 \in 1 .. n OBVIOUS
  <2> QED BY <2>1, <2>2
<1> HIDE DEF done, first, G
<1>5. CASE u = [insts |-> done, failed |-> FALSE]
  <2>1. u.insts = done BY <1>5
  <2>2. Spares(all, u.insts, {f[j] : j \in 1 .. n}) BY <1>1, <1>3, <1>4, <2>1 DEF Spares
  <2>3. ASSUME ~conf.inPlace PROVE Spares(all, u.insts, {})
    BY <1>1, <1>3, <2>1, <2>3, RecreateServing DEF Spares
  <2> QED BY <2>2, <2>3
<1>6. ASSUME k # n, NEW e \in FailedEntries(all[f[k + 1]]),
             u = [insts |-> [done EXCEPT ![f[k + 1]] = e], failed |-> TRUE]
      PROVE  /\ Spares(all, u.insts, {f[j] : j \in 1 .. n})
             /\ ~conf.inPlace => Spares(all, u.insts, {})
  <2>1. u.insts = [i \in DOMAIN all |-> IF i = f[k + 1] THEN e ELSE done[i]] BY <1>1, <1>6
  <2>2. ASSUME NEW i \in Offered, i \notin {f[j] : j \in 1 .. n} PROVE u.insts[i] = all[i]
    BY <1>1, <1>3, <1>4, <1>6, <2>1, <2>2
  <2>3. Spares(all, u.insts, {f[j] : j \in 1 .. n}) BY <2>2 DEF Spares
  <2>4. ASSUME ~conf.inPlace, NEW i \in Offered, Serving(all[i]) PROVE Serving(u.insts[i])
    <3>1. Serving(done[i]) BY <1>1, <1>3, <2>4, RecreateServing
    <3>2. CASE i = f[k + 1]
      <4>1. e = all[i] BY <1>3, <1>6, <2>4, <3>2, RecreateServing
      <4> QED BY <1>3, <2>1, <2>4, <3>2, <4>1
    <3>3. CASE i # f[k + 1] BY <1>3, <2>1, <3>1, <3>3
    <3> QED BY <3>2, <3>3
  <2>5. ~conf.inPlace => Spares(all, u.insts, {}) BY <2>4 DEF Spares
  <2> QED BY <2>3, <2>5
<1> QED BY <1>2, <1>5, <1>6

\* limitUpdateIndexes: what is available among the first n, and what is not
\* available already, fit into the limit.
LEMMA UpdatesWithinLimit ==
  ASSUME TypeOK, NEW d, d.updateNum \in Int, d.updateMaxUnavailable \in Int,
         NEW f \in Sorted(WaitUpdate(d)), NEW n, n = CanUpdateCount(d, f),
         NEW T, T = {f[j] : j \in 1 .. n} \cap Offered
  PROVE  /\ n \in Nat /\ IsFiniteSet(T)
         /\ T = {} \/ Cardinality(T) + Cardinality(Listed \ Offered) <= d.updateMaxUnavailable
<1> DEFINE W == WaitUpdate(d)
           c == Cardinality(W)
           lost == Listed \ Offered
           P(k) == {j \in 1 .. k - 1 : IsInstanceAvailable(Seen(f[j]))}
           target == Cardinality(OfRevision(lost, TargetRevision(d)))
           Allowed(k) == /\ target + (k - 1) < d.updateMaxUnavailable
                         /\ IsInstanceAvailable(Seen(f[k]))
                              => Cardinality(lost) + Cardinality(P(k)) < d.updateMaxUnavailable
           m == Smaller(Abs(d.updateNum), Len(f))
           K == {k \in 0 .. m : \A j \in 1 .. k : Allowed(j)}
<1>1. W \in SUBSET Listed /\ Listed \in SUBSET (DOMAIN insts) BY DEF WaitUpdate, Listed
<1>2. c \in Nat BY <1>1, FiniteInstances
<1>3. f \in [1 .. c -> W] BY DEF Sorted
<1>4. Len(f) = c
  <2> HIDE DEF c, W
  <2> QED BY <1>2, <1>3
<1>5. lost = {i \in Listed : ~IsInstanceAvailable(Seen(i))} BY DEF Offered
<1>6. n = Max(K)
  <2>1. n = CanUpdateCount(d, f) OBVIOUS
  <2> HIDE DEF lost
  <2> QED BY <1>5, <2>1, Zenon DEF CanUpdateCount
<1>7. m \in Nat
  <2> HIDE DEF c, W
  <2> QED BY <1>2, <1>4 DEF Smaller, Abs
<1> HIDE DEF Allowed, m, c, W
<1>8. n \in K
  <2>1. K \subseteq 0 .. m /\ 0 \in K BY <1>7
  <2> HIDE DEF K
  <2> QED BY <1>6, <1>7, <2>1, MaxBelow
<1>9. n \in Nat /\ n <= m /\ \A j \in 1 .. n : Allowed(j) BY <1>7, <1>8
<1>10. n <= c BY <1>2, <1>4, <1>7, <1>9 DEF m, Smaller, Abs
<1> HIDE DEF K
<1> DEFINE J == {j \in 1 .. n : f[j] \in Offered}
           g == [j \in J |-> f[j]]
<1>11. IsFiniteSet(J) /\ Cardinality(J) \in Nat
  <2>1. J \in SUBSET (1 .. n) /\ IsFiniteSet(1 .. n) BY <1>9, FS_Interval
  <2> HIDE DEF J
  <2> QED BY <2>1, FS_Subset, FS_CardinalityType
<1>12. IsFiniteSet(T) /\ Cardinality(T) <= Cardinality(J) /\ Cardinality(T) \in Nat
  <2>1. g \in [J -> T] /\ \A t \in T : \E j \in J : g[j] = t OBVIOUS
  <2> HIDE DEF g, J
  <2>2. g \in Surjection(J, T) BY <2>1 DEF Surjection
  <2> QED BY <1>11, <2>2, FS_Surjection, FS_CardinalityType
<1>13. ASSUME T # {} PROVE Cardinality(T) + Cardinality(lost) <= d.updateMaxUnavailable
  <2>1. J # {} /\ J \subseteq 0 .. n BY <1>9, <1>13
  <2>2. PICK k \in J : \A j \in J : j <= k
    <3> HIDE DEF J
    <3> QED BY <1>9, <2>1, MaxBelow
  <2>3. k \in 1 .. n /\ f[k] \in Offered BY <2>2
  <2>4. Cardinality(lost) + Cardinality(P(k)) < d.updateMaxUnavailable
    <3>1. Allowed(k) /\ IsInstanceAvailable(Seen(f[k])) BY <1>9, <2>3 DEF Offered
    <3> QED BY <3>1 DEF Allowed
  <2>5. J \ {k} \subseteq P(k)
    <3> SUFFICES ASSUME NEW j \in J, j # k PROVE j \in P(k) OBVIOUS
    <3>1. j \in 1 .. n /\ j <= k /\ f[j] \in Offered BY <2>2
    <3>2. j \in 1 .. k - 1 BY <1>9, <2>3, <3>1
    <3> QED BY <3>1, <3>2 DEF Offered
  <2>6. IsFiniteSet(P(k)) /\ Cardinality(P(k)) \in Nat
    <3>1. P(k) \in SUBSET (1 .. k - 1) OBVIOUS
    <3>2. k - 1 \in Int BY <1>9, <2>3
    <3>3. IsFiniteSet(1 .. k - 1) BY <3>2, FS_Interval
    <3> HIDE DEF P
    <3> QED BY <3>1, <3>3, FS_Subset, FS_CardinalityType
  <2>7. Cardinality(lost) \in Nat
    <3>1. lost \in SUBSET (DOMAIN insts) BY <1>1
    <3> QED BY <3>1, FiniteInstances
  <2> HIDE DEF J, P, lost
  <2>8. Cardinality(J \ {k}) <= Cardinality(P(k)) BY <2>5, <2>6, FS_Subset
  <2>9. Cardinality(J \ {k}) = Cardinality(J) - 1 BY <1>11, <2>2, FS_RemoveElement
  <2> QED BY <1>11, <1>12, <2>4, <2>6, <2>7, <2>8, <2>9
<1> QED BY <1>9, <1>12, <1>13

LEMMA UpdateSpares ==
  ASSUME TypeOK, NEW d, d.updateNum \in Int, d.updateMaxUnavailable \in Int,
         NEW all \in Seq(Entry), Written(insts, all), NEW u \in Update(d, all)
  PROVE  /\ ~conf.inPlace => Spares(all, u.insts, {})
         /\ \E T \in SUBSET Offered :
              /\ Spares(all, u.insts, T)
              /\ T = {} \/ Cardinality(T) + Cardinality(Listed \ Offered) <= d.updateMaxUnavailable
<1>1. PICK r \in Succeeding(ToRefresh) :
        \/ u = [insts |-> Map(RefreshEntry, all, r.did), failed |-> r.failed # {}]
        \/ u \in UpdateInstances(d, Map(RefreshEntry, all, r.did))
  BY DEF Update
<1> DEFINE refreshed == Map(RefreshEntry, all, r.did)
<1>2. refreshed = [i \in DOMAIN all |-> IF i \in r.did THEN RefreshEntry(all[i]) ELSE all[i]]
  BY DEF Map
<1>3. insts \in Seq(Entry) /\ DOMAIN all = DOMAIN insts BY DEF TypeOK, Written
<1>4. \A i \in r.did : insts[i].live # None BY <1>1, SucceedingLive
<1>5. refreshed \in Seq(Entry)
  <2>1. ASSUME NEW i \in DOMAIN all PROVE Writes(all[i], refreshed[i])
    <3>1. all[i] \in Entry OBVIOUS
    <3>2. CASE i \in r.did
      <4>1. all[i].live # None BY <1>3, <1>4, <3>2 DEF Written, Writes
      <4> QED BY <1>2, <3>1, <3>2, <4>1, RefreshEntryWrites
    <3>3. CASE i \notin r.did BY <1>2, <3>1, <3>3 DEF Writes
    <3> QED BY <3>2, <3>3
  <2>2. refreshed = [i \in DOMAIN all |-> refreshed[i]] BY <1>2
  <2> HIDE DEF refreshed
  <2> QED BY <2>1, <2>2, WrittenEach DEF Written
<1> HIDE DEF refreshed
<1>6. ASSUME NEW i \in Offered, Serving(all[i]) PROVE Serving(refreshed[i])
  <2>1. i \in DOMAIN all /\ all[i] \in Entry /\ all[i].seen = insts[i].seen
    BY <1>3 DEF Offered, Listed, Written, Writes
  <2>2. IsInstanceAvailable(all[i].seen) BY <2>1 DEF Offered, Seen
  <2> QED BY <1>2, <1>6, <2>1, <2>2, RefreshServing
<1>7. CASE u = [insts |-> refreshed, failed |-> r.failed # {}]
  <2>1. Spares(all, u.insts, {}) BY <1>6, <1>7 DEF Spares
  <2> QED BY <2>1, Zenon
<1>8. CASE u \in UpdateInstances(d, refreshed)
  <2> DEFINE Live(f, k) == \A j \in 1 .. k : refreshed[f[j]].live # None
  <2>1. PICK f \in Sorted(WaitUpdate(d)) :
          u \in UNION {UpdatedTo(d, refreshed, f, CanUpdateCount(d, f), k) :
                       k \in {k \in 0 .. CanUpdateCount(d, f) : Live(f, k)}}
    BY <1>8 DEF UpdateInstances
  <2>2. PICK n : n = CanUpdateCount(d, f) OBVIOUS
  <2>3. PICK k \in 0 .. n : u \in UpdatedTo(d, refreshed, f, n, k) BY <2>1, <2>2
  <2>4. PICK T : T = {f[j] : j \in 1 .. n} \cap Offered OBVIOUS
  <2>5. /\ n \in Nat
        /\ T = {} \/ Cardinality(T) + Cardinality(Listed \ Offered) <= d.updateMaxUnavailable
    BY <2>1, <2>2, <2>4, UpdatesWithinLimit
  <2>6. /\ Spares(refreshed, u.insts, {f[j] : j \in 1 .. n})
        /\ ~conf.inPlace => Spares(refreshed, u.insts, {})
    <3>1. DOMAIN refreshed = DOMAIN insts BY <1>2, <1>3
    <3> QED BY <1>5, <2>3, <2>5, <3>1, UpdatesSpare
  <2>7. Spares(all, u.insts, T) /\ (~conf.inPlace => Spares(all, u.insts, {}))
    BY <1>6, <2>4, <2>6 DEF Spares
  <2>8. T \in SUBSET Offered BY <2>4
  <2> QED BY <2>5, <2>7, <2>8, Zenon
<1> QED BY <1>1, <1>7, <1>8 DEF refreshed

\* What a pass may take: as much as keeps the floor, given what is listed.
LEMMA PlannedLosses ==
  ASSUME TypeOK, NEW unavailable, unavailable = TotalUnavailable,
         NEW useSurge, useSurge = UseSurge(UpdateDiffs, unavailable),
         NEW d, d = CalculateDiffs(UpdateDiffs, unavailable, useSurge)
  PROVE  /\ d.deleteReadyLimit \in Nat /\ d.updateNum \in Int /\ unavailable \in Nat
         /\ d.updateMaxUnavailable = MaxUnavailable + Cardinality(Listed) - spec.replicas
         /\ d.deleteReadyLimit > 0
              => d.deleteReadyLimit + unavailable = MaxUnavailable + Cardinality(Listed) - spec.replicas
<1>1. unavailable \in Nat BY FiniteInstances DEF TotalUnavailable, InPreDelete, Listed
<1>2. PICK n \in Nat : n = Cardinality(Listed) BY FiniteInstances DEF Listed
<1>3. spec.replicas \in Nat /\ MaxUnavailable \in Nat BY StrategyTypes
<1>4. UpdateDiffs.old \in Int /\ UpdateDiffs.new \in Int BY UpdateDiffsType
<1>5. d.updateMaxUnavailable = MaxUnavailable + n - spec.replicas BY <1>2 DEF CalculateDiffs
<1>6. d.updateNum \in Int BY <1>4 DEF CalculateDiffs, Abs
<1>7. \/ d.deleteReadyLimit = 0
      \/ d.deleteReadyLimit = Larger(MaxUnavailable + (n - spec.replicas) - unavailable, 0)
  BY <1>2 DEF CalculateDiffs
<1>8. /\ d.deleteReadyLimit \in Nat
      /\ d.deleteReadyLimit > 0 => d.deleteReadyLimit + unavailable = MaxUnavailable + n - spec.replicas
  BY <1>1, <1>2, <1>3, <1>7 DEF Larger
<1> QED BY <1>1, <1>2, <1>5, <1>6, <1>8

\* A pass deletes or it updates.  Where updates are in place the two would
\* add up if a deletion that was half done were followed by them, as a hook on
\* deletions allows.
NoMixedPass == conf.inPlace => "delete" \notin conf.handlers

LEMMA SyncSpares ==
  ASSUME TypeOK, NoMixedPass, NEW d, d.scaleUpLimit \in Nat, d.deleteReadyLimit \in Nat,
         d.updateNum \in Int, d.updateMaxUnavailable \in Int, NEW r \in Sync(d)
  PROVE  \E T \in SUBSET Offered :
           /\ Spares(insts, r.insts, T)
           /\ \/ T = {} \/ Cardinality(T) <= d.deleteReadyLimit
              \/ Cardinality(T) + Cardinality(Listed \ Offered) <= d.updateMaxUnavailable
<1>1. PICK q \in Scale(d) :
        \/ q.scaling /\ r = [insts |-> q.insts, failed |-> q.failed]
        \/ ~q.scaling /\ \E u \in Update(d, q.insts) : r = [insts |-> u.insts, failed |-> q.failed \/ u.failed]
  BY Zenon DEF Sync
<1>2. PICK T \in SUBSET Offered :
        /\ Spares(insts, q.insts, T) /\ Cardinality(T) <= d.deleteReadyLimit
        /\ ~q.scaling => q.insts = insts \/ "delete" \in conf.handlers
  BY ScaleSpares
<1>3. CASE q.scaling /\ r = [insts |-> q.insts, failed |-> q.failed]
  <2>1. r.insts = q.insts BY <1>3
  <2> QED BY <1>2, <2>1, Zenon
<1>4. CASE ~q.scaling /\ \E u \in Update(d, q.insts) : r = [insts |-> u.insts, failed |-> q.failed \/ u.failed]
  <2>1. PICK u \in Update(d, q.insts) : r = [insts |-> u.insts, failed |-> q.failed \/ u.failed]
    BY <1>4, Zenon
  <2>2. r.insts = u.insts BY <2>1
  <2>3. insts \in Seq(Entry) BY DEF TypeOK
  <2>4. Written(insts, q.insts) BY <1>4, <2>3, ScaleWritten, CreateLonger
  <2>5. q.insts \in Seq(Entry) BY <2>4 DEF Written
  <2>6. /\ ~conf.inPlace => Spares(q.insts, u.insts, {})
        /\ \E V \in SUBSET Offered :
             /\ Spares(q.insts, u.insts, V)
             /\ V = {} \/ Cardinality(V) + Cardinality(Listed \ Offered) <= d.updateMaxUnavailable
    BY <2>4, <2>5, UpdateSpares
  <2>7. CASE conf.inPlace
    <3>1. q.insts = insts BY <1>2, <1>4, <2>7 DEF NoMixedPass
    <3> QED BY <2>2, <2>6, <3>1, Zenon
  <2>8. CASE ~conf.inPlace
    <3>1. Spares(insts, r.insts, T) BY <1>2, <2>2, <2>6, <2>8 DEF Spares
    <3> QED BY <1>2, <3>1, Zenon
  <2> QED BY <2>7, <2>8
<1> QED BY <1>1, <1>3, <1>4

\* What the step of a pass takes.
LEMMA PassSpares ==
  ASSUME TypeOK, NoMixedPass, Pass
  PROVE  \E T \in SUBSET Offered :
           /\ Spares(insts, insts', T)
           /\ \/ T = {}
              \/ Cardinality(T) + TotalUnavailable <= MaxUnavailable + Cardinality(Listed) - spec.replicas
              \/ Cardinality(T) + Cardinality(Listed \ Offered)
                   <= MaxUnavailable + Cardinality(Listed) - spec.replicas
<1>1. PICK diff \in {UpdateDiffs}, unavailable \in {TotalUnavailable} :
      \E useSurge \in {UseSurge(diff, unavailable)} :
      \E d \in {CalculateDiffs(diff, unavailable, useSurge)} :
      \E r \in Sync(d) : insts' \in {Truncated(r.insts), r.insts}
  BY Zenon DEF Pass
<1>2. PICK useSurge \in {UseSurge(diff, unavailable)} :
      \E d \in {CalculateDiffs(diff, unavailable, useSurge)} :
      \E r \in Sync(d) : insts' \in {Truncated(r.insts), r.insts}
  BY <1>1
<1>3. PICK d \in {CalculateDiffs(diff, unavailable, useSurge)} :
      \E r \in Sync(d) : insts' \in {Truncated(r.insts), r.insts}
  BY <1>2
<1>4. PICK r \in Sync(d) : insts' \in {Truncated(r.insts), r.insts} BY <1>3
<1>5. d.scaleUpLimit \in Nat BY <1>1, <1>2, <1>3, PlannedCreations
<1>6. /\ d.deleteReadyLimit \in Nat /\ d.updateNum \in Int /\ unavailable \in Nat
      /\ d.updateMaxUnavailable = MaxUnavailable + Cardinality(Listed) - spec.replicas
      /\ d.deleteReadyLimit > 0
           => d.deleteReadyLimit + unavailable = MaxUnavailable + Cardinality(Listed) - spec.replicas
  BY <1>1, <1>2, <1>3, PlannedLosses
<1>7. /\ MaxUnavailable \in Nat /\ spec.replicas \in Nat /\ Cardinality(Listed) \in Nat
      /\ d.updateMaxUnavailable \in Int
  BY <1>6, StrategyTypes, FiniteInstances DEF Listed
<1>8. PICK T \in SUBSET Offered :
        /\ Spares(insts, r.insts, T)
        /\ \/ T = {} \/ Cardinality(T) <= d.deleteReadyLimit
           \/ Cardinality(T) + Cardinality(Listed \ Offered) <= d.updateMaxUnavailable
  BY <1>4, <1>5, <1>6, <1>7, SyncSpares
<1>9. insts \in Seq(Entry) /\ r.insts \in Seq(Entry) /\ DOMAIN insts \subseteq DOMAIN r.insts
  <2>1. insts \in Seq(Entry) BY DEF TypeOK
  <2>2. Written(insts, r.insts) \/ \E n \in 1 .. d.scaleUpLimit : Longer(r.insts, n)
    BY <1>4, <1>5, SyncWritten
  <2>3. r.insts \in Seq(Entry) /\ Len(insts) <= Len(r.insts) BY <2>1, <2>2 DEF Written, Longer
  <2> QED BY <2>1, <2>3
<1>10. \A i \in DOMAIN insts : Truncated(r.insts)[i].live = r.insts[i].live
  BY <1>9 DEF Truncated, Entry
<1>11. Offered \subseteq DOMAIN insts BY DEF Offered, Listed
<1>12. Spares(insts, insts', T)
  BY <1>4, <1>8, <1>10, <1>11, Zenon DEF Spares, Serving
<1>13. ASSUME T # {}, Cardinality(T) <= d.deleteReadyLimit
       PROVE  Cardinality(T) + TotalUnavailable <= MaxUnavailable + Cardinality(Listed) - spec.replicas
  <2>1. IsFiniteSet(T) /\ Cardinality(T) \in Nat BY <1>11, FiniteInstances
  <2>2. Cardinality(T) # 0 BY <1>13, <2>1, FS_EmptySet
  <2>3. d.deleteReadyLimit > 0 BY <1>6, <1>13, <2>1, <2>2
  <2> QED BY <1>1, <1>6, <1>7, <1>13, <2>1, <2>3
<1> QED BY <1>6, <1>8, <1>12, <1>13

\* The arithmetic of the floor: what is listed as available is taken, lost
\* unseen or still there.
LEMMA PassFloor ==
  ASSUME SurgeInv, NoMixedPass, Pass, Taken # {}
  PROVE  Cardinality(Available(insts')) + Cardinality(UnseenLosses)
             + Cardinality({i \in ToDelete : ~IsInstanceAvailable(Seen(i))})
           >= spec.replicas - MaxUnavailable
<1> DEFINE A == Available(insts')
           U == UnseenLosses
           X == {i \in ToDelete : ~IsInstanceAvailable(Seen(i))}
           Y == InPreDelete \cup {i \in Listed \ Specified : ~IsInstanceAvailable(Seen(i))}
           O == Offered
           N == Listed \ Offered
<1>1. TypeOK BY DEF SurgeInv
<1>2. PICK T \in SUBSET O :
        /\ Spares(insts, insts', T)
        /\ \/ T = {}
           \/ Cardinality(T) + TotalUnavailable <= MaxUnavailable + Cardinality(Listed) - spec.replicas
           \/ Cardinality(T) + Cardinality(N) <= MaxUnavailable + Cardinality(Listed) - spec.replicas
  BY <1>1, PassSpares
<1>3. Sound(insts') /\ insts \in Seq(Entry) BY StepSound DEF Next, SurgeInv, TypeOK
<1>4. DOMAIN insts \subseteq DOMAIN insts'
  <2>1. Written(insts, insts') \/ \E n \in Nat : Longer(insts', n) BY <1>1, PassWritten
  <2>2. Len(insts) <= Len(insts') BY <1>3, <2>1 DEF Written, Longer
  <2> QED BY <1>3, <2>2 DEF Sound
<1>5. O \subseteq DOMAIN insts BY DEF Offered, Listed
<1>6. /\ \A i \in O : i \in Available(insts) <=> Serving(insts[i])
      /\ \A i \in O : i \in A <=> Serving(insts'[i])
  BY <1>4, <1>5 DEF Available, Active, Serving
<1>7. T # {}
  <2>1. PICK i \in Taken : TRUE OBVIOUS
  <2>2. i \in O /\ i \in Available(insts) /\ i \notin A BY <2>1 DEF Taken, Offered
  <2> QED BY <1>2, <1>6, <2>2 DEF Spares
<1>8. \A i \in Listed : ~insts[i].version /\ ~insts[i].delete
  BY DEF Pass, ScaleSatisfied, VersionsSatisfied, Listed
<1>9. O \subseteq T \cup (U \cup A)
  <2> SUFFICES ASSUME NEW i \in O, i \notin T, i \notin A PROVE i \in U OBVIOUS
  <2>1. ~Serving(insts[i]) BY <1>2, <1>6 DEF Spares
  <2>2. i \notin Available(insts) BY <1>6, <2>1
  <2> QED BY <1>8, <2>2 DEF UnseenLosses, Offered
<1>10. N \subseteq Y \cup X /\ Listed = O \cup N /\ O \cap N = {}
  BY DEF Offered, ToDelete, Specified
<1>11. /\ O \in SUBSET (DOMAIN insts) /\ N \in SUBSET (DOMAIN insts) /\ U \in SUBSET (DOMAIN insts)
       /\ X \in SUBSET (DOMAIN insts) /\ Y \in SUBSET (DOMAIN insts) /\ T \in SUBSET (DOMAIN insts)
  BY <1>2, <1>5 DEF Listed, UnseenLosses, ToDelete, Specified, InPreDelete
<1>12. IsFiniteSet(A) /\ Cardinality(A) \in Nat
  <2>1. DOMAIN insts' = 1 .. Len(insts') /\ Len(insts') \in Nat BY <1>3 DEF Sound
  <2>2. IsFiniteSet(DOMAIN insts') BY <2>1, FS_Interval
  <2>3. A \in SUBSET (DOMAIN insts') BY DEF Available, Active
  <2> QED BY <2>2, <2>3, FS_Subset, FS_CardinalityType
<1>13. TotalUnavailable = Cardinality(Y) BY DEF TotalUnavailable
<1>14. spec.replicas \in Nat /\ MaxUnavailable \in Nat BY <1>1, StrategyTypes
<1> HIDE DEF A, U, X, Y, O, N
<1>15. /\ IsFiniteSet(O) /\ Cardinality(O) \in Nat /\ IsFiniteSet(N) /\ Cardinality(N) \in Nat
       /\ IsFiniteSet(U) /\ Cardinality(U) \in Nat /\ IsFiniteSet(X) /\ Cardinality(X) \in Nat
       /\ IsFiniteSet(Y) /\ Cardinality(Y) \in Nat /\ IsFiniteSet(T) /\ Cardinality(T) \in Nat
  BY <1>1, <1>11, FiniteInstances
<1>16. ASSUME NEW P, NEW Q, IsFiniteSet(P), IsFiniteSet(Q)
       PROVE  /\ IsFiniteSet(P \cup Q) /\ Cardinality(P \cup Q) \in Nat
              /\ Cardinality(P \cup Q) <= Cardinality(P) + Cardinality(Q)
  <2>1. IsFiniteSet(P \cap Q) /\ Cardinality(P \cap Q) \in Nat
    BY <1>16, FS_Intersection, FS_CardinalityType
  <2>2. /\ IsFiniteSet(P \cup Q)
        /\ Cardinality(P \cup Q) = Cardinality(P) + Cardinality(Q) - Cardinality(P \cap Q)
    BY <1>16, FS_Union, Zenon
  <2>3. Cardinality(P) \in Nat /\ Cardinality(Q) \in Nat /\ Cardinality(P \cup Q) \in Nat
    BY <1>16, <2>2, FS_CardinalityType
  <2> QED BY <2>1, <2>2, <2>3
<1>17. Cardinality(O) <= Cardinality(T) + (Cardinality(U) + Cardinality(A))
  <2>1. IsFiniteSet(U \cup A) /\ Cardinality(U \cup A) \in Nat
        /\ Cardinality(U \cup A) <= Cardinality(U) + Cardinality(A)
    BY <1>12, <1>15, <1>16
  <2>2. IsFiniteSet(T \cup (U \cup A)) /\ Cardinality(T \cup (U \cup A)) \in Nat
        /\ Cardinality(T \cup (U \cup A)) <= Cardinality(T) + Cardinality(U \cup A)
    BY <1>15, <1>16, <2>1
  <2>3. Cardinality(O) <= Cardinality(T \cup (U \cup A)) BY <1>9, <2>2, FS_Subset
  <2> QED BY <1>12, <1>15, <2>1, <2>2, <2>3
<1>18. Cardinality(N) <= Cardinality(Y) + Cardinality(X)
  <2>1. IsFiniteSet(Y \cup X) /\ Cardinality(Y \cup X) \in Nat
        /\ Cardinality(Y \cup X) <= Cardinality(Y) + Cardinality(X)
    BY <1>15, <1>16
  <2>2. Cardinality(N) <= Cardinality(Y \cup X) BY <1>10, <2>1, FS_Subset
  <2> QED BY <1>15, <2>1, <2>2
<1>19. Cardinality(Listed) = Cardinality(O) + Cardinality(N)
  <2>1. Cardinality(O \cup N) = Cardinality(O) + Cardinality(N) - Cardinality(O \cap N)
    BY <1>15, FS_Union, Zenon
  <2>2. Cardinality(O \cap N) = 0 BY <1>10, FS_EmptySet, Zenon
  <2> QED BY <1>10, <1>15, <2>1, <2>2
<1>20. Cardinality(A) + Cardinality(U) + Cardinality(X) >= spec.replicas - MaxUnavailable
  <2>1. \/ Cardinality(T) + Cardinality(Y) <= MaxUnavailable + (Cardinality(O) + Cardinality(N)) - spec.replicas
        \/ Cardinality(T) + Cardinality(N) <= MaxUnavailable + (Cardinality(O) + Cardinality(N)) - spec.replicas
    BY <1>2, <1>7, <1>13, <1>19
  <2> QED BY <1>12, <1>14, <1>15, <1>17, <1>18, <2>1
<1> QED BY <1>20 DEF A, U, X

\* An instance as it was, or with another live object that still serves.
LEMMA StillServing ==
  ASSUME insts \in Seq(Entry), NEW i \in DOMAIN insts, NEW o,
         Serving(insts[i]) => o # None /\ ~o.going /\ IsInstanceAvailable(o),
         insts' = [insts EXCEPT ![i].live = o]
  PROVE  Taken = {}
<1>1. DOMAIN insts' = DOMAIN insts
      /\ \A j \in DOMAIN insts : insts'[j].live = IF j = i THEN o ELSE insts[j].live
  BY DEF Entry
<1>2. \A j \in DOMAIN insts : j \in Available(insts) => j \in Available(insts')
  BY <1>1 DEF Available, Active, Serving
<1> QED BY <1>2 DEF Taken, Listed

\* A step that is not a pass, and not of those who may take instances away,
\* takes none.
LEMMA OnlyPassTakes ==
  ASSUME SurgeInv, Next, ByController, Taken # {}
  PROVE  Pass
<1>1. /\ TypeOK /\ insts \in Seq(Entry) /\ Len(insts) \in Nat /\ DOMAIN insts = 1 .. Len(insts)
      /\ budget \in Nat /\ Sound(insts)
  BY DEF SurgeInv, TypeOK, Sound
<1>2. ASSUME UNCHANGED insts PROVE Taken = {} BY <1>2 DEF Taken
<1>3. ASSUME conf.failures \/ conf.requests, Spend PROVE FALSE
  BY <1>1, <1>3 DEF ByController, Spend
<1>4. ASSUME NEW i \in DOMAIN insts PROVE ~Deliver(i)
  <2> SUFFICES ASSUME Deliver(i) PROVE FALSE OBVIOUS
  <2>1. CASE insts[i].live = None
    <3>1. insts' = RemoveAt(insts, i) BY <2>1 DEF Deliver
    <3>2. Len(RemoveAt(insts, i)) = Len(insts) - 1
      <4>1. i \in 1 .. Len(insts) BY <1>1
      <4> QED BY <1>1, <4>1, RemoveAtEntries
    <3>3. Len(insts') = Len(insts) - 1 BY <3>1, <3>2
    <3> QED BY <1>1, <3>3 DEF ByController
  <2>2. CASE insts[i].live # None
    <3>1. DOMAIN insts' = DOMAIN insts /\ \A j \in DOMAIN insts : insts'[j].live = insts[j].live
      BY <1>1, <2>2 DEF Deliver, Entry
    <3>2. Taken = {} BY <3>1 DEF Taken, Available, Active, Listed
    <3> QED BY <3>2
  <2> QED BY <2>1, <2>2
<1>5. ASSUME NEW i \in DOMAIN insts PROVE ~Age(i)
  <2> SUFFICES ASSUME Age(i) PROVE FALSE OBVIOUS
  <2> DEFINE Older(o) == IF o # None /\ o.ready = "fresh" THEN [o EXCEPT !.ready = "old"] ELSE o
  <2>1. insts' = [insts EXCEPT ![i].live = Older(@), ![i].seen = Older(@)] BY DEF Age
  <2>2. /\ DOMAIN insts' = DOMAIN insts
        /\ \A j \in DOMAIN insts : insts'[j].live = IF j = i THEN Older(insts[j].live) ELSE insts[j].live
    <3> HIDE DEF Older
    <3> QED BY <1>1, <2>1 DEF Entry
  <2>3. \A o \in Object : IsInstanceAvailable(o) => Older(o) = o BY DEF IsInstanceAvailable
  <2> HIDE DEF Older
  <2>4. \A j \in DOMAIN insts : j \in Available(insts) => insts'[j].live = insts[j].live
    <3> SUFFICES ASSUME NEW j \in DOMAIN insts, j \in Available(insts)
                 PROVE  insts'[j].live = insts[j].live
      OBVIOUS
    <3>1. insts[j] \in Entry /\ insts[j].live # None /\ IsInstanceAvailable(insts[j].live)
      BY <1>1 DEF Available, Active
    <3>2. insts[j].live \in Object BY <3>1 DEF Entry
    <3> QED BY <2>2, <2>3, <3>1, <3>2
  <2>5. Taken = {} BY <2>2, <2>4 DEF Taken, Available, Active, Listed
  <2> QED BY <2>5
<1>6. ASSUME NEW i \in DOMAIN insts PROVE ~Report(i) /\ ~Finish(i) /\ ~ReleaseHook(i)
  <2> DEFINE l == insts[i].live
  <2>e. insts[i] \in Entry BY <1>1
  <2>1. l \in Object \cup {None} BY <2>e DEF Entry
  <2>2. ASSUME NEW o, Serving(insts[i]) => o # None /\ ~o.going /\ IsInstanceAvailable(o), SetLive(i, o)
        PROVE  FALSE
    BY <1>1, <2>2, StillServing DEF SetLive
  <2>3. Serving(insts[i]) => l # None /\ ~l.going /\ l.ready = "old" /\ l.state = "Normal"
    BY DEF Serving, IsInstanceAvailable
  <2> HIDE DEF l
  <2>4. ~Report(i)
    <3> SUFFICES ASSUME Report(i) PROVE FALSE OBVIOUS
    <3>1. l \in Object BY <2>1 DEF Report, l
    <3>2. CASE SetLive(i, [l EXCEPT !.done = TRUE])
      <4>1. /\ [l EXCEPT !.done = TRUE] \in Object /\ [l EXCEPT !.done = TRUE].going = l.going
            /\ [l EXCEPT !.done = TRUE].ready = l.ready /\ [l EXCEPT !.done = TRUE].state = l.state
        BY <3>1 DEF Object
      <4> QED BY <2>2, <2>3, <3>2, <4>1, StatelessAssumption DEF IsInstanceAvailable
    <3>3. CASE l.ready = "no" /\ \E x : SetLive(i, [l EXCEPT !.ready = x]) BY <2>2, <2>3, <3>3
    <3> QED BY <3>2, <3>3 DEF Report, l
  <2>5. ~Finish(i) BY <2>2, <2>3 DEF Finish, l
  <2>6. ~ReleaseHook(i)
    <3> SUFFICES ASSUME ReleaseHook(i) PROVE FALSE OBVIOUS
    <3>1. l.state # "Normal" /\ \E o : SetLive(i, o) BY DEF ReleaseHook, l
    <3> QED BY <2>2, <2>3, <3>1
  <2> QED BY <2>4, <2>5, <2>6
<1>7. \A i \in DOMAIN insts :
        ~NameForDeletion(i) /\ ~LabelForDeletion(i) /\ ~Fail(i) /\ ~Evict(i)
  BY <1>3 DEF NameForDeletion, LabelForDeletion, Fail, Evict
<1>8. ~Restart BY <1>3 DEF Restart
<1>9. ~Skip /\ ~DeliverStatus /\ ~Fire /\ ~ChangeSpec
  BY <1>2 DEF Skip, DeliverStatus, Fire, ChangeSpec
<1> QED BY <1>4, <1>5, <1>6, <1>7, <1>8, <1>9 DEF Next, Informer, Clock, Instance, Environment

\* The configuration is the one the set began with.
LEMMA ConfKept == [Next]_vars => UNCHANGED conf
BY DEF Next, vars, Skip, Pass, Informer, Deliver, DeliverStatus, Clock, Age, Fire, Instance, Report,
       Finish, ReleaseHook, SetLive, Environment, ChangeSpec, Restart, NameForDeletion,
       LabelForDeletion, Fail, Evict

\* FloorKeptButSpecified for every strategy, number of replicas and sequence of
\* changes: a pass waits until the versions it wrote are listed, so the
\* deletions within deleteReadyLimit and the updates limitUpdateIndexes allows
\* are counted against instances of which none is gone by a write of the
\* controller's own, and what is left available is what replicas and
\* maxUnavailable ask for.  A hook on deletions is excepted for updates in
\* place: deleteInstances reports no modification when a hooked instance
\* fails, whatever it did before, and the pass goes on to the updates.
THEOREM FloorNeverBroken == Spec /\ NoMixedPass => FloorKeptButSpecified
<1>1. SurgeInv /\ NoMixedPass /\ [Next]_vars
        => [ByController /\ Taken # {} =>
              Cardinality(Available(insts')) + Cardinality(UnseenLosses)
                  + Cardinality({i \in ToDelete : ~IsInstanceAvailable(Seen(i))})
                >= spec.replicas - MaxUnavailable]_vars
  BY OnlyPassTakes, PassFloor
<1>2. NoMixedPass /\ [Next]_vars => NoMixedPass' BY ConfKept DEF NoMixedPass
<1> QED BY <1>1, <1>2, StatelessInvariant, PTL DEF Spec, FloorKeptButSpecified

=============================================================================
