------------------------- MODULE StatefulInstanceSet -------------------------
(***************************************************************************)
(* The stateful mode of the RoleInstanceSet controller                     *)
(* (pkg/reconciler/roleinstanceset/statefulmode): one RoleInstanceSet, its *)
(* ordinal RoleInstances, the two informer caches the controller reads,    *)
(* the controller's process memory and its work queue.                     *)
(*                                                                         *)
(* One reconcile pass reads a set and a list of instances from the caches, *)
(* each of which lags the API server on its own, and then issues writes in *)
(* a fixed order.  Between the writes of one pass nothing new is read, so  *)
(* the pass is one step that applies a prefix of its writes: all of them,  *)
(* or those before the first write that the API server refuses.            *)
(***************************************************************************)
EXTENDS RolloutTopology, FiniteSetsExt

CONSTANTS
  InitSpec,       \* the spec the set is created with
  Specs,          \* the specs a user may write
  InPlacePairs,   \* <<from, to>> revisions CanUpdateInPlace accepts
  BrokenRevs,     \* revisions whose instances never become ready
  StartSettled,   \* start with the set running InitSpec, or empty
  MaxEdits,       \* bound on spec edits
  MaxFaults,      \* bound on failed API calls and controller restarts
  MaxOutages,     \* bound on instances that fail or are deleted by others
  MaxTroubles     \* bound on all of these

SpecType == [replicas : Nat, partition : IntOrPercent, maxUnavailable : IntOrPercent,
             maxSurge : IntOrPercent, paused : BOOLEAN, ordered : BOOLEAN, template : Revisions]

ASSUME SpecAssumption == InitSpec \in SpecType /\ Specs \subseteq SpecType

\* Every ordinal a pass may create exists in the model.
ASSUME OrdinalsSuffice ==
  \A s \in Specs \cup {InitSpec} :
    s.replicas + ComputeMaxSurge(s.maxSurge, s.replicas) <= MaxOrdinal + 1

ASSUME ModeAssumption ==
  /\ StartSettled \in BOOLEAN
  /\ InPlacePairs \subseteq Revisions \X Revisions
  /\ BrokenRevs \subseteq Revisions
ASSUME BoundAssumption == MaxEdits \in Nat /\ MaxFaults \in Nat /\ MaxOutages \in Nat /\ MaxTroubles \in Nat

VARIABLES
  apiSet,      \* the RoleInstanceSet in the API server
  insts,       \* the RoleInstances in the API server, by ordinal
  cacheSet,    \* the set informer's copy of apiSet
  cacheInsts,  \* the instance informer's copy of insts
  setLag,      \* apiSet was written since cacheSet was read
  instLag,     \* the ordinals written since cacheInsts was read
  exp,         \* updateExpectations of this set
  window,      \* instanceUnhealthySince, by ordinal
  awaitRepl,   \* rolloutStatusExpectations is unsatisfied by cacheSet
  queued,      \* the set's key is in the work queue
  timer,       \* a delayed requeue is pending
  faults,      \* failed API calls and restarts so far
  outages      \* failed or externally deleted instances so far

setVars == <<apiSet, cacheSet, setLag>>
instVars == <<insts, cacheInsts, instLag>>
memory == <<exp, window, awaitRepl>>
queue == <<queued, timer>>
bounds == <<faults, outages>>
vars == <<setVars, instVars, memory, queue, bounds>>

Status == [cur : AnyRevision, upd : AnyRevision, updated : Nat, repl : Replacement]
SetObject == [spec : SpecType, gen : 0 .. MaxEdits, status : Status]
Expectation == [rev : AnyRevision, ords : SUBSET Ordinals]
NoExpectation == [rev |-> NoRev, ords |-> {}]
Windows == {"none", "fresh", "expired"}

FieldTypes ==
  /\ apiSet \in SetObject
  /\ insts \in [Ordinals -> Instance]
  /\ cacheSet \in SetObject
  /\ cacheInsts \in [Ordinals -> Instance]
  /\ setLag \in BOOLEAN
  /\ instLag \in SUBSET Ordinals
  /\ exp \in Expectation
  /\ window \in [Ordinals -> Windows]
  /\ awaitRepl \in BOOLEAN
  /\ queued \in BOOLEAN
  /\ timer \in BOOLEAN
  /\ faults \in 0 .. MaxFaults
  /\ outages \in 0 .. MaxOutages
RevisionsNamed ==
  /\ \A set \in {apiSet, cacheSet} : set.status.upd # NoRev => set.status.cur # NoRev
  /\ \A I \in {insts, cacheInsts} : \A o \in Ordinals : I[o].created => I[o].rev # NoRev

\* Every variable holds a value of its type; the empty revision is a value only
\* of a status no pass has written (getInstanceSetRevisions), never of an
\* instance.
TypeOK == FieldTypes /\ RevisionsNamed

-----------------------------------------------------------------------------
(***************************************************************************)
(* What one pass reads and computes.  set and I are the cached set and     *)
(* instances; upd and cur are updateRevision and currentRevision.          *)
(***************************************************************************)
UpdateRevision(set) == set.spec.template

\* Mutant: the first pass over a new set finds no current revision.
StatusRevision(set) == set.status.cur

\* The first pass over a new set takes the update revision.
CurrentRevision(set) ==
  IF set.status.cur = NoRev THEN UpdateRevision(set) ELSE set.status.cur

EarlyRollback(set, I) ==
  LET s == set.spec
  IN  RolloutReplacementStateActive(set.status.repl, I,
        ComputePartition(s.partition, s.replicas), s.replicas, UpdateRevision(set))

ComputeTopologyForReconcile(set, I) ==
  ComputeTopology(set.spec, I, CurrentRevision(set), UpdateRevision(set), EarlyRollback(set, I))

\* Mutant: the partition is forgotten when a slot is filled.
SlotsAtUpdateRevision(set, I, end) ==
  [o \in Ordinals |-> IF I[o].created \/ o \notin OrdRange(0, end) THEN I[o] ELSE Unborn(UpdateRevision(set))]

\* The replicas slice: newVersionedInstance fills every empty slot before end.
\* Ordinals from end on are left as they are (the condemned instances).
Slots(set, I, end) ==
  [o \in Ordinals |->
     IF I[o].created \/ o \notin OrdRange(0, end) THEN I[o]
     ELSE Unborn(IF o >= VersioningPartition(set.spec.partition, set.spec.replicas)
                   THEN UpdateRevision(set) ELSE CurrentRevision(set))]

ObserveUpdated(e, I, upd) ==
  LET listed == {o \in Ordinals : I[o].created}
      left == e.ords \ {o \in listed : I[o].rev = upd}
  IN  IF listed = {} THEN e
      ELSE IF e.rev # upd \/ left = {} THEN NoExpectation
      ELSE [e EXCEPT !.ords = left]

SatisfiedExpectations(e, upd) == e.rev # upd \/ e.ords = {}

ExpectUpdated(e, upd, ords) ==
  IF ords = {} THEN e
  ELSE [rev |-> upd, ords |-> ords \cup (IF e.rev = upd THEN e.ords ELSE {})]

ObserveInstanceHealth(w, I) ==
  [o \in Ordinals |-> IF ~I[o].created \/ I[o].ready THEN "none"
                      ELSE IF w[o] = "none" THEN "fresh" ELSE w[o]]

StablyUnhealthy(w) == {o \in Ordinals : w[o] = "expired"}
InWindow(w) == {o \in Ordinals : w[o] = "fresh"}

-----------------------------------------------------------------------------
(***************************************************************************)
(* The writes of a pass, in the order updateStatefulInstanceSet issues     *)
(* them.  t is the topology, S the slots, w the health windows after       *)
(* observeInstanceHealth, e the expectations after ObserveUpdated.         *)
(***************************************************************************)
Ops == {"persistTerm", "refresh", "create", "condemn", "persist", "close", "inplace", "delete"}
Write == [op : Ops, ord : Ordinals]
Writes(op, ords) == {[op |-> op, ord |-> o] : o \in ords}

Inherited(set, I) == IF EarlyRollback(set, I) THEN set.status.repl ELSE NoReplacement

\* persistTerminatingRolloutReplacement: a stale base instance that somebody
\* else is deleting opens an early rollback of its own.
TerminatingStale(set, I, t) ==
  {o \in OrdRange(t.partition, t.replicas) :
     /\ CurrentRevision(set) = UpdateRevision(set) /\ t.maxSurge > 0
     /\ I[o].created /\ I[o].term /\ I[o].rev # UpdateRevision(set)
     /\ ~ReplacementCovers(Inherited(set, I), o)}

\* refreshInstanceState: a completed in-place update reopens the gate.  (A
\* condemned instance is refreshed too, just before it is deleted; whether it
\* serves until then is nobody's question.)
Refreshes(I, end) ==
  {o \in OrdRange(0, end) : I[o].created /\ I[o].synced /\ I[o].gate = "closed"}

\* podManagementPolicy is OrderedReady.
Monotonic == cacheSet.spec.ordered

\* processReplica.  OrderedReady stops at the first slot that is not ready,
\* after creating it if it is empty.
Unready(S, end) == {o \in OrdRange(0, end) : ~S[o].ready}
StopsAtReplica(S, end) == Monotonic /\ Unready(S, end) # {}

\* Mutant: OrderedReady creates every empty slot at once.
CreatesAll(S, end) == {o \in OrdRange(0, end) : ~S[o].created}

Creates(S, end) ==
  {o \in OrdRange(0, end) :
     ~S[o].created /\ (Monotonic => o = Min(Unready(S, end)))}

\* processCondemned, highest ordinal first.  OrderedReady stops at an unready
\* instance other than the lowest unready one.
Condemned(I, end) == {o \in Ordinals : I[o].created /\ o >= end}
CondemnBlockers(I, end) ==
  LET unready == {o \in Condemned(I, end) : ~I[o].ready}
  IN  {o \in unready : Monotonic /\ o # Min(unready)}
Condemns(I, end) ==
  {o \in Condemned(I, end) : \A b \in CondemnBlockers(I, end) : b < o}

\* Mutant: OrderedReady waits for an unhealthy old instance for ever.
NoCleanupTarget(set, S, t, w) == {}

\* orderedReadyCleanupTarget, as the set of the target or the empty set.
CleanupTarget(set, S, t, w) ==
  {o \in Unready(S, t.endOrdinal) :
     /\ o = Min(Unready(S, t.endOrdinal))
     /\ S[o].created /\ o >= t.partition
     /\ S[o].rev # UpdateRevision(set) /\ o \in StablyUnhealthy(w)}

\* Whether the pass enters progressUpdate and gets past its expectations, and
\* the instances it then updates.
Progresses(set, S, t, w, e, I) ==
  /\ t.inRollout
  /\ SatisfiedExpectations(e, UpdateRevision(set))
  /\ IF StopsAtReplica(S, t.endOrdinal) THEN CleanupTarget(set, S, t, w) # {}
     ELSE CondemnBlockers(I, t.endOrdinal) = {}

Updates(set, S, t, w, e, I) ==
  IF ~Progresses(set, S, t, w, e, I) THEN {}
  ELSE IF StopsAtReplica(S, t.endOrdinal)
    THEN UNION {ProgressUpdate(S, t, o, o + 1, UpdateRevision(set), StablyUnhealthy(w)) :
                  o \in CleanupTarget(set, S, t, w)}
    ELSE ProgressUpdate(S, t, t.partition, t.endOrdinal, UpdateRevision(set), StablyUnhealthy(w))

\* applyTargetUpdate persists the scope of an early rollback before the first
\* base instance outside the recorded scope is touched.
UncoveredUpdates(set, I, t, ords) ==
  {o \in ords :
     /\ CurrentRevision(set) = UpdateRevision(set) /\ t.maxSurge > 0
     /\ o < t.replicas
     /\ ~ReplacementCovers(Inherited(set, I), o)
     /\ TerminatingStale(set, I, t) = {}}

InPlace(S, o, upd) == <<S[o].rev, upd>> \in InPlacePairs

\* The writes of a pass whose progressUpdate touches the instances ups.
PassWrites(set, I, S, t, ups) ==
  LET opened == TerminatingStale(set, I, t)
      uncovered == UncoveredUpdates(set, I, t, ups)
      patched == {o \in ups : InPlace(S, o, UpdateRevision(set))}
  IN  UNION {
        Writes("persistTerm", {o \in opened : o = Min(opened)}),
        Writes("refresh", Refreshes(I, t.endOrdinal)),
        Writes("create", Creates(S, t.endOrdinal)),
        Writes("condemn", IF StopsAtReplica(S, t.endOrdinal) THEN {} ELSE Condemns(I, t.endOrdinal)),
        Writes("persist", {o \in uncovered : o = Max(uncovered)}),
        Writes("close", {o \in patched : S[o].gate # "none"}),
        Writes("inplace", patched),
        Writes("delete", ups \ patched)}

\* The position of a write in the pass.
Rank(x) ==
  LET n == MaxOrdinal + 1
      down == MaxOrdinal - x.ord
  IN  CASE x.op = "persistTerm" -> 0
        [] x.op = "refresh" -> 1 + x.ord
        [] x.op = "create"  -> 1 + n + x.ord
        [] x.op = "condemn" -> 1 + 2 * n + down
        [] x.op = "persist" -> 1 + 3 * n + 3 * down
        [] x.op = "close"   -> 2 + 3 * n + 3 * down
        [] OTHER            -> 3 + 3 * n + 3 * down
EndOfPass == 3 + 6 * (MaxOrdinal + 1)

-----------------------------------------------------------------------------
(***************************************************************************)
(* What the writes do.  The API server refuses a write made from a cached  *)
(* copy that is not the stored object, and the deletion of an object that  *)
(* is gone; creating an object that exists is taken as success.  The code  *)
(* reads the informer again and retries a write that was refused: one that *)
(* succeeds then is the write of a pass after the informer's event.        *)
(***************************************************************************)
Persists == {"persistTerm", "persist"}

Accepted(x) ==
  CASE x.op \in Persists -> ~setLag
    [] x.op \in {"refresh", "close", "inplace"} -> x.ord \notin instLag
    [] x.op \in {"condemn", "delete"} -> insts[x.ord].created
    [] OTHER -> TRUE

\* The instance at ordinal o after the writes in done; born is the slot's
\* instance, upd the update revision.
AfterWrites(o, x, done, born, upd) ==
  LET has(op) == [op |-> op, ord |-> o] \in done
  IN  IF has("condemn") \/ has("delete") THEN [x EXCEPT !.term = TRUE]
      ELSE IF has("inplace")
        THEN [x EXCEPT !.rev = upd, !.synced = FALSE, !.gate = "closed",
                       !.ready = @ /\ ~has("close")]
      ELSE IF has("close") THEN [x EXCEPT !.gate = "closed", !.ready = FALSE]
      ELSE IF has("refresh") THEN [x EXCEPT !.gate = "open"]
      ELSE IF has("create") /\ ~x.created THEN [born EXCEPT !.created = TRUE]
      ELSE x

\* The scope persistRolloutReplacementState writes.
PersistedScope(t, repl, upd) ==
  [on |-> TRUE, upd |-> upd,
   partition |-> IF repl.on THEN NotAbove(t.partition, repl.partition) ELSE t.partition,
   replicas |-> IF repl.on THEN NotBelow(t.replicas, repl.replicas) ELSE t.replicas]

ShouldAdvanceCurrentRevision(set, S, t, e) ==
  LET upd == UpdateRevision(set)
  IN  /\ t.inRollout
      /\ t.partition = 0
      /\ set.status.upd = upd
      /\ set.status.updated >= t.replicas - t.partition
      /\ SatisfiedExpectations(e, upd)
      /\ AllBaseAtUpdateRevHealthy(S, t.partition, t.replicas, upd)

\* Whether the pass asks to be run again when a health window closes.
PushesRetry(set, S, t, w, e, I) ==
  \/ Progresses(set, S, t, w, e, I) /\ OrdRange(0, t.replicas) \cap InWindow(w) # {}
  \/ StopsAtReplica(S, t.endOrdinal) /\ Min(Unready(S, t.endOrdinal)) \in InWindow(w)

\* UpdateInstanceSetStatus gives up when the spec or the replacement state
\* moved on since the pass read the set.
MayWriteStatus == /\ cacheSet.gen = apiSet.gen
                  /\ cacheSet.status.repl = apiSet.status.repl

FirstRefused(ws) == {Rank(x) : x \in {y \in ws : ~Accepted(y)}} \cup {EndOfPass}

(***************************************************************************)
(* The end of a pass that stopped at position reach: the effects on the    *)
(* API server, on the process and on the queue.  t, S, w and e are as      *)
(* above, done the writes the API server applied, acked those the pass     *)
(* knows of; lost is a failure of the final status write.                  *)
(***************************************************************************)
FinishPass(t, S, w, e, ws, reach, done, acked, lost) ==
  LET upd == UpdateRevision(cacheSet)
      inherited == Inherited(cacheSet, cacheInsts)
      scope == PersistedScope(t, inherited, upd)
      conflict == \E x \in ws : x.op \in Persists /\ Rank(x) = reach /\ ~Accepted(x)
      persisted == \E x \in done : x.op \in Persists
      recorded == \E x \in acked : x.op \in Persists
      written == ~lost /\ ~conflict /\ MayWriteStatus /\ persisted = recorded
      patched == {o \in Ordinals : [op |-> "inplace", ord |-> o] \in acked}
      advance == /\ reach = EndOfPass
                 /\ ~StopsAtReplica(S, t.endOrdinal)
                 /\ CondemnBlockers(cacheInsts, t.endOrdinal) = {}
                 /\ ShouldAdvanceCurrentRevision(cacheSet, S, t, ExpectUpdated(e, upd, patched))
      counted == IF reach > MaxOrdinal + 1 THEN S ELSE cacheInsts
      status == [cur |-> IF advance THEN upd ELSE CurrentRevision(cacheSet),
                 upd |-> upd,
                 updated |-> Cardinality({o \in Ordinals : counted[o].rev = upd}),
                 repl |-> IF persisted THEN scope ELSE inherited]
  IN  /\ insts' = [o \in Ordinals |-> AfterWrites(o, insts[o], done, S[o], upd)]
      /\ apiSet' = IF written THEN [apiSet EXCEPT !.status = status]
                   ELSE IF persisted THEN [apiSet EXCEPT !.status.repl = scope]
                   ELSE apiSet
      /\ cacheSet' = IF written THEN apiSet ELSE cacheSet
      /\ setLag' = (apiSet' # apiSet \/ (setLag /\ ~written))
      /\ instLag' = instLag \cup {o \in Ordinals : insts'[o] # insts[o]}
      /\ window' = w
      /\ exp' = ExpectUpdated(e, upd, patched)
      /\ awaitRepl' = (recorded \/ (written /\ status.repl # cacheSet.status.repl))
      /\ queued' = \/ reach < EndOfPass /\ ~conflict
                   \/ lost
                   \/ written /\ setLag
      /\ timer' = \/ timer \/ conflict
                  \/ /\ reach = EndOfPass /\ ~lost
                     /\ PushesRetry(cacheSet, S, t, w, e, cacheInsts)

(***************************************************************************)
(* The pass ends at the first refused write or at the write "stop" whose   *)
(* call fails; if it fails "late" the API server has applied it.  With     *)
(* "lost" as well, the process dies there.                                 *)
(***************************************************************************)
EndPass(t, S, w, e, ws) ==
  \E stop \in {Rank(x) : x \in ws} \cup {EndOfPass}, late \in BOOLEAN, lost \in BOOLEAN :
    /\ faults' = faults + (IF stop = EndOfPass /\ ~late /\ ~lost THEN 0 ELSE 1)
    /\ faults' <= MaxFaults /\ (faults' > faults => faults' + outages <= MaxTroubles)
    /\ \E reach \in {Min(FirstRefused(ws) \cup {stop})} :
       \E acked \in {{x \in ws : Rank(x) < reach}} :
       \E done \in {acked \cup {x \in ws : late /\ Rank(x) = reach /\ Accepted(x)}} :
         FinishPass(t, S, w, e, ws, reach, done, acked, lost)

\* One reconcile pass.  \E x \in {v} names the value v, computed once.
Reconcile ==
  /\ queued /\ ~awaitRepl
  /\ \E t \in {ComputeTopologyForReconcile(cacheSet, cacheInsts)} :
     \E S \in {Slots(cacheSet, cacheInsts, t.endOrdinal)},
        w \in {ObserveInstanceHealth(window, cacheInsts)},
        e \in {ObserveUpdated(exp, cacheInsts, UpdateRevision(cacheSet))} :
     \E ws \in {PassWrites(cacheSet, cacheInsts, S, t,
                           Updates(cacheSet, S, t, w, e, cacheInsts))} :
       EndPass(t, S, w, e, ws)
  /\ UNCHANGED <<cacheInsts, outages>>

\* Reconcile returns before any work while the last replacement state it wrote
\* is not in the cache, and asks to be run again.
ReconcileAwaitsStatus ==
  /\ queued /\ awaitRepl
  /\ queued' = FALSE
  /\ timer' = TRUE
  /\ UNCHANGED <<setVars, instVars, memory, bounds>>

-----------------------------------------------------------------------------
(***************************************************************************)
(* Queue, caches, process.                                                 *)
(***************************************************************************)
TimerFires ==
  /\ timer
  /\ timer' = FALSE
  /\ queued' = TRUE
  /\ UNCHANGED <<setVars, instVars, memory, bounds>>

\* stableUnhealthyDuration passes since ordinal o was first seen unhealthy.
WindowCloses(o) ==
  /\ window[o] = "fresh"
  /\ window' = [window EXCEPT ![o] = "expired"]
  /\ UNCHANGED <<setVars, instVars, exp, awaitRepl, queue, bounds>>

SyncSet ==
  /\ setLag
  /\ setLag' = FALSE
  /\ cacheSet' = apiSet
  /\ awaitRepl' = FALSE
  /\ queued' = TRUE
  /\ UNCHANGED <<apiSet, instVars, exp, window, timer, bounds>>

SyncInsts ==
  /\ instLag # {}
  /\ instLag' = {}
  /\ cacheInsts' = insts
  /\ queued' = TRUE
  /\ UNCHANGED <<setVars, insts, memory, timer, bounds>>

\* The controller process starts again: its memory is gone, and it reconciles
\* the set once its informers have listed both kinds.
Restart ==
  /\ faults < MaxFaults /\ faults + outages < MaxTroubles
  /\ faults' = faults + 1
  /\ cacheSet' = apiSet
  /\ cacheInsts' = insts
  /\ setLag' = FALSE
  /\ instLag' = {}
  /\ exp' = NoExpectation
  /\ window' = [o \in Ordinals |-> "none"]
  /\ awaitRepl' = FALSE
  /\ queued' = TRUE
  /\ timer' = FALSE
  /\ UNCHANGED <<apiSet, insts, outages>>

-----------------------------------------------------------------------------
(***************************************************************************)
(* The user, and the RoleInstance controller as its status shows it.       *)
(***************************************************************************)
EditSpec(s) ==
  /\ apiSet.gen < MaxEdits
  /\ s # apiSet.spec
  /\ apiSet' = [apiSet EXCEPT !.spec = s, !.gen = @ + 1]
  /\ setLag' = TRUE
  /\ UNCHANGED <<cacheSet, instVars, memory, queue, bounds>>

ChangeInstance(o, x) ==
  /\ insts' = [insts EXCEPT ![o] = x]
  /\ instLag' = instLag \cup {o}
  /\ UNCHANGED <<setVars, cacheInsts, memory, queue, faults>>

\* The RoleInstance controller sees a new spec behind a closed gate.
InstanceUnready(o) ==
  /\ insts[o].ready /\ ~insts[o].synced /\ ~insts[o].term
  /\ ChangeInstance(o, [insts[o] EXCEPT !.ready = FALSE])
  /\ UNCHANGED outages

\* Every pod of the instance runs the instance's revision.
InstanceSynced(o) ==
  /\ insts[o].created /\ ~insts[o].synced /\ ~insts[o].ready /\ ~insts[o].term
  /\ ChangeInstance(o, [insts[o] EXCEPT !.synced = TRUE])
  /\ UNCHANGED outages

InstanceReady(o) ==
  /\ insts[o].synced /\ ~insts[o].ready /\ ~insts[o].term
  /\ insts[o].gate # "closed" /\ insts[o].rev \notin BrokenRevs
  /\ ChangeInstance(o, [insts[o] EXCEPT !.ready = TRUE])
  /\ UNCHANGED outages

InstanceGone(o) ==
  /\ insts[o].created /\ insts[o].term
  /\ ChangeInstance(o, NoInstance)
  /\ UNCHANGED outages

\* A pod of the instance stops being ready.
InstanceFails(o) ==
  /\ outages < MaxOutages /\ faults + outages < MaxTroubles /\ outages' = outages + 1
  /\ insts[o].ready /\ insts[o].synced /\ ~insts[o].term
  /\ ChangeInstance(o, [insts[o] EXCEPT !.ready = FALSE])

\* Somebody other than the controller deletes the instance.
InstanceEvicted(o) ==
  /\ outages < MaxOutages /\ faults + outages < MaxTroubles /\ outages' = outages + 1
  /\ insts[o].created /\ ~insts[o].term
  /\ ChangeInstance(o, [insts[o] EXCEPT !.term = TRUE])

-----------------------------------------------------------------------------
Running(rev) == [created |-> TRUE, rev |-> rev, ready |-> TRUE, term |-> FALSE,
                 synced |-> TRUE, gate |-> "none"]

InitStatus ==
  IF StartSettled
    THEN [cur |-> InitSpec.template, upd |-> InitSpec.template,
          updated |-> InitSpec.replicas, repl |-> NoReplacement]
    ELSE [cur |-> NoRev, upd |-> NoRev, updated |-> 0, repl |-> NoReplacement]

Init ==
  /\ apiSet = [spec |-> InitSpec, gen |-> 0, status |-> InitStatus]
  /\ insts = [o \in Ordinals |-> IF StartSettled /\ o < InitSpec.replicas
                                   THEN Running(InitSpec.template) ELSE NoInstance]
  /\ cacheSet = apiSet
  /\ cacheInsts = insts
  /\ setLag = FALSE
  /\ instLag = {}
  /\ exp = NoExpectation
  /\ window = [o \in Ordinals |-> "none"]
  /\ awaitRepl = FALSE
  /\ queued = TRUE
  /\ timer = FALSE
  /\ faults = 0
  /\ outages = 0

Controller == Reconcile \/ ReconcileAwaitsStatus
Informers == SyncSet \/ SyncInsts
InstanceProgress(o) == \/ InstanceUnready(o) \/ InstanceSynced(o) \/ InstanceReady(o)
               \/ InstanceGone(o)

Next ==
  \/ Controller
  \/ Informers
  \/ TimerFires
  \/ Restart
  \/ \E s \in Specs : EditSpec(s)
  \/ \E o \in Ordinals : \/ WindowCloses(o)
                         \/ InstanceProgress(o)
                         \/ InstanceFails(o)
                         \/ InstanceEvicted(o)

Spec == Init /\ [][Next]_vars

-----------------------------------------------------------------------------
(***************************************************************************)
(* Safety.                                                                 *)
(***************************************************************************)
Available(o) == insts[o].created /\ insts[o].ready /\ insts[o].synced /\ ~insts[o].term

Tolerated(s) ==
  ComputeMaxUnavailable(s.maxUnavailable, s.replicas, ComputeMaxSurge(s.maxSurge, s.replicas))

\* While only the controller takes instances down, base and surge instances
\* together never leave more than maxUnavailable of the replicas unserved,
\* however far the caches lag behind the deletions and in-place updates
\* progressUpdate has already made.
AvailabilityFloor ==
  outages = 0 =>
    Cardinality({o \in Ordinals : Available(o)}) >= apiSet.spec.replicas - Tolerated(apiSet.spec)

BasePartition(s) == ComputePartition(s.partition, s.replicas)

\* status.currentRevision moves to the template's revision only when every
\* base instance in the API server, not just in the pass's snapshot, has it.
AdvanceIsEarned ==
  [][apiSet'.status.cur # apiSet.status.cur /\ apiSet'.status.cur = apiSet.spec.template
       => \A o \in OrdRange(0, apiSet.spec.replicas) :
            insts[o].created => insts[o].rev = apiSet.spec.template]_vars

\* While only the controller takes instances down, a surge instance at the
\* wanted revision is not taken down while a base instance it stands in for
\* is still at another revision or not serving: the surge survives pause,
\* restarts and an early rollback, whose scope only the persisted
\* rolloutReplacementState remembers.
SurgeHeld ==
  [][\A o \in Ordinals :
       /\ o >= apiSet.spec.replicas
       /\ ~insts[o].term /\ insts'[o].term
       /\ insts[o].rev = apiSet.spec.template
       /\ outages' = 0
       => \A b \in OrdRange(BasePartition(apiSet.spec), apiSet.spec.replicas) :
            Available(b) /\ insts[b].rev = apiSet.spec.template]_vars

AllSpecs == Specs \cup {InitSpec}
Pinned(o) == \A s \in AllSpecs : o < BasePartition(s)

\* An ordinal below every partition the user writes keeps the revision the
\* set was running: neither a rollout, nor its deletion and recreation, nor a
\* failed call or a restart moves it (buildUpdateTargets starts at the
\* partition and newVersionedInstance uses currentRevision below it).
PartitionPinned ==
  \A o \in Ordinals : Pinned(o) /\ insts[o].created => insts[o].rev = InitSpec.template

\* Under OrderedReady an instance is created only when every lower ordinal is
\* there and ready in the API server, although processReplica looks at a
\* snapshot and a pass may fail half-way; an instance that the snapshot shows
\* terminating counts as ready until it is gone.
OrderedCreation ==
  [][cacheSet.spec.ordered =>
       \A o \in Ordinals :
         ~insts[o].created /\ insts'[o].created
           => \A u \in 0 .. (o - 1) :
                \/ insts[u].created /\ insts[u].ready
                \/ cacheInsts[u].created /\ cacheInsts[u].term]_vars

-----------------------------------------------------------------------------
(***************************************************************************)
(* Liveness.  The work queue hands out every key, informers deliver every  *)
(* event, timers fire, and the RoleInstance controller makes progress; the *)
(* user, the failures and the restarts owe nothing.                        *)
(***************************************************************************)
Fairness ==
  /\ WF_vars(Controller)
  /\ WF_vars(SyncSet)
  /\ WF_vars(SyncInsts)
  /\ WF_vars(TimerFires)
  /\ \A o \in Ordinals : WF_vars(WindowCloses(o)) /\ WF_vars(InstanceProgress(o))

FairSpec == Spec /\ Fairness

RolledOut ==
  LET s == apiSet.spec
  IN  \A o \in Ordinals :
        IF o < s.replicas
          THEN Available(o) /\ (o >= BasePartition(s) => insts[o].rev = s.template)
          ELSE ~insts[o].created

\* Once the user leaves a healthy, unpaused template alone, every base
\* instance from the partition on ends up serving it, the surge is gone, and
\* with no partition currentRevision says so: no lost event, unsatisfied
\* expectation, unclosed health window or spent budget stops the rollout.
Convergence ==
  <>[](\/ apiSet.spec.paused
       \/ apiSet.spec.template \in BrokenRevs
       \/ /\ RolledOut
          /\ BasePartition(apiSet.spec) = 0 => apiSet.status.cur = apiSet.spec.template)

=============================================================================
