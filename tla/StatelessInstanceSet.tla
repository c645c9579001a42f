------------------------- MODULE StatelessInstanceSet -------------------------
(***************************************************************************)
(* A RoleInstanceSet in stateless mode: instances with random names, scaled*)
(* and updated by count.  A pass of the reconciler works on the informer's *)
(* copy of the instances, which lags behind the API server; what it has    *)
(* written itself it remembers as expectations, and no pass acts before    *)
(* the informer has caught up with them.                                   *)
(*                                                                         *)
(* insts is the instances, one entry per name: the object the API server   *)
(* holds (live), the informer's copy (seen), whether its creation, its     *)
(* deletion or a newer version of it is expected, and whether the set's    *)
(* spec names it in roleInstanceToDelete.  The order of insts means        *)
(* nothing: creation times are not kept, and where the code prefers the    *)
(* newer of two equal instances any choice is open.                        *)
(***************************************************************************)
EXTENDS Coordination

CONSTANTS Revisions,      \* revisions of the template
          Scenarios,      \* the configurations and initial specs to explore
          Budget          \* changes by users, failures and restarts
VARIABLES conf,           \* the strategies and hooks of the set (never changes)
          spec,           \* the replicas, revision, partition and pause of the spec
          insts,          \* the instances
          current,        \* status.currentRevision, at the API server
          currentSeen,    \* and in the informer's copy of the set
          queued,         \* the set's key is in the work queue
          timer,          \* a requeue after minReadySeconds is due
          budget          \* changes left
vars == <<conf, spec, insts, current, currentSeen, queued, timer, budget>>

LifecycleStates == {"Normal", "PreparingUpdate", "Updating", "Updated", "PreparingDelete"}
Hooks == {"update", "delete"}
Object == [rev : Revisions, state : LifecycleStates,
           ready : {"no", "fresh", "old"},  \* not ready; ready; for minReadySeconds
           gate : BOOLEAN,                  \* the InPlaceUpdateReady condition
           done : BOOLEAN,                  \* every component reports the revision
           doomed : BOOLEAN,                \* the specified-delete label
           hooks : SUBSET Hooks,            \* the labels of the lifecycle hooks
           going : BOOLEAN]                 \* has a deletion timestamp
Entry == [live : Object \cup {None}, seen : Object \cup {None},
          create : BOOLEAN, delete : BOOLEAN, version : BOOLEAN, named : BOOLEAN]

SetSpec == [replicas : Nat, rev : Revisions, partition : IntOrString, paused : BOOLEAN]
\* The strategies and lifecycle hooks of a set, how its API server and its
\* instances behave, and what its users may change.
Configuration ==
  [maxSurge : IntOrString, maxUnavailable : IntOrString, scaleMaxUnavailable : IntOrString \cup {None},
   inPlace : BOOLEAN, handlers : SUBSET Hooks, labels : SUBSET Hooks, markNotReady : BOOLEAN,
   minReady : BOOLEAN, faults : BOOLEAN, requests : BOOLEAN, failures : BOOLEAN, pauses : BOOLEAN,
   sizes : SUBSET Nat, revisions : SUBSET Revisions, partitions : SUBSET IntOrString]
ASSUME StatelessAssumption ==
  /\ Scenarios \subseteq [conf : Configuration, spec : SetSpec, settled : BOOLEAN]
  /\ Budget \in Nat /\ None \notin Object

TypeOK ==
  /\ conf \in Configuration /\ spec \in SetSpec /\ insts \in Seq(Entry)
  /\ current \in Revisions \cup {None} /\ currentSeen \in Revisions \cup {None}
  /\ queued \in BOOLEAN /\ timer \in BOOLEAN /\ budget \in Nat

-----------------------------------------------------------------------------
(***************************************************************************)
(* What a pass reads of the informer's copy.                               *)
(***************************************************************************)
IsInstanceAvailable(o) == o.state = "Normal" /\ o.ready = "old"
IsInstanceReady(o) == o.state = "Normal" /\ o.ready # "no"
IsRoleInstanceHooked(o, hook) == hook \in conf.handlers /\ hook \in o.hooks

\* The active instances: seen, and without a deletion timestamp.
Listed == {i \in DOMAIN insts : insts[i].seen # None /\ ~insts[i].seen.going}
Seen(i) == insts[i].seen
IsSpecifiedDelete(i) == Seen(i).doomed \/ insts[i].named
InPreDelete == {i \in Listed : Seen(i).state = "PreparingDelete"}
Specified == {i \in Listed : IsSpecifiedDelete(i)}
PlannedDeleted == InPreDelete \cup Specified

\* The revisions of a pass: the one of the spec and the one of the status.
UpdateRevision == spec.rev
CurrentRevision == IF currentSeen = None THEN spec.rev ELSE currentSeen
OfRevision(S, rev) == {i \in S : Seen(i).rev = rev}

\* Mutants: a pass does not wait for the events of what it has done.
NoScaleWait == TRUE
NoVersionWait == TRUE
ScaleSatisfied == \A i \in DOMAIN insts : ~insts[i].create /\ ~insts[i].delete
VersionsSatisfied == \A i \in Listed : ~insts[i].version

Partition == CalculatePartitionReplicas(spec.partition, spec.replicas)
MaxSurge == ScaledValue(conf.maxSurge, spec.replicas)
MaxUnavailable ==
  IF conf.maxUnavailable.percent /\ MaxSurge > 0
  THEN (conf.maxUnavailable.value * spec.replicas) \div 100
  ELSE ScaledValue(conf.maxUnavailable, spec.replicas)
ScaleMaxUnavailable ==
  IF conf.scaleMaxUnavailable = None THEN 2147483647
  ELSE ScaledValue(conf.scaleMaxUnavailable, spec.replicas)

-----------------------------------------------------------------------------
(***************************************************************************)
(* calculateDiffsWithExpectation: how many to create, delete and update.   *)
(***************************************************************************)
Abs(n) == IF n < 0 THEN -n ELSE n
Larger(m, n) == IF m < n THEN n ELSE m
Smaller(m, n) == IF m < n THEN m ELSE n
OppositeSigns(m, n) == (m < 0 /\ n > 0) \/ (m > 0 /\ n < 0)

ToDelete == Specified \ InPreDelete
TotalUnavailable ==
  Cardinality(InPreDelete \cup {i \in Listed \ Specified : ~IsInstanceAvailable(Seen(i))})

\* Mutant: one instance too few is kept by the partition.
PartitionMissedByOne ==
  LET updated == OfRevision(Listed, UpdateRevision)
      old == Cardinality((Listed \ updated) \ InPreDelete) - Partition + 1
      new == Cardinality(updated \ InPreDelete) - (spec.replicas - Partition) - 1
  IN IF UpdateRevision = CurrentRevision THEN [old |-> Larger(old, 0), new |-> Smaller(new, 0)]
     ELSE [old |-> old, new |-> new]
\* How many of each revision there are too many (or, negative, too few), of
\* the instances that are not about to be deleted.
UpdateDiffs ==
  LET updated == OfRevision(Listed, UpdateRevision)
      old == Cardinality((Listed \ updated) \ InPreDelete) - Partition
      new == Cardinality(updated \ InPreDelete) - (spec.replicas - Partition)
  IN IF UpdateRevision = CurrentRevision THEN [old |-> Larger(old, 0), new |-> Smaller(new, 0)]
     ELSE [old |-> old, new |-> new]

\* Instances above the replicas, to make up for the ones to be deleted...
ScaleSurge(unavailable) ==
  LET surge == Smaller(Larger(unavailable + Cardinality(ToDelete) - MaxUnavailable, 0),
                       Cardinality(ToDelete))
  IN [total |-> surge,
      old |-> Larger(surge - Cardinality(OfRevision(ToDelete, UpdateRevision)), 0)]
\* ... or for the ones of a revision that has too many.
UpdateSurge(diff) ==
  LET byOld == Abs(diff.old) <= Abs(diff.new)
      surge == IF ~OppositeSigns(diff.old, diff.new) THEN 0
               ELSE IF byOld THEN Abs(diff.old) ELSE Abs(diff.new)
  IN [total |-> surge,
      old |-> IF (byOld /\ diff.old < 0) \/ (~byOld /\ diff.new > 0) THEN surge ELSE 0]

\* The larger of the two is used, as far as maxSurge allows.
UseSurge(diff, unavailable) ==
  LET forScale == ScaleSurge(unavailable)
      forUpdate == UpdateSurge(diff)
      surge == IF forScale.total >= forUpdate.total THEN forScale ELSE forUpdate
      used == IF MaxSurge > 0 /\ ~spec.paused THEN Smaller(MaxSurge, surge.total) ELSE 0
  IN [total |-> used, old |-> Smaller(used, surge.old)]

CalculateDiffs(diff, unavailable, useSurge) ==
  LET scaleNum == spec.replicas + useSurge.total - Cardinality(Listed)
      old == Partition + useSurge.old
               - Cardinality(Listed \ OfRevision(Listed, UpdateRevision))
  IN [scaleNum |-> scaleNum,
      scaleNumOldRevision |-> IF scaleNum > 0 THEN Larger(old, 0)
                              ELSE IF scaleNum < 0 THEN Smaller(old, 0) ELSE 0,
      scaleUpLimit |-> IF scaleNum > 0
                       THEN Smaller(scaleNum, Larger(ScaleMaxUnavailable - unavailable, 0)) ELSE 0,
      deleteReadyLimit |->
        IF ToDelete # {} \/ scaleNum < 0
        THEN Larger(MaxUnavailable + (Cardinality(Listed) - spec.replicas) - unavailable, 0) ELSE 0,
      updateNum |-> IF Abs(diff.old) <= Abs(diff.new) THEN diff.old ELSE -diff.new,
      updateMaxUnavailable |-> MaxUnavailable + Cardinality(Listed) - spec.replicas]

-----------------------------------------------------------------------------
(***************************************************************************)
(* Writes.  A call on an instance fails when it is gone, and may fail      *)
(* whenever the scenario has faults.  The code goes through the instances  *)
(* in an order that is open and stops at the first failure, so the calls   *)
(* on S that succeed are any of S, with one that failed if not all did.    *)
(***************************************************************************)
Faulty == conf.faults /\ budget > 0
CanFail(i) == insts[i].live = None \/ Faulty
Succeeding(S) ==
  (IF \A i \in S : insts[i].live # None THEN {[did |-> S, failed |-> {}]} ELSE {})
    \cup {[did |-> D, failed |-> {f}] :
            D \in SUBSET {i \in S : insts[i].live # None}, f \in {i \in S : CanFail(i)}}

WithState(e, state) == [e EXCEPT !.live.state = state, !.version = TRUE]
Map(F(_), all, S) == [i \in DOMAIN all |-> IF i \in S THEN F(all[i]) ELSE all[i]]

\* The batches of DoItSlowly hold 1, 2, 4, ... calls: which of n creations
\* are done when a failure in a batch keeps the later batches from starting.
CreatedOf(n) ==
  {1 .. n} \cup
    (IF ~Faulty THEN {}
     ELSE UNION {{(1 .. b - 1) \cup D : D \in (SUBSET (b .. Smaller(2 * b - 1, n)))
                                               \ {b .. Smaller(2 * b - 1, n)}} :
                 b \in {1, 2, 4, 8} \cap 1 .. n})

NewInstance(rev) ==
  [live |-> [rev |-> rev, state |-> "Normal", ready |-> "no", gate |-> FALSE,
             done |-> FALSE, doomed |-> FALSE, hooks |-> conf.labels, going |-> FALSE],
   seen |-> None, create |-> TRUE, delete |-> FALSE, version |-> FALSE, named |-> FALSE]

\* createInstances: those of the current revision come first.
CreateInstances(d) ==
  LET ofCurrent == Smaller(d.scaleNumOldRevision, d.scaleUpLimit)
      Rev(S, k) == IF k <= Cardinality(S \cap (1 .. ofCurrent)) THEN CurrentRevision ELSE UpdateRevision
  IN {[insts |-> insts \o [k \in 1 .. Cardinality(S) |-> NewInstance(Rev(S, k))],
       scaling |-> S # {}, failed |-> S # 1 .. d.scaleUpLimit] :
      S \in CreatedOf(d.scaleUpLimit)}

\* deleteInstances: a hooked instance is prepared for deletion instead, and
\* a failure to do that reports nothing as modified.
DeleteEntry(e) ==
  IF IsRoleInstanceHooked(e.seen, "delete") THEN WithState(e, "PreparingDelete")
  ELSE [e EXCEPT !.live.going = TRUE, !.delete = TRUE]
DeleteInstances(S) ==
  LET calls == {i \in S : ~(IsRoleInstanceHooked(Seen(i), "delete")
                              /\ Seen(i).state = "PreparingDelete")}
  IN {[insts |-> Map(DeleteEntry, insts, r.did),
       scaling |-> /\ r.did # {}
                   /\ \A f \in r.failed : ~IsRoleInstanceHooked(Seen(f), "delete"),
       failed |-> r.failed # {}] : r \in Succeeding(calls)}

-----------------------------------------------------------------------------
(***************************************************************************)
(* Scale: the first of its steps that has something to do is the result.   *)
(***************************************************************************)
Nothing == [insts |-> insts, scaling |-> FALSE, failed |-> FALSE]
\* What was done, or what comes next if there was nothing to do.
Otherwise(results, next) ==
  {r \in results : r.scaling \/ r.failed}
    \cup IF \E r \in results : ~r.scaling /\ ~r.failed THEN next ELSE {}

Sized(S, n) == {T \in SUBSET S : Cardinality(T) = Smaller(n, Cardinality(S))}
\* IsRunningAndReady and AvailableFunc of the order in which instances are
\* given up: not ready, not yet available, available.
Rank(i) == CASE Seen(i).ready = "no" -> 0 [] ~IsInstanceAvailable(Seen(i)) -> 1 [] OTHER -> 2
Choose(S, n) == {T \in Sized(S, n) : \A i \in T, j \in S \ T : Rank(i) <= Rank(j)}

\* managePreparingDelete: instances are taken back when more are needed.
Regretted ==
  IF conf.markNotReady THEN {}
  ELSE LET n == spec.replicas - Cardinality(Listed) + Cardinality(PlannedDeleted)
       IN Sized(InPreDelete \ Specified, Larger(n, 0))
ManagePreparingDelete ==
  {[insts |-> Map(LAMBDA e : WithState(e, "Normal"), insts, r.did),
    scaling |-> r.did # {}, failed |-> r.failed # {}] :
   r \in UNION {Succeeding(T) : T \in Regretted}}

\* Ready instances are deleted within the limit, those of the update
\* revision first; the others are deleted at once.
SpecifiedToDelete(d) ==
  LET ready == {i \in ToDelete : IsInstanceReady(Seen(i))}
      new == OfRevision(ready, UpdateRevision)
  IN {(ToDelete \ ready) \cup T :
        T \in {T \in Sized(ready, d.deleteReadyLimit) : T \subseteq new \/ new \subseteq T}}

\* chooseInstancesToDelete, and of those the ready ones within the limit.
ChooseInstancesToDelete(d) ==
  LET total == -d.scaleNum
      old == -d.scaleNumOldRevision
      updated == OfRevision(Listed, UpdateRevision)
  IN IF old >= total THEN Choose(Listed \ updated, total)
     ELSE IF old > 0
     THEN {S \cup T : S \in Choose(Listed \ updated, old), T \in Choose(updated, total - old)}
     ELSE Choose(updated, total)
ScaledIn(d) ==
  UNION {LET ready == {i \in S : IsInstanceReady(Seen(i))}
         IN {(S \ ready) \cup T : T \in Sized(ready, d.deleteReadyLimit)} :
         S \in ChooseInstancesToDelete(d)}

Scale(d) ==
  Otherwise(IF Regretted = {} THEN {Nothing} ELSE ManagePreparingDelete,
    IF d.scaleUpLimit > 0 THEN CreateInstances(d)
    ELSE Otherwise(DeleteInstances(InPreDelete),
           Otherwise(UNION {DeleteInstances(S) : S \in SpecifiedToDelete(d)},
             IF d.scaleNum < 0 /\ PlannedDeleted = {}
             THEN UNION {DeleteInstances(S) : S \in ScaledIn(d)} ELSE {Nothing})))

-----------------------------------------------------------------------------
(***************************************************************************)
(* Update.  all is the instances as Scale has left them; what the pass     *)
(* reads is still the copy it listed before.                               *)
(***************************************************************************)
\* The state an instance goes to, if any (refreshInstanceState).
RefreshedState(o) ==
  CASE o.state = "Updating" /\ o.done ->
         IF conf.handlers # {} /\ ~IsRoleInstanceHooked(o, "update") THEN "Updated" ELSE "Normal"
    [] o.state = "Updated" /\ ("update" \in conf.handlers => "update" \in o.hooks) -> "Normal"
    [] OTHER -> None
\* Mutant: the readiness gate is not opened after an update.
GateLeftShut(e) ==
  IF RefreshedState(e.seen) = None THEN e ELSE WithState(e, RefreshedState(e.seen))
RefreshEntry(e) ==
  LET opened == IF e.seen.done THEN [e EXCEPT !.live.gate = TRUE] ELSE e
  IN IF RefreshedState(e.seen) = None THEN opened ELSE WithState(opened, RefreshedState(e.seen))
\* Instances whose refresh calls the API server.
ToRefresh ==
  {i \in Listed : \/ RefreshedState(Seen(i)) # None
                  \/ Seen(i).done /\ (insts[i].live = None \/ ~insts[i].live.gate)}

TargetRevision(d) == IF d.updateNum < 0 THEN CurrentRevision ELSE UpdateRevision
WaitUpdate(d) ==
  {i \in Listed : /\ Seen(i).state # "PreparingDelete"
                  /\ (d.updateNum > 0) = (Seen(i).rev # UpdateRevision)}
\* SortUpdateIndexes: those prepared for the update first, then by rank.
UpdateOrder(i) == IF Seen(i).state = "PreparingUpdate" THEN 0
                  ELSE IF Seen(i).ready = "no" THEN 1 ELSE 2
Sorted(S) ==
  LET n == Cardinality(S)
  IN {f \in [1 .. n -> S] : \A j, k \in 1 .. n :
        j < k => f[j] # f[k] /\ UpdateOrder(f[j]) <= UpdateOrder(f[k])}
\* limitUpdateIndexes: how many of the first ones may be updated.
CanUpdateCount(d, f) ==
  LET unavailable == {i \in Listed : ~IsInstanceAvailable(Seen(i))}
      target == Cardinality(OfRevision(unavailable, TargetRevision(d)))
      Allowed(k) ==
        /\ target + (k - 1) < d.updateMaxUnavailable
        /\ IsInstanceAvailable(Seen(f[k])) =>
             Cardinality(unavailable)
               + Cardinality({j \in 1 .. k - 1 : IsInstanceAvailable(Seen(f[j]))})
               < d.updateMaxUnavailable
  IN Max({k \in 0 .. Smaller(Abs(d.updateNum), Len(f)) : \A j \in 1 .. k : Allowed(j)})

\* updateInstance, once every call has succeeded; conf.inPlace says whether
\* the strategy and the difference between revisions allow an update in place.
InPlace(d, e) ==
  [e EXCEPT !.live.gate = FALSE, !.live.ready = "no", !.live.done = FALSE,
            !.live.rev = TargetRevision(d), !.live.state = "Updating", !.version = TRUE]
UpdateEntry(d, e) ==
  CASE ~conf.inPlace -> [e EXCEPT !.live.doomed = TRUE, !.version = @ \/ ~e.seen.doomed]
    [] conf.inPlace /\ e.seen.state = "Normal" /\ IsRoleInstanceHooked(e.seen, "update") ->
         WithState(e, "PreparingUpdate")
    [] conf.inPlace /\ e.seen.state = "Updated" ->
         IF "update" \notin conf.handlers THEN e
         ELSE [WithState(e, "PreparingUpdate") EXCEPT !.live.hooks = @ \cup {"update"}]
    [] conf.inPlace /\ e.seen.state = "PreparingUpdate" /\ IsRoleInstanceHooked(e.seen, "update") -> e
    [] OTHER -> InPlace(d, e)
\* An update in place that fails may have closed the gate already.
FailedEntries(e) ==
  {e} \cup IF conf.inPlace /\ e.live # None
           THEN {[e EXCEPT !.live.gate = FALSE, !.live.ready = "no"]} ELSE {}

\* The first k updates, the next one failing unless k is all of them.
UpdatedTo(d, all, f, n, k) ==
  LET done == Map(LAMBDA e : UpdateEntry(d, e), all, {f[j] : j \in 1 .. k})
  IN IF k = n THEN {[insts |-> done, failed |-> FALSE]}
     ELSE IF CanFail(f[k + 1])
     THEN {[insts |-> [done EXCEPT ![f[k + 1]] = e], failed |-> TRUE] :
             e \in FailedEntries(all[f[k + 1]])}
     ELSE {}
UpdateInstances(d, all) ==
  UNION {LET n == CanUpdateCount(d, f)
         IN UNION {UpdatedTo(d, all, f, n, k) :
                   k \in {k \in 0 .. n : \A j \in 1 .. k : all[f[j]].live # None}} :
         f \in Sorted(WaitUpdate(d))}

Update(d, all) ==
  UNION {LET refreshed == Map(RefreshEntry, all, r.did)
             stop == \/ r.failed # {} \/ \E i \in r.did : RefreshedState(Seen(i)) # None
                     \/ spec.paused \/ d.updateNum = 0
         IN IF stop THEN {[insts |-> refreshed, failed |-> r.failed # {}]}
            ELSE UpdateInstances(d, refreshed) :
         r \in Succeeding(ToRefresh)}

-----------------------------------------------------------------------------
(***************************************************************************)
(* A pass (doReconcile).  The spec it reads is the one of the last event;  *)
(* what happens at the API server while a pass runs is no different from   *)
(* what happens right after it, since expectations are set before a call.  *)
(***************************************************************************)
Sync(d) ==
  UNION {IF r.scaling THEN {[insts |-> r.insts, failed |-> r.failed]}
         ELSE {[insts |-> u.insts, failed |-> r.failed \/ u.failed] : u \in Update(d, r.insts)} :
         r \in Scale(d)}

\* calculateStatus: the update revision is the current one once every listed
\* instance has it.
NewCurrent ==
  IF \A i \in Listed : Seen(i).rev = UpdateRevision THEN UpdateRevision ELSE CurrentRevision
\* Ready instances that are not yet available need another pass.
NeedsLater ==
  \E i \in Listed : Seen(i).ready # "no" /\ ~IsInstanceAvailable(Seen(i))

\* truncateInstancesToDelete: only the names of listed instances stay.
Truncated(all) == [i \in DOMAIN all |-> [all[i] EXCEPT !.named = @ /\ i \in Listed]]

Skip ==
  /\ queued
  /\ ~ScaleSatisfied \/ ~VersionsSatisfied
  /\ queued' = FALSE
  /\ UNCHANGED <<conf, spec, insts, current, currentSeen, timer, budget>>

\* The spec is read as it is: only passes read it, so one that reads an older
\* copy is one that came before the change.
Pass ==
  /\ queued
  /\ ScaleSatisfied /\ VersionsSatisfied
  /\ \E diff \in {UpdateDiffs}, unavailable \in {TotalUnavailable} :
     \E useSurge \in {UseSurge(diff, unavailable)} :
     \E d \in {CalculateDiffs(diff, unavailable, useSurge)} :
     \E r \in Sync(d), status \in {TRUE, ~Faulty}, truncated \in {TRUE, ~Faulty} :
       /\ insts' = IF status /\ truncated THEN Truncated(r.insts) ELSE r.insts
       /\ current' \in IF ~status THEN {current}
                       ELSE {NewCurrent} \cup IF NewCurrent = currentSeen THEN {current} ELSE {}
       /\ queued' = (r.failed \/ ~status)
       /\ timer' = (timer \/ (status /\ ~r.failed /\ conf.minReady /\ NeedsLater))
       /\ budget' = IF Faulty /\ (r.failed \/ ~status \/ ~truncated) THEN budget - 1 ELSE budget
  /\ UNCHANGED <<conf, spec, currentSeen>>

-----------------------------------------------------------------------------
(***************************************************************************)
(* The informer and its event handler, and the clock.                      *)
(***************************************************************************)
\* The events of an instance up to the present: its creation and its
\* deletion are observed, and an expected version has arrived.  (The watch tells
\* of the creation first.  Only a new list could show an instance for the first
\* time when it is being deleted, and its creation would not be observed then.)
Deliver(i) ==
  /\ insts[i].seen # insts[i].live \/ insts[i].create \/ insts[i].version
  /\ insts' = IF insts[i].live = None THEN RemoveAt(insts, i)
              ELSE [insts EXCEPT ![i].seen = insts[i].live, ![i].create = FALSE,
                                 ![i].version = FALSE,
                                 ![i].delete = @ /\ ~insts[i].live.going]
  /\ queued' = TRUE
  /\ UNCHANGED <<conf, spec, current, currentSeen, timer, budget>>

DeliverStatus ==
  /\ currentSeen # current
  /\ currentSeen' = current
  /\ UNCHANGED <<conf, spec, insts, current, queued, timer, budget>>

\* minReadySeconds pass; both copies hold the time the instance turned ready.
Age(i) ==
  /\ \E o \in {insts[i].live, insts[i].seen} \ {None} : o.ready = "fresh"
  /\ LET Older(o) == IF o # None /\ o.ready = "fresh" THEN [o EXCEPT !.ready = "old"] ELSE o
     IN insts' = [insts EXCEPT ![i].live = Older(@), ![i].seen = Older(@)]
  /\ UNCHANGED <<conf, spec, current, currentSeen, queued, timer, budget>>

Fire ==
  /\ timer
  /\ timer' = FALSE /\ queued' = TRUE
  /\ UNCHANGED <<conf, spec, insts, current, currentSeen, budget>>

-----------------------------------------------------------------------------
(***************************************************************************)
(* The instance controller, seen from here: it reports the revision of the *)
(* components, then readiness once the gate is open, and finishes what is  *)
(* being deleted.  The owner of the hooks releases what waits for it.      *)
(***************************************************************************)
SetLive(i, o) ==
  /\ insts' = [insts EXCEPT ![i].live = o]
  /\ UNCHANGED <<conf, spec, current, currentSeen, queued, timer>>

Report(i) ==
  LET o == insts[i].live IN
  /\ o # None /\ ~o.going
  /\ \/ ~o.done /\ SetLive(i, [o EXCEPT !.done = TRUE])
     \/ o.done /\ o.gate /\ o.ready = "no"
          /\ SetLive(i, [o EXCEPT !.ready = IF conf.minReady THEN "fresh" ELSE "old"])
  /\ UNCHANGED budget

Finish(i) ==
  LET o == insts[i].live IN
  /\ o # None /\ o.going
  /\ SetLive(i, None)
  /\ UNCHANGED budget

ReleaseHook(i) ==
  LET o == insts[i].live IN
  /\ o # None /\ ~o.going
  /\ \/ o.state = "PreparingDelete" /\ "delete" \in o.hooks
          /\ SetLive(i, [o EXCEPT !.hooks = @ \ {"delete"}])
     \/ o.state = "PreparingUpdate" /\ "update" \in o.hooks
          /\ SetLive(i, [o EXCEPT !.hooks = @ \ {"update"}])
     \/ o.state = "Updated" /\ "update" \in conf.handlers \ o.hooks
          /\ SetLive(i, [o EXCEPT !.hooks = @ \cup {"update"}])
  /\ UNCHANGED budget

-----------------------------------------------------------------------------
(***************************************************************************)
(* Changes: the spec, requests to delete an instance, failures, deletions  *)
(* by others, restarts of the controller.  Budget bounds them.             *)
(***************************************************************************)
Spend == budget > 0 /\ budget' = budget - 1

ChangeSpec ==
  /\ Spend
  /\ \/ \E n \in conf.sizes : spec' = [spec EXCEPT !.replicas = n]
     \/ \E rev \in conf.revisions : spec' = [spec EXCEPT !.rev = rev]
     \/ \E p \in conf.partitions : spec' = [spec EXCEPT !.partition = p]
     \/ conf.pauses /\ spec' = [spec EXCEPT !.paused = ~@]
  /\ queued' = TRUE
  /\ UNCHANGED <<conf, insts, current, currentSeen, timer>>

NameForDeletion(i) ==
  /\ conf.requests /\ Spend
  /\ insts[i].live # None /\ ~insts[i].live.going
  /\ insts' = [insts EXCEPT ![i].named = TRUE]
  /\ queued' = TRUE
  /\ UNCHANGED <<conf, spec, current, currentSeen, timer>>

LabelForDeletion(i) ==
  /\ conf.requests /\ Spend
  /\ insts[i].live # None
  /\ SetLive(i, [insts[i].live EXCEPT !.doomed = TRUE])

Fail(i) ==
  /\ conf.failures /\ Spend
  /\ insts[i].live # None /\ insts[i].live.ready # "no"
  /\ SetLive(i, [insts[i].live EXCEPT !.ready = "no"])

Evict(i) ==
  /\ conf.failures /\ Spend
  /\ insts[i].live # None
  /\ SetLive(i, [insts[i].live EXCEPT !.going = TRUE])

\* The numbers of S in their order.
Ascending(S) ==
  {f \in [1 .. Cardinality(S) -> S] : \A j, k \in 1 .. Cardinality(S) : j < k => f[j] < f[k]}
\* The expectations of a controller that starts again are empty, and its
\* informers have listed everything before its first pass.
Relisted(e) == [e EXCEPT !.seen = e.live, !.create = FALSE, !.delete = FALSE, !.version = FALSE]
Restart ==
  /\ conf.failures /\ Spend
  /\ \E f \in Ascending({i \in DOMAIN insts : insts[i].live # None}) :
       insts' = [k \in DOMAIN f |-> Relisted(insts[f[k]])]
  /\ currentSeen' = current
  /\ queued' = TRUE /\ timer' = FALSE
  /\ UNCHANGED <<conf, spec, current>>

-----------------------------------------------------------------------------
\* A set begins without instances, or as it is after it came to rest.
SettledInstance(s) ==
  LET o == [rev |-> s.spec.rev, state |-> "Normal", ready |-> "old", gate |-> TRUE, done |-> TRUE,
            doomed |-> FALSE, hooks |-> s.conf.labels, going |-> FALSE]
  IN [live |-> o, seen |-> o, create |-> FALSE, delete |-> FALSE, version |-> FALSE, named |-> FALSE]
Init ==
  /\ \E s \in Scenarios :
       /\ conf = s.conf /\ spec = s.spec
       /\ \/ s.settled /\ insts = [i \in 1 .. s.spec.replicas |-> SettledInstance(s)]
            /\ current = s.spec.rev /\ currentSeen = s.spec.rev
          \/ ~s.settled /\ insts = << >> /\ current = None /\ currentSeen = None
  /\ queued = TRUE /\ timer = FALSE /\ budget = Budget

Informer == (\E i \in DOMAIN insts : Deliver(i)) \/ DeliverStatus
Clock == (\E i \in DOMAIN insts : Age(i)) \/ Fire
Instance == \E i \in DOMAIN insts : Report(i) \/ Finish(i) \/ ReleaseHook(i)
Environment ==
  \/ ChangeSpec \/ Restart
  \/ \E i \in DOMAIN insts : NameForDeletion(i) \/ LabelForDeletion(i) \/ Fail(i) \/ Evict(i)
Next == Skip \/ Pass \/ Informer \/ Clock \/ Instance \/ Environment

\* The work queue, the informers, the clock and the instance controller go
\* on; nobody has to change anything.
Fairness ==
  /\ WF_vars(Skip \/ Pass)
  /\ WF_vars(\E i \in DOMAIN insts : Deliver(i)) /\ WF_vars(DeliverStatus)
  /\ WF_vars(\E i \in DOMAIN insts : Age(i)) /\ WF_vars(Fire)
  /\ WF_vars(Instance)
Spec == Init /\ [][Next]_vars /\ Fairness

-----------------------------------------------------------------------------
(***************************************************************************)
(* Properties.                                                             *)
(***************************************************************************)
Active(all) == {i \in DOMAIN all : all[i].live # None /\ ~all[i].live.going}
Available(all) == {i \in Active(all) : IsInstanceAvailable(all[i].live)}
\* Instances that have become unavailable, not by a write of the controller's
\* own, and are still listed as available.
UnseenLosses ==
  {i \in Listed : /\ IsInstanceAvailable(Seen(i)) /\ i \notin Available(insts)
                  /\ ~insts[i].version /\ ~insts[i].delete}

\* A step of the controller: the entries keep their places and nobody else
\* has touched an instance.
ByController ==
  /\ Len(insts') >= Len(insts)
  /\ conf.failures \/ conf.requests => budget' = budget
\* The available instances that a step takes away, of those listed as such.
Taken ==
  {i \in Listed : /\ IsInstanceAvailable(Seen(i))
                  /\ i \in Available(insts) \ Available(insts')}

\* However far the informer lags, a pass that creates instances never brings
\* the set above its replicas and maxSurge: the creations of earlier passes
\* that are not yet listed are expected, and block it.
SurgeKept ==
  [][Len(insts') > Len(insts) =>
       Cardinality(Active(insts')) <= spec.replicas + MaxSurge]_vars

\* The same, where instances that are unavailable and to be deleted are not
\* counted as missing: the code does not count them as unavailable either.
FloorKeptButSpecified ==
  [][ByController /\ Taken # {} =>
       Cardinality(Available(insts')) + Cardinality(UnseenLosses)
           + Cardinality({i \in ToDelete : ~IsInstanceAvailable(Seen(i))})
         >= spec.replicas - MaxUnavailable]_vars

\* Updating instances, in place or by deletion, never leaves fewer than the
\* partition's number of instances on an older revision.
Old(all) == {i \in Active(all) \cap Listed : all[i].live.rev # spec.rev}
Staying(all) == {i \in Old(all) : ~all[i].live.doomed}
PartitionKept ==
  [][ByController /\ Staying(insts) \ Staying(insts') # {} /\ spec.replicas >= Cardinality(Listed)
       => Cardinality(Staying(insts')) + Cardinality(Specified \cap Old(insts)) >= Partition]_vars

\* When the changes end the set comes to rest with all its replicas there,
\* nothing left to delete and, unless the update is paused, all available and
\* no more old instances than the partition keeps.
AtRest ==
  /\ Active(insts) = DOMAIN insts /\ Len(insts) = spec.replicas
  /\ \A i \in DOMAIN insts : ~insts[i].live.doomed /\ ~insts[i].named
  /\ \/ spec.paused
     \/ /\ Available(insts) = DOMAIN insts
        /\ Cardinality({i \in DOMAIN insts : insts[i].live.rev # spec.rev}) <= Partition
Converges == <>[]AtRest

=============================================================================
