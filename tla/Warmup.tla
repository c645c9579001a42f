-------------------------------- MODULE Warmup --------------------------------
(***************************************************************************)
(* The RoleBasedGroupWarmup controller: one warmup job, its target, the    *)
(* warmup pods it creates on the nodes of the target, the informer's copy  *)
(* of the job and of the pods, and the work queue.  The users, the         *)
(* scheduler that moves the target's pods, the kubelets and the clock are  *)
(* the environment.                                                        *)
(*                                                                         *)
(* A pass decides from the informer's copies, which lag; nothing tells it  *)
(* which of its own creations they already show.  Status writes are        *)
(* refused when the job has changed since it was read.  Every pod here     *)
(* carries a customized action, so the job reports a result for each node. *)
(***************************************************************************)
EXTENDS Optional, Integers, Sequences, FiniteSets, FiniteSetsExt

CONSTANTS
  MaxNode,     \* the nodes are 1 .. MaxNode, in the order of their names
  Roles,       \* the roles of the target group
  Scenarios    \* the specs and bounds a behaviour may have

Nodes == 1 .. MaxNode
Limit == Nat \cup {None}
Terminal == {"Completed", "Failed"}
Phases == {"", "Running", "Paused"} \cup Terminal

\* A group: whether it exists, the replicas of each role in its spec and in a
\* bound scaling adapter, and the nodes that hold a live pod of the role.
TargetGroup == [exists : BOOLEAN, replicas : [Roles -> Nat], adapter : [Roles -> Limit],
                on : [Roles -> SUBSET Nodes]]
\* A warmup action: its images or its containers, whether one of them has a
\* blank image, and the timeout of a customized action.
Action == [items : Nat, blank : BOOLEAN, timeout : Limit]
\* The API refuses a parallelism of 0.
Policies == [parallelism : Limit \ {0}, backoffLimit : Limit, maxFailedNodes : Limit,
             timeout : BOOLEAN, ttl : BOOLEAN]
\* target is the nodes of a TargetNodes, or None for a TargetRoleBasedGroup.
Configuration ==
  [actions : SUBSET Action, target : (SUBSET Nodes) \cup {None}, roles : SUBSET Roles, policies : Policies,
   groups : SUBSET TargetGroup,           \* what the target group may be in turn
   maxMoves : Nat, maxPods : Nat, maxLag : Nat, maxFaults : Nat, maxPauses : Nat]
ASSUME WarmupAssumption == MaxNode \in Nat /\ None \notin Nat /\ Scenarios \subseteq Configuration

VARIABLES
  conf,       \* the scenario: the spec, which no step changes, and the bounds
  group,      \* the target group and its pods
  job,        \* the RoleBasedGroupWarmup in the API server
  seenJob,    \* the informer's copy
  fresh,      \* the copy has job's resource version
  pods,       \* the warmup pods in the order they were created
  seen,       \* the informer's copy
  feed,       \* the later states of pods the informer has still to show
  queued,     \* the job's key is in the work queue
  timer,      \* a delayed requeue is pending
  expired,    \* the global timeout has elapsed since the job was created
  aged,       \* the TTL has elapsed since the job finished
  moves, faults, pauses    \* what happened so far, for the bounds

jobVars == <<job, seenJob, fresh>>
podVars == <<pods, seen, feed>>
wakeVars == <<queued, timer>>
clocks == <<expired, aged>>
counts == <<moves, faults, pauses>>
vars == <<conf, group, jobVars, podVars, wakeVars, clocks, counts>>

States == {"Pending", "Succeeded", "Failed"}
Result == [pod : Nat, state : States]
NoResult == [pod |-> 0, state |-> "Pending"]
Status == [phase : Phases, started : BOOLEAN, finished : BOOLEAN,
           desired : Nat, active : Nat, succeeded : Nat, failed : Nat,
           ready : {"", "True", "False", "Unknown"}, action : {"", "Complete", "Failed"},
           results : [Nodes -> Result]]
Job == [exists : BOOLEAN, paused : BOOLEAN, st : Status]
Pod == [node : Nodes, attempt : Nat, phase : States \cup {"Gone"}, action : States, deleting : BOOLEAN]

\* Every variable holds a value of its type.
TypeOK ==
  /\ conf \in Scenarios /\ group \in conf.groups
  /\ job \in Job /\ seenJob \in Job /\ fresh \in BOOLEAN
  /\ pods \in Seq(Pod) /\ Len(pods) <= conf.maxPods /\ seen \in Seq(Pod)
  /\ feed \in Seq(Seq(Pod)) /\ Len(feed) <= conf.maxLag
  /\ {queued, timer, expired, aged} \subseteq BOOLEAN
  /\ moves <= conf.maxMoves /\ faults <= conf.maxFaults /\ pauses <= conf.maxPauses

-----------------------------------------------------------------------------
(***************************************************************************)
(* What a pass makes of what it reads.                                     *)
(***************************************************************************)
Policy == conf.policies
Within(n, limit) == limit = None \/ n <= limit

\* listWarmupPods: a pod that ended counts even when it is being deleted.
ActivePods == {i \in DOMAIN seen : seen[i].phase = "Pending" /\ ~seen[i].deleting}
SucceededPods == {i \in DOMAIN seen : seen[i].phase = "Succeeded"}
FailedPods == {i \in DOMAIN seen : seen[i].phase = "Failed"}
On(P, list) == {list[i].node : i \in P}


\* The replicas of a role: a bound scaling adapter overrides the spec's.
ApplyTargetScalingAdapterReplicas(r) ==
  IF group.adapter[r] = None THEN group.replicas[r] ELSE group.adapter[r]

PodsNotReady(r) ==
  Max({0, ApplyTargetScalingAdapterReplicas(r) - Cardinality(group.on[r])})
\* Surplus pods of one role do not make up for missing ones of another.
CountTargetPodsNotReady ==
  IF conf.target = None /\ group.exists THEN MapThenSumSet(PodsNotReady, conf.roles) ELSE 0

GetDesiredNodesToWarmup ==
  IF conf.target # None THEN conf.target
  ELSE IF group.exists THEN UNION {group.on[r] : r \in conf.roles} ELSE {}

ComputePermanentlyFailedNodes ==
  {n \in Nodes : Policy.backoffLimit # None
                   /\ Cardinality({i \in FailedPods : seen[i].node = n}) > Policy.backoffLimit}

CountUnsucceededNodes == Cardinality(On(FailedPods, seen) \ On(SucceededPods, seen))

\* One read of everything a pass looks at.
View ==
  [desired |-> GetDesiredNodesToWarmup, pending |-> CountTargetPodsNotReady,
   lost |-> conf.target = None /\ ~group.exists,
   active |-> ActivePods, perm |-> ComputePermanentlyFailedNodes,
   ok |-> On(SucceededPods, seen), bad |-> CountUnsucceededNodes,
   exist |-> seenJob.st.started \/ ActivePods \cup SucceededPods \cup FailedPods # {}]

WarmupReachedTerminalState(v) ==
  IF v.desired = {} THEN v.active = {} /\ v.pending = 0
  ELSE v.active = {} /\ v.desired \subseteq v.ok \cup v.perm

\* Mutant: an empty desired set never fails the job.
FailCollapsedDesiredSetNever(v) == FALSE
FailCollapsedDesiredSet(v) ==
  /\ v.desired = {} /\ ~(v.pending > 0) /\ v.active = {} /\ v.bad > 0
  /\ ~Within(v.bad, Policy.maxFailedNodes)

ValidateWarmupActions(a) == a.items > 0 /\ ~a.blank /\ (a.timeout # None => a.timeout > 0)
ValidateWarmupSpec == \A a \in conf.actions : ValidateWarmupActions(a)

\* The early returns of reconcileUnfinished, in their order: how the pass ends,
\* and why when the job fails.
Verdict(v) ==
  IF ~ValidateWarmupSpec THEN "InvalidWarmupSpec"
  ELSE IF v.lost /\ ~v.exist THEN IF expired THEN "InvalidTarget" ELSE "wait"
  ELSE IF v.pending > 0 /\ ~v.exist THEN IF expired THEN "GlobalTimeoutExceeded" ELSE "wait"
  ELSE IF FailCollapsedDesiredSet(v) THEN "MaxFailedNodesExceeded"
  ELSE IF Policy.backoffLimit # None /\ ~Within(Cardinality(v.perm), Policy.maxFailedNodes)
    THEN "MaxFailedNodesExceeded"
  ELSE IF expired /\ ~WarmupReachedTerminalState(v) THEN "GlobalTimeoutExceeded"
  ELSE "run"

\* Mutant: a node with a failed pod is not tried again.
CollectPendingNodesOnce(v) == (v.desired \ On(FailedPods, seen)) \ (On(v.active, seen) \cup v.ok)
CollectPendingNodes(v) == (v.desired \ v.perm) \ (On(v.active, seen) \cup v.ok)

\* The nodes that get a pod, the first in the order of their names.
CreateBudget(v) ==
  IF Policy.parallelism = None THEN MaxNode ELSE Max({0, Policy.parallelism - Cardinality(v.active)})
FirstPending(v, k) ==
  {n \in CollectPendingNodes(v) : Cardinality({m \in CollectPendingNodes(v) : m < n}) < k}

NextWarmupAttempts(n) ==
  LET failed == {i \in FailedPods : seen[i].node = n}
  IN  1 + Max({Cardinality(failed)} \cup {seen[i].attempt : i \in failed})

BuildWarmupPod(n) == [node |-> n, attempt |-> NextWarmupAttempts(n), phase |-> "Pending",
                      action |-> "Pending", deleting |-> FALSE]

\* The pods after the creations on the nodes of N, in the order of their names.
Nth(N, k) == CHOOSE n \in N : Cardinality({m \in N : m < n}) = k - 1
Created(N) == pods \o [k \in 1 .. Cardinality(N) |-> BuildWarmupPod(Nth(N, k))]

-----------------------------------------------------------------------------
(***************************************************************************)
(* The results of the customized actions, from the listed pods L (the      *)
(* seen ones and those the pass created).                                  *)
(***************************************************************************)
\* A younger attempt, or a younger pod of the same attempt.
CustomizedActionPodIsNewer(L, a, b) == L[a].attempt > L[b].attempt \/ (L[a].attempt = L[b].attempt /\ a > b)

\* What the containers of the customized action of a pod that ended may amount
\* to: those of a failed pod may have succeeded, next to an image that did not.
AggregateCustomizedActionState(phase) ==
  IF phase = "Succeeded" THEN {"Succeeded"} ELSE {"Succeeded", "Failed"}
EvaluateCustomizedActionPod(L, i) == [pod |-> i, state |-> L[i].action]

\* Mutant: what the pods show is always believed.
CustomizedActionObservationRegressedNever(L, previous, observed) == FALSE
CustomizedActionObservationRegressed(L, previous, observed) ==
  /\ previous.pod # observed.pod
  /\ IF previous.pod \in DOMAIN L THEN ~CustomizedActionPodIsNewer(L, observed.pod, previous.pod)
     ELSE observed.state = "Failed"

\* evaluateCustomizedActionResultsForNodes, preserveCustomizedActionResultsForNodes
CustomizedActionResult(L, previous, n) ==
  LET mine == {i \in DOMAIN L : L[i].node = n /\ ~L[i].deleting}
      latest == CHOOSE i \in mine : \A k \in mine \ {i} : CustomizedActionPodIsNewer(L, i, k)
      observed == EvaluateCustomizedActionPod(L, latest)
  IN  IF mine = {} THEN previous
      ELSE IF previous # NoResult /\ CustomizedActionObservationRegressed(L, previous, observed) THEN previous
      ELSE observed

Results(L, previous) == [n \in Nodes |-> CustomizedActionResult(L, previous[n], n)]

CustomizedActionDiagnosticNodes(L, v, previous) ==
  v.desired \cup On(DOMAIN L, L) \cup {n \in Nodes : previous[n] # NoResult}

UpdateCustomizedActionConditions(results, nodes, perm, timedOut) ==
  LET known == {n \in Nodes : results[n] # NoResult}
  IN  IF nodes = {} \/ (known = {} /\ ~timedOut) THEN ""
      ELSE IF known = nodes /\ \A n \in known : results[n].state = "Succeeded" THEN "Complete"
      ELSE IF timedOut \/ \E n \in known \cap perm : results[n].state = "Failed" THEN "Failed"
      ELSE ""

-----------------------------------------------------------------------------
(***************************************************************************)
(* The status a pass writes.                                               *)
(***************************************************************************)
TargetReady(v, st) ==
  IF conf.target # None THEN st.ready
  ELSE IF v.lost THEN "Unknown" ELSE IF v.pending > 0 THEN "False" ELSE "True"

Listed == ActivePods \cup SucceededPods \cup FailedPods

\* updateWarmupPhase and updateEmptyDesiredPhase, for the node counters in st.
PhaseOf(v, st) ==
  IF v.desired = {}
    THEN IF st.active > 0 \/ v.pending > 0 THEN "Running" ELSE "Completed"
  ELSE IF st.succeeded + st.failed >= st.desired /\ st.active = 0
    THEN IF st.failed > 0 /\ ~Within(st.failed, Policy.maxFailedNodes) THEN "Failed" ELSE "Completed"
  ELSE IF st.active + st.succeeded + st.failed > 0 THEN "Running" ELSE st.phase

ActiveNodes(v, new) == Cardinality((On(v.active, seen) \cup new) \ (v.ok \cup v.perm))

\* updateStatusWithTarget, with the pods all after the creations.
UpdateStatus(v, st, all) ==
  LET new == Len(pods) + 1 .. Len(all)
      L == [i \in Listed \cup new |-> IF i \in Listed THEN seen[i] ELSE all[i]]
      results == Results(L, st.results)
      counted ==
        [st EXCEPT !.desired = Cardinality(v.desired), !.succeeded = Cardinality(v.ok),
                   !.active = ActiveNodes(v, On(new, all)), !.failed = Cardinality(v.perm),
                   !.ready = TargetReady(v, st), !.results = results, !.started = @ \/ DOMAIN L # {},
                   !.action = UpdateCustomizedActionConditions(results,
                                CustomizedActionDiagnosticNodes(L, v, st.results), v.perm, FALSE)]
      phase == PhaseOf(v, counted)
  IN  [counted EXCEPT !.phase = phase, !.finished = @ \/ phase \in Terminal,
         !.started = @ \/ (v.desired = {} /\ phase = "Completed"),
         !.failed = IF v.desired = {} /\ phase = "Completed" THEN Max({@, v.bad}) ELSE @]

\* failWarmupJob; a spec or a target that is not valid leaves no desired nodes.
FailedStatus(v, st, why) ==
  LET desired == IF why \in {"InvalidWarmupSpec", "InvalidTarget"} THEN {} ELSE v.desired
      L == [i \in Listed |-> seen[i]]
      results == [n \in Nodes |->
        LET r == CustomizedActionResult(L, st.results[n], n)
        IN  IF r = NoResult \/ r.state = "Succeeded" THEN r ELSE [r EXCEPT !.state = "Failed"]]
  IN  [st EXCEPT !.phase = "Failed", !.finished = TRUE, !.desired = Cardinality(desired), !.active = 0,
         !.succeeded = Cardinality(v.ok), !.failed = Cardinality(On(FailedPods, seen)),
         !.ready = IF ~ValidateWarmupSpec \/ (~v.exist /\ (v.lost \/ v.pending > 0)) THEN @ ELSE TargetReady(v, st),
         !.results = results,
         !.action = UpdateCustomizedActionConditions(results,
                      CustomizedActionDiagnosticNodes(L, [v EXCEPT !.desired = desired], st.results),
                      v.perm, why = "GlobalTimeoutExceeded")]

-----------------------------------------------------------------------------
(***************************************************************************)
(* Reconcile.                                                              *)
(***************************************************************************)
\* A status update: nothing when it changes nothing, an error and a retry when
\* the job is not the one that was read.
Save(st) ==
  /\ IF st # seenJob.st /\ fresh
       THEN job' = [job EXCEPT !.st = st] /\ fresh' = FALSE
       ELSE UNCHANGED <<job, fresh>>
  /\ queued' = (st # seenJob.st /\ ~fresh)
  /\ UNCHANGED seenJob

\* The status reconcileUnfinished goes on with: a resumed job runs again, and
\* that is written at once.
Resumed == IF seenJob.st.phase = "Paused" THEN [seenJob.st EXCEPT !.phase = "Running"] ELSE seenJob.st
Unfinished ==
  /\ queued /\ seenJob.exists /\ ~seenJob.paused /\ seenJob.st.phase \notin Terminal
  /\ seenJob.st.phase = "Paused" => fresh

Skip ==
  /\ queued
  /\ \/ ~seenJob.exists
     \/ seenJob.st.phase \in Terminal /\ (~Policy.ttl \/ ~seenJob.st.finished)
     \/ seenJob.paused /\ seenJob.st.phase = "Paused"
  /\ queued' = FALSE
  /\ UNCHANGED <<conf, group, jobVars, podVars, timer, clocks, counts>>

Pause ==
  /\ queued /\ seenJob.exists /\ seenJob.paused /\ seenJob.st.phase \notin Terminal \cup {"Paused"}
  /\ Save([seenJob.st EXCEPT !.phase = "Paused"])
  /\ UNCHANGED <<conf, group, podVars, timer, clocks, counts>>

\* The write that resumes the job is refused.
ResumeConflict ==
  /\ queued /\ seenJob.exists /\ ~seenJob.paused /\ seenJob.st.phase = "Paused" /\ ~fresh
  /\ UNCHANGED vars

\* reconcileFinished
ReconcileFinished ==
  /\ queued /\ seenJob.exists /\ seenJob.st.phase \in Terminal /\ Policy.ttl /\ seenJob.st.finished
  /\ IF aged THEN job' = [job EXCEPT !.exists = FALSE] /\ fresh' = FALSE /\ UNCHANGED timer
     ELSE timer' = TRUE /\ UNCHANGED <<job, fresh>>
  /\ queued' = FALSE
  /\ UNCHANGED <<conf, group, seenJob, podVars, clocks, counts>>

\* markTargetNotReady: the target is polled.
WaitForTarget ==
  /\ Unfinished
  /\ Verdict(View) = "wait"
  /\ Save([Resumed EXCEPT !.phase = "Running", !.ready = "False"])
  /\ timer' = TRUE
  /\ UNCHANGED <<conf, group, podVars, clocks, counts>>

\* The changes of the pods reach the informer later.
Change(all) ==
  /\ pods' = all
  /\ IF all = pods THEN UNCHANGED feed
     ELSE Len(feed) < conf.maxLag /\ feed' = Append(feed, all)

Mark(D) == [i \in DOMAIN pods |-> IF i \in D THEN [pods[i] EXCEPT !.deleting = TRUE] ELSE pods[i]]
Alive(i) == pods[i].phase # "Gone"

\* failWarmupJob: a pod that cannot be deleted is left, with a log line.
FailWarmupJob ==
  /\ Unfinished
  /\ \E v \in {View} :
       /\ Verdict(v) \notin {"run", "wait"}
       /\ \E left \in SUBSET v.active :
            /\ faults' = faults + Cardinality(left) /\ faults' <= conf.maxFaults
            /\ Change(Mark({i \in v.active \ left : Alive(i)}))
       /\ Save(FailedStatus(v, Resumed, Verdict(v)))
  /\ UNCHANGED <<conf, group, seen, timer, clocks, moves, pauses>>

\* Mutant: nothing wakes the job again.
RequeueNever(v, st) == FALSE
\* requeueAfterReconcile: the target is polled when no node is left to warm,
\* and the deadline wakes every other job that has not finished.
RequeueAfterReconcile(v, st) ==
  \/ v.pending > 0 /\ v.desired = {} /\ st.phase = "Running"
  \/ st.phase \notin Terminal /\ Policy.timeout /\ ~expired

\* createPodsForNodes, then the status.  The creations stop at the first that
\* fails: the pass ends with an error before it writes a status, as it does
\* when the process dies between the two.
CreatePodsAndUpdateStatus ==
  /\ Unfinished
  /\ \E v \in {View} :
       /\ Verdict(v) = "run"
       /\ \E batch \in {FirstPending(v, CreateBudget(v))} :
          \E k \in 0 .. Cardinality(batch) :
            LET stopped == k < Cardinality(batch)
                full == k = conf.maxPods - Len(pods)
            IN  /\ Len(pods) + k <= conf.maxPods
                /\ faults' = faults + (IF stopped /\ ~full THEN 1 ELSE 0) /\ faults' <= conf.maxFaults
                /\ \E all \in {Created(FirstPending(v, k))} :
                     /\ Change(all)
                     /\ IF stopped
                          THEN /\ job' = [job EXCEPT !.st = IF Resumed # seenJob.st THEN Resumed ELSE @]
                               /\ fresh' = (fresh /\ Resumed = seenJob.st)
                               /\ queued' = TRUE
                               /\ UNCHANGED <<seenJob, timer>>
                          ELSE \E st \in {UpdateStatus(v, Resumed, all)} :
                               /\ Save(st)
                               /\ timer' = (timer \/ RequeueAfterReconcile(v, st))
  /\ UNCHANGED <<conf, group, seen, clocks, moves, pauses>>

Pass ==
  \/ Skip \/ Pause \/ ResumeConflict \/ ReconcileFinished
  \/ WaitForTarget \/ FailWarmupJob \/ CreatePodsAndUpdateStatus

-----------------------------------------------------------------------------
(***************************************************************************)
(* The environment.                                                        *)
(***************************************************************************)
TimerFires ==
  /\ timer
  /\ timer' = FALSE /\ queued' = TRUE
  /\ UNCHANGED <<conf, group, jobVars, podVars, clocks, counts>>

\* The informer shows the job, which wakes the controller.
DeliverJob ==
  /\ ~fresh
  /\ seenJob' = job /\ fresh' = TRUE /\ queued' = TRUE
  /\ UNCHANGED <<conf, group, job, podVars, timer, clocks, counts>>

DeliverPods ==
  /\ feed # <<>>
  /\ seen' = Head(feed) /\ feed' = Tail(feed) /\ queued' = TRUE
  /\ UNCHANGED <<conf, group, jobVars, pods, timer, clocks, counts>>

\* The group is edited, or its pods move.  Only the group itself is watched.
MoveTarget ==
  /\ conf.target = None /\ moves < conf.maxMoves
  /\ \E g \in conf.groups \ {group} :
       /\ group' = g
       /\ queued' = (queued \/ g.exists # group.exists \/ g.replicas # group.replicas)
  /\ moves' = moves + 1
  /\ UNCHANGED <<conf, jobVars, podVars, timer, clocks, faults, pauses>>

TogglePaused ==
  /\ job.exists /\ pauses < conf.maxPauses
  /\ job' = [job EXCEPT !.paused = ~@] /\ fresh' = FALSE
  /\ pauses' = pauses + 1
  /\ UNCHANGED <<conf, group, seenJob, podVars, wakeVars, clocks, moves, faults>>

PodEnds(i) ==
  /\ pods[i].phase = "Pending"
  /\ \E phase \in {"Succeeded", "Failed"} : \E action \in AggregateCustomizedActionState(phase) :
       Change([pods EXCEPT ![i].phase = phase, ![i].action = action])
  /\ UNCHANGED <<conf, group, jobVars, seen, wakeVars, clocks, counts>>

PodGoes(i) ==
  /\ pods[i].deleting /\ Alive(i)
  /\ Change([pods EXCEPT ![i].phase = "Gone"])
  /\ UNCHANGED <<conf, group, jobVars, seen, wakeVars, clocks, counts>>

Expire ==
  /\ Policy.timeout /\ ~expired
  /\ expired' = TRUE
  /\ UNCHANGED <<conf, group, jobVars, podVars, wakeVars, aged, counts>>

Age ==
  /\ Policy.ttl /\ job.st.finished /\ ~aged
  /\ aged' = TRUE
  /\ UNCHANGED <<conf, group, jobVars, podVars, wakeVars, expired, counts>>

Init ==
  /\ conf \in Scenarios
  /\ group \in conf.groups
  /\ job = [exists |-> TRUE, paused |-> FALSE,
            st |-> [phase |-> "", started |-> FALSE, finished |-> FALSE, desired |-> 0, active |-> 0,
                    succeeded |-> 0, failed |-> 0, ready |-> "", action |-> "",
                    results |-> [n \in Nodes |-> NoResult]]]
  /\ seenJob = job /\ fresh = TRUE
  /\ pods = <<>> /\ seen = <<>> /\ feed = <<>>
  /\ queued = TRUE /\ timer = FALSE /\ expired = FALSE /\ aged = FALSE
  /\ moves = 0 /\ faults = 0 /\ pauses = 0

Next ==
  \/ Pass \/ TimerFires \/ DeliverJob \/ DeliverPods
  \/ MoveTarget \/ TogglePaused \/ Expire \/ Age
  \/ \E i \in DOMAIN pods : PodEnds(i) \/ PodGoes(i)

Spec == Init /\ [][Next]_vars

\* A pass can change something; one whose creation or write is refused may not.
Servable == queued /\ feed = <<>> /\ fresh /\ (expired \/ Len(pods) < conf.maxPods)

\* The queue serves the job, timers fire, the informers catch up, time passes.
\* (Servable implies ENABLED <<Pass>>_vars, so this asks less than WF_vars(Pass).)
JobFairness ==
  /\ []<>(~Servable) \/ []<><<Pass>>_vars
  /\ WF_vars(TimerFires) /\ WF_vars(DeliverJob) /\ WF_vars(DeliverPods)
  /\ WF_vars(Expire) /\ WF_vars(Age)
FairSpec == Spec /\ JobFairness

-----------------------------------------------------------------------------
(***************************************************************************)
(* Properties.                                                             *)
(***************************************************************************)
\* A job completes only with its failures tolerated: the Failed count of a
\* completed job never exceeds maxFailedNodes, whether the target still had
\* nodes when the last attempt ended or had lost them all before.  (A second pod
\* that is still active on a node already warmed is the exception.)
ToleranceKept == job.st.phase = "Completed" => Within(job.st.failed, Policy.maxFailedNodes)

\* A job completes only when every node the target then selects was warmed or
\* failed for good; a node that was replaced does not stand in for a new one.
CompletedCoversTarget ==
  [][job.st.phase # "Completed" /\ job'.st.phase = "Completed" =>
       GetDesiredNodesToWarmup \subseteq On(SucceededPods, seen) \cup ComputePermanentlyFailedNodes]_vars

\* The result reported for a node never falls back to the failure of an earlier
\* attempt while the pod of the later one exists, although the informer may not
\* show that pod yet.  (It is at most two changes of the pods behind: three are
\* enough to show the second of two first attempts after a second attempt.)
AttemptNeverRegresses ==
  [][\A n \in Nodes :
       LET old == job.st.results[n]  new == job'.st.results[n]
       IN  old.pod # 0 /\ Alive(old.pod) =>
             new.pod # 0 /\ (pods'[new.pod].attempt >= pods[old.pod].attempt \/ new.state = "Succeeded")]_vars

\* A job with a global timeout settles unless it stays paused, although a
\* warmup pod may hang for ever and the target's pods are not watched; with a
\* TTL it is then deleted.
Settles ==
  <>[](~job.paused) =>
    []<>(Policy.timeout => IF Policy.ttl THEN ~job.exists ELSE job.st.phase \in Terminal)
===============================================================================
