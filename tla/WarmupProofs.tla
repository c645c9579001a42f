----------------------------- MODULE WarmupProofs -----------------------------
(***************************************************************************)
(* Theorems about Warmup, for every job, number of nodes, target, informer *)
(* lag and fault: what a job that completes promises, and what the pods    *)
(* the informer shows must satisfy for it.                                 *)
(***************************************************************************)
EXTENDS Warmup, TLAPS, FiniteSetTheorems, WellFoundedInduction

\* The active pods on nodes that are already warmed or given up: their node is
\* not counted as active although they take room of the parallelism.
Strays == {i \in ActivePods : seen[i].node \in On(SucceededPods, seen) \cup ComputePermanentlyFailedNodes}

\* A target without nodes is settled only when no pod is astray ...
NoStrayLeft == GetDesiredNodesToWarmup = {} => Strays = {}
\* ... and the pods astray do not use up the parallelism.
StraysLeaveRoom == Policy.parallelism = None \/ Cardinality(Strays) < Policy.parallelism

-----------------------------------------------------------------------------
(***************************************************************************)
(* Numbers, sets and lists.                                                *)
(***************************************************************************)
LEMMA LeastNumber ==
  ASSUME NEW T \in SUBSET Nat, T # {}
  PROVE  \E x \in T : \A y \in T : x <= y
<1> DEFINE R == OpToRel(<, Nat)
<1>1. IsWellFoundedOn(R, Nat) BY NatLessThanWellFounded, Zenon
<1>2. \A x, y \in Nat : <<y, x>> \in R <=> y < x BY SMT DEF OpToRel
<1> HIDE DEF R
<1>3. PICK x \in T : \A y \in T : ~(<<y, x>> \in R) BY <1>1, WFMin, Zenon
<1>4. \A y \in T : ~(y < x) BY <1>2, <1>3, Zenon
<1> QED BY <1>4

LEMMA MaxOfTwo ==
  ASSUME NEW a \in Int, NEW b \in Int
  PROVE  /\ Max({a, b}) \in {a, b}
         /\ Max({a, b}) >= a /\ Max({a, b}) >= b
<1> DEFINE S == {a, b}
<1>1. \E x \in S : \A y \in S : x >= y
  <2>1. CASE a >= b BY <2>1
  <2>2. CASE ~(a >= b) BY <2>2
  <2> QED BY <2>1, <2>2
<1>2. a \in S /\ b \in S /\ \A x \in S : x \in {a, b} OBVIOUS
<1> HIDE DEF S
<1>3. Max(S) \in S /\ \A y \in S : Max(S) >= y BY <1>1, Zenon DEF Max
<1>4. Max(S) \in {a, b} /\ Max(S) >= a /\ Max(S) >= b BY <1>2, <1>3, Zenon
<1> QED BY <1>4 DEF S

\* The first node of a set.
LEMMA FirstOf ==
  ASSUME NEW N \in SUBSET Nat, N # {}
  PROVE  \E p \in N : Cardinality({m \in N : m < p}) = 0
<1>1. PICK p \in N : \A y \in N : p <= y BY LeastNumber
<1>2. {m \in N : m < p} = {}
  <2> SUFFICES ASSUME NEW m \in N, m < p PROVE FALSE OBVIOUS
  <2>1. m \in Nat /\ p \in Nat /\ p <= m BY <1>1
  <2> QED BY <2>1
<1>3. Cardinality({m \in N : m < p}) = 0 BY <1>2, FS_EmptySet, Zenon
<1> QED BY <1>3, Zenon

LEMMA NthFirst ==
  ASSUME NEW N \in SUBSET Nat, N # {}
  PROVE  Nth(N, 1) \in N
<1>1. PICK p \in N : Cardinality({m \in N : m < p}) = 0 BY FirstOf, Zenon
<1>2. 1 - 1 = 0 OBVIOUS
<1>3. Cardinality({m \in N : m < p}) = 1 - 1 BY <1>1, <1>2, Zenon
<1> QED BY <1>3, Zenon DEF Nth

IsList(s) == \E S : s \in Seq(S)

LEMMA OnFinite ==
  ASSUME NEW s, NEW P, IsFiniteSet(P)
  PROVE  IsFiniteSet(On(P, s))
<1> DEFINE f == [i \in P |-> s[i].node]
<1>1. f \in Surjection(P, On(P, s)) BY DEF On, Surjection
<1> HIDE DEF f
<1> QED BY <1>1, FS_Surjection

LEMMA ListFinite ==
  ASSUME NEW s, IsList(s)
  PROVE  Len(s) \in Nat /\ DOMAIN s = 1 .. Len(s) /\ IsFiniteSet(DOMAIN s)
<1>1. PICK S : s \in Seq(S) BY Zenon DEF IsList
<1>2. Len(s) \in Nat /\ DOMAIN s = 1 .. Len(s) BY <1>1
<1>3. IsFiniteSet(1 .. Len(s)) BY <1>2, FS_Interval
<1> QED BY <1>2, <1>3

LEMMA Joined ==
  ASSUME NEW s, IsList(s), NEW c \in Nat, NEW f, f = [k \in 1 .. c |-> f[k]]
  PROVE  /\ IsList(s \o f) /\ Len(s \o f) = Len(s) + c
         /\ \A k \in 1 .. c : (s \o f)[Len(s) + k] = f[k]
<1>1. PICK S : s \in Seq(S) BY Zenon DEF IsList
<1> DEFINE T == S \cup {f[k] : k \in 1 .. c}
<1>2. s \in Seq(T) BY <1>1
<1>3. f \in [1 .. c -> T] OBVIOUS
<1>4. f \in Seq(T) /\ Len(f) = c BY <1>3
<1> HIDE DEF T
<1>5. s \o f \in Seq(T) BY <1>2, <1>4
<1>6. Len(s \o f) = Len(s) + c BY <1>2, <1>4
<1>7. \A k \in 1 .. c : (s \o f)[Len(s) + k] = f[k] BY <1>2, <1>4
<1> QED BY <1>5, <1>6, <1>7, Zenon DEF IsList

\* A list with the same number of entries.
LEMMA Relisted ==
  ASSUME NEW s, IsList(s), NEW t, t = [i \in DOMAIN s |-> t[i]]
  PROVE  IsList(t)
<1>1. Len(s) \in Nat /\ DOMAIN s = 1 .. Len(s) BY ListFinite
<1> DEFINE T == {t[i] : i \in DOMAIN s}
<1>2. t \in [DOMAIN s -> T] OBVIOUS
<1> HIDE DEF T
<1>3. t \in Seq(T) BY <1>1, <1>2
<1> QED BY <1>3 DEF IsList

-----------------------------------------------------------------------------
(***************************************************************************)
(* The shapes of the job and of the lists.                                 *)
(***************************************************************************)
IsStatus(s) ==
  s = [phase |-> s.phase, started |-> s.started, finished |-> s.finished, desired |-> s.desired,
       active |-> s.active, succeeded |-> s.succeeded, failed |-> s.failed, ready |-> s.ready,
       action |-> s.action, results |-> s.results]
IsJob(j) == j = [exists |-> j.exists, paused |-> j.paused, st |-> j.st] /\ IsStatus(j.st)

FeedInv == \E F : feed \in Seq(F) /\ \A s \in F : IsList(s)

WarmupInv ==
  /\ conf \in Scenarios /\ group \in conf.groups
  /\ IsJob(job) /\ IsJob(seenJob)
  /\ IsList(pods) /\ IsList(seen)
  /\ FeedInv

LEMMA ConfShape ==
  ASSUME WarmupInv
  PROVE  /\ Policy.parallelism \in Limit \ {0} /\ Policy.maxFailedNodes \in Limit
         /\ GetDesiredNodesToWarmup \in SUBSET Nodes
<1>1. conf \in Configuration BY WarmupAssumption DEF WarmupInv
<1>2. Policy \in Policies BY <1>1 DEF Configuration, Policy
<1>3. conf.target \in (SUBSET Nodes) \cup {None} /\ conf.roles \in SUBSET Roles /\ conf.groups \in SUBSET TargetGroup
  BY <1>1 DEF Configuration
<1>4. group \in TargetGroup BY <1>3 DEF WarmupInv
<1>5. group.on \in [Roles -> SUBSET Nodes] BY <1>4 DEF TargetGroup
<1>6. \A r \in conf.roles : group.on[r] \in SUBSET Nodes BY <1>3, <1>5
<1>7. GetDesiredNodesToWarmup \in SUBSET Nodes
  <2>1. CASE conf.target # None BY <1>3, <2>1, Zenon DEF GetDesiredNodesToWarmup
  <2>2. CASE conf.target = None
    <3>1. UNION {group.on[r] : r \in conf.roles} \in SUBSET Nodes BY <1>6, Zenon
    <3> QED BY <2>2, <3>1 DEF GetDesiredNodesToWarmup
  <2> QED BY <2>1, <2>2
<1> QED BY <1>2, <1>7 DEF Policies

\* What a pass counts is finite.
LEMMA CountsFinite ==
  ASSUME WarmupInv
  PROVE  /\ IsFiniteSet(ActivePods) /\ IsFiniteSet(On(ActivePods, seen))
         /\ IsFiniteSet(ComputePermanentlyFailedNodes)
         /\ CountUnsucceededNodes \in Nat /\ Cardinality(ComputePermanentlyFailedNodes) \in Nat
<1>1. IsFiniteSet(DOMAIN seen) BY ListFinite DEF WarmupInv
<1>2. ActivePods \subseteq DOMAIN seen /\ FailedPods \subseteq DOMAIN seen BY DEF ActivePods, FailedPods
<1>3. IsFiniteSet(ActivePods) /\ IsFiniteSet(FailedPods) BY <1>1, <1>2, FS_Subset
<1>4. IsFiniteSet(On(ActivePods, seen)) /\ IsFiniteSet(On(FailedPods, seen)) BY <1>3, OnFinite
<1>5. IsFiniteSet(On(FailedPods, seen) \ On(SucceededPods, seen)) BY <1>4, FS_Subset
<1>6. CountUnsucceededNodes \in Nat BY <1>5, FS_CardinalityType DEF CountUnsucceededNodes
<1>7. IsFiniteSet(Nodes) BY WarmupAssumption, FS_Interval DEF Nodes
<1>8. IsFiniteSet(ComputePermanentlyFailedNodes)
  <2>1. ComputePermanentlyFailedNodes \subseteq Nodes BY DEF ComputePermanentlyFailedNodes
  <2> QED BY <1>7, <2>1, FS_Subset
<1>9. Cardinality(ComputePermanentlyFailedNodes) \in Nat BY <1>8, FS_CardinalityType
<1> QED BY <1>3, <1>4, <1>6, <1>8, <1>9

\* What UpdateStatus writes, with the counters it takes the phase from.
TakenFrom(u, c, v, st, all) ==
  /\ u.phase = PhaseOf(v, c)
  /\ c.active = ActiveNodes(v, On(Len(pods) + 1 .. Len(all), all))
  /\ c.failed = Cardinality(v.perm) /\ c.phase = st.phase
  /\ u.failed = IF v.desired = {} /\ u.phase = "Completed" THEN Max({c.failed, v.bad}) ELSE c.failed

LEMMA UpdatedStatus ==
  ASSUME NEW v, NEW st, IsStatus(st), NEW all, NEW u, u = UpdateStatus(v, st, all)
  PROVE  /\ IsStatus(u)
         /\ \E c : TakenFrom(u, c, v, st, all)
<1> DEFINE new == Len(pods) + 1 .. Len(all)
           L == [i \in Listed \cup new |-> IF i \in Listed THEN seen[i] ELSE all[i]]
           results == Results(L, st.results)
           started == st.started \/ DOMAIN L # {}
           action == UpdateCustomizedActionConditions(results,
                       CustomizedActionDiagnosticNodes(L, v, st.results), v.perm, FALSE)
           counted ==
             [st EXCEPT !.desired = Cardinality(v.desired), !.succeeded = Cardinality(v.ok),
                        !.active = ActiveNodes(v, On(new, all)), !.failed = Cardinality(v.perm),
                        !.ready = TargetReady(v, st), !.results = results, !.started = started,
                        !.action = action]
           phase == PhaseOf(v, counted)
           finished == counted.finished \/ phase \in Terminal
           begun == counted.started \/ (v.desired = {} /\ phase = "Completed")
           failed == IF v.desired = {} /\ phase = "Completed" THEN Max({counted.failed, v.bad}) ELSE counted.failed
<1>1. u = [counted EXCEPT !.phase = phase, !.finished = finished, !.started = begun, !.failed = failed]
  BY Zenon DEF UpdateStatus
<1>2. /\ IsStatus(counted) /\ counted.active = ActiveNodes(v, On(new, all))
      /\ counted.failed = Cardinality(v.perm) /\ counted.phase = st.phase
  <2>1. PICK a, b, c, d, e, f, g, h :
             /\ a = Cardinality(v.desired) /\ b = Cardinality(v.ok) /\ c = ActiveNodes(v, On(new, all))
             /\ d = Cardinality(v.perm) /\ e = TargetReady(v, st) /\ f = results /\ g = started /\ h = action
    OBVIOUS
  <2>2. counted = [st EXCEPT !.desired = a, !.succeeded = b, !.active = c, !.failed = d, !.ready = e,
                             !.results = f, !.started = g, !.action = h] BY <2>1, Zenon
  <2>3. IsStatus(counted) /\ counted.active = c /\ counted.failed = d /\ counted.phase = st.phase
    <3> HIDE DEF counted
    <3> QED BY <2>2 DEF IsStatus
  <2> QED BY <2>1, <2>3, Zenon
<1>3. IsStatus(u) /\ u.phase = phase /\ u.failed = failed
  <2> HIDE DEF counted, phase
  <2>1. PICK b, c, d : b = finished /\ c = begun /\ d = failed OBVIOUS
  <2>2. u = [counted EXCEPT !.phase = phase, !.finished = b, !.started = c, !.failed = d] BY <1>1, <2>1, Zenon
  <2> HIDE DEF finished, begun, failed
  <2> QED BY <1>2, <2>1, <2>2 DEF IsStatus
<1> HIDE DEF counted
<1>4. TakenFrom(u, counted, v, st, all) BY <1>2, <1>3 DEF phase, TakenFrom
<1> QED BY <1>3, <1>4

LEMMA FailedShape ==
  ASSUME NEW v, NEW st, IsStatus(st), NEW why
  PROVE  IsStatus(FailedStatus(v, st, why)) /\ FailedStatus(v, st, why).phase = "Failed"
<1> DEFINE u == FailedStatus(v, st, why)
           desired == IF why \in {"InvalidWarmupSpec", "InvalidTarget"} THEN {} ELSE v.desired
           L == [i \in Listed |-> seen[i]]
           results == [n \in Nodes |->
             LET r == CustomizedActionResult(L, st.results[n], n)
             IN  IF r = NoResult \/ r.state = "Succeeded" THEN r ELSE [r EXCEPT !.state = "Failed"]]
           ready == IF ~ValidateWarmupSpec \/ (~v.exist /\ (v.lost \/ v.pending > 0)) THEN st.ready
                    ELSE TargetReady(v, st)
           action == UpdateCustomizedActionConditions(results,
                       CustomizedActionDiagnosticNodes(L, [v EXCEPT !.desired = desired], st.results),
                       v.perm, why = "GlobalTimeoutExceeded")
<1>0. u = [st EXCEPT !.phase = "Failed", !.finished = TRUE, !.desired = Cardinality(desired), !.active = 0,
                     !.succeeded = Cardinality(v.ok), !.failed = Cardinality(On(FailedPods, seen)),
                     !.ready = ready, !.results = results, !.action = action]
  BY Zenon DEF FailedStatus
<1> HIDE DEF u, desired, results, ready, action
<1>1. PICK a, b, c, d, e, f :
        u = [st EXCEPT !.phase = "Failed", !.finished = TRUE, !.desired = a, !.active = 0, !.succeeded = b,
                       !.failed = c, !.ready = d, !.results = e, !.action = f]
  BY <1>0
<1>2. PICK p, q, r : p = "Failed" /\ q = TRUE /\ r = 0 OBVIOUS
<1>3. u = [st EXCEPT !.phase = p, !.finished = q, !.desired = a, !.active = r, !.succeeded = b,
                     !.failed = c, !.ready = d, !.results = e, !.action = f] BY <1>1, <1>2, Zenon
<1>4. IsStatus(u) /\ u.phase = p BY <1>3 DEF IsStatus
<1> QED BY <1>2, <1>4 DEF u

-----------------------------------------------------------------------------
(***************************************************************************)
(* The pass that completes the job.                                        *)
(***************************************************************************)
Batch(v) == FirstPending(v, CreateBudget(v))

\* The pods after a pass that created all it meant to.
LEMMA CreatedList ==
  ASSUME WarmupInv, NEW N \in SUBSET Nodes, NEW all, all = Created(N)
  PROVE  /\ IsList(all) /\ IsFiniteSet(On(Len(pods) + 1 .. Len(all), all))
         /\ N # {} => On(Len(pods) + 1 .. Len(all), all) \cap N # {}
<1> DEFINE f == [k \in 1 .. Cardinality(N) |-> BuildWarmupPod(Nth(N, k))]
<1>1. IsFiniteSet(N)
  <2>1. IsFiniteSet(Nodes) BY WarmupAssumption, FS_Interval DEF Nodes
  <2> QED BY <2>1, FS_Subset
<1>2. PICK c \in Nat : c = Cardinality(N) BY <1>1, FS_CardinalityType
<1>3. all = pods \o f BY DEF Created
<1>4. f = [k \in 1 .. c |-> f[k]] BY <1>2
<1>5. IsList(pods) /\ Len(pods) \in Nat BY ListFinite DEF WarmupInv
<1>6. N # {} => f[1].node \in N
  <2> SUFFICES ASSUME N # {} PROVE f[1].node \in N OBVIOUS
  <2>1. c >= 1 BY <1>1, <1>2, FS_EmptySet
  <2>2. f[1] = BuildWarmupPod(Nth(N, 1)) BY <1>2, <2>1
  <2>3. f[1].node = Nth(N, 1)
    <3> HIDE DEF f
    <3> QED BY <2>2 DEF BuildWarmupPod
  <2>4. N \in SUBSET Nat BY WarmupAssumption DEF Nodes
  <2> HIDE DEF f
  <2> QED BY <2>3, <2>4, NthFirst
<1>7. N # {} => c >= 1 BY <1>1, <1>2, FS_EmptySet
<1> HIDE DEF f
<1>8. IsList(all) /\ Len(all) = Len(pods) + c /\ \A k \in 1 .. c : all[Len(pods) + k] = f[k]
  BY <1>3, <1>4, <1>5, Joined
<1>9. IsFiniteSet(Len(pods) + 1 .. Len(all))
  <2>1. PICK m \in Nat : m = Len(pods) BY <1>5
  <2>2. m + 1 \in Int /\ m + c \in Int BY <2>1
  <2> QED BY <1>8, <2>1, <2>2, FS_Interval
<1>10. IsFiniteSet(On(Len(pods) + 1 .. Len(all), all)) BY <1>9, OnFinite
<1>11. ASSUME N # {} PROVE On(Len(pods) + 1 .. Len(all), all) \cap N # {}
  <2>1. 1 \in 1 .. c BY <1>7, <1>11
  <2>2. Len(pods) + 1 \in Len(pods) + 1 .. Len(all) BY <1>5, <1>7, <1>8, <1>11
  <2>3. all[Len(pods) + 1] = f[1] BY <1>8, <2>1
  <2>4. all[Len(pods) + 1].node \in N BY <1>6, <1>11, <2>3
  <2> QED BY <2>2, <2>4, Zenon DEF On
<1> QED BY <1>8, <1>10, <1>11

\* A pending node, and room for a pod: the pass means to create one.
LEMMA BatchNotEmpty ==
  ASSUME WarmupInv, NEW v, CollectPendingNodes(v) \in SUBSET Nodes, CollectPendingNodes(v) # {},
         CreateBudget(v) \in Nat, CreateBudget(v) >= 1
  PROVE  FirstPending(v, Cardinality(Batch(v))) # {}
<1> DEFINE P == CollectPendingNodes(v)
           Below(n) == Cardinality({m \in P : m < n})
<1>1. P \in SUBSET Nat BY WarmupAssumption DEF Nodes
<1>2. PICK n \in P : Below(n) = 0
  <2> HIDE DEF P
  <2> QED BY <1>1, FirstOf, Zenon DEF P
<1>3. n \in Batch(v)
  <2>1. Below(n) < CreateBudget(v)
    <3> HIDE DEF Below
    <3> QED BY <1>2
  <2> QED BY <2>1, Zenon DEF Batch, FirstPending
<1>4. IsFiniteSet(Batch(v))
  <2>1. IsFiniteSet(Nodes) BY WarmupAssumption, FS_Interval DEF Nodes
  <2>2. Batch(v) \subseteq Nodes BY Zenon DEF Batch, FirstPending
  <2> QED BY <2>1, <2>2, FS_Subset
<1>5. Cardinality(Batch(v)) \in Nat /\ Cardinality(Batch(v)) # 0 BY <1>3, <1>4, FS_CardinalityType, FS_EmptySet
<1>6. Below(n) < Cardinality(Batch(v))
  <2> HIDE DEF Below
  <2> QED BY <1>2, <1>5
<1> QED BY <1>6, Zenon DEF FirstPending

LEMMA Completes ==
  ASSUME WarmupInv, NEW v, v = View, Verdict(v) = "run", NEW st, IsStatus(st), st.phase \notin Terminal,
         NEW all, all = Created(FirstPending(v, Cardinality(Batch(v)))),
         NEW u, u = UpdateStatus(v, st, all), u.phase = "Completed"
  PROVE  /\ NoStrayLeft => Within(u.failed, Policy.maxFailedNodes)
         /\ StraysLeaveRoom =>
              GetDesiredNodesToWarmup \subseteq On(SucceededPods, seen) \cup ComputePermanentlyFailedNodes
<1> DEFINE ok == On(SucceededPods, seen)
           perm == ComputePermanentlyFailedNodes
           desired == GetDesiredNodesToWarmup
           fresh0 == On(Len(pods) + 1 .. Len(all), all)
           N == FirstPending(v, Cardinality(Batch(v)))
<1>1. /\ v.desired = desired /\ v.active = ActivePods /\ v.perm = perm /\ v.ok = ok
      /\ v.bad = CountUnsucceededNodes
  BY DEF View
<1>2. desired \in SUBSET Nodes /\ Policy.parallelism \in Limit \ {0} /\ Policy.maxFailedNodes \in Limit
  BY ConfShape
<1>3. CollectPendingNodes(v) \in SUBSET Nodes BY <1>1, <1>2, Zenon DEF CollectPendingNodes
<1>4. N \in SUBSET CollectPendingNodes(v) BY Zenon DEF FirstPending
<1>5. IsFiniteSet(fresh0) /\ (N # {} => fresh0 \cap N # {})
  <2> HIDE DEF N
  <2>1. N \in SUBSET Nodes BY <1>3, <1>4
  <2> QED BY <2>1, CreatedList DEF N
<1>a. PICK c : TakenFrom(u, c, v, st, all) BY UpdatedStatus
<1>6. /\ u.phase = PhaseOf(v, c)
      /\ c.active = ActiveNodes(v, fresh0)
      /\ c.failed = Cardinality(v.perm) /\ c.phase = st.phase
      /\ u.failed = IF v.desired = {} /\ u.phase = "Completed" THEN Max({c.failed, v.bad}) ELSE c.failed
  BY <1>a, Zenon DEF TakenFrom
<1> HIDE DEF ok, perm, desired, fresh0, N
<1>7. /\ IsFiniteSet(ActivePods) /\ IsFiniteSet(On(ActivePods, seen))
      /\ v.bad \in Nat /\ c.failed \in Nat
  BY <1>1, <1>6, CountsFinite DEF perm
<1>8. c.active \in Nat /\ (c.active = 0 => On(ActivePods, seen) \cup fresh0 \subseteq ok \cup perm)
  <2> DEFINE A == (On(ActivePods, seen) \cup fresh0) \ (ok \cup perm)
  <2>1. IsFiniteSet(On(ActivePods, seen) \cup fresh0) BY <1>5, <1>7, FS_Union
  <2>2. IsFiniteSet(A) BY <2>1, FS_Subset
  <2>3. c.active = Cardinality(A) BY <1>1, <1>6 DEF ActiveNodes
  <2>4. Cardinality(A) \in Nat /\ (Cardinality(A) = 0 => A = {}) BY <2>2, FS_CardinalityType, FS_EmptySet
  <2> QED BY <2>3, <2>4
<1>9. /\ ~(c.active > 0)
      /\ v.desired = {} => ~(v.pending > 0)
      /\ v.desired # {} => ~(c.failed > 0 /\ ~Within(c.failed, Policy.maxFailedNodes))
  BY <1>6, <1>8 DEF PhaseOf, Terminal
<1>10. On(ActivePods, seen) \cup fresh0 \subseteq ok \cup perm BY <1>8, <1>9
<1>11. ASSUME NEW i \in ActivePods PROVE i \in Strays
  <2>1. seen[i].node \in On(ActivePods, seen) BY Zenon DEF On
  <2> QED BY <1>10, <2>1 DEF Strays, ok, perm
<1>12. ASSUME NoStrayLeft PROVE Within(u.failed, Policy.maxFailedNodes)
  <2>1. CASE v.desired # {}
    <3>1. u.failed = c.failed BY <1>6, <2>1
    <3> QED BY <1>2, <1>7, <1>9, <2>1, <3>1 DEF Within, Limit
  <2>2. CASE v.desired = {}
    <3>1. v.active = {} BY <1>1, <1>11, <1>12, <2>2 DEF NoStrayLeft, desired
    <3>2. ~FailCollapsedDesiredSet(v) /\ (Policy.backoffLimit # None => Within(Cardinality(v.perm), Policy.maxFailedNodes))
      BY DEF Verdict
    <3>3. Within(v.bad, Policy.maxFailedNodes)
      <4>1. v.bad > 0 => Within(v.bad, Policy.maxFailedNodes) BY <1>9, <2>2, <3>1, <3>2, Zenon DEF FailCollapsedDesiredSet
      <4> QED BY <1>2, <1>7, <4>1 DEF Within, Limit
    <3>4. Within(c.failed, Policy.maxFailedNodes)
      <4>1. CASE Policy.backoffLimit # None BY <1>6, <3>2, <4>1
      <4>2. CASE Policy.backoffLimit = None
        <5>1. v.perm = {} BY <1>1, <4>2, Zenon DEF perm, ComputePermanentlyFailedNodes
        <5>2. c.failed = 0 BY <1>6, <5>1, FS_EmptySet
        <5> QED BY <1>2, <5>2 DEF Within, Limit
      <4> QED BY <4>1, <4>2
    <3>5. u.failed = Max({c.failed, v.bad}) BY <1>6, <2>2
    <3>6. Max({c.failed, v.bad}) \in {c.failed, v.bad}
      <4>1. c.failed \in Int /\ v.bad \in Int BY <1>7
      <4> QED BY <4>1, MaxOfTwo, Zenon
    <3>7. u.failed = c.failed \/ u.failed = v.bad BY <3>5, <3>6, Zenon
    <3> QED BY <3>3, <3>4, <3>7, Zenon
  <2> QED BY <2>1, <2>2
<1>13. ASSUME StraysLeaveRoom PROVE desired \subseteq ok \cup perm
  <2>1. CASE CollectPendingNodes(v) = {} BY <1>1, <1>10, <2>1, Zenon DEF CollectPendingNodes
  <2>2. CASE CollectPendingNodes(v) # {}
    <3>1. MaxNode \in Nat /\ MaxNode >= 1 BY <1>3, <2>2, WarmupAssumption DEF Nodes
    <3>2. CreateBudget(v) \in Nat /\ CreateBudget(v) >= 1
      <4>1. CASE Policy.parallelism = None BY <3>1, <4>1 DEF CreateBudget
      <4>2. CASE Policy.parallelism # None
        <5>1. ActivePods = Strays BY <1>11 DEF Strays
        <5>2. PICK a \in Nat : a = Cardinality(v.active) BY <1>1, <1>7, FS_CardinalityType
        <5>3. a < Policy.parallelism BY <1>1, <1>13, <4>2, <5>1, <5>2 DEF StraysLeaveRoom
        <5>4. PICK l \in Nat : l = Policy.parallelism BY <1>2, <4>2 DEF Limit
        <5>5. CreateBudget(v) = Max({0, l - a}) BY <4>2, <5>2, <5>4, Zenon DEF CreateBudget
        <5>6. Max({0, l - a}) \in {0, l - a} /\ Max({0, l - a}) >= l - a
          <6>1. l - a \in Int /\ 0 \in Int BY <5>2, <5>4
          <6> QED BY <6>1, MaxOfTwo, Zenon
        <5>7. PICK b : b = Max({0, l - a}) OBVIOUS
        <5>8. b \in Nat /\ b >= 1 BY <5>3, <5>4, <5>6, <5>7
        <5> QED BY <5>5, <5>7, <5>8
      <4> QED BY <4>1, <4>2
    <3>3. N # {} BY <1>3, <2>2, <3>2, BatchNotEmpty DEF N
    <3>4. PICK n \in N : n \in fresh0 BY <1>5, <3>3
    <3>5. n \in CollectPendingNodes(v) BY <1>4, <3>4
    <3>6. n \notin ok \cup perm BY <1>1, <3>5, Zenon DEF CollectPendingNodes
    <3> QED BY <1>10, <3>4, <3>6
  <2> QED BY <2>1, <2>2
<1> QED BY <1>12, <1>13 DEF desired, ok, perm

-----------------------------------------------------------------------------
(***************************************************************************)
(* Every step keeps the shapes, and only that pass completes the job.      *)
(***************************************************************************)
\* What a step that completes the job has shown.
Earned ==
  \/ job'.st = job.st
  \/ job'.st.phase # "Completed"
  \/ /\ NoStrayLeft => Within(job'.st.failed, Policy.maxFailedNodes)
     /\ StraysLeaveRoom =>
          GetDesiredNodesToWarmup \subseteq On(SucceededPods, seen) \cup ComputePermanentlyFailedNodes

LEMMA Written ==
  ASSUME NEW j, IsJob(j), NEW s, IsStatus(s), NEW k, k = [j EXCEPT !.st = s]
  PROVE  IsJob(k) /\ k.st = s
<1>1. k = [exists |-> j.exists, paused |-> j.paused, st |-> s] BY DEF IsJob
<1>2. k.exists = j.exists /\ k.paused = j.paused /\ k.st = s BY <1>1
<1> QED BY <1>1, <1>2 DEF IsJob

LEMMA Edited ==
  ASSUME NEW j, IsJob(j), NEW x, NEW k, k = [j EXCEPT !.exists = x] \/ k = [j EXCEPT !.paused = x]
  PROVE  IsJob(k) /\ k.st = j.st
<1>1. CASE k = [j EXCEPT !.exists = x]
  <2>1. k = [exists |-> x, paused |-> j.paused, st |-> j.st] BY <1>1 DEF IsJob
  <2>2. k.exists = x /\ k.paused = j.paused /\ k.st = j.st BY <2>1
  <2> QED BY <2>1, <2>2 DEF IsJob
<1>2. CASE k = [j EXCEPT !.paused = x]
  <2>1. k = [exists |-> j.exists, paused |-> x, st |-> j.st] BY <1>2 DEF IsJob
  <2>2. k.exists = j.exists /\ k.paused = x /\ k.st = j.st BY <2>1
  <2> QED BY <2>1, <2>2 DEF IsJob
<1> QED BY <1>1, <1>2

LEMMA Saved ==
  ASSUME IsJob(job), IsJob(seenJob), NEW st, IsStatus(st), Save(st)
  PROVE  IsJob(job') /\ IsJob(seenJob') /\ (job'.st = job.st \/ job'.st = st)
<1>1. seenJob' = seenJob /\ (job' = [job EXCEPT !.st = st] \/ job' = job) BY Zenon DEF Save
<1>2. CASE job' = [job EXCEPT !.st = st]
  <2>1. PICK k : k = job' OBVIOUS
  <2>2. IsJob(k) /\ k.st = st BY <1>2, <2>1, Written, Zenon
  <2>3. IsJob(job') /\ job'.st = st BY <2>1, <2>2, Zenon
  <2> QED BY <1>1, <2>3
<1>3. CASE job' = job BY <1>1, <1>3
<1> QED BY <1>1, <1>2, <1>3

LEMMA ResumedShape ==
  ASSUME IsJob(seenJob), Unfinished
  PROVE  IsStatus(Resumed) /\ Resumed.phase \notin Terminal
<1>1. IsStatus(seenJob.st) /\ seenJob.st.phase \notin Terminal BY Zenon DEF IsJob, Unfinished
<1>2. CASE Resumed = seenJob.st BY <1>1, <1>2
<1>3. CASE Resumed = [seenJob.st EXCEPT !.phase = "Running"]
  <2>1. PICK s, r, q : s = seenJob.st /\ r = Resumed /\ q = "Running" OBVIOUS
  <2>2. r = [s EXCEPT !.phase = q] /\ IsStatus(s) BY <1>1, <1>3, <2>1, Zenon
  <2>3. IsStatus(r) /\ r.phase = q BY <2>2 DEF IsStatus
  <2>4. "Running" \notin Terminal BY DEF Terminal
  <2> QED BY <2>1, <2>3, <2>4, Zenon
<1> QED BY <1>2, <1>3 DEF Resumed

LEMMA Changed ==
  ASSUME IsList(pods), FeedInv, NEW all, IsList(all), Change(all)
  PROVE  IsList(pods') /\ FeedInv'
<1>1. pods' = all /\ (feed' = feed \/ feed' = Append(feed, all)) BY Zenon DEF Change
<1>2. IsList(pods') BY <1>1
<1>3. PICK F : feed \in Seq(F) /\ \A s \in F : IsList(s) BY Zenon DEF FeedInv
<1>4. CASE feed' = feed
  <2>1. feed' \in Seq(F) BY <1>3, <1>4
  <2> QED BY <1>2, <1>3, <2>1, Zenon DEF FeedInv
<1>5. CASE feed' = Append(feed, all)
  <2> DEFINE G == F \cup {all}
  <2>1. feed \in Seq(G) /\ all \in G BY <1>3
  <2>2. \A s \in G : IsList(s) BY <1>3
  <2> HIDE DEF G
  <2>3. feed' \in Seq(G) BY <1>5, <2>1
  <2> QED BY <1>2, <2>2, <2>3, Zenon DEF FeedInv
<1> QED BY <1>1, <1>4, <1>5

\* failWarmupJob fails the job; nothing else of it matters here.
LEMMA FailStep ==
  ASSUME WarmupInv, FailWarmupJob
  PROVE  WarmupInv' /\ conf' = conf /\ Earned
<1>1. IsJob(job) /\ IsJob(seenJob) /\ IsList(pods) /\ FeedInv BY DEF WarmupInv
<1>2. Unfinished /\ conf' = conf /\ group' = group /\ seen' = seen BY Zenon DEF FailWarmupJob
<1>3. PICK v : /\ \E left \in SUBSET v.active : Change(Mark({i \in v.active \ left : Alive(i)}))
               /\ Save(FailedStatus(v, Resumed, Verdict(v)))
  BY Zenon DEF FailWarmupJob
<1>4. PICK D : Change(Mark(D)) BY <1>3, Zenon
<1>5. IsList(Mark(D))
  <2>1. PICK m : m = Mark(D) OBVIOUS
  <2>2. m = [i \in DOMAIN pods |-> m[i]] BY <2>1 DEF Mark
  <2> QED BY <1>1, <2>1, <2>2, Relisted
<1>6. IsList(pods') /\ FeedInv' BY <1>1, <1>4, <1>5, Changed
<1>7. PICK st : st = FailedStatus(v, Resumed, Verdict(v)) OBVIOUS
<1>8. IsStatus(st) /\ st.phase = "Failed" BY <1>1, <1>2, <1>7, ResumedShape, FailedShape, Zenon
<1>9. Save(st) BY <1>3, <1>7, Zenon
<1>10. IsJob(job') /\ IsJob(seenJob') /\ (job'.st = job.st \/ job'.st = st) BY <1>1, <1>8, <1>9, Saved
<1>11. Earned
  <2>1. st.phase # "Completed" BY <1>8
  <2> QED BY <1>10, <2>1, Zenon DEF Earned
<1>12. IsList(seen') /\ conf' \in Scenarios /\ group' \in conf'.groups BY <1>2, Zenon DEF WarmupInv
<1> QED BY <1>2, <1>6, <1>10, <1>11, <1>12, Zenon DEF WarmupInv

\* The pass that creates pods, then writes the status.
LEMMA CreateStep ==
  ASSUME WarmupInv, CreatePodsAndUpdateStatus
  PROVE  WarmupInv' /\ conf' = conf /\ Earned
<1>1. IsJob(job) /\ IsJob(seenJob) /\ IsList(pods) /\ FeedInv BY DEF WarmupInv
<1>2. Unfinished /\ conf' = conf /\ group' = group /\ seen' = seen BY Zenon DEF CreatePodsAndUpdateStatus
<1>3. PICK v \in {View} :
        /\ Verdict(v) = "run"
        /\ \E batch \in {FirstPending(v, CreateBudget(v))} :
           \E k \in 0 .. Cardinality(batch) :
             LET stopped == k < Cardinality(batch)
                 full == k = conf.maxPods - Len(pods)
             IN  /\ Len(pods) + k <= conf.maxPods
                 /\ faults' = faults + (IF stopped /\ ~full THEN 1 ELSE 0) /\ faults' <= conf.maxFaults
                 /\ \E all \in {Created(FirstPending(v, k))} :
                      /\ Change(all)
                      /\ IF stopped
                           THEN /\ job' = [job EXCEPT !.st = IF Resumed # seenJob.st THEN Resumed ELSE @]
                                /\ fresh' = (fresh /\ Resumed = seenJob.st)
                                /\ queued' = TRUE
                                /\ UNCHANGED <<seenJob, timer>>
                           ELSE \E st \in {UpdateStatus(v, Resumed, all)} :
                                /\ Save(st)
                                /\ timer' = (timer \/ RequeueAfterReconcile(v, st))
  BY Zenon DEF CreatePodsAndUpdateStatus
<1>4. PICK k \in 0 .. Cardinality(Batch(v)) :
        \E all \in {Created(FirstPending(v, k))} :
          /\ Change(all)
          /\ IF k < Cardinality(Batch(v))
               THEN /\ job' = [job EXCEPT !.st = IF Resumed # seenJob.st THEN Resumed ELSE @]
                    /\ seenJob' = seenJob
               ELSE \E st \in {UpdateStatus(v, Resumed, all)} : Save(st)
  BY <1>3, Zenon DEF Batch
<1>5. PICK all : /\ all = Created(FirstPending(v, k)) /\ Change(all)
                 /\ \/ /\ k < Cardinality(Batch(v))
                       /\ job' = [job EXCEPT !.st = IF Resumed # seenJob.st THEN Resumed ELSE @]
                       /\ seenJob' = seenJob
                    \/ ~(k < Cardinality(Batch(v))) /\ Save(UpdateStatus(v, Resumed, all))
  BY <1>4, Zenon
<1>6. GetDesiredNodesToWarmup \in SUBSET Nodes /\ v.desired = GetDesiredNodesToWarmup /\ v = View
  BY <1>3, ConfShape DEF View
<1>7. CollectPendingNodes(v) \in SUBSET Nodes BY <1>6, Zenon DEF CollectPendingNodes
<1>8. FirstPending(v, k) \in SUBSET Nodes /\ Batch(v) \in SUBSET Nodes BY <1>7, Zenon DEF FirstPending, Batch
<1>9. IsList(all) BY <1>5, <1>8, CreatedList
<1>10. IsList(pods') /\ FeedInv' BY <1>1, <1>5, <1>9, Changed
<1>11. IsStatus(Resumed) /\ Resumed.phase \notin Terminal BY <1>1, <1>2, ResumedShape
<1>12. ASSUME job' = [job EXCEPT !.st = IF Resumed # seenJob.st THEN Resumed ELSE @], seenJob' = seenJob
       PROVE  IsJob(job') /\ IsJob(seenJob') /\ Earned
  <2>1. PICK s : s = (IF Resumed # seenJob.st THEN Resumed ELSE job.st) OBVIOUS
  <2>2. IsStatus(s) /\ (s = job.st \/ s.phase \notin Terminal) BY <1>1, <1>11, <2>1, Zenon DEF IsJob
  <2>3. PICK j : j = job' OBVIOUS
  <2>4. j = [job EXCEPT !.st = s] BY <1>12, <2>1, <2>3, Zenon
  <2>5. IsJob(j) /\ j.st = s BY <1>1, <2>2, <2>4, Written
  <2>6. job'.st = job.st \/ job'.st.phase \notin Terminal BY <2>2, <2>3, <2>5, Zenon
  <2>7. "Completed" \in Terminal BY DEF Terminal
  <2>8. Earned BY <2>6, <2>7, Zenon DEF Earned
  <2> QED BY <1>1, <1>12, <2>3, <2>5, <2>8, Zenon
<1>13. ASSUME ~(k < Cardinality(Batch(v))), Save(UpdateStatus(v, Resumed, all))
       PROVE  IsJob(job') /\ IsJob(seenJob') /\ Earned
  <2>1. PICK u : u = UpdateStatus(v, Resumed, all) OBVIOUS
  <2>2. IsStatus(u) BY <1>11, <2>1, UpdatedStatus
  <2>3. Save(u) BY <1>13, <2>1, Zenon
  <2>4. IsJob(job') /\ IsJob(seenJob') /\ (job'.st = job.st \/ job'.st = u) BY <1>1, <2>2, <2>3, Saved
  <2>5. k = Cardinality(Batch(v))
    <3>1. IsFiniteSet(Nodes) BY WarmupAssumption, FS_Interval DEF Nodes
    <3>2. PICK c \in Nat : c = Cardinality(Batch(v)) BY <1>8, <3>1, FS_Subset, FS_CardinalityType
    <3>3. k \in 0 .. c /\ ~(k < c) BY <1>4, <1>13, <3>2, Zenon
    <3> QED BY <3>2, <3>3
  <2>6. all = Created(FirstPending(v, Cardinality(Batch(v)))) BY <1>5, <2>5, Zenon
  <2>7. ASSUME job'.st = u, u.phase = "Completed" PROVE Earned
    <3>1. /\ NoStrayLeft => Within(u.failed, Policy.maxFailedNodes)
          /\ StraysLeaveRoom =>
               GetDesiredNodesToWarmup \subseteq On(SucceededPods, seen) \cup ComputePermanentlyFailedNodes
      BY <1>3, <1>6, <1>11, <2>1, <2>6, <2>7, Completes
    <3> QED BY <2>7, <3>1, Zenon DEF Earned
  <2>8. Earned BY <2>4, <2>7, Zenon DEF Earned
  <2> QED BY <2>4, <2>8
<1>14. IsJob(job') /\ IsJob(seenJob') /\ Earned BY <1>5, <1>12, <1>13, Zenon
<1>15. IsList(seen') /\ conf' \in Scenarios /\ group' \in conf'.groups BY <1>2, Zenon DEF WarmupInv
<1> QED BY <1>2, <1>10, <1>14, <1>15, Zenon DEF WarmupInv

LEMMA EveryStep ==
  ASSUME WarmupInv, [Next]_vars
  PROVE  WarmupInv' /\ conf' = conf /\ Earned
<1>0. /\ IsJob(job) /\ IsJob(seenJob) /\ IsList(pods) /\ IsList(seen) /\ FeedInv
      /\ conf \in Scenarios /\ group \in conf.groups
  BY DEF WarmupInv
<1> DEFINE SameJob == job' = job /\ seenJob' = seenJob
           SamePods == pods' = pods /\ seen' = seen /\ feed' = feed
           SameSetting == conf' = conf /\ group' = group
<1>a. ASSUME SameJob PROVE IsJob(job') /\ IsJob(seenJob') /\ Earned BY <1>0, <1>a, Zenon DEF Earned
<1>b. ASSUME SamePods PROVE IsList(pods') /\ IsList(seen') /\ FeedInv' BY <1>0, <1>b, Zenon DEF FeedInv
<1>c. ASSUME SameSetting PROVE conf' = conf /\ conf' \in Scenarios /\ group' \in conf'.groups BY <1>0, <1>c, Zenon
<1>d. ASSUME SameJob, SamePods, SameSetting PROVE WarmupInv' /\ conf' = conf /\ Earned
  BY <1>a, <1>b, <1>c, <1>d, Zenon DEF WarmupInv
<1>e. ASSUME NEW st, IsStatus(st), st.phase # "Completed", Save(st), SamePods, SameSetting
      PROVE  WarmupInv' /\ conf' = conf /\ Earned
  <2>1. IsJob(job') /\ IsJob(seenJob') /\ (job'.st = job.st \/ job'.st = st) BY <1>0, <1>e, Saved
  <2>2. Earned BY <1>e, <2>1, Zenon DEF Earned
  <2> QED BY <1>b, <1>c, <1>e, <2>1, <2>2, Zenon DEF WarmupInv
<1>f. ASSUME NEW x, job' = [job EXCEPT !.exists = x] \/ job' = [job EXCEPT !.paused = x],
             seenJob' = seenJob, SamePods, SameSetting
      PROVE  WarmupInv' /\ conf' = conf /\ Earned
  <2>1. PICK k : k = job' OBVIOUS
  <2>2. IsJob(k) /\ k.st = job.st BY <1>0, <1>f, <2>1, Edited
  <2>3. IsJob(job') /\ IsJob(seenJob') /\ Earned BY <1>0, <1>f, <2>1, <2>2, Zenon DEF Earned
  <2> QED BY <1>b, <1>c, <1>f, <2>3, Zenon DEF WarmupInv
<1>g. ASSUME NEW all, IsList(all), Change(all), SameJob, SameSetting, seen' = seen
      PROVE  WarmupInv' /\ conf' = conf /\ Earned
  <2>1. IsList(pods') /\ FeedInv' BY <1>0, <1>g, Changed
  <2> QED BY <1>0, <1>a, <1>c, <1>g, <2>1, Zenon DEF WarmupInv
<1>1. CASE Skip BY <1>1, <1>d, Zenon DEF Skip, jobVars, podVars
<1>2. CASE Pause
  <2>1. PICK st, s, p : p = "Paused" /\ s = seenJob.st /\ st = [seenJob.st EXCEPT !.phase = "Paused"] OBVIOUS
  <2>2. Save(st) /\ SamePods /\ SameSetting BY <1>2, <2>1, Zenon DEF Pause, podVars
  <2>3. st = [s EXCEPT !.phase = p] /\ IsStatus(s) BY <1>0, <2>1, Zenon DEF IsJob
  <2>4. IsStatus(st) /\ st.phase = p BY <2>3 DEF IsStatus
  <2>5. st.phase # "Completed" BY <2>1, <2>4
  <2> QED BY <1>e, <2>2, <2>4, <2>5
<1>3. CASE ResumeConflict BY <1>3, <1>d, Zenon DEF ResumeConflict, vars, jobVars, podVars
<1>4. CASE ReconcileFinished
  <2>1. seenJob' = seenJob /\ SamePods /\ SameSetting BY <1>4, Zenon DEF ReconcileFinished, podVars
  <2>2. job' = job \/ job' = [job EXCEPT !.exists = FALSE] BY <1>4, Zenon DEF ReconcileFinished
  <2> QED BY <1>d, <1>f, <2>1, <2>2, Zenon
<1>5. CASE WaitForTarget
  <2>1. PICK st, s, p, r : /\ p = "Running" /\ r = "False" /\ s = Resumed
                           /\ st = [Resumed EXCEPT !.phase = "Running", !.ready = "False"] OBVIOUS
  <2>2. Save(st) /\ SamePods /\ SameSetting /\ Unfinished BY <1>5, <2>1, Zenon DEF WaitForTarget, podVars
  <2>3. IsStatus(Resumed) BY <1>0, <2>2, ResumedShape
  <2>4. st = [s EXCEPT !.phase = p, !.ready = r] /\ IsStatus(s) BY <2>1, <2>3, Zenon
  <2>5. IsStatus(st) /\ st.phase = p BY <2>4 DEF IsStatus
  <2>6. st.phase # "Completed" BY <2>1, <2>5
  <2> QED BY <1>e, <2>2, <2>5, <2>6
<1>6. CASE FailWarmupJob BY <1>6, FailStep
<1>7. CASE CreatePodsAndUpdateStatus BY <1>7, CreateStep
<1>8. CASE TimerFires BY <1>8, <1>d, Zenon DEF TimerFires, jobVars, podVars
<1>9. CASE DeliverJob
  <2>1. job' = job /\ seenJob' = job /\ SamePods /\ SameSetting BY <1>9, Zenon DEF DeliverJob, podVars
  <2>2. IsJob(job') /\ IsJob(seenJob') /\ Earned BY <1>0, <2>1, Zenon DEF Earned
  <2> QED BY <1>b, <1>c, <2>1, <2>2, Zenon DEF WarmupInv
<1>10. CASE DeliverPods
  <2>1. /\ SameJob /\ SameSetting /\ pods' = pods /\ feed # <<>>
        /\ seen' = Head(feed) /\ feed' = Tail(feed)
    BY <1>10, Zenon DEF DeliverPods, jobVars
  <2>2. PICK F : feed \in Seq(F) /\ \A s \in F : IsList(s) BY <1>0, Zenon DEF FeedInv
  <2>3. Head(feed) \in F /\ Tail(feed) \in Seq(F) BY <2>1, <2>2
  <2>4. IsList(seen') /\ FeedInv' BY <2>1, <2>2, <2>3, Zenon DEF FeedInv
  <2> QED BY <1>0, <1>a, <1>c, <2>1, <2>4, Zenon DEF WarmupInv
<1>11. CASE MoveTarget
  <2>1. SameJob /\ SamePods /\ conf' = conf /\ \E g \in conf.groups : group' = g
    BY <1>11, Zenon DEF MoveTarget, jobVars, podVars
  <2>2. conf' \in Scenarios /\ group' \in conf'.groups BY <1>0, <2>1, Zenon
  <2> QED BY <1>a, <1>b, <2>1, <2>2, Zenon DEF WarmupInv
<1>12. CASE TogglePaused
  <2>1. PICK x : job' = [job EXCEPT !.paused = x] BY <1>12, Zenon DEF TogglePaused
  <2>2. seenJob' = seenJob /\ SamePods /\ SameSetting BY <1>12, Zenon DEF TogglePaused, podVars
  <2> QED BY <1>f, <2>1, <2>2
<1>13. CASE Expire BY <1>13, <1>d, Zenon DEF Expire, jobVars, podVars
<1>14. CASE Age BY <1>14, <1>d, Zenon DEF Age, jobVars, podVars
<1>15. ASSUME NEW i \in DOMAIN pods, PodEnds(i) PROVE WarmupInv' /\ conf' = conf /\ Earned
  <2>1. PICK phase, action : Change([pods EXCEPT ![i].phase = phase, ![i].action = action])
    BY <1>15, Zenon DEF PodEnds
  <2>2. SameJob /\ SameSetting /\ seen' = seen BY <1>15, Zenon DEF PodEnds, jobVars
  <2>3. PICK all : all = [pods EXCEPT ![i].phase = phase, ![i].action = action] OBVIOUS
  <2>4. all = [k \in DOMAIN pods |-> all[k]] BY <2>3
  <2>5. IsList(all) BY <1>0, <2>4, Relisted
  <2> QED BY <1>g, <2>1, <2>2, <2>3, <2>5
<1>16. ASSUME NEW i \in DOMAIN pods, PodGoes(i) PROVE WarmupInv' /\ conf' = conf /\ Earned
  <2>1. Change([pods EXCEPT ![i].phase = "Gone"]) BY <1>16, Zenon DEF PodGoes
  <2>2. SameJob /\ SameSetting /\ seen' = seen BY <1>16, Zenon DEF PodGoes, jobVars
  <2>3. PICK all : all = [pods EXCEPT ![i].phase = "Gone"] OBVIOUS
  <2>4. all = [k \in DOMAIN pods |-> all[k]] BY <2>3
  <2>5. IsList(all) BY <1>0, <2>4, Relisted
  <2> QED BY <1>g, <2>1, <2>2, <2>3, <2>5
<1>17. CASE UNCHANGED vars BY <1>17, <1>d, Zenon DEF vars, jobVars, podVars
<1> QED BY <1>1, <1>2, <1>3, <1>4, <1>5, <1>6, <1>7, <1>8, <1>9, <1>10, <1>11, <1>12, <1>13, <1>14,
           <1>15, <1>16, <1>17 DEF Next, Pass

LEMMA WarmupInitially == Init => WarmupInv
<1> SUFFICES ASSUME Init PROVE WarmupInv OBVIOUS
<1>1. IsJob(job) /\ seenJob = job
  <2>1. PICK r, z, e, f, t : r = [n \in Nodes |-> NoResult] /\ z = 0 /\ e = "" /\ f = FALSE /\ t = TRUE OBVIOUS
  <2>2. /\ job = [exists |-> t, paused |-> f,
                  st |-> [phase |-> e, started |-> f, finished |-> f, desired |-> z, active |-> z,
                          succeeded |-> z, failed |-> z, ready |-> e, action |-> e, results |-> r]]
        /\ seenJob = job
    BY <2>1, Zenon DEF Init
  <2> QED BY <2>2 DEF IsJob, IsStatus
<1>2. pods = <<>> /\ seen = <<>> /\ feed = <<>> BY DEF Init
<1>3. IsList(pods) /\ IsList(seen)
  <2>1. <<>> \in Seq({}) OBVIOUS
  <2> QED BY <1>2, <2>1, Zenon DEF IsList
<1>4. FeedInv
  <2>1. feed \in Seq({}) BY <1>2
  <2>2. \A s \in {} : IsList(s) OBVIOUS
  <2>3. PICK F : F = {} OBVIOUS
  <2>4. feed \in Seq(F) /\ \A s \in F : IsList(s) BY <2>1, <2>2, <2>3
  <2> QED BY <2>4, Zenon DEF FeedInv
<1> QED BY <1>1, <1>3, <1>4, Zenon DEF WarmupInv, Init

-----------------------------------------------------------------------------
(***************************************************************************)
(* The theorems.                                                           *)
(***************************************************************************)
\* The lists and statuses keep their shape.
THEOREM WarmupInvariant == Spec => []WarmupInv
<1>1. Init => WarmupInv BY WarmupInitially
<1>2. WarmupInv /\ [Next]_vars => WarmupInv' BY EveryStep
<1> QED BY <1>1, <1>2, PTL DEF Spec

\* A job completes only with its failures tolerated (updateWarmupPhase,
\* updateEmptyDesiredPhase), for every target, policy, lag and fault, unless
\* the target has lost all its nodes while a pod is still active on one that
\* is already warmed or given up.
THEOREM TolerancePromised == Spec /\ []NoStrayLeft => []ToleranceKept
<1>1. Init => ToleranceKept
  <2> SUFFICES ASSUME Init PROVE job.st.phase # "Completed" BY DEF ToleranceKept
  <2>1. job.st.phase = "" BY DEF Init
  <2> QED BY <2>1
<1>2. WarmupInv /\ NoStrayLeft /\ ToleranceKept /\ [Next]_vars => ToleranceKept'
  <2> SUFFICES ASSUME WarmupInv, NoStrayLeft, ToleranceKept, [Next]_vars PROVE ToleranceKept' OBVIOUS
  <2>1. conf' = conf /\ Earned BY EveryStep
  <2>2. Policy' = Policy BY <2>1 DEF Policy
  <2>3. job'.st.phase = "Completed" => Within(job'.st.failed, Policy.maxFailedNodes)
    BY <2>1, Zenon DEF Earned, ToleranceKept
  <2> QED BY <2>2, <2>3, Zenon DEF ToleranceKept, Within
<1> QED BY <1>1, <1>2, WarmupInvariant, PTL DEF Spec

\* A job completes only when every node its target then selects was warmed or
\* failed for good (CreatePodsAndUpdateStatus), for every target, policy, lag
\* and fault, as long as the pods that are active on nodes already warmed or
\* given up leave room for one more; without a parallelism they always do.
THEOREM CoveragePromised == Spec /\ []StraysLeaveRoom => CompletedCoversTarget
<1> DEFINE Step == job.st.phase # "Completed" /\ job'.st.phase = "Completed" =>
                     GetDesiredNodesToWarmup \subseteq On(SucceededPods, seen) \cup ComputePermanentlyFailedNodes
<1>1. WarmupInv /\ StraysLeaveRoom /\ [Next]_vars => [Step]_vars
  <2> SUFFICES ASSUME WarmupInv, StraysLeaveRoom, [Next]_vars PROVE Step OBVIOUS
  <2>1. Earned BY EveryStep
  <2> QED BY <2>1, Zenon DEF Earned
<1> HIDE DEF Step
<1>2. Spec /\ []StraysLeaveRoom => [][Step]_vars BY <1>1, WarmupInvariant, PTL DEF Spec
<1> QED BY <1>2, Zenon DEF CompletedCoversTarget, Step

===============================================================================
