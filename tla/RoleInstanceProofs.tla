-------------------------- MODULE RoleInstanceProofs --------------------------
(***************************************************************************)
(* What is proved about the RoleInstance controller: while the direct      *)
(* reads of the API server succeed, no recreation is counted before its    *)
(* back-off has run out, for every number of pods, every configuration and *)
(* however old the caches are.                                             *)
(***************************************************************************)
EXTENDS RoleInstance, TLAPS

\* The part of a status that restarts are decided from.
Tracking(s) ==
  /\ {"count", "last"} \subseteq DOMAIN s
  /\ s.count \in Nat /\ s.last \in Nat \cup {Never}

Stored(obj) == "st" \in DOMAIN obj /\ Tracking(obj.st)

\* The inductive invariant: both copies of the object carry a count and an
\* age, and the configuration is the one the behaviour began with.
TrackInv ==
  /\ conf \in Configuration /\ ~conf.readsFail
  /\ Stored(inst) /\ Stored(cacheInst)

LEMMA WrappedIsInt == ASSUME NEW x \in Int PROVE Wrapped(x) \in Int
<1>1. 2^Int64Bits \in Int
  BY WidthAssumption
<1>2. PICK m \in Int : m = 2^Int64Bits
  BY <1>1
<1>3. m > 0
  BY <1>2, PowerAssumption
<1>4. x % m \in Int
  BY <1>3
<1>. QED
  BY <1>2, <1>4 DEF Wrapped

LEMMA DelayIsInt ==
  ASSUME NEW base \in Nat, NEW max \in Nat, NEW count \in Nat
  PROVE  CalculateRestartDelay(base, max, count) \in Int
<1>1. MaxInt32 \in Int
  BY WidthAssumption DEF MaxInt32
<1>2. CASE count = 0
  BY <1>2 DEF CalculateRestartDelay
<1>3. CASE count > 0
  <2>1. 2^(count - 1) \in Int
    BY <1>3
  <2>2. base * 2^(count - 1) \in Int
    BY <2>1
  <2>3. Wrapped(base * 2^(count - 1)) \in Int
    BY <2>2, WrappedIsInt
  <2>. QED
    BY <1>1, <2>3 DEF CalculateRestartDelay
<1>. QED
  BY <1>2, <1>3

-----------------------------------------------------------------------------
LEMMA InitTracking == Init /\ ~conf.readsFail => TrackInv
<1>. SUFFICES ASSUME Init, ~conf.readsFail PROVE TrackInv
  OBVIOUS
<1>1. conf \in Configuration
  BY ScenariosAssumption DEF Init
<1>2. Tracking(InitStatus)
  BY DEF InitStatus, Tracking, Never
<1>3. ASSUME NEW spec, NEW gate PROVE Tracking(SettledStatus(spec, gate))
  BY DEF InitStatus, SettledStatus, Tracking, Never
<1>4. PICK st : Tracking(st) /\ inst = [gen |-> 1, rev |-> conf.spec.rev, size |-> conf.spec.size, st |-> st]
  BY <1>2, <1>3 DEF Init
<1>5. Stored(inst)
  BY <1>4 DEF Stored
<1>. QED
  BY <1>1, <1>5 DEF Init, TrackInv

\* What a pass restarts with, and what it leaves to be stored.
LEMMA TrackedIsTracking ==
  ASSUME TrackInv, NEW blind
  PROVE  Tracking(Tracked(blind)) /\ Tracking(RestartTracked(Tracked(blind)))
<1>1. Tracking(cacheInst.st) /\ Tracking(inst.st)
  BY DEF TrackInv, Stored
<1>2. ASSUME NEW s, NEW f, Tracking(s), Tracking(f) PROVE Tracking(SyncRestartTracking(s, f))
  <2>1. PICK n \in Nat : n = f.count
    BY <1>2 DEF Tracking
  <2>2. PICK t \in Nat \cup {Never} : t = f.last
    BY <1>2 DEF Tracking
  <2>3. Tracking([s EXCEPT !.count = n, !.last = t]) /\ Tracking([s EXCEPT !.count = n])
    BY <1>2 DEF Tracking
  <2>. QED
    BY <1>2, <2>1, <2>2, <2>3 DEF SyncRestartTracking
<1>3. Tracking(Tracked(blind))
  BY <1>1, <1>2 DEF Tracked
<1>4. ASSUME NEW s, Tracking(s) PROVE Tracking(RestartTracked(s))
  <2>1. PICK n \in Nat : n = IF s.last > StableThreshold THEN 1 ELSE s.count + 1
    BY <1>4 DEF Tracking
  <2>. QED
    BY <1>4, <2>1 DEF Tracking, RestartTracked
<1>. QED
  BY <1>3, <1>4

\* The status a pass writes, whatever it did to the pods.
LEMMA NewIsTracking ==
  ASSUME NEW scaling, NEW track, Tracking(track), NEW failed, NEW base, NEW ready
  PROVE  Tracking(NewStatus(scaling, track, failed, base, ready))
BY DEF NewStatus, Tracking

LEMMA LandedIsTracking ==
  ASSUME TrackInv, NEW new, Tracking(new), NEW restarts \in BOOLEAN
  PROVE  /\ Tracking(LandedStatus(new, restarts))
         /\ ~restarts => LandedStatus(new, restarts).count = inst.st.count
<1>1. Tracking(inst.st)
  BY DEF TrackInv, Stored
<1>2. PICK n \in Nat : n = inst.st.count
  BY <1>1 DEF Tracking
<1>3. PICK t \in Nat \cup {Never} : t = inst.st.last
  BY <1>1 DEF Tracking
<1>4. Tracking([new EXCEPT !.count = n, !.last = t]) /\ [new EXCEPT !.count = n, !.last = t].count = n
  BY DEF Tracking
<1>. QED
  BY <1>2, <1>3, <1>4 DEF LandedStatus

\* All a pass does to the instance: it may store a status, and the count in it
\* is a new one only if the pass was triggered.
LEMMA PassStores ==
  ASSUME TrackInv, Pass
  PROVE  /\ conf' = conf
         /\ cacheInst' = cacheInst \/ cacheInst' = inst'
         /\ \/ inst' = inst
            \/ \E st : /\ inst' = [inst EXCEPT !.st = st]
                       /\ Tracking(st)
                       /\ st.count # inst.st.count => \E late \in BOOLEAN : Plan({}, late).triggered
<1>1. conf' = conf
  BY DEF Pass
<1>2. PICK blind \in SUBSET (IF conf.readsFail THEN Reads ELSE {}), late \in BOOLEAN, die \in 1 .. 5 :
        \E spent : ScaleOn(die, spent, blind, late, Plan(blind, late))
  BY Zenon DEF Pass
<1>. DEFINE plan == Plan(blind, late)
<1>3. PICK D : \E spent : UpdateOn(die, spent, late, plan, D # plan.on, AfterScale(plan, blind, D))
  BY <1>2, Zenon DEF ScaleOn
<1>. DEFINE scaled == AfterScale(plan, blind, D)
<1>4. PICK R, U, half : \E spent :
        Conclude(die, spent, plan, scaled, AfterUpdate(scaled, late, D # plan.on, R, U \cup half, U))
  <2>. HIDE DEF scaled, plan
  <2>1. PICK spent : UpdateOn(die, spent, late, plan, D # plan.on, scaled)
    BY <1>3 DEF scaled
  <2>2. PICK R \in Done(2, die, scaled.refreshes, scaled.gone),
             U \in Done(2, die, scaled.outdated, scaled.gone),
             half \in Done(2, die, scaled.outdated, scaled.gone) :
          \E done \in {AfterUpdate(scaled, late, D # plan.on, R, U \cup half, U)} :
            Conclude(die,
              spent + Cost(2, die, IF R # scaled.refreshes THEN scaled.refreshes \ R ELSE scaled.outdated \ U, scaled.gone),
              plan, scaled, done)
    BY <2>1, Zenon DEF UpdateOn
  <2>3. \E s : Conclude(die, s, plan, scaled, AfterUpdate(scaled, late, D # plan.on, R, U \cup half, U))
    BY <2>2, Zenon
  <2>. QED
    BY <2>3, Zenon
<1>. DEFINE done == AfterUpdate(scaled, late, D # plan.on, R, U \cup half, U)
<1>5. \E L, acked, landed :
      /\ inst' = IF landed THEN [inst EXCEPT !.st = LandedStatus(done.st, scaled.restarts)] ELSE inst
      /\ AfterPass(die, done.failed \/ ~acked \/ L # plan.lifecycles,
                   done.ready /\ acked /\ L = plan.lifecycles, plan.triggered, plan.wait)
  BY <1>4, Zenon DEF Conclude
<1>6. cacheInst' = cacheInst \/ cacheInst' = inst'
  BY <1>5, Zenon DEF AfterPass, cacheVars
<1>7. blind = {}
  BY <1>2 DEF TrackInv
<1>8. Tracking(scaled.track)
  <2>1. Tracking(cacheInst.st) /\ Tracking(Tracked(blind)) /\ Tracking(RestartTracked(Tracked(blind)))
    BY TrackedIsTracking DEF TrackInv, Stored
  <2>2. scaled.track = IF D = {} THEN cacheInst.st
                       ELSE IF plan.triggered THEN RestartTracked(Tracked(blind)) ELSE Tracked(blind)
    BY DEF AfterScale
  <2>. QED
    BY <2>1, <2>2, Zenon
<1>9. Tracking(done.st)
  <2>1. \E failed, base, ready : done.st = NewStatus(scaled.scaling, scaled.track, failed, base, ready)
    BY DEF AfterUpdate
  <2>. QED
    BY <1>8, <2>1, NewIsTracking, Zenon
<1>10. scaled.restarts = (D # {} /\ plan.triggered)
  BY DEF AfterScale
<1>11. PICK restarts \in BOOLEAN : restarts = scaled.restarts /\ (restarts => plan.triggered)
  BY <1>10, Zenon
<1>. DEFINE st == LandedStatus(done.st, restarts)
<1>12. Tracking(st) /\ (~restarts => st.count = inst.st.count)
  BY <1>9, LandedIsTracking, Zenon
<1>13. inst' = inst \/ inst' = [inst EXCEPT !.st = st]
  BY <1>5, <1>11, Zenon
<1>14. st.count # inst.st.count => \E l \in BOOLEAN : Plan({}, l).triggered
  BY <1>2, <1>7, <1>11, <1>12, Zenon
<1>. QED
  BY <1>1, <1>6, <1>12, <1>13, <1>14, Zenon

-----------------------------------------------------------------------------
LEMMA StoredStatus ==
  ASSUME NEW obj, NEW st, Stored(obj), Tracking(st)
  PROVE  Stored([obj EXCEPT !.st = st])
BY DEF Stored

LEMMA OlderIsStored ==
  ASSUME NEW obj, Stored(obj), conf \in Configuration
  PROVE  Stored(Older(obj)) /\ Older(obj).st.count = obj.st.count
<1>1. CASE obj.st.last = Never \/ obj.st.last > StableThreshold
  BY <1>1 DEF Older
<1>2. CASE ~(obj.st.last = Never \/ obj.st.last > StableThreshold)
  <2>1. PICK t \in Nat : t = obj.st.last + 1
    BY <1>2 DEF Stored, Tracking
  <2>. DEFINE st == [obj.st EXCEPT !.last = t]
  <2>2. Older(obj) = [obj EXCEPT !.st = st]
    BY <1>2, <2>1 DEF Older, Stored, Tracking
  <2>3. Tracking(st) /\ st.count = obj.st.count
    BY <2>1 DEF Stored, Tracking
  <2>4. [obj EXCEPT !.st = st].st = st
    BY DEF Stored
  <2>. HIDE DEF st
  <2>. QED
    BY <2>2, <2>3, <2>4, StoredStatus
<1>. QED
  BY <1>1, <1>2

\* Who else writes the instance leaves the count alone.
LEMMA OthersKeepCount ==
  ASSUME TrackInv, Next, ~Pass
  PROVE  TrackInv' /\ inst'.st.count = inst.st.count
<1>1. CASE Restart
  BY <1>1 DEF Restart, TrackInv, apiVars, Stored, Tracking
<1>2. CASE SyncInst
  BY <1>2 DEF SyncInst, TrackInv, apiVars, bounds, Stored, Tracking
<1>3. CASE SyncPods
  BY <1>3 DEF SyncPods, TrackInv, apiVars, bounds, Stored, Tracking
<1>4. CASE Tick
  <2>1. inst' = Older(inst) /\ cacheInst' = Older(cacheInst) /\ conf' = conf
    BY <1>4 DEF Tick, bounds
  <2>2. conf \in Configuration /\ ~conf.readsFail /\ Stored(inst) /\ Stored(cacheInst)
    BY DEF TrackInv
  <2>3. Stored(Older(inst)) /\ Stored(Older(cacheInst)) /\ Older(inst).st.count = inst.st.count
    BY <2>2, OlderIsStored
  <2>4. Stored(inst') /\ Stored(cacheInst')
    BY <2>1, <2>3
  <2>. QED
    BY <2>1, <2>2, <2>3, <2>4 DEF TrackInv, Stored, Tracking
<1>5. CASE \E p \in Pods : Kubelet(p) \/ Crash(p)
  <2>1. inst' = inst /\ cacheInst' = cacheInst /\ conf' = conf
    BY <1>5, Zenon DEF Kubelet, Crash, PodReady, ImageReplaced, PodGone, ContainerCrashes, PodFails, SetPod, cacheVars
  <2>. QED
    BY <2>1 DEF TrackInv, Stored, Tracking
<1>6. CASE CloseGate
  <2>1. inst' = [inst EXCEPT !.st.gc = "no", !.st.ready = FALSE] /\ cacheInst' = cacheInst /\ conf' = conf
    BY <1>6 DEF CloseGate, SetInst, cacheVars, bounds
  <2>. DEFINE st == [inst.st EXCEPT !.gc = "no", !.ready = FALSE]
  <2>2. inst' = [inst EXCEPT !.st = st]
    BY <2>1 DEF TrackInv, Stored, Tracking
  <2>3. Tracking(st) /\ st.count = inst.st.count
    BY DEF TrackInv, Stored, Tracking
  <2>4. Stored(inst') /\ inst'.st = st
    BY <2>2, <2>3 DEF TrackInv, Stored
  <2>. QED
    BY <2>1, <2>3, <2>4 DEF TrackInv, Stored, Tracking
<1>7. CASE EditSpec
  <2>1. PICK g, r, z : inst' = [inst EXCEPT !.gen = g, !.rev = r, !.size = z]
    BY <1>7 DEF EditSpec, SetInst
  <2>2. cacheInst' = cacheInst /\ conf' = conf
    BY <1>7 DEF EditSpec, SetInst, cacheVars, bounds
  <2>3. Stored(inst') /\ inst'.st = inst.st
    BY <2>1 DEF TrackInv, Stored
  <2>. QED
    BY <2>2, <2>3 DEF TrackInv, Stored, Tracking
<1>8. CASE OpenGate
  <2>1. inst' = [inst EXCEPT !.st.gc = "yes"] /\ cacheInst' = cacheInst /\ conf' = conf
    BY <1>8 DEF OpenGate, SetInst, cacheVars, bounds
  <2>. DEFINE st == [inst.st EXCEPT !.gc = "yes"]
  <2>2. inst' = [inst EXCEPT !.st = st]
    BY <2>1 DEF TrackInv, Stored, Tracking
  <2>3. Tracking(st) /\ st.count = inst.st.count
    BY DEF TrackInv, Stored, Tracking
  <2>4. Stored(inst') /\ inst'.st = st
    BY <2>2, <2>3 DEF TrackInv, Stored
  <2>. QED
    BY <2>1, <2>3, <2>4 DEF TrackInv, Stored, Tracking
<1>. QED
  BY <1>1, <1>2, <1>3, <1>4, <1>5, <1>6, <1>7, <1>8 DEF Next

LEMMA NextTracking == TrackInv /\ [Next]_vars => TrackInv'
<1>. SUFFICES ASSUME TrackInv, [Next]_vars PROVE TrackInv'
  OBVIOUS
<1>1. CASE Pass
  <2>1. conf \in Configuration /\ ~conf.readsFail /\ Stored(inst) /\ Stored(cacheInst)
    BY DEF TrackInv
  <2>2. conf' = conf /\ (cacheInst' = cacheInst \/ cacheInst' = inst')
    BY <1>1, PassStores
  <2>3. Stored(inst')
    BY <1>1, <2>1, PassStores, StoredStatus
  <2>4. Stored(cacheInst')
    BY <2>1, <2>2, <2>3
  <2>. QED
    BY <2>1, <2>2, <2>3, <2>4 DEF TrackInv, Stored, Tracking
<1>2. CASE Next /\ ~Pass
  BY <1>2, OthersKeepCount
<1>3. CASE UNCHANGED vars
  BY <1>3 DEF vars, apiVars, cacheVars, bounds, TrackInv, Stored, Tracking
<1>. QED
  BY <1>1, <1>2, <1>3

\* A pass that restarts the instance waited for what the API server asks.
LEMMA TriggeredAfterDelay ==
  ASSUME TrackInv, NEW late, Plan({}, late).triggered
  PROVE  inst.st.last = Never \/ inst.st.last >= RestartDelay(inst.st.count)
<1>1. Triggers({}, Backoff({}))
  BY DEF Plan
<1>2. /\ Backoff({}) = 0
      /\ ShouldRecreateInstance(cacheInst.gen, Tracked({}), cachePods)
      /\ ~inst.st.restarting
  BY <1>1, Zenon DEF Triggers, IsAlreadyRestarting
<1>3. FreshStatus({}) = inst.st
  BY DEF FreshStatus
<1>4. RestartBackoff(cacheInst.gen, Tracked({}), inst.st, cachePods) = 0
  BY <1>2, <1>3 DEF Backoff
<1>5. RecreatePolicy
  BY <1>2, Zenon DEF ShouldRecreateInstance
<1>6. inst.st.last # Never /\ inst.st.last < RestartDelay(inst.st.count)
        => RestartDelay(inst.st.count) - inst.st.last = 0
  BY <1>2, <1>4, <1>5, Zenon DEF RestartBackoff
<1>7. /\ BaseDelay \in Nat /\ MaxDelay \in Nat
      /\ inst.st.count \in Nat /\ inst.st.last \in Nat \cup {Never}
  BY DEF TrackInv, Configuration, BaseDelay, MaxDelay, Stored, Tracking
<1>8. RestartDelay(inst.st.count) \in Int
  BY <1>7, DelayIsInt DEF RestartDelay
<1>. QED
  BY <1>6, <1>7, <1>8 DEF Never

(***************************************************************************)
(* Every reachable object carries the count and the age of its last        *)
(* recreation (status.restartCount, status.lastRestartTime), in the API    *)
(* server and in the informer's copy, whichever writer stored it last.     *)
(***************************************************************************)
THEOREM RestartsAreTracked == ~conf.readsFail /\ Spec => []TrackInv
<1>1. Init /\ ~conf.readsFail => TrackInv
  BY InitTracking
<1>. QED
  BY <1>1, NextTracking, PTL DEF Spec

(***************************************************************************)
(* A recreation is counted only when the delay that the count and the time *)
(* in the API server ask for has passed: checkRestartBackoff reads them    *)
(* fresh, so neither a stale cache nor a controller that died between two  *)
(* passes shortens the wait.  The hypothesis is that the direct reads      *)
(* succeed; the code falls back to its cache when they do not.             *)
(***************************************************************************)
THEOREM BackoffOutlivesCaches == ~conf.readsFail /\ Spec => BackoffRespected
<1>. DEFINE Waited ==
  inst'.st.count # inst.st.count =>
    inst.st.last = Never \/ inst.st.last >= RestartDelay(inst.st.count)
<1>1. TrackInv /\ [Next]_vars => [Waited]_vars
  <2>. SUFFICES ASSUME TrackInv, [Next]_vars, inst'.st.count # inst.st.count
                PROVE  inst.st.last = Never \/ inst.st.last >= RestartDelay(inst.st.count)
    OBVIOUS
  <2>1. CASE Pass
    <3>1. \E st : /\ inst' = [inst EXCEPT !.st = st]
                  /\ st.count # inst.st.count => \E late \in BOOLEAN : Plan({}, late).triggered
      BY <2>1, PassStores
    <3>2. PICK st : /\ inst' = [inst EXCEPT !.st = st]
                    /\ st.count # inst.st.count => \E late \in BOOLEAN : Plan({}, late).triggered
      BY <3>1
    <3>3. inst'.st = st
      BY <3>2 DEF TrackInv, Stored
    <3>. QED
      BY <3>2, <3>3, TriggeredAfterDelay
  <2>2. CASE Next /\ ~Pass
    BY <2>2, OthersKeepCount
  <2>3. CASE UNCHANGED vars
    BY <2>3 DEF vars, apiVars
  <2>. QED
    BY <2>1, <2>2, <2>3
<1>. QED
  BY <1>1, RestartsAreTracked, PTL DEF Spec, BackoffRespected
=============================================================================
