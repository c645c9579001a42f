----------------------------- MODULE MCPlatform -----------------------------
(***************************************************************************)
(* The components around the controllers of groups and instances, one in a *)
(* behaviour: they share nothing that their properties are about, so part  *)
(* says which of them runs, and the others stay at rest.                   *)
(***************************************************************************)
EXTENDS PatternDispatch, StatefulSetRollout, PodIdentity, CoordinatedPace, WebhookCerts,
        ApiVersions, WorkloadKinds, RevisionHistory

CONSTANTS n1, n2        \* nodes

VARIABLE part           \* rigid: the component that runs
vars == <<part, dispatchVars, stsVars, idVars, paceVars, certVars, apiVars, kindVars, histVars>>
Parts == {"dispatch", "statefulset", "identity", "pace", "certs", "api", "kinds", "history"}

-----------------------------------------------------------------------------
(***************************************************************************)
(* The instances.                                                          *)
(***************************************************************************)
Strategy(unavailable, surge, partition) ==
  [unavailable |-> unavailable, surge |-> surge, partition |-> partition]
ThreeStrategies == {Strategy(1, 0, 0), Strategy(1, 1, 0), Strategy(2, 1, 1)}

\* In-place scheduling with affinity terms of the template, with nodes to
\* avoid, and with port allocations that a later template asks for.
Required(granularity, avoid, terms, budget) ==
  [mode |-> "Required", granularity |-> granularity, avoid |-> avoid, terms |-> terms,
   templates |-> {{}}, budget |-> budget]
ThreeSchedulings ==
  {Required("Pod", {}, {{n1}, {n2}}, 1), Required("Component", {n1}, {}, 1),
   [Required("Pod", {n2}, {{n1, n2}}, 1)
      EXCEPT !.mode = "Preferred", !.templates = {{"role"}, {"pod", "role"}}]}

\* Revisions are named by what they record.  The patches of an instance's two
\* component lists have the same hash at first.
ThreeTemplates ==
  {[components |-> 1, policy |-> 1], [components |-> 2, policy |-> 1], [components |-> 1, policy |-> 2]}
Patches == [components : {1, 2}, policy : {1, 2}] \cup [components : {1, 2}]
PatchHashes == Patches \X {1, 2} \X {0, 1}
PatchHash ==
  [d \in [patch : Patches, codec : {1, 2}], c \in {0, 1} |->
     IF d = [patch |-> [components |-> 2], codec |-> 1] /\ c = 0
     THEN <<[components |-> 1], 1, 0>> ELSE <<d.patch, d.codec, c>>]

\* Objects as earlier releases stored them, legacy values included.
OldObjects ==
  {h \in [note : WorkloadTypes \cup {None}, pattern : RolePatterns,
          restart : {None, ""}, restartV07 : {"", "None"}, extras : {FALSE},
          update : {"", "Recreate", "InPlaceOnly", None}, source : {"inline"},
          partition : {0, 1}, moves : BOOLEAN, deps : BOOLEAN, replicas : {1}, scaled : {TRUE},
          podGroup : {FALSE}, gang : {FALSE}, coordination : {None},
          exclusiveV1 : {FALSE}, exclusive : {FALSE}] :
     /\ h.pattern = "standalone" => h.restart = None /\ h.restartV07 = ""
     /\ h.restart # None => h.restartV07 = ""
     /\ ~(h.deps /\ h.moves) => h.partition = 0}

-----------------------------------------------------------------------------
(***************************************************************************)
(* A component at rest: none of its actions that fairness names can run.   *)
(***************************************************************************)
DispatchIdle ==
  /\ ris = None /\ risSeen = None /\ risQueued = FALSE
  /\ insts = [n \in Names |-> None] /\ instsSeen = insts /\ instsUnseen = {}
  /\ expected = [create |-> {}, delete |-> {}] /\ dispatchBudget = 0
StsIdle ==
  /\ role = [replicas |-> 1, template |-> 1, strategy |-> Strategy(1, 0, 0), coordinated |-> None]
  /\ sts = [template |-> 1, size |-> 1, replicas |-> 1, partition |-> 0]
  /\ pods = [i \in PodIndexes |-> IF i = 0 THEN [template |-> 1, ready |-> TRUE] ELSE None]
  /\ revised = 1 /\ settledOn = 1 /\ stsBudget = 0
IdIdle ==
  /\ sched = Required("Component", {n1}, {}, 1) /\ template = {}
  /\ idGroup = None /\ risPort = None /\ inst = None /\ instSeen = None
  /\ idPods = [s \in Slots |-> None]
  /\ bindings = [g \in GroupUids |-> [k \in Keys |-> {}]] /\ toEvict = {}
  /\ granted = [u \in InstUids |-> None] /\ hosted = [g \in GroupUids |-> {}] /\ idBudget = 0
PaceIdle ==
  /\ rule = [kind |-> "scale", skew |-> 1, progression |-> "OrderReady"]
  /\ wanted = [r \in PacedRoles |-> 1] /\ current = wanted /\ ready = wanted /\ kept = wanted
  /\ updated = [r \in PacedRoles |-> 0]
CertIdle ==
  \E ca \in {CHOOSE c \in CAs : TRUE}, leader \in {CHOOSE r \in Replicas : TRUE} :
    /\ secret = [version |-> 0, ca |-> ca, life |-> "long", certGood |-> TRUE] /\ version = 0
    /\ replica = [r \in Replicas |-> [Down EXCEPT !.phase = "up", !.ca = ca]]
    /\ certLeader = leader /\ bundles = [t \in Targets |-> ca] /\ caLost = FALSE /\ certBudget = 0
ApiIdle ==
  /\ compat = FALSE /\ policy = None /\ apiBudget = 0
  /\ stored = CHOOSE h \in OldObjects : h.note = None

KindsIdle ==
  \E u \in {CHOOSE u \in KindUids : TRUE} :
    /\ kindGroup = [uid |-> u, kind |-> "Deployment", size |-> 1, gangFits |-> TRUE, dependent |-> TRUE]
    /\ works = [j \in Kinds |->
                  IF j = "Deployment" THEN [owner |-> u, size |-> 1, observed |-> TRUE,
                                            status |-> [replicas |-> 1, ready |-> 1]] ELSE None]
    /\ router = u /\ roleStatus = [replicas |-> 1, ready |-> 1] /\ service = None
    /\ serviceLost = FALSE /\ kindQueued = FALSE /\ kindBudget = 0
HistIdle ==
  /\ histKind = "stateful" /\ codec = 1
  /\ owner = [template |-> CHOOSE t \in OwnerTemplates : TRUE, current |-> None, update |-> None,
              collision |-> 0]
  /\ ownerSeen = owner /\ revs = {} /\ revsSeen = {}
  /\ kids = [s \in Children |-> None] /\ kidsSeen = kids /\ unseen = {} /\ histBudget = 0

Init ==
  /\ part \in Parts
  /\ IF part = "dispatch" THEN DispatchInit ELSE DispatchIdle
  /\ IF part = "statefulset" THEN StsInit ELSE StsIdle
  /\ IF part = "identity" THEN IdInit ELSE IdIdle
  /\ IF part = "pace" THEN PaceInit ELSE PaceIdle
  /\ IF part = "certs" THEN CertInit ELSE CertIdle
  /\ IF part = "api" THEN ApiInit ELSE ApiIdle
  /\ IF part = "kinds" THEN KindInit ELSE KindsIdle
  /\ IF part = "history" THEN HistInit ELSE HistIdle

Next ==
  /\ UNCHANGED part
  /\ \/ part = "dispatch" /\ DispatchNext
        /\ UNCHANGED <<stsVars, idVars, paceVars, certVars, apiVars, kindVars, histVars>>
     \/ part = "statefulset" /\ StsNext
        /\ UNCHANGED <<dispatchVars, idVars, paceVars, certVars, apiVars, kindVars, histVars>>
     \/ part = "identity" /\ IdNext
        /\ UNCHANGED <<dispatchVars, stsVars, paceVars, certVars, apiVars, kindVars, histVars>>
     \/ part = "pace" /\ PaceNext
        /\ UNCHANGED <<dispatchVars, stsVars, idVars, certVars, apiVars, kindVars, histVars>>
     \/ part = "certs" /\ CertNext
        /\ UNCHANGED <<dispatchVars, stsVars, idVars, paceVars, apiVars, kindVars, histVars>>
     \/ part = "api" /\ ApiNext
        /\ UNCHANGED <<dispatchVars, stsVars, idVars, paceVars, certVars, kindVars, histVars>>
     \/ part = "kinds" /\ KindNext
        /\ UNCHANGED <<dispatchVars, stsVars, idVars, paceVars, certVars, apiVars, histVars>>
     \/ part = "history" /\ HistNext
        /\ UNCHANGED <<dispatchVars, stsVars, idVars, paceVars, certVars, apiVars, kindVars>>

Spec ==
  /\ Init /\ [][Next]_vars
  /\ DispatchFairness /\ StsFairness /\ IdFairness /\ PaceFairness
  /\ CertFairness /\ ApiFairness /\ KindFairness

-----------------------------------------------------------------------------
\* Every variable has its type in every component.
PlatformTypeOK ==
  /\ part \in Parts
  /\ DispatchTypeOK /\ StsTypeOK /\ IdTypeOK /\ PaceTypeOK
  /\ CertTypeOK /\ ApiTypeOK /\ KindTypeOK /\ HistTypeOK

\* Every component that is left alone comes to the rest its code works for:
\* the mode of a set has been changed, a StatefulSet has been rolled, a role
\* has its new kind of workload, the pods of an instance run, coordinated
\* roles are complete, the webhooks trust the serving certificate, and the
\* policy of a group says what the group says.
PlatformSettles ==
  /\ DispatchSettles /\ StsSettles /\ KindsSettle /\ PodsComeUp
  /\ Completes /\ WebhooksTrusted /\ PolicyFollows
=============================================================================
