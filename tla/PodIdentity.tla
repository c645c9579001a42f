----------------------------- MODULE PodIdentity -----------------------------
(***************************************************************************)
(* What a pod keeps when it is created again: its ports, which are written *)
(* as annotations of the RoleInstance (and of the RoleInstanceSet) when    *)
(* those are created, and its node, which the manager remembers in memory  *)
(* under the uid of the group (in-place scheduling).                       *)
(*                                                                         *)
(* One group of one role with one instance of one component.  A port       *)
(* allocation of the template is PodScoped ("pod") or RoleScoped ("role"). *)
(* An affinity is a set of terms, each the set of nodes that satisfy it;   *)
(* no term means no restriction.                                           *)
(***************************************************************************)
EXTENDS Optional, Integers, FiniteSets

CONSTANTS Slots, Ports, Nodes,
          GroupUids, InstUids,   \* incarnations of the group and of the instance
          Schedulings            \* configurations: in-place scheduling, and the
                                 \* port allocations that templates ask for
VARIABLES sched,       \* rigid: [mode, granularity, avoid, terms, templates,
                       \* budget: changes by users, failures and restarts]
          template,    \* the port allocations of the role's template
          idGroup,     \* uid of the group
          risPort,     \* the RoleInstanceSet: None, or [port]: its role-scoped port
          inst, instSeen, \* the instance: [uid, group, config, ports, rolePort]
          idPods,      \* its pods by slot: [owner, group, port, terms, pinned, node, ready]
          bindings,    \* the NodeBindingStore: nodes by group uid and key
          toEvict,     \* deleted groups whose deletion event is on its way
          granted,     \* history: ports of each incarnation, and
          hosted,      \* nodes that hosted ready pods of each group
          idBudget
idVars == <<sched, template, idGroup, risPort, inst, instSeen, idPods, bindings, toEvict,
            granted, hosted, idBudget>>

\* The key of the bindings of a component; a pod has its slot for a key.
ComponentKey == None
Keys == Slots \cup {ComponentKey}
Scopes == {"pod", "role"}
Assigned == [Slots -> Ports \cup {None}]
Instance == [uid : InstUids, group : GroupUids, config : SUBSET Scopes,
             ports : Assigned, rolePort : Ports \cup {None}]
IdPod == [owner : InstUids, group : GroupUids, port : Ports \cup {None}, terms : SUBSET SUBSET Nodes,
          pinned : BOOLEAN, node : Nodes \cup {None}, ready : BOOLEAN]
Scheduling == [mode : {"", "Preferred", "Required"}, granularity : {"Pod", "Component"},
               avoid : SUBSET Nodes, terms : SUBSET SUBSET Nodes, templates : SUBSET SUBSET Scopes,
               budget : Nat]

ASSUME SchedulingAssumption == Schedulings \subseteq Scheduling /\ GroupUids # {}
\* What is absent is no value of any kind.
ASSUME AbsenceAssumption ==
  /\ None \notin IdPod /\ None \notin Assigned
  /\ None \notin [by : InstUids, port : Ports \cup {None}]

IdTypeOK ==
  /\ sched \in Schedulings /\ template \subseteq Scopes /\ idGroup \in GroupUids \cup {None}
  /\ risPort # None => risPort \in [port : Ports \cup {None}]
  /\ inst # None => inst \in Instance
  /\ instSeen # None => instSeen \in Instance
  /\ idPods \in [Slots -> IdPod \cup {None}]
  /\ bindings \in [GroupUids -> [Keys -> SUBSET Nodes]] /\ toEvict \subseteq GroupUids
  /\ granted \in [InstUids -> Assigned \cup {None}] /\ hosted \in [GroupUids -> SUBSET Nodes]
  /\ idBudget \in 0 .. sched.budget

-----------------------------------------------------------------------------
(***************************************************************************)
(* Ports.                                                                  *)
(***************************************************************************)
\* Any port of the range: what other batches drew does not matter.
AllocateBatch == Ports
\* A role-scoped port is drawn when the RoleInstanceSet is created and copied
\* from its old annotations afterwards; what is not there is not added.
AllocateRoleScopedPortAnnotations(wanted) ==
  IF ~wanted THEN {None} ELSE IF risPort = None THEN AllocateBatch ELSE {risPort.port}

\* Pod-scoped ports are drawn when an instance is made, one batch per pod.
AllocatePodScopedPorts(wanted) == [Slots -> IF wanted THEN AllocateBatch ELSE {None}]

\* An instance takes a copy of the role-scoped port.
RoleScopedPort(config) == IF "role" \in config THEN risPort.port ELSE None

ApplySet ==
  /\ idGroup # None
  /\ \E p \in AllocateRoleScopedPortAnnotations("role" \in template) : risPort' = [port |-> p]
  /\ risPort' # risPort
  /\ UNCHANGED <<sched, template, idGroup, inst, instSeen, idPods, bindings, toEvict, granted,
                 hosted, idBudget>>

NewInstance ==
  /\ inst = None /\ idGroup # None /\ risPort # None
  /\ \E u \in InstUids : granted[u] = None
  /\ \E ports \in AllocatePodScopedPorts("pod" \in template),
        u \in {CHOOSE u \in InstUids : granted[u] = None} :
       /\ inst' = [uid |-> u, group |-> idGroup, config |-> template, ports |-> ports,
                   rolePort |-> RoleScopedPort(template)]
       /\ granted' = [granted EXCEPT ![u] = ports]
  /\ UNCHANGED <<sched, template, idGroup, risPort, instSeen, idPods, bindings, toEvict, hosted,
                 idBudget>>

\* Mutant: an update that draws the ports again.
UpdateRedraws ==
  /\ inst # None /\ inst.config # template
  /\ \E ports \in AllocatePodScopedPorts("pod" \in template) :
       inst' = [inst EXCEPT !.config = template, !.ports = ports]
  /\ UNCHANGED <<sched, template, idGroup, risPort, instSeen, idPods, bindings, toEvict, granted,
                 hosted, idBudget>>
\* An in-place update of the instance takes the template and leaves the ports.
UpdateInstance ==
  /\ inst # None /\ inst.config # template
  /\ inst' = [inst EXCEPT !.config = template]
  /\ UNCHANGED <<sched, template, idGroup, risPort, instSeen, idPods, bindings, toEvict, granted,
                 hosted, idBudget>>

\* Are the ports there that InjectPortsIntoPod looks up?
HasPorts(i, s) ==
  ("pod" \in i.config => i.ports[s] # None) /\ ("role" \in i.config => i.rolePort # None)

-----------------------------------------------------------------------------
(***************************************************************************)
(* In-place scheduling.                                                    *)
(***************************************************************************)
BuildKey(s) == IF sched.granularity = "Pod" THEN s ELSE ComponentKey

\* Mutants.
FoldAsTerm(terms, nodes) == terms \cup {nodes}
FoldIntoRequired(terms, nodes) ==
  IF terms = {} THEN {nodes} ELSE {t \cap nodes : t \in terms}

Unavoided == Nodes \ sched.avoid
InjectInPlaceScheduling(bound) ==
  LET avoiding == IF sched.avoid = {} THEN sched.terms ELSE FoldIntoRequired(sched.terms, Unavoided)
  IN CASE sched.mode = "" -> sched.terms
       [] sched.mode = "Required" /\ bound # {} -> FoldIntoRequired(sched.terms, bound \cap Unavoided)
       [] OTHER -> avoiding
Schedulable(terms) == IF terms = {} THEN Nodes ELSE UNION terms

\* The pods whose node a pass records.
Recordable(i) == {s \in Slots : /\ idPods[s] # None /\ idPods[s].ready
                               /\ idPods[s].owner = i.uid}
RecordNodeBindings(i) ==
  [bindings EXCEPT ![i.group] =
     [k \in Keys |-> @[k] \cup {idPods[s].node : s \in {t \in Recordable(i) : BuildKey(t) = k}}]]

-----------------------------------------------------------------------------
\* A pass of the RoleInstance controller on the informer's copy: the nodes are
\* recorded, then the missing pods are created; a pod without its ports keeps
\* all of them from being created.
PassOfInstance ==
  /\ instSeen # None
  /\ \E store \in {RecordNodeBindings(instSeen)},
        missing \in {{s \in Slots : idPods[s] = None}} :
       /\ bindings' = store
       /\ idPods' = [s \in Slots |->
            IF s \in missing /\ \A t \in missing : HasPorts(instSeen, t)
            THEN [owner |-> instSeen.uid, group |-> instSeen.group, port |-> instSeen.ports[s],
                  terms |-> InjectInPlaceScheduling(store[instSeen.group][BuildKey(s)]),
                  pinned |-> sched.mode = "Required" /\ store[instSeen.group][BuildKey(s)] # {},
                  node |-> None, ready |-> FALSE]
            ELSE idPods[s]]
  /\ <<bindings, idPods>>' # <<bindings, idPods>>
  /\ UNCHANGED <<sched, template, idGroup, risPort, inst, instSeen, toEvict, granted, hosted,
                 idBudget>>

DeliverInst ==
  /\ instSeen # inst /\ instSeen' = inst
  /\ UNCHANGED <<sched, template, idGroup, risPort, inst, idPods, bindings, toEvict, granted,
                 hosted, idBudget>>

\* The deletion event of a group empties its bindings.
EvictByUID(g) ==
  /\ g \in toEvict /\ toEvict' = toEvict \ {g}
  /\ bindings' = [bindings EXCEPT ![g] = [k \in Keys |-> {}]]
  /\ UNCHANGED <<sched, template, idGroup, risPort, inst, instSeen, idPods, granted, hosted, idBudget>>

-----------------------------------------------------------------------------
(***************************************************************************)
(* The scheduler, the kubelet, the garbage collector and users.            *)
(***************************************************************************)
OnlyPod(s, p) ==
  /\ idPods' = [idPods EXCEPT ![s] = p]
  /\ UNCHANGED <<sched, template, idGroup, risPort, inst, instSeen, bindings, toEvict, granted>>

Schedule(s) ==
  /\ idPods[s] # None /\ idPods[s].node = None
  /\ \E n \in Schedulable(idPods[s].terms) : OnlyPod(s, [idPods[s] EXCEPT !.node = n])
  /\ UNCHANGED <<hosted, idBudget>>
BecomeReadyPod(s) ==
  /\ idPods[s] # None /\ idPods[s].node # None /\ ~idPods[s].ready
  /\ OnlyPod(s, [idPods[s] EXCEPT !.ready = TRUE])
  /\ hosted' = [hosted EXCEPT ![idPods[s].group] = @ \cup {idPods[s].node}]
  /\ UNCHANGED idBudget
CollectPod(s) ==
  /\ idPods[s] # None /\ (inst # None => inst.uid # idPods[s].owner)
  /\ OnlyPod(s, None) /\ UNCHANGED <<hosted, idBudget>>
CollectOwned ==
  /\ idGroup = None
  /\ \/ /\ inst # None /\ inst' = None /\ UNCHANGED risPort
     \/ /\ risPort # None /\ risPort' = None /\ UNCHANGED inst
  /\ UNCHANGED <<sched, template, idGroup, instSeen, idPods, bindings, toEvict, granted, hosted, idBudget>>

SpendOnId == idBudget > 0 /\ idBudget' = idBudget - 1
KillPod(s) == SpendOnId /\ idPods[s] # None /\ OnlyPod(s, None) /\ UNCHANGED hosted
DeleteInstance ==
  /\ SpendOnId /\ inst # None /\ inst' = None
  /\ UNCHANGED <<sched, template, idGroup, risPort, instSeen, idPods, bindings, toEvict, granted, hosted>>
ChangeTemplate ==
  /\ SpendOnId /\ idGroup # None /\ \E t \in sched.templates \ {template} : template' = t
  /\ UNCHANGED <<sched, idGroup, risPort, inst, instSeen, idPods, bindings, toEvict, granted, hosted>>
DeleteGroup ==
  /\ SpendOnId /\ idGroup # None /\ idGroup' = None
  /\ toEvict' = toEvict \cup {idGroup}
  /\ UNCHANGED <<sched, template, risPort, inst, instSeen, idPods, bindings, granted, hosted>>
\* Everything of the group that was deleted is gone.
CreateGroup ==
  /\ idGroup = None /\ inst = None /\ risPort = None
  /\ \E g \in GroupUids : hosted[g] = {} /\ g \notin toEvict /\ idGroup' = g
  /\ UNCHANGED <<sched, template, risPort, inst, instSeen, idPods, bindings, toEvict, granted, hosted,
                 idBudget>>
\* The store lives in memory.
RestartManager ==
  /\ SpendOnId
  /\ bindings' = [g \in GroupUids |-> [k \in Keys |-> {}]] /\ toEvict' = {}
  /\ UNCHANGED <<sched, template, idGroup, risPort, inst, instSeen, idPods, granted, hosted>>

-----------------------------------------------------------------------------
IdInit ==
  /\ sched \in Schedulings /\ template \in sched.templates
  /\ idGroup = CHOOSE g \in GroupUids : TRUE
  /\ risPort = None /\ inst = None /\ instSeen = None
  /\ idPods = [s \in Slots |-> None]
  /\ bindings = [g \in GroupUids |-> [k \in Keys |-> {}]] /\ toEvict = {}
  /\ granted = [u \in InstUids |-> None] /\ hosted = [g \in GroupUids |-> {}]
  /\ idBudget = sched.budget

IdControllers == ApplySet \/ NewInstance \/ UpdateInstance \/ PassOfInstance
IdDeliveries == DeliverInst \/ \E g \in GroupUids : EvictByUID(g)
IdWorld == CollectOwned \/ \E s \in Slots : Schedule(s) \/ BecomeReadyPod(s) \/ CollectPod(s)
IdNext ==
  \/ IdControllers \/ IdDeliveries \/ IdWorld
  \/ (\E s \in Slots : KillPod(s)) \/ DeleteInstance \/ ChangeTemplate \/ DeleteGroup \/ CreateGroup
  \/ RestartManager
IdSpec == IdInit /\ [][IdNext]_idVars
\* Controllers, informers, scheduler, kubelet and collector go on.
IdFairness ==
  /\ WF_idVars(ApplySet) /\ WF_idVars(NewInstance) /\ WF_idVars(UpdateInstance)
  /\ WF_idVars(PassOfInstance) /\ WF_idVars(DeliverInst) /\ WF_idVars(IdWorld)

-----------------------------------------------------------------------------
\* A pod that is pinned to nodes (Required mode) only runs on a node that has
\* hosted a ready pod of the same group, and is not to be avoided, whatever
\* affinity the template has (foldIntoRequired), and never on the nodes of an
\* earlier group of the same name.
PinnedToHosts ==
  \A s \in Slots :
    IF idPods[s] = None THEN TRUE
    ELSE idPods[s].pinned => idPods[s].node \in {None} \cup (hosted[idPods[s].group] \ sched.avoid)

\* The ports of pods are leases: an incarnation of the instance is granted its
\* ports once, and its pods run on them however often they are created again.
Leases == INSTANCE PortLease WITH
  Incarnations <- InstUids, Nobody <- None, lease <- granted,
  held <- [s \in Slots |-> IF idPods[s] = None THEN None
                           ELSE [by |-> idPods[s].owner, port |-> idPods[s].port]]
PortsAreLeases == Leases!LeaseSpec

\* A port allocation that was added later has no port.
Blocked == inst # None /\ \E s \in Slots : ~HasPorts(inst, s)
\* When changes and failures end, every pod of the group comes up: the nodes it
\* is pinned to, the ones it avoids and its template's affinity never leave it
\* without a node, and its ports are there, unless the template asked for them
\* only after the instance was made.
PodsComeUp ==
  <>[](idGroup # None => Blocked \/ \A s \in Slots : idPods[s] # None /\ idPods[s].ready)
=============================================================================
