---------------------------- MODULE ScalingAdapter ----------------------------
(***************************************************************************)
(* The RoleBasedGroupScalingAdapter controller.  It binds the adapter of a *)
(* role to it, taking over the role's replicas, and then writes what the   *)
(* autoscaler asks of the adapter to the group's spec.  It reads the       *)
(* adapter from the informer's copy.  A change of the group's spec does    *)
(* not wake it, a change of the role statuses does.                        *)
(***************************************************************************)
EXTENDS RoleBasedGroup

Managed(r) == ContainsRBGOwner(acache[r], group)
Served(r) == adirty' = adirty \ {r}
Again == adirty' = adirty

\* Nothing to do: no adapter, or one that this group does not own.
SkipAdapter(r) ==
  /\ ~Managed(r)
  /\ Served(r) /\ UNCHANGED <<adapter, ids, group, dirty>>

\* The role is gone from the group; looked at again in 10 s.
UnbindAdapter(r) ==
  /\ Managed(r) /\ r \notin group.roles /\ acache[r].phase # "NotBound"
  /\ adapter' = IF adapter[r].owner = Absent THEN adapter ELSE [adapter EXCEPT ![r].phase = "NotBound"]
  /\ Again /\ UNCHANGED <<ids, group, dirty>>

\* The replicas of the role become the adapter's, in one write, and the phase
\* in another, which needs the workload's selector.  An apply creates the
\* adapter if it is gone, with no owner.
BindAdapter(r) ==
  /\ Managed(r) /\ r \in group.roles /\ acache[r].phase # "Bound"
  /\ \E found \in {wl[r].owner # Absent} :
       IF adapter[r].owner = Absent
       THEN /\ adapter' = [adapter EXCEPT ![r] = [owner |-> Orphan, id |-> ids + 1, replicas |-> group.replicas[r],
                                                  phase |-> IF found THEN "Bound" ELSE ""]]
            /\ ids' = ids + 1
       ELSE /\ adapter' = [adapter EXCEPT ![r].replicas = group.replicas[r],
                                          ![r].phase = IF found THEN "Bound" ELSE @]
            /\ ids' = ids
  /\ Again /\ UNCHANGED <<group, dirty>>

\* updateRoleReplicas: on a conflict the group is read again, so the write
\* lands on its latest version.
ScaleRole(r) ==
  /\ Managed(r) /\ r \in group.roles /\ acache[r].phase = "Bound"
  /\ IF acache[r].replicas \in {None, group.replicas[r]} THEN UNCHANGED <<group, dirty>>
     ELSE group' = [group EXCEPT !.replicas[r] = acache[r].replicas] /\ dirty' = TRUE
  /\ Served(r) /\ UNCHANGED <<adapter, ids>>

AdapterPass(r) ==
  /\ r \in adirty
  /\ SkipAdapter(r) \/ UnbindAdapter(r) \/ BindAdapter(r) \/ ScaleRole(r)
  /\ UNCHANGED <<conf, st, revs, wl, inst, pg, acache, pass, events>>

\* Mutant: only a new adapter wakes anybody.
AdapterEventOfCreation(r) == acache[r].id # adapter[r].id

\* The informer catches up.  RBGScalingAdapterPredicate: the creation, the
\* deletion and a change of the spec wake both controllers, the group's through
\* the owner; a change of the status wakes nobody.
AdapterEvent(r) ==
  acache[r].id # adapter[r].id \/ acache[r].replicas # adapter[r].replicas \/ acache[r].owner # adapter[r].owner
CatchUp(r) ==
  /\ acache[r] # adapter[r]
  /\ acache' = [acache EXCEPT ![r] = adapter[r]]
  /\ IF AdapterEvent(r)
     THEN /\ adirty' = adirty \cup {r}
          /\ dirty' = (dirty \/ {acache[r].owner, adapter[r].owner} \cap (Nat \ {Absent}) # {})
     ELSE UNCHANGED <<adirty, dirty>>
  /\ UNCHANGED <<conf, group, st, revs, wl, inst, pg, adapter, ids, pass, events>>
===============================================================================
