----------------------------- MODULE ApiVersions -----------------------------
(***************************************************************************)
(* A RoleBasedGroup that is stored as v1alpha2 and written by clients of   *)
(* both versions: conversion, defaulting and validation on every write,    *)
(* and the CoordinatedPolicy the controller makes from the coordination    *)
(* that only v1alpha1 knows.  Annotations carry what the other version has *)
(* no field for.                                                           *)
(*                                                                         *)
(* One role.  Values of fields are their names; None is an absent field.   *)
(***************************************************************************)
EXTENDS Optional, Integers

CONSTANTS Coordinations,
          RoleSizes,          \* replicas a role may ask for
          Partitions,
          StoredBefore,       \* objects stored by earlier releases
          ApiBudget           \* writes by clients
VARIABLES compat,       \* rigid: --enable-deprecated-workload-types
          stored,       \* the object at the API server
          policy,       \* coordination of the CoordinatedPolicy, if there is one
          apiBudget
apiVars == <<compat, stored, policy, apiBudget>>

Deprecated == {"Deployment", "StatefulSet", "LeaderWorkerSet"}
WorkloadTypes == Deprecated \cup {"RoleInstanceSet"}
RolePatterns == {"standalone", "leaderWorker", "components"}
Restarts == {"", "None", "Recreate"}
LegacyUpdates == {"", "Recreate"}
Updates == {"RecreatePod", "InPlaceIfPossible", "InPlaceOnly"}
Sources == {"inline", "ref", "patchedRef"}

\* note: the workload type annotation of the role; restartV07: the restart
\* policy as release 0.7 stored it, restart the type of the configuration that
\* replaced it; extras: what a role can only say in v1alpha2, such as the delays
\* between restarts, the order of components or the pod management policy;
\* update: the type of the rolling update, if there is one, partition its
\* partition, moves whether its surge or its unavailability is above 0; deps: are
\* the dependencies other roles of the group, without a cycle; scaled: has it a
\* scaling adapter; podGroup and coordination: the preserved fields of v1alpha1;
\* gang and exclusive: the annotations the controller reads, exclusiveV1 the one
\* v1alpha1 clients set.
Hub == [note : WorkloadTypes \cup {None}, pattern : RolePatterns,
        restart : Restarts \cup {None}, restartV07 : Restarts, extras : BOOLEAN,
        update : Updates \cup LegacyUpdates \cup {None}, source : Sources,
        partition : Partitions, moves : BOOLEAN, deps : BOOLEAN,
        replicas : RoleSizes, scaled : BOOLEAN,
        podGroup : BOOLEAN, gang : BOOLEAN, coordination : Coordinations \cup {None},
        exclusiveV1 : BOOLEAN, exclusive : BOOLEAN]
\* Objects as v1alpha1 reads them; its clients set none of the annotations that
\* the controller reads.
Spoke == [workload : WorkloadTypes, pattern : RolePatterns, restart : Restarts,
          update : {"InPlaceIfPossible", "InPlaceOnly", None} \cup LegacyUpdates, source : Sources,
          partition : Partitions, moves : BOOLEAN, deps : BOOLEAN,
          replicas : RoleSizes, scaled : BOOLEAN,
          podGroup : BOOLEAN, coordination : Coordinations \cup {None}, exclusiveV1 : BOOLEAN]
ASSUME ApiAssumption ==
  /\ StoredBefore \subseteq Hub /\ ApiBudget \in Nat
  /\ RoleSizes \subseteq Nat /\ Partitions \subseteq Nat /\ 0 \in Partitions
  /\ None \notin WorkloadTypes \cup Restarts \cup LegacyUpdates \cup Updates
ApiTypeOK ==
  /\ compat \in BOOLEAN /\ stored \in Hub /\ policy \in Coordinations \cup {None}
  /\ apiBudget \in 0 .. ApiBudget

-----------------------------------------------------------------------------
(***************************************************************************)
(* Conversion and defaulting.                                              *)
(***************************************************************************)
\* A record with the fields of two.
Joined(f, g) == [k \in DOMAIN f \cup DOMAIN g |-> IF k \in DOMAIN f THEN f[k] ELSE g[k]]
GetWorkloadType(h) == IF h.note = None THEN "RoleInstanceSet" ELSE h.note

ConvertUpdateToHub(u) == IF u = "Recreate" THEN "RecreatePod" ELSE u
ConvertUpdateFromHub(u) == IF u = "RecreatePod" THEN "Recreate" ELSE u
\* A role without a rollout strategy stays without.
ConvertRolloutToHub(u) == IF u = None THEN None ELSE ConvertUpdateToHub(u)
ConvertRolloutFromHub(u) == IF u = None THEN None ELSE ConvertUpdateFromHub(u)

\* The v1alpha1 schema fills in the workload, so there always is a note, and a
\* restart policy is always written in its new place.
ConvertRoleToHub(x) ==
  [note |-> x.workload, pattern |-> x.pattern, restartV07 |-> "",
   restart |-> IF x.pattern = "standalone" THEN None ELSE x.restart, extras |-> FALSE,
   update |-> ConvertRolloutToHub(x.update), partition |-> x.partition, moves |-> x.moves,
   source |-> x.source, deps |-> x.deps, replicas |-> x.replicas, scaled |-> x.scaled]
\* What v1alpha2 has no field for, kept, and translated for the controller.
PreserveV1alpha1Fields(x) ==
  [podGroup |-> x.podGroup, gang |-> x.podGroup, coordination |-> x.coordination,
   exclusiveV1 |-> x.exclusiveV1, exclusive |-> x.exclusiveV1]
ConvertTo(x) == Joined(ConvertRoleToHub(x), PreserveV1alpha1Fields(x))

\* The type in its new place, or in its old one, without the pattern's default.
GetRawRestartPolicyType(h) ==
  IF h.pattern = "standalone" THEN ""
  ELSE IF h.restart \notin {None, ""} THEN h.restart ELSE h.restartV07
ConvertRoleFromHub(h) ==
  [workload |-> GetWorkloadType(h), pattern |-> h.pattern, restart |-> GetRawRestartPolicyType(h),
   update |-> ConvertRolloutFromHub(h.update), partition |-> h.partition, moves |-> h.moves,
   source |-> h.source, deps |-> h.deps, replicas |-> h.replicas, scaled |-> h.scaled]
\* Mutant: the preserved pod group policy is not restored.
RestoreCoordination(h) ==
  [podGroup |-> FALSE, coordination |-> h.coordination, exclusiveV1 |-> h.exclusiveV1]
\* The annotations the controller reads are taken off, whoever set them.
RestoreV1alpha1Fields(h) ==
  [podGroup |-> h.podGroup, coordination |-> h.coordination, exclusiveV1 |-> h.exclusiveV1]
ConvertFrom(h) == Joined(ConvertRoleFromHub(h), RestoreV1alpha1Fields(h))

NormalizeUpdateStrategyType(u) ==
  CASE u = "" -> "InPlaceIfPossible" [] u = "Recreate" -> "RecreatePod" [] OTHER -> u
Default(h) == [h EXCEPT !.update = NormalizeUpdateStrategyType(@)]

\* The API server (external) converts a v1alpha1 write for the v1alpha2
\* webhooks, and back if they changed it.
AsStored(x) ==
  LET h == ConvertTo(x) IN IF Default(h) = h THEN h ELSE ConvertTo(ConvertFrom(Default(h)))

-----------------------------------------------------------------------------
(***************************************************************************)
(* Validation of an update.                                                *)
(***************************************************************************)
SchemaAllows(h) == h.update \in Updates \cup {None}
\* A LeaderWorkerSet takes no template by reference: the schema of v1alpha1 says
\* so, in v1alpha2 only the controller, which does nothing for such a group.  The
\* schema of v1alpha1 also asks for a template of the role's own, which a role of
\* components is never read with.
V1SchemaAllows(x) ==
  /\ x.source # "inline" => x.workload # "LeaderWorkerSet"
  /\ x.pattern # "components"
PreCheck(h) == h.source # "inline" => GetWorkloadType(h) # "LeaderWorkerSet"

RollingUpdateFits(h) == h.update # None /\ h.replicas # 0 => h.moves /\ h.partition < h.replicas
RoleDependenciesFit(h) == h.deps
\* adapter: what the webhook's cache shows of the adapter's replicas, if it has
\* the adapter.
ScalingAdapterReplicasFit(new, old, adapter) ==
  new.scaled /\ new.replicas # old.replicas => adapter \in {None, new.replicas}
NoNewDeprecatedWorkloadTypes(new, old) ==
  GetWorkloadType(new) \in Deprecated => compat /\ GetWorkloadType(new) = GetWorkloadType(old)
V1alpha1DeprecatedRoles(new, old) ==
  new.workload \in Deprecated => compat /\ new.workload = old.workload

ValidateUpdate(new, old, adapter) ==
  /\ RollingUpdateFits(new) /\ RoleDependenciesFit(new)
  /\ ScalingAdapterReplicasFit(new, old, adapter) /\ NoNewDeprecatedWorkloadTypes(new, old)
\* The webhook of v1alpha1, then those of v1alpha2 on the converted object.
AcceptsV1(x, adapter) ==
  /\ V1SchemaAllows(x) /\ V1alpha1DeprecatedRoles(x, ConvertFrom(stored))
  /\ SchemaAllows(AsStored(x)) /\ ValidateUpdate(AsStored(x), stored, adapter)
AcceptsV2(h, adapter) == SchemaAllows(Default(h)) /\ ValidateUpdate(Default(h), stored, adapter)

-----------------------------------------------------------------------------
(***************************************************************************)
(* Clients that change what they read, and the controller.                 *)
(***************************************************************************)
Adapters == RoleSizes \cup {None}
Writes1(x) == (\E a \in Adapters : AcceptsV1(x, a)) /\ stored' = AsStored(x)
WriteV1 ==
  /\ apiBudget > 0 /\ apiBudget' = apiBudget - 1
  /\ \E x \in {ConvertFrom(stored)} :
       \/ \E w \in WorkloadTypes : Writes1([x EXCEPT !.workload = w])
       \/ \E r \in Restarts : Writes1([x EXCEPT !.restart = r])
       \/ \E u \in {None, "", "Recreate", "InPlaceIfPossible", "InPlaceOnly"} :
            Writes1([x EXCEPT !.update = u])
       \/ \E s \in Sources : Writes1([x EXCEPT !.source = s])
       \/ \E n \in RoleSizes, p \in Partitions : Writes1([x EXCEPT !.replicas = n, !.partition = p])
       \/ Writes1([x EXCEPT !.moves = TRUE, !.deps = TRUE])
       \/ Writes1([x EXCEPT !.podGroup = ~@])
       \/ \E c \in Coordinations \cup {None} : Writes1([x EXCEPT !.coordination = c])
       \/ Writes1([x EXCEPT !.exclusiveV1 = ~@])
  /\ UNCHANGED <<compat, policy>>

Writes2(h) == (\E a \in Adapters : AcceptsV2(h, a)) /\ stored' = Default(h)
WriteV2 ==
  /\ apiBudget > 0 /\ apiBudget' = apiBudget - 1
  /\ \/ \E w \in WorkloadTypes \cup {None} : Writes2([stored EXCEPT !.note = w])
     \/ /\ stored.pattern # "standalone"
        /\ \E r \in Restarts \cup {None} : Writes2([stored EXCEPT !.restart = r])
     \/ Writes2([stored EXCEPT !.extras = ~@])
     \/ \E u \in Updates \cup LegacyUpdates \cup {None} : Writes2([stored EXCEPT !.update = u])
     \/ /\ stored.pattern # "components"
        /\ \E s \in Sources : Writes2([stored EXCEPT !.source = s])
     \/ \E n \in RoleSizes, p \in Partitions :
          Writes2([stored EXCEPT !.replicas = n, !.partition = p])
     \/ Writes2([stored EXCEPT !.moves = TRUE, !.deps = TRUE])
     \/ Writes2([stored EXCEPT !.gang = ~@])
     \/ Writes2([stored EXCEPT !.exclusive = ~@])
  /\ UNCHANGED <<compat, policy>>

\* Nothing is done, and nothing deleted, without the annotation.
EnsureV1alpha1CoordinatedPolicy ==
  /\ PreCheck(stored) /\ stored.coordination # None /\ policy # stored.coordination
  /\ policy' = stored.coordination
  /\ UNCHANGED <<compat, stored, apiBudget>>

ApiInit ==
  /\ compat \in BOOLEAN /\ stored \in StoredBefore
  /\ policy = None /\ apiBudget = ApiBudget
ApiNext == WriteV1 \/ WriteV2 \/ EnsureV1alpha1CoordinatedPolicy
ApiSpec == ApiInit /\ [][ApiNext]_apiVars
\* The controller's work queue goes on.
ApiFairness == WF_apiVars(EnsureV1alpha1CoordinatedPolicy)

-----------------------------------------------------------------------------
\* What is stored after an edit of the metadata only through v1alpha1, such as
\* the first kubectl edit after an upgrade.
Edited(h) == AsStored(ConvertFrom(h))
\* Spellings that v1alpha1 cannot read back: no note, no or an old restart
\* policy, a legacy update strategy.
Respelled(h) ==
  {f \in {"note"} : h.note = None}
    \cup {f \in {"restart"} : (h.restart = None) # (h.pattern = "standalone")}
    \cup {f \in {"restart", "restartV07"} : h.restartV07 # ""}
    \cup {f \in {"update"} : h.update \in LegacyUpdates}
\* What v1alpha2 clients said that v1alpha1 cannot say.
OnlyInV2(h) ==
  {f \in {"extras"} : h.extras} \cup {f \in {"gang"} : h.gang # h.podGroup}
    \cup {f \in {"exclusive"} : h.exclusive # h.exclusiveV1}
\* What the respelled fields mean to the controllers.
Meaning(h) ==
  [type |-> GetWorkloadType(h), update |-> NormalizeUpdateStrategyType(h.update),
   restart |-> IF h.pattern = "standalone" THEN "None"
               ELSE IF GetRawRestartPolicyType(h) = "" THEN "Recreate" ELSE GetRawRestartPolicyType(h)]

\* The edit rewrites no other field of the stored role, all of which the
\* controller hashes, than those two sets name; the respelled ones keep their
\* meaning; and a second edit rewrites nothing at all.
V1EditKeeps ==
  /\ \A f \in DOMAIN stored :
       f \in Respelled(stored) \cup OnlyInV2(stored) \/ Edited(stored)[f] = stored[f]
  /\ Meaning(Edited(stored)) = Meaning(stored)
  /\ Edited(Edited(stored)) = Edited(stored)

\* Every object stays writable through both versions, legacy values or not,
\* whatever the adapter says, unless its own content is refused: dependencies or
\* rollouts stored before they were checked, a workload type that was switched
\* off, and through v1alpha1 what its schema refuses.
StaysWritable ==
  RollingUpdateFits(stored) /\ RoleDependenciesFit(stored)
      /\ (compat \/ GetWorkloadType(stored) \notin Deprecated) =>
    \A a \in Adapters :
      /\ AcceptsV2(stored, a)
      /\ stored.pattern # "components" /\ PreCheck(stored) => AcceptsV1(ConvertFrom(stored), a)

\* And one write mends it, whatever is stored.
StaysMendable ==
  \A a \in Adapters :
    /\ AcceptsV2([stored EXCEPT !.note = None, !.partition = 0, !.moves = TRUE, !.deps = TRUE], a)
    /\ stored.pattern # "components" =>
         AcceptsV1([ConvertFrom(stored) EXCEPT !.workload = "RoleInstanceSet",
                      !.partition = 0, !.moves = TRUE, !.deps = TRUE], a)

\* An edit through v1alpha1 keeps what is stored of a group, field by field, but
\* for what v1alpha1 cannot say, and what is stored stays writable and mendable
\* through both versions, whatever their clients wrote before.
StoredViewsAgree == V1EditKeeps /\ StaysWritable /\ StaysMendable

\* When the writes end, the policy says what the coordination asks for.
PolicyFollows ==
  <>[](PreCheck(stored) /\ stored.coordination # None => policy = stored.coordination)
=============================================================================
