---------------------------- MODULE PlatformProofs ----------------------------
(***************************************************************************)
(* Theorems about components around the controllers of groups and          *)
(* instances, for every value of their constants: the dispatch of a        *)
(* RoleInstanceSet between its two modes never makes two stateless         *)
(* instances of one set; replicas of the manager that serve do so          *)
(* under one authority; a role that changes its kind of workload is served *)
(* by the old one until the new one is ready, and no workload of another   *)
(* incarnation of the group is taken over; a pinned pod only runs where    *)
(* its group has run; and the ports of pods are leases (the refinement of  *)
(* PortLease).                                                             *)
(***************************************************************************)
EXTENDS PatternDispatch, WebhookCerts, WorkloadKinds, PodIdentity, TLAPS, FiniteSetTheorems

(***************************************************************************)
(* PatternDispatch.                                                        *)
(***************************************************************************)
\* What the informer has not heard of an instance is still expected: the event
\* that ends the expectation is the one that shows the instance.
Anticipated ==
  \A n \in RandomNames : insts[n] # None => instsSeen[n] = insts[n] \/ n \in expected.create

\* NoDuplicates in terms of names.
OneName == \A m, n \in RandomNames : insts[m] # None /\ insts[m] = insts[n] => m = n

DispatchInv == DispatchTypeOK /\ Anticipated /\ OneName

LEMMA DispatchTypeStep ==
  ASSUME DispatchTypeOK, DispatchNext
  PROVE  DispatchTypeOK'
<1> USE DispatchAssumption DEF DispatchTypeOK
<1>1. ASSUME NEW is \in [Names -> DispatchUids \cup {None}], Writes(is)
      PROVE  /\ insts' \in [Names -> DispatchUids \cup {None}]
             /\ instsUnseen' \subseteq Names \cup {None}
  BY <1>1 DEF Writes
<1>2. CASE SkipRIS
  BY <1>2 DEF SkipRIS
<1>3. CASE CleanupStaleInstances
  BY <1>1, <1>3 DEF CleanupStaleInstances
<1>4. CASE StatelessWait
  BY <1>4 DEF StatelessWait
<1>5. CASE StatelessMode
  <2>1. risSeen \in RoleInstanceSet /\ risSeen.uid \in DispatchUids
    BY <1>5 DEF StatelessMode, IsStatelessPattern, RoleInstanceSet
  <2>2. ASSUME NEW n \in RandomNames, NEW u \in DispatchUids \cup {None}
        PROVE  [insts EXCEPT ![n] = u] \in [Names -> DispatchUids \cup {None}]
    BY DEF Names
  <2>3. ASSUME NEW n \in RandomNames
        PROVE  /\ [expected EXCEPT !.create = @ \cup {n}] \in [create : SUBSET RandomNames, delete : SUBSET RandomNames]
               /\ [expected EXCEPT !.delete = @ \cup {n}] \in [create : SUBSET RandomNames, delete : SUBSET RandomNames]
    OBVIOUS
  <2>4. Owned \subseteq RandomNames
    BY <1>5 DEF StatelessMode, StaleOfPattern, InstanceBelongsToPattern, IsStatelessPattern, Owned
  <2>5. UNCHANGED <<ris, risSeen, instsSeen, dispatchBudget>> /\ risQueued' = FALSE
    BY <1>5 DEF StatelessMode
  <2>6. /\ insts' \in [Names -> DispatchUids \cup {None}] /\ instsUnseen' \subseteq Names \cup {None}
        /\ expected' \in [create : SUBSET RandomNames, delete : SUBSET RandomNames]
    <3>1. CASE UNCHANGED <<insts, instsUnseen, expected>>
      BY <3>1
    <3>2. ASSUME NEW n \in RandomNames, Writes([insts EXCEPT ![n] = risSeen.uid]),
                 expected' = [expected EXCEPT !.create = @ \cup {n}]
          PROVE  /\ insts' \in [Names -> DispatchUids \cup {None}] /\ instsUnseen' \subseteq Names \cup {None}
                 /\ expected' \in [create : SUBSET RandomNames, delete : SUBSET RandomNames]
      BY <1>1, <2>1, <2>2, <2>3, <3>2
    <3>3. ASSUME NEW n \in RandomNames, Writes([insts EXCEPT ![n] = None]),
                 expected' = [expected EXCEPT !.delete = @ \cup {n}]
          PROVE  /\ insts' \in [Names -> DispatchUids \cup {None}] /\ instsUnseen' \subseteq Names \cup {None}
                 /\ expected' \in [create : SUBSET RandomNames, delete : SUBSET RandomNames]
      BY <1>1, <2>2, <2>3, <3>3
    <3> QED BY <1>5, <2>4, <3>1, <3>2, <3>3 DEF StatelessMode
  <2> QED BY <2>5, <2>6
<1>6. CASE StatefulMode
  <2>1. risSeen.uid \in DispatchUids BY <1>6 DEF StatefulMode, RoleInstanceSet
  <2>2. \A u \in DispatchUids \cup {None} : [insts EXCEPT ![Ordinal] = u] \in [Names -> DispatchUids \cup {None}]
    BY DEF Names
  <2>3. insts' \in [Names -> DispatchUids \cup {None}] /\ instsUnseen' \subseteq Names \cup {None}
    BY <1>1, <1>6, <2>1, <2>2 DEF StatefulMode
  <2> QED BY <1>6, <2>3 DEF StatefulMode
<1>7. CASE DeliverRIS
  BY <1>7 DEF DeliverRIS
<1>8. ASSUME NEW n \in Names, DeliverInstance(n) PROVE DispatchTypeOK'
  BY <1>8 DEF DeliverInstance, ObserveScale
<1>9. ASSUME NEW n \in Names, CollectInstance(n) PROVE DispatchTypeOK'
  BY <1>1, <1>9 DEF CollectInstance
<1>10. ASSUME NEW new \in RoleInstanceSet \cup {None}, ChangeRIS(new) PROVE DispatchTypeOK'
  BY <1>10 DEF ChangeRIS
<1>11. CASE Flip \/ Scale \/ DeleteRIS
  <2>1. ris # None => /\ \A p \in Patterns : [ris EXCEPT !.pattern = p] \in RoleInstanceSet
                      /\ [ris EXCEPT !.replicas = 1 - @] \in RoleInstanceSet
    BY DEF RoleInstanceSet
  <2>2. CASE Flip
    BY <1>10, <2>1, <2>2 DEF Flip
  <2>3. CASE Scale
    BY <1>10, <2>1, <2>3 DEF Scale
  <2>4. CASE DeleteRIS
    BY <1>10, <2>4 DEF DeleteRIS
  <2> QED BY <1>11, <2>2, <2>3, <2>4
<1>12. CASE CreateRIS
  <2>1. (CHOOSE u \in DispatchUids : u \notin UidsTaken) \in DispatchUids
    BY <1>12 DEF CreateRIS
  <2>2. \A p \in Patterns :
          [uid |-> CHOOSE u \in DispatchUids : u \notin UidsTaken, pattern |-> p, replicas |-> 1] \in RoleInstanceSet
    BY <2>1 DEF RoleInstanceSet
  <2> QED BY <1>10, <1>12, <2>2 DEF CreateRIS
<1> QED BY <1>2, <1>3, <1>4, <1>5, <1>6, <1>7, <1>8, <1>9, <1>11, <1>12, DispatchNext
        DEF DispatchNext, DispatchPass

\* The stateless mode creates an instance only if the set has none.
LEMMA CreatesTheOnly ==
  ASSUME DispatchTypeOK, Anticipated, StatelessMode, Cardinality(Owned) < risSeen.replicas
  PROVE  \A n \in RandomNames : insts[n] # None => insts[n] # risSeen.uid
<1>1. risSeen.replicas \in {0, 1}
  BY DEF StatelessMode, IsStatelessPattern, DispatchTypeOK, RoleInstanceSet
<1>2. IsFiniteSet(Names) BY DispatchAssumption, FS_AddElement DEF Names
<1>3. IsFiniteSet(Owned) BY <1>2, FS_Subset DEF Owned
<1>4. Cardinality(Owned) = 0 BY <1>1, <1>3, FS_CardinalityType
<1>5. Owned = {} BY <1>3, <1>4, FS_EmptySet
<1>6. expected.create = {} BY DEF StatelessMode, Unsatisfied
<1> QED BY <1>5, <1>6 DEF Anticipated, Owned, Names

LEMMA DispatchStep ==
  ASSUME DispatchTypeOK, Anticipated, OneName, DispatchNext
  PROVE  Anticipated' /\ OneName'
<1> USE DispatchAssumption
\* Deletions, and what happens to the ordinal, threaten neither.
<1>1. ASSUME NEW is, Writes(is), UNCHANGED <<instsSeen, expected>>,
             \A n \in RandomNames : is[n] \in {insts[n], None}
      PROVE  Anticipated' /\ OneName'
  BY <1>1 DEF Writes, Anticipated, OneName
<1>2. CASE UNCHANGED <<insts, instsSeen, expected>>
  BY <1>2 DEF Anticipated, OneName
<1>3. CASE CleanupStaleInstances
  BY <1>1, <1>3 DEF CleanupStaleInstances, Names
<1>4. CASE StatelessMode
  <2>1. UNCHANGED instsSeen BY <1>4 DEF StatelessMode
  <2>2. CASE UNCHANGED <<insts, expected>>
    BY <1>2, <2>1, <2>2
  <2>3. ASSUME NEW n \in RandomNames, Cardinality(Owned) < risSeen.replicas,
               Writes([insts EXCEPT ![n] = risSeen.uid]), expected' = [expected EXCEPT !.create = @ \cup {n}]
        PROVE  Anticipated' /\ OneName'
    <3>1. \A m \in RandomNames : insts[m] # None => insts[m] # risSeen.uid
      BY <1>4, <2>3, CreatesTheOnly
    <3>2. /\ insts'[n] = risSeen.uid
          /\ \A m \in RandomNames \ {n} : insts'[m] = insts[m]
      BY <2>3 DEF Writes, DispatchTypeOK, Names
    <3>3. expected'.create = expected.create \cup {n} BY <2>3 DEF DispatchTypeOK
    <3>4. Anticipated' BY <2>1, <3>2, <3>3 DEF Anticipated
    <3>5. OneName' BY <3>1, <3>2 DEF OneName
    <3> QED BY <3>4, <3>5
  <2>4. ASSUME NEW n \in Names, Writes([insts EXCEPT ![n] = None]), expected' = [expected EXCEPT !.delete = @ \cup {n}]
        PROVE  Anticipated' /\ OneName'
    <3>1. \A m \in RandomNames : insts'[m] \in {insts[m], None}
      BY <2>4 DEF Writes, DispatchTypeOK, Names
    <3>2. expected'.create = expected.create BY <2>4 DEF DispatchTypeOK
    <3> QED BY <2>1, <3>1, <3>2 DEF Anticipated, OneName
  <2> QED BY <1>4, <2>2, <2>3, <2>4 DEF StatelessMode, Owned
<1>5. CASE StatefulMode
  <2>1. UNCHANGED <<instsSeen, expected>> BY <1>5 DEF StatefulMode
  <2>2. \A u : \A n \in RandomNames : [insts EXCEPT ![Ordinal] = u][n] = insts[n]
    BY DEF DispatchTypeOK, Names
  <2>3. CASE UNCHANGED insts
    BY <1>2, <2>1, <2>3
  <2>4. ASSUME NEW u, Writes([insts EXCEPT ![Ordinal] = u]) PROVE Anticipated' /\ OneName'
    BY <1>1, <2>1, <2>2, <2>4
  <2>5. Writes(insts) => UNCHANGED insts BY DEF Writes
  <2> QED BY <1>5, <2>3, <2>4, <2>5 DEF StatefulMode
<1>6. ASSUME NEW n \in Names, DeliverInstance(n) PROVE Anticipated' /\ OneName'
  <2>1. /\ UNCHANGED insts /\ instsSeen'[n] = insts[n]
        /\ \A m \in Names \ {n} : instsSeen'[m] = instsSeen[m]
    BY <1>6 DEF DeliverInstance, DispatchTypeOK
  <2>2. \A m \in expected.create : m # n => m \in expected'.create
    BY <1>6 DEF DeliverInstance, ObserveScale, DispatchTypeOK
  <2> QED BY <2>1, <2>2 DEF Anticipated, OneName, Names
<1>7. ASSUME NEW n \in Names, CollectInstance(n) PROVE Anticipated' /\ OneName'
  <2>1. \A m \in RandomNames : [insts EXCEPT ![n] = None][m] \in {insts[m], None}
    BY DEF DispatchTypeOK, Names
  <2> QED BY <1>1, <1>7, <2>1 DEF CollectInstance
<1>8. CASE SkipRIS \/ StatelessWait \/ DeliverRIS \/ Flip \/ Scale \/ DeleteRIS \/ CreateRIS
  BY <1>2, <1>8 DEF SkipRIS, StatelessWait, DeliverRIS, Flip, Scale, DeleteRIS, CreateRIS, ChangeRIS
<1> QED BY <1>3, <1>4, <1>5, <1>6, <1>7, <1>8, DispatchNext DEF DispatchNext, DispatchPass

LEMMA DispatchInvariant == DispatchSpec => []DispatchInv
<1>1. DispatchInit => DispatchInv
  BY DispatchAssumption
     DEF DispatchInit, DispatchInv, DispatchTypeOK, Anticipated, OneName, RoleInstanceSet, Names
<1>2. DispatchInv /\ [DispatchNext]_dispatchVars => DispatchInv'
  <2>1. ASSUME DispatchInv, DispatchNext PROVE DispatchInv'
    BY <2>1, DispatchTypeStep, DispatchStep DEF DispatchInv
  <2>2. ASSUME DispatchInv, UNCHANGED dispatchVars PROVE DispatchInv'
    BY <2>2 DEF DispatchInv, DispatchTypeOK, Anticipated, OneName, dispatchVars
  <2> QED BY <2>1, <2>2
<1> QED BY <1>1, <1>2, PTL DEF DispatchSpec

\* However far the informers lag behind flips of the pattern annotation and
\* lives of the set, the stateless mode never has two instances of one set: for
\* every number of names and uids, and every number of changes.
THEOREM DispatchNeverDuplicates == DispatchSpec => []NoDuplicates
<1>1. DispatchInv => NoDuplicates
  <2> SUFFICES ASSUME DispatchInv, NEW u \in DispatchUids
               PROVE  Cardinality({n \in RandomNames : insts[n] = u}) <= 1
    BY DEF NoDuplicates
  <2> DEFINE S == {n \in RandomNames : insts[n] = u}
  <2>1. \A m, n \in S : m = n BY DispatchAssumption DEF DispatchInv, OneName
  <2>2. CASE S = {}
    BY <2>2, FS_EmptySet
  <2>3. CASE S # {}
    <3>1. PICK n \in S : TRUE BY <2>3
    <3>2. S = {n} BY <2>1, <3>1
    <3>3. Cardinality({n}) = 1 BY FS_Singleton
    <3> QED BY <3>2, <3>3
  <2> QED BY <2>2, <2>3
<1> QED BY <1>1, DispatchInvariant, PTL

-----------------------------------------------------------------------------
(***************************************************************************)
(* WebhookCerts.                                                           *)
(***************************************************************************)
\* A version of the secret has one authority, whoever has a copy of it.
VersionsOfSecret ==
  /\ secret # None => secret.version <= version
  /\ \A r \in Replicas : replica[r].read # None =>
       /\ replica[r].read.version <= version
       /\ secret # None /\ secret.version = replica[r].read.version => secret.ca = replica[r].read.ca

\* As long as no authority was lost, everybody who serves, or is about to serve
\* what it has read, has the authority of the secret.
OnSecret ==
  caLost \/ \A q \in Replicas, ca \in CAs : RunsOn(q, ca) => secret # None /\ secret.ca = ca

CertInv == CertTypeOK /\ VersionsOfSecret /\ OnSecret

\* The values of a function on a finite set are no more than its arguments.
LEMMA ValuesBound ==
  ASSUME NEW S, IsFiniteSet(S), NEW f
  PROVE  /\ IsFiniteSet({f[x] : x \in S})
         /\ Cardinality({f[x] : x \in S}) <= Cardinality(S)
<1> DEFINE T == {f[x] : x \in S}
           g == [x \in S |-> f[x]]
<1>1. g \in Surjection(S, T) BY DEF Surjection
<1> HIDE DEF T, g
<1>2. IsFiniteSet(T) /\ Cardinality(T) <= Cardinality(S) BY <1>1, FS_Surjection
<1> QED BY <1>2 DEF T

\* The authorities in use are fewer than there are.
LEMMA FreshAuthority ==
  ASSUME CertTypeOK
  PROVE  NewCA \in CAs
<1> DEFINE copy == [r \in Replicas |-> IF replica[r].read = None THEN None ELSE replica[r].read.ca]
           serve == [r \in Replicas |-> replica[r].ca]
           A == {IF secret = None THEN None ELSE secret.ca}
           B == {copy[r] : r \in Replicas}
           C == {serve[r] : r \in Replicas}
           D == {bundles[t] : t \in Targets}
<1>1. IsFiniteSet(Targets) BY CertAssumption
<1>2. /\ IsFiniteSet(A) /\ Cardinality(A) = 1
      /\ IsFiniteSet(B) /\ Cardinality(B) <= Cardinality(Replicas)
      /\ IsFiniteSet(C) /\ Cardinality(C) <= Cardinality(Replicas)
      /\ IsFiniteSet(D) /\ Cardinality(D) <= Cardinality(Targets)
  <2>1. IsFiniteSet(A) /\ Cardinality(A) = 1 BY FS_Singleton
  <2>2. IsFiniteSet(B) /\ Cardinality(B) <= Cardinality(Replicas) BY CertAssumption, ValuesBound
  <2>3. IsFiniteSet(C) /\ Cardinality(C) <= Cardinality(Replicas) BY CertAssumption, ValuesBound
  <2>4. IsFiniteSet(D) /\ Cardinality(D) <= Cardinality(Targets) BY <1>1, ValuesBound
  <2> QED BY <2>1, <2>2, <2>3, <2>4
<1>3. CAsInUse \subseteq (A \cup B) \cup (C \cup D)
  <2> SUFFICES ASSUME NEW c \in CAsInUse PROVE c \in (A \cup B) \cup (C \cup D) OBVIOUS
  <2>1. CASE c \in {s.ca : s \in ({secret} \cup {replica[r].read : r \in Replicas}) \ {None}}
    <3>1. PICK s \in ({secret} \cup {replica[r].read : r \in Replicas}) \ {None} : c = s.ca BY <2>1
    <3>2. CASE s = secret
      BY <3>1, <3>2
    <3>3. CASE s # secret
      <4>1. PICK r \in Replicas : s = replica[r].read BY <3>1, <3>3
      <4>2. copy[r] = c BY <3>1, <4>1
      <4> QED BY <4>2
    <3> QED BY <3>2, <3>3
  <2>2. CASE c \in {replica[r].ca : r \in Replicas}
    BY <2>2
  <2>3. CASE c \in {bundles[t] : t \in Targets}
    BY <2>3
  <2> QED BY <2>1, <2>2, <2>3 DEF CAsInUse
<1> HIDE DEF A, B, C, D
<1> DEFINE U == (A \cup B) \cup (C \cup D)
<1>4. IsFiniteSet(U) /\ Cardinality(U) <= 2 * Cardinality(Replicas) + Cardinality(Targets) + 1
  <2>0. Cardinality(Replicas) \in Nat /\ Cardinality(Targets) \in Nat
    BY CertAssumption, <1>1, FS_CardinalityType
  <2>1. IsFiniteSet(A \cup B) /\ Cardinality(A \cup B) <= 1 + Cardinality(Replicas)
    <3>1. Cardinality(A \cap B) \in Nat /\ Cardinality(B) \in Nat
      BY <1>2, FS_Intersection, FS_CardinalityType
    <3>2. IsFiniteSet(A \cup B) /\ Cardinality(A \cup B) = Cardinality(A) + Cardinality(B) - Cardinality(A \cap B)
      BY <1>2, FS_Union, Zenon
    <3> QED BY <1>2, <2>0, <3>1, <3>2
  <2>2. IsFiniteSet(C \cup D) /\ Cardinality(C \cup D) <= Cardinality(Replicas) + Cardinality(Targets)
    <3>1. Cardinality(C \cap D) \in Nat /\ Cardinality(C) \in Nat /\ Cardinality(D) \in Nat
      BY <1>2, FS_Intersection, FS_CardinalityType
    <3>2. IsFiniteSet(C \cup D) /\ Cardinality(C \cup D) = Cardinality(C) + Cardinality(D) - Cardinality(C \cap D)
      BY <1>2, FS_Union, Zenon
    <3> QED BY <1>2, <2>0, <3>1, <3>2
  <2>3. /\ Cardinality((A \cup B) \cap (C \cup D)) \in Nat /\ Cardinality(A \cup B) \in Nat
        /\ Cardinality(C \cup D) \in Nat
    BY <2>1, <2>2, FS_Intersection, FS_CardinalityType
  <2>4. IsFiniteSet(U) /\ Cardinality(U) =
          Cardinality(A \cup B) + Cardinality(C \cup D) - Cardinality((A \cup B) \cap (C \cup D))
    BY <2>1, <2>2, FS_Union, Zenon
  <2> QED BY <2>0, <2>1, <2>2, <2>3, <2>4
<1>5. \E c \in CAs : c \notin CAsInUse
  <2> SUFFICES ASSUME CAs \subseteq U PROVE FALSE BY <1>3
  <2>1. Cardinality(CAs) <= Cardinality(U) BY <1>4, FS_Subset
  <2>2. /\ Cardinality(Replicas) \in Nat /\ Cardinality(Targets) \in Nat /\ Cardinality(CAs) \in Nat
        /\ Cardinality(U) \in Nat
    BY CertAssumption, <1>1, <1>4, FS_CardinalityType
  <2> QED BY CertAssumption, <1>4, <2>1, <2>2
<1> QED BY <1>5 DEF NewCA

\* The targets are patched in their order, from the first to the last.
LEMMA TargetOrder ==
  /\ Min(Targets) \in Targets
  /\ \A t \in Targets : t # Max(Targets) => t + 1 \in Targets
<1> DEFINE n == Cardinality(Targets)
<1>1. n \in Nat /\ Targets = 1 .. n /\ n # 0
  <2>1. n \in Nat BY CertAssumption, FS_CardinalityType
  <2>2. n # 0 BY CertAssumption, FS_EmptySet
  <2> QED BY <2>1, <2>2, CertAssumption
<1> HIDE DEF n
<1>2. \E x \in Targets : \A y \in Targets : x =< y
  <2>1. 1 \in Targets /\ \A y \in Targets : 1 =< y BY <1>1
  <2> QED BY <2>1
<1>3. n \in Targets /\ \A y \in Targets : n >= y BY <1>1
<1>4. Max(Targets) \in Targets /\ \A y \in Targets : Max(Targets) >= y
  BY <1>3 DEF Max
<1>5. Max(Targets) = n
  <2>1. Max(Targets) >= n /\ n >= Max(Targets) BY <1>3, <1>4
  <2> QED BY <1>1, <1>4, <2>1
<1> QED BY <1>1, <1>2, <1>5 DEF Min

LEMMA CertTypeStep ==
  ASSUME CertTypeOK, CertNext
  PROVE  CertTypeOK'
<1> USE CertAssumption DEF CertTypeOK
<1>1. ASSUME NEW r \in Replicas, NEW s \in Replica, Phased(s), Becomes(r, s)
      PROVE  /\ replica' \in [Replicas -> Replica] /\ \A q \in Replicas : Phased(replica'[q])
             /\ replica'[r] = s /\ \A q \in Replicas \ {r} : replica'[q] = replica[q]
  <2>1. replica' = [replica EXCEPT ![r] = s] BY <1>1 DEF Becomes
  <2>2. replica' \in [Replicas -> Replica] /\ replica'[r] = s /\ \A q \in Replicas \ {r} : replica'[q] = replica[q]
    BY <2>1
  <2> QED BY <1>1, <2>2
\* A step of a replica that is not up, and so does not lead.
<1>2. ASSUME NEW r \in Replicas, NEW s \in Replica, Phased(s), Becomes(r, s), replica[r].phase # "up",
             secret' \in Secret \cup {None}, version' \in Nat, bundles' \in [Targets -> CAs \cup {None}],
             caLost' \in BOOLEAN, UNCHANGED <<certLeader, certBudget>>
      PROVE  CertTypeOK'
  BY <1>1, <1>2
<1>3. ASSUME NEW p \in {"down", "create", "reread"}
      PROVE  [Down EXCEPT !.phase = p] \in Replica /\ Phased([Down EXCEPT !.phase = p])
  BY DEF Down, Replica, Phased
<1>4. Down \in Replica /\ Phased(Down) BY DEF Down, Replica, Phased
<1>5. ASSUME NEW s \in Secret
      PROVE  LET d == [Down EXCEPT !.phase = "check", !.read = s] IN d \in Replica /\ Phased(d)
  BY DEF Down, Replica, Phased
<1>6. ASSUME NEW ca \in CAs
      PROVE  LET d == [Down EXCEPT !.phase = "patch", !.ca = ca, !.target = Min(Targets)]
             IN d \in Replica /\ Phased(d)
  BY TargetOrder DEF Down, Replica, Phased
<1>7. ASSUME NEW ca \in CAs, Stores(ca) PROVE secret' \in Secret /\ version' \in Nat
  BY <1>7 DEF Stores, Secret, Lives
<1>8. SigningCA(None) \in CAs /\ \A s \in Secret : SigningCA(s) \in CAs
  BY FreshAuthority DEF SigningCA, Secret
<1>b. SpendOnCerts => certBudget' \in 0 .. CertBudget BY DEF SpendOnCerts
<1>9. ASSUME NEW r \in Replicas, Boot(r) PROVE CertTypeOK'
  <2>1. CASE secret = None
    BY <1>2, <1>3, <1>9, <2>1 DEF Boot
  <2>2. CASE secret # None
    BY <1>2, <1>5, <1>9, <2>2 DEF Boot, Reads
  <2> QED BY <2>1, <2>2
<1>10. ASSUME NEW r \in Replicas, CreateIfNotExists(r) PROVE CertTypeOK'
  <2>1. CASE secret = None
    <3>1. PICK ca \in {SigningCA(None)} : Stores(ca) /\ Serves(r, ca)
      BY <1>10, <2>1 DEF CreateIfNotExists
    <3>2. ca \in CAs BY <1>8
    <3>3. secret' \in Secret /\ version' \in Nat BY <1>7, <3>1, <3>2
    <3>4. PICK s \in Replica : Phased(s) /\ Becomes(r, s) BY <1>6, <3>1, <3>2 DEF Serves
    <3>5. /\ replica[r].phase # "up" /\ UNCHANGED <<certLeader, bundles, caLost, certBudget>>
      BY <1>10 DEF CreateIfNotExists
    <3> QED BY <1>2, <3>3, <3>4, <3>5
  <2>2. CASE secret # None
    BY <1>2, <1>3, <1>10, <2>2 DEF CreateIfNotExists
  <2> QED BY <2>1, <2>2
<1>11. ASSUME NEW r \in Replicas, Reread(r) PROVE CertTypeOK'
  <2>1. CASE secret = None
    BY <1>2, <1>4, <1>11, <2>1 DEF Reread
  <2>2. CASE secret # None
    BY <1>2, <1>5, <1>11, <2>2 DEF Reread, Reads
  <2> QED BY <2>1, <2>2
<1>12. ASSUME NEW r \in Replicas, KeepCert(r) PROVE CertTypeOK'
  <2>1. replica[r].read \in Secret /\ replica[r].read.ca \in CAs
    BY <1>12 DEF KeepCert, Phased, Replica, Secret
  <2> QED BY <1>2, <1>6, <1>12, <2>1 DEF KeepCert, Serves
<1>13. ASSUME NEW r \in Replicas, Overwrite(r) PROVE CertTypeOK'
  <2>1. replica[r].read \in Secret BY <1>13 DEF Overwrite, Phased, Replica
  <2>2. CASE ~SameVersion(r)
    BY <1>2, <1>4, <1>13, <2>2 DEF Overwrite
  <2>3. CASE SameVersion(r)
    <3>1. PICK ca \in {SigningCA(replica[r].read)} :
            /\ Stores(ca) /\ Serves(r, ca)
            /\ caLost' = (caLost \/ \E q \in Replicas \ {r} :
                                      ca # replica[r].read.ca /\ RunsOn(q, replica[r].read.ca))
      BY <1>13, <2>3 DEF Overwrite
    <3>2. ca \in CAs BY <1>8, <2>1
    <3>3. caLost' \in BOOLEAN BY <3>1
    <3>4. secret' \in Secret /\ version' \in Nat BY <1>7, <3>1, <3>2
    <3> QED BY <1>2, <1>6, <1>13, <3>1, <3>2, <3>3, <3>4 DEF Overwrite, Serves
  <2> QED BY <2>2, <2>3
<1>14. ASSUME NEW r \in Replicas, PatchCABundle(r) PROVE CertTypeOK'
  <2>1. replica[r] \in Replica /\ replica[r].target \in Targets /\ replica[r].ca \in CAs
    BY <1>14 DEF PatchCABundle, Phased, Replica
  <2>2. bundles' \in [Targets -> CAs \cup {None}] BY <1>14, <2>1 DEF PatchCABundle
  <2>3. CASE replica[r].target = Max(Targets)
    <3> DEFINE s == [replica[r] EXCEPT !.phase = "up", !.target = None]
    <3>1. s \in Replica BY <2>1 DEF Replica
    <3>2. Phased(s) BY <1>14, <2>1 DEF Phased, Replica, PatchCABundle
    <3>3. Becomes(r, s) BY <1>14, <2>3 DEF PatchCABundle
    <3> HIDE DEF s
    <3> QED BY <1>2, <1>14, <2>2, <3>1, <3>2, <3>3 DEF PatchCABundle
  <2>4. CASE replica[r].target # Max(Targets)
    <3> DEFINE s == [replica[r] EXCEPT !.target = @ + 1]
    <3>0. replica[r].target + 1 \in Targets BY <2>1, <2>4, TargetOrder
    <3>1. s \in Replica BY <2>1, <3>0 DEF Replica
    <3>2. Phased(s) BY <1>14, <2>1, <3>0 DEF Phased, Replica, PatchCABundle
    <3>3. Becomes(r, s) BY <1>14, <2>4 DEF PatchCABundle
    <3> HIDE DEF s
    <3> QED BY <1>2, <1>14, <2>2, <3>1, <3>2, <3>3 DEF PatchCABundle
  <2> QED BY <2>3, <2>4
<1>15. CASE ReconcileBundles
  <2>1. replica[certLeader].ca \in CAs BY <1>15 DEF ReconcileBundles, Phased, Replica
  <2> QED BY <1>15, <2>1 DEF ReconcileBundles
<1>16. ASSUME NEW r \in Replicas, Elect(r) PROVE CertTypeOK'
  BY <1>16 DEF Elect
<1>17. ASSUME NEW r \in Replicas, CrashReplica(r) PROVE CertTypeOK'
  BY <1>1, <1>4, <1>b, <1>17 DEF CrashReplica
<1>18. CASE DeleteSecret
  BY <1>b, <1>18 DEF DeleteSecret
<1>19. CASE SpoilSecret
  <2>1. secret \in Secret /\ version + 1 \in Nat BY <1>19 DEF SpoilSecret
  <2>2. \A n \in Nat, l \in Lives :
          [secret EXCEPT !.certGood = FALSE, !.life = l, !.version = n] \in Secret
    BY <2>1 DEF Secret
  <2>3. secret.life \in Lives /\ "over" \in Lives BY <2>1 DEF Secret, Lives
  <2>4. PICK l \in Lives : secret' = [secret EXCEPT !.certGood = FALSE, !.life = l, !.version = version + 1]
    BY <1>19, <2>3 DEF SpoilSecret
  <2>5. secret' \in Secret BY <2>1, <2>2, <2>4
  <2> QED BY <1>b, <1>19, <2>1, <2>5 DEF SpoilSecret
<1>20. CASE Age
  <2>1. [secret EXCEPT !.life = IF @ = "long" THEN "short" ELSE "over"] \in Secret
    BY <1>20 DEF Age, Secret, Lives
  <2> QED BY <1>b, <1>20, <2>1 DEF Age
<1>21. ASSUME NEW t \in Targets, ResetBundle(t) PROVE CertTypeOK'
  BY <1>b, <1>21 DEF ResetBundle
<1> QED BY <1>9, <1>10, <1>11, <1>12, <1>13, <1>14, <1>15, <1>16, <1>17, <1>18, <1>19, <1>20, <1>21,
           CertNext DEF CertNext, StartStep

\* The step of a replica leaves the others alone.
Alone(r) == \A q \in Replicas \ {r} : replica'[q] = replica[q]

LEMMA OneReplica ==
  ASSUME CertTypeOK, NEW r \in Replicas
  PROVE  /\ \A p : Becomes(r, [Down EXCEPT !.phase = p]) =>
               Alone(r) /\ replica'[r].phase = p /\ replica'[r].read = None
         /\ Becomes(r, Down) => Alone(r) /\ replica'[r].phase = "down" /\ replica'[r].read = None
         /\ Reads(r) => Alone(r) /\ replica'[r].phase = "check" /\ replica'[r].read = secret
         /\ \A ca : Serves(r, ca) => /\ Alone(r) /\ replica'[r].phase = "patch"
                                     /\ replica'[r].read = None /\ replica'[r].ca = ca
<1>1. ASSUME NEW s, Becomes(r, s) PROVE Alone(r) /\ replica'[r] = s
  BY <1>1 DEF CertTypeOK, Becomes, Alone
<1>2. ASSUME NEW p, Becomes(r, [Down EXCEPT !.phase = p])
      PROVE  Alone(r) /\ replica'[r].phase = p /\ replica'[r].read = None
  BY <1>1, <1>2 DEF Down
<1>3. ASSUME Becomes(r, Down) PROVE Alone(r) /\ replica'[r].phase = "down" /\ replica'[r].read = None
  BY <1>1, <1>3 DEF Down
<1>4. ASSUME Reads(r) PROVE Alone(r) /\ replica'[r].phase = "check" /\ replica'[r].read = secret
  <2>1. LET d == [Down EXCEPT !.phase = "check", !.read = secret]
        IN d.phase = "check" /\ d.read = secret
    BY DEF Down
  <2> QED BY <1>1, <1>4, <2>1 DEF Reads
<1>5. ASSUME NEW ca, Serves(r, ca)
      PROVE  /\ Alone(r) /\ replica'[r].phase = "patch"
             /\ replica'[r].read = None /\ replica'[r].ca = ca
  <2>1. LET d == [Down EXCEPT !.phase = "patch", !.ca = ca, !.target = Min(Targets)]
        IN d.phase = "patch" /\ d.read = None /\ d.ca = ca
    BY DEF Down
  <2> QED BY <1>1, <1>5, <2>1 DEF Serves
<1> QED BY <1>2, <1>3, <1>4, <1>5

LEMMA PatchesOne ==
  ASSUME CertTypeOK, NEW r \in Replicas, PatchCABundle(r)
  PROVE  /\ Alone(r) /\ replica'[r].phase \in {"patch", "up"}
         /\ replica'[r].read = replica[r].read /\ replica'[r].ca = replica[r].ca
<1>1. replica[r] \in Replica /\ replica[r].phase = "patch" BY DEF CertTypeOK, PatchCABundle
<1>2. CASE replica[r].target = Max(Targets)
  <2>1. replica' = [replica EXCEPT ![r] = [replica[r] EXCEPT !.phase = "up", !.target = None]]
    BY <1>2 DEF PatchCABundle, Becomes
  <2> QED BY <1>1, <2>1 DEF CertTypeOK, Alone, Replica
<1>3. CASE replica[r].target # Max(Targets)
  <2>1. PICK n : replica' = [replica EXCEPT ![r] = [replica[r] EXCEPT !.target = n]]
    BY <1>3 DEF PatchCABundle, Becomes
  <2> QED BY <1>1, <2>1 DEF CertTypeOK, Alone, Replica
<1> QED BY <1>2, <1>3

\* A replica runs on the authority it serves, or of what it is about to keep.
LEMMA WhoRuns ==
  ASSUME CertTypeOK, NEW q \in Replicas
  PROVE  /\ replica[q].ca # None <=> replica[q].phase \in {"patch", "up"}
         /\ replica[q].read # None <=> replica[q].phase = "check"
         /\ replica[q].ca # None => replica[q].ca \in CAs /\ RunsOn(q, replica[q].ca)
         /\ replica[q].read # None => replica[q].read \in Secret
BY CertAssumption DEF CertTypeOK, Phased, Replica, RunsOn

\* What others do to the secret, but for deleting it, leaves its authority.
LEMMA AuthorityKept ==
  ASSUME CertTypeOK, SpoilSecret \/ Age
  PROVE  secret \in Secret /\ secret' \in Secret /\ secret'.ca = secret.ca
<1>1. secret \in Secret BY DEF CertTypeOK, SpoilSecret, Age
<1>2. CASE SpoilSecret
  <2>1. PICK n \in Nat : n = version + 1 BY DEF CertTypeOK
  <2>2. PICK l \in Lives : secret' = [secret EXCEPT !.certGood = FALSE, !.life = l, !.version = n]
    <3>1. secret.life \in Lives /\ "over" \in Lives BY <1>1 DEF Secret, Lives
    <3> QED BY <1>2, <2>1, <3>1 DEF SpoilSecret
  <2> QED BY <1>1, <2>1, <2>2 DEF Secret
<1>3. CASE Age
  BY <1>1, <1>3 DEF Age, Secret, Lives
<1> QED BY <1>2, <1>3

LEMMA VersionStep ==
  ASSUME CertInv, CertNext
  PROVE  VersionsOfSecret'
<1> USE DEF CertInv
<1>1. CertTypeOK' BY CertTypeStep
<1>v. version \in Nat /\ (secret # None => secret \in Secret /\ secret.version \in Nat)
  BY CertAssumption DEF CertTypeOK, Secret
<1>w. \A q \in Replicas : replica[q].read # None => replica[q].read.version \in Nat
  BY WhoRuns DEF Secret
\* A replica drops its copy, or copies the secret, and the secret stays.
<1>2. ASSUME NEW r \in Replicas, Alone(r), replica'[r].read \in {None, secret},
             UNCHANGED <<secret, version>>
      PROVE  VersionsOfSecret'
  BY <1>2, <1>v DEF VersionsOfSecret, Alone
\* The secret gets a version nobody has, and no copy is made.
<1>3. ASSUME NEW r \in Replicas, Alone(r), replica'[r].read = None,
             version' = version + 1, secret' # None, secret'.version = version + 1
      PROVE  VersionsOfSecret'
  <2>1. \A q \in Replicas : replica'[q].read # None => replica[q].read # None /\ replica'[q].read = replica[q].read
    BY <1>3 DEF Alone
  <2> QED BY <1>3, <1>v, <1>w, <2>1 DEF VersionsOfSecret
<1>4. ASSUME NEW ca \in CAs, Stores(ca)
      PROVE  version' = version + 1 /\ secret' # None /\ secret'.version = version + 1
  <2>1. secret' \in Secret BY <1>v, <1>4 DEF Stores, Secret, Lives
  <2> QED BY <1>4, <2>1, CertAssumption DEF Stores
<1>5. SigningCA(None) \in CAs /\ \A s \in Secret : SigningCA(s) \in CAs
  BY FreshAuthority, CertAssumption DEF SigningCA, Secret
<1>6. ASSUME NEW r \in Replicas, Boot(r) PROVE VersionsOfSecret'
  BY <1>2, <1>6, OneReplica DEF Boot
<1>7. ASSUME NEW r \in Replicas, CreateIfNotExists(r) PROVE VersionsOfSecret'
  <2>1. CASE secret = None
    <3>1. PICK ca \in {SigningCA(None)} : Stores(ca) /\ Serves(r, ca) BY <1>7, <2>1 DEF CreateIfNotExists
    <3> QED BY <1>3, <1>4, <1>5, <3>1, OneReplica
  <2>2. CASE secret # None
    BY <1>2, <1>7, <2>2, OneReplica DEF CreateIfNotExists
  <2> QED BY <2>1, <2>2
<1>8. ASSUME NEW r \in Replicas, Reread(r) PROVE VersionsOfSecret'
  BY <1>2, <1>8, OneReplica DEF Reread
<1>9. ASSUME NEW r \in Replicas, KeepCert(r) PROVE VersionsOfSecret'
  BY <1>2, <1>9, OneReplica DEF KeepCert
<1>10. ASSUME NEW r \in Replicas, Overwrite(r) PROVE VersionsOfSecret'
  <2>1. CASE ~SameVersion(r)
    BY <1>2, <1>10, <2>1, OneReplica DEF Overwrite
  <2>2. CASE SameVersion(r)
    <3>1. PICK ca \in {SigningCA(replica[r].read)} : Stores(ca) /\ Serves(r, ca)
      BY <1>10, <2>2 DEF Overwrite
    <3>2. ca \in CAs
      <4>1. replica[r].read \in Secret BY <1>10, WhoRuns DEF Overwrite
      <4> QED BY <1>5, <4>1
    <3> QED BY <1>3, <1>4, <3>1, <3>2, OneReplica
  <2> QED BY <2>1, <2>2
<1>11. ASSUME NEW r \in Replicas, PatchCABundle(r) PROVE VersionsOfSecret'
  <2>1. replica[r].read = None BY <1>11, WhoRuns DEF PatchCABundle
  <2>2. Alone(r) /\ replica'[r].read = None BY <1>11, <2>1, PatchesOne
  <2> QED BY <1>2, <1>11, <2>2 DEF PatchCABundle
<1>12. ASSUME NEW r \in Replicas, CrashReplica(r) PROVE VersionsOfSecret'
  BY <1>2, <1>12, OneReplica DEF CrashReplica
<1>13. CASE DeleteSecret
  BY <1>13 DEF DeleteSecret, VersionsOfSecret
<1>14. CASE SpoilSecret
  <2>1. secret' # None BY <1>14, AuthorityKept, CertAssumption
  <2>2. secret'.version = version + 1 /\ version' = version + 1 /\ replica' = replica
    BY <1>v, <1>14 DEF SpoilSecret, Secret
  <2> QED BY <1>v, <1>w, <2>1, <2>2 DEF VersionsOfSecret
<1>15. CASE Age
  <2>1. secret # None /\ secret'.version = secret.version /\ secret'.ca = secret.ca BY <1>v, <1>15 DEF Age, Secret
  <2> QED BY <1>15, <2>1 DEF Age, VersionsOfSecret
<1>16. CASE ReconcileBundles \/ (\E r \in Replicas : Elect(r)) \/ \E t \in Targets : ResetBundle(t)
  BY <1>16 DEF ReconcileBundles, Elect, ResetBundle, VersionsOfSecret
<1> QED BY <1>6, <1>7, <1>8, <1>9, <1>10, <1>11, <1>12, <1>13, <1>14, <1>15, <1>16, CertNext
        DEF CertNext, StartStep

LEMMA OnSecretStep ==
  ASSUME CertInv, CertNext
  PROVE  OnSecret'
<1> USE DEF CertInv
<1>1. CertTypeOK' BY CertTypeStep
<1>2. ASSUME NEW r \in Replicas, Alone(r), NEW q \in Replicas \ {r}, NEW ca \in CAs, RunsOn(q, ca)'
      PROVE  RunsOn(q, ca)
  BY <1>2 DEF RunsOn, ValidCert, Alone
\* A replica that stops, or copies the secret, or serves what it ran on.
<1>3. ASSUME NEW r \in Replicas, Alone(r), UNCHANGED <<secret, caLost>>,
             \/ replica'[r].phase \in {"down", "create", "reread"}
             \/ replica'[r].phase = "check" /\ replica'[r].read = secret /\ secret # None
             \/ replica'[r].phase \in {"patch", "up"} /\ RunsOn(r, replica'[r].ca)
      PROVE  OnSecret'
  <2>1. \A ca \in CAs : RunsOn(r, ca)' => RunsOn(r, ca) \/ (secret # None /\ ca = secret.ca)
    BY <1>3 DEF RunsOn
  <2>2. \A q \in Replicas, ca \in CAs : RunsOn(q, ca)' => RunsOn(q, ca) \/ (secret # None /\ ca = secret.ca)
    BY <1>2, <1>3, <2>1
  <2> QED BY <1>3, <2>2 DEF OnSecret
\* A replica that stores the authority it serves: nobody else runs on another.
<1>4. ASSUME NEW r \in Replicas, NEW c \in CAs, Stores(c), Serves(r, c),
             \A q \in Replicas \ {r}, ca \in CAs : RunsOn(q, ca) => caLost' \/ ca = c
      PROVE  OnSecret'
  <2>1. Alone(r) /\ replica'[r].phase = "patch" /\ replica'[r].ca = c BY <1>4, OneReplica
  <2>2. secret'.ca = c BY <1>4 DEF Stores
  <2>3. secret' # None
    <3>1. version + 1 \in Nat BY DEF CertTypeOK
    <3>2. secret' \in Secret BY <1>4, <3>1 DEF Stores, Secret, Lives
    <3> QED BY <3>2, CertAssumption
  <2>4. \A ca \in CAs : RunsOn(r, ca)' => ca = c BY <2>1 DEF RunsOn
  <2>5. \A q \in Replicas, ca \in CAs : RunsOn(q, ca)' => caLost' \/ ca = c BY <1>2, <1>4, <2>1, <2>4
  <2> QED BY <2>2, <2>3, <2>5 DEF OnSecret
<1>5. SigningCA(None) \in CAs /\ \A s \in Secret : SigningCA(s) \in CAs
  BY FreshAuthority, CertAssumption DEF SigningCA, Secret
<1>6. ASSUME NEW r \in Replicas, Boot(r) PROVE OnSecret'
  BY <1>3, <1>6, OneReplica DEF Boot
<1>7. ASSUME NEW r \in Replicas, CreateIfNotExists(r) PROVE OnSecret'
  <2>1. CASE secret = None
    <3>1. PICK ca \in {SigningCA(None)} : Stores(ca) /\ Serves(r, ca) BY <1>7, <2>1 DEF CreateIfNotExists
    <3>2. caLost' = caLost BY <1>7 DEF CreateIfNotExists
    <3>3. \A q \in Replicas, c \in CAs : RunsOn(q, c) => caLost' BY <2>1, <3>2 DEF OnSecret
    <3> QED BY <1>4, <1>5, <3>1, <3>3
  <2>2. CASE secret # None
    BY <1>3, <1>7, <2>2, OneReplica DEF CreateIfNotExists
  <2> QED BY <2>1, <2>2
<1>8. ASSUME NEW r \in Replicas, Reread(r) PROVE OnSecret'
  BY <1>3, <1>8, OneReplica DEF Reread
<1>9. ASSUME NEW r \in Replicas, KeepCert(r) PROVE OnSecret'
  <2>1. RunsOn(r, replica[r].read.ca) BY <1>9 DEF KeepCert, RunsOn
  <2> QED BY <1>3, <1>9, <2>1, OneReplica DEF KeepCert
<1>10. ASSUME NEW r \in Replicas, Overwrite(r) PROVE OnSecret'
  <2>1. CASE ~SameVersion(r)
    BY <1>3, <1>10, <2>1, OneReplica DEF Overwrite
  <2>2. CASE SameVersion(r)
    <3>1. PICK c \in {SigningCA(replica[r].read)} :
            /\ Stores(c) /\ Serves(r, c)
            /\ caLost' = (caLost \/ \E q \in Replicas \ {r} :
                                      c # replica[r].read.ca /\ RunsOn(q, replica[r].read.ca))
      BY <1>10, <2>2 DEF Overwrite
    <3>2. replica[r].read # None /\ replica[r].read \in Secret BY <1>10, WhoRuns DEF Overwrite
    <3>3. c \in CAs BY <1>5, <3>2
    <3>4. secret # None /\ secret.ca = replica[r].read.ca
      BY <2>2, <3>2 DEF SameVersion, VersionsOfSecret
    <3>5. \A q \in Replicas \ {r}, ca \in CAs : RunsOn(q, ca) => caLost' \/ ca = c
      BY <3>1, <3>4 DEF OnSecret
    <3> QED BY <1>4, <3>1, <3>3, <3>5
  <2> QED BY <2>1, <2>2
<1>11. ASSUME NEW r \in Replicas, PatchCABundle(r) PROVE OnSecret'
  <2>1. RunsOn(r, replica[r].ca) BY <1>11 DEF PatchCABundle, RunsOn
  <2>2. UNCHANGED <<secret, caLost>> BY <1>11 DEF PatchCABundle
  <2> QED BY <1>3, <1>11, <2>1, <2>2, PatchesOne
<1>12. ASSUME NEW r \in Replicas, CrashReplica(r) PROVE OnSecret'
  BY <1>3, <1>12, OneReplica DEF CrashReplica
<1>13. CASE DeleteSecret
  <2>1. \A q \in Replicas, ca \in CAs : RunsOn(q, ca)' => RunsOn(q, ca)
    BY <1>13 DEF DeleteSecret, RunsOn, ValidCert
  <2> QED BY <1>13, <2>1 DEF DeleteSecret, OnSecret
<1>14. ASSUME UNCHANGED <<replica, caLost>>, secret # None => secret' # None /\ secret'.ca = secret.ca
       PROVE  OnSecret'
  <2>1. \A q \in Replicas, ca \in CAs : RunsOn(q, ca)' => RunsOn(q, ca)
    BY <1>14 DEF RunsOn, ValidCert
  <2> QED BY <1>14, <2>1 DEF OnSecret
<1>15. CASE SpoilSecret \/ Age
  <2>1. UNCHANGED <<replica, caLost>> BY <1>15 DEF SpoilSecret, Age
  <2> QED BY <1>14, <1>15, <2>1, AuthorityKept, CertAssumption
<1>16. CASE ReconcileBundles \/ (\E r \in Replicas : Elect(r)) \/ \E t \in Targets : ResetBundle(t)
  BY <1>14, <1>16 DEF ReconcileBundles, Elect, ResetBundle
<1> QED BY <1>6, <1>7, <1>8, <1>9, <1>10, <1>11, <1>12, <1>13, <1>15, <1>16, CertNext
        DEF CertNext, StartStep

LEMMA CertInitial ==
  ASSUME CertInit
  PROVE  CertInv
<1> USE CertAssumption
<1>1. Down \in Replica /\ Phased(Down) /\ Down.phase = "down" /\ Down.read = None
  BY DEF Down, Replica, Phased
<1>2. (CHOOSE c \in CAs : TRUE) \in CAs
  <2>1. CAs # {} BY FreshAuthority, FS_EmptySet, FS_CardinalityType
  <2> QED BY <2>1
<1>3. secret \in Secret \cup {None} /\ bundles \in [Targets -> CAs \cup {None}]
  BY <1>2 DEF CertInit, Secret
<1>4. \A r \in Replicas : replica[r] = Down BY DEF CertInit
<1>5. CertTypeOK
  <2>1. replica \in [Replicas -> Replica] /\ \A r \in Replicas : Phased(replica[r]) BY <1>1, <1>4 DEF CertInit
  <2>2. certBudget \in 0 .. CertBudget /\ version \in Nat BY DEF CertInit
  <2> QED BY <1>3, <2>1, <2>2 DEF CertInit, CertTypeOK
<1>6. secret # None => secret.version = 0 BY DEF CertInit
<1>7. VersionsOfSecret BY <1>1, <1>4, <1>6 DEF VersionsOfSecret, CertInit
<1>8. OnSecret BY <1>1, <1>4 DEF OnSecret, RunsOn
<1> QED BY <1>5, <1>7, <1>8 DEF CertInv

\* Whatever the order of starts, crashes and writes of the replicas: a copy of
\* the secret with its resource version has its authority, and unless an
\* authority was lost, every replica past ensureCerts runs on the authority the
\* secret still holds.
THEOREM CertInvariant == CertSpec => []CertInv
<1>1. CertInit => CertInv BY CertInitial
<1>2. CertInv /\ [CertNext]_certVars => CertInv'
  <2>1. ASSUME CertInv, CertNext PROVE CertInv'
    BY <2>1, CertTypeStep, VersionStep, OnSecretStep DEF CertInv
  <2>2. ASSUME CertInv, UNCHANGED certVars PROVE CertInv'
    BY <2>2 DEF CertInv, CertTypeOK, VersionsOfSecret, OnSecret, RunsOn, ValidCert, certVars, Phased
  <2> QED BY <2>1, <2>2
<1> QED BY <1>1, <1>2, PTL DEF CertSpec

\* However many replicas start, crash and race for the secret, those that serve
\* (ensureCerts in pkg/utils/cert) serve certificates of one authority, unless
\* the one they ran on was deleted or replaced under a running replica.
THEOREM ServingUnderOneAuthority == CertSpec => []OneAuthority
<1>1. CertInv => OneAuthority
  <2> SUFFICES ASSUME CertInv, NEW r \in Replicas, NEW q \in Replicas, replica[r].ca # None,
                      replica[q].ca # None, ~caLost
               PROVE  replica[r].ca = replica[q].ca
    BY DEF OneAuthority
  <2>1. /\ replica[r].ca \in CAs /\ RunsOn(r, replica[r].ca)
        /\ replica[q].ca \in CAs /\ RunsOn(q, replica[q].ca)
    BY WhoRuns DEF CertInv
  <2> QED BY <2>1 DEF CertInv, OnSecret
<1> QED BY <1>1, CertInvariant, PTL

-----------------------------------------------------------------------------
(***************************************************************************)
(* WorkloadKinds.                                                          *)
(***************************************************************************)
\* A workload of another kind is left over only where the kind was changed, and
\* admission lets it change to one kind only.
LeftByMigration == kindGroup.kind # "RoleInstanceSet" => OrphanedWorkloads = {}

KindInv == KindTypeOK /\ LeftByMigration

\* The four reconcilers in one: what is there is kept, or patched.
LEMMA ReconciledWorkload ==
  ASSUME KindTypeOK, NEW k \in Kinds, NEW w \in Workload \cup {None}, Claimable(w)
  PROVE  /\ Reconciled(k, w) \in Workload
         /\ w # None => Reconciled(k, w).status = w.status
         /\ w = None => Reconciled(k, w).status = NoCounts
         /\ Reconciled(k, w).owner = kindGroup.uid
         /\ Reconciled(k, w).size = kindGroup.size
<1> DEFINE c == [owner |-> kindGroup.uid, size |-> kindGroup.size]
<1>0. kindGroup.uid \in Owners /\ kindGroup.uid # Orphan /\ kindGroup.size \in KindSizes
  BY KindAssumption DEF KindTypeOK, KindGroup, Owners
<1>1. /\ Patched(w, c) \in Workload
      /\ w # None => Patched(w, c).status = w.status
      /\ w = None => Patched(w, c).status = NoCounts
      /\ Patched(w, c).owner = kindGroup.uid /\ Patched(w, c).size = kindGroup.size
  <2>1. CASE w = None
    BY <1>0, <2>1 DEF Patched, Workload, NoCounts, Counts
  <2>2. CASE w # None
    <3>1. w \in Workload BY <2>2
    <3>2. PICK b \in BOOLEAN : b = (w.observed /\ w.size = c.size) BY <3>1 DEF Workload
    <3>3. Patched(w, c) = [owner |-> kindGroup.uid, size |-> kindGroup.size, observed |-> b, status |-> w.status]
      BY <2>2, <3>1, <3>2 DEF Patched, Workload
    <3> QED BY <1>0, <2>2, <3>1, <3>3 DEF Workload
  <2> QED BY <2>1, <2>2
<1>2. ASSUME NEW e \in BOOLEAN, e <=> (w # None => w.size = kindGroup.size), Skipped(w, e)
      PROVE  w \in Workload /\ w.owner = kindGroup.uid /\ w.size = kindGroup.size
  BY <1>2 DEF Skipped, Claimable, CheckWorkloadClaimable
<1>3. Reconciled(k, w) = Patched(w, c) \/ (w # None /\ Reconciled(k, w) = w /\ w \in Workload
                                           /\ w.owner = kindGroup.uid /\ w.size = kindGroup.size)
  <2> DEFINE e == w # None => w.size = kindGroup.size
  <2>1. Reconciled(k, w) \in {Applied(w, c, e), Patched(w, c)}
    <3>1. k = "Deployment" => Reconciled(k, w) = Applied(w, c, e)
      BY Zenon DEF Reconciled, ReconcileDeployment, DeployConfig, DeploymentEqual
    <3>2. k = "StatefulSet" => Reconciled(k, w) = Applied(w, c, e)
      BY Zenon DEF Reconciled, ReconcileStsWorkload, StsConfig
    <3>3. k = "LeaderWorkerSet" => Reconciled(k, w) = Applied(w, c, e)
      BY Zenon DEF Reconciled, ReconcileLeaderWorkerSet, LwsConfig, LeaderWorkerSetEqual
    <3>4. k = "RoleInstanceSet" => Reconciled(k, w) = Patched(w, c)
      BY Zenon DEF Reconciled, ReconcileRoleInstanceSet, RoleInstanceSetConfig
    <3> HIDE DEF c, e
    <3> QED BY <3>1, <3>2, <3>3, <3>4, Zenon DEF Kinds
  <2>2. Skipped(w, e) => w # None BY DEF Skipped
  <2> QED BY <1>2, <2>1, <2>2 DEF Applied
<1> QED BY <1>1, <1>3

\* A pass writes the workload of the role's kind, and deletes leftovers.
LEMMA PassWrites ==
  ASSUME KindTypeOK, KindPass
  PROVE  /\ works' \in [Kinds -> Workload \cup {None}]
         /\ UNCHANGED <<kindGroup, serviceLost, kindBudget>>
         /\ \A k \in Kinds \ {kindGroup.kind} :
              \/ works'[k] = works[k]
              \/ k \in OrphanedWorkloads /\ works'[k] = None
         /\ LET w == works[kindGroup.kind]  v == works'[kindGroup.kind]
            IN v = w \/ (v = Reconciled(kindGroup.kind, w) /\ Claimable(w))
<1> DEFINE kind == kindGroup.kind
           ws == [works EXCEPT ![kind] = Reconciled(kind, @)]
<1>0. kind \in Kinds BY DEF KindTypeOK, KindGroup
<1>1. UNCHANGED <<kindGroup, serviceLost, kindBudget>> BY DEF KindPass
<1>2. Claimable(works[kind]) => /\ ws \in [Kinds -> Workload \cup {None}]
                                /\ ws[kind] = Reconciled(kind, works[kind])
                                /\ \A k \in Kinds \ {kind} : ws[k] = works[k]
  BY <1>0, ReconciledWorkload DEF KindTypeOK
<1>3. kind \notin OrphanedWorkloads
  BY DEF OrphanedWorkloads, OrphanedObjs, OrphanedDeployments, OrphanedLeaderWorkerSets, IsLeftover
<1>4. CASE UNCHANGED works
  BY <1>1, <1>4 DEF KindTypeOK
<1>5. CASE Claimable(works[kind]) /\ works' = ws
  <2> HIDE DEF ws
  <2> QED BY <1>1, <1>2, <1>5
<1>6. CASE Claimable(works[kind]) /\ CleanUp(ws)
  <2> USE DEF CleanUp
  <2> HIDE DEF ws, kind
  <2>1. works' \in [Kinds -> Workload \cup {None}] BY <1>2, <1>6
  <2>2. works'[kind] = Reconciled(kind, works[kind]) BY <1>0, <1>2, <1>3, <1>6
  <2>3. ASSUME NEW k \in Kinds, k # kind
        PROVE  works'[k] = works[k] \/ (k \in OrphanedWorkloads /\ works'[k] = None)
    <3>1. works'[k] = IF k \in OrphanedWorkloads THEN None ELSE ws[k] BY <1>6
    <3>2. ws[k] = works[k] BY <1>2, <1>6, <2>3
    <3> QED BY <3>1, <3>2
  <2> QED BY <1>1, <1>6, <2>1, <2>2, <2>3 DEF kind
<1>7. CASE CleanUp(works)
  BY <1>0, <1>1, <1>3, <1>7 DEF CleanUp, KindTypeOK
<1> QED BY <1>4, <1>5, <1>6, <1>7, KindPass DEF KindPass

\* What the controller of a workload reports is a workload, of the same owner.
LEMMA ReportedWorkload ==
  ASSUME KindTypeOK, NEW k \in Kinds, Observe(k) \/ AllReady(k)
  PROVE  works[k] # None /\ \E w \in Workload : w.owner = works[k].owner /\ Reports(k, w)
<1> USE KindAssumption
<1>1. works[k] \in Workload /\ works[k] # None BY DEF Observe, AllReady, KindTypeOK
<1>2. CASE Observe(k)
  <2>1. PICK n \in Counts : n = IF works[k].status.ready < works[k].size THEN works[k].status.ready ELSE works[k].size
    BY <1>1 DEF Workload, Counts
  <2>2. LET w == [works[k] EXCEPT !.observed = TRUE, !.status = [replicas |-> works[k].size, ready |-> n]]
        IN w \in Workload /\ w.owner = works[k].owner
    BY <1>1 DEF Workload, Counts
  <2> QED BY <1>1, <1>2, <2>1, <2>2 DEF Observe
<1>3. CASE AllReady(k)
  <2>1. LET w == [works[k] EXCEPT !.status.ready = works[k].size]
        IN w \in Workload /\ w.owner = works[k].owner
    BY <1>1 DEF Workload, Counts
  <2> QED BY <1>1, <1>3, <2>1 DEF AllReady
<1> QED BY <1>2, <1>3

LEMMA KindTypeStep ==
  ASSUME KindTypeOK, KindNext
  PROVE  KindTypeOK'
<1> USE KindAssumption
<1>b. SpendOnKinds => kindBudget' \in 0 .. KindBudget BY DEF SpendOnKinds, KindTypeOK
<1>u. ASSUME NEW s \in HeadlessService \cup {None}, NEW S PROVE Unowned(s, S) \in HeadlessService \cup {None}
  BY DEF Unowned, HeadlessService
<1>d. ASSUME NEW S, Deletes(S, works) PROVE works' \in [Kinds -> Workload \cup {None}] /\ kindQueued' \in BOOLEAN
  BY <1>d DEF Deletes, KindTypeOK
<1>r. ASSUME NEW k \in Kinds, NEW w \in Workload, Reports(k, w) PROVE KindTypeOK'
  <2>1. kindQueued' \in BOOLEAN BY <1>r DEF Reports
  <2>2. works' \in [Kinds -> Workload \cup {None}] BY <1>r DEF Reports, KindTypeOK
  <2> QED BY <1>r, <2>1, <2>2 DEF Reports, KindTypeOK
<1>1. CASE KindPass
  <2>1. roleStatus' \in [replicas : Counts, ready : Counts]
    <3>1. ASSUME NEW k \in Kinds PROVE ConstructRoleStatus(k, works[k]) \in [replicas : Counts, ready : Counts]
      BY DEF KindTypeOK, ConstructRoleStatus, NoCounts, Counts, Workload, LeaderWorkerSetStatus,
             ConstructWorkloadRoleStatus
    <3> QED BY <1>1, <3>1 DEF KindPass, KindTypeOK, KindGroup
  <2>2. ReconcileHeadlessService(kindGroup.kind) \in HeadlessService \cup {None}
    BY DEF ReconcileHeadlessService, HeadlessService, KindTypeOK, KindGroup
  <2>3. service' \in HeadlessService \cup {None}
    BY <1>1, <1>u, <2>2 DEF KindPass, KindTypeOK
  <2>4. router' \in Owners \cup {None} BY <1>1 DEF KindPass, KindTypeOK, KindGroup, Owners
  <2>5. kindQueued' \in BOOLEAN BY <1>1 DEF KindPass, KindTypeOK
  <2>6. works' \in [Kinds -> Workload \cup {None}] /\ UNCHANGED <<kindGroup, serviceLost, kindBudget>>
    BY <1>1, PassWrites
  <2> QED BY <2>1, <2>3, <2>4, <2>5, <2>6 DEF KindTypeOK
<1>2. ASSUME NEW k \in Kinds, Observe(k) \/ AllReady(k) PROVE KindTypeOK'
  BY <1>2, <1>r, ReportedWorkload
<1>4. ASSUME NEW k \in Kinds, CollectWork(k) PROVE KindTypeOK'
  BY <1>d, <1>u, <1>4 DEF CollectWork, KindTypeOK
<1>5. CASE CollectRouter
  BY <1>5 DEF CollectRouter, KindTypeOK
<1>6. CASE CollectService
  BY <1>6 DEF CollectService, KindTypeOK
<1>7. CASE ChangeKindGroup
  <2>1. kindGroup' \in KindGroup
    BY <1>7 DEF ChangeKindGroup, KindTypeOK, KindGroup, Kinds
  <2> QED BY <1>b, <1>7, <2>1 DEF ChangeKindGroup, KindTypeOK
<1>8. ASSUME NEW o \in BOOLEAN, RecreateKindGroup(o) PROVE KindTypeOK'
  <2> DEFINE Left(owner) == IF o /\ owner = kindGroup.uid THEN Orphan ELSE owner
  <2>1. kindGroup' \in KindGroup
    BY <1>8 DEF RecreateKindGroup, KindTypeOK, KindGroup
  <2>2. \A k \in Kinds : works[k] # None => [works[k] EXCEPT !.owner = Left(@)] \in Workload
    BY DEF KindTypeOK, Workload, Owners
  <2>3. works' \in [Kinds -> Workload \cup {None}] BY <1>8, <2>2 DEF RecreateKindGroup
  <2>4. router' \in Owners \cup {None} BY <1>8 DEF RecreateKindGroup, KindTypeOK, Owners
  <2>5. roleStatus' \in [replicas : Counts, ready : Counts] BY <1>8 DEF RecreateKindGroup, NoCounts, Counts
  <2> QED BY <1>b, <1>8, <2>1, <2>3, <2>4, <2>5 DEF RecreateKindGroup, KindTypeOK
<1>9. CASE DeleteWork
  BY <1>b, <1>d, <1>u, <1>9 DEF DeleteWork, KindTypeOK
<1> QED BY <1>1, <1>2, <1>4, <1>5, <1>6, <1>7, <1>8, <1>9, KindNext DEF KindNext, KindWorld

\* What is left over depends on who owns the workloads of other kinds.
LEMMA SameLeftovers ==
  ASSUME KindTypeOK, LeftByMigration,
         kindGroup'.kind = kindGroup.kind \/ kindGroup'.kind = "RoleInstanceSet",
         kindGroup'.kind # "RoleInstanceSet" =>
           \A k \in Kinds \ {kindGroup'.kind} :
             works'[k] = None \/ works'[k].owner # kindGroup'.uid
  PROVE  LeftByMigration'
BY DEF LeftByMigration, OrphanedWorkloads, OrphanedObjs, OrphanedDeployments, OrphanedLeaderWorkerSets,
       IsLeftover, Kinds

LEMMA LeftoverOwner ==
  ASSUME KindTypeOK, NEW k \in Kinds
  PROVE  k \in OrphanedWorkloads <=> k # kindGroup.kind /\ works[k] # None /\ works[k].owner = kindGroup.uid
BY DEF OrphanedWorkloads, OrphanedObjs, OrphanedDeployments, OrphanedLeaderWorkerSets, IsLeftover, Kinds

LEMMA LeftoverStep ==
  ASSUME KindInv, KindNext
  PROVE  LeftByMigration'
<1> USE KindAssumption DEF KindInv
<1>0. kindGroup.kind # "RoleInstanceSet" =>
        \A k \in Kinds \ {kindGroup.kind} : works[k] = None \/ works[k].owner # kindGroup.uid
  BY LeftoverOwner DEF LeftByMigration
\* No workload of another kind changes hands, and the group stays.
<1>1. ASSUME kindGroup' = kindGroup,
             \A k \in Kinds \ {kindGroup.kind} :
               works'[k] = works[k] \/ works'[k] = None
                 \/ (works'[k].owner = works[k].owner /\ works[k] # None)
      PROVE  LeftByMigration'
  BY <1>0, <1>1, SameLeftovers
<1>2. CASE KindPass
  BY <1>1, <1>2, PassWrites
<1>3. ASSUME NEW k \in Kinds, NEW w, w.owner = works[k].owner, works[k] # None, Reports(k, w)
      PROVE  LeftByMigration'
  <2>1. works'[k] = w /\ \A j \in Kinds \ {k} : works'[j] = works[j] BY <1>3 DEF Reports, KindTypeOK
  <2> QED BY <1>1, <1>3, <2>1 DEF Reports
<1>4. ASSUME NEW k \in Kinds, Observe(k) \/ AllReady(k) PROVE LeftByMigration'
  BY <1>3, <1>4, ReportedWorkload
<1>5. ASSUME NEW S, Deletes(S, works), kindGroup' = kindGroup PROVE LeftByMigration'
  <2>1. \A k \in Kinds : works'[k] = works[k] \/ works'[k] = None BY <1>5 DEF Deletes
  <2> QED BY <1>1, <1>5, <2>1
<1>6. ASSUME UNCHANGED <<kindGroup, works>> PROVE LeftByMigration'
  BY <1>1, <1>6
<1>7. CASE ChangeKindGroup
  <2>1. /\ kindGroup'.kind = kindGroup.kind \/ kindGroup'.kind = "RoleInstanceSet"
        /\ kindGroup'.uid = kindGroup.uid /\ works' = works
    BY <1>7 DEF ChangeKindGroup, KindTypeOK, KindGroup
  <2> QED BY <1>0, <2>1, SameLeftovers
<1>8. ASSUME NEW o \in BOOLEAN, RecreateKindGroup(o) PROVE LeftByMigration'
  <2>1. PICK u \in KindUids : /\ \A k \in Kinds : works[k] # None => works[k].owner # u
                              /\ kindGroup' = [kindGroup EXCEPT !.uid = u]
    BY <1>8 DEF RecreateKindGroup
  <2>2. kindGroup'.uid = u /\ kindGroup'.kind = kindGroup.kind BY <2>1 DEF KindTypeOK
  <2>3. ASSUME NEW k \in Kinds, works[k] # None PROVE works'[k].owner \in {Orphan, works[k].owner}
    <3>1. works[k] \in Workload BY <2>3 DEF KindTypeOK
    <3>2. PICK x \in {Orphan, works[k].owner} : works'[k] = [works[k] EXCEPT !.owner = x]
      BY <1>8, <2>3 DEF RecreateKindGroup
    <3> QED BY <3>1, <3>2 DEF Workload
  <2>4. \A k \in Kinds : works[k] = None => works'[k] = None BY <1>8 DEF RecreateKindGroup
  <2>5. \A k \in Kinds : works'[k] = None \/ works'[k].owner # u BY <2>1, <2>3, <2>4
  <2> QED BY <2>2, <2>5, SameLeftovers
<1>9. CASE DeleteWork \/ \E k \in Kinds : CollectWork(k)
  BY <1>5, <1>9 DEF DeleteWork, CollectWork
<1>10. CASE CollectRouter \/ CollectService
  BY <1>6, <1>10 DEF CollectRouter, CollectService
<1> QED BY <1>2, <1>4, <1>7, <1>8, <1>9, <1>10, KindNext DEF KindNext, KindWorld

LEMMA KindInitial ==
  ASSUME KindInit
  PROVE  KindInv
<1> USE KindAssumption
<1>1. PICK k \in Kinds, n \in KindSizes, u \in {CHOOSE u \in KindUids : TRUE}, dependent \in BOOLEAN :
        /\ kindGroup = [uid |-> u, kind |-> k, size |-> n, gangFits |-> TRUE, dependent |-> dependent]
        /\ works = [j \in Kinds |->
                      IF j = k THEN [owner |-> u, size |-> n, observed |-> TRUE,
                                     status |-> [replicas |-> n, ready |-> n]] ELSE None]
        /\ router = IF dependent THEN u ELSE None
        /\ roleStatus = [replicas |-> n, ready |-> n]
        /\ service = IF k \in WithService THEN [of |-> k, size |-> n] ELSE None
        /\ serviceLost = FALSE /\ kindQueued = FALSE /\ kindBudget = KindBudget
  BY DEF KindInit
<1>2. u \in KindUids OBVIOUS
<1>3. works \in [Kinds -> Workload \cup {None}] BY <1>1, <1>2 DEF Workload, Owners, Counts
<1>4. service \in HeadlessService \cup {None} BY <1>1 DEF HeadlessService
<1>5. kindBudget \in 0 .. KindBudget BY <1>1
<1>6. KindTypeOK BY <1>1, <1>2, <1>3, <1>4, <1>5 DEF KindTypeOK, KindGroup, Owners, Counts
<1>7. \A j \in Kinds : j # kindGroup.kind => works[j] = None BY <1>1
<1>8. LeftByMigration
  BY <1>7 DEF LeftByMigration, OrphanedWorkloads, OrphanedObjs, OrphanedDeployments,
              OrphanedLeaderWorkerSets, IsLeftover, Kinds
<1> QED BY <1>6, <1>8 DEF KindInv

\* The workloads, services and the role keep their types, and a leftover of
\* another kind is there for CleanupOrphanedWorkloads only while the role is a
\* RoleInstanceSet: admission lets a role leave the deprecated kinds and never
\* return to one.
THEOREM KindInvariant == KindSpec => []KindInv
<1>1. KindInit => KindInv BY KindInitial
<1>2. KindInv /\ [KindNext]_kindVars => KindInv'
  <2>1. ASSUME KindInv, KindNext PROVE KindInv'
    BY <2>1, KindTypeStep, LeftoverStep DEF KindInv
  <2>2. ASSUME KindInv, UNCHANGED kindVars PROVE KindInv'
    BY <2>2 DEF KindInv, KindTypeOK, LeftByMigration, OrphanedWorkloads, OrphanedObjs,
                OrphanedDeployments, OrphanedLeaderWorkerSets, IsLeftover, kindVars
  <2> QED BY <2>1, <2>2
<1> QED BY <1>1, <1>2, PTL DEF KindSpec

\* No pass takes over a workload that another incarnation of the group controls
\* (checkWorkloadClaimable), whichever of the four kinds it is.
THEOREM ForeignWorkloadsKept == KindSpec => ForeignKept
<1> USE KindAssumption
<1> DEFINE A == \A k \in Kinds :
       (works[k] # None /\ works'[k] # None /\ kindGroup' = kindGroup)
         => \/ works'[k].owner = works[k].owner
            \/ works[k].owner = Orphan /\ works'[k].owner = kindGroup.uid
<1>1. KindInv /\ [KindNext]_kindVars => [A]_kindVars
  <2> SUFFICES ASSUME KindInv, KindNext, NEW k \in Kinds, works[k] # None, works'[k] # None,
                      kindGroup' = kindGroup
               PROVE  \/ works'[k].owner = works[k].owner
                      \/ works[k].owner = Orphan /\ works'[k].owner = kindGroup.uid
    OBVIOUS
  <2>1. CASE KindPass
    <3>1. CASE k # kindGroup.kind
      BY <2>1, <3>1, PassWrites DEF KindInv
    <3>2. CASE k = kindGroup.kind
      <4>1. works[k] \in Workload BY DEF KindInv, KindTypeOK
      <4>2. works'[k] = works[k] \/ (works'[k] = Reconciled(k, works[k]) /\ Claimable(works[k]))
        BY <2>1, <3>2, PassWrites DEF KindInv
      <4>3. Claimable(works[k]) => Reconciled(k, works[k]).owner = kindGroup.uid
        BY <4>1, ReconciledWorkload DEF KindInv
      <4>4. Claimable(works[k]) => works[k].owner \in {Orphan, kindGroup.uid}
        BY DEF Claimable, CheckWorkloadClaimable
      <4> QED BY <4>2, <4>3, <4>4
    <3> QED BY <3>1, <3>2
  <2>2. ASSUME NEW j \in Kinds, Observe(j) \/ AllReady(j)
        PROVE  works'[k].owner = works[k].owner
    <3>1. PICK w \in Workload : w.owner = works[j].owner /\ Reports(j, w)
      BY <2>2, ReportedWorkload DEF KindInv
    <3> QED BY <3>1 DEF Reports, KindInv, KindTypeOK
  <2>3. CASE DeleteWork \/ \E j \in Kinds : CollectWork(j)
    BY <2>3 DEF DeleteWork, CollectWork, Deletes
  <2>4. CASE CollectRouter \/ CollectService \/ ChangeKindGroup
    BY <2>4 DEF CollectRouter, CollectService, ChangeKindGroup
  <2>5. ASSUME NEW o \in BOOLEAN, RecreateKindGroup(o) PROVE FALSE
    BY <2>5 DEF RecreateKindGroup, KindInv, KindTypeOK
  <2> QED BY <2>1, <2>2, <2>3, <2>4, <2>5, KindNext DEF KindNext, KindWorld
<1> QED BY <1>1, KindInvariant, PTL DEF KindSpec, ForeignKept

-----------------------------------------------------------------------------
(***************************************************************************)
(* PodIdentity, for every number of slots, ports, nodes and incarnations   *)
(* and every in-place scheduling.                                          *)
(***************************************************************************)
\* A ready pod has a node that counts among those of its group; a pinned one
\* can only go to such nodes, the ones to avoid left out.
HostedPods ==
  \A s \in Slots : idPods[s] # None =>
    /\ idPods[s].ready => idPods[s].node # None /\ idPods[s].node \in hosted[idPods[s].group]
    /\ idPods[s].pinned =>
         /\ idPods[s].terms # {}
         /\ \A t \in idPods[s].terms : t \subseteq hosted[idPods[s].group] \ sched.avoid
         /\ idPods[s].node \in {None} \cup (hosted[idPods[s].group] \ sched.avoid)

\* The store only names nodes that hosted the group.
HostedBindings == \A g \in GroupUids, k \in Keys : bindings[g][k] \subseteq hosted[g]

\* Every copy of an incarnation, and every pod of it, has the ports that it
\* was granted.
GrantedPorts ==
  /\ inst # None => inst.ports = granted[inst.uid]
  /\ instSeen # None => instSeen.ports = granted[instSeen.uid]
  /\ \A s \in Slots : idPods[s] # None =>
       granted[idPods[s].owner] # None /\ idPods[s].port = granted[idPods[s].owner][s]

\* Every copy of an incarnation, and every pod of it, is of one group.
GroupsBy(f) ==
  /\ inst # None => inst.group = f[inst.uid]
  /\ instSeen # None => instSeen.group = f[instSeen.uid]
  /\ \A s \in Slots : idPods[s] # None => idPods[s].group = f[idPods[s].owner]
OneGroup == \E f \in [InstUids -> GroupUids] : GroupsBy(f)

IdInv == IdTypeOK /\ HostedPods /\ HostedBindings /\ GrantedPorts /\ OneGroup

(***************************************************************************)
(* Types.                                                                  *)
(***************************************************************************)
\* What a pass records is nodes, under the keys of one group.
LEMMA RecordedType ==
  ASSUME IdTypeOK, NEW i \in Instance,
         HostedPods
  PROVE  RecordNodeBindings(i) \in [GroupUids -> [Keys -> SUBSET Nodes]]
<1>1. i.group \in GroupUids BY DEF Instance
<1>2. ASSUME NEW k \in Keys, NEW s \in Recordable(i)
      PROVE  idPods[s].node \in Nodes
  BY <1>2 DEF IdTypeOK, HostedPods, Recordable, IdPod
<1> DEFINE new == [k \in Keys |-> bindings[i.group][k] \cup
                     {idPods[s].node : s \in {t \in Recordable(i) : BuildKey(t) = k}}]
<1>3. new \in [Keys -> SUBSET Nodes] BY <1>1, <1>2 DEF IdTypeOK
<1>4. RecordNodeBindings(i) = [bindings EXCEPT ![i.group] = new]
  BY <1>1 DEF RecordNodeBindings, IdTypeOK
<1> HIDE DEF new
<1> QED BY <1>3, <1>4 DEF IdTypeOK

\* An affinity stays a set of sets of nodes.
LEMMA TermsType ==
  ASSUME IdTypeOK, NEW bound \in SUBSET Nodes
  PROVE  InjectInPlaceScheduling(bound) \in SUBSET SUBSET Nodes
<1>1. sched.terms \in SUBSET SUBSET Nodes /\ sched.avoid \in SUBSET Nodes
  BY SchedulingAssumption DEF IdTypeOK, Scheduling
<1>2. \A nodes \in SUBSET Nodes : FoldIntoRequired(sched.terms, nodes) \in SUBSET SUBSET Nodes
  BY <1>1 DEF FoldIntoRequired
<1>3. Unavoided \in SUBSET Nodes /\ bound \cap Unavoided \in SUBSET Nodes BY DEF Unavoided
<1> QED BY <1>1, <1>2, <1>3 DEF InjectInPlaceScheduling

-----------------------------------------------------------------------------
LEMMA IdTypeStep ==
  ASSUME IdTypeOK, HostedPods, IdNext
  PROVE  IdTypeOK'
<1> USE DEF IdTypeOK
<1>a. sched.budget \in Nat BY SchedulingAssumption DEF Scheduling
<1>b. SpendOnId => idBudget' \in 0 .. sched.budget BY <1>a DEF SpendOnId
<1>1. CASE ApplySet
  BY <1>1 DEF ApplySet, AllocateRoleScopedPortAnnotations, AllocateBatch
<1>2. CASE NewInstance
  <2>1. PICK ports \in AllocatePodScopedPorts("pod" \in template),
             u \in {CHOOSE u \in InstUids : granted[u] = None} :
          /\ inst' = [uid |-> u, group |-> idGroup, config |-> template, ports |-> ports,
                      rolePort |-> RoleScopedPort(template)]
          /\ granted' = [granted EXCEPT ![u] = ports]
    BY <1>2 DEF NewInstance
  <2>2. u \in InstUids BY <1>2 DEF NewInstance
  <2>3. ports \in Assigned BY DEF AllocatePodScopedPorts, AllocateBatch, Assigned
  <2>4. RoleScopedPort(template) \in Ports \cup {None} BY <1>2 DEF NewInstance, RoleScopedPort
  <2>5. idGroup \in GroupUids BY <1>2 DEF NewInstance
  <2>6. inst' \in Instance BY <2>1, <2>2, <2>3, <2>4, <2>5 DEF Instance
  <2> QED BY <1>2, <2>1, <2>2, <2>3, <2>6 DEF NewInstance
<1>3. CASE UpdateInstance
  BY <1>3 DEF UpdateInstance, Instance
<1>4. CASE PassOfInstance
  <2> DEFINE store == RecordNodeBindings(instSeen)
  <2>1. instSeen \in Instance BY <1>4 DEF PassOfInstance
  <2>2. store \in [GroupUids -> [Keys -> SUBSET Nodes]] BY <2>1, RecordedType
  <2>3. \A s \in Slots : BuildKey(s) \in Keys BY DEF BuildKey, Keys
  <2>4. instSeen.group \in GroupUids BY <2>1 DEF Instance
  <2>5. \A s \in Slots : store[instSeen.group][BuildKey(s)] \in SUBSET Nodes
    BY <2>2, <2>3, <2>4
  <2>6. \A s \in Slots :
          InjectInPlaceScheduling(store[instSeen.group][BuildKey(s)]) \in SUBSET SUBSET Nodes
    BY <2>5, TermsType
  <2> HIDE DEF store
  <2>7. ASSUME NEW s \in Slots
        PROVE [owner |-> instSeen.uid, group |-> instSeen.group, port |-> instSeen.ports[s],
               terms |-> InjectInPlaceScheduling(store[instSeen.group][BuildKey(s)]),
               pinned |-> sched.mode = "Required" /\ store[instSeen.group][BuildKey(s)] # {},
               node |-> None, ready |-> FALSE] \in IdPod
    BY <2>1, <2>6 DEF Instance, Assigned, IdPod
  <2>8. bindings' = store /\ idPods' \in [Slots -> IdPod \cup {None}]
    BY <1>4, <2>7 DEF PassOfInstance, store
  <2> QED BY <1>4, <2>2, <2>8 DEF PassOfInstance
<1>5. CASE DeliverInst
  BY <1>5 DEF DeliverInst
<1>6. ASSUME NEW g \in GroupUids, EvictByUID(g) PROVE IdTypeOK'
  BY <1>6 DEF EvictByUID
<1>7. CASE CollectOwned
  BY <1>7 DEF CollectOwned
<1>8. ASSUME NEW s \in Slots, Schedule(s) PROVE IdTypeOK'
  <2>1. PICK n \in Schedulable(idPods[s].terms) : OnlyPod(s, [idPods[s] EXCEPT !.node = n])
    BY <1>8 DEF Schedule
  <2>2. idPods[s] \in IdPod BY <1>8 DEF Schedule
  <2>3. n \in Nodes BY <2>2 DEF Schedulable, IdPod
  <2>4. [idPods[s] EXCEPT !.node = n] \in IdPod BY <2>2, <2>3 DEF IdPod
  <2> QED BY <1>8, <2>1, <2>4 DEF Schedule, OnlyPod
<1>9. ASSUME NEW s \in Slots, BecomeReadyPod(s) PROVE IdTypeOK'
  <2>1. idPods[s] \in IdPod BY <1>9 DEF BecomeReadyPod
  <2>2. [idPods[s] EXCEPT !.ready = TRUE] \in IdPod BY <2>1 DEF IdPod
  <2>3. idPods[s].group \in GroupUids /\ idPods[s].node \in Nodes
    BY <1>9, <2>1 DEF IdPod, BecomeReadyPod
  <2> QED BY <1>9, <2>2, <2>3 DEF BecomeReadyPod, OnlyPod
<1>10. ASSUME NEW s \in Slots, CollectPod(s) PROVE IdTypeOK'
  BY <1>10 DEF CollectPod, OnlyPod
<1>11. ASSUME NEW s \in Slots, KillPod(s) PROVE IdTypeOK'
  BY <1>11, <1>b DEF KillPod, OnlyPod
<1>12. CASE DeleteInstance
  BY <1>12, <1>b DEF DeleteInstance
<1>13. CASE ChangeTemplate
  BY <1>13, <1>b, SchedulingAssumption DEF ChangeTemplate, Scheduling
<1>14. CASE DeleteGroup
  BY <1>14, <1>b DEF DeleteGroup
<1>15. CASE CreateGroup
  BY <1>15 DEF CreateGroup
<1>16. CASE RestartManager
  BY <1>16, <1>b DEF RestartManager
<1> QED BY <1>1, <1>2, <1>3, <1>4, <1>5, <1>6, <1>7, <1>8, <1>9, <1>10, <1>11, <1>12, <1>13,
           <1>14, <1>15, <1>16, IdNext DEF IdNext, IdControllers, IdDeliveries, IdWorld

-----------------------------------------------------------------------------
\* A new incarnation is one that nothing was granted to yet.
LEMMA FreshIncarnation ==
  ASSUME NewInstance
  PROVE  \E u \in InstUids, ports \in AllocatePodScopedPorts("pod" \in template) :
           /\ granted[u] = None
           /\ inst' = [uid |-> u, group |-> idGroup, config |-> template, ports |-> ports,
                       rolePort |-> RoleScopedPort(template)]
           /\ granted' = [granted EXCEPT ![u] = ports]
<1>1. PICK ports \in AllocatePodScopedPorts("pod" \in template),
           u \in {CHOOSE u \in InstUids : granted[u] = None} :
        /\ inst' = [uid |-> u, group |-> idGroup, config |-> template, ports |-> ports,
                    rolePort |-> RoleScopedPort(template)]
        /\ granted' = [granted EXCEPT ![u] = ports]
  BY DEF NewInstance
<1>2. u \in InstUids /\ granted[u] = None BY DEF NewInstance
<1> QED BY <1>1, <1>2

\* Pods that a pass creates are of the informer's copy of the instance, and it
\* leaves the others alone.
LEMMA PodsOfPass ==
  ASSUME IdTypeOK, PassOfInstance, NEW s \in Slots
  PROVE  /\ instSeen \in Instance
         /\ \/ idPods'[s] = idPods[s]
            \/ /\ idPods[s] = None
               /\ idPods'[s].owner = instSeen.uid /\ idPods'[s].group = instSeen.group
               /\ idPods'[s].port = instSeen.ports[s]
               /\ idPods'[s].terms = InjectInPlaceScheduling(bindings'[instSeen.group][BuildKey(s)])
               /\ idPods'[s].pinned = (sched.mode = "Required" /\ bindings'[instSeen.group][BuildKey(s)] # {})
               /\ idPods'[s].node = None /\ idPods'[s].ready = FALSE
BY DEF PassOfInstance, IdTypeOK

LEMMA GrantedStep ==
  ASSUME IdTypeOK, GrantedPorts, IdNext
  PROVE  GrantedPorts'
<1> USE DEF GrantedPorts
<1>1. CASE NewInstance
  <2>1. PICK u \in InstUids, ports \in AllocatePodScopedPorts("pod" \in template) :
           /\ granted[u] = None
           /\ inst' = [uid |-> u, group |-> idGroup, config |-> template, ports |-> ports,
                       rolePort |-> RoleScopedPort(template)]
           /\ granted' = [granted EXCEPT ![u] = ports]
    BY <1>1, FreshIncarnation
  <2>2. UNCHANGED <<instSeen, idPods>> BY <1>1 DEF NewInstance
  <2>3. granted'[u] = ports /\ \A v \in InstUids : v # u => granted'[v] = granted[v]
    BY <2>1 DEF IdTypeOK
  <2>4. instSeen # None => instSeen.uid # u /\ instSeen.uid \in InstUids
    BY <2>1, AbsenceAssumption DEF IdTypeOK, Instance
  <2>5. \A s \in Slots : idPods[s] # None => idPods[s].owner # u /\ idPods[s].owner \in InstUids
    BY <2>1 DEF IdTypeOK, IdPod
  <2> QED BY <2>1, <2>2, <2>3, <2>4, <2>5
<1>2. CASE UpdateInstance
  BY <1>2 DEF UpdateInstance, IdTypeOK, Instance
<1>3. CASE PassOfInstance
  <2>1. UNCHANGED <<inst, instSeen, granted>> BY <1>3 DEF PassOfInstance
  <2>2. instSeen \in Instance /\ instSeen.ports = granted[instSeen.uid]
    BY <1>3 DEF PassOfInstance, IdTypeOK
  <2>3. granted[instSeen.uid] # None BY <2>2, AbsenceAssumption DEF Instance
  <2>4. ASSUME NEW s \in Slots, idPods'[s] # None
        PROVE  granted[idPods'[s].owner] # None /\ idPods'[s].port = granted[idPods'[s].owner][s]
    <3>1. \/ idPods'[s] = idPods[s]
          \/ idPods'[s].owner = instSeen.uid /\ idPods'[s].port = instSeen.ports[s]
      BY <1>3, PodsOfPass, Zenon
    <3> QED BY <2>2, <2>3, <2>4, <3>1
  <2> QED BY <2>1, <2>4
<1>4. CASE DeliverInst
  BY <1>4 DEF DeliverInst
<1>5. ASSUME NEW s \in Slots, NEW p, OnlyPod(s, p), UNCHANGED granted,
             p # None => idPods[s] # None /\ p.owner = idPods[s].owner /\ p.port = idPods[s].port
      PROVE  GrantedPorts'
  BY <1>5 DEF OnlyPod, IdTypeOK
<1>6. ASSUME NEW s \in Slots, Schedule(s) \/ BecomeReadyPod(s) \/ CollectPod(s) \/ KillPod(s)
      PROVE  GrantedPorts'
  <2>1. CASE Schedule(s)
    BY <2>1, <1>5 DEF Schedule, OnlyPod, IdTypeOK, IdPod
  <2>2. CASE BecomeReadyPod(s)
    BY <2>2, <1>5 DEF BecomeReadyPod, OnlyPod, IdTypeOK, IdPod
  <2>3. CASE CollectPod(s) \/ KillPod(s)
    BY <2>3, <1>5 DEF CollectPod, KillPod, OnlyPod
  <2> QED BY <1>6, <2>1, <2>2, <2>3
<1>7. CASE CollectOwned
  BY <1>7 DEF CollectOwned
<1>8. CASE DeleteInstance
  BY <1>8 DEF DeleteInstance
<1>9. CASE UNCHANGED <<inst, instSeen, idPods, granted>>
  BY <1>9
<1>10. CASE \/ ApplySet \/ ChangeTemplate \/ DeleteGroup \/ CreateGroup \/ RestartManager
            \/ \E g \in GroupUids : EvictByUID(g)
  BY <1>9, <1>10 DEF ApplySet, ChangeTemplate, DeleteGroup, CreateGroup, RestartManager, EvictByUID
<1> QED BY <1>1, <1>2, <1>3, <1>4, <1>6, <1>7, <1>8, <1>10, IdNext
        DEF IdNext, IdControllers, IdDeliveries, IdWorld

LEMMA OneGroupStep ==
  ASSUME IdTypeOK, GrantedPorts, OneGroup, IdNext
  PROVE  OneGroup'
<1>0. PICK f \in [InstUids -> GroupUids] : GroupsBy(f) BY DEF OneGroup
<1> SUFFICES \E h \in [InstUids -> GroupUids] : GroupsBy(h)' BY DEF OneGroup
<1> USE DEF GroupsBy
<1>1. CASE NewInstance
  <2>1. PICK u \in InstUids, ports \in AllocatePodScopedPorts("pod" \in template) :
           /\ granted[u] = None
           /\ inst' = [uid |-> u, group |-> idGroup, config |-> template, ports |-> ports,
                       rolePort |-> RoleScopedPort(template)]
           /\ granted' = [granted EXCEPT ![u] = ports]
    BY <1>1, FreshIncarnation
  <2>2. UNCHANGED <<instSeen, idPods>> /\ idGroup \in GroupUids
    BY <1>1 DEF NewInstance, IdTypeOK
  <2>3. instSeen # None => instSeen.uid # u /\ instSeen.uid \in InstUids
    BY <2>1, AbsenceAssumption DEF IdTypeOK, Instance, GrantedPorts
  <2>4. \A s \in Slots : idPods[s] # None => idPods[s].owner # u /\ idPods[s].owner \in InstUids
    BY <2>1 DEF IdTypeOK, IdPod, GrantedPorts
  <2>5. PICK h \in [InstUids -> GroupUids] : h = [f EXCEPT ![u] = idGroup] BY <2>1, <2>2
  <2>6. h[u] = idGroup /\ \A v \in InstUids : v # u => h[v] = f[v] BY <2>1, <2>5
  <2>7. GroupsBy(h)' BY <1>0, <2>1, <2>2, <2>3, <2>4, <2>6
  <2> QED BY <2>7
<1>2. CASE UpdateInstance
  BY <1>0, <1>2 DEF UpdateInstance, IdTypeOK, Instance
<1>3. CASE PassOfInstance
  <2>1. UNCHANGED <<inst, instSeen>> /\ instSeen # None BY <1>3 DEF PassOfInstance
  <2>2. ASSUME NEW s \in Slots, idPods'[s] # None
        PROVE  idPods'[s].group = f[idPods'[s].owner]
    <3>1. \/ idPods'[s] = idPods[s]
          \/ idPods'[s].owner = instSeen.uid /\ idPods'[s].group = instSeen.group
      BY <1>3, PodsOfPass, Zenon
    <3> QED BY <1>0, <2>1, <2>2, <3>1
  <2> QED BY <1>0, <2>1, <2>2
<1>4. CASE DeliverInst
  BY <1>0, <1>4 DEF DeliverInst
<1>5. ASSUME NEW s \in Slots, NEW p, OnlyPod(s, p),
             p # None => idPods[s] # None /\ p.owner = idPods[s].owner /\ p.group = idPods[s].group
      PROVE  GroupsBy(f)'
  BY <1>0, <1>5 DEF OnlyPod, IdTypeOK
<1>6. ASSUME NEW s \in Slots, Schedule(s) \/ BecomeReadyPod(s) \/ CollectPod(s) \/ KillPod(s)
      PROVE  GroupsBy(f)'
  <2>1. CASE Schedule(s)
    BY <2>1, <1>5 DEF Schedule, IdTypeOK, IdPod
  <2>2. CASE BecomeReadyPod(s)
    BY <2>2, <1>5 DEF BecomeReadyPod, IdTypeOK, IdPod
  <2>3. CASE CollectPod(s) \/ KillPod(s)
    BY <2>3, <1>5 DEF CollectPod, KillPod
  <2> QED BY <1>6, <2>1, <2>2, <2>3
<1>7. CASE CollectOwned
  BY <1>0, <1>7 DEF CollectOwned
<1>8. CASE DeleteInstance
  BY <1>0, <1>8 DEF DeleteInstance
<1>9. CASE UNCHANGED <<inst, instSeen, idPods>>
  BY <1>0, <1>9
<1>10. CASE \/ ApplySet \/ ChangeTemplate \/ DeleteGroup \/ CreateGroup \/ RestartManager
            \/ \E g \in GroupUids : EvictByUID(g)
  BY <1>9, <1>10 DEF ApplySet, ChangeTemplate, DeleteGroup, CreateGroup, RestartManager, EvictByUID
<1> QED BY <1>1, <1>2, <1>3, <1>4, <1>6, <1>7, <1>8, <1>10, IdNext
        DEF IdNext, IdControllers, IdDeliveries, IdWorld

\* foldIntoRequired leaves a pinned pod nothing but bound nodes, whatever
\* affinity the template has.
LEMMA PinnedTerms ==
  ASSUME IdTypeOK, NEW bound, sched.mode = "Required", bound # {}
  PROVE  /\ InjectInPlaceScheduling(bound) # {}
         /\ \A t \in InjectInPlaceScheduling(bound) : t \subseteq bound \ sched.avoid
<1>1. InjectInPlaceScheduling(bound) = FoldIntoRequired(sched.terms, bound \cap Unavoided)
  BY Zenon DEF InjectInPlaceScheduling
<1> DEFINE free == bound \cap Unavoided
<1>2. free \subseteq bound \ sched.avoid BY DEF Unavoided
<1> HIDE DEF free
<1>3. CASE sched.terms = {}
  <2>1. InjectInPlaceScheduling(bound) = {free} BY <1>1, <1>3 DEF FoldIntoRequired, free
  <2> QED BY <1>2, <2>1
<1>4. CASE sched.terms # {}
  <2>1. InjectInPlaceScheduling(bound) = {t \cap free : t \in sched.terms}
    BY <1>1, <1>4 DEF FoldIntoRequired, free
  <2> QED BY <1>2, <1>4, <2>1
<1> QED BY <1>3, <1>4

LEMMA HostedStep ==
  ASSUME IdTypeOK, HostedPods, HostedBindings, OneGroup, IdNext
  PROVE  HostedPods' /\ HostedBindings'
<1>0. PICK f \in [InstUids -> GroupUids] : GroupsBy(f) BY DEF OneGroup
<1> USE DEF HostedPods, HostedBindings
<1>1. CASE PassOfInstance
  <2> DEFINE g == instSeen.group
  <2>1. UNCHANGED <<sched, hosted>> /\ bindings' = RecordNodeBindings(instSeen)
    BY <1>1 DEF PassOfInstance
  <2>2. instSeen \in Instance /\ g \in GroupUids BY <1>1 DEF PassOfInstance, IdTypeOK, Instance
  <2>3. \A s \in Recordable(instSeen) : idPods[s].node \in hosted[g]
    BY <1>0, <1>1 DEF Recordable, GroupsBy, PassOfInstance
  <2>4. /\ \A k \in Keys : bindings'[g][k] =
                bindings[g][k] \cup {idPods[s].node : s \in {t \in Recordable(instSeen) : BuildKey(t) = k}}
        /\ \A h \in GroupUids \ {g} : bindings'[h] = bindings[h]
    BY <2>1, <2>2 DEF RecordNodeBindings, IdTypeOK
  <2>5. HostedBindings'
    <3>1. \A k \in Keys : bindings'[g][k] \subseteq hosted[g] BY <2>2, <2>3, <2>4
    <3> QED BY <2>1, <2>4, <3>1
  <2>6. ASSUME NEW s \in Slots, idPods'[s] # None
        PROVE  /\ idPods'[s].ready =>
                    idPods'[s].node # None /\ idPods'[s].node \in hosted[idPods'[s].group]
               /\ idPods'[s].pinned =>
                    /\ idPods'[s].terms # {}
                    /\ \A t \in idPods'[s].terms : t \subseteq hosted[idPods'[s].group] \ sched.avoid
                    /\ idPods'[s].node \in {None} \cup (hosted[idPods'[s].group] \ sched.avoid)
    <3> DEFINE bound == bindings'[g][BuildKey(s)]
    <3>1. CASE idPods'[s] = idPods[s]
      BY <2>6, <3>1
    <3>2. CASE /\ idPods'[s].group = g /\ idPods'[s].node = None /\ idPods'[s].ready = FALSE
               /\ idPods'[s].terms = InjectInPlaceScheduling(bound)
               /\ idPods'[s].pinned = (sched.mode = "Required" /\ bound # {})
      <4>1. BuildKey(s) \in Keys BY DEF BuildKey, Keys
      <4>2. bound \subseteq hosted[g] BY <2>1, <2>2, <2>5, <4>1
      <4> HIDE DEF bound, g
      <4>3. ASSUME sched.mode = "Required", bound # {}
            PROVE  /\ idPods'[s].terms # {}
                   /\ \A t \in idPods'[s].terms : t \subseteq bound \ sched.avoid
        <5>1. /\ InjectInPlaceScheduling(bound) # {}
              /\ \A t \in InjectInPlaceScheduling(bound) : t \subseteq bound \ sched.avoid
          BY <4>3, PinnedTerms, Zenon
        <5> QED BY <3>2, <5>1
      <4> QED BY <3>2, <4>2, <4>3
    <3> QED BY <1>1, <3>1, <3>2, PodsOfPass, Zenon
  <2> QED BY <2>1, <2>5, <2>6
<1>2. ASSUME NEW s \in Slots, Schedule(s) PROVE HostedPods' /\ HostedBindings'
  <2>1. PICK n \in Schedulable(idPods[s].terms) : idPods' = [idPods EXCEPT ![s] = [@ EXCEPT !.node = n]]
    BY <1>2 DEF Schedule, OnlyPod
  <2>2. idPods[s] \in IdPod /\ UNCHANGED <<sched, hosted, bindings>>
    BY <1>2 DEF Schedule, OnlyPod, IdTypeOK
  <2>3. idPods[s].pinned => n \in hosted[idPods[s].group] \ sched.avoid
    BY <1>2, <2>1 DEF Schedulable, Schedule
  <2>4. ~idPods[s].ready BY <1>2 DEF Schedule
  <2>5. idPods'[s] = [idPods[s] EXCEPT !.node = n] /\ \A t \in Slots \ {s} : idPods'[t] = idPods[t]
    BY <2>1 DEF IdTypeOK
  <2> QED BY <1>2, <2>2, <2>3, <2>4, <2>5 DEF IdPod, Schedule
<1>3. ASSUME NEW s \in Slots, BecomeReadyPod(s) PROVE HostedPods' /\ HostedBindings'
  <2> DEFINE g == idPods[s].group
  <2>1. idPods[s] \in IdPod /\ g \in GroupUids /\ UNCHANGED <<sched, bindings>>
    BY <1>3 DEF BecomeReadyPod, OnlyPod, IdTypeOK, IdPod
  <2>2. /\ idPods'[s] = [idPods[s] EXCEPT !.ready = TRUE]
        /\ \A t \in Slots \ {s} : idPods'[t] = idPods[t]
    BY <1>3 DEF BecomeReadyPod, OnlyPod, IdTypeOK
  <2>3. /\ hosted'[g] = hosted[g] \cup {idPods[s].node}
        /\ \A h \in GroupUids : hosted[h] \subseteq hosted'[h]
    BY <1>3, <2>1 DEF BecomeReadyPod, IdTypeOK
  <2>4. HostedBindings' BY <2>1, <2>3
  <2>5. ASSUME NEW t \in Slots, idPods[t] # None
        PROVE  /\ idPods[t].group \in GroupUids
               /\ idPods[t].ready => idPods[t].node # None /\ idPods[t].node \in hosted'[idPods[t].group]
               /\ idPods[t].pinned =>
                    /\ idPods[t].terms # {}
                    /\ \A x \in idPods[t].terms : x \subseteq hosted'[idPods[t].group] \ sched.avoid
                    /\ idPods[t].node \in {None} \cup (hosted'[idPods[t].group] \ sched.avoid)
    <3>1. idPods[t].group \in GroupUids BY <2>5 DEF IdTypeOK, IdPod
    <3>2. hosted[idPods[t].group] \subseteq hosted'[idPods[t].group] BY <2>3, <3>1
    <3> QED BY <2>5, <3>1, <3>2
  <2>6. idPods[s] # None /\ idPods[s].node # None /\ idPods[s].node \in hosted'[g]
    BY <1>3, <2>3 DEF BecomeReadyPod
  <2>7. /\ idPods'[s].group = g /\ idPods'[s].node = idPods[s].node
        /\ idPods'[s].pinned = idPods[s].pinned /\ idPods'[s].terms = idPods[s].terms
    BY <2>1, <2>2 DEF IdPod
  <2> HIDE DEF g
  <2>8. HostedPods'
    <3> SUFFICES ASSUME NEW t \in Slots, idPods'[t] # None
                 PROVE  /\ idPods'[t].ready =>
                             idPods'[t].node # None /\ idPods'[t].node \in hosted'[idPods'[t].group]
                        /\ idPods'[t].pinned =>
                             /\ idPods'[t].terms # {}
                             /\ \A x \in idPods'[t].terms : x \subseteq hosted'[idPods'[t].group] \ sched'.avoid
                             /\ idPods'[t].node \in {None} \cup (hosted'[idPods'[t].group] \ sched'.avoid)
      OBVIOUS
    <3>1. CASE t = s
      BY <2>1, <2>5, <2>6, <2>7, <3>1 DEF g
    <3>2. CASE t # s
      BY <2>1, <2>2, <2>5, <3>2
    <3> QED BY <3>1, <3>2
  <2> QED BY <2>4, <2>8
<1>4. ASSUME NEW s \in Slots, CollectPod(s) \/ KillPod(s) PROVE HostedPods' /\ HostedBindings'
  BY <1>4 DEF CollectPod, KillPod, OnlyPod, IdTypeOK
<1>5. ASSUME NEW g \in GroupUids, EvictByUID(g) PROVE HostedPods' /\ HostedBindings'
  BY <1>5 DEF EvictByUID, IdTypeOK
<1>6. CASE RestartManager
  BY <1>6 DEF RestartManager
<1>7. CASE UNCHANGED <<sched, idPods, bindings, hosted>>
  BY <1>7
<1>8. CASE \/ ApplySet \/ NewInstance \/ UpdateInstance \/ DeliverInst \/ CollectOwned
           \/ DeleteInstance \/ ChangeTemplate \/ DeleteGroup \/ CreateGroup
  BY <1>7, <1>8 DEF ApplySet, NewInstance, UpdateInstance, DeliverInst, CollectOwned,
                    DeleteInstance, ChangeTemplate, DeleteGroup, CreateGroup
<1> QED BY <1>1, <1>2, <1>3, <1>4, <1>5, <1>6, <1>8, IdNext
        DEF IdNext, IdControllers, IdDeliveries, IdWorld

-----------------------------------------------------------------------------
(***************************************************************************)
(* The theorems.                                                           *)
(***************************************************************************)
LEMMA IdInvariant == IdSpec => []IdInv
<1>1. IdInit => IdInv
  <2> SUFFICES ASSUME IdInit PROVE IdInv OBVIOUS
  <2>1. IdTypeOK
    <3>1. idGroup \in GroupUids BY SchedulingAssumption DEF IdInit
    <3>2. sched \in Scheduling BY SchedulingAssumption DEF IdInit
    <3>3. template \subseteq Scopes BY <3>2 DEF IdInit, Scheduling
    <3>4. sched.budget \in Nat /\ idBudget = sched.budget BY <3>2 DEF IdInit, Scheduling
    <3>5. idBudget \in 0 .. sched.budget BY <3>4
    <3> QED BY <3>1, <3>3, <3>5 DEF IdInit, IdTypeOK
  <2>2. \E f \in [InstUids -> GroupUids] : TRUE
    <3>1. PICK g \in GroupUids : TRUE BY SchedulingAssumption
    <3>2. [u \in InstUids |-> g] \in [InstUids -> GroupUids] OBVIOUS
    <3> QED BY <3>2
  <2>3. HostedPods /\ HostedBindings /\ GrantedPorts /\ OneGroup
    BY <2>2 DEF IdInit, HostedPods, HostedBindings, GrantedPorts, OneGroup, GroupsBy
  <2> QED BY <2>1, <2>3 DEF IdInv
<1>2. IdInv /\ [IdNext]_idVars => IdInv'
  <2>1. ASSUME IdInv, IdNext PROVE IdInv'
    BY <2>1, IdTypeStep, GrantedStep, OneGroupStep, HostedStep DEF IdInv
  <2>2. ASSUME IdInv, UNCHANGED idVars PROVE IdInv'
    <3>1. IdTypeOK' BY <2>2 DEF IdInv, idVars, IdTypeOK
    <3>2. HostedPods' /\ HostedBindings' BY <2>2 DEF IdInv, idVars, HostedPods, HostedBindings
    <3>3. GrantedPorts' BY <2>2 DEF IdInv, idVars, GrantedPorts
    <3>4. OneGroup' BY <2>2 DEF IdInv, idVars, OneGroup, GroupsBy
    <3> QED BY <3>1, <3>2, <3>3, <3>4 DEF IdInv
  <2> QED BY <2>1, <2>2
<1> QED BY <1>1, <1>2, PTL DEF IdSpec

\* Every variable keeps its type: no pass, event, failure or restart makes a
\* pod without an owner, a port outside the range or a binding to no node.
THEOREM IdentityTypeCorrect == IdSpec => []IdTypeOK
<1>1. IdInv => IdTypeOK BY DEF IdInv
<1> QED BY <1>1, IdInvariant, PTL

\* A pinned pod only runs on a node that has hosted a ready pod of the same
\* group and is not to be avoided: foldIntoRequired, the recording of nodes
\* under the uid of the group and its eviction, for every affinity of the
\* template and every number of nodes, slots and incarnations.
THEOREM PinnedPodsReturn == IdSpec => []PinnedToHosts
<1>1. IdInv => PinnedToHosts BY DEF IdInv, HostedPods, PinnedToHosts
<1> QED BY <1>1, IdInvariant, PTL

\* The port allocator implements the leases: the ports are drawn once for an
\* incarnation, and every pod that is created for it, from however old a copy
\* of the instance, runs on the port that was drawn for its slot.
THEOREM PortsRefineLeases == IdSpec => PortsAreLeases
<1> DEFINE Held(s) == IF idPods[s] = None THEN None
                      ELSE [by |-> idPods[s].owner, port |-> idPods[s].port]
<1>1. IdInit => Leases!LeaseInit
  BY DEF IdInit, Leases!LeaseInit
<1>2. IdInv /\ [IdNext]_idVars => [Leases!LeaseNext]_(Leases!leaseVars)
  <2> SUFFICES ASSUME IdInv, [IdNext]_idVars
               PROVE  Leases!LeaseNext \/ UNCHANGED Leases!leaseVars
    OBVIOUS
  <2> USE DEF IdInv
  <2>1. CASE NewInstance
    <3>1. PICK u \in InstUids, ports \in AllocatePodScopedPorts("pod" \in template) :
            granted[u] = None /\ granted' = [granted EXCEPT ![u] = ports]
      BY <2>1, FreshIncarnation
    <3>2. ports \in [Slots -> Ports \cup {None}] BY DEF AllocatePodScopedPorts, AllocateBatch
    <3>3. UNCHANGED idPods BY <2>1 DEF NewInstance
    <3>4. Leases!Grant(u) BY <3>1, <3>2, <3>3 DEF Leases!Grant
    <3> QED BY <3>4 DEF Leases!LeaseNext
  <2>2. CASE PassOfInstance
    <3>a. instSeen.uid \in InstUids BY <2>2 DEF PassOfInstance, IdTypeOK, Instance
    <3>b. PICK u \in InstUids : u = instSeen.uid BY <3>a
    <3>c. PICK S \in SUBSET Slots : S = {s \in Slots : idPods'[s] # idPods[s]} OBVIOUS
    <3>1. granted[u] # None /\ instSeen.ports = granted[u] /\ UNCHANGED granted
      BY <2>2, <3>b, AbsenceAssumption DEF PassOfInstance, IdTypeOK, Instance, GrantedPorts
    <3>2. ASSUME NEW s \in Slots
          PROVE  Held(s)' = IF s \in S THEN [by |-> u, port |-> granted[u][s]] ELSE Held(s)
      <4>1. CASE s \in S
        <5>1. idPods'[s].owner = u /\ idPods'[s].port = instSeen.ports[s] /\ idPods[s] = None
          BY <2>2, <3>b, <3>c, <4>1, PodsOfPass, Zenon
        <5>2. idPods'[s] # None BY <3>c, <4>1, <5>1
        <5> QED BY <3>1, <4>1, <5>1, <5>2
      <4>2. CASE s \notin S
        BY <3>c, <4>2
      <4> QED BY <4>1, <4>2
    <3>3. \A s \in S : Held(s) = None
      <4>1. \A s \in S : idPods[s] = None BY <2>2, <3>c, PodsOfPass, Zenon
      <4> QED BY <4>1
    <3>4. Leases!Take(u, S) BY <3>1, <3>2, <3>3 DEF Leases!Take
    <3> QED BY <3>4, Zenon DEF Leases!LeaseNext
  <2>3. ASSUME NEW s \in Slots, CollectPod(s) \/ KillPod(s)
        PROVE  Leases!LeaseNext
    <3>1. idPods[s] \in IdPod /\ idPods[s] # None /\ idPods' = [idPods EXCEPT ![s] = None] /\ UNCHANGED granted
      BY <2>3 DEF CollectPod, KillPod, OnlyPod, IdTypeOK
    <3>2. Held(s) # None BY <3>1, AbsenceAssumption DEF IdPod
    <3>3. \A t \in Slots : Held(t)' = IF t = s THEN None ELSE Held(t)
      BY <3>1 DEF IdTypeOK
    <3>4. Leases!Leave(s) BY <3>1, <3>2, <3>3 DEF Leases!Leave
    <3> QED BY <3>4 DEF Leases!LeaseNext
  <2>4. ASSUME UNCHANGED granted, \A s \in Slots : Held(s)' = Held(s)
        PROVE  UNCHANGED Leases!leaseVars
    BY <2>4 DEF Leases!leaseVars
  <2>5. ASSUME NEW s \in Slots, NEW p \in IdPod, OnlyPod(s, p), idPods[s] # None,
               p.owner = idPods[s].owner, p.port = idPods[s].port
        PROVE  UNCHANGED Leases!leaseVars
    <3>1. p # None BY AbsenceAssumption
    <3>2. UNCHANGED granted BY <2>5 DEF OnlyPod
    <3>3. \A t \in Slots : Held(t)' = Held(t) BY <2>5, <3>1 DEF OnlyPod, IdTypeOK
    <3> QED BY <2>4, <3>2, <3>3
  <2>a. ASSUME NEW s \in Slots, BecomeReadyPod(s) PROVE UNCHANGED Leases!leaseVars
    <3> DEFINE p == [idPods[s] EXCEPT !.ready = TRUE]
    <3>1. idPods[s] \in IdPod /\ idPods[s] # None /\ OnlyPod(s, p)
      BY <2>a DEF BecomeReadyPod, IdTypeOK
    <3>2. p \in IdPod /\ p.owner = idPods[s].owner /\ p.port = idPods[s].port BY <3>1 DEF IdPod
    <3> HIDE DEF p
    <3> QED BY <2>5, <3>1, <3>2
  <2>b. ASSUME NEW s \in Slots, Schedule(s) PROVE UNCHANGED Leases!leaseVars
    <3>1. PICK n \in Schedulable(idPods[s].terms) : OnlyPod(s, [idPods[s] EXCEPT !.node = n])
      BY <2>b DEF Schedule
    <3> DEFINE p == [idPods[s] EXCEPT !.node = n]
    <3>2. idPods[s] \in IdPod /\ idPods[s] # None BY <2>b DEF Schedule, IdTypeOK
    <3>3. n \in Nodes BY <3>2 DEF Schedulable, IdPod
    <3>4. p \in IdPod /\ p.owner = idPods[s].owner /\ p.port = idPods[s].port BY <3>2, <3>3 DEF IdPod
    <3>5. OnlyPod(s, p) BY <3>1
    <3> HIDE DEF p
    <3> QED BY <2>5, <3>2, <3>4, <3>5
  <2>6. CASE UNCHANGED <<granted, idPods>>
    BY <2>4, <2>6
  <2>7. CASE \/ ApplySet \/ UpdateInstance \/ DeliverInst \/ CollectOwned \/ DeleteInstance
             \/ ChangeTemplate \/ DeleteGroup \/ CreateGroup \/ RestartManager
             \/ \E g \in GroupUids : EvictByUID(g)
    BY <2>6, <2>7 DEF ApplySet, UpdateInstance, DeliverInst, CollectOwned, DeleteInstance,
                      ChangeTemplate, DeleteGroup, CreateGroup, RestartManager, EvictByUID
  <2>8. CASE UNCHANGED idVars
    BY <2>6, <2>8 DEF idVars
  <2> QED BY <2>1, <2>2, <2>3, <2>a, <2>b, <2>7, <2>8 DEF IdNext, IdControllers, IdDeliveries, IdWorld
<1> QED BY <1>1, <1>2, IdInvariant, PTL DEF IdSpec, PortsAreLeases, Leases!LeaseSpec
=============================================================================
