-------------------------- MODULE StoredObjectsProofs --------------------------
(***************************************************************************)
(* Proofs about what the API server keeps for the controllers: a group as  *)
(* both API versions see it (ApiVersions), and the revisions of sets and   *)
(* instances (RevisionHistory).                                            *)
(***************************************************************************)
EXTENDS ApiVersions, RevisionHistory, TLAPS, WellFoundedInduction

-----------------------------------------------------------------------------
(***************************************************************************)
(* Conversion, field by field.                                             *)
(***************************************************************************)

\* The defaulter replaces the legacy update strategies.
LEMMA Normalized ==
  ASSUME NEW u \in Updates \cup LegacyUpdates \cup {None}
  PROVE  NormalizeUpdateStrategyType(u) =
           IF u = "" THEN "InPlaceIfPossible" ELSE IF u = "Recreate" THEN "RecreatePod" ELSE u
<1>1. CASE u = "" BY <1>1 DEF NormalizeUpdateStrategyType
<1>2. CASE u = "Recreate" BY <1>2 DEF NormalizeUpdateStrategyType
<1>3. CASE u # "" /\ u # "Recreate" BY <1>3 DEF NormalizeUpdateStrategyType
<1> QED BY <1>1, <1>2, <1>3

\* h holds what a v1alpha1 object says, with update strategy u.
Carries(h, x, u) ==
  /\ h \in Hub
  /\ h.note = x.workload /\ h.pattern = x.pattern /\ h.source = x.source /\ h.update = u
  /\ h.restart = IF x.pattern = "standalone" THEN None ELSE x.restart
  /\ h.restartV07 = "" /\ h.extras = FALSE
  /\ h.partition = x.partition /\ h.moves = x.moves /\ h.deps = x.deps
  /\ h.replicas = x.replicas /\ h.scaled = x.scaled
  /\ h.podGroup = x.podGroup /\ h.gang = x.podGroup
  /\ h.coordination = x.coordination /\ h.exclusiveV1 = x.exclusiveV1 /\ h.exclusive = x.exclusiveV1
\* x reads what a stored object says.
Reads(x, h) ==
  /\ x \in Spoke
  /\ x.workload = GetWorkloadType(h) /\ x.pattern = h.pattern /\ x.source = h.source
  /\ x.update = ConvertRolloutFromHub(h.update) /\ x.restart = GetRawRestartPolicyType(h)
  /\ x.partition = h.partition /\ x.moves = h.moves /\ x.deps = h.deps
  /\ x.replicas = h.replicas /\ x.scaled = h.scaled
  /\ x.podGroup = h.podGroup /\ x.coordination = h.coordination /\ x.exclusiveV1 = h.exclusiveV1

LEMMA ConvertedTo ==
  ASSUME NEW x \in Spoke
  PROVE  Carries(ConvertTo(x), x, ConvertRolloutToHub(x.update))
<1>1. \A f, g : Joined(f, g) =
        [k \in (DOMAIN f) \cup (DOMAIN g) |-> IF k \in DOMAIN f THEN f[k] ELSE g[k]]
  BY DEF Joined
<1>2. PICK r \in Restarts \cup {None} : r = IF x.pattern = "standalone" THEN None ELSE x.restart
  BY DEF Spoke
<1>3. PICK u \in Updates \cup LegacyUpdates \cup {None} : u = ConvertRolloutToHub(x.update)
  BY DEF Spoke, ConvertRolloutToHub, ConvertUpdateToHub, Updates, LegacyUpdates
<1>4. PICK old \in Restarts : old = "" BY DEF Restarts
<1>5. ConvertTo(x) =
        [note |-> x.workload, pattern |-> x.pattern, restart |-> r, restartV07 |-> old,
         extras |-> FALSE, update |-> u, source |-> x.source, partition |-> x.partition,
         moves |-> x.moves, deps |-> x.deps, replicas |-> x.replicas, scaled |-> x.scaled,
         podGroup |-> x.podGroup, gang |-> x.podGroup,
         coordination |-> x.coordination, exclusiveV1 |-> x.exclusiveV1, exclusive |-> x.exclusiveV1]
  BY <1>1, <1>2, <1>3, <1>4 DEF ConvertTo, ConvertRoleToHub, PreserveV1alpha1Fields
<1>6. ConvertTo(x) \in Hub BY <1>5 DEF Hub, Spoke
<1>7. LET h == ConvertTo(x) IN
      /\ h.note = x.workload /\ h.pattern = x.pattern /\ h.source = x.source /\ h.update = u
      /\ h.restart = r /\ h.restartV07 = old /\ h.extras = FALSE
      /\ h.partition = x.partition /\ h.moves = x.moves /\ h.deps = x.deps
      /\ h.replicas = x.replicas /\ h.scaled = x.scaled /\ h.podGroup = x.podGroup
      /\ h.gang = x.podGroup /\ h.coordination = x.coordination
      /\ h.exclusiveV1 = x.exclusiveV1 /\ h.exclusive = x.exclusiveV1
  BY <1>5
<1> QED BY <1>2, <1>3, <1>4, <1>6, <1>7, Zenon DEF Carries

LEMMA ConvertedFrom ==
  ASSUME NEW h \in Hub
  PROVE  Reads(ConvertFrom(h), h)
<1>1. \A f, g : Joined(f, g) =
        [k \in (DOMAIN f) \cup (DOMAIN g) |-> IF k \in DOMAIN f THEN f[k] ELSE g[k]]
  BY DEF Joined
<1>2. PICK w \in WorkloadTypes : w = GetWorkloadType(h) BY DEF Hub, GetWorkloadType, WorkloadTypes
<1>3. PICK r \in Restarts : r = GetRawRestartPolicyType(h)
  BY DEF Hub, Restarts, GetRawRestartPolicyType
<1>4. PICK u \in {"InPlaceIfPossible", "InPlaceOnly", None} \cup LegacyUpdates :
        u = ConvertRolloutFromHub(h.update)
  BY DEF Hub, ConvertRolloutFromHub, ConvertUpdateFromHub, Updates, LegacyUpdates
<1>5. ConvertFrom(h) =
        [workload |-> w, pattern |-> h.pattern, restart |-> r, update |-> u,
         source |-> h.source, partition |-> h.partition, moves |-> h.moves, deps |-> h.deps,
         replicas |-> h.replicas, scaled |-> h.scaled, podGroup |-> h.podGroup,
         coordination |-> h.coordination, exclusiveV1 |-> h.exclusiveV1]
  BY <1>1, <1>2, <1>3, <1>4 DEF ConvertFrom, ConvertRoleFromHub, RestoreV1alpha1Fields
<1>6. /\ h.pattern \in RolePatterns /\ h.source \in Sources /\ h.partition \in Partitions
      /\ h.moves \in BOOLEAN /\ h.deps \in BOOLEAN /\ h.replicas \in RoleSizes
      /\ h.scaled \in BOOLEAN /\ h.podGroup \in BOOLEAN
      /\ h.coordination \in Coordinations \cup {None} /\ h.exclusiveV1 \in BOOLEAN
  BY DEF Hub
<1>7. ConvertFrom(h) \in Spoke BY <1>5, <1>6 DEF Spoke
<1>8. LET x == ConvertFrom(h) IN
      /\ x.workload = w /\ x.pattern = h.pattern /\ x.source = h.source /\ x.update = u
      /\ x.restart = r /\ x.partition = h.partition /\ x.moves = h.moves /\ x.deps = h.deps
      /\ x.replicas = h.replicas /\ x.scaled = h.scaled /\ x.podGroup = h.podGroup
      /\ x.coordination = h.coordination /\ x.exclusiveV1 = h.exclusiveV1
  BY <1>5
<1> QED BY <1>2, <1>3, <1>4, <1>7, <1>8, Zenon DEF Reads

LEMMA Defaulted ==
  ASSUME NEW h \in Hub
  PROVE  /\ Default(h) \in Hub /\ Default(h).update = NormalizeUpdateStrategyType(h.update)
         /\ Default(h).update \in Updates \cup {None}
         /\ Default(h) = [h EXCEPT !.update = NormalizeUpdateStrategyType(h.update)]
<1>1. h.update \in Updates \cup LegacyUpdates \cup {None} BY DEF Hub
<1>2. NormalizeUpdateStrategyType(h.update) \in Updates \cup {None}
  BY <1>1, Normalized DEF Updates, LegacyUpdates
<1> QED BY <1>2 DEF Default, Hub

LEMMA DefaultCarries ==
  ASSUME NEW h, NEW x, NEW u, Carries(h, x, u)
  PROVE  Carries(Default(h), x, NormalizeUpdateStrategyType(u))
<1>1. h \in Hub /\ h.update = u BY DEF Carries
<1>2. PICK d \in Hub : d = Default(h) BY <1>1, Defaulted
<1>3. d.update = NormalizeUpdateStrategyType(u) BY <1>1, <1>2, Defaulted
<1>4. /\ d.note = h.note /\ d.pattern = h.pattern /\ d.source = h.source /\ d.restart = h.restart
      /\ d.restartV07 = h.restartV07 /\ d.partition = h.partition /\ d.moves = h.moves
      /\ d.deps = h.deps /\ d.replicas = h.replicas /\ d.scaled = h.scaled
      /\ d.extras = h.extras /\ d.podGroup = h.podGroup /\ d.gang = h.gang
      /\ d.coordination = h.coordination /\ d.exclusiveV1 = h.exclusiveV1 /\ d.exclusive = h.exclusive
  BY <1>1, <1>2, Defaulted DEF Hub
<1>5. Carries(d, x, NormalizeUpdateStrategyType(u)) BY <1>3, <1>4, Zenon DEF Carries
<1> QED BY <1>2, <1>5

\* Reading what carries x, with an update strategy that has an inverse, is
\* reading x.
LEMMA ReadsBack ==
  ASSUME NEW d, NEW x \in Spoke, NEW u, Carries(d, x, u), NEW y, Reads(y, d)
  PROVE  /\ y \in Spoke /\ y.update = ConvertRolloutFromHub(u)
         /\ y.workload = x.workload /\ y.pattern = x.pattern /\ y.source = x.source
         /\ y.partition = x.partition /\ y.moves = x.moves /\ y.deps = x.deps
         /\ y.replicas = x.replicas /\ y.scaled = x.scaled
         /\ y.podGroup = x.podGroup /\ y.coordination = x.coordination
         /\ y.exclusiveV1 = x.exclusiveV1
         /\ (IF y.pattern = "standalone" THEN None ELSE y.restart)
              = (IF x.pattern = "standalone" THEN None ELSE x.restart)
<1>1. d.note = x.workload /\ x.workload # None BY ApiAssumption DEF Carries, Spoke
<1>2. GetWorkloadType(d) = x.workload BY <1>1 DEF GetWorkloadType
<1>3. /\ y \in Spoke /\ y.update = ConvertRolloutFromHub(u)
      /\ y.workload = x.workload /\ y.pattern = x.pattern /\ y.source = x.source
      /\ y.partition = x.partition /\ y.moves = x.moves /\ y.deps = x.deps
      /\ y.replicas = x.replicas /\ y.scaled = x.scaled
      /\ y.podGroup = x.podGroup /\ y.coordination = x.coordination
      /\ y.exclusiveV1 = x.exclusiveV1
  BY <1>2, Zenon DEF Reads, Carries
<1>4. CASE x.pattern = "standalone" BY <1>3, <1>4
<1>5. CASE x.pattern # "standalone"
  <2>1. d.pattern = x.pattern /\ d.restart = x.restart /\ d.restartV07 = "" BY <1>5 DEF Carries
  <2>2. x.restart # None BY ApiAssumption DEF Spoke
  <2>3. y.restart = x.restart BY <1>5, <2>1, <2>2 DEF Reads, GetRawRestartPolicyType
  <2> QED BY <1>3, <2>3
<1> QED BY <1>4, <1>5

\* What a v1alpha1 write stores: what it says, the update strategy defaulted,
\* whether or not the webhooks made the API server convert it once more.
LEMMA StoredAs ==
  ASSUME NEW x \in Spoke
  PROVE  Carries(AsStored(x), x, NormalizeUpdateStrategyType(ConvertRolloutToHub(x.update)))
<1> DEFINE c == ConvertRolloutToHub(x.update)
           n == NormalizeUpdateStrategyType(c)
           h == ConvertTo(x)
           d == Default(h)
           y == ConvertFrom(d)
<1>1. Carries(h, x, c) BY ConvertedTo
<1>2. Carries(d, x, n) BY <1>1, DefaultCarries
<1>3. CASE d = h BY <1>2, <1>3 DEF AsStored
<1>4. CASE d # h
  <2>1. AsStored(x) = ConvertTo(y) BY <1>4 DEF AsStored
  <2>2. c \in {"InPlaceIfPossible", "InPlaceOnly", "RecreatePod", "", None}
    BY DEF Spoke, LegacyUpdates, ConvertRolloutToHub, ConvertUpdateToHub
  <2>3. n \in {"InPlaceIfPossible", "InPlaceOnly", "RecreatePod", None}
    <3> HIDE DEF c
    <3> QED BY <2>2, Normalized DEF Updates, LegacyUpdates
  <2> HIDE DEF c, n, h, d
  <2>4. ConvertRolloutToHub(ConvertRolloutFromHub(n)) = n
    BY <2>3, ApiAssumption
       DEF ConvertRolloutToHub, ConvertRolloutFromHub, ConvertUpdateToHub, ConvertUpdateFromHub,
           Updates, LegacyUpdates
  <2>5. d \in Hub BY <1>2 DEF Carries
  <2>6. Reads(y, d) BY <2>5, ConvertedFrom
  <2> HIDE DEF y
  <2>7. /\ y \in Spoke /\ y.update = ConvertRolloutFromHub(n)
        /\ y.workload = x.workload /\ y.pattern = x.pattern /\ y.source = x.source
        /\ y.partition = x.partition /\ y.moves = x.moves /\ y.deps = x.deps
        /\ y.replicas = x.replicas /\ y.scaled = x.scaled
        /\ y.podGroup = x.podGroup /\ y.coordination = x.coordination
        /\ y.exclusiveV1 = x.exclusiveV1
        /\ (IF y.pattern = "standalone" THEN None ELSE y.restart)
             = (IF x.pattern = "standalone" THEN None ELSE x.restart)
    BY <1>2, <2>6, ReadsBack
  <2>8. Carries(ConvertTo(y), y, n) BY <2>4, <2>7, ConvertedTo
  <2> QED BY <2>1, <2>7, <2>8, Zenon DEF Carries, n, c
<1> QED BY <1>3, <1>4

-----------------------------------------------------------------------------
(***************************************************************************)
(* What an edit through v1alpha1 keeps, and what the webhooks accept.      *)
(***************************************************************************)

\* The object of a write that changes nothing.
LEMMA RoundTrip ==
  ASSUME NEW h \in Hub
  PROVE  Carries(Edited(h), ConvertFrom(h), NormalizeUpdateStrategyType(h.update))
<1> DEFINE x == ConvertFrom(h)
           c == ConvertRolloutToHub(x.update)
<1>1. Reads(x, h) BY ConvertedFrom
<1> HIDE DEF x
<1>2. x \in Spoke /\ x.update = ConvertRolloutFromHub(h.update) BY <1>1 DEF Reads
<1>3. Carries(AsStored(x), x, NormalizeUpdateStrategyType(c)) BY <1>2, StoredAs
<1>4. h.update \in Updates \cup LegacyUpdates \cup {None} BY DEF Hub
<1>5. c = IF h.update = "Recreate" THEN "RecreatePod" ELSE h.update
  BY <1>2, <1>4, ApiAssumption
     DEF ConvertRolloutToHub, ConvertRolloutFromHub, ConvertUpdateToHub, ConvertUpdateFromHub,
         Updates, LegacyUpdates
<1> HIDE DEF c
<1>6. NormalizeUpdateStrategyType(c) = NormalizeUpdateStrategyType(h.update)
  <2>1. CASE h.update = "Recreate"
    <3>1. c = "RecreatePod" /\ c \in Updates \cup LegacyUpdates \cup {None} BY <1>5, <2>1 DEF Updates
    <3> QED BY <1>4, <2>1, <3>1, Normalized
  <2>2. CASE h.update # "Recreate" BY <1>5, <2>2
  <2> QED BY <2>1, <2>2
<1> QED BY <1>3, <1>6 DEF x, Edited

\* Normalizing twice is normalizing once.
LEMMA NormalizedTwice ==
  ASSUME NEW u \in Updates \cup LegacyUpdates \cup {None}
  PROVE  /\ NormalizeUpdateStrategyType(u) \in Updates \cup {None}
         /\ NormalizeUpdateStrategyType(NormalizeUpdateStrategyType(u)) = NormalizeUpdateStrategyType(u)
<1> DEFINE n == NormalizeUpdateStrategyType(u)
<1>1. n \in Updates \cup {None} BY Normalized DEF Updates, LegacyUpdates
<1> HIDE DEF n
<1>2. n # "" /\ n # "Recreate" BY <1>1, ApiAssumption DEF Updates, LegacyUpdates
<1>3. NormalizeUpdateStrategyType(n) = n BY <1>1, <1>2, Normalized
<1> QED BY <1>1, <1>3 DEF n


\* The edit rewrites what v1alpha1 cannot say, and nothing else.
LEMMA EditKeepsFields ==
  ASSUME NEW h \in Hub, NEW f \in DOMAIN h, f \notin Respelled(h) \cup OnlyInV2(h)
  PROVE  Edited(h)[f] = h[f]
<1> DEFINE x == ConvertFrom(h)
           s == Edited(h)
<1>1. Reads(x, h) /\ Carries(s, x, NormalizeUpdateStrategyType(h.update)) BY ConvertedFrom, RoundTrip
<1> HIDE DEF x, s
<1>2. /\ s.pattern = h.pattern /\ s.source = h.source /\ s.partition = h.partition
      /\ s.moves = h.moves /\ s.deps = h.deps /\ s.replicas = h.replicas /\ s.scaled = h.scaled
      /\ s.podGroup = h.podGroup /\ s.coordination = h.coordination
      /\ s.exclusiveV1 = h.exclusiveV1 /\ s.gang = h.podGroup /\ s.exclusive = h.exclusiveV1
      /\ s.extras = FALSE /\ s.restartV07 = "" /\ s.note = GetWorkloadType(h)
      /\ s.update = NormalizeUpdateStrategyType(h.update)
      /\ s.restart = IF h.pattern = "standalone" THEN None ELSE GetRawRestartPolicyType(h)
  BY <1>1, Zenon DEF Reads, Carries
<1>3. f \in {"note", "pattern", "restart", "restartV07", "extras", "update", "source", "partition",
             "moves", "deps", "replicas", "scaled", "podGroup", "gang", "coordination",
             "exclusiveV1", "exclusive"}
  BY DEF Hub
<1>4. ASSUME f = "note" PROVE s[f] = h[f]
  <2>1. h.note # None BY <1>4 DEF Respelled
  <2> QED BY <1>2, <1>4, <2>1 DEF GetWorkloadType
<1>5. ASSUME f = "restart" PROVE s[f] = h[f]
  <2>1. h.restartV07 = "" /\ (h.restart = None) = (h.pattern = "standalone")
    BY <1>5 DEF Respelled
  <2> QED BY <1>2, <1>5, <2>1 DEF GetRawRestartPolicyType
<1>6. ASSUME f = "restartV07" PROVE s[f] = h[f]
  <2>1. h.restartV07 = "" BY <1>6 DEF Respelled
  <2> QED BY <1>2, <1>6, <2>1
<1>7. ASSUME f = "update" PROVE s[f] = h[f]
  <2>1. h.update \notin LegacyUpdates BY <1>7 DEF Respelled
  <2>2. h.update \in Updates \cup LegacyUpdates \cup {None} BY DEF Hub
  <2>3. NormalizeUpdateStrategyType(h.update) = h.update
    BY <2>1, <2>2, Normalized DEF LegacyUpdates
  <2> QED BY <1>2, <1>7, <2>3
<1>8. ASSUME f = "extras" PROVE s[f] = h[f]
  <2>1. h.extras = FALSE BY <1>8, Zenon DEF OnlyInV2, Hub
  <2> QED BY <1>2, <1>8, <2>1
<1>9. ASSUME f \in {"gang", "exclusive"} PROVE s[f] = h[f]
  <2>1. CASE f = "gang"
    <3>1. h.gang = h.podGroup BY <2>1 DEF OnlyInV2
    <3> QED BY <1>2, <2>1, <3>1
  <2>2. CASE f = "exclusive"
    <3>1. h.exclusive = h.exclusiveV1 BY <2>2 DEF OnlyInV2
    <3> QED BY <1>2, <2>2, <3>1
  <2> QED BY <1>9, <2>1, <2>2
<1> QED BY <1>2, <1>3, <1>4, <1>5, <1>6, <1>7, <1>8, <1>9 DEF s

\* What is rewritten keeps its meaning.
LEMMA EditKeepsMeaning ==
  ASSUME NEW h \in Hub
  PROVE  Meaning(Edited(h)) = Meaning(h)
<1> DEFINE x == ConvertFrom(h)
           s == Edited(h)
<1>1. Reads(x, h) /\ Carries(s, x, NormalizeUpdateStrategyType(h.update)) BY ConvertedFrom, RoundTrip
<1> HIDE DEF x, s
<1>2. s.note = GetWorkloadType(h) /\ GetWorkloadType(h) # None
  BY <1>1, ApiAssumption DEF Reads, Carries, Spoke
<1>3. GetWorkloadType(s) = GetWorkloadType(h) BY <1>2 DEF GetWorkloadType
<1>4. NormalizeUpdateStrategyType(s.update) = NormalizeUpdateStrategyType(h.update)
  <2>1. h.update \in Updates \cup LegacyUpdates \cup {None} BY DEF Hub
  <2>2. s.update = NormalizeUpdateStrategyType(h.update) BY <1>1 DEF Carries
  <2> QED BY <2>1, <2>2, NormalizedTwice
<1>5. s.pattern = h.pattern BY <1>1 DEF Reads, Carries
<1>6. GetRawRestartPolicyType(s) = GetRawRestartPolicyType(h)
  <2>1. CASE h.pattern = "standalone" BY <1>5, <2>1 DEF GetRawRestartPolicyType
  <2>2. CASE h.pattern # "standalone"
    <3>1. s.restart = GetRawRestartPolicyType(h) /\ s.restartV07 = ""
      BY <1>1, <2>2 DEF Reads, Carries
    <3>2. GetRawRestartPolicyType(h) # None BY <1>1, ApiAssumption DEF Reads, Spoke
    <3>3. GetRawRestartPolicyType(s) = s.restart
      BY <1>5, <2>2, <3>1, <3>2 DEF GetRawRestartPolicyType
    <3> QED BY <3>1, <3>3
  <2> QED BY <2>1, <2>2
<1> QED BY <1>3, <1>4, <1>5, <1>6, Zenon DEF Meaning, s

\* Objects that carry the same are the same.
LEMMA CarriesOnce ==
  ASSUME NEW g, NEW h, NEW x, NEW y, NEW u, Carries(g, x, u), Carries(h, y, u),
         x.workload = y.workload, x.pattern = y.pattern, x.source = y.source,
         x.partition = y.partition, x.moves = y.moves, x.deps = y.deps,
         x.replicas = y.replicas, x.scaled = y.scaled, x.podGroup = y.podGroup,
         x.coordination = y.coordination, x.exclusiveV1 = y.exclusiveV1,
         (IF x.pattern = "standalone" THEN None ELSE x.restart)
           = (IF y.pattern = "standalone" THEN None ELSE y.restart)
  PROVE  g = h
<1>1. /\ g.note = h.note /\ g.pattern = h.pattern /\ g.restart = h.restart
      /\ g.restartV07 = h.restartV07 /\ g.extras = h.extras /\ g.update = h.update
      /\ g.source = h.source /\ g.partition = h.partition /\ g.moves = h.moves
      /\ g.deps = h.deps /\ g.replicas = h.replicas /\ g.scaled = h.scaled
      /\ g.podGroup = h.podGroup /\ g.gang = h.gang /\ g.coordination = h.coordination
      /\ g.exclusiveV1 = h.exclusiveV1 /\ g.exclusive = h.exclusive
  BY Zenon DEF Carries
<1>2. g \in Hub /\ h \in Hub BY DEF Carries
<1> QED BY <1>1, <1>2 DEF Hub

\* A second edit finds nothing to rewrite.
LEMMA EditSettles ==
  ASSUME NEW h \in Hub
  PROVE  Edited(Edited(h)) = Edited(h)
<1> DEFINE x == ConvertFrom(h)
           s == Edited(h)
           y == ConvertFrom(s)
           n == NormalizeUpdateStrategyType(h.update)
<1>1. Reads(x, h) /\ Carries(s, x, n) BY ConvertedFrom, RoundTrip
<1>2. x \in Spoke /\ s \in Hub /\ s.update = n BY <1>1 DEF Reads, Carries
<1>3. Reads(y, s) /\ Carries(Edited(s), y, NormalizeUpdateStrategyType(s.update))
  BY <1>2, ConvertedFrom, RoundTrip
<1>4. h.update \in Updates \cup LegacyUpdates \cup {None} BY DEF Hub
<1>5. NormalizeUpdateStrategyType(n) = n BY <1>4, NormalizedTwice
<1> HIDE DEF x, s, y, n
<1>6. Carries(Edited(s), y, n) BY <1>2, <1>3, <1>5
<1>7. /\ y.workload = x.workload /\ y.pattern = x.pattern /\ y.source = x.source
      /\ y.partition = x.partition /\ y.moves = x.moves /\ y.deps = x.deps
      /\ y.replicas = x.replicas /\ y.scaled = x.scaled
      /\ y.podGroup = x.podGroup /\ y.coordination = x.coordination
      /\ y.exclusiveV1 = x.exclusiveV1
      /\ (IF y.pattern = "standalone" THEN None ELSE y.restart)
           = (IF x.pattern = "standalone" THEN None ELSE x.restart)
  BY <1>1, <1>2, <1>3, ReadsBack
<1>8. Edited(s) = s BY <1>1, <1>6, <1>7, CarriesOnce
<1> QED BY <1>8 DEF s

\* Both versions' webhooks accept a write that leaves a valid object as it is.
LEMMA StoredWritable ==
  ASSUME stored \in Hub
  PROVE  StaysWritable
<1> SUFFICES ASSUME RollingUpdateFits(stored), RoleDependenciesFit(stored),
                    compat \/ GetWorkloadType(stored) \notin Deprecated, NEW a \in Adapters
             PROVE  /\ AcceptsV2(stored, a)
                    /\ (stored.pattern # "components" /\ PreCheck(stored)
                          => AcceptsV1(ConvertFrom(stored), a))
  BY DEF StaysWritable
<1> DEFINE x == ConvertFrom(stored)
           s == AsStored(x)
           d == Default(stored)
<1>1. Reads(x, stored) /\ Carries(s, x, NormalizeUpdateStrategyType(stored.update))
  BY ConvertedFrom, RoundTrip DEF Edited
<1>2. /\ d.update \in Updates \cup {None} /\ d.update = NormalizeUpdateStrategyType(stored.update)
      /\ d.note = stored.note /\ d.moves = stored.moves /\ d.partition = stored.partition
      /\ d.replicas = stored.replicas /\ d.deps = stored.deps
  BY Defaulted DEF Hub
<1> HIDE DEF x, s, d
<1>3. /\ x.workload = GetWorkloadType(stored) /\ x.source = stored.source
      /\ x.pattern = stored.pattern /\ GetWorkloadType(stored) # None
  BY <1>1, ApiAssumption DEF Reads, Spoke
<1>4. /\ s.note = GetWorkloadType(stored) /\ s.update = d.update /\ s.moves = stored.moves
      /\ s.partition = stored.partition /\ s.replicas = stored.replicas /\ s.deps = stored.deps
  BY <1>1, <1>2, <1>3 DEF Reads, Carries
<1>5. GetWorkloadType(s) = GetWorkloadType(stored) /\ GetWorkloadType(d) = GetWorkloadType(stored)
  BY <1>2, <1>3, <1>4 DEF GetWorkloadType
<1>6. /\ RollingUpdateFits(d) /\ RollingUpdateFits(s) /\ RoleDependenciesFit(d)
      /\ RoleDependenciesFit(s)
  <2>1. d.update # None => stored.update # None
    BY <1>2, Normalized, ApiAssumption DEF Hub, Updates, LegacyUpdates
  <2> QED BY <1>2, <1>4, <2>1, Zenon DEF RollingUpdateFits, RoleDependenciesFit
<1>7. ValidateUpdate(d, stored, a) /\ ValidateUpdate(s, stored, a)
  BY <1>2, <1>4, <1>5, <1>6, Zenon
     DEF ValidateUpdate, ScalingAdapterReplicasFit, NoNewDeprecatedWorkloadTypes
<1>8. AcceptsV2(stored, a) BY <1>2, <1>7, Zenon DEF AcceptsV2, SchemaAllows, d
<1>9. ASSUME stored.pattern # "components", PreCheck(stored) PROVE AcceptsV1(x, a)
  BY <1>2, <1>3, <1>4, <1>7, <1>9, Zenon
     DEF AcceptsV1, V1SchemaAllows, PreCheck, V1alpha1DeprecatedRoles, SchemaAllows, x, s
<1> QED BY <1>8, <1>9 DEF x

\* They accept the write that mends what they would refuse.
LEMMA StoredMendable ==
  ASSUME stored \in Hub
  PROVE  StaysMendable
<1> SUFFICES ASSUME NEW a \in Adapters
             PROVE  /\ AcceptsV2([stored EXCEPT !.note = None, !.partition = 0, !.moves = TRUE,
                                     !.deps = TRUE], a)
                    /\ (stored.pattern # "components" =>
                          AcceptsV1([ConvertFrom(stored) EXCEPT !.workload = "RoleInstanceSet",
                                       !.partition = 0, !.moves = TRUE, !.deps = TRUE], a))
  BY DEF StaysMendable
<1>1. PICK z \in Partitions : z = 0 BY ApiAssumption
<1>2. PICK w \in WorkloadTypes : w = "RoleInstanceSet" BY DEF WorkloadTypes
<1>3. stored.replicas \in Nat BY ApiAssumption DEF Hub
<1>4. stored.replicas # 0 => z < stored.replicas BY <1>1, <1>3
<1> DEFINE g == [stored EXCEPT !.note = None, !.partition = z, !.moves = TRUE, !.deps = TRUE]
           d == Default(g)
<1>5. AcceptsV2(g, a)
  <2>1. /\ g \in Hub /\ g.note = None /\ g.partition = z /\ g.moves = TRUE /\ g.deps = TRUE
        /\ g.replicas = stored.replicas
    BY DEF Hub
  <2> HIDE DEF g
  <2>2. /\ d.update \in Updates \cup {None} /\ d.note = None /\ d.moves = TRUE /\ d.deps = TRUE
        /\ d.partition = z /\ d.replicas = stored.replicas
    BY <2>1, Defaulted DEF Hub
  <2> HIDE DEF d
  <2>3. GetWorkloadType(d) \notin Deprecated BY <2>2 DEF GetWorkloadType, Deprecated
  <2>4. RollingUpdateFits(d) /\ RoleDependenciesFit(d)
    BY <1>4, <2>2, Zenon DEF RollingUpdateFits, RoleDependenciesFit
  <2> QED BY <2>2, <2>3, <2>4, Zenon
        DEF AcceptsV2, ValidateUpdate, SchemaAllows, ScalingAdapterReplicasFit,
            NoNewDeprecatedWorkloadTypes, d
<1> DEFINE x == ConvertFrom(stored)
           y == [x EXCEPT !.workload = w, !.partition = z, !.moves = TRUE, !.deps = TRUE]
           s == AsStored(y)
<1>6. ASSUME stored.pattern # "components" PROVE AcceptsV1(y, a)
  <2>1. Reads(x, stored) BY ConvertedFrom
  <2>2. x \in Spoke /\ x.pattern = stored.pattern /\ x.replicas = stored.replicas
    BY <2>1 DEF Reads
  <2> HIDE DEF x
  <2>3. /\ y \in Spoke /\ y.workload = w /\ y.partition = z /\ y.moves = TRUE /\ y.deps = TRUE
        /\ y.pattern = stored.pattern /\ y.replicas = stored.replicas
    BY <2>2 DEF Spoke
  <2> HIDE DEF y
  <2>4. Carries(s, y, NormalizeUpdateStrategyType(ConvertRolloutToHub(y.update)))
    BY <2>3, StoredAs
  <2>5. ConvertRolloutToHub(y.update) \in Updates \cup LegacyUpdates \cup {None}
    BY <2>3 DEF Spoke, ConvertRolloutToHub, ConvertUpdateToHub, Updates, LegacyUpdates
  <2>6. s.update \in Updates \cup {None} BY <2>4, <2>5, NormalizedTwice DEF Carries
  <2>7. /\ s.note = w /\ s.partition = z /\ s.moves = TRUE /\ s.deps = TRUE
        /\ s.replicas = stored.replicas
    BY <2>3, <2>4, Zenon DEF Carries
  <2> HIDE DEF s
  <2>8. w \notin Deprecated /\ w # "LeaderWorkerSet" /\ w # None BY <1>2, ApiAssumption DEF Deprecated
  <2>9. GetWorkloadType(s) \notin Deprecated BY <2>7, <2>8 DEF GetWorkloadType
  <2>10. RollingUpdateFits(s) /\ RoleDependenciesFit(s)
    BY <1>4, <2>7, Zenon DEF RollingUpdateFits, RoleDependenciesFit
  <2>11. ValidateUpdate(s, stored, a)
    BY <2>7, <2>9, <2>10, Zenon
       DEF ValidateUpdate, ScalingAdapterReplicasFit, NoNewDeprecatedWorkloadTypes
  <2>12. V1SchemaAllows(y) /\ V1alpha1DeprecatedRoles(y, x)
    BY <1>6, <2>3, <2>8, Zenon DEF V1SchemaAllows, V1alpha1DeprecatedRoles
  <2> QED BY <2>6, <2>11, <2>12, Zenon DEF AcceptsV1, SchemaAllows, s, x
<1> HIDE DEF g, x, y
<1> QED BY <1>1, <1>2, <1>5, <1>6 DEF g, y, x

LEMMA ApiTypeStep == ApiTypeOK /\ [ApiNext]_apiVars => ApiTypeOK'
<1> SUFFICES ASSUME ApiTypeOK, [ApiNext]_apiVars PROVE ApiTypeOK' OBVIOUS
<1>1. stored \in Hub BY DEF ApiTypeOK
<1>2. CASE WriteV1
  <2> DEFINE x == ConvertFrom(stored)
  <2>1. x \in Spoke BY <1>1, ConvertedFrom DEF Reads
  <2>2. ASSUME NEW y \in Spoke, Writes1(y) PROVE stored' \in Hub
    BY <2>2, StoredAs DEF Writes1, Carries
  <2>3. PICK p \in BOOLEAN, q \in BOOLEAN : p = ~x.podGroup /\ q = ~x.exclusiveV1 OBVIOUS
  <2>4. \/ \E w \in WorkloadTypes : Writes1([x EXCEPT !.workload = w])
        \/ \E r \in Restarts : Writes1([x EXCEPT !.restart = r])
        \/ \E u \in {None, "", "Recreate", "InPlaceIfPossible", "InPlaceOnly"} :
             Writes1([x EXCEPT !.update = u])
        \/ \E s \in Sources : Writes1([x EXCEPT !.source = s])
        \/ \E n \in RoleSizes, k \in Partitions :
             Writes1([x EXCEPT !.replicas = n, !.partition = k])
        \/ Writes1([x EXCEPT !.moves = TRUE, !.deps = TRUE])
        \/ Writes1([x EXCEPT !.podGroup = p])
        \/ \E c \in Coordinations \cup {None} : Writes1([x EXCEPT !.coordination = c])
        \/ Writes1([x EXCEPT !.exclusiveV1 = q])
    BY <1>2, <2>3, Zenon DEF WriteV1
  <2> HIDE DEF x
  <2>5. PICK y \in Spoke : Writes1(y) BY <2>1, <2>4 DEF Spoke, LegacyUpdates
  <2>6. stored' \in Hub BY <2>2, <2>5
  <2>7. apiBudget > 0 /\ apiBudget' = apiBudget - 1 /\ compat' = compat /\ policy' = policy
    BY <1>2, Zenon DEF WriteV1
  <2> QED BY <2>6, <2>7, ApiAssumption DEF ApiTypeOK
<1>3. CASE WriteV2
  <2>1. ASSUME NEW y \in Hub, Writes2(y) PROVE stored' \in Hub
    BY <2>1, Defaulted DEF Writes2
  <2>2. PICK p \in BOOLEAN, q \in BOOLEAN, e \in BOOLEAN :
          p = ~stored.gang /\ q = ~stored.exclusive /\ e = ~stored.extras
    OBVIOUS
  <2>3. \/ \E w \in WorkloadTypes \cup {None} : Writes2([stored EXCEPT !.note = w])
        \/ \E r \in Restarts \cup {None} : Writes2([stored EXCEPT !.restart = r])
        \/ Writes2([stored EXCEPT !.extras = e])
        \/ \E u \in Updates \cup LegacyUpdates \cup {None} : Writes2([stored EXCEPT !.update = u])
        \/ \E s \in Sources : Writes2([stored EXCEPT !.source = s])
        \/ \E n \in RoleSizes, k \in Partitions :
             Writes2([stored EXCEPT !.replicas = n, !.partition = k])
        \/ Writes2([stored EXCEPT !.moves = TRUE, !.deps = TRUE])
        \/ Writes2([stored EXCEPT !.gang = p])
        \/ Writes2([stored EXCEPT !.exclusive = q])
    BY <1>3, <2>2, Zenon DEF WriteV2
  <2>4. PICK y \in Hub : Writes2(y) BY <1>1, <2>3 DEF Hub
  <2>5. stored' \in Hub BY <2>1, <2>4
  <2>6. apiBudget > 0 /\ apiBudget' = apiBudget - 1 /\ compat' = compat /\ policy' = policy
    BY <1>3, Zenon DEF WriteV2
  <2> QED BY <2>5, <2>6, ApiAssumption DEF ApiTypeOK
<1>4. CASE EnsureV1alpha1CoordinatedPolicy
  BY <1>4 DEF EnsureV1alpha1CoordinatedPolicy, ApiTypeOK, Hub
<1>5. CASE UNCHANGED apiVars BY <1>5 DEF apiVars, ApiTypeOK
<1> QED BY <1>2, <1>3, <1>4, <1>5 DEF ApiNext

\* Every write through either version, converted, defaulted and validated,
\* stores an object of the schema.
THEOREM ApiTypeCorrect == ApiSpec => []ApiTypeOK
<1>1. ApiInit => ApiTypeOK BY ApiAssumption DEF ApiInit, ApiTypeOK
<1> QED BY <1>1, ApiTypeStep, PTL DEF ApiSpec

\* StoredViewsAgree for everything earlier releases can have stored and any
\* number of writes: an edit of the metadata through v1alpha1 rewrites only the
\* fields whose stored form v1alpha1 cannot say, each on its own account, and
\* only once; and no valid object is refused a write, no other one its mending,
\* by the schemas and the four validators.
THEOREM BothVersionsAgree == ApiSpec => []StoredViewsAgree
<1>1. ASSUME stored \in Hub PROVE V1EditKeeps
  <2>1. ASSUME NEW f \in DOMAIN stored
        PROVE  f \in Respelled(stored) \cup OnlyInV2(stored) \/ Edited(stored)[f] = stored[f]
    BY <1>1, EditKeepsFields
  <2>2. Meaning(Edited(stored)) = Meaning(stored) BY <1>1, EditKeepsMeaning
  <2>3. Edited(Edited(stored)) = Edited(stored) BY <1>1, EditSettles
  <2> QED BY <2>1, <2>2, <2>3, Zenon DEF V1EditKeeps
<1>2. ApiTypeOK => StoredViewsAgree
  BY <1>1, StoredWritable, StoredMendable, Zenon DEF ApiTypeOK, StoredViewsAgree
<1> QED BY <1>2, ApiTypeCorrect, PTL

-----------------------------------------------------------------------------
(***************************************************************************)
(* The history of a stateless set.                                         *)
(***************************************************************************)

\* Revisions and the set's status are records; a child whose last write was
\* observed is the one that was seen, or gone.
IsRevision(r) == r = [name |-> r.name, data |-> r.data, number |-> r.number, born |-> r.born]
IsOwner(o) ==
  o = [template |-> o.template, current |-> o.current, update |-> o.update, collision |-> o.collision]
HistInv ==
  /\ histKind = "stateless"
  /\ IsOwner(owner) /\ \A r \in revs : IsRevision(r)
  /\ kids = [s \in Children |-> kids[s]]
  /\ \A s \in Children : s \notin unseen => kids[s] \in {None, kidsSeen[s]}

\* No name of a revision is lost.
NamesKept(all) ==
  /\ \A r \in all : IsRevision(r)
  /\ \A r \in revs : Named(all, r.name) # {}

LEMMA NewKeeps ==
  ASSUME \A r \in revs : IsRevision(r), NEW t, NEW number, NEW c
  PROVE  NamesKept(revs \cup {NewRevision(t, number, c)})
<1> DEFINE n == NewRevision(t, number, c)
<1>1. n = [name |-> n.name, data |-> n.data, number |-> n.number, born |-> n.born] BY DEF NewRevision
<1> HIDE DEF n
<1>2. IsRevision(n) BY <1>1 DEF IsRevision
<1> QED BY <1>2 DEF NamesKept, Named, n

LEMMA SameKeeps ==
  ASSUME \A r \in revs : IsRevision(r)
  PROVE  NamesKept(revs)
BY DEF NamesKept, Named

\* Numbering a revision again keeps its name.
LEMMA UpdateKeeps ==
  ASSUME \A r \in revs : IsRevision(r), NEW old, NEW number, NEW collision,
         NEW o \in UpdateControllerRevision(old, number, collision)
  PROVE  NamesKept(o.revs)
<1> DEFINE N(r) == [r EXCEPT !.number = number]
<1>1. o = Failed(collision)
        \/ \E r \in revs : o = Outcome((revs \ {r}) \cup {N(r)}, N(r), collision)
  BY DEF UpdateControllerRevision, Named
<1>2. CASE o = Failed(collision) BY <1>2, SameKeeps DEF Failed, Outcome
<1>3. ASSUME NEW r \in revs, o = Outcome((revs \ {r}) \cup {N(r)}, N(r), collision)
      PROVE  NamesKept(o.revs)
  <2>1. o.revs = (revs \ {r}) \cup {N(r)} BY <1>3 DEF Outcome
  <2>2. IsRevision(N(r)) /\ N(r).name = r.name BY DEF IsRevision
  <2> HIDE DEF N
  <2> QED BY <2>1, <2>2 DEF NamesKept, Named
<1> QED BY <1>1, <1>2, <1>3

LEMMA CreateKeeps ==
  ASSUME \A r \in revs : IsRevision(r), NEW t, NEW number, NEW collision,
         NEW o \in CreateControllerRevision(t, number, collision)
  PROVE  NamesKept(o.revs)
<1>1. \E c : o.revs = revs \/ o.revs = revs \cup {NewRevision(t, number, c)}
  <2> DEFINE At(c) == NewRevision(t, number, c)
  <2>1. \E c, x, y : \/ o = Outcome(revs \cup {At(c)}, x, y)
                     \/ o = Outcome(revs, x, y)
    BY Zenon DEF CreateControllerRevision, Failed
  <2> QED BY <2>1 DEF Outcome
<1> QED BY <1>1, NewKeeps, SameKeeps

LEMMA ActiveKeeps ==
  ASSUME \A r \in revs : IsRevision(r), NEW t, NEW collision,
         NEW o \in ActiveRevisions(t, collision)
  PROVE  NamesKept(o.revs)
<1>1. \/ o.revs = revs
      \/ \E old, number : o \in UpdateControllerRevision(old, number, collision)
      \/ \E number : o \in CreateControllerRevision(t, number, collision)
  BY DEF ActiveRevisions, Outcome
<1> QED BY <1>1, UpdateKeeps, CreateKeeps, SameKeeps

\* What a pass deletes neither the revisions it works with nor a child it has
\* seen names.
LEMMA TruncatesUnused ==
  ASSUME NEW names, NEW n \in StatelessTruncate(names)
  PROVE  n \notin names /\ \A s \in Children : kidsSeen[s] # None => kidsSeen[s].label # n
BY DEF StatelessTruncate, TruncateControllerRevisions, LabelsSeen

LEMMA PassKeeps ==
  ASSUME HistInv, StatelessPass
  PROVE  /\ HistInv'
         /\ \A r \in revs : r.name \in InUse' => Named(revs', r.name) # {}
<1>1. PICK o \in ActiveRevisions(ownerSeen.template, ownerSeen.collision) :
        \/ revs' = o.revs /\ UNCHANGED <<owner, kids, unseen>>
        \/ /\ Roll({CurrentRevision(o), o.update})
           /\ \/ /\ owner' = RevisionStatus(o, StatelessAdvances(o.update))
                 /\ revs' = Remaining(o.revs, StatelessTruncate(LiveNames(o)))
                 /\ unseen = {}
              \/ owner' = owner /\ revs' = o.revs
  BY Zenon DEF StatelessPass, StatusStored, StatusLost
<1>2. NamesKept(o.revs) BY ActiveKeeps DEF HistInv
<1>3. UNCHANGED <<histKind, kidsSeen>> BY DEF StatelessPass
<1>4. UNCHANGED <<kids, unseen>> \/ \E s \in Children, r \in {CurrentRevision(o), o.update} : Put(s, r)
  BY <1>1 DEF Roll
<1>5. owner' = owner \/ owner' = RevisionStatus(o, StatelessAdvances(o.update)) BY <1>1
<1>6. IsOwner(owner') /\ IsOwner(RevisionStatus(o, StatelessAdvances(o.update)))
  <2>1. IsOwner(owner) BY DEF HistInv
  <2>2. IsOwner(RevisionStatus(o, StatelessAdvances(o.update)))
    <3>1. \E x, y, z : RevisionStatus(o, StatelessAdvances(o.update))
                       = [owner EXCEPT !.current = x, !.update = y, !.collision = z]
      BY Zenon DEF RevisionStatus
    <3> QED BY <2>1, <3>1 DEF IsOwner
  <2> QED BY <1>5, <2>1, <2>2
<1>7. \A r \in revs' : IsRevision(r) BY <1>1, <1>2 DEF NamesKept, Remaining
<1> DEFINE Rolled == /\ kids' = [s \in Children |-> kids'[s]]
                     /\ \A s \in Children : s \notin unseen' => kids'[s] \in {None, kidsSeen'[s]}
                     /\ \A s \in Children : kids'[s] = kids[s] \/ kids'[s].label \in LiveNames(o)
<1>8. Rolled
  <2>1. CASE UNCHANGED <<kids, unseen>> BY <1>3, <2>1 DEF HistInv
  <2>2. ASSUME NEW s \in Children, NEW r \in {CurrentRevision(o), o.update}, Put(s, r)
        PROVE  Rolled
    <3>1. kids' = [kids EXCEPT ![s] = [label |-> r.name, patch |-> r.data.patch]] /\ unseen' = unseen \cup {s}
      BY <2>2 DEF Put
    <3>2. \A u \in Children : u # s => kids'[u] = kids[u] BY <3>1 DEF HistInv
    <3>3. kids'[s].label = r.name BY <3>1 DEF HistInv
    <3>4. r.name \in LiveNames(o) BY DEF LiveNames
    <3>5. kids' = [u \in Children |-> kids'[u]] BY <3>1 DEF HistInv
    <3> QED BY <1>3, <3>1, <3>2, <3>3, <3>4, <3>5 DEF HistInv
  <2> QED BY <1>4, <2>1, <2>2
<1>9. HistInv' BY <1>3, <1>6, <1>7, <1>8 DEF HistInv
<1>10. ASSUME NEW r \in revs, r.name \in InUse' PROVE Named(revs', r.name) # {}
  <2>1. Named(o.revs, r.name) # {} BY <1>2 DEF NamesKept
  <2>2. CASE revs' = o.revs BY <2>1, <2>2
  <2>3. CASE /\ owner' = RevisionStatus(o, StatelessAdvances(o.update))
             /\ revs' = Remaining(o.revs, StatelessTruncate(LiveNames(o)))
             /\ unseen = {}
    <3>1. IsOwner(owner) BY DEF HistInv
    <3>2. owner'.current \in LiveNames(o) /\ owner'.update \in LiveNames(o)
      BY <2>3, <3>1 DEF RevisionStatus, LiveNames, IsOwner
    <3>3. CASE r.name \in LiveNames(o)
      <4>1. r.name \notin StatelessTruncate(LiveNames(o)) BY <3>3, TruncatesUnused
      <4> QED BY <2>1, <2>3, <4>1 DEF Named, Remaining
    <3>4. ASSUME NEW s \in Children, kids'[s] # None, kids'[s].label = r.name, kids'[s] = kids[s]
          PROVE  Named(revs', r.name) # {}
      <4>1. kidsSeen[s] = kids[s] BY <2>3, <3>4 DEF HistInv
      <4>2. r.name \notin StatelessTruncate(LiveNames(o)) BY <3>4, <4>1, TruncatesUnused
      <4> QED BY <2>1, <2>3, <4>2 DEF Named, Remaining
    <3>5. r.name \in LiveNames(o) \/ \E s \in Children : kids'[s] # None /\ kids'[s].label = r.name
      BY <1>10, <3>2 DEF InUse
    <3> HIDE DEF Rolled
    <3> QED BY <1>8, <3>3, <3>4, <3>5 DEF Rolled
  <2> QED BY <1>1, <2>2, <2>3
<1> QED BY <1>9, <1>10

LEMMA HistStep ==
  ASSUME HistInv, [HistNext]_histVars
  PROVE  /\ HistInv'
         /\ \A r \in revs : r.name \in InUse' => Named(revs', r.name) # {}
<1>1. CASE HistPass
  <2>1. StatelessPass BY <1>1 DEF HistPass, StatefulPass, InstancePass, HistInv
  <2> QED BY <2>1, PassKeeps
<1>2. ASSUME revs' = revs PROVE \A r \in revs : Named(revs', r.name) # {} BY <1>2 DEF Named
<1>3. CASE EditTemplate
  <2>1. UNCHANGED <<histKind, revs, kids, kidsSeen, unseen>> BY <1>3 DEF EditTemplate
  <2>2. IsOwner(owner') BY <1>3 DEF EditTemplate, HistInv, IsOwner
  <2> QED BY <1>2, <2>1, <2>2 DEF HistInv
<1>4. CASE Upgrade BY <1>2, <1>4 DEF Upgrade, HistInv
<1>5. CASE ObserveHistory
  BY <1>2, <1>5 DEF ObserveHistory, ObserveOwner, ObserveRevisions, ObserveKids, HistInv
<1>6. ASSUME NEW s \in Children, KidLost(s)
      PROVE  HistInv' /\ revs' = revs
  <2>1. kids' = [kids EXCEPT ![s] = None] /\ unseen' = unseen \ {s} /\ UNCHANGED <<histKind, owner, revs, kidsSeen>>
    BY <1>6 DEF KidLost
  <2>2. kids' = [u \in Children |-> kids'[u]] /\ \A u \in Children : kids'[u] = IF u = s THEN None ELSE kids[u]
    BY <2>1 DEF HistInv
  <2> QED BY <2>1, <2>2 DEF HistInv
<1>7. CASE UNCHANGED histVars BY <1>2, <1>7 DEF histVars, HistInv
<1> QED BY <1>1, <1>2, <1>3, <1>4, <1>5, <1>6, <1>7 DEF HistNext

\* RevisionsInUseKept for a stateless set with any number of instances,
\* templates, hash collisions and edits: the wait for its own writes makes the
\* labels a pass sees those of every instance that is left, so that
\* truncateHistory never deletes the ControllerRevision an instance, or the
\* status, still names.
THEOREM StatelessHistoryKept == histKind = "stateless" /\ HistSpec => RevisionsInUseKept
<1>1. histKind = "stateless" /\ HistInit => HistInv
  BY DEF HistInit, HistInv, IsOwner
<1>2. HistInv /\ [HistNext]_histVars => HistInv' BY HistStep
<1>3. HistInv /\ [HistNext]_histVars
        => [histKind # "stateful" =>
              \A r \in revs : r.name \in InUse \cap InUse' => Named(revs', r.name) # {}]_histVars
  BY HistStep
<1> QED BY <1>1, <1>2, <1>3, PTL DEF HistSpec, RevisionsInUseKept

-----------------------------------------------------------------------------
(***************************************************************************)
(* Rollouts without an edit.                                               *)
(***************************************************************************)
\* Bounded sets of numbers have a greatest element.
LEMMA Greatest ==
  ASSUME NEW S, NEW b \in Nat, S \subseteq 0 .. b, S # {}
  PROVE  \E n \in S : \A m \in S : m <= n
<1> DEFINE T == {b - k : k \in S}
<1>1. T \in SUBSET Nat
  <2> SUFFICES ASSUME NEW k \in S PROVE b - k \in Nat OBVIOUS
  <2>1. k \in 0 .. b OBVIOUS
  <2> QED BY <2>1
<1> DEFINE R == OpToRel(<, Nat)
<1>2. IsWellFoundedOn(R, Nat) BY NatLessThanWellFounded, Zenon
<1>3. \A x, y \in Nat : <<y, x>> \in R <=> y < x BY SMT DEF OpToRel
<1> HIDE DEF R
<1>4. PICK x \in T : \A y \in T : ~(<<y, x>> \in R)
  <2>1. T # {} OBVIOUS
  <2> HIDE DEF T
  <2> QED BY <1>1, <1>2, <2>1, WFMin, Zenon
<1>5. \A y \in T : ~(y < x) BY <1>1, <1>3, <1>4, Zenon
<1>6. PICK n \in S : x = b - n BY <1>4
<1>7. ASSUME NEW m \in S PROVE m <= n
  <2>1. b - m \in T OBVIOUS
  <2> HIDE DEF T
  <2> QED BY <1>5, <1>6, <2>1
<1> QED BY <1>7

Numbers(r) == r.number \in Nat /\ r.born \in Nat
Below(R, b) == \A r \in R : r.number <= b /\ r.born <= b

\* The newest revision of a bounded set is one of it that no other follows.
LEMMA NewestOf ==
  ASSUME NEW R, \A r \in R : Numbers(r), NEW b \in Nat, Below(R, b), R # {}
  PROVE  Newest(R) \in R /\ \A o \in R : ~Before(Newest(R), o)
<1> DEFINE S == {r.number : r \in R}
<1>1. S \subseteq 0 .. b /\ S # {} BY DEF Numbers, Below
<1>2. PICK m \in S : \A k \in S : k <= m BY <1>1, Greatest
<1> DEFINE Q == {r \in R : r.number = m}
           B == {r.born : r \in Q}
<1>3. B \subseteq 0 .. b /\ B # {} BY DEF Numbers, Below
<1>4. PICK l \in B : \A k \in B : k <= l BY <1>3, Greatest
<1>5. PICK r \in Q : r.born = l BY <1>4
<1>6. ASSUME NEW o \in R PROVE ~Before(r, o)
  <2>1. o.number <= m BY <1>2
  <2>2. o.number = m => o.born <= l BY <1>4
  <2> QED BY <1>5, <2>1, <2>2 DEF Before, Numbers
<1>7. \E x \in R : \A o \in R : ~Before(x, o) BY <1>5, <1>6
<1> HIDE DEF S, Q, B
<1> QED BY <1>7, Zenon DEF Newest

\* A record and what it is called while no two records share a name.
HashesApart == \A d, e \in Data : HashOf[d, 0] = HashOf[e, 0] => d = e
Recorded(r) == IsRevision(r) /\ Numbers(r) /\ r.data \in Data /\ r.name = HashOf[r.data, 0]

\* Left by the release before the one that runs.
Older(r) == r.data.codec = 1 /\ codec = 2

\* What is true of the revisions in the API server, given those that were
\* seen: one that was written since then has a higher number than those; those
\* of an earlier release were all seen, and all later ones follow them; and
\* what was not seen at all was created because the newest that was seen
\* records another template.
Tidy(R) ==
  /\ \A r \in R : Recorded(r)
  /\ \A r, o \in R : r.name = o.name \/ r.born = o.born => r = o
  /\ \A r \in R, o \in revsSeen : r \in revsSeen \/ r.number > o.number
  /\ \A r \in R : codec = 1 => r.data.codec = 1
  /\ \A r \in R : Older(r) => r \in revsSeen
  /\ \A r \in R, o \in R \cup revsSeen : Older(r) /\ ~Older(o) => o.number > r.number
  /\ \A r \in R : revsSeen # {} /\ Newest(revsSeen).data.patch = r.data.patch
                    => Named(revsSeen, r.name) # {}
  /\ \E b \in Nat : Below(R, b)
SeenTidy ==
  /\ \A r \in revsSeen : Recorded(r)
  /\ \A r, o \in revsSeen : r.name = o.name => r = o
  /\ \A r \in revsSeen : codec = 1 => r.data.codec = 1
  /\ \E b \in Nat : Below(revsSeen, b)
\* The status names a revision of an earlier release: then the newest that was
\* seen has not been deleted, or there is one newer still.
NewestHeld ==
  \A r \in revs : Older(r) /\ r.name = owner.update
                    => Newest(revsSeen) \in revs \/ ~(revs \subseteq revsSeen)
OwnerOK(o) == IsOwner(o) /\ o.collision = 0 /\ o.template \in OwnerTemplates
QuietInv ==
  /\ histKind \in {"stateless", "instance"} /\ codec \in Codecs /\ HashesApart
  /\ OwnerOK(owner) /\ OwnerOK(ownerSeen)
  /\ Tidy(revs) /\ SeenTidy /\ NewestHeld

LEMMA TidySubset ==
  ASSUME NEW A, NEW B, Tidy(A), B \subseteq A
  PROVE  Tidy(B)
BY DEF Tidy, Below

LEMMA NewestSeen ==
  ASSUME SeenTidy, NEW R, R \subseteq revsSeen, R # {}
  PROVE  Newest(R) \in R /\ \A o \in R : ~Before(Newest(R), o)
<1>1. PICK b \in Nat : Below(revsSeen, b) BY DEF SeenTidy
<1>2. Below(R, b) /\ \A r \in R : Numbers(r) BY <1>1 DEF Below, SeenTidy, Recorded
<1> QED BY <1>2, NewestOf

LEMMA NewestStored ==
  ASSUME NEW R, Tidy(R), R # {}
  PROVE  Newest(R) \in R /\ \A o \in R : ~Before(Newest(R), o)
<1>1. PICK b \in Nat : Below(R, b) BY DEF Tidy
<1>2. \A r \in R : Numbers(r) BY DEF Tidy, Recorded
<1> QED BY <1>1, <1>2, NewestOf

\* What a pass may make of its revisions.  data is what is to be recorded.
Recording(t) == [patch |-> PatchOf(t), codec |-> codec]
Renumbered(x) == [x EXCEPT !.number = NextRevision(revsSeen)]
NewestKept(t, o) ==
  /\ o = Outcome(revs, Newest(revsSeen), 0) /\ revsSeen # {}
  /\ Newest(revsSeen).data.patch = PatchOf(t)
  /\ Newest(revsSeen).data = Recording(t) \/ \A r \in revsSeen : r.data # Recording(t)
RenumbersOne(t, o) ==
  \E x \in revs, y \in revsSeen :
    /\ x.data = Recording(t) /\ y.name = x.name
    /\ o = Outcome((revs \ {x}) \cup {Renumbered(x)}, Renumbered(x), 0)
FindsTaken(t, o) ==
  \E x \in revs, y \in revs \cup revsSeen :
    x.data = Recording(t) /\ y.data = Recording(t) /\ o = Outcome(revs, y, 0)
CreatesOne(t, o) ==
  LET new == NewRevision(t, NextRevision(revsSeen), 0)
  IN /\ \A r \in revs : r.name # new.name
     /\ revsSeen # {} => Newest(revsSeen).data.patch # PatchOf(t)
     /\ o = Outcome(revs \cup {new}, new, 0)

LEMMA RecordingData ==
  ASSUME NEW t \in OwnerTemplates, codec \in Codecs
  PROVE  Recording(t) \in Data
BY DEF Recording, Data

\* A revision that applies to the template without a change records it.
LEMMA MatchIsEqual ==
  ASSUME QuietInv, NEW t \in OwnerTemplates, NEW d \in Data
  PROVE  MatchesRevision(t, d) <=> d.patch = PatchOf(t)
<1>1. PICK u \in OwnerTemplates : d.patch = PatchOf(u) BY DEF Data
<1>2. CASE histKind = "stateless"
  BY <1>1, <1>2 DEF MatchesRevision, StatelessMatches, StatelessPatch, StatelessApply, PatchOf
<1>3. CASE histKind = "instance"
  <2>1. PatchOf(u) = [components |-> u.components] /\ PatchOf(t) = [components |-> t.components]
    BY <1>3 DEF PatchOf, InstancePatch
  <2>2. InstanceApply(t, d.patch).components = u.components
    BY <1>1, <2>1, TemplateAssumption DEF InstanceApply
  <2>3. InstanceMatches(t, d) <=> [components |-> u.components] = [components |-> t.components]
    BY <2>2 DEF InstanceMatches, InstancePatch
  <2> QED BY <1>1, <1>3, <2>1, <2>3 DEF MatchesRevision
<1> QED BY <1>2, <1>3 DEF QuietInv

LEMMA SameData ==
  ASSUME QuietInv, NEW x \in revs \cup revsSeen, NEW d \in Data, x.name = HashOf[d, 0]
  PROVE  x.data = d
BY DEF QuietInv, Tidy, SeenTidy, Recorded, HashesApart

LEMMA RenumberOutcomes ==
  ASSUME QuietInv, NEW t \in OwnerTemplates, NEW old \in revsSeen, old.data = Recording(t),
         NEW o \in UpdateControllerRevision(old, NextRevision(revsSeen), 0)
  PROVE  o = Failed(0) \/ RenumbersOne(t, o)
<1>1. o = Failed(0)
        \/ \E x \in revs : x.name = old.name
             /\ o = Outcome((revs \ {x}) \cup {Renumbered(x)}, Renumbered(x), 0)
  BY Zenon DEF UpdateControllerRevision, Named, Renumbered
<1>2. old.name = HashOf[Recording(t), 0] BY DEF QuietInv, SeenTidy, Recorded
<1>3. \A x \in revs : x.name = old.name => x.data = Recording(t)
  BY <1>2, SameData, RecordingData DEF QuietInv
<1> QED BY <1>1, <1>3 DEF RenumbersOne

LEMMA CreateOutcomes ==
  ASSUME QuietInv, NEW t \in OwnerTemplates, \A r \in revsSeen : r.data # Recording(t),
         revsSeen # {} => Newest(revsSeen).data.patch # PatchOf(t),
         NEW o \in CreateControllerRevision(t, NextRevision(revsSeen), 0)
  PROVE  o = Failed(0) \/ FindsTaken(t, o) \/ CreatesOne(t, o)
<1> DEFINE number == NextRevision(revsSeen)
           At(c) == NewRevision(t, number, c)
           Taken(c) == Named(revs, At(c).name) # {}
           Other(c, view) == \E r \in Named(view, At(c).name) : r.data # At(c).data
           Open(view) == {c \in 0 .. MaxCollision : ~Taken(c) \/ ~Other(c, view)}
           Result(c, view) ==
             IF ~Taken(c) THEN Outcome(revs \cup {At(c)}, At(c), c)
             ELSE IF Named(view, At(c).name) = {} THEN Failed(c)
             ELSE Outcome(revs, CHOOSE r \in Named(view, At(c).name) : TRUE, c)
<1>1. PICK view \in {revsSeen, revs} : o = Result(Min(Open(view)), view)
  BY Zenon DEF CreateControllerRevision
<1>2. At(0).name = HashOf[Recording(t), 0] /\ At(0).data = Recording(t)
  BY DEF NewRevision, Recording
<1>3. Recording(t) \in Data BY RecordingData DEF QuietInv
<1>4. \A r \in revs \cup revsSeen : r.name = At(0).name => r.data = Recording(t)
  BY <1>2, <1>3, SameData
<1>5. ~Other(0, view) BY <1>2, <1>4 DEF Named
<1>6. Min(Open(view)) = 0
  <2>1. 0 \in Open(view) BY <1>5 DEF MaxCollision
  <2>2. \A c \in Open(view) : c \in Nat BY DEF MaxCollision
  <2> HIDE DEF Open
  <2>3. 0 \in Open(view) /\ \A c \in Open(view) : 0 <= c BY <2>1, <2>2
  <2>4. Min(Open(view)) \in Open(view) /\ \A c \in Open(view) : Min(Open(view)) <= c
    BY <2>3, Zenon DEF Min
  <2> QED BY <2>1, <2>2, <2>4
<1>7. o = Result(0, view) BY <1>1, <1>6
<1> HIDE DEF number, Open
<1>8. CASE ~Taken(0)
  <2>1. o = Outcome(revs \cup {At(0)}, At(0), 0) BY <1>7, <1>8
  <2>2. \A r \in revs : r.name # At(0).name BY <1>8 DEF Named
  <2> HIDE DEF At
  <2> QED BY <2>1, <2>2 DEF CreatesOne, At, number
<1>9. CASE Taken(0) /\ Named(view, At(0).name) = {}
  <2>1. o = Failed(0) BY <1>7, <1>9
  <2> QED BY <2>1
<1>10. CASE Taken(0) /\ Named(view, At(0).name) # {}
  <2>1. PICK y : y \in Named(view, At(0).name) /\ o = Outcome(revs, y, 0) BY <1>7, <1>10
  <2>2. PICK x \in revs : x.name = At(0).name BY <1>10 DEF Named
  <2>3. y \in revs \cup revsSeen /\ y.name = At(0).name BY <2>1 DEF Named
  <2>4. x.data = Recording(t) /\ y.data = Recording(t) BY <1>4, <2>2, <2>3
  <2> QED BY <2>1, <2>2, <2>3, <2>4, Zenon DEF FindsTaken
<1> QED BY <1>8, <1>9, <1>10

LEMMA ActiveOutcomes ==
  ASSUME QuietInv, NEW t \in OwnerTemplates, NEW o \in ActiveRevisions(t, 0)
  PROVE  o = Failed(0) \/ NewestKept(t, o) \/ RenumbersOne(t, o) \/ FindsTaken(t, o) \/ CreatesOne(t, o)
<1> DEFINE new == NewRevision(t, NextRevision(revsSeen), 0)
           equal == {r \in revsSeen : r.data = Recording(t)}
           newest == Newest(revsSeen)
<1>1. new.data = Recording(t) /\ new.number = NextRevision(revsSeen) BY DEF NewRevision, Recording
<1>2. o \in IF equal # {} /\ newest.data = Recording(t) THEN {Outcome(revs, newest, 0)}
            ELSE IF equal # {} THEN UpdateControllerRevision(Newest(equal), NextRevision(revsSeen), 0)
            ELSE IF revsSeen # {} /\ MatchesRevision(t, newest.data) THEN {Outcome(revs, newest, 0)}
            ELSE CreateControllerRevision(t, NextRevision(revsSeen), 0)
  BY <1>1, Zenon DEF ActiveRevisions
<1>3. revsSeen # {} => newest \in revsSeen BY NewestSeen DEF QuietInv
<1>4. revsSeen # {} => (MatchesRevision(t, newest.data) <=> newest.data.patch = PatchOf(t))
  BY <1>3, MatchIsEqual DEF QuietInv, SeenTidy, Recorded
<1>5. CASE equal # {} /\ newest.data = Recording(t)
  <2>1. newest.data.patch = PatchOf(t) BY <1>5 DEF Recording
  <2>2. o = Outcome(revs, newest, 0) /\ revsSeen # {} BY <1>2, <1>5
  <2> HIDE DEF newest
  <2> QED BY <1>5, <2>1, <2>2 DEF NewestKept, newest
<1>6. CASE equal # {} /\ newest.data # Recording(t)
  <2>1. Newest(equal) \in equal BY <1>6, NewestSeen DEF QuietInv
  <2>2. o \in UpdateControllerRevision(Newest(equal), NextRevision(revsSeen), 0) BY <1>2, <1>6
  <2> QED BY <2>1, <2>2, RenumberOutcomes
<1>7. CASE equal = {} /\ revsSeen # {} /\ MatchesRevision(t, newest.data)
  <2>1. o = Outcome(revs, newest, 0) BY <1>2, <1>7
  <2>2. \A r \in revsSeen : r.data # Recording(t) BY <1>7
  <2> HIDE DEF newest
  <2> QED BY <1>4, <1>7, <2>1, <2>2 DEF NewestKept, newest
<1>8. CASE equal = {} /\ ~(revsSeen # {} /\ MatchesRevision(t, newest.data))
  <2>1. o \in CreateControllerRevision(t, NextRevision(revsSeen), 0) BY <1>2, <1>8
  <2>2. \A r \in revsSeen : r.data # Recording(t) BY <1>8
  <2>3. revsSeen # {} => Newest(revsSeen).data.patch # PatchOf(t) BY <1>4, <1>8
  <2> QED BY <2>1, <2>2, <2>3, CreateOutcomes
<1> QED BY <1>5, <1>6, <1>7, <1>8

\* The number a pass gives is above all that were seen.
LEMMA NextIsAbove ==
  ASSUME SeenTidy
  PROVE  NextRevision(revsSeen) \in Nat /\ \A o \in revsSeen : NextRevision(revsSeen) > o.number
<1>1. CASE revsSeen = {} BY <1>1 DEF NextRevision
<1>2. CASE revsSeen # {}
  <2>1. Newest(revsSeen) \in revsSeen /\ \A o \in revsSeen : ~Before(Newest(revsSeen), o) BY <1>2, NewestSeen
  <2>2. \A r \in revsSeen : r.number \in Nat BY DEF SeenTidy, Recorded, Numbers
  <2>3. NextRevision(revsSeen) = Newest(revsSeen).number + 1 BY <1>2 DEF NextRevision
  <2> QED BY <2>1, <2>2, <2>3 DEF Before
<1> QED BY <1>1, <1>2

\* A revision z that is created, or takes the place of one of its name, with a
\* number above all that were seen.
LEMMA TidyWith ==
  ASSUME QuietInv, NEW t \in OwnerTemplates, NEW R \in SUBSET revs, NEW z,
         Recorded(z), z.data = Recording(t), z.number = NextRevision(revsSeen),
         \A r \in R : r.name # z.name /\ r.born # z.born,
         revsSeen # {} /\ Newest(revsSeen).data.patch = PatchOf(t) => Named(revsSeen, z.name) # {}
  PROVE  Tidy(R \cup {z}) /\ z \notin revsSeen
<1>1. z.number \in Nat /\ \A o \in revsSeen : z.number > o.number BY NextIsAbove DEF QuietInv
<1>2. \A r \in revsSeen : r.number \in Nat BY DEF QuietInv, SeenTidy, Recorded, Numbers
<1>3. z \notin revsSeen BY <1>1, <1>2
<1>4. z.data.codec = codec /\ z.data.patch = PatchOf(t) BY DEF Recording
<1>5. ~Older(z) BY <1>4 DEF Older
<1>6. Tidy(R) BY TidySubset DEF QuietInv
<1> DEFINE A == R \cup {z}
<1>7. \A r \in A : Recorded(r) BY <1>6 DEF Tidy
<1>8. \A r, o \in A : r.name = o.name \/ r.born = o.born => r = o BY <1>6 DEF Tidy
<1>9. \A r \in A, o \in revsSeen : r \in revsSeen \/ r.number > o.number BY <1>1, <1>6 DEF Tidy
<1>10. \A r \in A : codec = 1 => r.data.codec = 1 BY <1>4, <1>6 DEF Tidy
<1>11. \A r \in A : Older(r) => r \in revsSeen BY <1>5, <1>6 DEF Tidy
<1>12. \A r \in A, o \in A \cup revsSeen : Older(r) /\ ~Older(o) => o.number > r.number
  <2> SUFFICES ASSUME NEW r \in A, NEW o \in A \cup revsSeen, Older(r), ~Older(o)
               PROVE  o.number > r.number
    OBVIOUS
  <2>1. r \in R /\ r \in revsSeen BY <1>5, <1>11
  <2>2. CASE o = z BY <1>1, <2>1, <2>2
  <2>3. CASE o \in R \cup revsSeen BY <1>6, <2>1, <2>3 DEF Tidy
  <2> QED BY <2>2, <2>3
<1>13. \A r \in A : revsSeen # {} /\ Newest(revsSeen).data.patch = r.data.patch
                      => Named(revsSeen, r.name) # {}
  BY <1>4, <1>6 DEF Tidy
<1>14. \E b \in Nat : Below(A, b)
  <2>1. PICK b \in Nat : Below(R, b) BY <1>6 DEF Tidy
  <2>2. z.born \in Nat BY DEF Recorded, Numbers
  <2>3. \A r \in R : Numbers(r) BY <1>6 DEF Tidy, Recorded
  <2>4. b + z.number + z.born \in Nat /\ Below(A, b + z.number + z.born)
    BY <1>1, <2>1, <2>2, <2>3 DEF Below, Numbers
  <2> QED BY <2>4
<1> HIDE DEF A
<1>15. Tidy(A) BY <1>7, <1>8, <1>9, <1>10, <1>11, <1>12, <1>13, <1>14 DEF Tidy
<1> QED BY <1>3, <1>15 DEF A

LEMMA RenumberTidy ==
  ASSUME QuietInv, NEW t \in OwnerTemplates, NEW x \in revs, NEW y \in revsSeen,
         x.data = Recording(t), y.name = x.name
  PROVE  /\ Tidy((revs \ {x}) \cup {Renumbered(x)}) /\ Renumbered(x) \notin revsSeen
         /\ Renumbered(x).name = x.name /\ Renumbered(x).data = x.data
<1> DEFINE n == NextRevision(revsSeen)
           z == [x EXCEPT !.number = n]
<1>1. n \in Nat BY NextIsAbove DEF QuietInv
<1>2. Recorded(x) BY DEF QuietInv, Tidy
<1>3. IsRevision(z) /\ z.name = x.name /\ z.data = x.data /\ z.number = n /\ z.born = x.born
  <2>1. IsRevision(x) BY <1>2 DEF Recorded
  <2>2. PICK k : k = n OBVIOUS
  <2>3. z = [x EXCEPT !.number = k] BY <2>2
  <2> HIDE DEF n, z
  <2> QED BY <2>1, <2>2, <2>3 DEF IsRevision
<1> HIDE DEF n
<1> HIDE DEF z
<1>4. Recorded(z) BY <1>1, <1>2, <1>3 DEF Recorded, Numbers
<1>5. \A r \in revs \ {x} : r.name # z.name /\ r.born # z.born BY <1>3 DEF QuietInv, Tidy
<1>6. Named(revsSeen, z.name) # {} BY <1>3 DEF Named
<1>7. z.number = NextRevision(revsSeen) /\ z.data = Recording(t) BY <1>3 DEF n
<1>8. Tidy((revs \ {x}) \cup {z}) /\ z \notin revsSeen BY <1>4, <1>5, <1>6, <1>7, TidyWith
<1>9. Renumbered(x) = z BY DEF Renumbered, z, n
<1> QED BY <1>3, <1>8, <1>9

LEMMA CreateTidy ==
  ASSUME QuietInv, NEW t \in OwnerTemplates, NEW o, CreatesOne(t, o)
  PROVE  /\ Tidy(o.revs) /\ o.update.data = Recording(t) /\ o.collision = 0
         /\ o.update \notin revsSeen /\ o.revs = revs \cup {o.update}
<1> DEFINE n == NextRevision(revsSeen)
           B == {0} \cup {r.born : r \in revs}
           z == NewRevision(t, n, 0)
<1>1. n \in Nat BY NextIsAbove DEF QuietInv
<1>2. \A r \in revs : r.born \in Nat BY DEF QuietInv, Tidy, Recorded, Numbers
<1>3. PICK b \in Nat : Below(revs, b) BY DEF QuietInv, Tidy
<1>4. B \subseteq 0 .. b /\ B # {} BY <1>2, <1>3 DEF Below
<1> HIDE DEF B
<1>5. Max(B) \in B /\ \A m \in B : m <= Max(B)
  <2>1. PICK m \in B : \A k \in B : m >= k BY <1>4, Greatest
  <2>2. Max(B) \in B /\ \A k \in B : Max(B) >= k BY <2>1, Zenon DEF Max
  <2> QED BY <1>4, <2>2
<1> DEFINE top == Max(B)
<1>6. z = [name |-> HashOf[Recording(t), 0], data |-> Recording(t), number |-> n, born |-> top + 1]
  BY DEF NewRevision, Recording, B
<1> HIDE DEF z, n, top
<1>7. top \in Nat /\ \A m \in B : m <= top
  <2>1. top \in B /\ \A m \in B : m <= top BY <1>5 DEF top
  <2> QED BY <1>4, <2>1
<1>8. Recorded(z)
  <2>1. Recording(t) \in Data BY RecordingData DEF QuietInv
  <2>2. top + 1 \in Nat BY <1>7
  <2>3. IsRevision(z) /\ z.name = HashOf[z.data, 0] /\ z.data = Recording(t)
    BY <1>6 DEF IsRevision
  <2>4. z.number = n /\ z.born = top + 1 BY <1>6
  <2> QED BY <1>1, <2>1, <2>2, <2>3, <2>4 DEF Recorded, Numbers
<1>9. \A r \in revs : r.born # z.born
  <2>1. \A r \in revs : r.born \in B BY DEF B
  <2>2. z.born = top + 1 BY <1>6
  <2> QED BY <1>2, <1>7, <2>1, <2>2
<1>10. /\ \A r \in revs : r.name # z.name
       /\ revsSeen # {} => Newest(revsSeen).data.patch # PatchOf(t)
       /\ o = Outcome(revs \cup {z}, z, 0)
  BY DEF CreatesOne, z, n
<1>11. z.number = NextRevision(revsSeen) /\ z.data = Recording(t)
  BY <1>6 DEF n
<1>12. Tidy(revs \cup {z}) /\ z \notin revsSeen BY <1>8, <1>9, <1>10, <1>11, TidyWith
<1> QED BY <1>10, <1>11, <1>12 DEF Outcome

\* What every outcome leaves.
LEMMA OutcomeTidy ==
  ASSUME QuietInv, NEW t \in OwnerTemplates, NEW o \in ActiveRevisions(t, 0)
  PROVE  /\ Tidy(o.revs) /\ o.collision = 0
         /\ Newest(revsSeen) \in revs => Newest(revsSeen) \in o.revs \/ ~(o.revs \subseteq revsSeen)
         /\ ~(revs \subseteq revsSeen) => ~(o.revs \subseteq revsSeen)
<1>1. Tidy(revs) BY DEF QuietInv
<1>2. CASE o = Failed(0) BY <1>1, <1>2 DEF Failed, Outcome
<1>3. CASE NewestKept(t, o) BY <1>1, <1>3 DEF NewestKept, Outcome
<1>4. CASE RenumbersOne(t, o)
  <2>1. PICK x \in revs, y \in revsSeen :
          /\ x.data = Recording(t) /\ y.name = x.name
          /\ o = Outcome((revs \ {x}) \cup {Renumbered(x)}, Renumbered(x), 0)
    BY <1>4, Zenon DEF RenumbersOne
  <2>2. Tidy((revs \ {x}) \cup {Renumbered(x)}) /\ Renumbered(x) \notin revsSeen BY <2>1, RenumberTidy
  <2>3. o.revs = (revs \ {x}) \cup {Renumbered(x)} /\ o.collision = 0 BY <2>1 DEF Outcome
  <2> QED BY <2>2, <2>3
<1>5. CASE FindsTaken(t, o) BY <1>1, <1>5 DEF FindsTaken, Outcome
<1>6. CASE CreatesOne(t, o) BY <1>6, CreateTidy
<1> QED BY <1>2, <1>3, <1>4, <1>5, <1>6, ActiveOutcomes

LEMMA UpdateRecorded ==
  ASSUME QuietInv, NEW t \in OwnerTemplates, NEW o \in ActiveRevisions(t, 0), o.update # None
  PROVE  /\ Recorded(o.update)
         /\ NewestKept(t, o) \/ o.update.data = Recording(t)
<1>1. o # Failed(0) BY DEF Failed, Outcome
<1>2. CASE NewestKept(t, o)
  <2>1. o.update = Newest(revsSeen) /\ revsSeen # {} BY <1>2 DEF NewestKept, Outcome
  <2>2. Newest(revsSeen) \in revsSeen BY <2>1, NewestSeen DEF QuietInv
  <2> QED BY <1>2, <2>1, <2>2 DEF QuietInv, SeenTidy
<1>3. CASE RenumbersOne(t, o)
  <2>1. PICK x \in revs, y \in revsSeen :
          /\ x.data = Recording(t) /\ y.name = x.name
          /\ o = Outcome((revs \ {x}) \cup {Renumbered(x)}, Renumbered(x), 0)
    BY <1>3, Zenon DEF RenumbersOne
  <2>2. Tidy((revs \ {x}) \cup {Renumbered(x)}) /\ Renumbered(x).data = x.data BY <2>1, RenumberTidy
  <2>3. o.update = Renumbered(x) BY <2>1 DEF Outcome
  <2>4. Recorded(Renumbered(x)) BY <2>2 DEF Tidy
  <2> QED BY <2>1, <2>2, <2>3, <2>4
<1>4. CASE FindsTaken(t, o)
  <2>1. PICK y \in revs \cup revsSeen : y.data = Recording(t) /\ o = Outcome(revs, y, 0)
    BY <1>4, Zenon DEF FindsTaken
  <2>2. o.update = y BY <2>1 DEF Outcome
  <2>3. Recorded(y) BY DEF QuietInv, Tidy, SeenTidy
  <2> QED BY <2>1, <2>2, <2>3
<1>5. CASE CreatesOne(t, o) BY <1>5, CreateTidy DEF Tidy
<1> QED BY <1>1, <1>2, <1>3, <1>4, <1>5, ActiveOutcomes

LEMMA OneData ==
  ASSUME HashesApart, NEW x, NEW y, Recorded(x), Recorded(y), x.name = y.name
  PROVE  x.data = y.data
BY DEF HashesApart, Recorded

\* The passes of a stateless set and of an instance: without a status there is
\* no truncation, and a revision that the status names is not truncated.
Stored(o) ==
  /\ o.update # None
  /\ \E advances \in BOOLEAN : owner' = RevisionStatus(o, advances)
  /\ revs' \subseteq o.revs /\ \A r \in o.revs : r.name = o.update.name => r \in revs'
LEMMA QuietPasses ==
  ASSUME QuietInv, HistPass
  PROVE  /\ UNCHANGED <<histKind, codec, ownerSeen, revsSeen>>
         /\ \E o \in ActiveRevisions(ownerSeen.template, 0) :
              (owner' = owner /\ revs' = o.revs) \/ Stored(o)
<1>1. ownerSeen.collision = 0 BY DEF QuietInv, OwnerOK
<1>2. CASE StatelessPass
  <2>1. PICK o \in ActiveRevisions(ownerSeen.template, ownerSeen.collision) :
          \/ owner' = owner /\ revs' = o.revs
          \/ /\ o.update # None /\ owner' = RevisionStatus(o, StatelessAdvances(o.update))
             /\ revs' = Remaining(o.revs, StatelessTruncate(LiveNames(o)))
    BY <1>2, Zenon DEF StatelessPass, StatusStored, StatusLost
  <2>2. o.update.name \notin StatelessTruncate(LiveNames(o))
    BY DEF StatelessTruncate, TruncateControllerRevisions, LiveNames
  <2>3. StatelessAdvances(o.update) \in BOOLEAN BY DEF StatelessAdvances, AllOn
  <2>4. revs' = Remaining(o.revs, StatelessTruncate(LiveNames(o)))
          => revs' \subseteq o.revs /\ \A r \in o.revs : r.name = o.update.name => r \in revs'
    BY <2>2 DEF Remaining
  <2>5. (owner' = owner /\ revs' = o.revs) \/ Stored(o) BY <2>1, <2>3, <2>4, Zenon DEF Stored
  <2>6. UNCHANGED <<histKind, codec, ownerSeen, revsSeen>> BY <1>2 DEF StatelessPass
  <2> QED BY <1>1, <2>5, <2>6
<1>3. CASE InstancePass
  <2>1. PICK o \in ActiveRevisions(ownerSeen.template, ownerSeen.collision) :
          \/ owner' = owner /\ revs' = o.revs
          \/ /\ o.update # None /\ owner' = RevisionStatus(o, InstanceAdvances(o.update))
             /\ revs' = Remaining(o.revs, InstanceTruncate(LiveNames(o)))
    BY <1>3, Zenon DEF InstancePass, StatusStored, StatusLost
  <2>2. o.update.name \notin InstanceTruncate(LiveNames(o))
    BY DEF InstanceTruncate, TruncateControllerRevisions, LiveNames
  <2>3. InstanceAdvances(o.update) \in BOOLEAN BY DEF InstanceAdvances, AllOn
  <2>4. revs' = Remaining(o.revs, InstanceTruncate(LiveNames(o)))
          => revs' \subseteq o.revs /\ \A r \in o.revs : r.name = o.update.name => r \in revs'
    BY <2>2 DEF Remaining
  <2>5. (owner' = owner /\ revs' = o.revs) \/ Stored(o) BY <2>1, <2>3, <2>4, Zenon DEF Stored
  <2>6. UNCHANGED <<histKind, codec, ownerSeen, revsSeen>> BY <1>3 DEF InstancePass
  <2> QED BY <1>1, <2>5, <2>6
<1>4. ~StatefulPass BY DEF StatefulPass, QuietInv
<1> QED BY <1>2, <1>3, <1>4 DEF HistPass

LEMMA QuietPassKeeps ==
  ASSUME QuietInv, HistPass
  PROVE  QuietInv'
<1>1. UNCHANGED <<histKind, codec, ownerSeen, revsSeen>> BY QuietPasses
<1>2. PICK o \in ActiveRevisions(ownerSeen.template, 0) :
        (owner' = owner /\ revs' = o.revs) \/ Stored(o)
  BY QuietPasses
<1>3. PICK t : t = ownerSeen.template OBVIOUS
<1>4. t \in OwnerTemplates /\ o \in ActiveRevisions(t, 0) BY <1>2, <1>3 DEF QuietInv, OwnerOK
<1>5. /\ Tidy(o.revs) /\ o.collision = 0
      /\ Newest(revsSeen) \in revs => Newest(revsSeen) \in o.revs \/ ~(o.revs \subseteq revsSeen)
      /\ ~(revs \subseteq revsSeen) => ~(o.revs \subseteq revsSeen)
  BY <1>4, OutcomeTidy
<1>6. revs' \subseteq o.revs BY <1>2 DEF Stored
<1>7. Tidy(revs)'
  <2>1. Tidy(revs') BY <1>5, <1>6, TidySubset
  <2>2. Data' = Data BY <1>1 DEF Data, PatchOf, StatefulPatch, StatelessPatch, InstancePatch
  <2> QED BY <1>1, <2>1, <2>2 DEF Tidy, Recorded, Older, Numbers, Below, IsRevision, Named, Newest, Before
<1>8. SeenTidy' /\ HashesApart'
  <2>1. Data' = Data BY <1>1 DEF Data, PatchOf, StatefulPatch, StatelessPatch, InstancePatch
  <2> QED BY <1>1, <2>1 DEF QuietInv, SeenTidy, HashesApart, Recorded, Numbers, Below, IsRevision
<1>9. OwnerOK(owner)' /\ OwnerOK(ownerSeen)'
  <2>1. CASE owner' = owner BY <1>1, <2>1 DEF QuietInv, OwnerOK, IsOwner
  <2>2. CASE Stored(o)
    <3>1. PICK a \in BOOLEAN : owner' = RevisionStatus(o, a) BY <2>2 DEF Stored
    <3>2. PICK x, y : owner' = [owner EXCEPT !.current = x, !.update = y, !.collision = o.collision]
      BY <3>1, Zenon DEF RevisionStatus
    <3> QED BY <1>1, <1>5, <3>2 DEF QuietInv, OwnerOK, IsOwner
  <2> QED BY <1>2, <2>1, <2>2
<1>10. NewestHeld'
  <2> SUFFICES ASSUME NEW r \in revs', Older(r), r.name = owner'.update
               PROVE  Newest(revsSeen) \in revs' \/ ~(revs' \subseteq revsSeen)
    BY <1>1 DEF NewestHeld, Older
  <2>1. r \in revsSeen BY <1>5, <1>6 DEF Tidy
  <2>2. CASE owner' = owner /\ revs' = o.revs
    <3>1. CASE r \in revs BY <1>5, <2>2, <3>1 DEF QuietInv, NewestHeld
    <3>2. CASE r \notin revs
      <4>1. o.revs # revs BY <2>2, <3>2
      <4>2. CASE CreatesOne(t, o)
        <5>1. o.revs = revs \cup {o.update} /\ o.update \notin revsSeen BY <1>4, <4>2, CreateTidy
        <5> QED BY <2>2, <5>1
      <4>3. CASE RenumbersOne(t, o)
        <5>1. PICK x \in revs, y \in revsSeen :
                /\ x.data = Recording(t) /\ y.name = x.name
                /\ o = Outcome((revs \ {x}) \cup {Renumbered(x)}, Renumbered(x), 0)
          BY <4>3, Zenon DEF RenumbersOne
        <5>2. Renumbered(x) \notin revsSeen BY <1>4, <5>1, RenumberTidy
        <5>3. o.revs = (revs \ {x}) \cup {Renumbered(x)} BY <5>1 DEF Outcome
        <5> QED BY <2>2, <5>2, <5>3
      <4>4. o = Failed(0) \/ NewestKept(t, o) \/ FindsTaken(t, o) => o.revs = revs
        BY DEF Failed, NewestKept, FindsTaken, Outcome
      <4> QED BY <1>4, <4>1, <4>2, <4>3, <4>4, ActiveOutcomes
    <3> QED BY <3>1, <3>2
  <2>3. CASE Stored(o)
    <3>1. PICK a \in BOOLEAN : owner' = RevisionStatus(o, a) BY <2>3 DEF Stored
    <3>2. owner'.update = o.update.name
      <4>1. PICK x : owner' = [owner EXCEPT !.current = x, !.update = o.update.name, !.collision = o.collision]
        BY <3>1, Zenon DEF RevisionStatus
      <4> QED BY <4>1 DEF QuietInv, OwnerOK, IsOwner
    <3>3. o.update # None BY <2>3 DEF Stored
    <3>4. Recorded(o.update) /\ (NewestKept(t, o) \/ o.update.data = Recording(t))
      BY <1>4, <3>3, UpdateRecorded
    <3>5. Recorded(r) /\ r.name = o.update.name BY <1>5, <1>6, <3>2 DEF Tidy
    <3>6. r.data = o.update.data BY <3>4, <3>5, OneData DEF QuietInv
    <3>7. r.data # Recording(t) BY DEF Older, Recording
    <3>8. NewestKept(t, o) BY <3>4, <3>6, <3>7
    <3>9. o.update = Newest(revsSeen) /\ revsSeen # {} BY <3>8 DEF NewestKept, Outcome
    <3>10. Newest(revsSeen) \in revsSeen BY <3>9, NewestSeen DEF QuietInv
    <3>11. r = Newest(revsSeen) BY <2>1, <3>5, <3>9, <3>10 DEF QuietInv, SeenTidy
    <3> QED BY <3>11
  <2> QED BY <1>2, <2>2, <2>3
<1> QED BY <1>1, <1>7, <1>8, <1>9, <1>10 DEF QuietInv

\* The informer shows the revisions, to the running release or to the next.
LEMMA QuietObserve ==
  ASSUME QuietInv, revsSeen' = revs, UNCHANGED <<histKind, owner, revs>>, OwnerOK(ownerSeen'),
         codec' = codec \/ (codec = 1 /\ codec' = 2)
  PROVE  QuietInv'
<1>1. Data' = Data BY DEF Data, PatchOf, StatefulPatch, StatelessPatch, InstancePatch
<1>2. Tidy(revs) BY DEF QuietInv
<1>3. \A r \in revs : Recorded(r)' BY <1>1, <1>2 DEF Tidy, Recorded, Numbers, IsRevision
<1>4. \A r \in revs : codec' = 1 => r.data.codec = 1 BY <1>2 DEF Tidy, QuietInv, Codecs
<1>5. \A r, o \in revs : Older(r)' /\ ~Older(o)' => o.number > r.number
  <2>1. CASE codec' = codec BY <1>2, <2>1 DEF Tidy, Older
  <2>2. CASE codec = 1 BY <1>2, <2>2 DEF Tidy, Older
  <2> QED BY <2>1, <2>2
<1>6. PICK b \in Nat : Below(revs, b) BY <1>2 DEF Tidy
<1>7. Below(revs', b) /\ Below(revsSeen', b) BY <1>6
<1>8. \A r, o \in revs : r.name = o.name \/ r.born = o.born => r = o BY <1>2 DEF Tidy
<1>9. \A r \in revs : Named(revs, r.name) # {} BY DEF Named
<1>10. Tidy(revs)'
  <2>1. \A r \in revs' : Named(revsSeen', r.name) # {} BY <1>9
  <2> QED BY <1>3, <1>4, <1>5, <1>7, <1>8, <2>1 DEF Tidy, Below
<1>11. SeenTidy' BY <1>3, <1>4, <1>7, <1>8 DEF SeenTidy, Below
<1>12. NewestHeld'
  <2>1. revs # {} => Newest(revs) \in revs BY <1>2, NewestStored
  <2>2. Newest(revsSeen') = Newest(revs) OBVIOUS
  <2>3. \A r \in revs' : Newest(revsSeen') \in revs' BY <2>1, <2>2
  <2> QED BY <2>3 DEF NewestHeld
<1>13. codec' \in Codecs BY DEF QuietInv, Codecs
<1>14. HashesApart' BY <1>1 DEF QuietInv, HashesApart
<1>15. OwnerOK(owner)' /\ OwnerOK(ownerSeen)' BY DEF QuietInv, OwnerOK, IsOwner
<1> QED BY <1>10, <1>11, <1>12, <1>13, <1>14, <1>15 DEF QuietInv

LEMMA QuietOther ==
  ASSUME QuietInv, UNCHANGED <<histKind, codec, revs, revsSeen>>, owner'.update = owner.update,
         OwnerOK(owner'), OwnerOK(ownerSeen')
  PROVE  QuietInv'
<1>1. Data' = Data BY DEF Data, PatchOf, StatefulPatch, StatelessPatch, InstancePatch
<1>2. Tidy(revs)'
  BY <1>1 DEF QuietInv, Tidy, Recorded, Older, Numbers, Below, IsRevision, Named, Newest, Before
<1>3. SeenTidy' /\ HashesApart'
  BY <1>1 DEF QuietInv, SeenTidy, HashesApart, Recorded, Numbers, Below, IsRevision
<1>4. NewestHeld'
  <2>1. NewestHeld BY DEF QuietInv
  <2>2. \A r : Older(r)' <=> Older(r) BY DEF Older
  <2> QED BY <2>1, <2>2 DEF NewestHeld
<1> QED BY <1>2, <1>3, <1>4 DEF QuietInv, OwnerOK, IsOwner

LEMMA QuietStep ==
  ASSUME QuietInv, [HistNext]_histVars
  PROVE  QuietInv' /\ (HistPass \/ owner'.update = owner.update)
<1>1. CASE HistPass BY <1>1, QuietPassKeeps
<1>2. OwnerOK(owner) /\ OwnerOK(ownerSeen) BY DEF QuietInv
<1>3. CASE EditTemplate
  <2>1. PICK t \in OwnerTemplates : owner' = [owner EXCEPT !.template = t] BY <1>3 DEF EditTemplate
  <2>2. OwnerOK(owner') /\ owner'.update = owner.update BY <1>2, <2>1 DEF OwnerOK, IsOwner
  <2>3. UNCHANGED <<histKind, codec, ownerSeen, revs, revsSeen>> BY <1>3 DEF EditTemplate
  <2> QED BY <1>2, <2>2, <2>3, QuietOther
<1>4. CASE Upgrade BY <1>2, <1>4, QuietObserve DEF Upgrade
<1>5. CASE ObserveOwner BY <1>2, <1>5, QuietOther DEF ObserveOwner
<1>6. CASE ObserveRevisions BY <1>2, <1>6, QuietObserve DEF ObserveRevisions
<1>7. CASE ObserveKids BY <1>2, <1>7, QuietOther DEF ObserveKids
<1>8. ASSUME NEW s \in Children, KidLost(s) PROVE QuietInv' /\ owner'.update = owner.update
  BY <1>2, <1>8, QuietOther DEF KidLost
<1>9. CASE UNCHANGED histVars BY <1>2, <1>9, QuietOther DEF histVars
<1> QED BY <1>1, <1>3, <1>4, <1>5, <1>6, <1>7, <1>8, <1>9 DEF HistNext, ObserveHistory

\* One step of QuietUnlessEdited.
LEMMA QuietChange ==
  ASSUME QuietInv, [HistNext]_histVars, NEW r \in Named(revs, owner.update),
         NEW n \in Named(revs', owner'.update), n.name # r.name, r = Newest(revs)
  PROVE  n.data.patch # r.data.patch
<1> SUFFICES ASSUME n.data.patch = r.data.patch PROVE FALSE OBVIOUS
<1>1. r \in revs /\ r.name = owner.update /\ n \in revs' /\ n.name = owner'.update BY DEF Named
<1>2. HistPass BY <1>1, QuietStep
<1>3. PICK o \in ActiveRevisions(ownerSeen.template, 0) : Stored(o) BY <1>1, <1>2, QuietPasses
<1>4. PICK t : t = ownerSeen.template OBVIOUS
<1>5. t \in OwnerTemplates /\ o \in ActiveRevisions(t, 0) BY <1>3, <1>4 DEF QuietInv, OwnerOK
<1>6. n.name = o.update.name
  <2>1. PICK a \in BOOLEAN : owner' = RevisionStatus(o, a) BY <1>3 DEF Stored
  <2>2. PICK x : owner' = [owner EXCEPT !.current = x, !.update = o.update.name, !.collision = o.collision]
    BY <2>1, Zenon DEF RevisionStatus
  <2> QED BY <1>1, <2>2 DEF QuietInv, OwnerOK, IsOwner
<1>7. o.update # None /\ n \in o.revs BY <1>1, <1>3 DEF Stored
<1>8. Tidy(revs) /\ Tidy(o.revs) /\ SeenTidy /\ HashesApart BY <1>5, OutcomeTidy DEF QuietInv
<1>9. Recorded(r) /\ Recorded(n) BY <1>1, <1>7, <1>8 DEF Tidy
<1>10. Recorded(o.update) /\ (NewestKept(t, o) \/ o.update.data = Recording(t))
  BY <1>5, <1>7, UpdateRecorded
<1>11. n.data = o.update.data BY <1>6, <1>8, <1>9, <1>10, OneData
<1>12. o.update.data.patch = PatchOf(t)
  <2>1. Recording(t).patch = PatchOf(t) BY DEF Recording
  <2>2. NewestKept(t, o) => o.update.data.patch = PatchOf(t) BY DEF NewestKept, Outcome
  <2> QED BY <1>10, <2>1, <2>2
<1>13. r.data # n.data BY <1>9 DEF Recorded
<1>14. \A d, e \in Data : d.patch = e.patch /\ d.codec = e.codec => d = e BY DEF Data
<1>15. r.data.codec # n.data.codec BY <1>9, <1>13, <1>14 DEF Recorded
<1>16. codec = 2 /\ {r.data.codec, n.data.codec} = {1, 2}
  <2>1. {r.data.codec, n.data.codec} \subseteq {1, 2} BY <1>9 DEF Recorded, Data, Codecs
  <2>2. codec = 1 => r.data.codec = 1 /\ n.data.codec = 1 BY <1>1, <1>7, <1>8 DEF Tidy
  <2>3. codec \in {1, 2} BY DEF QuietInv, Codecs
  <2> QED BY <1>15, <2>1, <2>2, <2>3
<1>17. CASE n.data.codec = 1
  <2>1. r.data = Recording(t)
    <3>1. Recording(t) \in Data BY <1>5, RecordingData DEF QuietInv
    <3>2. Recording(t).patch = PatchOf(t) /\ Recording(t).codec = codec BY DEF Recording
    <3>3. r.data.codec = 2 BY <1>16, <1>17
    <3>4. r.data.patch = PatchOf(t) BY <1>11, <1>12
    <3>5. r.data \in Data BY <1>9 DEF Recorded
    <3> QED BY <1>14, <1>16, <3>1, <3>2, <3>3, <3>4, <3>5
  <2>2. NewestKept(t, o) BY <1>10, <1>11, <1>13, <2>1
  <2>3. o.update = Newest(revsSeen) /\ revsSeen # {} BY <2>2 DEF NewestKept, Outcome
  <2>4. \A q \in revsSeen : q.data # Recording(t) BY <1>11, <1>13, <2>1, <2>2, <2>3 DEF NewestKept
  <2>5. Named(revsSeen, r.name) # {} BY <1>1, <1>8, <1>11, <2>3 DEF Tidy
  <2>6. PICK q \in revsSeen : q.name = r.name BY <2>5 DEF Named
  <2>7. Recorded(q) BY <1>8 DEF SeenTidy
  <2> QED BY <1>8, <1>9, <2>1, <2>4, <2>6, <2>7, OneData
<1>18. CASE r.data.codec = 1
  <2>1. Older(r) /\ ~Older(n) BY <1>15, <1>16, <1>18 DEF Older
  <2>2. r \in revsSeen BY <1>1, <1>8, <2>1 DEF Tidy
  <2>3. \A q \in revs : ~Before(r, q) BY <1>1, <1>8, NewestStored
  <2>4. revs \subseteq revsSeen BY <1>8, <2>2, <2>3 DEF Tidy, Before
  <2>5. \A q \in revs : Older(q)
    BY <1>1, <1>8, <2>1, <2>3 DEF Tidy, Before
  <2>6. n \notin revs BY <2>1, <2>5
  <2>7. Recording(t).codec = 2 BY <1>16 DEF Recording
  <2>8. \A q \in revs : q.data # Recording(t) BY <2>5, <2>7 DEF Older
  <2>9. ~RenumbersOne(t, o) /\ ~FindsTaken(t, o) BY <2>8 DEF RenumbersOne, FindsTaken
  <2>10. o # Failed(0) BY <1>7 DEF Failed, Outcome
  <2>11. ~NewestKept(t, o) BY <1>7, <2>6 DEF NewestKept, Outcome
  <2>12. CreatesOne(t, o) BY <1>5, <2>9, <2>10, <2>11, ActiveOutcomes
  <2>13. Newest(revsSeen).data.patch # PatchOf(t) BY <2>2, <2>12 DEF CreatesOne
  <2>14. Newest(revsSeen) \in revs BY <1>1, <2>1, <2>4 DEF QuietInv, NewestHeld
  <2>15. \A q \in revsSeen : ~Before(Newest(revsSeen), q) BY <1>8, <2>2, NewestSeen
  <2>16. PICK m \in revs : m = Newest(revsSeen) BY <2>14
  <2>17. ~Before(m, r) /\ ~Before(r, m) BY <2>2, <2>3, <2>15, <2>16
  <2>18. Numbers(m) /\ Numbers(r) BY <1>1, <1>8 DEF Tidy, Recorded
  <2>19. m.born = r.born BY <2>17, <2>18 DEF Before, Numbers
  <2>20. m = r BY <1>1, <1>8, <2>19 DEF Tidy
  <2> QED BY <1>11, <1>12, <2>13, <2>16, <2>20
<1> QED BY <1>16, <1>17, <1>18

\* QuietUnlessEdited for a stateless set and for an instance, with any number
\* of templates, children, edits, lost writes and lags of the informers, while
\* no two records share a hash: the update revision gives way only to one that
\* records another template.  (A stateful set truncates its history when the
\* status could not be written, and can do otherwise.)
THEOREM QuietHistories ==
  histKind # "stateful" /\ HashesApart /\ HistSpec => QuietUnlessEdited
<1>1. histKind # "stateful" /\ HashesApart /\ HistInit => QuietInv
  <2> SUFFICES ASSUME histKind # "stateful", HashesApart, HistInit PROVE QuietInv OBVIOUS
  <2>1. histKind \in {"stateless", "instance"} /\ codec = 1 /\ revs = {} /\ revsSeen = {}
    BY DEF HistInit, HistKinds
  <2>2. owner = [template |-> [components |-> 1, policy |-> 1], current |-> None,
                 update |-> None, collision |-> 0] /\ ownerSeen = owner
    BY DEF HistInit
  <2>3. OwnerOK(owner) /\ OwnerOK(ownerSeen) BY <2>2, TemplateAssumption DEF OwnerOK, IsOwner
  <2>4. Tidy(revs) /\ SeenTidy BY <2>1 DEF Tidy, SeenTidy, Below
  <2>5. NewestHeld BY <2>1 DEF NewestHeld
  <2> QED BY <2>1, <2>3, <2>4, <2>5 DEF QuietInv, Codecs
<1>2. QuietInv /\ [HistNext]_histVars => QuietInv' BY QuietStep
<1>3. QuietInv /\ [HistNext]_histVars
        => [\A r \in Named(revs, owner.update), n \in Named(revs', owner'.update) :
              n.name # r.name /\ r = Newest(revs) /\ owner'.collision = owner.collision
                => n.data.patch # r.data.patch]_<<owner, revs>>
  BY QuietChange
<1> QED BY <1>1, <1>2, <1>3, PTL DEF HistSpec, QuietUnlessEdited
=============================================================================
