----------------------------- MODULE WebhookCerts -----------------------------
(***************************************************************************)
(* The certificates of the webhook server.  Every replica of the manager   *)
(* starts by reading the secret that holds the authority (CA) and the      *)
(* serving certificate, making or renewing it if it has to, writes the     *)
(* files it serves from and patches the caBundle of the CRDs and of the    *)
(* webhook configurations.  The leader patches them again whenever they    *)
(* change and every ten minutes, with the CA it started with.              *)
(*                                                                         *)
(* What an authority has left to live is long (a year or more), short      *)
(* (half a year or more) or over.  A call that fails for good, or for the  *)
(* half minute a start may take, ends the process, which is started again. *)
(***************************************************************************)
EXTENDS Optional, Integers, FiniteSets, FiniteSetsExt

CONSTANTS Replicas, CAs,
          Targets,        \* what is patched, 1 .. n in their order
          CertBudget      \* crashes, failing calls, and changes by others
VARIABLES secret,       \* None or [version, ca, life, certGood]
          version,      \* writes of the secret so far
          replica,      \* [phase, read, ca, target] of every replica
          certLeader,
          bundles,      \* the caBundle of every target
          caLost,       \* history: an authority went while replicas ran on it
          certBudget
certVars == <<secret, version, replica, certLeader, bundles, caLost, certBudget>>

Lives == {"long", "short", "over"}
Secret == [version : Nat, ca : CAs, life : Lives, certGood : BOOLEAN]
Replica == [phase : {"down", "create", "reread", "check", "patch", "up"}, read : Secret \cup {None},
            ca : CAs \cup {None}, target : Targets \cup {None}]
\* What a replica has depends on how far it is.
Phased(s) ==
  /\ s.phase \in {"patch", "up"} <=> s.ca # None
  /\ s.phase = "check" <=> s.read # None
  /\ s.phase = "patch" <=> s.target # None

\* There is always an authority that nothing refers to.
ASSUME CertAssumption ==
  /\ IsFiniteSet(Replicas)
  /\ IsFiniteSet(Targets) /\ Targets # {} /\ Targets = 1 .. Cardinality(Targets)
  /\ IsFiniteSet(CAs) /\ Cardinality(CAs) > 2 * Cardinality(Replicas) + Cardinality(Targets) + 1
  /\ None \notin Secret /\ None \notin CAs /\ None \notin Replicas /\ None \notin Targets
  /\ CertBudget \in Nat

CertTypeOK ==
  /\ secret \in Secret \cup {None} /\ version \in Nat
  /\ replica \in [Replicas -> Replica]
  /\ \A r \in Replicas : Phased(replica[r])
  /\ certLeader \in Replicas \cup {None}
  /\ certLeader # None => replica[certLeader].phase = "up"
  /\ bundles \in [Targets -> CAs \cup {None}]
  /\ caLost \in BOOLEAN /\ certBudget \in 0 .. CertBudget

-----------------------------------------------------------------------------
Down == [phase |-> "down", read |-> None, ca |-> None, target |-> None]
ValidCert(s) == s.certGood /\ s.life # "over"
CAsInUse ==
  {s.ca : s \in ({secret} \cup {replica[r].read : r \in Replicas}) \ {None}}
    \cup {replica[r].ca : r \in Replicas} \cup {bundles[t] : t \in Targets}
NewCA == CHOOSE c \in CAs : c \notin CAsInUse

\* The authority that signs: the one that was read, if it has a year left.
SigningCA(read) == IF read = None THEN NewCA ELSE IF read.life = "long" THEN read.ca ELSE NewCA

RunsOn(q, ca) ==
  \/ replica[q].phase \in {"patch", "up"} /\ replica[q].ca = ca
  \/ /\ replica[q].phase = "check"
     /\ ValidCert(replica[q].read) /\ replica[q].read.ca = ca

Becomes(r, s) == replica' = [replica EXCEPT ![r] = s]
Reads(r) == Becomes(r, [Down EXCEPT !.phase = "check", !.read = secret])
\* The files are written; the bundles are next.
Serves(r, ca) == Becomes(r, [Down EXCEPT !.phase = "patch", !.ca = ca, !.target = Min(Targets)])
Stores(ca) ==
  /\ version' = version + 1
  /\ secret' = [version |-> version + 1, ca |-> ca, life |-> "long", certGood |-> TRUE]

-----------------------------------------------------------------------------
Boot(r) ==
  /\ replica[r].phase = "down"
  /\ IF secret = None THEN Becomes(r, [Down EXCEPT !.phase = "create"]) ELSE Reads(r)
  /\ UNCHANGED <<secret, version, certLeader, bundles, caLost, certBudget>>

\* Mutant: the loser of the race serves what it could not store.
CreateUnread(r) ==
  /\ replica[r].phase = "create"
  /\ \E ca \in {SigningCA(None)} :
       /\ IF secret = None THEN Stores(ca) ELSE UNCHANGED <<secret, version>>
       /\ Serves(r, ca)
  /\ UNCHANGED <<certLeader, bundles, caLost, certBudget>>
\* Another replica may have been first: its secret is read.
CreateIfNotExists(r) ==
  /\ replica[r].phase = "create"
  /\ IF secret = None
     THEN \E ca \in {SigningCA(None)} : Stores(ca) /\ Serves(r, ca)
     ELSE Becomes(r, [Down EXCEPT !.phase = "reread"]) /\ UNCHANGED <<secret, version>>
  /\ UNCHANGED <<certLeader, bundles, caLost, certBudget>>

Reread(r) ==
  /\ replica[r].phase = "reread"
  /\ IF secret = None THEN Becomes(r, Down) ELSE Reads(r)
  /\ UNCHANGED <<secret, version, certLeader, bundles, caLost, certBudget>>

KeepCert(r) ==
  /\ replica[r].phase = "check" /\ ValidCert(replica[r].read)
  /\ Serves(r, replica[r].read.ca)
  /\ UNCHANGED <<secret, version, certLeader, bundles, caLost, certBudget>>

\* Is the secret still the one that was read?
SameVersion(r) == IF secret = None THEN FALSE ELSE secret.version = replica[r].read.version

Overwrite(r) ==
  /\ replica[r].phase = "check" /\ ~ValidCert(replica[r].read)
  /\ IF ~SameVersion(r)
     THEN Becomes(r, Down) /\ UNCHANGED <<secret, version, caLost>>
     ELSE \E ca \in {SigningCA(replica[r].read)} :
            /\ Stores(ca) /\ Serves(r, ca)
            /\ caLost' = (caLost \/ \E q \in Replicas \ {r} :
                                      ca # replica[r].read.ca /\ RunsOn(q, replica[r].read.ca))
  /\ UNCHANGED <<certLeader, bundles, certBudget>>

\* Every target in its order, then the manager starts.
PatchCABundle(r) ==
  /\ replica[r].phase = "patch"
  /\ bundles' = [bundles EXCEPT ![replica[r].target] = replica[r].ca]
  /\ Becomes(r, IF replica[r].target = Max(Targets)
                THEN [replica[r] EXCEPT !.phase = "up", !.target = None]
                ELSE [replica[r] EXCEPT !.target = @ + 1])
  /\ UNCHANGED <<secret, version, certLeader, caLost, certBudget>>

\* A pass of the webhook-cert controller, up to the first target to patch.
ReconcileBundles ==
  /\ certLeader # None
  /\ \E t \in Targets :
       /\ bundles[t] # replica[certLeader].ca
       /\ \A u \in Targets : u < t => bundles[u] = replica[certLeader].ca
       /\ bundles' = [bundles EXCEPT ![t] = replica[certLeader].ca]
  /\ UNCHANGED <<secret, version, replica, certLeader, caLost, certBudget>>

-----------------------------------------------------------------------------
(***************************************************************************)
(* The election, crashes, and what others do.                              *)
(***************************************************************************)
Elect(r) ==
  /\ certLeader = None /\ replica[r].phase = "up" /\ certLeader' = r
  /\ UNCHANGED <<secret, version, replica, bundles, caLost, certBudget>>

SpendOnCerts == certBudget > 0 /\ certBudget' = certBudget - 1
\* A crash, or a call of a start that fails.
CrashReplica(r) ==
  /\ SpendOnCerts /\ replica[r].phase # "down" /\ Becomes(r, Down)
  /\ certLeader' = IF certLeader = r THEN None ELSE certLeader
  /\ UNCHANGED <<secret, version, bundles, caLost>>
DeleteSecret ==
  /\ SpendOnCerts /\ secret # None /\ secret' = None
  /\ caLost' = (caLost \/ \E r \in Replicas : RunsOn(r, secret.ca))
  /\ UNCHANGED <<version, replica, certLeader, bundles>>
\* The serving certificate is spoiled, or the CA with it: one that cannot be
\* parsed signs as little as one that has expired.
SpoilSecret ==
  /\ SpendOnCerts /\ secret # None
  /\ version' = version + 1
  /\ \E life \in {secret.life, "over"} :
       secret' = [secret EXCEPT !.certGood = FALSE, !.life = life, !.version = version + 1]
  /\ UNCHANGED <<replica, certLeader, bundles, caLost>>
Age ==
  /\ SpendOnCerts /\ secret # None /\ secret.life # "over"
  /\ secret' = [secret EXCEPT !.life = IF @ = "long" THEN "short" ELSE "over"]
  /\ UNCHANGED <<version, replica, certLeader, bundles, caLost>>
\* An upgrade of the chart.
ResetBundle(t) ==
  /\ SpendOnCerts /\ bundles[t] # None /\ bundles' = [bundles EXCEPT ![t] = None]
  /\ UNCHANGED <<secret, version, replica, certLeader, caLost>>

-----------------------------------------------------------------------------
\* No secret yet, or one of an earlier life of the manager.
CertInit ==
  /\ \/ secret = None /\ bundles = [t \in Targets |-> None]
     \/ \E ca \in {CHOOSE c \in CAs : TRUE}, l \in Lives, good \in BOOLEAN :
          /\ secret = [version |-> 0, ca |-> ca, life |-> l, certGood |-> good]
          /\ bundles = [t \in Targets |-> ca]
  /\ version = 0 /\ replica = [r \in Replicas |-> Down]
  /\ certLeader = None /\ caLost = FALSE /\ certBudget = CertBudget

StartStep(r) ==
  \/ Boot(r) \/ CreateIfNotExists(r) \/ Reread(r) \/ KeepCert(r) \/ Overwrite(r)
  \/ PatchCABundle(r) \/ Elect(r)
CertNext ==
  \/ ReconcileBundles \/ DeleteSecret \/ SpoilSecret \/ Age
  \/ \E r \in Replicas : StartStep(r) \/ CrashReplica(r)
  \/ \E t \in Targets : ResetBundle(t)
CertSpec == CertInit /\ [][CertNext]_certVars
\* Processes go on and are started again; a leader is elected and works.
CertFairness ==
  /\ \A r \in Replicas : WF_certVars(StartStep(r))
  /\ WF_certVars(ReconcileBundles)

-----------------------------------------------------------------------------
\* However the starts of the replicas interleave and wherever they crash, no
\* two of them serve certificates of different authorities, unless the one
\* they ran on was deleted or replaced under a running replica.
OneAuthority ==
  \A r, q \in Replicas :
    replica[r].ca # None /\ replica[q].ca # None => caLost \/ replica[r].ca = replica[q].ca

\* In the end every replica is up and every bundle trusts the leader and, with
\* the same exception, every other replica.
WebhooksTrusted ==
  <>[](/\ certLeader # None
       /\ \A t \in Targets : bundles[t] = replica[certLeader].ca
       /\ \A r \in Replicas : /\ replica[r].phase = "up"
                              /\ caLost \/ replica[r].ca = replica[certLeader].ca)

=============================================================================
