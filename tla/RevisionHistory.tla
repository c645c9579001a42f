--------------------------- MODULE RevisionHistory ---------------------------
(***************************************************************************)
(* The ControllerRevisions of a RoleInstanceSet (of either mode) and of a  *)
(* RoleInstance: a pass finds or writes the revision that records the      *)
(* template, children carry the name of the revision they were made from,  *)
(* and revisions that nothing uses are deleted beyond a limit.  What a     *)
(* revision records is a patch of the template as the running release      *)
(* serializes it; another release may write other bytes for it.            *)
(*                                                                         *)
(* The pass works on informer copies of the owner, of the revisions and of *)
(* the children, which lag.  Rollout of the children is abstracted: a pass *)
(* that got its revisions puts at most one child on one of them.  Orphaned *)
(* revisions (their adoption) and deletion of the owner are left out.      *)
(***************************************************************************)
EXTENDS Optional, Integers, FiniteSets, FiniteSetsExt

CONSTANTS RevNames,        \* names of revisions: hashes
          HashOf,          \* name of a recorded patch at a collision count
          OwnerTemplates,  \* of sets and instances: [components, policy]
          HistoryLimit,    \* revisionHistoryLimit of a set
          Children,        \* slots of children
          HistBudget       \* edits, losses and faults

\* Every template has both fields, and the one an owner starts with is one of them.
ASSUME TemplateAssumption ==
  /\ [components |-> 1, policy |-> 1] \in OwnerTemplates
  /\ \A t \in OwnerTemplates : t = [components |-> t.components, policy |-> t.policy]

VARIABLES histKind,     \* rigid: whose history
          codec,        \* serialization of the release that runs
          owner,        \* [template, current, update, collision]
          ownerSeen,    \* informer copy of it
          revs,         \* the revisions: [name, data, number, born]
          revsSeen,
          kids,         \* children: [label, patch]
          kidsSeen,
          unseen,       \* children written by a pass and not yet observed
          histBudget
histVars == <<histKind, codec, owner, ownerSeen, revs, revsSeen, kids, kidsSeen,
              unseen, histBudget>>

HistKinds == {"stateful", "stateless", "instance"}
Codecs == {1, 2}
MaxCollision == 1
MaxNumber == HistBudget + 2

-----------------------------------------------------------------------------
(***************************************************************************)
(* What a revision records, and what applying it restores.                 *)
(***************************************************************************)
\* The whole instance template of a set, replaced by the patch ...
StatefulPatch(t) == [components |-> t.components, policy |-> t.policy]
StatelessPatch(t) == [components |-> t.components, policy |-> t.policy]
\* ... and of an instance its components only.
InstancePatch(t) == [components |-> t.components]

StatefulApply(t, patch) == patch
StatelessApply(t, patch) == patch
InstanceApply(t, patch) == [t EXCEPT !.components = patch.components]

PatchOf(t) ==
  CASE histKind = "stateful" -> StatefulPatch(t)
    [] histKind = "stateless" -> StatelessPatch(t)
    [] histKind = "instance" -> InstancePatch(t)

Data == [patch : {PatchOf(t) : t \in OwnerTemplates}, codec : Codecs]
Revision == [name : RevNames, data : Data, number : 1..MaxNumber, born : 1..MaxNumber]

HistTypeOK ==
  /\ histKind \in HistKinds /\ codec \in Codecs
  /\ {owner, ownerSeen} \subseteq [template : OwnerTemplates, current : RevNames \cup {None},
                                   update : RevNames \cup {None}, collision : 0..MaxCollision]
  /\ revs \cup revsSeen \subseteq Revision
  /\ \A s \in Children :
       {kids[s], kidsSeen[s]} \ {None} \subseteq [label : RevNames, patch : {d.patch : d \in Data}]
  /\ unseen \subseteq Children

\* An existing revision is the one proposed, whatever release wrote it: it is
\* applied to the owner and recorded again.
\* Mutant: byte for byte.
MatchesBytes(t, data) == data = [patch |-> StatelessPatch(t), codec |-> codec]
StatefulMatches(t, data) == StatefulPatch(StatefulApply(t, data.patch)) = StatefulPatch(t)
StatelessMatches(t, data) == StatelessPatch(StatelessApply(t, data.patch)) = StatelessPatch(t)
InstanceMatches(t, data) == InstancePatch(InstanceApply(t, data.patch)) = InstancePatch(t)
MatchesRevision(t, data) ==
  CASE histKind = "stateful" -> StatefulMatches(t, data)
    [] histKind = "stateless" -> StatelessMatches(t, data)
    [] histKind = "instance" -> InstanceMatches(t, data)

-----------------------------------------------------------------------------
(***************************************************************************)
(* The revision of the template.  Each outcome is the revisions left in    *)
(* the API server, the update revision (None: an error) and the collision  *)
(* count.                                                                  *)
(***************************************************************************)
Outcome(all, revision, collision) == [revs |-> all, update |-> revision, collision |-> collision]
Failed(collision) == Outcome(revs, None, collision)

Named(R, name) == {r \in R : r.name = name}
\* Outdated copies give two revisions one number: then the time of creation counts.
Before(r, o) == r.number < o.number \/ (r.number = o.number /\ r.born < o.born)
Newest(R) == CHOOSE r \in R : \A o \in R : ~Before(r, o)
NextRevision(R) == IF R = {} THEN 1 ELSE Newest(R).number + 1
NewRevision(t, number, collision) ==
  LET data == [patch |-> PatchOf(t), codec |-> codec]
  IN [name |-> HashOf[data, collision], data |-> data, number |-> number,
      born |-> Max({0} \cup {r.born : r \in revs}) + 1]

\* The name is taken: the informer tells by whom.  Another patch's name counts
\* as a collision and the next name is tried.
CreateControllerRevision(t, number, collision) ==
  LET At(c) == NewRevision(t, number, c)
      Taken(c) == Named(revs, At(c).name) # {}
      Other(c, view) == \E r \in Named(view, At(c).name) : r.data # At(c).data
      Ends(view) == Min({c \in collision..MaxCollision : ~Taken(c) \/ ~Other(c, view)})
      Result(c, view) ==
        IF ~Taken(c) THEN Outcome(revs \cup {At(c)}, At(c), c)
        ELSE IF Named(view, At(c).name) = {} THEN Failed(c)
        ELSE Outcome(revs, CHOOSE r \in Named(view, At(c).name) : TRUE, c)
  IN {Result(Ends(view), view) : view \in {revsSeen, revs}}

\* A write from an outdated copy conflicts; it is tried again on what the
\* informer then has.
UpdateControllerRevision(old, number, collision) ==
  LET Numbered(r) == [r EXCEPT !.number = number]
      Written(r) == Outcome((revs \ {r}) \cup {Numbered(r)}, Numbered(r), collision)
  IN IF old \in revs THEN {Written(old)}
     ELSE {Failed(collision)} \cup {Written(r) : r \in Named(revs, old.name)}

\* The newest revision is kept if it records the template, byte for byte or
\* in effect; an older one is renumbered; otherwise one is created.
ActiveRevisions(t, collision) ==
  LET new == NewRevision(t, NextRevision(revsSeen), collision)
      equal == {r \in revsSeen : r.data = new.data}
      newest == Newest(revsSeen)
  IN IF equal # {} /\ newest.data = new.data THEN {Outcome(revs, newest, collision)}
     ELSE IF equal # {} THEN UpdateControllerRevision(Newest(equal), new.number, collision)
     ELSE IF revsSeen # {} /\ MatchesRevision(t, newest.data)
       THEN {Outcome(revs, newest, collision)}
     ELSE CreateControllerRevision(t, new.number, collision)

\* The current revision is the one status names, if it is still listed.
CurrentRevision(o) ==
  LET named == Named(revsSeen, ownerSeen.current)
  IN IF named = {} THEN o.update ELSE CHOOSE r \in named : TRUE

-----------------------------------------------------------------------------
(***************************************************************************)
(* Truncation: the oldest revisions that nothing uses, beyond the limit.   *)
(* The first delete that fails ends it, so what is left is newer.          *)
(***************************************************************************)
LabelsSeen == {kidsSeen[s].label : s \in {k \in Children : kidsSeen[k] # None}}
TruncateControllerRevisions(live, most) ==
  LET unused == {r \in revsSeen : r.name \notin live}
      doomed == {r \in unused : Cardinality({o \in unused : Before(r, o)}) >= most}
      gone == {r \in doomed : Named(revs, r.name) = {}}
      deleted == {r \in doomed : \A g \in gone : Before(r, g)}
  IN {r.name : r \in deleted}

StatefulTruncate(names) == TruncateControllerRevisions(names \cup LabelsSeen, HistoryLimit)
\* Mutant: children are forgotten.
TruncateUnnamed(names) == TruncateControllerRevisions(names, HistoryLimit)
StatelessTruncate(names) == TruncateControllerRevisions(names \cup LabelsSeen, HistoryLimit)
\* The limit of an instance is a constant of the code.
InstanceTruncate(names) == TruncateControllerRevisions(names \cup LabelsSeen, 5)
Remaining(R, names) == {r \in R : r.name \notin names}

-----------------------------------------------------------------------------
(***************************************************************************)
(* The passes.                                                             *)
(***************************************************************************)
\* A child is created on a revision, or moved to it from what was seen of it.
Put(s, r) ==
  /\ kidsSeen[s] = kids[s]
  /\ kids' = [kids EXCEPT ![s] = [label |-> r.name, patch |-> r.data.patch]]
  /\ kids' # kids
  /\ unseen' = unseen \cup {s}
Roll(targets) ==
  \/ \E s \in Children, r \in targets : Put(s, r)
  \/ UNCHANGED <<kids, unseen>>

\* The update revision becomes the current one when all children are seen on
\* it: all there should be, and for a stateful set after the status said so;
\* for a stateless set all there are.
Seen == {s \in Children : kidsSeen[s] # None}
AllOn(r) == \A s \in Seen : kidsSeen[s].label = r.name
StatefulAdvances(r) == Seen = Children /\ AllOn(r) /\ ownerSeen.update = r.name
StatelessAdvances(r) == AllOn(r)
InstanceAdvances(r) == Seen = Children /\ AllOn(r)
RevisionStatus(o, advances) ==
  [owner EXCEPT !.current = IF advances THEN o.update.name ELSE CurrentRevision(o).name,
                !.update = o.update.name, !.collision = o.collision]

\* A write of the status on an outdated copy conflicts until the informer has
\* caught up; any write may fail.
Spend == histBudget > 0 /\ histBudget' = histBudget - 1
StatusStored(o, advances) == owner' = RevisionStatus(o, advances) /\ UNCHANGED histBudget
StatusLost == UNCHANGED owner /\ (IF ownerSeen # owner THEN UNCHANGED histBudget ELSE Spend)

LiveNames(o) == {CurrentRevision(o).name, o.update.name}

\* A stateful set truncates its history even if the status could not be
\* written; without its revisions the pass knows of no current and no update
\* revision.  A status of an outdated template is dropped.
StatefulPass ==
  /\ histKind = "stateful"
  /\ \E o \in ActiveRevisions(ownerSeen.template, ownerSeen.collision) :
       \/ /\ o.update = None
          /\ revs' = Remaining(o.revs, StatefulTruncate({}))
          /\ UNCHANGED <<owner, kids, unseen, histBudget>>
       \/ /\ o.update # None
          /\ Roll({CurrentRevision(o), o.update})
          /\ \/ owner.template = ownerSeen.template /\ StatusStored(o, StatefulAdvances(o.update))
             \/ StatusLost
          /\ revs' = Remaining(o.revs, StatefulTruncate(LiveNames(o)))
  /\ UNCHANGED <<histKind, codec, ownerSeen, revsSeen, kidsSeen>>

\* A stateless set, having made its revisions, waits for what it wrote of its
\* children to be seen.
StatelessPass ==
  /\ histKind = "stateless"
  /\ \E o \in ActiveRevisions(ownerSeen.template, ownerSeen.collision) :
       \/ /\ o.update = None \/ unseen # {}
          /\ revs' = o.revs /\ UNCHANGED <<owner, kids, unseen, histBudget>>
       \/ /\ o.update # None /\ unseen = {}
          /\ Roll({CurrentRevision(o), o.update})
          /\ \/ /\ StatusStored(o, StatelessAdvances(o.update))
                /\ revs' = Remaining(o.revs, StatelessTruncate(LiveNames(o)))
             \/ StatusLost /\ revs' = o.revs
  /\ UNCHANGED <<histKind, codec, ownerSeen, revsSeen, kidsSeen>>

\* The pods of an instance are made from the update revision.
InstancePass ==
  /\ histKind = "instance"
  /\ \E o \in ActiveRevisions(ownerSeen.template, ownerSeen.collision) :
       \/ o.update = None /\ revs' = o.revs /\ UNCHANGED <<owner, kids, unseen, histBudget>>
       \/ /\ o.update # None
          /\ Roll({o.update})
          /\ \/ /\ StatusStored(o, InstanceAdvances(o.update))
                /\ revs' = Remaining(o.revs, InstanceTruncate(LiveNames(o)))
             \/ StatusLost /\ revs' = o.revs
  /\ UNCHANGED <<histKind, codec, ownerSeen, revsSeen, kidsSeen>>

-----------------------------------------------------------------------------
(***************************************************************************)
(* The world around it.                                                    *)
(***************************************************************************)
EditTemplate ==
  /\ Spend
  /\ \E t \in OwnerTemplates \ {owner.template} : owner' = [owner EXCEPT !.template = t]
  /\ UNCHANGED <<histKind, codec, ownerSeen, revs, revsSeen, kids, kidsSeen, unseen>>

KidLost(s) ==
  /\ Spend
  /\ kids[s] # None
  /\ kids' = [kids EXCEPT ![s] = None]
  /\ unseen' = unseen \ {s}
  /\ UNCHANGED <<histKind, codec, owner, ownerSeen, revs, revsSeen, kidsSeen>>

\* A new release takes over: it starts on synced caches.
Upgrade ==
  /\ codec = 1 /\ codec' = 2
  /\ ownerSeen' = owner /\ revsSeen' = revs /\ kidsSeen' = kids /\ unseen' = {}
  /\ UNCHANGED <<histKind, owner, revs, kids, histBudget>>

ObserveOwner ==
  /\ ownerSeen # owner /\ ownerSeen' = owner
  /\ UNCHANGED <<histKind, codec, owner, revs, revsSeen, kids, kidsSeen, unseen, histBudget>>
ObserveRevisions ==
  /\ revsSeen # revs /\ revsSeen' = revs
  /\ UNCHANGED <<histKind, codec, owner, ownerSeen, revs, kids, kidsSeen, unseen, histBudget>>
ObserveKids ==
  /\ kidsSeen # kids \/ unseen # {}
  /\ kidsSeen' = kids /\ unseen' = {}
  /\ UNCHANGED <<histKind, codec, owner, ownerSeen, revs, revsSeen, kids, histBudget>>

HistInit ==
  /\ histKind \in HistKinds /\ codec = 1
  /\ owner = [template |-> [components |-> 1, policy |-> 1], current |-> None,
              update |-> None, collision |-> 0]
  /\ ownerSeen = owner
  /\ revs = {} /\ revsSeen = {}
  /\ kids = [s \in Children |-> None] /\ kidsSeen = kids /\ unseen = {}
  /\ histBudget = HistBudget

HistPass == StatefulPass \/ StatelessPass \/ InstancePass
ObserveHistory == ObserveOwner \/ ObserveRevisions \/ ObserveKids
HistNext ==
  \/ HistPass \/ ObserveHistory
  \/ EditTemplate \/ Upgrade
  \/ \E s \in Children : KidLost(s)
HistSpec == HistInit /\ [][HistNext]_histVars

-----------------------------------------------------------------------------
(***************************************************************************)
(* Properties.                                                             *)
(***************************************************************************)
\* Truncation never takes a revision that the status or a child of a stateless
\* set or of an instance names, whichever copies were outdated.
InUse == {owner.current, owner.update} \cup {kids[s].label : s \in {k \in Children : kids[k] # None}}
RevisionsInUseKept ==
  [][histKind # "stateful" =>
       \A r \in revs : r.name \in InUse \cap InUse' => Named(revs', r.name) # {}]_histVars

\* An update revision that is the newest gives way only to one that records
\* another template, so neither a lagging copy, nor a lost status write, nor an
\* upgrade of the controller rolls the children.  (Exceptions, beyond the edits
\* of a run: records of one hash, whose collision count an outdated status takes
\* back, and a stateful set that truncates while its status cannot be written.)
QuietUnlessEdited ==
  [][\A r \in Named(revs, owner.update), n \in Named(revs', owner'.update) :
       n.name # r.name /\ r = Newest(revs) /\ owner'.collision = owner.collision
         => n.data.patch # r.data.patch]_<<owner, revs>>
=============================================================================
