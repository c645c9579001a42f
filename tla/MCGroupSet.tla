----------------------------- MODULE MCGroupSet -----------------------------
(***************************************************************************)
(* Instances of RoleBasedGroupSet: two groups and two templates.           *)
(***************************************************************************)
EXTENDS RoleBasedGroupSet

CONSTANTS b1, b2, m1   \* roles and metadata

\* One template in today's spelling, and one with other roles in the old.
SpelledBothWays ==
  {[roles |-> [body |-> b1, legacy |-> FALSE], meta |-> m1],
   [roles |-> [body |-> b2, legacy |-> TRUE], meta |-> m1]}
FairSetSpec == SetSpec /\ SetFairness
=============================================================================
