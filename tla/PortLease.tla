------------------------------ MODULE PortLease ------------------------------
(***************************************************************************)
(* What the port allocator promises a pod: an incarnation of an instance   *)
(* is granted a port for each slot once, for its whole life; whoever runs  *)
(* in a slot runs on the port that its incarnation was granted for it; and *)
(* a slot is taken by one pod at a time.                                   *)
(***************************************************************************)
CONSTANTS Slots, Incarnations, Ports, Nobody
VARIABLES lease,  \* the ports of an incarnation by slot, or Nobody
          held    \* who runs in a slot on which port, or Nobody
leaseVars == <<lease, held>>

LeaseInit ==
  /\ lease = [u \in Incarnations |-> Nobody]
  /\ held = [s \in Slots |-> Nobody]

Grant(u) ==
  /\ lease[u] = Nobody
  /\ \E ports \in [Slots -> Ports \cup {Nobody}] : lease' = [lease EXCEPT ![u] = ports]
  /\ UNCHANGED held
\* Several slots may be taken at once.
Take(u, S) ==
  /\ lease[u] # Nobody /\ \A s \in S : held[s] = Nobody
  /\ held' = [s \in Slots |-> IF s \in S THEN [by |-> u, port |-> lease[u][s]] ELSE held[s]]
  /\ UNCHANGED lease
Leave(s) ==
  /\ held[s] # Nobody
  /\ held' = [held EXCEPT ![s] = Nobody]
  /\ UNCHANGED lease

LeaseNext ==
  \/ \E u \in Incarnations : Grant(u) \/ \E S \in SUBSET Slots : Take(u, S)
  \/ \E s \in Slots : Leave(s)
LeaseSpec == LeaseInit /\ [][LeaseNext]_leaseVars
=============================================================================
