---------------------------- MODULE LeaseRegistry ----------------------------
(***************************************************************************)
(* What a node reservation table promises its callers: AGVs lease nodes, a *)
(* lease is granted in one step and only when no other AGV leases a node   *)
(* that conflicts with it, a lease lasts until it is given up for its      *)
(* owner or its time is over.  NodeReservationTable implements this module *)
(* with shards, locks and calls of many steps.                             *)
(***************************************************************************)
EXTENDS DistanceConflict

CONSTANTS Owner, NoHold, MaxTime

VARIABLES lease, clock

Hold == [owner : Owner, expiresAt : Nat, rule : Map]

Over(n) == lease[n] # NoHold /\ lease[n].expiresAt # 0 /\ clock >= lease[n].expiresAt

LeasedTo(n, o) == lease[n] # NoHold /\ lease[n].owner = o

Init ==
  /\ lease = [n \in Node |-> NoHold]
  /\ clock = 0

\* Grant a lease on n, or renew it: whatever lease n gets, its owner is alone in
\* n's conflict group under the lease's rule.
Grant(n) ==
  /\ lease'[n] \in Hold
  /\ \A c \in ConflictIds(lease'[n].rule, n) : lease[c] = NoHold \/ LeasedTo(c, lease'[n].owner)
  /\ lease' = [lease EXCEPT ![n] = lease'[n]]
  /\ UNCHANGED clock

\* Leases that are over, and leases of one owner that is giving them up, vanish.
Drop(o, N) ==
  /\ \A n \in N : Over(n) \/ LeasedTo(n, o)
  /\ lease' = [n \in Node |-> IF n \in N THEN NoHold ELSE lease[n]]
  /\ UNCHANGED clock

Tick ==
  /\ clock < MaxTime
  /\ clock' = clock + 1
  /\ UNCHANGED lease

Next ==
  \/ \E n \in Node : Grant(n)
  \/ \E o \in Owner, N \in SUBSET Node : Drop(o, N)
  \/ Tick

Spec == Init /\ [][Next]_<<lease, clock>>

=============================================================================
