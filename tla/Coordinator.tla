------------------------------ MODULE Coordinator ------------------------------
(***************************************************************************)
(* The singleton lease that gives one replica the scheduler, polling and   *)
(* retention loops: a row with an owner and an expiry, taken or renewed at *)
(* the start of every tick and never given back.                           *)
(***************************************************************************)
CONSTANTS
  Replica, NoReplica,
  PastOwner,      \* the id (host and pid) of a process that is gone
  Stalls          \* a live holder may go a whole lease (90 s) without a tick

ASSUME CoordinatorAssumption ==
  NoReplica \notin Replica /\ PastOwner \notin Replica /\ NoReplica # PastOwner /\ Stalls \in BOOLEAN

VARIABLES
  owner,     \* singleton_leases.owner, NoReplica when empty
  live,      \* expires_at lies in the future
  alive      \* the replicas that are up

leaseVars == <<owner, live, alive>>

LeaseTypeOK ==
  owner \in Replica \cup {NoReplica, PastOwner} /\ live \in BOOLEAN /\ alive \subseteq Replica

LeaseInit == owner = NoReplica /\ live = FALSE /\ alive = Replica

\* The WHERE clause of AcquireSingletonLease: free, ours or expired.
AcquirableAlways(r) == TRUE
AcquirableIfFree(r) == owner \in {NoReplica, r}
Acquirable(r) == owner \in {NoReplica, r} \/ ~live
AcquireSingletonLease(r) == Acquirable(r) /\ owner' = r /\ live' = TRUE

\* Ninety seconds without a renewal.
LeaseLapses ==
  /\ live /\ (Stalls \/ owner \notin alive)
  /\ live' = FALSE /\ UNCHANGED <<owner, alive>>
Dies(r) == r \in alive /\ alive' = alive \ {r} /\ UNCHANGED <<owner, live>>

\* The new process may or may not get the id of the old one.
Returns(r) ==
  /\ r \notin alive /\ alive' = alive \cup {r}
  /\ UNCHANGED owner \/ (owner = r /\ owner' = PastOwner)
  /\ UNCHANGED live
=============================================================================
