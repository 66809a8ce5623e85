--------------------------- MODULE LeaseAuthority ---------------------------
(***************************************************************************)
(* The lease state machine of lease/authority.rs: per session, the current *)
(* LeaseEntry (holder, epoch, expires_at) and the last epoch handed out.   *)
(*                                                                         *)
(* Time is an integer; a request is handled at a time t the caller gives,  *)
(* where the code reads chrono::Utc::now() inside each operation.  The     *)
(* operators are pure, so that one authority (LeaseService) and a group of *)
(* replicas (LeaseReplicas) use the same definitions.                      *)
(***************************************************************************)
EXTENDS Integers

CONSTANTS Session,  \* SessionId
          Node,     \* NodeId, the holders
          TTL,      \* the durations callers ask for
          NoLease   \* no entry in the `leases` map

Epoch == Nat

LeaseEntry == [holder : Node, epoch : Epoch, expires_at : Int]

ASSUME TTLAssumption == TTL \subseteq Nat
ASSUME NoLeaseAssumption == NoLease \notin LeaseEntry /\ NoLease \notin Node

Authority == [leases : [Session -> LeaseEntry \cup {NoLease}],
              epochs : [Session -> Epoch]]

(* LeaseAuthority::default(); an epoch of 0 is an absent key of `epochs`. *)
EmptyAuthority == [leases |-> [s \in Session |-> NoLease],
                   epochs |-> [s \in Session |-> 0]]

(* An Acquire names no epoch (0 here) and a Release no duration (0). *)
LeaseOp == [op : {"Acquire", "Renew", "Release"}, holder : Node,
            epoch : Epoch, ttl : TTL \cup {0}]

Request == [session : Session, op : LeaseOp]

-----------------------------------------------------------------------------
(* Definitions with a suffix after a second underscore are mistakes that    *)
(* could be made here; the properties of the runs must notice them.        *)
has_expired__early(lease, t) == lease.expires_at <= t + 1

has_expired(lease, t) == lease.expires_at <= t

IsHeldBy__any_epoch(lease, holder, epoch) ==
  lease # NoLease /\ lease.holder = holder

IsHeldBy(lease, holder, epoch) ==
  lease # NoLease /\ lease.holder = holder /\ lease.epoch = epoch

Granted(epoch, until) ==
  [kind |-> "Granted", epoch |-> epoch, expires_at |-> until]

Renewed(epoch, until) ==
  [kind |-> "Renewed", epoch |-> epoch, expires_at |-> until]

(* Denied names the current holder in the code; no caller reads it. *)
Denied(lease) ==
  [kind |-> "Denied",
   epoch |-> IF lease = NoLease THEN 0 ELSE lease.epoch,
   expires_at |-> 0]

LeaseResult == [kind : {"Granted", "Renewed", "Denied"},
                epoch : Epoch, expires_at : Int]

Acquirable(a, s, t) == a.leases[s] = NoLease \/ has_expired(a.leases[s], t)

(* Each operation is what it leaves of the authority, and what it answers. *)
acquire(a, s, op, t) ==
  IF Acquirable(a, s, t)
  THEN LET e == a.epochs[s] + 1
           entry == [holder |-> op.holder, epoch |-> e,
                     expires_at |-> t + op.ttl]
       IN [state |-> [leases |-> [a.leases EXCEPT ![s] = entry],
                      epochs |-> [a.epochs EXCEPT ![s] = e]],
           result |-> Granted(e, t + op.ttl)]
  ELSE [state |-> a, result |-> Denied(a.leases[s])]

(* An entry that has expired but was not taken over can still be renewed. *)
renew(a, s, op, t) ==
  IF IsHeldBy(a.leases[s], op.holder, op.epoch)
  THEN [state |-> [leases |-> [a.leases EXCEPT ![s].expires_at = t + op.ttl],
                   epochs |-> a.epochs],
        result |-> Renewed(op.epoch, t + op.ttl)]
  ELSE [state |-> a, result |-> Denied(a.leases[s])]

(* The session is forgotten altogether. *)
release__forgets_epoch(a, s, op) ==
  IF IsHeldBy(a.leases[s], op.holder, op.epoch)
  THEN [state |-> [leases |-> [a.leases EXCEPT ![s] = NoLease],
                   epochs |-> [a.epochs EXCEPT ![s] = 0]],
        result |-> Renewed(op.epoch, 0)]
  ELSE [state |-> a, result |-> Denied(a.leases[s])]

(* The entry is kept, without a holder. *)
release__tombstone(a, s, op) ==
  IF IsHeldBy(a.leases[s], op.holder, op.epoch)
  THEN [state |-> [leases |-> [a.leases EXCEPT ![s].holder = NoLease],
                   epochs |-> a.epochs],
        result |-> Renewed(op.epoch, 0)]
  ELSE [state |-> a, result |-> Denied(a.leases[s])]

(* A release is answered Renewed with the default instant. *)
release(a, s, op) ==
  IF IsHeldBy(a.leases[s], op.holder, op.epoch)
  THEN [state |-> [leases |-> [a.leases EXCEPT ![s] = NoLease],
                   epochs |-> a.epochs],
        result |-> Renewed(op.epoch, 0)]
  ELSE [state |-> a, result |-> Denied(a.leases[s])]

handle_request(a, req, t) ==
  CASE req.op.op = "Acquire" -> acquire(a, req.session, req.op, t)
    [] req.op.op = "Renew"   -> renew(a, req.session, req.op, t)
    [] req.op.op = "Release" -> release(a, req.session, req.op)
=============================================================================
