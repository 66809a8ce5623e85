---------------------------- MODULE LeaseService ----------------------------
(***************************************************************************)
(* One LeaseAuthority and the nodes that call it through LeaseClient.      *)
(*                                                                         *)
(* A node awaits one call at a time and may give up on it (its future is   *)
(* dropped, the reply never comes): the request stays in the network and   *)
(* is handled later or never.  A node that was answered Granted or Renewed *)
(* counts on the lease until the instant it was told; it stops counting on *)
(* it before it asks for its release.                                      *)
(***************************************************************************)
EXTENDS LeaseAuthority

CONSTANTS MaxTime,      \* bound: the clock stops here
          MaxRequests   \* bound: requests ever submitted

ASSUME BoundsAssumption == MaxTime \in Nat /\ MaxRequests \in Nat

VARIABLES authority,  \* LeaseAuthority
          clock,      \* chrono::Utc::now()
          requests,   \* submitted, not handled yet
          replies,    \* answered, not received yet
          pending,    \* pending[n]: id of the call n awaits, 0 for none
          held,       \* held[n][s]: what n was last told, or NoLease
          lastId,     \* request ids handed out so far
          grants      \* history: every grant ever made

vars == <<authority, clock, requests, replies, pending, held, lastId, grants>>

Id == 1..MaxRequests
Call == [id : Id, node : Node, session : Session, op : LeaseOp]
Reply == [id : Id, node : Node, session : Session, op : LeaseOp,
          result : LeaseResult]
Grant == [session : Session, epoch : Epoch, holder : Node]

TypeOK ==
  /\ authority \in Authority
  /\ clock \in 0..MaxTime
  /\ requests \subseteq Call
  /\ replies \subseteq Reply
  /\ pending \in [Node -> Id \cup {0}]
  /\ held \in [Node -> [Session -> LeaseEntry \cup {NoLease}]]
  /\ lastId \in 0..MaxRequests
  /\ grants \subseteq Grant

Init ==
  /\ authority = EmptyAuthority
  /\ clock = 0
  /\ requests = {} /\ replies = {}
  /\ pending = [n \in Node |-> 0]
  /\ held = [n \in Node |-> [s \in Session |-> NoLease]]
  /\ lastId = 0
  /\ grants = {}

-----------------------------------------------------------------------------
(* LeaseClient::submit: the request leaves, the node awaits its answer. *)
submit(n, s, op) ==
  /\ pending[n] = 0
  /\ lastId < MaxRequests
  /\ lastId' = lastId + 1
  /\ requests' = requests \cup
       {[id |-> lastId + 1, node |-> n, session |-> s, op |-> op]}
  /\ pending' = [pending EXCEPT ![n] = lastId + 1]
  /\ UNCHANGED <<authority, clock, replies, grants>>

client_acquire(n, s) ==
  \E ttl \in TTL :
    /\ submit(n, s, [op |-> "Acquire", holder |-> n, epoch |-> 0, ttl |-> ttl])
    /\ UNCHANGED held

client_renew(n, s) ==
  \E ttl \in TTL :
    /\ held[n][s] # NoLease
    /\ submit(n, s, [op |-> "Renew", holder |-> n,
                     epoch |-> held[n][s].epoch, ttl |-> ttl])
    /\ UNCHANGED held

client_release(n, s) ==
  /\ held[n][s] # NoLease
  /\ submit(n, s, [op |-> "Release", holder |-> n,
                   epoch |-> held[n][s].epoch, ttl |-> 0])
  /\ held' = [held EXCEPT ![n][s] = NoLease]

(* The caller drops the future of its call. *)
GiveUp(n) ==
  /\ pending[n] # 0
  /\ pending' = [pending EXCEPT ![n] = 0]
  /\ UNCHANGED <<authority, clock, requests, replies, held, lastId, grants>>

(* SubmitLease::execute: the request is committed, applied and answered. *)
execute(c) ==
  LET done == handle_request(authority, c, clock) IN
  /\ c \in requests
  /\ requests' = requests \ {c}
  /\ authority' = done.state
  /\ replies' = replies \cup
       {[id |-> c.id, node |-> c.node, session |-> c.session, op |-> c.op,
         result |-> done.result]}
  /\ grants' = grants \cup
       (IF done.result.kind = "Granted"
        THEN {[session |-> c.session, epoch |-> done.result.epoch,
               holder |-> c.op.holder]}
        ELSE {})
  /\ UNCHANGED <<clock, pending, held, lastId>>

(* The awaited answer arrives.  A release leaves nothing to count on. *)
Learn(r) ==
  CASE r.op.op # "Release" /\ r.result.kind \in {"Granted", "Renewed"} ->
         [holder |-> r.node, epoch |-> r.result.epoch,
          expires_at |-> r.result.expires_at]
    [] r.op.op = "Renew" /\ r.result.kind = "Denied" -> NoLease
    [] OTHER -> held[r.node][r.session]

receive(r) ==
  /\ r \in replies
  /\ pending[r.node] = r.id
  /\ replies' = replies \ {r}
  /\ pending' = [pending EXCEPT ![r.node] = 0]
  /\ held' = [held EXCEPT ![r.node][r.session] = Learn(r)]
  /\ UNCHANGED <<authority, clock, requests, lastId, grants>>

Tick ==
  /\ clock < MaxTime
  /\ clock' = clock + 1
  /\ UNCHANGED <<authority, requests, replies, pending, held, lastId, grants>>

Next ==
  \/ \E n \in Node, s \in Session :
       client_acquire(n, s) \/ client_renew(n, s) \/ client_release(n, s)
  \/ \E n \in Node : GiveUp(n)
  \/ \E c \in requests : execute(c)
  \/ \E r \in replies : receive(r)
  \/ Tick

Spec == Init /\ [][Next]_vars

-----------------------------------------------------------------------------
(* The two maps of the authority never drift apart: an entry of `leases`   *)
(* always carries the last epoch of `epochs` (acquire writes both, renew   *)
(* and release must not touch the epoch).  A release followed by a new     *)
(* acquire relies on `epochs` surviving the entry.                         *)
EpochOfEntryIsLast ==
  \A s \in Session : authority.leases[s] # NoLease =>
    authority.leases[s].epoch = authority.epochs[s]

(* An epoch of a session is granted once: whatever the interleaving of     *)
(* acquires, expirations, late renewals and releases, two grants with the  *)
(* same fencing token are one grant.                                       *)
EpochGrantedOnce ==
  \A g, h \in grants :
    g.session = h.session /\ g.epoch = h.epoch => g = h

(* n still counts on its lease of s. *)
CountsOn(n, s) == held[n][s] # NoLease /\ held[n][s].expires_at > clock

(* Two nodes never count on the same session at once, late answers and     *)
(* abandoned calls included.                                               *)
MutualExclusion ==
  \A m, n \in Node, s \in Session :
    CountsOn(m, s) /\ CountsOn(n, s) => m = n

(* A node that counts on a session is the one the authority protects, with *)
(* the last epoch: its writes carry the highest fencing token issued.      *)
HolderIsProtected ==
  \A n \in Node, s \in Session : CountsOn(n, s) =>
    /\ IsHeldBy(authority.leases[s], n, held[n][s].epoch)
    /\ held[n][s].epoch = authority.epochs[s]

(* Callers that always ask for the same duration. *)
SingleTTL == \A t, u \in TTL : t = u

-----------------------------------------------------------------------------
(* The authority implements FencedLock: the owner is the holder of an      *)
(* entry that has not expired, the token is the last epoch.                *)
OwnerNow(s) ==
  IF authority.leases[s] # NoLease /\ authority.leases[s].expires_at > clock
  THEN authority.leases[s].holder
  ELSE NoLease

LastTaker(s) ==
  IF \E g \in grants : g.session = s /\ g.epoch = authority.epochs[s]
  THEN (CHOOSE g \in grants :
          g.session = s /\ g.epoch = authority.epochs[s]).holder
  ELSE NoLease

Lock == INSTANCE FencedLock WITH
  Nobody <- NoLease,
  owner  <- [s \in Session |-> OwnerNow(s)],
  token  <- authority.epochs,
  taker  <- [s \in Session |-> LastTaker(s)]

LockSpec == Lock!Spec

=============================================================================
