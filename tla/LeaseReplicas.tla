---------------------------- MODULE LeaseReplicas ---------------------------
(***************************************************************************)
(* The Raft group of lease/storage.rs.  Every replica keeps, in memory     *)
(* only, its log (LeaseLogStore) and a LeaseAuthority (StateMachineInner)  *)
(* to which it applies the committed entries in order.                     *)
(*                                                                         *)
(* The consensus (openraft) is external and reduced to what decides which  *)
(* entries a replica applies: a leader appends and replicates, a majority  *)
(* commits, and a majority whose logs are not ahead elects.  Every replica *)
(* starts with the membership entry of Raft::initialize; one whose log is  *)
(* empty may vote but cannot be a candidate.  Terms are never shared by    *)
(* two leaders here and a deposed leader is silent, so what the group      *)
(* loses in this model it can also lose in the code.  What                 *)
(* this repository adds is modelled whole: apply, which lets               *)
(* handle_request read the clock of the moment the entry is applied on     *)
(* that replica, the snapshots, and a log that a restart loses.            *)
(***************************************************************************)
EXTENDS LeaseAuthority, Sequences, FiniteSets

CONSTANTS Replica,
          NoLeader,     \* no replica leads
          NoSnapshot,   \* current_snapshot = None
          MaxTime,      \* bound: the clock stops here
          MaxLog,       \* bound: entries of a log
          MaxRestarts,  \* bound: restarts of replicas
          MaxTerm       \* bound: elections

VARIABLES log,        \* log[r]: LogStoreInner.log
          term,       \* the term of the last election
          leader,     \* the replica that answers client_write
          authority,  \* authority[r]: StateMachineInner.authority
          applied,    \* applied[r]: StateMachineInner.last_applied, 0 for None
          snapshot,   \* snapshot[r]: current_snapshot
          clock,
          restarts,
          grants      \* history: the grants callers were told of, in order

vars == <<log, term, leader, authority, applied, snapshot, clock, restarts,
          grants>>

Quorum == {Q \in SUBSET Replica : 2 * Cardinality(Q) > Cardinality(Replica)}

Prefix(s, n) == SubSeq(s, 1, n)

(* q holds the first n entries of r's log. *)
Holds(q, r, n) == Len(log[q]) >= n /\ Prefix(log[q], n) = Prefix(log[r], n)

LastTerm(r) == IF log[r] = <<>> THEN 0 ELSE log[r][Len(log[r])].term

(* Raft's comparison of logs: the last term, then the length. *)
NotAheadOf(q, r) ==
  \/ LastTerm(q) < LastTerm(r)
  \/ LastTerm(q) = LastTerm(r) /\ Len(log[q]) <= Len(log[r])

(* The leader commits up to an entry of its own term that a majority holds. *)
Committed(n) ==
  \E m \in n..Len(log[leader]) :
    /\ log[leader][m].term = term
    /\ \E Q \in Quorum : \A q \in Q : Holds(q, leader, m)

Init ==
  /\ log = [r \in Replica |-> <<[payload |-> "Membership", term |-> 0]>>]
  /\ term = 0
  /\ leader = NoLeader
  /\ authority = [r \in Replica |-> EmptyAuthority]
  /\ applied = [r \in Replica |-> 0]
  /\ snapshot = [r \in Replica |-> NoSnapshot]
  /\ clock = 0
  /\ restarts = 0
  /\ grants = <<>>

-----------------------------------------------------------------------------
(* A majority elects r, which opens its term with a blank entry. *)
Elect(r) ==
  /\ r # leader
  /\ term < MaxTerm
  /\ log[r] # <<>>
  /\ Len(log[r]) < MaxLog
  /\ \E Q \in Quorum : r \in Q /\ \A q \in Q : NotAheadOf(q, r)
  /\ leader' = r
  /\ term' = term + 1
  /\ log' = [log EXCEPT ![r] =
       Append(@, [payload |-> "Blank", term |-> term + 1])]
  /\ UNCHANGED <<authority, applied, snapshot, clock, restarts, grants>>

(* LeaseClient's request reaches the leader, which appends it. *)
client_write(req) ==
  /\ leader # NoLeader
  /\ Len(log[leader]) < MaxLog
  /\ log' = [log EXCEPT ![leader] =
       Append(@, [payload |-> "Normal", term |-> term, req |-> req])]
  /\ UNCHANGED <<term, leader, authority, applied, snapshot, clock, restarts,
                 grants>>

(* append and truncate: a replica takes over the leader's log, unless that *)
(* would take back entries it has already applied.                         *)
append(r) ==
  /\ leader # NoLeader
  /\ r # leader
  /\ log[r] # log[leader]
  /\ Holds(leader, r, applied[r])
  /\ log' = [log EXCEPT ![r] = log[leader]]
  /\ UNCHANGED <<term, leader, authority, applied, snapshot, clock, restarts,
                 grants>>

(* LeaseStateMachine::apply, one entry.  The leader answers the caller of  *)
(* an entry of its own term.                                               *)
apply(r) ==
  LET i == applied[r] + 1
      entry == log[r][i]
      done == handle_request(authority[r], entry.req, clock)
  IN
  /\ leader # NoLeader
  /\ applied[r] < Len(log[r])
  /\ Holds(leader, r, i)
  /\ Committed(i)
  /\ applied' = [applied EXCEPT ![r] = i]
  /\ \/ /\ entry.payload = "Normal"
        /\ authority' = [authority EXCEPT ![r] = done.state]
        /\ grants' = IF done.result.kind = "Granted" /\ leader = r
                        /\ entry.term = term
                     THEN Append(grants, [session |-> entry.req.session,
                                          epoch |-> done.result.epoch,
                                          holder |-> entry.req.op.holder])
                     ELSE grants
     \/ /\ entry.payload \in {"Blank", "Membership"}
        /\ UNCHANGED <<authority, grants>>
  /\ UNCHANGED <<log, term, leader, snapshot, clock, restarts>>

(* RaftSnapshotBuilder::build_snapshot: both maps, up to last_applied. *)
build_snapshot(r) ==
  /\ applied[r] > 0
  /\ snapshot' = [snapshot EXCEPT ![r] =
       [upto |-> applied[r], data |-> authority[r]]]
  /\ UNCHANGED <<log, term, leader, authority, applied, clock, restarts,
                 grants>>

(* install_snapshot: the leader sends its snapshot to a replica that is    *)
(* behind it; authority, last_applied and current_snapshot are replaced.   *)
install_snapshot(r) ==
  /\ leader # NoLeader
  /\ r # leader
  /\ snapshot[leader] # NoSnapshot
  /\ LET sent == snapshot[leader] IN
     /\ sent.upto > applied[r]
     /\ log' = [log EXCEPT ![r] =
          IF Holds(r, leader, sent.upto) THEN @
          ELSE Prefix(log[leader], sent.upto)]
     /\ authority' = [authority EXCEPT ![r] = sent.data]
     /\ applied' = [applied EXCEPT ![r] = sent.upto]
     /\ snapshot' = [snapshot EXCEPT ![r] = sent]
  /\ UNCHANGED <<term, leader, clock, restarts, grants>>

(* A restart: build_lease_authority starts again from an empty log store   *)
(* and an empty state machine.                                             *)
Restart(r) ==
  /\ restarts < MaxRestarts
  /\ restarts' = restarts + 1
  /\ leader' = IF leader = r THEN NoLeader ELSE leader
  /\ log' = [log EXCEPT ![r] = <<>>]
  /\ authority' = [authority EXCEPT ![r] = EmptyAuthority]
  /\ applied' = [applied EXCEPT ![r] = 0]
  /\ snapshot' = [snapshot EXCEPT ![r] = NoSnapshot]
  /\ UNCHANGED <<term, clock, grants>>

Tick ==
  /\ clock < MaxTime
  /\ clock' = clock + 1
  /\ UNCHANGED <<log, term, leader, authority, applied, snapshot, restarts,
                 grants>>

(* The requests holders send: renewals and releases name an epoch issued   *)
(* to them.                                                                *)
Submittable ==
  {[session |-> s, op |-> [op |-> "Acquire", holder |-> n, epoch |-> 0,
                           ttl |-> t]] :
     s \in Session, n \in Node, t \in TTL}
  \cup UNION {
    {[session |-> grants[i].session,
      op |-> [op |-> "Renew", holder |-> grants[i].holder,
              epoch |-> grants[i].epoch, ttl |-> t]] : t \in TTL}
    \cup {[session |-> grants[i].session,
           op |-> [op |-> "Release", holder |-> grants[i].holder,
                   epoch |-> grants[i].epoch, ttl |-> 0]]}
    : i \in DOMAIN grants}

Next ==
  \/ \E req \in Submittable : client_write(req)
  \/ \E r \in Replica : Elect(r) \/ append(r) \/ apply(r) \/ build_snapshot(r)
                        \/ install_snapshot(r) \/ Restart(r)
  \/ Tick

Spec == Init /\ [][Next]_vars

-----------------------------------------------------------------------------
(* A session acquired again carries a larger epoch than every grant its    *)
(* callers were told of before, across elections, late applications,       *)
(* snapshots and the restart of one replica alone (acquire of              *)
(* lease/authority.rs behind apply of lease/storage.rs).                   *)
EpochNeverReissued ==
  \A i, j \in DOMAIN grants :
    i < j /\ grants[i].session = grants[j].session
      => grants[i].epoch < grants[j].epoch
=============================================================================
