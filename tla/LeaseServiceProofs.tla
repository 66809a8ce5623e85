------------------------- MODULE LeaseServiceProofs -------------------------
(***************************************************************************)
(* Proofs about LeaseService, for every set of sessions, nodes and         *)
(* durations and every bound.                                              *)
(***************************************************************************)
EXTENDS LeaseService, TLAPS

-----------------------------------------------------------------------------
(* What handle_request may do to an authority.                             *)

(* The fields of an operation, whichever it is. *)
LEMMA OpFields ==
  ASSUME NEW o \in LeaseOp
  PROVE  /\ o.op \in {"Acquire", "Renew", "Release"}
         /\ o.holder \in Node /\ o.epoch \in Nat /\ o.ttl \in Nat
<1>1. /\ o.op \in {"Acquire", "Renew", "Release"}
      /\ o.holder \in Node /\ o.epoch \in Nat /\ o.ttl \in TTL \cup {0}
  BY DEF LeaseOp, Epoch
<1>2. TTL \cup {0} \subseteq Nat
  BY TTLAssumption
<1>3. QED
  BY <1>1, <1>2

(* Only a grant touches an epoch, which it increments, and the entry it    *)
(* leaves carries it; any other operation leaves an entry with the same    *)
(* holder and epoch, or none.                                              *)
Effect(a, req, t, done) ==
  LET s == req.session IN
  /\ done.state \in Authority
  /\ done.result \in LeaseResult
  /\ \A x \in Session \ {s} : done.state.leases[x] = a.leases[x]
                              /\ done.state.epochs[x] = a.epochs[x]
  /\ done.result.kind = "Granted" =>
       /\ Acquirable(a, s, t)
       /\ done.result.epoch = a.epochs[s] + 1
       /\ done.state.epochs[s] = a.epochs[s] + 1
       /\ done.state.leases[s] =
            [holder |-> req.op.holder, epoch |-> a.epochs[s] + 1,
             expires_at |-> t + req.op.ttl]
       /\ done.result.expires_at = t + req.op.ttl
  /\ done.result.kind # "Granted" =>
       /\ done.state.epochs[s] = a.epochs[s]
       /\ done.state.leases[s] # NoLease =>
            /\ a.leases[s] # NoLease
            /\ done.state.leases[s].holder = a.leases[s].holder
            /\ done.state.leases[s].epoch = a.leases[s].epoch

(* Whatever the request, handle_request leaves an authority in the state   *)
(* Effect describes, and the other sessions alone.                         *)
LEMMA HandleRequestEffect ==
  ASSUME NEW a \in Authority, NEW req, req.session \in Session,
         req.op \in LeaseOp, NEW t \in Nat
  PROVE  Effect(a, req, t, handle_request(a, req, t))
<1> DEFINE s == req.session
           op == req.op
           lease == a.leases[s]
<1>1. /\ op.op \in {"Acquire", "Renew", "Release"}
      /\ op.holder \in Node /\ op.epoch \in Nat /\ op.ttl \in Nat
  BY OpFields
<1>2. /\ a.leases \in [Session -> LeaseEntry \cup {NoLease}]
      /\ a.epochs \in [Session -> Nat]
      /\ a = [leases |-> a.leases, epochs |-> a.epochs]
  BY DEF Authority, Epoch
<1>3. lease \in LeaseEntry \cup {NoLease} /\ a.epochs[s] \in Nat
  BY <1>2
<1>4. Denied(lease) \in LeaseResult /\ Denied(lease).kind = "Denied"
  BY <1>3 DEF Denied, LeaseResult, LeaseEntry, Epoch
<1>5. CASE op.op = "Acquire"
  <2>1. handle_request(a, req, t) = acquire(a, s, op, t)
    BY <1>5 DEF handle_request
  <2>2. CASE Acquirable(a, s, t)
    <3> DEFINE e == a.epochs[s] + 1
               entry == [holder |-> op.holder, epoch |-> e,
                         expires_at |-> t + op.ttl]
    <3>1. acquire(a, s, op, t) =
            [state |-> [leases |-> [a.leases EXCEPT ![s] = entry],
                        epochs |-> [a.epochs EXCEPT ![s] = e]],
             result |-> Granted(e, t + op.ttl)]
      BY <2>2 DEF acquire
    <3>2. entry \in LeaseEntry /\ e \in Nat
      BY <1>1, <1>3 DEF LeaseEntry, Epoch
    <3>3. Granted(e, t + op.ttl) \in LeaseResult
      BY <1>1, <3>2 DEF Granted, LeaseResult, Epoch
    <3>4. QED
      BY <1>2, <2>1, <2>2, <3>1, <3>2, <3>3
         DEF Effect, Authority, Granted, Epoch
  <2>3. CASE ~Acquirable(a, s, t)
    <3>1. acquire(a, s, op, t) = [state |-> a, result |-> Denied(lease)]
      BY <2>3 DEF acquire
    <3>2. QED
      BY <2>1, <3>1, <1>3, <1>4 DEF Effect
  <2>4. QED
    BY <2>2, <2>3
<1>6. CASE op.op = "Renew"
  <2>1. handle_request(a, req, t) = renew(a, s, op, t)
    BY <1>6 DEF handle_request
  <2>2. CASE IsHeldBy(lease, op.holder, op.epoch)
    <3> DEFINE entry == [lease EXCEPT !.expires_at = t + op.ttl]
    <3>1. renew(a, s, op, t) =
            [state |-> [leases |-> [a.leases EXCEPT ![s] = entry],
                        epochs |-> a.epochs],
             result |-> Renewed(op.epoch, t + op.ttl)]
      BY <2>2 DEF renew
    <3>2. lease \in LeaseEntry
      BY <1>3, <2>2 DEF IsHeldBy
    <3>3. entry \in LeaseEntry /\ entry.holder = lease.holder
          /\ entry.epoch = lease.epoch
      BY <1>1, <3>2 DEF LeaseEntry, Epoch
    <3>4. Renewed(op.epoch, t + op.ttl) \in LeaseResult
      BY <1>1 DEF Renewed, LeaseResult, Epoch
    <3>5. lease # NoLease
      BY <2>2 DEF IsHeldBy
    <3> HIDE DEF entry
    <3>6. QED
      BY <1>2, <2>1, <3>1, <3>3, <3>4, <3>5
         DEF Effect, Authority, Renewed, Epoch
  <2>3. CASE ~IsHeldBy(lease, op.holder, op.epoch)
    <3>1. renew(a, s, op, t) = [state |-> a, result |-> Denied(lease)]
      BY <2>3 DEF renew
    <3>2. QED
      BY <2>1, <3>1, <1>3, <1>4 DEF Effect
  <2>4. QED
    BY <2>2, <2>3
<1>7. CASE op.op = "Release"
  <2>1. handle_request(a, req, t) = release(a, s, op)
    BY <1>7 DEF handle_request
  <2>2. CASE IsHeldBy(lease, op.holder, op.epoch)
    <3>1. release(a, s, op) =
            [state |-> [leases |-> [a.leases EXCEPT ![s] = NoLease],
                        epochs |-> a.epochs],
             result |-> Renewed(op.epoch, 0)]
      BY <2>2 DEF release
    <3>2. Renewed(op.epoch, 0) \in LeaseResult
      BY <1>1 DEF Renewed, LeaseResult, Epoch
    <3>3. QED
      BY <1>2, <2>1, <3>1, <3>2 DEF Effect, Authority, Renewed, Epoch
  <2>3. CASE ~IsHeldBy(lease, op.holder, op.epoch)
    <3>1. release(a, s, op) = [state |-> a, result |-> Denied(lease)]
      BY <2>3 DEF release
    <3>2. QED
      BY <2>1, <3>1, <1>3, <1>4 DEF Effect
  <2>4. QED
    BY <2>2, <2>3
<1>8. QED
  BY <1>1, <1>5, <1>6, <1>7

-----------------------------------------------------------------------------
(* Type correctness: every variable of the service keeps its type. *)
THEOREM TypeCorrect == Spec => []TypeOK
<1>1. Init => TypeOK
  BY BoundsAssumption DEF Init, TypeOK, EmptyAuthority, Authority, Epoch
<1>2. TypeOK /\ [Next]_vars => TypeOK'
  <2> SUFFICES ASSUME TypeOK, [Next]_vars
               PROVE  TypeOK'
    OBVIOUS
  <2> USE BoundsAssumption
  <2>1. ASSUME NEW n \in Node, NEW s \in Session, NEW op \in LeaseOp,
               submit(n, s, op)
        PROVE  /\ authority' = authority /\ clock' = clock
               /\ replies' = replies /\ grants' = grants
               /\ lastId' \in 0..MaxRequests
               /\ requests' \subseteq Call
               /\ pending' \in [Node -> Id \cup {0}]
    <3>1. lastId + 1 \in Id /\ lastId' = lastId + 1
      BY <2>1 DEF submit, TypeOK, Id
    <3>2. [id |-> lastId + 1, node |-> n, session |-> s, op |-> op] \in Call
      BY <3>1 DEF Call
    <3>3. QED
      BY <2>1, <3>1, <3>2 DEF submit, TypeOK, Id
  <2>2. ASSUME NEW n \in Node, NEW s \in Session, client_acquire(n, s)
        PROVE  TypeOK'
    <3>1. PICK ttl \in TTL :
            submit(n, s, [op |-> "Acquire", holder |-> n, epoch |-> 0,
                          ttl |-> ttl]) /\ UNCHANGED held
      BY <2>2 DEF client_acquire
    <3>2. [op |-> "Acquire", holder |-> n, epoch |-> 0, ttl |-> ttl] \in LeaseOp
      BY DEF LeaseOp, Epoch
    <3>3. QED
      BY <2>1, <3>1, <3>2 DEF TypeOK
  <2>3. ASSUME NEW n \in Node, NEW s \in Session, client_renew(n, s)
        PROVE  TypeOK'
    <3>1. PICK ttl \in TTL :
            /\ held[n][s] # NoLease
            /\ submit(n, s, [op |-> "Renew", holder |-> n,
                              epoch |-> held[n][s].epoch, ttl |-> ttl])
            /\ UNCHANGED held
      BY <2>3 DEF client_renew
    <3>2. held[n][s] \in LeaseEntry
      BY <3>1 DEF TypeOK
    <3>3. [op |-> "Renew", holder |-> n, epoch |-> held[n][s].epoch,
           ttl |-> ttl] \in LeaseOp
      BY <3>2 DEF LeaseOp, LeaseEntry
    <3>4. QED
      BY <2>1, <3>1, <3>3 DEF TypeOK
  <2>4. ASSUME NEW n \in Node, NEW s \in Session, client_release(n, s)
        PROVE  TypeOK'
    <3>1. held[n][s] \in LeaseEntry
      BY <2>4 DEF TypeOK, client_release
    <3>2. [op |-> "Release", holder |-> n, epoch |-> held[n][s].epoch,
           ttl |-> 0] \in LeaseOp
      BY <3>1 DEF LeaseOp, LeaseEntry
    <3>3. held' \in [Node -> [Session -> LeaseEntry \cup {NoLease}]]
      BY <2>4 DEF TypeOK, client_release
    <3>4. QED
      BY <2>1, <2>4, <3>2, <3>3 DEF TypeOK, client_release
  <2>5. ASSUME NEW n \in Node, GiveUp(n)
        PROVE  TypeOK'
    BY <2>5 DEF TypeOK, GiveUp
  <2>6. ASSUME NEW c \in requests, execute(c)
        PROVE  TypeOK'
    <3> DEFINE done == handle_request(authority, c, clock)
    <3>1. c \in Call /\ clock \in Nat /\ authority \in Authority
      BY DEF TypeOK
    <3>2. /\ c.session \in Session /\ c.op \in LeaseOp
          /\ c.id \in Id /\ c.node \in Node
      BY <3>1 DEF Call
    <3>3. Effect(authority, c, clock, done)
      BY <3>1, <3>2, HandleRequestEffect
    <3>4. done.state \in Authority /\ done.result \in LeaseResult
      BY <3>3 DEF Effect
    <3> HIDE DEF done
    <3>5. [id |-> c.id, node |-> c.node, session |-> c.session, op |-> c.op,
           result |-> done.result] \in Reply
      BY <3>2, <3>4 DEF Reply
    <3>6. [session |-> c.session, epoch |-> done.result.epoch,
           holder |-> c.op.holder] \in Grant
      BY <3>2, <3>4, OpFields DEF Grant, LeaseResult
    <3>7. /\ requests' = requests \ {c} /\ authority' = done.state
          /\ replies' = replies \cup
               {[id |-> c.id, node |-> c.node, session |-> c.session,
                 op |-> c.op, result |-> done.result]}
          /\ grants' \subseteq grants \cup
               {[session |-> c.session, epoch |-> done.result.epoch,
                 holder |-> c.op.holder]}
          /\ UNCHANGED <<clock, pending, held, lastId>>
      BY <2>6 DEF execute, done
    <3>8. QED
      BY <3>4, <3>5, <3>6, <3>7 DEF TypeOK
  <2>7. ASSUME NEW r \in replies, receive(r)
        PROVE  TypeOK'
    <3>1. /\ r.node \in Node /\ r.session \in Session
          /\ r.result \in LeaseResult
      BY DEF TypeOK, Reply
    <3>2. Learn(r) \in LeaseEntry \cup {NoLease}
      <4>1. [holder |-> r.node, epoch |-> r.result.epoch,
             expires_at |-> r.result.expires_at] \in LeaseEntry
        BY <3>1 DEF LeaseEntry, LeaseResult
      <4>2. held[r.node][r.session] \in LeaseEntry \cup {NoLease}
        BY <3>1 DEF TypeOK
      <4>3. QED
        BY <4>1, <4>2 DEF Learn
    <3>3. held' \in [Node -> [Session -> LeaseEntry \cup {NoLease}]]
      BY <2>7, <3>1, <3>2 DEF TypeOK, receive
    <3>4. pending' \in [Node -> Id \cup {0}]
      BY <2>7, <3>1 DEF TypeOK, receive
    <3>5. QED
      BY <2>7, <3>3, <3>4 DEF TypeOK, receive
  <2>8. CASE Tick
    BY <2>8 DEF TypeOK, Tick
  <2>9. CASE UNCHANGED vars
    BY <2>9 DEF TypeOK, vars
  <2>10. QED
    BY <2>2, <2>3, <2>4, <2>5, <2>6, <2>7, <2>8, <2>9 DEF Next
<1>3. QED
  BY <1>1, <1>2, PTL DEF Spec

-----------------------------------------------------------------------------
(* Epochs.  A grant is never above the last epoch of its session, so the   *)
(* next one is new; and whoever an entry names was granted its epoch.      *)
GrantsUpToLast ==
  \A g \in grants : g.epoch <= authority.epochs[g.session]

EntryWasGranted ==
  \A s \in Session : authority.leases[s] # NoLease =>
    \E g \in grants : /\ g.session = s
                      /\ g.epoch = authority.leases[s].epoch
                      /\ g.holder = authority.leases[s].holder

EpochInv == /\ TypeOK
            /\ EpochOfEntryIsLast /\ EpochGrantedOnce
            /\ GrantsUpToLast /\ EntryWasGranted

(* What execute does, in terms of Effect. *)
LEMMA ExecuteEffect ==
  ASSUME TypeOK, NEW c \in requests, execute(c)
  PROVE  /\ authority \in Authority /\ authority' \in Authority
         /\ clock \in Nat /\ UNCHANGED <<clock, pending, held, lastId>>
         /\ c \in Call /\ requests' = requests \ {c}
         /\ \E res \in LeaseResult :
              /\ Effect(authority, c, clock,
                        [state |-> authority', result |-> res])
              /\ [state |-> authority', result |-> res] =
                   handle_request(authority, c, clock)
              /\ replies' = replies \cup
                   {[id |-> c.id, node |-> c.node, session |-> c.session,
                     op |-> c.op, result |-> res]}
              /\ res.kind = "Granted" => grants' = grants \cup
                   {[session |-> c.session, epoch |-> res.epoch,
                     holder |-> c.op.holder]}
              /\ res.kind # "Granted" => grants' = grants
<1> DEFINE done == handle_request(authority, c, clock)
<1>1. c \in Call /\ clock \in Nat /\ authority \in Authority
  BY BoundsAssumption DEF TypeOK
<1>2. c.session \in Session /\ c.op \in LeaseOp
  BY <1>1 DEF Call
<1>3. Effect(authority, c, clock, done)
  BY <1>1, <1>2, HandleRequestEffect
<1>4. done.state \in Authority /\ done.result \in LeaseResult
  BY <1>3 DEF Effect
<1>5. done = [state |-> done.state, result |-> done.result]
  BY <1>2, OpFields DEF handle_request, acquire, renew, release
<1> HIDE DEF done
<1>6. /\ requests' = requests \ {c} /\ authority' = done.state
      /\ replies' = replies \cup
           {[id |-> c.id, node |-> c.node, session |-> c.session,
             op |-> c.op, result |-> done.result]}
      /\ done.result.kind = "Granted" => grants' = grants \cup
           {[session |-> c.session, epoch |-> done.result.epoch,
             holder |-> c.op.holder]}
      /\ done.result.kind # "Granted" => grants' = grants
      /\ UNCHANGED <<clock, pending, held, lastId>>
  BY DEF execute, done
<1>7. done = [state |-> authority', result |-> done.result]
  BY <1>5, <1>6
<1>8. QED
  BY <1>1, <1>3, <1>4, <1>6, <1>7 DEF done

(* Only execute changes the authority and the grants. *)
LEMMA OthersKeepAuthority ==
  ASSUME [Next]_vars, ~(\E c \in requests : execute(c))
  PROVE  authority' = authority /\ grants' = grants
BY DEF Next, client_acquire, client_renew, client_release, submit, GiveUp,
       receive, Tick, vars

(* EpochInv is inductive: only execute touches what it speaks of. *)
LEMMA EpochInvStep ==
  ASSUME EpochInv, TypeOK', [Next]_vars
  PROVE  EpochInv'
<1>1. ASSUME NEW c \in requests, execute(c)
      PROVE  EpochInv'
  <2> DEFINE s == c.session
             a == authority
  <2>1. /\ a \in Authority /\ authority' \in Authority /\ clock \in Nat
        /\ c \in Call
    BY <1>1, ExecuteEffect DEF EpochInv
  <2>2. PICK res \in LeaseResult :
          /\ Effect(a, c, clock, [state |-> authority', result |-> res])
          /\ res.kind = "Granted" => grants' = grants \cup
               {[session |-> s, epoch |-> res.epoch, holder |-> c.op.holder]}
          /\ res.kind # "Granted" => grants' = grants
    BY <1>1, ExecuteEffect DEF EpochInv
  <2>3. s \in Session /\ c.op \in LeaseOp
    BY <2>1 DEF Call
  <2>4. /\ \A x \in Session : a.epochs[x] \in Nat
        /\ \A x \in Session : authority'.epochs[x] \in Nat
        /\ grants \subseteq Grant /\ grants' \subseteq Grant
    BY <2>1 DEF Authority, Epoch, EpochInv, TypeOK
  <2>5. \A x \in Session \ {s} : /\ authority'.leases[x] = a.leases[x]
                                 /\ authority'.epochs[x] = a.epochs[x]
    BY <2>2 DEF Effect
  <2>6. CASE res.kind = "Granted"
    <3> DEFINE g0 == [session |-> s, epoch |-> a.epochs[s] + 1,
                      holder |-> c.op.holder]
    <3>1. /\ authority'.epochs[s] = a.epochs[s] + 1
          /\ authority'.leases[s].epoch = a.epochs[s] + 1
          /\ authority'.leases[s].holder = c.op.holder
          /\ grants' = grants \cup {g0}
      BY <2>2, <2>6 DEF Effect
    <3>2. g0.session = s /\ g0.epoch = a.epochs[s] + 1
          /\ g0.holder = c.op.holder
      OBVIOUS
    <3> HIDE DEF g0
    <3>3. EpochOfEntryIsLast'
      BY <2>5, <3>1 DEF EpochInv, EpochOfEntryIsLast
    <3>4. GrantsUpToLast'
      BY <2>3, <2>4, <2>5, <3>1, <3>2 DEF EpochInv, GrantsUpToLast, Grant, Epoch
    <3>5. \A g \in grants : g.session = s => g.epoch # g0.epoch
      BY <2>3, <2>4, <3>2 DEF EpochInv, GrantsUpToLast, Grant, Epoch
    <3>6. EpochGrantedOnce'
      BY <3>1, <3>2, <3>5 DEF EpochInv, EpochGrantedOnce
    <3>7. EntryWasGranted'
      BY <2>5, <3>1, <3>2 DEF EpochInv, EntryWasGranted
    <3>8. QED
      BY <3>3, <3>4, <3>6, <3>7 DEF EpochInv
  <2>7. CASE res.kind # "Granted"
    <3>1. /\ authority'.epochs[s] = a.epochs[s]
          /\ authority'.leases[s] # NoLease =>
               /\ a.leases[s] # NoLease
               /\ authority'.leases[s].holder = a.leases[s].holder
               /\ authority'.leases[s].epoch = a.leases[s].epoch
          /\ grants' = grants
      BY <2>2, <2>7 DEF Effect
    <3>2. EpochOfEntryIsLast'
      BY <2>3, <2>5, <3>1 DEF EpochInv, EpochOfEntryIsLast
    <3>3. GrantsUpToLast'
      BY <2>4, <2>5, <3>1 DEF EpochInv, GrantsUpToLast, Grant
    <3>4. EntryWasGranted'
      BY <2>3, <2>5, <3>1 DEF EpochInv, EntryWasGranted
    <3>5. QED
      BY <3>1, <3>2, <3>3, <3>4 DEF EpochInv, EpochGrantedOnce
  <2>8. QED
    BY <2>6, <2>7
<1>2. CASE ~(\E c \in requests : execute(c))
  <2>1. authority' = authority /\ grants' = grants
    BY <1>2, OthersKeepAuthority
  <2>2. QED
    BY <2>1 DEF EpochInv, EpochOfEntryIsLast, EpochGrantedOnce,
                GrantsUpToLast, EntryWasGranted
<1>3. QED
  BY <1>1, <1>2

(* EpochInv holds of every reachable state. *)
LEMMA EpochInvariant == Spec => []EpochInv
<1>1. Init => EpochInv
  <2> SUFFICES ASSUME Init PROVE EpochInv
    OBVIOUS
  <2>1. TypeOK
    BY BoundsAssumption DEF Init, TypeOK, EmptyAuthority, Authority, Epoch
  <2>2. QED
    BY <2>1 DEF Init, EmptyAuthority, EpochInv, EpochOfEntryIsLast,
                EpochGrantedOnce, GrantsUpToLast, EntryWasGranted
<1>2. EpochInv /\ TypeOK' /\ [Next]_vars => EpochInv'
  BY EpochInvStep
<1>3. QED
  BY <1>1, <1>2, TypeCorrect, PTL DEF Spec

(* The entry of a session carries the last epoch handed out for it. *)
THEOREM EntryCarriesLastEpoch == Spec => []EpochOfEntryIsLast
BY EpochInvariant, PTL DEF EpochInv

(* The authority never hands out the same epoch of a session twice. *)
THEOREM FencingTokenIsUnique == Spec => []EpochGrantedOnce
BY EpochInvariant, PTL DEF EpochInv

-----------------------------------------------------------------------------
(* LeaseService implements FencedLock.                                     *)

(* LastTaker is determined by the grants, CHOOSE or not. *)
LEMMA LastTakerIs ==
  ASSUME EpochGrantedOnce, NEW s,
         NEW g \in grants, g.session = s, g.epoch = authority.epochs[s]
  PROVE  LastTaker(s) = g.holder
<1> DEFINE P(h) == h.session = s /\ h.epoch = authority.epochs[s]
<1>1. P(g)
  OBVIOUS
<1>2. (CHOOSE h \in grants : P(h)) \in grants /\ P(CHOOSE h \in grants : P(h))
  BY <1>1
<1>3. (CHOOSE h \in grants : P(h)) = g
  BY <1>1, <1>2 DEF EpochGrantedOnce
<1>4. QED
  BY <1>1, <1>3 DEF LastTaker

(* Without a grant under the last epoch there is no taker. *)
LEMMA NoLastTaker ==
  ASSUME NEW s,
         ~\E g \in grants : g.session = s /\ g.epoch = authority.epochs[s]
  PROVE  LastTaker(s) = NoLease
BY DEF LastTaker

(* The state of the abstract lock, with the names of the mapping. *)
absOwner == [s \in Session |-> OwnerNow(s)]
absTaker == [s \in Session |-> LastTaker(s)]

(* LastTaker depends on the grants and the epochs alone. *)
LEMMA SameGrantsSameTaker ==
  ASSUME grants' = grants, authority'.epochs = authority.epochs
  PROVE  absTaker' = absTaker
BY DEF absTaker, LastTaker

(* A step that leaves token and taker alone and changes no owner but to    *)
(* Nobody. *)
LEMMA OwnersLost ==
  ASSUME authority'.epochs = authority.epochs, grants' = grants,
         \A s \in Session : OwnerNow(s)' \in {OwnerNow(s), NoLease}
  PROVE  Lock!Next
<1> DEFINE S == {s \in Session : OwnerNow(s)' = NoLease}
<1>1. absOwner' = [s \in Session |-> IF s \in S THEN NoLease ELSE absOwner[s]]
  BY DEF absOwner
<1>2. absTaker' = absTaker
  BY SameGrantsSameTaker
<1>3. Lock!Lose(S)
  BY <1>1, <1>2 DEF Lock!Lose, absOwner, absTaker
<1>4. QED
  BY <1>3 DEF Lock!Next

(* Every step of the service is a step of the lock, or a stutter. *)
LEMMA LockStep ==
  ASSUME EpochInv, EpochInv', [Next]_vars
  PROVE  [Lock!Next]_Lock!vars
<1>1. ASSUME NEW c \in requests, execute(c)
      PROVE  Lock!Next
  <2> DEFINE s == c.session
             a == authority
  <2>1. /\ a \in Authority /\ authority' \in Authority /\ clock \in Nat
        /\ c \in Call /\ clock' = clock
    BY <1>1, ExecuteEffect DEF EpochInv
  <2>2. PICK res \in LeaseResult :
          /\ Effect(a, c, clock, [state |-> authority', result |-> res])
          /\ res.kind = "Granted" => grants' = grants \cup
               {[session |-> s, epoch |-> res.epoch, holder |-> c.op.holder]}
          /\ res.kind # "Granted" => grants' = grants
    BY <1>1, ExecuteEffect DEF EpochInv
  <2>3. s \in Session /\ c.op \in LeaseOp /\ c.op.holder \in Node
    BY <2>1, OpFields DEF Call
  <2>4. \A x \in Session \ {s} : /\ authority'.leases[x] = a.leases[x]
                                 /\ authority'.epochs[x] = a.epochs[x]
    BY <2>2 DEF Effect
  <2>5. \A x \in Session \ {s} : OwnerNow(x)' = OwnerNow(x)
    BY <2>1, <2>4 DEF OwnerNow
  <2>6. /\ a.epochs \in [Session -> Nat] /\ authority'.epochs \in [Session -> Nat]
        /\ grants \subseteq Grant
        /\ a.leases[s] \in LeaseEntry \cup {NoLease}
    BY <2>1, <2>3 DEF Authority, Epoch, EpochInv, TypeOK
  <2>7. CASE res.kind = "Granted"
    <3> DEFINE g0 == [session |-> s, epoch |-> a.epochs[s] + 1,
                      holder |-> c.op.holder]
    <3>1. /\ Acquirable(a, s, clock)
          /\ authority'.epochs[s] = a.epochs[s] + 1
          /\ authority'.leases[s] =
               [holder |-> c.op.holder, epoch |-> a.epochs[s] + 1,
                expires_at |-> clock + c.op.ttl]
          /\ grants' = grants \cup {g0}
      BY <2>2, <2>7 DEF Effect
    <3>2. OwnerNow(s) = NoLease
      BY <2>1, <2>6, <3>1 DEF OwnerNow, Acquirable, has_expired, LeaseEntry
    <3>3. OwnerNow(s)' \in {c.op.holder, NoLease}
      BY <3>1 DEF OwnerNow
    <3>4. LastTaker(s)' = c.op.holder
      <4>1. g0 \in grants' /\ g0.session = s
            /\ g0.epoch = authority'.epochs[s] /\ g0.holder = c.op.holder
        BY <3>1
      <4> HIDE DEF g0
      <4> DEFINE P(h) == h.session = s /\ h.epoch = authority'.epochs[s]
      <4>2. (CHOOSE h \in grants' : P(h)) \in grants'
            /\ P(CHOOSE h \in grants' : P(h))
        BY <4>1
      <4>3. (CHOOSE h \in grants' : P(h)) = g0
        BY <4>1, <4>2 DEF EpochInv, EpochGrantedOnce
      <4>4. QED
        BY <4>1, <4>3 DEF LastTaker
    <3>5. ASSUME NEW x \in Session \ {s}
          PROVE  LastTaker(x)' = LastTaker(x)
      <4> DEFINE P(h) == h.session = x /\ h.epoch = a.epochs[x]
      <4>1. \A h \in grants' : P(h) => h \in grants
        BY <3>1
      <4>2. grants \subseteq grants' /\ authority'.epochs[x] = a.epochs[x]
        BY <2>4, <3>1
      <4>3. CASE \E h \in grants : P(h)
        <5>1. PICK h \in grants : P(h)
          BY <4>3
        <5>2. LastTaker(x) = h.holder
          BY <5>1, LastTakerIs DEF EpochInv
        <5> DEFINE k == CHOOSE i \in grants' : P(i)
        <5>3. k \in grants' /\ P(k)
          BY <5>1, <4>2
        <5>4. k = h
          BY <5>1, <5>3, <4>2 DEF EpochInv, EpochGrantedOnce
        <5>5. LastTaker(x)' = h.holder
          BY <5>1, <5>4, <4>2 DEF LastTaker
        <5>6. QED
          BY <5>2, <5>5
      <4>4. CASE ~\E h \in grants : P(h)
        <5>1. LastTaker(x) = NoLease
          BY <4>4, NoLastTaker
        <5>2. ~\E h \in grants' : h.session = x /\ h.epoch = authority'.epochs[x]
          BY <4>1, <4>2, <4>4
        <5>3. QED
          BY <5>1, <5>2 DEF LastTaker
      <4>5. QED
        BY <4>3, <4>4
    <3>6. authority'.epochs = [a.epochs EXCEPT ![s] = @ + 1]
      BY <2>3, <2>4, <2>6, <3>1
    <3>7. absTaker' = [absTaker EXCEPT ![s] = c.op.holder]
      BY <2>3, <3>4, <3>5 DEF absTaker
    <3>8. PICK o \in {c.op.holder, NoLease} :
            absOwner' = [absOwner EXCEPT ![s] = o]
      BY <2>3, <2>5, <3>3 DEF absOwner
    <3>9. absOwner[s] = NoLease
      BY <2>3, <3>2 DEF absOwner
    <3>10. Lock!Take(s, c.op.holder)
      BY <3>6, <3>7, <3>8, <3>9 DEF Lock!Take, absOwner, absTaker
    <3>11. QED
      BY <2>3, <3>10 DEF Lock!Next
  <2>8. CASE res.kind # "Granted"
    <3>1. /\ authority'.epochs[s] = a.epochs[s]
          /\ authority'.leases[s] # NoLease =>
               /\ a.leases[s] # NoLease
               /\ authority'.leases[s].holder = a.leases[s].holder
          /\ grants' = grants
      BY <2>2, <2>8 DEF Effect
    <3>2. authority'.epochs = a.epochs
      BY <2>4, <2>6, <3>1
    <3>3. CASE OwnerNow(s)' \in {OwnerNow(s), NoLease}
      BY <2>5, <3>1, <3>2, <3>3, OwnersLost
    <3>4. CASE OwnerNow(s)' \notin {OwnerNow(s), NoLease}
      <4>1. /\ OwnerNow(s)' = a.leases[s].holder /\ a.leases[s] # NoLease
        BY <3>1, <3>4 DEF OwnerNow
      <4>2. OwnerNow(s) = NoLease
        BY <3>4, <4>1 DEF OwnerNow
      <4>3. LastTaker(s) = a.leases[s].holder
        BY <2>3, <4>1, LastTakerIs
           DEF EpochInv, EntryWasGranted, EpochOfEntryIsLast
      <4>4. a.leases[s].holder \in Node
        BY <2>6, <4>1 DEF LeaseEntry
      <4>5. absOwner' = [absOwner EXCEPT ![s] = absTaker[s]]
        BY <2>3, <2>5, <4>1, <4>3 DEF absOwner, absTaker
      <4>6. absOwner[s] = NoLease /\ absTaker[s] # NoLease
        BY <2>3, <4>2, <4>3, <4>4, NoLeaseAssumption DEF absOwner, absTaker
      <4>7. absTaker' = absTaker
        BY <3>1, <3>2, SameGrantsSameTaker
      <4>8. Lock!Regain(s)
        BY <3>2, <4>5, <4>6, <4>7 DEF Lock!Regain, absOwner, absTaker
      <4>9. QED
        BY <2>3, <4>8 DEF Lock!Next
    <3>5. QED
      BY <3>3, <3>4
  <2>9. QED
    BY <2>7, <2>8
<1>2. CASE ~(\E c \in requests : execute(c))
  <2>1. authority' = authority /\ grants' = grants
    BY <1>2, OthersKeepAuthority
  <2>2. clock' \in {clock, clock + 1} /\ clock \in Nat
    <3>1. clock \in Nat
      BY BoundsAssumption DEF EpochInv, TypeOK
    <3>2. clock' = clock \/ clock' = clock + 1
      BY <1>2 DEF Next, client_acquire, client_renew, client_release, submit,
                  GiveUp, receive, Tick, vars
    <3>3. QED
      BY <3>1, <3>2
  <2>3. \A s \in Session : authority.leases[s] \in LeaseEntry \cup {NoLease}
    BY DEF EpochInv, TypeOK, Authority
  <2>4. \A s \in Session : OwnerNow(s)' \in {OwnerNow(s), NoLease}
    BY <2>1, <2>2, <2>3 DEF OwnerNow, LeaseEntry
  <2>5. QED
    BY <2>1, <2>4, OwnersLost
<1>3. QED
  BY <1>1, <1>2

(* The authority with its callers implements the fenced lock: at most one  *)
(* owner of a session, a larger token at each change of owner, and the     *)
(* same token again only for the node it was issued to.                    *)
THEOREM ServiceImplementsLock == Spec => LockSpec
<1>1. Init => Lock!Init
  BY DEF Init, Lock!Init, EmptyAuthority, OwnerNow, LastTaker
<1>2. EpochInv /\ EpochInv' /\ [Next]_vars => [Lock!Next]_Lock!vars
  BY LockStep
<1>3. QED
  BY <1>1, <1>2, EpochInvariant, PTL DEF Spec, LockSpec, Lock!Spec

-----------------------------------------------------------------------------
(* Mutual exclusion.  The invariant says why a node may go on counting on  *)
(* its lease although answers are late and calls abandoned: the entry of   *)
(* the authority backs it for at least as long, and no release of it is    *)
(* still under way.                                                        *)

(* The authority protects n with epoch e on s at least until t. *)
Backed(n, s, e, t) ==
  /\ IsHeldBy(authority.leases[s], n, e)
  /\ authority.leases[s].expires_at >= t

Awaited(m) == pending[m.node] = m.id

(* An answer whose receipt would make its node count on the lease. *)
Telling(r) ==
  /\ Awaited(r)
  /\ r.op.op # "Release"
  /\ r.result.kind \in {"Granted", "Renewed"}

HeldIsBacked ==
  \A n \in Node, s \in Session : CountsOn(n, s) =>
    Backed(n, s, held[n][s].epoch, held[n][s].expires_at)

ToldIsBacked ==
  \A r \in replies : Telling(r) /\ r.result.expires_at > clock =>
    Backed(r.node, r.session, r.result.epoch, r.result.expires_at)

(* A renewal never brings the end of an entry forward. *)
EntryEndsWithinTTL ==
  \A s \in Session, t \in TTL : authority.leases[s] # NoLease =>
    authority.leases[s].expires_at <= clock + t

(* What requests and answers carry. *)
MessagesSane ==
  /\ \A c \in requests :
       /\ c.id <= lastId /\ c.op.holder = c.node
       /\ c.op.epoch <= authority.epochs[c.session]
       /\ c.op.op # "Release" => c.op.ttl \in TTL
  /\ \A r \in replies :
       /\ r.id <= lastId
       /\ r.result.epoch <= authority.epochs[r.session]
  /\ \A n \in Node, s \in Session : held[n][s] # NoLease =>
       held[n][s].epoch <= authority.epochs[s]

(* Once n asked for the release of an epoch, nothing can make it count on  *)
(* that epoch again.                                                       *)
ReleasedIsGone ==
  \A c \in requests : c.op.op = "Release" =>
    /\ held[c.node][c.session] # NoLease =>
         held[c.node][c.session].epoch # c.op.epoch
    /\ \A r \in replies :
         Telling(r) /\ r.node = c.node /\ r.session = c.session =>
           r.result.epoch # c.op.epoch
    /\ \A d \in requests :
         /\ Awaited(d) /\ d.op.op = "Renew"
         /\ d.node = c.node /\ d.session = c.session
         => d.op.epoch # c.op.epoch

HoldInv == /\ EpochInv
           /\ HeldIsBacked /\ ToldIsBacked /\ EntryEndsWithinTTL
           /\ MessagesSane /\ ReleasedIsGone

(* The four ways a request ends. *)
Grants(c, res) ==
  /\ c.op.op = "Acquire" /\ res.kind = "Granted"
  /\ Acquirable(authority, c.session, clock)
  /\ res.epoch = authority.epochs[c.session] + 1
  /\ res.expires_at = clock + c.op.ttl
  /\ authority'.epochs[c.session] = authority.epochs[c.session] + 1
  /\ authority'.leases[c.session] =
       [holder |-> c.op.holder, epoch |-> res.epoch,
        expires_at |-> clock + c.op.ttl]

Extends(c, res) ==
  /\ c.op.op = "Renew" /\ res.kind = "Renewed"
  /\ IsHeldBy(authority.leases[c.session], c.op.holder, c.op.epoch)
  /\ res.epoch = c.op.epoch /\ res.expires_at = clock + c.op.ttl
  /\ authority'.epochs = authority.epochs
  /\ authority'.leases[c.session] =
       [holder |-> c.op.holder, epoch |-> c.op.epoch,
        expires_at |-> clock + c.op.ttl]

Removes(c, res) ==
  /\ c.op.op = "Release" /\ res.kind = "Renewed"
  /\ IsHeldBy(authority.leases[c.session], c.op.holder, c.op.epoch)
  /\ res.epoch = c.op.epoch
  /\ authority'.epochs = authority.epochs
  /\ authority'.leases[c.session] = NoLease

Refuses(c, res) ==
  /\ res.kind = "Denied"
  /\ authority' = authority
  /\ \/ res.epoch = 0
     \/ /\ authority.leases[c.session] # NoLease
        /\ res.epoch = authority.leases[c.session].epoch

(* The four outcomes of execute that HoldInv tells apart. *)
LEMMA ExecuteCases ==
  ASSUME TypeOK, NEW c \in requests, execute(c)
  PROVE  \E res \in LeaseResult :
           /\ Grants(c, res) \/ Extends(c, res) \/ Removes(c, res)
              \/ Refuses(c, res)
           /\ replies' = replies \cup
                {[id |-> c.id, node |-> c.node, session |-> c.session,
                  op |-> c.op, result |-> res]}
           /\ \A x \in Session \ {c.session} :
                /\ authority'.leases[x] = authority.leases[x]
                /\ authority'.epochs[x] = authority.epochs[x]
<1> DEFINE a == authority
           s == c.session
           op == c.op
           lease == a.leases[s]
<1>1. PICK res \in LeaseResult :
        /\ Effect(a, c, clock, [state |-> authority', result |-> res])
        /\ [state |-> authority', result |-> res] = handle_request(a, c, clock)
        /\ replies' = replies \cup
             {[id |-> c.id, node |-> c.node, session |-> s,
               op |-> op, result |-> res]}
  BY ExecuteEffect
<1>2. /\ s \in Session /\ op \in LeaseOp
      /\ a.leases \in [Session -> LeaseEntry \cup {NoLease}]
      /\ a.epochs \in [Session -> Nat]
  BY DEF TypeOK, Call, Authority, Epoch
<1>3. op.op \in {"Acquire", "Renew", "Release"}
  BY <1>2, OpFields
<1>4. authority' = handle_request(a, c, clock).state
      /\ res = handle_request(a, c, clock).result
  BY <1>1
<1>5. Grants(c, res) \/ Extends(c, res) \/ Removes(c, res) \/ Refuses(c, res)
  <2>1. CASE op.op = "Acquire" /\ Acquirable(a, s, clock)
    <3>1. res.kind = "Granted"
      BY <1>4, <2>1 DEF handle_request, acquire, Granted
    <3>2. Grants(c, res)
      BY <1>1, <2>1, <3>1 DEF Effect, Grants
    <3>3. QED
      BY <3>2
  <2>2. CASE op.op = "Renew" /\ IsHeldBy(lease, op.holder, op.epoch)
    <3>1. /\ authority' = [leases |-> [a.leases EXCEPT
                                       ![s].expires_at = clock + op.ttl],
                           epochs |-> a.epochs]
          /\ res = Renewed(op.epoch, clock + op.ttl)
      BY <1>4, <2>2 DEF handle_request, renew
    <3>2. lease \in LeaseEntry /\ lease.holder = op.holder
          /\ lease.epoch = op.epoch
      BY <1>2, <2>2 DEF IsHeldBy
    <3>3. [lease EXCEPT !.expires_at = clock + op.ttl] =
            [holder |-> op.holder, epoch |-> op.epoch,
             expires_at |-> clock + op.ttl]
      BY <3>2 DEF LeaseEntry
    <3>4. authority'.leases[s] = [lease EXCEPT !.expires_at = clock + op.ttl]
      BY <1>2, <3>1
    <3>5. QED
      BY <2>2, <3>1, <3>3, <3>4 DEF Extends, Renewed
  <2>3. CASE op.op = "Release" /\ IsHeldBy(lease, op.holder, op.epoch)
    <3>1. /\ authority' = [leases |-> [a.leases EXCEPT ![s] = NoLease],
                           epochs |-> a.epochs]
          /\ res = Renewed(op.epoch, 0)
      BY <1>4, <2>3 DEF handle_request, release
    <3>2. QED
      BY <1>2, <2>3, <3>1 DEF Removes, Renewed
  <2>4. CASE /\ ~(op.op = "Acquire" /\ Acquirable(a, s, clock))
             /\ ~(op.op = "Renew" /\ IsHeldBy(lease, op.holder, op.epoch))
             /\ ~(op.op = "Release" /\ IsHeldBy(lease, op.holder, op.epoch))
    <3>1. authority' = a /\ res = Denied(lease)
      BY <1>3, <1>4, <2>4 DEF handle_request, acquire, renew, release
    <3>2. QED
      BY <3>1 DEF Refuses, Denied
  <2>5. QED
    BY <2>1, <2>2, <2>3, <2>4
<1>6. QED
  BY <1>1, <1>5 DEF Effect

(* A backed lease that has not run out stays backed, unless it is the one  *)
(* that the request releases.                                              *)
LEMMA BackedStays ==
  ASSUME HoldInv, SingleTTL, NEW c \in requests, execute(c),
         NEW n \in Node, NEW s \in Session, NEW e \in Nat, NEW t \in Int,
         Backed(n, s, e, t), t > clock,
         ~(/\ c.op.op = "Release" /\ c.node = n /\ c.session = s
           /\ c.op.epoch = e)
  PROVE  Backed(n, s, e, t)'
<1>1. PICK res \in LeaseResult :
        /\ Grants(c, res) \/ Extends(c, res) \/ Removes(c, res)
           \/ Refuses(c, res)
        /\ \A x \in Session \ {c.session} :
             authority'.leases[x] = authority.leases[x]
  BY ExecuteCases DEF HoldInv, EpochInv
<1>2. /\ authority.leases[s] \in LeaseEntry /\ clock \in Nat
      /\ c.op \in LeaseOp /\ c.op.ttl \in Nat /\ c.op.holder = c.node
  <2>1. authority.leases[s] # NoLease
    BY DEF Backed, IsHeldBy
  <2>2. authority.leases[s] \in LeaseEntry
    BY <2>1 DEF HoldInv, EpochInv, TypeOK, Authority
  <2>3. clock \in Nat /\ c.op \in LeaseOp
    BY BoundsAssumption DEF HoldInv, EpochInv, TypeOK, Call
  <2>4. QED
    BY <2>2, <2>3, OpFields DEF HoldInv, MessagesSane
<1>3. CASE c.session # s
  BY <1>1, <1>3 DEF Backed, IsHeldBy
<1>4. CASE c.session = s /\ Grants(c, res)
  <2>1. authority.leases[s] # NoLease /\ authority.leases[s].expires_at > clock
    BY <1>2 DEF Backed, IsHeldBy, LeaseEntry
  <2>2. QED
    BY <1>2, <1>4, <2>1 DEF Grants, Acquirable, has_expired, LeaseEntry
<1>5. CASE c.session = s /\ Extends(c, res)
  <2>1. c.op.ttl \in TTL
    BY <1>5 DEF HoldInv, MessagesSane, Extends
  <2>2. authority.leases[s].expires_at <= clock + c.op.ttl
    BY <1>2, <2>1 DEF HoldInv, EntryEndsWithinTTL, Backed, IsHeldBy
  <2>3. clock + c.op.ttl >= t
    BY <1>2, <2>2 DEF Backed, LeaseEntry
  <2>4. c.op.holder = n /\ c.op.epoch = e
    BY <1>5 DEF Extends, Backed, IsHeldBy
  <2>5. authority'.leases[s] = [holder |-> n, epoch |-> e,
                                expires_at |-> clock + c.op.ttl]
    BY <1>5, <2>4 DEF Extends
  <2>6. authority'.leases[s] # NoLease
    <3>1. authority'.leases[s] \in LeaseEntry
      BY <1>2, <2>5 DEF LeaseEntry, Epoch
    <3>2. QED
      BY <3>1, NoLeaseAssumption
  <2>7. QED
    BY <2>3, <2>5, <2>6 DEF Backed, IsHeldBy
<1>6. CASE c.session = s /\ Removes(c, res)
  BY <1>2, <1>6 DEF Removes, Backed, IsHeldBy
<1>7. CASE c.session = s /\ Refuses(c, res)
  BY <1>7 DEF Refuses, Backed, IsHeldBy
<1>8. QED
  BY <1>1, <1>3, <1>4, <1>5, <1>6, <1>7

(* The authority handles a request: HoldInv is preserved. *)
LEMMA HoldExecute ==
  ASSUME HoldInv, EpochInv', SingleTTL, NEW c \in requests, execute(c)
  PROVE  HoldInv'
<1> DEFINE s == c.session
           a == authority
<1>1. PICK res \in LeaseResult :
        /\ Grants(c, res) \/ Extends(c, res) \/ Removes(c, res)
           \/ Refuses(c, res)
        /\ replies' = replies \cup
             {[id |-> c.id, node |-> c.node, session |-> s,
               op |-> c.op, result |-> res]}
        /\ \A x \in Session \ {s} :
             /\ authority'.leases[x] = a.leases[x]
             /\ authority'.epochs[x] = a.epochs[x]
  BY ExecuteCases DEF HoldInv, EpochInv
<1> DEFINE r0 == [id |-> c.id, node |-> c.node, session |-> s,
                  op |-> c.op, result |-> res]
<1>2. /\ requests' = requests \ {c}
      /\ clock' = clock /\ pending' = pending /\ held' = held
      /\ lastId' = lastId
  BY DEF execute
<1>3. /\ c.session \in Session /\ c.node \in Node /\ c.id \in Nat
      /\ c.op \in LeaseOp /\ c.op.holder = c.node
      /\ c.op.op \in {"Acquire", "Renew", "Release"}
      /\ c.op.ttl \in Nat /\ c.op.epoch \in Nat /\ clock \in Nat
      /\ c.op.epoch <= a.epochs[s]
  <2>1. c \in Call /\ clock \in Nat
    BY BoundsAssumption DEF HoldInv, EpochInv, TypeOK
  <2>2. c.op \in LeaseOp /\ c.session \in Session /\ c.node \in Node
        /\ c.id \in Nat
    BY <2>1, BoundsAssumption DEF Call, Id
  <2>3. QED
    BY <2>1, <2>2, OpFields DEF HoldInv, MessagesSane
<1>4. /\ a.epochs \in [Session -> Nat] /\ authority'.epochs \in [Session -> Nat]
      /\ a.leases \in [Session -> LeaseEntry \cup {NoLease}]
      /\ authority'.leases \in [Session -> LeaseEntry \cup {NoLease}]
      /\ res.epoch \in Nat /\ res.expires_at \in Int
      /\ held \in [Node -> [Session -> LeaseEntry \cup {NoLease}]]
  BY DEF HoldInv, EpochInv, TypeOK, Authority, Epoch, LeaseResult
<1>5. \A r \in replies : /\ r.node \in Node /\ r.session \in Session
                         /\ r.result.epoch \in Nat /\ r.result.expires_at \in Int
  BY DEF HoldInv, EpochInv, TypeOK, Reply, LeaseResult, Epoch
<1>6. \A x \in Session : a.epochs[x] <= authority'.epochs[x]
  BY <1>1, <1>3, <1>4 DEF Grants, Extends, Removes, Refuses
<1>7. res.epoch <= authority'.epochs[s]
  <2>1. CASE Grants(c, res)
    BY <2>1, <1>3, <1>4 DEF Grants
  <2>2. CASE Extends(c, res) \/ Removes(c, res)
    BY <2>2, <1>3, <1>4 DEF Extends, Removes
  <2>3. CASE Refuses(c, res)
    BY <2>3, <1>3, <1>4 DEF Refuses, HoldInv, EpochInv, EpochOfEntryIsLast
  <2>4. QED
    BY <1>1, <2>1, <2>2, <2>3
<1>8. MessagesSane'
  <2>1. \A d \in requests' :
          /\ d.id <= lastId' /\ d.op.holder = d.node
          /\ d.op.epoch <= authority'.epochs[d.session]
          /\ d.op.op # "Release" => d.op.ttl \in TTL
    <3> SUFFICES ASSUME NEW d \in requests
                 PROVE  /\ d.id <= lastId /\ d.op.holder = d.node
                        /\ d.op.epoch <= authority'.epochs[d.session]
                        /\ d.op.op # "Release" => d.op.ttl \in TTL
      BY <1>2
    <3>1. d.session \in Session /\ d.op \in LeaseOp
      BY DEF HoldInv, EpochInv, TypeOK, Call
    <3>2. d.op.epoch \in Nat
      BY <3>1, OpFields
    <3>3. QED
      BY <1>4, <1>6, <3>1, <3>2 DEF HoldInv, MessagesSane
  <2>2. \A r \in replies' : /\ r.id <= lastId'
                            /\ r.result.epoch <= authority'.epochs[r.session]
    <3>1. r0.id <= lastId /\ r0.result.epoch <= authority'.epochs[r0.session]
      BY <1>7 DEF HoldInv, MessagesSane
    <3>2. ASSUME NEW r \in replies
          PROVE  r.id <= lastId /\ r.result.epoch <= authority'.epochs[r.session]
      BY <1>4, <1>5, <1>6 DEF HoldInv, MessagesSane
    <3>3. QED
      BY <1>1, <1>2, <3>1, <3>2
  <2>3. \A n \in Node, x \in Session : held'[n][x] # NoLease =>
          held'[n][x].epoch <= authority'.epochs[x]
    <3> SUFFICES ASSUME NEW n \in Node, NEW x \in Session,
                        held[n][x] # NoLease
                 PROVE  held[n][x].epoch <= authority'.epochs[x]
      BY <1>2
    <3>1. held[n][x].epoch \in Nat
      BY <1>4 DEF LeaseEntry, Epoch
    <3>2. QED
      BY <1>4, <1>6, <3>1 DEF HoldInv, MessagesSane
  <2>4. QED
    BY <2>1, <2>2, <2>3 DEF MessagesSane
<1>9. HeldIsBacked'
  <2> SUFFICES ASSUME NEW n \in Node, NEW x \in Session, CountsOn(n, x)
               PROVE  Backed(n, x, held[n][x].epoch, held[n][x].expires_at)'
    BY <1>2 DEF HeldIsBacked, CountsOn
  <2>1. /\ held[n][x] # NoLease /\ held[n][x].expires_at > clock
        /\ held[n][x].epoch \in Nat /\ held[n][x].expires_at \in Int
    BY <1>4 DEF CountsOn, LeaseEntry, Epoch
  <2>2. Backed(n, x, held[n][x].epoch, held[n][x].expires_at)
    BY DEF HoldInv, HeldIsBacked
  <2>3. ~(/\ c.op.op = "Release" /\ c.node = n /\ c.session = x
          /\ c.op.epoch = held[n][x].epoch)
    BY <2>1 DEF HoldInv, ReleasedIsGone
  <2> DEFINE e == held[n][x].epoch
             t == held[n][x].expires_at
  <2>4. Backed(n, x, e, t) /\ t > clock /\ e \in Nat /\ t \in Int
        /\ e' = e /\ t' = t
    BY <1>2, <2>1, <2>2
  <2>5. ~(c.op.op = "Release" /\ c.node = n /\ c.session = x /\ c.op.epoch = e)
    BY <2>3
  <2> HIDE DEF e, t
  <2>6. \A ee \in Nat, tt \in Int :
          Backed(n, x, ee, tt) /\ tt > clock
          /\ ~(c.op.op = "Release" /\ c.node = n /\ c.session = x
               /\ c.op.epoch = ee)
          => IsHeldBy(authority'.leases[x], n, ee)
             /\ authority'.leases[x].expires_at >= tt
    BY BackedStays DEF Backed
  <2>7. IsHeldBy(authority'.leases[x], n, e) /\ authority'.leases[x].expires_at >= t
    BY <2>4, <2>5, <2>6
  <2>8. QED
    BY <1>2, <2>7 DEF Backed, e, t
<1>10. \A r \in replies : Telling(r)' <=> Telling(r)
  BY <1>2 DEF Telling, Awaited
<1>11. ToldIsBacked'
  <2>1. ASSUME NEW r \in replies, Telling(r), r.result.expires_at > clock
        PROVE  /\ IsHeldBy(authority'.leases[r.session], r.node, r.result.epoch)
               /\ authority'.leases[r.session].expires_at >= r.result.expires_at
    <3>1. Backed(r.node, r.session, r.result.epoch, r.result.expires_at)
      BY <2>1 DEF HoldInv, ToldIsBacked
    <3>2. ~(/\ c.op.op = "Release" /\ c.node = r.node
            /\ c.session = r.session /\ c.op.epoch = r.result.epoch)
      BY <2>1 DEF HoldInv, ReleasedIsGone
    <3>3. \A n \in Node, x \in Session, ee \in Nat, tt \in Int :
            Backed(n, x, ee, tt) /\ tt > clock
            /\ ~(c.op.op = "Release" /\ c.node = n /\ c.session = x
                 /\ c.op.epoch = ee)
            => IsHeldBy(authority'.leases[x], n, ee)
               /\ authority'.leases[x].expires_at >= tt
      BY BackedStays DEF Backed
    <3>4. QED
      BY <1>5, <2>1, <3>1, <3>2, <3>3
  <2>2. ASSUME c.op.op # "Release", res.kind \in {"Granted", "Renewed"}
        PROVE  /\ IsHeldBy(authority'.leases[s], c.node, res.epoch)
               /\ authority'.leases[s].expires_at >= res.expires_at
    <3>1. Grants(c, res) \/ Extends(c, res)
      BY <1>1, <2>2 DEF Removes, Refuses
    <3>2. authority'.leases[s] = [holder |-> c.node, epoch |-> res.epoch,
                                  expires_at |-> res.expires_at]
      BY <1>3, <3>1 DEF Grants, Extends
    <3>3. authority'.leases[s] \in LeaseEntry
      BY <1>3, <1>4, <3>2 DEF LeaseEntry, Epoch
    <3>4. QED
      BY <1>4, <3>2, <3>3, NoLeaseAssumption DEF IsHeldBy
  <2>3. \A r \in replies' : Telling(r)' /\ r.result.expires_at > clock' =>
          Backed(r.node, r.session, r.result.epoch, r.result.expires_at)'
    <3> SUFFICES ASSUME NEW r \in replies', Telling(r)',
                        r.result.expires_at > clock
                 PROVE  /\ IsHeldBy(authority'.leases[r.session], r.node,
                                    r.result.epoch)
                        /\ authority'.leases[r.session].expires_at
                             >= r.result.expires_at
      BY <1>2 DEF Backed
    <3>1. CASE r \in replies
      BY <1>10, <2>1, <3>1
    <3>2. CASE r = r0
      BY <2>2, <3>2 DEF Telling
    <3>3. QED
      BY <1>1, <3>1, <3>2
  <2>4. QED
    BY <2>3 DEF ToldIsBacked
<1>12. EntryEndsWithinTTL'
  <2> SUFFICES ASSUME NEW x \in Session, NEW t \in TTL,
                      authority'.leases[x] # NoLease
               PROVE  authority'.leases[x].expires_at <= clock + t
    BY <1>2 DEF EntryEndsWithinTTL
  <2>1. CASE authority'.leases[x] = a.leases[x]
    BY <2>1 DEF HoldInv, EntryEndsWithinTTL
  <2>2. CASE x = s /\ (Grants(c, res) \/ Extends(c, res))
    <3>1. c.op.ttl \in TTL
      BY <2>2 DEF HoldInv, MessagesSane, Grants, Extends
    <3>2. c.op.ttl = t
      BY <3>1 DEF SingleTTL
    <3>3. authority'.leases[x].expires_at = clock + c.op.ttl
      BY <2>2 DEF Grants, Extends
    <3>4. QED
      BY <1>3, <3>2, <3>3
  <2>3. CASE x = s /\ Removes(c, res)
    BY <2>3 DEF Removes
  <2>4. QED
    BY <1>1, <2>1, <2>2, <2>3 DEF Refuses
<1>13. ReleasedIsGone'
  <2> SUFFICES ASSUME NEW d \in requests, d # c, d.op.op = "Release"
               PROVE  /\ held[d.node][d.session] # NoLease =>
                           held[d.node][d.session].epoch # d.op.epoch
                      /\ \A r \in replies' :
                           Telling(r)' /\ r.node = d.node
                           /\ r.session = d.session =>
                             r.result.epoch # d.op.epoch
                      /\ \A q \in requests :
                           Awaited(q)' /\ q.op.op = "Renew" /\ q.node = d.node
                           /\ q.session = d.session
                           => q.op.epoch # d.op.epoch
    BY <1>2 DEF ReleasedIsGone
  <2>1. held[d.node][d.session] # NoLease =>
          held[d.node][d.session].epoch # d.op.epoch
    BY DEF HoldInv, ReleasedIsGone
  <2>2. \A q \in requests :
          Awaited(q)' /\ q.op.op = "Renew" /\ q.node = d.node
          /\ q.session = d.session => q.op.epoch # d.op.epoch
    BY <1>2 DEF HoldInv, ReleasedIsGone, Awaited
  <2>3. ASSUME NEW r \in replies', Telling(r)', r.node = d.node,
               r.session = d.session
        PROVE  r.result.epoch # d.op.epoch
    <3>1. CASE r \in replies
      BY <1>10, <2>3, <3>1 DEF HoldInv, ReleasedIsGone
    <3>2. CASE r = r0
      <4>1. /\ c.op.op # "Release" /\ res.kind \in {"Granted", "Renewed"}
            /\ Awaited(c) /\ d.node = c.node /\ d.session = s
        BY <1>2, <2>3, <3>2 DEF Telling, Awaited
      <4>2. d.op \in LeaseOp
        BY DEF HoldInv, EpochInv, TypeOK, Call
      <4>3. d.op.epoch \in Nat /\ d.op.epoch <= a.epochs[s]
        BY <4>1, <4>2, OpFields DEF HoldInv, MessagesSane
      <4>4. CASE Grants(c, res)
        BY <1>3, <1>4, <3>2, <4>3, <4>4 DEF Grants
      <4>5. CASE Extends(c, res)
        BY <3>2, <4>1, <4>5 DEF Extends, HoldInv, ReleasedIsGone
      <4>6. QED
        BY <1>1, <4>1, <4>4, <4>5 DEF Removes, Refuses
    <3>3. QED
      BY <1>1, <3>1, <3>2
  <2>4. QED
    BY <2>1, <2>2, <2>3
<1>14. QED
  BY <1>8, <1>9, <1>11, <1>12, <1>13 DEF HoldInv

(* The facts about a submitted request that HoldInv needs. *)
LEMMA HoldSubmit ==
  ASSUME HoldInv, EpochInv', NEW n \in Node, NEW s \in Session,
         NEW o \in LeaseOp, submit(n, s, o),
         o.holder = n, o.epoch <= authority.epochs[s],
         o.op # "Release" => o.ttl \in TTL,
         o.op = "Renew" => held[n][s] # NoLease /\ held[n][s].epoch = o.epoch,
         o.op = "Release" => held' = [held EXCEPT ![n][s] = NoLease],
         o.op # "Release" => held' = held
  PROVE  HoldInv'
<1> DEFINE c0 == [id |-> lastId + 1, node |-> n, session |-> s, op |-> o]
<1>1. /\ pending[n] = 0 /\ lastId' = lastId + 1
      /\ requests' = requests \cup {c0}
      /\ pending' = [pending EXCEPT ![n] = lastId + 1]
      /\ authority' = authority /\ clock' = clock /\ replies' = replies
  BY DEF submit
<1>2. /\ lastId \in Nat /\ pending \in [Node -> Nat]
      /\ held \in [Node -> [Session -> LeaseEntry \cup {NoLease}]]
      /\ clock \in Nat
  BY BoundsAssumption DEF HoldInv, EpochInv, TypeOK, Id
<1>3. /\ \A c \in requests : c.id \in Nat /\ c.id # 0 /\ c.node \in Node
                             /\ c.session \in Session
      /\ \A r \in replies : r.id \in Nat /\ r.id # 0 /\ r.node \in Node
                            /\ r.session \in Session
  BY BoundsAssumption DEF HoldInv, EpochInv, TypeOK, Call, Reply, Id
<1>4. /\ \A c \in requests : Awaited(c)' <=> Awaited(c) /\ c.node # n
      /\ \A r \in replies : Awaited(r)' <=> Awaited(r) /\ r.node # n
  <2>1. /\ \A c \in requests : c.id <= lastId
        /\ \A r \in replies : r.id <= lastId
    BY DEF HoldInv, MessagesSane
  <2>2. QED
    BY <1>1, <1>2, <1>3, <2>1 DEF Awaited
<1>5. \A m \in Node, x \in Session :
        held'[m][x] = held[m][x] \/ held'[m][x] = NoLease
  <2>1. CASE o.op = "Release"
    BY <1>2, <2>1
  <2>2. CASE o.op # "Release"
    BY <2>2
  <2>3. QED
    BY <2>1, <2>2
<1>6. HeldIsBacked'
  <2> SUFFICES ASSUME NEW m \in Node, NEW x \in Session, CountsOn(m, x)'
               PROVE  Backed(m, x, held[m][x].epoch, held[m][x].expires_at)'
    BY DEF HeldIsBacked
  <2>1. held'[m][x] = held[m][x] /\ CountsOn(m, x)
    BY <1>1, <1>5 DEF CountsOn
  <2>2. Backed(m, x, held[m][x].epoch, held[m][x].expires_at)
    BY <2>1 DEF HoldInv, HeldIsBacked
  <2>3. QED
    BY <1>1, <2>1, <2>2 DEF Backed
<1>7. ToldIsBacked'
  BY <1>1, <1>4 DEF HoldInv, ToldIsBacked, Telling, Backed
<1>8. EntryEndsWithinTTL'
  BY <1>1 DEF HoldInv, EntryEndsWithinTTL
<1>9. MessagesSane'
  <2>1. /\ c0.id <= lastId' /\ c0.op.holder = c0.node
        /\ c0.op.epoch <= authority.epochs[c0.session]
        /\ c0.op.op # "Release" => c0.op.ttl \in TTL
    BY <1>1, <1>2
  <2> HIDE DEF c0
  <2>2. \A c \in requests : c.id <= lastId'
    BY <1>1, <1>2, <1>3 DEF HoldInv, MessagesSane
  <2>3. \A r \in replies : r.id <= lastId'
    BY <1>1, <1>2, <1>3 DEF HoldInv, MessagesSane
  <2>4. \A m \in Node, x \in Session : held'[m][x] # NoLease =>
          held'[m][x].epoch <= authority.epochs[x]
    BY <1>5 DEF HoldInv, MessagesSane
  <2>5. QED
    BY <1>1, <2>1, <2>2, <2>3, <2>4 DEF HoldInv, MessagesSane
<1>10. ReleasedIsGone'
  <2> SUFFICES ASSUME NEW c \in requests', c.op.op = "Release"
               PROVE  /\ held'[c.node][c.session] # NoLease =>
                           held'[c.node][c.session].epoch # c.op.epoch
                      /\ \A r \in replies :
                           Telling(r)' /\ r.node = c.node
                           /\ r.session = c.session =>
                             r.result.epoch # c.op.epoch
                      /\ \A d \in requests' :
                           Awaited(d)' /\ d.op.op = "Renew" /\ d.node = c.node
                           /\ d.session = c.session
                           => d.op.epoch # c.op.epoch
    BY <1>1 DEF ReleasedIsGone
  <2>1. CASE c \in requests
    <3>1. /\ held[c.node][c.session] # NoLease =>
               held[c.node][c.session].epoch # c.op.epoch
          /\ \A r \in replies :
               Telling(r) /\ r.node = c.node /\ r.session = c.session =>
                 r.result.epoch # c.op.epoch
          /\ \A d \in requests :
               Awaited(d) /\ d.op.op = "Renew" /\ d.node = c.node
               /\ d.session = c.session => d.op.epoch # c.op.epoch
      BY <2>1 DEF HoldInv, ReleasedIsGone
    <3>2. held'[c.node][c.session] # NoLease =>
            held'[c.node][c.session].epoch # c.op.epoch
      BY <1>3, <1>5, <2>1, <3>1
    <3>3. \A r \in replies :
            Telling(r)' /\ r.node = c.node /\ r.session = c.session =>
              r.result.epoch # c.op.epoch
      BY <1>4, <3>1 DEF Telling
    <3>4. ASSUME NEW d \in requests', Awaited(d)', d.op.op = "Renew",
                 d.node = c.node, d.session = c.session
          PROVE  d.op.epoch # c.op.epoch
      <4>1. CASE d \in requests
        BY <1>4, <3>1, <3>4, <4>1
      <4>2. CASE d = c0
        BY <3>1, <3>4, <4>2
      <4>3. QED
        BY <1>1, <4>1, <4>2
    <3>5. QED
      BY <3>2, <3>3, <3>4
  <2>2. CASE c = c0
    <3>1. o.op = "Release" /\ c.node = n /\ c.session = s
      BY <2>2
    <3>2. held'[n][s] = NoLease
      BY <1>2, <3>1
    <3>3. \A r \in replies : Telling(r)' => r.node # n
      BY <1>4 DEF Telling
    <3>4. \A d \in requests' : Awaited(d)' /\ d.node = n => d = c0
      BY <1>1, <1>4
    <3>5. QED
      BY <3>1, <3>2, <3>3, <3>4
  <2>3. QED
    BY <1>1, <2>1, <2>2
<1>11. QED
  BY <1>6, <1>7, <1>8, <1>9, <1>10 DEF HoldInv

(* A node learns an answer: HoldInv is preserved. *)
LEMMA HoldReceive ==
  ASSUME HoldInv, EpochInv', NEW r \in replies, receive(r)
  PROVE  HoldInv'
<1> DEFINE n == r.node
           s == r.session
<1>1. /\ pending[n] = r.id /\ replies' = replies \ {r}
      /\ pending' = [pending EXCEPT ![n] = 0]
      /\ held' = [held EXCEPT ![n][s] = Learn(r)]
      /\ authority' = authority /\ clock' = clock /\ requests' = requests
      /\ lastId' = lastId
  BY DEF receive
<1>2. /\ n \in Node /\ s \in Session /\ r.result \in LeaseResult
      /\ pending \in [Node -> Nat]
      /\ held \in [Node -> [Session -> LeaseEntry \cup {NoLease}]]
  BY BoundsAssumption DEF HoldInv, EpochInv, TypeOK, Reply, Id
<1>3. /\ \A c \in requests : c.id # 0 /\ c.node \in Node /\ c.session \in Session
      /\ \A q \in replies : q.id # 0 /\ q.node \in Node
  BY BoundsAssumption DEF HoldInv, EpochInv, TypeOK, Call, Reply, Id
<1>4. /\ \A c \in requests : Awaited(c)' => Awaited(c) /\ c.node # n
      /\ \A q \in replies : Awaited(q)' => Awaited(q) /\ q.node # n
  BY <1>1, <1>2, <1>3 DEF Awaited
<1>5. /\ held'[n][s] = Learn(r)
      /\ \A m \in Node, x \in Session :
           <<m, x>> # <<n, s>> => held'[m][x] = held[m][x]
  BY <1>1, <1>2
<1>6. \/ /\ Telling(r)
         /\ Learn(r) = [holder |-> n, epoch |-> r.result.epoch,
                        expires_at |-> r.result.expires_at]
      \/ Learn(r) = NoLease
      \/ Learn(r) = held[n][s]
  BY <1>1 DEF Learn, Telling, Awaited
<1>7. HeldIsBacked'
  <2> SUFFICES ASSUME NEW m \in Node, NEW x \in Session, CountsOn(m, x)'
               PROVE  Backed(m, x, held[m][x].epoch, held[m][x].expires_at)'
    BY DEF HeldIsBacked
  <2>1. CASE held'[m][x] = held[m][x]
    <3>1. Backed(m, x, held[m][x].epoch, held[m][x].expires_at)
      BY <1>1, <2>1 DEF HoldInv, HeldIsBacked, CountsOn
    <3>2. QED
      BY <1>1, <2>1, <3>1 DEF Backed
  <2>2. CASE /\ m = n /\ x = s /\ Telling(r)
             /\ held'[m][x] = [holder |-> n, epoch |-> r.result.epoch,
                               expires_at |-> r.result.expires_at]
    <3>1. r.result.expires_at > clock
      BY <1>1, <2>2 DEF CountsOn
    <3>2. Backed(n, s, r.result.epoch, r.result.expires_at)
      BY <2>2, <3>1 DEF HoldInv, ToldIsBacked
    <3>3. QED
      BY <1>1, <2>2, <3>2 DEF Backed
  <2>3. held'[m][x] # NoLease
    BY DEF CountsOn
  <2>4. QED
    BY <1>5, <1>6, <2>1, <2>2, <2>3
<1>8. ToldIsBacked'
  BY <1>1, <1>4 DEF HoldInv, ToldIsBacked, Telling, Backed
<1>9. EntryEndsWithinTTL'
  BY <1>1 DEF HoldInv, EntryEndsWithinTTL
<1>10. MessagesSane'
  <2>1. \A m \in Node, x \in Session : held'[m][x] # NoLease =>
          held'[m][x].epoch <= authority.epochs[x]
    BY <1>2, <1>5, <1>6 DEF HoldInv, MessagesSane
  <2>2. QED
    BY <1>1, <2>1 DEF HoldInv, MessagesSane
<1>11. ReleasedIsGone'
  <2> SUFFICES ASSUME NEW c \in requests, c.op.op = "Release"
               PROVE  /\ held'[c.node][c.session] # NoLease =>
                           held'[c.node][c.session].epoch # c.op.epoch
                      /\ \A q \in replies' :
                           Telling(q)' /\ q.node = c.node
                           /\ q.session = c.session =>
                             q.result.epoch # c.op.epoch
                      /\ \A d \in requests :
                           Awaited(d)' /\ d.op.op = "Renew" /\ d.node = c.node
                           /\ d.session = c.session
                           => d.op.epoch # c.op.epoch
    BY <1>1 DEF ReleasedIsGone
  <2>1. /\ held[c.node][c.session] # NoLease =>
             held[c.node][c.session].epoch # c.op.epoch
        /\ \A q \in replies :
             Telling(q) /\ q.node = c.node /\ q.session = c.session =>
               q.result.epoch # c.op.epoch
        /\ \A d \in requests :
             Awaited(d) /\ d.op.op = "Renew" /\ d.node = c.node
             /\ d.session = c.session => d.op.epoch # c.op.epoch
    BY DEF HoldInv, ReleasedIsGone
  <2>2. held'[c.node][c.session] # NoLease =>
          held'[c.node][c.session].epoch # c.op.epoch
    <3>1. CASE c.node = n /\ c.session = s
      BY <1>5, <1>6, <2>1, <3>1
    <3>2. CASE ~(c.node = n /\ c.session = s)
      BY <1>3, <1>5, <2>1, <3>2
    <3>3. QED
      BY <3>1, <3>2
  <2>3. QED
    BY <1>1, <1>4, <2>1, <2>2 DEF Telling
<1>12. QED
  BY <1>7, <1>8, <1>9, <1>10, <1>11 DEF HoldInv

(* A node abandons its call: HoldInv is preserved. *)
LEMMA HoldGiveUp ==
  ASSUME HoldInv, EpochInv', NEW n \in Node, GiveUp(n)
  PROVE  HoldInv'
<1>1. /\ pending' = [pending EXCEPT ![n] = 0]
      /\ UNCHANGED <<authority, clock, requests, replies, held, lastId>>
  BY DEF GiveUp
<1>2. pending \in [Node -> Nat]
  BY BoundsAssumption DEF HoldInv, EpochInv, TypeOK, Id
<1>3. /\ \A c \in requests : c.id # 0 /\ c.node \in Node
      /\ \A q \in replies : q.id # 0 /\ q.node \in Node
  BY BoundsAssumption DEF HoldInv, EpochInv, TypeOK, Call, Reply, Id
<1>4. /\ \A c \in requests : Awaited(c)' => Awaited(c)
      /\ \A q \in replies : Awaited(q)' => Awaited(q)
  BY <1>1, <1>2, <1>3 DEF Awaited
<1>5. HeldIsBacked' /\ EntryEndsWithinTTL' /\ MessagesSane'
  BY <1>1 DEF HoldInv, HeldIsBacked, CountsOn, Backed, EntryEndsWithinTTL,
              MessagesSane
<1>6. ToldIsBacked'
  BY <1>1, <1>4 DEF HoldInv, ToldIsBacked, Telling, Backed
<1>7. ReleasedIsGone'
  BY <1>1, <1>4 DEF HoldInv, ReleasedIsGone, Telling
<1>8. QED
  BY <1>5, <1>6, <1>7 DEF HoldInv

(* Time passes: HoldInv is preserved. *)
LEMMA HoldTick ==
  ASSUME HoldInv, EpochInv', Tick
  PROVE  HoldInv'
<1>1. /\ clock' = clock + 1 /\ clock \in Nat
      /\ UNCHANGED <<authority, requests, replies, pending, held, lastId>>
  BY BoundsAssumption DEF Tick, HoldInv, EpochInv, TypeOK
<1>2. \A r \in replies : (Telling(r)' <=> Telling(r)) /\ r.result.expires_at \in Int
  BY <1>1 DEF Telling, Awaited, HoldInv, EpochInv, TypeOK, Reply, LeaseResult
<1>3. HeldIsBacked'
  <2>1. \A n \in Node, s \in Session :
          held[n][s] # NoLease => held[n][s].expires_at \in Int
    BY DEF HoldInv, EpochInv, TypeOK, LeaseEntry
  <2>2. \A n \in Node, s \in Session : CountsOn(n, s)' => CountsOn(n, s)
    BY <1>1, <2>1 DEF CountsOn
  <2>3. QED
    BY <1>1, <2>2 DEF HoldInv, HeldIsBacked, Backed
<1>4. ToldIsBacked'
  BY <1>1, <1>2 DEF HoldInv, ToldIsBacked, Backed
<1>5. EntryEndsWithinTTL'
  <2> SUFFICES ASSUME NEW s \in Session, NEW t \in TTL,
                      authority.leases[s] # NoLease
               PROVE  authority.leases[s].expires_at <= clock + 1 + t
    BY <1>1 DEF EntryEndsWithinTTL
  <2>1. authority.leases[s].expires_at \in Int /\ t \in Nat
    BY TTLAssumption DEF HoldInv, EpochInv, TypeOK, Authority, LeaseEntry
  <2>2. authority.leases[s].expires_at <= clock + t
    BY DEF HoldInv, EntryEndsWithinTTL
  <2>3. QED
    BY <1>1, <2>1, <2>2
<1>6. MessagesSane'
  BY <1>1 DEF HoldInv, MessagesSane
<1>7. ReleasedIsGone'
  BY <1>1, <1>2 DEF HoldInv, ReleasedIsGone, Awaited
<1>8. QED
  BY <1>3, <1>4, <1>5, <1>6, <1>7 DEF HoldInv

(* HoldInv is inductive, one case per action. *)
LEMMA HoldStep ==
  ASSUME HoldInv, EpochInv', SingleTTL, [Next]_vars
  PROVE  HoldInv'
<1>1. ASSUME NEW n \in Node, NEW s \in Session, client_acquire(n, s)
      PROVE  HoldInv'
  <2>1. PICK ttl \in TTL :
          submit(n, s, [op |-> "Acquire", holder |-> n, epoch |-> 0,
                        ttl |-> ttl]) /\ UNCHANGED held
    BY <1>1 DEF client_acquire
  <2> DEFINE o == [op |-> "Acquire", holder |-> n, epoch |-> 0, ttl |-> ttl]
  <2>2. /\ o \in LeaseOp /\ o.holder = n /\ o.epoch = 0 /\ o.ttl \in TTL
        /\ o.op = "Acquire" /\ submit(n, s, o)
    BY <2>1 DEF LeaseOp, Epoch
  <2>3. 0 <= authority.epochs[s]
    BY DEF HoldInv, EpochInv, TypeOK, Authority, Epoch
  <2> HIDE DEF o
  <2>4. QED
    BY <2>1, <2>2, <2>3, HoldSubmit
<1>2. ASSUME NEW n \in Node, NEW s \in Session, client_renew(n, s)
      PROVE  HoldInv'
  <2>1. PICK ttl \in TTL :
          /\ held[n][s] # NoLease
          /\ submit(n, s, [op |-> "Renew", holder |-> n,
                            epoch |-> held[n][s].epoch, ttl |-> ttl])
          /\ UNCHANGED held
    BY <1>2 DEF client_renew
  <2> DEFINE o == [op |-> "Renew", holder |-> n,
                   epoch |-> held[n][s].epoch, ttl |-> ttl]
  <2>2. held[n][s] \in LeaseEntry
    BY <2>1 DEF HoldInv, EpochInv, TypeOK
  <2>3. /\ o \in LeaseOp /\ o.holder = n /\ o.epoch = held[n][s].epoch
        /\ o.ttl \in TTL /\ o.op = "Renew" /\ submit(n, s, o)
    BY <2>1, <2>2 DEF LeaseOp, LeaseEntry
  <2>4. held[n][s].epoch <= authority.epochs[s]
    BY <2>1 DEF HoldInv, MessagesSane
  <2> HIDE DEF o
  <2>5. QED
    BY <2>1, <2>3, <2>4, HoldSubmit
<1>3. ASSUME NEW n \in Node, NEW s \in Session, client_release(n, s)
      PROVE  HoldInv'
  <2> DEFINE o == [op |-> "Release", holder |-> n,
                   epoch |-> held[n][s].epoch, ttl |-> 0]
  <2>1. held[n][s] # NoLease /\ submit(n, s, o)
        /\ held' = [held EXCEPT ![n][s] = NoLease]
    BY <1>3 DEF client_release
  <2>2. held[n][s] \in LeaseEntry
    BY <2>1 DEF HoldInv, EpochInv, TypeOK
  <2>3. /\ o \in LeaseOp /\ o.holder = n /\ o.epoch = held[n][s].epoch
        /\ o.op = "Release"
    BY <2>2 DEF LeaseOp, LeaseEntry
  <2>4. held[n][s].epoch <= authority.epochs[s]
    BY <2>1 DEF HoldInv, MessagesSane
  <2> HIDE DEF o
  <2>5. QED
    BY <2>1, <2>3, <2>4, HoldSubmit
<1>4. ASSUME UNCHANGED vars
      PROVE  HoldInv'
  BY <1>4 DEF vars, HoldInv, HeldIsBacked, CountsOn, Backed, ToldIsBacked,
              Telling, Awaited, EntryEndsWithinTTL, MessagesSane, ReleasedIsGone
<1>5. QED
  BY <1>1, <1>2, <1>3, <1>4, HoldExecute, HoldReceive, HoldGiveUp, HoldTick
     DEF Next

(* HoldInv holds of every reachable state when all callers ask for the     *)
(* same duration.                                                          *)
LEMMA HoldInvariant ==
  ASSUME SingleTTL
  PROVE  Spec => []HoldInv
<1>1. Init => HoldInv
  <2> SUFFICES ASSUME Init PROVE HoldInv
    OBVIOUS
  <2>1. TypeOK
    BY BoundsAssumption DEF Init, TypeOK, EmptyAuthority, Authority, Epoch
  <2>2. EpochInv
    BY <2>1 DEF Init, EmptyAuthority, EpochInv, EpochOfEntryIsLast,
                EpochGrantedOnce, GrantsUpToLast, EntryWasGranted
  <2>3. QED
    BY <2>2 DEF Init, EmptyAuthority, HoldInv, HeldIsBacked, CountsOn,
                ToldIsBacked, EntryEndsWithinTTL, MessagesSane, ReleasedIsGone
<1>2. HoldInv /\ EpochInv' /\ [Next]_vars => HoldInv'
  BY HoldStep
<1>3. QED
  BY <1>1, <1>2, EpochInvariant, PTL DEF Spec

(* When all callers ask for the same duration, two nodes never count on a  *)
(* session at once, whatever is late, lost or abandoned.                   *)
THEOREM LeaseMutualExclusion ==
  ASSUME SingleTTL
  PROVE  Spec => []MutualExclusion
<1>1. HoldInv => MutualExclusion
  BY DEF HoldInv, HeldIsBacked, Backed, IsHeldBy, MutualExclusion
<1>2. QED
  BY <1>1, HoldInvariant, PTL

(* Under the same condition, a node that counts on a session is the one    *)
(* the authority names, with the highest epoch ever issued.                *)
THEOREM HolderHasHighestToken ==
  ASSUME SingleTTL
  PROVE  Spec => []HolderIsProtected
<1>1. HoldInv => HolderIsProtected
  BY DEF HoldInv, EpochInv, EpochOfEntryIsLast, HeldIsBacked, Backed,
         IsHeldBy, HolderIsProtected
<1>2. QED
  BY <1>1, HoldInvariant, PTL
=============================================================================
