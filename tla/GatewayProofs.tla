---------------------------- MODULE GatewayProofs ----------------------------
(***************************************************************************)
(* What is proved about the gateway, for any number of connections,        *)
(* sessions, workspaces and commands.                                      *)
(*                                                                         *)
(* Every step moves each actor in one of six ways (Moves); what an actor   *)
(* sends, and to whom it gave access, follows from these moves alone.  The *)
(* creation of a session also needs the cluster: what another actor may    *)
(* have done to it between two awaits of handle_create_session.            *)
(***************************************************************************)
EXTENDS Gateway, TLAPS, FiniteSetTheorems

(* The command under way: only handle_create_session has steps of its own. *)
BusyIs(a) ==
  a.busy # None =>
    \/ a.busy.at = "call" /\ a.busy.new = None
    \/ /\ a.busy.at \in {"insert", "detach"}
       /\ a.busy.cmd.op = "CreateSession" /\ a.busy.new \in Sessions

BusyOK == \A c \in Conns : BusyIs(conn[c])

Typed == TypeOK /\ BusyOK

(* What a step may do to the actor a, which is b afterwards. *)
SameAccess(a, b) == b.sessions = a.sessions /\ b.workspaces = a.workspaces

Kept(a, b) ==
  b.outbox = a.outbox /\ b.taken = a.taken /\ b.busy = a.busy /\ SameAccess(a, b)

Accepted(a, b, cmd) ==
  /\ a.busy = None /\ b.busy # None /\ b.busy.cmd = cmd
  /\ b.taken = Append(a.taken, cmd) /\ b.outbox = a.outbox /\ SameAccess(a, b)

Rejected(a, b, cmd, r) ==
  /\ a.busy = None /\ b.busy = None /\ r \in Replies /\ r.op = cmd.op
  /\ b.taken = Append(a.taken, cmd) /\ b.outbox = Append(a.outbox, r) /\ SameAccess(a, b)

Replied(a, b, r) ==
  /\ a.busy # None /\ b.busy = None /\ r \in Replies /\ r.op = a.busy.cmd.op
  /\ b.taken = a.taken /\ b.outbox = Append(a.outbox, r)
  /\ \A s \in b.sessions \ a.sessions : Gives(r, SessionEvent(s))
  /\ \A w \in b.workspaces \ a.workspaces : Gives(r, WorkspaceEvent(w))

Advanced(a, b) ==
  /\ a.busy # None /\ b.busy # None /\ b.busy.cmd = a.busy.cmd
  /\ b.outbox = a.outbox /\ b.taken = a.taken /\ SameAccess(a, b)

Relays(a, b, e) ==
  /\ e \in Relayed /\ e.id \in (IF e.kind = "session" THEN a.sessions ELSE a.workspaces)
  /\ b.busy = a.busy /\ b.taken = a.taken /\ b.outbox = Append(a.outbox, e)
  /\ SameAccess(a, b)

Moves(a, b) ==
  \/ Kept(a, b) \/ Advanced(a, b)
  \/ \E cmd \in Commands(Ops) : Accepted(a, b, cmd) \/ \E r : Rejected(a, b, cmd, r)
  \/ \E r : Replied(a, b, r)
  \/ \E e : Relays(a, b, e)

-----------------------------------------------------------------------------
(* Replies: those sent and the command under way are the commands taken. *)
Places(out) == {i \in DOMAIN out : out[i].kind = "reply"}

InOrder(out, taken) ==
  \A i \in Places(out) :
    out[i].op = taken[Cardinality({j \in Places(out) : j <= i})].op

Ordered(a) ==
  /\ Len(a.taken) = Cardinality(Places(a.outbox)) + IF a.busy = None THEN 0 ELSE 1
  /\ InOrder(a.outbox, a.taken)
  /\ a.busy # None => a.busy.cmd = a.taken[Len(a.taken)]

(* Access: what an actor lets through, it has given access to before. *)
Earned(a) ==
  /\ \A s \in a.sessions : \E j \in DOMAIN a.outbox : Gives(a.outbox[j], SessionEvent(s))
  /\ \A w \in a.workspaces : \E j \in DOMAIN a.outbox : Gives(a.outbox[j], WorkspaceEvent(w))
  /\ \A i \in DOMAIN a.outbox : a.outbox[i].kind # "reply" =>
       \E j \in 1 .. i - 1 : Gives(a.outbox[j], a.outbox[i])

(* Sessions: one that is being created is in no other workspace, unless    *)
(* somebody added it by its name.                                          *)
Referenced ==
  /\ \A w \in Workspaces : cluster.members[w] \subseteq cluster.issued \cup cluster.loose
  /\ \A c \in Conns : conn[c].busy # None /\ conn[c].busy.new # None =>
       /\ conn[c].busy.new \in cluster.issued
       /\ \A w \in Workspaces : /\ w # conn[c].busy.cmd.workspace
                                /\ conn[c].busy.new \in cluster.members[w]
                                => conn[c].busy.new \in cluster.loose
  /\ ReferenceHasRecord

GatewayInv ==
  /\ Typed /\ Referenced
  /\ \A c \in Conns : Ordered(conn[c]) /\ Earned(conn[c])

-----------------------------------------------------------------------------
(* What follows from the moves *)

LEMMA AppendIs ==
  ASSUME NEW S, NEW s \in Seq(S), NEW x \in S
  PROVE  /\ Append(s, x) \in Seq(S) /\ Len(s) \in Nat /\ DOMAIN s = 1..Len(s)
         /\ Len(Append(s, x)) = Len(s) + 1 /\ Append(s, x)[Len(s) + 1] = x
         /\ DOMAIN Append(s, x) = 1..Len(s) + 1
         /\ \A i \in 1..Len(s) : i \in 1..Len(s) + 1 /\ Append(s, x)[i] = s[i]
  OBVIOUS

LEMMA ActorFields ==
  ASSUME NEW a \in Actor
  PROVE  /\ a.outbox \in Seq(Relayed \cup Replies) /\ a.taken \in Seq(Commands(Ops))
         /\ a.sessions \subseteq Sessions /\ a.workspaces \subseteq Workspaces
         /\ a.busy # None => a.busy \in Busy
         /\ a.inbox \in Seq(Commands(Ops)) /\ a.events \in Seq(Relayed)
  BY DEF Actor

LEMMA Kinds ==
  /\ \A r \in Replies : r.kind = "reply"
  /\ \A e \in Relayed : e.kind # "reply"
  BY DEF Replies, Relayed

(* The places of the replies are a finite set, and so are those up to i. *)
LEMMA PlacesFinite ==
  ASSUME NEW n \in Nat, NEW P, P \subseteq 1..n
  PROVE  /\ IsFiniteSet(P) /\ Cardinality(P) \in Nat
         /\ \A i \in P : /\ IsFiniteSet({j \in P : j <= i})
                         /\ Cardinality({j \in P : j <= i}) \in 1..Cardinality(P)
<1>1. IsFiniteSet(1..n)
  BY FS_Interval
<1>2. IsFiniteSet(P) /\ Cardinality(P) \in Nat
  BY <1>1, FS_Subset, FS_CardinalityType
<1>3. ASSUME NEW i \in P
      PROVE  /\ IsFiniteSet({j \in P : j <= i})
             /\ Cardinality({j \in P : j <= i}) \in 1..Cardinality(P)
  <2>1. PICK Q : Q = {j \in P : j <= i}
    OBVIOUS
  <2>2. Q \subseteq P /\ i \in Q
    BY <2>1
  <2>3. IsFiniteSet(Q) /\ Cardinality(Q) <= Cardinality(P) /\ Cardinality(Q) \in Nat
    BY <1>2, <2>2, FS_Subset, FS_CardinalityType
  <2>4. Cardinality(Q) # 0
    BY <2>2, <2>3, FS_EmptySet
  <2>5. Cardinality(Q) \in 1..Cardinality(P)
    BY <1>2, <2>3, <2>4
  <2> QED BY <2>1, <2>3, <2>5
<1> QED BY <1>2, <1>3

(* One more reply, to the last of the commands taken. *)
LEMMA ReplyKeepsOrder ==
  ASSUME NEW out \in Seq(Relayed \cup Replies), NEW r \in Replies,
         NEW taken \in Seq(Commands(Ops)), InOrder(out, taken),
         Len(taken) = Cardinality(Places(out)) + 1, r.op = taken[Len(taken)].op,
         NEW new, new = Append(out, r)
  PROVE  Len(taken) = Cardinality(Places(new)) /\ InOrder(new, taken)
<1> DEFINE P == Places(out)
           Q == Places(new)
<1>0. /\ P = {i \in DOMAIN out : out[i].kind = "reply"}
      /\ Q = {i \in DOMAIN new : new[i].kind = "reply"}
      /\ \A i \in P : out[i].op = taken[Cardinality({j \in P : j <= i})].op
      /\ Len(taken) = Cardinality(P) + 1
  BY DEF Places, InOrder
<1> HIDE DEF P, Q
<1>1. /\ Len(out) \in Nat /\ DOMAIN out = 1..Len(out) /\ DOMAIN new = 1..Len(out) + 1
      /\ new[Len(out) + 1] = r /\ \A i \in 1..Len(out) : new[i] = out[i]
  BY AppendIs
<1>2. PICK n : n = Len(out)
  OBVIOUS
<1>3. n \in Nat /\ P \subseteq 1..n /\ n + 1 \notin P
  BY <1>0, <1>1, <1>2
<1>4. Q = P \cup {n + 1}
  <2>1. r.kind = "reply"
    BY Kinds
  <2>2. \A i \in 1..n : i \in Q <=> i \in P
    BY <1>0, <1>1, <1>2
  <2>3. n + 1 \in Q
    BY <1>0, <1>1, <1>2, <2>1
  <2>4. Q \subseteq 1..n + 1
    BY <1>0, <1>1, <1>2
  <2>5. \A i \in 1..n + 1 : i = n + 1 \/ i \in 1..n
    BY <1>3
  <2> QED BY ONLY <1>3, <2>2, <2>3, <2>4, <2>5
<1>5. IsFiniteSet(P) /\ Cardinality(P) \in Nat
  BY <1>3, PlacesFinite
<1>6. Cardinality(Q) = Cardinality(P) + 1
  <2>1. Cardinality(P \cup {n + 1}) = Cardinality(P) + 1
    BY ONLY <1>3, <1>5, FS_AddElement
  <2> QED BY <1>4, <2>1
<1>7. ASSUME NEW i \in Q PROVE new[i].op = taken[Cardinality({j \in Q : j <= i})].op
  <2>1. CASE i = n + 1
    <3>1. {j \in Q : j <= i} = Q
      <4>1. \A j \in 1..n : j <= n + 1
        BY <1>3
      <4>2. n + 1 <= n + 1
        BY <1>3
      <4> QED BY ONLY <1>3, <1>4, <2>1, <4>1, <4>2
    <3> QED BY <1>0, <1>1, <1>2, <1>6, <2>1, <3>1
  <2>2. CASE i # n + 1
    <3>1. i \in P /\ i \in 1..n
      BY <1>3, <1>4, <2>2
    <3>2. {j \in Q : j <= i} = {j \in P : j <= i}
      BY <1>3, <1>4, <3>1
    <3>3. new[i] = out[i]
      BY <1>1, <1>2, <3>1
    <3> QED BY <1>0, <3>1, <3>2, <3>3
  <2> QED BY <2>1, <2>2
<1>8. Len(taken) = Cardinality(Q)
  BY <1>0, <1>6
<1> QED BY <1>7, <1>8 DEF InOrder, Q

(* What else is sent is not a reply and has no command of its own. *)
LEMMA RelayKeepsPlaces ==
  ASSUME NEW out \in Seq(Relayed \cup Replies), NEW e \in Relayed
  PROVE  /\ Places(Append(out, e)) = Places(out)
         /\ \A i \in DOMAIN out : Append(out, e)[i] = out[i]
<1>1. PICK new : new = Append(out, e)
  OBVIOUS
<1>2. /\ Len(out) \in Nat /\ DOMAIN out = 1..Len(out) /\ DOMAIN new = 1..Len(out) + 1
      /\ new[Len(out) + 1] = e /\ \A i \in 1..Len(out) : new[i] = out[i]
  BY <1>1, AppendIs
<1>3. e.kind # "reply"
  BY Kinds
<1>4. {i \in DOMAIN new : new[i].kind = "reply"} = {i \in DOMAIN out : out[i].kind = "reply"}
  <2>1. ASSUME NEW i \in DOMAIN new, new[i].kind = "reply"
        PROVE  i \in DOMAIN out /\ out[i].kind = "reply"
    <3>1. i # Len(out) + 1
      BY <1>2, <1>3, <2>1
    <3>2. i \in 1..Len(out)
      BY <1>2, <2>1, <3>1
    <3> QED BY <1>2, <2>1, <3>2
  <2>2. ASSUME NEW i \in DOMAIN out, out[i].kind = "reply"
        PROVE  i \in DOMAIN new /\ new[i].kind = "reply"
    BY <1>2, <2>2
  <2> QED BY <2>1, <2>2
<1> QED BY <1>1, <1>2, <1>4 DEF Places

LEMMA MovesKeepOrder ==
  ASSUME NEW a \in Actor, NEW b \in Actor, Ordered(a), Moves(a, b)
  PROVE  Ordered(b)
<1>1. PICK P : P = Places(a.outbox)
  OBVIOUS
<1>2. /\ Len(a.taken) = Cardinality(P) + IF a.busy = None THEN 0 ELSE 1
      /\ InOrder(a.outbox, a.taken)
      /\ a.busy # None => a.busy.cmd = a.taken[Len(a.taken)]
  BY <1>1 DEF Ordered
<1>3. a.outbox \in Seq(Relayed \cup Replies) /\ a.taken \in Seq(Commands(Ops))
  BY ActorFields
<1>4. /\ Cardinality(P) \in Nat /\ Len(a.taken) \in Nat
      /\ \A i \in P : Cardinality({j \in P : j <= i}) \in 1..Cardinality(P)
  <2>1. Len(a.outbox) \in Nat /\ P \subseteq 1..Len(a.outbox) /\ Len(a.taken) \in Nat
    BY <1>1, <1>3 DEF Places
  <2> QED BY <2>1, PlacesFinite
<1>5. a.busy = None => Len(a.taken) = Cardinality(P)
  BY <1>2, <1>4
<1>6. a.busy # None => Len(a.taken) = Cardinality(P) + 1
  BY <1>2, <1>4
<1>7. CASE Kept(a, b)
  BY <1>7 DEF Kept, Ordered
<1>8. CASE Advanced(a, b)
  BY <1>1, <1>2, <1>8 DEF Advanced, Ordered
<1>9. ASSUME NEW cmd \in Commands(Ops), NEW t, t = Append(a.taken, cmd), a.busy = None
      PROVE  /\ Len(t) = Cardinality(P) + 1 /\ t[Len(t)] = cmd /\ t \in Seq(Commands(Ops))
             /\ InOrder(a.outbox, t)
  <2>1. /\ Len(t) = Len(a.taken) + 1 /\ t[Len(a.taken) + 1] = cmd
        /\ t \in Seq(Commands(Ops)) /\ \A i \in 1..Len(a.taken) : t[i] = a.taken[i]
    BY <1>3, <1>9, AppendIs
  <2>2. Len(a.taken) = Cardinality(P)
    BY <1>5, <1>9
  <2>3. InOrder(a.outbox, t)
    BY <1>1, <1>2, <1>4, <2>1, <2>2 DEF InOrder
  <2> QED BY <2>1, <2>2, <2>3
<1>10. ASSUME NEW cmd \in Commands(Ops), Accepted(a, b, cmd) PROVE Ordered(b)
  <2>1. /\ a.busy = None /\ b.busy # None /\ b.busy.cmd = cmd
        /\ b.taken = Append(a.taken, cmd) /\ b.outbox = a.outbox
    BY <1>10 DEF Accepted
  <2>2. /\ Len(b.taken) = Cardinality(P) + 1 /\ b.taken[Len(b.taken)] = cmd
        /\ InOrder(b.outbox, b.taken)
    BY <1>9, <2>1
  <2> QED BY <1>1, <2>1, <2>2 DEF Ordered
<1>11. ASSUME NEW cmd \in Commands(Ops), NEW r, Rejected(a, b, cmd, r) PROVE Ordered(b)
  <2>1. /\ a.busy = None /\ b.busy = None /\ r \in Replies /\ r.op = cmd.op
        /\ b.taken = Append(a.taken, cmd) /\ b.outbox = Append(a.outbox, r)
    BY <1>11 DEF Rejected
  <2>2. PICK out, t, new : out = a.outbox /\ t = b.taken /\ new = b.outbox
    OBVIOUS
  <2>3. /\ Len(t) = Cardinality(Places(out)) + 1 /\ t[Len(t)] = cmd
        /\ t \in Seq(Commands(Ops)) /\ InOrder(out, t)
    BY <1>1, <1>9, <2>1, <2>2
  <2>4. /\ out \in Seq(Relayed \cup Replies) /\ r \in Replies /\ new = Append(out, r)
        /\ r.op = t[Len(t)].op
    BY <1>3, <2>1, <2>2, <2>3
  <2>5. Len(t) = Cardinality(Places(new)) /\ InOrder(new, t)
    BY ONLY <2>3, <2>4, ReplyKeepsOrder
  <2> QED BY <2>1, <2>2, <2>3, <2>5, <1>4, <1>1 DEF Ordered
<1>12. ASSUME NEW r, Replied(a, b, r) PROVE Ordered(b)
  <2>1. /\ a.busy # None /\ b.busy = None /\ r \in Replies /\ r.op = a.busy.cmd.op
        /\ b.taken = a.taken /\ b.outbox = Append(a.outbox, r)
    BY <1>12 DEF Replied
  <2>2. PICK out, t, new : out = a.outbox /\ t = a.taken /\ new = b.outbox
    OBVIOUS
  <2>3. /\ Len(t) = Cardinality(Places(out)) + 1 /\ t \in Seq(Commands(Ops))
        /\ InOrder(out, t)
    BY <1>1, <1>2, <1>3, <1>6, <2>1, <2>2
  <2>4. /\ out \in Seq(Relayed \cup Replies) /\ r \in Replies /\ new = Append(out, r)
        /\ r.op = t[Len(t)].op
    BY <1>2, <1>3, <2>1, <2>2
  <2>5. Len(t) = Cardinality(Places(new)) /\ InOrder(new, t)
    BY ONLY <2>3, <2>4, ReplyKeepsOrder
  <2> QED BY <2>1, <2>2, <2>3, <2>5, <1>4, <1>1 DEF Ordered
<1>13. ASSUME NEW e, Relays(a, b, e) PROVE Ordered(b)
  <2>1. e \in Relayed /\ b.busy = a.busy /\ b.taken = a.taken /\ b.outbox = Append(a.outbox, e)
    BY <1>13 DEF Relays
  <2>2. Places(b.outbox) = P /\ \A i \in P : b.outbox[i] = a.outbox[i]
    BY <1>1, <1>3, <2>1, RelayKeepsPlaces DEF Places
  <2>3. InOrder(b.outbox, b.taken)
    BY <1>1, <1>2, <2>1, <2>2 DEF InOrder
  <2> QED BY <1>2, <2>1, <2>2, <2>3 DEF Ordered
<1> QED BY <1>7, <1>8, <1>10, <1>11, <1>12, <1>13 DEF Moves

LEMMA MovesKeepAccess ==
  ASSUME NEW a \in Actor, NEW b \in Actor, Earned(a), Moves(a, b)
  PROVE  Earned(b)
<1>1. a.outbox \in Seq(Relayed \cup Replies)
  BY ActorFields
<1>2. CASE SameAccess(a, b) /\ b.outbox = a.outbox
  BY <1>2 DEF Earned, SameAccess
<1>3. ASSUME NEW r \in Relayed \cup Replies, b.outbox = Append(a.outbox, r),
             \A s \in b.sessions \ a.sessions : Gives(r, SessionEvent(s)),
             \A w \in b.workspaces \ a.workspaces : Gives(r, WorkspaceEvent(w)),
             r.kind # "reply" => \E j \in DOMAIN a.outbox : Gives(a.outbox[j], r)
      PROVE  Earned(b)
  <2>1. PICK n : n = Len(a.outbox)
    OBVIOUS
  <2>2. /\ n \in Nat /\ DOMAIN a.outbox = 1..n /\ DOMAIN b.outbox = 1..n + 1
        /\ b.outbox[n + 1] = r /\ \A i \in 1..n : b.outbox[i] = a.outbox[i]
    BY <1>1, <1>3, <2>1, AppendIs
  <2>3. /\ n + 1 \in DOMAIN b.outbox /\ \A i \in 1..n : i \in DOMAIN b.outbox
        /\ \A i \in 1..n + 1 : i \in 1..n \/ i = n + 1
        /\ (n + 1) - 1 = n
    BY <2>2
  <2>4. \A s \in b.sessions : \E j \in DOMAIN b.outbox : Gives(b.outbox[j], SessionEvent(s))
    <3> SUFFICES ASSUME NEW s \in b.sessions
                 PROVE  \E j \in DOMAIN b.outbox : Gives(b.outbox[j], SessionEvent(s))
      OBVIOUS
    <3>1. CASE s \in a.sessions
      <4>1. PICK j \in 1..n : Gives(a.outbox[j], SessionEvent(s))
        BY <2>2, <3>1 DEF Earned
      <4> QED BY <2>2, <2>3, <4>1
    <3>2. CASE s \notin a.sessions
      <4>1. Gives(b.outbox[n + 1], SessionEvent(s))
        BY <1>3, <2>2, <3>2
      <4> QED BY <2>3, <4>1
    <3> QED BY <3>1, <3>2
  <2>5. \A w \in b.workspaces : \E j \in DOMAIN b.outbox : Gives(b.outbox[j], WorkspaceEvent(w))
    <3> SUFFICES ASSUME NEW w \in b.workspaces
                 PROVE  \E j \in DOMAIN b.outbox : Gives(b.outbox[j], WorkspaceEvent(w))
      OBVIOUS
    <3>1. CASE w \in a.workspaces
      <4>1. PICK j \in 1..n : Gives(a.outbox[j], WorkspaceEvent(w))
        BY <2>2, <3>1 DEF Earned
      <4> QED BY <2>2, <2>3, <4>1
    <3>2. CASE w \notin a.workspaces
      <4>1. Gives(b.outbox[n + 1], WorkspaceEvent(w))
        BY <1>3, <2>2, <3>2
      <4> QED BY <2>3, <4>1
    <3> QED BY <3>1, <3>2
  <2>6. ASSUME NEW i \in DOMAIN b.outbox, b.outbox[i].kind # "reply"
        PROVE  \E j \in 1 .. i - 1 : Gives(b.outbox[j], b.outbox[i])
    <3>1. CASE i \in 1..n
      <4>1. PICK j \in 1 .. i - 1 : Gives(a.outbox[j], a.outbox[i])
        BY <2>2, <2>6, <3>1 DEF Earned
      <4>2. j \in 1..n
        BY <2>2, <3>1, <4>1
      <4> QED BY <2>2, <3>1, <4>1, <4>2
    <3>2. CASE i = n + 1
      <4>1. PICK j \in 1..n : Gives(a.outbox[j], r)
        BY <1>3, <2>2, <2>6, <3>2
      <4>2. b.outbox[j] = a.outbox[j] /\ b.outbox[i] = r /\ j \in 1 .. i - 1
        BY <2>2, <2>3, <3>2, <4>1
      <4> QED BY <4>1, <4>2
    <3> QED BY <2>2, <2>3, <3>1, <3>2
  <2> QED BY <2>4, <2>5, <2>6 DEF Earned
<1>4. CASE Kept(a, b) \/ Advanced(a, b)
  BY <1>2, <1>4 DEF Kept, Advanced
<1>5. ASSUME NEW cmd \in Commands(Ops), Accepted(a, b, cmd) PROVE Earned(b)
  BY <1>2, <1>5 DEF Accepted
<1>6. ASSUME NEW cmd \in Commands(Ops), NEW r, Rejected(a, b, cmd, r) PROVE Earned(b)
  <2>1. r \in Replies /\ r.kind = "reply" /\ b.outbox = Append(a.outbox, r)
        /\ b.sessions = a.sessions /\ b.workspaces = a.workspaces
    BY <1>6, Kinds DEF Rejected, SameAccess
  <2> QED BY <1>3, <2>1
<1>7. ASSUME NEW r, Replied(a, b, r) PROVE Earned(b)
  BY <1>3, <1>7, Kinds DEF Replied
<1>8. ASSUME NEW e, Relays(a, b, e) PROVE Earned(b)
  <2>1. /\ e \in Relayed /\ e.id \in (IF e.kind = "session" THEN a.sessions ELSE a.workspaces)
        /\ b.outbox = Append(a.outbox, e) /\ b.sessions = a.sessions
        /\ b.workspaces = a.workspaces
    BY <1>8 DEF Relays, SameAccess
  <2>2. e = IF e.kind = "session" THEN SessionEvent(e.id) ELSE WorkspaceEvent(e.id)
    BY <2>1 DEF Relayed, SessionEvent, WorkspaceEvent
  <2>3. \E j \in DOMAIN a.outbox : Gives(a.outbox[j], e)
    BY <2>1, <2>2 DEF Earned
  <2> QED BY <1>3, <2>1, <2>3
<1> QED BY <1>4, <1>5, <1>6, <1>7, <1>8 DEF Moves

-----------------------------------------------------------------------------
(* The steps are such moves *)

LEMMA CommandFields ==
  ASSUME NEW cmd \in Commands(Ops)
  PROVE  /\ cmd.op \in Ops
         /\ cmd.session \in Sessions \cup {None} /\ cmd.workspace \in Workspaces \cup {None}
         /\ cmd.op \in SessionOps \cup MemberOps \cup {"AccessSession"} => cmd.session \in Sessions
         /\ cmd.op \in WorkspaceOps \cup MemberOps \cup {"AccessWorkspace", "CreateWorkspace"}
              => cmd.workspace \in Workspaces
         /\ cmd.op = "AccessSession" => cmd.workspace = None
         /\ cmd.op = "AccessWorkspace" => cmd.session = None
<1>1. PICK op \in Ops : cmd \in [op : {op},
                                 session : IF Takes(op).session THEN Sessions ELSE {None},
                                 workspace : IF Takes(op).workspace THEN Workspaces ELSE {None}]
  BY DEF Commands
<1>2. /\ cmd.op = op
      /\ cmd.session \in IF Takes(op).session THEN Sessions ELSE {None}
      /\ cmd.workspace \in IF Takes(op).workspace THEN Workspaces ELSE {None}
  BY <1>1
<1>3. /\ Takes(op).session = (op \in SessionOps \cup MemberOps \cup {"AccessSession"})
      /\ Takes(op).workspace
           = (op \in WorkspaceOps \cup MemberOps \cup {"AccessWorkspace", "CreateWorkspace"})
  BY DEF Takes
<1>4. "AccessSession" \notin WorkspaceOps \cup MemberOps \cup {"AccessWorkspace", "CreateWorkspace"}
  BY DEF WorkspaceOps, MemberOps
<1>5. "AccessWorkspace" \notin SessionOps \cup MemberOps \cup {"AccessSession"}
  BY DEF SessionOps, MemberOps
<1> QED BY <1>2, <1>3, <1>4, <1>5

LEMMA ReplyFields ==
  ASSUME NEW cmd \in Commands(Ops), NEW outcome \in {"ok", "granted", "denied", "failed", "rejected"},
         NEW s \in Sessions \cup {None}
  PROVE  /\ Reply(cmd, outcome, s) \in Replies /\ Reply(cmd, outcome, s).op = cmd.op
         /\ Reply(cmd, outcome, s).outcome = outcome /\ Reply(cmd, outcome, s).session = s
         /\ Reply(cmd, outcome, s).workspace = cmd.workspace
  BY CommandFields DEF Reply, Replies

(* In k, the actor c has ended its command with the reply r, and may       *)
(* access the sessions ss and the workspaces ws.                           *)
Settled(k, c, r, ss, ws) ==
  /\ k \in [Conns -> Actor]
  /\ k[c].busy = None /\ k[c].outbox = Append(conn[c].outbox, r)
  /\ k[c].taken = conn[c].taken /\ k[c].sessions = ss /\ k[c].workspaces = ws
  /\ \A d \in Conns : d # c => k[d] = conn[d]

LEMMA AnsweredIs ==
  ASSUME conn \in [Conns -> Actor], NEW c \in Conns, NEW outcome, NEW s,
         NEW r \in Replies, r = Reply(conn[c].busy.cmd, outcome, s)
  PROVE  Settled(Answered(c, outcome, s), c, r, conn[c].sessions, conn[c].workspaces)
<1>1. PICK a, x, b : a = conn[c] /\ x = Append(a.outbox, r) /\ b = [a EXCEPT !.busy = None, !.outbox = x]
  OBVIOUS
<1>2. a \in Actor
  BY <1>1
<1>3. x \in Seq(Relayed \cup Replies)
  BY <1>1, <1>2, ActorFields
<1>4. b \in Actor
  BY <1>1, <1>2, <1>3 DEF Actor
<1>5. b.busy = None /\ b.outbox = x /\ b.taken = a.taken /\ b.sessions = a.sessions
      /\ b.workspaces = a.workspaces
  BY <1>1, <1>2 DEF Actor
<1>6. Answered(c, outcome, s) = [conn EXCEPT ![c] = b]
  BY <1>1 DEF Answered
<1>7. PICK k : k = [conn EXCEPT ![c] = b]
  OBVIOUS
<1>8. k \in [Conns -> Actor] /\ k[c] = b /\ \A d \in Conns : d # c => k[d] = conn[d]
  BY <1>4, <1>7
<1> QED BY <1>1, <1>5, <1>6, <1>7, <1>8 DEF Settled

WithAccess(k, c, sn, wn) == [k EXCEPT ![c].sessions = sn, ![c].workspaces = wn]

LEMMA AccessIs ==
  ASSUME NEW k, NEW c \in Conns, NEW r, NEW ss, NEW ws, Settled(k, c, r, ss, ws),
         NEW sn \in SUBSET Sessions, NEW wn \in SUBSET Workspaces
  PROVE  Settled(WithAccess(k, c, sn, wn), c, r, sn, wn)
<1>1. PICK a, b : a = k[c] /\ b = [a EXCEPT !.sessions = sn, !.workspaces = wn]
  OBVIOUS
<1>2. a \in Actor
  BY <1>1 DEF Settled
<1>3. b \in Actor
  BY <1>1, <1>2 DEF Actor
<1>4. b.busy = a.busy /\ b.outbox = a.outbox /\ b.taken = a.taken /\ b.sessions = sn
      /\ b.workspaces = wn
  BY <1>1, <1>2 DEF Actor
<1>5. PICK q : q = WithAccess(k, c, sn, wn)
  OBVIOUS
<1>6. q = [k EXCEPT ![c] = b]
  BY <1>1, <1>2, <1>5 DEF Settled, WithAccess
<1>7. q \in [Conns -> Actor] /\ q[c] = b /\ \A d \in Conns : d # c => q[d] = k[d]
  BY <1>3, <1>6 DEF Settled
<1> QED BY <1>1, <1>4, <1>5, <1>7 DEF Settled

LEMMA EventIs ==
  ASSUME NEW a \in Actor, NEW e \in Relayed
  PROVE  /\ [a EXCEPT !.events = Append(@, e)] \in Actor
         /\ Kept(a, [a EXCEPT !.events = Append(@, e)])
<1>1. PICK x : x = Append(a.events, e)
  OBVIOUS
<1>2. x \in Seq(Relayed)
  BY <1>1, ActorFields
<1>3. PICK b : b = [a EXCEPT !.events = x]
  OBVIOUS
<1>4. b \in Actor
  BY <1>2, <1>3 DEF Actor
<1>5. Kept(a, b)
  BY <1>3 DEF Actor, Kept, SameAccess
<1> QED BY <1>1, <1>3, <1>4, <1>5

LEMMA EventsRelayed ==
  /\ \A s \in Sessions : SessionEvent(s) \in Relayed
  /\ \A w \in Workspaces : WorkspaceEvent(w) \in Relayed
  BY DEF SessionEvent, WorkspaceEvent, Relayed

(* An event on a topic touches nothing but the queues of events. *)
LEMMA PublishedIs ==
  ASSUME NEW k \in [Conns -> Actor], NEW e \in Relayed
  PROVE  /\ Published(k, e) \in [Conns -> Actor]
         /\ \A c \in Conns : Kept(k[c], Published(k, e)[c])
<1>1. \A c \in Conns : \/ Published(k, e)[c] = k[c]
                       \/ Published(k, e)[c] = [k[c] EXCEPT !.events = Append(@, e)]
  BY DEF Published
<1>2. \A a \in Actor : Kept(a, a)
  BY DEF Kept, SameAccess
<1>3. ASSUME NEW c \in Conns
      PROVE  Published(k, e)[c] \in Actor /\ Kept(k[c], Published(k, e)[c])
  <2>1. PICK a : a = k[c] /\ a \in Actor
    OBVIOUS
  <2>2. /\ [a EXCEPT !.events = Append(@, e)] \in Actor
        /\ Kept(a, [a EXCEPT !.events = Append(@, e)])
    BY <2>1, EventIs
  <2> QED BY <1>1, <1>2, <2>1, <2>2
<1>4. PICK p : p = Published(k, e)
  OBVIOUS
<1>5. p = [c \in Conns |-> p[c]]
  BY <1>4 DEF Published
<1> QED BY <1>3, <1>4, <1>5

LEMMA KeptMoves ==
  ASSUME NEW a, NEW b, NEW x, Moves(a, b), Kept(b, x)
  PROVE  Moves(a, x)
<1>1. /\ x.outbox = b.outbox /\ x.taken = b.taken /\ x.busy = b.busy
      /\ x.sessions = b.sessions /\ x.workspaces = b.workspaces
  BY DEF Kept, SameAccess
<1>2. CASE Kept(a, b)
  BY <1>1, <1>2 DEF Kept, SameAccess, Moves
<1>3. CASE Advanced(a, b)
  BY <1>1, <1>3 DEF Advanced, SameAccess, Moves
<1>4. ASSUME NEW cmd \in Commands(Ops), Accepted(a, b, cmd) PROVE Moves(a, x)
  BY <1>1, <1>4 DEF Accepted, SameAccess, Moves
<1>5. ASSUME NEW cmd \in Commands(Ops), NEW r, Rejected(a, b, cmd, r) PROVE Moves(a, x)
  BY <1>1, <1>5 DEF Rejected, SameAccess, Moves
<1>6. ASSUME NEW r, Replied(a, b, r) PROVE Moves(a, x)
  BY <1>1, <1>6 DEF Replied, Moves
<1>7. ASSUME NEW e, Relays(a, b, e) PROVE Moves(a, x)
  BY <1>1, <1>7 DEF Relays, SameAccess, Moves
<1> QED BY <1>2, <1>3, <1>4, <1>5, <1>6, <1>7 DEF Moves

(* A step of the actor c that leaves the actors at k. *)
StepOf(c, k) ==
  /\ k \in [Conns -> Actor]
  /\ \A d \in Conns : Moves(conn[d], k[d]) /\ BusyIs(k[d])
  /\ \A d \in Conns : d # c => k[d].busy = conn[d].busy

LEMMA PublishedStep ==
  ASSUME NEW c \in Conns, NEW k, StepOf(c, k), NEW e \in Relayed
  PROVE  StepOf(c, Published(k, e)) /\ Published(k, e)[c].busy = k[c].busy
<1>1. PICK p : p = Published(k, e)
  OBVIOUS
<1>2. k \in [Conns -> Actor]
  BY DEF StepOf
<1>3. p \in [Conns -> Actor] /\ \A d \in Conns : Kept(k[d], p[d])
  BY <1>1, <1>2, PublishedIs
<1>4. ASSUME NEW d \in Conns PROVE Moves(conn[d], p[d])
  BY <1>3, KeptMoves DEF StepOf
<1>5. \A d \in Conns : p[d].busy = k[d].busy
  BY <1>3 DEF Kept
<1>6. \A d \in Conns : BusyIs(p[d])
  BY <1>5 DEF StepOf, BusyIs
<1> QED BY <1>1, <1>3, <1>4, <1>5, <1>6 DEF StepOf

(* One actor changes. *)
LEMMA OneActor ==
  ASSUME conn \in [Conns -> Actor], BusyOK, NEW c \in Conns, NEW b \in Actor,
         Moves(conn[c], b), BusyIs(b), NEW k, k = [conn EXCEPT ![c] = b]
  PROVE  StepOf(c, k) /\ k[c] = b
<1>1. k \in [Conns -> Actor] /\ k[c] = b /\ \A d \in Conns : d # c => k[d] = conn[d]
  OBVIOUS
<1>2. \A a : Moves(a, a)
  BY DEF Moves, Kept, SameAccess
<1> QED BY <1>1, <1>2 DEF StepOf, BusyOK

LEMMA SettledStep ==
  ASSUME conn \in [Conns -> Actor], BusyOK, NEW c \in Conns, conn[c].busy # None,
         NEW k, NEW r \in Replies, NEW ss, NEW ws, Settled(k, c, r, ss, ws),
         r.op = conn[c].busy.cmd.op,
         \A s \in ss \ conn[c].sessions : Gives(r, SessionEvent(s)),
         \A w \in ws \ conn[c].workspaces : Gives(r, WorkspaceEvent(w))
  PROVE  StepOf(c, k) /\ k[c].busy = None
<1>1. Replied(conn[c], k[c], r)
  BY DEF Settled, Replied
<1>2. \A a : Moves(a, a)
  BY DEF Moves, Kept, SameAccess
<1>3. k[c].busy = None /\ BusyIs(k[c])
  BY DEF Settled, BusyIs
<1>4. \A d \in Conns : Moves(conn[d], k[d])
  BY <1>1, <1>2 DEF Moves, Settled
<1> QED BY <1>3, <1>4 DEF StepOf, Settled, BusyOK

(* The answer to a command that gives no access. *)
LEMMA AnsweredStep ==
  ASSUME Typed, NEW c \in Conns, conn[c].busy # None,
         NEW outcome \in {"ok", "granted", "denied", "failed", "rejected"},
         NEW s \in Sessions \cup {None}
  PROVE  StepOf(c, Answered(c, outcome, s)) /\ Answered(c, outcome, s)[c].busy = None
<1>1. PICK cmd, r, k : /\ cmd = conn[c].busy.cmd /\ r = Reply(cmd, outcome, s)
                       /\ k = Answered(c, outcome, s)
  OBVIOUS
<1>2. conn \in [Conns -> Actor] /\ BusyOK /\ conn[c] \in Actor
  BY DEF Typed, TypeOK
<1>3. conn[c].busy \in Busy
  BY <1>2, ActorFields
<1>4. cmd \in Commands(Ops)
  BY <1>1, <1>3 DEF Busy
<1>5. r \in Replies /\ r.op = cmd.op
  BY <1>1, <1>4, ReplyFields
<1>6. Settled(k, c, r, conn[c].sessions, conn[c].workspaces)
  BY <1>1, <1>2, <1>5, AnsweredIs
<1> QED BY <1>1, <1>2, <1>5, <1>6, SettledStep

LEMMA AccessOneIs ==
  ASSUME NEW k, NEW c \in Conns, NEW r, NEW ss, NEW ws, Settled(k, c, r, ss, ws),
         NEW sn \in SUBSET Sessions, NEW wn \in SUBSET Workspaces
  PROVE  /\ Settled([k EXCEPT ![c].sessions = sn], c, r, sn, ws)
         /\ Settled([k EXCEPT ![c].workspaces = wn], c, r, ss, wn)
<1>1. PICK a : a = k[c]
  OBVIOUS
<1>2. a \in Actor /\ k \in [Conns -> Actor]
  BY <1>1 DEF Settled
<1>3. ss \in SUBSET Sessions /\ ws \in SUBSET Workspaces /\ a.sessions = ss /\ a.workspaces = ws
  BY <1>1, <1>2, ActorFields DEF Settled
<1>4. /\ [k EXCEPT ![c].sessions = sn] = [k EXCEPT ![c].sessions = sn, ![c].workspaces = ws]
      /\ [k EXCEPT ![c].workspaces = wn] = [k EXCEPT ![c].sessions = ss, ![c].workspaces = wn]
  <2>1. /\ [a EXCEPT !.sessions = sn] = [a EXCEPT !.sessions = sn, !.workspaces = ws]
        /\ [a EXCEPT !.workspaces = wn] = [a EXCEPT !.sessions = ss, !.workspaces = wn]
    BY <1>2, <1>3 DEF Actor
  <2>2. PICK x, y : x = [a EXCEPT !.sessions = sn] /\ y = [a EXCEPT !.workspaces = wn]
    OBVIOUS
  <2>3. /\ [k EXCEPT ![c].sessions = sn] = [k EXCEPT ![c] = x]
        /\ [k EXCEPT ![c].workspaces = wn] = [k EXCEPT ![c] = y]
    BY <1>1, <2>2
  <2>4. /\ [k EXCEPT ![c].sessions = sn, ![c].workspaces = ws] = [k EXCEPT ![c] = x]
        /\ [k EXCEPT ![c].sessions = ss, ![c].workspaces = wn] = [k EXCEPT ![c] = y]
    BY <1>1, <1>2, <2>1, <2>2
  <2> QED BY <2>3, <2>4
<1>5. /\ Settled(WithAccess(k, c, sn, ws), c, r, sn, ws)
      /\ Settled(WithAccess(k, c, ss, wn), c, r, ss, wn)
  BY <1>3, AccessIs
<1> QED BY <1>4, <1>5 DEF WithAccess

-----------------------------------------------------------------------------
(* Each action *)

LEMMA SendStep ==
  ASSUME Typed, NEW c \in Conns, send_command(c)
  PROVE  TypeOK' /\ StepOf(c, conn') /\ conn'[c].busy = conn[c].busy
<1>1. PICK cmd \in Commands(left.ops) : conn' = [conn EXCEPT ![c].inbox = WsRawReceiver(@, cmd)]
  BY DEF send_command
<1>2. conn[c] \in Actor /\ conn \in [Conns -> Actor] /\ BusyOK /\ left.ops \subseteq Ops
  BY DEF Typed, TypeOK
<1>3. cmd \in Commands(Ops)
  BY <1>2 DEF Commands
<1>4. PICK a, x, b : /\ a = conn[c] /\ x = WsRawReceiver(a.inbox, cmd)
                     /\ b = [a EXCEPT !.inbox = x]
  OBVIOUS
<1>5. x \in Seq(Commands(Ops))
  <2>1. a.inbox \in Seq(Commands(Ops))
    BY <1>2, <1>4, ActorFields
  <2>2. Capacity \in Nat \ {0}
    BY GatewayAssumption
  <2>3. Len(a.inbox) = Capacity => Tail(a.inbox) \in Seq(Commands(Ops))
    BY <2>1, <2>2
  <2> QED BY <1>3, <1>4, <2>1, <2>3 DEF WsRawReceiver
<1>6. b \in Actor
  BY <1>2, <1>4, <1>5 DEF Actor
<1>7. Kept(a, b)
  BY <1>2, <1>4 DEF Actor, Kept, SameAccess
<1>8. Moves(conn[c], b) /\ BusyIs(b) /\ b.busy = conn[c].busy
  BY <1>2, <1>4, <1>7 DEF Moves, BusyOK, BusyIs, Kept
<1>9. conn' = [conn EXCEPT ![c] = b]
  BY <1>1, <1>4
<1>10. StepOf(c, conn') /\ conn'[c] = b
  BY <1>2, <1>6, <1>8, <1>9, OneActor
<1>11. left' \in [ops : SUBSET Ops, commands : Nat, fail : Nat, ends : Nat]
  BY DEF send_command, Typed, TypeOK
<1> QED BY <1>8, <1>10, <1>11 DEF StepOf, TypeOK, send_command, Typed

(* The ends of the connection and of the actor. *)
LEMMA EndStep ==
  ASSUME Typed, NEW c \in Conns, close(c) \/ shutdown(c) \/ stop(c)
  PROVE  TypeOK' /\ StepOf(c, conn') /\ conn'[c].busy = conn[c].busy
<1>1. conn[c] \in Actor /\ conn \in [Conns -> Actor] /\ BusyOK
  BY DEF Typed, TypeOK
<1>2. PICK a : a = conn[c]
  OBVIOUS
<1>3. PICK b : /\ conn' = [conn EXCEPT ![c] = b]
               /\ \/ b = [a EXCEPT !.closed = TRUE] \/ b = [a EXCEPT !.shutdown = TRUE]
                  \/ b = [a EXCEPT !.running = FALSE]
  BY <1>2 DEF close, shutdown, stop
<1>4. b \in Actor
  BY <1>1, <1>2, <1>3 DEF Actor
<1>5. Kept(a, b)
  BY <1>1, <1>2, <1>3 DEF Actor, Kept, SameAccess
<1>6. Moves(conn[c], b) /\ BusyIs(b) /\ b.busy = conn[c].busy
  BY <1>1, <1>2, <1>5 DEF Moves, BusyOK, BusyIs, Kept
<1>7. StepOf(c, conn') /\ conn'[c] = b
  BY <1>1, <1>3, <1>4, <1>6, OneActor
<1>8. left' \in [ops : SUBSET Ops, commands : Nat, fail : Nat, ends : Nat]
  BY DEF close, shutdown, stop, Ends, Typed, TypeOK
<1> QED BY <1>6, <1>7, <1>8 DEF StepOf, TypeOK, close, shutdown, stop, Typed

LEMMA HandleCommandStep ==
  ASSUME Typed, NEW c \in Conns, handle_command(c)
  PROVE  /\ TypeOK' /\ StepOf(c, conn') /\ conn[c].busy = None
         /\ conn'[c].busy # None => conn'[c].busy.new = None
<1>1. conn[c] \in Actor /\ conn \in [Conns -> Actor] /\ BusyOK
  BY DEF Typed, TypeOK
<1>2. PICK a, cmd : a = conn[c] /\ cmd = Head(a.inbox)
  OBVIOUS
<1>3. /\ a.inbox \in Seq(Commands(Ops)) /\ a.taken \in Seq(Commands(Ops))
      /\ a.outbox \in Seq(Relayed \cup Replies) /\ a.inbox # <<>> /\ a.busy = None
  BY <1>1, <1>2, ActorFields DEF handle_command, Idle
<1>4. cmd \in Commands(Ops) /\ Tail(a.inbox) \in Seq(Commands(Ops))
  BY <1>2, <1>3
<1>5. PICK inbox, taken, busy, outbox, r, b :
        /\ inbox = Tail(a.inbox) /\ taken = Append(a.taken, cmd)
        /\ r = Reply(cmd, "rejected", cmd.session)
        /\ busy = IF Allowed(c, cmd) THEN [cmd |-> cmd, at |-> "call", new |-> None] ELSE None
        /\ outbox = IF Allowed(c, cmd) THEN a.outbox ELSE Append(a.outbox, r)
        /\ b = [a EXCEPT !.inbox = inbox, !.taken = taken, !.busy = busy, !.outbox = outbox]
  OBVIOUS
<1>6. conn' = [conn EXCEPT ![c] = b]
  BY <1>2, <1>5 DEF handle_command
<1>7. r \in Replies /\ r.op = cmd.op
  <2>1. cmd.session \in Sessions \cup {None}
    BY <1>4, CommandFields
  <2> QED BY <1>4, <1>5, <2>1, ReplyFields
<1>8. /\ inbox \in Seq(Commands(Ops)) /\ taken \in Seq(Commands(Ops))
      /\ outbox \in Seq(Relayed \cup Replies)
  BY <1>3, <1>4, <1>5, <1>7
<1>9. busy \in Busy \cup {None}
  BY <1>4, <1>5 DEF Busy
<1>10. b \in Actor
  <2>1. a \in Actor /\ b = [a EXCEPT !.inbox = inbox, !.taken = taken, !.busy = busy, !.outbox = outbox]
    BY <1>1, <1>2, <1>5
  <2> QED BY ONLY <1>8, <1>9, <2>1 DEF Actor
<1>11. /\ b.busy = busy /\ b.taken = taken /\ b.outbox = outbox
       /\ b.sessions = a.sessions /\ b.workspaces = a.workspaces
  BY <1>1, <1>2, <1>5 DEF Actor
<1>12. ASSUME Allowed(c, cmd)
       PROVE  Moves(a, b) /\ BusyIs(b) /\ (b.busy # None => b.busy.new = None)
  <2>1. /\ b.busy = [cmd |-> cmd, at |-> "call", new |-> None] /\ b.outbox = a.outbox
    BY <1>5, <1>11, <1>12
  <2>2. b.busy \in Busy
    BY <1>4, <2>1 DEF Busy
  <2>3. b.busy # None /\ b.busy.cmd = cmd /\ b.busy.at = "call" /\ b.busy.new = None
    BY <2>1, <2>2, NoCommandAssumption
  <2>4. Accepted(a, b, cmd)
    BY <1>3, <1>5, <1>11, <2>1, <2>3 DEF Accepted, SameAccess
  <2> QED BY <1>4, <2>3, <2>4 DEF Moves, BusyIs
<1>13. ASSUME ~Allowed(c, cmd)
       PROVE  Moves(a, b) /\ BusyIs(b) /\ (b.busy # None => b.busy.new = None)
  <2>1. b.busy = None /\ b.outbox = Append(a.outbox, r)
    BY <1>5, <1>11, <1>13
  <2>2. Rejected(a, b, cmd, r)
    BY <1>3, <1>5, <1>7, <1>11, <2>1 DEF Rejected, SameAccess
  <2> QED BY <1>4, <2>1, <2>2 DEF Moves, BusyIs
<1>14. Moves(conn[c], b) /\ BusyIs(b) /\ (b.busy # None => b.busy.new = None)
  BY <1>2, <1>12, <1>13
<1>15. StepOf(c, conn') /\ conn'[c] = b
  BY <1>1, <1>6, <1>10, <1>14, OneActor
<1>16. TypeOK'
  BY <1>15 DEF StepOf, TypeOK, handle_command, Typed
<1> QED BY <1>2, <1>3, <1>14, <1>15, <1>16

LEMMA UnderWay ==
  ASSUME Typed, NEW c \in Conns, conn[c].busy # None
  PROVE  /\ conn \in [Conns -> Actor] /\ BusyOK /\ conn[c] \in Actor /\ conn[c].busy \in Busy
         /\ conn[c].busy.cmd \in Commands(Ops) /\ conn[c].busy.new \in Sessions \cup {None}
         /\ conn[c].busy.cmd.session \in Sessions \cup {None}
<1>1. conn \in [Conns -> Actor] /\ BusyOK /\ conn[c] \in Actor
  BY DEF Typed, TypeOK
<1>2. conn[c].busy \in Busy
  BY <1>1, ActorFields
<1>3. conn[c].busy.cmd \in Commands(Ops) /\ conn[c].busy.new \in Sessions \cup {None}
  BY <1>2 DEF Busy
<1> QED BY <1>1, <1>2, <1>3, CommandFields

(* The answers that only answer. *)
LEMMA PlainStep ==
  ASSUME Typed, NEW c \in Conns, call_failed(c) \/ read(c) \/ call_refused(c)
  PROVE  TypeOK' /\ StepOf(c, conn') /\ conn'[c].busy = None /\ cluster' = cluster
<1>1. conn[c].busy # None
  BY DEF call_failed, read, call_refused, Calls
<1>2. PICK s : s = conn[c].busy.cmd.session
  OBVIOUS
<1>3. conn' = Answered(c, "ok", s) \/ conn' = Answered(c, "failed", s)
  BY <1>2 DEF call_failed, read, call_refused
<1>4. StepOf(c, conn') /\ conn'[c].busy = None
  BY <1>1, <1>2, <1>3, UnderWay, AnsweredStep
<1>5. left' \in [ops : SUBSET Ops, commands : Nat, fail : Nat, ends : Nat] /\ cluster' = cluster
  BY DEF call_failed, read, call_refused, Fails, Typed, TypeOK
<1> QED BY <1>4, <1>5 DEF StepOf, TypeOK, Typed

(* The answers that follow a change of the cluster. *)
LEMMA WriteStep ==
  ASSUME Typed, NEW c \in Conns, write_session(c) \/ remove_session(c) \/ write_workspace(c)
  PROVE  StepOf(c, conn') /\ conn'[c].busy = None /\ conn[c].busy # None /\ left' = left
<1>1. conn[c].busy # None /\ left' = left
  BY DEF write_session, remove_session, write_workspace, Calls
<1>2. PICK cmd : cmd = conn[c].busy.cmd
  OBVIOUS
<1>3. cmd \in Commands(Ops) /\ cmd.session \in Sessions \cup {None}
  BY <1>1, <1>2, UnderWay
<1>4. PICK e \in Relayed : conn' = Published(Answered(c, "ok", cmd.session), e)
  <2>1. CASE write_session(c) \/ remove_session(c)
    <3>1. cmd.op \in SessionOps
      BY <1>2, <2>1 DEF write_session, remove_session, Calls, SessionOps
    <3>2. SessionEvent(cmd.session) \in Relayed
      BY <1>3, <3>1, CommandFields, EventsRelayed
    <3> QED BY <1>2, <2>1, <3>2 DEF write_session, remove_session
  <2>2. CASE write_workspace(c)
    <3>1. cmd.op \in WorkspaceOps \cup MemberOps
      BY <1>2, <2>2 DEF write_workspace, Calls, WorkspaceOps
    <3>2. WorkspaceEvent(cmd.workspace) \in Relayed
      BY <1>3, <3>1, CommandFields, EventsRelayed
    <3> QED BY <1>2, <2>2, <3>2 DEF write_workspace
  <2> QED BY <2>1, <2>2
<1>5. StepOf(c, Answered(c, "ok", cmd.session)) /\ Answered(c, "ok", cmd.session)[c].busy = None
  BY <1>1, <1>3, AnsweredStep
<1> QED BY <1>1, <1>4, <1>5, PublishedStep

LEMMA CheckStep ==
  ASSUME Typed, NEW c \in Conns, check(c)
  PROVE  TypeOK' /\ StepOf(c, conn') /\ conn'[c].busy = None /\ cluster' = cluster
<1>1. /\ conn[c].busy # None /\ conn[c].busy.cmd.op \in {"AccessSession", "AccessWorkspace"}
      /\ cluster' = cluster /\ left' = left
  BY DEF check, Calls
<1>2. PICK cmd, a : cmd = conn[c].busy.cmd /\ a = conn[c]
  OBVIOUS
<1>3. /\ cmd \in Commands(Ops) /\ cmd.session \in Sessions \cup {None}
      /\ conn \in [Conns -> Actor] /\ BusyOK /\ a \in Actor
  BY <1>1, <1>2, UnderWay
<1>4. CASE conn' = Answered(c, "denied", cmd.session)
  <2>1. StepOf(c, conn') /\ conn'[c].busy = None
    BY <1>1, <1>3, <1>4, AnsweredStep
  <2> QED BY <1>1, <2>1 DEF StepOf, TypeOK, Typed
<1>5. CASE conn' = [Answered(c, "granted", cmd.session) EXCEPT
                      ![c].sessions = @ \cup ({cmd.session} \ {None}),
                      ![c].workspaces = @ \cup ({cmd.workspace} \ {None})]
  <2>1. PICK k, r : k = Answered(c, "granted", cmd.session) /\ r = Reply(cmd, "granted", cmd.session)
    OBVIOUS
  <2>2. /\ r \in Replies /\ r.op = cmd.op /\ r.outcome = "granted"
        /\ r.session = cmd.session /\ r.workspace = cmd.workspace /\ r.kind = "reply"
    BY <1>3, <2>1, ReplyFields, Kinds
  <2>3. Settled(k, c, r, a.sessions, a.workspaces)
    BY <1>2, <1>3, <2>1, <2>2, AnsweredIs
  <2>4. PICK sn, wn : /\ sn = a.sessions \cup ({cmd.session} \ {None})
                      /\ wn = a.workspaces \cup ({cmd.workspace} \ {None})
    OBVIOUS
  <2>5. sn \in SUBSET Sessions /\ wn \in SUBSET Workspaces
    BY <1>3, <2>4, ActorFields, CommandFields
  <2>6. k[c].sessions = a.sessions /\ k[c].workspaces = a.workspaces
    BY <2>3 DEF Settled
  <2>7. conn' = WithAccess(k, c, sn, wn)
    BY <1>5, <2>1, <2>4, <2>6 DEF WithAccess
  <2>8. Settled(conn', c, r, sn, wn)
    BY <2>3, <2>5, <2>7, AccessIs
  <2>9. \A s \in sn \ a.sessions : Gives(r, SessionEvent(s))
    <3> SUFFICES ASSUME NEW s \in sn \ a.sessions PROVE Gives(r, SessionEvent(s))
      OBVIOUS
    <3>1. s = cmd.session /\ s # None
      BY <2>4
    <3>2. cmd.op = "AccessSession"
      BY <1>1, <1>2, <1>3, <3>1, CommandFields
    <3> QED BY <2>2, <3>1, <3>2 DEF Gives, SessionEvent
  <2>10. \A w \in wn \ a.workspaces : Gives(r, WorkspaceEvent(w))
    <3> SUFFICES ASSUME NEW w \in wn \ a.workspaces PROVE Gives(r, WorkspaceEvent(w))
      OBVIOUS
    <3>1. w = cmd.workspace /\ w # None
      BY <2>4
    <3>2. cmd.op = "AccessWorkspace"
      BY <1>1, <1>2, <1>3, <3>1, CommandFields
    <3> QED BY <2>2, <3>1, <3>2 DEF Gives, WorkspaceEvent
  <2>11. StepOf(c, conn') /\ conn'[c].busy = None
    BY <1>1, <1>2, <1>3, <2>2, <2>8, <2>9, <2>10, SettledStep
  <2> QED BY <1>1, <2>11 DEF StepOf, TypeOK, Typed
<1> QED BY <1>2, <1>4, <1>5 DEF check

LEMMA CreateWorkspaceStep ==
  ASSUME Typed, NEW c \in Conns, create_workspace(c)
  PROVE  StepOf(c, conn') /\ conn'[c].busy = None /\ left' = left
<1>1. /\ conn[c].busy # None /\ conn[c].busy.cmd.op = "CreateWorkspace" /\ left' = left
  BY DEF create_workspace, Calls
<1>2. PICK cmd, a, w : cmd = conn[c].busy.cmd /\ a = conn[c] /\ w = cmd.workspace
  OBVIOUS
<1>3. cmd \in Commands(Ops) /\ conn \in [Conns -> Actor] /\ BusyOK /\ a \in Actor
  BY <1>1, <1>2, UnderWay
<1>4. w \in Workspaces
  BY <1>1, <1>2, <1>3, CommandFields
<1>5. PICK k, r : k = Answered(c, "ok", None) /\ r = Reply(cmd, "ok", None)
  OBVIOUS
<1>6. /\ r \in Replies /\ r.op = "CreateWorkspace" /\ r.outcome = "ok"
      /\ r.workspace = w /\ r.kind = "reply"
  BY <1>1, <1>2, <1>3, <1>5, ReplyFields, Kinds
<1>7. Settled(k, c, r, a.sessions, a.workspaces)
  BY <1>2, <1>3, <1>5, <1>6, AnsweredIs
<1>8. PICK wn, q : wn = a.workspaces \cup {w} /\ q = [k EXCEPT ![c].workspaces = wn]
  OBVIOUS
<1>9. wn \in SUBSET Workspaces /\ a.sessions \in SUBSET Sessions
  BY <1>3, <1>4, <1>8, ActorFields
<1>10. Settled(q, c, r, a.sessions, wn)
  BY <1>7, <1>8, <1>9, AccessOneIs
<1>11. \A v \in wn \ a.workspaces : Gives(r, WorkspaceEvent(v))
  BY <1>6, <1>8 DEF Gives, WorkspaceEvent
<1>12. StepOf(c, q) /\ q[c].busy = None
  BY <1>1, <1>2, <1>3, <1>6, <1>10, <1>11, SettledStep
<1>13. k[c].workspaces = a.workspaces
  BY <1>7 DEF Settled
<1>14. conn' = Published(q, WorkspaceEvent(w))
  BY <1>2, <1>5, <1>8, <1>13 DEF create_workspace
<1> QED BY <1>1, <1>4, <1>12, <1>14, PublishedStep, EventsRelayed

(* handle_create_session: the workspace has the session. *)
LEMMA CreateSessionStep ==
  ASSUME Typed, NEW c \in Conns, create_session(c)
  PROVE  /\ StepOf(c, conn') /\ left' = left
         /\ \E s \in Sessions \ cluster.issued, w \in Workspaces :
              /\ w = conn[c].busy.cmd.workspace
              /\ cluster' = [cluster EXCEPT !.issued = @ \cup {s}, !.members[w] = @ \cup {s}]
              /\ conn'[c].busy # None /\ conn'[c].busy.new = s
              /\ conn'[c].busy.cmd = conn[c].busy.cmd
<1>1. /\ conn[c].busy # None /\ conn[c].busy.cmd.op = "CreateSession" /\ left' = left
  BY DEF create_session, Calls
<1>2. PICK cmd, a, w : cmd = conn[c].busy.cmd /\ a = conn[c] /\ w = cmd.workspace
  OBVIOUS
<1>3. cmd \in Commands(Ops) /\ conn \in [Conns -> Actor] /\ BusyOK /\ a \in Actor /\ a.busy \in Busy
  BY <1>1, <1>2, UnderWay
<1>4. w \in Workspaces
  BY <1>1, <1>2, <1>3, CommandFields DEF WorkspaceOps
<1>5. PICK s \in Sessions \ cluster.issued :
        /\ cluster' = [cluster EXCEPT !.issued = @ \cup {s}, !.members[w] = @ \cup {s}]
        /\ conn' = Published([conn EXCEPT ![c].busy.at = "insert", ![c].busy.new = s],
                             WorkspaceEvent(w))
  BY <1>2 DEF create_session
<1>6. PICK y, b : y = [a.busy EXCEPT !.at = "insert", !.new = s] /\ b = [a EXCEPT !.busy = y]
  OBVIOUS
<1>7. y \in Busy /\ y.at = "insert" /\ y.new = s /\ y.cmd = cmd
  BY <1>2, <1>3, <1>6 DEF Busy
<1>8. y # None
  BY <1>7, NoCommandAssumption
<1>9. b \in Actor
  BY <1>3, <1>6, <1>7 DEF Actor
<1>10. /\ b.busy = y /\ b.outbox = a.outbox /\ b.taken = a.taken
       /\ b.sessions = a.sessions /\ b.workspaces = a.workspaces
  BY <1>3, <1>6 DEF Actor
<1>11. Advanced(a, b)
  BY <1>1, <1>2, <1>7, <1>8, <1>10 DEF Advanced, SameAccess
<1>12. Moves(conn[c], b) /\ BusyIs(b)
  BY <1>1, <1>2, <1>7, <1>10, <1>11 DEF Moves, BusyIs
<1>13. PICK k : k = [conn EXCEPT ![c] = b]
  OBVIOUS
<1>14. StepOf(c, k) /\ k[c] = b
  BY <1>3, <1>9, <1>12, <1>13, OneActor
<1>15. conn' = Published(k, WorkspaceEvent(w))
  <2>1. [conn EXCEPT ![c].busy.at = "insert", ![c].busy.new = s] = k
    BY <1>2, <1>3, <1>6, <1>13
  <2> QED BY <1>5, <2>1
<1>16. StepOf(c, conn') /\ conn'[c].busy = y
  BY <1>4, <1>10, <1>14, <1>15, PublishedStep, EventsRelayed
<1> QED BY <1>1, <1>2, <1>4, <1>5, <1>7, <1>8, <1>16

(* handle_create_session: the record. *)
LEMMA InsertStep ==
  ASSUME Typed, NEW c \in Conns, insert(c)
  PROVE  /\ StepOf(c, conn') /\ conn[c].busy # None
         /\ \/ /\ conn'[c].busy = None /\ left' = left
               /\ cluster' = [cluster EXCEPT !.records = @ \cup {conn[c].busy.new}]
               /\ conn[c].busy.new \in Sessions
            \/ /\ conn'[c].busy # None /\ conn'[c].busy.new = conn[c].busy.new
               /\ conn'[c].busy.cmd = conn[c].busy.cmd
               /\ cluster' = cluster /\ Fails
<1>1. conn[c].busy # None /\ conn[c].busy.at = "insert"
  BY DEF insert
<1>2. PICK cmd, a, s : cmd = conn[c].busy.cmd /\ a = conn[c] /\ s = conn[c].busy.new
  OBVIOUS
<1>3. cmd \in Commands(Ops) /\ conn \in [Conns -> Actor] /\ BusyOK /\ a \in Actor /\ a.busy \in Busy
  BY <1>1, <1>2, UnderWay
<1>4. cmd.op = "CreateSession" /\ s \in Sessions
  BY <1>1, <1>2, <1>3 DEF BusyOK, BusyIs
<1>5. CASE /\ cluster' = [cluster EXCEPT !.records = @ \cup {s}]
           /\ conn' = Published([Answered(c, "ok", s) EXCEPT ![c].sessions = @ \cup {s}],
                                SessionEvent(s))
           /\ UNCHANGED left
  <2>1. PICK k, r : k = Answered(c, "ok", s) /\ r = Reply(cmd, "ok", s)
    OBVIOUS
  <2>2. /\ r \in Replies /\ r.op = "CreateSession" /\ r.outcome = "ok"
        /\ r.session = s /\ r.kind = "reply"
    BY <1>3, <1>4, <2>1, ReplyFields, Kinds
  <2>3. Settled(k, c, r, a.sessions, a.workspaces)
    BY <1>2, <1>3, <2>1, <2>2, AnsweredIs
  <2>4. PICK sn, q : sn = a.sessions \cup {s} /\ q = [k EXCEPT ![c].sessions = sn]
    OBVIOUS
  <2>5. sn \in SUBSET Sessions /\ a.workspaces \in SUBSET Workspaces
    BY <1>3, <1>4, <2>4, ActorFields
  <2>6. Settled(q, c, r, sn, a.workspaces)
    BY <2>3, <2>4, <2>5, AccessOneIs
  <2>7. \A v \in sn \ a.sessions : Gives(r, SessionEvent(v))
    BY <2>2, <2>4 DEF Gives, SessionEvent
  <2>8. StepOf(c, q) /\ q[c].busy = None
    BY <1>1, <1>2, <1>3, <1>4, <2>2, <2>6, <2>7, SettledStep
  <2>9. k[c].sessions = a.sessions
    BY <2>3 DEF Settled
  <2>10. conn' = Published(q, SessionEvent(s))
    BY <1>5, <2>1, <2>4, <2>9
  <2>11. StepOf(c, conn') /\ conn'[c].busy = None
    BY <1>4, <2>8, <2>10, PublishedStep, EventsRelayed
  <2> QED BY <1>1, <1>2, <1>4, <1>5, <2>11
<1>6. CASE Fails /\ conn' = [conn EXCEPT ![c].busy.at = "detach"] /\ UNCHANGED cluster
  <2>1. PICK y, b : y = [a.busy EXCEPT !.at = "detach"] /\ b = [a EXCEPT !.busy = y]
    OBVIOUS
  <2>2. y \in Busy /\ y.at = "detach" /\ y.new = s /\ y.cmd = cmd
    BY <1>2, <1>3, <2>1 DEF Busy
  <2>3. y # None
    BY <2>2, NoCommandAssumption
  <2>4. b \in Actor
    BY <1>3, <2>1, <2>2 DEF Actor
  <2>5. /\ b.busy = y /\ b.outbox = a.outbox /\ b.taken = a.taken
        /\ b.sessions = a.sessions /\ b.workspaces = a.workspaces
    BY <1>3, <2>1 DEF Actor
  <2>6. Advanced(a, b)
    BY <1>1, <1>2, <2>2, <2>3, <2>5 DEF Advanced, SameAccess
  <2>7. Moves(conn[c], b) /\ BusyIs(b)
    BY <1>2, <1>4, <2>2, <2>5, <2>6 DEF Moves, BusyIs
  <2>8. conn' = [conn EXCEPT ![c] = b]
    BY <1>2, <1>3, <1>6, <2>1
  <2>9. StepOf(c, conn') /\ conn'[c] = b
    BY <1>3, <2>4, <2>7, <2>8, OneActor
  <2> QED BY <1>1, <1>2, <1>6, <2>2, <2>3, <2>5, <2>9
<1> QED BY <1>2, <1>5, <1>6 DEF insert

(* handle_create_session: the workspace is rid of the session again. *)
LEMMA DetachStep ==
  ASSUME Typed, NEW c \in Conns, detach(c)
  PROVE  /\ StepOf(c, conn') /\ conn[c].busy # None /\ conn'[c].busy = None
         /\ conn[c].busy.new \in Sessions /\ conn[c].busy.cmd.workspace \in Workspaces
         /\ \/ /\ left' = left
               /\ cluster' = [cluster EXCEPT
                                !.members[conn[c].busy.cmd.workspace] = @ \ {conn[c].busy.new}]
            \/ /\ Fails /\ cluster' = [cluster EXCEPT !.loose = @ \cup {conn[c].busy.new}]
<1>1. conn[c].busy # None /\ conn[c].busy.at = "detach"
  BY DEF detach
<1>2. PICK cmd, s : cmd = conn[c].busy.cmd /\ s = conn[c].busy.new
  OBVIOUS
<1>3. cmd \in Commands(Ops) /\ conn \in [Conns -> Actor] /\ BusyOK
  BY <1>1, <1>2, UnderWay
<1>4. cmd.op = "CreateSession" /\ s \in Sessions
  BY <1>1, <1>2, <1>3 DEF BusyOK, BusyIs
<1>5. cmd.workspace \in Workspaces
  BY <1>3, <1>4, CommandFields DEF WorkspaceOps
<1>6. StepOf(c, Answered(c, "failed", s)) /\ Answered(c, "failed", s)[c].busy = None
  BY <1>1, <1>4, AnsweredStep
<1>7. StepOf(c, conn') /\ conn'[c].busy = None
  BY <1>2, <1>5, <1>6, PublishedStep, EventsRelayed DEF detach
<1> QED BY <1>1, <1>2, <1>4, <1>5, <1>7 DEF detach

LEMMA NetworkStep ==
  ASSUME Typed, NEW c \in Conns, handle_network_message(c)
  PROVE  TypeOK' /\ StepOf(c, conn') /\ conn'[c].busy = conn[c].busy /\ cluster' = cluster
<1>1. /\ conn[c] \in Actor /\ conn \in [Conns -> Actor] /\ BusyOK
      /\ cluster' = cluster /\ left' = left
  BY DEF Typed, TypeOK, handle_network_message
<1>2. PICK a, e : a = conn[c] /\ e = Head(a.events)
  OBVIOUS
<1>3. /\ a.events \in Seq(Relayed) /\ a.events # <<>> /\ a.outbox \in Seq(Relayed \cup Replies)
  BY <1>1, <1>2, ActorFields DEF handle_network_message
<1>4. e \in Relayed /\ Tail(a.events) \in Seq(Relayed)
  BY <1>2, <1>3
<1>5. PICK events, outbox, b :
        /\ events = Tail(a.events)
        /\ outbox = IF Wanted(c, e) THEN Append(a.outbox, e) ELSE a.outbox
        /\ b = [a EXCEPT !.events = events, !.outbox = outbox]
  OBVIOUS
<1>6. conn' = [conn EXCEPT ![c] = b]
  BY <1>2, <1>5 DEF handle_network_message
<1>7. events \in Seq(Relayed) /\ outbox \in Seq(Relayed \cup Replies)
  BY <1>3, <1>4, <1>5
<1>8. b \in Actor
  <2>1. a \in Actor /\ b = [a EXCEPT !.events = events, !.outbox = outbox]
    BY <1>1, <1>2, <1>5
  <2> QED BY ONLY <1>7, <2>1 DEF Actor
<1>9. /\ b.busy = a.busy /\ b.taken = a.taken /\ b.outbox = outbox
      /\ b.sessions = a.sessions /\ b.workspaces = a.workspaces
  BY <1>1, <1>2, <1>5 DEF Actor
<1>10. Moves(a, b)
  <2>1. CASE Wanted(c, e)
    <3>1. outbox = Append(a.outbox, e)
      BY <1>5, <2>1
    <3>2. e.id \in (IF e.kind = "session" THEN a.sessions ELSE a.workspaces)
      BY <1>2, <2>1 DEF Wanted
    <3>3. Relays(a, b, e)
      BY <1>4, <1>9, <3>1, <3>2 DEF Relays, SameAccess
    <3> QED BY <3>3 DEF Moves
  <2>2. CASE ~Wanted(c, e)
    <3>1. Kept(a, b)
      BY <1>5, <1>9, <2>2 DEF Kept, SameAccess
    <3> QED BY <3>1 DEF Moves
  <2> QED BY <2>1, <2>2
<1>11. BusyIs(b)
  BY <1>1, <1>2, <1>9 DEF BusyIs, BusyOK
<1>12. StepOf(c, conn') /\ conn'[c] = b
  BY <1>1, <1>2, <1>6, <1>8, <1>10, <1>11, OneActor
<1> QED BY <1>1, <1>2, <1>9, <1>12 DEF StepOf, TypeOK, Typed

-----------------------------------------------------------------------------
(* Sessions and workspaces *)

(* The actor a is creating a session, and is after the step too. *)
Creating(a) == a.busy # None /\ a.busy.new # None

SameCreation(a, b) ==
  /\ Creating(a) <=> Creating(b)
  /\ Creating(a) => b.busy.new = a.busy.new /\ b.busy.cmd = a.busy.cmd

LEMMA PendingIs ==
  ASSUME Referenced, NEW w \in Workspaces, NEW s \in cluster.members[w], s \in Sessions,
         s \notin cluster.records, s \notin cluster.loose
  PROVE  \E c \in Conns : Creating(conn[c]) /\ conn[c].busy.new = s
<1>1. None \notin Sessions
  BY GatewayAssumption
<1> QED BY <1>1 DEF Referenced, ReferenceHasRecord, Creating

(* A step that creates no session and ends no creation: what it puts into  *)
(* a workspace, or takes from the records, is loose.                       *)
LEMMA QuietStep ==
  ASSUME Typed, TypeOK', Referenced,
         \A d \in Conns : SameCreation(conn[d], conn'[d]),
         cluster'.issued = cluster.issued, cluster.loose \subseteq cluster'.loose,
         cluster.records \subseteq cluster'.records \cup cluster'.loose,
         \A w \in Workspaces : cluster'.members[w] \subseteq cluster.members[w] \cup cluster'.loose
  PROVE  Referenced'
<1>1. \A w \in Workspaces : cluster.members[w] \subseteq Sessions
  BY DEF Typed, TypeOK, Cluster
<1>2. ASSUME NEW w \in Workspaces
      PROVE  cluster'.members[w] \subseteq cluster'.issued \cup cluster'.loose
  BY <1>2 DEF Referenced
<1>3. ASSUME NEW d \in Conns, Creating(conn'[d])
      PROVE  /\ conn'[d].busy.new \in cluster'.issued
             /\ \A w \in Workspaces : /\ w # conn'[d].busy.cmd.workspace
                                      /\ conn'[d].busy.new \in cluster'.members[w]
                                      => conn'[d].busy.new \in cluster'.loose
  <2>1. Creating(conn[d]) /\ conn'[d].busy.new = conn[d].busy.new /\ conn'[d].busy.cmd = conn[d].busy.cmd
    BY <1>3 DEF SameCreation
  <2>2. /\ conn[d].busy.new \in cluster.issued
        /\ \A w \in Workspaces : /\ w # conn[d].busy.cmd.workspace
                                 /\ conn[d].busy.new \in cluster.members[w]
                                 => conn[d].busy.new \in cluster.loose
    BY <2>1 DEF Referenced, Creating
  <2> QED BY <2>1, <2>2
<1>4. ASSUME NEW w \in Workspaces, NEW s \in cluster'.members[w], s \notin cluster'.records,
             s \notin cluster'.loose
      PROVE  \E c \in Conns : conn'[c].busy # None /\ conn'[c].busy.new = s
  <2>1. s \in cluster.members[w] /\ s \in Sessions /\ s \notin cluster.records /\ s \notin cluster.loose
    BY <1>1, <1>4
  <2>2. PICK d \in Conns : Creating(conn[d]) /\ conn[d].busy.new = s
    BY <2>1, PendingIs
  <2> QED BY <2>2 DEF SameCreation, Creating
<1>5. ReferenceHasRecord'
  BY <1>4 DEF ReferenceHasRecord
<1> QED BY <1>2, <1>3, <1>5 DEF Referenced, Creating

(* The session that is being created is new, and in this workspace only. *)
LEMMA CreationStarts ==
  ASSUME Typed, Referenced, NEW c \in Conns, ~Creating(conn[c]),
         NEW s \in Sessions, s \notin cluster.issued, NEW w \in Workspaces,
         Creating(conn'[c]), conn'[c].busy.new = s, conn'[c].busy.cmd.workspace = w,
         \A d \in Conns : d # c => conn'[d].busy = conn[d].busy,
         cluster'.issued = cluster.issued \cup {s}, cluster'.loose = cluster.loose,
         cluster'.records = cluster.records, cluster'.members[w] = cluster.members[w] \cup {s},
         \A v \in Workspaces : v # w => cluster'.members[v] = cluster.members[v]
  PROVE  Referenced'
<1>1. \A v \in Workspaces : cluster.members[v] \subseteq Sessions
  BY DEF Typed, TypeOK, Cluster
<1>2. \A v \in Workspaces : cluster'.members[v] \subseteq cluster.members[v] \cup {s}
  OBVIOUS
<1>3. \A v \in Workspaces : cluster'.members[v] \subseteq cluster'.issued \cup cluster'.loose
  BY <1>2 DEF Referenced
<1>4. ASSUME NEW d \in Conns, Creating(conn'[d])
      PROVE  /\ conn'[d].busy.new \in cluster'.issued
             /\ \A v \in Workspaces : /\ v # conn'[d].busy.cmd.workspace
                                      /\ conn'[d].busy.new \in cluster'.members[v]
                                      => conn'[d].busy.new \in cluster'.loose
  <2>1. CASE d = c
    <3>1. \A v \in Workspaces : v # w /\ s \in cluster'.members[v] => s \in cluster'.loose
      BY DEF Referenced
    <3> QED BY <2>1, <3>1
  <2>2. CASE d # c
    <3>1. conn'[d].busy = conn[d].busy /\ Creating(conn[d])
      BY <1>4, <2>2 DEF Creating
    <3>2. /\ conn[d].busy.new \in cluster.issued
          /\ \A v \in Workspaces : /\ v # conn[d].busy.cmd.workspace
                                   /\ conn[d].busy.new \in cluster.members[v]
                                   => conn[d].busy.new \in cluster.loose
      BY <3>1 DEF Referenced, Creating
    <3>3. conn[d].busy.new # s
      BY <3>2
    <3> QED BY <1>2, <3>1, <3>2, <3>3
  <2> QED BY <2>1, <2>2
<1>5. ASSUME NEW v \in Workspaces, NEW x \in cluster'.members[v], x \notin cluster'.records,
             x \notin cluster'.loose
      PROVE  \E d \in Conns : conn'[d].busy # None /\ conn'[d].busy.new = x
  <2>1. CASE x = s
    BY <2>1 DEF Creating
  <2>2. CASE x # s
    <3>1. x \in cluster.members[v] /\ x \in Sessions /\ x \notin cluster.records /\ x \notin cluster.loose
      BY <1>1, <1>2, <1>5, <2>2
    <3>2. PICK d \in Conns : Creating(conn[d]) /\ conn[d].busy.new = x
      BY <3>1, PendingIs
    <3>3. d # c
      BY <3>2
    <3> QED BY <3>2, <3>3 DEF Creating
  <2> QED BY <2>1, <2>2
<1>6. ReferenceHasRecord'
  BY <1>5 DEF ReferenceHasRecord
<1> QED BY <1>3, <1>4, <1>6 DEF Referenced, Creating

(* The session has its record, or is in no workspace but loose. *)
LEMMA CreationEnds ==
  ASSUME Typed, Referenced, NEW c \in Conns, Creating(conn[c]),
         NEW s, s = conn[c].busy.new, conn'[c].busy = None,
         \A d \in Conns : d # c => conn'[d].busy = conn[d].busy,
         cluster'.issued = cluster.issued, cluster.loose \subseteq cluster'.loose,
         cluster.records \subseteq cluster'.records,
         \A v \in Workspaces : cluster'.members[v] \subseteq cluster.members[v],
         \/ s \in cluster'.records \/ s \in cluster'.loose
         \/ s \notin cluster'.members[conn[c].busy.cmd.workspace]
  PROVE  Referenced'
<1>1. \A v \in Workspaces : cluster.members[v] \subseteq Sessions
  BY DEF Typed, TypeOK, Cluster
<1>2. \A v \in Workspaces : cluster'.members[v] \subseteq cluster'.issued \cup cluster'.loose
  BY DEF Referenced
<1>3. ASSUME NEW d \in Conns, Creating(conn'[d])
      PROVE  /\ conn'[d].busy.new \in cluster'.issued
             /\ \A v \in Workspaces : /\ v # conn'[d].busy.cmd.workspace
                                      /\ conn'[d].busy.new \in cluster'.members[v]
                                      => conn'[d].busy.new \in cluster'.loose
  <2>1. d # c /\ conn'[d].busy = conn[d].busy /\ Creating(conn[d])
    BY <1>3 DEF Creating
  <2>2. /\ conn[d].busy.new \in cluster.issued
        /\ \A v \in Workspaces : /\ v # conn[d].busy.cmd.workspace
                                 /\ conn[d].busy.new \in cluster.members[v]
                                 => conn[d].busy.new \in cluster.loose
    BY <2>1 DEF Referenced, Creating
  <2> QED BY <2>1, <2>2
<1>4. ASSUME NEW v \in Workspaces, NEW x \in cluster'.members[v], x \notin cluster'.records,
             x \notin cluster'.loose
      PROVE  \E d \in Conns : conn'[d].busy # None /\ conn'[d].busy.new = x
  <2>1. x \in cluster.members[v] /\ x \in Sessions /\ x \notin cluster.records /\ x \notin cluster.loose
    BY <1>1, <1>4
  <2>2. PICK d \in Conns : Creating(conn[d]) /\ conn[d].busy.new = x
    BY <2>1, PendingIs
  <2>3. x # s
    <3> SUFFICES ASSUME x = s PROVE FALSE
      OBVIOUS
    <3>1. v # conn[c].busy.cmd.workspace
      BY <1>4
    <3>2. s \in cluster.loose
      BY <2>1, <3>1 DEF Referenced, Creating
    <3> QED BY <1>4, <3>2
  <2>4. d # c
    BY <2>2, <2>3
  <2> QED BY <2>2, <2>4 DEF Creating
<1>5. ReferenceHasRecord'
  BY <1>4 DEF ReferenceHasRecord
<1> QED BY <1>2, <1>3, <1>5 DEF Referenced, Creating

-----------------------------------------------------------------------------
(* The invariant *)

LEMMA SameCreations ==
  ASSUME NEW c \in Conns, StepOf(c, conn'),
         \/ conn'[c].busy = conn[c].busy
         \/ ~Creating(conn[c]) /\ ~Creating(conn'[c])
  PROVE  \A d \in Conns : SameCreation(conn[d], conn'[d])
  BY DEF StepOf, SameCreation, Creating

(* A call of its own creates nothing yet. *)
LEMMA CallCreatesNothing ==
  ASSUME Typed, NEW c \in Conns, NEW ops, Calls(c, ops)
  PROVE  ~Creating(conn[c])
<1>1. BusyIs(conn[c])
  BY DEF Typed, BusyOK
<1> QED BY <1>1 DEF BusyIs, Creating, Calls

LEMMA Unchanged ==
  ASSUME Typed, TypeOK', Referenced, cluster' = cluster,
         \A d \in Conns : SameCreation(conn[d], conn'[d])
  PROVE  Referenced'
  BY QuietStep

LEMMA WriteKeeps ==
  ASSUME Typed, Referenced, NEW c \in Conns,
         write_session(c) \/ remove_session(c) \/ write_workspace(c)
  PROVE  TypeOK' /\ StepOf(c, conn') /\ Referenced'
<1>1. StepOf(c, conn') /\ conn'[c].busy = None /\ conn[c].busy # None /\ left' = left
  BY WriteStep
<1>2. ~Creating(conn[c]) /\ ~Creating(conn'[c])
  BY <1>1, CallCreatesNothing DEF write_session, remove_session, write_workspace, Creating
<1>3. \A d \in Conns : SameCreation(conn[d], conn'[d])
  BY <1>1, <1>2, SameCreations
<1>4. PICK cmd, x : cmd = conn[c].busy.cmd /\ x = cluster
  OBVIOUS
<1>5. cmd \in Commands(Ops) /\ x \in Cluster
  BY <1>1, <1>4, UnderWay DEF Typed, TypeOK
<1>6. /\ cluster' \in Cluster
      /\ cluster'.issued = cluster.issued /\ cluster.loose \subseteq cluster'.loose
      /\ cluster.records \subseteq cluster'.records \cup cluster'.loose
      /\ \A w \in Workspaces : cluster'.members[w] \subseteq cluster.members[w] \cup cluster'.loose
  <2>1. CASE write_session(c)
    BY <1>4, <1>5, <2>1 DEF write_session
  <2>2. CASE remove_session(c)
    <3>1. cmd.session \in Sessions
      BY <1>4, <1>5, <2>2, CommandFields DEF remove_session, Calls, SessionOps
    <3>2. cluster' = [x EXCEPT !.records = @ \ {cmd.session}, !.loose = @ \cup {cmd.session}]
      BY <1>4, <2>2 DEF remove_session
    <3> QED BY <1>4, <1>5, <3>1, <3>2 DEF Cluster
  <2>3. CASE write_workspace(c)
    <3>1. cmd.op \in {"PatchWorkspaceVars", "RemoveWorkspace"} \cup MemberOps
      BY <1>4, <2>3 DEF write_workspace, Calls
    <3>2. cmd.workspace \in Workspaces
      BY <1>5, <3>1, CommandFields DEF WorkspaceOps
    <3>3. cmd.op = "AddSessionToWorkspace" => cmd.session \in Sessions
      BY <1>5, CommandFields DEF MemberOps
    <3>4. PICK new, loose, workspaces :
            /\ new = CASE cmd.op = "AddSessionToWorkspace" -> x.members[cmd.workspace] \cup {cmd.session}
                       [] cmd.op = "RemoveSessionFromWorkspace" -> x.members[cmd.workspace] \ {cmd.session}
                       [] cmd.op = "RemoveWorkspace" -> {}
                       [] OTHER -> x.members[cmd.workspace]
            /\ loose = IF cmd.op = "AddSessionToWorkspace" THEN x.loose \cup {cmd.session} ELSE x.loose
            /\ workspaces = IF cmd.op = "RemoveWorkspace" THEN x.workspaces \ {cmd.workspace}
                            ELSE x.workspaces
      OBVIOUS
    <3>5. cluster' = [x EXCEPT !.members[cmd.workspace] = new, !.loose = loose,
                               !.workspaces = workspaces]
      BY <1>4, <2>3, <3>4 DEF write_workspace
    <3>6. /\ x.members \in [Workspaces -> SUBSET Sessions] /\ x.loose \subseteq Sessions
          /\ x.workspaces \subseteq Workspaces
      BY <1>5 DEF Cluster
    <3>7. loose \subseteq Sessions /\ workspaces \subseteq Workspaces /\ x.loose \subseteq loose
      BY <3>3, <3>4, <3>6
    <3>8. new \subseteq Sessions /\ new \subseteq x.members[cmd.workspace] \cup loose
      <4>1. CASE cmd.op = "AddSessionToWorkspace"
        BY <3>2, <3>3, <3>4, <3>6, <4>1
      <4>2. CASE cmd.op # "AddSessionToWorkspace"
        BY <3>2, <3>4, <3>6, <4>2
      <4> QED BY <4>1, <4>2
    <3>9. PICK m : m = [x.members EXCEPT ![cmd.workspace] = new]
      OBVIOUS
    <3>10. /\ m \in [Workspaces -> SUBSET Sessions]
           /\ \A w \in Workspaces : m[w] \subseteq x.members[w] \cup loose
      BY <3>2, <3>6, <3>8, <3>9
    <3>11. cluster' = [x EXCEPT !.members = m, !.loose = loose, !.workspaces = workspaces]
      BY <3>5, <3>9
    <3>12. /\ cluster' \in Cluster /\ cluster'.issued = x.issued /\ cluster'.loose = loose
           /\ cluster'.records = x.records /\ cluster'.members = m
      BY <1>5, <3>7, <3>10, <3>11 DEF Cluster
    <3> QED BY <1>4, <3>7, <3>10, <3>12
  <2> QED BY <2>1, <2>2, <2>3
<1>7. TypeOK'
  BY <1>1, <1>6 DEF TypeOK, Typed, StepOf
<1> QED BY <1>1, <1>3, <1>6, <1>7, QuietStep

LEMMA CreateWorkspaceKeeps ==
  ASSUME Typed, Referenced, NEW c \in Conns, create_workspace(c)
  PROVE  TypeOK' /\ StepOf(c, conn') /\ Referenced'
<1>1. StepOf(c, conn') /\ conn'[c].busy = None /\ left' = left
  BY CreateWorkspaceStep
<1>2. ~Creating(conn[c]) /\ ~Creating(conn'[c])
  BY <1>1, CallCreatesNothing DEF create_workspace, Creating
<1>3. \A d \in Conns : SameCreation(conn[d], conn'[d])
  BY <1>1, <1>2, SameCreations
<1>4. PICK w, x : w = conn[c].busy.cmd.workspace /\ x = cluster
  OBVIOUS
<1>5. w \in Workspaces /\ x \in Cluster
  BY <1>4, UnderWay, CommandFields DEF create_workspace, Calls, Typed, TypeOK
<1>6. cluster' = [x EXCEPT !.workspaces = @ \cup {w}]
  BY <1>4 DEF create_workspace
<1>7. /\ cluster' \in Cluster /\ cluster'.issued = x.issued /\ cluster'.loose = x.loose
      /\ cluster'.records = x.records /\ cluster'.members = x.members
  BY <1>5, <1>6 DEF Cluster
<1>8. TypeOK'
  BY <1>1, <1>7 DEF TypeOK, Typed, StepOf
<1> QED BY <1>1, <1>3, <1>4, <1>7, <1>8, QuietStep

LEMMA CreateSessionKeeps ==
  ASSUME Typed, Referenced, NEW c \in Conns, create_session(c)
  PROVE  TypeOK' /\ StepOf(c, conn') /\ Referenced'
<1>1. PICK s \in Sessions \ cluster.issued, w \in Workspaces :
        /\ StepOf(c, conn') /\ left' = left
        /\ w = conn[c].busy.cmd.workspace
        /\ cluster' = [cluster EXCEPT !.issued = @ \cup {s}, !.members[w] = @ \cup {s}]
        /\ conn'[c].busy # None /\ conn'[c].busy.new = s
        /\ conn'[c].busy.cmd = conn[c].busy.cmd
  BY CreateSessionStep
<1>2. ~Creating(conn[c])
  BY CallCreatesNothing DEF create_session
<1>3. Creating(conn'[c])
  BY <1>1, GatewayAssumption DEF Creating
<1>4. PICK x, m : x = cluster /\ m = [x.members EXCEPT ![w] = @ \cup {s}]
  OBVIOUS
<1>5. x \in Cluster /\ x.members \in [Workspaces -> SUBSET Sessions]
  BY <1>4 DEF Typed, TypeOK, Cluster
<1>6. /\ m \in [Workspaces -> SUBSET Sessions] /\ m[w] = x.members[w] \cup {s}
      /\ \A v \in Workspaces : v # w => m[v] = x.members[v]
  BY <1>4, <1>5
<1>7. cluster' = [x EXCEPT !.issued = @ \cup {s}, !.members = m]
  BY <1>1, <1>4
<1>8. /\ cluster' \in Cluster /\ cluster'.issued = x.issued \cup {s} /\ cluster'.loose = x.loose
      /\ cluster'.records = x.records /\ cluster'.members = m
  BY <1>5, <1>6, <1>7 DEF Cluster
<1>9. TypeOK'
  BY <1>1, <1>8 DEF TypeOK, Typed, StepOf
<1>10. \A d \in Conns : d # c => conn'[d].busy = conn[d].busy
  BY <1>1 DEF StepOf
<1>11. /\ cluster'.issued = cluster.issued \cup {s} /\ cluster'.loose = cluster.loose
       /\ cluster'.records = cluster.records
       /\ cluster'.members[w] = cluster.members[w] \cup {s}
       /\ \A v \in Workspaces : v # w => cluster'.members[v] = cluster.members[v]
       /\ s \in Sessions /\ s \notin cluster.issued /\ conn'[c].busy.new = s
       /\ conn'[c].busy.cmd.workspace = w
  BY <1>1, <1>4, <1>6, <1>8
<1>12. Referenced'
  BY <1>2, <1>3, <1>10, <1>11, CreationStarts
<1> QED BY <1>1, <1>9, <1>12

LEMMA InsertKeeps ==
  ASSUME Typed, Referenced, NEW c \in Conns, insert(c)
  PROVE  TypeOK' /\ StepOf(c, conn') /\ Referenced'
<1>1. /\ StepOf(c, conn') /\ conn[c].busy # None
      /\ \/ /\ conn'[c].busy = None /\ left' = left
            /\ cluster' = [cluster EXCEPT !.records = @ \cup {conn[c].busy.new}]
            /\ conn[c].busy.new \in Sessions
         \/ /\ conn'[c].busy # None /\ conn'[c].busy.new = conn[c].busy.new
            /\ conn'[c].busy.cmd = conn[c].busy.cmd
            /\ cluster' = cluster /\ Fails
  BY InsertStep
<1>2. \A d \in Conns : d # c => conn'[d].busy = conn[d].busy
  BY <1>1 DEF StepOf
<1>3. CASE conn'[c].busy = None
  <2>1. PICK s, x : s = conn[c].busy.new /\ x = cluster
    OBVIOUS
  <2>2. s \in Sessions /\ s # None /\ x \in Cluster /\ cluster' = [x EXCEPT !.records = @ \cup {s}]
    BY <1>1, <1>3, <2>1, GatewayAssumption DEF Typed, TypeOK
  <2>3. /\ cluster' \in Cluster /\ cluster'.issued = x.issued /\ cluster'.loose = x.loose
        /\ cluster'.records = x.records \cup {s} /\ cluster'.members = x.members
    BY <2>2 DEF Cluster
  <2>4. TypeOK'
    BY <1>1, <1>3, <2>3 DEF TypeOK, Typed, StepOf
  <2>5. Creating(conn[c])
    BY <1>1, <2>1, <2>2 DEF Creating
  <2>6. Referenced'
    BY <1>2, <1>3, <2>1, <2>3, <2>5, CreationEnds
  <2> QED BY <1>1, <2>4, <2>6
<1>4. CASE conn'[c].busy # None
  <2>1. cluster' = cluster /\ left' \in [ops : SUBSET Ops, commands : Nat, fail : Nat, ends : Nat]
    BY <1>1, <1>4 DEF Fails, Typed, TypeOK
  <2>2. TypeOK'
    BY <1>1, <2>1 DEF TypeOK, Typed, StepOf
  <2>3. \A d \in Conns : SameCreation(conn[d], conn'[d])
    BY <1>1, <1>2, <1>4 DEF SameCreation, Creating
  <2> QED BY <1>1, <2>1, <2>2, <2>3, Unchanged
<1> QED BY <1>3, <1>4

LEMMA DetachKeeps ==
  ASSUME Typed, Referenced, NEW c \in Conns, detach(c)
  PROVE  TypeOK' /\ StepOf(c, conn') /\ Referenced'
<1>1. PICK s, w, x : s = conn[c].busy.new /\ w = conn[c].busy.cmd.workspace /\ x = cluster
  OBVIOUS
<1>2. /\ StepOf(c, conn') /\ conn[c].busy # None /\ conn'[c].busy = None
      /\ s \in Sessions /\ w \in Workspaces
      /\ \/ left' = left /\ cluster' = [x EXCEPT !.members[w] = @ \ {s}]
         \/ Fails /\ cluster' = [x EXCEPT !.loose = @ \cup {s}]
  BY <1>1, DetachStep
<1>3. \A d \in Conns : d # c => conn'[d].busy = conn[d].busy
  BY <1>2 DEF StepOf
<1>4. Creating(conn[c])
  BY <1>1, <1>2, GatewayAssumption DEF Creating
<1>5. left' \in [ops : SUBSET Ops, commands : Nat, fail : Nat, ends : Nat]
  BY <1>2 DEF Fails, Typed, TypeOK
<1>6. x \in Cluster /\ x.members \in [Workspaces -> SUBSET Sessions]
  BY <1>1 DEF Typed, TypeOK, Cluster
<1>7. /\ cluster' \in Cluster /\ cluster'.issued = x.issued /\ x.loose \subseteq cluster'.loose
      /\ cluster'.records = x.records
      /\ \A v \in Workspaces : cluster'.members[v] \subseteq x.members[v]
      /\ s \in cluster'.loose \/ s \notin cluster'.members[w]
  <2>1. CASE cluster' = [x EXCEPT !.members[w] = @ \ {s}]
    <3>1. PICK m : m = [x.members EXCEPT ![w] = @ \ {s}]
      OBVIOUS
    <3>2. /\ m \in [Workspaces -> SUBSET Sessions] /\ s \notin m[w]
          /\ \A v \in Workspaces : m[v] \subseteq x.members[v]
      BY <1>2, <1>6, <3>1
    <3>3. cluster' = [x EXCEPT !.members = m]
      BY <2>1, <3>1
    <3>4. /\ cluster' \in Cluster /\ cluster'.issued = x.issued /\ cluster'.loose = x.loose
          /\ cluster'.records = x.records /\ cluster'.members = m
      BY <1>6, <3>2, <3>3 DEF Cluster
    <3> QED BY <3>2, <3>4
  <2>2. CASE cluster' = [x EXCEPT !.loose = @ \cup {s}]
    BY <1>2, <1>6, <2>2 DEF Cluster
  <2> QED BY <1>2, <2>1, <2>2
<1>8. TypeOK'
  BY <1>2, <1>5, <1>7 DEF TypeOK, StepOf
<1>9. Referenced'
  <2>1. /\ cluster'.issued = cluster.issued /\ cluster.loose \subseteq cluster'.loose
        /\ cluster.records \subseteq cluster'.records
        /\ \A v \in Workspaces : cluster'.members[v] \subseteq cluster.members[v]
        /\ s \in cluster'.loose \/ s \notin cluster'.members[conn[c].busy.cmd.workspace]
    BY <1>1, <1>7
  <2>2. s = conn[c].busy.new /\ conn'[c].busy = None
    BY <1>1, <1>2
  <2> QED BY <1>3, <1>4, <2>1, <2>2, CreationEnds
<1> QED BY <1>2, <1>8, <1>9

LEMMA GatewayStarts == Init => GatewayInv
<1> SUFFICES ASSUME Init PROVE GatewayInv
  OBVIOUS
<1>1. \A c \in Conns : conn[c] = create(c)
  BY DEF Init
<1>2. ASSUME NEW c \in Conns PROVE create(c) \in Actor
  <2>1. /\ <<>> \in Seq(Commands(Ops)) /\ <<>> \in Seq(Relayed \cup Replies)
        /\ <<>> \in Seq(Relayed)
    OBVIOUS
  <2> QED BY <2>1 DEF create, Actor
<1>3. PICK R : R = UNION Range(Stored)
  OBVIOUS
<1>4. /\ R \subseteq Sessions /\ \A w \in Workspaces : Stored[w] \subseteq R
      /\ Stored \in [Workspaces -> SUBSET Sessions]
  BY <1>3, GatewayAssumption DEF Range
<1>5. cluster = [records |-> R, issued |-> R, workspaces |-> {w \in Workspaces : Stored[w] # {}},
                 members |-> Stored, loose |-> {}]
  BY <1>3 DEF Init
<1>6. /\ cluster \in Cluster /\ cluster.records = R /\ cluster.issued = R
      /\ cluster.members = Stored /\ cluster.loose = {}
  BY <1>4, <1>5 DEF Cluster
<1>7. conn \in [Conns -> Actor]
  BY <1>2 DEF Init
<1>8. left \in [ops : SUBSET Ops, commands : Nat, fail : Nat, ends : Nat]
  BY GatewayAssumption DEF Init
<1>9. ASSUME NEW c \in Conns
      PROVE  /\ conn[c].busy = None /\ conn[c].outbox = <<>> /\ conn[c].taken = <<>>
             /\ conn[c].sessions = {} /\ conn[c].workspaces = {}
  BY <1>1 DEF create
<1>10. Typed
  BY <1>6, <1>7, <1>8, <1>9 DEF Typed, TypeOK, BusyOK, BusyIs
<1>11. Referenced
  BY <1>4, <1>6, <1>9 DEF Referenced, ReferenceHasRecord
<1>12. ASSUME NEW c \in Conns PROVE Ordered(conn[c]) /\ Earned(conn[c])
  <2>1. DOMAIN conn[c].outbox = {} /\ Len(conn[c].taken) = 0
    BY <1>9
  <2>2. Places(conn[c].outbox) = {} /\ Cardinality({}) = 0
    BY <2>1, FS_EmptySet DEF Places
  <2>3. Ordered(conn[c])
    BY <1>9, <2>1, <2>2 DEF Ordered, InOrder
  <2>4. Earned(conn[c])
    BY <1>9, <2>1 DEF Earned
  <2> QED BY <2>3, <2>4
<1> QED BY <1>10, <1>11, <1>12 DEF GatewayInv

LEMMA NextKeeps ==
  ASSUME Typed, Referenced, NEW c \in Conns,
         send_command(c) \/ close(c) \/ shutdown(c) \/ run(c)
  PROVE  TypeOK' /\ StepOf(c, conn') /\ Referenced'
<1>1. CASE send_command(c)
  <2>1. TypeOK' /\ StepOf(c, conn') /\ conn'[c].busy = conn[c].busy /\ cluster' = cluster
    BY <1>1, SendStep DEF send_command
  <2> QED BY <2>1, SameCreations, Unchanged
<1>2. CASE close(c) \/ shutdown(c) \/ stop(c)
  <2>1. TypeOK' /\ StepOf(c, conn') /\ conn'[c].busy = conn[c].busy /\ cluster' = cluster
    BY <1>2, EndStep DEF close, shutdown, stop
  <2> QED BY <2>1, SameCreations, Unchanged
<1>3. CASE handle_command(c)
  <2>1. /\ TypeOK' /\ StepOf(c, conn') /\ cluster' = cluster
        /\ ~Creating(conn[c]) /\ ~Creating(conn'[c])
    BY <1>3, HandleCommandStep DEF handle_command, Creating
  <2> QED BY <2>1, SameCreations, Unchanged
<1>4. CASE handle_network_message(c)
  BY <1>4, NetworkStep, SameCreations, Unchanged
<1>5. CASE call_failed(c) \/ read(c) \/ call_refused(c)
  <2>1. /\ TypeOK' /\ StepOf(c, conn') /\ cluster' = cluster
        /\ ~Creating(conn[c]) /\ ~Creating(conn'[c])
    BY <1>5, PlainStep, CallCreatesNothing DEF call_failed, read, call_refused, Creating
  <2> QED BY <2>1, SameCreations, Unchanged
<1>6. CASE check(c)
  <2>1. /\ TypeOK' /\ StepOf(c, conn') /\ cluster' = cluster
        /\ ~Creating(conn[c]) /\ ~Creating(conn'[c])
    BY <1>6, CheckStep, CallCreatesNothing DEF check, Creating
  <2> QED BY <2>1, SameCreations, Unchanged
<1>7. CASE write_session(c) \/ remove_session(c) \/ write_workspace(c)
  BY <1>7, WriteKeeps
<1>8. CASE create_workspace(c)
  BY <1>8, CreateWorkspaceKeeps
<1>9. CASE create_session(c)
  BY <1>9, CreateSessionKeeps
<1>10. CASE insert(c)
  BY <1>10, InsertKeeps
<1>11. CASE detach(c)
  BY <1>11, DetachKeeps
<1> QED BY <1>1, <1>2, <1>3, <1>4, <1>5, <1>6, <1>7, <1>8, <1>9, <1>10, <1>11 DEF run, Call

LEMMA GatewayContinues == GatewayInv /\ [Next]_vars => GatewayInv'
<1> SUFFICES ASSUME GatewayInv, [Next]_vars PROVE GatewayInv'
  OBVIOUS
<1>1. CASE Next
  <2>1. PICK c \in Conns : send_command(c) \/ close(c) \/ shutdown(c) \/ run(c)
    BY <1>1 DEF Next
  <2>2. TypeOK' /\ StepOf(c, conn') /\ Referenced'
    BY <2>1, NextKeeps DEF GatewayInv
  <2>3. BusyOK'
    BY <2>2 DEF StepOf, BusyOK
  <2>4. ASSUME NEW d \in Conns PROVE Ordered(conn'[d]) /\ Earned(conn'[d])
    <3>1. conn[d] \in Actor /\ Ordered(conn[d]) /\ Earned(conn[d])
      BY DEF GatewayInv, Typed, TypeOK
    <3>2. conn'[d] \in Actor /\ Moves(conn[d], conn'[d])
      BY <2>2 DEF StepOf
    <3> QED BY <3>1, <3>2, MovesKeepOrder, MovesKeepAccess
  <2> QED BY <2>2, <2>3, <2>4 DEF GatewayInv, Typed
<1>2. CASE UNCHANGED vars
  BY <1>2 DEF vars, GatewayInv, Typed, TypeOK, BusyOK, Referenced, ReferenceHasRecord
<1> QED BY <1>1, <1>2

LEMMA GatewayIsSound == Spec => []GatewayInv
  BY GatewayStarts, GatewayContinues, PTL DEF Spec

(* Every event that an actor of the gateway relays follows, on the same    *)
(* connection, the reply that gave access to its session or workspace, for *)
(* any number of connections and any interleaving of their commands.       *)
THEOREM NothingIsRelayedUngranted == Spec => []RelayedAfterGrant
<1>1. GatewayInv => RelayedAfterGrant
  BY DEF GatewayInv, Earned, RelayedAfterGrant, Gave
<1> QED BY <1>1, GatewayIsSound, PTL

(* An actor of the gateway answers each command it took exactly once and   *)
(* in the order it took them, whatever it relays in between and whatever   *)
(* fails: a client may match answers to commands by counting.              *)
THEOREM RepliesMatchCommands == Spec => []RepliesInOrder
<1>1. ASSUME GatewayInv, NEW c \in Conns
      PROVE  /\ Len(conn[c].taken) - Cardinality(Answers(c)) = IF conn[c].busy = None THEN 0 ELSE 1
             /\ \A i \in Answers(c) :
                  conn[c].outbox[i].op = conn[c].taken[Cardinality({j \in Answers(c) : j <= i})].op
  <2>1. PICK P : P = Places(conn[c].outbox)
    OBVIOUS
  <2>2. Answers(c) = P
    BY <2>1 DEF Answers, Places
  <2>3. /\ Len(conn[c].taken) = Cardinality(P) + IF conn[c].busy = None THEN 0 ELSE 1
        /\ \A i \in P : conn[c].outbox[i].op = conn[c].taken[Cardinality({j \in P : j <= i})].op
    BY <1>1, <2>1 DEF GatewayInv, Ordered, InOrder
  <2>4. conn[c].outbox \in Seq(Relayed \cup Replies) /\ P \subseteq 1..Len(conn[c].outbox)
    BY <1>1, <2>1, ActorFields DEF GatewayInv, Typed, TypeOK, Places
  <2>5. Cardinality(P) \in Nat
    <3>1. Len(conn[c].outbox) \in Nat
      BY <2>4
    <3> QED BY <2>4, <3>1, PlacesFinite
  <2> QED BY <2>2, <2>3, <2>5
<1>2. GatewayInv => RepliesInOrder
  BY <1>1 DEF RepliesInOrder
<1> QED BY <1>2, GatewayIsSound, PTL

(* A workspace names a session without a record only while an actor is     *)
(* creating it, or once the session was removed, added by its name, or     *)
(* both its insertion and the compensation failed: handle_create_session,  *)
(* interleaved with the calls of any number of other actors.               *)
THEOREM ReferencesAreSound == Spec => []ReferenceHasRecord
<1>1. GatewayInv => ReferenceHasRecord
  BY DEF GatewayInv, Referenced
<1> QED BY <1>1, GatewayIsSound, PTL

=============================================================================
