--------------------------- MODULE FrameTreeProofs ---------------------------
(***************************************************************************)
(* What is proved about the frame tree, for any number of frames.  As the  *)
(* properties do, the theorems about links and removals speak of the tree  *)
(* that was never reloaded; that walks end is proved of every tree.        *)
(***************************************************************************)
EXTENDS FrameTree, TLAPS, FiniteSetTheorems, WellFoundedInduction

Arena == [Frame -> FrameNode \cup {Absent}]

(* The links of the loaded frames, in the form that every step keeps: no   *)
(* sibling or child of a loaded frame is missing, and the list of children *)
(* decides the neighbours.  Only a parent may be gone: remove takes it     *)
(* before its children.                                                    *)
SiblingsKnow(a) ==
  \A f \in Loaded(a) :
    /\ a[f].next_sibling # NoFrame =>
         a[f].next_sibling \in Loaded(a) /\ a[a[f].next_sibling].prev_sibling = f
    /\ a[f].prev_sibling # NoFrame =>
         a[f].prev_sibling \in Loaded(a) /\ a[a[f].prev_sibling].next_sibling = f

ChildrenKnow(a) ==
  \A f \in Loaded(a) : \A i \in DOMAIN a[f].children :
    /\ a[f].children[i] \in Loaded(a)
    /\ a[a[f].children[i]].parent = f
    /\ a[a[f].children[i]].prev_sibling = At(a[f].children, i - 1)
    /\ a[a[f].children[i]].next_sibling = At(a[f].children, i + 1)
    /\ \A j \in DOMAIN a[f].children : a[f].children[i] = a[f].children[j] => i = j

ParentsKnow(a) ==
  \A f \in Loaded(a) : a[f].parent \in Loaded(a) =>
    \E i \in DOMAIN a[a[f].parent].children : a[a[f].parent].children[i] = f

(* A parent is older than its children; rank is the age of a frame. *)
Older(a, u, rank) ==
  \A f \in Loaded(a) :
    /\ a[f].parent \in u \cup {NoFrame}
    /\ a[f].parent \in Loaded(a) => rank[a[f].parent] < rank[f]

Linked(a) == SiblingsKnow(a) /\ ChildrenKnow(a) /\ ParentsKnow(a)

Aged(a, u) == \E rank \in [Frame -> Nat] : Older(a, u, rank)

(* f is on the stack of a remove. *)
OnStack(stk, f) == \E k \in 1..Len(stk) : stk[k] = f

(* What is on s of the frames of fs is on t too. *)
Carried(fs, s, t) == \A f \in fs : OnStack(s, f) => OnStack(t, f)

(* b has the parents of a, and id under parent. *)
Adopted(a, b, id, parent) ==
  b[id].parent = parent /\ \A f \in Loaded(a) : b[f].parent = a[f].parent

(* No loaded frame is out of sight: it is a root, still hangs under the    *)
(* loaded frame it was created under, is on the stack of the remove under  *)
(* way, or was on the stack of one that failed.                            *)
Covered(a, bn, ms, stk) ==
  \A f \in Loaded(a) :
    \/ f \in ms \/ OnStack(stk, f)
    \/ bn[f] = NoFrame
    \/ bn[f] \in Loaded(a) /\ a[f].parent = bn[f]

FirstTree ==
  /\ arena \in Arena /\ store \in Arena
  /\ used \subseteq Frame
  /\ writes = {}
  /\ Loaded(store) \subseteq Loaded(arena) /\ Loaded(arena) \subseteq used
  /\ Linked(arena) /\ Aged(arena, used)
  /\ stack \in Seq(Frame) /\ removing \in Link
  /\ origin \in [Frame -> Link] /\ missed \subseteq Frame
  /\ \A f \in Frame \ used : origin[f] = NoFrame
  /\ Covered(arena, origin, missed, stack)
  /\ stack # <<>> => removing \in Frame /\ (removing \in Loaded(arena) => OnStack(stack, removing))

TreeInv == reopens \in Nat /\ (reopens = 0 => FirstTree)

-----------------------------------------------------------------------------
(* A non-empty set of numbers has a least one. *)
LEMMA LeastElement ==
  ASSUME NEW T \in SUBSET Nat, T # {}
  PROVE  \E x \in T : \A y \in T : x <= y
<1> DEFINE R == OpToRel(<, Nat)
<1>1. IsWellFoundedOn(R, Nat)
  BY NatLessThanWellFounded
<1>2. PICK x \in T : \A y \in T : ~(<<y, x>> \in R)
  <2> HIDE DEF R
  <2> QED BY <1>1, WFMin
<1>3. ASSUME NEW y \in T PROVE x <= y
  <2>1. ~(<<y, x>> \in R)
    BY <1>2
  <2>2. ~(y < x)
    BY <2>1 DEF OpToRel
  <2> QED BY <2>2
<1> QED BY <1>3

(* A set that has 0, and the successor of each of its elements below n,    *)
(* has every number up to n: induction, without an operator parameter.     *)
LEMMA UpTo ==
  ASSUME NEW n \in Nat, NEW P,
         0 \in P, \A k \in 0..n-1 : k \in P => k + 1 \in P
  PROVE  \A k \in 0..n : k \in P
<1> DEFINE T == {k \in Nat : k <= n /\ k \notin P}
<1> SUFFICES ASSUME T # {} PROVE FALSE
  OBVIOUS
<1>1. PICK x \in T : \A y \in T : x <= y
  <2>1. T \in SUBSET Nat
    OBVIOUS
  <2> HIDE DEF T
  <2> QED BY <2>1, LeastElement
<1>2. x \in Nat /\ x <= n /\ x \notin P
  BY <1>1
<1>3. x # 0
  BY <1>2
<1>4. x - 1 \in 0..n-1 /\ (x - 1) + 1 = x
  BY <1>2, <1>3
<1>5. x - 1 \notin T
  BY <1>1, <1>4
<1>6. x - 1 \in P
  BY <1>4, <1>5
<1> QED BY <1>2, <1>4, <1>6

(* A list without the one occurrence of id. *)
Without(s, p) == [k \in 1..Len(s)-1 |-> IF k < p THEN s[k] ELSE s[k + 1]]

LEMMA AppendToFunction ==
  ASSUME NEW S, NEW t \in Seq(S), NEW x \in S, NEW u \in Seq(S),
         Len(u) = Len(t) + 1, u[Len(u)] = x, \A k \in 1..Len(t) : u[k] = t[k]
  PROVE  u = Append(t, x)
  OBVIOUS

(* retain removes the one occurrence of a child and keeps the order of the *)
(* others.                                                                 *)
LEMMA RetainOne ==
  ASSUME NEW s \in Seq(Frame), NEW p \in DOMAIN s,
         \A j \in DOMAIN s : s[j] = s[p] => j = p
  PROVE  retain(s, s[p]) = Without(s, p)
<1> DEFINE n == Len(s)
           Step(g) == [i \in 0..n |-> IF i = 0 THEN <<>>
                                      ELSE IF s[i] = s[p] THEN g[i - 1]
                                      ELSE Append(g[i - 1], s[i])]
           size(i) == IF i < p THEN i ELSE i - 1
           W(i) == [k \in 1..size(i) |-> IF k < p THEN s[k] ELSE s[k + 1]]
           w == [i \in 0..n |-> W(i)]
           kept == CHOOSE g : g = Step(g)
<1>0. n \in Nat /\ p \in 1..n /\ \A i \in 1..n : s[i] \in Frame
  OBVIOUS
<1>1. \A i \in 0..n : W(i) \in Seq(Frame) /\ Len(W(i)) = size(i)
  <2> TAKE i \in 0..n
  <2>1. size(i) \in Nat /\ size(i) < n + 1 /\ (i >= p => size(i) < n)
    BY <1>0
  <2>2. \A k \in 1..size(i) : (IF k < p THEN s[k] ELSE s[k + 1]) \in Frame
    BY <1>0
  <2> HIDE DEF size
  <2> QED BY <2>1, <2>2
<1>2. W(0) = <<>>
  <2>1. size(0) = 0
    BY <1>0
  <2> QED BY <2>1
<1>3. \A i \in 1..n : W(i) = IF s[i] = s[p] THEN W(i - 1) ELSE Append(W(i - 1), s[i])
  <2> TAKE i \in 1..n
  <2>1. i - 1 \in 0..n /\ i \in 0..n
    BY <1>0
  <2>2. CASE i = p
    BY <2>2, <1>0
  <2>3. CASE i # p
    <3>1. s[i] # s[p]
      BY <2>3, <1>0
    <3>2. size(i) = size(i - 1) + 1
      BY <2>3, <1>0
    <3>3. W(i)[size(i)] = s[i]
      BY <2>3, <1>0
    <3>4. \A k \in 1..size(i - 1) : W(i)[k] = W(i - 1)[k]
      BY <3>2, <1>0
    <3>5. W(i) \in Seq(Frame) /\ Len(W(i)) = size(i)
          /\ W(i - 1) \in Seq(Frame) /\ Len(W(i - 1)) = size(i - 1) /\ s[i] \in Frame
      BY <1>0, <1>1, <2>1
    <3>6. W(i) = Append(W(i - 1), s[i])
      <4> HIDE DEF W, size
      <4> QED BY <3>2, <3>3, <3>4, <3>5, AppendToFunction
    <3> QED BY <3>1, <3>6
  <2> QED BY <2>2, <2>3
<1>4. w = Step(w)
  <2> HIDE DEF W
  <2>1. \A i \in 0..n : i # 0 => i \in 1..n /\ i - 1 \in 0..n
    BY <1>0
  <2> QED BY <1>2, <1>3, <2>1
<1>5. kept = Step(kept)
  <2> HIDE DEF w, Step
  <2> QED BY <1>4
<1>6. \A i \in 0..n : kept[i] = W(i)
  <2> DEFINE P == {i \in 0..n : kept[i] = W(i)}
  <2> HIDE DEF kept, W
  <2>1. 0 \in P
    BY <1>0, <1>2, <1>5
  <2>2. \A k \in 0..n-1 : k \in P => k + 1 \in P
    <3> SUFFICES ASSUME NEW k \in 0..n-1, k \in P PROVE k + 1 \in P
      OBVIOUS
    <3>1. k + 1 \in 1..n /\ k + 1 \in 0..n /\ (k + 1) - 1 = k
      BY <1>0
    <3>2. kept[k + 1] = IF s[k + 1] = s[p] THEN kept[k] ELSE Append(kept[k], s[k + 1])
      <4>1. \A i \in 0..n : kept[i] = Step(kept)[i]
        <5> HIDE DEF Step
        <5> QED BY <1>5
      <4>2. kept[k + 1] = Step(kept)[k + 1]
        BY <3>1, <4>1
      <4>3. k + 1 # 0
        BY <1>0
      <4> QED BY <3>1, <4>2, <4>3
    <3>3. W(k + 1) = IF s[k + 1] = s[p] THEN W(k) ELSE Append(W(k), s[k + 1])
      BY <1>3, <3>1
    <3> QED BY <3>1, <3>2, <3>3
  <2>3. \A k \in 0..n : k \in P
    <3> HIDE DEF P
    <3> QED BY <1>0, <2>1, <2>2, UpTo
  <2> QED BY <2>3
<1>7. retain(s, s[p]) = kept[n]
  BY DEF retain
<1>8. W(n) = Without(s, p)
  BY <1>0 DEF Without
<1>9. n \in 0..n
  BY <1>0
<1> HIDE DEF kept, W, n
<1> QED BY <1>6, <1>7, <1>8, <1>9

LEMMA WithoutIs ==
  ASSUME NEW s \in Seq(Frame), NEW p \in DOMAIN s
  PROVE  /\ Without(s, p) \in Seq(Frame)
         /\ Len(Without(s, p)) = Len(s) - 1
         /\ \A k \in 1..Len(s)-1 : Without(s, p)[k] = IF k < p THEN s[k] ELSE s[k + 1]
<1>1. Len(s) \in Nat /\ p \in 1..Len(s) /\ Len(s) - 1 \in Nat
  OBVIOUS
<1>2. \A k \in 1..Len(s)-1 : (IF k < p THEN s[k] ELSE s[k + 1]) \in Frame
  BY <1>1
<1> QED BY <1>1, <1>2 DEF Without

-----------------------------------------------------------------------------
(* What the operations on the arena do, one field of each loaded frame at  *)
(* a time.                                                                 *)

Fields == {"parent", "prev_sibling", "next_sibling", "children"}

ValueOf(field) == IF field = "children" THEN Seq(Frame) ELSE Link

LEMMA NodeFields ==
  ASSUME NEW a \in Arena, NEW f \in Loaded(a)
  PROVE  /\ f \in Frame /\ a[f] \in FrameNode
         /\ a[f].parent \in Link /\ a[f].prev_sibling \in Link
         /\ a[f].next_sibling \in Link /\ a[f].children \in Seq(Frame)
<1>1. f \in Frame /\ a[f] \in FrameNode
  BY DEF Arena, Loaded
<1> QED BY <1>1 DEF FrameNode

(* b is a where the field of f, if it is loaded, has the value. *)
Puts(a, b, f, field, value) ==
  /\ Loaded(b) = Loaded(a)
  /\ \A g \in Loaded(a) : \A x \in Fields :
       b[g][x] = IF g = f /\ x = field THEN value ELSE a[g][x]

LEMMA PutIs ==
  ASSUME NEW a \in Arena, NEW f, NEW field \in Fields, NEW value \in ValueOf(field)
  PROVE  /\ Put(a, f, field, value) \in Arena
         /\ Puts(a, Put(a, f, field, value), f, field, value)
<1> DEFINE b == Put(a, f, field, value)
           node == [a[f] EXCEPT ![field] = value, !.dirty = TRUE]
<1>1. CASE f \notin Loaded(a)
  <2>1. b = a
    BY <1>1 DEF Put
  <2>2. Puts(a, a, f, field, value)
    BY <1>1 DEF Puts
  <2> HIDE DEF b
  <2> QED BY <2>1, <2>2 DEF b
<1>2. CASE f \in Loaded(a)
  <2>1. f \in Frame /\ a[f] \in FrameNode
    BY <1>2 DEF Arena, Loaded
  <2>2. node \in FrameNode
    BY <2>1 DEF FrameNode, Fields, ValueOf
  <2>3. \A x \in Fields : node[x] = IF x = field THEN value ELSE a[f][x]
    BY <2>1 DEF FrameNode, Fields
  <2>4. b = [a EXCEPT ![f] = node]
    BY <1>2 DEF Put
  <2>5. node # Absent
    BY <2>2, AbsentAssumption
  <2> HIDE DEF node, b
  <2>6. b \in Arena
    BY <2>1, <2>2, <2>4 DEF Arena
  <2>7. b[f] = node /\ \A g \in Frame \ {f} : b[g] = a[g]
    BY <2>1, <2>4 DEF Arena
  <2>8. Loaded(b) = Loaded(a)
    BY <1>2, <2>5, <2>7 DEF Loaded
  <2>9. ASSUME NEW g \in Loaded(a), NEW x \in Fields
        PROVE  b[g][x] = IF g = f /\ x = field THEN value ELSE a[g][x]
    <3>1. g \in Frame
      BY DEF Loaded
    <3> QED BY <2>3, <2>7, <3>1
  <2>10. Puts(a, b, f, field, value)
    BY <2>8, <2>9 DEF Puts
  <2> QED BY <2>6, <2>10 DEF b
<1> QED BY <1>1, <1>2

LEMMA DetachFromSiblingsIs ==
  ASSUME NEW a \in Arena, NEW id \in Loaded(a),
         NEW b, b = detach_from_siblings(a, id)
  PROVE  /\ b \in Arena /\ Loaded(b) = Loaded(a)
         /\ \A g \in Loaded(a) :
              /\ b[g].parent = a[g].parent /\ b[g].children = a[g].children
              /\ b[g].next_sibling = IF g = id THEN NoFrame
                                     ELSE IF g = a[id].prev_sibling THEN a[id].next_sibling
                                     ELSE a[g].next_sibling
              /\ b[g].prev_sibling = IF g = id THEN NoFrame
                                     ELSE IF g = a[id].next_sibling THEN a[id].prev_sibling
                                     ELSE a[g].prev_sibling
<1> DEFINE prev == a[id].prev_sibling
           next == a[id].next_sibling
           b1 == Put(a, prev, "next_sibling", next)
           b2 == Put(b1, next, "prev_sibling", prev)
           b3 == Put(b2, id, "prev_sibling", NoFrame)
           b4 == Put(b3, id, "next_sibling", NoFrame)
<1>1. prev \in Link /\ next \in Link /\ NoFrame \in Link
  BY NodeFields DEF Link
<1>2. /\ "next_sibling" \in Fields /\ "prev_sibling" \in Fields
      /\ ValueOf("next_sibling") = Link /\ ValueOf("prev_sibling") = Link
  BY DEF Fields, ValueOf
<1>3. b = b4
  BY DEF detach_from_siblings
<1> HIDE DEF prev, next
<1>4. b1 \in Arena /\ Puts(a, b1, prev, "next_sibling", next)
  BY <1>1, <1>2, PutIs
<1> HIDE DEF b1
<1>5. b2 \in Arena /\ Puts(b1, b2, next, "prev_sibling", prev)
  BY <1>1, <1>2, <1>4, PutIs
<1> HIDE DEF b2
<1>6. b3 \in Arena /\ Puts(b2, b3, id, "prev_sibling", NoFrame)
  BY <1>1, <1>2, <1>5, PutIs
<1> HIDE DEF b3
<1>7. b4 \in Arena /\ Puts(b3, b4, id, "next_sibling", NoFrame)
  BY <1>1, <1>2, <1>6, PutIs
<1> HIDE DEF b4
<1> SUFFICES ASSUME NEW g \in Loaded(a)
             PROVE  /\ b[g].parent = a[g].parent /\ b[g].children = a[g].children
                    /\ b[g].next_sibling = IF g = id THEN NoFrame
                                           ELSE IF g = prev THEN next
                                           ELSE a[g].next_sibling
                    /\ b[g].prev_sibling = IF g = id THEN NoFrame
                                           ELSE IF g = next THEN prev
                                           ELSE a[g].prev_sibling
  BY <1>3, <1>4, <1>5, <1>6, <1>7 DEF prev, next, Puts
<1> QED BY <1>3, <1>4, <1>5, <1>6, <1>7 DEF Fields, Puts

(* Listed(a, id, k): id is the k-th child of its parent, and only that. *)
Listed(a, id, k) ==
  a[id].parent \in Loaded(a) =>
    LET s == a[a[id].parent].children
    IN k \in DOMAIN s /\ s[k] = id /\ \A j \in DOMAIN s : s[j] = id => j = k

LEMMA DetachFromParentIs ==
  ASSUME NEW a \in Arena, NEW id \in Loaded(a), NEW k, Listed(a, id, k),
         NEW b, b = detach_from_parent(a, id)
  PROVE  /\ b \in Arena /\ Loaded(b) = Loaded(a)
         /\ \A g \in Loaded(a) :
              /\ b[g].next_sibling = a[g].next_sibling
              /\ b[g].prev_sibling = a[g].prev_sibling
              /\ b[g].parent = IF g = id THEN NoFrame ELSE a[g].parent
              /\ b[g].children = IF g = a[id].parent THEN Without(a[g].children, k)
                                 ELSE a[g].children
<1> DEFINE p == a[id].parent
           s == a[p].children
           b1 == Put(a, p, "children", retain(s, id))
           c == IF p \in Loaded(a) THEN b1 ELSE a
           b2 == Put(c, id, "parent", NoFrame)
<1>0. p \in Link /\ NoFrame \in Link /\ NoFrame \notin Loaded(a)
  BY NodeFields, FrameAssumption DEF Link, Loaded
<1>1. CASE p = NoFrame
  <2>1. b = a
    BY <1>1 DEF detach_from_parent
  <2> QED BY <1>0, <1>1, <2>1
<1>2. CASE p # NoFrame
  <2>1. b = b2
    BY <1>2 DEF detach_from_parent
  <2>2. /\ "children" \in Fields /\ "parent" \in Fields
        /\ ValueOf("children") = Seq(Frame) /\ ValueOf("parent") = Link
    BY DEF Fields, ValueOf
  <2>3. /\ c \in Arena /\ Loaded(c) = Loaded(a)
        /\ \A g \in Loaded(a) : \A x \in Fields :
             c[g][x] = IF g = p /\ x = "children" THEN Without(s, k) ELSE a[g][x]
    <3>1. CASE p \in Loaded(a)
      <4>1. s \in Seq(Frame) /\ k \in DOMAIN s /\ s[k] = id
            /\ \A j \in DOMAIN s : s[j] = id => j = k
        BY <3>1, NodeFields DEF Listed
      <4> HIDE DEF s
      <4>2. retain(s, id) = Without(s, k) /\ Without(s, k) \in Seq(Frame)
        BY <4>1, RetainOne, WithoutIs
      <4>3. b1 \in Arena /\ Puts(a, b1, p, "children", retain(s, id))
        <5> HIDE DEF p
        <5> QED BY <4>2, <2>2, PutIs
      <4> HIDE DEF b1, p
      <4> QED BY <3>1, <4>2, <4>3 DEF Puts
    <3>2. CASE p \notin Loaded(a)
      BY <3>2
    <3> QED BY <3>1, <3>2
  <2> HIDE DEF c
  <2>4. b2 \in Arena /\ Puts(c, b2, id, "parent", NoFrame)
    BY <1>0, <2>2, <2>3, PutIs
  <2> HIDE DEF b2
  <2>5. ASSUME NEW g \in Loaded(a)
        PROVE  /\ b[g].next_sibling = a[g].next_sibling
               /\ b[g].prev_sibling = a[g].prev_sibling
               /\ b[g].parent = IF g = id THEN NoFrame ELSE a[g].parent
               /\ b[g].children = IF g = p THEN Without(a[g].children, k)
                                  ELSE a[g].children
    BY <2>1, <2>3, <2>4 DEF Fields, Puts
  <2> QED BY <2>1, <2>3, <2>4, <2>5 DEF Puts
<1> QED BY <1>1, <1>2

(* b is a where id, the k-th child of its parent, is on its own. *)
Detached(a, b, id, k) ==
  /\ Loaded(b) = Loaded(a)
  /\ \A g \in Loaded(a) :
       /\ b[g].next_sibling = IF g = id THEN NoFrame
                              ELSE IF g = a[id].prev_sibling THEN a[id].next_sibling
                              ELSE a[g].next_sibling
       /\ b[g].prev_sibling = IF g = id THEN NoFrame
                              ELSE IF g = a[id].next_sibling THEN a[id].prev_sibling
                              ELSE a[g].prev_sibling
       /\ b[g].parent = IF g = id THEN NoFrame ELSE a[g].parent
       /\ b[g].children = IF g = a[id].parent THEN Without(a[g].children, k)
                          ELSE a[g].children

LEMMA DetachIs ==
  ASSUME NEW a \in Arena, NEW id \in Loaded(a), NEW k, Listed(a, id, k),
         NEW b, b = detach(a, id)
  PROVE  b \in Arena /\ Detached(a, b, id, k)
<1> DEFINE c == detach_from_siblings(a, id)
<1>1. /\ c \in Arena /\ Loaded(c) = Loaded(a)
      /\ \A g \in Loaded(a) :
           /\ c[g].parent = a[g].parent /\ c[g].children = a[g].children
           /\ c[g].next_sibling = IF g = id THEN NoFrame
                                  ELSE IF g = a[id].prev_sibling THEN a[id].next_sibling
                                  ELSE a[g].next_sibling
           /\ c[g].prev_sibling = IF g = id THEN NoFrame
                                  ELSE IF g = a[id].next_sibling THEN a[id].prev_sibling
                                  ELSE a[g].prev_sibling
  <2> HIDE DEF c
  <2> SUFFICES c = detach_from_siblings(a, id)
    BY DetachFromSiblingsIs
  <2> QED BY DEF c
<1>2. b = detach_from_parent(c, id)
  BY DEF detach
<1> HIDE DEF c
<1>3. Listed(c, id, k)
  BY <1>1 DEF Listed
<1>4. /\ b \in Arena /\ Loaded(b) = Loaded(c)
      /\ \A g \in Loaded(c) :
           /\ b[g].next_sibling = c[g].next_sibling
           /\ b[g].prev_sibling = c[g].prev_sibling
           /\ b[g].parent = IF g = id THEN NoFrame ELSE c[g].parent
           /\ b[g].children = IF g = c[id].parent THEN Without(c[g].children, k)
                              ELSE c[g].children
  BY <1>1, <1>2, <1>3, DetachFromParentIs
<1> QED BY <1>1, <1>4 DEF Detached

LEMMA ConcatIs ==
  ASSUME NEW u \in Seq(Frame), NEW v \in Seq(Frame)
  PROVE  /\ u \o v \in Seq(Frame) /\ Len(u \o v) = Len(u) + Len(v)
         /\ \A m \in 1..Len(u) : (u \o v)[m] = u[m]
         /\ \A m \in 1..Len(v) : (u \o v)[Len(u) + m] = v[m]
  OBVIOUS

(* t is s with id after its first i elements. *)
HasAfter(t, s, i, id) ==
  /\ t \in Seq(Frame) /\ Len(t) = Len(s) + 1
  /\ \A j \in 1..Len(t) : t[j] = IF j <= i THEN s[j]
                                 ELSE IF j = i + 1 THEN id ELSE s[j - 1]

LEMMA InsertAtIs ==
  ASSUME NEW s \in Seq(Frame), NEW i \in 0..Len(s), NEW id \in Frame,
         NEW t, t = InsertAt(s, i + 1, id)
  PROVE  HasAfter(t, s, i, id)
<1> DEFINE left == SubSeq(s, 1, i)
           right == SubSeq(s, i + 1, Len(s))
<1>1. left \in Seq(Frame) /\ Len(left) = i /\ \A j \in 1..i : left[j] = s[j]
  OBVIOUS
<1>2. right \in Seq(Frame) /\ Len(right) = Len(s) - i
      /\ \A j \in 1..Len(s)-i : right[j] = s[i + j]
  OBVIOUS
<1>3. t = (left \o <<id>>) \o right
  <2>1. (i + 1) - 1 = i
    OBVIOUS
  <2> QED BY <2>1 DEF InsertAt
<1>4. Len(s) \in Nat /\ i \in Nat /\ i <= Len(s)
  OBVIOUS
<1> HIDE DEF left, right
<1>5. /\ (left \o <<id>>) \in Seq(Frame) /\ Len(left \o <<id>>) = i + 1
      /\ \A j \in 1..i+1 : (left \o <<id>>)[j] = IF j <= i THEN s[j] ELSE id
  BY <1>1, <1>4
<1> DEFINE front == left \o <<id>>
<1> HIDE DEF front
<1>6. /\ front \in Seq(Frame) /\ Len(front) = i + 1 /\ t = front \o right
      /\ \A j \in 1..i+1 : front[j] = IF j <= i THEN s[j] ELSE id
  BY <1>3, <1>5 DEF front
<1>9. front \in Seq(Frame) /\ right \in Seq(Frame) /\ t = front \o right
  BY <1>2, <1>6
<1>7. t \in Seq(Frame) /\ Len(t) = Len(s) + 1
  <2>1. t \in Seq(Frame) /\ Len(t) = Len(front) + Len(right)
    BY <1>9, ConcatIs
  <2> QED BY <2>1, <1>2, <1>4, <1>6
<1>8. ASSUME NEW j \in 1..Len(t)
      PROVE  t[j] = IF j <= i THEN s[j] ELSE IF j = i + 1 THEN id ELSE s[j - 1]
  <2>1. CASE j <= i + 1
    BY <2>1, <1>2, <1>4, <1>6, <1>7
  <2>2. CASE j > i + 1
    <3>1. t[j] = right[j - (i + 1)] /\ j - (i + 1) \in 1..Len(s)-i
      <4>1. \A m \in 1..Len(right) : t[Len(front) + m] = right[m]
        BY <1>9, ConcatIs
      <4>2. j - (i + 1) \in 1..Len(right) /\ (i + 1) + (j - (i + 1)) = j
        BY <2>2, <1>2, <1>4, <1>7
      <4> QED BY <4>1, <4>2, <1>2, <1>6
    <3>2. right[j - (i + 1)] = s[i + (j - (i + 1))]
      BY <3>1, <1>2
    <3>3. i + (j - (i + 1)) = j - 1
      BY <1>4
    <3> QED BY <2>2, <3>1, <3>2, <3>3, <1>4
  <2> QED BY <2>1, <2>2, <1>4, <1>7
<1> QED BY <1>7, <1>8 DEF HasAfter

LEMMA AtIs ==
  ASSUME NEW s \in Seq(Frame), NEW i \in Int
  PROVE  /\ At(s, i) \in Link
         /\ i \in 1..Len(s) => At(s, i) = s[i]
         /\ i \notin 1..Len(s) => At(s, i) = NoFrame
  BY DEF At, Link

(* b is a where id has its place between its neighbours. *)
PutBetween(a, b, prev, id, next) ==
  /\ Loaded(b) = Loaded(a)
  /\ \A g \in Loaded(a) :
       /\ b[g].next_sibling = IF g = id THEN next
                              ELSE IF g = prev THEN id ELSE a[g].next_sibling
       /\ b[g].prev_sibling = IF g = id THEN prev
                              ELSE IF g = next THEN id ELSE a[g].prev_sibling
       /\ b[g].parent = a[g].parent
       /\ b[g].children = a[g].children

LEMMA LinkBetweenIs ==
  ASSUME NEW a \in Arena, NEW id \in Loaded(a),
         NEW prev \in Link, NEW next \in Link, prev # id, next # id,
         NEW b, b = LinkBetween(a, prev, id, next)
  PROVE  b \in Arena /\ PutBetween(a, b, prev, id, next)
<1>1. id \in Link /\ NoFrame \in Link /\ NoFrame \notin Loaded(a)
  BY FrameAssumption DEF Link, Loaded
<1>2. /\ "next_sibling" \in Fields /\ "prev_sibling" \in Fields
      /\ ValueOf("next_sibling") = Link /\ ValueOf("prev_sibling") = Link
  BY DEF Fields, ValueOf
<1> DEFINE b1 == Put(a, prev, "next_sibling", id)
           b2 == Put(b1, id, "prev_sibling", prev)
           b3 == Put(b2, id, "next_sibling", next)
           b4 == Put(b3, next, "prev_sibling", id)
<1> HIDE DEF b1, b2, b3, b4
<1>3. b1 \in Arena /\ Puts(a, b1, prev, "next_sibling", id)
  BY <1>1, <1>2, PutIs DEF b1
<1>4. b2 \in Arena /\ Puts(b1, b2, id, "prev_sibling", prev)
  BY <1>1, <1>2, <1>3, PutIs DEF b2
<1>5. b3 \in Arena /\ Puts(b2, b3, id, "next_sibling", next)
  BY <1>1, <1>2, <1>4, PutIs DEF b3
<1>6. b4 \in Arena /\ Puts(b3, b4, next, "prev_sibling", id)
  BY <1>1, <1>2, <1>5, PutIs DEF b4
<1>7. b = b4
  <2>1. prev = NoFrame => b1 = a
    BY <1>1 DEF Put, b1
  <2>2. next = NoFrame => b4 = b3
    <3>1. Loaded(b3) = Loaded(a)
      BY <1>3, <1>4, <1>5 DEF Puts
    <3>2. NoFrame \notin Loaded(b3)
      BY <1>1, <3>1
    <3> QED BY <3>2 DEF Put, b4
  <2>3. (IF prev # NoFrame THEN link_siblings(a, prev, id)
                           ELSE Put(a, id, "prev_sibling", NoFrame)) = b2
    <3>1. CASE prev = NoFrame
      BY <3>1, <2>1 DEF b2
    <3>2. CASE prev # NoFrame
      BY <3>2 DEF link_siblings, b2, b1
    <3> QED BY <3>1, <3>2
  <2>4. (IF next # NoFrame THEN link_siblings(b2, id, next)
                           ELSE Put(b2, id, "next_sibling", NoFrame)) = b4
    <3>1. CASE next = NoFrame
      BY <3>1, <2>2 DEF b3
    <3>2. CASE next # NoFrame
      BY <3>2 DEF link_siblings, b4, b3
    <3> QED BY <3>1, <3>2
  <2> QED BY <2>3, <2>4 DEF LinkBetween
<1>8. ASSUME NEW g \in Loaded(a)
      PROVE  /\ b[g].next_sibling = IF g = id THEN next
                                    ELSE IF g = prev THEN id ELSE a[g].next_sibling
             /\ b[g].prev_sibling = IF g = id THEN prev
                                    ELSE IF g = next THEN id ELSE a[g].prev_sibling
             /\ b[g].parent = a[g].parent
             /\ b[g].children = a[g].children
  <2>1. \A x \in Fields : b[g][x] =
          IF g = next /\ x = "prev_sibling" THEN id
          ELSE IF g = id /\ x = "next_sibling" THEN next
          ELSE IF g = id /\ x = "prev_sibling" THEN prev
          ELSE IF g = prev /\ x = "next_sibling" THEN id
          ELSE a[g][x]
    BY <1>3, <1>4, <1>5, <1>6, <1>7 DEF Puts
  <2> QED BY <2>1 DEF Fields
<1> QED BY <1>3, <1>4, <1>5, <1>6, <1>7, <1>8 DEF Puts, PutBetween

(* b is a where id is the child of parent that follows the first i of s. *)
Inserted(a, b, parent, id, s, i) ==
  /\ Loaded(b) = Loaded(a)
  /\ \A g \in Loaded(a) :
       /\ b[g].next_sibling = IF g = id THEN At(s, i + 1)
                              ELSE IF g = At(s, i) THEN id ELSE a[g].next_sibling
       /\ b[g].prev_sibling = IF g = id THEN At(s, i)
                              ELSE IF g = At(s, i + 1) THEN id ELSE a[g].prev_sibling
       /\ b[g].parent = IF g = id THEN parent ELSE a[g].parent
       /\ b[g].children = IF g = parent THEN InsertAt(s, i + 1, id)
                          ELSE a[g].children

LEMMA InsertChildIs ==
  ASSUME NEW a \in Arena, NEW parent \in Loaded(a), NEW id \in Loaded(a), parent # id,
         NEW s, s = a[parent].children, \A j \in DOMAIN s : s[j] # id,
         NEW position \in Nat,
         NEW i, i = IF position < Len(s) THEN position ELSE Len(s),
         NEW b, b = insert_child(a, parent, id, position)
  PROVE  b \in Arena /\ Inserted(a, b, parent, id, s, i)
<1>0. s \in Seq(Frame) /\ id \in Frame /\ parent \in Frame /\ i \in 0..Len(s)
  BY NodeFields
<1>1. PICK prev, next : prev = At(s, i) /\ next = At(s, i + 1)
  OBVIOUS
<1>2. prev \in Link /\ next \in Link /\ prev # id /\ next # id /\ parent \in Link
  <2>1. i \in Int /\ i + 1 \in Int
    BY <1>0
  <2>2. NoFrame # id
    BY FrameAssumption DEF Loaded
  <2> QED BY <1>0, <1>1, <2>1, <2>2, AtIs DEF Link
<1>3. PICK t : t = InsertAt(s, i + 1, id)
  OBVIOUS
<1>4. t \in Seq(Frame)
  BY <1>0, <1>3, InsertAtIs DEF HasAfter
<1>5. /\ "parent" \in Fields /\ ValueOf("parent") = Link
      /\ "children" \in Fields /\ ValueOf("children") = Seq(Frame)
  BY DEF Fields, ValueOf
<1>6. PICK c : c = LinkBetween(a, prev, id, next)
  OBVIOUS
<1>7. c \in Arena /\ PutBetween(a, c, prev, id, next)
  BY <1>2, <1>6, LinkBetweenIs
<1> DEFINE d == Put(c, parent, "children", t)
<1>8. d \in Arena /\ Puts(c, d, parent, "children", t)
  BY <1>4, <1>5, <1>7, PutIs
<1>9. b = Put(d, id, "parent", parent)
  BY <1>1, <1>3, <1>6 DEF insert_child
<1> HIDE DEF d
<1>10. b \in Arena /\ Puts(d, b, id, "parent", parent)
  BY <1>2, <1>5, <1>8, <1>9, PutIs
<1>11. ASSUME NEW g \in Loaded(a)
       PROVE  /\ b[g].next_sibling = IF g = id THEN next
                                     ELSE IF g = prev THEN id ELSE a[g].next_sibling
              /\ b[g].prev_sibling = IF g = id THEN prev
                                     ELSE IF g = next THEN id ELSE a[g].prev_sibling
              /\ b[g].parent = IF g = id THEN parent ELSE a[g].parent
              /\ b[g].children = IF g = parent THEN t ELSE a[g].children
  BY <1>7, <1>8, <1>10 DEF Fields, Puts, PutBetween
<1>12. b \in Arena /\ Loaded(b) = Loaded(a)
  BY <1>7, <1>8, <1>10 DEF Puts, PutBetween
<1> QED BY <1>1, <1>3, <1>11, <1>12 DEF Inserted

-----------------------------------------------------------------------------
(* Detaching a frame keeps the links of all others in order. *)

LEMMA IsListed ==
  ASSUME NEW a \in Arena, NEW id \in Loaded(a), ChildrenKnow(a), ParentsKnow(a)
  PROVE  \E k : Listed(a, id, k)
<1>1. CASE a[id].parent \notin Loaded(a)
  BY <1>1 DEF Listed
<1>2. CASE a[id].parent \in Loaded(a)
  <2>1. PICK k \in DOMAIN a[a[id].parent].children : a[a[id].parent].children[k] = id
    BY <1>2 DEF ParentsKnow
  <2>2. \A j \in DOMAIN a[a[id].parent].children :
          a[a[id].parent].children[j] = id => j = k
    BY <1>2, <2>1 DEF ChildrenKnow
  <2> QED BY <2>1, <2>2 DEF Listed
<1> QED BY <1>1, <1>2

LEMMA DetachedSiblings ==
  ASSUME NEW a \in Arena, NEW id \in Loaded(a), SiblingsKnow(a),
         NEW k, NEW b, Detached(a, b, id, k)
  PROVE  SiblingsKnow(b)
<1> DEFINE L == Loaded(a)
           prev == a[id].prev_sibling
           next == a[id].next_sibling
<1>0. NoFrame \notin L
  BY FrameAssumption DEF Loaded
<1>1. /\ Loaded(b) = L
      /\ \A g \in L :
           /\ b[g].next_sibling = IF g = id THEN NoFrame
                                  ELSE IF g = prev THEN next ELSE a[g].next_sibling
           /\ b[g].prev_sibling = IF g = id THEN NoFrame
                                  ELSE IF g = next THEN prev ELSE a[g].prev_sibling
  BY DEF Detached
<1>2. \A f \in L :
        /\ a[f].next_sibling # NoFrame =>
             a[f].next_sibling \in L /\ a[a[f].next_sibling].prev_sibling = f
        /\ a[f].prev_sibling # NoFrame =>
             a[f].prev_sibling \in L /\ a[a[f].prev_sibling].next_sibling = f
  BY DEF SiblingsKnow
<1>3. /\ next # NoFrame => next \in L /\ a[next].prev_sibling = id
      /\ prev # NoFrame => prev \in L /\ a[prev].next_sibling = id
  BY <1>2
<1> HIDE DEF L, prev, next
<1>4. ASSUME NEW f \in L, b[f].next_sibling # NoFrame
      PROVE  b[f].next_sibling \in L /\ b[b[f].next_sibling].prev_sibling = f
  <2>1. f # id
    BY <1>1, <1>4
  <2>2. CASE f = prev
    <3>1. b[f].next_sibling = next /\ next \in L /\ next # id
      <4>1. b[f].next_sibling = next /\ next \in L
        BY <1>1, <1>3, <1>4, <2>1, <2>2
      <4>2. next = id => prev = id
        BY <1>3, <4>1, <1>0 DEF prev
      <4> QED BY <2>1, <2>2, <4>1, <4>2
    <3> QED BY <3>1, <1>1, <2>2
  <2>3. CASE f # prev
    <3>1. b[f].next_sibling = a[f].next_sibling
      BY <1>1, <2>1, <2>3
    <3>2. PICK n : n = a[f].next_sibling
      OBVIOUS
    <3>3. n \in L /\ a[n].prev_sibling = f
      BY <1>2, <1>4, <3>1, <3>2
    <3>4. n # id
      BY <2>3, <3>3 DEF prev
    <3>5. n # next
      BY <1>0, <1>3, <2>1, <3>3
    <3> QED BY <1>1, <3>1, <3>2, <3>3, <3>4, <3>5
  <2> QED BY <2>2, <2>3
<1>5. ASSUME NEW f \in L, b[f].prev_sibling # NoFrame
      PROVE  b[f].prev_sibling \in L /\ b[b[f].prev_sibling].next_sibling = f
  <2>1. f # id
    BY <1>1, <1>5
  <2>2. CASE f = next
    <3>1. b[f].prev_sibling = prev /\ prev \in L /\ prev # id
      <4>1. b[f].prev_sibling = prev /\ prev \in L
        BY <1>1, <1>3, <1>5, <2>1, <2>2
      <4>2. prev = id => next = id
        BY <1>3, <4>1, <1>0 DEF next
      <4> QED BY <2>1, <2>2, <4>1, <4>2
    <3> QED BY <3>1, <1>1, <2>2
  <2>3. CASE f # next
    <3>1. b[f].prev_sibling = a[f].prev_sibling
      BY <1>1, <2>1, <2>3
    <3>2. PICK n : n = a[f].prev_sibling
      OBVIOUS
    <3>3. n \in L /\ a[n].next_sibling = f
      BY <1>2, <1>5, <3>1, <3>2
    <3>4. n # id
      BY <2>3, <3>3 DEF next
    <3>5. n # prev
      BY <1>0, <1>3, <2>1, <3>3
    <3> QED BY <1>1, <3>1, <3>2, <3>3, <3>4, <3>5
  <2> QED BY <2>2, <2>3
<1> QED BY <1>1, <1>4, <1>5 DEF SiblingsKnow

LEMMA DetachedChildren ==
  ASSUME NEW a \in Arena, NEW id \in Loaded(a), SiblingsKnow(a), ChildrenKnow(a),
         NEW k, Listed(a, id, k), NEW b, Detached(a, b, id, k)
  PROVE  ChildrenKnow(b)
<1> DEFINE L == Loaded(a)
           p == a[id].parent
           prev == a[id].prev_sibling
           next == a[id].next_sibling
<1>0. NoFrame \notin L
  BY FrameAssumption DEF Loaded
<1>1. /\ Loaded(b) = L
      /\ \A g \in L :
           /\ b[g].next_sibling = IF g = id THEN NoFrame
                                  ELSE IF g = prev THEN next ELSE a[g].next_sibling
           /\ b[g].prev_sibling = IF g = id THEN NoFrame
                                  ELSE IF g = next THEN prev ELSE a[g].prev_sibling
           /\ b[g].parent = IF g = id THEN NoFrame ELSE a[g].parent
           /\ b[g].children = IF g = p THEN Without(a[g].children, k) ELSE a[g].children
  BY DEF Detached
<1>2. /\ next # NoFrame => next \in L /\ a[next].prev_sibling = id
      /\ prev # NoFrame => prev \in L /\ a[prev].next_sibling = id
  BY DEF SiblingsKnow
<1> SUFFICES ASSUME NEW f \in L, NEW i \in DOMAIN b[f].children
             PROVE  /\ b[f].children[i] \in L
                    /\ b[b[f].children[i]].parent = f
                    /\ b[b[f].children[i]].prev_sibling = At(b[f].children, i - 1)
                    /\ b[b[f].children[i]].next_sibling = At(b[f].children, i + 1)
                    /\ \A j \in DOMAIN b[f].children :
                         b[f].children[i] = b[f].children[j] => i = j
  BY <1>1 DEF ChildrenKnow
<1>3. PICK s : s = a[f].children
  OBVIOUS
<1>4. s \in Seq(Frame) /\ Len(s) \in Nat /\ DOMAIN s = 1..Len(s)
  BY <1>3, NodeFields
<1>5. \A j \in DOMAIN s : /\ s[j] \in L
                          /\ a[s[j]].parent = f
                          /\ a[s[j]].prev_sibling = At(s, j - 1)
                          /\ a[s[j]].next_sibling = At(s, j + 1)
                          /\ \A m \in DOMAIN s : s[j] = s[m] => j = m
  BY <1>3 DEF ChildrenKnow
<1> HIDE DEF L, p, prev, next
<1>6. CASE f # p
  <2>1. b[f].children = s /\ i \in DOMAIN s
    BY <1>1, <1>3, <1>6
  <2>2. \A j \in DOMAIN s : s[j] # id
    BY <1>5, <1>6 DEF p
  <2>3. \A j \in Int : At(s, j) # id
    BY <1>0, <1>4, <2>2, AtIs DEF L
  <2>4. PICK c : c = s[i]
    OBVIOUS
  <2>5. /\ c \in L /\ c # id /\ a[c].parent = f
        /\ a[c].prev_sibling = At(s, i - 1) /\ a[c].next_sibling = At(s, i + 1)
    BY <1>5, <2>1, <2>2, <2>4
  <2>6. a[c].prev_sibling # id /\ a[c].next_sibling # id
    BY <1>4, <2>1, <2>3, <2>5
  <2>7. c # next /\ c # prev
    BY <1>0, <1>2, <2>5, <2>6
  <2>8. b[c].parent = f /\ b[c].prev_sibling = At(s, i - 1) /\ b[c].next_sibling = At(s, i + 1)
    BY <1>1, <2>5, <2>7
  <2> QED BY <1>5, <2>1, <2>4, <2>5, <2>8
<1>7. CASE f = p
  <2>0. k \in DOMAIN s /\ s[k] = id
    BY <1>3, <1>7 DEF Listed, p, L
  <2>1. PICK t : t = Without(s, k)
    OBVIOUS
  <2>2. /\ b[f].children = t /\ t \in Seq(Frame) /\ Len(t) = Len(s) - 1
        /\ DOMAIN t = 1..Len(s)-1
        /\ \A j \in 1..Len(s)-1 : t[j] = IF j < k THEN s[j] ELSE s[j + 1]
    <3>1. b[f].children = t
      BY <1>1, <1>3, <1>7, <2>1
    <3>2. /\ t \in Seq(Frame) /\ Len(t) = Len(s) - 1
          /\ \A j \in 1..Len(s)-1 : t[j] = IF j < k THEN s[j] ELSE s[j + 1]
      BY <1>4, <2>0, <2>1, WithoutIs
    <3>3. DOMAIN t = 1..Len(t)
      BY <3>2
    <3> QED BY <3>1, <3>2, <3>3
  <2>14. /\ k \in 1..Len(s) /\ k \in Nat /\ Len(s) \in Nat
         /\ Len(t) \in Nat /\ Len(t) = Len(s) - 1
    BY <1>4, <2>0, <2>2
  <2> DEFINE old(j) == IF j < k THEN j ELSE j + 1
  <2>3. \A j \in DOMAIN t : old(j) \in DOMAIN s /\ old(j) # k /\ t[j] = s[old(j)]
    BY <1>4, <2>0, <2>2
  <2>4. i \in DOMAIN t
    BY <2>2
  <2>5. PICK c : c = t[i]
    OBVIOUS
  <2>6. PICK m : m = old(i)
    OBVIOUS
  <2>7. m \in DOMAIN s /\ m # k /\ c = s[m]
    BY <2>3, <2>4, <2>5, <2>6
  <2>8. /\ c \in L /\ c # id /\ a[c].parent = f
        /\ a[c].prev_sibling = At(s, m - 1) /\ a[c].next_sibling = At(s, m + 1)
    BY <1>5, <2>0, <2>7
  <2>9. \A j \in DOMAIN t : t[i] = t[j] => i = j
    <3> SUFFICES ASSUME NEW j \in DOMAIN t, t[i] = t[j] PROVE i = j
      OBVIOUS
    <3>1. old(i) = old(j)
      <4>1. s[old(i)] = s[old(j)] /\ old(i) \in DOMAIN s /\ old(j) \in DOMAIN s
        BY <2>3, <2>4
      <4> HIDE DEF old
      <4> QED BY <1>5, <4>1
    <3>2. i \in Nat /\ j \in Nat
      BY <2>2, <2>4
    <3> QED BY <3>1, <3>2, <2>14
  <2>10. prev = At(s, k - 1) /\ next = At(s, k + 1)
    BY <1>5, <2>0 DEF prev, next
  <2>11. b[c].parent = f
    BY <1>1, <2>8
  <2>12. b[c].prev_sibling = At(t, i - 1)
    <3>1. i - 1 \in Int /\ m - 1 \in Int /\ k - 1 \in Int /\ k + 1 \in Int /\ k \in Int
      BY <1>4, <2>0, <2>2, <2>4, <2>7
    <3>2. CASE i = k
      <4>1. m = k + 1
        BY <2>6, <3>1, <3>2
      <4>2. c = next
        BY <2>7, <2>10, <4>1, <1>4, <3>1, AtIs
      <4>3. b[c].prev_sibling = At(s, k - 1)
        BY <1>1, <2>8, <2>10, <4>2
      <4>4. At(t, k - 1) = At(s, k - 1)
        <5>1. CASE k = 1
          <6>1. k - 1 \notin 1..Len(t) /\ k - 1 \notin 1..Len(s)
            BY <5>1
          <6> QED BY <6>1, <3>1, <1>4, <2>2, AtIs
        <5>2. CASE k # 1
          <6>1. k - 1 \in 1..Len(t) /\ k - 1 \in 1..Len(s)
            BY <5>2, <1>4, <2>14
          <6>2. t[k - 1] = s[k - 1]
            BY <6>1, <2>2, <2>14
          <6>3. At(t, k - 1) = t[k - 1]
            BY <6>1, <3>1, <2>2, AtIs
          <6>4. At(s, k - 1) = s[k - 1]
            BY <6>1, <3>1, <1>4, AtIs
          <6> QED BY <6>2, <6>3, <6>4
        <5> QED BY <5>1, <5>2
      <4> QED BY <3>2, <4>3, <4>4
    <3>3. CASE i # k
      <4>1. m # k + 1
        BY <2>4, <2>2, <1>4, <2>0, <2>6, <3>3
      <4>2. c # next
        <5>1. CASE k + 1 \in 1..Len(s)
          BY <5>1, <2>10, <3>1, <1>4, <1>5, <2>7, <4>1, AtIs
        <5>2. CASE k + 1 \notin 1..Len(s)
          BY <5>2, <2>10, <3>1, <1>0, <1>4, <2>8, AtIs
        <5> QED BY <5>1, <5>2
      <4>3. b[c].prev_sibling = At(s, m - 1)
        BY <1>1, <2>8, <4>2
      <4>4. At(t, i - 1) = At(s, m - 1)
        <5>1. CASE i = 1
          <6>1. m = 1
            BY <5>1, <1>4, <2>0, <2>6, <3>3
          <6>2. i - 1 \notin 1..Len(t) /\ m - 1 \notin 1..Len(s)
            BY <5>1, <6>1
          <6> QED BY <6>2, <3>1, <1>4, <2>2, AtIs
        <5>2. CASE i # 1
          <6>1. i - 1 \in 1..Len(t) /\ m - 1 \in 1..Len(s) /\ t[i - 1] = s[m - 1]
            BY <5>2, <1>4, <2>0, <2>2, <2>4, <2>6, <3>3
          <6> QED BY <6>1, <3>1, <1>4, <2>2, AtIs
        <5> QED BY <5>1, <5>2
      <4> QED BY <4>3, <4>4
    <3> QED BY <3>2, <3>3
  <2>13. b[c].next_sibling = At(t, i + 1)
    <3>1. i + 1 \in Int /\ m + 1 \in Int /\ k - 1 \in Int /\ k + 1 \in Int /\ k \in Int
      BY <1>4, <2>0, <2>2, <2>4, <2>7
    <3>2. CASE i = k - 1
      <4>1. m = k - 1 /\ i + 1 = k
        BY <1>4, <2>0, <2>6, <3>2
      <4>2. c = prev
        BY <2>7, <2>10, <4>1, <1>4, <3>1, AtIs
      <4>3. b[c].next_sibling = At(s, k + 1)
        BY <1>1, <2>8, <2>10, <4>2
      <4>4. At(t, k) = At(s, k + 1)
        <5>1. CASE k = Len(s)
          <6>1. k \notin 1..Len(t) /\ k + 1 \notin 1..Len(s)
            BY <5>1, <1>4, <2>2
          <6> QED BY <6>1, <3>1, <1>4, <2>2, AtIs
        <5>2. CASE k # Len(s)
          <6>1. k \in 1..Len(t) /\ k + 1 \in 1..Len(s)
            BY <5>2, <2>14
          <6>2. t[k] = s[k + 1]
            BY <6>1, <2>2, <2>14
          <6>3. At(t, k) = t[k]
            BY <6>1, <3>1, <2>2, AtIs
          <6>4. At(s, k + 1) = s[k + 1]
            BY <6>1, <3>1, <1>4, AtIs
          <6> QED BY <6>2, <6>3, <6>4
        <5> QED BY <5>1, <5>2
      <4> QED BY <4>1, <4>3, <4>4
    <3>3. CASE i # k - 1
      <4>1. m # k - 1
        BY <2>4, <2>2, <1>4, <2>0, <2>6, <3>3
      <4>2. c # prev
        <5>1. CASE k - 1 \in 1..Len(s)
          BY <5>1, <2>10, <3>1, <1>4, <1>5, <2>7, <4>1, AtIs
        <5>2. CASE k - 1 \notin 1..Len(s)
          BY <5>2, <2>10, <3>1, <1>0, <1>4, <2>8, AtIs
        <5> QED BY <5>1, <5>2
      <4>3. b[c].next_sibling = At(s, m + 1)
        BY <1>1, <2>8, <4>2
      <4>4. At(t, i + 1) = At(s, m + 1)
        <5>1. CASE i = Len(t)
          <6>1. m = Len(s)
            <7>1. i \in Nat /\ i = Len(s) - 1
              BY ONLY <5>1, <2>14
            <7>2. i < k => k = i + 1
              BY ONLY <7>1, <2>14
            <7>3. ~(i < k)
              BY ONLY <7>1, <7>2, <3>3
            <7> QED BY <7>1, <7>3, <2>6, <2>14
          <6>2. i + 1 \notin 1..Len(t) /\ m + 1 \notin 1..Len(s)
            BY <5>1, <6>1, <1>4, <2>2
          <6> QED BY <6>2, <3>1, <1>4, <2>2, AtIs
        <5>2. CASE i # Len(t)
          <6>1. i + 1 \in 1..Len(t) /\ m + 1 \in 1..Len(s) /\ t[i + 1] = s[m + 1]
            BY <5>2, <1>4, <2>0, <2>2, <2>4, <2>6, <3>3
          <6> QED BY <6>1, <3>1, <1>4, <2>2, AtIs
        <5> QED BY <5>1, <5>2
      <4> QED BY <4>3, <4>4
    <3> QED BY <3>2, <3>3
  <2> QED BY <2>2, <2>5, <2>8, <2>9, <2>11, <2>12, <2>13
<1> QED BY <1>6, <1>7

LEMMA DetachedParents ==
  ASSUME NEW a \in Arena, NEW id \in Loaded(a), ChildrenKnow(a), ParentsKnow(a),
         NEW k, Listed(a, id, k), NEW b, Detached(a, b, id, k)
  PROVE  ParentsKnow(b)
<1> DEFINE L == Loaded(a)
           p == a[id].parent
<1>0. NoFrame \notin L
  BY FrameAssumption DEF Loaded
<1>1. /\ Loaded(b) = L
      /\ \A g \in L :
           /\ b[g].parent = IF g = id THEN NoFrame ELSE a[g].parent
           /\ b[g].children = IF g = p THEN Without(a[g].children, k) ELSE a[g].children
  BY DEF Detached
<1> SUFFICES ASSUME NEW f \in L, b[f].parent \in L
             PROVE  \E i \in DOMAIN b[b[f].parent].children :
                      b[b[f].parent].children[i] = f
  BY <1>1 DEF ParentsKnow
<1>2. f # id /\ b[f].parent = a[f].parent
  BY <1>0, <1>1
<1>3. PICK q \in L : q = a[f].parent
  BY <1>2
<1>4. PICK s : s = a[q].children
  OBVIOUS
<1>5. PICK j \in DOMAIN s : s[j] = f
  BY <1>3, <1>4 DEF ParentsKnow
<1>6. s \in Seq(Frame) /\ Len(s) \in Nat /\ DOMAIN s = 1..Len(s)
  BY <1>3, <1>4, NodeFields
<1>7. CASE q # p
  BY <1>1, <1>2, <1>3, <1>4, <1>5, <1>7
<1>8. CASE q = p
  <2>1. k \in DOMAIN s /\ s[k] = id
    BY <1>3, <1>4, <1>8 DEF Listed
  <2>2. b[q].children = Without(s, k)
    BY <1>1, <1>3, <1>4, <1>8
  <2>3. /\ Without(s, k) \in Seq(Frame) /\ Len(Without(s, k)) = Len(s) - 1
        /\ \A i \in 1..Len(s)-1 : Without(s, k)[i] = IF i < k THEN s[i] ELSE s[i + 1]
    BY <1>6, <2>1, WithoutIs
  <2>4. j # k
    BY <1>2, <1>5, <2>1
  <2>5. PICK i : i = IF j < k THEN j ELSE j - 1
    OBVIOUS
  <2>6. i \in 1..Len(s)-1 /\ Without(s, k)[i] = f
    BY <1>5, <1>6, <2>1, <2>3, <2>4, <2>5
  <2> QED BY <1>2, <1>3, <1>6, <2>2, <2>3, <2>6
<1> QED BY <1>7, <1>8

-----------------------------------------------------------------------------
(* Giving a frame its place keeps the links of all others in order. *)

LEMMA AtInsertIs ==
  ASSUME NEW s \in Seq(Frame), NEW i \in 0..Len(s), NEW id \in Frame,
         NEW t, t = InsertAt(s, i + 1, id), NEW j \in Int
  PROVE  At(t, j) = IF j <= i THEN At(s, j) ELSE IF j = i + 1 THEN id ELSE At(s, j - 1)
<1>0. Len(s) \in Nat /\ i \in Nat /\ i <= Len(s) /\ j - 1 \in Int
  OBVIOUS
<1>1. /\ t \in Seq(Frame) /\ Len(t) = Len(s) + 1
      /\ \A m \in 1..Len(t) : t[m] = IF m <= i THEN s[m]
                                     ELSE IF m = i + 1 THEN id ELSE s[m - 1]
  <2>1. HasAfter(t, s, i, id)
    BY InsertAtIs
  <2> QED BY <2>1 DEF HasAfter
<1>2. CASE j \notin 1..Len(t)
  <2>1. At(t, j) = NoFrame
    BY <1>1, <1>2, AtIs
  <2>2. j # i + 1
    BY <1>0, <1>1, <1>2
  <2>3. CASE j <= i
    <3>1. j \notin 1..Len(s)
      BY <1>0, <1>1, <1>2
    <3> QED BY <2>1, <2>3, <3>1, AtIs
  <2>4. CASE ~(j <= i)
    <3>1. j - 1 \notin 1..Len(s)
      BY <1>0, <1>1, <1>2, <2>4
    <3>2. At(s, j - 1) = NoFrame
      BY <1>0, <3>1, AtIs
    <3> QED BY <2>1, <2>2, <2>4, <3>2
  <2> QED BY <2>3, <2>4
<1>3. CASE j \in 1..Len(t)
  <2>1. At(t, j) = t[j]
    BY <1>1, <1>3, AtIs
  <2>2. CASE j <= i
    <3>1. j \in 1..Len(s) /\ t[j] = s[j]
      BY <1>0, <1>1, <1>3, <2>2
    <3>2. At(s, j) = s[j]
      BY <3>1, AtIs
    <3> QED BY <2>1, <2>2, <3>1, <3>2
  <2>3. CASE j = i + 1
    <3>1. t[j] = id /\ ~(j <= i)
      BY <1>0, <1>1, <1>3, <2>3
    <3> QED BY <2>1, <2>3, <3>1
  <2>4. CASE j > i + 1
    <3>1. j - 1 \in 1..Len(s) /\ t[j] = s[j - 1] /\ ~(j <= i) /\ j # i + 1
      BY <1>0, <1>1, <1>3, <2>4
    <3>2. At(s, j - 1) = s[j - 1]
      BY <1>0, <3>1, AtIs
    <3> QED BY <2>1, <3>1, <3>2
  <2> QED BY <1>0, <2>2, <2>3, <2>4
<1> QED BY <1>2, <1>3

(* id has no link yet. *)
Alone(a, id) ==
  a[id].parent = NoFrame /\ a[id].prev_sibling = NoFrame /\ a[id].next_sibling = NoFrame

LEMMA InsertedKeepsLinks ==
  ASSUME NEW a \in Arena, Linked(a), NEW parent \in Loaded(a), NEW id \in Loaded(a),
         parent # id, Alone(a, id),
         NEW s, s = a[parent].children, NEW i \in 0..Len(s),
         NEW b, Inserted(a, b, parent, id, s, i)
  PROVE  Linked(b)
<1> DEFINE L == Loaded(a)
<1>0. /\ NoFrame \notin L /\ id \in L /\ id \in Frame /\ s \in Seq(Frame)
      /\ Len(s) \in Nat /\ DOMAIN s = 1..Len(s) /\ i \in Nat /\ i <= Len(s)
  <2>1. s \in Seq(Frame) /\ id \in Frame
    BY NodeFields
  <2> QED BY <2>1, FrameAssumption DEF Loaded
<1>1. PICK pv, nx, t : pv = At(s, i) /\ nx = At(s, i + 1) /\ t = InsertAt(s, i + 1, id)
  OBVIOUS
<1>2. /\ Loaded(b) = L
      /\ \A g \in L :
           /\ b[g].next_sibling = IF g = id THEN nx
                                  ELSE IF g = pv THEN id ELSE a[g].next_sibling
           /\ b[g].prev_sibling = IF g = id THEN pv
                                  ELSE IF g = nx THEN id ELSE a[g].prev_sibling
           /\ b[g].parent = IF g = id THEN parent ELSE a[g].parent
           /\ b[g].children = IF g = parent THEN t ELSE a[g].children
  BY <1>1 DEF Inserted
<1>3. \A j \in 1..Len(s) : /\ s[j] \in L /\ s[j] # id
                           /\ a[s[j]].parent = parent
                           /\ a[s[j]].prev_sibling = At(s, j - 1)
                           /\ a[s[j]].next_sibling = At(s, j + 1)
                           /\ \A m \in 1..Len(s) : s[j] = s[m] => j = m
  <2>1. \A j \in 1..Len(s) : /\ s[j] \in L
                             /\ a[s[j]].parent = parent
                             /\ a[s[j]].prev_sibling = At(s, j - 1)
                             /\ a[s[j]].next_sibling = At(s, j + 1)
                             /\ \A m \in 1..Len(s) : s[j] = s[m] => j = m
    BY <1>0 DEF Linked, ChildrenKnow
  <2>2. parent # NoFrame
    BY <1>0
  <2> QED BY <2>1, <2>2 DEF Alone
<1>4. \A f \in L :
        /\ a[f].next_sibling # NoFrame =>
             a[f].next_sibling \in L /\ a[a[f].next_sibling].prev_sibling = f
        /\ a[f].prev_sibling # NoFrame =>
             a[f].prev_sibling \in L /\ a[a[f].prev_sibling].next_sibling = f
  BY DEF Linked, SiblingsKnow
<1>5. pv # NoFrame => /\ i \in 1..Len(s) /\ pv = s[i] /\ pv \in L /\ pv # id
                      /\ a[pv].parent = parent /\ a[pv].next_sibling = nx
  BY <1>0, <1>1, <1>3, AtIs
<1>6. nx # NoFrame => /\ i + 1 \in 1..Len(s) /\ nx = s[i + 1] /\ nx \in L /\ nx # id
                      /\ a[nx].parent = parent /\ a[nx].prev_sibling = pv
  <2> SUFFICES ASSUME nx # NoFrame PROVE nx = s[i + 1] /\ i + 1 \in 1..Len(s)
    <3>1. (i + 1) - 1 = i
      BY <1>0
    <3> QED BY <1>1, <1>3, <3>1
  <2>1. i + 1 \in Int
    BY <1>0
  <2> QED BY <1>0, <1>1, <2>1, AtIs
<1> HIDE DEF L
<1>7. SiblingsKnow(b)
  <2>1. ASSUME NEW f \in L, b[f].next_sibling # NoFrame
        PROVE  b[f].next_sibling \in L /\ b[b[f].next_sibling].prev_sibling = f
    <3>1. CASE f = id
      BY <1>2, <1>6, <2>1, <3>1
    <3>2. CASE f # id /\ f = pv
      BY <1>0, <1>2, <2>1, <3>2
    <3>3. CASE f # id /\ f # pv
      <4>1. PICK n : n = a[f].next_sibling
        OBVIOUS
      <4>2. b[f].next_sibling = n /\ n \in L /\ a[n].prev_sibling = f
        BY <1>2, <1>4, <2>1, <3>3, <4>1
      <4>3. n # id
        BY <1>0, <4>2 DEF Alone
      <4>4. n # nx
        BY <1>0, <1>6, <3>3, <4>2
      <4> QED BY <1>2, <4>2, <4>3, <4>4
    <3> QED BY <3>1, <3>2, <3>3
  <2>2. ASSUME NEW f \in L, b[f].prev_sibling # NoFrame
        PROVE  b[f].prev_sibling \in L /\ b[b[f].prev_sibling].next_sibling = f
    <3>1. CASE f = id
      BY <1>2, <1>5, <2>2, <3>1
    <3>2. CASE f # id /\ f = nx
      BY <1>0, <1>2, <2>2, <3>2
    <3>3. CASE f # id /\ f # nx
      <4>1. PICK n : n = a[f].prev_sibling
        OBVIOUS
      <4>2. b[f].prev_sibling = n /\ n \in L /\ a[n].next_sibling = f
        BY <1>2, <1>4, <2>2, <3>3, <4>1
      <4>3. n # id
        BY <1>0, <4>2 DEF Alone
      <4>4. n # pv
        BY <1>0, <1>5, <3>3, <4>2
      <4> QED BY <1>2, <4>2, <4>3, <4>4
    <3> QED BY <3>1, <3>2, <3>3
  <2> QED BY <1>2, <2>1, <2>2 DEF SiblingsKnow
<1>8. /\ t \in Seq(Frame) /\ Len(t) = Len(s) + 1 /\ DOMAIN t = 1..Len(s)+1
      /\ \A j \in 1..Len(t) : t[j] = IF j <= i THEN s[j]
                                     ELSE IF j = i + 1 THEN id ELSE s[j - 1]
      /\ \A j \in Int : At(t, j) = IF j <= i THEN At(s, j)
                                   ELSE IF j = i + 1 THEN id ELSE At(s, j - 1)
  <2>1. /\ t \in Seq(Frame) /\ Len(t) = Len(s) + 1
        /\ \A j \in 1..Len(t) : t[j] = IF j <= i THEN s[j]
                                       ELSE IF j = i + 1 THEN id ELSE s[j - 1]
    <3>1. HasAfter(t, s, i, id)
      BY <1>0, <1>1, InsertAtIs
    <3> QED BY <3>1 DEF HasAfter
  <2>2. \A j \in Int : At(t, j) = IF j <= i THEN At(s, j)
                                  ELSE IF j = i + 1 THEN id ELSE At(s, j - 1)
    BY <1>0, <1>1, AtInsertIs
  <2>3. DOMAIN t = 1..Len(t)
    BY <2>1
  <2> QED BY <2>1, <2>2, <2>3
<1>9. ChildrenKnow(b)
  <2> SUFFICES ASSUME NEW f \in L, NEW j \in DOMAIN b[f].children
               PROVE  /\ b[f].children[j] \in L
                      /\ b[b[f].children[j]].parent = f
                      /\ b[b[f].children[j]].prev_sibling = At(b[f].children, j - 1)
                      /\ b[b[f].children[j]].next_sibling = At(b[f].children, j + 1)
                      /\ \A m \in DOMAIN b[f].children :
                           b[f].children[j] = b[f].children[m] => j = m
    BY <1>2 DEF ChildrenKnow
  <2>1. CASE f # parent
    <3>1. PICK r : r = a[f].children
      OBVIOUS
    <3>2. b[f].children = r /\ j \in DOMAIN r
      BY <1>2, <2>1, <3>1
    <3>3. /\ r[j] \in L /\ a[r[j]].parent = f
          /\ a[r[j]].prev_sibling = At(r, j - 1) /\ a[r[j]].next_sibling = At(r, j + 1)
          /\ \A m \in DOMAIN r : r[j] = r[m] => j = m
      BY <3>1, <3>2 DEF Linked, ChildrenKnow, L
    <3>4. r[j] # id
      BY <1>0, <3>3 DEF Alone
    <3>5. r[j] # pv /\ r[j] # nx
      BY <1>0, <1>5, <1>6, <2>1, <3>3
    <3> QED BY <1>2, <3>2, <3>3, <3>4, <3>5
  <2>2. CASE f = parent
    <3>1. b[f].children = t /\ j \in 1..Len(s)+1 /\ j \in Int
      BY <1>0, <1>2, <1>8, <2>2
    <3>2. ASSUME NEW m \in DOMAIN t, t[j] = t[m] PROVE j = m
      <4>1. m \in 1..Len(s)+1 /\ j \in 1..Len(t) /\ m \in 1..Len(t)
        BY <1>8, <3>1
      <4> DEFINE old(x) == IF x <= i THEN x ELSE x - 1
      <4>2. /\ j # i + 1 => old(j) \in 1..Len(s) /\ t[j] = s[old(j)]
            /\ m # i + 1 => old(m) \in 1..Len(s) /\ t[m] = s[old(m)]
        <5>1. ASSUME NEW x \in 1..Len(t), x # i + 1
              PROVE  old(x) \in 1..Len(s) /\ t[x] = s[old(x)]
          <6>1. CASE x <= i
            BY <1>0, <1>8, <5>1, <6>1
          <6>2. CASE ~(x <= i)
            BY <1>0, <1>8, <5>1, <6>2
          <6> QED BY <6>1, <6>2
        <5> HIDE DEF old
        <5> QED BY <4>1, <5>1
      <4>3. CASE j = i + 1 \/ m = i + 1
        <5>1. t[i + 1] = id
          BY <1>0, <1>8
        <5> HIDE DEF old
        <5> QED BY <1>3, <3>2, <4>2, <4>3, <5>1
      <4>4. CASE j # i + 1 /\ m # i + 1
        <5>1. old(j) = old(m)
          <6> HIDE DEF old
          <6>1. /\ old(j) \in 1..Len(s) /\ old(m) \in 1..Len(s)
                /\ s[old(j)] = s[old(m)]
            BY ONLY <3>2, <4>2, <4>4
          <6> QED BY ONLY <1>3, <6>1
        <5> QED BY <1>0, <4>1, <4>4, <5>1
      <4> QED BY <4>3, <4>4
    <3>3. CASE j = i + 1
      <4>0. i \in Nat /\ j \in 1..Len(t) /\ ~(j <= i)
        BY <1>0, <1>8, <3>1, <3>3
      <4>1. t[j] = id /\ j - 1 = i /\ (j + 1) - 1 = i + 1 /\ ~(j + 1 <= i) /\ j + 1 # i + 1
            /\ j - 1 <= i
        <5>1. t[j] = id
          BY ONLY <1>8, <3>3, <4>0
        <5> QED BY ONLY <3>3, <4>0, <5>1
      <4>2. At(t, j - 1) = pv
        BY <1>0, <1>1, <1>8, <4>1
      <4>3. At(t, j + 1) = nx
        <5>1. j + 1 \in Int
          BY <3>1
        <5> QED BY <1>1, <1>8, <4>1, <5>1
      <4>4. id \in L
        BY DEF L
      <4> QED BY <1>2, <2>2, <3>1, <3>2, <4>1, <4>2, <4>3, <4>4
    <3>4. CASE j # i + 1
      <4>1. PICK m : m = IF j <= i THEN j ELSE j - 1
        OBVIOUS
      <4>2. m \in 1..Len(s) /\ t[j] = s[m] /\ m \in Int
        <5>1. CASE j <= i
          BY <1>0, <1>8, <3>1, <4>1, <5>1
        <5>2. CASE ~(j <= i)
          <6>1. m = j - 1 /\ j \in 1..Len(t) /\ m \in 1..Len(s) /\ m \in Int
            BY <1>0, <1>8, <3>1, <3>4, <4>1, <5>2
          <6> QED BY <1>8, <3>4, <5>2, <6>1
        <5> QED BY <5>1, <5>2
      <4>3. /\ s[m] \in L /\ s[m] # id /\ a[s[m]].parent = parent
            /\ a[s[m]].prev_sibling = At(s, m - 1) /\ a[s[m]].next_sibling = At(s, m + 1)
        BY <1>3, <4>2
      <4>4. s[m] = pv <=> m = i
        <5>1. m = i => s[m] = pv
          BY <1>0, <1>1, <4>2, AtIs
        <5>2. s[m] = pv => m = i
          <6> SUFFICES ASSUME s[m] = pv PROVE m = i
            OBVIOUS
          <6>1. pv # NoFrame
            BY <1>0, <4>3
          <6> QED BY <1>3, <1>5, <4>2, <6>1
        <5> QED BY <5>1, <5>2
      <4>5. s[m] = nx <=> m = i + 1
        <5>1. m = i + 1 => s[m] = nx
          BY <1>0, <1>1, <4>2, AtIs
        <5>2. s[m] = nx => m = i + 1
          <6> SUFFICES ASSUME s[m] = nx PROVE m = i + 1
            OBVIOUS
          <6>1. nx # NoFrame
            BY <1>0, <4>3
          <6> QED BY <1>3, <1>6, <4>2, <6>1
        <5> QED BY <5>1, <5>2
      <4>6. b[s[m]].prev_sibling = At(t, j - 1)
        <5>1. CASE m = i + 1
          <6>1. j - 1 = i + 1 /\ j - 1 \in Int /\ ~(j - 1 <= i)
            BY <1>0, <3>1, <3>4, <4>1, <5>1
          <6>2. At(t, j - 1) = id
            BY <1>8, <6>1
          <6> QED BY <1>2, <4>3, <4>5, <5>1, <6>2
        <5>2. CASE m # i + 1
          <6>1. At(t, j - 1) = At(s, m - 1)
            <7>1. CASE j <= i
              <8>1. j - 1 \in Int /\ j - 1 <= i /\ m = j
                BY <1>0, <3>1, <4>1, <7>1
              <8> QED BY <1>8, <8>1
            <7>2. CASE ~(j <= i)
              <8>1. j - 1 \in Int /\ ~(j - 1 <= i) /\ j - 1 # i + 1 /\ m = j - 1
                BY <1>0, <3>1, <3>4, <4>1, <5>2, <7>2
              <8> QED BY <1>8, <8>1
            <7> QED BY <7>1, <7>2
          <6> QED BY <1>2, <4>3, <4>5, <5>2, <6>1
        <5> QED BY <5>1, <5>2
      <4>7. b[s[m]].next_sibling = At(t, j + 1)
        <5>1. CASE m = i
          <6>1. j + 1 = i + 1 /\ j + 1 \in Int /\ ~(j + 1 <= i)
            BY <1>0, <3>1, <3>4, <4>1, <5>1
          <6>2. At(t, j + 1) = id
            BY <1>8, <6>1
          <6> QED BY <1>2, <4>3, <4>4, <5>1, <6>2
        <5>2. CASE m # i
          <6>1. At(t, j + 1) = At(s, m + 1)
            <7>1. CASE j <= i
              <8>1. j + 1 \in Int /\ j + 1 <= i /\ m = j
                BY <1>0, <3>1, <4>1, <5>2, <7>1
              <8> QED BY <1>8, <8>1
            <7>2. CASE ~(j <= i)
              <8>1. j + 1 \in Int /\ ~(j + 1 <= i) /\ j + 1 # i + 1 /\ m = j - 1
                    /\ (j + 1) - 1 = m + 1
                BY <1>0, <3>1, <3>4, <4>1, <7>2
              <8> QED BY <1>8, <8>1
            <7> QED BY <7>1, <7>2
          <6> QED BY <1>2, <4>3, <4>4, <5>2, <6>1
        <5> QED BY <5>1, <5>2
      <4>8. b[s[m]].parent = parent
        BY <1>2, <4>3
      <4> QED BY <2>2, <3>1, <3>2, <4>2, <4>3, <4>6, <4>7, <4>8
    <3> QED BY <3>3, <3>4
  <2> QED BY <2>1, <2>2
<1>10. ParentsKnow(b)
  <2> SUFFICES ASSUME NEW f \in L, b[f].parent \in L
               PROVE  \E m \in DOMAIN b[b[f].parent].children :
                        b[b[f].parent].children[m] = f
    BY <1>2 DEF ParentsKnow
  <2>1. CASE f = id
    <3>1. i + 1 \in DOMAIN t /\ t[i + 1] = id /\ parent \in L
      BY <1>0, <1>8 DEF L
    <3>2. b[f].parent = parent /\ b[parent].children = t
      BY <1>2, <2>1, <3>1
    <3> QED BY <2>1, <3>1, <3>2
  <2>2. CASE f # id
    <3>1. PICK q \in L : q = a[f].parent /\ b[f].parent = q
      BY <1>2, <2>2
    <3>2. PICK m \in DOMAIN a[q].children : a[q].children[m] = f
      BY <3>1 DEF Linked, ParentsKnow, L
    <3>3. CASE q # parent
      BY <1>2, <3>1, <3>2, <3>3
    <3>4. CASE q = parent
      <4>1. m \in 1..Len(s) /\ s[m] = f
        BY <1>0, <3>2, <3>4
      <4>2. PICK j : j = IF m <= i THEN m ELSE m + 1
        OBVIOUS
      <4>3. j \in DOMAIN t /\ t[j] = f
        <5>1. CASE m <= i
          BY <1>0, <1>8, <4>1, <4>2, <5>1
        <5>2. CASE ~(m <= i)
          <6>1. j = m + 1 /\ j \in 1..Len(t) /\ ~(j <= i) /\ j # i + 1 /\ j - 1 = m
            BY <1>0, <1>8, <4>1, <4>2, <5>2
          <6> QED BY <1>8, <4>1, <6>1
        <5> QED BY <5>1, <5>2
      <4> QED BY <1>2, <3>1, <3>4, <4>3
    <3> QED BY <3>3, <3>4
  <2> QED BY <2>1, <2>2
<1> QED BY <1>7, <1>9, <1>10 DEF Linked

-----------------------------------------------------------------------------
(* The arena through a whole operation *)

LEMMA CreateKeepsLinks ==
  ASSUME NEW a \in Arena, Linked(a), NEW id \in Frame, id \notin Loaded(a), NEW r \in BOOLEAN,
         \A f \in Loaded(a) : a[f].parent # id,
         NEW b, b = create_node(a, id, r)
  PROVE  /\ b \in Arena /\ Loaded(b) = Loaded(a) \cup {id}
         /\ Linked(b) /\ Alone(b, id) /\ b[id].children = <<>>
         /\ \A f \in Loaded(a) : b[f] = a[f]
<1>1. NewNode(r) \in FrameNode /\ NewNode(r) # Absent
  <2>1. <<>> \in Seq(Frame)
    OBVIOUS
  <2>2. NewNode(r) \in FrameNode
    BY <2>1 DEF NewNode, FrameNode, Link
  <2> QED BY <2>2, AbsentAssumption
<1>2. b = [a EXCEPT ![id] = NewNode(r)]
  BY DEF create_node
<1>3. b \in Arena
  BY <1>1, <1>2 DEF Arena
<1>4. b[id] = NewNode(r) /\ \A f \in Frame \ {id} : b[f] = a[f]
  BY <1>2 DEF Arena
<1>5. Loaded(b) = Loaded(a) \cup {id}
  BY <1>1, <1>4 DEF Loaded
<1>6. \A f \in Loaded(a) : b[f] = a[f]
  BY <1>4 DEF Loaded
<1>7. Alone(b, id) /\ b[id].children = <<>>
  BY <1>4 DEF Alone, NewNode
<1>8. SiblingsKnow(b)
  BY <1>5, <1>6, <1>7 DEF Linked, SiblingsKnow, Alone
<1>9. ChildrenKnow(b)
  <2> SUFFICES ASSUME NEW f \in Loaded(b), NEW i \in DOMAIN b[f].children
               PROVE  /\ b[f].children[i] \in Loaded(b)
                      /\ b[b[f].children[i]].parent = f
                      /\ b[b[f].children[i]].prev_sibling = At(b[f].children, i - 1)
                      /\ b[b[f].children[i]].next_sibling = At(b[f].children, i + 1)
                      /\ \A j \in DOMAIN b[f].children :
                           b[f].children[i] = b[f].children[j] => i = j
    BY DEF ChildrenKnow
  <2>1. f # id
    BY <1>7
  <2>2. f \in Loaded(a) /\ b[f] = a[f]
    BY <1>5, <1>6, <2>1
  <2>3. /\ a[f].children[i] \in Loaded(a)
        /\ a[a[f].children[i]].parent = f
        /\ a[a[f].children[i]].prev_sibling = At(a[f].children, i - 1)
        /\ a[a[f].children[i]].next_sibling = At(a[f].children, i + 1)
        /\ \A j \in DOMAIN a[f].children : a[f].children[i] = a[f].children[j] => i = j
    BY <2>2 DEF Linked, ChildrenKnow
  <2> QED BY <1>5, <1>6, <2>2, <2>3
<1>10. ParentsKnow(b)
  <2>1. NoFrame \notin Loaded(b)
    BY FrameAssumption DEF Loaded
  <2> SUFFICES ASSUME NEW f \in Loaded(b), b[f].parent \in Loaded(b)
               PROVE  \E i \in DOMAIN b[b[f].parent].children :
                        b[b[f].parent].children[i] = f
    BY DEF ParentsKnow
  <2>2. f # id
    BY <1>7, <2>1 DEF Alone
  <2>3. f \in Loaded(a) /\ b[f] = a[f] /\ a[f].parent \in Loaded(a)
    BY <1>5, <1>6, <2>2
  <2>4. b[a[f].parent] = a[a[f].parent]
    BY <1>6, <2>3
  <2> QED BY <2>3, <2>4 DEF Linked, ParentsKnow
<1> QED BY <1>3, <1>5, <1>6, <1>7, <1>8, <1>9, <1>10 DEF Linked

LEMMA UnloadKeepsLinks ==
  ASSUME NEW a \in Arena, Linked(a), NEW id \in Loaded(a), Alone(a, id),
         NEW b \in Arena, b[id] = Absent, \A f \in Frame : f # id => b[f] = a[f]
  PROVE  /\ Loaded(b) = Loaded(a) \ {id} /\ Linked(b)
         /\ \A f \in Loaded(b) : b[f] = a[f]
<1>1. b \in Arena
  OBVIOUS
<1>2. id \in Frame /\ b[id] = Absent /\ \A f \in Frame \ {id} : b[f] = a[f]
  BY DEF Loaded
<1>3. Loaded(b) = Loaded(a) \ {id}
  BY <1>2 DEF Loaded
<1>4. \A f \in Loaded(b) : b[f] = a[f]
  BY <1>2, <1>3 DEF Loaded
<1>5. NoFrame \notin Loaded(a)
  BY FrameAssumption DEF Loaded
<1>6. SiblingsKnow(b)
  <2> SUFFICES ASSUME NEW f \in Loaded(b)
               PROVE  /\ b[f].next_sibling # NoFrame =>
                           /\ b[f].next_sibling \in Loaded(b)
                           /\ b[b[f].next_sibling].prev_sibling = f
                      /\ b[f].prev_sibling # NoFrame =>
                           /\ b[f].prev_sibling \in Loaded(b)
                           /\ b[b[f].prev_sibling].next_sibling = f
    BY DEF SiblingsKnow
  <2>1. f \in Loaded(a) /\ f # id /\ b[f] = a[f] /\ f # NoFrame
    BY <1>3, <1>4, <1>5
  <2>2. /\ a[f].next_sibling # NoFrame =>
             a[f].next_sibling \in Loaded(a) /\ a[a[f].next_sibling].prev_sibling = f
        /\ a[f].prev_sibling # NoFrame =>
             a[f].prev_sibling \in Loaded(a) /\ a[a[f].prev_sibling].next_sibling = f
    BY <2>1 DEF Linked, SiblingsKnow
  <2>3. /\ a[f].next_sibling # NoFrame => a[f].next_sibling # id
        /\ a[f].prev_sibling # NoFrame => a[f].prev_sibling # id
    BY <2>1, <2>2 DEF Alone
  <2> QED BY <1>3, <1>4, <2>1, <2>2, <2>3
<1>7. ChildrenKnow(b)
  <2> SUFFICES ASSUME NEW f \in Loaded(b), NEW i \in DOMAIN b[f].children
               PROVE  /\ b[f].children[i] \in Loaded(b)
                      /\ b[b[f].children[i]].parent = f
                      /\ b[b[f].children[i]].prev_sibling = At(b[f].children, i - 1)
                      /\ b[b[f].children[i]].next_sibling = At(b[f].children, i + 1)
                      /\ \A j \in DOMAIN b[f].children :
                           b[f].children[i] = b[f].children[j] => i = j
    BY DEF ChildrenKnow
  <2>1. f \in Loaded(a) /\ b[f] = a[f] /\ f # NoFrame
    BY <1>3, <1>4, <1>5
  <2>2. /\ a[f].children[i] \in Loaded(a)
        /\ a[a[f].children[i]].parent = f
        /\ a[a[f].children[i]].prev_sibling = At(a[f].children, i - 1)
        /\ a[a[f].children[i]].next_sibling = At(a[f].children, i + 1)
        /\ \A j \in DOMAIN a[f].children : a[f].children[i] = a[f].children[j] => i = j
    BY <2>1 DEF Linked, ChildrenKnow
  <2>3. a[f].children[i] # id
    BY <2>1, <2>2 DEF Alone
  <2> QED BY <1>3, <1>4, <2>1, <2>2, <2>3
<1>8. ParentsKnow(b)
  <2> SUFFICES ASSUME NEW f \in Loaded(b), b[f].parent \in Loaded(b)
               PROVE  \E i \in DOMAIN b[b[f].parent].children :
                        b[b[f].parent].children[i] = f
    BY DEF ParentsKnow
  <2>1. f \in Loaded(a) /\ b[f] = a[f] /\ a[f].parent \in Loaded(a)
        /\ b[a[f].parent] = a[a[f].parent]
    BY <1>3, <1>4
  <2> QED BY <2>1 DEF Linked, ParentsKnow
<1> QED BY <1>1, <1>3, <1>4, <1>6, <1>7, <1>8 DEF Linked

(* What detach changes, for those who need no more. *)
LEMMA DetachKeepsLinks ==
  ASSUME NEW a \in Arena, Linked(a), NEW u, NEW rank, Older(a, u, rank),
         rank \in [Frame -> Nat],
         NEW id \in Loaded(a), NEW b, b = detach(a, id)
  PROVE  /\ b \in Arena /\ Loaded(b) = Loaded(a) /\ Linked(b) /\ Alone(b, id)
         /\ Older(b, u, rank) /\ b[id].children = a[id].children
         /\ \A f \in Loaded(a) \ {id} : b[f].parent = a[f].parent
<1>1. PICK k : Listed(a, id, k)
  BY IsListed DEF Linked
<1>2. b \in Arena /\ Detached(a, b, id, k)
  BY <1>1, DetachIs
<1>3. Linked(b)
  BY <1>1, <1>2, DetachedSiblings, DetachedChildren, DetachedParents DEF Linked
<1>4. /\ Loaded(b) = Loaded(a) /\ Alone(b, id)
      /\ \A f \in Loaded(a) : b[f].parent = IF f = id THEN NoFrame ELSE a[f].parent
  BY <1>2 DEF Detached, Alone
<1>5. Older(b, u, rank)
  <2>1. NoFrame \notin Loaded(a)
    BY FrameAssumption DEF Loaded
  <2> QED BY <1>4, <2>1 DEF Older
<1>6. a[id].parent # id
  <2>1. id \in Frame
    BY DEF Loaded
  <2>2. rank[id] \in Nat
    BY <2>1
  <2>3. a[id].parent = id => rank[id] < rank[id]
    BY DEF Older
  <2> QED BY <2>2, <2>3
<1>7. b[id].children = a[id].children
  BY <1>2, <1>6 DEF Detached
<1> QED BY <1>2, <1>3, <1>4, <1>5, <1>7

(* b is a with the new frame id under parent. *)
Grown(a, b, u, id, parent) ==
  /\ b \in Arena /\ Loaded(b) = Loaded(a) \cup {id}
  /\ Linked(b) /\ Aged(b, u \cup {id})
  /\ Adopted(a, b, id, parent)

LEMMA InsertKeepsLinks ==
  ASSUME NEW a \in Arena, Linked(a), NEW u, u \subseteq Frame, Loaded(a) \subseteq u,
         Aged(a, u), NEW id \in Frame, id \notin u, NEW parent \in Loaded(a), NEW position \in Nat,
         NEW r \in BOOLEAN, NEW b, b = insert_child(create_node(a, id, r), parent, id, position)
  PROVE  Grown(a, b, u, id, parent)
<1>1. PICK rank \in [Frame -> Nat] : Older(a, u, rank)
  BY DEF Aged
<1>2. /\ id \in Frame \ Loaded(a) /\ id # NoFrame /\ parent # id /\ parent \in Frame
      /\ NoFrame \notin Loaded(a)
  BY FrameAssumption DEF Loaded
<1>3. \A f \in Loaded(a) : a[f].parent # id
  BY <1>1, <1>2 DEF Older
<1>4. PICK c : c = create_node(a, id, r)
  OBVIOUS
<1>5. /\ c \in Arena /\ Loaded(c) = Loaded(a) \cup {id}
      /\ Linked(c) /\ Alone(c, id) /\ c[id].children = <<>>
      /\ \A f \in Loaded(a) : c[f] = a[f]
  <2>1. id \in Frame /\ id \notin Loaded(a)
    BY <1>2
  <2> QED BY <2>1, <1>3, <1>4, CreateKeepsLinks
<1>6. PICK s, i : /\ s = c[parent].children
                  /\ i = IF position < Len(s) THEN position ELSE Len(s)
  OBVIOUS
<1>7. parent \in Loaded(c) /\ id \in Loaded(c)
  BY <1>5
<1>8. s \in Seq(Frame) /\ i \in 0..Len(s)
  <2>1. s \in Seq(Frame)
    BY <1>5, <1>6, <1>7, NodeFields
  <2> QED BY <1>6, <2>1
<1>9. \A j \in DOMAIN s : s[j] # id
  <2>1. \A j \in DOMAIN s : c[s[j]].parent = parent
    BY <1>5, <1>6, <1>7 DEF Linked, ChildrenKnow
  <2> QED BY <1>2, <1>5, <2>1 DEF Alone
<1>10. b \in Arena /\ Inserted(c, b, parent, id, s, i)
  BY <1>2, <1>4, <1>5, <1>6, <1>7, <1>9, InsertChildIs
<1>11. Linked(b)
  BY <1>2, <1>5, <1>6, <1>7, <1>8, <1>10, InsertedKeepsLinks
<1>12. Loaded(b) = Loaded(a) \cup {id}
  BY <1>5, <1>10 DEF Inserted
<1>13. b[id].parent = parent /\ \A f \in Loaded(a) : b[f].parent = a[f].parent
  <2>1. \A g \in Loaded(c) : b[g].parent = IF g = id THEN parent ELSE c[g].parent
    BY <1>10 DEF Inserted
  <2> QED BY <1>2, <1>5, <2>1
<1>14. PICK new : new = [rank EXCEPT ![id] = rank[parent] + 1]
  OBVIOUS
<1>15. new \in [Frame -> Nat]
  BY <1>1, <1>2, <1>14
<1>16. Older(b, u \cup {id}, new)
  <2> SUFFICES ASSUME NEW f \in Loaded(b)
               PROVE  /\ b[f].parent \in u \cup {id} \cup {NoFrame}
                      /\ b[f].parent \in Loaded(b) => new[b[f].parent] < new[f]
    BY DEF Older
  <2>1. CASE f = id
    <3>1. new[id] = rank[parent] + 1 /\ new[parent] = rank[parent] /\ rank[parent] \in Nat
      BY <1>1, <1>2, <1>14
    <3>2. b[f].parent = parent /\ parent \in u
      BY <1>13, <2>1
    <3>3. new[parent] < new[f]
      BY <2>1, <3>1
    <3> QED BY <3>2, <3>3
  <2>2. CASE f # id
    <3>1. f \in Loaded(a) /\ b[f].parent = a[f].parent /\ f \in Frame
      BY <1>12, <1>13, <2>2 DEF Loaded
    <3>2. a[f].parent \in u \cup {NoFrame}
          /\ (a[f].parent \in Loaded(a) => rank[a[f].parent] < rank[f])
      BY <1>1, <3>1 DEF Older
    <3>3. a[f].parent \in Loaded(b) => a[f].parent \in Loaded(a) /\ a[f].parent \in Frame
      BY <1>3, <1>12, <3>1 DEF Loaded
    <3>4. new[f] = rank[f] /\ (a[f].parent \in Loaded(b) => new[a[f].parent] = rank[a[f].parent])
      BY <1>1, <1>2, <1>3, <1>14, <2>2, <3>1, <3>3
    <3> QED BY <3>1, <3>2, <3>3, <3>4
  <2> QED BY <2>1, <2>2
<1>17. Aged(b, u \cup {id})
  BY <1>15, <1>16 DEF Aged
<1>18. Adopted(a, b, id, parent)
  BY <1>13 DEF Adopted
<1> QED BY <1>10, <1>11, <1>12, <1>17, <1>18 DEF Grown

-----------------------------------------------------------------------------
(* The actions, while the tree was never reloaded *)

LEMMA InsertStep ==
  ASSUME FirstTree, NEW parent \in Frame, NEW id \in Frame, NEW position \in Nat,
         insert(parent, id, position)
  PROVE  FirstTree'
<1>1. parent \in Loaded(arena)
  BY DEF FirstTree, insert, Exists, Loaded
<1>2. /\ arena \in Arena /\ Linked(arena) /\ used \in SUBSET Frame
      /\ Loaded(arena) \subseteq used /\ Aged(arena, used) /\ id \in Frame \ used
      /\ arena' = insert_child(create_node(arena, id, FALSE), parent, id, position)
  BY DEF FirstTree, insert
<1>3. /\ arena' \in Arena /\ Loaded(arena') = Loaded(arena) \cup {id}
      /\ Linked(arena') /\ Aged(arena', used \cup {id})
      /\ Adopted(arena, arena', id, parent)
  <2>1. PICK a, b, u, r : a = arena /\ b = arena' /\ u = used /\ r = FALSE
    OBVIOUS
  <2>2. /\ a \in Arena /\ Linked(a) /\ u \subseteq Frame /\ Loaded(a) \subseteq u
        /\ Aged(a, u) /\ id \in Frame /\ id \notin u /\ parent \in Loaded(a)
        /\ r \in BOOLEAN /\ b = insert_child(create_node(a, id, r), parent, id, position)
    BY <1>1, <1>2, <2>1
  <2>3. Grown(a, b, u, id, parent)
    BY ONLY <2>2, position \in Nat, InsertKeepsLinks
  <2> QED BY <2>1, <2>3 DEF Grown
<1>4. stack = <<>> /\ UNCHANGED <<store, stack, removing, writes, missed>>
      /\ used' = used \cup {id}
  BY DEF insert, Ready
<1>5. /\ origin' \in [Frame -> Link] /\ origin'[id] = parent
      /\ \A f \in Frame : f # id => origin'[f] = origin[f]
  BY DEF insert, FirstTree, Link
<1>6. Covered(arena', origin', missed', stack')
  <2> SUFFICES ASSUME NEW f \in Loaded(arena')
               PROVE  \/ f \in missed \/ OnStack(stack', f)
                      \/ origin'[f] = NoFrame
                      \/ origin'[f] \in Loaded(arena') /\ arena'[f].parent = origin'[f]
    BY <1>4 DEF Covered
  <2>1. CASE f = id
    BY <1>1, <1>3, <1>5, <2>1 DEF Adopted
  <2>2. CASE f # id
    <3>1. f \in Loaded(arena) /\ f \in Frame /\ origin'[f] = origin[f]
          /\ arena'[f].parent = arena[f].parent
      BY <1>3, <1>5, <2>2 DEF Loaded, Adopted
    <3>2. \/ f \in missed \/ OnStack(stack, f) \/ origin[f] = NoFrame
          \/ origin[f] \in Loaded(arena) /\ arena[f].parent = origin[f]
      BY <3>1 DEF FirstTree, Covered
    <3> QED BY <1>3, <1>4, <3>1, <3>2
  <2> QED BY <2>1, <2>2
<1>7. \A f \in Frame \ used' : origin'[f] = NoFrame
  BY <1>4, <1>5 DEF FirstTree
<1> QED BY <1>2, <1>3, <1>4, <1>5, <1>6, <1>7 DEF FirstTree

LEMMA SetRootStep ==
  ASSUME FirstTree, NEW id \in Frame, set_root(id)
  PROVE  FirstTree'
<1>1. used = {} /\ Loaded(arena) = {} /\ arena \in Arena /\ Linked(arena) /\ stack = <<>>
  BY DEF FirstTree, set_root, Ready
<1>2. arena' = create_node(arena, id, TRUE) /\ used' = {id}
  BY DEF set_root
<1>3. /\ arena' \in Arena /\ Loaded(arena') = Loaded(arena) \cup {id}
      /\ Linked(arena') /\ Alone(arena', id)
  <2>1. id \in Frame /\ id \notin Loaded(arena) /\ TRUE \in BOOLEAN /\ \A f \in Loaded(arena) : arena[f].parent # id
    BY <1>1
  <2> QED BY <1>1, <1>2, <2>1, CreateKeepsLinks
<1>4. Aged(arena', used')
  <2>1. PICK rank \in [Frame -> Nat] : Older(arena, used, rank)
    BY DEF FirstTree, Aged
  <2>2. NoFrame \notin Loaded(arena')
    BY <1>1, <1>3, FrameAssumption
  <2>3. Older(arena', used', rank)
    BY <1>1, <1>3, <2>2 DEF Older, Alone
  <2> QED BY <2>1, <2>3 DEF Aged
<1>5. Covered(arena', origin', missed', stack')
  <2>1. origin' = origin /\ Loaded(arena') = {id} /\ origin[id] = NoFrame
    BY <1>1, <1>3 DEF set_root, FirstTree
  <2> QED BY <2>1 DEF Covered
<1> QED BY <1>1, <1>2, <1>3, <1>4, <1>5 DEF FirstTree, set_root

LEMMA FlushStep ==
  ASSUME FirstTree, NEW f \in Frame, flush(f)
  PROVE  FirstTree'
<1>1. /\ f \in Loaded(arena) /\ arena[f] \in FrameNode /\ arena \in Arena /\ store \in Arena
      /\ stack = <<>>
  BY DEF FirstTree, flush, Loaded, Arena, Ready
<1>2. PICK node : node = Clean(arena[f])
  OBVIOUS
<1>3. /\ node \in FrameNode /\ node # Absent
      /\ \A x \in Fields : node[x] = arena[f][x]
  <2>1. node \in FrameNode
    BY <1>1, <1>2 DEF Clean, FrameNode
  <2>2. \A x \in Fields : node[x] = arena[f][x]
    BY <1>1, <1>2 DEF Clean, FrameNode, Fields
  <2> QED BY <2>1, <2>2, AbsentAssumption
<1>4. arena' = [arena EXCEPT ![f] = node] /\ store' = [store EXCEPT ![f] = node]
  BY <1>2 DEF flush
<1>5. arena' \in Arena /\ store' \in Arena
  BY <1>1, <1>3, <1>4 DEF Arena
<1>6. arena'[f] = node /\ \A g \in Frame \ {f} : arena'[g] = arena[g]
  BY <1>1, <1>4 DEF Arena
<1>7. Loaded(arena') = Loaded(arena) /\ Loaded(store') = Loaded(store) \cup {f}
  <2>1. store'[f] = node /\ \A g \in Frame \ {f} : store'[g] = store[g]
    BY <1>1, <1>4 DEF Arena
  <2> QED BY <1>1, <1>3, <1>6, <2>1 DEF Loaded
<1>8. \A g \in Loaded(arena) : /\ arena'[g].parent = arena[g].parent
                               /\ arena'[g].children = arena[g].children
                               /\ arena'[g].next_sibling = arena[g].next_sibling
                               /\ arena'[g].prev_sibling = arena[g].prev_sibling
  <2>1. node.parent = arena[f].parent /\ node.children = arena[f].children
        /\ node.next_sibling = arena[f].next_sibling
        /\ node.prev_sibling = arena[f].prev_sibling
    BY <1>3 DEF Fields
  <2> QED BY <1>6, <2>1 DEF Loaded
<1>9. SiblingsKnow(arena')
  BY <1>7, <1>8 DEF FirstTree, Linked, SiblingsKnow
<1>10. ChildrenKnow(arena')
  BY <1>7, <1>8 DEF FirstTree, Linked, ChildrenKnow
<1>11. ParentsKnow(arena')
  BY <1>7, <1>8 DEF FirstTree, Linked, ParentsKnow
<1>12. Aged(arena', used)
  BY <1>7, <1>8 DEF FirstTree, Aged, Older
<1>13. Covered(arena', origin', missed', stack')
  <2>1. UNCHANGED <<origin, missed, stack>>
    BY DEF flush
  <2> QED BY <1>7, <1>8, <2>1 DEF FirstTree, Covered
<1> QED BY <1>1, <1>5, <1>7, <1>9, <1>10, <1>11, <1>12, <1>13 DEF FirstTree, flush, Linked

(* There is nothing to load: every row is of a loaded frame. *)
LEMMA TryGetStep ==
  ASSUME FirstTree, NEW f \in Frame
  PROVE  ~try_get(f)
  BY DEF FirstTree, try_get, Loaded

LEMMA RemoveStep ==
  ASSUME FirstTree, NEW id \in Frame, remove(id)
  PROVE  FirstTree'
<1>1. /\ stack' = <<id>> /\ removing' = id /\ missed' = missed \ {id} /\ stack = <<>>
      /\ UNCHANGED <<arena, store, used, writes, origin, reopens>>
  BY DEF remove, Ready
<1>2. <<id>> \in Seq(Frame) /\ OnStack(<<id>>, id) /\ id \in Link
  <2>1. 1 \in 1..Len(<<id>>) /\ <<id>>[1] = id
    OBVIOUS
  <2> QED BY <2>1 DEF OnStack, Link
<1>3. \A f : ~OnStack(stack, f)
  BY <1>1 DEF OnStack
<1>4. Covered(arena', origin', missed', stack')
  BY <1>1, <1>2, <1>3 DEF FirstTree, Covered
<1> QED BY <1>1, <1>2, <1>4 DEF FirstTree

LEMMA FrontIs ==
  ASSUME NEW s \in Seq(Frame), s # <<>>
  PROVE  /\ Front(s) \in Seq(Frame) /\ Len(Front(s)) = Len(s) - 1
         /\ \A k \in 1..Len(s)-1 : Front(s)[k] = s[k]
         /\ Len(s) \in 1..Len(s) /\ Last(s) = s[Len(s)] /\ Len(s) - 1 \in Nat
<1>1. Len(s) \in Nat /\ Len(s) # 0
  OBVIOUS
<1>2. PICK t, n : t = SubSeq(s, 1, n) /\ n = Len(s) - 1
  OBVIOUS
<1>3. n \in Nat /\ n <= Len(s) /\ Len(s) \in 1..Len(s)
  BY <1>1, <1>2
<1>4. \A k \in 1..n : k \in 1..Len(s) /\ s[k] \in Frame
  BY <1>3
<1>5. t \in Seq(Frame) /\ Len(t) = n /\ \A k \in 1..n : t[k] = s[k]
  BY <1>2, <1>3, <1>4
<1>6. Front(s) = t /\ Last(s) = s[Len(s)]
  BY <1>2 DEF Front, Last
<1> QED BY <1>2, <1>3, <1>5, <1>6

(* What the end of a stack is taken off for keeps the rest of it. *)
LEMMA OnFront ==
  ASSUME NEW s \in Seq(Frame), s # <<>>, NEW f, OnStack(s, f), f # Last(s)
  PROVE  OnStack(Front(s), f)
<1>1. PICK k \in 1..Len(s) : s[k] = f
  BY DEF OnStack
<1>2. k # Len(s)
  BY <1>1, FrontIs
<1>3. k \in 1..Len(s)-1 /\ Len(Front(s)) = Len(s) - 1 /\ Front(s)[k] = s[k]
  BY <1>1, <1>2, FrontIs
<1> QED BY <1>1, <1>3 DEF OnStack

LEMMA OnConcat ==
  ASSUME NEW u \in Seq(Frame), NEW v \in Seq(Frame), NEW f,
         OnStack(u, f) \/ OnStack(v, f)
  PROVE  OnStack(u \o v, f)
<1>1. PICK t : t = u \o v
  OBVIOUS
<1>2. /\ t \in Seq(Frame) /\ Len(t) = Len(u) + Len(v)
      /\ \A m \in 1..Len(u) : t[m] = u[m]
      /\ \A m \in 1..Len(v) : t[Len(u) + m] = v[m]
  BY <1>1, ConcatIs
<1>3. Len(u) \in Nat /\ Len(v) \in Nat /\ Len(t) = Len(u) + Len(v)
  BY <1>2
<1>4. CASE OnStack(u, f)
  <2>1. PICK k \in 1..Len(u) : u[k] = f
    BY <1>4 DEF OnStack
  <2>2. k \in 1..Len(t)
    BY ONLY <1>3, <2>1
  <2> QED BY <1>1, <1>2, <2>1, <2>2 DEF OnStack
<1>5. CASE OnStack(v, f)
  <2>1. PICK k \in 1..Len(v) : v[k] = f
    BY <1>5 DEF OnStack
  <2>2. Len(u) + k \in 1..Len(t)
    BY ONLY <1>3, <2>1
  <2>3. t[Len(u) + k] = f
    BY <1>2, <2>1
  <2> QED BY <1>1, <2>2, <2>3 DEF OnStack
<1> QED BY <1>4, <1>5

(* A frame that is not loaded can be taken off the stack. *)
LEMMA SkipCovers ==
  ASSUME NEW a, NEW bn, NEW ms, NEW s \in Seq(Frame), s # <<>>, Covered(a, bn, ms, s),
         Last(s) \notin Loaded(a)
  PROVE  Covered(a, bn, ms, Front(s))
<1>1. \A f \in Loaded(a) : OnStack(s, f) => OnStack(Front(s), f)
  BY OnFront
<1> QED BY <1>1 DEF Covered

(* A frame that is deleted leaves its children on the stack. *)
LEMMA DeleteCovers ==
  ASSUME NEW a \in Arena, ParentsKnow(a), NEW bn, NEW ms, NEW s \in Seq(Frame), s # <<>>,
         Covered(a, bn, ms, s), NEW id \in Loaded(a), id = Last(s),
         NEW b, Loaded(b) = Loaded(a) \ {id},
         \A f \in Loaded(b) : b[f].parent = a[f].parent,
         NEW t, t = Front(s) \o a[id].children
  PROVE  /\ t \in Seq(Frame) /\ Covered(b, bn, ms, t)
         /\ Carried(Loaded(b), s, t)
<1>1. PICK u, v : u = Front(s) /\ v = a[id].children
  OBVIOUS
<1>2. u \in Seq(Frame) /\ v \in Seq(Frame) /\ t = u \o v
  BY <1>1, FrontIs, NodeFields
<1>3. t \in Seq(Frame) /\ \A f : OnStack(u, f) \/ OnStack(v, f) => OnStack(t, f)
  BY <1>2, ConcatIs, OnConcat
<1>4. \A f \in Loaded(b) : OnStack(s, f) => OnStack(t, f)
  BY <1>1, <1>3, OnFront
<1>5. ASSUME NEW f \in Loaded(b), a[f].parent = id
      PROVE  OnStack(t, f)
  <2>1. PICK m \in DOMAIN v : v[m] = f
    BY <1>1, <1>5 DEF ParentsKnow
  <2>2. DOMAIN v = 1..Len(v)
    BY <1>2
  <2> QED BY <1>3, <2>1, <2>2 DEF OnStack
<1>6. Covered(b, bn, ms, t)
  <2> SUFFICES ASSUME NEW f \in Loaded(b), f \notin ms, ~OnStack(t, f), bn[f] # NoFrame
               PROVE  bn[f] \in Loaded(b) /\ b[f].parent = bn[f]
    BY DEF Covered
  <2>1. f \in Loaded(a) /\ ~OnStack(s, f) /\ a[f].parent # id /\ b[f].parent = a[f].parent
    BY <1>4, <1>5
  <2>2. bn[f] \in Loaded(a) /\ a[f].parent = bn[f]
    BY <2>1 DEF Covered
  <2> QED BY <2>1, <2>2
<1> QED BY <1>3, <1>4, <1>6 DEF Carried

(* One frame of the subtree: it leaves the arena with its row, nothing is  *)
(* left to write, and the rest of the subtree is covered.                  *)
LEMMA DeleteStep ==
  ASSUME FirstTree, remove_deleted
  PROVE  /\ arena' \in Arena /\ Linked(arena') /\ Aged(arena', used)
         /\ Last(stack) \in Loaded(arena) /\ Loaded(arena') = Loaded(arena) \ {Last(stack)}
         /\ store' = [store EXCEPT ![Last(stack)] = Absent]
         /\ writes' = {}
         /\ stack' \in Seq(Frame) /\ Covered(arena', origin, missed, stack')
         /\ removing' = (IF stack' = <<>> THEN NoFrame ELSE removing)
         /\ Carried(Loaded(arena'), stack, stack')
         /\ UNCHANGED <<used, origin, missed, reopens>>
<1>1. PICK a, id, b : a = arena /\ id = Last(stack) /\ b = detach(arena, Last(stack))
  OBVIOUS
<1>2. /\ a \in Arena /\ Linked(a) /\ id \in Loaded(a) /\ b = detach(a, id)
      /\ stack \in Seq(Frame) /\ stack # <<>> /\ writes = {}
      /\ Covered(a, origin, missed, stack)
  BY <1>1 DEF FirstTree, remove_deleted, Ready
<1>3. PICK rank \in [Frame -> Nat] : Older(a, used, rank)
  BY <1>1 DEF FirstTree, Aged
<1>4. /\ b \in Arena /\ Loaded(b) = Loaded(a) /\ Linked(b) /\ Alone(b, id)
      /\ Older(b, used, rank) /\ b[id].children = a[id].children
      /\ \A f \in Loaded(a) \ {id} : b[f].parent = a[f].parent
  <2>1. PICK u : u = used
    OBVIOUS
  <2>2. Older(a, u, rank) /\ rank \in [Frame -> Nat]
    BY <1>3, <2>1
  <2>3. /\ b \in Arena /\ Loaded(b) = Loaded(a) /\ Linked(b) /\ Alone(b, id)
        /\ Older(b, u, rank) /\ b[id].children = a[id].children
        /\ \A f \in Loaded(a) \ {id} : b[f].parent = a[f].parent
    BY ONLY <1>2, <2>2, DetachKeepsLinks
  <2> QED BY <2>1, <2>3
<1>5. PICK c : c = [b EXCEPT ![id] = Absent]
  OBVIOUS
<1>6. /\ c \in Arena /\ Loaded(c) = Loaded(b) \ {id} /\ Linked(c)
      /\ \A f \in Loaded(c) : c[f] = b[f]
  <2>1. b \in Arena /\ Linked(b) /\ id \in Loaded(b) /\ Alone(b, id)
    BY <1>2, <1>4
  <2>2. id \in Frame
    BY <2>1 DEF Loaded
  <2>3. c \in Arena /\ c[id] = Absent /\ \A f \in Frame : f # id => c[f] = b[f]
    BY <1>5, <2>1, <2>2 DEF Arena
  <2>4. /\ Loaded(c) = Loaded(b) \ {id} /\ Linked(c)
        /\ \A f \in Loaded(c) : c[f] = b[f]
    BY ONLY <2>1, <2>3, UnloadKeepsLinks
  <2> QED BY <2>3, <2>4
<1>7. Older(c, used, rank)
  BY <1>4, <1>6 DEF Older
<1>8. Dropped(delete(b, id), {id}) = {}
  <2>1. b[id] \in FrameNode /\ id \in Frame
    BY <1>2, <1>4, NodeFields
  <2>2. delete(b, id)[id] = Clean(b[id])
    BY <1>4, <2>1 DEF delete, Arena
  <2>3. ~Clean(b[id]).dirty
    BY <2>1 DEF Clean, FrameNode
  <2> QED BY <2>2, <2>3 DEF Dropped
<1>9. /\ arena' = c /\ store' = [store EXCEPT ![id] = Absent]
      /\ writes' = {}
      /\ stack' = Front(stack) \o a[id].children
      /\ removing' = (IF stack' = <<>> THEN NoFrame ELSE removing)
      /\ UNCHANGED <<used, origin, missed, reopens>>
  BY <1>1, <1>2, <1>4, <1>5, <1>8 DEF remove_deleted, Continue
<1>10. PICK bn, ms, s, t : bn = origin /\ ms = missed /\ s = stack /\ t = stack'
  OBVIOUS
<1>11. /\ t \in Seq(Frame) /\ Covered(c, bn, ms, t)
       /\ Carried(Loaded(c), s, t)
  <2>1. /\ ParentsKnow(a) /\ s \in Seq(Frame) /\ s # <<>> /\ Covered(a, bn, ms, s)
        /\ id = Last(s) /\ t = Front(s) \o a[id].children
    BY <1>1, <1>2, <1>9, <1>10 DEF Linked
  <2>2. Loaded(c) = Loaded(a) \ {id} /\ \A f \in Loaded(c) : c[f].parent = a[f].parent
    BY <1>4, <1>6
  <2>3. a \in Arena /\ id \in Loaded(a)
    BY <1>2
  <2> QED BY ONLY <2>1, <2>2, <2>3, DeleteCovers
<1>12. Aged(c, used)
  BY <1>3, <1>7 DEF Aged
<1> QED BY <1>1, <1>2, <1>4, <1>6, <1>9, <1>10, <1>11, <1>12

LEMMA DeletedStep ==
  ASSUME FirstTree, remove_deleted
  PROVE  FirstTree'
<1>1. /\ arena' \in Arena /\ Linked(arena') /\ Aged(arena', used)
      /\ Last(stack) \in Loaded(arena) /\ Loaded(arena') = Loaded(arena) \ {Last(stack)}
      /\ store' = [store EXCEPT ![Last(stack)] = Absent]
      /\ writes' = {}
      /\ stack' \in Seq(Frame) /\ Covered(arena', origin, missed, stack')
      /\ removing' = (IF stack' = <<>> THEN NoFrame ELSE removing)
      /\ Carried(Loaded(arena'), stack, stack')
      /\ UNCHANGED <<used, origin, missed, reopens>>
  BY DeleteStep
<1>2. PICK id : id = Last(stack)
  OBVIOUS
<1>3. id \in Frame /\ store \in Arena
  BY <1>1, <1>2 DEF Loaded, FirstTree
<1>4. store' \in Arena
  BY <1>1, <1>2, <1>3 DEF Arena
<1>5. Loaded(store') = Loaded(store) \ {id}
  <2>1. store'[id] = Absent /\ \A f \in Frame : f # id => store'[f] = store[f]
    BY <1>1, <1>2, <1>3 DEF Arena
  <2> QED BY <2>1 DEF Loaded
<1>6. /\ used \subseteq Frame /\ stack # <<>> /\ removing \in Link
      /\ Loaded(store) \subseteq Loaded(arena) /\ Loaded(arena) \subseteq used
      /\ removing \in Frame /\ (removing \in Loaded(arena) => OnStack(stack, removing))
  BY DEF FirstTree, remove_deleted, Ready
<1>7. Loaded(store') \subseteq Loaded(arena') /\ Loaded(arena') \subseteq used
  BY <1>1, <1>2, <1>5, <1>6
<1>8. /\ removing' \in Link
      /\ stack' # <<>> => removing' = removing
  BY <1>1, <1>6 DEF Link
<1>9. used' = used /\ used' \subseteq Frame /\ writes' = {} /\ stack' \in Seq(Frame)
  BY <1>1, <1>6
<1>10. stack' # <<>> =>
         removing' \in Frame /\ (removing' \in Loaded(arena') => OnStack(stack', removing'))
  BY <1>1, <1>6, <1>8 DEF Carried
<1> QED BY <1>1, <1>4, <1>7, <1>8, <1>9, <1>10 DEF FirstTree

LEMMA SkippedStep ==
  ASSUME FirstTree, remove_skipped
  PROVE  FirstTree' /\ Covered(arena', origin, missed, stack')
<1>1. /\ stack \in Seq(Frame) /\ stack # <<>> /\ Covered(arena, origin, missed, stack)
      /\ Last(stack) \notin Loaded(arena) /\ removing \in Frame
      /\ removing \in Loaded(arena) => OnStack(stack, removing)
  BY DEF FirstTree, remove_skipped, Ready
<1>2. /\ stack' = Front(stack) /\ removing' = (IF stack' = <<>> THEN NoFrame ELSE removing)
      /\ UNCHANGED <<arena, store, used, writes, origin, missed, reopens>>
  BY DEF remove_skipped, Continue
<1>3. stack' \in Seq(Frame)
  BY <1>1, <1>2, FrontIs
<1>4. Covered(arena, origin, missed, stack')
  <2>1. PICK a, bn, ms, s, t :
          a = arena /\ bn = origin /\ ms = missed /\ s = stack /\ t = stack'
    OBVIOUS
  <2>2. /\ s \in Seq(Frame) /\ s # <<>> /\ Covered(a, bn, ms, s) /\ Last(s) \notin Loaded(a)
        /\ t = Front(s)
    BY <1>1, <1>2, <2>1
  <2>3. Covered(a, bn, ms, Front(s))
    BY ONLY <2>2, SkipCovers
  <2> QED BY <2>1, <2>2, <2>3
<1>5. /\ removing' \in Link
      /\ stack' # <<>> => removing' = removing
  BY <1>1, <1>2 DEF Link
<1>6. removing \in Loaded(arena) => OnStack(stack', removing)
  BY <1>1, <1>2, OnFront
<1>7. stack' # <<>> =>
        removing' \in Frame /\ (removing' \in Loaded(arena') => OnStack(stack', removing'))
  BY <1>1, <1>2, <1>5, <1>6
<1>8. Covered(arena', origin', missed', stack')
  BY <1>2, <1>4
<1> QED BY <1>2, <1>3, <1>4, <1>5, <1>7, <1>8 DEF FirstTree

LEMMA FailedStep ==
  ASSUME FirstTree, remove_failed
  PROVE  FirstTree'
<1>1. PICK a, id, b, u : a = arena /\ id = Last(stack) /\ b = arena' /\ u = used
  OBVIOUS
<1>2. PICK rank \in [Frame -> Nat] : Older(a, u, rank)
  BY <1>1 DEF FirstTree, Aged
<1>3. a \in Arena /\ Linked(a) /\ id \in Loaded(a) /\ b = detach(a, id)
  BY <1>1 DEF FirstTree, remove_failed
<1>4. /\ b \in Arena /\ Loaded(b) = Loaded(a) /\ Linked(b) /\ Older(b, u, rank)
      /\ \A f \in Loaded(a) \ {id} : b[f].parent = a[f].parent
  <2>1. rank \in [Frame -> Nat] /\ Older(a, u, rank)
    BY <1>2
  <2> QED BY ONLY <1>3, <2>1, DetachKeepsLinks
<1>5. Aged(b, u)
  BY <1>2, <1>4 DEF Aged
<1>6. stack' = <<>> /\ stack' \in Seq(Frame) /\ removing' \in Link
  BY DEF remove_failed, Link
<1>7. stack \in Seq(Frame) /\ stack # <<>>
  BY DEF FirstTree, remove_failed, Ready
<1>8. missed' = missed \cup Range(stack) /\ origin' = origin /\ missed \subseteq Frame
  BY DEF remove_failed, FirstTree
<1>9. \A f : OnStack(stack, f) => f \in Range(stack)
  BY <1>7 DEF OnStack, Range
<1>10. id \in Range(stack) /\ Range(stack) \subseteq Frame
  BY <1>1, <1>7, FrontIs DEF Range
<1>11. Covered(arena', origin', missed', stack')
  BY <1>1, <1>4, <1>8, <1>9, <1>10 DEF FirstTree, Covered
<1> QED BY <1>1, <1>4, <1>5, <1>6, <1>8, <1>10, <1>11 DEF FirstTree, remove_failed

-----------------------------------------------------------------------------
(* The invariant of the tree *)

LEMMA TreeStarts == Init => TreeInv
<1> SUFFICES ASSUME Init PROVE TreeInv
  OBVIOUS
<1>1. /\ arena \in Arena /\ store \in Arena
      /\ Loaded(arena) = {} /\ Loaded(store) = {}
  BY DEF Init, Arena, Loaded
<1>2. Linked(arena)
  BY <1>1 DEF Linked, SiblingsKnow, ChildrenKnow, ParentsKnow
<1>3. Aged(arena, used)
  <2>1. PICK rank : rank = [f \in Frame |-> 0]
    OBVIOUS
  <2>2. rank \in [Frame -> Nat]
    BY <2>1
  <2>3. Older(arena, used, rank)
    BY <1>1 DEF Older
  <2> QED BY <2>2, <2>3 DEF Aged
<1>4. stack = <<>> /\ stack \in Seq(Frame) /\ removing \in Link
  BY DEF Init, Link
<1>5. origin \in [Frame -> Link] /\ \A f \in Frame : origin[f] = NoFrame
  BY DEF Init, Link
<1>6. Covered(arena, origin, missed, stack)
  BY <1>1 DEF Covered
<1> QED BY <1>1, <1>2, <1>3, <1>4, <1>5, <1>6 DEF TreeInv, FirstTree, Init

(* What a step of the tree that was never reloaded can be. *)
LEMMA FirstTreeNext ==
  ASSUME FirstTree, Next, reopens \in Nat, reopens' = reopens
  PROVE  FirstTree'
<1>1. ASSUME NEW id \in Frame, set_root(id) PROVE FirstTree'
  BY <1>1, SetRootStep
<1>2. ASSUME NEW id \in Frame, remove(id) PROVE FirstTree'
  BY <1>2, RemoveStep
<1>3. ASSUME NEW id \in Frame, flush(id) PROVE FirstTree'
  BY <1>3, FlushStep
<1>4. ASSUME NEW p \in Frame, NEW id \in Frame, insert(p, id, 0) PROVE FirstTree'
  BY <1>4, InsertStep
<1>5. ASSUME NEW p \in Frame, NEW id \in Frame, append(p, id) PROVE FirstTree'
  <2>1. PICK position : position = (IF p \in Loaded(arena) THEN Len(arena[p].children) ELSE 0)
    OBVIOUS
  <2>2. position \in Nat
    <3>1. CASE p \in Loaded(arena)
      <4>1. arena[p].children \in Seq(Frame)
        BY <3>1, NodeFields DEF FirstTree
      <4> QED BY <2>1, <3>1, <4>1
    <3> QED BY <2>1, <3>1
  <2>3. insert(p, id, position)
    BY <1>5, <2>1 DEF append
  <2> QED BY <2>2, <2>3, InsertStep
<1>6. CASE remove_deleted
  BY <1>6, DeletedStep
<1>7. CASE remove_skipped
  BY <1>7, SkippedStep
<1>8. CASE remove_failed
  BY <1>8, FailedStep
<1>9. ~Reopen
  BY DEF Reopen
<1>10. writes = {}
  BY DEF FirstTree
<1> QED BY <1>1, <1>2, <1>3, <1>4, <1>5, <1>6, <1>7, <1>8, <1>9, <1>10, TryGetStep DEF Next

LEMMA TreeContinues == TreeInv /\ [Next]_vars => TreeInv'
<1> SUFFICES ASSUME TreeInv, [Next]_vars PROVE TreeInv'
  OBVIOUS
<1>1. CASE Reopen
  <2>1. reopens' \in Nat /\ reopens' # 0
    BY <1>1 DEF TreeInv, Reopen
  <2> QED BY <2>1 DEF TreeInv
<1>2. CASE Next /\ ~Reopen
  <2>1. reopens' = reopens
    <3> USE <1>2 DEF Next
    <3> QED BY DEF set_root, remove, try_get, flush, append, insert, remove_deleted,
                   remove_skipped, remove_failed, upsert_frame
  <2> QED BY <1>2, <2>1, FirstTreeNext DEF TreeInv
<1>3. CASE UNCHANGED vars
  BY <1>3 DEF TreeInv, FirstTree, vars
<1> QED BY <1>1, <1>2, <1>3

LEMMA TreeIsSound == Spec => []TreeInv
  BY TreeStarts, TreeContinues, PTL DEF Spec

(* The parent, the sibling links and the list of children of the loaded    *)
(* frames tell the same story after any sequence of append, insert and     *)
(* remove, a remove that failed half way included, in a tree of any size.  *)
THEOREM LinksTellOneStory == Spec => []LinksAgree
<1>1. ASSUME TreeInv, reopens = 0, NEW f \in Loaded(arena)
      PROVE  /\ arena[f].next_sibling \in Loaded(arena) =>
                  arena[arena[f].next_sibling].prev_sibling = f
             /\ arena[f].prev_sibling \in Loaded(arena) =>
                  arena[arena[f].prev_sibling].next_sibling = f
             /\ \A i \in DOMAIN arena[f].children :
                  arena[f].children[i] \in Loaded(arena) =>
                    arena[arena[f].children[i]].parent = f
  <2>1. SiblingsKnow(arena) /\ ChildrenKnow(arena) /\ NoFrame \notin Loaded(arena)
    BY <1>1, FrameAssumption DEF TreeInv, FirstTree, Linked, Loaded
  <2> QED BY <1>1, <2>1 DEF SiblingsKnow, ChildrenKnow
<1>2. ASSUME TreeInv, reopens = 0, NEW f \in Loaded(arena)
      PROVE  LET p == arena[f].parent
                 next == arena[f].next_sibling
                 prev == arena[f].prev_sibling
             IN /\ next \in Loaded(arena) => arena[next].prev_sibling = f
                /\ prev \in Loaded(arena) => arena[prev].next_sibling = f
                /\ \A i \in DOMAIN arena[f].children :
                     LET c == arena[f].children[i]
                     IN  c \in Loaded(arena) => arena[c].parent = f
                /\ p \in Loaded(arena) =>
                     \E i \in DOMAIN arena[p].children :
                       /\ Position(arena[p].children, f) = {i}
                       /\ prev = IF i = 1 THEN NoFrame ELSE arena[p].children[i - 1]
                       /\ next = IF i = Len(arena[p].children) THEN NoFrame
                                 ELSE arena[p].children[i + 1]
  <2>1. PICK p : p = arena[f].parent
    OBVIOUS
  <2>2. ASSUME p \in Loaded(arena)
        PROVE  \E i \in DOMAIN arena[p].children :
                 /\ Position(arena[p].children, f) = {i}
                 /\ arena[f].prev_sibling = IF i = 1 THEN NoFrame ELSE arena[p].children[i - 1]
                 /\ arena[f].next_sibling = IF i = Len(arena[p].children) THEN NoFrame
                                            ELSE arena[p].children[i + 1]
    <3>1. arena \in Arena /\ ChildrenKnow(arena) /\ ParentsKnow(arena)
      BY <1>2, <2>1, <2>2 DEF TreeInv, FirstTree, Linked
    <3>2. PICK s : s = arena[p].children
      OBVIOUS
    <3>3. s \in Seq(Frame)
      BY <1>2, <2>1, <2>2, <3>1, <3>2, NodeFields
    <3>4. PICK i \in DOMAIN s : s[i] = f
      BY <1>2, <2>1, <2>2, <3>1, <3>2 DEF ParentsKnow
    <3>5. /\ arena[f].prev_sibling = At(s, i - 1) /\ arena[f].next_sibling = At(s, i + 1)
          /\ \A j \in DOMAIN s : s[j] = f => i = j
      BY <1>2, <2>1, <2>2, <3>1, <3>2, <3>4 DEF ChildrenKnow
    <3>6. Position(s, f) = {i}
      BY <3>4, <3>5 DEF Position
    <3>7. i \in 1..Len(s) /\ DOMAIN s = 1..Len(s) /\ Len(s) \in Nat
      BY <3>3, <3>4
    <3>8. At(s, i - 1) = IF i = 1 THEN NoFrame ELSE s[i - 1]
      <4>1. i - 1 \in DOMAIN s <=> i # 1
        BY <3>7
      <4> QED BY <4>1 DEF At
    <3>9. At(s, i + 1) = IF i = Len(s) THEN NoFrame ELSE s[i + 1]
      <4>1. i + 1 \in DOMAIN s <=> i # Len(s)
        BY <3>7
      <4> QED BY <4>1 DEF At
    <3> QED BY <3>2, <3>4, <3>5, <3>6, <3>8, <3>9
  <2>3. /\ arena[f].next_sibling \in Loaded(arena) =>
             arena[arena[f].next_sibling].prev_sibling = f
        /\ arena[f].prev_sibling \in Loaded(arena) =>
             arena[arena[f].prev_sibling].next_sibling = f
        /\ \A i \in DOMAIN arena[f].children :
             arena[f].children[i] \in Loaded(arena) =>
               arena[arena[f].children[i]].parent = f
    BY <1>1, <1>2
  <2> QED BY <2>1, <2>2, <2>3
<1>3. TreeInv => LinksAgree
  BY <1>2, Zenon DEF LinksAgree
<1> QED BY <1>3, TreeIsSound, PTL

(* Below is closed: it has fs and what was created under its frames. *)
LEMMA BelowIsClosed ==
  ASSUME NEW fs \in SUBSET Frame
  PROVE  /\ fs \subseteq Below(fs) /\ Below(fs) \subseteq Frame
         /\ \A f \in Frame : origin[f] \in Below(fs) => f \in Below(fs)
         /\ \A S \in SUBSET Frame :
              fs \subseteq S /\ (\A f \in Frame : origin[f] \in S => f \in S) => Below(fs) \subseteq S
<1>1. \A S \in SUBSET Frame :
        fs \subseteq S /\ (\A f \in Frame : origin[f] \in S => f \in S) => Below(fs) \subseteq S
  BY DEF Below
<1>2. fs \subseteq Below(fs) /\ Below(fs) \subseteq Frame
  BY DEF Below
<1>3. ASSUME NEW f \in Frame, origin[f] \in Below(fs) PROVE f \in Below(fs)
  <2> SUFFICES ASSUME NEW S \in SUBSET Frame, fs \subseteq S,
                      \A g \in Frame : origin[g] \in S => g \in S
               PROVE  f \in S
    BY DEF Below
  <2>1. origin[f] \in S
    BY <1>1, <1>3
  <2> QED BY <2>1
<1> QED BY <1>1, <1>2, <1>3

(* A FrameTree::remove that returns without an error has taken every frame *)
(* ever created below its own, from the arena and from the store, except   *)
(* at or below those that a failed removal had still to remove, in a tree  *)
(* of any size that was never reloaded.  Every loaded frame hangs under    *)
(* the one it was created under, is on the stack or was given up by a      *)
(* failed removal; so once the stack is empty the frames that are gone and *)
(* those below the ones given up are closed under children.                *)
THEOREM RemoveIsComplete == Spec => RemoveTakesSubtree
<1>1. ASSUME TreeInv, Next, reopens = 0, Returned, ~remove_failed
      PROVE  Gone(Below({removing}) \ Below(missed))
  <2>1. FirstTree /\ stack # <<>> /\ stack' = <<>> /\ removing \in Frame
    BY <1>1 DEF TreeInv, FirstTree, Returned
  <2>2. remove_deleted \/ remove_skipped
    <3>1. stack' # stack
      BY <2>1
    <3>2. ~Ready
      BY <2>1 DEF Ready
    <3> QED BY <1>1, <3>1, <3>2 DEF Next, set_root, remove, try_get, flush, append, insert,
                                    Reopen, upsert_frame
  <2>3. FirstTree' /\ Covered(arena', origin, missed, stack')
    BY <2>1, <2>2, DeletedStep, SkippedStep, DeleteStep
  <2>4. \A f : ~OnStack(stack', f)
    BY <2>1 DEF OnStack
  <2>5. removing \notin Loaded(arena')
    <3>1. removing \in Loaded(arena) => OnStack(stack, removing)
      BY <2>1 DEF FirstTree
    <3>2. CASE remove_deleted
      <4>1. Carried(Loaded(arena'), stack, stack') /\ Loaded(arena') \subseteq Loaded(arena)
        BY <2>1, <3>2, DeleteStep
      <4> QED BY <2>4, <3>1, <4>1 DEF Carried
    <3>3. CASE remove_skipped
      <4>1. /\ arena' = arena /\ stack' = Front(stack) /\ Last(stack) \notin Loaded(arena)
            /\ stack \in Seq(Frame)
        BY <2>1, <3>3 DEF remove_skipped, Continue, FirstTree
      <4> QED BY <2>1, <2>4, <3>1, <4>1, OnFront
    <3> QED BY <2>2, <3>2, <3>3
  <2>6. \A f \in Loaded(arena') : f \in missed \/ origin[f] = NoFrame \/ origin[f] \in Loaded(arena')
    BY <2>3, <2>4 DEF Covered
  <2>7. missed \in SUBSET Frame /\ {removing} \in SUBSET Frame
    BY <2>1 DEF FirstTree
  <2>8. PICK out, S : out = Below(missed) /\ S = (Frame \ Loaded(arena')) \cup out
    OBVIOUS
  <2>9. /\ missed \subseteq out /\ out \subseteq Frame
        /\ \A f \in Frame : origin[f] \in out => f \in out
    BY <2>7, <2>8, BelowIsClosed
  <2>10. S \in SUBSET Frame /\ {removing} \subseteq S
    BY <2>1, <2>5, <2>8, <2>9
  <2>11. ASSUME NEW f \in Frame, origin[f] \in S PROVE f \in S
    <3>1. origin[f] # NoFrame
      BY <2>10, <2>11, FrameAssumption
    <3> QED BY <2>6, <2>8, <2>9, <2>11, <3>1
  <2>12. Below({removing}) \subseteq S
    BY <2>7, <2>10, <2>11, BelowIsClosed
  <2>13. Loaded(store') \subseteq Loaded(arena')
    BY <2>3 DEF FirstTree
  <2>14. \A f \in Below({removing}) \ out : f \in Frame /\ f \notin Loaded(arena')
    BY <2>8, <2>10, <2>12
  <2>15. \A f \in Below({removing}) \ out : arena'[f] = Absent /\ store'[f] = Absent
    BY <2>13, <2>14 DEF Loaded
  <2> QED BY <2>8, <2>15 DEF Gone
<1>2. TreeInv /\ [Next]_vars
        => [reopens = 0 /\ Returned /\ ~remove_failed
              => Gone(Below({removing}) \ Below(missed))]_vars
  BY <1>1
<1> QED BY <1>2, TreeIsSound, PTL DEF Spec, RemoveTakesSubtree

-----------------------------------------------------------------------------
(* Walks, in trees that were reloaded as well *)

(* retain takes nothing but elements of the list. *)
LEMMA RetainOver ==
  ASSUME NEW X, NEW s \in Seq(X), NEW id
  PROVE  retain(s, id) \in Seq(X)
<1> DEFINE n == Len(s)
           Step(g) == [i \in 0..n |-> IF i = 0 THEN <<>>
                                      ELSE IF s[i] = id THEN g[i - 1]
                                      ELSE Append(g[i - 1], s[i])]
           Computes(g, m) == /\ g[0] = <<>>
                             /\ \A i \in 1..m : g[i] = IF s[i] = id THEN g[i - 1]
                                                       ELSE Append(g[i - 1], s[i])
           P == {m \in 0..n : \E g \in [0..m -> Seq(X)] : Computes(g, m)}
           kept == CHOOSE g : g = Step(g)
<1>0. n \in Nat /\ <<>> \in Seq(X) /\ \A i \in 1..n : s[i] \in X
  OBVIOUS
<1> HIDE DEF n
<1>1. 0 \in P
  <2>1. PICK g : g = [i \in 0..0 |-> <<>>]
    OBVIOUS
  <2>2. g \in [0..0 -> Seq(X)] /\ g[0] = <<>> /\ 1..0 = {} /\ 0 \in 0..n
    BY <1>0, <2>1
  <2>3. Computes(g, 0)
    BY <2>2
  <2> HIDE DEF Computes
  <2> QED BY <2>2, <2>3
<1>2. \A k \in 0..n-1 : k \in P => k + 1 \in P
  <2> SUFFICES ASSUME NEW k \in 0..n-1, k \in P PROVE k + 1 \in P
    OBVIOUS
  <2>1. PICK g \in [0..k -> Seq(X)] : Computes(g, k)
    <3> HIDE DEF Computes
    <3> QED OBVIOUS
  <2>2. k \in Nat /\ k \in 0..k /\ k + 1 \in 1..n /\ k + 1 \in 0..n /\ 0 \in 0..k
    BY <1>0
  <2>3. PICK x \in Seq(X) : x = IF s[k + 1] = id THEN g[k] ELSE Append(g[k], s[k + 1])
    <3>1. g[k] \in Seq(X) /\ s[k + 1] \in X
      BY <1>0, <2>2
    <3>2. Append(g[k], s[k + 1]) \in Seq(X)
      BY <3>1
    <3> QED BY <3>1, <3>2
  <2>4. PICK h : h = [i \in 0..(k + 1) |-> IF i = k + 1 THEN x ELSE g[i]]
    OBVIOUS
  <2>5. \A i \in 0..(k + 1) : i # k + 1 => i \in 0..k
    BY <2>2
  <2>6. h \in [0..(k + 1) -> Seq(X)] /\ h[k + 1] = x /\ \A i \in 0..k : h[i] = g[i]
    <3>1. \A i \in 0..k : i \in 0..(k + 1) /\ i # k + 1
      BY <2>2
    <3>2. k + 1 \in 0..(k + 1)
      BY <2>2
    <3> QED BY <2>4, <2>5, <3>1, <3>2
  <2>7. Computes(h, k + 1)
    <3>1. h[0] = <<>>
      BY <2>1, <2>2, <2>6
    <3>2. ASSUME NEW i \in 1..(k + 1)
          PROVE  h[i] = IF s[i] = id THEN h[i - 1] ELSE Append(h[i - 1], s[i])
      <4>1. i - 1 \in 0..k
        BY <2>2
      <4>2. CASE i = k + 1
        <5>1. i - 1 = k
          BY <2>2, <4>2
        <5> QED BY <2>2, <2>3, <2>6, <4>2, <5>1
      <4>3. CASE i # k + 1
        <5>1. i \in 1..k /\ i \in 0..k
          BY <2>2, <4>3
        <5> QED BY <2>1, <2>6, <4>1, <5>1
      <4> QED BY <4>2, <4>3
    <3> QED BY <3>1, <3>2
  <2> HIDE DEF Computes
  <2> QED BY <2>2, <2>6, <2>7
<1>3. n \in P
  <2> HIDE DEF P
  <2>1. \A k \in 0..n : k \in P
    BY <1>0, <1>1, <1>2, UpTo
  <2> QED BY <1>0, <2>1
<1>4. PICK g \in [0..n -> Seq(X)] : Computes(g, n)
  <2> HIDE DEF Computes
  <2> QED BY <1>3
<1>5. g = Step(g)
  <2>1. \A i \in 0..n : i # 0 => i \in 1..n
    BY <1>0
  <2>2. \A i \in 0..n : g[i] = IF i = 0 THEN <<>> ELSE IF s[i] = id THEN g[i - 1]
                                                 ELSE Append(g[i - 1], s[i])
    BY <1>4, <2>1
  <2> QED BY <2>2
<1>6. kept = Step(kept)
  <2> HIDE DEF Step
  <2> QED BY <1>5
<1> DEFINE Q == {i \in 0..n : kept[i] \in Seq(X)}
<1>7. \A i \in 0..n : kept[i] = IF i = 0 THEN <<>> ELSE IF s[i] = id THEN kept[i - 1]
                                                   ELSE Append(kept[i - 1], s[i])
  <2> HIDE DEF kept
  <2>1. \A i \in 0..n : kept[i] = Step(kept)[i]
    <3> HIDE DEF Step
    <3> QED BY <1>6
  <2> QED BY <2>1
<1> HIDE DEF kept
<1>8. 0 \in Q
  <2>1. 0 \in 0..n
    BY <1>0
  <2>2. kept[0] = <<>>
    BY <1>7, <2>1
  <2> QED BY <1>0, <2>1, <2>2
<1>9. \A k \in 0..n-1 : k \in Q => k + 1 \in Q
  <2> SUFFICES ASSUME NEW k \in 0..n-1, k \in Q PROVE k + 1 \in Q
    OBVIOUS
  <2>1. k + 1 \in 0..n /\ k + 1 # 0 /\ (k + 1) - 1 = k /\ k + 1 \in 1..n
    BY <1>0
  <2>2. kept[k + 1] = IF s[k + 1] = id THEN kept[k] ELSE Append(kept[k], s[k + 1])
    BY <1>7, <2>1
  <2>3. kept[k] \in Seq(X) /\ s[k + 1] \in X
    BY <1>0, <2>1
  <2>4. Append(kept[k], s[k + 1]) \in Seq(X)
    BY <2>3
  <2> QED BY <2>1, <2>2, <2>3, <2>4
<1>10. n \in Q
  <2> HIDE DEF Q
  <2>1. \A k \in 0..n : k \in Q
    BY <1>0, <1>8, <1>9, UpTo
  <2> QED BY <1>0, <2>1
<1>11. retain(s, id) = kept[n]
  BY DEF retain, kept, n
<1> QED BY <1>10, <1>11


(* A ranking of the frames given out so far (u) that every link follows,   *)
(* also the links of rows and of pending writes: to the next sibling it    *)
(* rises and to the previous one it falls, and children are born later     *)
(* than their parents.  It does not ask that two frames agree about each   *)
(* other, so it survives a tree that mixes rows of different ages.         *)
Fits(u, rank, born, f, x, value) ==
  /\ x = "next_sibling" => value = NoFrame \/ (value \in u /\ rank[f] < rank[value])
  /\ x = "prev_sibling" => value = NoFrame \/ (value \in u /\ rank[value] < rank[f])
  /\ x = "children" => value \in Seq({g \in u : born[f] < born[g]})

Follows(u, rank, born, f, node) ==
  f \in u /\ \A x \in Fields : Fits(u, rank, born, f, x, node[x])

AllFollow(u, rank, born, a) == \A f \in Loaded(a) : Follows(u, rank, born, f, a[f])

Ranking(rank, born, top) ==
  /\ rank \in [Frame -> Int] /\ born \in [Frame -> Nat] /\ top \in Nat
  /\ \A f \in Frame : -top < rank[f] /\ rank[f] < top /\ born[f] < top

Upsert == [id : Frame, node : FrameNode]

AllRanked(a, s, ws, u, rank, born, top) ==
  /\ Ranking(rank, born, top)
  /\ AllFollow(u, rank, born, a) /\ AllFollow(u, rank, born, s)
  /\ \A w \in ws : Follows(u, rank, born, w.id, w.node)

RankedInv ==
  /\ arena \in Arena /\ store \in Arena /\ writes \subseteq Upsert /\ used \subseteq Frame
  /\ \E rank, born, top : AllRanked(arena, store, writes, used, rank, born, top)

LEMMA PutFollows ==
  ASSUME NEW a \in Arena, NEW u, NEW rank, NEW born, AllFollow(u, rank, born, a),
         NEW f, NEW field \in Fields, NEW value \in ValueOf(field),
         f \in Loaded(a) => Fits(u, rank, born, f, field, value),
         NEW b, b = Put(a, f, field, value)
  PROVE  b \in Arena /\ AllFollow(u, rank, born, b) /\ Loaded(b) = Loaded(a)
<1>1. b \in Arena /\ Puts(a, b, f, field, value)
  BY PutIs
<1>2. Loaded(b) = Loaded(a)
  BY <1>1 DEF Puts
<1>3. ASSUME NEW g \in Loaded(a) PROVE Follows(u, rank, born, g, b[g])
  <2>1. g \in u /\ \A x \in Fields : Fits(u, rank, born, g, x, a[g][x])
    BY DEF AllFollow, Follows
  <2>2. \A x \in Fields : b[g][x] = IF g = f /\ x = field THEN value ELSE a[g][x]
    BY <1>1 DEF Puts
  <2>3. \A x \in Fields : Fits(u, rank, born, g, x, b[g][x])
    BY <2>1, <2>2
  <2> QED BY <2>1, <2>3 DEF Follows
<1> QED BY <1>1, <1>2, <1>3 DEF AllFollow

LEMMA SiblingsFollow ==
  ASSUME NEW a \in Arena, NEW u \in SUBSET Frame, NEW rank \in [Frame -> Int], NEW born,
         AllFollow(u, rank, born, a), NEW id \in Loaded(a),
         NEW b, b = detach_from_siblings(a, id)
  PROVE  b \in Arena /\ AllFollow(u, rank, born, b) /\ Loaded(b) = Loaded(a)
<1>1. PICK prev, next : prev = a[id].prev_sibling /\ next = a[id].next_sibling
  OBVIOUS
<1>2. /\ b \in Arena /\ Loaded(b) = Loaded(a)
      /\ \A g \in Loaded(a) :
           /\ b[g].parent = a[g].parent /\ b[g].children = a[g].children
           /\ b[g].next_sibling = IF g = id THEN NoFrame
                                  ELSE IF g = prev THEN next ELSE a[g].next_sibling
           /\ b[g].prev_sibling = IF g = id THEN NoFrame
                                  ELSE IF g = next THEN prev ELSE a[g].prev_sibling
  BY <1>1, DetachFromSiblingsIs
<1>3. /\ "next_sibling" \in Fields /\ "prev_sibling" \in Fields /\ "children" \in Fields
  BY DEF Fields
<1>4. /\ next = NoFrame \/ (next \in u /\ rank[id] < rank[next])
      /\ prev = NoFrame \/ (prev \in u /\ rank[prev] < rank[id])
      /\ id \in u
  BY <1>1, <1>3 DEF AllFollow, Follows, Fits
<1>5. prev \in u /\ next \in u => rank[prev] < rank[next]
  <2> SUFFICES ASSUME prev \in u, next \in u PROVE rank[prev] < rank[next]
    OBVIOUS
  <2>1. rank[prev] \in Int /\ rank[next] \in Int /\ rank[id] \in Int
    BY <1>4
  <2>2. prev # NoFrame /\ next # NoFrame
    BY FrameAssumption
  <2> QED BY <1>4, <2>1, <2>2
<1>6. ASSUME NEW g \in Loaded(a) PROVE Follows(u, rank, born, g, b[g])
  <2>1. /\ g \in u
        /\ a[g].next_sibling = NoFrame \/
             (a[g].next_sibling \in u /\ rank[g] < rank[a[g].next_sibling])
        /\ a[g].prev_sibling = NoFrame \/
             (a[g].prev_sibling \in u /\ rank[a[g].prev_sibling] < rank[g])
        /\ a[g].children \in Seq({h \in u : born[g] < born[h]})
    BY <1>3 DEF AllFollow, Follows, Fits
  <2>2. g # NoFrame
    BY <2>1, FrameAssumption
  <2>3. b[g].next_sibling = NoFrame \/
          (b[g].next_sibling \in u /\ rank[g] < rank[b[g].next_sibling])
    <3>1. CASE g = id
      BY <1>2, <3>1
    <3>2. CASE g # id /\ g = prev
      BY <1>2, <1>4, <1>5, <2>1, <3>2
    <3>3. CASE g # id /\ g # prev
      BY <1>2, <2>1, <3>3
    <3> QED BY <3>1, <3>2, <3>3
  <2>4. b[g].prev_sibling = NoFrame \/
          (b[g].prev_sibling \in u /\ rank[b[g].prev_sibling] < rank[g])
    <3>1. CASE g = id
      BY <1>2, <3>1
    <3>2. CASE g # id /\ g = next
      BY <1>2, <1>4, <1>5, <2>1, <3>2
    <3>3. CASE g # id /\ g # next
      BY <1>2, <2>1, <3>3
    <3> QED BY <3>1, <3>2, <3>3
  <2>5. b[g].children \in Seq({h \in u : born[g] < born[h]})
    BY <1>2, <2>1
  <2> QED BY <2>1, <2>3, <2>4, <2>5 DEF Follows, Fits
<1> QED BY <1>2, <1>6 DEF AllFollow

LEMMA ParentFollows ==
  ASSUME NEW a \in Arena, NEW u \in SUBSET Frame, NEW rank, NEW born,
         AllFollow(u, rank, born, a), NEW id \in Loaded(a),
         NEW b, b = detach_from_parent(a, id)
  PROVE  b \in Arena /\ AllFollow(u, rank, born, b) /\ Loaded(b) = Loaded(a)
<1>1. CASE a[id].parent = NoFrame
  BY <1>1 DEF detach_from_parent
<1>2. CASE a[id].parent # NoFrame
  <2>1. PICK p : p = a[id].parent
    OBVIOUS
  <2>2. PICK t : t = retain(a[p].children, id)
    OBVIOUS
  <2>3. PICK c : c = IF p \in Loaded(a) THEN Put(a, p, "children", t) ELSE a
    OBVIOUS
  <2>4. b = Put(c, id, "parent", NoFrame)
    BY <1>2, <2>1, <2>2, <2>3 DEF detach_from_parent
  <2>5. /\ "parent" \in Fields /\ ValueOf("parent") = Link
        /\ "children" \in Fields /\ ValueOf("children") = Seq(Frame) /\ NoFrame \in Link
    BY DEF Fields, ValueOf, Link
  <2>6. c \in Arena /\ AllFollow(u, rank, born, c) /\ Loaded(c) = Loaded(a)
    <3>1. CASE p \notin Loaded(a)
      BY <2>3, <3>1
    <3>2. CASE p \in Loaded(a)
      <4>1. a[p].children \in Seq({g \in u : born[p] < born[g]})
        BY <2>5, <3>2 DEF AllFollow, Follows, Fits
      <4>2. t \in Seq({g \in u : born[p] < born[g]})
        BY <2>2, <4>1, RetainOver
      <4>3. t \in Seq(Frame)
        <5>1. a[p].children \in Seq(Frame)
          BY <3>2, NodeFields
        <5> QED BY <2>2, <5>1, RetainOver
      <4>4. Fits(u, rank, born, p, "children", t)
        BY <4>2 DEF Fits
      <4> QED BY <2>3, <2>5, <3>2, <4>3, <4>4, PutFollows
    <3> QED BY <3>1, <3>2
  <2>7. Fits(u, rank, born, id, "parent", NoFrame)
    BY DEF Fits
  <2> QED BY <2>4, <2>5, <2>6, <2>7, PutFollows
<1> QED BY <1>1, <1>2

LEMMA DetachFollows ==
  ASSUME NEW a \in Arena, NEW u \in SUBSET Frame, NEW rank \in [Frame -> Int], NEW born,
         AllFollow(u, rank, born, a), NEW id \in Loaded(a),
         NEW b, b = detach(a, id)
  PROVE  b \in Arena /\ AllFollow(u, rank, born, b) /\ Loaded(b) = Loaded(a)
<1>1. PICK c : c = detach_from_siblings(a, id)
  OBVIOUS
<1>2. c \in Arena /\ AllFollow(u, rank, born, c) /\ Loaded(c) = Loaded(a)
  BY <1>1, SiblingsFollow
<1>3. b = detach_from_parent(c, id)
  BY <1>1 DEF detach
<1>4. id \in Loaded(c)
  BY <1>2
<1>5. b \in Arena /\ AllFollow(u, rank, born, b) /\ Loaded(b) = Loaded(c)
  BY <1>2, <1>3, <1>4, ParentFollows
<1> QED BY <1>2, <1>5

LEMMA CleanFollows ==
  ASSUME NEW u, NEW rank, NEW born, NEW f, NEW node \in FrameNode,
         Follows(u, rank, born, f, node)
  PROVE  Clean(node) \in FrameNode /\ Follows(u, rank, born, f, Clean(node))
<1>1. Clean(node) \in FrameNode
  BY DEF Clean, FrameNode
<1>2. \A x \in Fields : Clean(node)[x] = node[x]
  BY DEF Clean, FrameNode, Fields
<1> QED BY <1>1, <1>2 DEF Follows

LEMMA DroppedFollow ==
  ASSUME NEW a \in Arena, NEW u, NEW rank, NEW born, AllFollow(u, rank, born, a), NEW fs
  PROVE  /\ Dropped(a, fs) \subseteq Upsert
         /\ \A w \in Dropped(a, fs) : Follows(u, rank, born, w.id, w.node)
<1> SUFFICES ASSUME NEW w \in Dropped(a, fs)
             PROVE  w \in Upsert /\ Follows(u, rank, born, w.id, w.node)
  OBVIOUS
<1>1. PICK f \in Loaded(a) : w = [id |-> f, node |-> Clean(a[f])]
  BY DEF Dropped
<1>2. f \in Frame /\ a[f] \in FrameNode /\ Follows(u, rank, born, f, a[f])
  BY NodeFields DEF AllFollow
<1>3. Clean(a[f]) \in FrameNode /\ Follows(u, rank, born, f, Clean(a[f]))
  BY <1>2, CleanFollows
<1>4. w.id = f /\ w.node = Clean(a[f])
  BY <1>1
<1> QED BY <1>1, <1>2, <1>3, <1>4 DEF Upsert

LEMMA SetFollows ==
  ASSUME NEW a \in Arena, NEW u, NEW rank, NEW born, AllFollow(u, rank, born, a),
         NEW f \in Frame, NEW node,
         node = Absent \/ (node \in FrameNode /\ Follows(u, rank, born, f, node)),
         NEW b, b = [a EXCEPT ![f] = node]
  PROVE  b \in Arena /\ AllFollow(u, rank, born, b)
<1>1. b \in Arena
  BY DEF Arena
<1>2. b[f] = node /\ \A g \in Frame : g # f => b[g] = a[g]
  BY DEF Arena
<1>3. ASSUME NEW g \in Loaded(b) PROVE Follows(u, rank, born, g, b[g])
  <2>1. g \in Frame /\ b[g] # Absent
    BY DEF Loaded
  <2>2. CASE g = f
    BY <1>2, <2>1, <2>2
  <2>3. CASE g # f
    BY <1>2, <2>1, <2>3 DEF Loaded, AllFollow
  <2> QED BY <2>2, <2>3
<1> QED BY <1>1, <1>3 DEF AllFollow
(* A frame that gets its number later changes no link that is there. *)
LEMMA GrowFollows ==
  ASSUME NEW u \in SUBSET Frame, NEW rank, NEW born, NEW id,
         NEW rank2, NEW born2, \A g \in u : rank2[g] = rank[g] /\ born2[g] = born[g],
         NEW f, NEW node, Follows(u, rank, born, f, node)
  PROVE  Follows(u \cup {id}, rank2, born2, f, node)
<1> DEFINE X == {g \in u : born[f] < born[g]}
           Y == {g \in u \cup {id} : born2[f] < born2[g]}
<1>1. f \in u /\ "next_sibling" \in Fields /\ "prev_sibling" \in Fields /\ "children" \in Fields
  BY DEF Follows, Fields
<1>2. /\ node.next_sibling = NoFrame \/
           (node.next_sibling \in u /\ rank[f] < rank[node.next_sibling])
      /\ node.prev_sibling = NoFrame \/
           (node.prev_sibling \in u /\ rank[node.prev_sibling] < rank[f])
      /\ node.children \in Seq(X)
  BY <1>1 DEF Follows, Fits
<1>3. X \subseteq Y
  BY <1>1
<1>4. node.children \in Seq(Y)
  <2> HIDE DEF X, Y
  <2> QED BY <1>2, <1>3
<1>5. /\ node.next_sibling = NoFrame \/
           (node.next_sibling \in u \cup {id} /\ rank2[f] < rank2[node.next_sibling])
      /\ node.prev_sibling = NoFrame \/
           (node.prev_sibling \in u \cup {id} /\ rank2[node.prev_sibling] < rank2[f])
  BY <1>1, <1>2
<1> QED BY <1>1, <1>4, <1>5 DEF Follows, Fits

LEMMA NewFollows ==
  ASSUME NEW u, NEW rank, NEW born, NEW id \in u, NEW r \in BOOLEAN
  PROVE  NewNode(r) \in FrameNode /\ Follows(u, rank, born, id, NewNode(r))
<1>1. NewNode(r) \in FrameNode
  BY DEF NewNode, FrameNode, Link
<1>2. /\ NewNode(r).next_sibling = NoFrame /\ NewNode(r).prev_sibling = NoFrame
      /\ NewNode(r).children = <<>>
  BY DEF NewNode
<1>3. <<>> \in Seq({g \in u : born[id] < born[g]})
  OBVIOUS
<1> QED BY <1>1, <1>2, <1>3 DEF Follows, Fits

LEMMA InsertedFollows ==
  ASSUME NEW a \in Arena, NEW u \in SUBSET Frame, NEW rank, NEW born,
         AllFollow(u, rank, born, a),
         NEW parent \in Loaded(a), NEW id \in Loaded(a), parent # id,
         NEW s, s = a[parent].children, NEW i \in 0..Len(s),
         NEW prev, prev = At(s, i), NEW next, next = At(s, i + 1),
         prev # NoFrame => rank[prev] < rank[id],
         next # NoFrame => rank[id] < rank[next],
         born[parent] < born[id],
         NEW b \in Arena, Inserted(a, b, parent, id, s, i)
  PROVE  AllFollow(u, rank, born, b)
<1>1. /\ "next_sibling" \in Fields /\ "prev_sibling" \in Fields /\ "children" \in Fields
  BY DEF Fields
<1>2. s \in Seq(Frame) /\ id \in Frame /\ parent \in Frame /\ id \in u
  BY NodeFields DEF AllFollow, Follows
<1> DEFINE X == {g \in u : born[parent] < born[g]}
<1>3. s \in Seq(X)
  BY <1>1 DEF AllFollow, Follows, Fits
<1>4. PICK t : t = InsertAt(s, i + 1, id)
  OBVIOUS
<1>5. t \in Seq(X)
  <2>1. HasAfter(t, s, i, id)
    BY <1>2, <1>4, InsertAtIs
  <2>2. id \in X
    BY <1>2
  <2> HIDE DEF X
  <2>3. ASSUME NEW j \in 1..Len(t) PROVE t[j] \in X
    <3>1. \A k \in 1..Len(s) : s[k] \in X
      BY <1>3
    <3>2. Len(t) = Len(s) + 1 /\ Len(s) \in Nat
      BY <1>2, <2>1 DEF HasAfter
    <3>3. t[j] = IF j <= i THEN s[j] ELSE IF j = i + 1 THEN id ELSE s[j - 1]
      BY <2>1 DEF HasAfter
    <3>4. CASE j <= i
      BY <3>1, <3>2, <3>3, <3>4
    <3>5. CASE j = i + 1
      BY <2>2, <3>3, <3>5
    <3>6. CASE j > i + 1
      <4>1. j - 1 \in 1..Len(s)
        BY <3>2, <3>6
      <4>2. t[j] = s[j - 1]
        BY <3>3, <3>6
      <4> QED BY <3>1, <4>1, <4>2
    <3> QED BY <3>4, <3>5, <3>6
  <2>4. t \in Seq(Frame)
    BY <2>1 DEF HasAfter
  <2> QED BY <2>3, <2>4
<1>6. /\ prev = NoFrame \/ prev \in u
      /\ next = NoFrame \/ next \in u
  <2>1. \A k \in 1..Len(s) : s[k] \in u
    BY <1>3
  <2>2. i \in Int /\ i + 1 \in Int
    BY <1>2
  <2> QED BY <1>2, <2>1, <2>2, AtIs
<1>7. /\ Loaded(b) = Loaded(a)
      /\ \A g \in Loaded(a) :
           /\ b[g].next_sibling = IF g = id THEN next
                                  ELSE IF g = prev THEN id ELSE a[g].next_sibling
           /\ b[g].prev_sibling = IF g = id THEN prev
                                  ELSE IF g = next THEN id ELSE a[g].prev_sibling
           /\ b[g].children = IF g = parent THEN t ELSE a[g].children
  BY <1>4 DEF Inserted
<1>8. ASSUME NEW g \in Loaded(a) PROVE Follows(u, rank, born, g, b[g])
  <2>1. /\ g \in u
        /\ a[g].next_sibling = NoFrame \/
             (a[g].next_sibling \in u /\ rank[g] < rank[a[g].next_sibling])
        /\ a[g].prev_sibling = NoFrame \/
             (a[g].prev_sibling \in u /\ rank[a[g].prev_sibling] < rank[g])
        /\ a[g].children \in Seq({h \in u : born[g] < born[h]})
    BY <1>1 DEF AllFollow, Follows, Fits
  <2>2. g # NoFrame
    BY <2>1, FrameAssumption
  <2>3. b[g].next_sibling = NoFrame \/
          (b[g].next_sibling \in u /\ rank[g] < rank[b[g].next_sibling])
    <3>1. CASE g = id
      BY <1>6, <1>7, <3>1
    <3>2. CASE g # id /\ g = prev
      BY <1>2, <1>7, <2>2, <3>2
    <3>3. CASE g # id /\ g # prev
      BY <1>7, <2>1, <3>3
    <3> QED BY <3>1, <3>2, <3>3
  <2>4. b[g].prev_sibling = NoFrame \/
          (b[g].prev_sibling \in u /\ rank[b[g].prev_sibling] < rank[g])
    <3>1. CASE g = id
      BY <1>6, <1>7, <3>1
    <3>2. CASE g # id /\ g = next
      BY <1>2, <1>7, <2>2, <3>2
    <3>3. CASE g # id /\ g # next
      BY <1>7, <2>1, <3>3
    <3> QED BY <3>1, <3>2, <3>3
  <2>5. b[g].children \in Seq({h \in u : born[g] < born[h]})
    BY <1>5, <1>7, <2>1
  <2> QED BY <2>1, <2>3, <2>4, <2>5 DEF Follows, Fits
<1> QED BY <1>7, <1>8 DEF AllFollow

(* A new frame is numbered below all others when it comes first, above all *)
(* when it comes last, and is the youngest.                                *)
LEMMA InsertRanked ==
  ASSUME NEW a \in Arena, NEW st \in Arena, NEW ws, NEW u \in SUBSET Frame,
         NEW rank, NEW born, NEW top, AllRanked(a, st, ws, u, rank, born, top),
         NEW id \in Frame, id \notin u, NEW parent \in u, NEW position \in Nat,
         position = 0 \/ (parent \in Loaded(a) => position = Len(a[parent].children)),
         NEW b, b = insert_child(create_node(a, id, FALSE), parent, id, position)
  PROVE  /\ b \in Arena
         /\ \E rank2, born2, top2 : AllRanked(b, st, ws, u \cup {id}, rank2, born2, top2)
<1>1. /\ rank \in [Frame -> Int] /\ born \in [Frame -> Nat] /\ top \in Nat
      /\ \A f \in Frame : -top < rank[f] /\ rank[f] < top /\ born[f] < top
  BY DEF AllRanked, Ranking
<1>2. PICK rank2, born2 : /\ rank2 = [rank EXCEPT ![id] = IF position = 0 THEN -top ELSE top]
                          /\ born2 = [born EXCEPT ![id] = top]
  OBVIOUS
<1>3. /\ rank2 \in [Frame -> Int] /\ born2 \in [Frame -> Nat]
      /\ \A f \in Frame : f # id => rank2[f] = rank[f] /\ born2[f] = born[f]
      /\ rank2[id] = (IF position = 0 THEN -top ELSE top) /\ born2[id] = top
  BY <1>1, <1>2
<1>4. Ranking(rank2, born2, top + 1)
  <2>1. top + 1 \in Nat
    BY <1>1
  <2>2. ASSUME NEW f \in Frame
        PROVE  -(top + 1) < rank2[f] /\ rank2[f] < top + 1 /\ born2[f] < top + 1
    <3>1. rank[f] \in Int /\ born[f] \in Nat
      BY <1>1
    <3>2. CASE f = id
      BY <1>1, <1>3, <3>2
    <3>3. CASE f # id
      BY <1>1, <1>3, <3>1, <3>3
    <3> QED BY <3>2, <3>3
  <2> QED BY <1>3, <2>1, <2>2 DEF Ranking
<1>5. PICK v : v = u \cup {id}
  OBVIOUS
<1>6. \A g \in u : rank2[g] = rank[g] /\ born2[g] = born[g]
  BY <1>3
<1>7. \A f, node : Follows(u, rank, born, f, node) => Follows(v, rank2, born2, f, node)
  BY <1>5, <1>6, GrowFollows
<1>8. /\ AllFollow(v, rank2, born2, a) /\ AllFollow(v, rank2, born2, st)
      /\ \A w \in ws : Follows(v, rank2, born2, w.id, w.node)
  BY <1>7 DEF AllRanked, AllFollow
<1>9. PICK c : c = create_node(a, id, FALSE)
  OBVIOUS
<1>10. /\ c \in Arena /\ AllFollow(v, rank2, born2, c) /\ v \in SUBSET Frame
       /\ id \in Loaded(c) /\ \A f \in Frame : f # id => c[f] = a[f]
  <2>1. id \in v /\ v \in SUBSET Frame
    BY <1>5
  <2>2. NewNode(FALSE) \in FrameNode /\ Follows(v, rank2, born2, id, NewNode(FALSE))
    BY <2>1, NewFollows
  <2>3. c = [a EXCEPT ![id] = NewNode(FALSE)]
    BY <1>9 DEF create_node
  <2>4. c \in Arena /\ AllFollow(v, rank2, born2, c)
    BY <1>8, <2>2, <2>3, SetFollows
  <2>5. c[id] = NewNode(FALSE) /\ \A f \in Frame : f # id => c[f] = a[f]
    BY <2>3 DEF Arena
  <2> QED BY <2>1, <2>2, <2>4, <2>5, AbsentAssumption DEF Loaded
<1>11. b = insert_child(c, parent, id, position)
  BY <1>9
<1>12. b \in Arena /\ AllFollow(v, rank2, born2, b)
  <2>1. CASE parent \notin Loaded(c)
    <3>1. b = c
      BY <1>11, <2>1 DEF insert_child
    <3> QED BY <1>10, <3>1
  <2>2. CASE parent \in Loaded(c)
    <3>1. PICK s, i : /\ s = c[parent].children
                      /\ i = IF position < Len(s) THEN position ELSE Len(s)
      OBVIOUS
    <3>2. parent # id /\ parent \in Frame /\ c[parent] = a[parent] /\ parent \in Loaded(a)
      BY <1>10, <2>2 DEF Loaded
    <3>3. s \in Seq(Frame) /\ i \in 0..Len(s) /\ Len(s) \in Nat
      <4>1. s \in Seq(Frame)
        BY <1>10, <2>2, <3>1, NodeFields
      <4> QED BY <3>1, <4>1
    <3>4. s \in Seq({g \in u : born[parent] < born[g]})
      <4>1. "children" \in Fields
        BY DEF Fields
      <4>2. Fits(u, rank, born, parent, "children", s)
        BY <3>1, <3>2, <4>1 DEF AllRanked, AllFollow, Follows
      <4> QED BY <4>2 DEF Fits
    <3>5. \A j \in 1..Len(s) : s[j] \in u /\ s[j] # id
      BY <3>4
    <3>6. \A j \in DOMAIN s : s[j] # id
      BY <3>3, <3>5
    <3>7. b \in Arena /\ Inserted(c, b, parent, id, s, i)
      BY <1>10, <1>11, <2>2, <3>1, <3>2, <3>6, InsertChildIs
    <3>8. PICK prev, next : prev = At(s, i) /\ next = At(s, i + 1)
      OBVIOUS
    <3>9. /\ i \notin 1..Len(s) => prev = NoFrame
          /\ i \in 1..Len(s) => prev \in u
          /\ i + 1 \notin 1..Len(s) => next = NoFrame
          /\ i + 1 \in 1..Len(s) => next \in u
      <4>1. i \in Int /\ i + 1 \in Int
        BY <3>3
      <4> QED BY <3>3, <3>5, <3>8, <4>1, AtIs
    <3>10. prev # NoFrame => rank2[prev] < rank2[id]
      <4> SUFFICES ASSUME prev # NoFrame PROVE rank2[prev] < rank2[id]
        OBVIOUS
      <4>1. i \in 1..Len(s) /\ prev \in u
        BY <3>9
      <4>2. position # 0
        BY <3>1, <3>3, <4>1
      <4> QED BY <1>1, <1>3, <1>6, <4>1, <4>2
    <3>11. next # NoFrame => rank2[id] < rank2[next]
      <4> SUFFICES ASSUME next # NoFrame PROVE rank2[id] < rank2[next]
        OBVIOUS
      <4>1. i + 1 \in 1..Len(s) /\ next \in u
        BY <3>9
      <4>2. position = 0
        BY <3>1, <3>2, <3>3, <4>1
      <4> QED BY <1>1, <1>3, <1>6, <4>1, <4>2
    <3>12. born2[parent] < born2[id]
      BY <1>1, <1>3, <3>2
    <3>13. AllFollow(v, rank2, born2, b)
      BY <1>10, <2>2, <3>1, <3>2, <3>3, <3>7, <3>8, <3>10, <3>11, <3>12, InsertedFollows
    <3> QED BY <3>7, <3>13
  <2> QED BY <2>1, <2>2
<1>13. AllRanked(b, st, ws, v, rank2, born2, top + 1)
  BY <1>4, <1>8, <1>12 DEF AllRanked
<1> QED BY <1>5, <1>12, <1>13

-----------------------------------------------------------------------------
(* The actions keep the ranking. *)

LEMMA RankedInsert ==
  ASSUME RankedInv, NEW parent \in Frame, NEW id \in Frame, NEW position \in Nat,
         position = 0 \/ (parent \in Loaded(arena) => position = Len(arena[parent].children)),
         insert(parent, id, position)
  PROVE  RankedInv'
<1>1. PICK rank, born, top : AllRanked(arena, store, writes, used, rank, born, top)
  BY DEF RankedInv
<1>2. PICK a, st, ws, u, b : a = arena /\ st = store /\ ws = writes /\ u = used /\ b = arena'
  OBVIOUS
<1>3. /\ a \in Arena /\ st \in Arena /\ u \in SUBSET Frame /\ id \notin u
      /\ AllRanked(a, st, ws, u, rank, born, top)
      /\ b = insert_child(create_node(a, id, FALSE), parent, id, position)
      /\ position = 0 \/ (parent \in Loaded(a) => position = Len(a[parent].children))
  BY <1>1, <1>2 DEF RankedInv, insert
<1>4. parent \in u
  <2>1. parent \in Loaded(a) \/ parent \in Loaded(st)
    BY <1>2 DEF insert, Exists, Loaded
  <2> QED BY <1>3, <2>1 DEF AllRanked, AllFollow, Follows
<1>5. /\ b \in Arena
      /\ \E rank2, born2, top2 : AllRanked(b, st, ws, u \cup {id}, rank2, born2, top2)
  BY <1>3, <1>4, InsertRanked
<1>6. store' = store /\ writes' = writes /\ used' = used \cup {id}
  BY DEF insert
<1> QED BY <1>2, <1>5, <1>6 DEF RankedInv

LEMMA RankedSetRoot ==
  ASSUME RankedInv, NEW id \in Frame, set_root(id)
  PROVE  RankedInv'
<1>1. PICK rank, born, top : AllRanked(arena, store, writes, used, rank, born, top)
  BY DEF RankedInv
<1>2. /\ Loaded(arena) = {} /\ AllFollow({id}, rank, born, arena)
      /\ AllFollow({id}, rank, born, store) /\ \A w \in writes : FALSE
  BY <1>1 DEF AllRanked, AllFollow, Follows, set_root
<1>3. NewNode(TRUE) \in FrameNode /\ Follows({id}, rank, born, id, NewNode(TRUE))
  BY NewFollows
<1>4. arena \in Arena /\ arena' = [arena EXCEPT ![id] = NewNode(TRUE)]
  BY DEF RankedInv, set_root, create_node
<1>5. arena' \in Arena /\ AllFollow({id}, rank, born, arena')
  BY <1>2, <1>3, <1>4, SetFollows
<1>6. store' = store /\ writes' = writes /\ used' = {id}
  BY DEF set_root
<1>7. AllRanked(arena', store', writes', used', rank, born, top)
  BY <1>1, <1>2, <1>5, <1>6 DEF AllRanked
<1> QED BY <1>5, <1>6, <1>7 DEF RankedInv

LEMMA RankedTryGet ==
  ASSUME RankedInv, NEW f \in Frame, try_get(f)
  PROVE  RankedInv'
<1>1. PICK rank, born, top : AllRanked(arena, store, writes, used, rank, born, top)
  BY DEF RankedInv
<1>2. /\ arena \in Arena /\ store \in Arena /\ f \in Loaded(store)
      /\ arena' = [arena EXCEPT ![f] = store[f]]
      /\ store' = store /\ writes' = writes /\ used' = used
  BY DEF RankedInv, try_get, Loaded
<1>3. store[f] \in FrameNode /\ Follows(used, rank, born, f, store[f])
  BY <1>1, <1>2, NodeFields DEF AllRanked, AllFollow
<1>4. arena' \in Arena /\ AllFollow(used, rank, born, arena')
  BY <1>1, <1>2, <1>3, SetFollows DEF AllRanked
<1>5. AllRanked(arena', store', writes', used', rank, born, top)
  BY <1>1, <1>2, <1>4 DEF AllRanked
<1> QED BY <1>2, <1>4, <1>5 DEF RankedInv

LEMMA RankedFlush ==
  ASSUME RankedInv, NEW f \in Frame, flush(f)
  PROVE  RankedInv'
<1>1. PICK rank, born, top : AllRanked(arena, store, writes, used, rank, born, top)
  BY DEF RankedInv
<1>2. PICK node : node = Clean(arena[f])
  OBVIOUS
<1>3. /\ arena \in Arena /\ store \in Arena /\ f \in Loaded(arena)
      /\ arena' = [arena EXCEPT ![f] = node] /\ store' = [store EXCEPT ![f] = node]
      /\ writes' = writes /\ used' = used
  BY <1>2 DEF RankedInv, flush
<1>4. arena[f] \in FrameNode /\ Follows(used, rank, born, f, arena[f])
  BY <1>1, <1>3, NodeFields DEF AllRanked, AllFollow
<1>5. node \in FrameNode /\ Follows(used, rank, born, f, node)
  BY <1>2, <1>4, CleanFollows
<1>6. arena' \in Arena /\ AllFollow(used, rank, born, arena')
  BY <1>1, <1>3, <1>5, SetFollows DEF AllRanked
<1>7. store' \in Arena /\ AllFollow(used, rank, born, store')
  BY <1>1, <1>3, <1>5, SetFollows DEF AllRanked
<1>8. AllRanked(arena', store', writes', used', rank, born, top)
  BY <1>1, <1>3, <1>6, <1>7 DEF AllRanked
<1> QED BY <1>3, <1>6, <1>7, <1>8 DEF RankedInv

LEMMA RankedFailed ==
  ASSUME RankedInv, remove_failed
  PROVE  RankedInv'
<1>1. PICK rank, born, top : AllRanked(arena, store, writes, used, rank, born, top)
  BY DEF RankedInv
<1>2. PICK id : id = Last(stack)
  OBVIOUS
<1>3. /\ arena \in Arena /\ used \in SUBSET Frame /\ id \in Loaded(arena)
      /\ arena' = detach(arena, id) /\ store' = store /\ writes' = writes /\ used' = used
      /\ rank \in [Frame -> Int] /\ AllFollow(used, rank, born, arena)
  BY <1>1, <1>2 DEF RankedInv, remove_failed, AllRanked, Ranking
<1>4. arena' \in Arena /\ AllFollow(used, rank, born, arena')
  BY <1>3, DetachFollows
<1>5. AllRanked(arena', store', writes', used', rank, born, top)
  BY <1>1, <1>3, <1>4 DEF AllRanked
<1> QED BY <1>3, <1>4, <1>5 DEF RankedInv

LEMMA RankedDeleted ==
  ASSUME RankedInv, remove_deleted
  PROVE  RankedInv'
<1>1. PICK rank, born, top : AllRanked(arena, store, writes, used, rank, born, top)
  BY DEF RankedInv
<1>2. PICK id, a : id = Last(stack) /\ a = detach(arena, id)
  OBVIOUS
<1>3. /\ arena \in Arena /\ store \in Arena /\ used \in SUBSET Frame /\ id \in Loaded(arena)
      /\ rank \in [Frame -> Int] /\ AllFollow(used, rank, born, arena)
      /\ AllFollow(used, rank, born, store)
      /\ store' = [store EXCEPT ![id] = Absent] /\ arena' = [a EXCEPT ![id] = Absent]
      /\ writes' = writes \cup Dropped(delete(a, id), {id}) /\ used' = used
  BY <1>1, <1>2 DEF RankedInv, remove_deleted, AllRanked, Ranking
<1>4. a \in Arena /\ AllFollow(used, rank, born, a) /\ id \in Loaded(a) /\ id \in Frame
  <2>1. a \in Arena /\ AllFollow(used, rank, born, a) /\ Loaded(a) = Loaded(arena)
    BY <1>2, <1>3, DetachFollows
  <2> QED BY <1>3, <2>1 DEF Loaded
<1>5. arena' \in Arena /\ AllFollow(used, rank, born, arena')
  BY <1>3, <1>4, SetFollows
<1>6. store' \in Arena /\ AllFollow(used, rank, born, store')
  BY <1>3, <1>4, SetFollows
<1>7. PICK c : c = delete(a, id)
  OBVIOUS
<1>8. c \in Arena /\ AllFollow(used, rank, born, c)
  <2>1. a[id] \in FrameNode /\ Follows(used, rank, born, id, a[id])
    BY <1>4, NodeFields DEF AllFollow
  <2>2. Clean(a[id]) \in FrameNode /\ Follows(used, rank, born, id, Clean(a[id]))
    BY <2>1, CleanFollows
  <2>3. c = [a EXCEPT ![id] = Clean(a[id])]
    BY <1>7 DEF delete
  <2> QED BY <1>4, <2>2, <2>3, SetFollows
<1>9. /\ Dropped(c, {id}) \subseteq Upsert
      /\ \A w \in Dropped(c, {id}) : Follows(used, rank, born, w.id, w.node)
  BY <1>8, DroppedFollow
<1>10. AllRanked(arena', store', writes', used', rank, born, top)
  BY <1>1, <1>3, <1>5, <1>6, <1>7, <1>9 DEF AllRanked
<1> QED BY <1>3, <1>5, <1>6, <1>7, <1>9, <1>10 DEF RankedInv

LEMMA RankedReopen ==
  ASSUME RankedInv, Reopen
  PROVE  RankedInv'
<1>1. PICK rank, born, top : AllRanked(arena, store, writes, used, rank, born, top)
  BY DEF RankedInv
<1>2. /\ Dropped(arena, Frame) \subseteq Upsert
      /\ \A w \in Dropped(arena, Frame) : Follows(used, rank, born, w.id, w.node)
  BY <1>1, DroppedFollow DEF RankedInv, AllRanked
<1>3. /\ arena' = [f \in Frame |-> Absent] /\ writes' = writes \cup Dropped(arena, Frame)
      /\ store' = store /\ used' = used
  BY DEF Reopen
<1>4. arena' \in Arena /\ AllFollow(used, rank, born, arena')
  BY <1>3 DEF Arena, AllFollow, Loaded
<1>5. AllRanked(arena', store', writes', used', rank, born, top)
  BY <1>1, <1>2, <1>3, <1>4 DEF AllRanked
<1> QED BY <1>2, <1>3, <1>4, <1>5 DEF RankedInv

LEMMA RankedUpsert ==
  ASSUME RankedInv, NEW w \in writes, upsert_frame(w)
  PROVE  RankedInv'
<1>1. PICK rank, born, top : AllRanked(arena, store, writes, used, rank, born, top)
  BY DEF RankedInv
<1>2. w.id \in Frame /\ w.node \in FrameNode /\ Follows(used, rank, born, w.id, w.node)
  BY <1>1 DEF RankedInv, AllRanked, Upsert
<1>3. /\ store \in Arena /\ AllFollow(used, rank, born, store)
      /\ writes' \subseteq writes /\ arena' = arena /\ used' = used
      /\ store' = store \/ store' = [store EXCEPT ![w.id] = w.node]
  BY <1>1 DEF RankedInv, AllRanked, upsert_frame
<1>4. store' \in Arena /\ AllFollow(used, rank, born, store')
  BY <1>2, <1>3, SetFollows
<1>5. AllRanked(arena', store', writes', used', rank, born, top)
  BY <1>1, <1>3, <1>4 DEF AllRanked
<1> QED BY <1>3, <1>4, <1>5 DEF RankedInv

LEMMA RankingStarts == Init => RankedInv
<1> SUFFICES ASSUME Init PROVE RankedInv
  OBVIOUS
<1>1. /\ arena \in Arena /\ store \in Arena /\ writes = {} /\ used = {}
      /\ Loaded(arena) = {} /\ Loaded(store) = {}
  BY DEF Init, Arena, Loaded
<1>2. PICK rank : rank = [f \in Frame |-> 0]
  OBVIOUS
<1>3. Ranking(rank, rank, 1)
  BY <1>2 DEF Ranking
<1>4. AllRanked(arena, store, writes, used, rank, rank, 1)
  BY <1>1, <1>3 DEF AllRanked, AllFollow
<1> QED BY <1>1, <1>4 DEF RankedInv

LEMMA RankingContinues == RankedInv /\ [Next]_vars => RankedInv'
<1> SUFFICES ASSUME RankedInv, [Next]_vars PROVE RankedInv'
  OBVIOUS
<1>1. ASSUME NEW id \in Frame, set_root(id) PROVE RankedInv'
  BY <1>1, RankedSetRoot
<1>2. ASSUME UNCHANGED <<arena, store, writes, used>> PROVE RankedInv'
  BY <1>2 DEF RankedInv
<1>3. ASSUME NEW id \in Frame, remove(id) PROVE RankedInv'
  BY <1>2, <1>3 DEF remove
<1>4. ASSUME NEW id \in Frame, try_get(id) PROVE RankedInv'
  BY <1>4, RankedTryGet
<1>5. ASSUME NEW id \in Frame, flush(id) PROVE RankedInv'
  BY <1>5, RankedFlush
<1>6. ASSUME NEW p \in Frame, NEW id \in Frame, insert(p, id, 0) PROVE RankedInv'
  <2>1. PICK position \in Nat : position = 0
    OBVIOUS
  <2> QED BY <1>6, <2>1, RankedInsert
<1>7. ASSUME NEW p \in Frame, NEW id \in Frame, append(p, id) PROVE RankedInv'
  <2>1. PICK position : position = (IF p \in Loaded(arena) THEN Len(arena[p].children) ELSE 0)
    OBVIOUS
  <2>2. position \in Nat
    <3>1. CASE p \in Loaded(arena)
      <4>1. arena[p].children \in Seq(Frame)
        BY <3>1, NodeFields DEF RankedInv
      <4> QED BY <2>1, <3>1, <4>1
    <3> QED BY <2>1, <3>1
  <2>3. insert(p, id, position)
    BY <1>7, <2>1 DEF append
  <2> QED BY <2>1, <2>2, <2>3, RankedInsert
<1>8. CASE remove_deleted
  BY <1>8, RankedDeleted
<1>9. CASE remove_skipped
  BY <1>2, <1>9 DEF remove_skipped
<1>10. CASE remove_failed
  BY <1>10, RankedFailed
<1>11. CASE Reopen
  BY <1>11, RankedReopen
<1>12. ASSUME NEW w \in writes, upsert_frame(w) PROVE RankedInv'
  BY <1>12, RankedUpsert
<1>13. CASE UNCHANGED vars
  BY <1>2, <1>13 DEF vars
<1> QED BY <1>1, <1>3, <1>4, <1>5, <1>6, <1>7, <1>8, <1>9, <1>10, <1>11, <1>12, <1>13 DEF Next

LEMMA RankingStays == Spec => []RankedInv
  BY RankingStarts, RankingContinues, PTL DEF Spec

(* A set of numbers below a bound has a greatest one. *)
LEMMA Greatest ==
  ASSUME NEW S, S # {}, NEW rank, NEW top \in Int,
         \A f \in S : rank[f] \in Int /\ rank[f] < top
  PROVE  \E f \in S : \A g \in S : rank[g] <= rank[f]
<1> DEFINE T == {top - rank[f] : f \in S}
<1>1. T \in SUBSET Nat
  OBVIOUS
<1>2. T # {}
  OBVIOUS
<1>3. PICK x \in T : \A y \in T : x <= y
  <2> HIDE DEF T
  <2> QED BY <1>1, <1>2, LeastElement
<1>4. PICK f \in S : x = top - rank[f]
  BY <1>3
<1>5. ASSUME NEW g \in S PROVE rank[g] <= rank[f]
  <2>1. top - rank[g] \in T
    OBVIOUS
  <2>2. x <= top - rank[g]
    BY <1>3, <2>1
  <2> QED BY <1>4, <2>2
<1> QED BY <1>5

(* Every walk along the siblings of the tree, and every descent to the     *)
(* children, comes to an end, in a tree of any size and whatever rows it   *)
(* was loaded from: iter_next_siblings, iter_prev_siblings and             *)
(* FrameTree::remove mark nothing they have seen, but the ranking rises or *)
(* falls along every link they follow.                                     *)
THEOREM WalksComeToAnEnd == Spec => []WalksEnd
<1>1. ASSUME RankedInv, NEW S \in SUBSET Loaded(arena), S # {}
      PROVE  /\ \E f \in S : arena[f].next_sibling \notin S
             /\ \E f \in S : arena[f].prev_sibling \notin S
             /\ \E f \in S : ChildrenOf(f) \cap S = {}
  <2>1. PICK rank, born, top : AllRanked(arena, store, writes, used, rank, born, top)
    BY <1>1 DEF RankedInv
  <2>2. /\ rank \in [Frame -> Int] /\ born \in [Frame -> Nat] /\ top \in Nat
        /\ \A f \in Frame : -top < rank[f] /\ rank[f] < top /\ born[f] < top
        /\ S \subseteq Frame
    BY <2>1 DEF AllRanked, Ranking, Loaded
  <2>3. /\ "next_sibling" \in Fields /\ "prev_sibling" \in Fields /\ "children" \in Fields
    BY DEF Fields
  <2>4. NoFrame \notin S
    BY <2>2, FrameAssumption
  <2>5. \A f \in S : /\ arena[f].next_sibling \in S => rank[f] < rank[arena[f].next_sibling]
                     /\ arena[f].prev_sibling \in S => rank[arena[f].prev_sibling] < rank[f]
                     /\ arena[f].children \in Seq({g \in used : born[f] < born[g]})
    BY <2>1, <2>3, <2>4 DEF AllRanked, AllFollow, Follows, Fits
  <2>6. \E f \in S : arena[f].next_sibling \notin S
    <3>1. top \in Int /\ \A f \in S : rank[f] \in Int /\ rank[f] < top
      BY <2>2
    <3>2. PICK f \in S : \A g \in S : rank[g] <= rank[f]
      BY <1>1, <3>1, Greatest
    <3>3. SUFFICES ASSUME arena[f].next_sibling \in S PROVE FALSE
      OBVIOUS
    <3>4. PICK g \in S : g = arena[f].next_sibling
      BY <3>3
    <3>5. rank[f] < rank[g] /\ rank[g] <= rank[f]
      BY <2>5, <3>2, <3>4
    <3> QED BY <3>1, <3>5
  <2>7. \E f \in S : arena[f].prev_sibling \notin S
    <3>1. PICK down : down = [f \in Frame |-> -rank[f]]
      OBVIOUS
    <3>2. top \in Int /\ \A f \in S : down[f] \in Int /\ down[f] < top
                                      /\ down[f] = -rank[f] /\ rank[f] \in Int
      BY <2>2, <3>1
    <3>3. PICK f \in S : \A g \in S : down[g] <= down[f]
      BY <1>1, <3>2, Greatest
    <3>4. SUFFICES ASSUME arena[f].prev_sibling \in S PROVE FALSE
      OBVIOUS
    <3>5. PICK g \in S : g = arena[f].prev_sibling
      BY <3>4
    <3>6. rank[g] < rank[f] /\ down[g] <= down[f]
      BY <2>5, <3>3, <3>5
    <3> QED BY <3>2, <3>6
  <2>8. \E f \in S : ChildrenOf(f) \cap S = {}
    <3>1. top \in Int /\ \A f \in S : born[f] \in Int /\ born[f] < top
      BY <2>2
    <3>2. PICK f \in S : \A g \in S : born[g] <= born[f]
      BY <1>1, <3>1, Greatest
    <3>3. f \in Loaded(arena) /\ arena[f] # Absent
      BY DEF Loaded
    <3>4. ChildrenOf(f) = {arena[f].children[i] : i \in DOMAIN arena[f].children}
      BY <3>3 DEF ChildrenOf
    <3>5. \A i \in DOMAIN arena[f].children : born[f] < born[arena[f].children[i]]
      <4>1. PICK s : s = arena[f].children
        OBVIOUS
      <4>2. s \in Seq({g \in used : born[f] < born[g]})
        BY <2>5, <4>1
      <4>3. \A i \in DOMAIN s : s[i] \in {g \in used : born[f] < born[g]}
        BY <4>2
      <4> QED BY <4>1, <4>3
    <3> QED BY <3>1, <3>2, <3>4, <3>5
  <2> QED BY <2>6, <2>7, <2>8
<1>2. RankedInv => WalksEnd
  BY <1>1 DEF WalksEnd
<1> QED BY <1>2, RankingStays, PTL
=============================================================================
