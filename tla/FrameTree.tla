------------------------------ MODULE FrameTree ------------------------------
(***************************************************************************)
(* The frame tree of one session: the arena of loaded frames               *)
(* (session/frames/tree.rs), the containers that carry them and persist    *)
(* them when they are dropped (session/frames/container.rs), and the       *)
(* table of frames behind.                                                 *)
(*                                                                         *)
(* The checkpointer handles one event at a time, so operations on the tree *)
(* do not overlap; what they overlap with is the store: remove deletes one *)
(* row per step and may stop half way, and a dropped container is written  *)
(* by a task nobody waits for.                                             *)
(***************************************************************************)
EXTENDS Naturals, SequencesExt, FiniteSets

CONSTANTS Frame,       \* FrameId
          NoFrame,     \* Option::None
          Absent,      \* neither loaded, nor a row
          MaxReopens,  \* how often the tree is dropped and built again
          MaxReloaded  \* how many frames a tree that is built again has

ASSUME FrameAssumption ==
  /\ IsFiniteSet(Frame) /\ NoFrame \notin Frame
  /\ MaxReopens \in Nat /\ MaxReloaded \in Nat

VARIABLES arena,     \* arena[f]: the container of f, if it is loaded
          store,     \* store[f]: the row of f
          used,      \* identifiers handed out by FrameId::new
          stack,     \* the stack of the remove under way
          removing,  \* the frame that remove was called for
          writes,    \* upserts spawned by dropped containers
          origin,    \* history: origin[f]: the parent f was created under
          missed,    \* history: what failed removals had still to remove
          reopens

vars == <<arena, store, used, stack, removing, writes, origin, missed, reopens>>

Link == Frame \cup {NoFrame}
FrameNode == [is_root : BOOLEAN, parent : Link, prev_sibling : Link,
              next_sibling : Link, children : Seq(Frame), dirty : BOOLEAN]

ASSUME AbsentAssumption == Absent \notin FrameNode

TypeOK ==
  /\ arena \in [Frame -> FrameNode \cup {Absent}]
  /\ store \in [Frame -> FrameNode \cup {Absent}]
  /\ \A f \in Frame : store[f] # Absent => f \in used /\ ~store[f].dirty
  /\ used \subseteq Frame
  /\ stack \in Seq(Frame)
  /\ removing \in Link
  /\ removing = NoFrame <=> stack = <<>>
  /\ writes \subseteq [id : Frame, node : FrameNode]
  /\ origin \in [Frame -> Link]
  /\ missed \subseteq Frame
  /\ reopens \in 0..MaxReopens

Init ==
  /\ arena = [f \in Frame |-> Absent]
  /\ store = [f \in Frame |-> Absent]
  /\ used = {}
  /\ stack = <<>> /\ removing = NoFrame
  /\ origin = [f \in Frame |-> NoFrame] /\ missed = {}
  /\ writes = {}
  /\ reopens = 0

-----------------------------------------------------------------------------
(* Containers *)

Loaded(a) == {f \in Frame : a[f] # Absent}

(* A mutable access to the container of f, if it is loaded: DerefMut       *)
(* raises the dirty flag.                                                  *)
Put(a, f, field, value) ==
  IF f \in Loaded(a)
  THEN [a EXCEPT ![f] = [@ EXCEPT ![field] = value, !.dirty = TRUE]]
  ELSE a

Clean(node) == [node EXCEPT !.dirty = FALSE]

(* FrameNode::new in FrameNodeContainer::from_new_node. *)
NewNode(is_root) ==
  [is_root |-> is_root, parent |-> NoFrame, prev_sibling |-> NoFrame,
   next_sibling |-> NoFrame, children |-> <<>>, dirty |-> TRUE]

(* The upserts that dropping the containers of fs spawns. *)
Dropped(a, fs) == {[id |-> f, node |-> Clean(a[f])] :
                     f \in {g \in fs \cap Loaded(a) : a[g].dirty}}

-----------------------------------------------------------------------------
(* Links *)

link_siblings(a, prev, next) ==
  Put(Put(a, prev, "next_sibling", next), next, "prev_sibling", prev)

detach_from_siblings__one_way(a, id) ==
  IF id \notin Loaded(a) THEN a ELSE
  LET prev == a[id].prev_sibling
      next == a[id].next_sibling
  IN Put(Put(Put(a, prev, "next_sibling", next),
             id, "prev_sibling", NoFrame), id, "next_sibling", NoFrame)

detach_from_siblings(a, id) ==
  IF id \notin Loaded(a) THEN a ELSE
  LET prev == a[id].prev_sibling
      next == a[id].next_sibling
      linked == Put(Put(a, prev, "next_sibling", next), next, "prev_sibling", prev)
  IN Put(Put(linked, id, "prev_sibling", NoFrame), id, "next_sibling", NoFrame)

(* Vec::retain: what is left of the children of a frame without id. *)
retain(children, id) ==
  LET kept[i \in 0..Len(children)] ==
        IF i = 0 THEN <<>>
        ELSE IF children[i] = id THEN kept[i - 1]
        ELSE Append(kept[i - 1], children[i])
  IN kept[Len(children)]

detach_from_parent(a, id) ==
  IF id \notin Loaded(a) \/ a[id].parent = NoFrame THEN a ELSE
  LET p == a[id].parent
  IN Put(IF p \in Loaded(a) THEN Put(a, p, "children", retain(a[p].children, id))
                            ELSE a,
         id, "parent", NoFrame)

detach(a, id) == detach_from_parent(detach_from_siblings(a, id), id)

(* child takes its place between its two neighbours, if it has them. *)
LinkBetween(a, prev, child, next) ==
  LET left == IF prev # NoFrame THEN link_siblings(a, prev, child)
                                ELSE Put(a, child, "prev_sibling", NoFrame)
  IN IF next # NoFrame THEN link_siblings(left, child, next)
                       ELSE Put(left, child, "next_sibling", NoFrame)

At(s, i) == IF i \in DOMAIN s THEN s[i] ELSE NoFrame

insert_child__off_by_one(a, parent, child, position) ==
  IF parent \notin Loaded(a) THEN a ELSE
  LET siblings == a[parent].children
      i == IF position < Len(siblings) THEN position ELSE Len(siblings)
  IN Put(Put(LinkBetween(a, At(siblings, i + 1), child, At(siblings, i + 1)),
             parent, "children", InsertAt(siblings, i + 1, child)),
         child, "parent", parent)

(* A parent that is not loaded gets no child. *)
insert_child(a, parent, child, position) ==
  IF parent \notin Loaded(a) THEN a ELSE
  LET siblings == a[parent].children
      i == IF position < Len(siblings) THEN position ELSE Len(siblings)
  IN Put(Put(LinkBetween(a, At(siblings, i), child, At(siblings, i + 1)),
             parent, "children", InsertAt(siblings, i + 1, child)),
         child, "parent", parent)

-----------------------------------------------------------------------------
(* FrameTree *)

Ready == stack = <<>>
Exists(f) == f \in Loaded(arena) \/ store[f] # Absent

(* Bound: trees that are dropped and built again stay small. *)
RoomFor(frames) == reopens > 0 => Cardinality(frames) <= MaxReloaded

create_node(a, id, is_root) == [a EXCEPT ![id] = NewNode(is_root)]

(* Once per session, before any other frame. *)
set_root(id) ==
  /\ Ready /\ used = {}
  /\ used' = {id}
  /\ arena' = create_node(arena, id, TRUE)
  /\ UNCHANGED <<store, stack, removing, writes, origin, missed, reopens>>

insert(parent, id, position) ==
  /\ Ready /\ id \notin used /\ Exists(parent) /\ RoomFor(used \cup {id})
  /\ used' = used \cup {id}
  /\ arena' = insert_child(create_node(arena, id, FALSE), parent, id, position)
  /\ origin' = [origin EXCEPT ![id] = parent]
  /\ UNCHANGED <<store, stack, removing, writes, missed, reopens>>

append(parent, id) ==
  insert(parent, id,
         IF parent \in Loaded(arena) THEN Len(arena[parent].children) ELSE 0)

(* try_get loads a frame from its row. *)
try_get(f) ==
  /\ Ready
  /\ f \notin Loaded(arena) /\ store[f] # Absent
  /\ arena' = [arena EXCEPT ![f] = store[f]]
  /\ UNCHANGED <<store, used, stack, removing, writes, origin, missed, reopens>>

flush(f) ==
  /\ Ready /\ f \in Loaded(arena) /\ arena[f].dirty
  /\ store' = [store EXCEPT ![f] = Clean(arena[f])]
  /\ arena' = [arena EXCEPT ![f] = Clean(@)]
  /\ UNCHANGED <<used, stack, removing, writes, origin, missed, reopens>>

ChildrenOf(f) ==
  LET node == IF f \in Loaded(arena) THEN arena[f] ELSE store[f]
  IN IF node = Absent THEN {} ELSE {node.children[i] : i \in DOMAIN node.children}

remove(id) ==
  /\ Ready /\ id \in used
  /\ stack' = <<id>>
  /\ removing' = id
  /\ missed' = missed \ {id}
  /\ UNCHANGED <<arena, store, used, writes, origin, reopens>>

(* What is left on the stack once the frame has been taken from the arena; *)
(* an empty stack is the return of remove.                                 *)
Continue(rest) ==
  /\ stack' = rest
  /\ removing' = IF rest = <<>> THEN NoFrame ELSE removing

(* FrameNodeContainer::delete lowers the dirty flag, so that dropping the  *)
(* container does not write the row again.                                 *)
delete(a, id) == [a EXCEPT ![id] = Clean(@)]

remove_deleted__no_children ==
  LET id == Last(stack)
      a  == detach(arena, id)
  IN /\ ~Ready /\ id \in Loaded(arena) /\ store[id] # Absent
     /\ store' = [store EXCEPT ![id] = Absent]
     /\ writes' = writes \cup Dropped(delete(a, id), {id})
     /\ arena' = [a EXCEPT ![id] = Absent]
     /\ Continue(Front(stack))
     /\ UNCHANGED <<used, origin, missed, reopens>>

remove_deleted ==
  LET id == Last(stack)
      a  == detach(arena, id)
  IN /\ ~Ready /\ id \in Loaded(arena) /\ store[id] # Absent
     /\ store' = [store EXCEPT ![id] = Absent]
     /\ writes' = writes \cup Dropped(delete(a, id), {id})
     /\ arena' = [a EXCEPT ![id] = Absent]
     /\ Continue(Front(stack) \o a[id].children)
     /\ UNCHANGED <<used, origin, missed, reopens>>

(* A frame that is not loaded is not deleted either. *)
remove_skipped ==
  /\ ~Ready /\ Last(stack) \notin Loaded(arena)
  /\ Continue(Front(stack))
  /\ UNCHANGED <<arena, store, used, writes, origin, missed, reopens>>

(* The store fails, or has no such row: remove returns at once. *)
remove_failed ==
  /\ ~Ready /\ Last(stack) \in Loaded(arena)
  /\ arena' = detach(arena, Last(stack))
  /\ stack' = <<>> /\ removing' = NoFrame
  /\ missed' = missed \cup Range(stack)
  /\ UNCHANGED <<store, used, writes, origin, reopens>>

-----------------------------------------------------------------------------
(* The end of a tree.  The next one starts empty, and does not wait for    *)
(* what the last one is still writing.                                     *)

Reopen ==
  /\ Ready /\ reopens < MaxReopens /\ Cardinality(used) <= MaxReloaded
  /\ reopens' = reopens + 1
  /\ writes' = writes \cup Dropped(arena, Frame)
  /\ arena' = [f \in Frame |-> Absent]
  /\ UNCHANGED <<store, used, stack, removing, origin, missed>>

(* The task of drop; a failure is only logged. *)
upsert_frame(w) ==
  /\ writes' = writes \ {w}
  /\ store' \in {store, [store EXCEPT ![w.id] = w.node]}
  /\ UNCHANGED <<arena, used, stack, removing, origin, missed, reopens>>

Next ==
  \/ \E id \in Frame : set_root(id) \/ remove(id) \/ try_get(id) \/ flush(id)
  \/ \E p, id \in Frame : append(p, id) \/ insert(p, id, 0)
  \/ remove_deleted \/ remove_skipped \/ remove_failed
  \/ Reopen
  \/ \E w \in writes : upsert_frame(w)

Spec == Init /\ [][Next]_vars

-----------------------------------------------------------------------------
Position(s, x) == {i \in DOMAIN s : s[i] = x}

(* The three representations of the tree (parent, sibling links, list of   *)
(* children) tell the same story about the loaded frames, also after a     *)
(* removal that stopped half way: a child is listed once, knows its parent *)
(* and its neighbours in the list, and a neighbour knows it back.  A tree  *)
(* that was loaded while the one before was still being written mixes rows *)
(* of different ages; this is about the tree that was never reloaded.      *)
LinksAgree ==
  reopens = 0 => \A f \in Loaded(arena) :
    LET p == arena[f].parent
        next == arena[f].next_sibling
        prev == arena[f].prev_sibling
    IN /\ next \in Loaded(arena) => arena[next].prev_sibling = f
       /\ prev \in Loaded(arena) => arena[prev].next_sibling = f
       /\ \A i \in DOMAIN arena[f].children :
            LET c == arena[f].children[i] IN c \in Loaded(arena) => arena[c].parent = f
       /\ p \in Loaded(arena) =>
            \E i \in DOMAIN arena[p].children :
              /\ Position(arena[p].children, f) = {i}
              /\ prev = IF i = 1 THEN NoFrame ELSE arena[p].children[i - 1]
              /\ next = IF i = Len(arena[p].children) THEN NoFrame
                        ELSE arena[p].children[i + 1]

(* Every walk of the tree comes to an end: iter_next_siblings,             *)
(* iter_prev_siblings and the stack of remove follow links without marking *)
(* what they have seen, so no set of loaded frames may be closed under one *)
(* of them, whatever rows a new tree was loaded from.                      *)
WalksEnd ==
  \A S \in (SUBSET Loaded(arena)) \ {{}} :
    /\ \E f \in S : arena[f].next_sibling \notin S
    /\ \E f \in S : arena[f].prev_sibling \notin S
    /\ \E f \in S : ChildrenOf(f) \cap S = {}

(* The frames that were created under those of fs, at any depth, and those *)
(* of fs: the least set that has both.  Links that were cut do not count.  *)
Below(fs) ==
  {g \in Frame : \A S \in SUBSET Frame :
     fs \subseteq S /\ (\A f \in Frame : origin[f] \in S => f \in S) => g \in S}

Returned == stack # <<>> /\ stack' = <<>>
Gone(fs) == \A f \in fs : arena'[f] = Absent /\ store'[f] = Absent

(* "retire `id` et tout son sous-arbre de l'arène, en supprimant chaque    *)
(* noeud de `store`": when remove succeeds, every frame ever created below *)
(* id is gone, whatever other removals did to the links in the meantime.   *)
(* What an earlier removal of a frame above was still to remove when it    *)
(* failed is out of reach, although "l'appelant peut réessayer sur le même *)
(* `id`": the links to it are cut.  Nothing else is.  In a tree that was   *)
(* reloaded remove skips what is not in the arena, so this is about the    *)
(* tree that never was.                                                    *)
RemoveTakesSubtree ==
  [][reopens = 0 /\ Returned /\ ~remove_failed
       => Gone(Below({removing}) \ Below(missed))]_vars
=============================================================================
