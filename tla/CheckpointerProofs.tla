------------------------- MODULE CheckpointerProofs -------------------------
(***************************************************************************)
(* What is proved about the checkpointer, for any tree a session is loaded *)
(* with and any number of frames, jobs and requests.  A handler is a       *)
(* composition of small operators on the record s; Moved says what each of *)
(* them, and so every handler, may do to it.                               *)
(***************************************************************************)
EXTENDS Checkpointer, TLAPS, FiniteSetTheorems, FunctionTheorems, WellFoundedInduction

Results == Requests \cup {"Continue", "GoTo", "Fork", "Completed", "Failed"}

Entry == [index : Nat, content : Requests, done : BOOLEAN]

(* What a job may answer: a request of experts or tools asks for some. *)
Answer ==
  {r \in [result : Results \cup {"JobFailed"}, n : Nat,
          updates : {{}, NodeWrites, tool_writes, expert_writes}, new_logs : Seq(Entry)] :
     r.result \in {"ConsultExperts", "CallTools"} => r.n >= 1}

FrameRow == [kind : Kind, status : Status, parent : Nat, response : Answer \cup {None},
             logs : Seq(Entry), superstep : {NoSnapshot} \cup Nat]

Event == [type : {"FrameCreated", "FrameReady", "FrameRunTerminated", "FrameTerminated"},
          frame : Nat]
           \cup [type : {"FrameRunJobStateUpdate"}, frame : Nat, response : Answer]
           \cup [type : {"ChildFrameTerminated"}, frame : Nat, child : Nat]
           \cup [type : {"HitlAnswered"}]

-----------------------------------------------------------------------------
(* A set that has 0, and the successor of each of its elements below n,    *)
(* has every number up to n: induction, without an operator parameter.     *)
LEMMA UpTo ==
  ASSUME NEW n \in Nat, NEW P,
         0 \in P, \A k \in 0..n-1 : k \in P => k + 1 \in P
  PROVE  \A k \in 0..n : k \in P
<1> DEFINE T == {k \in Nat : k <= n /\ k \notin P}
           R == OpToRel(<, Nat)
<1> SUFFICES ASSUME T # {} PROVE FALSE
  OBVIOUS
<1>1. PICK x \in T : \A y \in T : ~(<<y, x>> \in R)
  <2>1. IsWellFoundedOn(R, Nat)
    BY NatLessThanWellFounded
  <2>2. T \in SUBSET Nat
    OBVIOUS
  <2> HIDE DEF R, T
  <2> QED
    BY <2>1, <2>2, WFMin
<1>2. x \in Nat /\ x <= n /\ x \notin P /\ x # 0
  BY <1>1
<1>3. x - 1 \in 0..n-1 /\ (x - 1) + 1 = x /\ x - 1 \in Nat /\ x - 1 < x
  BY <1>2
<1>4. x - 1 \notin T
  <2>1. <<x - 1, x>> \in R
    BY <1>2, <1>3 DEF OpToRel
  <2> QED
    BY <1>1, <2>1
<1>5. x - 1 \in P
  BY <1>3, <1>4
<1> QED
  BY <1>2, <1>3, <1>5

(* Where the values of a cliché come from.  A value tells of the frames    *)
(* whose numbers it holds; a frame is under another if every set of frames *)
(* that is closed under parents and has the one has the other.             *)
Listed(list) == \E S : list \in Seq(S)

Tells(v, x) ==
  \/ v.type = "number" /\ v.num = x
  \/ \E i \in DOMAIN v.list : v.list[i].type = "number" /\ v.list[i].num = x

SpecOf(kind) ==
  CASE kind = "Tool"           -> tool
    [] kind = "ToolAggregator" -> tool_aggregator
    [] kind = "Expert"         -> expert
    [] OTHER                   -> GraphCommon

Upward(frame, S) == \A f \in S : frame[f].parent = None \/ frame[f].parent \in S

Under(frame, c, x) ==
  \A S \in SUBSET (1..Len(frame)) : Upward(frame, S) /\ x \in S => c \in S

Source(frame, f, ch, x) ==
  /\ x \in 1..Len(frame)
  /\ \/ x = f
     \/ /\ ch \in SpecOf(frame[f].kind).imported
        /\ \E c \in 1..Len(frame) : /\ frame[c].parent = f /\ Under(frame, c, x)
                                    /\ ch \in SpecOf(frame[c].kind).exported

ValueOf(frame, f, ch, v) ==
  Listed(v.list) /\ \A x : Tells(v, x) => Source(frame, f, ch, x)

Sourced(frame, w) ==
  w[1] \in 1..Len(frame) /\ \A ch \in DOMAIN w[3] : ValueOf(frame, w[1], ch, w[3][ch])

(* The frames of one tree are the first of another. *)
Kin(a, b) ==
  /\ Len(a) \in Nat /\ Len(b) \in Nat /\ Len(a) <= Len(b)
  /\ \A f \in 1..Len(a) : /\ b[f].kind = a[f].kind /\ b[f].parent = a[f].parent
                          /\ a[f].parent \in 0..(f - 1)

LEMMA SpecIs == ASSUME NEW st, NEW f PROVE common_spec_of(st, f) = SpecOf(st.frame[f].kind)
BY DEF common_spec_of, SpecOf

LEMMA UnderKept ==
  ASSUME NEW a, NEW b, Kin(a, b), NEW x \in 1..Len(a), NEW c, Under(a, c, x)
  PROVE  Under(b, c, x)
<1> SUFFICES ASSUME NEW S \in SUBSET (1..Len(b)), Upward(b, S), x \in S PROVE c \in S
  BY DEF Under
<1>1. PICK T : T = S \cap 1..Len(a)
  OBVIOUS
<1>2. T \in SUBSET (1..Len(a)) /\ x \in T
  BY <1>1
<1>3. Upward(a, T)
  <2> SUFFICES ASSUME NEW f \in T, a[f].parent # None PROVE a[f].parent \in T
    BY DEF Upward
  <2>1. f \in S /\ f \in 1..Len(a)
    BY <1>1
  <2>2. b[f].parent = a[f].parent /\ a[f].parent \in 0..(f - 1) /\ Len(a) \in Nat
    BY <2>1 DEF Kin
  <2>3. a[f].parent \in S
    BY <2>1, <2>2 DEF Upward
  <2>4. a[f].parent \in 1..Len(a)
    BY <2>1, <2>2 DEF None
  <2> QED BY <1>1, <2>3, <2>4
<1>4. c \in T
  BY <1>2, <1>3 DEF Under
<1> QED BY <1>1, <1>4

LEMMA SourcedKept ==
  ASSUME NEW a, NEW b, Kin(a, b), NEW w, Sourced(a, w)
  PROVE  Sourced(b, w)
<1>1. w[1] \in 1..Len(a) /\ w[1] \in 1..Len(b) /\ \A f \in 1..Len(a) : f \in 1..Len(b)
  BY DEF Sourced, Kin
<1> SUFFICES ASSUME NEW ch \in DOMAIN w[3], NEW x, Tells(w[3][ch], x),
                    Source(a, w[1], ch, x)
             PROVE  Source(b, w[1], ch, x)
  BY <1>1 DEF Sourced, ValueOf
<1>2. x \in 1..Len(a) /\ x \in 1..Len(b)
  BY <1>1 DEF Source
<1>3. CASE x = w[1]
  BY <1>2, <1>3 DEF Source
<1>4. CASE x # w[1]
  <2>1. ch \in SpecOf(a[w[1]].kind).imported
    BY <1>4 DEF Source
  <2>2. PICK c \in 1..Len(a) : /\ a[c].parent = w[1] /\ Under(a, c, x)
                               /\ ch \in SpecOf(a[c].kind).exported
    BY <1>4 DEF Source
  <2>3. Under(b, c, x)
    BY <1>2, <2>2, UnderKept
  <2>4. /\ a[w[1]].kind = b[w[1]].kind /\ a[c].kind = b[c].kind /\ a[c].parent = b[c].parent
        /\ c \in 1..Len(b)
    BY <1>1, <2>2 DEF Kin
  <2>5. /\ ch \in SpecOf(b[w[1]].kind).imported
        /\ b[c].parent = w[1] /\ ch \in SpecOf(b[c].kind).exported
    BY <2>1, <2>2, <2>4
  <2> QED BY <1>2, <2>3, <2>4, <2>5 DEF Source
<1> QED BY <1>3, <1>4

(* What a child has is below its parent. *)
LEMMA SourceUnder ==
  ASSUME NEW frame, NEW c \in 1..Len(frame), NEW ch, NEW x, Source(frame, c, ch, x), c # None
  PROVE  Under(frame, c, x)
<1> SUFFICES ASSUME NEW S \in SUBSET (1..Len(frame)), Upward(frame, S), x \in S PROVE c \in S
  BY DEF Under
<1>1. CASE x = c
  BY <1>1
<1>2. CASE x # c
  <2>1. PICK d \in 1..Len(frame) : frame[d].parent = c /\ Under(frame, d, x)
    BY <1>2 DEF Source
  <2>2. d \in S
    BY <2>1 DEF Under
  <2> QED BY <2>1, <2>2 DEF Upward
<1> QED BY <1>1, <1>2

-----------------------------------------------------------------------------
(* The reducers *)

LEMMA NullTells == ASSUME NEW frame, NEW f, NEW ch PROVE ValueOf(frame, f, ch, Null)
<1>1. Null.list = <<>> /\ Null.type = "null"
  BY DEF Null
<1>2. Listed(Null.list)
  BY <1>1 DEF Listed
<1>3. \A x : ~Tells(Null, x)
  BY <1>1 DEF Tells
<1> QED BY <1>2, <1>3 DEF ValueOf

LEMMA NumberTells ==
  ASSUME NEW frame, NEW f, NEW ch, NEW x, Source(frame, f, ch, x)
  PROVE  ValueOf(frame, f, ch, Number(x))
<1>1. Number(x).list = <<>> /\ Number(x).num = x
  BY DEF Number
<1>2. Listed(Number(x).list)
  BY <1>1 DEF Listed
<1>3. \A y : Tells(Number(x), y) => y = x
  BY <1>1 DEF Tells
<1> QED BY <1>2, <1>3 DEF ValueOf

(* The contributions of a list, each from below. *)
Contributed(frame, f, ch, list) ==
  Listed(list) /\ \A i \in DOMAIN list : ValueOf(frame, f, ch, list[i])

LEMMA ListedConcat ==
  ASSUME NEW u, NEW v, Listed(u), Listed(v)
  PROVE  /\ Listed(u \o v)
         /\ \A i \in DOMAIN (u \o v) : \/ \E j \in DOMAIN u : (u \o v)[i] = u[j]
                                       \/ \E j \in DOMAIN v : (u \o v)[i] = v[j]
<1>1. PICK S : u \in Seq(S)
  BY DEF Listed
<1>2. PICK T : v \in Seq(T)
  BY DEF Listed
<1>3. PICK R : R = S \cup T
  OBVIOUS
<1>4. u \in Seq(R) /\ v \in Seq(R)
  <2>1. S \subseteq R /\ T \subseteq R
    BY <1>3
  <2> QED BY <1>1, <1>2, <2>1
<1>5. u \o v \in Seq(R)
  BY <1>4
<1>6. /\ DOMAIN (u \o v) = 1..(Len(u) + Len(v)) /\ DOMAIN u = 1..Len(u) /\ DOMAIN v = 1..Len(v)
      /\ Len(u) \in Nat /\ Len(v) \in Nat
      /\ \A i \in 1..(Len(u) + Len(v)) :
           (u \o v)[i] = IF i <= Len(u) THEN u[i] ELSE v[i - Len(u)]
  BY <1>4
<1>7. ASSUME NEW i \in DOMAIN (u \o v)
      PROVE  \/ \E j \in DOMAIN u : (u \o v)[i] = u[j]
             \/ \E j \in DOMAIN v : (u \o v)[i] = v[j]
  <2>1. CASE i <= Len(u)
    BY <1>6, <2>1
  <2>2. CASE ~(i <= Len(u))
    <3>1. i - Len(u) \in DOMAIN v
      BY <1>6, <2>2
    <3> QED BY <1>6, <2>2, <3>1
  <2> QED BY <2>1, <2>2
<1> QED BY <1>5, <1>7 DEF Listed

LEMMA ElementsConcat ==
  ASSUME NEW v, NEW list, Listed(list), NEW i \in DOMAIN (<<v>> \o list)
  PROVE  LET u == <<v>> \o list IN u[i] = v \/ \E j \in DOMAIN list : u[i] = list[j]
<1>1. PICK one : one = <<v>>
  OBVIOUS
<1>2. one \in Seq({v})
  BY <1>1
<1>3. Listed(one)
  BY <1>2 DEF Listed
<1>4. \/ \E j \in DOMAIN one : (one \o list)[i] = one[j]
      \/ \E j \in DOMAIN list : (one \o list)[i] = list[j]
  BY <1>1, <1>3, ListedConcat
<1>5. \A j \in DOMAIN one : one[j] = v
  BY <1>1
<1> QED BY <1>1, <1>4, <1>5

LEMMA LastWriteFrom ==
  ASSUME NEW frame, NEW f, NEW ch, NEW v, NEW list,
         ValueOf(frame, f, ch, v), Contributed(frame, f, ch, list)
  PROVE  ValueOf(frame, f, ch, reduce("LastWriteWins", v, list))
<1>1. reduce("LastWriteWins", v, list) = IF list = <<>> THEN v ELSE list[Len(list)]
  BY DEF reduce, Last
<1>2. CASE list = <<>>
  BY <1>1, <1>2
<1>3. CASE list # <<>>
  <2>1. PICK S : list \in Seq(S)
    BY DEF Contributed, Listed
  <2>2. Len(list) \in DOMAIN list
    BY <1>3, <2>1
  <2>3. ValueOf(frame, f, ch, list[Len(list)])
    BY <2>2 DEF Contributed
  <2> QED BY <1>1, <1>3, <2>3
<1> QED BY <1>2, <1>3

LEMMA AppendFrom ==
  ASSUME NEW frame, NEW f, NEW ch, NEW v, NEW list,
         ValueOf(frame, f, ch, v), Contributed(frame, f, ch, list)
  PROVE  ValueOf(frame, f, ch, reduce("Append", v, list))
<1>1. PICK u : u = v.list
  OBVIOUS
<1>2. PICK r : r = Array(u \o list)
  OBVIOUS
<1>3. r.list = u \o list /\ r.type = "array" /\ r = reduce("Append", v, list)
  BY <1>1, <1>2 DEF reduce, Array
<1>4. Listed(u) /\ Listed(list)
  BY <1>1 DEF ValueOf, Contributed
<1>5. /\ Listed(r.list)
      /\ \A i \in DOMAIN r.list : \/ \E j \in DOMAIN u : r.list[i] = u[j]
                                  \/ \E j \in DOMAIN list : r.list[i] = list[j]
  BY <1>3, <1>4, ListedConcat
<1>6. ASSUME NEW x, Tells(r, x) PROVE Source(frame, f, ch, x)
  <2>1. PICK i \in DOMAIN r.list : r.list[i].type = "number" /\ r.list[i].num = x
    BY <1>3, <1>6 DEF Tells
  <2>2. CASE \E j \in DOMAIN u : r.list[i] = u[j]
    <3>1. Tells(v, x)
      BY <1>1, <2>1, <2>2 DEF Tells
    <3> QED BY <3>1 DEF ValueOf
  <2>3. CASE \E j \in DOMAIN list : r.list[i] = list[j]
    <3>1. PICK j \in DOMAIN list : r.list[i] = list[j]
      BY <2>3
    <3>2. Tells(list[j], x)
      BY <2>1, <3>1 DEF Tells
    <3> QED BY <3>2 DEF Contributed, ValueOf
  <2> QED BY <1>5, <2>2, <2>3
<1> QED BY <1>3, <1>5, <1>6 DEF ValueOf

(* A set of numbers up to n that is not empty has a greatest one. *)
LEMMA Greatest ==
  ASSUME NEW n \in Nat, NEW T \in SUBSET (1..n), T # {}
  PROVE  \E x \in T : \A y \in T : x >= y
<1>1. PICK P : P = {k \in 0..n : \A S \in SUBSET (1..k) :
                                   S # {} => \E x \in S : \A y \in S : x >= y}
  OBVIOUS
<1>2. 0 \in P
  <2>1. \A S \in SUBSET (1..0) : S = {}
    OBVIOUS
  <2>2. 0 \in 0..n
    OBVIOUS
  <2> QED BY <1>1, <2>1, <2>2
<1>3. ASSUME NEW k \in 0..n-1, k \in P PROVE k + 1 \in P
  <2> SUFFICES ASSUME NEW S \in SUBSET (1..k + 1), S # {} PROVE \E x \in S : \A y \in S : x >= y
    BY <1>1
  <2>1. CASE k + 1 \in S
    BY <2>1
  <2>2. CASE k + 1 \notin S
    <3>1. S \in SUBSET (1..k)
      BY <2>2
    <3> QED BY <1>1, <1>3, <3>1
  <2> QED BY <2>1, <2>2
<1>4. n \in P
  BY <1>2, <1>3, UpTo
<1> QED BY <1>1, <1>4

LEMMA MaxFrom ==
  ASSUME NEW frame, Len(frame) \in Nat, NEW f, NEW ch, NEW v, NEW list,
         ValueOf(frame, f, ch, v), Contributed(frame, f, ch, list)
  PROVE  ValueOf(frame, f, ch, reduce("Max", v, list))
<1>1. PICK u : u = <<v>> \o list
  OBVIOUS
<1>2. PICK nums : nums = {x.num : x \in {y \in {u[i] : i \in DOMAIN u} : y.type = "number"}}
  OBVIOUS
<1>3. reduce("Max", v, list) = IF nums = {} THEN Null ELSE Number(Max(nums))
  BY <1>1, <1>2 DEF reduce, Numbers, ToSet
<1>4. Listed(<<v>>) /\ Listed(list)
  <2>1. <<v>> \in Seq({v})
    OBVIOUS
  <2> QED BY <2>1 DEF Listed, Contributed
<1>5. ASSUME NEW x \in nums PROVE Source(frame, f, ch, x)
  <2>1. PICK i \in DOMAIN u : u[i].type = "number" /\ u[i].num = x
    BY <1>2, <1>5
  <2>2. \/ \E j \in DOMAIN <<v>> : u[i] = <<v>>[j]
        \/ \E j \in DOMAIN list : u[i] = list[j]
    BY <1>1, <1>4, ListedConcat
  <2>3. ValueOf(frame, f, ch, u[i])
    <3>1. CASE \E j \in DOMAIN <<v>> : u[i] = <<v>>[j]
      <4>1. u[i] = v
        BY <3>1
      <4> QED BY <4>1
    <3>2. CASE \E j \in DOMAIN list : u[i] = list[j]
      BY <3>2 DEF Contributed
    <3> QED BY <2>2, <3>1, <3>2
  <2>4. Tells(u[i], x)
    BY <2>1 DEF Tells
  <2> QED BY <2>3, <2>4 DEF ValueOf
<1>6. CASE nums = {}
  BY <1>3, <1>6, NullTells
<1>7. CASE nums # {}
  <2>1. nums \in SUBSET (1..Len(frame))
    BY <1>5 DEF Source
  <2>2. Source(frame, f, ch, Max(nums))
    BY <1>5, <1>7, <2>1, Greatest DEF Max
  <2> QED BY <1>3, <1>7, <2>2, NumberTells
<1> QED BY <1>6, <1>7

LEMMA ReducerIs ==
  ASSUME NEW kind, NEW ch PROVE reducer_of(SpecOf(kind), ch) \in Reducer
<1>1. PICK spec : spec = SpecOf(kind)
  OBVIOUS
<1>2. \A c \in DOMAIN tool.reducer : tool.reducer[c] \in Reducer
  BY DEF tool, CommonSpec, One, Reducer
<1>3. \A c \in DOMAIN tool_aggregator.reducer : tool_aggregator.reducer[c] \in Reducer
  BY DEF tool_aggregator, CommonSpec, One, Reducer
<1>4. \A c \in DOMAIN expert.reducer : expert.reducer[c] \in Reducer
  BY DEF expert, CommonSpec, Reducer
<1>5. spec \in {tool, tool_aggregator, expert, GraphCommon}
  BY <1>1 DEF SpecOf
<1>6. \A c \in DOMAIN spec.reducer : spec.reducer[c] \in Reducer
  BY <1>2, <1>3, <1>4, <1>5, CheckpointerAssumption
<1>7. "LastWriteWins" \in Reducer
  BY DEF Reducer
<1> QED BY <1>1, <1>6, <1>7 DEF reducer_of

(* The updates a cliché is made of: each from the frame or from below. *)
UpdatesOf(frame, f, updates) ==
  \A ch \in DOMAIN updates : Contributed(frame, f, ch, updates[ch])

LEMMA ReducedSourced ==
  ASSUME NEW frame, Len(frame) \in Nat, NEW w, Sourced(frame, w), NEW updates,
         UpdatesOf(frame, w[1], updates), NEW kind, NEW k
  PROVE  Sourced(frame, <<w[1], k, Reduced(SpecOf(kind), w[3], updates)>>)
<1>1. PICK f, channels : f = w[1] /\ channels = w[3]
  OBVIOUS
<1>2. PICK r : r = Reduced(SpecOf(kind), channels, updates)
  OBVIOUS
<1>3. f \in 1..Len(frame) /\ \A ch \in DOMAIN channels : ValueOf(frame, f, ch, channels[ch])
  BY <1>1 DEF Sourced
<1>4. ASSUME NEW ch \in DOMAIN r PROVE ValueOf(frame, f, ch, r[ch])
  <2>1. /\ ch \in DOMAIN channels \cup DOMAIN updates
        /\ r[ch] = IF ch \in DOMAIN updates
                   THEN reduce(reducer_of(SpecOf(kind), ch), Get(channels, ch), updates[ch])
                   ELSE channels[ch]
    BY <1>2, <1>4 DEF Reduced
  <2>2. CASE ch \notin DOMAIN updates
    BY <1>3, <2>1, <2>2
  <2>3. CASE ch \in DOMAIN updates
    <3>1. PICK v, list : v = Get(channels, ch) /\ list = updates[ch]
      OBVIOUS
    <3>2. ValueOf(frame, f, ch, v)
      BY <1>3, <3>1, NullTells DEF Get
    <3>3. Contributed(frame, f, ch, list)
      BY <1>1, <2>3, <3>1 DEF UpdatesOf
    <3>4. PICK reducer \in Reducer : reducer = reducer_of(SpecOf(kind), ch)
      BY ReducerIs
    <3>5. r[ch] = reduce(reducer, v, list)
      BY <2>1, <2>3, <3>1, <3>4
    <3>6. reducer = "LastWriteWins" \/ reducer = "Append" \/ reducer = "Max"
      BY <3>4 DEF Reducer
    <3> QED BY <3>2, <3>3, <3>5, <3>6, LastWriteFrom, AppendFrom, MaxFrom
  <2> QED BY <2>2, <2>3
<1>5. PICK t : t = <<f, k, r>>
  OBVIOUS
<1>6. t[1] = f /\ t[3] = r
  BY <1>5
<1>7. Sourced(frame, t)
  BY <1>3, <1>4, <1>6 DEF Sourced
<1> QED BY <1>1, <1>2, <1>5, <1>7

(* What a run of a frame writes is its own. *)
LEMMA OwnUpdates ==
  ASSUME NEW frame, NEW f \in 1..Len(frame), NEW written
  PROVE  UpdatesOf(frame, f, into_updates(f, written))
<1>1. PICK u : u = into_updates(f, written)
  OBVIOUS
<1>2. ASSUME NEW ch \in DOMAIN u PROVE Contributed(frame, f, ch, u[ch])
  <2>1. u[ch] = <<Number(f)>>
    BY <1>1, <1>2 DEF into_updates
  <2>2. u[ch] \in Seq({Number(f)}) /\ \A i \in DOMAIN u[ch] : u[ch][i] = Number(f)
    BY <2>1
  <2>3. Source(frame, f, ch, f)
    BY DEF Source
  <2>4. ValueOf(frame, f, ch, Number(f))
    BY <2>3, NumberTells
  <2> QED BY <2>2, <2>4 DEF Contributed, Listed
<1> QED BY <1>1, <1>2 DEF UpdatesOf

-----------------------------------------------------------------------------
(* The children of a join, in order. *)
LEMMA FiniteUpTo ==
  ASSUME NEW n \in Nat, NEW T \in SUBSET (1..n)
  PROVE  IsFiniteSet(T) /\ Cardinality(T) \in Nat
<1>1. 1 \in Int /\ n \in Int
  OBVIOUS
<1>2. IsFiniteSet(1..n)
  BY <1>1, FS_Interval
<1>3. IsFiniteSet(T)
  BY <1>2, FS_Subset
<1> QED BY <1>3, FS_CardinalityType

LEMMA InOrderIs ==
  ASSUME NEW n \in Nat, NEW T \in SUBSET (1..n)
  PROVE  InOrder(T) \in Seq(T)
<1> DEFINE Sorted(S, q) == \A i, j \in DOMAIN q : i < j => q[i] < q[j]
<1>1. PICK P : P = {k \in 0..n : \A S \in SUBSET (1..k) :
                      \E q \in [1..Cardinality(S) -> S] : Sorted(S, q)}
  OBVIOUS
<1>2. 0 \in P
  <2> SUFFICES ASSUME NEW S \in SUBSET (1..0)
               PROVE  \E q \in [1..Cardinality(S) -> S] : Sorted(S, q)
    BY <1>1
  <2>1. S = {}
    OBVIOUS
  <2>2. Cardinality(S) = 0
    BY <2>1, FS_EmptySet
  <2>3. <<>> \in [1..Cardinality(S) -> S] /\ Sorted(S, <<>>)
    BY <2>2
  <2> QED BY <2>3
<1>3. ASSUME NEW k \in 0..n-1, k \in P PROVE k + 1 \in P
  <2>0. k + 1 \in 0..n /\ k \in Nat
    OBVIOUS
  <2> SUFFICES ASSUME NEW S \in SUBSET (1..k + 1)
               PROVE  \E q \in [1..Cardinality(S) -> S] : Sorted(S, q)
    BY <1>1, <2>0
  <2>1. CASE k + 1 \notin S
    <3>1. S \in SUBSET (1..k)
      BY <2>1
    <3> QED BY <1>1, <1>3, <3>1
  <2>2. CASE k + 1 \in S
    <3>1. PICK R : R = S \ {k + 1}
      OBVIOUS
    <3>2. R \in SUBSET (1..k) /\ S = R \cup {k + 1} /\ k + 1 \notin R
      BY <2>2, <3>1
    <3>3. IsFiniteSet(R) /\ Cardinality(R) \in Nat
      BY <2>0, <3>2, FiniteUpTo
    <3>4. PICK c \in Nat : c = Cardinality(R) /\ Cardinality(S) = c + 1
      BY <3>2, <3>3, FS_AddElement
    <3>5. PICK q \in [1..c -> R] : Sorted(R, q)
      BY <1>1, <1>3, <3>2, <3>4
    <3>6. PICK p : p = [i \in 1..(c + 1) |-> IF i = c + 1 THEN k + 1 ELSE q[i]]
      OBVIOUS
    <3>7. p \in [1..Cardinality(S) -> S]
      <4>1. \A i \in 1..(c + 1) : i # c + 1 => i \in 1..c
        BY <3>4
      <4>2. \A i \in 1..(c + 1) : p[i] \in S
        BY <3>2, <3>5, <3>6, <4>1
      <4> QED BY <3>4, <3>6, <4>2
    <3>8. Sorted(S, p)
      <4> SUFFICES ASSUME NEW i \in 1..(c + 1), NEW j \in 1..(c + 1), i < j PROVE p[i] < p[j]
        BY <3>6
      <4>1. i \in 1..c /\ p[i] = q[i] /\ q[i] \in 1..k
        <5>1. i \in 1..c /\ i # c + 1
          BY <3>4
        <5>2. q[i] \in R
          BY <3>5, <5>1
        <5> QED BY <3>2, <3>6, <5>1, <5>2
      <4>2. CASE j = c + 1
        BY <3>6, <4>1, <4>2
      <4>3. CASE j # c + 1
        <5>1. j \in 1..c /\ p[j] = q[j]
          BY <3>4, <3>6, <4>3
        <5> QED BY <3>5, <4>1, <5>1
      <4> QED BY <4>2, <4>3
    <3> QED BY <3>7, <3>8
  <2> QED BY <2>1, <2>2
<1>4. n \in P
  BY <1>2, <1>3, UpTo
<1>5. \E q \in [1..Cardinality(T) -> T] : Sorted(T, q)
  BY <1>1, <1>4
<1>6. InOrder(T) \in [1..Cardinality(T) -> T]
  BY <1>5 DEF InOrder
<1>7. Cardinality(T) \in Nat
  BY FiniteUpTo
<1> QED BY <1>6, <1>7

(* The rows come from below, and the cliché a frame names is one of them. *)
Present(rows, f, k) == k = NoSnapshot \/ \E w \in rows : w[1] = f /\ w[2] = k

LEMMA ChannelsAre ==
  ASSUME NEW st, NEW f, st.frame[f].superstep # NoSnapshot,
         Present(st.rows, f, st.frame[f].superstep),
         \A w \in st.rows : Sourced(st.frame, w)
  PROVE  \E w : Sourced(st.frame, w) /\ w[1] = f /\ w[3] = ChannelsOf(st, f)
<1>1. PICK O : O = Of(st.rows, f, st.frame[f].superstep)
  OBVIOUS
<1>2. O # {}
  BY <1>1 DEF Present, Of
<1>3. PICK w : w = CHOOSE v \in O : TRUE
  OBVIOUS
<1>4. w \in O
  BY <1>2, <1>3
<1>5. w[3] = ChannelsOf(st, f)
  BY <1>1, <1>3 DEF ChannelsOf
<1>6. w \in st.rows /\ w[1] = f
  BY <1>1, <1>4 DEF Of
<1> QED BY <1>5, <1>6

(* What a join reads in the clichés of the children is from below. *)
LEMMA DrainedUpdates ==
  ASSUME NEW st, st.n \in Nat, Len(st.frame) = st.n, NEW f \in 1..st.n,
         NEW relevants \in SUBSET Children(st, f),
         \A c \in relevants : /\ st.frame[c].superstep # NoSnapshot
                              /\ Present(st.rows, c, st.frame[c].superstep),
         \A w \in st.rows : Sourced(st.frame, w)
  PROVE  UpdatesOf(st.frame, f, drain_pending_accumulators(st, f, relevants))
<1> DEFINE Exports(c) == common_spec_of(st, c).exported \cap DOMAIN ChannelsOf(st, c)
                           \cap common_spec_of(st, f).imported
           From(ch) == InOrder({c \in relevants : ch \in Exports(c)})
<1>1. PICK u : u = [ch \in UNION {Exports(c) : c \in relevants} |->
                      [i \in DOMAIN From(ch) |-> ChannelsOf(st, From(ch)[i])[ch]]]
  OBVIOUS
<1>2. u = drain_pending_accumulators(st, f, relevants)
  BY <1>1 DEF drain_pending_accumulators
<1>3. ASSUME NEW ch \in DOMAIN u PROVE Contributed(st.frame, f, ch, u[ch])
  <2>1. PICK T : T = {c \in relevants : ch \in Exports(c)}
    OBVIOUS
  <2>2. PICK q : q = From(ch)
    OBVIOUS
  <2>3. u[ch] = [i \in DOMAIN q |-> ChannelsOf(st, q[i])[ch]]
    BY <1>1, <1>3, <2>2
  <2>4. T \in SUBSET (1..st.n)
    BY <2>1 DEF Children
  <2>5. q \in Seq(T)
    <3>1. q = InOrder(T)
      BY <2>1, <2>2
    <3> QED BY <2>4, <3>1, InOrderIs
  <2>6. ASSUME NEW c \in T PROVE ValueOf(st.frame, f, ch, ChannelsOf(st, c)[ch])
    <3>1. /\ c \in relevants /\ c \in 1..st.n /\ st.frame[c].parent = f
          /\ ch \in common_spec_of(st, c).exported /\ ch \in DOMAIN ChannelsOf(st, c)
          /\ ch \in common_spec_of(st, f).imported
      BY <2>1, <2>6 DEF Children
    <3>2. PICK w : Sourced(st.frame, w) /\ w[1] = c /\ w[3] = ChannelsOf(st, c)
      BY <3>1, ChannelsAre
    <3>3. PICK v : v = ChannelsOf(st, c)[ch]
      OBVIOUS
    <3>4. ValueOf(st.frame, c, ch, v)
      BY <3>1, <3>2, <3>3 DEF Sourced
    <3>5. ASSUME NEW x, Tells(v, x) PROVE Source(st.frame, f, ch, x)
      <4>1. Source(st.frame, c, ch, x)
        BY <3>4, <3>5 DEF ValueOf
      <4>2. c \in 1..Len(st.frame) /\ c # None
        BY <3>1 DEF None
      <4>3. Under(st.frame, c, x)
        BY <4>1, <4>2, SourceUnder
      <4>4. /\ ch \in SpecOf(st.frame[c].kind).exported
            /\ ch \in SpecOf(st.frame[f].kind).imported
        BY <3>1, SpecIs
      <4> QED BY <3>1, <4>1, <4>2, <4>3, <4>4 DEF Source
    <3> QED BY <3>3, <3>4, <3>5 DEF ValueOf
  <2>7. \A i \in DOMAIN q : q[i] \in T
    BY <2>5
  <2>8. PICK V : V = {ChannelsOf(st, c)[ch] : c \in T}
    OBVIOUS
  <2>9. u[ch] \in Seq(V)
    <3>1. \A i \in DOMAIN q : ChannelsOf(st, q[i])[ch] \in V
      BY <2>7, <2>8
    <3>2. DOMAIN q = 1..Len(q) /\ Len(q) \in Nat
      BY <2>5
    <3> QED BY <2>3, <3>1, <3>2
  <2>10. DOMAIN u[ch] = DOMAIN q /\ \A i \in DOMAIN q : u[ch][i] = ChannelsOf(st, q[i])[ch]
    BY <2>3
  <2>11. \A i \in DOMAIN u[ch] : ValueOf(st.frame, f, ch, u[ch][i])
    BY <2>6, <2>7, <2>10
  <2> QED BY <2>9, <2>11 DEF Contributed, Listed
<1> QED BY <1>2, <1>3 DEF UpdatesOf

(* The next cliché of a frame, from its last one and updates from below. *)
LEMMA CommitSourced ==
  ASSUME NEW st, st.n \in Nat, Len(st.frame) = st.n, NEW f \in 1..st.n, NEW updates, NEW k,
         st.frame[f].superstep # NoSnapshot, Present(st.rows, f, st.frame[f].superstep),
         \A w \in st.rows : Sourced(st.frame, w), UpdatesOf(st.frame, f, updates)
  PROVE  Sourced(st.frame, <<f, k, Reduced(common_spec_of(st, f), ChannelsOf(st, f), updates)>>)
<1>1. PICK w : Sourced(st.frame, w) /\ w[1] = f /\ w[3] = ChannelsOf(st, f)
  BY ChannelsAre
<1>2. PICK kind : kind = st.frame[f].kind
  OBVIOUS
<1>3. Sourced(st.frame, <<w[1], k, Reduced(SpecOf(kind), w[3], updates)>>)
  BY <1>1, ReducedSourced
<1> QED BY <1>1, <1>2, <1>3, SpecIs

(* The clichés a session is loaded with hold what their frames wrote. *)
LEMMA OwnSourced ==
  ASSUME NEW frame, NEW f \in 1..Len(frame), NEW k, NEW C
  PROVE  Sourced(frame, <<f, k, [ch \in C |-> Number(f)]>>)
<1>1. PICK w : w = <<f, k, [ch \in C |-> Number(f)]>>
  OBVIOUS
<1>2. w[1] = f /\ DOMAIN w[3] = C /\ \A ch \in C : w[3][ch] = Number(f)
  BY <1>1
<1>3. \A ch : Source(frame, f, ch, f)
  BY DEF Source
<1>4. \A ch : ValueOf(frame, f, ch, Number(f))
  BY <1>3, NumberTells
<1>5. Sourced(frame, w)
  BY <1>2, <1>4 DEF Sourced
<1> QED BY <1>1, <1>5

-----------------------------------------------------------------------------
(* The lineage of a frame: what the property says is what Source says. *)
LEMMA LineageIs ==
  ASSUME NEW frame, NEW n \in Nat, n = Len(frame),
         \A f \in 1..n : frame[f].parent \in 0..(f - 1),
         NEW lineage,
         lineage = [f \in 1..n |-> {f} \cup IF frame[f].parent = None THEN {}
                                            ELSE lineage[frame[f].parent]],
         NEW x \in 1..n
  PROVE  x \in lineage[x] /\ lineage[x] \subseteq 1..n /\ Upward(frame, lineage[x])
<1>1. PICK P : P = {k \in 0..n : \A f \in 1..k : lineage[f] \subseteq 1..n
                                                 /\ Upward(frame, lineage[f])}
  OBVIOUS
<1>2. ASSUME NEW f \in 1..n
      PROVE  lineage[f] = {f} \cup IF frame[f].parent = None THEN {} ELSE lineage[frame[f].parent]
  BY <1>2
<1>3. 0 \in P
  <2>1. 0 \in 0..n /\ 1..0 = {}
    OBVIOUS
  <2> QED BY <1>1, <2>1
<1>4. ASSUME NEW k \in 0..n-1, k \in P PROVE k + 1 \in P
  <2>1. k + 1 \in 1..n /\ k + 1 \in 0..n /\ \A f \in 1..(k + 1) : f \in 1..k \/ f = k + 1
    OBVIOUS
  <2>2. PICK p, l : p = frame[k + 1].parent /\ l = lineage[k + 1]
    OBVIOUS
  <2>3. p \in 0..k
    BY <2>1, <2>2
  <2>4. l = {k + 1} \cup IF p = None THEN {} ELSE lineage[p]
    BY <1>2, <2>1, <2>2
  <2>5. CASE p = None
    <3>1. l = {k + 1}
      BY <2>4, <2>5
    <3>2. l \subseteq 1..n /\ Upward(frame, l)
      BY <2>1, <2>2, <2>5, <3>1 DEF Upward
    <3> QED BY <1>1, <1>4, <2>1, <2>2, <3>2
  <2>6. CASE p # None
    <3>1. p \in 1..k /\ p \in 1..n
      BY <2>3, <2>6 DEF None
    <3>2. lineage[p] \subseteq 1..n /\ Upward(frame, lineage[p])
      BY <1>1, <1>4, <3>1
    <3>3. p \in lineage[p]
      BY <1>2, <3>1
    <3>4. l = {k + 1} \cup lineage[p]
      BY <2>4, <2>6
    <3>5. l \subseteq 1..n
      BY <2>1, <3>2, <3>4
    <3>6. Upward(frame, l)
      BY <2>2, <3>2, <3>3, <3>4 DEF Upward
    <3> QED BY <1>1, <1>4, <2>1, <2>2, <3>5, <3>6
  <2> QED BY <2>5, <2>6
<1>5. \A k \in 0..n : k \in P
  BY ONLY n \in Nat, <1>3, <1>4, UpTo
<1>6. n \in P
  BY <1>5
<1> QED BY <1>1, <1>2, <1>6

LEMMA LineageExists ==
  ASSUME NEW frame, NEW n \in Nat, n = Len(frame),
         \A f \in 1..n : frame[f].parent \in 0..(f - 1)
  PROVE  \E g : g = [f \in 1..n |-> {f} \cup IF frame[f].parent = None THEN {}
                                             ELSE g[frame[f].parent]]
<1>1. PICK g : g = [f \in 1..n |-> {c \in 1..n : Under(frame, c, f)}]
  OBVIOUS
<1>2. PICK h : h = [f \in 1..n |-> {f} \cup IF frame[f].parent = None THEN {}
                                           ELSE g[frame[f].parent]]
  OBVIOUS
<1>3. ASSUME NEW f \in 1..n PROVE g[f] = h[f]
  <2>1. PICK p : p = frame[f].parent
    OBVIOUS
  <2>2. p \in 0..(f - 1) /\ (p # None => p \in 1..n)
    BY <2>1 DEF None
  <2>3. g[f] = {c \in 1..n : Under(frame, c, f)}
    BY <1>1
  <2>4. h[f] = {f} \cup IF p = None THEN {} ELSE g[p]
    BY <1>2, <2>1
  <2>5. Under(frame, f, f)
    BY DEF Under
  <2>6. CASE p = None
    <3>1. Upward(frame, {f}) /\ {f} \in SUBSET (1..Len(frame))
      BY <2>1, <2>6 DEF Upward
    <3>2. \A c : Under(frame, c, f) => c = f
      BY <3>1 DEF Under
    <3> QED BY <2>3, <2>4, <2>5, <2>6, <3>2
  <2>7. CASE p # None
    <3>1. g[p] = {c \in 1..n : Under(frame, c, p)}
      BY <1>1, <2>2, <2>7
    <3>2. ASSUME NEW c, Under(frame, c, p) PROVE Under(frame, c, f)
      BY <2>1, <2>7, <3>2 DEF Under, Upward
    <3>3. ASSUME NEW c, Under(frame, c, f), c # f PROVE Under(frame, c, p)
      <4> SUFFICES ASSUME NEW S \in SUBSET (1..Len(frame)), Upward(frame, S), p \in S
                   PROVE  c \in S
        BY DEF Under
      <4>1. Upward(frame, S \cup {f}) /\ S \cup {f} \in SUBSET (1..Len(frame))
        BY <2>1 DEF Upward
      <4>2. c \in S \cup {f}
        BY <3>3, <4>1 DEF Under
      <4> QED BY <3>3, <4>2
    <3> QED BY <2>3, <2>4, <2>5, <2>7, <3>1, <3>2, <3>3
  <2> QED BY <2>6, <2>7
<1>4. g = h
  BY <1>1, <1>2, <1>3
<1> QED BY <1>2, <1>4

LEMMA SourcedMeans ==
  ASSUME s.n \in Nat, Len(s.frame) = s.n,
         \A f \in 1..s.n : s.frame[f].parent \in 0..(f - 1),
         \A w \in s.rows \cup s.dirty \cup s.writes : Sourced(s.frame, w)
  PROVE  ValuesComeFromBelow
<1> DEFINE lineage[f \in 1..s.n] ==
             {f} \cup IF s.frame[f].parent = None THEN {} ELSE lineage[s.frame[f].parent]
<1>1. \E g : g = [f \in 1..s.n |-> {f} \cup IF s.frame[f].parent = None THEN {}
                                           ELSE g[s.frame[f].parent]]
  BY LineageExists
<1>2. lineage = [f \in 1..s.n |-> {f} \cup IF s.frame[f].parent = None THEN {}
                                          ELSE lineage[s.frame[f].parent]]
  BY <1>1
<1>3. ASSUME NEW w \in s.rows \cup s.dirty \cup s.writes, NEW ch \in DOMAIN w[3],
             NEW writer \in Numbers(<<w[3][ch]>> \o w[3][ch].list)
      PROVE  \/ writer = w[1]
             \/ /\ ch \in common_spec_of(s, w[1]).imported
                /\ \E c \in Children(s, w[1]) : /\ ch \in common_spec_of(s, c).exported
                                                /\ c \in lineage[writer]
  <2> HIDE DEF lineage
  <2>1. PICK v : v = w[3][ch]
    OBVIOUS
  <2>2. ValueOf(s.frame, w[1], ch, v)
    BY <2>1 DEF Sourced
  <2>3. Tells(v, writer)
    <3>1. PICK i \in DOMAIN (<<v>> \o v.list) : /\ (<<v>> \o v.list)[i].type = "number"
                                                /\ (<<v>> \o v.list)[i].num = writer
      BY <2>1 DEF Numbers, ToSet
    <3>2. Listed(v.list)
      BY <2>2 DEF ValueOf
    <3>3. \/ (<<v>> \o v.list)[i] = v
          \/ \E j \in DOMAIN v.list : (<<v>> \o v.list)[i] = v.list[j]
      BY ONLY <3>2, i \in DOMAIN (<<v>> \o v.list), ElementsConcat
    <3> QED BY <3>1, <3>3 DEF Tells
  <2>4. Source(s.frame, w[1], ch, writer)
    BY <2>2, <2>3 DEF ValueOf
  <2>5. writer \in 1..s.n
    BY <2>4 DEF Source
  <2>6. writer \in lineage[writer] /\ lineage[writer] \subseteq 1..s.n
        /\ Upward(s.frame, lineage[writer])
    BY <1>2, <2>5, LineageIs
  <2>7. ASSUME NEW c, Under(s.frame, c, writer) PROVE c \in lineage[writer]
    BY <2>6, <2>7 DEF Under
  <2>8. CASE writer # w[1]
    <3>1. PICK c \in 1..Len(s.frame) : /\ s.frame[c].parent = w[1]
                                       /\ Under(s.frame, c, writer)
                                       /\ ch \in SpecOf(s.frame[c].kind).exported
      BY <2>4, <2>8 DEF Source
    <3>2. ch \in SpecOf(s.frame[w[1]].kind).imported
      BY <2>4, <2>8 DEF Source
    <3>3. c \in Children(s, w[1])
      BY <3>1 DEF Children
    <3> QED BY <2>7, <3>1, <3>2, <3>3, SpecIs
  <2> QED BY <2>8
<1> QED BY <1>3, Zenon DEF ValuesComeFromBelow

-----------------------------------------------------------------------------
(* The record the handlers work on, in the parts that every one keeps.     *)
RecordOf(st) ==
  st = [n |-> st.n, frame |-> st.frame, loaded |-> st.loaded, dirty |-> st.dirty,
        writes |-> st.writes, rows |-> st.rows, queue |-> st.queue, jobs |-> st.jobs,
        spawned |-> st.spawned, lost |-> st.lost, asked |-> st.asked, err |-> st.err,
        full |-> st.full]

(* A frame that ran has the answer of a job that did not fail. *)
Answered(row) == row.status = "RunCompleted" =>
                   row.response \in Answer /\ row.response.result # "JobFailed"

FramesOf(st) ==
  /\ st.n \in Nat /\ st.frame \in Seq(FrameRow) /\ Len(st.frame) = st.n
  /\ \A f \in 1..st.n : st.frame[f].parent < f /\ Answered(st.frame[f])
  /\ st.loaded \subseteq 1..st.n

QueueOf(st) ==
  /\ st.queue \in Seq(Event)
  /\ \A i \in DOMAIN st.queue : st.queue[i].type # "HitlAnswered" => st.queue[i].frame \in 1..st.n
  /\ \A i \in DOMAIN st.queue : st.queue[i].type = "ChildFrameTerminated" =>
                                  st.queue[i].child \in 1..st.n

JobsOf(st) == \A job \in st.jobs : job.frame \in 1..st.n /\ job.logs \in Seq(Entry)

(* A cliché that is not written yet is at most one superstep ahead, and    *)
(* holds what came from below, as the rows do.                             *)
Ahead(st, w) == /\ w[1] \in 1..st.n /\ w[2] \in Nat
                /\ w[2] <= st.frame[w[1]].superstep + 1
                /\ Sourced(st.frame, w)

ClichesOf(st) ==
  /\ \A w \in st.dirty \cup st.writes : Ahead(st, w)
  /\ \A w \in st.rows : Sourced(st.frame, w)
  /\ \A f \in 1..st.n : Present(st.rows, f, st.frame[f].superstep)

Typed(st) == /\ RecordOf(st) /\ FramesOf(st) /\ QueueOf(st) /\ JobsOf(st) /\ ClichesOf(st)
             /\ st.err \in BOOLEAN /\ st.full \in BOOLEAN
             /\ st.n <= MaxFrames /\ st.spawned \in Nat

-----------------------------------------------------------------------------
(* What the handlers never undo: frames, events, jobs and requests are     *)
(* only added, rows are left to the tasks that write them, and no frame    *)
(* gets Pending again.                                                     *)
Kept(a, b) ==
  /\ a.n <= b.n
  /\ \A f \in 1..a.n : /\ b.frame[f].kind = a.frame[f].kind
                       /\ b.frame[f].parent = a.frame[f].parent
                       /\ b.frame[f].superstep = a.frame[f].superstep
                       /\ b.frame[f].status = "Pending" => a.frame[f].status = "Pending"
  /\ \A f \in 1..b.n : f \notin 1..a.n => b.frame[f].superstep = NoSnapshot
  /\ \A i \in DOMAIN a.queue : i \in DOMAIN b.queue /\ b.queue[i] = a.queue[i]
  /\ a.loaded \subseteq b.loaded /\ a.asked \subseteq b.asked
  /\ a.jobs \subseteq b.jobs /\ a.lost \subseteq b.lost
  /\ b.rows = a.rows
  /\ a.full => b.full

Has(st, type, f) == \E i \in DOMAIN st.queue : /\ st.queue[i].type = type
                                               /\ st.queue[i].frame = f

Ended(st, f) == HasTerminated(st.frame[f].status)

(* A frame that ends is loaded and announced. *)
Announced(a, b) ==
  \A f \in 1..b.n : Ended(b, f) =>
    \/ f \in 1..a.n /\ Ended(a, f)
    \/ f \in b.loaded /\ Has(b, "FrameTerminated", f)

(* Only the frames of X get another status, only those of R get Ready. *)
Others(a, b, X) ==
  \A f \in 1..a.n : f \notin X => /\ b.frame[f].status = a.frame[f].status
                                  /\ b.frame[f].response = a.frame[f].response

Readied(a, b, R) ==
  \A f \in 1..b.n : b.frame[f].status = "Ready" =>
    f \in R \/ (f \in 1..a.n /\ a.frame[f].status = "Ready")

Moved(a, b, X, R) ==
  Typed(b) /\ Kept(a, b) /\ Announced(a, b) /\ Others(a, b, X) /\ Readied(a, b, R)

LEMMA KeptTrans ==
  ASSUME NEW a, NEW b, NEW c, a.n \in Nat, b.n \in Nat, c.n \in Nat, Kept(a, b), Kept(b, c)
  PROVE  Kept(a, c)
BY DEF Kept

LEMMA HasKept ==
  ASSUME NEW a, NEW b, Kept(a, b), NEW type, NEW f, Has(a, type, f)
  PROVE  Has(b, type, f)
BY DEF Kept, Has

LEMMA MovedTrans ==
  ASSUME NEW a, NEW b, NEW c, NEW X, NEW Y, NEW R, NEW S,
         Typed(a), Moved(a, b, X, R), Moved(b, c, Y, S)
  PROVE  Moved(a, c, X \cup Y, R \cup S)
<1>1. a.n \in Nat /\ b.n \in Nat /\ c.n \in Nat /\ a.n <= b.n /\ b.n <= c.n
  BY DEF Moved, Typed, FramesOf, Kept
<1>2. Kept(a, c)
  BY <1>1, KeptTrans DEF Moved
<1>3. Announced(a, c)
  <2> SUFFICES ASSUME NEW f \in 1..c.n, Ended(c, f)
               PROVE  \/ f \in 1..a.n /\ Ended(a, f)
                      \/ f \in c.loaded /\ Has(c, "FrameTerminated", f)
    BY DEF Announced
  <2>1. \/ f \in 1..b.n /\ Ended(b, f)
        \/ f \in c.loaded /\ Has(c, "FrameTerminated", f)
    BY DEF Moved, Announced
  <2>2. ASSUME f \in b.loaded, Has(b, "FrameTerminated", f)
        PROVE  f \in c.loaded /\ Has(c, "FrameTerminated", f)
    BY <2>2, HasKept DEF Moved, Kept
  <2> QED
    BY <2>1, <2>2 DEF Moved, Announced
<1>4. Others(a, c, X \cup Y)
  BY <1>1 DEF Moved, Others
<1>5. Readied(a, c, R \cup S)
  BY <1>1 DEF Moved, Readied
<1> QED
  BY <1>2, <1>3, <1>4, <1>5 DEF Moved

LEMMA MovedNot == ASSUME NEW a, Typed(a) PROVE Moved(a, a, {}, {})
BY DEF Moved, Typed, FramesOf, Kept, Announced, Others, Readied

LEMMA MovedMore ==
  ASSUME NEW a, NEW b, NEW X, NEW Y, NEW R, NEW S, Moved(a, b, X, R), X \subseteq Y, R \subseteq S
  PROVE  Moved(a, b, Y, S)
BY DEF Moved, Others, Readied

-----------------------------------------------------------------------------
(* Put, Load, emit, Err *)

PutOf(a, b, f, field, v) ==
  /\ RecordOf(b)
  /\ b.frame = [a.frame EXCEPT ![f] = [a.frame[f] EXCEPT ![field] = v]]
  /\ b.loaded = a.loaded \cup {f}
  /\ b.n = a.n /\ b.dirty = a.dirty /\ b.writes = a.writes /\ b.rows = a.rows
  /\ b.queue = a.queue /\ b.jobs = a.jobs /\ b.spawned = a.spawned /\ b.lost = a.lost
  /\ b.asked = a.asked /\ b.err = a.err /\ b.full = a.full

LEMMA PutIs ==
  ASSUME NEW a, RecordOf(a), NEW f, NEW field, NEW v
  PROVE  PutOf(a, Put(a, f, field, v), f, field, v)
<1> DEFINE b == Put(a, f, field, v)
<1>1. b = [a EXCEPT !.frame = [a.frame EXCEPT ![f] = [a.frame[f] EXCEPT ![field] = v]],
                    !.loaded = a.loaded \cup {f}]
  BY DEF Put
<1>2. PICK rows : rows = [a.frame EXCEPT ![f] = [a.frame[f] EXCEPT ![field] = v]]
  OBVIOUS
<1>3. b = [a EXCEPT !.frame = rows, !.loaded = a.loaded \cup {f}]
  BY <1>1, <1>2
<1> HIDE DEF b
<1>4. RecordOf(b) /\ b.frame = rows /\ b.loaded = a.loaded \cup {f}
  BY ONLY RecordOf(a), <1>3 DEF RecordOf
<1>5. /\ b.n = a.n /\ b.dirty = a.dirty /\ b.writes = a.writes /\ b.rows = a.rows
      /\ b.queue = a.queue /\ b.jobs = a.jobs /\ b.spawned = a.spawned /\ b.lost = a.lost
      /\ b.asked = a.asked /\ b.err = a.err /\ b.full = a.full
  BY ONLY RecordOf(a), <1>3 DEF RecordOf
<1> QED
  BY <1>2, <1>4, <1>5 DEF b, PutOf

(* The row of a frame is written by Put; what the others are. *)
Rewritten(a, b, f, row) ==
  /\ RecordOf(b)
  /\ b.n = a.n /\ b.frame = [a.frame EXCEPT ![f] = row] /\ b.loaded = a.loaded \cup {f}
  /\ b.dirty = a.dirty /\ b.writes = a.writes /\ b.rows = a.rows
  /\ b.jobs = a.jobs /\ b.spawned = a.spawned /\ b.lost = a.lost
  /\ b.asked = a.asked /\ b.err = a.err /\ b.full = a.full

(* A row keeps kind, parent and superstep. *)
Rewrite(old, new) ==
  /\ new \in FrameRow /\ Answered(new)
  /\ new.kind = old.kind /\ new.parent = old.parent /\ new.superstep = old.superstep

LEMMA StatusRewrites ==
  ASSUME NEW a, Typed(a), NEW f \in 1..a.n, NEW v \in Status, v # "RunCompleted"
  PROVE  LET b == Put(a, f, "status", v)
         IN /\ Rewritten(a, b, f, [a.frame[f] EXCEPT !.status = v])
            /\ Rewrite(a.frame[f], [a.frame[f] EXCEPT !.status = v])
            /\ b.queue = a.queue
<1>1. a.frame[f] \in FrameRow
  BY DEF Typed, FramesOf
<1>2. Rewrite(a.frame[f], [a.frame[f] EXCEPT !.status = v])
  BY <1>1 DEF Rewrite, FrameRow, Answered
<1>3. RecordOf(a)
  BY DEF Typed
<1>4. PICK row : row = [a.frame[f] EXCEPT !.status = v]
  OBVIOUS
<1>5. [a.frame[f] EXCEPT !["status"] = v] = row
  BY <1>4
<1>6. PICK b : b = Put(a, f, "status", v)
  OBVIOUS
<1>7. PutOf(a, b, f, "status", v)
  BY <1>3, <1>6, PutIs
<1>8. Rewritten(a, b, f, row) /\ b.queue = a.queue
  BY <1>5, <1>7 DEF PutOf, Rewritten
<1> QED
  BY <1>2, <1>4, <1>6, <1>8

(* The frames of b are those of a, and perhaps more. *)
LEMMA FramesKin ==
  ASSUME NEW a, Typed(a), NEW frame, Len(frame) \in Nat, a.n <= Len(frame),
         \A g \in 1..a.n : frame[g].kind = a.frame[g].kind /\ frame[g].parent = a.frame[g].parent
  PROVE  Kin(a.frame, frame)
<1>1. Len(a.frame) = a.n /\ a.n \in Nat /\ a.frame \in Seq(FrameRow)
  BY DEF Typed, FramesOf
<1>2. \A g \in 1..a.n : a.frame[g].parent \in 0..(g - 1)
  <2> TAKE g \in 1..a.n
  <2>1. a.frame[g] \in FrameRow /\ a.frame[g].parent < g
    BY <1>1 DEF Typed, FramesOf
  <2>2. a.frame[g].parent \in Nat
    BY <2>1 DEF FrameRow
  <2> QED BY <2>1, <2>2
<1> QED BY <1>1, <1>2 DEF Kin

LEMMA RewrittenFrames ==
  ASSUME NEW a, Typed(a), NEW f \in 1..a.n, NEW b, NEW row,
         Rewritten(a, b, f, row), Rewrite(a.frame[f], row)
  PROVE  /\ FramesOf(b) /\ JobsOf(b) /\ ClichesOf(b)
         /\ b.err \in BOOLEAN /\ b.full \in BOOLEAN
         /\ \A g \in 1..a.n : b.frame[g] = IF g = f THEN row ELSE a.frame[g]
         /\ DOMAIN b.frame = 1..a.n
<1>1. /\ a.n \in Nat /\ a.frame \in Seq(FrameRow) /\ Len(a.frame) = a.n /\ row \in FrameRow
      /\ a.loaded \subseteq 1..a.n
  BY DEF Typed, FramesOf, Rewrite
<1>2. /\ b.frame \in Seq(FrameRow) /\ Len(b.frame) = a.n /\ DOMAIN b.frame = 1..a.n
      /\ \A g \in 1..a.n : b.frame[g] = IF g = f THEN row ELSE a.frame[g]
  BY <1>1 DEF Rewritten
<1>3. \A g \in 1..a.n : /\ b.frame[g].parent = a.frame[g].parent
                        /\ b.frame[g].superstep = a.frame[g].superstep
                        /\ b.frame[g].kind = a.frame[g].kind
                        /\ Answered(b.frame[g])
  BY <1>2 DEF Rewrite, Typed, FramesOf
<1>4. FramesOf(b)
  BY <1>1, <1>2, <1>3 DEF FramesOf, Rewritten, Typed
<1>5. JobsOf(b)
  BY DEF Rewritten, Typed, JobsOf
<1>6. ClichesOf(b)
  <2>1. Kin(a.frame, b.frame)
    <3>1. Len(b.frame) \in Nat /\ a.n <= Len(b.frame)
      BY <1>1, <1>2
    <3> QED BY ONLY Typed(a), <1>3, <3>1, FramesKin
  <2> QED BY <1>3, <2>1, SourcedKept DEF Rewritten, Typed, ClichesOf, Ahead
<1> QED
  BY <1>2, <1>4, <1>5, <1>6 DEF Rewritten, Typed

(* A row is rewritten, and the queue grows. *)
LEMMA RewrittenMoves ==
  ASSUME NEW a, Typed(a), NEW f \in 1..a.n, NEW b, NEW row,
         Rewritten(a, b, f, row), Rewrite(a.frame[f], row), QueueOf(b),
         \A i \in DOMAIN a.queue : i \in DOMAIN b.queue /\ b.queue[i] = a.queue[i],
         row.status = "Pending" => a.frame[f].status = "Pending",
         HasTerminated(row.status) => Ended(a, f) \/ Has(b, "FrameTerminated", f),
         NEW X, f \in X \/ (row.status = a.frame[f].status /\ row.response = a.frame[f].response),
         NEW R, f \in R \/ row.status # "Ready" \/ a.frame[f].status = "Ready"
  PROVE  Moved(a, b, X, R)
<1>1. /\ FramesOf(b) /\ JobsOf(b) /\ ClichesOf(b) /\ b.err \in BOOLEAN /\ b.full \in BOOLEAN
      /\ \A g \in 1..a.n : b.frame[g] = IF g = f THEN row ELSE a.frame[g]
  BY RewrittenFrames
<1>2. Typed(b)
  BY <1>1 DEF Typed, Rewritten
<1>3. b.n = a.n /\ a.n \in Nat /\ f \in b.loaded
  BY DEF Rewritten, Typed, FramesOf
<1>4. Kept(a, b)
  BY <1>1, <1>3 DEF Kept, Rewritten, Rewrite
<1>5. Announced(a, b)
  BY <1>1, <1>3 DEF Announced, Ended
<1>6. Others(a, b, X)
  BY <1>1 DEF Others
<1>7. Readied(a, b, R)
  BY <1>1, <1>3 DEF Readied
<1> QED
  BY <1>2, <1>4, <1>5, <1>6, <1>7 DEF Moved

EventOf(st, e) ==
  /\ e \in Event
  /\ e.type # "HitlAnswered" => e.frame \in 1..st.n
  /\ e.type = "ChildFrameTerminated" => e.child \in 1..st.n

LEMMA EventsAre ==
  ASSUME NEW st, NEW f \in 1..st.n, st.n \in Nat
  PROVE  /\ EventOf(st, FrameCreated(f)) /\ EventOf(st, FrameReady(f))
         /\ EventOf(st, FrameRunTerminated(f)) /\ EventOf(st, FrameTerminated(f))
         /\ \A c \in 1..st.n : EventOf(st, ChildTerminated(f, c))
         /\ \A r \in Answer : EventOf(st, JobUpdate(f, r))
BY DEF EventOf, Event, FrameCreated, FrameReady, FrameRunTerminated, FrameTerminated,
       ChildTerminated, JobUpdate

(* The queue is one event longer. *)
Appended(a, b, e) ==
  /\ \A i \in DOMAIN a.queue : i \in DOMAIN b.queue /\ b.queue[i] = a.queue[i]
  /\ \E i \in DOMAIN b.queue : b.queue[i] = e

LEMMA QueueAppends ==
  ASSUME NEW a, QueueOf(a), NEW b, NEW e, b.n = a.n, EventOf(a, e), b.queue = Append(a.queue, e)
  PROVE  QueueOf(b) /\ Appended(a, b, e)
<1>1. /\ a.queue \in Seq(Event) /\ e \in Event
  BY DEF QueueOf, EventOf
<1>2. /\ b.queue \in Seq(Event) /\ DOMAIN b.queue = 1..(Len(a.queue) + 1)
      /\ DOMAIN a.queue = 1..Len(a.queue) /\ Len(a.queue) \in Nat
      /\ \A i \in 1..Len(a.queue) : b.queue[i] = a.queue[i]
      /\ b.queue[Len(a.queue) + 1] = e
  BY <1>1
<1>3. Appended(a, b, e)
  BY <1>2 DEF Appended
<1>4. \A i \in DOMAIN b.queue : b.queue[i] = e \/ (i \in DOMAIN a.queue /\ b.queue[i] = a.queue[i])
  BY <1>2
<1>5. QueueOf(b)
  BY <1>2, <1>4 DEF QueueOf, EventOf
<1> QED
  BY <1>3, <1>5

EmitOf(a, b, e) ==
  /\ RecordOf(b)
  /\ b.queue = Append(a.queue, e)
  /\ b.frame = a.frame /\ b.loaded = a.loaded
  /\ b.n = a.n /\ b.dirty = a.dirty /\ b.writes = a.writes /\ b.rows = a.rows
  /\ b.jobs = a.jobs /\ b.spawned = a.spawned /\ b.lost = a.lost
  /\ b.asked = a.asked /\ b.err = a.err /\ b.full = a.full

LEMMA EmitIs == ASSUME NEW a, RecordOf(a), NEW e PROVE EmitOf(a, emit(a, e), e)
<1>1. PICK q : q = Append(a.queue, e)
  OBVIOUS
<1>2. PICK b : b = emit(a, e)
  OBVIOUS
<1>3. b = [a EXCEPT !.queue = q]
  BY <1>1, <1>2 DEF emit
<1>4. /\ RecordOf(b) /\ b.queue = q
      /\ b.frame = a.frame /\ b.loaded = a.loaded
      /\ b.n = a.n /\ b.dirty = a.dirty /\ b.writes = a.writes /\ b.rows = a.rows
      /\ b.jobs = a.jobs /\ b.spawned = a.spawned /\ b.lost = a.lost
      /\ b.asked = a.asked /\ b.err = a.err /\ b.full = a.full
  BY ONLY RecordOf(a), <1>3 DEF RecordOf
<1> QED
  BY <1>1, <1>2, <1>4 DEF EmitOf

(* The frames stay as they are; only the rest may change. *)
LEMMA FramesStay ==
  ASSUME NEW a, Typed(a), NEW b, RecordOf(b), b.n = a.n, b.frame = a.frame,
         a.loaded \subseteq b.loaded, b.loaded \subseteq 1..a.n,
         QueueOf(b), \A i \in DOMAIN a.queue : i \in DOMAIN b.queue /\ b.queue[i] = a.queue[i],
         JobsOf(b), a.jobs \subseteq b.jobs, b.rows = a.rows, ClichesOf(b),
         a.lost \subseteq b.lost, a.asked \subseteq b.asked,
         b.err \in BOOLEAN, b.full \in BOOLEAN, a.full => b.full, b.spawned \in Nat
  PROVE  Moved(a, b, {}, {})
<1>1. Typed(b)
  BY DEF Typed, FramesOf
<1>2. Kept(a, b)
  BY DEF Kept, Typed, FramesOf
<1>3. Announced(a, b) /\ Others(a, b, {}) /\ Readied(a, b, {})
  BY DEF Announced, Others, Readied, Ended
<1> QED
  BY <1>1, <1>2, <1>3 DEF Moved

LEMMA EmitMoves ==
  ASSUME NEW a, Typed(a), NEW e, EventOf(a, e)
  PROVE  /\ Moved(a, emit(a, e), {}, {}) /\ Appended(a, emit(a, e), e)
         /\ EmitOf(a, emit(a, e), e)
<1>1. PICK b : b = emit(a, e)
  OBVIOUS
<1>2. EmitOf(a, b, e)
  BY <1>1, EmitIs DEF Typed
<1>3. QueueOf(b) /\ Appended(a, b, e)
  BY <1>2, QueueAppends DEF Typed, EmitOf
<1>4. JobsOf(b) /\ ClichesOf(b)
  BY <1>2 DEF EmitOf, Typed, JobsOf, ClichesOf, Ahead
<1>5. Moved(a, b, {}, {})
  BY <1>2, <1>3, <1>4, FramesStay DEF EmitOf, Appended, Typed, FramesOf
<1> QED
  BY <1>1, <1>2, <1>3, <1>5

(* The statuses are the same, and so are the frames there are. *)
Still(a, b) ==
  /\ b.n = a.n
  /\ \A f \in 1..a.n : /\ b.frame[f].status = a.frame[f].status
                       /\ b.frame[f].response = a.frame[f].response

LEMMA LoadMoves ==
  ASSUME NEW a, Typed(a), NEW f \in 1..a.n
  PROVE  LET b == Load(a, f)
         IN /\ Moved(a, b, {}, {}) /\ b.n = a.n /\ b.frame = a.frame /\ b.queue = a.queue
            /\ b.err = a.err /\ b.full = a.full /\ b.loaded = a.loaded \cup {f}
            /\ b.dirty = a.dirty /\ b.writes = a.writes /\ b.jobs = a.jobs /\ b.spawned = a.spawned
<1>1. PICK b : b = Load(a, f)
  OBVIOUS
<1>2. RecordOf(a) /\ b = [a EXCEPT !.loaded = a.loaded \cup {f}]
  BY <1>1 DEF Load, Typed
<1>3. /\ RecordOf(b) /\ b.queue = a.queue
      /\ b.frame = a.frame /\ b.loaded = a.loaded \cup {f}
      /\ b.n = a.n /\ b.dirty = a.dirty /\ b.writes = a.writes /\ b.rows = a.rows
      /\ b.jobs = a.jobs /\ b.spawned = a.spawned /\ b.lost = a.lost
      /\ b.asked = a.asked /\ b.err = a.err /\ b.full = a.full
  BY ONLY <1>2 DEF RecordOf
<1>4. QueueOf(b) /\ JobsOf(b) /\ ClichesOf(b)
  BY <1>3 DEF Typed, QueueOf, JobsOf, ClichesOf, Ahead
<1>5. Moved(a, b, {}, {})
  BY <1>3, <1>4, FramesStay DEF Typed, FramesOf
<1> QED
  BY <1>1, <1>3, <1>5

LEMMA ErrMoves ==
  ASSUME NEW a, Typed(a)
  PROVE  Moved(a, Err(a), {}, {}) /\ Err(a).err = TRUE /\ Err(a).full = a.full
<1>1. PICK b : b = Err(a)
  OBVIOUS
<1>2. RecordOf(a) /\ b = [a EXCEPT !.err = TRUE]
  BY <1>1 DEF Err, Typed
<1>3. /\ RecordOf(b) /\ b.queue = a.queue
      /\ b.frame = a.frame /\ b.loaded = a.loaded
      /\ b.n = a.n /\ b.dirty = a.dirty /\ b.writes = a.writes /\ b.rows = a.rows
      /\ b.jobs = a.jobs /\ b.spawned = a.spawned /\ b.lost = a.lost
      /\ b.asked = a.asked /\ b.err = TRUE /\ b.full = a.full
  BY ONLY <1>2 DEF RecordOf
<1>4. QueueOf(b) /\ JobsOf(b) /\ ClichesOf(b)
  BY <1>3 DEF Typed, QueueOf, JobsOf, ClichesOf, Ahead
<1>5. Moved(a, b, {}, {})
  BY <1>3, <1>4, FramesStay DEF Typed, FramesOf
<1> QED
  BY <1>1, <1>3, <1>5

-----------------------------------------------------------------------------
(* Marks.  v is the status frame f gets. *)

Marked(a, b, f, v, R) ==
  /\ Moved(a, b, {f}, R)
  /\ b.n = a.n /\ b.frame[f].status = v /\ b.loaded = a.loaded \cup {f}
  /\ b.err = a.err /\ b.full = a.full /\ b.jobs = a.jobs /\ b.asked = a.asked

LEMMA HasAppended ==
  ASSUME NEW a, NEW b, NEW e, Appended(a, b, e) PROVE Has(b, e.type, e.frame)
BY DEF Appended, Has

LEMMA WaitingMarks ==
  ASSUME NEW a, Typed(a), NEW f \in 1..a.n
  PROVE  /\ Marked(a, mark_as_waiting_children(a, f), f, "WaitingChildren", {})
         /\ mark_as_waiting_children(a, f).queue = a.queue
<1>1. PICK b : b = mark_as_waiting_children(a, f)
  OBVIOUS
<1>2. PICK row : row = [a.frame[f] EXCEPT !.status = "WaitingChildren"]
  OBVIOUS
<1>3. Rewritten(a, b, f, row) /\ Rewrite(a.frame[f], row) /\ b.queue = a.queue
  BY <1>1, <1>2, StatusRewrites DEF mark_as_waiting_children, Status
<1>4. a.frame[f] \in FrameRow
  BY DEF Typed, FramesOf
<1>5. row.status = "WaitingChildren"
  BY <1>2, <1>4 DEF FrameRow
<1>6. QueueOf(b)
  BY <1>3 DEF Typed, QueueOf, Rewritten
<1>7. Moved(a, b, {f}, {})
  BY <1>3, <1>5, <1>6, RewrittenMoves DEF HasTerminated
<1>8. b.frame[f] = row
  BY <1>3, RewrittenFrames
<1> QED
  BY <1>1, <1>3, <1>5, <1>7, <1>8 DEF Marked, Rewritten

(* A status and an event that announces it. *)
LEMMA StatusAndEvent ==
  ASSUME NEW a, Typed(a), NEW f \in 1..a.n, NEW v \in Status, v # "RunCompleted", v # "Pending",
         NEW e, EventOf(a, e), NEW R, v = "Ready" => f \in R,
         HasTerminated(v) => e.type = "FrameTerminated" /\ e.frame = f
  PROVE  /\ Marked(a, emit(Put(a, f, "status", v), e), f, v, R)
         /\ Appended(a, emit(Put(a, f, "status", v), e), e)
<1>1. PICK p : p = Put(a, f, "status", v)
  OBVIOUS
<1>2. PICK b : b = emit(p, e)
  OBVIOUS
<1>3. PICK row : row = [a.frame[f] EXCEPT !.status = v]
  OBVIOUS
<1>4. Rewritten(a, p, f, row) /\ Rewrite(a.frame[f], row) /\ p.queue = a.queue
  BY <1>1, <1>3, StatusRewrites
<1>5. row.status = v
  <2>1. a.frame[f] \in FrameRow
    BY DEF Typed, FramesOf
  <2> QED
    BY <1>3, <2>1 DEF FrameRow
<1>6. EmitOf(p, b, e)
  BY <1>2, <1>4, EmitIs DEF Rewritten
<1>7. Rewritten(a, b, f, row)
  BY <1>4, <1>6 DEF Rewritten, EmitOf
<1>8. QueueOf(b) /\ Appended(a, b, e)
  <2>1. b.queue = Append(a.queue, e) /\ b.n = a.n
    BY <1>4, <1>6, <1>7 DEF EmitOf, Rewritten
  <2> QED
    BY <2>1, QueueAppends DEF Typed
<1>9. HasTerminated(v) => Has(b, "FrameTerminated", f)
  BY <1>8, HasAppended
<1>10. Moved(a, b, {f}, R)
  BY <1>4, <1>5, <1>7, <1>8, <1>9, RewrittenMoves DEF Appended
<1>11. b.frame[f] = row
  BY <1>4, <1>7, RewrittenFrames
<1> QED
  BY <1>1, <1>2, <1>5, <1>7, <1>8, <1>10, <1>11 DEF Marked, Rewritten

LEMMA ReadyMarks ==
  ASSUME NEW a, Typed(a), NEW f \in 1..a.n
  PROVE  /\ Marked(a, mark_ready_to_run_frame(a, f), f, "Ready", {f})
         /\ Has(mark_ready_to_run_frame(a, f), "FrameReady", f)
<1>1. EventOf(a, FrameReady(f)) /\ FrameReady(f).type = "FrameReady" /\ FrameReady(f).frame = f
  BY EventsAre DEF Typed, FramesOf, FrameReady
<1> QED
  BY <1>1, StatusAndEvent, HasAppended DEF mark_ready_to_run_frame, Status, HasTerminated

LEMMA RunFailedMarks ==
  ASSUME NEW a, Typed(a), NEW f \in 1..a.n
  PROVE  Marked(a, mark_frame_run_failed(a, f), f, "RunFailed", {})
<1>1. EventOf(a, FrameRunTerminated(f))
  BY EventsAre DEF Typed, FramesOf
<1> QED
  BY <1>1, StatusAndEvent DEF mark_frame_run_failed, Status, HasTerminated

LEMMA FailedMarks ==
  ASSUME NEW a, Typed(a), NEW f \in 1..a.n
  PROVE  Marked(a, mark_failed_frame(a, f), f, "Failed", {})
<1>1. /\ EventOf(a, FrameTerminated(f))
      /\ FrameTerminated(f).type = "FrameTerminated" /\ FrameTerminated(f).frame = f
  BY EventsAre DEF Typed, FramesOf, FrameTerminated
<1> QED
  BY <1>1, StatusAndEvent DEF mark_failed_frame, Status, HasTerminated

LEMMA RunCompletedMarks ==
  ASSUME NEW a, Typed(a), NEW f \in 1..a.n, NEW r \in Answer, r.result # "JobFailed"
  PROVE  /\ Marked(a, mark_frame_run_completed(a, f, r), f, "RunCompleted", {})
         /\ Has(mark_frame_run_completed(a, f, r), "FrameRunTerminated", f)
<1>1. PICK p : p = Put(a, f, "status", "RunCompleted")
  OBVIOUS
<1>2. PICK q : q = Put(p, f, "response", r)
  OBVIOUS
<1>3. PICK e : e = FrameRunTerminated(f)
  OBVIOUS
<1>4. PICK b : b = emit(q, e)
  OBVIOUS
<1>5. PICK row : row = [[a.frame[f] EXCEPT !["status"] = "RunCompleted"] EXCEPT !["response"] = r]
  OBVIOUS
<1>6. a.frame[f] \in FrameRow /\ a.frame \in Seq(FrameRow) /\ DOMAIN a.frame = 1..a.n
  BY DEF Typed, FramesOf
<1>7. Rewrite(a.frame[f], row) /\ row.status = "RunCompleted"
  BY <1>5, <1>6 DEF Rewrite, FrameRow, Answered, Status
<1>8. PutOf(a, p, f, "status", "RunCompleted")
  BY <1>1, PutIs DEF Typed
<1>9. PutOf(p, q, f, "response", r)
  <2>1. RecordOf(p)
    BY <1>8 DEF PutOf
  <2> QED
    BY <2>1, <1>2, PutIs
<1>10. EmitOf(q, b, e)
  <2>1. RecordOf(q)
    BY <1>9 DEF PutOf
  <2> QED
    BY <2>1, <1>4, EmitIs
<1>11. b.frame = [a.frame EXCEPT ![f] = row]
  <2>1. p.frame = [a.frame EXCEPT ![f] = [a.frame[f] EXCEPT !["status"] = "RunCompleted"]]
    BY <1>8 DEF PutOf
  <2>2. p.frame[f] = [a.frame[f] EXCEPT !["status"] = "RunCompleted"]
    BY <2>1, <1>6
  <2>3. q.frame = [p.frame EXCEPT ![f] = row]
    BY <1>5, <1>9, <2>2 DEF PutOf
  <2>4. b.frame = q.frame
    BY <1>10 DEF EmitOf
  <2> QED
    BY <2>1, <2>3, <2>4
<1>12. Rewritten(a, b, f, row)
  BY <1>8, <1>9, <1>10, <1>11 DEF PutOf, EmitOf, Rewritten
<1>13. EventOf(a, e) /\ e.type = "FrameRunTerminated" /\ e.frame = f
  BY <1>3, EventsAre DEF Typed, FramesOf, FrameRunTerminated
<1>14. QueueOf(b) /\ Appended(a, b, e)
  <2>1. b.queue = Append(a.queue, e) /\ b.n = a.n
    BY <1>8, <1>9, <1>10 DEF EmitOf, PutOf
  <2> QED
    BY <2>1, <1>13, QueueAppends DEF Typed
<1>15. Moved(a, b, {f}, {})
  BY <1>7, <1>12, <1>14, RewrittenMoves DEF Appended, HasTerminated
<1>16. b.frame[f] = row
  BY <1>7, <1>12, RewrittenFrames
<1>17. b = mark_frame_run_completed(a, f, r)
  BY <1>1, <1>2, <1>3, <1>4 DEF mark_frame_run_completed
<1>18. Has(b, "FrameRunTerminated", f)
  BY <1>13, <1>14, HasAppended
<1> QED
  BY <1>7, <1>12, <1>15, <1>16, <1>17, <1>18 DEF Marked, Rewritten

(* The parent of a frame that ends is told at once. *)
LEMMA CompletedMarks ==
  ASSUME NEW a, Typed(a), NEW f \in 1..a.n
  PROVE  /\ Marked(a, mark_completed_frame(a, f), f, "Completed", {})
         /\ a.frame[f].parent # None =>
              Has(mark_completed_frame(a, f), "ChildFrameTerminated", a.frame[f].parent)
<1>1. PICK e : e = FrameTerminated(f)
  OBVIOUS
<1>2. PICK d : d = emit(Put(a, f, "status", "Completed"), e)
  OBVIOUS
<1>3. EventOf(a, e) /\ e.type = "FrameTerminated" /\ e.frame = f
  BY <1>1, EventsAre DEF Typed, FramesOf, FrameTerminated
<1>4. Marked(a, d, f, "Completed", {})
  BY <1>2, <1>3, StatusAndEvent DEF Status, HasTerminated
<1>5. Typed(d) /\ d.n = a.n /\ d.n \in Nat /\ f \in d.loaded /\ d.frame[f].parent = a.frame[f].parent
  BY <1>4 DEF Marked, Moved, Kept, Typed, FramesOf
<1>6. parent_of(d, f) = a.frame[f].parent
  BY <1>5 DEF parent_of
<1>7. mark_completed_frame(a, f) = IF a.frame[f].parent = None THEN d
                                   ELSE emit(d, ChildTerminated(a.frame[f].parent, f))
  BY <1>1, <1>2, <1>6 DEF mark_completed_frame
<1>8. CASE a.frame[f].parent = None
  BY <1>4, <1>7, <1>8
<1>9. CASE a.frame[f].parent # None
  <2>1. PICK p : p = a.frame[f].parent
    OBVIOUS
  <2>2. a.frame[f] \in FrameRow /\ p < f
    BY <2>1 DEF Typed, FramesOf
  <2>3. p \in 1..a.n
    BY <2>1, <2>2, <1>9, <1>5 DEF FrameRow, None
  <2>4. PICK c : c = ChildTerminated(p, f)
    OBVIOUS
  <2>5. EventOf(d, c) /\ c.type = "ChildFrameTerminated" /\ c.frame = p
    BY <2>3, <2>4, <1>5, EventsAre DEF ChildTerminated
  <2>6. PICK b : b = emit(d, c)
    OBVIOUS
  <2>7. Moved(d, b, {}, {}) /\ Appended(d, b, c) /\ EmitOf(d, b, c)
    BY <2>5, <2>6, <1>5, EmitMoves
  <2>8. Moved(a, b, {f} \cup {}, {} \cup {})
    BY <2>7, <1>4, MovedTrans DEF Marked
  <2>9. {f} \cup {} = {f} /\ {} \cup {} = {}
    OBVIOUS
  <2>10. Moved(a, b, {f}, {})
    BY <2>8, <2>9
  <2>11. Has(b, "ChildFrameTerminated", p)
    BY <2>5, <2>7, HasAppended
  <2>12. Marked(a, b, f, "Completed", {})
    BY <2>7, <2>10, <1>4 DEF Marked, EmitOf
  <2> QED
    BY <2>1, <2>4, <2>6, <2>11, <2>12, <1>7, <1>9
<1> QED
  BY <1>8, <1>9

-----------------------------------------------------------------------------
(* Clichés *)

(* The cache and its dropped containers change, and an error may be found. *)
Cached(a, b) ==
  /\ Moved(a, b, {}, {})
  /\ b.n = a.n /\ b.frame = a.frame /\ b.queue = a.queue /\ b.loaded = a.loaded
  /\ b.full = a.full /\ b.jobs = a.jobs /\ b.spawned = a.spawned /\ b.asked = a.asked

LEMMA CachedNot == ASSUME NEW a, Typed(a) PROVE Cached(a, a)
BY MovedNot DEF Cached

LEMMA CachedTrans ==
  ASSUME NEW a, NEW b, NEW c, Typed(a), Cached(a, b), Cached(b, c) PROVE Cached(a, c)
<1>1. Moved(a, c, {} \cup {}, {} \cup {})
  BY MovedTrans DEF Cached
<1>2. {} \cup {} = {}
  OBVIOUS
<1> QED
  BY <1>1, <1>2 DEF Cached

CacheOf(a, b, dirty, writes, err) ==
  b = [a EXCEPT !.dirty = dirty, !.writes = writes, !.err = err]

LEMMA CacheChanges ==
  ASSUME NEW a, Typed(a), NEW b, NEW dirty, NEW writes, NEW err \in BOOLEAN,
         CacheOf(a, b, dirty, writes, err),
         \A w \in dirty \cup writes : Ahead(a, w)
  PROVE  Cached(a, b) /\ b.err = err /\ b.dirty = dirty /\ b.writes = writes
<1>1. RecordOf(a)
  BY DEF Typed
<1>2. /\ RecordOf(b) /\ b.queue = a.queue
      /\ b.frame = a.frame /\ b.loaded = a.loaded
      /\ b.n = a.n /\ b.dirty = dirty /\ b.writes = writes /\ b.rows = a.rows
      /\ b.jobs = a.jobs /\ b.spawned = a.spawned /\ b.lost = a.lost
      /\ b.asked = a.asked /\ b.err = err /\ b.full = a.full
  BY ONLY <1>1, CacheOf(a, b, dirty, writes, err) DEF RecordOf, CacheOf
<1>3. QueueOf(b) /\ JobsOf(b) /\ ClichesOf(b)
  BY <1>2 DEF Typed, QueueOf, JobsOf, ClichesOf, Ahead
<1>4. Moved(a, b, {}, {})
  BY <1>2, <1>3, FramesStay DEF Typed, FramesOf
<1> QED
  BY <1>2, <1>4 DEF Cached

LEMMA ReplaceCaches ==
  ASSUME NEW a, Typed(a), NEW f, NEW k
  PROVE  Cached(a, Replace(a, f, k)) /\ Replace(a, f, k).err = a.err
<1>1. PICK b : b = Replace(a, f, k)
  OBVIOUS
<1>2. PICK d, w : d = a.dirty \ Of(a.dirty, f, k) /\ w = a.writes \cup Of(a.dirty, f, k)
  OBVIOUS
<1>3. b = [a EXCEPT !.writes = w, !.dirty = d]
  BY <1>1, <1>2 DEF Replace
<1>4. CacheOf(a, b, d, w, a.err) /\ a.err \in BOOLEAN
  BY ONLY <1>3, Typed(a) DEF RecordOf, Typed, CacheOf
<1>5. \A v \in d \cup w : Ahead(a, v)
  BY <1>2 DEF Of, Typed, ClichesOf
<1> QED
  BY <1>1, <1>4, <1>5, CacheChanges

LEMMA ErrCaches == ASSUME NEW a, Typed(a) PROVE Cached(a, Err(a))
<1>1. PICK b : b = Err(a)
  OBVIOUS
<1>2. CacheOf(a, b, a.dirty, a.writes, TRUE)
  BY ONLY <1>1, Typed(a) DEF RecordOf, Typed, Err, CacheOf
<1>3. \A v \in a.dirty \cup a.writes : Ahead(a, v)
  BY DEF Typed, ClichesOf
<1> QED
  BY <1>1, <1>2, <1>3, CacheChanges

LEMMA LatestCaches ==
  ASSUME NEW a, Typed(a), NEW f
  PROVE  /\ Cached(a, latest(a, f))
         /\ a.frame[f].superstep # NoSnapshot => latest(a, f).err = a.err
         /\ a.frame[f].superstep = NoSnapshot => latest(a, f).err
BY ReplaceCaches, ErrCaches, ErrMoves DEF latest

LEMMA PushCaches ==
  ASSUME NEW a, Typed(a), NEW f \in 1..a.n, NEW ch,
         Sourced(a.frame, <<f, a.frame[f].superstep + 1, ch>>)
  PROVE  /\ Cached(a, push(a, f, a.frame[f].superstep + 1, ch))
         /\ push(a, f, a.frame[f].superstep + 1, ch).err = a.err
<1>1. PICK k : k = a.frame[f].superstep + 1
  OBVIOUS
<1>2. PICK b : b = push(a, f, k, ch)
  OBVIOUS
<1>3. PICK r : r = Replace(a, f, k)
  OBVIOUS
<1>4. Cached(a, r) /\ r.err = a.err
  BY <1>3, ReplaceCaches
<1>5. Typed(r) /\ r.n = a.n /\ r.frame = a.frame
  BY <1>4 DEF Cached, Moved
<1>6. PICK w : w = <<f, k, ch>>
  OBVIOUS
<1>7. Ahead(r, w)
  <2>1. a.frame[f] \in FrameRow
    BY DEF Typed, FramesOf
  <2>2. k \in Nat
    BY <1>1, <2>1 DEF FrameRow, NoSnapshot
  <2>3. w[1] = f /\ w[2] = k
    BY <1>6
  <2> QED
    BY <1>1, <1>5, <1>6, <2>2, <2>3 DEF Ahead
<1>8. b = [r EXCEPT !.dirty = @ \cup {w}]
  BY <1>2, <1>3, <1>6 DEF push
<1>9. CacheOf(r, b, r.dirty \cup {w}, r.writes, r.err) /\ r.err \in BOOLEAN
  BY ONLY <1>5, <1>8 DEF Typed, RecordOf, CacheOf
<1>10. \A v \in (r.dirty \cup {w}) \cup r.writes : Ahead(r, v)
  BY <1>5, <1>7 DEF Typed, ClichesOf
<1>11. Cached(r, b) /\ b.err = r.err
  BY <1>5, <1>9, <1>10, CacheChanges
<1> QED
  BY <1>1, <1>2, <1>4, <1>11, CachedTrans

(* A commit writes the next cliché, or fails: there is none before, or the *)
(* one before was overtaken.                                               *)
LEMMA CommitCaches ==
  ASSUME NEW a, Typed(a), NEW f \in 1..a.n, NEW updates, UpdatesOf(a.frame, f, updates),
         NEW stale
  PROVE  Cached(a, commit_snapshot(a, f, updates, stale))
<1>1. PICK l : l = latest(a, f)
  OBVIOUS
<1>2. /\ Cached(a, l) /\ l.err \in BOOLEAN
      /\ a.frame[f].superstep # NoSnapshot => l.err = a.err
  BY <1>1, LatestCaches DEF Cached, Moved, Typed
<1>3. Typed(l) /\ l.n = a.n /\ l.frame = a.frame
  BY <1>2 DEF Cached, Moved
<1>4. PICK ch : ch = Reduced(common_spec_of(a, f), ChannelsOf(a, f), updates)
  OBVIOUS
<1>5. PICK p : p = push(l, f, l.frame[f].superstep + 1, ch)
  OBVIOUS
<1>6. ASSUME ~l.err PROVE Cached(l, p) /\ p.err = l.err
  <2>1. a.frame[f].superstep # NoSnapshot
    BY <1>1, <1>6, LatestCaches
  <2>2. /\ a.n \in Nat /\ Len(a.frame) = a.n /\ \A w \in a.rows : Sourced(a.frame, w)
        /\ Present(a.rows, f, a.frame[f].superstep)
    BY DEF Typed, FramesOf, ClichesOf
  <2>3. Sourced(a.frame, <<f, a.frame[f].superstep + 1, ch>>)
    BY <1>4, <2>1, <2>2, CommitSourced
  <2> QED BY <1>3, <1>5, <2>3, PushCaches
<1>7. ~l.err => Cached(a, p)
  BY <1>2, <1>6, CachedTrans
<1>8. commit_snapshot(a, f, updates, stale) =
        IF l.err THEN l ELSE IF stale THEN Err(l) ELSE p
  BY <1>1, <1>3, <1>4, <1>5 DEF commit_snapshot, Then
<1>9. Cached(a, Err(l))
  BY <1>2, <1>3, ErrCaches, CachedTrans
<1> QED
  BY <1>2, <1>7, <1>8, <1>9

LEMMA LatestOfCaches == ASSUME NEW a, Typed(a), NEW fs PROVE Cached(a, LatestOf(a, fs))
<1>1. PICK missing : missing = {f \in fs : a.frame[f].superstep = NoSnapshot}
  OBVIOUS
<1>2. PICK dropped : dropped = UNION {Of(a.dirty, f, a.frame[f].superstep) :
                                        f \in {f \in fs : \A m \in missing : f < m}}
  OBVIOUS
<1>3. PICK b : b = LatestOf(a, fs)
  OBVIOUS
<1>4. b = [a EXCEPT !.writes = @ \cup dropped, !.dirty = @ \ dropped, !.err = @ \/ missing # {}]
  BY <1>1, <1>2, <1>3 DEF LatestOf
<1>5. CacheOf(a, b, a.dirty \ dropped, a.writes \cup dropped, a.err \/ missing # {})
  BY ONLY <1>4, Typed(a) DEF Typed, RecordOf, CacheOf
<1>6. dropped \subseteq a.dirty
  BY <1>2 DEF Of
<1>7. PICK d, w : d = a.dirty \ dropped /\ w = a.writes \cup dropped
  OBVIOUS
<1>8. PICK e \in BOOLEAN : e = (a.err \/ missing # {})
  BY DEF Typed
<1>9. \A c \in d \cup w : Ahead(a, c)
  BY <1>6, <1>7 DEF Typed, ClichesOf
<1>10. CacheOf(a, b, d, w, e)
  BY ONLY <1>5, <1>7, <1>8
<1>11. Cached(a, b)
  BY ONLY Typed(a), <1>9, <1>10, e \in BOOLEAN, CacheChanges
<1> QED
  BY ONLY <1>3, <1>11

-----------------------------------------------------------------------------
(* Logs and joins: no status changes and nothing is announced. *)

Quiet(a, b) ==
  Moved(a, b, {}, {}) /\ b.n = a.n /\ b.queue = a.queue /\ b.full = a.full /\ b.jobs = a.jobs

LEMMA CachedQuiet == ASSUME NEW a, NEW b, Cached(a, b) PROVE Quiet(a, b)
BY DEF Cached, Quiet

LEMMA QuietNot == ASSUME NEW a, Typed(a) PROVE Quiet(a, a)
BY MovedNot DEF Quiet

LEMMA QuietTrans ==
  ASSUME NEW a, NEW b, NEW c, Typed(a), Quiet(a, b), Quiet(b, c) PROVE Quiet(a, c)
<1>1. Moved(a, c, {} \cup {}, {} \cup {})
  BY MovedTrans DEF Quiet
<1>2. {} \cup {} = {}
  OBVIOUS
<1> QED
  BY <1>1, <1>2 DEF Quiet

LEMMA LogsQuiet ==
  ASSUME NEW a, Typed(a), NEW f \in 1..a.n, NEW logs \in Seq(Entry)
  PROVE  /\ Quiet(a, Put(a, f, "logs", logs)) /\ Put(a, f, "logs", logs).err = a.err
         /\ f \in Put(a, f, "logs", logs).loaded
<1>1. PICK b : b = Put(a, f, "logs", logs)
  OBVIOUS
<1>2. PICK row : row = [a.frame[f] EXCEPT !["logs"] = logs]
  OBVIOUS
<1>3. a.frame[f] \in FrameRow /\ Answered(a.frame[f])
  BY DEF Typed, FramesOf
<1>4. /\ Rewrite(a.frame[f], row)
      /\ row.status = a.frame[f].status /\ row.response = a.frame[f].response
  BY <1>2, <1>3 DEF Rewrite, FrameRow, Answered
<1>5. PutOf(a, b, f, "logs", logs)
  BY <1>1, PutIs DEF Typed
<1>6. Rewritten(a, b, f, row) /\ b.queue = a.queue
  BY <1>2, <1>5 DEF PutOf, Rewritten
<1>7. QueueOf(b)
  BY <1>6 DEF Typed, QueueOf, Rewritten
<1>8. Moved(a, b, {}, {})
  BY <1>4, <1>6, <1>7, RewrittenMoves DEF Ended
<1> QED
  BY <1>1, <1>6, <1>8 DEF Quiet, Rewritten

LEMMA ResolveQuiet ==
  ASSUME NEW a, Typed(a), NEW f \in 1..a.n, NEW relevants
  PROVE  Quiet(a, resolve_pending_log(a, f, relevants))
<1> DEFINE logs == a.frame[f].logs
           pending == Max(Unresolved(logs))
           target == CHOOSE i \in DOMAIN logs : /\ logs[i].index = logs[pending].index
                                                /\ \A j \in 1..(i - 1) : logs[j].index # logs[i].index
           done == [logs EXCEPT ![target].done = TRUE]
           l == LatestOf(a, relevants)
           found == \E c \in relevants : Resolves(a, c, logs[pending].content)
<1>1. resolve_pending_log(a, f, relevants) =
        IF Unresolved(logs) = {} THEN a
        ELSE IF l.err THEN l
        ELSE IF found THEN Put(l, f, "logs", done) ELSE l
  BY DEF resolve_pending_log, Then
<1>2. logs = a.frame[f].logs
  OBVIOUS
<1>3. l = LatestOf(a, relevants)
  OBVIOUS
<1>4. done = [logs EXCEPT ![target].done = TRUE]
  OBVIOUS
<1> HIDE DEF logs, pending, target, done, l, found
<1>5. Cached(a, l)
  BY <1>3, LatestOfCaches
<1>6. Quiet(a, l) /\ Typed(l) /\ l.n = a.n
  BY <1>5, CachedQuiet DEF Cached, Moved
<1>7. logs \in Seq(Entry)
  <2>1. a.frame[f] \in FrameRow
    BY DEF Typed, FramesOf
  <2> QED
    BY <1>2, <2>1 DEF FrameRow
<1>8. done \in Seq(Entry)
  <2>1. CASE target \in DOMAIN logs
    <3>1. PICK e : e = [logs[target] EXCEPT !.done = TRUE]
      OBVIOUS
    <3>2. logs[target] \in Entry
      BY <1>7, <2>1
    <3>3. e \in Entry
      BY <3>1, <3>2 DEF Entry
    <3>4. done = [logs EXCEPT ![target] = e]
      BY <1>4, <3>1
    <3> QED
      BY ONLY <1>7, <2>1, <3>3, <3>4
  <2>2. CASE target \notin DOMAIN logs
    <3>1. done = logs
      BY <1>4, <1>7, <2>2
    <3> QED
      BY <1>7, <3>1
  <2> QED
    BY <2>1, <2>2
<1>9. Quiet(l, Put(l, f, "logs", done))
  BY <1>6, <1>8, LogsQuiet
<1>10. Quiet(a, Put(l, f, "logs", done))
  BY <1>6, <1>9, QuietTrans
<1> QED
  BY <1>1, <1>6, <1>10, QuietNot

(* latest of several frames fails if one of them has no cliché. *)
LEMMA NoneMissing ==
  ASSUME NEW a, Typed(a), NEW fs, ~LatestOf(a, fs).err
  PROVE  \A f \in fs : a.frame[f].superstep # NoSnapshot
<1>1. PICK missing : missing = {f \in fs : a.frame[f].superstep = NoSnapshot}
  OBVIOUS
<1>2. PICK dropped : dropped = UNION {Of(a.dirty, f, a.frame[f].superstep) :
                                        f \in {f \in fs : \A m \in missing : f < m}}
  OBVIOUS
<1>3. PICK b : b = LatestOf(a, fs)
  OBVIOUS
<1>4. b = [a EXCEPT !.writes = @ \cup dropped, !.dirty = @ \ dropped, !.err = @ \/ missing # {}]
  BY <1>1, <1>2, <1>3 DEF LatestOf
<1>5. b.err = (a.err \/ missing # {})
  BY ONLY <1>4, Typed(a) DEF Typed, RecordOf
<1> QED BY <1>1, <1>3, <1>5

LEMMA JoinQuiet ==
  ASSUME NEW a, Typed(a), NEW f \in 1..a.n, NEW relevants \in SUBSET Children(a, f),
         NEW stale
  PROVE  Quiet(a, Join(a, f, relevants, stale))
<1>1. PICK l : l = latest(a, f)
  OBVIOUS
<1>2. PICK d : d = LatestOf(l, relevants)
  OBVIOUS
<1>3. PICK u : u = drain_pending_accumulators(d, f, relevants)
  OBVIOUS
<1>4. PICK j : j = IF d.err THEN d ELSE commit_snapshot(d, f, u, stale)
  OBVIOUS
<1>5. Join(a, f, relevants, stale) = IF j.err THEN j ELSE resolve_pending_log(j, f, relevants)
  BY <1>1, <1>2, <1>3, <1>4 DEF Join, Then
<1>6. Cached(a, l) /\ Typed(l)
  BY <1>1, LatestCaches DEF Cached, Moved
<1>7. Cached(l, d) /\ Typed(d)
  BY <1>2, <1>6, LatestOfCaches DEF Cached, Moved
<1>8. Cached(a, d) /\ d.n = a.n
  BY <1>6, <1>7, CachedTrans DEF Cached
<1>9. Cached(a, j) /\ Typed(j) /\ j.n = a.n
  <2>1. Cached(d, j)
    <3>1. ASSUME ~d.err PROVE UpdatesOf(d.frame, f, u)
      <4>1. d.n \in Nat /\ Len(d.frame) = d.n /\ f \in 1..d.n
        BY <1>7, <1>8 DEF Typed, FramesOf
      <4>2. l.frame = a.frame /\ d.frame = a.frame
        BY <1>6, <1>7 DEF Cached
      <4>3. relevants \in SUBSET Children(d, f)
        BY <1>8, <4>2 DEF Children
      <4>4. \A c \in relevants : d.frame[c].superstep # NoSnapshot
        BY <1>2, <1>6, <3>1, <4>2, NoneMissing
      <4>5. /\ \A c \in relevants : Present(d.rows, c, d.frame[c].superstep)
            /\ \A w \in d.rows : Sourced(d.frame, w)
        BY <1>7, <4>3 DEF Typed, ClichesOf, Children
      <4> QED BY <1>3, <4>1, <4>3, <4>4, <4>5, DrainedUpdates
    <3> QED BY <1>4, <1>7, <1>8, <3>1, CommitCaches, CachedNot
  <2>2. Cached(a, j)
    BY <2>1, <1>8, CachedTrans
  <2> QED
    BY <2>2 DEF Cached, Moved
<1>10. Quiet(j, resolve_pending_log(j, f, relevants))
  BY <1>9, ResolveQuiet
<1> QED
  BY <1>5, <1>9, <1>10, CachedQuiet, QuietTrans

-----------------------------------------------------------------------------
(* Growing the tree *)

ParentIn(a, p) == IF p \in a.loaded THEN p ELSE None

AppendOf(a, b, p, kind) ==
  /\ Moved(a, b, {}, {})
  /\ b.n = a.n + 1 /\ b.frame = Append(a.frame, NewFrame(kind, ParentIn(a, p)))
  /\ b.loaded = a.loaded \cup {b.n} /\ b.queue = a.queue
  /\ b.err = a.err /\ b.full = a.full

LEMMA NewFrameIs ==
  ASSUME NEW kind \in Kind, NEW p \in Nat
  PROVE  /\ NewFrame(kind, p) \in FrameRow /\ NewFrame(kind, p).status = "Pending"
         /\ NewFrame(kind, p).kind = kind /\ NewFrame(kind, p).parent = p
         /\ NewFrame(kind, p).superstep = NoSnapshot
BY DEF NewFrame, FrameRow, Status, None, NoSnapshot

LEMMA AppendMoves ==
  ASSUME NEW a, Typed(a), NEW p, NEW kind \in Kind, a.n # MaxFrames
  PROVE  AppendOf(a, append(a, p, kind), p, kind)
<1>1. PICK row : row = NewFrame(kind, ParentIn(a, p))
  OBVIOUS
<1>2. PICK b : b = append(a, p, kind)
  OBVIOUS
<1>3. PICK rows : rows = Append(a.frame, row)
  OBVIOUS
<1>4. b = [a EXCEPT !.n = @ + 1, !.frame = rows, !.loaded = @ \cup {a.n + 1}]
  BY <1>1, <1>2, <1>3 DEF append, ParentIn
<1>5. /\ RecordOf(b) /\ b.queue = a.queue
      /\ b.frame = rows /\ b.loaded = a.loaded \cup {a.n + 1}
      /\ b.n = a.n + 1 /\ b.dirty = a.dirty /\ b.writes = a.writes /\ b.rows = a.rows
      /\ b.jobs = a.jobs /\ b.spawned = a.spawned /\ b.lost = a.lost
      /\ b.asked = a.asked /\ b.err = a.err /\ b.full = a.full
  BY ONLY <1>4, Typed(a) DEF Typed, RecordOf
<1>6. /\ a.n \in Nat /\ a.frame \in Seq(FrameRow) /\ Len(a.frame) = a.n
      /\ a.loaded \subseteq 1..a.n
      /\ \A f \in 1..a.n : a.frame[f].parent < f /\ Answered(a.frame[f])
  BY DEF Typed, FramesOf
<1>7. ParentIn(a, p) \in Nat /\ ParentIn(a, p) < a.n + 1
  BY <1>6 DEF ParentIn, None
<1>8. /\ row \in FrameRow /\ row.status = "Pending" /\ row.parent < a.n + 1
      /\ row.superstep = NoSnapshot
  BY <1>1, <1>7, NewFrameIs
<1>9. /\ b.frame \in Seq(FrameRow) /\ Len(b.frame) = a.n + 1 /\ b.frame[a.n + 1] = row
      /\ \A f \in 1..a.n : b.frame[f] = a.frame[f]
  BY ONLY <1>3, <1>5, <1>6, <1>8
<1>10. FramesOf(b)
  <2>1. \A f \in 1..b.n : b.frame[f].parent < f /\ Answered(b.frame[f])
    <3>1. Answered(row)
      BY <1>8 DEF Answered
    <3>2. \A f \in 1..b.n : f \in 1..a.n \/ f = a.n + 1
      BY <1>5, <1>6
    <3> QED
      BY <3>1, <3>2, <1>6, <1>8, <1>9
  <2> QED
    BY <2>1, <1>5, <1>6, <1>9 DEF FramesOf
<1>11. QueueOf(b) /\ JobsOf(b)
  BY <1>5, <1>6 DEF Typed, QueueOf, JobsOf
<1>12. ClichesOf(b)
  <2>1. Kin(a.frame, b.frame)
    <3>1. Len(b.frame) \in Nat /\ a.n <= Len(b.frame)
      BY <1>6, <1>9
    <3>2. \A g \in 1..a.n : /\ b.frame[g].kind = a.frame[g].kind
                            /\ b.frame[g].parent = a.frame[g].parent
      BY <1>9
    <3> QED BY ONLY Typed(a), <3>1, <3>2, FramesKin
  <2>2. ASSUME NEW w \in a.dirty \cup a.writes PROVE Ahead(b, w)
    <3>1. /\ w[1] \in 1..a.n /\ w[2] \in Nat /\ w[2] <= a.frame[w[1]].superstep + 1
          /\ Sourced(a.frame, w)
      BY DEF Typed, ClichesOf, Ahead
    <3>2. b.frame[w[1]] = a.frame[w[1]] /\ w[1] \in 1..b.n
      BY <3>1, <1>5, <1>6, <1>9
    <3>3. Sourced(b.frame, w)
      BY <2>1, <3>1, SourcedKept
    <3> QED BY <3>1, <3>2, <3>3 DEF Ahead
  <2>3. \A w \in b.rows : Sourced(b.frame, w)
    BY <1>5, <2>1, SourcedKept DEF Typed, ClichesOf
  <2>4. \A f \in 1..b.n : Present(b.rows, f, b.frame[f].superstep)
    <3>1. \A f \in 1..b.n : f \in 1..a.n \/ f = a.n + 1
      BY <1>5, <1>6
    <3>2. \A f \in 1..a.n : Present(a.rows, f, a.frame[f].superstep)
      BY DEF Typed, ClichesOf
    <3>3. Present(b.rows, a.n + 1, NoSnapshot)
      BY DEF Present
    <3> QED BY <3>1, <3>2, <3>3, <1>5, <1>8, <1>9
  <2> QED BY <1>5, <2>2, <2>3, <2>4 DEF ClichesOf
<1>13. Typed(b)
  BY <1>5, <1>6, <1>10, <1>11, <1>12, CheckpointerAssumption DEF Typed
<1>14. Kept(a, b)
  BY <1>5, <1>6, <1>8, <1>9 DEF Kept
<1>15. Announced(a, b) /\ Others(a, b, {}) /\ Readied(a, b, {})
  <2>1. \A f \in 1..b.n : f \in 1..a.n \/ b.frame[f].status = "Pending"
    BY <1>5, <1>6, <1>8, <1>9
  <2>2. \A f \in 1..a.n : b.frame[f] = a.frame[f]
    BY <1>9
  <2>3. Others(a, b, {})
    BY ONLY <2>2 DEF Others
  <2>4. Announced(a, b)
    BY ONLY <2>1, <2>2 DEF Announced, Ended, HasTerminated
  <2>5. Readied(a, b, {})
    BY ONLY <2>1, <2>2 DEF Readied
  <2> QED
    BY <2>3, <2>4, <2>5
<1> QED
  BY <1>1, <1>2, <1>3, <1>5, <1>13, <1>14, <1>15 DEF Moved, AppendOf

LEMMA AppendFull ==
  ASSUME NEW a, Typed(a), NEW p, NEW kind, a.n = MaxFrames
  PROVE  LET b == append(a, p, kind)
         IN Moved(a, b, {}, {}) /\ b.n = a.n /\ b.err /\ b.full
<1>1. PICK b : b = append(a, p, kind)
  OBVIOUS
<1>2. b = [a EXCEPT !.full = TRUE, !.err = TRUE]
  BY <1>1 DEF append
<1>3. /\ RecordOf(b) /\ b.queue = a.queue
      /\ b.frame = a.frame /\ b.loaded = a.loaded
      /\ b.n = a.n /\ b.dirty = a.dirty /\ b.writes = a.writes /\ b.rows = a.rows
      /\ b.jobs = a.jobs /\ b.spawned = a.spawned /\ b.lost = a.lost
      /\ b.asked = a.asked /\ b.err = TRUE /\ b.full = TRUE
  BY ONLY <1>2, Typed(a) DEF Typed, RecordOf
<1>4. QueueOf(b) /\ JobsOf(b) /\ ClichesOf(b)
  BY <1>3 DEF Typed, QueueOf, JobsOf, ClichesOf, Ahead
<1>5. Moved(a, b, {}, {})
  BY <1>3, <1>4, FramesStay DEF Typed, FramesOf
<1> QED
  BY <1>1, <1>3, <1>5

(* A new child, which is announced unless its cliché cannot be inherited.  *)
NewChild(a, b, p, kind) ==
  /\ b.n = a.n + 1 /\ b.frame[b.n].status = "Pending" /\ b.frame[b.n].kind = kind
  /\ b.frame[b.n].parent = ParentIn(a, p) /\ b.n \in b.loaded
  /\ b.err \/ Has(b, "FrameCreated", b.n)

FrameAppended(a, b, p, kind) ==
  /\ Moved(a, b, {}, {})
  /\ a.err => b.err
  /\ (b.n = a.n /\ b.err) \/ NewChild(a, b, p, kind)

Childless(a, p) == \A c \in 1..a.n : a.frame[c].parent # p

(* What appending a frame does. *)
LEMMA FrameAppends ==
  ASSUME NEW a, Typed(a), NEW p \in 1..a.n, NEW kind \in Kind
  PROVE  LET b == append_frame(a, p, kind)
         IN /\ FrameAppended(a, b, p, kind)
            /\ ~a.err /\ Childless(a, p) /\ ResumePolicy(a.frame[p].kind) = "Sequential" /\ b.err
                 => b.full
<1>1. PICK x : x = append(a, p, kind)
  OBVIOUS
<1>2. PICK b : b = append_frame(a, p, kind)
  OBVIOUS
<1>3. CASE a.n = MaxFrames
  <2>1. Moved(a, x, {}, {}) /\ x.n = a.n /\ x.err /\ x.full
    BY <1>1, <1>3, AppendFull
  <2>2. b = x
    BY <1>1, <1>2, <2>1 DEF append_frame, Then
  <2> QED
    BY <1>2, <2>1, <2>2 DEF FrameAppended
<1>4. CASE a.n # MaxFrames
  <2>1. AppendOf(a, x, p, kind)
    BY <1>1, <1>4, AppendMoves
  <2>2. /\ Typed(x) /\ Moved(a, x, {}, {}) /\ x.n = a.n + 1 /\ a.n \in Nat /\ x.err = a.err
        /\ x.frame = Append(a.frame, NewFrame(kind, ParentIn(a, p)))
        /\ a.frame \in Seq(FrameRow) /\ Len(a.frame) = a.n /\ x.n \in x.loaded
    BY <2>1 DEF AppendOf, Moved, Typed, FramesOf
  <2>3. PICK row : row = NewFrame(kind, ParentIn(a, p))
    OBVIOUS
  <2>4. ParentIn(a, p) \in Nat
    BY <2>2 DEF ParentIn, None
  <2>5. row \in FrameRow /\ row.status = "Pending" /\ row.kind = kind /\ row.parent = ParentIn(a, p)
    BY <2>3, <2>4, NewFrameIs
  <2>6. x.frame[x.n] = row /\ \A f \in 1..a.n : x.frame[f] = a.frame[f]
    BY <2>2, <2>3, <2>5
  <2>7. CASE a.err
    <3>1. b = x
      BY <1>1, <1>2, <2>2, <2>7 DEF append_frame, Then
    <3>2. NewChild(a, x, p, kind)
      BY <2>2, <2>5, <2>6, <2>7 DEF NewChild
    <3> QED
      BY <1>2, <2>2, <2>7, <3>1, <3>2 DEF FrameAppended
  <2>8. CASE ~a.err
    <3>1. PICK y : y = Load(x, p)
      OBVIOUS
    <3>2. /\ Moved(x, y, {}, {}) /\ y.n = x.n /\ y.frame = x.frame /\ y.err = x.err
          /\ x.loaded \subseteq y.loaded /\ Typed(y)
      BY <2>2, <3>1, LoadMoves DEF Moved
    <3>3. PICK from : from = InheritFrom(y, y.n, p)
      OBVIOUS
    <3>4. PICK z : z = IF from = None THEN y ELSE latest(y, from)
      OBVIOUS
    <3>5. Cached(y, z) /\ Typed(z) /\ z.n = y.n /\ z.frame = y.frame /\ z.loaded = y.loaded
      <4>1. Cached(y, z)
        BY <3>2, <3>4, LatestCaches, CachedNot
      <4> QED
        BY <4>1 DEF Cached, Moved
    <3>6. PICK e : e = FrameCreated(y.n)
      OBVIOUS
    <3>7. b = IF z.err THEN z ELSE emit(z, e)
      BY <1>1, <1>2, <2>2, <2>8, <3>1, <3>2, <3>3, <3>4, <3>6 DEF append_frame, Then
    <3>8. EventOf(z, e) /\ e.type = "FrameCreated" /\ e.frame = z.n
      <4>1. z.n \in 1..z.n /\ z.n \in Nat /\ e = FrameCreated(z.n)
        BY <2>2, <3>2, <3>5, <3>6
      <4>2. EventOf(z, FrameCreated(z.n))
        BY <4>1, EventsAre
      <4> QED
        BY <4>1, <4>2 DEF FrameCreated
    <3>9. PICK d : d = emit(z, e)
      OBVIOUS
    <3>10. Moved(z, d, {}, {}) /\ Appended(z, d, e) /\ EmitOf(z, d, e)
      BY <3>5, <3>8, <3>9, EmitMoves
    <3>11. Moved(a, z, {}, {})
      <4>1. Moved(a, y, {} \cup {}, {} \cup {})
        BY <2>2, <3>2, MovedTrans
      <4>2. {} \cup {} = {}
        OBVIOUS
      <4>3. Moved(a, y, {}, {})
        BY <4>1, <4>2
      <4>4. Moved(a, z, {} \cup {}, {} \cup {})
        BY <3>5, <4>3, MovedTrans DEF Cached
      <4> QED
        BY <4>2, <4>4
    <3>12. Moved(a, d, {}, {})
      <4>1. Moved(a, d, {} \cup {}, {} \cup {})
        BY <3>10, <3>11, MovedTrans
      <4>2. {} \cup {} = {}
        OBVIOUS
      <4> QED
        BY <4>1, <4>2
    <3>13. Has(d, "FrameCreated", z.n)
      BY <3>8, <3>10, HasAppended
    <3>14. z.n = a.n + 1 /\ z.frame[z.n] = row /\ z.n \in z.loaded
      BY <2>2, <2>6, <3>2, <3>5
    <3>15. FrameAppended(a, b, p, kind)
      <4>1. CASE z.err
        BY <4>1, <2>5, <2>8, <3>7, <3>11, <3>14 DEF FrameAppended, NewChild
      <4>2. CASE ~z.err
        BY <4>2, <2>5, <2>8, <3>7, <3>9, <3>10, <3>12, <3>13, <3>14
           DEF FrameAppended, NewChild, EmitOf
      <4> QED
        BY <4>1, <4>2
    <3>16. ASSUME Childless(a, p), ResumePolicy(a.frame[p].kind) = "Sequential"
           PROVE  ~b.err
      <4>1. ResumePolicy(y.frame[p].kind) = "Sequential"
        BY <2>6, <3>2, <3>16
      <4>2. from = prev_sibling_of(y, y.n)
        BY <3>3, <4>1 DEF InheritFrom
      <4>3. y.frame[y.n].parent = ParentIn(a, p)
        BY <2>5, <2>6, <3>2
      <4>4. ASSUME ParentIn(a, p) = None PROVE from = None
        BY <4>2, <4>3, <4>4 DEF prev_sibling_of
      <4>5. ASSUME ParentIn(a, p) = p PROVE from = None
        <5>1. {c \in Children(y, y.frame[y.n].parent) : c < y.n} = {}
          BY <2>2, <2>6, <3>2, <3>16, <4>3, <4>5 DEF Children, Childless
        <5> QED
          BY <4>2, <5>1 DEF prev_sibling_of
      <4>6. from = None
        BY <4>4, <4>5 DEF ParentIn
      <4> QED
        BY <2>2, <2>8, <3>2, <3>4, <3>7, <3>9, <3>10, <4>6 DEF EmitOf
    <3> QED
      BY <1>2, <3>15, <3>16
  <2> QED
    BY <2>2, <2>7, <2>8 DEF Typed
<1> QED
  BY <1>3, <1>4

-----------------------------------------------------------------------------
(* What NoStrandedFrame says of one frame. *)
Driven(st, f) ==
  /\ st.frame[f].status = "Pending" => Has(st, "FrameCreated", f)
  /\ st.frame[f].status = "Ready" =>
       \/ Has(st, "FrameReady", f) \/ Has(st, "FrameRunJobStateUpdate", f)
       \/ f \in st.lost \/ \E job \in st.jobs : job.frame = f
  /\ st.frame[f].status = "RunCompleted" =>
       \/ Has(st, "FrameRunTerminated", f)
       \/ st.frame[f].response.result \in {"Continue", "GoTo", "Fork"}
  /\ st.frame[f].status = "WaitingChildren" =>
       \/ Children(st, f) = {} \/ f \in st.asked
       \/ Has(st, "ChildFrameTerminated", f)
       \/ \E c \in Children(st, f) : ~Ended(st, c) \/ Has(st, "FrameTerminated", c)

AllDriven(st, X) == \A f \in 1..st.n : f \notin X => Driven(st, f)

(* A pending frame has no child: it never ran, and nothing was appended.   *)
Barren(st, X) ==
  \A f \in 1..st.n : f \notin X /\ st.frame[f].status = "Pending" => Childless(st, f)

LEMMA DrivenKept ==
  ASSUME NEW a, NEW b, NEW X, NEW R, Typed(a), Moved(a, b, X, R),
         NEW f \in 1..a.n, f \notin X, Driven(a, f)
  PROVE  Driven(b, f)
<1>1. /\ b.frame[f].status = a.frame[f].status /\ b.frame[f].response = a.frame[f].response
      /\ a.n \in Nat /\ b.n \in Nat /\ a.n <= b.n /\ Kept(a, b) /\ Announced(a, b)
  BY DEF Moved, Others, Typed, FramesOf, Kept
<1>2. \A type, g : Has(a, type, g) => Has(b, type, g)
  BY <1>1, HasKept
<1>3. CASE a.frame[f].status # "WaitingChildren"
  BY <1>1, <1>2, <1>3 DEF Driven, Kept
<1>4. CASE a.frame[f].status = "WaitingChildren"
  <2>1. \A c \in Children(b, f) : Ended(b, c) =>
          \/ c \in Children(a, f) /\ Ended(a, c)
          \/ Has(b, "FrameTerminated", c)
    BY <1>1 DEF Children, Announced, Kept
  <2>2. Children(a, f) \subseteq Children(b, f)
    BY <1>1 DEF Children, Kept
  <2>3. CASE Children(a, f) = {}
    <3>1. Children(b, f) = {} \/ \E c \in Children(b, f) : ~Ended(b, c) \/ Has(b, "FrameTerminated", c)
      BY <2>1, <2>3
    <3> QED
      BY <3>1, <1>1, <1>4 DEF Driven
  <2>4. CASE f \in a.asked \/ Has(a, "ChildFrameTerminated", f)
    BY <2>4, <1>1, <1>2, <1>4 DEF Driven, Kept
  <2>5. ASSUME NEW c \in Children(a, f), ~Ended(a, c) \/ Has(a, "FrameTerminated", c)
        PROVE  Driven(b, f)
    <3>1. ~Ended(b, c) \/ Has(b, "FrameTerminated", c)
      BY <2>1, <2>2, <2>5, <1>2
    <3> QED
      BY <3>1, <2>2, <1>1, <1>4 DEF Driven
  <2> QED
    BY <2>3, <2>4, <2>5, <1>4 DEF Driven
<1> QED
  BY <1>3, <1>4

(* The frames of X are the ones a step still has to see to. *)
LEMMA AllDrivenKept ==
  ASSUME NEW a, NEW b, NEW X, NEW R, NEW Y, Typed(a), Moved(a, b, X, R), X \subseteq Y,
         AllDriven(a, Y), \A f \in 1..b.n : f \notin 1..a.n /\ f \notin Y => Driven(b, f)
  PROVE  AllDriven(b, Y)
BY DrivenKept DEF AllDriven

LEMMA BarrenKept ==
  ASSUME NEW a, NEW b, NEW X, NEW R, NEW Y, Moved(a, b, X, R), b.n = a.n, Barren(a, Y)
  PROVE  Barren(b, Y)
BY DEF Barren, Childless, Moved, Kept

-----------------------------------------------------------------------------
(* Operators that append below p: the frames they add are driven, unless   *)
(* they fail.                                                              *)
Grew(a, b, p, X) ==
  /\ Moved(a, b, {}, {})
  /\ a.err => b.err
  /\ AllDriven(a, X) => b.err \/ AllDriven(b, X)
  /\ Barren(a, X) /\ (p \in X \/ a.frame[p].status # "Pending") => Barren(b, X)

FirstChild(a, b, p) ==
  /\ a.n + 1 \in 1..b.n
  /\ b.frame[a.n + 1].parent = ParentIn(a, p)
  /\ ~Ended(b, a.n + 1)

LEMMA GrewTrans ==
  ASSUME NEW a, NEW b, NEW c, NEW p \in 1..a.n, NEW X, Typed(a), Grew(a, b, p, X), Grew(b, c, p, X)
  PROVE  Grew(a, c, p, X)
<1>1. Moved(a, c, {} \cup {}, {} \cup {})
  BY MovedTrans DEF Grew
<1>2. {} \cup {} = {}
  OBVIOUS
<1>3. Moved(a, c, {}, {})
  BY <1>1, <1>2
<1>4. b.frame[p].status = a.frame[p].status
  BY DEF Grew, Moved, Others
<1> QED
  BY <1>3, <1>4 DEF Grew

LEMMA GrewNot == ASSUME NEW a, Typed(a), NEW p, NEW X PROVE Grew(a, a, p, X)
BY MovedNot DEF Grew

LEMMA FirstChildKept ==
  ASSUME NEW a, NEW b, NEW c, NEW p, NEW X, Typed(a), Typed(b),
         FirstChild(a, b, p), Moved(b, c, X, {}), a.n + 1 \notin X
  PROVE  FirstChild(a, c, p)
<1>1. a.n \in Nat /\ b.n \in Nat /\ c.n \in Nat /\ b.n <= c.n
  BY DEF Typed, FramesOf, Moved, Kept
<1> QED
  BY <1>1 DEF FirstChild, Moved, Kept, Others, Ended

LEMMA AppendGrows ==
  ASSUME NEW a, NEW b, NEW p, NEW kind, NEW X \in SUBSET (1..a.n), Typed(a),
         FrameAppended(a, b, p, kind), ParentIn(a, p) \in {None, p}
  PROVE  Grew(a, b, p, X) /\ (b.err \/ FirstChild(a, b, p))
<1>1. a.n \in Nat /\ b.n \in Nat /\ Moved(a, b, {}, {}) /\ Typed(b)
  BY DEF Typed, FramesOf, FrameAppended, Moved
<1>2. CASE b.n = a.n /\ b.err
  <2>1. Barren(a, X) => Barren(b, X)
    BY <1>1, <1>2, BarrenKept
  <2> QED
    BY <1>1, <1>2, <2>1 DEF Grew, FrameAppended
<1>3. CASE NewChild(a, b, p, kind)
  <2>1. b.n = a.n + 1 /\ \A f \in 1..b.n : f \in 1..a.n \/ f = b.n
    BY <1>1, <1>3 DEF NewChild
  <2>2. b.err \/ Driven(b, b.n)
    BY <1>3 DEF NewChild, Driven
  <2>3. AllDriven(a, X) => b.err \/ AllDriven(b, X)
    BY <1>1, <2>1, <2>2, AllDrivenKept
  <2>4. ASSUME Barren(a, X), p \in X \/ a.frame[p].status # "Pending" PROVE Barren(b, X)
    <3> SUFFICES ASSUME NEW f \in 1..b.n, f \notin X, b.frame[f].status = "Pending",
                        NEW c \in 1..b.n, b.frame[c].parent = f
                 PROVE  FALSE
      BY DEF Barren, Childless
    <3>1. b.frame[c].parent < c
      BY <1>1 DEF Typed, FramesOf
    <3>2. f \in 1..a.n
      BY <1>1, <2>1, <3>1
    <3>3. a.frame[f].status = "Pending"
      BY <1>1, <3>2 DEF Moved, Others
    <3>4. CASE c \in 1..a.n
      <4>1. a.frame[c].parent = f
        BY <1>1, <3>4 DEF Moved, Kept
      <4> QED
        BY <2>4, <3>2, <3>3, <3>4, <4>1 DEF Barren, Childless
    <3>5. CASE c = b.n
      <4>1. f = ParentIn(a, p)
        BY <1>3, <3>5 DEF NewChild
      <4>2. f = p
        BY <4>1 DEF None
      <4> QED
        BY <2>4, <3>3, <4>2
    <3> QED
      BY <2>1, <3>4, <3>5
  <2>5. FirstChild(a, b, p)
    BY <1>1, <1>3, <2>1 DEF FirstChild, NewChild, Ended, HasTerminated
  <2> QED
    BY <1>1, <2>3, <2>4, <2>5 DEF Grew, FrameAppended
<1> QED
  BY <1>2, <1>3 DEF FrameAppended

LEMMA FrameGrows ==
  ASSUME NEW a, NEW p \in 1..a.n, NEW kind \in Kind, NEW X \in SUBSET (1..a.n), Typed(a)
  PROVE  LET b == append_frame(a, p, kind) IN Grew(a, b, p, X) /\ (b.err \/ FirstChild(a, b, p))
<1>1. PICK b : b = append_frame(a, p, kind)
  OBVIOUS
<1>2. FrameAppended(a, b, p, kind)
  BY <1>1, FrameAppends
<1>3. ParentIn(a, p) \in {None, p}
  BY DEF ParentIn
<1> QED
  BY <1>1, <1>2, <1>3, AppendGrows

(* A new frame that is marked as waiting, before it has any child. *)
LEMMA WaitingGrows ==
  ASSUME NEW a, NEW p \in 1..a.n, NEW kind \in Kind, NEW X \in SUBSET (1..a.n), Typed(a),
         NEW t, t = append_frame(a, p, kind), ~t.err,
         NEW w, w = mark_as_waiting_children(t, t.n)
  PROVE  /\ Grew(a, w, p, X) /\ FirstChild(a, w, p) /\ Typed(w) /\ w.n = a.n + 1 /\ ~w.err
         /\ w.full = t.full /\ Childless(w, w.n) /\ w.frame[w.n].status = "WaitingChildren"
         /\ w.frame[w.n].kind = kind /\ w.n \in w.loaded
<1>1. FrameAppended(a, t, p, kind) /\ Grew(a, t, p, X) /\ FirstChild(a, t, p)
  BY FrameAppends, FrameGrows
<1>2. Moved(a, t, {}, {}) /\ Typed(t) /\ NewChild(a, t, p, kind) /\ a.n \in Nat /\ t.n \in Nat
  BY <1>1 DEF FrameAppended, Moved, Typed, FramesOf
<1>3. t.n = a.n + 1 /\ t.n \in 1..t.n
  BY <1>2 DEF NewChild
<1>4. Marked(t, w, t.n, "WaitingChildren", {})
  BY <1>2, <1>3, WaitingMarks
<1>5. Moved(t, w, {t.n}, {}) /\ w.n = t.n /\ Typed(w) /\ w.err = t.err /\ w.full = t.full
      /\ w.frame[w.n].status = "WaitingChildren"
  BY <1>4 DEF Marked, Moved
<1>6. Moved(a, w, {}, {})
  <2>1. Moved(a, w, {} \cup {t.n}, {} \cup {})
    BY <1>2, <1>5, MovedTrans
  <2>2. t.n \notin 1..a.n
    BY <1>2, <1>3
  <2>3. Others(a, w, {}) /\ Readied(a, w, {})
    BY <2>1, <2>2 DEF Moved, Others, Readied
  <2> QED
    BY <2>1, <2>3 DEF Moved
<1>7. Childless(w, w.n)
  <2> SUFFICES ASSUME NEW c \in 1..w.n PROVE w.frame[c].parent # w.n
    BY DEF Childless
  <2>1. w.frame[c].parent < c /\ w.frame[c] \in FrameRow
    BY <1>5 DEF Typed, FramesOf
  <2> QED
    BY <2>1, <1>2, <1>5 DEF FrameRow
<1>8. Driven(w, w.n)
  <2>1. Children(w, w.n) = {}
    BY <1>7 DEF Childless, Children
  <2> QED
    BY <2>1, <1>5 DEF Driven
<1>9. AllDriven(a, X) => AllDriven(w, X)
  <2>1. \A f \in 1..w.n : f \in 1..a.n \/ f = w.n
    BY <1>2, <1>3, <1>5
  <2> QED
    BY <2>1, <1>6, <1>8, AllDrivenKept
<1>10. Barren(t, X) => Barren(w, X)
  BY <1>5, BarrenKept
<1>11. Grew(a, w, p, X)
  BY <1>1, <1>5, <1>6, <1>9, <1>10 DEF Grew
<1>12. FirstChild(a, w, p)
  <2>1. w.frame[t.n].parent = t.frame[t.n].parent
    BY <1>3, <1>5 DEF Moved, Kept
  <2>2. ~Ended(w, w.n)
    BY <1>5 DEF Ended, HasTerminated
  <2> QED
    BY <2>1, <2>2, <1>1, <1>2, <1>3, <1>5 DEF FirstChild
<1>13. w.frame[w.n].kind = kind /\ w.n \in w.loaded
  <2>1. w.n = t.n /\ w.n \in w.loaded /\ Kept(t, w)
    BY <1>4, <1>5 DEF Moved, Marked
  <2>2. t.frame[t.n].kind = kind
    BY <1>2, <1>3 DEF NewChild
  <2>3. w.frame[t.n].kind = t.frame[t.n].kind
    BY <2>1, <1>3 DEF Kept
  <2> QED
    BY <2>1, <2>2, <2>3
<1> QED
  BY <1>3, <1>5, <1>7, <1>11, <1>12, <1>13

(* A thread and its first node; below a graph that has no child yet,       *)
(* nothing but the bound on the frames makes it fail.                      *)
LEMMA ThreadGrows ==
  ASSUME NEW a, NEW p \in 1..a.n, NEW X \in SUBSET (1..a.n), Typed(a)
  PROVE  LET b == append_graph_thread(a, p)
         IN /\ Grew(a, b, p, X) /\ (b.err \/ FirstChild(a, b, p))
            /\ ~a.err /\ Childless(a, p) /\ ResumePolicy(a.frame[p].kind) = "Sequential" /\ b.err
                 => b.full
<1>1. PICK t : t = append_frame(a, p, "Thread")
  OBVIOUS
<1>2. PICK b : b = append_graph_thread(a, p)
  OBVIOUS
<1>3. "Thread" \in Kind /\ "Node" \in Kind /\ ResumePolicy("Thread") = "Sequential"
  BY DEF Kind, Structural, ResumePolicy
<1>4. Grew(a, t, p, X)
  BY <1>1, <1>3, FrameGrows
<1>5. ~a.err /\ Childless(a, p) /\ ResumePolicy(a.frame[p].kind) = "Sequential" /\ t.err => t.full
  BY <1>1, <1>3, FrameAppends
<1>6. CASE t.err
  <2>1. b = t
    BY <1>1, <1>2, <1>6 DEF append_graph_thread, Then
  <2> QED
    BY <1>2, <1>4, <1>5, <1>6, <2>1
<1>7. CASE ~t.err
  <2>1. PICK w : w = mark_as_waiting_children(t, t.n)
    OBVIOUS
  <2>2. /\ Grew(a, w, p, X) /\ FirstChild(a, w, p) /\ Typed(w) /\ w.n = a.n + 1 /\ ~w.err
        /\ Childless(w, w.n) /\ w.frame[w.n].status = "WaitingChildren" /\ w.frame[w.n].kind = "Thread"
    BY <1>1, <1>3, <1>7, <2>1, WaitingGrows
  <2>3. t.n = w.n /\ w.n \in 1..w.n /\ X \in SUBSET (1..w.n) /\ a.n \in Nat
    <3>1. t.n \in Nat /\ a.n \in Nat /\ Typed(t)
      BY <1>4 DEF Grew, Moved, Typed, FramesOf
    <3>2. FrameAppended(a, t, p, "Thread")
      BY <1>1, <1>3, FrameAppends
    <3>3. t.n = a.n + 1
      BY <3>2, <1>7 DEF FrameAppended, NewChild
    <3> QED
      BY <2>2, <3>1, <3>3
  <2>4. b = append_frame(w, w.n, "Node")
    BY <1>1, <1>2, <1>7, <2>1, <2>3 DEF append_graph_thread, append_graph_node, Then
  <2>5. Grew(w, b, w.n, X)
    BY <1>3, <2>2, <2>3, <2>4, FrameGrows
  <2>6. b.err => b.full
    <3>1. /\ FrameAppended(w, b, w.n, "Node")
          /\ ~w.err /\ Childless(w, w.n)
             /\ ResumePolicy(w.frame[w.n].kind) = "Sequential" /\ b.err => b.full
      BY <1>3, <2>2, <2>3, <2>4, FrameAppends
    <3> QED
      BY <3>1, <2>2, <1>3
  <2>7. Moved(a, b, {}, {})
    <3>1. Moved(a, b, {} \cup {}, {} \cup {})
      BY <2>2, <2>5, MovedTrans DEF Grew
    <3>2. {} \cup {} = {}
      OBVIOUS
    <3> QED
      BY <3>1, <3>2
  <2>8. Grew(a, b, p, X)
    BY <2>2, <2>5, <2>7 DEF Grew
  <2>9. FirstChild(a, b, p)
    BY <2>2, <2>5, FirstChildKept DEF Grew
  <2> QED
    BY <1>2, <2>6, <2>8, <2>9
<1> QED
  BY <1>6, <1>7

-----------------------------------------------------------------------------
(* try_for_each *)

(* What the loops append below p, one at a time. *)
Grow(x, which, p) ==
  IF which = "Thread" THEN append_graph_thread(x, p) ELSE append_frame(x, p, which)

Loop(a, which, p, m, g) ==
  [i \in 0..m |-> IF i = 0 THEN a ELSE Then(g[i - 1], Grow(g[i - 1], which, p))]

LEMMA GrowGrows ==
  ASSUME NEW a, NEW p \in 1..a.n, NEW X \in SUBSET (1..a.n), Typed(a),
         NEW which \in {"Thread", "Tool", "Expert"}
  PROVE  LET b == Grow(a, which, p) IN Grew(a, b, p, X) /\ (b.err \/ FirstChild(a, b, p))
<1>1. CASE which = "Thread"
  BY <1>1, ThreadGrows DEF Grow
<1>2. CASE which # "Thread"
  <2>1. which \in Kind
    BY <1>2 DEF Kind
  <2> QED
    BY <1>2, <2>1, FrameGrows DEF Grow
<1> QED
  BY <1>1, <1>2

LEMMA LoopExists ==
  ASSUME NEW a, NEW which, NEW p, NEW n \in Nat
  PROVE  \E g : g = Loop(a, which, p, n, g)
<1> DEFINE P == {m \in 0..n : \E g : g = Loop(a, which, p, m, g)}
<1>1. 0 \in P
  <2>1. PICK g : g = [i \in 0..0 |-> a]
    OBVIOUS
  <2>2. \A i \in 0..0 : i = 0
    OBVIOUS
  <2>3. g = Loop(a, which, p, 0, g)
    BY <2>1, <2>2 DEF Loop
  <2> QED
    BY <2>3
<1>2. \A k \in 0..n-1 : k \in P => k + 1 \in P
  <2> SUFFICES ASSUME NEW k \in 0..n-1, k \in P PROVE k + 1 \in P
    OBVIOUS
  <2>1. PICK g : g = Loop(a, which, p, k, g)
    OBVIOUS
  <2> DEFINE next(x) == Then(x, Grow(x, which, p))
  <2>2. PICK h : h = [i \in 0..(k + 1) |-> IF i = k + 1 THEN next(g[k]) ELSE g[i]]
    OBVIOUS
  <2> HIDE DEF next
  <2>3. \A i \in 0..k : g[i] = IF i = 0 THEN a ELSE next(g[i - 1])
    BY <2>1 DEF Loop, next
  <2>4. /\ k + 1 \in 0..(k + 1) /\ h[k + 1] = next(g[k])
        /\ \A i \in 0..k : i \in 0..(k + 1) /\ i # k + 1 /\ h[i] = g[i]
    BY <2>2
  <2>5. \A i \in 0..(k + 1) : h[i] = IF i = 0 THEN a ELSE next(h[i - 1])
    <3> TAKE i \in 0..(k + 1)
    <3>1. CASE i = k + 1
      BY <3>1, <2>4
    <3>2. CASE i \in 0..k /\ i # 0
      <4>1. i - 1 \in 0..k
        BY <3>2
      <4> QED
        BY <3>2, <4>1, <2>3, <2>4
    <3>3. CASE i = 0
      BY <3>3, <2>3, <2>4
    <3> QED
      BY <3>1, <3>2, <3>3
  <2>6. h = [i \in 0..(k + 1) |-> IF i = 0 THEN a ELSE next(h[i - 1])]
    BY <2>2, <2>5
  <2>7. h = Loop(a, which, p, k + 1, h)
    BY <2>6 DEF Loop, next
  <2> QED
    BY <2>7
<1>3. \A k \in 0..n : k \in P
  <2> HIDE DEF P
  <2> QED
    BY <1>1, <1>2, UpTo
<1> QED
  BY <1>3

(* Each turn of a loop grows the tree; the first one adds a child of p.    *)
Turned(a, b, p, X, n) == Grew(a, b, p, X) /\ (n >= 1 => b.err \/ FirstChild(a, b, p))

LEMMA LoopGrows ==
  ASSUME NEW a, NEW p \in 1..a.n, NEW X \in SUBSET (1..a.n), Typed(a),
         NEW which \in {"Thread", "Tool", "Expert"}, NEW n \in Nat,
         NEW g, g = Loop(a, which, p, n, g)
  PROVE  Turned(a, g[n], p, X, n)
<1> DEFINE P == {i \in 0..n : Turned(a, g[i], p, X, i)}
<1>1. \A i \in 0..n : g[i] = IF i = 0 THEN a ELSE Then(g[i - 1], Grow(g[i - 1], which, p))
  BY DEF Loop
<1>2. 0 \in P
  <2>1. g[0] = a /\ 0 \in 0..n
    BY <1>1
  <2>2. Grew(a, a, p, X)
    BY GrewNot
  <2> QED
    BY <2>1, <2>2 DEF Turned
<1>3. \A k \in 0..n-1 : k \in P => k + 1 \in P
  <2> SUFFICES ASSUME NEW k \in 0..n-1, k \in P PROVE k + 1 \in P
    OBVIOUS
  <2>1. k + 1 \in 0..n /\ (k + 1) - 1 = k /\ k + 1 # 0
    OBVIOUS
  <2>2. PICK b : b = g[k]
    OBVIOUS
  <2>3. PICK c : c = Grow(b, which, p)
    OBVIOUS
  <2>4. g[k + 1] = IF b.err THEN b ELSE c
    BY <1>1, <2>1, <2>2, <2>3 DEF Then
  <2>5. Grew(a, b, p, X) /\ (k >= 1 => b.err \/ FirstChild(a, b, p))
    BY <2>2 DEF Turned
  <2>6. Typed(b) /\ a.n \in Nat /\ b.n \in Nat /\ a.n <= b.n
    BY <2>5 DEF Grew, Moved, Kept, Typed, FramesOf
  <2>7. p \in 1..b.n /\ X \in SUBSET (1..b.n)
    BY <2>6
  <2>8. Grew(b, c, p, X) /\ (c.err \/ FirstChild(b, c, p))
    BY <2>3, <2>6, <2>7, GrowGrows
  <2>9. Grew(a, c, p, X)
    BY <2>5, <2>8, GrewTrans
  <2>10. CASE b.err
    BY <2>1, <2>4, <2>5, <2>10 DEF Turned
  <2>11. CASE ~b.err
    <3>1. c.err \/ FirstChild(a, c, p)
      <4>1. CASE k = 0
        <5>1. b = a
          BY <1>1, <2>2, <4>1
        <5> QED
          BY <2>8, <5>1
      <4>2. CASE k # 0
        <5>1. FirstChild(a, b, p)
          BY <2>5, <2>11, <4>2
        <5> QED
          BY <5>1, <2>6, <2>8, FirstChildKept DEF Grew
      <4> QED
        BY <4>1, <4>2
    <3> QED
      BY <2>1, <2>4, <2>9, <2>11, <3>1 DEF Turned
  <2> QED
    BY <2>10, <2>11
<1>4. \A k \in 0..n : k \in P
  <2> HIDE DEF P
  <2> QED
    BY <1>2, <1>3, UpTo
<1> QED
  BY <1>4

(* The two loops, as TryForEach computes them. *)
FramesBelow(a, p, which, n) ==
  LET after[i \in 0..n] == IF i = 0 THEN a
                           ELSE Then(after[i - 1], append_frame(after[i - 1], p, which))
  IN after[n]

ThreadsBelow(a, p, n) ==
  LET after[i \in 0..n] == IF i = 0 THEN a
                           ELSE Then(after[i - 1], append_graph_thread(after[i - 1], p))
  IN after[n]

LEMMA FramesBelowGrow ==
  ASSUME NEW a, NEW p \in 1..a.n, NEW X \in SUBSET (1..a.n), Typed(a),
         NEW which \in {"Tool", "Expert"}, NEW n \in Nat
  PROVE  Turned(a, FramesBelow(a, p, which, n), p, X, n)
<1> DEFINE Turn(g) == [i \in 0..n |-> IF i = 0 THEN a
                                      ELSE Then(g[i - 1], append_frame(g[i - 1], p, which))]
           after == CHOOSE g : g = Turn(g)
<1>1. \A g : Turn(g) = Loop(a, which, p, n, g)
  BY DEF Loop, Grow
<1>2. \E g : g = Turn(g)
  <2> HIDE DEF Turn
  <2> QED
    BY <1>1, LoopExists
<1>3. after = Turn(after)
  <2> HIDE DEF Turn
  <2> QED
    BY <1>2
<1>4. FramesBelow(a, p, which, n) = after[n]
  BY DEF FramesBelow
<1> HIDE DEF Turn, after
<1>5. after = Loop(a, which, p, n, after)
  BY <1>1, <1>3
<1>6. Turned(a, after[n], p, X, n)
  BY <1>5, LoopGrows
<1> QED
  BY <1>4, <1>6

LEMMA ThreadsBelowGrow ==
  ASSUME NEW a, NEW p \in 1..a.n, NEW X \in SUBSET (1..a.n), Typed(a), NEW n \in Nat
  PROVE  Turned(a, ThreadsBelow(a, p, n), p, X, n)
<1> DEFINE Turn(g) == [i \in 0..n |-> IF i = 0 THEN a
                                      ELSE Then(g[i - 1], append_graph_thread(g[i - 1], p))]
           after == CHOOSE g : g = Turn(g)
<1>1. \A g : Turn(g) = Loop(a, "Thread", p, n, g)
  BY DEF Loop, Grow
<1>2. \E g : g = Turn(g)
  <2> HIDE DEF Turn
  <2> QED
    BY <1>1, LoopExists
<1>3. after = Turn(after)
  <2> HIDE DEF Turn
  <2> QED
    BY <1>2
<1>4. ThreadsBelow(a, p, n) = after[n]
  BY DEF ThreadsBelow
<1> HIDE DEF Turn, after
<1>5. after = Loop(a, "Thread", p, n, after)
  BY <1>1, <1>3
<1>6. Turned(a, after[n], p, X, n)
  BY <1>5, LoopGrows
<1> QED
  BY <1>4, <1>6

(* A frame that gets its first children in the same handler: a span and    *)
(* its branches, an aggregator and its tools.                              *)
LEMMA BelowNewGrows ==
  ASSUME NEW a, NEW p \in 1..a.n, NEW kind \in Kind, NEW X \in SUBSET (1..a.n), Typed(a),
         NEW t, t = append_frame(a, p, kind), ~t.err,
         NEW w, w = mark_as_waiting_children(t, t.n),
         NEW b, Grew(w, b, w.n, X)
  PROVE  Grew(a, b, p, X) /\ FirstChild(a, b, p)
<1>1. /\ Grew(a, w, p, X) /\ FirstChild(a, w, p) /\ Typed(w) /\ ~w.err
      /\ w.frame[w.n].status = "WaitingChildren"
  BY WaitingGrows
<1>2. Moved(a, b, {} \cup {}, {} \cup {})
  BY <1>1, MovedTrans DEF Grew
<1>3. {} \cup {} = {}
  OBVIOUS
<1>4. Moved(a, b, {}, {})
  BY <1>2, <1>3
<1>5. Grew(a, b, p, X)
  BY <1>1, <1>4 DEF Grew
<1>6. FirstChild(a, b, p)
  BY <1>1, FirstChildKept DEF Grew
<1> QED
  BY <1>5, <1>6

LEMMA SpanGrows ==
  ASSUME NEW a, NEW p \in 1..a.n, NEW X \in SUBSET (1..a.n), Typed(a), NEW n \in Nat
  PROVE  LET b == append_graph_span(a, p, n) IN Grew(a, b, p, X)
<1>1. PICK t : t = append_frame(a, p, "Span")
  OBVIOUS
<1>2. PICK w : w = mark_as_waiting_children(t, t.n)
  OBVIOUS
<1>3. PICK b : b = append_graph_span(a, p, n)
  OBVIOUS
<1>4. "Span" \in Kind
  BY DEF Kind, Structural
<1>5. b = IF t.err THEN t ELSE ThreadsBelow(w, t.n, n)
  BY <1>1, <1>2, <1>3 DEF append_graph_span, TryForEach, ThreadsBelow, Then
<1>6. Grew(a, t, p, X) /\ FrameAppended(a, t, p, "Span")
  BY <1>1, <1>4, FrameGrows, FrameAppends
<1>7. CASE ~t.err
  <2>1. Typed(w) /\ w.n = a.n + 1
    BY <1>1, <1>2, <1>4, <1>7, WaitingGrows
  <2>2. Typed(w) /\ w.n = a.n + 1 /\ a.n \in Nat
    BY <2>1 DEF Typed, FramesOf
  <2>3. t.n = w.n /\ w.n \in 1..w.n /\ X \in SUBSET (1..w.n)
    BY <2>2, <1>6, <1>7 DEF FrameAppended, NewChild
  <2>4. Grew(w, b, w.n, X)
    BY <2>2, <2>3, <1>5, <1>7, ThreadsBelowGrow DEF Turned
  <2> QED
    BY <2>4, <1>1, <1>2, <1>3, <1>4, <1>7, BelowNewGrows
<1> QED
  BY <1>3, <1>5, <1>6, <1>7

LEMMA ToolCallsGrow ==
  ASSUME NEW a, NEW p \in 1..a.n, NEW X \in SUBSET (1..a.n), Typed(a), NEW n \in Nat
  PROVE  LET b == append_tool_calls(a, p, n) IN Grew(a, b, p, X) /\ (b.err \/ FirstChild(a, b, p))
<1>1. PICK t : t = append_frame(a, p, "ToolAggregator")
  OBVIOUS
<1>2. PICK w : w = mark_as_waiting_children(t, t.n)
  OBVIOUS
<1>3. PICK b : b = append_tool_calls(a, p, n)
  OBVIOUS
<1>4. "ToolAggregator" \in Kind
  BY DEF Kind, Structural
<1>5. b = IF t.err THEN t ELSE FramesBelow(w, t.n, "Tool", n)
  BY <1>1, <1>2, <1>3 DEF append_tool_calls, TryForEach, FramesBelow, Then
<1>6. Grew(a, t, p, X) /\ FrameAppended(a, t, p, "ToolAggregator")
  BY <1>1, <1>4, FrameGrows, FrameAppends
<1>7. CASE ~t.err
  <2>1. Typed(w) /\ w.n = a.n + 1
    BY ONLY <1>1, <1>2, <1>4, <1>7, Typed(a), p \in 1..a.n, X \in SUBSET (1..a.n), WaitingGrows
  <2>2. Typed(w) /\ w.n = a.n + 1 /\ a.n \in Nat
    BY <2>1 DEF Typed, FramesOf
  <2>3. t.n = w.n /\ w.n \in 1..w.n /\ X \in SUBSET (1..w.n)
    BY <2>2, <1>6, <1>7 DEF FrameAppended, NewChild
  <2>4. Grew(w, b, w.n, X)
    BY <2>2, <2>3, <1>5, <1>7, FramesBelowGrow DEF Turned
  <2> QED
    BY <2>4, <1>1, <1>2, <1>3, <1>4, <1>7, BelowNewGrows
<1> QED
  BY <1>3, <1>5, <1>6, <1>7

LEMMA ExpertsGrow ==
  ASSUME NEW a, NEW p \in 1..a.n, NEW X \in SUBSET (1..a.n), Typed(a), NEW n \in Nat
  PROVE  Turned(a, append_experts_consultations(a, p, n), p, X, n)
<1>1. append_experts_consultations(a, p, n) = FramesBelow(a, p, "Expert", n)
  BY DEF append_experts_consultations, TryForEach, FramesBelow
<1> QED
  BY <1>1, FramesBelowGrow

LEMMA GraphGrows ==
  ASSUME NEW a, NEW p \in 1..a.n, NEW X \in SUBSET (1..a.n), Typed(a), NEW unknown
  PROVE  LET b == append_graph(a, p, unknown) IN Grew(a, b, p, X) /\ (b.err \/ FirstChild(a, b, p))
<1>1. PICK t : t = append_frame(a, p, "Graph")
  OBVIOUS
<1>2. PICK w : w = mark_as_waiting_children(t, t.n)
  OBVIOUS
<1>3. PICK b : b = append_graph(a, p, unknown)
  OBVIOUS
<1>4. "Graph" \in Kind
  BY DEF Kind, Structural
<1>5. b = IF unknown THEN Err(a) ELSE IF t.err THEN t ELSE w
  BY <1>1, <1>2, <1>3 DEF append_graph, Then
<1>6. Grew(a, t, p, X)
  BY <1>1, <1>4, FrameGrows
<1>7. CASE unknown
  <2>1. b = Err(a)
    BY <1>5, <1>7
  <2>2. Cached(a, b) /\ b.err /\ Moved(a, b, {}, {})
    BY <2>1, ErrCaches, ErrMoves
  <2>3. b.n = a.n
    BY <2>2 DEF Cached
  <2>4. Barren(a, X) => Barren(b, X)
    BY <2>2, <2>3, BarrenKept
  <2>5. Grew(a, b, p, X)
    BY <2>2, <2>4 DEF Grew
  <2> QED
    BY <2>2, <2>5, <1>3
<1>8. CASE ~unknown /\ ~t.err
  <2>1. Grew(a, w, p, X) /\ FirstChild(a, w, p)
    BY <1>1, <1>2, <1>4, <1>8, WaitingGrows
  <2> QED
    BY <2>1, <1>3, <1>5, <1>8
<1> QED
  BY <1>3, <1>5, <1>6, <1>7, <1>8

-----------------------------------------------------------------------------
(* Handlers.  a is the record without the event that is handled, b the     *)
(* record after it.                                                        *)

(* A FanIn frame that got Ready has no child that is still going. *)
Joined(a, b) ==
  \A f \in 1..b.n :
    /\ ResumePolicy(b.frame[f].kind) = "FanIn"
    /\ b.frame[f].status = "Ready"
    /\ f \in 1..a.n => a.frame[f].status # "Ready"
    => \A c \in Children(b, f) : Ended(b, c)

Handled(a, b, D) ==
  /\ Moved(a, b, 1..a.n, 1..a.n)
  /\ D => b.err \/ AllDriven(b, {})
  /\ Barren(b, {})
  /\ Joined(a, b)

LEMMA MovedAny ==
  ASSUME NEW a, NEW b, NEW X, NEW R, Moved(a, b, X, R), R \subseteq 1..a.n
  PROVE  Moved(a, b, 1..a.n, 1..a.n)
BY DEF Moved, Others, Readied

LEMMA NoneJoined == ASSUME NEW a, NEW b, NEW X, Moved(a, b, X, {}) PROVE Joined(a, b)
BY DEF Moved, Readied, Joined

(* Nobody is readied. *)
LEMMA NoneReadied ==
  ASSUME NEW a, NEW b, NEW X, Moved(a, b, X, {}), NEW D, D => b.err \/ AllDriven(b, {}), Barren(b, {})
  PROVE  Handled(a, b, D)
BY MovedAny, NoneJoined DEF Handled

LEMMA QuietHandled ==
  ASSUME NEW a, NEW b, NEW X, NEW D, Typed(a), Moved(a, b, {}, {}), b.n = a.n,
         Barren(a, {}), D => AllDriven(a, {})
  PROVE  Handled(a, b, D)
<1>1. Barren(b, {})
  BY BarrenKept
<1>2. D => AllDriven(b, {})
  BY AllDrivenKept
<1> QED
  BY <1>1, <1>2, NoneReadied

(* A frame is marked, and only it was waiting for the handler. *)
LEMMA MarkDrives ==
  ASSUME NEW a, NEW b, NEW f \in 1..a.n, NEW v, NEW R, Typed(a), Marked(a, b, f, v, R),
         AllDriven(a, {f}), Driven(b, f)
  PROVE  AllDriven(b, {})
<1>1. AllDriven(b, {f})
  BY AllDrivenKept DEF Marked
<1> QED
  BY <1>1 DEF AllDriven

LEMMA MarkBarren ==
  ASSUME NEW a, NEW b, NEW f, NEW v, NEW R, NEW X, Marked(a, b, f, v, R), Barren(a, X)
  PROVE  Barren(b, X)
BY BarrenKept DEF Marked

LEMMA CreatedHandled ==
  ASSUME NEW a, Typed(a), NEW f \in 1..a.n, ~a.err, Barren(a, {}),
         NEW b, b = on_frame_created(a, f), ~b.full
  PROVE  Handled(a, b, AllDriven(a, {f}) /\ (a.frame[f].status # "Pending" => Driven(a, f)))
<1> DEFINE D == AllDriven(a, {f}) /\ (a.frame[f].status # "Pending" => Driven(a, f))
<1>1. CASE a.frame[f].status # "Pending"
  <2>1. b = Load(a, f)
    BY <1>1 DEF on_frame_created, Node
  <2>2. Moved(a, b, {}, {}) /\ b.n = a.n
    BY <2>1, LoadMoves
  <2>3. D => AllDriven(a, {})
    BY <1>1 DEF AllDriven
  <2> QED
    BY <2>2, <2>3, QuietHandled
<1>2. CASE a.frame[f].status = "Pending" /\ a.frame[f].kind = "Graph"
  <2>1. PICK x : x = Load(a, f)
    OBVIOUS
  <2>2. PICK g : g = append_graph_thread(x, f)
    OBVIOUS
  <2>3. PICK h : h = mark_as_waiting_children(g, f)
    OBVIOUS
  <2>4. b = [h EXCEPT !.err = FALSE]
    BY <1>2, <2>1, <2>2, <2>3 DEF on_frame_created, Node
  <2>5. /\ Moved(a, x, {}, {}) /\ x.n = a.n /\ x.frame = a.frame /\ x.err = a.err /\ f \in x.loaded
        /\ Typed(x)
    BY <2>1, LoadMoves DEF Moved
  <2>6. Childless(x, f) /\ ResumePolicy(x.frame[f].kind) = "Sequential"
    BY <1>2, <2>5 DEF Barren, Childless, ResumePolicy
  <2>7. f \in 1..x.n /\ {f} \in SUBSET (1..x.n)
    BY <2>5
  <2>8. /\ Grew(x, g, f, {f}) /\ (g.err \/ FirstChild(x, g, f))
        /\ g.err => g.full
    BY <2>2, <2>5, <2>6, <2>7, ThreadGrows
  <2>9. Typed(g) /\ g.n \in Nat /\ x.n \in Nat /\ x.n <= g.n /\ Moved(x, g, {}, {})
    BY <2>5, <2>8 DEF Grew, Moved, Kept, Typed, FramesOf
  <2>10. f \in 1..g.n
    BY <2>7, <2>9
  <2>11. Marked(g, h, f, "WaitingChildren", {}) /\ Typed(h)
    BY <2>3, <2>9, <2>10, WaitingMarks DEF Marked, Moved
  <2>12. h.full = b.full /\ h.full = g.full /\ h.err = g.err
    BY <2>4, <2>11 DEF Marked, Typed, RecordOf
  <2>13. ~g.err /\ ~h.err /\ FirstChild(x, g, f)
    BY <2>8, <2>12
  <2>14. b = h
    BY <2>4, <2>11, <2>13 DEF Typed, RecordOf
  <2>15. Moved(a, h, {f}, {})
    <3>1. Moved(a, g, {} \cup {}, {} \cup {})
      BY <2>5, <2>9, MovedTrans
    <3>2. {} \cup {} = {} /\ {} \cup {f} = {f}
      OBVIOUS
    <3>3. Moved(a, g, {}, {})
      BY <3>1, <3>2
    <3>4. Moved(a, h, {} \cup {f}, {} \cup {})
      BY <2>11, <3>3, MovedTrans DEF Marked
    <3> QED
      BY <3>2, <3>4
  <2>16. FirstChild(x, h, f)
    <3>1. x.n + 1 \notin {f}
      BY <2>7, <2>9
    <3> QED
      BY <2>5, <2>9, <2>11, <2>13, <3>1, FirstChildKept DEF Marked
  <2>17. Driven(h, f)
    <3>1. x.n + 1 \in Children(h, f) /\ ~Ended(h, x.n + 1)
      BY <2>5, <2>16 DEF FirstChild, ParentIn, Children
    <3> QED
      BY <3>1, <2>11 DEF Driven, Marked
  <2>18. D => AllDriven(h, {})
    <3> SUFFICES ASSUME D PROVE AllDriven(h, {})
      OBVIOUS
    <3>1. AllDriven(x, {f})
      BY <2>5, AllDrivenKept
    <3>2. AllDriven(g, {f})
      BY <3>1, <2>8, <2>13 DEF Grew
    <3> QED
      BY <3>2, <2>9, <2>10, <2>11, <2>17, MarkDrives
  <2>19. Barren(h, {})
    <3>1. Barren(a, {f})
      BY DEF Barren
    <3>2. Barren(x, {f})
      BY <3>1, <2>5, BarrenKept
    <3>3. Barren(g, {f})
      BY <3>2, <2>8 DEF Grew
    <3>4. Barren(h, {f})
      BY <3>3, <2>11, MarkBarren
    <3> QED
      BY <3>4, <2>11 DEF Barren, Marked
  <2> HIDE DEF D
  <2>20. Handled(a, h, D)
    BY <2>15, <2>18, <2>19, NoneReadied
  <2> QED
    BY <2>14, <2>20 DEF D
<1>3. CASE a.frame[f].status = "Pending" /\ a.frame[f].kind # "Graph"
  <2>1. b = mark_ready_to_run_frame(a, f)
    BY <1>3 DEF on_frame_created, Node
  <2>2. Marked(a, b, f, "Ready", {f}) /\ Has(b, "FrameReady", f)
    BY <2>1, ReadyMarks
  <2>3. Driven(b, f)
    BY <2>2 DEF Driven, Marked
  <2>4. D => AllDriven(b, {})
    BY <2>2, <2>3, MarkDrives
  <2>5. Barren(b, {})
    BY <2>2, MarkBarren
  <2>6. Moved(a, b, 1..a.n, 1..a.n)
    BY <2>2, MovedAny DEF Marked
  <2>7. Children(b, f) = {}
    BY <1>3, <2>2 DEF Marked, Moved, Kept, Barren, Childless, Children
  <2>8. Joined(a, b)
    BY <2>2, <2>7 DEF Marked, Moved, Readied, Joined
  <2> QED
    BY <2>4, <2>5, <2>6, <2>8 DEF Handled
<1> QED
  BY <1>1, <1>2, <1>3

(* Without its event, a frame is driven unless its status waited for it.   *)
Awaited(a, f, v) == AllDriven(a, {f}) /\ (a.frame[f].status # v => Driven(a, f))

LEMMA AwaitedDriven ==
  ASSUME NEW a, NEW f, NEW v, a.frame[f].status # v, Awaited(a, f, v)
  PROVE  AllDriven(a, {})
BY DEF Awaited, AllDriven

SpawnOf(a, b, f) ==
  b = [a EXCEPT !.spawned = @ + 1,
                !.jobs = @ \cup {[id |-> a.spawned + 1, frame |-> f, logs |-> a.frame[f].logs]}]

LEMMA SpawnMoves ==
  ASSUME NEW a, Typed(a), NEW f \in 1..a.n, NEW b, SpawnOf(a, b, f)
  PROVE  /\ Moved(a, b, {}, {}) /\ b.n = a.n /\ b.frame = a.frame
         /\ \E job \in b.jobs : job.frame = f
<1>1. PICK job : job = [id |-> a.spawned + 1, frame |-> f, logs |-> a.frame[f].logs]
  OBVIOUS
<1>2. RecordOf(a) /\ b = [a EXCEPT !.spawned = @ + 1, !.jobs = @ \cup {job}]
  BY <1>1 DEF SpawnOf, Typed
<1>3. /\ RecordOf(b) /\ b.queue = a.queue
      /\ b.frame = a.frame /\ b.loaded = a.loaded
      /\ b.n = a.n /\ b.dirty = a.dirty /\ b.writes = a.writes /\ b.rows = a.rows
      /\ b.jobs = a.jobs \cup {job} /\ b.spawned = a.spawned + 1 /\ b.lost = a.lost
      /\ b.asked = a.asked /\ b.err = a.err /\ b.full = a.full
  BY ONLY <1>2 DEF RecordOf
<1>4. a.frame[f] \in FrameRow
  BY DEF Typed, FramesOf
<1>5. job.frame = f /\ job.logs \in Seq(Entry)
  BY <1>1, <1>4 DEF FrameRow
<1>6. QueueOf(b) /\ ClichesOf(b)
  BY <1>3 DEF Typed, QueueOf, ClichesOf, Ahead
<1>7. JobsOf(b)
  BY <1>3, <1>5 DEF Typed, JobsOf
<1>8. b.spawned \in Nat /\ b.err \in BOOLEAN /\ b.full \in BOOLEAN
  BY <1>3 DEF Typed
<1>9. Moved(a, b, {}, {})
  BY <1>3, <1>6, <1>7, <1>8, FramesStay DEF Typed, FramesOf
<1> QED
  BY <1>3, <1>5, <1>9

LEMMA ReadyHandled ==
  ASSUME NEW a, Typed(a), NEW f \in 1..a.n, ~a.err, Barren(a, {}), NEW fails,
         NEW b, b = on_frame_ready(a, f, fails)
  PROVE  Handled(a, b, Awaited(a, f, "Ready"))
<1>1. PICK l : l = latest(a, f)
  OBVIOUS
<1>2. PICK r : r = Load(l, f)
  OBVIOUS
<1>3. Cached(a, l) /\ Typed(l) /\ l.n = a.n /\ l.frame = a.frame
  BY <1>1, LatestCaches DEF Cached, Moved
<1>4. Moved(l, r, {}, {}) /\ r.n = l.n /\ r.frame = l.frame /\ Typed(r)
  BY <1>2, <1>3, LoadMoves DEF Moved
<1>5. {} \cup {} = {}
  OBVIOUS
<1>6. Moved(a, r, {}, {})
  <2>1. Moved(a, r, {} \cup {}, {} \cup {})
    BY <1>3, <1>4, MovedTrans DEF Cached
  <2> QED
    BY <1>5, <2>1
<1>7. CASE r.err \/ fails
  <2>1. b.err /\ Moved(r, b, {}, {}) /\ b.n = r.n
    <3>1. (b = r /\ r.err) \/ b = Err(r)
      BY <1>1, <1>2, <1>7 DEF on_frame_ready, Then
    <3>2. Moved(r, r, {}, {}) /\ Moved(r, Err(r), {}, {}) /\ Err(r).err /\ Cached(r, Err(r))
      BY <1>4, MovedNot, ErrMoves, ErrCaches
    <3> QED
      BY <3>1, <3>2 DEF Cached
  <2>2. Moved(a, b, {} \cup {}, {} \cup {})
    BY <1>6, <2>1, MovedTrans
  <2>3. Moved(a, b, {}, {}) /\ b.n = a.n
    BY <1>3, <1>4, <1>5, <2>1, <2>2
  <2>4. Barren(b, {})
    BY <2>3, BarrenKept
  <2> QED
    BY <2>1, <2>3, <2>4, NoneReadied
<1>8. CASE ~(r.err \/ fails)
  <2>1. SpawnOf(r, b, f)
    BY <1>1, <1>2, <1>8 DEF on_frame_ready, Then, SpawnOf
  <2>2. /\ Moved(r, b, {}, {}) /\ b.n = r.n /\ b.frame = r.frame
        /\ \E job \in b.jobs : job.frame = f
    BY <1>3, <1>4, <2>1, SpawnMoves
  <2>3. Moved(a, b, {} \cup {}, {} \cup {})
    BY <1>6, <2>2, MovedTrans
  <2>4. Moved(a, b, {}, {}) /\ b.n = a.n /\ b.frame = a.frame
    BY <1>3, <1>4, <1>5, <2>2, <2>3
  <2>5. Barren(b, {})
    BY <2>4, BarrenKept
  <2>6. ASSUME Awaited(a, f, "Ready") PROVE AllDriven(b, {})
    <3>1. AllDriven(b, {f})
      BY <2>4, <2>6, AllDrivenKept DEF Awaited
    <3>2. Driven(b, f)
      <4>1. CASE a.frame[f].status = "Ready"
        BY <2>2, <2>4, <4>1 DEF Driven
      <4>2. CASE a.frame[f].status # "Ready"
        BY <2>4, <2>6, <4>2, DrivenKept DEF Awaited
      <4> QED
        BY <4>1, <4>2
    <3> QED
      BY <3>1, <3>2 DEF AllDriven
  <2> QED
    BY <2>4, <2>5, <2>6, NoneReadied
<1> QED
  BY <1>7, <1>8

LEMMA UpdateHandled ==
  ASSUME NEW a, Typed(a), NEW f \in 1..a.n, Barren(a, {}), NEW r \in Answer,
         NEW b, b = on_frame_run_update(a, f, r)
  PROVE  Handled(a, b, AllDriven(a, {f}))
<1>1. PICK m : m = IF r.result = "JobFailed" THEN mark_frame_run_failed(a, f)
                   ELSE mark_frame_run_completed(a, f, r)
  OBVIOUS
<1>2. PICK e : e = FrameRunTerminated(f)
  OBVIOUS
<1>3. b = emit(m, e)
  BY <1>1, <1>2 DEF on_frame_run_update
<1>4. \/ Marked(a, m, f, "RunFailed", {})
      \/ Marked(a, m, f, "RunCompleted", {}) /\ Has(m, "FrameRunTerminated", f)
  BY <1>1, RunFailedMarks, RunCompletedMarks
<1>5. Moved(a, m, {f}, {}) /\ m.n = a.n /\ Typed(m) /\ m.n \in Nat
  BY <1>4 DEF Marked, Moved, Typed, FramesOf
<1>6. EventOf(m, e)
  BY <1>2, <1>5, EventsAre
<1>7. Moved(m, b, {}, {}) /\ b.n = m.n /\ b.frame = m.frame
  <2>1. Moved(m, b, {}, {}) /\ EmitOf(m, b, e)
    BY <1>3, <1>5, <1>6, EmitMoves
  <2> QED
    BY <2>1 DEF EmitOf
<1>8. Moved(a, b, {f}, {})
  <2>1. Moved(a, b, {f} \cup {}, {} \cup {})
    BY <1>5, <1>7, MovedTrans
  <2>2. {f} \cup {} = {f} /\ {} \cup {} = {}
    OBVIOUS
  <2> QED
    BY <2>1, <2>2
<1>9. Driven(m, f)
  BY <1>4 DEF Driven, Marked
<1>10. ASSUME AllDriven(a, {f}) PROVE AllDriven(b, {})
  <2>1. AllDriven(m, {})
    BY <1>4, <1>9, <1>10, MarkDrives
  <2> QED
    BY <2>1, <1>5, <1>7, AllDrivenKept
<1>11. Barren(b, {})
  BY <1>5, <1>7, <1>8, BarrenKept
<1> QED
  BY <1>8, <1>10, <1>11, NoneReadied

-----------------------------------------------------------------------------
(* The results of a run.  c is the record once the run is committed and    *)
(* logged.                                                                 *)

Dispatched(c, b, f) ==
  /\ \E X \in SUBSET (1..c.n) : Moved(c, b, X, {})
  /\ AllDriven(c, {f}) => b.err \/ AllDriven(b, {})
  /\ Barren(b, {})

Ran(c, f) ==
  /\ Typed(c) /\ f \in 1..c.n /\ f \in c.loaded /\ ~c.err /\ Barren(c, {})
  /\ c.frame[f].status = "RunCompleted"

LEMMA ErrDispatched == ASSUME NEW c, NEW f, Ran(c, f) PROVE Dispatched(c, Err(c), f)
<1>1. PICK b : b = Err(c)
  OBVIOUS
<1>2. Moved(c, b, {}, {}) /\ b.err
  BY <1>1, ErrMoves DEF Ran
<1>3. b.n = c.n
  BY <1>1, ErrCaches DEF Ran, Cached
<1>4. Barren(b, {})
  BY <1>2, <1>3, BarrenKept DEF Ran
<1> QED
  BY <1>1, <1>2, <1>4 DEF Dispatched

(* Nothing is done with the result: the frame stays as it is. *)
LEMMA IdleDispatched ==
  ASSUME NEW c, NEW f, Ran(c, f), c.frame[f].response.result \in {"Continue", "GoTo", "Fork"}
  PROVE  Dispatched(c, c, f)
<1>1. Moved(c, c, {}, {})
  BY MovedNot DEF Ran
<1>2. Driven(c, f)
  BY DEF Ran, Driven
<1> QED
  BY <1>1, <1>2 DEF Dispatched, Ran, AllDriven

(* The frame ends. *)
LEMMA EndDispatched ==
  ASSUME NEW c, NEW f, Ran(c, f), NEW b, NEW v \in {"Completed", "Failed"}, Marked(c, b, f, v, {})
  PROVE  Dispatched(c, b, f)
<1>1. Moved(c, b, {f}, {})
  BY DEF Marked
<1>2. Driven(b, f)
  BY DEF Marked, Driven
<1>3. AllDriven(c, {f}) => AllDriven(b, {})
  BY <1>2, MarkDrives DEF Ran
<1>4. Barren(b, {})
  BY MarkBarren DEF Ran
<1>5. {f} \in SUBSET (1..c.n)
  BY DEF Ran
<1> QED
  BY <1>1, <1>3, <1>4, <1>5 DEF Dispatched

AskOf(c, d, f) == d = [c EXCEPT !.asked = @ \cup {f}]

LEMMA AskMoves ==
  ASSUME NEW c, Typed(c), NEW f, NEW d, AskOf(c, d, f)
  PROVE  Moved(c, d, {}, {}) /\ d.n = c.n /\ d.frame = c.frame /\ d.err = c.err /\ f \in d.asked
<1>1. RecordOf(c) /\ d = [c EXCEPT !.asked = @ \cup {f}]
  BY DEF AskOf, Typed
<1>2. /\ RecordOf(d) /\ d.queue = c.queue
      /\ d.frame = c.frame /\ d.loaded = c.loaded
      /\ d.n = c.n /\ d.dirty = c.dirty /\ d.writes = c.writes /\ d.rows = c.rows
      /\ d.jobs = c.jobs /\ d.spawned = c.spawned /\ d.lost = c.lost
      /\ d.asked = c.asked \cup {f} /\ d.err = c.err /\ d.full = c.full
  BY ONLY <1>1 DEF RecordOf
<1>3. QueueOf(d) /\ ClichesOf(d) /\ JobsOf(d)
  BY <1>2 DEF Typed, QueueOf, ClichesOf, Ahead, JobsOf
<1>4. Moved(c, d, {}, {})
  BY <1>2, <1>3, FramesStay DEF Typed, FramesOf
<1> QED
  BY <1>2, <1>4

(* The frame waits for a person. *)
LEMMA HitlDispatched ==
  ASSUME NEW c, NEW f, Ran(c, f), NEW d, AskOf(c, d, f), NEW b, b = Waiting(d, f)
  PROVE  Dispatched(c, b, f)
<1>1. Moved(c, d, {}, {}) /\ d.n = c.n /\ d.err = c.err /\ f \in d.asked /\ Typed(d) /\ ~d.err
  BY AskMoves DEF Ran, Moved
<1>2. b = mark_as_waiting_children(d, f) /\ f \in 1..d.n /\ f \in 1..c.n
  BY <1>1 DEF Waiting, Then, Ran
<1>3. Marked(d, b, f, "WaitingChildren", {})
  BY <1>1, <1>2, WaitingMarks
<1>4. Moved(c, b, {f}, {})
  <2>1. Moved(c, b, {} \cup {f}, {} \cup {})
    BY <1>1, <1>3, MovedTrans DEF Marked, Ran
  <2>2. {} \cup {f} = {f} /\ {} \cup {} = {}
    OBVIOUS
  <2> QED
    BY <2>1, <2>2
<1>5. Driven(b, f)
  BY <1>1, <1>3 DEF Marked, Driven
<1>6. ASSUME AllDriven(c, {f}) PROVE AllDriven(b, {})
  <2>1. AllDriven(d, {f})
    BY <1>1, <1>6, AllDrivenKept DEF Ran
  <2> QED
    BY <2>1, <1>1, <1>2, <1>3, <1>5, MarkDrives
<1>7. Barren(b, {})
  <2>1. b.n = c.n
    BY <1>1, <1>3 DEF Marked
  <2> QED
    BY <2>1, <1>4, BarrenKept DEF Ran
<1>8. {f} \in SUBSET (1..c.n)
  BY <1>2
<1> QED
  BY <1>4, <1>6, <1>7, <1>8 DEF Dispatched

(* The frame waits for the children it was given. *)
LEMMA WaitingDispatched ==
  ASSUME NEW c, NEW f, Ran(c, f), NEW g, Grew(c, g, f, {f}), g.err \/ FirstChild(c, g, f),
         NEW b, b = Waiting(g, f)
  PROVE  Dispatched(c, b, f)
<1>1. /\ Moved(c, g, {}, {}) /\ Typed(g) /\ c.n \in Nat /\ g.n \in Nat /\ c.n <= g.n
      /\ f \in 1..c.n /\ Typed(c) /\ f \in c.loaded
  BY DEF Grew, Moved, Kept, Typed, FramesOf, Ran
<1>2. f \in 1..g.n /\ {f} \in SUBSET (1..c.n) /\ {} \in SUBSET (1..c.n)
  BY <1>1
<1>3. Barren(g, {})
  <2>1. Barren(c, {f})
    BY DEF Ran, Barren
  <2>2. Barren(g, {f})
    BY <2>1 DEF Grew
  <2>3. g.frame[f].status = "RunCompleted"
    BY <1>1 DEF Moved, Others, Ran
  <2> QED
    BY <2>2, <2>3 DEF Barren
<1>4. CASE g.err
  <2>1. b = g
    BY <1>4 DEF Waiting, Then
  <2> QED
    BY <2>1, <1>1, <1>2, <1>3, <1>4 DEF Dispatched
<1>5. CASE ~g.err
  <2>1. b = mark_as_waiting_children(g, f) /\ FirstChild(c, g, f)
    BY <1>5 DEF Waiting, Then
  <2>2. Marked(g, b, f, "WaitingChildren", {})
    BY <1>1, <1>2, <2>1, WaitingMarks
  <2>3. Moved(c, b, {f}, {})
    <3>1. Moved(c, b, {} \cup {f}, {} \cup {})
      BY <1>1, <2>2, MovedTrans DEF Marked
    <3>2. {} \cup {f} = {f} /\ {} \cup {} = {}
      OBVIOUS
    <3> QED
      BY <3>1, <3>2
  <2>4. FirstChild(c, b, f)
    <3>1. c.n + 1 \notin {f}
      BY <1>1
    <3> QED
      BY <1>1, <2>1, <2>2, <3>1, FirstChildKept DEF Marked
  <2>5. Driven(b, f)
    <3>1. c.n + 1 \in Children(b, f) /\ ~Ended(b, c.n + 1)
      BY <1>1, <2>4 DEF FirstChild, ParentIn, Children
    <3> QED
      BY <3>1, <2>2 DEF Driven, Marked
  <2>6. ASSUME AllDriven(c, {f}) PROVE AllDriven(b, {})
    <3>1. AllDriven(g, {f})
      BY <1>5, <2>6 DEF Grew
    <3> QED
      BY <3>1, <1>1, <1>2, <2>2, <2>5, MarkDrives
  <2>7. Barren(b, {})
    BY <1>3, <2>2, MarkBarren
  <2> QED
    BY <1>2, <2>3, <2>6, <2>7 DEF Dispatched
<1> QED
  BY <1>4, <1>5

(* The parent of a frame that ran is not pending, because it has a child.  *)
LEMMA ParentRan ==
  ASSUME NEW c, NEW f, Ran(c, f), NEW p, p = parent_of(c, f), p # None
  PROVE  /\ p \in 1..c.n /\ p # f /\ c.frame[p].status # "Pending" /\ c.frame[f].parent = p
<1>1. p = c.frame[f].parent /\ Typed(c) /\ f \in 1..c.n /\ c.n \in Nat
  BY DEF parent_of, Ran, Typed, FramesOf
<1>2. c.frame[f] \in FrameRow /\ p < f
  BY <1>1 DEF Typed, FramesOf
<1>3. p \in 1..c.n /\ p # f
  BY <1>1, <1>2 DEF FrameRow, None
<1>4. ~Childless(c, p)
  BY <1>1 DEF Childless
<1> QED
  BY <1>1, <1>3, <1>4 DEF Ran, Barren

(* What was appended below the parent stays, once f is completed. *)
LEMMA GrownKeepsRan ==
  ASSUME NEW c, NEW f, Ran(c, f), NEW p, p = parent_of(c, f), p # None,
         NEW g, Grew(c, g, p, {f})
  PROVE  /\ Moved(c, g, {}, {}) /\ Typed(g) /\ f \in 1..g.n /\ p \in 1..g.n /\ Barren(g, {})
         /\ c.n \in Nat /\ g.n \in Nat /\ c.n <= g.n /\ g.frame[f].parent = p
<1>1. /\ Moved(c, g, {}, {}) /\ Typed(g) /\ c.n \in Nat /\ g.n \in Nat /\ c.n <= g.n
      /\ f \in 1..c.n /\ Typed(c)
  BY DEF Grew, Moved, Kept, Typed, FramesOf, Ran
<1>2. p \in 1..c.n /\ p # f /\ c.frame[p].status # "Pending" /\ c.frame[f].parent = p
  BY ParentRan
<1>3. Barren(g, {})
  <2>1. Barren(c, {f})
    BY DEF Ran, Barren
  <2>2. Barren(g, {f})
    BY <1>2, <2>1 DEF Grew
  <2>3. g.frame[f].status = "RunCompleted"
    BY <1>1 DEF Moved, Others, Ran
  <2> QED
    BY <2>2, <2>3 DEF Barren
<1>4. g.frame[f].parent = p
  BY <1>1, <1>2 DEF Moved, Kept
<1> QED
  BY <1>1, <1>2, <1>3, <1>4

(* The next node of the graph. *)
LEMMA AdvanceDispatched ==
  ASSUME NEW c, NEW f, Ran(c, f), NEW r, r = c.frame[f].response,
         r.result \in {"Continue", "GoTo"}, NEW fails, NEW b, b = Advance(c, f, r, fails)
  PROVE  Dispatched(c, b, f)
<1>1. PICK p : p = parent_of(c, f)
  OBVIOUS
<1>2. PICK g : g = append_graph_node(c, p)
  OBVIOUS
<1>3. CASE b = c
  BY <1>3, IdleDispatched
<1>4. CASE b = Err(c)
  BY <1>4, ErrDispatched
<1>5. CASE b = Then(g, mark_completed_frame(g, f)) /\ p # None
  <2>1. p \in 1..c.n /\ Typed(c) /\ {f} \in SUBSET (1..c.n)
    BY <1>1, <1>5, ParentRan DEF Ran
  <2>2. Grew(c, g, p, {f})
    BY <1>2, <2>1, FrameGrows DEF append_graph_node, Kind
  <2>3. /\ Moved(c, g, {}, {}) /\ Typed(g) /\ f \in 1..g.n /\ Barren(g, {})
    BY <1>1, <1>5, <2>2, GrownKeepsRan
  <2>4. CASE g.err
    <3>1. b = g
      BY <1>5, <2>4 DEF Then
    <3> QED
      BY <2>3, <2>4, <3>1 DEF Dispatched
  <2>5. CASE ~g.err
    <3>1. b = mark_completed_frame(g, f)
      BY <1>5, <2>5 DEF Then
    <3>2. Marked(g, b, f, "Completed", {})
      BY <2>3, <3>1, CompletedMarks
    <3>3. Moved(c, b, {f}, {})
      <4>1. Moved(c, b, {} \cup {f}, {} \cup {})
        BY <2>1, <2>3, <3>2, MovedTrans DEF Marked
      <4>2. {} \cup {f} = {f} /\ {} \cup {} = {}
        OBVIOUS
      <4> QED
        BY <4>1, <4>2
    <3>4. Driven(b, f)
      BY <3>2 DEF Marked, Driven
    <3>5. ASSUME AllDriven(c, {f}) PROVE AllDriven(b, {})
      <4>1. AllDriven(g, {f})
        BY <2>2, <2>5, <3>5 DEF Grew
      <4> QED
        BY <4>1, <2>3, <3>2, <3>4, MarkDrives
    <3>6. Barren(b, {})
      BY <2>3, <3>2, MarkBarren
    <3> QED
      BY <2>1, <3>3, <3>5, <3>6 DEF Dispatched
  <2> QED
    BY <2>4, <2>5
<1> QED
  BY <1>1, <1>2, <1>3, <1>4, <1>5 DEF Advance

(* A span below the parent, which waits for it; the end of f is announced  *)
(* to the parent, so it is run again whatever becomes of the branches.     *)
LEMMA ForkDispatched ==
  ASSUME NEW c, NEW f, Ran(c, f), NEW r, r = c.frame[f].response, r \in Answer,
         r.result = "Fork", NEW b, b = Fork(c, f, r.n)
  PROVE  Dispatched(c, b, f)
<1>1. PICK p : p = parent_of(c, f)
  OBVIOUS
<1>2. PICK g : g = append_graph_span(c, p, r.n)
  OBVIOUS
<1>3. CASE p = None
  <2>1. b = c
    BY <1>1, <1>3 DEF Fork
  <2> QED
    BY <2>1, IdleDispatched
<1>4. CASE p # None
  <2>1. p \in 1..c.n /\ Typed(c) /\ {f} \in SUBSET (1..c.n) /\ r.n \in Nat /\ p # f
    BY <1>1, <1>4, ParentRan DEF Ran, Answer
  <2>2. Grew(c, g, p, {f})
    BY <1>2, <2>1, SpanGrows
  <2>3. /\ Moved(c, g, {}, {}) /\ Typed(g) /\ f \in 1..g.n /\ p \in 1..g.n /\ Barren(g, {})
        /\ g.frame[f].parent = p
    BY <1>1, <1>4, <2>2, GrownKeepsRan
  <2>4. CASE g.err
    <3>1. b = g
      BY <1>1, <1>2, <1>4, <2>4 DEF Fork, Then
    <3> QED
      BY <2>3, <2>4, <3>1 DEF Dispatched
  <2>5. CASE ~g.err
    <3>1. PICK w : w = mark_as_waiting_children(g, p)
      OBVIOUS
    <3>2. b = mark_completed_frame(w, f)
      BY <1>1, <1>2, <1>4, <2>5, <3>1 DEF Fork, Then
    <3>3. Marked(g, w, p, "WaitingChildren", {})
      BY <2>3, <3>1, WaitingMarks
    <3>4. Moved(g, w, {p}, {}) /\ Typed(w) /\ f \in 1..w.n /\ p \in 1..w.n /\ w.frame[f].parent = p
      BY <2>3, <3>3 DEF Marked, Moved, Kept
    <3>5. Marked(w, b, f, "Completed", {}) /\ Has(b, "ChildFrameTerminated", p)
      BY <1>4, <3>2, <3>4, CompletedMarks
    <3>6. Moved(c, b, {p} \cup {f}, {})
      <4>1. Moved(c, w, {} \cup {p}, {} \cup {})
        BY <2>1, <2>3, <3>4, MovedTrans
      <4>2. {} \cup {p} = {p} /\ {} \cup {} = {}
        OBVIOUS
      <4>3. Moved(c, w, {p}, {})
        BY <4>1, <4>2
      <4>4. Moved(c, b, {p} \cup {f}, {} \cup {})
        BY <2>1, <3>5, <4>3, MovedTrans DEF Marked
      <4> QED
        BY <4>2, <4>4
    <3>7. b.frame[p].status = "WaitingChildren"
      <4>1. w.frame[p].status = "WaitingChildren"
        BY <3>3 DEF Marked
      <4>2. Others(w, b, {f})
        BY <3>5 DEF Marked, Moved
      <4> QED
        BY <2>1, <3>4, <4>1, <4>2 DEF Others
    <3>8. Driven(b, f) /\ Driven(b, p)
      BY <3>5, <3>7 DEF Marked, Driven
    <3>9. ASSUME AllDriven(c, {f}) PROVE AllDriven(b, {})
      <4>1. AllDriven(g, {p} \cup {f})
        BY <2>2, <2>5, <3>9 DEF Grew, AllDriven
      <4>2. AllDriven(w, {p} \cup {f})
        <5>1. w.n = g.n /\ {p} \subseteq {p} \cup {f}
          BY <3>3 DEF Marked
        <5> QED
          BY <2>3, <3>4, <4>1, <5>1, AllDrivenKept
      <4>3. AllDriven(b, {p} \cup {f})
        <5>1. b.n = w.n /\ {f} \subseteq {p} \cup {f} /\ Moved(w, b, {f}, {})
          BY <3>5 DEF Marked
        <5> QED
          BY <3>4, <4>2, <5>1, AllDrivenKept
      <4> QED
        BY <3>8, <4>3 DEF AllDriven
    <3>10. Barren(b, {})
      BY <2>3, <3>3, <3>5, MarkBarren
    <3>11. {p} \cup {f} \in SUBSET (1..c.n)
      BY <2>1
    <3> QED
      BY <3>6, <3>9, <3>10, <3>11 DEF Dispatched
  <2> QED
    BY <2>4, <2>5
<1> QED
  BY <1>3, <1>4

LEMMA ResultDispatched ==
  ASSUME NEW c, NEW f, Ran(c, f), NEW fails,
         NEW r, r = c.frame[f].response, r \in Answer, r.result # "JobFailed",
         NEW b, b = Dispatch(c, f, r, fails)
  PROVE  Dispatched(c, b, f)
<1>1. /\ Typed(c) /\ f \in 1..c.n /\ {f} \in SUBSET (1..c.n) /\ r.n \in Nat
      /\ r.result \in Results
      /\ r.result = "ConsultExperts" => r.n >= 1
  BY DEF Ran, Answer
<1>2. CASE r.result = "RequestHitl"
  <2>1. CASE fails
    <3>1. b = Err(c)
      BY <1>2, <2>1 DEF Dispatch
    <3> QED
      BY <3>1, ErrDispatched
  <2>2. CASE ~fails
    <3>1. PICK d : d = [c EXCEPT !.asked = @ \cup {f}]
      OBVIOUS
    <3>2. b = Waiting(d, f)
      BY <1>2, <2>2, <3>1 DEF Dispatch
    <3> QED
      BY <3>1, <3>2, HitlDispatched DEF AskOf
  <2> QED
    BY <2>1, <2>2
<1>3. CASE r.result = "ConsultExperts"
  <2>1. PICK g : g = append_experts_consultations(c, f, r.n)
    OBVIOUS
  <2>2. Turned(c, g, f, {f}, r.n)
    BY <1>1, <2>1, ExpertsGrow
  <2>3. Grew(c, g, f, {f}) /\ (g.err \/ FirstChild(c, g, f))
    BY <1>1, <1>3, <2>2 DEF Turned
  <2>4. b = Waiting(g, f)
    BY <1>3, <2>1 DEF Dispatch
  <2> QED
    BY <2>3, <2>4, WaitingDispatched
<1>4. CASE r.result = "CallTools"
  <2>1. PICK g : g = append_tool_calls(c, f, r.n)
    OBVIOUS
  <2>2. Grew(c, g, f, {f}) /\ (g.err \/ FirstChild(c, g, f))
    BY <1>1, <2>1, ToolCallsGrow
  <2>3. b = Waiting(g, f)
    BY <1>4, <2>1 DEF Dispatch
  <2> QED
    BY <2>2, <2>3, WaitingDispatched
<1>5. CASE r.result = "ExecuteGraph"
  <2>1. PICK g : g = append_graph(c, f, fails)
    OBVIOUS
  <2>2. Grew(c, g, f, {f}) /\ (g.err \/ FirstChild(c, g, f))
    BY <1>1, <2>1, GraphGrows
  <2>3. b = Waiting(g, f)
    BY <1>5, <2>1 DEF Dispatch
  <2> QED
    BY <2>2, <2>3, WaitingDispatched
<1>6. CASE r.result \in {"Continue", "GoTo"}
  <2>1. b = Advance(c, f, r, fails)
    BY <1>6 DEF Dispatch
  <2> QED
    BY <1>6, <2>1, AdvanceDispatched
<1>7. CASE r.result = "Fork"
  <2>1. b = Fork(c, f, r.n)
    BY <1>7 DEF Dispatch
  <2> QED
    BY <1>7, <2>1, ForkDispatched
<1>8. CASE r.result = "Completed"
  <2>1. b = mark_completed_frame(c, f)
    BY <1>8 DEF Dispatch
  <2>2. Marked(c, b, f, "Completed", {})
    BY <1>1, <2>1, CompletedMarks
  <2> QED
    BY <2>2, EndDispatched
<1>9. CASE r.result = "Failed"
  <2>1. b = mark_failed_frame(c, f)
    BY <1>9 DEF Dispatch
  <2>2. Marked(c, b, f, "Failed", {})
    BY <1>1, <2>1, FailedMarks
  <2> QED
    BY <2>2, EndDispatched
<1> QED
  BY <1>1, <1>2, <1>3, <1>4, <1>5, <1>6, <1>7, <1>8, <1>9 DEF Results, Requests

LEMMA RunTerminatedHandled ==
  ASSUME NEW a, Typed(a), NEW f \in 1..a.n, ~a.err, Barren(a, {}), NEW fails,
         NEW stale, NEW b, b = on_frame_run_terminated(a, f, fails, stale)
  PROVE  Handled(a, b, Awaited(a, f, "RunCompleted"))
<1>1. CASE a.frame[f].status # "RunCompleted"
  <2>1. b = Load(a, f)
    BY <1>1 DEF on_frame_run_terminated, Node
  <2>2. Moved(a, b, {}, {}) /\ b.n = a.n
    BY <2>1, LoadMoves
  <2> QED
    BY <1>1, <2>2, AwaitedDriven, QuietHandled
<1>2. CASE a.frame[f].status = "RunCompleted"
  <2>1. PICK r : r = a.frame[f].response
    OBVIOUS
  <2>2. PICK u : u = into_updates(f, r.updates)
    OBVIOUS
  <2>3. PICK m : m = IF r.updates # {} THEN commit_snapshot(a, f, u, stale) ELSE a
    OBVIOUS
  <2>4. PICK logs : logs = m.frame[f].logs \o r.new_logs
    OBVIOUS
  <2>5. PICK c : c = Put(m, f, "logs", logs)
    OBVIOUS
  <2>6. b = IF m.err THEN m ELSE Dispatch(c, f, r, fails)
    BY <1>2, <2>1, <2>2, <2>3, <2>4, <2>5 DEF on_frame_run_terminated, Node, Then
  <2>7. Cached(a, m)
    <3>1. f \in 1..Len(a.frame)
      BY DEF Typed, FramesOf
    <3>2. UpdatesOf(a.frame, f, u)
      BY <2>2, <3>1, OwnUpdates
    <3> QED BY <2>3, <3>2, CommitCaches, CachedNot
  <2>8. Moved(a, m, {}, {}) /\ m.n = a.n /\ m.frame = a.frame /\ Typed(m)
    BY <2>7 DEF Cached, Moved
  <2>9. CASE m.err
    <3>1. Barren(m, {})
      BY <2>8, BarrenKept
    <3> QED
      BY <2>6, <2>8, <2>9, <3>1, NoneReadied
  <2>10. CASE ~m.err
    <3>1. r \in Answer /\ r.result # "JobFailed"
      BY <1>2, <2>1 DEF Typed, FramesOf, Answered
    <3>2. logs \in Seq(Entry)
      <4>1. a.frame[f] \in FrameRow
        BY DEF Typed, FramesOf
      <4>2. m.frame[f].logs \in Seq(Entry) /\ r.new_logs \in Seq(Entry)
        BY <2>8, <3>1, <4>1 DEF FrameRow, Answer
      <4> QED
        BY <2>4, <4>2
    <3>3. Quiet(m, c) /\ c.err = m.err /\ f \in c.loaded
      BY <2>5, <2>8, <3>2, LogsQuiet
    <3>4. Moved(m, c, {}, {}) /\ c.n = a.n /\ Typed(c)
      BY <2>8, <3>3 DEF Quiet, Moved
    <3>5. Moved(a, c, {}, {})
      <4>1. Moved(a, c, {} \cup {}, {} \cup {})
        BY <2>8, <3>4, MovedTrans
      <4>2. {} \cup {} = {}
        OBVIOUS
      <4> QED
        BY <4>1, <4>2
    <3>6. c.frame[f].status = "RunCompleted" /\ c.frame[f].response = r
      BY <1>2, <2>1, <3>5 DEF Moved, Others
    <3>7. Barren(c, {})
      BY <3>4, <3>5, BarrenKept
    <3>8. Ran(c, f)
      BY <2>10, <3>3, <3>4, <3>6, <3>7 DEF Ran
    <3>9. Dispatched(c, b, f)
      BY <2>6, <2>10, <3>1, <3>6, <3>8, ResultDispatched
    <3>10. PICK X : Moved(c, b, X, {})
      BY <3>9 DEF Dispatched
    <3>11. Moved(a, b, X, {})
      <4>1. Moved(a, b, {} \cup X, {} \cup {})
        BY <3>5, <3>10, MovedTrans
      <4>2. {} \cup {} = {} /\ {} \cup X = X
        OBVIOUS
      <4> QED
        BY <4>1, <4>2
    <3>12. ASSUME Awaited(a, f, "RunCompleted") PROVE b.err \/ AllDriven(b, {})
      <4>1. AllDriven(c, {f})
        BY <3>4, <3>5, <3>12, AllDrivenKept DEF Awaited
      <4> QED
        BY <4>1, <3>9 DEF Dispatched
    <3>13. Barren(b, {})
      BY <3>9 DEF Dispatched
    <3> QED
      BY <3>11, <3>12, <3>13, NoneReadied
  <2> QED
    BY <2>9, <2>10
<1> QED
  BY <1>1, <1>2

-----------------------------------------------------------------------------
(* The end of a frame *)

(* The parent of f, if it waits, may have waited for the end of f. *)
EndAwaited(a, f) ==
  LET p == a.frame[f].parent
  IN AllDriven(a, {p}) /\ (p # None /\ a.frame[p].status # "WaitingChildren" => Driven(a, p))

LEMMA ParentIs ==
  ASSUME NEW a, Typed(a), NEW f \in 1..a.n, NEW p, p = a.frame[f].parent
  PROVE  /\ a.n \in Nat /\ p # f /\ (p = None \/ p \in 1..a.n)
         /\ f \in a.loaded => parent_of(a, f) = p
         /\ f \notin a.loaded => parent_of(a, f) = None
<1>1. a.frame[f] \in FrameRow /\ p < f /\ a.n \in Nat
  BY DEF Typed, FramesOf
<1> QED
  BY <1>1 DEF FrameRow, None, parent_of

(* The parent is told, if the frame is in the arena. *)
LEMMA TerminatedHandled ==
  ASSUME NEW a, Typed(a), NEW f \in 1..a.n, Barren(a, {}), Ended(a, f) => f \in a.loaded,
         NEW b, b = on_frame_terminated(a, f)
  PROVE  /\ Handled(a, b, EndAwaited(a, f))
         /\ f \in a.loaded /\ a.frame[f].parent # None =>
              Appended(a, b, ChildTerminated(a.frame[f].parent, f))
<1>1. PICK p : p = a.frame[f].parent
  OBVIOUS
<1>2. /\ a.n \in Nat /\ p # f /\ (p = None \/ p \in 1..a.n)
      /\ f \in a.loaded => parent_of(a, f) = p
      /\ f \notin a.loaded => parent_of(a, f) = None
  BY <1>1, ParentIs
<1>3. CASE f \in a.loaded /\ p # None
  <2>1. p \in 1..a.n
    BY <1>2, <1>3
  <2>2. PICK e : e = ChildTerminated(p, f)
    OBVIOUS
  <2>3. b = emit(a, e)
    BY <1>2, <1>3, <2>2 DEF on_frame_terminated
  <2>4. EventOf(a, e) /\ e.type = "ChildFrameTerminated" /\ e.frame = p
    BY <1>2, <2>1, <2>2, EventsAre DEF ChildTerminated
  <2>5. Moved(a, b, {}, {}) /\ Appended(a, b, e) /\ b.n = a.n /\ b.frame = a.frame
    <3>1. Moved(a, b, {}, {}) /\ Appended(a, b, e) /\ EmitOf(a, b, e)
      BY <2>3, <2>4, EmitMoves
    <3> QED
      BY <3>1 DEF EmitOf
  <2>6. Has(b, "ChildFrameTerminated", p)
    BY <2>4, <2>5, HasAppended
  <2>7. ASSUME EndAwaited(a, f) PROVE AllDriven(b, {})
    <3>1. AllDriven(b, {p})
      BY <1>1, <2>5, <2>7, AllDrivenKept DEF EndAwaited
    <3>2. Driven(b, p)
      <4>1. CASE a.frame[p].status = "WaitingChildren"
        BY <2>5, <2>6, <4>1 DEF Driven
      <4>2. CASE a.frame[p].status # "WaitingChildren"
        <5>1. Driven(a, p)
          BY <1>1, <1>3, <2>7, <4>2 DEF EndAwaited
        <5> QED
          BY <2>1, <2>5, <5>1, DrivenKept
      <4> QED
        BY <4>1, <4>2
    <3> QED
      BY <3>1, <3>2 DEF AllDriven
  <2>8. Barren(b, {})
    BY <2>5, BarrenKept
  <2>9. Handled(a, b, EndAwaited(a, f))
    BY <2>5, <2>7, <2>8, NoneReadied
  <2> QED
    BY <1>1, <2>2, <2>5, <2>9
<1>4. CASE ~(f \in a.loaded /\ p # None)
  <2>1. b = a
    BY <1>2, <1>4 DEF on_frame_terminated
  <2>2. ASSUME EndAwaited(a, f) PROVE AllDriven(a, {})
    <3>1. AllDriven(a, {p})
      BY <1>1, <2>2 DEF EndAwaited
    <3>2. p # None => Driven(a, p)
      <4> SUFFICES ASSUME p # None PROVE Driven(a, p)
        OBVIOUS
      <4>1. f \in Children(a, p) /\ ~Ended(a, f)
        BY <1>1, <1>4 DEF Children
      <4> QED
        BY <4>1, <1>1, <2>2 DEF EndAwaited, Driven
    <3>3. None \notin 1..a.n
      BY DEF None
    <3> QED
      BY <3>1, <3>2, <3>3 DEF AllDriven
  <2>3. Moved(a, a, {}, {})
    BY MovedNot
  <2>4. Handled(a, a, EndAwaited(a, f))
    BY <2>2, <2>3, NoneReadied
  <2> QED
    BY <1>1, <1>4, <2>1, <2>4
<1> QED
  BY <1>3, <1>4

ArenaOf(a, st, X) == st = [a EXCEPT !.loaded = @ \cup X]

LEMMA ArenaMoves ==
  ASSUME NEW a, Typed(a), NEW X \in SUBSET (1..a.n), NEW st, ArenaOf(a, st, X)
  PROVE  Moved(a, st, {}, {}) /\ st.n = a.n /\ st.frame = a.frame /\ st.err = a.err /\ Typed(st)
<1>1. RecordOf(a) /\ st = [a EXCEPT !.loaded = @ \cup X]
  BY DEF Typed, ArenaOf
<1>2. /\ RecordOf(st) /\ st.queue = a.queue
      /\ st.frame = a.frame /\ st.loaded = a.loaded \cup X
      /\ st.n = a.n /\ st.dirty = a.dirty /\ st.writes = a.writes /\ st.rows = a.rows
      /\ st.jobs = a.jobs /\ st.spawned = a.spawned /\ st.lost = a.lost
      /\ st.asked = a.asked /\ st.err = a.err /\ st.full = a.full
  BY ONLY <1>1 DEF RecordOf
<1>3. QueueOf(st) /\ JobsOf(st) /\ ClichesOf(st)
  BY <1>2 DEF Typed, QueueOf, JobsOf, ClichesOf, Ahead
<1>4. Moved(a, st, {}, {})
  BY <1>2, <1>3, FramesStay DEF Typed, FramesOf
<1> QED
  BY <1>2, <1>4 DEF Moved

(* A frame is made to run: a FanIn one when its children have ended. *)
LEMMA ResumeHandled ==
  ASSUME NEW a, Typed(a), NEW f \in 1..a.n, Barren(a, {}),
         NEW j, Moved(a, j, {}, {}), j.n = a.n, NEW b, b = Resume(j, f),
         ResumePolicy(a.frame[f].kind) = "FanIn" => \A c \in Children(a, f) : Ended(a, c)
  PROVE  Handled(a, b, AllDriven(a, {f}))
<1>1. Typed(j) /\ f \in 1..j.n
  BY DEF Moved
<1>2. Barren(j, {})
  BY BarrenKept
<1>3. CASE j.err
  <2>1. b = j
    BY <1>3 DEF Resume, Then
  <2> QED
    BY <1>2, <1>3, <2>1, NoneReadied
<1>4. CASE ~j.err
  <2>1. b = mark_ready_to_run_frame(j, f)
    BY <1>4 DEF Resume, Then, resume_frame
  <2>2. Marked(j, b, f, "Ready", {f}) /\ Has(b, "FrameReady", f)
    BY <1>1, <2>1, ReadyMarks
  <2>3. Moved(a, b, {f}, {f}) /\ b.n = a.n
    <3>1. Moved(a, b, {} \cup {f}, {} \cup {f})
      BY <2>2, MovedTrans DEF Marked
    <3>2. {} \cup {f} = {f}
      OBVIOUS
    <3> QED
      BY <2>2, <3>1, <3>2 DEF Marked
  <2>4. Driven(b, f)
    BY <2>2 DEF Driven, Marked
  <2>5. ASSUME AllDriven(a, {f}) PROVE AllDriven(b, {})
    <3>1. AllDriven(b, {f})
      BY <2>3, <2>5, AllDrivenKept
    <3> QED
      BY <2>4, <3>1 DEF AllDriven
  <2>6. Barren(b, {})
    BY <1>2, <2>2, MarkBarren
  <2>7. Joined(a, b)
    <3> SUFFICES ASSUME NEW g \in 1..b.n, ResumePolicy(b.frame[g].kind) = "FanIn",
                        b.frame[g].status = "Ready", g \in 1..a.n => a.frame[g].status # "Ready",
                        NEW c \in Children(b, g)
                 PROVE  Ended(b, c)
      BY DEF Joined
    <3>1. g = f
      BY <2>3 DEF Moved, Readied
    <3>2. ResumePolicy(a.frame[f].kind) = "FanIn" /\ c \in Children(a, f) /\ c \in 1..a.n
      BY <2>3, <3>1 DEF Moved, Kept, Children
    <3>3. c # f
      BY <3>2, ParentIs DEF Children
    <3>4. b.frame[c].status = a.frame[c].status
      BY <2>3, <3>2, <3>3 DEF Moved, Others
    <3> QED
      BY <3>2, <3>4 DEF Ended
  <2>8. Moved(a, b, 1..a.n, 1..a.n)
    BY <2>3, MovedAny
  <2> QED
    BY <2>5, <2>6, <2>7, <2>8 DEF Handled
<1> QED
  BY <1>3, <1>4 DEF Moved, Typed

LEMMA ChildTerminatedHandled ==
  ASSUME NEW a, Typed(a), NEW f \in 1..a.n, NEW child \in 1..a.n, ~a.err, Barren(a, {}),
         NEW stale, NEW b, b = on_child_frame_terminated(a, f, child, stale)
  PROVE  Handled(a, b, Awaited(a, f, "WaitingChildren"))
<1>1. PICK st : st = [a EXCEPT !.loaded = @ \cup {f, child} \cup Children(a, f)]
  OBVIOUS
<1>2. PICK last : last = last_child_of(st, f)
  OBVIOUS
<1>3. PICK j : j = Join(st, f, {last}, stale)
  OBVIOUS
<1>4. PICK k : k = Join(st, f, Children(st, f) \ FailedChildren(st, f), stale)
  OBVIOUS
<1>5. \/ b = mark_failed_frame(st, f)
      \/ ResumePolicy(st.frame[f].kind) = "Sequential" /\ b = Resume(j, f) /\ last # None
      \/ ResumePolicy(st.frame[f].kind) = "Sequential" /\ b = resume_frame(st, f)
      \/ all_children_have_terminated(st, f) /\ b = Resume(k, f)
      \/ ~all_children_have_terminated(st, f) /\ b = st
  BY <1>1, <1>2, <1>3, <1>4 DEF on_child_frame_terminated
<1>6. Moved(a, st, {}, {}) /\ st.n = a.n /\ st.frame = a.frame /\ ~st.err /\ Typed(st)
  <2>1. PICK X : X = {f, child} \cup Children(a, f)
    OBVIOUS
  <2>2. X \in SUBSET (1..a.n)
    BY <2>1 DEF Children
  <2>3. a.loaded \cup {f, child} \cup Children(a, f) = a.loaded \cup X
    BY <2>1
  <2>4. ArenaOf(a, st, X)
    BY <1>1, <2>3 DEF ArenaOf
  <2> QED
    BY <2>2, <2>4, ArenaMoves
<1>7. /\ last # None => Moved(a, j, {}, {}) /\ j.n = a.n
      /\ Moved(a, k, {}, {}) /\ k.n = a.n
  <2>1. ASSUME last # None PROVE Quiet(st, j)
    <3>1. Children(st, f) \in SUBSET (1..st.n) /\ Children(st, f) # {} /\ st.n \in Nat
      BY <1>2, <1>6, <2>1 DEF last_child_of, Children, Typed, FramesOf
    <3>2. \E c \in Children(st, f) : \A d \in Children(st, f) : d <= c
      BY <3>1, Greatest
    <3>3. last \in Children(st, f)
      BY <1>2, <3>1, <3>2 DEF last_child_of
    <3>4. {last} \in SUBSET Children(st, f)
      BY <3>3
    <3> QED BY <1>3, <1>6, <3>4, JoinQuiet
  <2>2. Quiet(st, k)
    <3>1. Children(st, f) \ FailedChildren(st, f) \in SUBSET Children(st, f)
      OBVIOUS
    <3> QED BY <1>4, <1>6, <3>1, JoinQuiet
  <2>3. ASSUME NEW x, Quiet(st, x) PROVE Moved(a, x, {}, {}) /\ x.n = a.n
    <3>1. Moved(a, x, {} \cup {}, {} \cup {})
      BY <1>6, <2>3, MovedTrans DEF Quiet
    <3>2. {} \cup {} = {}
      OBVIOUS
    <3> QED BY <1>6, <2>3, <3>1, <3>2 DEF Quiet
  <2> QED BY <2>1, <2>2, <2>3
<1>8. CASE b = mark_failed_frame(st, f)
  <2>1. Marked(st, b, f, "Failed", {})
    BY <1>6, <1>8, FailedMarks
  <2>2. Moved(a, b, {f}, {})
    <3>1. Moved(a, b, {} \cup {f}, {} \cup {})
      BY <1>6, <2>1, MovedTrans DEF Marked
    <3>2. {} \cup {} = {} /\ {} \cup {f} = {f}
      OBVIOUS
    <3> QED
      BY <3>1, <3>2
  <2>3. Driven(b, f)
    BY <2>1 DEF Marked, Driven
  <2>4. ASSUME AllDriven(a, {f}) PROVE AllDriven(b, {})
    <3>1. AllDriven(st, {f})
      BY <1>6, <2>4, AllDrivenKept
    <3> QED
      BY <1>6, <2>1, <2>3, <3>1, MarkDrives
  <2>5. Barren(b, {})
    <3>1. Barren(st, {})
      BY <1>6, BarrenKept
    <3> QED
      BY <2>1, <3>1, MarkBarren
  <2> QED
    BY <2>2, <2>4, <2>5, NoneReadied DEF Awaited
<1>9. CASE ResumePolicy(st.frame[f].kind) = "Sequential" /\ b = Resume(j, f) /\ last # None
  <2>1. Handled(a, b, AllDriven(a, {f}))
    BY <1>6, <1>7, <1>9, ResumeHandled
  <2> QED
    BY <2>1 DEF Handled, Awaited
<1>10. CASE ResumePolicy(st.frame[f].kind) = "Sequential" /\ b = resume_frame(st, f)
  <2>1. b = Resume(st, f)
    BY <1>6, <1>10 DEF Resume, Then
  <2>2. Handled(a, b, AllDriven(a, {f}))
    BY <1>6, <1>10, <2>1, ResumeHandled
  <2> QED
    BY <2>2 DEF Handled, Awaited
<1>11. CASE all_children_have_terminated(st, f) /\ b = Resume(k, f)
  <2>1. \A c \in Children(a, f) : Ended(a, c)
    BY <1>6, <1>11 DEF all_children_have_terminated, Children, Ended
  <2>2. Handled(a, b, AllDriven(a, {f}))
    BY <1>7, <1>11, <2>1, ResumeHandled
  <2> QED
    BY <2>2 DEF Handled, Awaited
<1>12. CASE ~all_children_have_terminated(st, f) /\ b = st
  <2>1. \E c \in Children(a, f) : ~Ended(a, c)
    BY <1>6, <1>12 DEF all_children_have_terminated, Children, Ended
  <2>2. Awaited(a, f, "WaitingChildren") => AllDriven(a, {})
    BY <2>1 DEF Awaited, AllDriven, Driven
  <2> QED
    BY <1>6, <1>12, <2>2, QuietHandled
<1> QED
  BY <1>5, <1>8, <1>9, <1>10, <1>11, <1>12

-----------------------------------------------------------------------------
(* An event is taken from the queue and handled. *)

PopOf(a, b) == b = [a EXCEPT !.queue = Tail(@)]

(* b is a without its first event e. *)
Popped(a, b, e) ==
  /\ b.n = a.n /\ b.frame = a.frame /\ b.loaded = a.loaded /\ b.dirty = a.dirty
  /\ b.writes = a.writes /\ b.rows = a.rows /\ b.jobs = a.jobs /\ b.spawned = a.spawned
  /\ b.lost = a.lost /\ b.asked = a.asked /\ b.err = a.err /\ b.full = a.full
  /\ \A i \in DOMAIN a.queue : a.queue[i] = e \/ \E k \in DOMAIN b.queue : b.queue[k] = a.queue[i]

LEMMA PopIs ==
  ASSUME NEW a, Typed(a), a.queue # <<>>, NEW b, PopOf(a, b), NEW e, e = Head(a.queue)
  PROVE  Typed(b) /\ Popped(a, b, e) /\ EventOf(a, e)
<1>1. PICK q : q = Tail(a.queue)
  OBVIOUS
<1>2. RecordOf(a) /\ b = [a EXCEPT !.queue = q]
  BY <1>1 DEF PopOf, Typed
<1>3. /\ RecordOf(b) /\ b.queue = q
      /\ b.frame = a.frame /\ b.loaded = a.loaded
      /\ b.n = a.n /\ b.dirty = a.dirty /\ b.writes = a.writes /\ b.rows = a.rows
      /\ b.jobs = a.jobs /\ b.spawned = a.spawned /\ b.lost = a.lost
      /\ b.asked = a.asked /\ b.err = a.err /\ b.full = a.full
  BY ONLY <1>2 DEF RecordOf
<1>4. a.queue \in Seq(Event) /\ Len(a.queue) \in Nat /\ Len(a.queue) # 0
  BY DEF Typed, QueueOf
<1>5. /\ q \in Seq(Event) /\ DOMAIN q = 1..(Len(a.queue) - 1) /\ DOMAIN a.queue = 1..Len(a.queue)
      /\ e = a.queue[1] /\ 1 \in DOMAIN a.queue
      /\ \A i \in 1..(Len(a.queue) - 1) : q[i] = a.queue[i + 1]
  BY <1>1, <1>4
<1>6. \A i \in DOMAIN q : i + 1 \in DOMAIN a.queue /\ q[i] = a.queue[i + 1]
  BY <1>4, <1>5
<1>7. \A i \in DOMAIN a.queue : a.queue[i] = e \/ \E k \in DOMAIN q : q[k] = a.queue[i]
  <2> TAKE i \in DOMAIN a.queue
  <2>1. CASE i = 1
    BY <1>5, <2>1
  <2>2. CASE i # 1
    <3>1. i - 1 \in DOMAIN q /\ (i - 1) + 1 = i
      BY <1>4, <1>5, <2>2
    <3> QED
      BY <1>6, <3>1
  <2> QED
    BY <2>1, <2>2
<1>8. QueueOf(b)
  BY <1>3, <1>5, <1>6 DEF QueueOf, Typed
<1>9. FramesOf(b) /\ JobsOf(b) /\ ClichesOf(b)
  BY <1>3 DEF Typed, FramesOf, JobsOf, ClichesOf, Ahead
<1>10. Typed(b)
  BY <1>3, <1>8, <1>9 DEF Typed
<1>11. EventOf(a, e)
  BY <1>4, <1>5 DEF EventOf, Typed, QueueOf
<1> QED
  BY <1>3, <1>7, <1>10, <1>11 DEF Popped

LEMMA PoppedHas ==
  ASSUME NEW a, NEW b, NEW e, Popped(a, b, e), NEW type, NEW f, Has(a, type, f)
  PROVE  Has(b, type, f) \/ (e.type = type /\ e.frame = f)
BY DEF Popped, Has

(* A frame whose events are all still there is driven as before. *)
LEMMA PoppedDriven ==
  ASSUME NEW a, NEW b, NEW e, Popped(a, b, e), NEW f \in 1..a.n, Driven(a, f),
         a.frame[f].status = "Pending" => e.type # "FrameCreated" \/ e.frame # f,
         a.frame[f].status = "Ready" =>
           e.type \notin {"FrameReady", "FrameRunJobStateUpdate"} \/ e.frame # f,
         a.frame[f].status = "RunCompleted" => e.type # "FrameRunTerminated" \/ e.frame # f,
         a.frame[f].status = "WaitingChildren" =>
           /\ e.type # "ChildFrameTerminated" \/ e.frame # f
           /\ e.type # "FrameTerminated" \/ e.frame \notin Children(a, f)
  PROVE  Driven(b, f)
<1>1. /\ b.frame = a.frame /\ Children(b, f) = Children(a, f) /\ b.asked = a.asked
      /\ b.lost = a.lost /\ b.jobs = a.jobs /\ \A c : Ended(b, c) <=> Ended(a, c)
  BY DEF Popped, Children, Ended
<1>2. \A type, g : Has(a, type, g) => Has(b, type, g) \/ (e.type = type /\ e.frame = g)
  BY PoppedHas
<1>3. CASE a.frame[f].status = "WaitingChildren"
  <2>1. ASSUME NEW c \in Children(a, f), Has(a, "FrameTerminated", c)
        PROVE  Has(b, "FrameTerminated", c)
    BY <2>1, <1>2, <1>3
  <2> QED
    BY <1>1, <1>2, <1>3, <2>1 DEF Driven
<1>4. CASE a.frame[f].status # "WaitingChildren"
  BY <1>1, <1>2, <1>4 DEF Driven
<1> QED
  BY <1>3, <1>4

(* What is left to see to, by the kind of event. *)
LEMMA PoppedAwaited ==
  ASSUME NEW a, Typed(a), NEW b, NEW e, Popped(a, b, e), EventOf(a, e), AllDriven(a, {})
  PROVE  /\ e.type = "FrameCreated" => Awaited(b, e.frame, "Pending")
         /\ e.type = "FrameReady" => Awaited(b, e.frame, "Ready")
         /\ e.type = "FrameRunJobStateUpdate" => AllDriven(b, {e.frame})
         /\ e.type = "FrameRunTerminated" => Awaited(b, e.frame, "RunCompleted")
         /\ e.type = "FrameTerminated" => EndAwaited(b, e.frame)
         /\ e.type = "ChildFrameTerminated" => Awaited(b, e.frame, "WaitingChildren")
         /\ e.type = "HitlAnswered" => AllDriven(b, {})
<1>1. b.n = a.n /\ b.frame = a.frame
  BY DEF Popped
<1>2. \A f \in 1..a.n : Driven(a, f)
  BY DEF AllDriven
<1>3. e.type # "HitlAnswered" => e.frame \in 1..a.n
  BY DEF EventOf
<1>4. ASSUME e.type \in {"FrameCreated", "FrameReady", "FrameRunJobStateUpdate",
                         "FrameRunTerminated", "ChildFrameTerminated"}
      PROVE  AllDriven(b, {e.frame})
  BY <1>1, <1>2, <1>4, PoppedDriven DEF AllDriven
<1>5. ASSUME e.type = "FrameCreated" PROVE Awaited(b, e.frame, "Pending")
  <2>1. a.frame[e.frame].status # "Pending" => Driven(b, e.frame)
    BY <1>2, <1>3, <1>5, PoppedDriven
  <2> QED
    BY <1>1, <1>4, <1>5, <2>1 DEF Awaited
<1>6. ASSUME e.type = "FrameReady" PROVE Awaited(b, e.frame, "Ready")
  <2>1. a.frame[e.frame].status # "Ready" => Driven(b, e.frame)
    BY <1>2, <1>3, <1>6, PoppedDriven
  <2> QED
    BY <1>1, <1>4, <1>6, <2>1 DEF Awaited
<1>7. ASSUME e.type = "FrameRunTerminated" PROVE Awaited(b, e.frame, "RunCompleted")
  <2>1. a.frame[e.frame].status # "RunCompleted" => Driven(b, e.frame)
    BY <1>2, <1>3, <1>7, PoppedDriven
  <2> QED
    BY <1>1, <1>4, <1>7, <2>1 DEF Awaited
<1>8. ASSUME e.type = "ChildFrameTerminated" PROVE Awaited(b, e.frame, "WaitingChildren")
  <2>1. a.frame[e.frame].status # "WaitingChildren" => Driven(b, e.frame)
    BY <1>2, <1>3, <1>8, PoppedDriven
  <2> QED
    BY <1>1, <1>4, <1>8, <2>1 DEF Awaited
<1>9. ASSUME e.type = "FrameTerminated" PROVE EndAwaited(b, e.frame)
  <2>1. PICK p : p = a.frame[e.frame].parent
    OBVIOUS
  <2>2. \A f \in 1..a.n : f # p => e.frame \notin Children(a, f)
    BY <2>1 DEF Children
  <2>3. AllDriven(b, {p})
    BY <1>1, <1>2, <1>9, <2>2, PoppedDriven DEF AllDriven
  <2>4. ASSUME p # None, a.frame[p].status # "WaitingChildren" PROVE Driven(b, p)
    <3>1. p \in 1..a.n
      BY <1>3, <1>9, <2>1, <2>4, ParentIs
    <3> QED
      BY <1>2, <1>9, <2>4, <3>1, PoppedDriven
  <2> QED
    BY <1>1, <2>1, <2>3, <2>4 DEF EndAwaited
<1>10. ASSUME e.type = "HitlAnswered" PROVE AllDriven(b, {})
  BY <1>1, <1>2, <1>10, PoppedDriven DEF AllDriven
<1> QED
  BY <1>4, <1>5, <1>6, <1>7, <1>8, <1>9, <1>10

(* Whatever the event, what the handler does with it. *)
LEMMA EventHandled ==
  ASSUME NEW a, Typed(a), ~a.err, Barren(a, {}), \A f \in 1..a.n : Ended(a, f) => f \in a.loaded,
         NEW b, Typed(b), NEW e, Popped(a, b, e), EventOf(a, e), NEW fails,
         NEW stale, NEW c, c = Handle(b, e, fails, stale), ~c.full
  PROVE  Handled(b, c, AllDriven(a, {}))
<1>1. /\ b.n = a.n /\ b.frame = a.frame /\ b.loaded = a.loaded /\ ~b.err
      /\ \A f : Ended(b, f) <=> Ended(a, f)
  BY DEF Popped, Ended
<1>2. Barren(b, {})
  BY <1>1 DEF Barren, Childless
<1>3. e.type # "HitlAnswered" => e.frame \in 1..b.n
  BY <1>1 DEF EventOf
<1>4. e.type \in {"FrameCreated", "FrameReady", "FrameRunJobStateUpdate", "FrameRunTerminated",
                  "FrameTerminated", "ChildFrameTerminated", "HitlAnswered"}
  BY DEF EventOf, Event
<1>5. ASSUME NEW D, Handled(b, c, D), AllDriven(a, {}) => D PROVE Handled(b, c, AllDriven(a, {}))
  BY <1>5 DEF Handled
<1>6. CASE e.type = "FrameCreated"
  <2>1. c = on_frame_created(b, e.frame)
    BY <1>6 DEF Handle
  <2>2. Handled(b, c, AllDriven(b, {e.frame}) /\ (b.frame[e.frame].status # "Pending" => Driven(b, e.frame)))
    BY <1>1, <1>2, <1>3, <1>6, <2>1, CreatedHandled
  <2>3. AllDriven(a, {}) => Awaited(b, e.frame, "Pending")
    BY <1>6, PoppedAwaited
  <2> QED
    BY <2>2, <2>3 DEF Awaited, Handled
<1>7. CASE e.type = "FrameReady"
  <2>1. c = on_frame_ready(b, e.frame, fails)
    BY <1>7 DEF Handle
  <2>2. Handled(b, c, Awaited(b, e.frame, "Ready"))
    BY <1>1, <1>2, <1>3, <1>7, <2>1, ReadyHandled
  <2> QED
    BY <1>5, <1>7, <2>2, PoppedAwaited
<1>8. CASE e.type = "FrameRunJobStateUpdate"
  <2>1. c = on_frame_run_update(b, e.frame, e.response)
    BY <1>8 DEF Handle
  <2>2. e.response \in Answer
    BY <1>8 DEF EventOf, Event
  <2>3. Handled(b, c, AllDriven(b, {e.frame}))
    BY <1>1, <1>2, <1>3, <1>8, <2>1, <2>2, UpdateHandled
  <2> QED
    BY <1>5, <1>8, <2>3, PoppedAwaited
<1>9. CASE e.type = "FrameRunTerminated"
  <2>1. c = on_frame_run_terminated(b, e.frame, fails, stale)
    BY <1>9 DEF Handle
  <2>2. Handled(b, c, Awaited(b, e.frame, "RunCompleted"))
    BY <1>1, <1>2, <1>3, <1>9, <2>1, RunTerminatedHandled
  <2> QED
    BY <1>5, <1>9, <2>2, PoppedAwaited
<1>10. CASE e.type = "FrameTerminated"
  <2>1. c = on_frame_terminated(b, e.frame)
    BY <1>10 DEF Handle
  <2>2. Ended(b, e.frame) => e.frame \in b.loaded
    BY <1>1, <1>3, <1>10
  <2>3. Handled(b, c, EndAwaited(b, e.frame))
    BY <1>1, <1>2, <1>3, <1>10, <2>1, <2>2, TerminatedHandled
  <2> QED
    BY <1>5, <1>10, <2>3, PoppedAwaited
<1>11. CASE e.type = "ChildFrameTerminated"
  <2>1. c = on_child_frame_terminated(b, e.frame, e.child, stale)
    BY <1>11 DEF Handle
  <2>2. e.child \in 1..b.n
    BY <1>1, <1>11 DEF EventOf
  <2>3. Handled(b, c, Awaited(b, e.frame, "WaitingChildren"))
    BY <1>1, <1>2, <1>3, <1>11, <2>1, <2>2, ChildTerminatedHandled
  <2> QED
    BY <1>5, <1>11, <2>3, PoppedAwaited
<1>12. CASE e.type = "HitlAnswered"
  <2>1. c = b
    BY <1>12 DEF Handle, on_hitl_response
  <2>2. AllDriven(a, {}) => AllDriven(b, {})
    BY <1>12, PoppedAwaited
  <2>3. Moved(b, b, {}, {})
    BY MovedNot
  <2> QED
    BY <1>2, <2>1, <2>2, <2>3, QuietHandled
<1> QED
  BY <1>4, <1>6, <1>7, <1>8, <1>9, <1>10, <1>11, <1>12

-----------------------------------------------------------------------------
(* What holds of the record between two steps. *)

InQueue(st, e) == \E i \in DOMAIN st.queue : st.queue[i] = e

(* The end of c has reached its parent, or will. *)
Notified(st, c, seen) ==
  \/ st.frame[c].parent = None
  \/ <<st.frame[c].parent, c>> \in seen
  \/ Has(st, "FrameTerminated", c)
  \/ InQueue(st, ChildTerminated(st.frame[c].parent, c))

Known(st, seen) ==
  \A c \in 1..st.n : Ended(st, c) => c \in st.loaded /\ Notified(st, c, seen)

Steps(rows, f) == {w[2] : w \in {r \in rows : r[1] = f}}

NoGap(st) ==
  /\ \A r \in st.rows : r[1] \in 1..st.n
  /\ \A f \in 1..st.n : Steps(st.rows, f) = 0..st.frame[f].superstep

Sound(st, seen) ==
  Typed(st) /\ ~st.err /\ ~st.full /\ Barren(st, {}) /\ Known(st, seen) /\ NoGap(st)

(* Rows are left alone, and a new frame has none. *)
LEMMA NoGapKept == ASSUME NEW a, NEW b, Typed(a), Kept(a, b), NoGap(a), b.n \in Nat PROVE NoGap(b)
<1>1. a.n \in Nat /\ a.n <= b.n /\ b.rows = a.rows
  BY DEF Typed, FramesOf, Kept
<1>2. \A r \in b.rows : r[1] \in 1..b.n
  BY <1>1 DEF NoGap
<1>3. ASSUME NEW f \in 1..b.n PROVE Steps(b.rows, f) = 0..b.frame[f].superstep
  <2>1. CASE f \in 1..a.n
    BY <2>1, <1>1 DEF NoGap, Kept
  <2>2. CASE f \notin 1..a.n
    <3>1. b.frame[f].superstep = NoSnapshot
      BY <2>2 DEF Kept
    <3>2. {r \in b.rows : r[1] = f} = {}
      BY <1>1, <2>2 DEF NoGap
    <3>3. Steps(b.rows, f) = {}
      BY <3>2 DEF Steps
    <3>4. 0..NoSnapshot = {}
      BY DEF NoSnapshot
    <3> QED
      BY <3>1, <3>3, <3>4
  <2> QED
    BY <2>1, <2>2
<1> QED
  BY <1>2, <1>3 DEF NoGap

ClearOf(a, b) == b = [a EXCEPT !.err = FALSE]

LEMMA ClearMoves ==
  ASSUME NEW a, Typed(a), NEW b, ClearOf(a, b)
  PROVE  /\ Moved(a, b, {}, {}) /\ b.n = a.n /\ b.frame = a.frame /\ b.queue = a.queue
         /\ b.loaded = a.loaded /\ b.full = a.full /\ b.spawned = a.spawned /\ ~b.err
<1>1. RecordOf(a) /\ b = [a EXCEPT !.err = FALSE]
  BY DEF Typed, ClearOf
<1>2. /\ RecordOf(b) /\ b.queue = a.queue
      /\ b.frame = a.frame /\ b.loaded = a.loaded
      /\ b.n = a.n /\ b.dirty = a.dirty /\ b.writes = a.writes /\ b.rows = a.rows
      /\ b.jobs = a.jobs /\ b.spawned = a.spawned /\ b.lost = a.lost
      /\ b.asked = a.asked /\ b.err = FALSE /\ b.full = a.full
  BY ONLY <1>1 DEF RecordOf
<1>3. QueueOf(b) /\ JobsOf(b) /\ ClichesOf(b)
  BY <1>2 DEF Typed, QueueOf, JobsOf, ClichesOf, Ahead
<1>4. Moved(a, b, {}, {})
  BY <1>2, <1>3, FramesStay DEF Typed, FramesOf
<1> QED
  BY <1>2, <1>4

(* The parent's handler has seen the child, once the event is taken. *)
Seen(seen, e) == IF e.type # "ChildFrameTerminated" THEN seen ELSE seen \cup {<<e.frame, e.child>>}

LEMMA EventKnown ==
  ASSUME NEW a, NEW seen, Typed(a), Barren(a, {}), Known(a, seen), NEW b, Typed(b), NEW e,
         Popped(a, b, e), EventOf(a, e), NEW fails, NEW stale,
         NEW c, c = Handle(b, e, fails, stale), Typed(c), Kept(b, c), Announced(b, c)
  PROVE  Known(c, Seen(seen, e))
<1>1. b.n = a.n /\ b.frame = a.frame /\ b.loaded = a.loaded
  BY DEF Popped
<1> SUFFICES ASSUME NEW f \in 1..c.n, Ended(c, f)
             PROVE  f \in c.loaded /\ Notified(c, f, Seen(seen, e))
  BY DEF Known
<1>2. CASE f \in c.loaded /\ Has(c, "FrameTerminated", f)
  BY <1>2 DEF Notified
<1>3. CASE f \in 1..b.n /\ Ended(b, f)
  <2>1. f \in 1..a.n /\ f \in b.loaded /\ Notified(a, f, seen)
    BY <1>1, <1>3 DEF Known, Ended
  <2>2. f \in c.loaded
    BY <2>1 DEF Kept
  <2>3. PICK p : p = a.frame[f].parent
    OBVIOUS
  <2>4. c.frame[f].parent = p
    BY <1>1, <1>3, <2>3 DEF Kept
  <2>5. seen \subseteq Seen(seen, e)
    BY DEF Seen
  <2>6. \A x : InQueue(b, x) => InQueue(c, x)
    BY DEF Kept, InQueue
  <2>7. CASE p = None \/ <<p, f>> \in seen
    BY <2>4, <2>5, <2>7, <2>2 DEF Notified
  <2>8. CASE InQueue(a, ChildTerminated(p, f))
    <3>1. CASE e = ChildTerminated(p, f)
      <4>1. <<p, f>> \in Seen(seen, e)
        BY <3>1 DEF Seen, ChildTerminated
      <4> QED
        BY <2>2, <2>4, <4>1 DEF Notified
    <3>2. CASE e # ChildTerminated(p, f)
      <4>1. InQueue(b, ChildTerminated(p, f))
        BY <2>8, <3>2 DEF InQueue, Popped
      <4> QED
        BY <2>2, <2>4, <2>6, <4>1 DEF Notified
    <3> QED
      BY <3>1, <3>2
  <2>9. CASE Has(a, "FrameTerminated", f)
    <3>1. CASE Has(b, "FrameTerminated", f)
      BY <2>2, <3>1, HasKept DEF Notified
    <3>2. CASE e.type = "FrameTerminated" /\ e.frame = f /\ p # None
      <4>1. c = on_frame_terminated(b, f)
        BY <3>2 DEF Handle
      <4>2. Barren(b, {})
        BY <1>1 DEF Barren, Childless
      <4>3. Appended(b, c, ChildTerminated(p, f))
        BY <1>1, <1>3, <2>1, <2>3, <3>2, <4>1, <4>2, TerminatedHandled
      <4> QED
        BY <2>2, <2>4, <4>3 DEF Appended, Notified, InQueue
    <3> QED
      BY <2>7, <2>9, <3>1, <3>2, PoppedHas
  <2> QED
    BY <2>1, <2>3, <2>7, <2>8, <2>9 DEF Notified
<1> QED
  BY <1>2, <1>3 DEF Announced

(* The step of the loop that handles event e of a. *)
Taken(a, b, c, d, e, fails, stale) ==
  /\ a.queue # <<>> /\ e = Head(a.queue) /\ PopOf(a, b)
  /\ c = Handle(b, e, fails, stale) /\ ~c.full /\ ClearOf(c, d)

LEMMA EventSound ==
  ASSUME NEW a, NEW seen, Sound(a, seen), NEW b, NEW c, NEW d, NEW e, NEW fails, NEW stale,
         Taken(a, b, c, d, e, fails, stale)
  PROVE  /\ Sound(d, Seen(seen, e)) /\ Joined(a, d)
         /\ AllDriven(a, {}) => c.err \/ AllDriven(d, {})
         /\ a.n <= d.n /\ d.spawned = c.spawned /\ c.err \in BOOLEAN
<1>1. /\ Typed(a) /\ ~a.err /\ Barren(a, {}) /\ Known(a, seen) /\ NoGap(a)
      /\ \A f \in 1..a.n : Ended(a, f) => f \in a.loaded
  BY DEF Sound, Known
<1>2. /\ a.queue # <<>> /\ e = Head(a.queue) /\ PopOf(a, b)
       /\ c = Handle(b, e, fails, stale) /\ ~c.full /\ ClearOf(c, d)
  BY DEF Taken
<1>3. Typed(b) /\ Popped(a, b, e) /\ EventOf(a, e)
  BY <1>1, <1>2, PopIs
<1>4. Handled(b, c, AllDriven(a, {}))
  BY <1>1, <1>3, <1>2, EventHandled
<1>5. /\ Typed(c) /\ Kept(b, c) /\ Announced(b, c) /\ Barren(c, {}) /\ Joined(b, c)
      /\ AllDriven(a, {}) => c.err \/ AllDriven(c, {})
  BY <1>4 DEF Handled, Moved
<1>6. Known(c, Seen(seen, e))
  BY <1>1, <1>3, <1>5, <1>2, EventKnown
<1>7. /\ Moved(c, d, {}, {}) /\ d.n = c.n /\ d.frame = c.frame /\ d.queue = c.queue
      /\ d.loaded = c.loaded /\ d.full = c.full /\ d.spawned = c.spawned /\ ~d.err /\ Typed(d)
  BY <1>5, <1>2, ClearMoves DEF Moved
<1>8. b.n = a.n /\ b.frame = a.frame /\ b.rows = a.rows
  BY <1>3 DEF Popped
<1>9. NoGap(b)
  BY <1>1, <1>8 DEF NoGap
<1>10. NoGap(d)
  <2>1. c.n \in Nat /\ d.n \in Nat /\ Kept(c, d)
    BY <1>5, <1>7 DEF Typed, FramesOf, Moved
  <2> QED
    BY <1>3, <1>5, <1>9, <2>1, NoGapKept
<1>11. Known(d, Seen(seen, e))
  BY <1>6, <1>7 DEF Known, Notified, Ended, Has, InQueue
<1>12. Barren(d, {})
  BY <1>5, <1>7, BarrenKept
<1>13. ASSUME AllDriven(c, {}) PROVE AllDriven(d, {})
  BY <1>5, <1>7, <1>13, AllDrivenKept
<1>14. Joined(a, d)
  BY <1>5, <1>7, <1>8 DEF Joined, Children, Ended
<1>15. a.n <= d.n /\ c.err \in BOOLEAN
  BY <1>5, <1>7, <1>8 DEF Kept, Typed
<1> QED
  BY <1>5, <1>7, <1>10, <1>11, <1>12, <1>13, <1>14, <1>15, <1>2 DEF Sound

-----------------------------------------------------------------------------
(* Steps of the others: jobs, the tasks that write clichés, a person.      *)

Beside(a, b) ==
  /\ b.n = a.n /\ b.loaded = a.loaded /\ b.asked = a.asked /\ b.err = a.err /\ b.full = a.full
  /\ b.spawned = a.spawned
  /\ \A f \in 1..a.n : /\ b.frame[f].status = a.frame[f].status
                       /\ b.frame[f].response = a.frame[f].response
                       /\ b.frame[f].parent = a.frame[f].parent
                       /\ b.frame[f].kind = a.frame[f].kind
  /\ \A i \in DOMAIN a.queue : i \in DOMAIN b.queue /\ b.queue[i] = a.queue[i]
  /\ \A f : f \in a.lost \/ (\E job \in a.jobs : job.frame = f) =>
       f \in b.lost \/ (\E job \in b.jobs : job.frame = f) \/ Has(b, "FrameRunJobStateUpdate", f)

LEMMA BesideSound ==
  ASSUME NEW a, NEW b, NEW seen, Sound(a, seen), Typed(b), Beside(a, b), NoGap(b)
  PROVE  Sound(b, seen) /\ Joined(a, b) /\ (AllDriven(a, {}) => AllDriven(b, {}))
<1>1. b.n = a.n /\ \A f \in 1..a.n : Ended(b, f) <=> Ended(a, f)
  BY DEF Beside, Ended
<1>2. \A type, f : Has(a, type, f) => Has(b, type, f)
  BY DEF Beside, Has
<1>3. \A e : InQueue(a, e) => InQueue(b, e)
  BY DEF Beside, InQueue
<1>4. \A f : Children(b, f) = Children(a, f)
  BY <1>1 DEF Beside, Children
<1>5. Barren(b, {})
  BY <1>1 DEF Sound, Beside, Barren, Childless
<1>6. Known(b, seen)
  BY <1>1, <1>2, <1>3 DEF Sound, Beside, Known, Notified
<1>7. ASSUME NEW f \in 1..a.n, Driven(a, f) PROVE Driven(b, f)
  <2>1. b.frame[f].status = a.frame[f].status /\ b.frame[f].response = a.frame[f].response
    BY DEF Beside
  <2>2. CASE a.frame[f].status = "WaitingChildren"
    <3>1. \A c \in Children(a, f) : c \in 1..a.n
      BY DEF Children
    <3> QED
      BY <1>1, <1>2, <1>4, <1>7, <2>1, <2>2, <3>1 DEF Driven, Beside
  <2>3. CASE a.frame[f].status # "WaitingChildren"
    BY <1>2, <1>7, <2>1, <2>3 DEF Driven, Beside
  <2> QED
    BY <2>2, <2>3
<1>8. Joined(a, b)
  BY <1>1 DEF Joined, Beside
<1> QED
  BY <1>1, <1>5, <1>6, <1>7, <1>8 DEF Sound, Beside, AllDriven

(* The least index without a value. *)
LEMMA FirstOpen ==
  ASSUME NEW logs \in Seq(Entry), Unresolved(logs) # {}
  PROVE  (CHOOSE i \in Unresolved(logs) : \A j \in Unresolved(logs) : i <= j) \in DOMAIN logs
<1> DEFINE T == Unresolved(logs)
           R == OpToRel(<, Nat)
<1>1. T \in SUBSET Nat /\ T # {} /\ T \subseteq DOMAIN logs
  BY DEF Unresolved
<1>2. PICK x \in T : \A y \in T : ~(<<y, x>> \in R)
  <2>1. IsWellFoundedOn(R, Nat)
    BY NatLessThanWellFounded
  <2> HIDE DEF R, T
  <2> QED
    BY <1>1, <2>1, WFMin
<1>3. \A y \in T : x <= y
  <2> TAKE y \in T
  <2>1. x \in Nat /\ y \in Nat
    BY <1>1
  <2>2. y < x => <<y, x>> \in R
    BY <2>1 DEF OpToRel
  <2>3. ~(y < x)
    BY <1>2, <2>2
  <2> HIDE DEF R, T
  <2> QED
    BY <2>1, <2>3
<1> HIDE DEF T
<1>4. (CHOOSE i \in T : \A j \in T : i <= j) \in T
  BY <1>3
<1> QED
  BY <1>1, <1>4 DEF T

LEMMA RequestedAnswer ==
  ASSUME NEW result \in Requests, NEW new_logs \in Seq(Entry), NEW r \in Requested(result, new_logs)
  PROVE  r \in Answer
<1>1. PICK n \in (IF result \in {"ConsultExperts", "CallTools"} THEN 1..MaxRequests ELSE {1}),
           u \in {{}, NodeWrites} : r = Response(result, n, u, new_logs)
  BY DEF Requested
<1>2. n \in Nat /\ n >= 1
  BY <1>1, CheckpointerAssumption
<1> QED
  BY <1>1, <1>2 DEF Response, Answer, Results

LEMMA NodeAnswer ==
  ASSUME NEW logs \in Seq(Entry), NEW r \in NodeResponses(logs)
  PROVE  r \in Answer
<1> DEFINE open == Unresolved(logs)
           first == CHOOSE i \in open : \A j \in open : i <= j
           Logged(content) == <<[index |-> Len(logs), content |-> content, done |-> FALSE]>>
<1>1. r \in IF open # {} THEN Requested(logs[first].content, <<>>)
            ELSE (UNION {Requested(q, Logged(q)) : q \in Requests})
                 \cup {Response("Continue", n, u, <<>>) : n \in {0, 1}, u \in {{}, NodeWrites}}
                 \cup {Response("Fork", n, {}, <<>>) : n \in 1..MaxRequests}
                 \cup {Response(q, 1, u, <<>>) : q \in {"GoTo", "Completed"}, u \in {{}, NodeWrites}}
                 \cup {Response("Failed", 0, {}, <<>>)}
  BY DEF NodeResponses
<1>2. <<>> \in Seq(Entry)
  OBVIOUS
<1>3. CASE open # {}
  <2>1. first \in DOMAIN logs
    BY <1>3, FirstOpen
  <2> HIDE DEF first, open
  <2>2. logs[first] \in Entry
    BY <2>1
  <2>3. logs[first].content \in Requests
    BY <2>2 DEF Entry
  <2>4. r \in Requested(logs[first].content, <<>>)
    BY <1>1, <1>3
  <2> QED
    BY <1>2, <2>3, <2>4, RequestedAnswer
<1>4. ASSUME NEW q \in Requests, r \in Requested(q, Logged(q)) PROVE r \in Answer
  <2>1. [index |-> Len(logs), content |-> q, done |-> FALSE] \in Entry
    BY DEF Entry
  <2>2. Logged(q) \in Seq(Entry)
    BY <2>1
  <2> HIDE DEF Logged
  <2> QED
    BY <1>4, <2>2, RequestedAnswer
<1>5. ASSUME NEW n \in {0, 1}, NEW u \in {{}, NodeWrites}, r = Response("Continue", n, u, <<>>)
      PROVE  r \in Answer
  BY <1>2, <1>5 DEF Response, Answer, Results
<1>6. ASSUME NEW n \in 1..MaxRequests, r = Response("Fork", n, {}, <<>>) PROVE r \in Answer
  <2>1. n \in Nat
    BY CheckpointerAssumption
  <2> QED
    BY <1>2, <1>6, <2>1 DEF Response, Answer, Results
<1>7. ASSUME NEW q \in {"GoTo", "Completed"}, NEW u \in {{}, NodeWrites},
             r = Response(q, 1, u, <<>>)
      PROVE  r \in Answer
  BY <1>2, <1>7 DEF Response, Answer, Results
<1>8. ASSUME r = Response("Failed", 0, {}, <<>>) PROVE r \in Answer
  BY <1>2, <1>8 DEF Response, Answer, Results
<1>9. CASE open = {}
  <2> HIDE DEF Logged, first, open
  <2>1. \/ \E q \in Requests : r \in Requested(q, Logged(q))
        \/ \E n \in {0, 1}, u \in {{}, NodeWrites} : r = Response("Continue", n, u, <<>>)
        \/ \E n \in 1..MaxRequests : r = Response("Fork", n, {}, <<>>)
        \/ \E q \in {"GoTo", "Completed"}, u \in {{}, NodeWrites} : r = Response(q, 1, u, <<>>)
        \/ r = Response("Failed", 0, {}, <<>>)
    BY <1>1, <1>9
  <2> QED
    BY <2>1, <1>4, <1>5, <1>6, <1>7, <1>8
<1> QED
  BY <1>3, <1>9

(* What any job answers is an answer. *)
LEMMA JobAnswer ==
  ASSUME NEW job, job.logs \in Seq(Entry),
         NEW r \in Responses(job) \cup {Response("JobFailed", 0, {}, <<>>)}
  PROVE  r \in Answer
<1>1. <<>> \in Seq(Entry)
  OBVIOUS
<1>2. CASE r = Response("JobFailed", 0, {}, <<>>)
  BY <1>1, <1>2 DEF Response, Answer
<1>3. ASSUME r \in NodeResponses(job.logs) PROVE r \in Answer
  BY <1>3, NodeAnswer
<1>4. ASSUME NEW kind \in {"Tool", "Expert"}, r = Response("Completed", 0, Writes(kind), <<>>)
      PROVE  r \in Answer
  <2>1. Writes(kind) \in {tool_writes, expert_writes}
    BY DEF Writes
  <2> QED
    BY <1>1, <1>4, <2>1 DEF Response, Answer, Results
<1>5. ASSUME r = Response("Failed", 0, {}, <<>>) PROVE r \in Answer
  BY <1>1, <1>5 DEF Response, Answer, Results
<1>6. CASE r \in Responses(job)
  <2>1. PICK kind : kind = s.frame[job.frame].kind
    OBVIOUS
  <2>2. Responses(job) = CASE kind = "Node" -> NodeResponses(job.logs)
                           [] kind \in {"Tool", "Expert"} ->
                                {Response("Completed", 0, Writes(kind), <<>>),
                                 Response("Failed", 0, {}, <<>>)}
                           [] OTHER -> {}
    BY <2>1 DEF Responses
  <2>3. \/ r \in NodeResponses(job.logs)
        \/ kind \in {"Tool", "Expert"} /\ r = Response("Completed", 0, Writes(kind), <<>>)
        \/ r = Response("Failed", 0, {}, <<>>)
    BY <1>6, <2>2
  <2> QED
    BY <2>3, <1>3, <1>4, <1>5
<1> QED
  BY <1>2, <1>6

-----------------------------------------------------------------------------

AnswerOf(a, b, job, r) == b = [emit(a, JobUpdate(job.frame, r)) EXCEPT !.jobs = @ \ {job}]

LEMMA JobEndsBeside ==
  ASSUME NEW a, Typed(a), NEW job \in a.jobs, NEW r \in Answer, NEW b, AnswerOf(a, b, job, r)
  PROVE  Typed(b) /\ Beside(a, b) /\ b.rows = a.rows /\ b.frame = a.frame
<1>1. PICK m : m = emit(a, JobUpdate(job.frame, r))
  OBVIOUS
<1>2. b = [m EXCEPT !.jobs = @ \ {job}]
  BY <1>1 DEF AnswerOf
<1>3. PICK e : e = JobUpdate(job.frame, r)
  OBVIOUS
<1>4. job.frame \in 1..a.n /\ a.n \in Nat
  BY DEF Typed, JobsOf, FramesOf
<1>5. EventOf(a, e) /\ e.type = "FrameRunJobStateUpdate" /\ e.frame = job.frame
  BY <1>3, <1>4, EventsAre DEF JobUpdate
<1>6. Moved(a, m, {}, {}) /\ Appended(a, m, e) /\ EmitOf(a, m, e)
  BY <1>3, <1>5, <1>1, EmitMoves
<1>7. Typed(m) /\ RecordOf(m)
  BY <1>6 DEF Moved, Typed
<1>8. /\ RecordOf(b) /\ b.queue = m.queue
      /\ b.frame = m.frame /\ b.loaded = m.loaded
      /\ b.n = m.n /\ b.dirty = m.dirty /\ b.writes = m.writes /\ b.rows = m.rows
      /\ b.jobs = m.jobs \ {job} /\ b.spawned = m.spawned /\ b.lost = m.lost
      /\ b.asked = m.asked /\ b.err = m.err /\ b.full = m.full
  BY ONLY <1>7, <1>2 DEF RecordOf
<1>9. FramesOf(b) /\ QueueOf(b) /\ JobsOf(b) /\ ClichesOf(b)
  BY <1>7, <1>8 DEF Typed, FramesOf, QueueOf, JobsOf, ClichesOf, Ahead
<1>10. Typed(b)
  BY <1>7, <1>8, <1>9 DEF Typed
<1>11. /\ b.queue = m.queue /\ b.frame = a.frame /\ b.loaded = a.loaded /\ b.n = a.n
      /\ b.rows = a.rows /\ b.jobs = a.jobs \ {job} /\ b.spawned = a.spawned /\ b.lost = a.lost
      /\ b.asked = a.asked /\ b.err = a.err /\ b.full = a.full
  BY <1>6, <1>8 DEF EmitOf
<1>12. Has(b, "FrameRunJobStateUpdate", job.frame)
  <2>1. Has(m, "FrameRunJobStateUpdate", job.frame)
    BY <1>5, <1>6, HasAppended
  <2> QED
    BY <1>11, <2>1 DEF Has
<1>13. Beside(a, b)
  BY <1>6, <1>11, <1>12 DEF Beside, Appended
<1> QED
  BY <1>10, <1>11, <1>13

LEMMA JobLostBeside ==
  ASSUME NEW a, Typed(a), NEW job \in a.jobs,
         NEW b, b = [a EXCEPT !.jobs = @ \ {job}, !.lost = @ \cup {job.frame}]
  PROVE  Typed(b) /\ Beside(a, b) /\ b.rows = a.rows /\ b.frame = a.frame
<1>1. RecordOf(a)
  BY DEF Typed
<1>2. /\ RecordOf(b) /\ b.queue = a.queue
      /\ b.frame = a.frame /\ b.loaded = a.loaded
      /\ b.n = a.n /\ b.dirty = a.dirty /\ b.writes = a.writes /\ b.rows = a.rows
      /\ b.jobs = a.jobs \ {job} /\ b.spawned = a.spawned /\ b.lost = a.lost \cup {job.frame}
      /\ b.asked = a.asked /\ b.err = a.err /\ b.full = a.full
  BY ONLY <1>1, b = [a EXCEPT !.jobs = @ \ {job}, !.lost = @ \cup {job.frame}] DEF RecordOf
<1>3. FramesOf(b) /\ QueueOf(b) /\ JobsOf(b) /\ ClichesOf(b)
  BY <1>2 DEF Typed, FramesOf, QueueOf, JobsOf, ClichesOf, Ahead
<1>4. Typed(b)
  BY <1>2, <1>3 DEF Typed
<1>5. Beside(a, b)
  BY <1>2 DEF Beside
<1> QED
  BY <1>2, <1>4, <1>5

LEMMA WriteFailsBeside ==
  ASSUME NEW a, Typed(a), NEW w, NEW b, b = [a EXCEPT !.writes = @ \ {w}]
  PROVE  Typed(b) /\ Beside(a, b) /\ b.rows = a.rows /\ b.frame = a.frame
<1>1. RecordOf(a)
  BY DEF Typed
<1>2. /\ RecordOf(b) /\ b.queue = a.queue
      /\ b.frame = a.frame /\ b.loaded = a.loaded
      /\ b.n = a.n /\ b.dirty = a.dirty /\ b.writes = a.writes \ {w} /\ b.rows = a.rows
      /\ b.jobs = a.jobs /\ b.spawned = a.spawned /\ b.lost = a.lost
      /\ b.asked = a.asked /\ b.err = a.err /\ b.full = a.full
  BY ONLY <1>1, b = [a EXCEPT !.writes = @ \ {w}] DEF RecordOf
<1>3. FramesOf(b) /\ QueueOf(b) /\ JobsOf(b) /\ ClichesOf(b)
  BY <1>2 DEF Typed, FramesOf, QueueOf, JobsOf, ClichesOf, Ahead
<1>4. Typed(b)
  BY <1>2, <1>3 DEF Typed
<1>5. Beside(a, b)
  BY <1>2 DEF Beside
<1> QED
  BY <1>2, <1>4, <1>5

LEMMA HitlBeside ==
  ASSUME NEW a, Typed(a), NEW b, b = emit(a, [type |-> "HitlAnswered"])
  PROVE  Typed(b) /\ Beside(a, b) /\ b.rows = a.rows /\ b.frame = a.frame
<1>1. PICK e : e = [type |-> "HitlAnswered"]
  OBVIOUS
<1>2. EventOf(a, e)
  BY <1>1 DEF EventOf, Event
<1>3. Moved(a, b, {}, {}) /\ Appended(a, b, e) /\ EmitOf(a, b, e)
  BY <1>1, <1>2, EmitMoves
<1> QED
  BY <1>3 DEF Moved, EmitOf, Beside, Appended

LEMMA NoGapSame ==
  ASSUME NEW a, NEW b, NoGap(a), b.n = a.n, b.rows = a.rows, b.frame = a.frame PROVE NoGap(b)
BY DEF NoGap

(* A cliché that is written is at most one superstep ahead of the rows. *)
LEMMA WriteBeside ==
  ASSUME NEW a, Typed(a), NoGap(a), NEW w \in a.writes, NEW b, b = Written(a, w)
  PROVE  Typed(b) /\ Beside(a, b) /\ NoGap(b)
<1>1. PICK f, k : f = w[1] /\ k = w[2]
  OBVIOUS
<1>2. PICK old : old = a.frame[f].superstep
  OBVIOUS
<1>3. PICK new : new = IF old < k THEN k ELSE old
  OBVIOUS
<1>4. PICK row : row = [a.frame[f] EXCEPT !.superstep = new]
  OBVIOUS
<1>5. PICK frames : frames = [a.frame EXCEPT ![f] = row]
  OBVIOUS
<1>6. PICK rows : rows = (a.rows \ Of(a.rows, f, k)) \cup {w}
  OBVIOUS
<1>7. b = [a EXCEPT !.writes = a.writes \ {w}, !.rows = rows, !.frame = frames]
  BY <1>1, <1>2, <1>3, <1>4, <1>5, <1>6 DEF Written
<1>8. RecordOf(a)
  BY DEF Typed
<1>9. /\ RecordOf(b) /\ b.queue = a.queue
      /\ b.frame = frames /\ b.loaded = a.loaded
      /\ b.n = a.n /\ b.dirty = a.dirty /\ b.writes = a.writes \ {w} /\ b.rows = rows
      /\ b.jobs = a.jobs /\ b.spawned = a.spawned /\ b.lost = a.lost
      /\ b.asked = a.asked /\ b.err = a.err /\ b.full = a.full
  BY ONLY <1>7, <1>8 DEF RecordOf
<1>10. f \in 1..a.n /\ k \in Nat /\ k <= old + 1
  BY <1>1, <1>2 DEF Typed, ClichesOf, Ahead
<1>11. /\ a.frame[f] \in FrameRow /\ a.frame \in Seq(FrameRow) /\ Len(a.frame) = a.n /\ a.n \in Nat
  BY <1>10 DEF Typed, FramesOf
<1>12. old \in Int /\ old >= -1 /\ new \in Nat /\ old <= new
  <2>1. old \in {NoSnapshot} \cup Nat
    BY <1>2, <1>11 DEF FrameRow
  <2> QED
    BY <2>1, <1>3, <1>10 DEF NoSnapshot
<1>13. /\ row \in FrameRow /\ row.superstep = new /\ row.status = a.frame[f].status
       /\ row.response = a.frame[f].response /\ row.parent = a.frame[f].parent
       /\ row.kind = a.frame[f].kind
  BY <1>4, <1>11, <1>12 DEF FrameRow
<1>14. /\ b.frame \in Seq(FrameRow) /\ Len(b.frame) = a.n
       /\ \A g \in 1..a.n : b.frame[g] = IF g = f THEN row ELSE a.frame[g]
  BY ONLY <1>5, <1>9, <1>10, <1>11, <1>13
<1>15. \A g \in 1..a.n : /\ b.frame[g].status = a.frame[g].status
                         /\ b.frame[g].response = a.frame[g].response
                         /\ b.frame[g].parent = a.frame[g].parent
                         /\ b.frame[g].kind = a.frame[g].kind
  BY <1>13, <1>14
<1>16. FramesOf(b)
  <2>1. FramesOf(a)
    BY DEF Typed
  <2>2. \A g \in 1..a.n : b.frame[g].parent < g
    BY <2>1, <1>15 DEF FramesOf
  <2>3. \A g \in 1..a.n : Answered(b.frame[g])
    BY <2>1, <1>15 DEF FramesOf, Answered
  <2>4. b.loaded \subseteq 1..b.n
    BY <2>1, <1>9 DEF FramesOf
  <2> QED
    BY ONLY <2>2, <2>3, <2>4, <1>9, <1>11, <1>14 DEF FramesOf
<1>17. QueueOf(b) /\ JobsOf(b)
  BY <1>9 DEF Typed, QueueOf, JobsOf
<1>18. ClichesOf(b)
  <2>1. Kin(a.frame, b.frame)
    <3>1. Len(b.frame) \in Nat /\ a.n <= Len(b.frame)
      BY <1>11, <1>14
    <3> QED BY ONLY Typed(a), <1>15, <3>1, FramesKin
  <2>2. ASSUME NEW v \in a.dirty \cup a.writes PROVE Ahead(b, v)
    <3>1. /\ v[1] \in 1..a.n /\ v[2] \in Nat /\ v[2] <= a.frame[v[1]].superstep + 1
          /\ Sourced(a.frame, v)
      BY DEF Typed, ClichesOf, Ahead
    <3>2. v[2] <= b.frame[v[1]].superstep + 1
      <4>1. CASE v[1] = f
        <5>1. v[2] <= old + 1 /\ b.frame[v[1]].superstep = new
          BY <1>2, <1>13, <1>14, <3>1, <4>1
        <5> QED BY <1>12, <3>1, <5>1
      <4>2. CASE v[1] # f
        BY <1>14, <3>1, <4>2
      <4> QED BY <4>1, <4>2
    <3>3. Sourced(b.frame, v)
      BY <2>1, <3>1, SourcedKept
    <3> QED BY <1>9, <3>1, <3>2, <3>3 DEF Ahead
  <2>3. ASSUME NEW v \in b.rows PROVE Sourced(b.frame, v)
    <3>1. Sourced(a.frame, v)
      BY <1>6, <1>9, <2>3 DEF Typed, ClichesOf, Ahead
    <3> QED BY <2>1, <3>1, SourcedKept
  <2>4. ASSUME NEW g \in 1..a.n PROVE Present(b.rows, g, b.frame[g].superstep)
    <3>1. Present(a.rows, g, a.frame[g].superstep)
      BY DEF Typed, ClichesOf
    <3>2. w \in b.rows /\ \A r \in a.rows : r[1] # f \/ r[2] # k => r \in b.rows
      BY <1>6, <1>9 DEF Of
    <3>3. CASE g # f
      BY <1>14, <3>1, <3>2, <3>3 DEF Present
    <3>4. CASE g = f /\ new = k
      BY <1>1, <1>13, <1>14, <3>2, <3>4 DEF Present
    <3>5. CASE g = f /\ new # k
      <4>1. new = old /\ old # k /\ b.frame[f].superstep = old
        BY <1>3, <1>10, <1>13, <1>14, <3>5
      <4> QED BY <1>2, <3>1, <3>2, <3>5, <4>1 DEF Present
    <3> QED BY <3>3, <3>4, <3>5
  <2> QED BY <1>9, <2>2, <2>3, <2>4 DEF ClichesOf
<1>19. Typed(b)
  BY <1>9, <1>16, <1>17, <1>18 DEF Typed
<1>20. Beside(a, b)
  BY <1>9, <1>15 DEF Beside
<1>21. \A r \in b.rows : r[1] \in 1..b.n
  BY <1>1, <1>6, <1>9, <1>10 DEF NoGap
<1>22. ASSUME NEW g \in 1..a.n, g # f PROVE Steps(b.rows, g) = 0..b.frame[g].superstep
  <2>1. {r \in b.rows : r[1] = g} = {r \in a.rows : r[1] = g}
    BY <1>1, <1>6, <1>9, <1>22 DEF Of
  <2>2. Steps(b.rows, g) = Steps(a.rows, g)
    BY <2>1 DEF Steps
  <2> QED
    BY <1>14, <1>22, <2>2 DEF NoGap
<1>23. Steps(b.rows, f) = 0..b.frame[f].superstep
  <2>1. Steps(a.rows, f) = 0..old
    BY <1>2, <1>10 DEF NoGap
  <2>2. Steps(b.rows, f) = (0..old) \cup {k}
    <3>1. ASSUME NEW x PROVE x \in Steps(b.rows, f) <=> x \in Steps(a.rows, f) \/ x = k
      BY <1>1, <1>6, <1>9 DEF Steps, Of
    <3> QED
      BY <2>1, <3>1
  <2>3. (0..old) \cup {k} = 0..new
    BY <1>3, <1>10, <1>12
  <2>4. b.frame[f].superstep = new
    BY <1>10, <1>13, <1>14
  <2> QED
    BY <2>2, <2>3, <2>4
<1>24. NoGap(b)
  BY <1>9, <1>21, <1>22, <1>23 DEF NoGap
<1> QED
  BY <1>19, <1>20, <1>24

LEMMA ReplaceBeside ==
  ASSUME NEW a, Typed(a), NEW f, NEW k, NEW b, b = Replace(a, f, k)
  PROVE  Typed(b) /\ Beside(a, b) /\ b.rows = a.rows /\ b.frame = a.frame
<1>1. RecordOf(a)
  BY DEF Typed
<1>2. PICK w, d : w = a.writes \cup Of(a.dirty, f, k) /\ d = a.dirty \ Of(a.dirty, f, k)
  OBVIOUS
<1>3. b = [a EXCEPT !.writes = w, !.dirty = d]
  BY <1>2 DEF Replace
<1>4. /\ b.queue = a.queue /\ b.frame = a.frame /\ b.loaded = a.loaded
      /\ b.n = a.n /\ b.rows = a.rows
      /\ b.jobs = a.jobs /\ b.spawned = a.spawned /\ b.lost = a.lost
      /\ b.asked = a.asked /\ b.err = a.err /\ b.full = a.full
  BY ONLY <1>1, <1>3 DEF RecordOf
<1>5. Typed(b)
  BY ReplaceCaches DEF Cached, Moved
<1>6. Beside(a, b)
  BY <1>4 DEF Beside
<1> QED
  BY <1>4, <1>5, <1>6

(* A task that overtakes a commit is one more step beside the handler. *)
LEMMA OvertakenSound ==
  ASSUME NEW a, NEW seen, Sound(a, seen), NEW f, NEW b \in Overtaken(a, f)
  PROVE  /\ Sound(b, seen) /\ (AllDriven(a, {}) => AllDriven(b, {}))
         /\ b.n = a.n /\ b.spawned = a.spawned
         /\ \A g \in 1..a.n : /\ b.frame[g].status = a.frame[g].status
                              /\ b.frame[g].parent = a.frame[g].parent
                              /\ b.frame[g].kind = a.frame[g].kind
<1>1. PICK w \in a.writes : b = Replace(Written(a, w), f, w[2])
  BY DEF Overtaken
<1>2. PICK m : m = Written(a, w)
  OBVIOUS
<1>3. Typed(m) /\ Beside(a, m) /\ NoGap(m)
  BY <1>2, WriteBeside DEF Sound
<1>4. Sound(m, seen) /\ (AllDriven(a, {}) => AllDriven(m, {}))
  BY <1>3, BesideSound
<1>5. Typed(b) /\ Beside(m, b) /\ b.rows = m.rows /\ b.frame = m.frame
  BY <1>1, <1>2, <1>3, ReplaceBeside
<1>6. NoGap(b)
  BY <1>3, <1>5, NoGapSame DEF Beside
<1>7. Sound(b, seen) /\ (AllDriven(m, {}) => AllDriven(b, {}))
  BY <1>4, <1>5, <1>6, BesideSound
<1>8. /\ b.n = a.n /\ b.spawned = a.spawned
      /\ \A g \in 1..a.n : /\ b.frame[g].status = a.frame[g].status
                           /\ b.frame[g].parent = a.frame[g].parent
                           /\ b.frame[g].kind = a.frame[g].kind
  BY <1>3, <1>5 DEF Beside
<1> QED
  BY <1>4, <1>7, <1>8

(* Nor does it make a frame run. *)
LEMMA OvertakenJoined ==
  ASSUME NEW a, NEW d, NEW b, Joined(a, d), b.n = d.n,
         \A g \in 1..d.n : /\ b.frame[g].status = d.frame[g].status
                           /\ b.frame[g].parent = d.frame[g].parent
                           /\ b.frame[g].kind = d.frame[g].kind
  PROVE  Joined(a, b)
<1>1. \A g : Children(b, g) = Children(d, g)
  BY DEF Children
<1>2. \A g : \A c \in Children(d, g) : Ended(d, c) => Ended(b, c)
  BY DEF Children, Ended
<1> QED
  BY <1>1, <1>2 DEF Joined

-----------------------------------------------------------------------------
(* A session that was just loaded *)

LEMMA SetToSeqOnto ==
  ASSUME NEW S, IsFiniteSet(S)
  PROVE  /\ Cardinality(S) \in Nat /\ SetToSeq(S) \in [1..Cardinality(S) -> S]
         /\ \A x \in S : \E i \in 1..Cardinality(S) : SetToSeq(S)[i] = x
<1>1. PICK m : m = Cardinality(S)
  OBVIOUS
<1>2. m \in Nat /\ ExistsBijection(1..m, S)
  BY <1>1, FS_CardinalityType
<1>3. \E g \in [1..m -> S] : IsInjective(g)
  BY <1>2 DEF ExistsBijection, Bijection, Injection
<1>4. PICK q : q = SetToSeq(S)
  OBVIOUS
<1>5. q \in [1..m -> S] /\ IsInjective(q)
  BY <1>1, <1>3, <1>4 DEF SetToSeq
<1>6. q \in Injection(1..m, S)
  BY <1>5 DEF Injection
<1>7. Cardinality(1..m) = m
  BY <1>2, FS_Interval
<1>8. q \in Surjection(1..m, S)
  BY <1>1, <1>6, <1>7, FS_Injection
<1> QED
  BY <1>1, <1>2, <1>4, <1>5, <1>8 DEF Surjection

LEMMA LoadedSound ==
  ASSUME NEW t \in Trees, NEW past \in {"none", "ran"},
         NEW st, st = Loaded(t, past)
  PROVE  Sound(st, {}) /\ AllDriven(st, {}) /\ st.n \in Frame /\ st.spawned = 0
<1>1. PICK n : n = Len(t.kind)
  OBVIOUS
<1>2. PICK L : L = {f \in 1..n : Leaf(t, f)}
  OBVIOUS
<1>3. PICK q : q = SetToSeq(L)
  OBVIOUS
<1>0. PICK k, N : k = (IF past = "none" THEN NoSnapshot ELSE 0) /\ N = (IF past = "none" THEN {} ELSE 1..n)
  OBVIOUS
<1>4. PICK frames : frames = [f \in 1..n |->
        [NewFrame(t.kind[f], t.parent[f]) EXCEPT
           !.superstep = k, !.status = IF Leaf(t, f) THEN "Pending" ELSE "WaitingChildren"]]
  OBVIOUS
<1> DEFINE channels(f) == [ch \in IF past = "ran" THEN Writes(t.kind[f]) ELSE {} |-> Number(f)]
<1>5. PICK rows : rows = {<<f, 0, channels(f)>> : f \in N}
  OBVIOUS
<1>6. PICK queue : queue = [i \in DOMAIN q |-> FrameCreated(q[i])]
  OBVIOUS
<1>7. st = [n |-> n, frame |-> frames, loaded |-> {}, dirty |-> {}, writes |-> {}, rows |-> rows,
            queue |-> queue, jobs |-> {}, spawned |-> 0, lost |-> {}, asked |-> {},
            err |-> FALSE, full |-> FALSE]
  BY <1>0, <1>1, <1>2, <1>3, <1>4, <1>5, <1>6 DEF Loaded
<1> HIDE DEF channels
<1>8. /\ st.n = n /\ st.frame = frames /\ st.loaded = {} /\ st.dirty = {} /\ st.writes = {}
      /\ st.rows = rows /\ st.queue = queue /\ st.jobs = {} /\ st.spawned = 0
      /\ st.lost = {} /\ st.asked = {} /\ st.err = FALSE /\ st.full = FALSE /\ RecordOf(st)
  BY ONLY <1>7 DEF RecordOf
<1>9. /\ n \in Frame /\ n \in Nat /\ n <= MaxFrames /\ t.kind \in Seq(Kind) /\ t.parent \in Seq(Nat)
      /\ Len(t.parent) = n /\ DOMAIN t.parent = 1..n /\ DOMAIN t.kind = 1..n
      /\ \A f \in 1..n : t.parent[f] < f
  BY <1>1, CheckpointerAssumption DEF Frame
<1>10. ASSUME NEW f \in 1..n
       PROVE  /\ frames[f] \in FrameRow /\ frames[f].parent = t.parent[f] /\ frames[f].superstep = k
              /\ frames[f].status = IF Leaf(t, f) THEN "Pending" ELSE "WaitingChildren"
  <2>1. t.kind[f] \in Kind /\ t.parent[f] \in Nat
    BY <1>9
  <2>2. PICK new : new = NewFrame(t.kind[f], t.parent[f])
    OBVIOUS
  <2>3. new \in FrameRow /\ new.parent = t.parent[f]
    BY <2>1, <2>2, NewFrameIs
  <2>4. PICK v : v = IF Leaf(t, f) THEN "Pending" ELSE "WaitingChildren"
    OBVIOUS
  <2>5. v \in Status
    BY <2>4 DEF Status
  <2>6. frames[f] = [new EXCEPT !.superstep = k, !.status = v]
    BY <1>4, <2>2, <2>4
  <2>7. [new EXCEPT !.superstep = k] \in FrameRow /\ k \in {NoSnapshot} \cup Nat
    BY <1>0, <2>3 DEF FrameRow
  <2>8. /\ frames[f] \in FrameRow /\ frames[f].parent = new.parent
        /\ frames[f].superstep = k /\ frames[f].status = v
    BY ONLY <2>3, <2>5, <2>6, <2>7 DEF FrameRow
  <2> QED
    BY <2>3, <2>4, <2>8
<1>11. frames \in Seq(FrameRow) /\ Len(frames) = n
  <2>1. frames \in [1..n -> FrameRow]
    BY <1>4, <1>10
  <2> QED
    BY <1>9, <2>1
<1>12. FramesOf(st)
  <2>1. \A f \in 1..n : frames[f].parent < f /\ Answered(frames[f])
    BY <1>9, <1>10 DEF Answered
  <2> QED
    BY <1>8, <1>9, <1>11, <2>1 DEF FramesOf
<1>13. IsFiniteSet(L) /\ L \subseteq 1..n
  <2>1. IsFiniteSet(1..n)
    BY <1>9, FS_Interval
  <2> QED
    BY <1>2, <2>1, FS_Subset
<1>14. PICK m \in Nat : q \in [1..m -> L] /\ \A x \in L : \E i \in 1..m : q[i] = x
  BY <1>3, <1>13, SetToSeqOnto
<1>15. /\ DOMAIN queue = 1..m
       /\ \A i \in 1..m : queue[i] = FrameCreated(q[i]) /\ q[i] \in 1..n
  BY <1>6, <1>13, <1>14
<1>16. QueueOf(st)
  <2>1. \A i \in 1..m : /\ queue[i] \in Event /\ queue[i].type = "FrameCreated"
                        /\ queue[i].frame \in 1..n
    BY <1>9, <1>15 DEF FrameCreated, Event
  <2>2. queue \in [1..m -> Event]
    BY <1>6, <1>15, <2>1
  <2>3. queue \in Seq(Event)
    BY <2>2
  <2> QED
    BY <1>8, <1>15, <2>1, <2>3 DEF QueueOf
<1>17. Typed(st)
  <2>1. JobsOf(st) /\ ClichesOf(st)
    <3>1. \A f \in N : <<f, 0, channels(f)>> \in rows
      BY <1>5
    <3>2. ASSUME NEW f \in 1..n PROVE Sourced(frames, <<f, 0, channels(f)>>)
      BY <1>11, OwnSourced DEF channels
    <3>3. \A w \in st.rows : Sourced(st.frame, w)
      BY <1>0, <1>5, <1>8, <3>2
    <3>4. ASSUME NEW f \in 1..n, k # NoSnapshot PROVE Present(rows, f, 0)
      <4>1. PICK w : w = <<f, 0, channels(f)>>
        OBVIOUS
      <4>2. w \in rows /\ w[1] = f /\ w[2] = 0
        BY <1>0, <3>1, <3>4, <4>1
      <4> QED BY <4>2 DEF Present
    <3>5. \A f \in 1..st.n : Present(st.rows, f, st.frame[f].superstep)
      <4>1. \A f \in 1..n : Present(rows, f, k)
        BY <1>0, <3>4 DEF Present
      <4> QED BY <1>8, <1>10, <4>1
    <3> QED BY <1>8, <3>3, <3>5 DEF JobsOf, ClichesOf
  <2>2. st.err = FALSE /\ st.full = FALSE /\ st.n = n /\ st.spawned = 0
    BY <1>8
  <2>3. st.err \in BOOLEAN /\ st.full \in BOOLEAN
    BY ONLY <2>2
  <2>4. st.err \in BOOLEAN /\ st.full \in BOOLEAN /\ st.n <= MaxFrames /\ st.spawned \in Nat
    BY ONLY <1>9, <2>2, <2>3
  <2> QED
    BY <1>8, <1>12, <1>16, <2>1, <2>4 DEF Typed
<1>18. \A f \in 1..n : ~Ended(st, f)
  BY <1>8, <1>10 DEF Ended, HasTerminated
<1>19. Barren(st, {})
  <2> SUFFICES ASSUME NEW f \in 1..n, frames[f].status = "Pending",
                      NEW c \in 1..n, frames[c].parent = f
               PROVE  FALSE
    BY <1>8 DEF Barren, Childless
  <2>1. Leaf(t, f)
    BY <1>10
  <2>2. t.parent[c] = f
    BY <1>10
  <2> QED
    BY <1>9, <2>1, <2>2 DEF Leaf
<1>20. NoGap(st)
  <2>1. \A r \in rows : r[1] \in 1..n /\ r[2] = 0
    BY <1>0, <1>5
  <2>2. ASSUME NEW f \in 1..n PROVE Steps(rows, f) = 0..k
    <3>1. CASE past = "none"
      <4>1. rows = {} /\ k = -1
        BY <1>0, <1>5, <3>1 DEF NoSnapshot
      <4>2. 0..k = {}
        BY <4>1
      <4> QED
        BY <4>1, <4>2 DEF Steps
    <3>2. CASE past # "none"
      <4>1. PICK r : r = <<f, 0, channels(f)>>
        OBVIOUS
      <4>2. r \in rows /\ r[1] = f
        BY <1>0, <1>5, <3>2, <4>1
      <4>3. Steps(rows, f) = {0}
        BY <2>1, <4>2 DEF Steps
      <4>4. k = 0 /\ 0..0 = {0}
        BY <1>0, <3>2
      <4> QED
        BY <4>3, <4>4
    <3> QED
      BY <3>1, <3>2
  <2> QED
    BY <1>8, <1>10, <2>1, <2>2 DEF NoGap
<1>21. AllDriven(st, {})
  <2> SUFFICES ASSUME NEW f \in 1..n PROVE Driven(st, f)
    BY <1>8 DEF AllDriven
  <2>1. CASE Leaf(t, f)
    <3>1. PICK i \in 1..m : q[i] = f
      BY <1>2, <1>14, <2>1
    <3>2. queue[i].type = "FrameCreated" /\ queue[i].frame = f
      BY <1>15, <3>1 DEF FrameCreated
    <3>3. Has(st, "FrameCreated", f)
      BY <1>8, <1>15, <3>2 DEF Has
    <3> QED
      BY <1>8, <1>10, <2>1, <3>3 DEF Driven
  <2>2. CASE ~Leaf(t, f)
    <3>1. PICK g \in 1..n : t.parent[g] = f
      BY <1>9, <2>2 DEF Leaf
    <3>2. g \in Children(st, f) /\ ~Ended(st, g)
      BY <1>8, <1>10, <1>18, <3>1 DEF Children
    <3> QED
      BY <1>8, <1>10, <2>2, <3>2 DEF Driven
  <2> QED
    BY <2>1, <2>2
<1>22. Known(st, {})
  BY <1>8, <1>18 DEF Known
<1> QED
  BY <1>8, <1>9, <1>17, <1>19, <1>20, <1>21, <1>22 DEF Sound

-----------------------------------------------------------------------------
(* The specification *)

Loops == {"Starting", "WaitingEvent", "Selecting", "Draining", "Stopping", "Closed"}
Sessions == [status : {"Running", "Failed"}, row : {"Running", "Failed"}]

IInv ==
  /\ Sound(s, told) /\ s.n \in Frame /\ s.spawned \in 0..MaxJobs
  /\ session \in Sessions /\ loop \in Loops
  /\ loop \in {"Stopping", "Closed"} => session.status = "Failed"
  /\ Alive => AllDriven(s, {})

JoinStep ==
  \A f \in 1..s'.n :
    /\ ResumePolicy(s'.frame[f].kind) = "FanIn"
    /\ s'.frame[f].status = "Ready"
    /\ f \in 1..s.n => s.frame[f].status # "Ready"
    => \A c \in Children(s', f) : HasTerminated(s'.frame[c].status)

LEMMA IInvInit == ASSUME Init PROVE IInv
<1>1. PICK t \in Trees, past \in {"none", "ran"} : s = Loaded(t, past)
  BY DEF Init
<1>2. Sound(s, {}) /\ AllDriven(s, {}) /\ s.n \in Frame /\ s.spawned = 0
  BY <1>1, LoadedSound
<1>3. s.spawned \in 0..MaxJobs
  BY <1>2, CheckpointerAssumption
<1> QED
  BY <1>2, <1>3 DEF Init, IInv, Sessions, Loops

LEMMA JoinedStep == ASSUME NEW a, NEW b, a = s, b = s', Joined(a, b) PROVE JoinStep
BY DEF JoinStep, Joined, Ended

(* Nothing but the loop and the session changes. *)
LEMMA LoopStep ==
  ASSUME IInv, UNCHANGED <<s, told>>, session' \in Sessions, loop' \in Loops,
         loop' \in {"Stopping", "Closed"} => session'.status = "Failed",
         Alive' => Alive
  PROVE  IInv' /\ JoinStep
<1>1. IInv'
  BY DEF IInv, Sound
<1>2. JoinStep
  BY DEF JoinStep
<1> QED
  BY <1>1, <1>2

LEMMA BesideStep ==
  ASSUME IInv, UNCHANGED <<session, loop, closing, told>>,
         NEW b, b = s', Typed(b), Beside(s, b), NoGap(b)
  PROVE  IInv' /\ JoinStep
<1>1. PICK a : a = s
  OBVIOUS
<1>2. Sound(b, told) /\ Joined(a, b) /\ (AllDriven(a, {}) => AllDriven(b, {}))
  BY <1>1, BesideSound DEF IInv
<1>3. b.n = a.n /\ b.spawned = a.spawned
  BY <1>1 DEF Beside
<1>4. JoinStep
  BY <1>1, <1>2, JoinedStep
<1>5. IInv'
  BY <1>1, <1>2, <1>3 DEF IInv, Alive
<1> QED
  BY <1>4, <1>5

LEMMA EventStep ==
  ASSUME IInv, run_event PROVE IInv' /\ JoinStep
<1>1. PICK fails \in BOOLEAN, stale \in BOOLEAN :
        LET e == Head(s.queue)
            after == Handle([s EXCEPT !.queue = Tail(@)], e, fails, stale)
        IN /\ s.queue # <<>>
           /\ ~after.full /\ after.spawned <= MaxJobs
           /\ IF stale THEN s' \in Overtaken([after EXCEPT !.err = FALSE], e.frame)
              ELSE s' = [after EXCEPT !.err = FALSE]
           /\ told' = IF e.type # "ChildFrameTerminated" THEN told
                      ELSE told \cup {<<e.frame, e.child>>}
           /\ IF after.err THEN fail ELSE UNCHANGED session
           /\ loop' = CASE loop = "Draining" /\ after.err -> "Stopping"
                        [] loop = "Draining"              -> "Draining"
                        [] OTHER                          -> "Selecting"
  BY DEF run_event, process_event
<1>2. PICK e : e = Head(s.queue)
  OBVIOUS
<1>3. PICK b : b = [s EXCEPT !.queue = Tail(@)]
  OBVIOUS
<1>4. PICK c : c = Handle(b, e, fails, stale)
  OBVIOUS
<1>5. PICK x : x = [c EXCEPT !.err = FALSE]
  OBVIOUS
<1>6. /\ s.queue # <<>> /\ ~c.full /\ c.spawned <= MaxJobs
      /\ IF stale THEN s' \in Overtaken(x, e.frame) ELSE s' = x
      /\ told' = Seen(told, e)
      /\ IF c.err THEN fail ELSE UNCHANGED session
      /\ loop' = CASE loop = "Draining" /\ c.err -> "Stopping"
                   [] loop = "Draining"          -> "Draining"
                   [] OTHER                      -> "Selecting"
  BY <1>1, <1>2, <1>3, <1>4, <1>5 DEF Seen
<1>7. PICK a, d : a = s /\ d = s'
  OBVIOUS
<1>8. /\ Sound(d, Seen(told, e)) /\ Joined(a, d)
      /\ AllDriven(a, {}) => c.err \/ AllDriven(d, {})
      /\ a.n <= d.n /\ d.spawned = c.spawned /\ c.err \in BOOLEAN
  <2>1. Sound(a, told) /\ Taken(a, b, c, x, e, fails, stale)
    BY <1>2, <1>3, <1>4, <1>5, <1>6, <1>7 DEF IInv, PopOf, ClearOf, Taken
  <2>2. /\ Sound(x, Seen(told, e)) /\ Joined(a, x)
        /\ AllDriven(a, {}) => c.err \/ AllDriven(x, {})
        /\ a.n <= x.n /\ x.spawned = c.spawned /\ c.err \in BOOLEAN
    BY <2>1, EventSound
  <2>3. CASE stale
    <3>1. d \in Overtaken(x, e.frame)
      BY <1>6, <1>7, <2>3
    <3>2. /\ Sound(d, Seen(told, e)) /\ (AllDriven(x, {}) => AllDriven(d, {}))
          /\ d.n = x.n /\ d.spawned = x.spawned
          /\ \A g \in 1..x.n : /\ d.frame[g].status = x.frame[g].status
                               /\ d.frame[g].parent = x.frame[g].parent
                               /\ d.frame[g].kind = x.frame[g].kind
      BY <2>2, <3>1, OvertakenSound
    <3>3. Joined(a, d)
      BY <2>2, <3>2, OvertakenJoined
    <3> QED
      BY <2>2, <3>2, <3>3
  <2>4. CASE ~stale
    BY <1>6, <1>7, <2>2, <2>4
  <2> QED
    BY <2>3, <2>4
<1>9. JoinStep
  BY <1>7, <1>8, JoinedStep
<1>10. s'.n \in Frame /\ s'.spawned \in 0..MaxJobs
  <2>1. d.n \in Nat /\ d.n <= MaxFrames /\ d.spawned \in Nat
    BY <1>8 DEF Sound, Typed, FramesOf
  <2>2. a.n \in Frame
    BY <1>7 DEF IInv
  <2> QED
    BY <1>6, <1>7, <1>8, <2>1, <2>2, CheckpointerAssumption DEF Frame
<1>11. session' \in Sessions /\ (c.err => session'.status = "Failed")
  <2>1. session \in Sessions
    BY DEF IInv
  <2>2. CASE c.err
    BY <1>6, <2>1, <2>2 DEF fail, Sessions
  <2>3. CASE ~c.err
    BY <1>6, <2>1, <2>3
  <2> QED
    BY <1>8, <2>2, <2>3
<1>12. /\ loop' \in Loops /\ loop' # "Closed" /\ (loop' = "Stopping" => c.err)
       /\ loop \in {"WaitingEvent", "Selecting", "Draining"}
  BY <1>6 DEF run_event, Loops
<1>13. ASSUME Alive' PROVE AllDriven(s, {}) /\ ~c.err
  <2>1. ~c.err
    BY <1>11, <1>13 DEF Alive
  <2>2. session' = session
    BY <1>6, <2>1
  <2>3. Alive
    BY <1>12, <1>13, <2>2 DEF Alive
  <2> QED
    BY <2>1, <2>3 DEF IInv
<1>14. IInv'
  BY <1>6, <1>7, <1>8, <1>10, <1>11, <1>12, <1>13 DEF IInv
<1> QED
  BY <1>9, <1>14

LEMMA IInvNext == ASSUME IInv, [Next]_vars PROVE IInv' /\ JoinStep
<1>1. Typed(s) /\ NoGap(s) /\ session \in Sessions /\ loop \in Loops
  BY DEF IInv, Sound
<1>2. CASE UNCHANGED vars
  <2>1. Alive' => Alive
    BY <1>2 DEF vars, Alive
  <2> QED
    BY <1>2, <2>1, LoopStep DEF vars, IInv
<1>3. CASE run_first_select
  <2>1. /\ UNCHANGED <<s, told>> /\ session' = session /\ loop' \in {"Draining", "WaitingEvent"}
        /\ loop = "Starting"
    BY <1>3 DEF run_first_select
  <2>2. (Alive' => Alive) /\ loop' \in Loops /\ loop' \notin {"Stopping", "Closed"}
    BY <2>1 DEF Alive, Loops
  <2> QED
    BY <1>1, <2>1, <2>2, LoopStep
<1>4. CASE run_event
  BY <1>4, EventStep
<1>5. CASE run_closing
  <2>1. UNCHANGED <<s, told>> /\ session' = session /\ loop' = "Draining" /\ loop = "Selecting"
    BY <1>5 DEF run_closing
  <2>2. (Alive' => Alive) /\ loop' \in Loops /\ loop' \notin {"Stopping", "Closed"}
    BY <2>1 DEF Alive, Loops
  <2> QED
    BY <1>1, <2>1, <2>2, LoopStep
<1>6. CASE run_closed
  <2>1. /\ UNCHANGED <<s, told>> /\ loop' = "Closed" /\ loop = "Stopping"
        /\ session' \in {session, [session EXCEPT !.row = session.status]}
    BY <1>6 DEF run_closed, drained
  <2>2. session.status = "Failed"
    BY <2>1 DEF IInv
  <2>3. session' \in Sessions /\ session'.status = "Failed"
    BY <1>1, <2>1, <2>2 DEF Sessions
  <2>4. (Alive' => Alive) /\ loop' \in Loops
    BY <2>1 DEF Alive, Loops
  <2> QED
    BY <2>1, <2>3, <2>4, LoopStep
<1>7. CASE close
  <2>1. UNCHANGED <<s, told>> /\ session' = session /\ loop' = loop
    BY <1>7 DEF close
  <2>2. Alive' => Alive
    BY <2>1 DEF Alive
  <2>3. loop' \in {"Stopping", "Closed"} => session'.status = "Failed"
    BY <2>1 DEF IInv
  <2> QED
    BY <1>1, <2>1, <2>2, <2>3, LoopStep
<1>8. ASSUME NEW job \in s.jobs, job_ends(job) PROVE IInv' /\ JoinStep
  <2>1. PICK r \in Responses(job) \cup {Response("JobFailed", 0, {}, <<>>)} :
          s' = [emit(s, JobUpdate(job.frame, r)) EXCEPT !.jobs = @ \ {job}]
    BY <1>8 DEF job_ends
  <2>2. job.logs \in Seq(Entry)
    BY <1>1 DEF Typed, JobsOf
  <2>3. r \in Answer
    BY <2>2, JobAnswer
  <2>4. PICK b : b = s'
    OBVIOUS
  <2>5. AnswerOf(s, b, job, r)
    BY <2>1, <2>4 DEF AnswerOf
  <2>6. Typed(b) /\ Beside(s, b) /\ b.rows = s.rows /\ b.frame = s.frame
    BY <1>1, <1>8, <2>3, <2>5, JobEndsBeside
  <2>7. b.n = s.n
    BY <2>6 DEF Beside
  <2>8. NoGap(b)
    BY <1>1, <2>6, <2>7, NoGapSame
  <2> QED
    BY <1>8, <2>4, <2>6, <2>8, BesideStep DEF job_ends
<1>9. ASSUME NEW job \in s.jobs, job_lost(job) PROVE IInv' /\ JoinStep
  <2>1. PICK b : b = s'
    OBVIOUS
  <2>2. Typed(b) /\ Beside(s, b) /\ b.rows = s.rows /\ b.frame = s.frame
    BY <1>1, <1>9, <2>1, JobLostBeside DEF job_lost
  <2>3. b.n = s.n
    BY <2>2 DEF Beside
  <2>4. NoGap(b)
    BY <1>1, <2>2, <2>3, NoGapSame
  <2> QED
    BY <1>9, <2>1, <2>2, <2>4, BesideStep DEF job_lost
<1>10. ASSUME NEW w \in s.writes, upsert_snapshot(w) PROVE IInv' /\ JoinStep
  <2>1. PICK b : b = s'
    OBVIOUS
  <2>2. Typed(b) /\ Beside(s, b) /\ NoGap(b)
    BY <1>1, <1>10, <2>1, WriteBeside DEF upsert_snapshot
  <2> QED
    BY <1>10, <2>1, <2>2, BesideStep DEF upsert_snapshot
<1>11. ASSUME NEW w \in s.writes, upsert_snapshot_failed(w) PROVE IInv' /\ JoinStep
  <2>1. PICK b : b = s'
    OBVIOUS
  <2>2. Typed(b) /\ Beside(s, b) /\ b.rows = s.rows /\ b.frame = s.frame
    BY <1>1, <1>11, <2>1, WriteFailsBeside DEF upsert_snapshot_failed
  <2>3. b.n = s.n
    BY <2>2 DEF Beside
  <2>4. NoGap(b)
    BY <1>1, <2>2, <2>3, NoGapSame
  <2> QED
    BY <1>11, <2>1, <2>2, <2>4, BesideStep DEF upsert_snapshot_failed
<1>12. CASE HitlAnswered
  <2>1. PICK b : b = s'
    OBVIOUS
  <2>2. Typed(b) /\ Beside(s, b) /\ b.rows = s.rows /\ b.frame = s.frame
    BY <1>1, <1>12, <2>1, HitlBeside DEF HitlAnswered
  <2>3. b.n = s.n
    BY <2>2 DEF Beside
  <2>4. NoGap(b)
    BY <1>1, <2>2, <2>3, NoGapSame
  <2> QED
    BY <1>12, <2>1, <2>2, <2>4, BesideStep DEF HitlAnswered
<1> QED
  BY <1>2, <1>3, <1>4, <1>5, <1>6, <1>7, <1>8, <1>9, <1>10, <1>11, <1>12 DEF Next

LEMMA IInvAlways == Spec => []IInv
BY IInvInit, IInvNext, PTL DEF Spec

(* The record of a session keeps its shape: a frame has a parent that is   *)
(* older than it, and no more frames and jobs than the bounds.             *)
THEOREM SessionTyped == Spec => []TypeOK
<1>1. ASSUME IInv PROVE TypeOK
  <2>1. /\ Typed(s) /\ s.n \in Frame /\ s.spawned \in 0..MaxJobs
        /\ session \in Sessions /\ loop \in Loops
    BY <1>1 DEF IInv, Sound
  <2>2. \A f \in 1..s.n : s.frame[f] \in FrameRow /\ s.frame[f].parent < f
    BY <2>1 DEF Typed, FramesOf
  <2>3. \A f \in 1..s.n : /\ s.frame[f].kind \in Kind /\ s.frame[f].status \in Status
                          /\ s.frame[f].parent \in 0..(f - 1)
                          /\ s.frame[f].superstep \in {NoSnapshot} \cup Nat
    BY <2>2 DEF FrameRow
  <2>4. Len(s.frame) = s.n /\ s.loaded \subseteq 1..s.n
    BY <2>1 DEF Typed, FramesOf
  <2> QED
    BY <2>1, <2>3, <2>4 DEF TypeOK, Sessions, Loops
<1> QED
  BY <1>1, IInvAlways, PTL

(* No wake-up is lost by the handlers of checkpointer/mod.rs: whatever the *)
(* tree, the answers of the jobs and the order of the events, a frame that *)
(* is not finished has an event, a job or a child that will move it on, as *)
(* long as no handler has failed.                                          *)
THEOREM NobodyStranded == Spec => []NoStrandedFrame
<1>1. ASSUME IInv PROVE NoStrandedFrame
  <2> SUFFICES ASSUME Alive, NEW f \in 1..s.n
               PROVE  LET node == s.frame[f]
                      IN /\ node.status = "Pending" => QueuedFor("FrameCreated", f)
                         /\ node.status = "Ready" =>
                              \/ QueuedFor("FrameReady", f) \/ QueuedFor("FrameRunJobStateUpdate", f)
                              \/ f \in s.lost \/ \E job \in s.jobs : job.frame = f
                         /\ node.status = "RunCompleted" =>
                              \/ QueuedFor("FrameRunTerminated", f)
                              \/ node.response.result \in {"Continue", "GoTo", "Fork"}
                         /\ node.status = "WaitingChildren" =>
                              \/ Children(s, f) = {} \/ f \in s.asked
                              \/ QueuedFor("ChildFrameTerminated", f)
                              \/ \E c \in Children(s, f) : \/ ~HasTerminated(s.frame[c].status)
                                                           \/ QueuedFor("FrameTerminated", c)
    BY DEF NoStrandedFrame
  <2>1. Driven(s, f)
    BY <1>1 DEF IInv, AllDriven
  <2>2. \A type, g : Has(s, type, g) <=> QueuedFor(type, g)
    BY DEF Has, QueuedFor
  <2> QED
    BY <2>1, <2>2 DEF Driven, Ended
<1> QED
  BY <1>1, IInvAlways, PTL

(* The end of a frame reaches the handler of its parent, or an event that  *)
(* says so is in the queue (mark_completed_frame, mark_failed_frame,       *)
(* on_frame_terminated), even after handlers that failed.                  *)
THEOREM EndsReachParents == Spec => []TerminationReachesParent
<1>1. ASSUME IInv PROVE TerminationReachesParent
  <2> SUFFICES ASSUME NEW c \in s.loaded, HasTerminated(s.frame[c].status), s.frame[c].parent # None
               PROVE  \/ <<s.frame[c].parent, c>> \in told
                      \/ QueuedFor("FrameTerminated", c)
                      \/ Queued(ChildTerminated(s.frame[c].parent, c))
    BY DEF TerminationReachesParent
  <2>1. c \in 1..s.n /\ Known(s, told)
    BY <1>1 DEF IInv, Sound, Typed, FramesOf
  <2>2. Notified(s, c, told)
    BY <2>1 DEF Known, Ended
  <2> QED
    BY <2>2 DEF Notified, Has, QueuedFor, InQueue, Queued
<1> QED
  BY <1>1, IInvAlways, PTL

(* The rows of a frame have every superstep up to its last, whatever the   *)
(* order in which the tasks of dropped clichés write them.                 *)
THEOREM SuperstepsWithoutGap == Spec => []SnapshotsHaveNoGap
<1>1. ASSUME IInv PROVE SnapshotsHaveNoGap
  BY <1>1 DEF IInv, Sound, NoGap, Steps, SnapshotsHaveNoGap
<1> QED
  BY <1>1, IInvAlways, PTL

(* A value in the cliché of a frame was written by that frame, or below a  *)
(* child that exports the channel to a frame that imports it, whatever     *)
(* commit_snapshot reduced, on_child_frame_terminated joined and the tasks *)
(* of dropped clichés wrote, in any order, and for any graph.              *)
THEOREM ValuesFromBelow == Spec => []ValuesComeFromBelow
<1>1. ASSUME IInv PROVE ValuesComeFromBelow
  <2>1. Typed(s)
    BY <1>1 DEF IInv, Sound
  <2>2. s.n \in Nat /\ Len(s.frame) = s.n
    BY <2>1 DEF Typed, FramesOf
  <2>3. \A f \in 1..s.n : s.frame[f].parent \in 0..(f - 1)
    <3> TAKE f \in 1..s.n
    <3>1. s.frame[f] \in FrameRow /\ s.frame[f].parent < f
      BY <2>1 DEF Typed, FramesOf
    <3>2. s.frame[f].parent \in Nat
      BY <3>1 DEF FrameRow
    <3> QED BY <3>1, <3>2
  <2>4. \A w \in s.rows \cup s.dirty \cup s.writes : Sourced(s.frame, w)
    BY <2>1 DEF Typed, ClichesOf, Ahead
  <2> QED BY <2>2, <2>3, <2>4, SourcedMeans
<1> QED
  BY <1>1, IInvAlways, PTL

(* A FanIn frame, a span or an aggregator of tools, is made to run only in *)
(* a step that leaves it no child that is still going                      *)
(* (all_children_have_terminated in on_child_frame_terminated; one that    *)
(* never waited has no child).                                             *)
THEOREM JoinAfterAll == Spec => JoinWaitsForAll
<1>1. ASSUME IInv, [Next]_vars
      PROVE  [\A f \in 1..s'.n :
                /\ ResumePolicy(s'.frame[f].kind) = "FanIn"
                /\ s'.frame[f].status = "Ready"
                /\ f \in 1..s.n => s.frame[f].status # "Ready"
                => \A c \in Children(s', f) : HasTerminated(s'.frame[c].status)]_vars
  BY <1>1, IInvNext DEF JoinStep
<1> QED
  BY <1>1, IInvAlways, PTL DEF Spec, JoinWaitsForAll

=============================================================================
