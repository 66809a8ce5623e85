------------------------------ MODULE Channels ------------------------------
(***************************************************************************)
(* The channels of a session (session/channel.rs) and what the frames of   *)
(* each kind declare about them (session/spec.rs).  A value is a number, a *)
(* list or null; what no channel holds is null too, since the reducers     *)
(* take one for the other.                                                 *)
(***************************************************************************)
EXTENDS Integers, SequencesExt, FiniteSetsExt

Null == [type |-> "null", num |-> 0, list |-> <<>>]
Number(n) == [type |-> "number", num |-> n, list |-> <<>>]
Array(list) == [type |-> "array", num |-> 0, list |-> list]

(* How the contributions to a channel are combined. *)
Reducer == {"LastWriteWins", "Append", "Max"}

Numbers(values) == {v.num : v \in {u \in ToSet(values) : u.type = "number"}}

(* Reducer::reduce of a current value and contributions, in order.  Max    *)
(* skips what is not a number.                                             *)
reduce(reducer, current, contributions) ==
  CASE reducer = "LastWriteWins" ->
         IF contributions = <<>> THEN current ELSE Last(contributions)
    [] reducer = "Append" -> Array(current.list \o contributions)
    [] reducer = "Max" ->
         LET nums == Numbers(<<current>> \o contributions)
         IN IF nums = {} THEN Null ELSE Number(Max(nums))

(* Channels: the values of the names that were written. *)
Get(channels, ch) == IF ch \in DOMAIN channels THEN channels[ch] ELSE Null

-----------------------------------------------------------------------------
(* CommonSpec, as far as clichés depend on it: the reducers, and the names *)
(* a frame exports to its parent and imports from its children.  What it   *)
(* inherits goes to the row of the frame, which no run reads.              *)
CommonSpec(reducer, imported, exported) ==
  [reducer |-> reducer, imported |-> imported, exported |-> exported]

One(ch, reducer) == [c \in {ch} |-> reducer]

tool == CommonSpec(One("tool_result", "LastWriteWins"), {}, {"tool_result"})

tool_aggregator ==
  CommonSpec(One("tool_result", "Append"), {"tool_result"}, {"tool_result"})

expert ==
  CommonSpec([ch \in {"expert_task", "expert_answer", "expert_context", "tool_result"}
                |-> "LastWriteWins"],
             {"expert_answer", "tool_result"}, {"expert_answer"})

(* ChannelsTracker: the updates of a run of frame f that wrote to these    *)
(* channels.  The value stands for the frame that wrote it: its number.    *)
into_updates(f, written) == [ch \in written |-> <<Number(f)>>]

(* What a run that succeeds writes.  An expert writes its answer to a      *)
(* channel its spec does not declare.                                      *)
tool_writes == {"tool_result"}
expert_writes == {"expert_consultation_answer"}

(* A channel that is not declared is last-write-wins. *)
reducer_of(spec, ch) ==
  IF ch \in DOMAIN spec.reducer THEN spec.reducer[ch] ELSE "LastWriteWins"

(* The channels of the next cliché: each channel of updates reduced with   *)
(* the contributions to it, the others as they were.                       *)
Reduced(spec, channels, updates) ==
  [ch \in DOMAIN channels \cup DOMAIN updates |->
     IF ch \in DOMAIN updates
     THEN reduce(reducer_of(spec, ch), Get(channels, ch), updates[ch])
     ELSE channels[ch]]
=============================================================================
