\* One graph of two nodes and one channel, and one model, expert and tool
\* that another process works on as well.
CONSTANTS
  Cli = cli
  Other = other
  Caller = {cli, other}
  Node = {start, n}
  Start = start
  Channel = {ch}
  Reducer = {lww, append}
  Prompt = {p1, p2}
  Secret = {s1, s2}
  NoData = NoData
  MaxVersions = 3
  Bounds <- MCBounds
SPECIFICATION ReplSpec
INVARIANTS StackIsWellFormed
PROPERTY PromptReturns
CHECK_DEADLOCK FALSE
