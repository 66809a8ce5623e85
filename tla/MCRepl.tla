------------------------------- MODULE MCRepl -------------------------------
(* Repl on small instances: which sort of command there is plenty of. *)
EXTENDS Repl

Mix(connects, commands, edits, others) ==
  [connects |-> connects, commands |-> commands, edits |-> edits, others |-> others]

MCBounds == {Mix(1, 1, 4, 0), Mix(1, 2, 1, 1), Mix(2, 2, 0, 1), Mix(1, 2, 0, 2)}
=============================================================================
