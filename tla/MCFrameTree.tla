----------------------------- MODULE MCFrameTree -----------------------------
EXTENDS FrameTree, TLC

(* Frames are created in any order and told apart by identity only. *)
Symmetry == Permutations(Frame)
=============================================================================
