\* Four frames, or three in a tree that is dropped and built again.
SPECIFICATION Spec
CONSTANTS
  Frame = {f1, f2, f3, f4}
  NoFrame = NoFrame
  Absent = Absent
  MaxReopens = 1
  MaxReloaded = 3
SYMMETRY Symmetry
INVARIANTS LinksAgree WalksEnd
PROPERTY RemoveTakesSubtree
CHECK_DEADLOCK FALSE
