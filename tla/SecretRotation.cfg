\* The operator follows the runbook; secrets are in memory (entrypoint.rs).
CONSTANTS
  Node = {n1, n2}
  Epoch = {0, 1, 2}
  Ref = {r1}
  NoSecret = NoSecret
  Idle = Idle
  Upsert = TRUE
  Runbook = TRUE
SYMMETRY Symmetry
SPECIFICATION Spec
INVARIANTS CurrentIsLoaded RotationIsSeamless
