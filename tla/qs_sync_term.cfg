\* Two runs, and a signal that is trapped.
SPECIFICATION Spec
CONSTANTS
  Runs = {r1, r2}
  Signals = {"term"}
  Backups = {b1}
  Batches = {t1}
  Files = {f1}
  MaxRemovals = 0
INVARIANT MutualExclusion
CHECK_DEADLOCK FALSE
