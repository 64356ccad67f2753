\* One run, undisturbed, on trees that may differ.
SPECIFICATION Spec
CONSTANTS
  Runs = {r1}
  Signals = {}
  Backups = {b1}
  Batches = {t1}
  Files = {f1}
  MaxRemovals = 0
INVARIANT SuccessMeansSynced
CHECK_DEADLOCK FALSE
