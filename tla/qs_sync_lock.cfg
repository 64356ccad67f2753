\* Three runs: one that works, one that waits or loses, one that comes later.
\* Two backups, so that one is left when the other is deleted.
\* The lock file may be removed once.  No files: the lock does not depend on them.
SPECIFICATION Spec
CONSTANTS
  Runs = {r1, r2, r3}
  Signals = {"kill", "term"}
  Backups = {b1, b2}
  Batches = {t1}
  Files = {}
  MaxRemovals = 1
SYMMETRY Symmetry
INVARIANTS
  TypeOK
  OverlapExplained
  PidNamesHolder
  
\* All runs end.
CHECK_DEADLOCK FALSE
