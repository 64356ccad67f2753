------------------------------ MODULE MCQsSync ------------------------------
(* Runs and backups are interchangeable, and no liveness is checked. *)
EXTENDS QsSync, TLC

Symmetry == Permutations(Runs) \cup Permutations(Backups)

=============================================================================
