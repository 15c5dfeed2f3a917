------------------------------ MODULE MCBackup ------------------------------
(* Backups for TLC: two processes, files of two sizes.                      *)
EXTENDS Backup, TLC

CONSTANTS p1, p2

Symmetry == Permutations(Proc)
=============================================================================
