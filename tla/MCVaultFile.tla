----------------------------- MODULE MCVaultFile -----------------------------
(* VaultFile on small sets of processes and edits.                         *)
EXTENDS VaultFile, TLC

CONSTANTS p1, p2, kx, e1, e2

Symmetry == Permutations(Proc) \cup Permutations(Edit)
=============================================================================
