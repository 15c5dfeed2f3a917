----------------------------- MODULE MCAccounts -----------------------------
(* The accounts for TLC: room for two of them.                              *)
EXTENDS Accounts, TLC

CONSTANTS e1, e2

Symmetry == Permutations(Entry)
=============================================================================
