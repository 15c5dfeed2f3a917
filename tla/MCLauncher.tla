----------------------------- MODULE MCLauncher -----------------------------
(* The launcher for TLC: an encrypted drive and a plain one, two processes *)
(* and one place to mount.                                                 *)
EXTENDS Launcher, TLC

CONSTANTS encrypted, plain, m1, p1, p2

Symmetry == Permutations(Proc)
=============================================================================
