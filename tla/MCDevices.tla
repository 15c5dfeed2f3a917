------------------------------ MODULE MCDevices ------------------------------
(* The device registry for TLC: two calls at a time, on one computer.       *)
EXTENDS Devices, TLC

CONSTANTS d1, d2, h1, b1, b2, c1, c2, w1, w2

Symmetry ==
  Permutations(Device) \cup Permutations(Password) \cup Permutations(Binding)
    \cup Permutations(Proc)
=============================================================================
