----------------------------- MODULE MCClipboard -----------------------------
(* Instances of Clipboard for TLC: two secrets, a text of other programs,   *)
(* and one secret another program copies as well.                           *)
EXTENDS Clipboard

CONSTANTS s1, s2, other
=============================================================================
