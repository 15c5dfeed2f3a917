----------------------------- MODULE MCSession -----------------------------
(* The session for TLC: one other window; all triggers, or some of them.    *)
EXTENDS Session

CONSTANT other

Configurations ==
  {{"idle", "usb", "sleep"}, {"idle", "sleep"}, {"usb", "keep_unlocked"}}
=============================================================================
