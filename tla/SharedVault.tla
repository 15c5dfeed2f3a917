---------------------------- MODULE SharedVault -----------------------------
(***************************************************************************)
(* What `passman.core.vault.kdbx` promises to several processes that have  *)
(* the same vault open: open_vault is a load-linked, VaultHandle.save a    *)
(* store-conditional.  A commit adds edits to what is in the vault, and    *)
(* only a process that has seen everything in it may commit, so no edit is *)
(* ever lost; what the user was told is saved is in the vault.  Another    *)
(* program that adds to the vault makes every handle stale; one that does  *)
(* so in the middle of a save breaks the promise from then on.             *)
(***************************************************************************)
CONSTANTS Proc, Edit

VARIABLES
  content,     \* the edits the vault holds
  fresh,       \* processes whose handle reflects everything in the vault
  saved,       \* the edits whose save was acknowledged
  broken       \* another program has written during a save

vars == <<content, fresh, saved, broken>>

Init == content = {} /\ fresh = {} /\ saved = {} /\ broken = FALSE

Open(p) ==
  /\ fresh' = fresh \cup {p}
  /\ UNCHANGED <<content, saved, broken>>

\* Every handle, the writer's too until it is acknowledged, is now stale.
Commit(p, E) ==
  /\ p \in fresh
  /\ content' = content \cup E
  /\ fresh' = {}
  /\ UNCHANGED <<saved, broken>>

Acknowledge(p) ==
  /\ fresh' = fresh \cup {p}
  /\ saved' = content
  /\ UNCHANGED <<content, broken>>

Close(p) ==
  /\ fresh' = fresh \ {p}
  /\ UNCHANGED <<content, saved, broken>>

OtherProgram(E) ==
  /\ content' = content \cup E
  /\ fresh' = {}
  /\ UNCHANGED <<saved, broken>>

\* Nothing is promised about this step and those after it.
Break == broken'

Next ==
  \/ \E p \in Proc : \/ Open(p) \/ Acknowledge(p) \/ Close(p)
                     \/ \E E \in SUBSET Edit : Commit(p, E)
  \/ \E e \in Edit : OtherProgram({e})
  \/ Break

Spec == Init /\ [][Next]_vars
=============================================================================
