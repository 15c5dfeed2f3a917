------------------------------ MODULE VaultFile ------------------------------
(***************************************************************************)
(* The KDBX file of one vault and the handles processes hold on it:        *)
(* open_vault and VaultHandle.save of `passman.core.vault.kdbx`.           *)
(*                                                                         *)
(* A handle is the whole database in memory and the SHA-256 of the file it *)
(* was read from.  A save takes an advisory lock on a sidecar file without *)
(* waiting, compares the digest of the file with the handle's, replaces    *)
(* the file by what is in memory and digests it anew.  Other programs that *)
(* write KDBX (Foreign) neither take the lock nor check.                   *)
(*                                                                         *)
(* Content is abstract: a database is the set of the edits made to it (a   *)
(* created, changed or deleted account).  Every save draws new seeds, so   *)
(* no two of them have the same digest: a digest is a version number.      *)
(***************************************************************************)
EXTENDS Naturals

CONSTANTS
  Proc,        \* processes of the password manager
  Foreign,     \* other programs that save the same file
  Edit,        \* edits, each made once
  NoProc, NoVersion,
  MaxVersion,  \* bound: saves that reach the file
  MaxFaults    \* bound: I/O errors and crashes

ASSUME ConstantsAssumption ==
  /\ NoProc \notin Proc
  /\ Foreign \cap Proc = {}
  /\ NoVersion \notin Nat
  /\ MaxVersion \in Nat /\ MaxFaults \in Nat

VARIABLES
  version,     \* the digest of the file
  content,     \* the edits the file holds
  writer,      \* who saved it last
  mounted,     \* whether the USB is plugged in
  lock,        \* who holds the flock on the sidecar
  pc,          \* the next step of the process's open or save
  before,      \* open_vault: the digest taken before parsing
  print,       \* the handle's _fingerprint
  tree,        \* the edits in the handle's database
  shown,       \* how the last save of the handle ended, as told to the user
  made,        \* edits made so far
  saved,       \* history: edits in acknowledged saves
  raced,       \* history: another program saved during one of our saves
  faults       \* I/O errors and crashes so far

fileVars   == <<version, content, writer>>
handleVars == <<before, print, tree, shown>>
vars == <<fileVars, mounted, lock, pc, handleVars, made, saved, raced,
          faults>>

Opening == {"parse", "finish"}
Saving  == {"lock", "check", "replace", "refinger"}
Outcome == {"none", "saved", "busy", "removed", "changed", "failed"}

TypeOK ==
  /\ version \in 0 .. MaxVersion
  /\ content \in SUBSET Edit
  /\ writer \in Proc \cup Foreign \cup {NoProc}
  /\ mounted \in BOOLEAN
  /\ lock \in Proc \cup {NoProc}
  /\ pc \in [Proc -> {"closed", "idle"} \cup Opening \cup Saving]
  /\ before \in [Proc -> Nat \cup {NoVersion}]
  /\ print \in [Proc -> Nat \cup {NoVersion}]
  /\ \A p \in Proc : print[p] \in Nat <=> pc[p] \in {"idle"} \cup Saving
  /\ tree \in [Proc -> SUBSET Edit]
  /\ shown \in [Proc -> Outcome]
  /\ made \in SUBSET Edit
  /\ saved \in SUBSET Edit
  /\ raced \in BOOLEAN
  /\ faults \in 0 .. MaxFaults

Init ==
  /\ version = 0
  /\ content = {}
  /\ writer = NoProc
  /\ mounted = TRUE
  /\ lock = NoProc
  /\ pc = [p \in Proc |-> "closed"]
  /\ before = [p \in Proc |-> NoVersion]
  /\ print = [p \in Proc |-> NoVersion]
  /\ tree = [p \in Proc |-> {}]
  /\ shown = [p \in Proc |-> "none"]
  /\ made = {} /\ saved = {}
  /\ raced = FALSE
  /\ faults = 0

-----------------------------------------------------------------------------
(* open_vault, on a worker thread: no handle exists before it returns.     *)

At(p, l) == pc[p] = l /\ mounted

Goto(p, l) == pc' = [pc EXCEPT ![p] = l]

\* p has no handle, or gives up the one it has.
Drop(p) ==
  /\ Goto(p, "closed")
  /\ before' = [before EXCEPT ![p] = NoVersion]
  /\ print' = [print EXCEPT ![p] = NoVersion]
  /\ tree' = [tree EXCEPT ![p] = {}]
  /\ shown' = [shown EXCEPT ![p] = "none"]

StartOpen(p) ==
  /\ At(p, "closed")
  /\ before' = [before EXCEPT ![p] = version]
  /\ Goto(p, "parse")
  /\ UNCHANGED <<fileVars, mounted, lock, print, tree, shown, made, saved, raced,
                 faults>>

Parse(p) ==
  /\ At(p, "parse")
  /\ tree' = [tree EXCEPT ![p] = content]
  /\ Goto(p, "finish")
  /\ UNCHANGED <<fileVars, mounted, lock, before, print, shown, made, saved, raced,
                 faults>>

\* Mutant of FinishOpen: the digest after parsing is taken as it comes.
FinishUnchecked(p) ==
  /\ At(p, "finish")
  /\ print' = [print EXCEPT ![p] = version]
  /\ Goto(p, "idle")
  /\ UNCHANGED <<fileVars, mounted, lock, before, tree, shown, made, saved, raced,
                 faults>>

\* __post_init__ digests the file again: it must not have changed meanwhile.
FinishOpen(p) ==
  /\ At(p, "finish")
  /\ before[p] = version
  /\ print' = [print EXCEPT ![p] = version]
  /\ Goto(p, "idle")
  /\ UNCHANGED <<fileVars, mounted, lock, before, tree, shown, made, saved, raced,
                 faults>>

\* VaultOpenError: "The vault changed while it was opening."
ChangedWhileOpening(p) ==
  /\ At(p, "finish")
  /\ before[p] # version
  /\ Drop(p)
  /\ UNCHANGED <<fileVars, mounted, lock, made, saved, raced, faults>>

Close(p) ==
  /\ pc[p] = "idle"
  /\ Drop(p)
  /\ UNCHANGED <<fileVars, mounted, lock, made, saved, raced, faults>>

-----------------------------------------------------------------------------
(* VaultHandle.save, on the main thread: the database does not change      *)
(* under it.                                                               *)

\* The save ends and leaves the flock, if it got it.
Finish(p, outcome) ==
  /\ Goto(p, "idle")
  /\ shown' = [shown EXCEPT ![p] = outcome]
  /\ lock' = IF lock = p THEN NoProc ELSE lock

\* A window applies its edits in memory and saves.  Without a new edit it is
\* a retry of a save that failed, whose edits are still in memory.
Save(p, new) ==
  /\ pc[p] = "idle"
  /\ new \cap made = {}
  /\ tree' = [tree EXCEPT ![p] = @ \cup new]
  /\ made' = made \cup new
  /\ Goto(p, "lock")
  /\ UNCHANGED <<fileVars, mounted, lock, before, print, shown, saved, raced, faults>>

\* Mutant of Lock: each process opens a lock file of its own.
LockOwnFile(p) ==
  /\ At(p, "lock")
  /\ lock' = p
  /\ Goto(p, "check")
  /\ UNCHANGED <<fileVars, mounted, handleVars, made, saved, raced, faults>>

Lock(p) ==
  /\ At(p, "lock")
  /\ lock = NoProc
  /\ lock' = p
  /\ Goto(p, "check")
  /\ UNCHANGED <<fileVars, mounted, handleVars, made, saved, raced, faults>>

\* "Another process is saving this vault. Try again after it finishes."
RefuseBusy(p) ==
  /\ At(p, "lock")
  /\ lock # NoProc
  /\ Finish(p, "busy")
  /\ UNCHANGED <<fileVars, mounted, before, print, tree, made, saved, raced, faults>>

\* Mutant of Check: the digest on disk is not compared.
CheckNothing(p) ==
  /\ At(p, "check")
  /\ Goto(p, "replace")
  /\ UNCHANGED <<fileVars, mounted, lock, handleVars, made, saved, raced, faults>>

Check(p) ==
  /\ At(p, "check")
  /\ version = print[p]
  /\ Goto(p, "replace")
  /\ UNCHANGED <<fileVars, mounted, lock, handleVars, made, saved, raced, faults>>

\* Mutant of RefuseChanged: the refused handle loses its fingerprint.
RefuseAndForget(p) ==
  /\ At(p, "check")
  /\ version # print[p]
  /\ Finish(p, "changed")
  /\ print' = [print EXCEPT ![p] = NoVersion]
  /\ UNCHANGED <<fileVars, mounted, before, tree, made, saved, raced, faults>>

\* "The vault changed on disk. Reopen it before saving; your disk copy was
\* preserved."
RefuseChanged(p) ==
  /\ At(p, "check")
  /\ version # print[p]
  /\ Finish(p, "changed")
  /\ UNCHANGED <<fileVars, mounted, before, print, tree, made, saved, raced, faults>>

\* "The vault was removed; reconnect it and reopen before saving."
RefuseRemoved(p) ==
  /\ pc[p] = "check" /\ ~mounted
  /\ Finish(p, "removed")
  /\ UNCHANGED <<fileVars, mounted, before, print, tree, made, saved, raced, faults>>

\* atomic_writer: a complete new file takes the name of the old one.
Replace(p) ==
  /\ At(p, "replace")
  /\ version < MaxVersion
  /\ version' = version + 1
  /\ content' = tree[p]
  /\ writer' = p
  /\ Goto(p, "refinger")
  /\ UNCHANGED <<mounted, lock, handleVars, made, saved, raced, faults>>

\* The new file is digested and save returns.
Refinger(p) ==
  /\ At(p, "refinger")
  /\ print' = [print EXCEPT ![p] = version]
  /\ saved' = saved \cup tree[p]
  /\ Finish(p, "saved")
  /\ UNCHANGED <<fileVars, mounted, before, tree, made, raced, faults>>

-----------------------------------------------------------------------------
(* Errors, the death of a process, the USB, and other programs.            *)

Fault == faults < MaxFaults /\ faults' = faults + 1

\* VaultError: "Could not save vault".  An access fails, or the USB is gone.
FailSave(p) ==
  /\ pc[p] \in Saving
  /\ \/ Fault
     \/ ~mounted /\ pc[p] # "check" /\ UNCHANGED faults
  /\ Finish(p, "failed")
  /\ UNCHANGED <<fileVars, mounted, before, print, tree, made, saved, raced>>

FailOpen(p) ==
  /\ pc[p] \in Opening
  /\ \/ Fault
     \/ ~mounted /\ UNCHANGED faults
  /\ Drop(p)
  /\ UNCHANGED <<fileVars, mounted, lock, made, saved, raced>>

\* The kernel drops the flock of a dead process.
Crash(p) ==
  /\ Fault
  /\ pc[p] # "closed"
  /\ Drop(p)
  /\ lock' = IF lock = p THEN NoProc ELSE lock
  /\ UNCHANGED <<fileVars, mounted, made, saved, raced>>

\* The handle of an unlocked session outlives the USB until the next tick.
\* A USB does not come back within one call.
Unplug ==
  /\ mounted
  /\ mounted' = FALSE
  /\ UNCHANGED <<fileVars, lock, pc, handleVars, made, saved, raced, faults>>

Plug ==
  /\ ~mounted
  /\ \A p \in Proc : pc[p] \in {"closed", "idle"}
  /\ mounted' = TRUE
  /\ UNCHANGED <<fileVars, lock, pc, handleVars, made, saved, raced, faults>>

\* Another program saves the file it has just read with one edit more.
ForeignSave(f, e) ==
  /\ mounted
  /\ e \notin made
  /\ version < MaxVersion
  /\ version' = version + 1
  /\ content' = content \cup {e}
  /\ writer' = f
  /\ made' = made \cup {e}
  /\ raced' = (raced \/ lock # NoProc)
  /\ UNCHANGED <<mounted, lock, pc, handleVars, saved, faults>>

-----------------------------------------------------------------------------
Step(p) ==
  \/ StartOpen(p) \/ Parse(p) \/ FinishOpen(p) \/ ChangedWhileOpening(p)
  \/ Close(p)
  \/ Save(p, {}) \/ \E e \in Edit : Save(p, {e})
  \/ Lock(p) \/ RefuseBusy(p)
  \/ Check(p) \/ RefuseChanged(p) \/ RefuseRemoved(p)
  \/ Replace(p) \/ Refinger(p)
  \/ FailSave(p) \/ FailOpen(p) \/ Crash(p)

Next ==
  \/ \E p \in Proc : Step(p)
  \/ Unplug \/ Plug
  \/ \E f \in Foreign, e \in Edit : ForeignSave(f, e)

Spec == Init /\ [][Next]_vars

-----------------------------------------------------------------------------
(* Properties.                                                             *)

(* What save reported as saved stays in the file, whatever other processes  *)
(* open, save, retry or die over it, and whatever other programs save       *)
(* between their saves.                                                     *)
SavedIsOnDisk == ~raced => saved \subseteq content

(* No save drops an edit from the file: a handle that has not seen all of   *)
(* it is refused before it replaces the file.                               *)
NoLostUpdate == [][~raced => content \subseteq content']_vars

(* A handle that could still save holds everything the file holds: opening  *)
(* never pairs an older database with a newer digest.                       *)
MatchingHandleSeesAll ==
  ~raced => \A p \in Proc : print[p] = version => content \subseteq tree[p]

\* Processes whose handle would pass the comparison of digests.
Fresh == {p \in Proc : print[p] = version}

Shared == INSTANCE SharedVault WITH fresh <- Fresh, broken <- raced

(* Opening and saving are a load-linked and a store-conditional on the      *)
(* vault, until another program writes it during one of our saves.          *)
ImplementsSharedVault == Shared!Spec
=============================================================================
