---------------------------- MODULE Provisioning ----------------------------
(***************************************************************************)
(* create_new_vault and adopt_existing_vault of                            *)
(* `passman.core.vault.provisioning`, one step per file they write.        *)
(*                                                                         *)
(* Creating fills a hidden directory and renames it onto the container; a  *)
(* stop, or an error that also keeps it from being removed, leaves it.     *)
(* Adopting rewrites a KeePass database in place: it is copied aside       *)
(* first, and an error after that undoes the writes one by one.  Any step  *)
(* may fail, with or without having written, the steps of the undo too,    *)
(* and the process may end between any two of them (Stop).                 *)
(*                                                                         *)
(* Attempts are numbered.  The number stands for what an attempt draws at  *)
(* random: vault id, vault secret (VMS), generated key file.               *)
(***************************************************************************)
EXTENDS Naturals

CONSTANTS
  Container,    \* directories of the USB whose names are not hidden
  User,         \* the user's own password and key file
  Nothing,      \* no such file
  Torn,         \* a copy that was cut off
  MaxAttempt,   \* bound: attempts
  MaxFaults     \* bound: operations that fail

Attempt == 1 .. MaxAttempt
VaultId == 0 .. MaxAttempt   \* 0: a vault made on another computer

\* The top-level directories of the USB: attempt a's hidden one is named a.
Directory == Container \cup Attempt

KeyPlace == {"none", "inside", "elsewhere"}
Key == VaultId \cup {User, Nothing}
\* entries: it holds the passwords that were on the USB before the wizard.
Database == [secret : VaultId \cup {User}, key : Key, entries : BOOLEAN]
Files == [db : Database \cup {Nothing, Torn},
          key : Key,
          json : VaultId \cup {Nothing},
          slot : VaultId \cup {Nothing},
          roster : BOOLEAN,
          device : VaultId \cup {Nothing},
          backup : Database \cup {Nothing, Torn}]

ASSUME ConstantsAssumption ==
  /\ MaxAttempt \in Nat /\ MaxFaults \in Nat
  /\ User \notin VaultId /\ Nothing \notin VaultId /\ Nothing # User
  /\ Torn # Nothing /\ Torn \notin Database /\ Nothing \notin Database
  /\ Container \cap (VaultId \cup {Nothing}) = {}

VARIABLES
  usb,      \* the files of each directory
  userKey,  \* where the key file of the user's database is
  given,    \* history: the container that was in use before the wizard
  home,     \* attempts whose Local Key is on this computer
  draft,    \* SetupDraft: what to do where, and what the user typed
  attempt,  \* the number of the last attempt
  pc,       \* its next step
  faults,
  before    \* history: the container when the attempt began

provisionVars ==
  <<usb, userKey, given, home, draft, attempt, pc, faults, before>>

Writing == {"key", "db", "json", "slot", "roster", "local", "device"}
Undoing == {"undo_db", "undo_metadata", "undo_slots", "undo_key", "undo_home"}
Running ==
  Writing \cup Undoing \cup {"check", "backup", "open", "manifest", "publish"}

ProvisionTypeOK ==
  /\ usb \in [Directory -> Files]
  /\ userKey \in KeyPlace
  /\ given \in Container \cup {Nothing}
  /\ home \in SUBSET Attempt
  /\ draft \in [adopt : BOOLEAN, at : Directory, enroll : BOOLEAN,
                right : BOOLEAN, key : KeyPlace]
  /\ attempt \in VaultId
  /\ pc \in Running \cup {"none", "provisioned", "reopen", "register", "done", "raised"}
  /\ pc # "none" => attempt \in Attempt
  /\ faults \in 0 .. MaxFaults
  /\ before \in Files

Empty == [db |-> Nothing, key |-> Nothing, json |-> Nothing, slot |-> Nothing,
          roster |-> FALSE, device |-> Nothing, backup |-> Nothing]

\* A vault whose writes all come from attempt a.
Whole(a) ==
  [Empty EXCEPT !.db = [secret |-> a, key |-> a, entries |-> a = 0],
                !.key = a, !.json = a, !.slot = a, !.roster = TRUE]

\* The database of another program, with the user's own credentials.
UserDb ==
  [secret |-> User, key |-> IF userKey = "none" THEN Nothing ELSE User,
   entries |-> TRUE]
Foreign ==
  [Empty EXCEPT !.db = UserDb,
                !.key = IF userKey = "inside" THEN User ELSE Nothing]

\* The USB is empty, or one container has a database or a vault in it.
ProvisionInit ==
  /\ userKey \in KeyPlace
  /\ given \in Container \cup {Nothing}
  /\ \E f \in {Foreign, Whole(0)} :
       usb = [c \in Directory |-> IF c = given THEN f ELSE Empty]
  /\ home = {}
  /\ \E c \in Container :
       draft = [adopt |-> FALSE, at |-> c, enroll |-> TRUE, right |-> FALSE,
                key |-> "none"]
  /\ attempt = 0
  /\ pc = "none"
  /\ faults = 0
  /\ before = Empty

here == usb[draft.at]
Here(f) == usb' = [usb EXCEPT ![draft.at] = f]
Goto(step) == pc' = step

\* The master password opens the vault in c.
Opens(c) ==
  /\ usb[c].slot \in VaultId
  /\ usb[c].db \in Database
  /\ usb[c].db.secret = usb[c].slot
  /\ usb[c].db.key = usb[c].key

-----------------------------------------------------------------------------
(* The guards, and the order of the steps.                                 *)

\* The container must be missing or empty.
CanCreate == here = Empty

CanAdopt ==
  /\ here.db # Nothing
  /\ here.json = Nothing
  /\ here.slot = Nothing /\ here.device = Nothing
  /\ draft.key \in {"none", "elsewhere"} => here.key = Nothing
  /\ here.backup = Nothing

\* Mutant: a new vault gets no password slot.
MAfter(step) ==
  CASE step = "key"    -> "db"
    [] step = "db"     -> IF draft.adopt THEN "json" ELSE "roster"
    [] step = "json"   -> IF draft.adopt THEN "slot" ELSE "db"
    [] step = "slot"   -> "roster"
    [] step = "roster" -> IF draft.enroll THEN "local" ELSE "manifest"
    [] step = "local"  -> "device"
    [] step = "device" -> "manifest"

After(step) ==
  CASE step = "key"    -> "db"
    [] step = "db"     -> IF draft.adopt THEN "json" ELSE "slot"
    [] step = "json"   -> IF draft.adopt THEN "slot" ELSE "db"
    [] step = "slot"   -> "roster"
    [] step = "roster" -> IF draft.enroll THEN "local" ELSE "manifest"
    [] step = "local"  -> "device"
    [] step = "device" -> "manifest"

\* What a step writes into the container's files f.  A new database brings its
\* key file; an adopted one is sealed again under the key file that is there.
Written(f, step) ==
  CASE step = "key" ->
         [f EXCEPT !.key = CASE draft.key = "none" -> attempt
                             [] draft.key = "inside" -> f.key
                             [] draft.key = "elsewhere" -> User]
    [] step = "db" ->
         IF draft.adopt
           THEN [f EXCEPT !.db = [secret |-> attempt, key |-> f.key,
                                  entries |-> f.db.entries]]
           ELSE [f EXCEPT !.db = [secret |-> attempt, key |-> attempt,
                                  entries |-> FALSE],
                          !.key = attempt]
    [] step = "json"   -> [f EXCEPT !.json = attempt]
    [] step = "slot"   -> [f EXCEPT !.slot = attempt]
    [] step = "roster" -> [f EXCEPT !.roster = TRUE]
    [] step = "local"  -> f
    [] step = "device" -> [f EXCEPT !.device = attempt]

\* A creation writes to its hidden directory, an adoption to the container.
Target == IF draft.adopt THEN draft.at ELSE attempt
Put(f) == usb' = [usb EXCEPT ![Target] = f]

unmoved == <<userKey, given, draft, attempt, before>>

-----------------------------------------------------------------------------
(* The steps.                                                              *)

\* Called by _commit_work; before is metadata_before.
Begin ==
  /\ attempt < MaxAttempt
  /\ attempt' = attempt + 1
  /\ before' = usb[draft'.at]
  /\ Goto("check")

Check ==
  /\ pc = "check"
  /\ IF draft.adopt THEN CanAdopt ELSE CanCreate
  /\ Goto(IF draft.adopt THEN "backup" ELSE "json")
  /\ UNCHANGED <<usb, home, faults, unmoved>>

Refuse ==
  /\ pc = "check"
  /\ ~(IF draft.adopt THEN CanAdopt ELSE CanCreate)
  /\ Goto("raised")
  /\ UNCHANGED <<usb, home, faults, unmoved>>

\* Mutant: the database is adopted without a copy.
MBackup ==
  /\ pc = "backup"
  /\ Goto("open")
  /\ UNCHANGED <<usb, home, faults, unmoved>>

Backup ==
  /\ pc = "backup"
  /\ Here([here EXCEPT !.backup = here.db])
  /\ Goto("open")
  /\ UNCHANGED <<home, faults, unmoved>>

\* The user's password and key file open the database.
Unlocks ==
  /\ draft.right /\ here.db = UserDb
  /\ userKey # "none" => draft.key = userKey
  /\ userKey = "none" => draft.key = "none"

OpenExisting ==
  /\ pc = "open"
  /\ Unlocks
  /\ Goto("key")
  /\ UNCHANGED <<usb, home, faults, unmoved>>

WrongCredentials ==
  /\ pc = "open"
  /\ ~Unlocks
  /\ Here([here EXCEPT !.backup = Nothing])
  /\ Goto("raised")
  /\ UNCHANGED <<home, faults, unmoved>>

Write ==
  /\ pc \in Writing
  /\ Put(Written(usb[Target], pc))
  /\ home' = IF pc = "local" THEN home \cup {attempt} ELSE home
  /\ Goto(After(pc))
  /\ UNCHANGED <<faults, unmoved>>

\* update_integrity_manifest (what it writes is left out).
Manifest ==
  /\ pc = "manifest"
  /\ Goto(IF draft.adopt THEN "provisioned" ELSE "publish")
  /\ UNCHANGED <<usb, home, faults, unmoved>>

\* os.replace of the hidden directory.
Publish ==
  /\ pc = "publish"
  /\ usb' = [usb EXCEPT ![draft.at] = usb[attempt], ![attempt] = Empty]
  /\ Goto("provisioned")
  /\ UNCHANGED <<home, faults, unmoved>>

-----------------------------------------------------------------------------
(* Errors: a creation drops its directory, an adoption is undone.          *)

Fault == faults < MaxFaults /\ faults' = faults + 1

\* rmtree ignores its own errors: with the USB gone the directory stays.
FailCreate ==
  /\ Fault
  /\ ~draft.adopt
  /\ pc \in Writing \cup {"manifest", "publish"}
  /\ \E f \in {Empty, usb[attempt]} : Put(f)
  /\ home' = home \ {attempt}
  /\ Goto("raised")
  /\ UNCHANGED unmoved

\* Before the first change: nothing to undo, but the copy may stay.
FailBackup ==
  /\ Fault
  /\ pc = "backup"
  /\ \E b \in {Nothing, Torn} : Here([here EXCEPT !.backup = b])
  /\ Goto("raised")
  /\ UNCHANGED <<home, unmoved>>

FailAdopt ==
  /\ Fault
  /\ draft.adopt
  /\ pc \in Writing
  /\ \E f \in {here, Written(here, pc)} : Here(f)
  /\ home' \in {home, IF pc = "local" THEN home \cup {attempt} ELSE home}
  /\ Goto("undo_db")
  /\ UNCHANGED unmoved

\* Outside the try block of an adoption, nothing is undone: reading the metadata
\* before it, or removing the copy, and the last manifest update after it.
FailOutside ==
  /\ Fault
  /\ draft.adopt
  /\ pc \in {"open", "manifest"}
  /\ Goto("raised")
  /\ UNCHANGED <<usb, home, unmoved>>

UndoDb ==
  /\ pc = "undo_db"
  /\ Here([here EXCEPT !.db = here.backup])
  /\ Goto("undo_metadata")
  /\ UNCHANGED <<home, faults, unmoved>>

\* Mutant: devices.json is left behind.
MUndoMetadata ==
  /\ pc = "undo_metadata"
  /\ Here([here EXCEPT !.json = before.json])
  /\ Goto("undo_slots")
  /\ UNCHANGED <<home, faults, unmoved>>

UndoMetadata ==
  /\ pc = "undo_metadata"
  /\ Here([here EXCEPT !.json = before.json, !.roster = before.roster])
  /\ Goto("undo_slots")
  /\ UNCHANGED <<home, faults, unmoved>>

UndoSlots ==
  /\ pc = "undo_slots"
  /\ Here([here EXCEPT !.slot = before.slot, !.device = before.device])
  /\ Goto("undo_key")
  /\ UNCHANGED <<home, faults, unmoved>>

\* Only a key file this attempt made is removed.
UndoKey ==
  /\ pc = "undo_key"
  /\ Here([here EXCEPT !.key = IF draft.key = "inside" THEN @ ELSE Nothing])
  /\ Goto("undo_home")
  /\ UNCHANGED <<home, faults, unmoved>>

UndoHome ==
  /\ pc = "undo_home"
  /\ home' = home \ {attempt}
  /\ Goto("raised")
  /\ UNCHANGED <<usb, faults, unmoved>>

\* The undo fails half way; the copy onto the database is not atomic.
FailUndo ==
  /\ Fault
  /\ pc \in Undoing
  /\ IF pc = "undo_db"
       THEN \E d \in {here.db, Torn} : Here([here EXCEPT !.db = d])
       ELSE UNCHANGED usb
  /\ Goto("raised")
  /\ UNCHANGED <<home, unmoved>>

\* Where the interpreter ends: no except block runs.
Stop == Goto("none")

Provision ==
  \/ Check \/ Refuse \/ Backup \/ OpenExisting \/ WrongCredentials
  \/ Write \/ Manifest \/ Publish
  \/ UndoDb \/ UndoMetadata \/ UndoSlots \/ UndoKey \/ UndoHome

ProvisionFault ==
  FailCreate \/ FailBackup \/ FailAdopt \/ FailOutside \/ FailUndo
=============================================================================
