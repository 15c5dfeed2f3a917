# Verification of ASH Password Manager

TLA+ models of the stateful core of ASH Password Manager, the TLC runs that
check them and the TLAPS proofs about them. Every definition is translated from
the Python source under `src/src/passman/` (paths below are relative to it);
`PROJECT.json` maps each one to its lines.

## 1. Inventory of the system

A vault is a directory on a USB drive: a KDBX4 database with a key file, a
`vault.json`, a directory of key slots, the device roster `devices.json` and the
integrity manifest `integrity.json`. The database is encrypted with a random
secret (the VMS). `password.slot` wraps that secret under the master password;
each enrolled computer has one `device-*.slot` that wraps it under the Local Key
stored on that computer, a pepper in its Secret Service and its machine binding.

| Component | State | Operations | Interacts with |
|---|---|---|---|
| device registry `core/devices/` | slots, roster, manifest on the USB; key, identity and pepper on each computer | register, unlock, revoke, reset and change of the password | called by the sign-in window, Settings (worker threads) and the CLI (other process), no lock |
| key slots, crypto `core/crypto/` | none | wrap, unwrap | pure |
| manifest `core/vaults/health.py` | `integrity.json` | update, check | after each registry write |
| vault file `core/vault/kdbx.py` | the KDBX file; per handle a database in memory and the digest of the file | open, edit, save, close | sidecar `flock`; other KDBX programs write the file too |
| provisioning `core/vault/provisioning.py` | a container being built | create, adopt, roll back | registry, vault file, manifest |
| backup `core/backup/archive.py` | an archive | pack, verify, restore | reads every file of a vault in turn |
| vault registry `core/vaults/registry.py` | `vaults.json` | add, remove, touch | read and rewritten by every process, no lock |
| session `core/security/session.py` | locked or unlocked, handle | unlock, activity, lock | lock triggers: 2 s tick, logind, IPC, quit |
| clipboard `core/security/clipboard.py` | generation, timer, digest of the copied value | copy, timed clear, clear on lock | timer thread, the desktop clipboard |
| autotype `ui/autotype.py`, `core/auth/engine.py` | busy flag, worker | confirm, type steps | runs while the session may lock |
| sign-in `core/flows/login_machine.py`, `ui/login/` | state of the attempt | Local Key, fallback, password, enroll | registry, vault file |
| setup `core/flows/setup_machine.py`, `ui/setup/` | wizard step, stack of pages | select USB, adopt, create, enroll | provisioning, vault registry |
| accounts `core/accounts/`, `ui/account_detail.py`, `ui/entry_editor.py`, the two lists | what each dialog read when it opened | show, add, edit, delete, recovery codes, TOTP | vault file |
| strategies `core/auth/strategy*.py`, `ui/strategy_editor.py` | the steps being edited, presets | edit, validate, save | accounts, autotype |
| application `ui/app.py` | window, control server, watcher | start, tick, lock, tear down | session |
| launcher `launcher/`, `cli/main.py` | agent's last seen drives, control socket | watch, spawn, single instance | sign-in, setup, application |
| integration `integration/` | none of its own | UDisks2, logind, shortcuts | I/O |
| generator, TOTP | none | pure functions | accounts |

What is hard here, and hard to test: files on the USB are read, edited in
memory and rewritten by unsynchronised processes; each of several writes of one
call can be its last (USB pulled out, crash); the vault is written by foreign
programs; timers, worker threads and five lock triggers race with each other;
the setup and adoption paths have to undo half-done work.

What makes each component correct is listed, at its line, under `hazards` in
`PROJECT.json`, with the properties that address it; a hazard no property
addresses has a note saying why.

## 2. The models

### Devices: the device registry

`Devices.tla` has one step per access to one file. A call of `registry.py` is a
program counter `pc` per thread or process with its locals (`dev`, `seen`,
`newPw`): `register_device` is ProvisionPepper, GenerateLocalKey, WriteIdentity,
WriteDeviceSlot, SaveManifest, ReadRoster, WriteRoster, SaveManifest; the other
calls share these steps, and `Continuation` says which calls go on after a manifest
update. Cryptography is reduced to what decides an unlock: a slot holds the
binding it was sealed under, and `LocalKeyOpens` is true when key, pepper and
binding are those of the slot.

A computer runs one application (the D-Bus name and the control socket keep it to
one) and any number of command lines. `Proc` is room for the calls that run at a
time, all at the computer `at` that has the USB: each is made by a thread of the
application there or by a command line (`cli`). A dialog that is closed while a
reset runs can start another one, a revocation runs on the main thread beside it,
the enrollment button can be clicked twice (the second worker has no secret, call
`"blank"`; `session` says that the offer stays), and Skip leaves a running
enrollment behind. The main thread is blocked by its own revocation and the sign-in
window by its own attempt (`Attended`), which is all that keeps calls apart. Workers
are daemon threads: they end with the process (`EndProcess`).

Faults are an error in any file access (`FailCall`), the death of a process
(`Crash`, `CrashCli`), either of which may leave a short key file (`Tear`), a roster
read that fails and is answered with the empty default (`MisreadRoster`), a wiped
home directory, a lost keyring and another machine id; `MaxFaults` bounds how many
happen. Nothing keeps the bindings of two computers
apart: `compute_binding` hashes an `<absent>` marker for what it cannot read.
The USB moves between computers at any time no call is running; unplugging
during a call is the failure of its next access. Of `integrity.json` only the
moments of its update are there, where a call can stop, not its content.

History variables: `revoked` and `enrolled` collect the devices whose call
returned, `revoking` those whose revocation was asked for, `acked` and
`unacked` follow the passwords users were told about. `stale` has, for each call,
the records it misread and what others replaced since it read or wrote it; `lost`
are the devices that a write from such a roster took off the list.

### SharedVault and VaultFile: the database

`SharedVault.tla` is the promise: opening is a load-linked, saving a
store-conditional. `VaultFile.tla` is `open_vault` and `VaultHandle.save` step
by step (lock without waiting, compare digest, replace, digest again), with the
USB unplugged, crashes that release the flock, errors after the file was
replaced, and foreign programs. Content is the set of edits made. A version
number stands for the digest: every KDBX save draws new seeds, so no two saves
have the same one. `ImplementsSharedVault` is the refinement, `fresh` being the
processes whose digest still matches.

Two assumptions are built in. The USB is not unplugged and plugged in again
within one save. A foreign program merges: it reads the file and saves it with
one edit more. `raced` records that a foreign program saved while one of ours
held the lock; there is no protection against that in the code, so the safety
properties are stated without it (`~raced =>`), and the promise is void from then
on (`Break`, `broken <- raced`); section 6 says what happens otherwise.

### Clipboard: copying and clearing secrets

`Clipboard.tla` is `ClipboardManager`. Its operations hold one lock throughout,
so the state has a single program counter, `stage`, for the operation inside:
copy, book (generation, digest and timer), paste and clear. Everything else can
come between two tools: a timer elapses and its callback queues for the lock
(`elapsed`), no longer cancellable; another program writes to the clipboard.
`Failing` says which tools may fail. A text stands for its digest. `OtherText`
overlaps `Text`, since a user may copy the same password elsewhere.

History variables: `timed`, `due`, `mine`, `cleared` and `failed` follow the
last successful copy; `raced` records a foreign write between wl-paste and the
clear, which nothing in the code prevents. `failed` is reset by the next copy.
A wl-copy that fails may still have set the clipboard; that text was reported
as not copied, is not `mine`, and no property is stated about it.

`FairSpec` adds fairness for the steps of the operation that holds the lock (its
tools have timeouts) and for time. A callback gets the lock in the end (strong
fairness) because copies are made by a person, seconds apart.

### Provisioning and Setup: the first-run wizard

`Provisioning.tla` is `create_new_vault` and `adopt_existing_vault`, one step
per file. `pc` is the file being written (`After` gives the order), `usb` the
files of each directory: the containers, and the hidden directory that each
creation fills and renames onto its container at the end (the directory of attempt
`a` is `a`); `home` has the computer's keys. Values are reduced to
where they come from: the number of an attempt stands for all it draws at
random, so a vault opens (`Opens`) when its slot, its database and its key file
are of one attempt. An adoption rewrites the database where it is, after copying
it aside; an error starts the undo, one step per group of files, and each step
of the undo can fail as well. A failing write may have happened or not. `rmtree`
ignores errors, so a failed creation may leave its directory. `Stop` is the end of
the interpreter between any two steps.

`Setup.tla` puts the wizard around it: the stack of pages of the
NavigationView, `SetupFlow.state`, which has no way back, and the worker whose
result a callback of the main loop takes. A handler that asks for a forbidden
transition raises after its earlier assignments (`Advance`). Sign-in starts the
wizard again as long as `vaults.json` is empty, so a second attempt meets what
the first one left; `Discovered` looks into hidden directories too. The order of the
names it goes through is not told apart: any directory that qualifies may be
taken. Formatting the drive is not modelled, and a USB holds at most one database
when the wizard first sees it.

### Session: locking against typing

`Session.tla` is the unlocked process. The main thread has a FIFO of idle
callbacks (`idle`) and one operation of several steps, `Session.lock` (`main`);
the control thread and logind only append to `idle`. A job is one Auto-Type or
one Test Strategy from the click to `finish`: a question, a delay, a worker
that looks for its window, then, for each step, asks `is_cancelled`, looks at the
focus and sends the input (`Check`, `Act`: the lock may come between them).
Jobs can run side by side, because the busy flag of Auto-Type and that of a strategy
editor are different ones: the theorems are for any number of them, the run has
one.

Windows have names; what is typed is left out, but not whether a backend puts
it on the clipboard. `trouble` is what the next tick would find; the tick looks at
inactivity first and asks for the drive only if that does not lock, and an
answer of lsblk that is not JSON raises out of the tick and ends its timer
(`Tick`, `watch`). History: `late`
counts the inputs of a job after the lock, `astray` is set by an input that
reaches a window other than the one the job looked at, unless the focus moved
after the look (`moved`); `locks` counts calls of `on_lock`.

### Usb, Login and Launcher: from the plug to the manager

`Usb.tla` has the drive as the desktop sees it and the two readers of it:
`evaluate_usb_status` over the device tree of lsblk, translated with its lookups
by UUID, and `find_and_mount_vault` over UDisks2, which unlocks and mounts.
`Login.tla` is the sign-in window with its worker threads; its file accesses are
those of `Devices`. `Launcher.tla` composes them with the agent (one poll looks
for each vault in turn, then spawns), with the processes of the command line,
with D-Bus names (`Signing`, `Wizard` and `Manager` have at most one member) and
with the control socket, whose file outlives a killed manager (`"dead"`).

`work` is a set of workers, since a second click on "Create device key" starts a
second one; `pending` says whether the window still holds the secret or has given it
to a worker. A drive has one mount point at a time; where lsblk and UDisks2 would
name several in a different order is not modelled.

Steps between which nothing can be seen from outside are one: the ping and the
focus, a look and the mount after it, the start of a manager with that of its
control server, the last look of a poll with the comparison. `arrived` and
`surplus` are history: the drives mounted since the last sign-in was started for
them. The vaults are looked for in a fixed order, as `vaults.json` has one. The
agent runs all the time.

### Strategy and Accounts: the dialogs

`Accounts.tla` is the main thread of the manager and the picker: the list, the
dialog of an account, the entry editor with its retry, the gate of the recovery
codes and, from `Strategy.tla`, the strategy editor. Each remembers what it read
(`list.all`, `detail`, `editor`, `strategy.totp`) while the database in memory,
`tree`, goes on. The editor of a new account can also come up over the dialog of
an account (Ctrl+N), which its save then leaves open (`closes`); over the entry
editor or the strategy editor that is not modelled. Saving is atomic here, since
`VaultFile` has its steps; it may fail at every caller, and then the handler ends
where the code lets it end. Accounts are told apart by having TOTP and recovery
codes, steps by needing the account to have TOTP, and by whether their value is
valid. `failed` is history.

### Backup

`Backup.tla` packs the files one after the other while `FileReplaced` replaces
them. `tar.add` looks the size up and then copies that many bytes: a file that
shrank ends the call, one that grew is stored without its end (`"cut"`), and
`_validate_payload` notices that of JSON files only. The files that never change
are left out. Two processes work on one output path (`O_EXCL`) and one
destination, with failures, whose handlers remove what the call made, and
crashes, which leave it. `Accepted` is what `_validate_payload` accepts, with a
database of any length. `promised` records that an archive was reported as written
or valid.

## 3. Runs

| Run | Instance | What it shows |
|---|---|---|
| `devices` | 1 computer, 2 calls at a time, 2 devices, 2 passwords, 1 fault, read errors | revocation is final, also one that was killed after it unlinked the slot; an enrollment lasts; the password is never lost; the roster forgets nothing, except by a write from a stale or misread list |
| `devices_dropped` | the same, one binding, no read errors | a violation: two calls at a time drop a record |
| `devices_reset` | the same | a violation: a reset that is reported as failed has changed the password |
| `vault` | 2 processes and a foreign program, 2 edits, 3 versions, 2 faults | the refinement onto SharedVault, and nothing acknowledged is lost |
| `clipboard` | 2 texts, 4 generations, every tool may fail | only our last copy is cleared, at its time or on a lock; a copy with a timeout leaves the clipboard |
| `setup` | 2 containers, 2 attempts, 2 failures | passwords are never lost, a vault under its own name is whole, an undo is exact, a committed vault is registered and opens, the commit page is left |
| `setup_partial` | the same | a violation: what a stopped creation or adoption leaves is registered and handed to Login |
| `session` | 1 job of 2 inputs, 1 waiting command, three configurations of the triggers | one lock and one teardown, at most one late input, a lock clears the clipboard, nothing is typed into a window not looked at; a lock ends the process, a confirmed job ends |
| `launcher` | an encrypted and a plain drive, 1 mount point and one elsewhere, 2 processes beside the agent | one sign-in per arrival, the socket leads to the manager, one attempt at a time, the secret has one owner, sign-in and the manager's tick agree on where a vault is mounted |
| `accounts` | 2 accounts, 2 strategy steps, dialogs on each other | what a dialog shows, toggles and validates is what the database holds; one editor makes one account |
| `backup` | 2 processes, 2 sizes, 2 faults | what is reported as written stays at its path and is accepted, a destination never has part of a vault |
| `backup_recoverable` | 1 process, 2 sizes, no fault | a violation: a reported archive has a cut database |

Bounds (each is a constant, commented where it is declared). Two devices are
enough for one call to lose another's record, two calls at a time for every race
(each property relates at most two), two passwords for an old and a new one, and
two bindings for one that changes. The run of the registry is on one computer, with
one fault, because a second computer or fault is out of reach beside two calls, two
devices and two passwords; calls run only where the USB is, and several computers
and any number of faults are covered by the theorems alone. Two faults let an undo of
the wizard fail, and a save of the vault file fail and its retry again. Three
versions of the file are an edit, an edit over it and a retry. Four generations of
the clipboard are an old copy, a new one, a lock and a copy after it. Two attempts
of the wizard are one that fails and one over its leftovers; two containers, that of
the default name and another. One job has a lock before, between and after its two
inputs; liveness with two jobs is out of reach, and for the safety of several jobs
there are the theorems. The configurations of the triggers are all of them, a vault
without removal protection, and a removal that is answered with
`"keep_unlocked"`. In `idle`, one command waits beside the callbacks of the job and
the teardown, which the bound does not count. Two drives are one of each kind; two
processes are one that has a window and one that races it. `UsbAgreement` asks also
about a manager that was opened where the drive is not mounted (`"elsewhere"`), so
one mount point is enough for both answers. Two accounts are one that a dialog shows
and one made or deleted beside it. Two sizes are enough for a file to grow and to
shrink.

`CHECK_DEADLOCK FALSE` is set because the system may stop: no user acts, the
application has ended, the wizard is closed, or the bounded ids, edits, attempts
and faults are used up.

Fairness is assumed of the program only, never of the user. `Clipboard`: the
tools of the operation that holds the lock have timeouts, time passes, and a
callback gets the lock in the end (strong fairness), because copies are made by
a person, seconds apart. `Setup`: the worker thread and the idle callback that
takes its result go on, none of them waits for input (weak fairness of `Commit`).
`Session`: `lock` runs through, the main loop serves its idle callbacks, its
delays of jobs, and workers go on, their tools having timeouts (weak fairness of
each); no fairness is assumed of the 2 s tick, which an error can end, nor of any
failure. The other models assume no fairness.

What the four violations are, each with the line it contradicts under `findings`:

- `devices_dropped`: `docs/SECURITY.md:112` says that the slot of a device "stays
  listed" and "is never silently dropped". A revocation on the command line that read
  `devices.json` before an enrollment stored its record writes it back without that
  record. The device signs in (`EnrolledKeepsWorking`), but Settings does not list
  it. `RosterRemembers` says that this and a misread are the only ways.
- `devices_reset`: `ui/settings_window.py:315` answers every error of a reset with
  "No password was changed."; the slot is replaced before the manifest is
  updated, so an error there comes after the change. `PasswordAlwaysOpens` is what
  holds: the slot opens with the last acknowledged password or one written later.
- `setup_partial`: an adoption that is stopped between `vault.json`
  and the password slot, or whose undo fails there, leaves a container that
  `_build_existing_vault_found_page` takes for a vault, against
  `core/flows/setup_machine.py:22`. The passwords are not lost (`EntriesSurvive`):
  the copy made before the adoption still has them. A creation that is stopped before
  the password slot, or fails and cannot remove its directory, leaves a hidden
  `.ASH.setup-*` with `vault.json` and a database, which `discover_container` finds as
  well, against `core/vault/provisioning.py:158` and `:209`. `NamedVaultsOpen` is what
  holds: under its own name a vault is whole.
- `backup_recoverable`: a database that grows while it is packed is stored cut, which
  `verify_backup` accepts, against "complete, independently recoverable"
  (`core/backup/archive.py:272`). `BackupsAreSafe` claims only what `Accepted` does.

## 4. Theorems

Every invariant and action property that a passing run checks is also a theorem for
all values of the constants; liveness is not. Each `*Proofs.tla`
states an inductive invariant `Inv`, whose parts TLC checked on the instances
of section 3 before they were proved, shows that `Init` implies it and that every
action keeps it (one lemma per action, or per group of actions that do the same to
it), and derives the theorems from it. The last step of each is temporal logic
only.

| Module | Theorems | Property |
|---|---|---|
| `DevicesProofs` | `TypeCorrect`, `RevocationIsFinal`, `UnlinkedStaysUnlinked`, `EnrollmentLasts`, `PasswordIsNeverLost` | `TypeOK`, `RevocationIsReal`, `RevocationSticks`, `EnrolledKeepsWorking`, `PasswordAlwaysOpens` |
| | `EnrolledStayListed`, `OnlyStaleWritesForget` | `EnrolledIsListed`, `RosterRemembers` |
| `VaultFileProofs` | `TypeCorrect`, `AcknowledgedIsDurable`, `MatchIsEnough`, `NothingIsLost` | `TypeOK`, `SavedIsOnDisk`, `MatchingHandleSeesAll`, `NoLostUpdate` |
| | `SavesAreConditional` | `ImplementsSharedVault`, the refinement |
| `ClipboardProofs` | `TypeCorrect`, `LockClears`, `NoTimerCutsShort`, `OnlyOwnTextIsCleared` | `TypeOK`, `ClearNowLeavesNothing`, `FullTime`, `PreservesOthers` |
| `SetupProofs` | `TypeCorrect`, `EntriesAreKept`, `NamedVaultsAreWhole`, `UndoIsExact`, `CommitsAreUsable` | `TypeOK`, `EntriesSurvive`, `NamedVaultsOpen`, `UndoneIsUntouched`, `CommittedIsUsable` |
| `SessionProofs` | `TypeCorrect`, `LockedOnlyOnce`, `LateInputIsOne`, `LockTakesSecrets`, `InputsReachTheirWindow` | `TypeOK`, `OneTeardown`, `AtMostOneLateInput`, `LockClearsClipboard`, `NothingGoesAstray` |
| `LauncherProofs` | `TypeCorrect`, `NoSecondPopup`, `ManagerIsReachable`, `ViewsAgree`, `SignInIsOrderly`, `SecretIsWipedByItsOwner` | `TypeOK`, `OneSignInPerPlug`, `RunningIsReachable`, `UsbAgreement`, `LoginIsOrderly`, `SecretHasOneOwner` |
| `AccountsProofs` | `TypeCorrect`, `WindowsAreCurrent` | `TypeOK`, `ScreenIsCurrent` |
| `BackupProofs` | `TypeCorrect`, `BackupsStaySafe` | `TypeOK`, `BackupsAreSafe` |

Why each property needs more than itself to be inductive:

- **Devices.** The invariant says what each program counter implies: a device
  being registered was minted and has no other registration running
  (`MintedFirst`, `EnrollingUnknown`), so no later write can recreate the slot
  of a revoked device (`RevokingUnlinks`); without a revocation nobody marks or
  unlinks a device (`OnlyRevocationRevokes`). `PasswordInv` adds that a call which
  has written the password slot finds its password there until another one writes it,
  and `RosterInv` that the list a call is about to write is the present roster with
  its own edit, but for the records noted in `stale`, and that only the call that
  enrolls a device lists it.
- **VaultFile.** The invariant relates the holder of the lock to the processes
  past it, and every digest in memory to a version not newer than the file; a
  handle whose digest is the file's has seen all of it.
- **Clipboard.** Only the last copy's timer is armed, at most its callback carries
  the current generation, and whoever runs wl-paste compares with the last copy.
- **Setup.** For the files: what the given container holds at each write and at
  each step of the undo, in terms of what it held before (`Adoption`), what the
  hidden directory holds before it is published (`Creation`), and that the other
  containers are untouched or whole (`OthersWhole`). `EntriesSurvive` is about
  one container and follows only because the copy is made before the first change
  and `key` is rewritten after the database was opened with it. For the pages:
  each page has a height it may have at most, and only some have others above them
  (`Stack`); the page on top says which state the flow is in and whether the worker
  runs (`Screens`).
- **Session.** `locks` counts calls of `on_lock`, which needs that `lock` is not
  running twice (`LockedOnce`). The queue of idle callbacks has each `finish` and
  the teardown once (`Queue`), and the teardown stays until the application has
  gone; so a job that copied a secret after the lock is still in the queue behind
  it (`LateCopy`). A job that is about to send has looked at the focus, and if
  the focus changed since, that is noted (`Careful`).
- **Launcher.** A window has one owner, and the socket belongs to the serving
  manager until it stops (`OneOfAKind`); the sign-in has one worker, on the page
  that waits for it (`OneWorker`), the others having been left behind by Skip or started by a second
  click; and every drive that is mounted is known to the
  last poll, or arrived since, or is still to be looked at (`Remembered`).
  `UsbAgreement` follows from the types and the rules of `Usb` alone.
- **Accounts.** A dialog is of an account, the strategy editor lies over a dialog
  with what that one knows of the account (`Stacked`), its Save button goes with
  the steps whenever all rows could be made (`Validated`), an editor has its
  UUID once it made an account (`MadeOnce`), and the editor of a new account over a
    dialog that it does not close has no account yet, unless its save failed
  (`NewIsNew`). The lemmas before it say that each   way to edit a list of steps
  gives a list of steps within the bound.
- **Backup.** The path has at most one writer, whose file is incomplete
  (`OneWriter`), what is about to be written was validated (`WritesAreValid`), and
  a hidden directory holds the files up to the position of its call, and all of
  them when it is published (`Progress`).

The proofs assume only the named ASSUMEs of the modules, which TLC evaluates in
every run; no theorem has a hypothesis besides. Most of the ASSUMEs say that
a constant such as `None` is not one of the values it stands beside: in
`UsbAssumption` a filesystem of no vault is of no vault, in
`AccountsAssumption` a deleted account is not an account.

Only model-checked:

- the liveness properties `TimedCopyEnds`, `CommitEnds` and `EverythingEnds`: fairness
  is stated with ENABLED, which the provers do not reason about;
- the properties of the violations (section 3), which the code does not have.

No model uses a RECURSIVE operator, and nothing proved needs an induction over
data.

## 5. Plan

Done: all modules of section 2 with their runs, and theorems for every invariant
and action property of the passing runs.

Left: abstract specifications that more of the models implement, as VaultFile
does SharedVault: for Devices, a set of computers with access that an id enters
once and leaves for good; for Session, a lock that is taken once and ends the
process.

## 6. What the models show beside the properties

Behaviour met while modelling which the models have, which no passing property
excludes, and which is not a run of its own:

- Registry. Each call rewrites `devices.json` from an earlier read, so two calls
  at a time drop a record or undo a revocation in the roster (never in the
  slots); a roster that cannot be read is taken for an empty one. Enrollment is
  offered by the presence of a key file alone, and an enrollment that failed leaves
  one: the next sign-in skips the offer and `generate_local_key` refuses, although
  `ui/login/login_window.py:343` relies on a later retry from Settings, which has no
  such control. An unlock needs a writable USB.
- Vault file. A program that writes during one of our saves loses its edits. An
  error after the file was replaced leaves a handle whose digest is out of date,
  and its next save reports a conflict although no one else wrote.
- Session. An input that is under way at the lock may copy a secret again after
  the clipboard was cleared. Closing the window ends the process without a lock,
  and with it the timer that would have cleared the clipboard. A logind setting
  that is switched on later has no effect if both were off at the start. An answer of
  lsblk that is not JSON (`integration/usb/udisks.py:36`) is no `UdisksError`: it
  raises out of the tick and ends its timer, after which neither a timeout nor a
  removal locks, although `ui/app.py:135` says that both are checked every tick.
- Setup. The copy made by an adoption that was rolled back makes every retry
  refuse ("A backup already exists") until the user moves it.
- Sign-in. `core/flows/login_machine.py:22` says that the Local Key is never retried; the
  button does. `_on_auth_error` is not reached. A `touch_last_seen` that raises
  leaves the window at "checking".
- Launcher. `launcher/agent.py:21` explains that two windows never open by the ping; two sign-ins that
  both ping before there is a socket are kept apart by the D-Bus name only. A
  sign-in that ends while the old manager tears down is relayed to that manager
  and its handle dropped. After a lost race for a mount nobody looks again, as a
  mount is no device event. A drive replugged between two polls is not noticed.
  `lock` prints "already locked" while the manager starts.
- Accounts. A save that failed leaves its change in memory, where the next save
  writes it, and Cancel does not take it back. A TOTP step stays in a strategy
  when TOTP is removed. A preset with the name of a built-in one loads that one.
  A WAIT step that keeps the text of another action makes its row raise
  (`ui/strategy_editor.py:126`): the Save button stays as it was, and a strategy
  saved so can neither be opened nor run.

## 7. Not modelled

- Widgets, theming, packaging, and what is only I/O: the D-Bus and subprocess
  calls of `integration/` (their results are choices), the formatting of a drive.
- The KDBX format and the cryptographic primitives, which are libraries.
- Generators and TOTP codes: functions on strings and random bytes.
- The content of `integrity.json`: only the moments of its update are there.
- A copy of the Local Key's directory on a computer whose binding is the same.
- The lost update of two processes that rewrite `vaults.json`, and that of the
  file of presets: both are the race of `devices.json` again, which Devices has.
- The agent's crash and restart, the confidence of a window match, the ranking of
  search results, the wiping of memory.
