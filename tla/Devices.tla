------------------------------- MODULE Devices -------------------------------
(***************************************************************************)
(* The device registry of one vault: `passman.core.devices.registry` with  *)
(* the local key store, the Secret Service pepper, the key slots and the   *)
(* windows that call it.                                                   *)
(*                                                                         *)
(* The vault's container directory on the USB holds password.slot, one     *)
(* slot per enrolled device and devices.json (the roster).  Each computer  *)
(* holds at most one Local Key file and one identity file for the vault,   *)
(* plus a pepper per device in its Secret Service.  The application runs   *)
(* one process on a computer (launcher/ipc.py and the GtkApplication id),  *)
(* whose main thread and workers make calls side by side; a command line   *)
(* is a process of its own.  No lock orders their reads and writes, so one *)
(* step here is one access to one file.  All calls that run do so at the   *)
(* computer that has the USB.                                              *)
(*                                                                         *)
(* Files are replaced atomically (core/util/atomic_json.py), so a crash    *)
(* leaves the old or the new content.  Cryptography is abstract: a slot    *)
(* opens exactly when the inputs of its key derivation are reproduced.     *)
(* Of integrity.json only the moment of its update is modelled, not what   *)
(* it says.                                                                *)
(***************************************************************************)
EXTENDS Naturals, FiniteSets

CONSTANTS
  Device,      \* device ids: generate_device_id never repeats one
  Host,        \* computers the USB is plugged into
  Binding,     \* values of core.crypto.binding.compute_binding
  Proc,        \* threads and processes: room for the calls that run at a time
  Password,    \* master passwords
  NoDevice, NoKey, TornKey, NoSlot, NoHost, NoPassword,
  MayMisread,  \* whether reads of devices.json may fail
  MaxFaults    \* bound: injected errors, crashes and outside events

ASSUME ConstantsAssumption ==
  /\ NoDevice \notin Device
  /\ NoKey \notin Device /\ TornKey \notin Device
  /\ NoSlot \notin Binding
  /\ NoPassword \notin Password
  /\ NoHost \notin Host
  /\ MayMisread \in BOOLEAN
  /\ MaxFaults \in Nat

VARIABLES
  at,          \* the host the USB is plugged into, or NoHost
  pwSlot,      \* the password that opens password.slot
  slots,       \* device slot -> the binding it was sealed under, or NoSlot
  roster,      \* devices.json
  key,         \* ash-pass-manager.key: the device it was generated for
  identity,    \* device.json next to it: the device id it names
  keyring,     \* peppers the host's Secret Service can still return
  peppered,    \* devices enrolled at the secret_service tier
  bindingOf,   \* what compute_binding returns on each host today
  session,     \* per host: signed out, enrollment offered or asked for, open
  pc, op,      \* the next file access of the running call, and which call
  cli,         \* the calls that a command line makes
  dev,         \* the call's device id
  seen,        \* the roster the call holds in memory
  newPw,       \* the password the call is installing
  minted,      \* device ids handed out so far
  stale,       \* history: what others replaced since the call read or wrote it
  lost,        \* history: devices a write from a stale roster took off the list
  revoking,    \* history: devices some revoke_device call was made for
  revoked,     \* history: devices some revoke_device call returned for
  enrolled,    \* history: devices register_device returned for
  acked,       \* history: the last password whose installation returned
  unacked,     \* history: passwords written later, or whose call has not returned
  faults       \* outside events so far

usbVars  == <<at, pwSlot, slots, roster>>
hostVars == <<key, identity, keyring, peppered, bindingOf>>
callVars == <<op, cli, dev, newPw>>
memVars  == <<pc, callVars, seen, stale>>
pastVars == <<minted, revoking, revoked, enrolled, acked, unacked>>
vars == <<usbVars, hostVars, session, memVars, pastVars, lost, faults>>

Record == {"absent", "active", "revoked"}
Call   == {"none", "unlock", "register", "blank", "revoke", "reset", "change"}
Label  == {"idle", "localKey", "writeIdentity", "writeSlot", "saveSlot",
           "readRoster", "unwrap", "writeRoster", "saveRoster", "unlinkSlot",
           "saveAgain", "writePassword"}

TypeOK ==
  /\ at \in Host \cup {NoHost}
  /\ pwSlot \in Password
  /\ slots \in [Device -> Binding \cup {NoSlot}]
  /\ roster \in [Device -> Record]
  /\ key \in [Host -> Device \cup {NoKey, TornKey}]
  /\ identity \in [Host -> Device \cup {NoDevice}]
  /\ keyring \in [Host -> SUBSET Device]
  /\ peppered \in SUBSET Device
  /\ bindingOf \in [Host -> Binding]
  /\ session \in [Host -> {"none", "offered", "asked", "open"}]
  /\ pc \in [Proc -> Label]
  /\ op \in [Proc -> Call]
  /\ cli \in SUBSET Proc
  /\ dev \in [Proc -> Device \cup {NoDevice}]
  /\ seen \in [Proc -> [Device -> Record]]
  /\ newPw \in [Proc -> Password \cup {NoPassword}]
  /\ stale \in [Proc -> SUBSET (Device \cup {"password.slot"})]
  /\ lost \in SUBSET Device
  /\ minted \in SUBSET Device
  /\ revoking \in SUBSET Device
  /\ revoked \in SUBSET Device
  /\ enrolled \in SUBSET Device
  /\ acked \in Password
  /\ unacked \in SUBSET Password
  /\ faults \in 0 .. MaxFaults

EmptyRoster == [d \in Device |-> "absent"]

(* A vault fresh from setup that was not enrolled on any computer yet: the *)
(* password slot and an empty roster exist.                                *)
Init ==
  /\ at \in Host \cup {NoHost}
  /\ pwSlot \in Password
  /\ slots = [d \in Device |-> NoSlot]
  /\ roster = EmptyRoster
  /\ key = [h \in Host |-> NoKey]
  /\ identity = [h \in Host |-> NoDevice]
  /\ keyring = [h \in Host |-> {}]
  /\ peppered = {}
  /\ bindingOf \in [Host -> Binding]
  /\ session = [h \in Host |-> "none"]
  /\ pc = [p \in Proc |-> "idle"]
  /\ op = [p \in Proc |-> "none"]
  /\ cli = {}
  /\ dev = [p \in Proc |-> NoDevice]
  /\ seen = [p \in Proc |-> EmptyRoster]
  /\ newPw = [p \in Proc |-> NoPassword]
  /\ stale = [p \in Proc |-> {}]
  /\ lost = {}
  /\ minted = {} /\ revoking = {} /\ revoked = {} /\ enrolled = {}
  /\ acked = pwSlot
  /\ unacked = {}
  /\ faults = 0

-----------------------------------------------------------------------------
(* Shared pieces of the steps.                                             *)

\* The call of p is at label l.
At(p, l) == pc[p] = l

Goto(p, l) == pc' = [pc EXCEPT ![p] = l]

\* The calls of the application on h: without the USB, it has none.
Threads(h) == {p \in Proc \ cli : h = at}

\* The windows on h take input: the main thread is not inside revoke_device,
\* which Settings calls on it, and the sign-in window is not busy.
Attended(h) == \A a \in Threads(h) : op[a] \notin {"revoke", "unlock"}

\* The user asks for it in a window of the application.
Asked == at # NoHost /\ Attended(at) /\ UNCHANGED cli

\* p starts call o about device d, to install password w when it is one.
Enter(p, o, d, w, l) ==
  /\ pc[p] = "idle"
  /\ Goto(p, l)
  /\ op' = [op EXCEPT ![p] = o]
  /\ dev' = [dev EXCEPT ![p] = d]
  /\ newPw' = [newPw EXCEPT ![p] = w]
  /\ UNCHANGED <<seen, stale>>

\* The calls of S end, by return, by exception or with their process: their
\* locals are gone.
End(S) ==
  /\ pc' = [q \in Proc |-> IF q \in S THEN "idle" ELSE pc[q]]
  /\ op' = [q \in Proc |-> IF q \in S THEN "none" ELSE op[q]]
  /\ cli' = cli \ S
  /\ dev' = [q \in Proc |-> IF q \in S THEN NoDevice ELSE dev[q]]
  /\ seen' = [q \in Proc |-> IF q \in S THEN EmptyRoster ELSE seen[q]]
  /\ newPw' = [q \in Proc |-> IF q \in S THEN NoPassword ELSE newPw[q]]
  /\ stale' = [q \in Proc |-> IF q \in S THEN {} ELSE stale[q]]

Leave(p) == End({p})

\* p replaced items that the calls at a label of L have read or written.
Outdate(p, L, items) ==
  stale' = [q \in Proc |-> IF q = p THEN {}
                           ELSE IF pc[q] \in L THEN stale[q] \cup items
                           ELSE stale[q]]

\* One more of the things that may go wrong happens.
Fault == faults < MaxFaults /\ faults' = faults + 1

Opened(h) == session' = [session EXCEPT ![h] = "open"]

Installing(p) == op[p] \in {"reset", "change"}

\* The call of p returns to its caller.  The password of an installation is
\* the vault's from now on, unless another call has written one since.
Return(p) ==
  /\ Leave(p)
  /\ \/ op[p] \in {"unlock", "register"} /\ Opened(at)
     \/ op[p] \notin {"unlock", "register"} /\ UNCHANGED session
  /\ enrolled' = enrolled \cup {d \in {dev[p]} : op[p] = "register"}
  /\ revoked' = revoked \cup {d \in {dev[p]} : op[p] = "revoke"}
  /\ \/ /\ Installing(p) /\ "password.slot" \notin stale[p]
        /\ acked' = newPw[p] /\ unacked' = {}
     \/ /\ ~(Installing(p) /\ "password.slot" \notin stale[p])
        /\ UNCHANGED <<acked, unacked>>
  /\ UNCHANGED <<minted, revoking>>

\* unwrap_device_slot: the Local Key, the pepper and the binding must all be
\* those the slot of d was sealed with.
LocalKeyOpens(h, d) ==
  /\ key[h] = d
  /\ slots[d] = bindingOf[h]
  /\ d \in peppered => d \in keyring[h]

\* What unlock_with_local_key needs on host h, over all its early exits.
LocalKeyWorks(h) ==
  /\ key[h] # NoKey
  /\ identity[h] # NoDevice
  /\ roster[identity[h]] # "revoked"
  /\ LocalKeyOpens(h, identity[h])

-----------------------------------------------------------------------------
(* Signing in with the master password.                                    *)

\* unlock_with_password, then _on_vault_opened: enrollment is offered only
\* when this computer has no Local Key file for the vault.
UnlockWithPassword(h, w) ==
  /\ session[h] = "none" /\ Attended(h)
  /\ at = h
  /\ pwSlot = w
  /\ session' = [session EXCEPT ![h] = IF key[h] = NoKey THEN "offered" ELSE "open"]
  /\ UNCHANGED <<usbVars, hostVars, memVars, pastVars, lost, faults>>

\* Skip stays on the page while an enrollment runs.
SkipRegister(h) ==
  /\ session[h] \in {"offered", "asked"}
  /\ Opened(h)
  /\ UNCHANGED <<usbVars, hostVars, memVars, pastVars, lost, faults>>

-----------------------------------------------------------------------------
(* register_device, on a worker of the sign-in window.  The first click on  *)
(* its button takes the vault secret.  The button stays: another click      *)
(* starts a "blank" call, without a secret, whose error its worker loses.   *)

\* Mutant of ProvisionPepper: a device id may be handed out again.
ProvisionKnown(p, d) ==
  /\ Asked
  /\ \/ session[at] = "offered" /\ Enter(p, "register", d, NoPassword, "localKey")
     \/ session[at] = "asked" /\ Enter(p, "blank", d, NoPassword, "localKey")
  /\ session' = [session EXCEPT ![at] = "asked"]
  /\ minted' = minted \cup {d}
  /\ UNCHANGED <<usbVars, hostVars, revoking, revoked, enrolled, acked, unacked,
                 lost, faults>>

\* A new id, and a pepper stored for it if the Secret Service can be reached.
ProvisionPepper(p, d) ==
  /\ Asked
  /\ d \notin minted
  /\ \/ session[at] = "offered" /\ Enter(p, "register", d, NoPassword, "localKey")
     \/ session[at] = "asked" /\ Enter(p, "blank", d, NoPassword, "localKey")
  /\ session' = [session EXCEPT ![at] = "asked"]
  /\ minted' = minted \cup {d}
  /\ \/ /\ keyring' = [keyring EXCEPT ![at] = @ \cup {d}]
        /\ peppered' = peppered \cup {d}
     \/ UNCHANGED <<keyring, peppered>>
  /\ UNCHANGED <<usbVars, key, identity, bindingOf, revoking, revoked, enrolled,
                 acked, unacked, lost, faults>>

\* generate_local_key creates the key file exclusively ...
GenerateLocalKey(p) ==
  /\ pc[p] = "localKey"
  /\ key[at] = NoKey
  /\ key' = [key EXCEPT ![at] = dev[p]]
  /\ Goto(p, "writeIdentity")
  /\ UNCHANGED <<usbVars, identity, keyring, peppered, bindingOf, session,
                 callVars, seen, stale, pastVars, lost, faults>>

\* The worker catches the error of a register_device call with a secret and the
\* window goes on into the manager all the same (_on_register_done).  Without a
\* secret, vms.wipe() raises once more and the window hears nothing.
Enrolled(p) ==
  \/ op[p] = "register" /\ Opened(at)
  \/ op[p] # "register" /\ UNCHANGED session

\* ... and refuses one that exists.
RefuseLocalKey(p) ==
  /\ pc[p] = "localKey"
  /\ key[at] # NoKey
  /\ Leave(p)
  /\ Enrolled(p)
  /\ UNCHANGED <<usbVars, hostVars, pastVars, lost, faults>>

WriteIdentity(p) ==
  /\ pc[p] = "writeIdentity"
  /\ identity' = [identity EXCEPT ![at] = dev[p]]
  /\ Goto(p, "writeSlot")
  /\ UNCHANGED <<usbVars, key, keyring, peppered, bindingOf, session, callVars,
                 seen, stale, pastVars, lost, faults>>

\* create_device_slot and write_slot up to the manifest update.
WriteDeviceSlot(p) ==
  /\ At(p, "writeSlot")
  /\ op[p] = "register"
  /\ slots' = [slots EXCEPT ![dev[p]] = bindingOf[at]]
  /\ Goto(p, "saveSlot")
  /\ UNCHANGED <<at, pwSlot, roster, hostVars, session, callVars, seen, stale,
                 pastVars, lost, faults>>

\* create_device_slot has no secret to wrap and raises.
FailWithoutSecret(p) ==
  /\ pc[p] = "writeSlot"
  /\ op[p] = "blank"
  /\ Leave(p)
  /\ UNCHANGED <<usbVars, hostVars, session, pastVars, lost, faults>>

-----------------------------------------------------------------------------
(* unlock_with_local_key and the calls that begin with it.                 *)

\* The key file exists and the identity file is readable; otherwise the call
\* raises NoLocalKeyError before it reaches the USB.
HasLocalKey == key[at] # NoKey /\ identity[at] # NoDevice

UnlockWithLocalKey(p) ==
  /\ Asked
  /\ session[at] = "none"
  /\ HasLocalKey
  /\ Enter(p, "unlock", identity[at], NoPassword, "readRoster")
  /\ UNCHANGED <<usbVars, hostVars, session, pastVars, lost, faults>>

\* The worker of the reset dialog.  A dialog that is closed while it runs and
\* opened again starts another.
ResetMasterPassword(p, w) ==
  /\ Asked
  /\ session[at] = "open"
  /\ HasLocalKey
  /\ w # pwSlot
  /\ Enter(p, "reset", identity[at], w, "readRoster")
  /\ UNCHANGED <<usbVars, hostVars, session, pastVars, lost, faults>>

\* change_master_password reads and unwraps password.slot first.
ChangeMasterPassword(p, old, w) ==
  /\ Asked
  /\ session[at] = "open"
  /\ pwSlot = old
  /\ w # old
  /\ Enter(p, "change", NoDevice, w, "writePassword")
  /\ UNCHANGED <<usbVars, hostVars, session, pastVars, lost, faults>>

\* Mutant of RevokeDevice: the record is marked, the slot is not unlinked.
RevokeRecordOnly(p, d) ==
  /\ at # NoHost /\ roster[d] # "absent" /\ cli' = cli \cup {p}
  /\ Enter(p, "revoke", d, NoPassword, "readRoster")
  /\ revoking' = revoking \cup {d}
  /\ UNCHANGED <<usbVars, hostVars, session, minted, revoked, enrolled, acked,
                 unacked, lost, faults>>

\* Settings lists the other devices of the roster; the command line takes
\* any id, which its user copies from the roster or a slot's file name.
RevokeDevice(p, d) ==
  /\ \/ /\ Asked
        /\ session[at] = "open"
        /\ roster[d] = "active"
        /\ HasLocalKey => identity[at] # d
     \/ /\ at # NoHost
        /\ roster[d] # "absent" \/ slots[d] # NoSlot
        /\ cli' = cli \cup {p}
  /\ Enter(p, "revoke", d, NoPassword, "unlinkSlot")
  /\ revoking' = revoking \cup {d}
  /\ UNCHANGED <<usbVars, hostVars, session, minted, revoked, enrolled, acked,
                 unacked, lost, faults>>

\* Mutant of UnlinkSlot: device-*.slot is unlinked, not one device's file.
UnlinkEverySlot(p) ==
  /\ At(p, "unlinkSlot")
  /\ slots' = [d \in Device |-> NoSlot]
  /\ Goto(p, "readRoster")
  /\ UNCHANGED <<at, pwSlot, roster, hostVars, session, callVars, seen, stale,
                 pastVars, lost, faults>>

\* The slot file is unlinked; a missing one is not an error.
UnlinkSlot(p) ==
  /\ At(p, "unlinkSlot")
  /\ slots' = [slots EXCEPT ![dev[p]] = NoSlot]
  /\ Goto(p, "readRoster")
  /\ UNCHANGED <<at, pwSlot, roster, hostVars, session, callVars, seen, stale,
                 pastVars, lost, faults>>

-----------------------------------------------------------------------------
(* devices.json: read, changed in memory, written back.                    *)

Unlocking(p) == op[p] \in {"unlock", "reset"}

\* Mutant of EditedRecord: a revoked device is taken off the list.
ForgottenRecord(p, d, record) ==
  IF d = dev[p] /\ op[p] = "register" THEN "active"
  ELSE IF d = dev[p] /\ op[p] = "revoke" THEN "absent" ELSE record

\* Mutant of EditedRecord: only known devices are updated, none is appended.
UpdatedRecord(p, d, record) ==
  IF d = dev[p] /\ op[p] = "revoke" /\ record = "active" THEN "revoked"
                                                         ELSE record

\* The record a call stores for device d, given the one it has read.
EditedRecord(p, d, record) ==
  IF d # dev[p] THEN record
  ELSE IF op[p] = "register" THEN "active"
  ELSE IF op[p] = "revoke" /\ record = "active" THEN "revoked"
  ELSE record

\* The call goes on with r as the content of devices.json.
TakeRoster(p, r) ==
  /\ At(p, "readRoster")
  /\ ~(Unlocking(p) /\ r[dev[p]] = "revoked")
  /\ seen' = [seen EXCEPT ![p] = [d \in Device |-> EditedRecord(p, d, r[d])]]
  /\ stale' = [stale EXCEPT ![p] = {d \in Device : r[d] # roster[d]}]
  /\ \/ Unlocking(p) /\ Goto(p, "unwrap")
     \/ ~Unlocking(p) /\ Goto(p, "writeRoster")
  /\ UNCHANGED <<usbVars, hostVars, session, callVars, pastVars, lost>>

ReadRoster(p) ==
  /\ TakeRoster(p, roster)
  /\ UNCHANGED faults

\* read_json answers a read error with its default: an empty roster.
MisreadRoster(p) ==
  /\ MayMisread
  /\ Fault
  /\ TakeRoster(p, EmptyRoster)

\* DeviceRevokedError.
FindRevoked(p) ==
  /\ At(p, "readRoster")
  /\ Unlocking(p)
  /\ roster[dev[p]] = "revoked"
  /\ Leave(p)
  /\ UNCHANGED <<usbVars, hostVars, session, pastVars, lost, faults>>

\* The key, the pepper and the slot are read and the slot is unwrapped.
Unwrap(p) ==
  /\ At(p, "unwrap")
  /\ LocalKeyOpens(at, dev[p])
  /\ seen[p][dev[p]] # "absent"
  /\ Goto(p, "writeRoster")
  /\ UNCHANGED <<usbVars, hostVars, session, callVars, seen, stale, pastVars,
                 lost, faults>>

\* Without a roster record there is no last-seen time to store.
UnwrapUnlisted(p) ==
  /\ At(p, "unwrap")
  /\ LocalKeyOpens(at, dev[p])
  /\ seen[p][dev[p]] = "absent"
  /\ \/ op[p] = "unlock" /\ Return(p)
     \/ /\ op[p] = "reset"
        /\ Goto(p, "writePassword")
        /\ UNCHANGED <<callVars, seen, stale, session, pastVars>>
  /\ UNCHANGED <<usbVars, hostVars, lost, faults>>

\* NoLocalKeyError, LocalKeyError or SlotUnwrapError.
FailToUnwrap(p) ==
  /\ At(p, "unwrap")
  /\ ~LocalKeyOpens(at, dev[p])
  /\ Leave(p)
  /\ UNCHANGED <<usbVars, hostVars, session, pastVars, lost, faults>>

\* Every record of the file is written from memory.
WriteRoster(p) ==
  /\ At(p, "writeRoster")
  /\ roster' = seen[p]
  /\ Outdate(p, {"unwrap", "writeRoster"},
             {d \in Device : seen[p][d] # roster[d]})
  /\ lost' = lost \cup {d \in stale[p] \cap Device :
                          roster[d] # "absent" /\ seen[p][d] = "absent"}
  /\ seen' = [seen EXCEPT ![p] = EmptyRoster]
  /\ Goto(p, "saveRoster")
  /\ UNCHANGED <<at, pwSlot, slots, hostVars, session, callVars, pastVars,
                 faults>>

\* Mutant of WritePasswordSlot: the new password was wiped too early.
WriteWipedPassword(p) ==
  /\ At(p, "writePassword")
  /\ pwSlot' = NoPassword
  /\ Goto(p, "saveSlot")
  /\ UNCHANGED <<at, slots, roster, hostVars, session, callVars, seen, stale,
                 pastVars, lost, faults>>

\* create_password_slot or rewrap_password_slot, then write_slot: the new
\* slot replaces the old one in a single rename.
WritePasswordSlot(p) ==
  /\ At(p, "writePassword")
  /\ pwSlot' = newPw[p]
  /\ unacked' = unacked \cup {newPw[p]}
  /\ Outdate(p, {"saveSlot"}, {"password.slot"})
  /\ Goto(p, "saveSlot")
  /\ UNCHANGED <<at, slots, roster, hostVars, session, callVars, seen, minted,
                 revoking, revoked, enrolled, acked, lost, faults>>

-----------------------------------------------------------------------------
(* update_integrity_manifest, the last thing write_slot and write_devices   *)
(* do.  revoke_device calls it a second time itself.                        *)

\* Mutant of Continuation: a reset returns after its Local Key unlock.
ResetForgetsPassword ==
  {<<"register", "saveSlot", "readRoster">>,
   <<"revoke", "saveRoster", "saveAgain">>}

\* The calls that go on after this update, and where.
Continuation ==
  {<<"register", "saveSlot", "readRoster">>,
   <<"revoke", "saveRoster", "saveAgain">>,
   <<"reset", "saveRoster", "writePassword">>}

SaveManifest(p) ==
  /\ pc[p] \in {"saveSlot", "saveRoster", "saveAgain"}
  /\ \/ /\ \E l \in Label : /\ <<op[p], pc[p], l>> \in Continuation
                           /\ Goto(p, l)
        /\ UNCHANGED <<callVars, seen, stale, session, pastVars>>
     \/ /\ \A l \in Label : <<op[p], pc[p], l>> \notin Continuation
        /\ Return(p)
  /\ UNCHANGED <<usbVars, hostVars, lost, faults>>

-----------------------------------------------------------------------------
(* What may go wrong: an I/O error, the end of a process, and events        *)
(* outside the program.  MaxFaults bounds how many of them happen.          *)

\* A call of S stops while it writes its Local Key file, or at another access:
\* the file may be left short.
Tear(S) ==
  \/ UNCHANGED key
  \/ \E p \in S : /\ pc[p] = "localKey" /\ key[at] = NoKey
                  /\ key' = [key EXCEPT ![at] = TornKey]

\* A file access of the call raises (a disk or the USB is full, read-only or
\* gone); the exception leaves the call.
FailCall(p) ==
  /\ Fault
  /\ pc[p] # "idle"
  /\ Leave(p)
  /\ Tear({p})
  /\ Enrolled(p)
  /\ UNCHANGED <<usbVars, identity, keyring, peppered, bindingOf, pastVars, lost>>

\* The process on h ends and takes its workers along: they are daemon threads.
EndProcess(h) ==
  /\ End(Threads(h))
  /\ Tear(Threads(h))
  /\ session' = [session EXCEPT ![h] = "none"]
  /\ UNCHANGED <<usbVars, identity, keyring, peppered, bindingOf, pastVars, lost>>

\* The manager is closed or locked, or the enrollment page is closed; a worker
\* that still runs is not waited for.
SignOut(h) ==
  /\ session[h] # "none" /\ Attended(h)
  /\ EndProcess(h)
  /\ UNCHANGED faults

\* The process dies in the middle of its calls, or the sign-in window is closed.
Crash(h) ==
  /\ Fault
  /\ \E a \in Threads(h) : pc[a] # "idle"
  /\ EndProcess(h)

\* The command line dies or is interrupted.
CrashCli(p) ==
  /\ Fault
  /\ p \in cli
  /\ Leave(p)
  /\ UNCHANGED <<usbVars, hostVars, session, pastVars, lost>>

Idle(h) == h = at => \A p \in Proc : pc[p] = "idle"

\* The USB is pulled out between calls (FailCall covers a running one).
Unplug ==
  /\ at # NoHost /\ Idle(at)
  /\ at' = NoHost
  /\ UNCHANGED <<pwSlot, slots, roster, hostVars, session, memVars, pastVars,
                 lost, faults>>

Plug(h) ==
  /\ at = NoHost
  /\ at' = h
  /\ UNCHANGED <<pwSlot, slots, roster, hostVars, session, memVars, pastVars,
                 lost, faults>>

\* The home directory and the keyring of a computer are wiped.
WipeHome(h) ==
  /\ Fault /\ Idle(h)
  /\ key' = [key EXCEPT ![h] = NoKey]
  /\ identity' = [identity EXCEPT ![h] = NoDevice]
  /\ keyring' = [keyring EXCEPT ![h] = {}]
  /\ UNCHANGED <<usbVars, peppered, bindingOf, session, memVars, pastVars, lost>>

\* The keyring is lost alone.
LoseKeyring(h) ==
  /\ Fault /\ Idle(h)
  /\ keyring' = [keyring EXCEPT ![h] = {}]
  /\ UNCHANGED <<usbVars, key, identity, peppered, bindingOf, session, memVars,
                 pastVars, lost>>

\* /etc/machine-id or the user id changes, or can no longer be read: then the
\* binding is made of "<absent>" markers, and two computers may share it.
ChangeBinding(h, b) ==
  /\ Fault /\ Idle(h)
  /\ bindingOf' = [bindingOf EXCEPT ![h] = b]
  /\ UNCHANGED <<usbVars, key, identity, keyring, peppered, session, memVars,
                 pastVars, lost>>

-----------------------------------------------------------------------------
Step(p) ==
  \/ \E d \in Device : RevokeDevice(p, d)
  \/ GenerateLocalKey(p) \/ RefuseLocalKey(p) \/ WriteIdentity(p)
  \/ WriteDeviceSlot(p) \/ FailWithoutSecret(p) \/ UnlinkSlot(p)
  \/ ReadRoster(p) \/ MisreadRoster(p) \/ FindRevoked(p)
  \/ Unwrap(p) \/ UnwrapUnlisted(p) \/ FailToUnwrap(p)
  \/ WriteRoster(p) \/ WritePasswordSlot(p)
  \/ SaveManifest(p)
  \/ FailCall(p) \/ CrashCli(p)

AppStep(p) ==
  \/ \E w \in Password : ResetMasterPassword(p, w)
  \/ \E old, w \in Password : ChangeMasterPassword(p, old, w)
  \/ \E d \in Device : ProvisionPepper(p, d)
  \/ UnlockWithLocalKey(p)

WindowStep(h) ==
  \/ \E w \in Password : UnlockWithPassword(h, w)
  \/ SkipRegister(h) \/ SignOut(h) \/ Crash(h)

Outside ==
  \/ Unplug
  \/ \E h \in Host : Plug(h) \/ WipeHome(h) \/ LoseKeyring(h)
  \/ \E h \in Host, b \in Binding : ChangeBinding(h, b)

Next ==
  \/ \E p \in Proc : Step(p) \/ AppStep(p)
  \/ \E h \in Host : WindowStep(h)
  \/ Outside

Spec == Init /\ [][Next]_vars

-----------------------------------------------------------------------------
(* Safety.                                                                 *)

(* Once revoke_device has returned for a device, its slot is gone for good, *)
(* whatever calls overlapped it: the device cannot derive the vault secret  *)
(* even if a stale write brings its roster record back.                     *)
RevocationIsReal == \A d \in revoked : slots[d] = NoSlot

(* Nobody else's call takes a device's Local Key away: after register_device *)
(* returned, as long as no revocation of this device was asked for, a host   *)
(* that still has its key, identity, pepper and binding signs in with them.  *)
EnrolledKeepsWorking ==
  \A h \in Host, d \in enrolled \ revoking :
    /\ key[h] = d /\ identity[h] = d
    /\ d \in peppered => d \in keyring[h]
    => /\ slots[d] # NoSlot
       /\ slots[d] = bindingOf[h] => LocalKeyWorks(h)

(* Without returning, too: once the slot of a device that is being revoked   *)
(* is unlinked, no step brings it back, even if the call then fails, its     *)
(* process dies before the record is marked, or the computer enrolls again.  *)
RevocationSticks ==
  [][\A d \in revoking : slots[d] = NoSlot => slots'[d] = NoSlot]_vars

(* The disaster-recovery promise: password.slot opens with the password     *)
(* installed last, or with one whose call is running or failed after its    *)
(* write.  A call that returns vouches for its password, whatever failed    *)
(* before it and runs beside it, unless another one was written meanwhile.  *)
PasswordAlwaysOpens ==
  /\ pwSlot \in {acked} \cup unacked
  /\ unacked = {} => pwSlot = acked

(* A device that register_device returned for is listed in devices.json, and *)
(* so can be revoked from Settings, unless a call that had read or misread   *)
(* the list without it wrote that list back.                                 *)
EnrolledIsListed == \A d \in enrolled \ lost : roster[d] # "absent"

(* A record leaves devices.json, and a revoked one becomes active again, in  *)
(* one way only: a call writes back a roster in which that very record was   *)
(* misread, or was replaced by another call since it was read.               *)
RosterRemembers ==
  [][\A d \in Device :
       \/ roster[d] # "absent" /\ roster'[d] = "absent"
       \/ roster[d] = "revoked" /\ roster'[d] # "revoked"
       => \E p \in Proc : /\ pc[p] = "writeRoster" /\ pc'[p] = "saveRoster"
                          /\ d \in stale[p]]_vars

-----------------------------------------------------------------------------
(* What the repository says and the code does not do.                      *)

(* docs/SECURITY.md, 112-113: the slot of a device that is no longer in use  *)
(* "stays listed in Settings -> Devices ... it is never silently dropped".   *)
NeverDropped == \A d \in enrolled \ revoking : roster[d] # "absent"

(* ui/settings_window.py, 315, on any error of a reset: "Reset failed. No    *)
(* password was changed."                                                    *)
FailedResetChangesNothing ==
  [][\A p \in Proc : FailCall(p) /\ op[p] = "reset" => pwSlot # newPw[p]]_vars
==========================================================================================
