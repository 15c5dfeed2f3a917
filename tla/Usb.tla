--------------------------------- MODULE Usb ---------------------------------
(***************************************************************************)
(* The USB drives as the desktop sees them, and the two ways ASH looks at  *)
(* them: the device tree of lsblk, asked whether a vault is still where it *)
(* was opened, and UDisks2, asked to find, unlock and mount a vault.       *)
(*                                                                         *)
(* A drive is absent; locked (LUKS only); open, that is unlocked but not   *)
(* mounted; foreign, unlocked with another filesystem inside (LUKS only);  *)
(* or mounted at a mountpoint.                                             *)
(***************************************************************************)
EXTENDS Naturals, FiniteSets

CONSTANTS
  Vault,       \* vaults, each on a drive of its own
  Luks,        \* those whose drive is encrypted; the others are plain
  Mountpoint,  \* where the desktop mounts drives
  None         \* no such thing: no mountpoint, no process, another filesystem

ASSUME UsbAssumption ==
  /\ Luks \subseteq Vault
  /\ Mountpoint \cap {"absent", "locked", "open", "foreign"} = {}
  /\ None \notin Mountpoint \cup {"elsewhere"} /\ None \notin Vault

VARIABLES
  usb,     \* the state of each vault's drive
  arrived  \* history: drives mounted since the last sign-in opened for them

DriveState == {"absent", "locked", "open", "foreign"} \cup Mountpoint
UsbTypeOK ==
  /\ usb \in [Vault -> DriveState] /\ arrived \subseteq Vault
  /\ \A v \in Vault \ Luks : usb[v] \notin {"locked", "foreign"}

Mounted(v) == usb[v] \in Mountpoint

-----------------------------------------------------------------------------
(* The device tree, as a set of devices that name their parent.            *)

Device(uuid, fstype, parent, mount) ==
  [uuid |-> uuid, fstype |-> fstype, parent |-> parent, mount |-> mount]

MountOf(v) == IF Mounted(v) THEN usb[v] ELSE None
Filesystem(v) == <<"filesystem", IF usb[v] = "foreign" THEN None ELSE v>>

DevicesOf(v) ==
  LET container == Device(<<"luks", v>>, "crypto_LUKS", None, None) IN
  IF usb[v] = "absent" THEN {}
  ELSE IF v \notin Luks THEN {Device(Filesystem(v), "ext4", None, MountOf(v))}
  ELSE IF usb[v] = "locked" THEN {container}
  ELSE {container, Device(Filesystem(v), "ext4", <<"luks", v>>, MountOf(v))}

\* list_block_devices, walked to the leaves.
Devices == UNION {DevicesOf(v) : v \in Vault}

FindLuksDevice(v) == {d \in Devices : d.fstype = "crypto_LUKS" /\ d.uuid = <<"luks", v>>}

ChildrenOf(outer) == {d \in Devices : \E o \in outer : d.parent = o.uuid}
FindUnlockedChild(outer, v) == {d \in ChildrenOf(outer) : d.uuid = <<"filesystem", v>>}

\* A LUKS container is never taken for a filesystem.
FindFilesystemDevice(v) ==
  {d \in Devices : d.fstype # "crypto_LUKS" /\ d.uuid = <<"filesystem", v>>}

Status(state, mount) == [state |-> state, mount |-> mount]

Found(device, unmounted) ==
  IF device.mount # None THEN Status("mounted", device.mount) ELSE Status(unmounted, None)

PlainStatus(v) ==
  LET found == FindFilesystemDevice(v) IN
  IF found = {} THEN Status("absent", None)
  ELSE Found(CHOOSE d \in found : TRUE, "present_not_mounted")

\* The outer and the inner identity must match; a plain filesystem has one.
EvaluateUsbStatus(v) ==
  LET outer == FindLuksDevice(v)
      unlocked == FindUnlockedChild(outer, v) IN
  IF v \notin Luks THEN PlainStatus(v)
  ELSE IF outer = {} THEN Status("absent", None)
  ELSE IF unlocked # {} THEN Found(CHOOSE d \in unlocked : TRUE, "unlocked_not_mounted")
  ELSE Status(IF ChildrenOf(outer) # {} THEN "identity_mismatch" ELSE "locked", None)

\* Mutant: mounted is enough, wherever.
MShouldLockForUsbState(status, mount) == status.state # "mounted"

ShouldLockForUsbState(status, mount) == status.state # "mounted" \/ status.mount # mount

ShouldLockForUsbRemoval(status, mount, action) ==
  action # "keep_unlocked" /\ ShouldLockForUsbState(status, mount)

-----------------------------------------------------------------------------
(* The objects of UDisks2, and find_and_mount_vault over them, with what   *)
(* the drive does under it.                                                *)

Block(usage, uuid, backing, mount) ==
  [usage |-> usage, uuid |-> uuid, backing |-> backing, mount |-> mount]

BlocksOf(v) ==
  LET outer == Block("crypto", <<"luks", v>>, None, None)
      inner(backing) == Block("filesystem", Filesystem(v), backing, MountOf(v)) IN
  IF usb[v] = "absent" THEN {}
  ELSE IF v \notin Luks THEN {inner(None)}
  ELSE {outer} \cup (IF usb[v] = "locked" THEN {} ELSE {inner(<<"luks", v>>)})

\* snapshot_from_client.
Blocks == UNION {BlocksOf(v) : v \in Vault}

LuksBlock(v) == {b \in Blocks : b.usage = "crypto" /\ b.uuid = <<"luks", v>>}
Cleartext(v) == {b \in Blocks : \E o \in LuksBlock(v) : b.backing = o.uuid}

\* The filesystem of the vault, if the drive shows it.
Target(v) ==
  {b \in IF v \in Luks THEN Cleartext(v) ELSE {c \in Blocks : c.usage = "filesystem"} :
     b.uuid = <<"filesystem", v>>}

Drive(v, to) ==
  /\ usb' = [usb EXCEPT ![v] = to]
  /\ arrived' = IF to \in Mountpoint THEN arrived \cup {v} ELSE arrived

\* udisks.mount; it fails where the desktop mounted the drive meanwhile.
Mount(v, m) == usb[v] = "open" /\ m \in Mountpoint /\ Drive(v, m)

\* udisks.unlock, with its prompt; nothing is unlocked before its identity is seen.
Unlock(v, to) == usb[v] = "locked" /\ Drive(v, to)

\* The vault's drive was mounted at m, or is now; m is None if there is no such
\* drive, its prompt was dismissed, it holds another filesystem, or the mount
\* failed, also because someone else was faster.
FindAndMountVault(v, m) ==
  \/ \E b \in Target(v) : b.mount # None /\ m = b.mount /\ UNCHANGED <<usb, arrived>>
  \/ \E b \in Target(v) : b.mount = None /\ Mount(v, m)
  \/ m = None /\ (\A b \in Target(v) : b.mount = None) /\ UNCHANGED <<usb, arrived>>
  \/ /\ LuksBlock(v) # {} /\ Cleartext(v) = {}
     /\ \/ m \in Mountpoint /\ Unlock(v, m)
        \/ m = None /\ \E to \in {"open", "foreign"} : Unlock(v, to)

-----------------------------------------------------------------------------
(* What the user and the desktop do to a drive.                            *)

Plug(v) ==
  /\ usb[v] = "absent"
  /\ usb' = [usb EXCEPT ![v] = IF v \in Luks THEN "locked" ELSE "open"]
  /\ UNCHANGED arrived

Unplug(v) ==
  /\ usb[v] # "absent"
  /\ usb' = [usb EXCEPT ![v] = "absent"]
  /\ UNCHANGED arrived

\* udisksctl lock, from the file manager.
LockDrive(v) ==
  /\ v \in Luks /\ usb[v] \in {"open", "foreign"}
  /\ usb' = [usb EXCEPT ![v] = "locked"]
  /\ UNCHANGED arrived

\* Automounters mount, and file managers unmount.
Remount(v) ==
  \/ \E m \in Mountpoint : Mount(v, m)
  \/ Mounted(v) /\ Drive(v, "open")

Desktop == \E v \in Vault : Plug(v) \/ Unplug(v) \/ LockDrive(v) \/ Remount(v)
=============================================================================
