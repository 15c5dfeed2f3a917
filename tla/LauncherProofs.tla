--------------------------- MODULE LauncherProofs ---------------------------
(***************************************************************************)
(* Theorems about Launcher, with Usb and Login in it, for any drives,      *)
(* mountpoints and processes, and either setting of the removal.           *)
(***************************************************************************)
EXTENDS Launcher, FiniteSetTheorems, TLAPS

ProcType ==
  [kind : Kind \cup {"none"}, pc : Pc, vault : Vault \cup {None},
   mount : Mountpoint \cup {None}, todo : SUBSET Vault]

AgentType ==
  [pc : {"off", "idle", "look", "spawn"}, todo : SUBSET Vault,
   previous : SUBSET Vault, current : SUBSET Vault]

LoginType ==
  [page : Page, work : SUBSET Work, busy : BOOLEAN, key : BOOLEAN, used : BOOLEAN,
   vms : {"none", "alive", "wiped"}, pending : BOOLEAN, result : BOOLEAN]

\* TypeOK with whole records, and without the number of windows.
Types ==
  /\ UsbTypeOK
  /\ login \in LoginType
  /\ vaults \subseteq Vault
  /\ agent \in AgentType
  /\ proc \in [Proc -> ProcType]
  /\ sock \in Proc \cup {None, "dead"}

ManagerPc == {"serve", "stop", "quit"}

\* A D-Bus name has one owner, and the socket is the manager's until it stops.
OneOfAKind ==
  /\ \A p, q \in Proc : At(p, "signing") /\ At(q, "signing") => p = q
  /\ \A p, q \in Proc : At(p, "setup") /\ At(q, "setup") => p = q
  /\ \A p, q \in Proc : proc[p].pc \in ManagerPc /\ proc[q].pc \in ManagerPc => p = q
  /\ (login.page # "none") <=> \E p \in Proc : At(p, "signing")
  /\ \A p \in Proc : At(p, "serve") => sock = p

\* The workers of the sign-in window belong to the page it shows: at most one
\* attempt, or enrollments.
Fits(page, work, busy) ==
  \/ work = {}
  \/ \E w \in Attempts :
       /\ work = {w}
       /\ w \in {"auto", "wait", "open"} => page = "checking"
       /\ w \in {"local", "password"} => page = "password"
       /\ w \in {"local", "password", "open"} => busy
  \/ work \subseteq {"register", "blank"} /\ page \in {"register", "closed"}

\* The secret is pending in the window, or with the one worker it was given to,
\* or wiped; only a closed window has a handle.
Owned(page, work, vms, pending, result) ==
  /\ "register" \in work => vms = "alive" /\ ~pending
  /\ "open" \in work => vms = "alive"
  /\ pending => vms = "alive" /\ page = "register"
  /\ page = "register" => pending \/ "register" \in work
  /\ result => page = "closed" /\ (vms = "wiped" \/ "register" \in work)

OneWorker ==
  /\ Fits(login.page, login.work, login.busy)
  /\ Owned(login.page, login.work, login.vms, login.pending, login.result)

\* What is mounted was there at the last poll, or came since the last sign-in
\* for it, or is still to be looked at; only what came is new to the agent.
Remembered ==
  /\ agent.todo \cup agent.previous \cup agent.current \subseteq vaults
  /\ agent.pc # "off" =>
       \A v \in Vault : Mounted(v) => v \in arrived \cup agent.previous
  /\ agent.pc = "look" =>
       /\ \A v \in Vault : Mounted(v) => v \in arrived \cup agent.todo \cup agent.current
       /\ agent.current \ agent.previous \subseteq arrived
  /\ agent.pc = "spawn" => agent.todo \subseteq arrived \cap agent.previous

Inv == Types /\ OneOfAKind /\ OneWorker /\ Remembered /\ surplus = FALSE

-----------------------------------------------------------------------------
(* The device tree.                                                        *)

LEMMA DeviceFields ==
  ASSUME NEW uuid, NEW fstype, NEW parent, NEW mount
  PROVE  /\ Device(uuid, fstype, parent, mount).uuid = uuid
         /\ Device(uuid, fstype, parent, mount).fstype = fstype
         /\ Device(uuid, fstype, parent, mount).parent = parent
         /\ Device(uuid, fstype, parent, mount).mount = mount
BY DEF Device

\* A drive has at most its container and the filesystem that is seen on it.
LEMMA DevicesOfFacts ==
  ASSUME UsbTypeOK, NEW v \in Vault, NEW d \in DevicesOf(v)
  PROVE  \/ d.uuid = <<"luks", v>> /\ d.fstype = "crypto_LUKS"
         \/ /\ d.uuid = Filesystem(v) /\ d.fstype = "ext4" /\ d.mount = MountOf(v)
            /\ usb[v] \in {"open", "foreign"} \cup Mountpoint
<1>1. usb[v] # "absent" /\ usb[v] \in DriveState /\ (v \notin Luks => usb[v] # "locked")
  <2>1. usb[v] = "absent" => DevicesOf(v) = {}
    BY DEF DevicesOf
  <2>2. QED
    BY <2>1 DEF UsbTypeOK
<1>2. CASE v \notin Luks
  <2>1. d = Device(Filesystem(v), "ext4", None, MountOf(v))
    BY <1>1, <1>2 DEF DevicesOf
  <2>2. QED
    BY <1>1, <1>2, <2>1, DeviceFields DEF DriveState
<1>3. CASE v \in Luks /\ usb[v] = "locked"
  <2>1. d = Device(<<"luks", v>>, "crypto_LUKS", None, None)
    BY <1>1, <1>3 DEF DevicesOf
  <2>2. QED
    BY <2>1, DeviceFields
<1>4. CASE v \in Luks /\ usb[v] # "locked"
  <2>1. \/ d = Device(<<"luks", v>>, "crypto_LUKS", None, None)
        \/ d = Device(Filesystem(v), "ext4", <<"luks", v>>, MountOf(v))
    BY <1>1, <1>4 DEF DevicesOf
  <2>2. QED
    BY <1>1, <1>4, <2>1, DeviceFields DEF DriveState
<1>5. QED
  BY <1>2, <1>3, <1>4

\* The filesystem of a vault is found on its own drive only, at its mountpoint.
LEMMA OwnFilesystem ==
  ASSUME UsbTypeOK, NEW v \in Vault, NEW d \in Devices, d.uuid = <<"filesystem", v>>
  PROVE  /\ usb[v] \in {"open"} \cup Mountpoint
         /\ d.mount = MountOf(v) /\ d.fstype = "ext4"
<1>1. PICK w \in Vault : d \in DevicesOf(w)
  BY DEF Devices
<1>2. d.uuid = Filesystem(w) /\ d.fstype = "ext4" /\ d.mount = MountOf(w)
      /\ usb[w] \in {"open", "foreign"} \cup Mountpoint
  <2>1. <<"luks", w>> # <<"filesystem", v>>
    OBVIOUS
  <2>2. QED
    BY <1>1, <2>1, DevicesOfFacts
<1>3. usb[w] # "foreign" /\ w = v
  BY <1>2, UsbAssumption DEF Filesystem
<1>4. QED
  BY <1>2, <1>3

\* It is found when it is there, under its container if it has one.
LEMMA FilesystemIsFound ==
  ASSUME UsbTypeOK, NEW v \in Vault, usb[v] \in {"open"} \cup Mountpoint
  PROVE  \E d \in Devices :
           /\ d.uuid = <<"filesystem", v>> /\ d.fstype = "ext4"
           /\ v \in Luks => d \in FindUnlockedChild(FindLuksDevice(v), v)
<1>1. /\ usb[v] \notin {"absent", "locked", "foreign"}
      /\ Filesystem(v) = <<"filesystem", v>>
  BY UsbAssumption DEF Filesystem
<1>2. CASE v \notin Luks
  <2>1. PICK d : d = Device(Filesystem(v), "ext4", None, MountOf(v))
    OBVIOUS
  <2>2. d \in DevicesOf(v)
    BY <1>1, <1>2, <2>1 DEF DevicesOf
  <2>3. d \in Devices
    BY <2>2 DEF Devices
  <2>4. QED
    BY <1>1, <1>2, <2>1, <2>3, DeviceFields
<1>3. CASE v \in Luks
  <2>1. PICK d : d = Device(Filesystem(v), "ext4", <<"luks", v>>, MountOf(v))
    OBVIOUS
  <2>2. PICK o : o = Device(<<"luks", v>>, "crypto_LUKS", None, None)
    OBVIOUS
  <2>3. d \in DevicesOf(v) /\ o \in DevicesOf(v)
    BY <1>1, <1>3, <2>1, <2>2 DEF DevicesOf
  <2>4. d \in Devices /\ o \in Devices
    BY <2>3 DEF Devices
  <2>5. o \in FindLuksDevice(v)
    BY <2>2, <2>4, DeviceFields DEF FindLuksDevice
  <2>6. d.parent = o.uuid /\ d.uuid = <<"filesystem", v>> /\ d.fstype = "ext4"
    BY <1>1, <2>1, <2>2, DeviceFields
  <2>7. d \in FindUnlockedChild(FindLuksDevice(v), v)
    BY <2>4, <2>5, <2>6 DEF FindUnlockedChild, ChildrenOf
  <2>8. QED
    BY <2>4, <2>6, <2>7
<1>4. QED
  BY <1>2, <1>3

\* A device of the vault's filesystem makes the status mounted, at its place.
LEMMA FoundFacts ==
  ASSUME UsbTypeOK, NEW v \in Vault, NEW found, found \subseteq Devices, found # {},
         \A d \in found : d.uuid = <<"filesystem", v>>,
         NEW unmounted, unmounted # "mounted",
         NEW status, status = Found(CHOOSE d \in found : TRUE, unmounted)
  PROVE  /\ status.state = "mounted" <=> Mounted(v)
         /\ status.state = "mounted" => status.mount = usb[v]
<1>1. PICK d \in found : d = CHOOSE e \in found : TRUE
  OBVIOUS
<1>2. usb[v] \in {"open"} \cup Mountpoint /\ d.mount = MountOf(v)
  BY <1>1, OwnFilesystem
<1>3. status = IF d.mount # None THEN Status("mounted", d.mount) ELSE Status(unmounted, None)
  BY <1>1 DEF Found
<1>4. QED
  BY <1>2, <1>3, UsbAssumption DEF Status, MountOf, Mounted

\* evaluate_usb_status says mounted when the vault's drive is, and where it is.
LEMMA StatusFacts ==
  ASSUME UsbTypeOK, NEW v \in Vault
  PROVE  /\ EvaluateUsbStatus(v).state = "mounted" <=> Mounted(v)
         /\ EvaluateUsbStatus(v).state = "mounted" => EvaluateUsbStatus(v).mount = usb[v]
<1> DEFINE outer == FindLuksDevice(v)
           unlocked == FindUnlockedChild(outer, v)
           filesystem == FindFilesystemDevice(v)
<1>1. CASE v \notin Luks
  <2>1. EvaluateUsbStatus(v) =
          IF filesystem = {} THEN Status("absent", None)
          ELSE Found(CHOOSE d \in filesystem : TRUE, "present_not_mounted")
    BY <1>1 DEF EvaluateUsbStatus, PlainStatus
  <2>2. filesystem \subseteq Devices /\ \A d \in filesystem : d.uuid = <<"filesystem", v>>
    BY DEF FindFilesystemDevice
  <2>3. filesystem = {} => ~Mounted(v)
    BY FilesystemIsFound DEF FindFilesystemDevice, Mounted
  <2> HIDE DEF filesystem
  <2>4. CASE filesystem = {}
    BY <2>1, <2>3, <2>4 DEF Status
  <2>5. CASE filesystem # {}
    BY <2>1, <2>2, <2>5, FoundFacts
  <2>6. QED
    BY <2>4, <2>5
<1>2. CASE v \in Luks
  <2>1. EvaluateUsbStatus(v) =
          IF outer = {} THEN Status("absent", None)
          ELSE IF unlocked # {}
               THEN Found(CHOOSE d \in unlocked : TRUE, "unlocked_not_mounted")
          ELSE Status(IF ChildrenOf(outer) # {} THEN "identity_mismatch" ELSE "locked", None)
    BY <1>2 DEF EvaluateUsbStatus
  <2>2. unlocked \subseteq Devices /\ \A d \in unlocked : d.uuid = <<"filesystem", v>>
    BY DEF FindUnlockedChild, ChildrenOf
  <2>3. outer = {} => unlocked = {}
    BY DEF FindUnlockedChild, ChildrenOf
  <2>4. unlocked = {} => ~Mounted(v)
    BY <1>2, FilesystemIsFound DEF Mounted
  <2> HIDE DEF outer, unlocked
  <2>5. CASE unlocked = {}
    BY <2>1, <2>4, <2>5 DEF Status
  <2>6. CASE unlocked # {}
    BY <2>1, <2>2, <2>3, <2>6, FoundFacts
  <2>7. QED
    BY <2>5, <2>6
<1>3. QED
  BY <1>1, <1>2

-----------------------------------------------------------------------------
(* The other view: the objects of UDisks2.                                 *)

LEMMA BlockFields ==
  ASSUME NEW usage, NEW uuid, NEW backing, NEW mount
  PROVE  /\ Block(usage, uuid, backing, mount).usage = usage
         /\ Block(usage, uuid, backing, mount).uuid = uuid
         /\ Block(usage, uuid, backing, mount).backing = backing
         /\ Block(usage, uuid, backing, mount).mount = mount
BY DEF Block

\* A drive has at most its container and the filesystem inside.
LEMMA BlocksOfFacts ==
  ASSUME UsbTypeOK, NEW v \in Vault, NEW b \in BlocksOf(v)
  PROVE  \/ b.uuid = <<"luks", v>>
         \/ /\ b.uuid = Filesystem(v) /\ b.mount = MountOf(v)
            /\ usb[v] \in {"open", "foreign"} \cup Mountpoint
<1> DEFINE outer == Block("crypto", <<"luks", v>>, None, None)
           inner(backing) == Block("filesystem", Filesystem(v), backing, MountOf(v))
<1>1. usb[v] # "absent" /\ usb[v] \in DriveState /\ (v \notin Luks => usb[v] # "locked")
  <2>1. usb[v] = "absent" => BlocksOf(v) = {}
    BY DEF BlocksOf
  <2>2. QED
    BY <2>1 DEF UsbTypeOK
<1>2. CASE v \notin Luks
  <2>1. b = inner(None)
    BY <1>1, <1>2 DEF BlocksOf
  <2>2. QED
    BY <1>1, <1>2, <2>1, BlockFields DEF DriveState
<1>3. CASE v \in Luks /\ usb[v] = "locked"
  <2>1. b = outer
    BY <1>1, <1>3 DEF BlocksOf
  <2>2. QED
    BY <2>1, BlockFields
<1>4. CASE v \in Luks /\ usb[v] # "locked"
  <2>1. b = outer \/ b = inner(<<"luks", v>>)
    BY <1>1, <1>4 DEF BlocksOf
  <2>2. QED
    BY <1>1, <1>4, <2>1, BlockFields DEF DriveState
<1>5. QED
  BY <1>2, <1>3, <1>4

\* What sign-in takes for the vault's filesystem is on its own drive.
LEMMA TargetIsOwn ==
  ASSUME UsbTypeOK, NEW v \in Vault, NEW b \in Target(v)
  PROVE  usb[v] \in {"open"} \cup Mountpoint /\ b.mount = MountOf(v)
<1>1. b \in Blocks /\ b.uuid = <<"filesystem", v>>
  BY DEF Target, Cleartext
<1>2. PICK w \in Vault : b \in BlocksOf(w)
  BY <1>1 DEF Blocks
<1>3. /\ b.uuid = Filesystem(w) /\ b.mount = MountOf(w)
      /\ usb[w] \in {"open", "foreign"} \cup Mountpoint
  <2>1. <<"luks", w>> # <<"filesystem", v>>
    OBVIOUS
  <2>2. QED
    BY <1>1, <1>2, <2>1, BlocksOfFacts
<1>4. usb[w] # "foreign" /\ w = v
  BY <1>1, <1>3, UsbAssumption DEF Filesystem
<1>5. QED
  BY <1>3, <1>4

LEMMA TargetIsFound ==
  ASSUME UsbTypeOK, NEW v \in Vault, usb[v] \in {"open"} \cup Mountpoint
  PROVE  Target(v) # {}
<1>1. /\ usb[v] \notin {"absent", "locked", "foreign"}
      /\ Filesystem(v) = <<"filesystem", v>>
  BY UsbAssumption DEF Filesystem
<1>2. CASE v \notin Luks
  <2>1. PICK b : b = Block("filesystem", Filesystem(v), None, MountOf(v))
    OBVIOUS
  <2>2. b \in Blocks
    BY <1>1, <1>2, <2>1 DEF Blocks, BlocksOf
  <2>3. b.usage = "filesystem" /\ b.uuid = <<"filesystem", v>>
    BY <1>1, <2>1, BlockFields
  <2>4. QED
    BY <1>2, <2>2, <2>3 DEF Target
<1>3. CASE v \in Luks
  <2>1. PICK b : b = Block("filesystem", Filesystem(v), <<"luks", v>>, MountOf(v))
    OBVIOUS
  <2>2. PICK o : o = Block("crypto", <<"luks", v>>, None, None)
    OBVIOUS
  <2>3. b \in BlocksOf(v) /\ o \in BlocksOf(v)
    BY <1>1, <1>3, <2>1, <2>2 DEF BlocksOf
  <2>8. b \in Blocks /\ o \in Blocks
    BY <2>3 DEF Blocks
  <2>4. o \in LuksBlock(v)
    BY <2>2, <2>8, BlockFields DEF LuksBlock
  <2>5. b.backing = o.uuid /\ b.uuid = <<"filesystem", v>>
    BY <1>1, <2>1, <2>2, BlockFields
  <2>6. b \in Cleartext(v)
    BY <2>4, <2>5, <2>8 DEF Cleartext
  <2>7. QED
    BY <1>3, <2>5, <2>6 DEF Target
<1>4. QED
  BY <1>2, <1>3

-----------------------------------------------------------------------------
(* The sign-in window.                                                     *)

\* An attempt that ends was the only worker, and nothing is owned.
LEMMA Alone ==
  ASSUME OneWorker, NEW w \in Attempts, Ended(w)
  PROVE  /\ login.work = {w} /\ Rest(w) = {}
         /\ w \in {"auto", "wait", "open"} => login.page = "checking"
         /\ w \in {"local", "password"} => login.page = "password"
         /\ ~login.pending /\ ~login.result
         /\ w = "open" => login.vms = "alive"
<1>1. w \notin {"register", "blank"}
  BY DEF Attempts
<1>2. /\ login.work = {w}
      /\ w \in {"auto", "wait", "open"} => login.page = "checking"
      /\ w \in {"local", "password"} => login.page = "password"
  BY <1>1 DEF OneWorker, Fits, Ended
<1>3. login.page \in {"checking", "password"}
  BY <1>2 DEF Attempts
<1>4. QED
  BY <1>2, <1>3 DEF OneWorker, Owned, Rest

\* A step of the window keeps it a window.
LoginKept == login' \in LoginType /\ OneWorker' /\ login.page # "none" /\ login'.page # "none"

\* A window with its workers and its secret.
LEMMA Showing ==
  ASSUME NEW page \in Page, page # "none", login.page # "none",
         NEW work \in SUBSET Work, NEW busy \in BOOLEAN, NEW key \in BOOLEAN,
         NEW used \in BOOLEAN, NEW vms \in {"none", "alive", "wiped"},
         NEW pending \in BOOLEAN, NEW result \in BOOLEAN,
         login' = [page |-> page, work |-> work, busy |-> busy, key |-> key,
                   used |-> used, vms |-> vms, pending |-> pending, result |-> result],
         Fits(page, work, busy), Owned(page, work, vms, pending, result)
  PROVE  LoginKept
<1>1. login' \in LoginType
  BY DEF LoginType
<1>2. /\ login'.page = page /\ login'.work = work /\ login'.vms = vms
      /\ login'.busy = busy /\ login'.result = result /\ login'.pending = pending
  OBVIOUS
<1>3. OneWorker'
  BY <1>2 DEF OneWorker, Fits, Owned
<1>4. QED
  BY <1>1, <1>2, <1>3 DEF LoginKept

\* The same for a page before the offer, with an attempt or none.
LEMMA Attempting ==
  ASSUME NEW page \in Page, page \notin {"none", "register"}, login.page # "none",
         NEW work, NEW busy \in BOOLEAN, NEW key \in BOOLEAN, NEW used \in BOOLEAN,
         NEW vms \in {"none", "alive", "wiped"},
         login' = [page |-> page, work |-> work, busy |-> busy, key |-> key,
                   used |-> used, vms |-> vms, pending |-> FALSE, result |-> FALSE],
         \/ work = {}
         \/ \E w \in Attempts :
              /\ work = {w}
              /\ w \in {"auto", "wait", "open"} => page = "checking"
              /\ w \in {"local", "password"} => page = "password"
              /\ w \in {"local", "password", "open"} => busy
              /\ w = "open" => vms = "alive"
  PROVE  LoginKept
<1>1. Fits(page, work, busy)
  BY DEF Fits
<1>2. work \subseteq Attempts
  OBVIOUS
<1>3. Owned(page, work, vms, FALSE, FALSE) /\ work \in SUBSET Work
  BY <1>2 DEF Owned, Attempts, Work
<1>4. login' \in LoginType
  BY <1>3 DEF LoginType
<1>5. /\ login'.page = page /\ login'.work = work /\ login'.vms = vms
      /\ login'.busy = busy /\ login'.result = FALSE /\ login'.pending = FALSE
  OBVIOUS
<1>6. OneWorker'
  BY <1>1, <1>3, <1>5 DEF OneWorker, Fits, Owned
<1>7. QED
  BY <1>4, <1>5, <1>6 DEF LoginKept

LEMMA LoginFields ==
  ASSUME login \in LoginType
  PROVE  /\ login = [page |-> login.page, work |-> login.work, busy |-> login.busy,
                     key |-> login.key, used |-> login.used, vms |-> login.vms,
                     pending |-> login.pending, result |-> login.result]
         /\ login.page \in Page /\ login.work \in SUBSET Work
         /\ login.busy \in BOOLEAN /\ login.key \in BOOLEAN /\ login.used \in BOOLEAN
         /\ login.vms \in {"none", "alive", "wiped"} /\ login.pending \in BOOLEAN
         /\ login.result \in BOOLEAN
BY DEF LoginType

LEMMA AutoLoginKept == ASSUME login \in LoginType, OneWorker, AutoLogin PROVE LoginKept
<1>1. Rest("auto") = {} /\ login.page = "checking" /\ ~login.pending /\ ~login.result
  BY Alone DEF AutoLogin, Attempts
<1>2. CASE login' = [login EXCEPT !.work = Rest("auto") \cup {"wait"},
                                  !.used = TRUE, !.vms = "alive"]
  <2>1. login' = [page |-> "checking", work |-> {"wait"}, busy |-> login.busy,
                  key |-> login.key, used |-> TRUE, vms |-> "alive",
                  pending |-> FALSE, result |-> FALSE]
    BY <1>1, <1>2, LoginFields
  <2>2. QED
    BY <1>1, <2>1, LoginFields, Attempting DEF Page, Attempts
<1>3. CASE login' = [login EXCEPT !.work = Rest("auto"), !.page = "password"]
  <2>1. login' = [page |-> "password", work |-> {}, busy |-> login.busy,
                  key |-> login.key, used |-> login.used, vms |-> login.vms,
                  pending |-> FALSE, result |-> FALSE]
    BY <1>1, <1>3, LoginFields
  <2>2. /\ "password" \in Page /\ login.page # "none"
        /\ login.busy \in BOOLEAN /\ login.key \in BOOLEAN /\ login.used \in BOOLEAN
        /\ login.vms \in {"none", "alive", "wiped"}
    BY <1>1, LoginFields DEF Page
  <2>3. QED
    BY <2>1, <2>2, Attempting
<1>4. QED
  BY <1>2, <1>3 DEF AutoLogin

LEMMA AttemptKept ==
  ASSUME login \in LoginType, OneWorker, UseLocalKey \/ SubmitPassword
  PROVE  LoginKept
<1>1. PICK w \in {"local", "password"} : ~login.busy /\ Attempt(w)
  BY DEF UseLocalKey, SubmitPassword
<1>2. login.page = "password" /\ login.work = {}
  BY <1>1 DEF Attempt, OneWorker, Fits, Attempts
<1>3. ~login.result /\ ~login.pending
  BY <1>2 DEF OneWorker, Owned
<1>4. login' = [page |-> "password", work |-> {w}, busy |-> TRUE, key |-> login.key,
                used |-> login.used, vms |-> login.vms, pending |-> FALSE,
                result |-> FALSE]
  BY <1>1, <1>2, <1>3, LoginFields DEF Attempt
<1>5. "password" \in Page /\ w \in Attempts /\ w \notin {"auto", "wait", "open"}
  BY DEF Page, Attempts
<1>6. QED
  BY <1>2, <1>4, <1>5, LoginFields, Attempting

LEMMA OpeningKept ==
  ASSUME login \in LoginType, login.page # "none", ~login.pending, ~login.result,
         NEW used \in BOOLEAN, login' = Opening({}, used)
  PROVE  LoginKept
<1>1. login' = [page |-> "checking", work |-> {"open"}, busy |-> TRUE, key |-> login.key,
                used |-> used, vms |-> "alive", pending |-> FALSE, result |-> FALSE]
  BY LoginFields DEF Opening
<1>2. QED
  BY <1>1, LoginFields, Attempting DEF Page, Attempts

LEMMA FinishUnlockKept ==
  ASSUME login \in LoginType, OneWorker, FinishUnlock
  PROVE  LoginKept
<1>1. Rest("wait") = {} /\ login.page = "checking" /\ ~login.pending /\ ~login.result
  BY Alone DEF FinishUnlock, Attempts
<1>2. QED
  BY <1>1, OpeningKept DEF FinishUnlock

LEMMA AttemptEndsKept ==
  ASSUME login \in LoginType, OneWorker, NEW w \in {"local", "password"}, AttemptEnds(w)
  PROVE  LoginKept
<1>1. Rest(w) = {} /\ login.page = "password" /\ ~login.pending /\ ~login.result
  BY Alone DEF AttemptEnds, Attempts
<1>2. CASE login' = Opening(Rest(w), w = "local")
  <2>1. (w = "local") \in BOOLEAN
    OBVIOUS
  <2>2. QED
    BY <1>1, <1>2, <2>1, OpeningKept
<1>3. CASE login' = [login EXCEPT !.work = Rest(w), !.busy = FALSE]
  <2>1. login' = [page |-> "password", work |-> {}, busy |-> FALSE, key |-> login.key,
                  used |-> login.used, vms |-> login.vms, pending |-> FALSE,
                  result |-> FALSE]
    BY <1>1, <1>3, LoginFields
  <2>2. QED
    BY <1>1, <2>1, LoginFields, Attempting DEF Page
<1>4. QED
  BY <1>2, <1>3 DEF AttemptEnds

\* The window closes with a handle.
LEMMA HandedKept ==
  ASSUME login.page # "none", NEW work \in SUBSET {"register", "blank"},
         NEW vms \in {"alive", "wiped"}, login' = Handed(work, vms),
         "register" \in work <=> vms = "alive"
  PROVE  LoginKept
<1>1. login' = [page |-> "closed", work |-> work, busy |-> FALSE, key |-> FALSE,
                used |-> FALSE, vms |-> vms, pending |-> FALSE, result |-> TRUE]
  BY DEF Handed, NoLogin
<1>2. Fits("closed", work, FALSE) /\ Owned("closed", work, vms, FALSE, TRUE)
  BY DEF Fits, Owned
<1>3. "closed" \in Page /\ work \in SUBSET Work
  BY DEF Page, Work
<1>4. QED
  BY <1>1, <1>2, <1>3, Showing

LEMMA VaultOpenedKept ==
  ASSUME login \in LoginType, OneWorker, VaultOpened
  PROVE  LoginKept
<1>1. /\ Rest("open") = {} /\ login.page = "checking" /\ ~login.pending /\ ~login.result
      /\ login.vms = "alive"
  BY Alone DEF VaultOpened, Attempts
<1>2. PICK done : done = [login EXCEPT !.work = Rest("open"), !.busy = FALSE]
  OBVIOUS
<1>3. done = [page |-> "checking", work |-> {}, busy |-> FALSE, key |-> login.key,
              used |-> login.used, vms |-> login.vms, pending |-> FALSE, result |-> FALSE]
  BY <1>1, <1>2, LoginFields
<1>4. CASE login' = [NoLogin EXCEPT !.vms = "wiped", !.page = "error"]
  <2>1. login' = [page |-> "error", work |-> {}, busy |-> FALSE, key |-> FALSE,
                  used |-> FALSE, vms |-> "wiped", pending |-> FALSE, result |-> FALSE]
    BY <1>4 DEF NoLogin
  <2>2. QED
    BY <1>1, <2>1, Attempting DEF Page
<1>5. CASE login' = done
  BY <1>1, <1>3, <1>5, LoginFields, Attempting DEF Page
<1>6. CASE login' = [done EXCEPT !.page = "register", !.pending = TRUE]
  <2>1. login' = [page |-> "register", work |-> {}, busy |-> FALSE, key |-> login.key,
                  used |-> login.used, vms |-> "alive", pending |-> TRUE, result |-> FALSE]
    BY <1>1, <1>3, <1>6
  <2>2. Fits("register", {}, FALSE) /\ Owned("register", {}, "alive", TRUE, FALSE)
    BY DEF Fits, Owned
  <2>3. "register" \in Page /\ {} \in SUBSET Work
    BY DEF Page
  <2>4. QED
    BY <1>1, <2>1, <2>2, <2>3, LoginFields, Showing
<1>7. CASE login' = Handed({}, "wiped")
  BY <1>1, <1>7, HandedKept
<1>8. QED
  BY <1>2, <1>4, <1>5, <1>6, <1>7 DEF VaultOpened

\* Skip, Create and the end of an enrollment, in any order.
LEMMA RegisterKept ==
  ASSUME login \in LoginType, OneWorker,
         SkipRegister \/ GenerateKey \/ RegisterDone \/ BlankEnds
  PROVE  LoginKept
<1>1. /\ login.page \in {"register", "closed"} /\ login.work \subseteq {"register", "blank"}
      /\ "register" \in login.work => login.vms = "alive" /\ ~login.pending
      /\ login.pending => login.vms = "alive" /\ login.page = "register"
      /\ login.page = "register" => login.pending \/ "register" \in login.work
      /\ login.result => login.page = "closed"
                         /\ (login.vms = "wiped" \/ "register" \in login.work)
  BY DEF OneWorker, Fits, Owned, Attempts, SkipRegister, GenerateKey, RegisterDone,
         BlankEnds, Ended
<1>2. login.page # "none"
  BY <1>1
<1>3. CASE SkipRegister
  <2>1. PICK vms : vms = IF login.pending THEN "wiped" ELSE login.vms
    OBVIOUS
  <2>2. vms \in {"alive", "wiped"} /\ ("register" \in login.work <=> vms = "alive")
    BY <1>1, <1>3, <2>1 DEF SkipRegister
  <2>3. login' = Handed(login.work, vms)
    BY <1>3, <2>1 DEF SkipRegister
  <2>4. QED
    BY <1>1, <1>2, <2>2, <2>3, HandedKept
<1>4. CASE RegisterDone
  BY <1>1, <1>2, <1>4, HandedKept DEF RegisterDone, Rest
<1>5. CASE GenerateKey
  <2>1. PICK w : w = IF login.pending THEN "register" ELSE "blank"
    OBVIOUS
  <2>2. PICK work : work = login.work \cup {w}
    OBVIOUS
  <2>3. work \subseteq {"register", "blank"} /\ "register" \in work /\ login.vms = "alive"
        /\ login.page = "register" /\ ~login.result
    BY <1>1, <1>5, <2>1, <2>2 DEF GenerateKey
  <2>4. login' = [page |-> "register", work |-> work, busy |-> login.busy,
                  key |-> login.key, used |-> login.used, vms |-> "alive",
                  pending |-> FALSE, result |-> FALSE]
    BY <1>5, <2>1, <2>2, <2>3, LoginFields DEF GenerateKey
  <2>5. /\ Fits("register", work, login.busy)
        /\ Owned("register", work, "alive", FALSE, FALSE)
    BY <2>3 DEF Fits, Owned
  <2>6. "register" \in Page /\ work \in SUBSET Work
    BY <2>3 DEF Page, Work
  <2>7. login.busy \in BOOLEAN /\ login.key \in BOOLEAN /\ login.used \in BOOLEAN
    BY LoginFields
  <2>8. QED
    BY <1>2, <2>4, <2>5, <2>6, <2>7, Showing
<1>6. CASE BlankEnds
  <2>1. PICK work : work = login.work \ {"blank"}
    OBVIOUS
  <2>2. login' = [page |-> login.page, work |-> work, busy |-> login.busy,
                  key |-> login.key, used |-> login.used, vms |-> login.vms,
                  pending |-> login.pending, result |-> login.result]
    BY <1>6, <2>1, LoginFields DEF BlankEnds, Rest
  <2>3. /\ Fits(login.page, work, login.busy)
        /\ Owned(login.page, work, login.vms, login.pending, login.result)
    BY <1>1, <2>1 DEF Fits, Owned
  <2>4. work \in SUBSET Work
    BY <1>1, <2>1 DEF Work
  <2>5. QED
    BY <1>2, <2>2, <2>3, <2>4, LoginFields, Showing
<1>7. QED
  BY <1>3, <1>4, <1>5, <1>6

LEMMA CloseLoginKept == ASSUME CloseLogin PROVE LoginKept
<1>1. login' = [page |-> "closed", work |-> {}, busy |-> FALSE, key |-> FALSE,
                used |-> FALSE, vms |-> "none", pending |-> FALSE, result |-> FALSE]
  BY DEF CloseLogin, NoLogin
<1>2. QED
  BY <1>1, Attempting DEF Page, CloseLogin

LEMMA LoginStepKept ==
  ASSUME login \in LoginType, OneWorker, LoginStep
  PROVE  LoginKept
BY AutoLoginKept, AttemptKept, FinishUnlockKept, AttemptEndsKept, VaultOpenedKept,
   RegisterKept, CloseLoginKept
   DEF LoginStep

\* No window, and a window that opens.
LEMMA NoLoginFacts ==
  ASSUME login' = NoLogin
  PROVE  login' \in LoginType /\ OneWorker' /\ login'.page = "none"
<1>1. NoLogin \in LoginType
  BY DEF NoLogin, LoginType, Page
<1>2. QED
  BY <1>1 DEF NoLogin, OneWorker, Fits, Owned

LEMMA OpenLoginFacts ==
  ASSUME OpenLogin
  PROVE  login' \in LoginType /\ OneWorker' /\ login'.page = "checking"
<1>1. PICK key \in BOOLEAN :
        login' = [page |-> "checking", work |-> {"auto"}, busy |-> FALSE, key |-> key,
                  used |-> FALSE, vms |-> "none", pending |-> FALSE, result |-> FALSE]
  BY DEF OpenLogin, NoLogin
<1>2. login' \in LoginType
  <2>1. {"auto"} \in SUBSET Work /\ "checking" \in Page
    BY DEF Page, Work, Attempts
  <2>2. QED
    BY <1>1, <2>1 DEF LoginType
<1>3. /\ login'.page = "checking" /\ login'.work = {"auto"} /\ login'.result = FALSE
      /\ login'.pending = FALSE
  BY <1>1
<1>4. OneWorker'
  BY <1>3 DEF OneWorker, Fits, Owned, Attempts
<1>5. QED
  BY <1>2, <1>3, <1>4

-----------------------------------------------------------------------------
(* Drives, and what the agent remembers of them.                           *)

\* What any step does to the drives: what is newly mounted has arrived.
DrivesKept ==
  /\ UsbTypeOK' /\ arrived \subseteq arrived'
  /\ \A v \in Vault : Mounted(v)' => Mounted(v) \/ v \in arrived'

LEMMA SameDrives ==
  ASSUME UsbTypeOK, UNCHANGED drives
  PROVE  DrivesKept
BY DEF drives, DrivesKept, UsbTypeOK, Mounted

LEMMA DriveFacts ==
  ASSUME UsbTypeOK, NEW v \in Vault, NEW to \in DriveState, Drive(v, to),
         v \notin Luks => to \notin {"locked", "foreign"}
  PROVE  DrivesKept /\ usb'[v] = to
<1>1. usb' = [usb EXCEPT ![v] = to] /\ usb \in [Vault -> DriveState] /\ arrived \subseteq Vault
  BY DEF Drive, UsbTypeOK
<1>2. usb' \in [Vault -> DriveState] /\ usb'[v] = to
      /\ \A w \in Vault : w # v => usb'[w] = usb[w]
  BY <1>1
<1>3. arrived \subseteq arrived' /\ arrived' \subseteq Vault
      /\ (to \in Mountpoint => v \in arrived')
  BY <1>1 DEF Drive
<1>4. UsbTypeOK'
  BY <1>2, <1>3 DEF UsbTypeOK
<1>5. QED
  BY <1>2, <1>3, <1>4 DEF DrivesKept, Mounted

LEMMA FindAndMountFacts ==
  ASSUME UsbTypeOK, NEW v \in Vault, NEW m \in Mountpoint \cup {None},
         FindAndMountVault(v, m)
  PROVE  /\ DrivesKept
         /\ m = None => ~Mounted(v)'
         /\ m # None => usb[v] = m \/ Drive(v, m)
<1>1. CASE \E b \in Target(v) : b.mount # None /\ m = b.mount /\ UNCHANGED <<usb, arrived>>
  <2>1. m # None /\ m = MountOf(v)
    BY <1>1, TargetIsOwn
  <2>2. usb[v] = m
    BY <2>1 DEF MountOf
  <2>3. DrivesKept
    BY <1>1, SameDrives DEF drives
  <2>4. QED
    BY <2>1, <2>2, <2>3
<1>2. CASE m \in Mountpoint /\ (Mount(v, m) \/ Unlock(v, m))
  <2>1. Drive(v, m) /\ m \in DriveState /\ m \notin {"locked", "foreign"} /\ m # None
    BY <1>2, UsbAssumption DEF Mount, Unlock, DriveState
  <2>2. QED
    BY <2>1, DriveFacts
<1>3. CASE m = None /\ (\A b \in Target(v) : b.mount = None) /\ UNCHANGED <<usb, arrived>>
  <2>1. ~Mounted(v)
    <3>1. SUFFICES ASSUME Mounted(v) PROVE FALSE
      OBVIOUS
    <3>2. PICK b \in Target(v) : TRUE
      BY <3>1, TargetIsFound DEF Mounted
    <3>3. b.mount = usb[v]
      BY <3>1, <3>2, TargetIsOwn DEF MountOf
    <3>4. QED
      BY <1>3, <3>1, <3>3, UsbAssumption DEF Mounted
  <2>2. ~Mounted(v)'
    BY <1>3, <2>1 DEF Mounted
  <2>3. DrivesKept
    BY <1>3, SameDrives DEF drives
  <2>4. QED
    BY <1>3, <2>2, <2>3
<1>4. CASE m = None /\ \E to \in {"open", "foreign"} : Unlock(v, to)
  <2>1. PICK to \in {"open", "foreign"} : usb[v] = "locked" /\ Drive(v, to)
    BY <1>4 DEF Unlock
  <2>2. v \in Luks /\ to \in DriveState
    BY <2>1 DEF UsbTypeOK, DriveState
  <2>3. DrivesKept /\ usb'[v] = to
    BY <2>1, <2>2, DriveFacts
  <2>4. QED
    BY <1>4, <2>3, UsbAssumption DEF Mounted
<1>5. QED
  BY <1>1, <1>2, <1>3, <1>4 DEF FindAndMountVault, Mount

\* Whatever else happens, drives do not surprise the agent.
LEMMA RememberedKept ==
  ASSUME Remembered, DrivesKept, vaults \subseteq vaults', UNCHANGED agent
  PROVE  Remembered'
<1>1. \A v \in Vault : Mounted(v)' => Mounted(v) \/ v \in arrived'
  BY DEF DrivesKept
<1>2. arrived \subseteq arrived'
  BY DEF DrivesKept
<1>3. QED
  BY <1>1, <1>2 DEF Remembered

LEMMA AgentFields ==
  ASSUME agent \in AgentType
  PROVE  /\ agent.pc \in {"off", "idle", "look", "spawn"}
         /\ agent.todo \subseteq Vault /\ agent.previous \subseteq Vault
         /\ agent.current \subseteq Vault
BY DEF AgentType

\* A poll that goes on, or ends and knows what is new.
LEMMA PollingRemembered ==
  ASSUME agent \in AgentType, NEW todo, NEW current, agent' = Polling(todo, current),
         vaults' \subseteq Vault, todo \cup current \cup agent.previous \subseteq vaults',
         \A v \in Vault : Mounted(v)' => v \in arrived' \cup agent.previous,
         \A v \in Vault : Mounted(v)' => v \in arrived' \cup todo \cup current,
         current \ agent.previous \subseteq arrived'
  PROVE  agent' \in AgentType /\ Remembered'
<1>1. CASE todo = {}
  <2> DEFINE newly == current \ agent.previous
  <2>1. agent' = [pc |-> IF newly = {} THEN "idle" ELSE "spawn",
                  todo |-> newly, previous |-> current, current |-> {}]
    BY <1>1 DEF Polling, PollEnds, ComputeNewlyConnectedVaults
  <2>2. newly \subseteq current /\ newly \subseteq arrived' /\ current \subseteq Vault
    OBVIOUS
  <2> HIDE DEF newly
  <2>3. /\ agent'.pc \in {"idle", "spawn"} /\ agent'.todo = newly
        /\ agent'.previous = current /\ agent'.current = {}
    BY <2>1
  <2>4. agent' \in AgentType
    BY <2>1, <2>2 DEF AgentType
  <2>5. QED
    BY <1>1, <2>2, <2>3, <2>4 DEF Remembered
<1>2. CASE todo # {}
  <2>1. agent' = [agent EXCEPT !.pc = "look", !.todo = todo, !.current = current]
    BY <1>2 DEF Polling
  <2>2. /\ agent'.pc = "look" /\ agent'.todo = todo /\ agent'.current = current
        /\ agent'.previous = agent.previous /\ agent' \in AgentType
    BY <2>1 DEF AgentType
  <2>3. QED
    BY <2>2 DEF Remembered
<1>3. QED
  BY <1>1, <1>2

\* Nothing but the agent and the drives changes in a poll.
LEMMA PollInv ==
  ASSUME Inv, UsbTypeOK', agent' \in AgentType, Remembered',
         UNCHANGED <<login, vaults, proc, sock, surplus>>
  PROVE  Inv'
<1>1. Types'
  BY DEF Inv, Types
<1>2. OneOfAKind' /\ OneWorker'
  BY DEF Inv, OneOfAKind, OneWorker, At
<1>3. QED
  BY <1>1, <1>2 DEF Inv

LEMMA StartAgentInv == ASSUME Inv, StartAgent PROVE Inv'
<1>1. UsbTypeOK' /\ arrived' = Vault
  BY DEF StartAgent, Inv, Types, UsbTypeOK
<1>2. agent' \in AgentType /\ Remembered'
  BY <1>1, PollingRemembered DEF StartAgent, Inv, Types, Remembered
<1>3. QED
  BY <1>1, <1>2, PollInv DEF StartAgent

LEMMA DevicesChangedInv == ASSUME Inv, DevicesChanged PROVE Inv'
<1>1. agent' = Polling(vaults, {}) /\ UNCHANGED <<usb, arrived, vaults>> /\ agent.pc = "idle"
  BY DEF DevicesChanged, drives
<1>2. \A v \in Vault : Mounted(v)' => v \in arrived \cup agent.previous
  BY <1>1 DEF Inv, Remembered, Mounted
<1>3. agent' \in AgentType /\ Remembered'
  BY <1>1, <1>2, PollingRemembered DEF Inv, Types, Remembered
<1>4. QED
  BY <1>1, <1>3, PollInv DEF DevicesChanged, Inv, Types, UsbTypeOK

LEMMA HandleBlocksInv == ASSUME Inv, NEW v \in Vault, HandleBlocks(v) PROVE Inv'
<1>1. PICK m \in Mountpoint \cup {None} :
        /\ FindAndMountVault(v, m)
        /\ agent' = Polling(agent.todo \ {v},
                            agent.current \cup (IF m = None THEN {} ELSE {v}))
  BY DEF HandleBlocks
<1>2. DrivesKept /\ (m = None => ~Mounted(v)')
  BY <1>1, FindAndMountFacts DEF Inv, Types
<1>3. PICK todo : todo = agent.todo \ {v}
  OBVIOUS
<1>4. PICK current : current = agent.current \cup (IF m = None THEN {} ELSE {v})
  OBVIOUS
<1>5. agent.pc = "look" /\ v \in agent.todo /\ UNCHANGED <<login, vaults, proc, sock, surplus>>
  BY DEF HandleBlocks, First
<1>6. /\ agent.todo \cup agent.previous \cup agent.current \subseteq vaults
      /\ \A w \in Vault : Mounted(w) => w \in arrived \cup agent.previous
      /\ \A w \in Vault : Mounted(w) => w \in arrived \cup agent.todo \cup agent.current
      /\ agent.current \ agent.previous \subseteq arrived
  BY <1>5 DEF Inv, Remembered
<1>7. /\ arrived \subseteq arrived'
      /\ \A w \in Vault : Mounted(w)' => Mounted(w) \/ w \in arrived'
  BY <1>2 DEF DrivesKept
<1>8. \A w \in Vault : Mounted(w)' => w \in arrived' \cup agent.previous
  BY <1>6, <1>7
<1>9. \A w \in Vault : Mounted(w)' => w \in arrived' \cup todo \cup current
  BY <1>2, <1>3, <1>4, <1>6, <1>7
<1>10. current \ agent.previous \subseteq arrived'
  \* Found where it was mounted, or mounted by the search.
  <2>1. m # None => v \in arrived' \cup agent.previous
    <3>1. m # None => usb[v] = m \/ Drive(v, m)
      BY <1>1, FindAndMountFacts DEF Inv, Types
    <3>2. QED
      BY <1>6, <1>7, <3>1 DEF Mounted, Drive
  <2>2. QED
    BY <1>4, <1>6, <1>7, <2>1
<1>11. agent' = Polling(todo, current)
  BY <1>1, <1>3, <1>4
<1>12. todo \cup current \cup agent.previous \subseteq vaults'
  BY <1>3, <1>4, <1>5, <1>6
<1>13. agent \in AgentType /\ vaults' \subseteq Vault
  BY <1>5 DEF Inv, Types
<1>14. agent' \in AgentType /\ Remembered'
  BY <1>8, <1>9, <1>10, <1>11, <1>12, <1>13, PollingRemembered
<1>15. QED
  BY <1>2, <1>5, <1>14, PollInv DEF DrivesKept

LEMMA PollFailsInv == ASSUME Inv, PollFails PROVE Inv'
<1>1. /\ agent' = [agent EXCEPT !.pc = "idle", !.todo = {}, !.current = {}]
      /\ agent \in AgentType /\ agent.pc = "look"
      /\ UNCHANGED <<usb, arrived, login, vaults, proc, sock, surplus>>
  BY DEF PollFails, drives, Inv, Types
<1>2. /\ agent' \in AgentType /\ agent'.pc = "idle" /\ agent'.todo = {}
      /\ agent'.current = {} /\ agent'.previous = agent.previous
  BY <1>1 DEF AgentType
<1>3. Remembered'
  BY <1>1, <1>2 DEF Inv, Remembered, Mounted
<1>4. QED
  BY <1>1, <1>2, <1>3, PollInv DEF Inv, Types, UsbTypeOK

-----------------------------------------------------------------------------
(* The processes.                                                          *)

\* What a process must respect to become new.
Respects(p, new) ==
  /\ new.pc = "signing" => Signing = {}
  /\ new.pc = "setup" => Wizard = {}
  /\ new.pc \in ManagerPc => proc[p].pc \in ManagerPc \/ Manager = {}
  /\ new.pc = "serve" => sock' = p
  /\ sock' = sock \/ sock = p \/ Manager \subseteq {p}
  /\ (login'.page # "none") <=>
       (new.pc = "signing" \/ (login.page # "none" /\ ~At(p, "signing")))

LEMMA BecomeFacts ==
  ASSUME proc \in [Proc -> ProcType], NEW p \in Proc, NEW new \in ProcType, Become(p, new)
  PROVE  /\ proc' \in [Proc -> ProcType] /\ proc'[p] = new
         /\ \A q \in Proc : q # p => proc'[q] = proc[q]
BY DEF Become

LEMMA OneOfAKindKept ==
  ASSUME Inv, NEW p \in Proc, NEW new \in ProcType, Become(p, new), Respects(p, new)
  PROVE  OneOfAKind'
<1>1. proc'[p] = new /\ \A q \in Proc : q # p => proc'[q] = proc[q]
  BY BecomeFacts DEF Inv, Types
<1>2. \A q, r \in Proc : At(q, "signing")' /\ At(r, "signing")' => q = r
  BY <1>1 DEF Inv, OneOfAKind, At, Respects, Signing
<1>3. \A q, r \in Proc : At(q, "setup")' /\ At(r, "setup")' => q = r
  BY <1>1 DEF Inv, OneOfAKind, At, Respects, Wizard
<1>4. \A q, r \in Proc : proc'[q].pc \in ManagerPc /\ proc'[r].pc \in ManagerPc => q = r
  BY <1>1 DEF Inv, OneOfAKind, Respects, Manager, ManagerPc
<1>5. (login'.page # "none") <=> \E q \in Proc : At(q, "signing")'
  <2>1. CASE new.pc = "signing"
    BY <1>1, <2>1 DEF At, Respects
  <2>2. CASE new.pc # "signing"
    <3>1. (login'.page # "none") <=> (login.page # "none" /\ ~At(p, "signing"))
      BY <2>2 DEF Respects
    <3>2. (\E q \in Proc : At(q, "signing")') <=> (\E q \in Proc \ {p} : At(q, "signing"))
      BY <1>1, <2>2 DEF At
    <3>3. (login.page # "none") <=> \E q \in Proc : At(q, "signing")
      BY DEF Inv, OneOfAKind
    <3>4. \A q \in Proc : At(q, "signing") /\ At(p, "signing") => q = p
      BY DEF Inv, OneOfAKind
    <3>5. QED
      BY <3>1, <3>2, <3>3, <3>4
  <2>3. QED
    BY <2>1, <2>2
<1>6. \A q \in Proc : At(q, "serve")' => sock' = q
  <2> SUFFICES ASSUME NEW q \in Proc, At(q, "serve")' PROVE sock' = q
    OBVIOUS
  <2>1. CASE q = p
    BY <1>1, <2>1 DEF At, Respects
  <2>2. CASE q # p
    <3>1. At(q, "serve") /\ sock = q /\ q \in Manager
      BY <1>1, <2>2 DEF At, Inv, OneOfAKind, Manager
    <3>2. QED
      BY <2>2, <3>1 DEF Respects
  <2>3. QED
    BY <2>1, <2>2
<1>7. QED
  BY <1>2, <1>3, <1>4, <1>5, <1>6 DEF OneOfAKind

\* A step of a process.
LEMMA ProcessInv ==
  ASSUME Inv, NEW p \in Proc, NEW new \in ProcType, Become(p, new), Respects(p, new),
         DrivesKept, login' \in LoginType, OneWorker',
         vaults \subseteq vaults', vaults' \subseteq Vault,
         sock' \in Proc \cup {None, "dead"}, UNCHANGED <<agent, surplus>>
  PROVE  Inv'
<1>1. Types'
  BY BecomeFacts DEF Inv, Types, DrivesKept
<1>2. Remembered'
  BY RememberedKept DEF Inv
<1>3. QED
  BY <1>1, <1>2, OneOfAKindKept DEF Inv

LEMMA ProcFields ==
  ASSUME proc \in [Proc -> ProcType], NEW p \in Proc
  PROVE  /\ proc[p] \in ProcType /\ proc[p].kind \in Kind \cup {"none"} /\ proc[p].pc \in Pc
         /\ proc[p].vault \in Vault \cup {None} /\ proc[p].mount \in Mountpoint \cup {None}
         /\ proc[p].todo \subseteq Vault
BY DEF ProcType

LEMMA NoProcFacts == NoProc \in ProcType /\ NoProc.pc = "off"
BY DEF NoProc, ProcType, Pc

LEMMA WithFacts ==
  ASSUME NEW pc \in Pc, NEW v \in Vault \cup {None}, NEW m \in Mountpoint \cup {None},
         NEW new, new = [NoProc EXCEPT !.pc = pc, !.vault = v, !.mount = m]
  PROVE  new \in ProcType /\ new.pc = pc
BY DEF NoProc, ProcType, Pc

LEMMA LookFacts ==
  ASSUME proc \in [Proc -> ProcType], NEW p \in Proc, NEW todo, todo \subseteq Vault,
         NEW new, new = [proc[p] EXCEPT !.pc = "find", !.todo = todo]
  PROVE  new \in ProcType /\ new.pc = "find"
BY DEF ProcType, Pc

LEMMA GotoFacts ==
  ASSUME proc \in [Proc -> ProcType], NEW p \in Proc, NEW pc \in Pc,
         NEW new, new = [proc[p] EXCEPT !.pc = pc]
  PROVE  new \in ProcType /\ new.pc = pc
BY DEF ProcType, Pc

\* A process that has no window and becomes one without a window.
LEMMA PlainInv ==
  ASSUME Inv, NEW p \in Proc, NEW new \in ProcType, Become(p, new),
         ~At(p, "signing"), new.pc \in {"off", "ping", "find"},
         DrivesKept, UNCHANGED <<login, sock, rest>>
  PROVE  Inv'
<1>1. Respects(p, new)
  BY DEF Respects, ManagerPc
<1>2. QED
  BY <1>1, ProcessInv DEF Inv, Types, OneWorker, rest

\* One that ends without a window, or gives its own up.
LEMMA ExitInv ==
  ASSUME Inv, NEW p \in Proc, Exit(p), ~At(p, "signing"), DrivesKept,
         UNCHANGED <<login, sock, rest>>
  PROVE  Inv'
BY NoProcFacts, PlainInv DEF Exit

\* One that looks for vaults.
LEMMA LookInv ==
  ASSUME Inv, NEW p \in Proc, NEW todo, todo \subseteq Vault, Look(p, todo),
         ~At(p, "signing"), DrivesKept, UNCHANGED <<login, sock, rest>>
  PROVE  Inv'
<1>1. PICK new : new = [proc[p] EXCEPT !.pc = "find", !.todo = todo]
  OBVIOUS
<1>2. new \in ProcType /\ new.pc = "find" /\ Become(p, new)
  BY <1>1, LookFacts DEF Inv, Types, Look
<1>3. QED
  BY <1>2, PlainInv

LEMMA RunSetupInv ==
  ASSUME Inv, NEW p \in Proc, RunSetup(p), ~At(p, "signing"), DrivesKept,
         UNCHANGED <<login, sock, rest>>
  PROVE  Inv'
<1>1. CASE Wizard # {}
  BY <1>1, ExitInv DEF RunSetup
<1>2. CASE Wizard = {}
  <2>1. PICK new : new = [NoProc EXCEPT !.pc = "setup"]
    OBVIOUS
  <2>2. new \in ProcType /\ new.pc = "setup"
    BY <2>1 DEF NoProc, ProcType, Pc
  <2>3. Become(p, new)
    BY <1>2, <2>1 DEF RunSetup
  <2>4. Respects(p, new)
    BY <1>2, <2>2 DEF Respects, ManagerPc
  <2>5. QED
    BY <2>2, <2>3, <2>4, ProcessInv DEF Inv, Types, OneWorker, rest
<1>3. QED
  BY <1>1, <1>2

\* run_login, when the process has no sign-in window of its own.
LEMMA RunLoginInv ==
  ASSUME Inv, NEW p \in Proc, NEW v \in Vault, NEW m \in Mountpoint, RunLogin(p, v, m),
         ~At(p, "signing"), DrivesKept, vaults \subseteq vaults', vaults' \subseteq Vault,
         UNCHANGED <<sock, agent, surplus>>
  PROVE  Inv'
<1>1. CASE Signing # {}
  <2>1. Become(p, NoProc) /\ UNCHANGED login
    BY <1>1 DEF RunLogin, Exit
  <2>2. Respects(p, NoProc)
    BY <2>1, NoProcFacts DEF Respects, ManagerPc
  <2>3. QED
    BY <2>1, <2>2, NoProcFacts, ProcessInv DEF Inv, Types, OneWorker
<1>2. CASE Signing = {}
  <2>1. PICK new : new = [NoProc EXCEPT !.pc = "signing", !.vault = v, !.mount = m]
    OBVIOUS
  <2>2. new \in ProcType /\ new.pc = "signing"
    <3>1. "signing" \in Pc /\ v \in Vault \cup {None} /\ m \in Mountpoint \cup {None}
      BY DEF Pc
    <3>2. QED
      BY <2>1, <3>1, WithFacts
  <2>3. Become(p, new) /\ OpenLogin
    BY <1>2, <2>1 DEF RunLogin, With
  <2>4. login' \in LoginType /\ OneWorker' /\ login'.page = "checking"
    BY <2>3, OpenLoginFacts
  <2>5. Respects(p, new)
    BY <1>2, <2>2, <2>4 DEF Respects, ManagerPc
  <2>6. QED
    BY <2>2, <2>3, <2>4, <2>5, ProcessInv DEF Inv, Types
<1>3. QED
  BY <1>1, <1>2

\* run_main_app, from the sign-in window or without one.
LEMMA RunMainAppInv ==
  ASSUME Inv, NEW p \in Proc, NEW v \in Vault \cup {None}, NEW m \in Mountpoint \cup {None},
         RunMainApp(p, v, m), DrivesKept, vaults \subseteq vaults', vaults' \subseteq Vault,
         UNCHANGED <<agent, surplus>>,
         IF At(p, "signing") THEN login' = NoLogin ELSE login' = login
  PROVE  Inv'
<1>1. /\ login' \in LoginType /\ OneWorker'
      /\ (login'.page # "none") <=> (login.page # "none" /\ ~At(p, "signing"))
  <2>1. CASE At(p, "signing")
    BY <2>1, NoLoginFacts
  <2>2. CASE ~At(p, "signing")
    BY <2>2 DEF Inv, Types, OneWorker
  <2>3. QED
    BY <2>1, <2>2
<1>2. CASE Manager = {}
  <2>1. PICK new : new = [NoProc EXCEPT !.pc = "serve", !.vault = v, !.mount = m]
    OBVIOUS
  <2>2. new \in ProcType /\ new.pc = "serve"
    <3>1. "serve" \in Pc /\ v \in Vault \cup {None} /\ m \in Mountpoint \cup {None}
      BY DEF Pc
    <3>2. QED
      BY <2>1, <3>1, WithFacts
  <2>3. Become(p, new) /\ sock' = p
    BY <1>2, <2>1 DEF RunMainApp, With, ControlServerStart
  <2>4. Respects(p, new)
    BY <1>1, <1>2, <2>2, <2>3 DEF Respects
  <2>5. QED
    BY <1>1, <2>2, <2>3, <2>4, ProcessInv
<1>3. CASE Manager # {}
  <2>1. Become(p, NoProc) /\ UNCHANGED sock
    BY <1>3 DEF RunMainApp, Exit
  <2>2. Respects(p, NoProc)
    BY <1>1, <2>1, NoProcFacts DEF Respects, ManagerPc
  <2>3. QED
    BY <1>1, <2>1, <2>2, NoProcFacts, ProcessInv DEF Inv, Types
<1>4. QED
  BY <1>2, <1>3

-----------------------------------------------------------------------------
(* The steps of processes.                                                 *)

LEMMA StartInv == ASSUME Inv, NEW p \in Proc, Start(p) PROVE Inv'
<1>1. /\ At(p, "off") /\ ~At(p, "signing") /\ DrivesKept
      /\ UNCHANGED <<login, sock, rest>>
  BY SameDrives DEF Start, At, Inv, Types
<1>2. CASE \E kind \in {"sign-in", "show"} :
             Become(p, [NoProc EXCEPT !.kind = kind, !.pc = "ping"])
  <2>1. PICK kind \in Kind : Become(p, [NoProc EXCEPT !.kind = kind, !.pc = "ping"])
    BY <1>2 DEF Kind
  <2>2. PICK new : new = [NoProc EXCEPT !.kind = kind, !.pc = "ping"]
    OBVIOUS
  <2>3. new \in ProcType /\ new.pc = "ping"
    BY <2>2 DEF NoProc, ProcType, Pc, Kind
  <2>4. QED
    BY <1>1, <2>1, <2>2, <2>3, PlainInv
<1>3. CASE \E v \in vaults :
             Become(p, [NoProc EXCEPT !.kind = "command", !.pc = "find", !.todo = {v}])
  <2>1. PICK v \in vaults :
          Become(p, [NoProc EXCEPT !.kind = "command", !.pc = "find", !.todo = {v}])
    BY <1>3
  <2>2. PICK new : new = [NoProc EXCEPT !.kind = "command", !.pc = "find", !.todo = {v}]
    OBVIOUS
  <2>3. {v} \subseteq Vault /\ "command" \in Kind /\ "find" \in Pc
    BY DEF Inv, Types, Kind, Pc
  <2>4. new \in ProcType /\ new.pc = "find"
    BY <2>2, <2>3 DEF NoProc, ProcType
  <2>5. QED
    BY <1>1, <2>1, <2>2, <2>4, PlainInv
<1>4. QED
  BY <1>2, <1>3 DEF Start

LEMMA PingInv == ASSUME Inv, NEW p \in Proc, Ping(p) PROVE Inv'
<1>1. ~At(p, "signing") /\ DrivesKept /\ UNCHANGED <<login, sock, rest>>
  BY SameDrives DEF Ping, At, Inv, Types
<1>2. Legacy \subseteq Vault /\ vaults \subseteq Vault
  BY LauncherAssumption DEF Inv, Types
<1>3. CASE Exit(p)
  BY <1>1, <1>3, ExitInv
<1>4. CASE Look(p, Legacy)
  BY <1>1, <1>2, <1>4, LookInv
<1>5. CASE Look(p, vaults)
  BY <1>1, <1>2, <1>5, LookInv
<1>6. CASE RunSetup(p)
  BY <1>1, <1>6, RunSetupInv
<1>7. QED
  BY <1>3, <1>4, <1>5, <1>6 DEF Ping, Proceed

LEMMA FindConnectedVaultInv ==
  ASSUME Inv, NEW p \in Proc, NEW v \in Vault, FindConnectedVault(p, v)
  PROVE  Inv'
<1>1. /\ ~At(p, "signing") /\ v \in proc[p].todo
      /\ UNCHANGED <<sock, rest>>
  BY DEF FindConnectedVault, At, First
<1>2. CASE \E m \in Mountpoint :
             /\ FindAndMountVault(v, m)
             /\ IF proc[p].kind = "sign-in" THEN RunLogin(p, v, m)
                ELSE Exit(p) /\ UNCHANGED login
  <2>1. PICK m \in Mountpoint :
          /\ FindAndMountVault(v, m)
          /\ RunLogin(p, v, m) \/ (Exit(p) /\ UNCHANGED login)
    BY <1>2
  <2>2. DrivesKept
    BY <2>1, FindAndMountFacts DEF Inv, Types
  <2>3. vaults \subseteq vaults' /\ vaults' \subseteq Vault /\ UNCHANGED <<agent, surplus>>
    BY <1>1 DEF rest, Inv, Types
  <2>4. QED
    BY <1>1, <2>1, <2>2, <2>3, RunLoginInv, ExitInv
<1>3. CASE /\ FindAndMountVault(v, None)
           /\ Exit(p) \/ Look(p, proc[p].todo \ {v})
           /\ UNCHANGED login
  <2>1. DrivesKept
    BY <1>3, FindAndMountFacts DEF Inv, Types
  <2>2. proc[p].todo \ {v} \subseteq Vault
    BY ProcFields DEF Inv, Types
  <2>3. QED
    BY <1>1, <1>3, <2>1, <2>2, ExitInv, LookInv
<1>4. CASE Exit(p) /\ UNCHANGED <<drives, login>>
  BY <1>1, <1>4, SameDrives, ExitInv DEF Inv, Types
<1>5. QED
  BY <1>2, <1>3, <1>4 DEF FindConnectedVault

LEMMA ShowInv == ASSUME Inv, NEW p \in Proc, Show(p) PROVE Inv'
<1>1. PICK v \in proc[p].todo :
        LET status == EvaluateUsbStatus(v) IN
        /\ At(p, "find") /\ proc[p].kind = "show"
        /\ \/ /\ status.state = "mounted"
              /\ RunMainApp(p, v, status.mount) /\ UNCHANGED drives
           \/ /\ status.state \in {"unlocked_not_mounted", "present_not_mounted"}
              /\ \E m \in Mountpoint : Mount(v, m) /\ RunMainApp(p, v, m)
           \/ Exit(p) /\ UNCHANGED <<drives, sock>>
        /\ UNCHANGED <<login, rest>>
  BY DEF Show
<1>2. v \in Vault /\ UsbTypeOK
  BY ProcFields DEF Inv, Types
<1>3. ~At(p, "signing") /\ UNCHANGED <<login, rest>>
  BY <1>1 DEF At
<1>4. vaults \subseteq vaults' /\ vaults' \subseteq Vault /\ UNCHANGED <<agent, surplus>>
  BY <1>3 DEF rest, Inv, Types
<1>5. CASE /\ EvaluateUsbStatus(v).state = "mounted"
           /\ RunMainApp(p, v, EvaluateUsbStatus(v).mount) /\ UNCHANGED drives
  <2>1. PICK m \in Mountpoint : m = EvaluateUsbStatus(v).mount
    BY <1>2, <1>5, StatusFacts DEF Mounted
  <2>2. RunMainApp(p, v, m) /\ DrivesKept
    BY <1>2, <1>5, <2>1, SameDrives
  <2>3. QED
    BY <1>2, <1>3, <1>4, <2>2, RunMainAppInv
<1>6. CASE \E m \in Mountpoint : Mount(v, m) /\ RunMainApp(p, v, m)
  <2>1. PICK m \in Mountpoint : Mount(v, m) /\ RunMainApp(p, v, m)
    BY <1>6
  <2>2. Drive(v, m) /\ m \in DriveState /\ m \notin {"locked", "foreign"}
    BY <2>1, UsbAssumption DEF Mount, DriveState
  <2>3. DrivesKept
    BY <1>2, <2>2, DriveFacts
  <2>4. QED
    BY <1>2, <1>3, <1>4, <2>1, <2>3, RunMainAppInv
<1>7. CASE Exit(p) /\ UNCHANGED <<drives, sock>>
  BY <1>2, <1>3, <1>7, SameDrives, ExitInv
<1>8. QED
  BY <1>1, <1>5, <1>6, <1>7

LEMMA LoginDoneInv == ASSUME Inv, NEW p \in Proc, LoginDone(p) PROVE Inv'
<1>1. At(p, "signing") /\ login' = NoLogin /\ DrivesKept /\ UNCHANGED rest
  BY SameDrives DEF LoginDone, Inv, Types
<1>2. vaults \subseteq vaults' /\ vaults' \subseteq Vault /\ UNCHANGED <<agent, surplus>>
  BY <1>1 DEF rest, Inv, Types
<1>3. CASE RunMainApp(p, proc[p].vault, proc[p].mount)
  <2>1. proc[p].vault \in Vault \cup {None} /\ proc[p].mount \in Mountpoint \cup {None}
    BY ProcFields DEF Inv, Types
  <2>2. QED
    BY <1>1, <1>2, <1>3, <2>1, RunMainAppInv
<1>4. CASE Exit(p) /\ UNCHANGED sock
  <2>1. login' \in LoginType /\ OneWorker' /\ login'.page = "none"
    BY <1>1, NoLoginFacts
  <2>2. Become(p, NoProc) /\ Respects(p, NoProc)
    BY <1>1, <1>4, <2>1, NoProcFacts DEF Exit, Respects, ManagerPc
  <2>3. QED
    BY <1>1, <1>2, <1>4, <2>1, <2>2, NoProcFacts, ProcessInv DEF Inv, Types
<1>5. QED
  BY <1>3, <1>4 DEF LoginDone

LEMMA SetupDoneInv == ASSUME Inv, NEW p \in Proc, SetupDone(p) PROVE Inv'
<1>1. ~At(p, "signing") /\ DrivesKept /\ UNCHANGED <<agent, surplus>>
  BY SameDrives DEF SetupDone, At, Inv, Types
<1>2. CASE Exit(p) /\ UNCHANGED <<vaults, login, sock>>
  BY <1>1, <1>2, ExitInv DEF rest
<1>3. CASE \E v \in {w \in Vault : Mounted(w)} :
             /\ vaults' = vaults \cup {v}
             /\ \/ RunMainApp(p, v, usb[v]) /\ UNCHANGED login
                \/ RunLogin(p, v, usb[v]) /\ UNCHANGED sock
  <2>1. PICK v \in Vault :
          /\ usb[v] \in Mountpoint /\ vaults' = vaults \cup {v}
          /\ \/ RunMainApp(p, v, usb[v]) /\ UNCHANGED login
             \/ RunLogin(p, v, usb[v]) /\ UNCHANGED sock
    BY <1>3 DEF Mounted
  <2>2. vaults \subseteq vaults' /\ vaults' \subseteq Vault
    BY <2>1 DEF Inv, Types
  <2>3. PICK m \in Mountpoint : m = usb[v]
    BY <2>1
  <2>4. CASE RunMainApp(p, v, m) /\ UNCHANGED login
    BY <1>1, <2>2, <2>4, RunMainAppInv
  <2>5. CASE RunLogin(p, v, m) /\ UNCHANGED sock
    BY <1>1, <2>2, <2>5, RunLoginInv
  <2>6. QED
    BY <2>1, <2>3, <2>4, <2>5
<1>4. QED
  BY <1>2, <1>3 DEF SetupDone

\* The manager ends in three steps, and keeps its name to the last one.
LEMMA ManagerInv ==
  ASSUME Inv, NEW p \in Proc, LockManager(p) \/ StopControlServer(p) \/ Quit(p)
  PROVE  Inv'
<1>1. /\ proc[p].pc \in ManagerPc /\ ~At(p, "signing") /\ DrivesKept
      /\ UNCHANGED <<login, rest>>
  BY SameDrives DEF LockManager, StopControlServer, Quit, At, ManagerPc, Inv, Types
<1>2. PICK new \in ProcType :
        Become(p, new) /\ new.pc \in {"stop", "quit", "off"}
  <2>1. \/ Become(p, [proc[p] EXCEPT !.pc = "stop"])
        \/ Become(p, [proc[p] EXCEPT !.pc = "quit"])
        \/ Become(p, NoProc)
    BY DEF LockManager, StopControlServer, Quit, Goto, Exit
  <2>2. "stop" \in Pc /\ "quit" \in Pc /\ proc \in [Proc -> ProcType]
    BY DEF Pc, Inv, Types
  <2>3. QED
    BY <2>1, <2>2, GotoFacts, NoProcFacts
<1>3. sock' \in Proc \cup {None, "dead"} /\ (sock' = sock \/ Manager \subseteq {p})
  <2>1. CASE UNCHANGED sock
    BY <2>1 DEF Inv, Types
  <2>2. CASE sock' = None
    BY <1>1, <2>2 DEF Inv, OneOfAKind, Manager, ManagerPc
  <2>3. QED
    BY <2>1, <2>2 DEF LockManager, StopControlServer, Quit
<1>4. Respects(p, new)
  BY <1>1, <1>2, <1>3 DEF Respects
<1>5. QED
  BY <1>1, <1>2, <1>3, <1>4, ProcessInv DEF Inv, Types, OneWorker, rest

LEMMA KillInv == ASSUME Inv, NEW p \in Proc, Kill(p) PROVE Inv'
<1>1. /\ Become(p, NoProc) /\ DrivesKept /\ UNCHANGED <<vaults, agent, surplus>>
      /\ sock' = IF sock = p THEN "dead" ELSE sock
  BY SameDrives DEF Kill, Exit, Inv, Types
<1>2. /\ login' \in LoginType /\ OneWorker'
      /\ (login'.page # "none") <=> (login.page # "none" /\ ~At(p, "signing"))
  <2>1. CASE At(p, "signing")
    BY <2>1, NoLoginFacts DEF Kill
  <2>2. CASE ~At(p, "signing")
    BY <2>2 DEF Kill, Inv, Types, OneWorker
  <2>3. QED
    BY <2>1, <2>2
<1>3. sock' \in Proc \cup {None, "dead"} /\ vaults' \subseteq Vault
  BY <1>1 DEF Inv, Types
<1>4. Respects(p, NoProc)
  BY <1>1, <1>2, NoProcFacts DEF Respects, ManagerPc
<1>5. QED
  BY <1>1, <1>2, <1>3, <1>4, NoProcFacts, ProcessInv

LEMMA SpawnSignInInv == ASSUME Inv, NEW v \in Vault, SpawnSignIn(v) PROVE Inv'
<1>1. /\ agent.pc = "spawn" /\ v \in agent.todo /\ v \in arrived
      /\ UNCHANGED <<usb, login, vaults, sock>>
      /\ agent' = [agent EXCEPT !.todo = @ \ {v},
                                !.pc = IF agent.todo = {v} THEN "idle" ELSE "spawn"]
  BY DEF SpawnSignIn, First, Inv, Remembered
<1>2. /\ agent' \in AgentType /\ agent'.todo = agent.todo \ {v}
      /\ agent'.pc \in {"idle", "spawn"}
      /\ agent'.previous = agent.previous /\ agent'.current = agent.current
  BY <1>1 DEF Inv, Types, AgentType
<1>3. arrived' \in {arrived, arrived \ {v}}
  BY DEF SpawnSignIn
<1>4. ~surplus'
  <2>1. ~surplus
    BY DEF Inv
  <2>2. surplus' = (surplus \/ v \notin arrived) \/ surplus' = surplus
    BY DEF SpawnSignIn
  <2>3. QED
    BY <1>1, <2>1, <2>2
<1>5. Remembered'
  <2>1. /\ agent.todo \cup agent.previous \cup agent.current \subseteq vaults
        /\ \A w \in Vault : Mounted(w) => w \in arrived \cup agent.previous
        /\ agent.todo \subseteq arrived \cap agent.previous
    BY <1>1 DEF Inv, Remembered
  <2>2. \A w \in Vault : Mounted(w)' => Mounted(w)
    BY <1>1 DEF Mounted
  <2>3. v \in agent.previous
    BY <1>1, <2>1
  <2>4. \A w \in Vault : Mounted(w)' => w \in arrived' \cup agent'.previous
    BY <1>2, <1>3, <2>1, <2>2, <2>3
  <2>5. agent'.todo \subseteq arrived' \cap agent'.previous
    BY <1>2, <1>3, <2>1
  <2>6. agent'.todo \cup agent'.previous \cup agent'.current \subseteq vaults'
    BY <1>1, <1>2, <2>1
  <2>7. agent'.pc # "look"
    BY <1>2
  <2>8. QED
    BY <2>4, <2>5, <2>6, <2>7 DEF Remembered
<1>6. OneOfAKind' /\ proc' \in [Proc -> ProcType]
  <2>1. CASE UNCHANGED proc
    BY <1>1, <2>1 DEF Inv, Types, OneOfAKind, At
  <2>2. CASE proc' # proc
    <3>1. PICK p \in Proc :
            /\ At(p, "off")
            /\ Become(p, [NoProc EXCEPT !.kind = "sign-in", !.pc = "ping"])
      BY <2>2 DEF SpawnSignIn, Become
    <3>2. PICK new : new = [NoProc EXCEPT !.kind = "sign-in", !.pc = "ping"]
      OBVIOUS
    <3>3. new \in ProcType /\ new.pc = "ping"
      BY <3>2 DEF NoProc, ProcType, Pc, Kind
    <3>4. Become(p, new)
      BY <3>1, <3>2
    <3>5. Respects(p, new)
      BY <1>1, <3>1, <3>3 DEF Respects, ManagerPc, At
    <3>6. QED
      BY <3>3, <3>4, <3>5, BecomeFacts, OneOfAKindKept DEF Inv, Types
  <2>3. QED
    BY <2>1, <2>2
<1>7. Types'
  BY <1>1, <1>2, <1>3, <1>6 DEF Inv, Types, UsbTypeOK
<1>8. OneWorker'
  BY <1>1 DEF Inv, OneWorker
<1>9. QED
  BY <1>4, <1>5, <1>6, <1>7, <1>8 DEF Inv

-----------------------------------------------------------------------------
(* The invariant holds, and what follows from it.                          *)

LEMMA InitInv == Init => Inv
<1> SUFFICES ASSUME Init PROVE Inv
  OBVIOUS
<1> USE DEF Init
<1>1. login \in LoginType /\ OneWorker /\ login.page = "none"
  <2>1. NoLogin \in LoginType
    BY DEF NoLogin, LoginType, Page
  <2>2. QED
    BY <2>1 DEF NoLogin, OneWorker, Fits, Owned
<1>2. UsbTypeOK
  BY DEF UsbTypeOK, DriveState
<1>3. /\ agent \in AgentType /\ agent.pc = "off" /\ agent.todo = {}
      /\ agent.previous = {} /\ agent.current = {}
  BY DEF NoAgent, AgentType
<1>4. proc \in [Proc -> ProcType] /\ \A p \in Proc : proc[p].pc = "off"
  BY NoProcFacts
<1>5. OneOfAKind
  BY <1>1, <1>4 DEF OneOfAKind, At, ManagerPc
<1>6. Remembered
  BY <1>3 DEF Remembered
<1>7. Types
  BY <1>1, <1>2, <1>3, <1>4 DEF Types
<1>8. QED
  BY <1>1, <1>5, <1>6, <1>7 DEF Inv

LEMMA AgentStep == ASSUME Inv, Agent PROVE Inv'
BY StartAgentInv, DevicesChangedInv, PollFailsInv, HandleBlocksInv, SpawnSignInInv
   DEF Agent

LEMMA ProcessStep == ASSUME Inv, NEW p \in Proc, Process(p) PROVE Inv'
BY StartInv, PingInv, ShowInv, LoginDoneInv, SetupDoneInv, FindConnectedVaultInv,
   ManagerInv, KillInv
   DEF Process

LEMMA WindowStep ==
  ASSUME Inv, LoginStep, UNCHANGED <<drives, vaults, agent, proc, sock, surplus>>
  PROVE  Inv'
<1>1. LoginKept
  BY LoginStepKept DEF Inv, Types
<1>2. Types'
  BY <1>1 DEF LoginKept, Inv, Types, UsbTypeOK, drives
<1>3. OneOfAKind'
  BY <1>1 DEF LoginKept, Inv, OneOfAKind, At
<1>4. Remembered'
  BY DEF Inv, Remembered, Mounted, drives
<1>5. QED
  BY <1>1, <1>2, <1>3, <1>4 DEF LoginKept, Inv

LEMMA DesktopStep ==
  ASSUME Inv, Desktop, UNCHANGED <<login, vaults, agent, proc, sock, surplus>>
  PROVE  Inv'
<1>1. DrivesKept
  <2>1. PICK v \in Vault : Plug(v) \/ Unplug(v) \/ LockDrive(v) \/ Remount(v)
    BY DEF Desktop
  <2>2. PICK to \in DriveState : Drive(v, to) /\ (v \notin Luks => to \notin {"locked", "foreign"})
    <3>1. CASE Remount(v)
      BY <3>1, UsbAssumption DEF Remount, Mount, DriveState
    <3>2. CASE Plug(v) \/ Unplug(v) \/ LockDrive(v)
      <4>1. PICK to \in {"absent", "locked", "open"} :
              /\ usb' = [usb EXCEPT ![v] = to] /\ arrived' = arrived
              /\ v \notin Luks => to # "locked"
        BY <3>2 DEF Plug, Unplug, LockDrive
      <4>2. QED
        BY <4>1, UsbAssumption DEF Drive, DriveState
    <3>3. QED
      BY <2>1, <3>1, <3>2
  <2>3. QED
    BY <2>2, DriveFacts DEF Inv, Types
<1>2. UsbTypeOK' /\ Remembered'
  BY <1>1, RememberedKept DEF Inv, DrivesKept
<1>3. QED
  BY <1>2, PollInv DEF Inv, Types

LEMMA InvStep == Inv /\ [Next]_vars => Inv'
<1> SUFFICES ASSUME Inv, [Next]_vars PROVE Inv'
  OBVIOUS
<1>1. CASE UNCHANGED vars
  <2>1. UsbTypeOK' /\ Remembered'
    BY <1>1 DEF vars, Inv, Types, UsbTypeOK, Remembered, Mounted
  <2>2. QED
    BY <1>1, <2>1, PollInv DEF vars, Inv, Types
<1>2. CASE Next
  BY <1>2, AgentStep, ProcessStep, WindowStep, DesktopStep DEF Next
<1>3. QED
  BY <1>1, <1>2

LEMMA InvAlways == Spec => []Inv
<1>1. QED
  BY InitInv, InvStep, PTL DEF Spec

\* A set whose members are all equal.
LEMMA AtMostOne ==
  ASSUME NEW S, \A x, y \in S : x = y
  PROVE  /\ Cardinality(S) = IF S = {} THEN 0 ELSE 1
         /\ Cardinality(S) <= 1
<1>1. CASE S = {}
  <2>1. Cardinality(S) = 0
    BY <1>1, FS_EmptySet
  <2>2. QED
    BY <1>1, <2>1
<1>2. CASE S # {}
  <2>1. PICK x : S = {x}
    BY <1>2
  <2>2. Cardinality({x}) = 1
    BY FS_Singleton
  <2>3. QED
    BY <1>2, <2>1, <2>2
<1>3. QED
  BY <1>1, <1>2

\* Every variable keeps its type, and each window is of one process at most.
THEOREM TypeCorrect == Spec => []TypeOK
<1>1. Inv => TypeOK
  <2> SUFFICES ASSUME Inv PROVE TypeOK
    OBVIOUS
  <2>1. LoginTypeOK
    BY LoginFields DEF Inv, Types, LoginTypeOK
  <2>2. \A p \in Proc : /\ proc[p].kind \in Kind \cup {"none"} /\ proc[p].pc \in Pc
                        /\ proc[p].vault \in Vault \cup {None} /\ proc[p].todo \subseteq Vault
                        /\ proc[p].mount \in Mountpoint \cup {None}
    BY ProcFields DEF Inv, Types
  <2>3. Cardinality(Signing) = IF login.page = "none" THEN 0 ELSE 1
    <3>1. \A p, q \in Signing : p = q
      BY DEF Inv, OneOfAKind, Signing
    <3>2. Signing = {} <=> login.page = "none"
      BY DEF Inv, OneOfAKind, Signing
    <3>3. QED
      BY <3>1, <3>2, AtMostOne
  <2>4. Cardinality(Wizard) <= 1
    <3>1. \A p, q \in Wizard : p = q
      BY DEF Inv, OneOfAKind, Wizard
    <3>2. QED
      BY <3>1, AtMostOne
  <2>5. Cardinality(Manager) <= 1
    <3>1. \A p, q \in Manager : p = q
      BY DEF Inv, OneOfAKind, Manager, ManagerPc
    <3>2. QED
      BY <3>1, AtMostOne
  <2>6. /\ agent.pc \in {"off", "idle", "look", "spawn"}
        /\ agent.todo \cup agent.previous \cup agent.current \subseteq Vault
    BY AgentFields DEF Inv, Types
  <2>7. surplus \in BOOLEAN
    BY DEF Inv
  <2>8. QED
    BY <2>1, <2>2, <2>3, <2>4, <2>5, <2>6, <2>7 DEF Inv, Types, TypeOK
<1>2. QED
  BY <1>1, InvAlways, PTL

\* The agent opens no second sign-in for one arrival of a drive.
THEOREM NoSecondPopup == Spec => []OneSignInPerPlug
<1>1. Inv => OneSignInPerPlug
  BY DEF Inv, OneSignInPerPlug
<1>2. QED
  BY <1>1, InvAlways, PTL

\* The control socket leads to the manager that serves.
THEOREM ManagerIsReachable == Spec => []RunningIsReachable
<1>1. Inv => RunningIsReachable
  BY DEF Inv, OneOfAKind, RunningIsReachable
<1>2. QED
  BY <1>1, InvAlways, PTL

\* For any drives and mountpoints: the manager's view of a drive is that of the
\* search that opened it.
THEOREM ViewsAgree == Spec => []UsbAgreement
<1>1. Inv => UsbAgreement
  <2> SUFFICES ASSUME Inv, NEW v \in Vault, NEW m \in Mountpoint \cup {"elsewhere"}
               PROVE  ~ShouldLockForUsbRemoval(EvaluateUsbStatus(v), m, "lock_immediately")
                        <=> \E b \in Target(v) : b.mount = m
    BY DEF UsbAgreement
  <2>1. PICK status : status = EvaluateUsbStatus(v)
    OBVIOUS
  <2>2. /\ status.state = "mounted" <=> usb[v] \in Mountpoint
        /\ status.state = "mounted" => status.mount = usb[v]
    BY <2>1, StatusFacts DEF Inv, Types, Mounted
  <2>3. usb[v] = m => usb[v] \in Mountpoint
    <3>1. usb[v] \in DriveState
      BY DEF Inv, Types, UsbTypeOK
    <3>2. QED
      BY <3>1 DEF DriveState
  <2>4. ShouldLockForUsbRemoval(status, m, "lock_immediately") <=>
          (status.state # "mounted" \/ status.mount # m)
    BY DEF ShouldLockForUsbRemoval, ShouldLockForUsbState
  <2>5. (status.state # "mounted" \/ status.mount # m) <=> usb[v] # m
    BY <2>2, <2>3
  <2>6. (\E b \in Target(v) : b.mount = m) <=> usb[v] = m
    <3>1. ASSUME NEW b \in Target(v), b.mount = m PROVE usb[v] = m
      BY <3>1, TargetIsOwn, UsbAssumption DEF MountOf, Inv, Types
    <3>2. ASSUME usb[v] = m PROVE \E b \in Target(v) : b.mount = m
      <4>1. PICK b \in Target(v) : TRUE
        BY <2>3, <3>2, TargetIsFound DEF Inv, Types
      <4>2. b.mount = m
        BY <2>3, <3>2, <4>1, TargetIsOwn DEF MountOf, Mounted, Inv, Types
      <4>3. QED
        BY <4>2
    <3>3. QED
      BY <3>1, <3>2
  <2>7. QED
    BY <2>1, <2>4, <2>5, <2>6
<1>2. QED
  BY <1>1, InvAlways, PTL

\* At most one attempt, on the page that waits for it.
THEOREM SignInIsOrderly == Spec => []LoginIsOrderly
<1>1. Inv => LoginIsOrderly
  <2> SUFFICES ASSUME Inv PROVE LoginIsOrderly
    OBVIOUS
  <2>1. \A v, w \in login.work \cap Attempts : v = w
    BY DEF Inv, OneWorker, Fits, Attempts
  <2>2. Cardinality(login.work \cap Attempts) <= 1
    BY <2>1, AtMostOne
  <2>3. login.work \cap {"auto", "wait", "open"} # {} => login.page = "checking"
    BY DEF Inv, OneWorker, Fits
  <2>4. login.work \cap {"local", "password", "open"} # {} => login.busy
    BY DEF Inv, OneWorker, Fits
  <2>5. QED
    BY <2>2, <2>3, <2>4 DEF LoginIsOrderly
<1>2. QED
  BY <1>1, InvAlways, PTL

\* The secret lives in the window until one worker has it, which wipes it; a
\* handle is only given on with the secret wiped, or with that worker.
THEOREM SecretIsWipedByItsOwner == Spec => []SecretHasOneOwner
<1>1. Inv => SecretHasOneOwner
  BY DEF Inv, OneWorker, Owned, SecretHasOneOwner, Ended
<1>2. QED
  BY <1>1, InvAlways, PTL

=============================================================================
