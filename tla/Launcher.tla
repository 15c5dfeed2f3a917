------------------------------ MODULE Launcher ------------------------------
(***************************************************************************)
(* The processes of ASH: the agent that watches for drives and starts a    *)
(* sign-in, the command line (sign-in, show, lock, and the commands that   *)
(* need a vault's drive), the sign-in and setup windows, and the manager   *)
(* with its control socket.                                                *)
(*                                                                         *)
(* Each window is an application with a D-Bus name of its own: a process   *)
(* that runs one whose name is taken raises the other's window and goes    *)
(* on as if its own had been closed.  Steps between which nothing of it    *)
(* can be seen from outside are one; the windows that only say something   *)
(* (no drive, no vault) are the end of their process.                      *)
(***************************************************************************)
EXTENDS Usb, Login

CONSTANTS
  Proc,           \* bound: processes at a time, the agent aside
  Legacy,         \* the drive of usb.json, if any
  RemovalAction   \* the setting usb_removal_action

ASSUME LauncherAssumption ==
  /\ Legacy \subseteq Vault /\ Cardinality(Legacy) <= 1
  /\ Proc \cap {None, "dead"} = {}
  /\ RemovalAction \in {"lock_immediately", "keep_unlocked"}

VARIABLES
  vaults,   \* vaults.json
  agent,    \* the agent: a poll, and what the last one found connected
  proc,     \* the processes
  sock,     \* control.sock: None, a dead one, or whose it is
  surplus   \* history: a sign-in was opened twice for one arrival

vars == <<usb, arrived, login, vaults, agent, proc, sock, surplus>>
drives == <<usb, arrived>>

Kind == {"sign-in", "show", "command"}
Pc == {"off", "ping", "find", "signing", "setup", "serve", "stop", "quit"}

NoProc == [kind |-> "none", pc |-> "off", vault |-> None, mount |-> None, todo |-> {}]
NoAgent == [pc |-> "off", todo |-> {}, previous |-> {}, current |-> {}]

At(p, pc) == proc[p].pc = pc
Signing == {p \in Proc : At(p, "signing")}
Wizard == {p \in Proc : At(p, "setup")}
\* Processes that own the manager's D-Bus name.
Manager == {p \in Proc : proc[p].pc \in {"serve", "stop", "quit"}}

\* A window of a kind is of one process.
TypeOK ==
  /\ UsbTypeOK /\ LoginTypeOK
  /\ vaults \subseteq Vault /\ surplus \in BOOLEAN
  /\ agent.pc \in {"off", "idle", "look", "spawn"}
  /\ agent.todo \cup agent.previous \cup agent.current \subseteq Vault
  /\ \A p \in Proc : /\ proc[p].kind \in Kind \cup {"none"} /\ proc[p].pc \in Pc
                     /\ proc[p].vault \in Vault \cup {None} /\ proc[p].todo \subseteq Vault
                     /\ proc[p].mount \in Mountpoint \cup {None}
  /\ sock \in Proc \cup {None, "dead"}
  /\ Cardinality(Signing) = (IF login.page = "none" THEN 0 ELSE 1)
  /\ Cardinality(Wizard) <= 1
  /\ Cardinality(Manager) <= 1

Init ==
  /\ usb = [v \in Vault |-> "absent"] /\ arrived = {}
  /\ login = NoLogin
  /\ vaults \in SUBSET Vault
  /\ agent = NoAgent
  /\ proc = [p \in Proc |-> NoProc]
  /\ sock = None /\ surplus = FALSE

\* Vaults are looked for in the order of vaults.json.
First(todo, v) == todo # {} /\ v = CHOOSE w \in todo : TRUE

-----------------------------------------------------------------------------
(* The agent, on its main thread: one poll at a time.                      *)

ComputeNewlyConnectedVaults(previously, currently) == currently \ previously

\* Mutant: what was connected is not remembered.
MPollEnds(previous, current) ==
  [pc |-> IF current = {} THEN "idle" ELSE "spawn",
   todo |-> current, previous |-> previous, current |-> {}]

\* The end of _handle_blocks.
PollEnds(previous, current) ==
  LET newly == ComputeNewlyConnectedVaults(previous, current) IN
  [pc |-> IF newly = {} THEN "idle" ELSE "spawn",
   todo |-> newly, previous |-> current, current |-> {}]

Polling(todo, current) ==
  IF todo = {} THEN PollEnds(agent.previous, current)
  ELSE [agent EXCEPT !.pc = "look", !.todo = todo, !.current = current]

\* UsbWatchAgent.start: it remembers nothing.
StartAgent ==
  /\ agent.pc = "off"
  /\ agent' = Polling(vaults, {})
  /\ arrived' = Vault
  /\ UNCHANGED <<usb, login, vaults, proc, sock, surplus>>

\* Each device that UDisks2 adds or removes, of a vault or not, is a poll; one
\* plug is several.
DevicesChanged ==
  /\ agent.pc = "idle"
  /\ agent' = Polling(vaults, {})
  /\ UNCHANGED <<drives, login, vaults, proc, sock, surplus>>

\* _handle_blocks: every registered vault is looked for, and mounted.
HandleBlocks(v) ==
  /\ agent.pc = "look" /\ First(agent.todo, v)
  /\ \E m \in Mountpoint \cup {None} :
       /\ FindAndMountVault(v, m)
       /\ agent' = Polling(agent.todo \ {v},
                           agent.current \cup (IF m = None THEN {} ELSE {v}))
  /\ UNCHANGED <<login, vaults, proc, sock, surplus>>

\* Udisks2Unavailable: the poll is given up.
PollFails ==
  /\ agent.pc = "look"
  /\ agent' = [agent EXCEPT !.pc = "idle", !.todo = {}, !.current = {}]
  /\ UNCHANGED <<drives, login, vaults, proc, sock, surplus>>

\* _spawn_sign_in, which an OSError stops; no vault is named to the new process.
SpawnSignIn(v) ==
  /\ agent.pc = "spawn" /\ First(agent.todo, v)
  /\ agent' = [agent EXCEPT !.todo = @ \ {v},
                            !.pc = IF agent.todo = {v} THEN "idle" ELSE "spawn"]
  /\ \/ \E p \in Proc :
          /\ At(p, "off")
          /\ proc' = [proc EXCEPT ![p] = [NoProc EXCEPT !.kind = "sign-in", !.pc = "ping"]]
          /\ surplus' = (surplus \/ v \notin arrived)
          /\ arrived' = arrived \ {v}
     \/ UNCHANGED <<proc, surplus, arrived>>
  /\ UNCHANGED <<usb, login, vaults, sock>>

-----------------------------------------------------------------------------
(* The command line.                                                       *)

Become(p, new) == proc' = [proc EXCEPT ![p] = new]
Goto(p, pc) == Become(p, [proc[p] EXCEPT !.pc = pc])
Exit(p) == Become(p, NoProc)
With(p, pc, v, m) == Become(p, [NoProc EXCEPT !.pc = pc, !.vault = v, !.mount = m])
Look(p, todo) == Become(p, [proc[p] EXCEPT !.pc = "find", !.todo = todo])

rest == <<vaults, agent, surplus>>

\* The hotkey or a terminal; devices and backup name a vault, or take the only one.
Start(p) ==
  /\ At(p, "off")
  /\ \/ \E kind \in {"sign-in", "show"} :
          Become(p, [NoProc EXCEPT !.kind = kind, !.pc = "ping"])
     \/ \E v \in vaults :
          Become(p, [NoProc EXCEPT !.kind = "command", !.pc = "find", !.todo = {v}])
  /\ UNCHANGED <<drives, login, sock, rest>>

\* A second setup window is the first.
RunSetup(p) ==
  IF Wizard = {} THEN Become(p, [NoProc EXCEPT !.pc = "setup"]) ELSE Exit(p)

\* No manager: sign-in looks for the registered vaults, show for its own.
Proceed(p) ==
  IF proc[p].kind = "show" THEN IF Legacy = {} THEN Exit(p) ELSE Look(p, Legacy)
  ELSE IF vaults = {} THEN RunSetup(p) ELSE Look(p, vaults)

\* is_ui_running and focus_existing: a manager that serves answers, if it does
\* so within 2 s.  Sign-in ends with that; show goes on if the focus failed.
Ping(p) ==
  /\ At(p, "ping")
  /\ \/ sock \in Proc /\ Exit(p)
     \/ Proceed(p)
  /\ UNCHANGED <<drives, login, sock, rest>>

\* Mutant: a second window of the same name opens.
MRunLogin(p, v, m) ==
  /\ login' = [NoLogin EXCEPT !.page = "checking", !.work = {"auto"}]
  /\ With(p, "signing", v, m)

\* A second sign-in window is the first.
RunLogin(p, v, m) ==
  IF Signing = {} THEN OpenLogin /\ With(p, "signing", v, m)
  ELSE Exit(p) /\ UNCHANGED login

\* find_connected_vault: the first one that is there; the end if none is, or
\* without UDisks2.
FindConnectedVault(p, v) ==
  /\ At(p, "find") /\ proc[p].kind # "show" /\ First(proc[p].todo, v)
  /\ \/ \E m \in Mountpoint :
          /\ FindAndMountVault(v, m)
          /\ IF proc[p].kind = "sign-in" THEN RunLogin(p, v, m) ELSE Exit(p) /\ UNCHANGED login
     \/ /\ FindAndMountVault(v, None)
        /\ IF proc[p].todo = {v} THEN Exit(p) ELSE Look(p, proc[p].todo \ {v})
        /\ UNCHANGED login
     \/ Exit(p) /\ UNCHANGED <<drives, login>>
  /\ UNCHANGED <<sock, rest>>

-----------------------------------------------------------------------------
(* The manager.                                                            *)

\* Mutant: a socket file that is in the way is not removed, and bind fails.
MControlServerStart(p) == sock' = IF sock = None THEN p ELSE sock

ControlServerStart(p) == sock' = p

\* app.run: while another process has the name, that one is activated, and the
\* handle of this one is dropped.
RunMainApp(p, v, m) ==
  IF Manager = {} THEN With(p, "serve", v, m) /\ ControlServerStart(p)
  ELSE Exit(p) /\ UNCHANGED sock

\* run_show: it never unlocks, and mounts what is unlocked.
Show(p) ==
  \E v \in proc[p].todo :
    LET status == EvaluateUsbStatus(v) IN
    /\ At(p, "find") /\ proc[p].kind = "show"
    /\ \/ /\ status.state = "mounted"
          /\ RunMainApp(p, v, status.mount) /\ UNCHANGED drives
       \/ /\ status.state \in {"unlocked_not_mounted", "present_not_mounted"}
          /\ \E m \in Mountpoint : Mount(v, m) /\ RunMainApp(p, v, m)
       \/ Exit(p) /\ UNCHANGED <<drives, sock>>
    /\ UNCHANGED <<login, rest>>

\* _run_login: with a handle to the manager, without to the end.
LoginDone(p) ==
  /\ At(p, "signing") /\ login.page = "closed"
  /\ IF login.result THEN RunMainApp(p, proc[p].vault, proc[p].mount)
                     ELSE Exit(p) /\ UNCHANGED sock
  /\ login' = NoLogin
  /\ UNCHANGED <<drives, rest>>

\* _run_setup: closed, or a vault was registered: opened, or found on the drive.
SetupDone(p) ==
  /\ At(p, "setup")
  /\ \/ Exit(p) /\ UNCHANGED <<vaults, login, sock>>
     \/ \E v \in {w \in Vault : Mounted(w)} :
          /\ vaults' = vaults \cup {v}
          /\ \/ RunMainApp(p, v, usb[v]) /\ UNCHANGED login
             \/ RunLogin(p, v, usb[v]) /\ UNCHANGED sock
  /\ UNCHANGED <<drives, agent, surplus>>

\* _check_usb_still_present, in the tick.
UsbGone(p) ==
  ShouldLockForUsbRemoval(EvaluateUsbStatus(proc[p].vault), proc[p].mount, RemovalAction)

\* The session is locked: by the tick, by the command lock, which finds the
\* manager through the socket, or from inside.
LockManager(p) ==
  /\ At(p, "serve")
  /\ UsbGone(p) \/ sock = p
  /\ Goto(p, "stop")
  /\ UNCHANGED <<drives, login, sock, rest>>

\* _teardown_after_lock: ControlServer.stop comes before the end of app.run,
\* which gives the name back.
StopControlServer(p) ==
  /\ At(p, "stop")
  /\ Goto(p, "quit")
  /\ sock' = None
  /\ UNCHANGED <<drives, login, rest>>

Quit(p) ==
  /\ At(p, "quit")
  /\ Exit(p)
  /\ UNCHANGED <<drives, login, sock, rest>>

\* The window is closed, or the process killed: nothing is torn down.
Kill(p) ==
  /\ ~At(p, "off")
  /\ Exit(p)
  /\ sock' = IF sock = p THEN "dead" ELSE sock
  /\ login' = IF At(p, "signing") THEN NoLogin ELSE login
  /\ UNCHANGED <<drives, vaults, agent, surplus>>

-----------------------------------------------------------------------------

Agent ==
  \/ StartAgent \/ DevicesChanged \/ PollFails
  \/ \E v \in Vault : HandleBlocks(v) \/ SpawnSignIn(v)

Process(p) ==
  \/ Start(p) \/ Ping(p) \/ Show(p) \/ LoginDone(p) \/ SetupDone(p)
  \/ \E v \in Vault : FindConnectedVault(p, v)
  \/ LockManager(p) \/ StopControlServer(p) \/ Quit(p) \/ Kill(p)

Next ==
  \/ Agent
  \/ \E p \in Proc : Process(p)
  \/ LoginStep /\ UNCHANGED <<drives, vaults, agent, proc, sock, surplus>>
  \/ Desktop /\ UNCHANGED <<login, vaults, agent, proc, sock, surplus>>

Spec == Init /\ [][Next]_vars

-----------------------------------------------------------------------------
(* Properties.                                                             *)

\* "Do not open multiple popups for the same USB insertion event": the agent
\* starts a sign-in for a vault only if its drive was mounted since the last.
OneSignInPerPlug == ~surplus

\* Whatever crashed before and whoever starts next, the control socket leads to
\* the manager that runs: lock and focus reach it, and no second one opens.
RunningIsReachable == \A p \in Proc : At(p, "serve") => sock = p

\* The two views agree, for an encrypted drive and a plain one: where UDisks2 tells
\* sign-in that a vault is mounted, the device tree lets its manager live, and at
\* every other place, where the drive was mounted before, its next tick locks it.
UsbAgreement ==
  \A v \in Vault, m \in Mountpoint \cup {"elsewhere"} :
    ~ShouldLockForUsbRemoval(EvaluateUsbStatus(v), m, "lock_immediately")
      <=> \E b \in Target(v) : b.mount = m
=============================================================================
