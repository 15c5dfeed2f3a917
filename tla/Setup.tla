------------------------------- MODULE Setup -------------------------------
(***************************************************************************)
(* The first-run wizard: SetupWindow's pages, SetupFlow's states, the      *)
(* worker thread that commits the vault (module Provisioning), and         *)
(* sign-in, which starts the wizard as long as no vault is registered.     *)
(*                                                                         *)
(* A NavigationView keeps a stack of pages: Back leaves one, but SetupFlow *)
(* has no way back.  A handler that asks it for a step it does not allow   *)
(* raises, after the assignments above that line.  The window can be       *)
(* closed, and the process can end, at any moment.                         *)
(***************************************************************************)
EXTENDS Provisioning, Sequences, SequencesExt

CONSTANT Ash   \* DEFAULT_CONTAINER_DIRNAME

ASSUME AshAssumption == Ash \in Container

VARIABLES
  pages,     \* the window's stack of pages; empty when it is closed
  flow,      \* SetupFlow.state
  password,  \* _master_password is set
  vaults,    \* vaults.json of this computer
  result,    \* result_record, or discovered_existing_vault
  settings   \* what the wizard saved of config.json

wizardVars == <<pages, flow, password, vaults, result, settings>>
vars == <<provisionVars, wizardVars>>

Page == {"usb", "preparing", "found", "choice", "password", "localkey",
         "commit", "error", "hotkey", "binding", "explain", "removal"}
FlowState ==
  {"first_run", "usb_selection", "adopt_or_create", "password_creation",
   "local_key_optional", "vault_creation", "device_registration",
   "hotkey_setup", "usb_removal_configuration", "setup_complete"}

TypeOK ==
  /\ ProvisionTypeOK
  /\ pages \in Seq(Page) /\ Len(pages) <= 7
  /\ flow \in FlowState
  /\ password \in BOOLEAN
  /\ vaults \in SUBSET VaultId
  /\ result \in VaultId \cup {Nothing}
  /\ settings \in SUBSET {"hotkey", "removal"}

Init ==
  /\ ProvisionInit
  /\ pages = <<"usb">>
  /\ flow = "first_run"
  /\ password = FALSE
  /\ vaults = {}
  /\ result = Nothing
  /\ settings = {}

On(page) == pages # <<>> /\ Last(pages) = page
Push(page) == pages' = Append(pages, page)
Replace(page) == pages' = Append(Front(pages), page)

Transition ==
  {<<"first_run", "usb_selection">>,
   <<"usb_selection", "adopt_or_create">>,
   <<"usb_selection", "password_creation">>,
   <<"adopt_or_create", "password_creation">>,
   <<"password_creation", "local_key_optional">>,
   <<"local_key_optional", "vault_creation">>,
   <<"vault_creation", "device_registration">>,
   <<"device_registration", "hotkey_setup">>,
   <<"hotkey_setup", "usb_removal_configuration">>,
   <<"usb_removal_configuration", "setup_complete">>}

\* advance_to, then the next page; an InvalidTransitionError ends the handler.
Advance(state, page) ==
  IF <<flow, state>> \in Transition THEN flow' = state /\ Push(page)
                                    ELSE UNCHANGED <<flow, pages>>

files == <<usb, userKey, given, home, attempt, pc, faults, before>>

-----------------------------------------------------------------------------
(* Choosing the USB.                                                       *)

Continue ==
  /\ On("usb")
  /\ Advance("usb_selection", "preparing")
  /\ UNCHANGED <<provisionVars, password, vaults, result, settings>>

\* detect_container_kind.
Kind(c) == IF usb[c].db = Nothing THEN "empty"
           ELSE IF usb[c].json # Nothing THEN "ash" ELSE "foreign"

\* discover_container: ASH first, then the other directories, hidden ones too, in
\* the order of their names, which are not told apart here.
Discovered(c) ==
  \/ Kind(Ash) # "empty" /\ c = Ash
  \/ Kind(Ash) = "empty" /\ Kind(c) # "empty"
  \/ c = Ash /\ \A d \in Directory : Kind(d) = "empty"

Prepared ==
  /\ On("preparing")
  /\ \E c \in Directory :
       /\ Discovered(c)
       /\ draft' = [draft EXCEPT !.at = c,
                                 !.adopt = IF Kind(c) = "empty" THEN FALSE ELSE @]
       /\ \/ /\ Kind(c) = "ash"
             /\ Replace("found") /\ UNCHANGED flow
          \/ /\ Kind(c) = "foreign"
             /\ Replace("choice") /\ flow' = "adopt_or_create"
          \/ /\ Kind(c) = "empty"
             /\ Replace("password") /\ flow' = "password_creation"
  /\ UNCHANGED <<files, password, vaults, result, settings>>

\* _prepare_usb_work failed; the message says to try again.
PrepareFails ==
  /\ On("preparing")
  /\ pages' = Front(pages)
  /\ UNCHANGED <<provisionVars, flow, password, vaults, result, settings>>

\* "Continue to Login": nothing on the USB is checked here.
RegisterFound ==
  /\ On("found")
  /\ vaults' = vaults \cup {here.json}
  /\ result' = here.json
  /\ pages' = <<>>
  /\ UNCHANGED <<provisionVars, flow, password, settings>>

-----------------------------------------------------------------------------
(* What to create, and the new password.                                   *)

Adopt(right, key) ==
  /\ On("choice")
  /\ draft' = [draft EXCEPT !.adopt = TRUE, !.right = right, !.key = key]
  /\ Advance("password_creation", "password")
  /\ UNCHANGED <<files, password, vaults, result, settings>>

CreateInstead ==
  /\ On("choice")
  /\ draft' = [draft EXCEPT !.adopt = FALSE, !.at = Ash]
  /\ Advance("password_creation", "password")
  /\ UNCHANGED <<files, password, vaults, result, settings>>

PasswordContinue ==
  /\ On("password")
  /\ password' = TRUE
  /\ Advance("local_key_optional", "localkey")
  /\ UNCHANGED <<provisionVars, vaults, result, settings>>

-----------------------------------------------------------------------------
(* Committing: the window's side, and what the worker does after           *)
(* Provisioning.                                                           *)

\* Skip or Generate Key; a second click finds another state and is ignored.
Choose(enroll) ==
  /\ On("localkey")
  /\ draft' = [draft EXCEPT !.enroll = enroll]
  /\ IF flow = "local_key_optional"
       THEN /\ Begin
            /\ flow' = "device_registration"
            /\ Push("commit")
       ELSE UNCHANGED <<attempt, pc, before, flow, pages>>
  /\ UNCHANGED <<usb, userKey, given, home, faults, password, vaults, result, settings>>

\* The new vault is opened with the password just chosen, which is wiped.
Unlock ==
  /\ pc = "provisioned"
  /\ here.slot = attempt
  /\ password' = FALSE
  /\ Goto("reopen")
  /\ UNCHANGED <<usb, home, faults, unmoved, pages, flow, vaults, result, settings>>

Reopen ==
  /\ pc = "reopen"
  /\ Opens(draft.at)
  /\ Goto("register")
  /\ UNCHANGED <<usb, home, faults, unmoved, wizardVars>>

\* Mutant: the vault is not added to vaults.json.
MRegister ==
  /\ pc = "register"
  /\ Goto("done")
  /\ UNCHANGED <<usb, home, faults, unmoved, wizardVars>>

\* add_vault.
Register ==
  /\ pc = "register"
  /\ vaults' = vaults \cup {attempt}
  /\ Goto("done")
  /\ UNCHANGED <<usb, home, faults, unmoved, pages, flow, password, result, settings>>

\* None of the three is rolled back, and an error of the first does not wipe the
\* password.
FailTail ==
  /\ Fault
  /\ pc \in {"provisioned", "reopen", "register"}
  /\ Goto("raised")
  /\ UNCHANGED <<usb, home, unmoved, wizardVars>>

CommitDone ==
  /\ On("commit") /\ pc = "done"
  /\ Replace("hotkey")
  /\ flow' = "hotkey_setup"
  /\ result' = attempt
  /\ Goto("none")
  /\ UNCHANGED <<usb, home, faults, unmoved, password, vaults, settings>>

\* Mutant: no on_error, so that only a ProvisioningError is reported.
MCommitFailed ==
  /\ On("commit") /\ pc = "raised" /\ password
  /\ Replace("error")
  /\ flow' = "local_key_optional"
  /\ Goto("none")
  /\ UNCHANGED <<usb, home, faults, unmoved, password, vaults, result, settings>>

CommitFailed ==
  /\ On("commit") /\ pc = "raised"
  /\ Replace("error")
  /\ flow' = "local_key_optional"
  /\ Goto("none")
  /\ UNCHANGED <<usb, home, faults, unmoved, password, vaults, result, settings>>

-----------------------------------------------------------------------------
(* The rest of the wizard: settings of this computer.                      *)

HotkeyContinue ==
  /\ On("hotkey")
  /\ Push("binding")
  /\ UNCHANGED <<provisionVars, flow, password, vaults, result, settings>>

\* Mutant: the progress page is not popped.
MHotkeyApplied ==
  /\ On("binding")
  /\ settings' = settings \cup {"hotkey"}
  /\ flow' = "usb_removal_configuration"
  /\ Push("explain")
  /\ UNCHANGED <<provisionVars, password, vaults, result>>

\* Saved whether or not a backend could bind it.
HotkeyApplied ==
  /\ On("binding")
  /\ settings' = settings \cup {"hotkey"}
  /\ IF flow = "hotkey_setup"
       THEN flow' = "usb_removal_configuration" /\ Replace("explain")
       ELSE UNCHANGED flow /\ pages' = Front(pages)
  /\ UNCHANGED <<provisionVars, password, vaults, result>>

ExplainContinue ==
  /\ On("explain")
  /\ Push("removal")
  /\ UNCHANGED <<provisionVars, flow, password, vaults, result, settings>>

Finish ==
  /\ On("removal")
  /\ settings' = settings \cup {"removal"}
  /\ flow' = "setup_complete"
  /\ pages' = <<>>
  /\ UNCHANGED <<provisionVars, password, vaults, result>>

\* The progress pages cannot be left.
Back ==
  /\ Len(pages) > 1
  /\ Last(pages) \notin {"preparing", "commit", "binding"}
  /\ pages' = Front(pages)
  /\ UNCHANGED <<provisionVars, flow, password, vaults, result, settings>>

-----------------------------------------------------------------------------
(* Ends and beginnings.                                                    *)

\* The worker may still take steps, but nothing waits for its result.
Close ==
  /\ pages # <<>>
  /\ pages' = <<>>
  /\ UNCHANGED <<provisionVars, flow, password, vaults, result, settings>>

\* The process ends, after Close or without it, and its worker with it.
Quit ==
  /\ pages' = <<>>
  /\ Stop
  /\ result' = Nothing
  /\ UNCHANGED <<usb, home, faults, unmoved, flow, password, vaults, settings>>

\* run_sign_in_or_login: a vault in vaults.json goes to Login instead.
SignIn ==
  /\ pages = <<>> /\ pc = "none" /\ result = Nothing
  /\ vaults = {}
  /\ pages' = <<"usb">>
  /\ flow' = "first_run"
  /\ password' = FALSE
  /\ draft' = [draft EXCEPT !.adopt = FALSE, !.at = Ash, !.enroll = TRUE]
  /\ UNCHANGED <<files, vaults, result, settings>>

Wizard ==
  \/ Continue \/ Prepared \/ PrepareFails \/ RegisterFound
  \/ \E right \in BOOLEAN, key \in KeyPlace : Adopt(right, key)
  \/ CreateInstead \/ PasswordContinue
  \/ \E enroll \in BOOLEAN : Choose(enroll)
  \/ HotkeyContinue \/ HotkeyApplied \/ ExplainContinue \/ Finish
  \/ Back \/ Close \/ Quit \/ SignIn

Commit ==
  \/ (Provision /\ UNCHANGED wizardVars)
  \/ Unlock \/ Reopen \/ Register \/ CommitDone \/ CommitFailed

Next ==
  \/ Wizard
  \/ Commit
  \/ (ProvisionFault /\ UNCHANGED wizardVars)
  \/ FailTail

Spec == Init /\ [][Next]_vars /\ WF_vars(Commit)

-----------------------------------------------------------------------------
(* Properties.                                                             *)

\* Database d of container c can be opened with what the user has: the
\* credentials of before, or the password of the vault around it.
Reachable(c, d) ==
  /\ d \in Database
  /\ d.entries
  /\ \/ d.secret = User /\ (d.key = Nothing \/ userKey = "elsewhere" \/ usb[c].key = User)
     \/ d.secret # User /\ d.secret = usb[c].slot /\ d.key = usb[c].key

\* The passwords that were on the USB stay within reach whatever fails, at
\* whatever moment: in the database, or in the copy adoption made of it.
EntriesSurvive ==
  given # Nothing =>
    Reachable(given, usb[given].db) \/ Reachable(given, usb[given].backup)

\* create_new_vault puts a vault under its name whole or not at all: wherever it
\* stops or fails, a container that was not in use and has an attempt's vault.json
\* opens with the password.  The hidden directory of a stopped creation is no
\* such container: see NoPartialAccount.
NamedVaultsOpen ==
  \A c \in Container :
    (usb[c].json \in Attempt /\ c # given) => Opens(c)

\* An adoption that said it was rolled back changed nothing but the copy.
UndoneIsUntouched ==
  (pc = "undo_home" /\ draft.adopt) => usb[draft.at] = [before EXCEPT !.backup = here.backup]

\* From the commit on, closing the wizard early leaves a registered vault that
\* the password opens.
CommittedIsUsable ==
  flow \in {"hotkey_setup", "usb_removal_configuration", "setup_complete"} =>
    /\ attempt \in vaults
    /\ \E c \in Container : usb[c].json = attempt /\ Opens(c)

\* Setup does "not create a partially initialized account silently": what it
\* hands to the manager or to Login can be opened.  The code does not keep this
\* where an adoption stopped, nor where a creation did, which is said to be "one
\* all-or-nothing operation".
Partial(c) == result # Nothing /\ usb[c].json = result /\ ~Opens(c)

NoPartialAccount == \A c \in Directory : ~Partial(c)

\* The progress page of the commit is left in the end, whatever the worker
\* meets: a dead end there can only be closed.
CommitEnds == On("commit") ~> ~On("commit")
=============================================================================
