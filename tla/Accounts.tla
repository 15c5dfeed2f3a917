------------------------------ MODULE Accounts ------------------------------
(***************************************************************************)
(* The accounts of an open vault, the windows that list them (the manager  *)
(* and the picker), and the dialogs that show and change them.             *)
(*                                                                         *)
(* All of it is on the main thread, and a dialog takes all input of what   *)
(* is below it but for the window's Ctrl+N, which puts the editor of a new *)
(* account over any of them (over one of the two editors: not modelled).   *)
(* What is hard is what they remember: each reads the vault when it opens  *)
(* or is refreshed, and changes the database in memory before it saves.  A *)
(* save that fails (VaultFile) takes nothing back, and most callers do not *)
(* catch it: their handler just ends there.                                *)
(***************************************************************************)
EXTENDS Strategy, FiniteSets

CONSTANTS
  Entry,  \* UUIDs of accounts
  None

VARIABLES
  tree,    \* the accounts in memory
  list,    \* what the window has read, and the row that Enter activates
  detail,  \* the dialog of an account
  editor   \* the entry editor, for an account or a new one

vars == <<strategy, tree, list, detail, editor>>

\* Recovery codes: an old list of two, a new one of one, or none, with the
\* positions of those that are marked as used.
Position(name) == CASE name = "none" -> {} [] name = "old" -> {1, 2} [] name = "new" -> {1}
Codes == {codes \in [name : {"none", "old", "new"}, used : SUBSET {1, 2}] :
            codes.used \subseteq Position(codes.name)}
Unused(name) == [name |-> name, used |-> {}]

Account == [totp : BOOLEAN, codes : Codes]

ASSUME AccountsAssumption == None \notin Entry \cup Account

Listed == {e \in Entry : tree[e] # None}

\* totp, recovery: has_totp and has_recovery when it opened; shown: the codes its
\* rows were made for.  failed, here and in list: a save failed since (history).
NoDetail == [entry |-> None, totp |-> FALSE, recovery |-> FALSE, gate |-> "hidden",
             shown |-> Unused("none"), failed |-> FALSE]

\* closes: on_saved closes the dialog below; totp, codes: _totp_config and
\* _recovery_codes; made: entries created (history).
NoEditor == [open |-> FALSE, closes |-> FALSE, entry |-> None, totp |-> FALSE,
             codes |-> Unused("none"), made |-> 0]

TypeOK ==
  /\ StrategyTypeOK
  /\ tree \in [Entry -> Account \cup {None}]
  /\ list.all \subseteq Entry /\ list.selected \in Entry \cup {None} /\ list.failed \in BOOLEAN
  /\ detail.entry \in Entry \cup {None} /\ detail.totp \in BOOLEAN /\ detail.recovery \in BOOLEAN
  /\ detail.gate \in {"hidden", "asked", "late", "shown"} /\ detail.shown \in Codes
  /\ detail.failed \in BOOLEAN
  /\ editor.open \in BOOLEAN /\ editor.closes \in BOOLEAN /\ editor.entry \in Entry \cup {None}
  /\ editor.totp \in BOOLEAN /\ editor.codes \in Codes /\ editor.made \in Nat

\* A vault has accounts with and without codes and TOTP.
Init ==
  /\ \E first \in Entry, account \in Account :
       tree = [e \in Entry |-> IF e = first THEN account ELSE None]
  /\ list = [all |-> Listed, selected |-> None, failed |-> FALSE]
  /\ detail = NoDetail /\ editor = NoEditor /\ strategy = NoStrategy

-----------------------------------------------------------------------------
(* The window.                                                             *)

OnWindow == detail = NoDetail /\ ~editor.open
OnDetail == detail # NoDetail /\ ~editor.open /\ ~strategy.open

\* refresh_accounts: list_account_summaries, then the list is filled again.
Refresh == list' = [all |-> {e \in Entry : tree'[e] # None}, selected |-> None, failed |-> FALSE]

\* A save that fails leaves everything as the lines before it made it.
Fail == /\ list' = [list EXCEPT !.failed = TRUE]
        /\ detail' = IF detail = NoDetail THEN detail ELSE [detail EXCEPT !.failed = TRUE]

\* Search, the categories, the suggestions and the arrow keys: one of the rows
\* is highlighted, or none.
Select ==
  /\ OnWindow
  /\ \E e \in list.all \cup {None} : list' = [list EXCEPT !.selected = e]
  /\ UNCHANGED <<strategy, tree, detail, editor>>

\* _on_add_totp of a row, in the picker: the set-up dialog may be confirmed again.
QuickTotp(e) ==
  /\ OnWindow /\ e \in list.all /\ tree[e] # None
  /\ ~tree[e].totp \/ list.failed
  /\ tree' = [tree EXCEPT ![e].totp = TRUE]
  /\ \/ Refresh /\ UNCHANGED detail
     \/ Fail
  /\ UNCHANGED <<strategy, editor>>

\* The details button or a right click; an account that is gone raises.
OpenDetail(e) ==
  /\ OnWindow /\ e \in list.all /\ tree[e] # None
  /\ detail' = [NoDetail EXCEPT !.entry = e, !.totp = tree[e].totp,
                                !.recovery = tree[e].codes.name # "none"]
  /\ UNCHANGED <<strategy, tree, list, editor>>

\* The buttons of the window, or Ctrl+N, also over the dialog of an account.
OpenNew ==
  /\ OnWindow \/ OnDetail
  /\ editor' = [NoEditor EXCEPT !.open = TRUE]
  /\ UNCHANGED <<strategy, tree, list, detail>>

-----------------------------------------------------------------------------
(* The dialog of an account.                                               *)

Exists == tree[detail.entry] # None
Show(change) == detail' = change /\ UNCHANGED <<strategy, tree, list, editor>>

\* RevealGate: two clicks, the second within 10 s of the first.
Request == OnDetail /\ detail.recovery /\ detail.gate = "hidden"
           /\ Show([detail EXCEPT !.gate = "asked"])
Expire == OnDetail /\ detail.gate = "asked" /\ Show([detail EXCEPT !.gate = "late"])

\* _on_reveal_recovery_step2 and _render_recovery_codes, which reads them again.
Confirm ==
  /\ OnDetail
  /\ \/ detail.gate = "late" /\ Show([detail EXCEPT !.gate = "hidden"])
     \/ /\ detail.gate = "asked" /\ Exists
        /\ Show([detail EXCEPT !.gate = "shown", !.shown = tree[detail.entry].codes])

\* Mutant: the index is not compared with the codes.
MFlip(codes, i) ==
  [codes EXCEPT !.used = IF i \in @ THEN @ \ {i} ELSE @ \cup {i}]

\* An index out of range marks nothing.
Flip(codes, i) ==
  IF i \notin Position(codes.name) THEN codes
  ELSE [codes EXCEPT !.used = IF i \in @ THEN @ \ {i} ELSE @ \cup {i}]

\* _make_toggle_handler: by the position of the row, in the codes as they are now.
ToggleCode(i) ==
  LET codes == Flip(tree[detail.entry].codes, i) IN
  /\ OnDetail /\ Exists /\ i \in Position(detail.shown.name)
  /\ tree' = [tree EXCEPT ![detail.entry].codes = codes]
  /\ \/ detail' = [detail EXCEPT !.shown = codes] /\ UNCHANGED list
     \/ Fail
  /\ UNCHANGED <<strategy, editor>>

\* The end of _on_remove_totp and _on_delete: refreshed and closed, if it saved.
SaveAndClose == (Refresh /\ detail' = NoDetail) \/ Fail

RemoveTotp ==
  /\ OnDetail /\ detail.totp /\ Exists
  /\ tree' = [tree EXCEPT ![detail.entry].totp = FALSE]
  /\ SaveAndClose
  /\ UNCHANGED <<strategy, editor>>

\* Confirmed in a dialog of its own.
DeleteAccount ==
  /\ OnDetail /\ Exists
  /\ tree' = [tree EXCEPT ![detail.entry] = None]
  /\ SaveAndClose
  /\ UNCHANGED <<strategy, editor>>

CloseDetail == OnDetail /\ Show(NoDetail)

\* _load_existing.
OpenEditor ==
  LET account == tree[detail.entry] IN
  /\ OnDetail /\ Exists
  /\ editor' = [NoEditor EXCEPT !.open = TRUE, !.closes = TRUE, !.entry = detail.entry,
                                !.totp = account.totp, !.codes = account.codes]
  /\ UNCHANGED <<strategy, tree, list, detail>>

-----------------------------------------------------------------------------
(* The entry editor.                                                       *)

Edit(change) == editor.open /\ editor' = change /\ UNCHANGED <<strategy, tree, list, detail>>

\* The set-up dialogs for TOTP and for recovery codes.
AddTotp == Edit([editor EXCEPT !.totp = TRUE])
AddRecoveryCodes == Edit([editor EXCEPT !.codes = Unused("new")])

\* What is configured is written; what is not stays as it is.
Written(account) ==
  [totp |-> account.totp \/ editor.totp,
   codes |-> IF editor.codes.name = "none" THEN account.codes ELSE editor.codes]

Target(e) == IF editor.entry = None THEN tree[e] = None ELSE e = editor.entry /\ tree[e] # None

Blank == [totp |-> FALSE, codes |-> Unused("none")]

\* Mutant: the dialog below, which read the account before, stays open.
MSaveEntry(e) ==
  /\ editor.open /\ Target(e)
  /\ tree' = [tree EXCEPT ![e] = Written(IF @ = None THEN Blank ELSE @)]
  /\ \/ Refresh /\ editor' = NoEditor /\ UNCHANGED detail
     \/ Fail /\ editor' = [editor EXCEPT !.entry = e, !.made = @ + (IF editor.entry = None THEN 1 ELSE 0)]
  /\ UNCHANGED strategy

\* _on_save: the UUID of a new account is kept for a retry.  on_saved refreshes
\* the window; the one of the dialog also closes it.
SaveEntry(e) ==
  /\ editor.open /\ Target(e)
  /\ tree' = [tree EXCEPT ![e] = Written(IF @ = None THEN Blank ELSE @)]
  /\ \/ Refresh /\ editor' = NoEditor /\ detail' = IF editor.closes THEN NoDetail ELSE detail
     \/ Fail /\ editor' = [editor EXCEPT !.entry = e, !.made = @ + (IF editor.entry = None THEN 1 ELSE 0)]
  /\ UNCHANGED strategy

CancelEditor == Edit(NoEditor)

-----------------------------------------------------------------------------
(* The strategy editor, over the dialog of an account.                     *)

EditStrategy ==
  /\ detail # NoDetail
  /\ \/ OnDetail /\ Exists /\ OpenStrategy(detail.totp)
     \/ EditSteps \/ OnPresetSelected \/ OnSaveAsPreset \/ CloseStrategy
  /\ UNCHANGED <<tree, list, detail, editor>>

\* _on_save; nothing is refreshed.
SaveStrategy ==
  /\ strategy.open /\ strategy.savable /\ Exists
  /\ \/ CloseStrategy /\ UNCHANGED <<list, detail>>
     \/ Fail /\ UNCHANGED strategy
  /\ UNCHANGED <<tree, editor>>

Next ==
  \/ Select \/ OpenNew
  \/ \E e \in Entry : QuickTotp(e) \/ OpenDetail(e) \/ SaveEntry(e)
  \/ Request \/ Expire \/ Confirm
  \/ \E i \in {1, 2} : ToggleCode(i)
  \/ RemoveTotp \/ DeleteAccount \/ CloseDetail \/ OpenEditor
  \/ AddTotp \/ AddRecoveryCodes \/ CancelEditor
  \/ EditStrategy \/ SaveStrategy

Spec == Init /\ [][Next]_vars

-----------------------------------------------------------------------------

\* Unless a save failed since it was read, what is on the screen is what the
\* database holds: the accounts that can be chosen, the code that a toggle
\* stands beside, and the TOTP that a strategy is validated against.  And one
\* editor makes one account, however often its save is tried.
ScreenIsCurrent ==
  /\ ~list.failed => list.all = Listed
  /\ detail # NoDetail /\ ~detail.failed =>
       /\ Exists
       /\ detail.totp = tree[detail.entry].totp
       /\ detail.gate = "shown" => detail.shown = tree[detail.entry].codes
       /\ strategy.open /\ Rendered(strategy.steps) =>
            (strategy.savable <=> ValidateStrategy(strategy.steps, tree[detail.entry].totp))
  /\ editor.made <= 1
=============================================================================
