------------------------------ MODULE Strategy ------------------------------
(***************************************************************************)
(* The Auto-Type strategies: lists of steps, how the editor changes them,  *)
(* which of them it lets the user save, and the presets.                   *)
(*                                                                         *)
(* A step says what to do, never what is typed.  Of the actions, those that *)
(* need the account to have something are told apart: the TOTP code, which *)
(* it may lose, and the rest (password).                                   *)
(***************************************************************************)
EXTENDS Naturals, SequencesExt

CONSTANT MaxSteps  \* bound: steps of a strategy

ASSUME StrategyAssumption == MaxSteps \in Nat \ {0, 1}

VARIABLE strategy  \* the strategy editor

\* A step that types nothing may have a value: WAIT a number in a range, KEY_COMBO a
\* text of a form.  Unreadable: the text of another action, left in a WAIT.  The
\* value of a disabled step is checked, too, so disabling such a step tells nothing.
AuthStep ==
  {step \in [action : {"password", "totp", "other"},
             value : {"valid", "invalid", "unreadable"}, enabled : BOOLEAN] :
     IF step.action = "other" THEN step.enabled ELSE step.value = "valid"}

Steps == BoundedSeq(AuthStep, MaxSteps)
Step(action) == [action |-> action, value |-> "valid", enabled |-> TRUE]

\* DEFAULT_STRATEGY (and MULTI_PAGE_STRATEGY), PASSWORD_ONLY_STRATEGY.
DefaultSteps == <<Step("password"), Step("totp")>>
Builtin == {DefaultSteps, <<Step("password")>>}

StrategyTypeOK ==
  /\ strategy.open \in BOOLEAN /\ strategy.steps \in Steps
  /\ strategy.totp \in BOOLEAN /\ strategy.savable \in BOOLEAN

-----------------------------------------------------------------------------
(* Editing; an index that is out of range changes nothing.                 *)

\* A new step is a Tab; the bound holds here, the program has none.
AddStep(steps) == IF Len(steps) < MaxSteps THEN Append(steps, Step("other")) ELSE steps

RemoveStep(steps, i) == IF i \in DOMAIN steps THEN RemoveAt(steps, i) ELSE steps

DuplicateStep(steps, i) ==
  IF i \in DOMAIN steps /\ Len(steps) < MaxSteps
    THEN InsertAt(steps, i + 1, steps[i]) ELSE steps

MoveStep(steps, i, target) ==
  IF i \in DOMAIN steps /\ target \in DOMAIN steps
    THEN [steps EXCEPT ![i] = steps[target], ![target] = steps[i]] ELSE steps

\* Another action keeps the value, and whether the step is enabled.
UpdateStep(steps, i) ==
  {ReplaceAt(steps, i, step) :
     step \in {new \in AuthStep : "other" \in {new.action, steps[i].action}
                                   \/ new.enabled = steps[i].enabled}}

ToggleEnabled(steps, i) ==
  IF steps[i].action = "other" THEN steps ELSE [steps EXCEPT ![i].enabled = ~@]

\* No problem is found.
ValidateStrategy(steps, hasTotp) ==
  /\ \E i \in DOMAIN steps : steps[i].enabled /\ steps[i].action # "other"
  /\ \A i \in DOMAIN steps :
       /\ steps[i].value = "valid"
       /\ steps[i].action = "totp" /\ steps[i].enabled => hasTotp

-----------------------------------------------------------------------------
(* The dialog.                                                             *)

NoStrategy == [open |-> FALSE, steps |-> <<>>, totp |-> FALSE, savable |-> FALSE]

\* The row of a WAIT calls int() on its value.
Rendered(steps) == \A i \in DOMAIN steps : steps[i].value # "unreadable"

\* _render: the Save button goes with the steps, unless a row raises before it is set.
Render(steps) ==
  strategy' = [strategy EXCEPT !.steps = steps,
                               !.savable = IF Rendered(steps)
                                             THEN ValidateStrategy(steps, strategy.totp) ELSE @]

\* What is stored, or the default; other strategies are reached by editing, and one
\* with an unreadable step does not open.
OpenStrategy(hasTotp) ==
  /\ ~strategy.open
  /\ \E steps \in Builtin :
       strategy' = [open |-> TRUE, steps |-> steps, totp |-> hasTotp,
                    savable |-> ValidateStrategy(steps, hasTotp)]

EditSteps ==
  LET steps == strategy.steps IN
  /\ strategy.open
  /\ \/ Render(AddStep(steps))
     \/ \E i \in DOMAIN steps :
          \/ Render(RemoveStep(steps, i))
          \/ Render(DuplicateStep(steps, i))
          \/ Render(ToggleEnabled(steps, i))
          \/ \E new \in UpdateStep(steps, i) : Render(new)
          \/ \E target \in {i - 1, i + 1} : Render(MoveStep(steps, i, target))

\* A built-in preset; those of the user's file are reached by editing.  "Custom",
\* or one that is gone from the file, changes nothing.
OnPresetSelected ==
  /\ strategy.open
  /\ \E steps \in Builtin : Render(steps)

\* The file of presets gets the steps, and the new one is selected: nothing changes
\* here, unless it was named like a built-in one, whose steps are then loaded.
OnSaveAsPreset ==
  /\ strategy.open
  /\ \E steps \in Builtin \cup {strategy.steps} : Render(steps)

CloseStrategy == strategy.open /\ strategy' = NoStrategy
=============================================================================
