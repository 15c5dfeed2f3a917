--------------------------- MODULE AccountsProofs ---------------------------
(***************************************************************************)
(* Theorems about Accounts, with Strategy in it, for any number of         *)
(* accounts and any length of a strategy.                                  *)
(***************************************************************************)
EXTENDS Accounts, SequenceTheorems, TLAPS

StrategyType == [open : BOOLEAN, steps : Steps, totp : BOOLEAN, savable : BOOLEAN]

ListType == [all : SUBSET Entry, selected : Entry \cup {None}, failed : BOOLEAN]

DetailType ==
  [entry : Entry \cup {None}, totp : BOOLEAN, recovery : BOOLEAN,
   gate : {"hidden", "asked", "late", "shown"}, shown : Codes, failed : BOOLEAN]

EditorType ==
  [open : BOOLEAN, closes : BOOLEAN, entry : Entry \cup {None}, totp : BOOLEAN,
   codes : Codes, made : Nat]

\* TypeOK with whole records.
Types ==
  /\ strategy \in StrategyType
  /\ tree \in [Entry -> Account \cup {None}]
  /\ list \in ListType
  /\ detail \in DetailType
  /\ editor \in EditorType

\* A dialog is of an account, and the strategy editor is over such a dialog,
\* with what that one knows of the account.
Stacked ==
  /\ detail # NoDetail => detail.entry \in Entry
  /\ strategy.open => detail # NoDetail /\ ~editor.open /\ strategy.totp = detail.totp

ListCurrent == ~list.failed => list.all = Listed

DetailCurrent ==
  detail # NoDetail /\ ~detail.failed =>
    /\ Exists
    /\ detail.totp = tree[detail.entry].totp
    /\ detail.gate = "shown" => detail.shown = tree[detail.entry].codes

\* The Save button goes with the steps whenever all rows could be made.
Validated ==
  strategy.open /\ Rendered(strategy.steps) =>
    (strategy.savable <=> ValidateStrategy(strategy.steps, strategy.totp))

\* A new account is made once: then the editor has its UUID.
MadeOnce == editor.made <= IF editor.entry = None THEN 0 ELSE 1

\* The editor of a new account, over a dialog that it does not close, has no
\* account yet, unless its save failed.
NewIsNew ==
  editor.open /\ ~editor.closes /\ detail # NoDetail /\ ~detail.failed => editor.entry = None

Inv == Types /\ Stacked /\ ListCurrent /\ DetailCurrent /\ Validated /\ MadeOnce /\ NewIsNew

-----------------------------------------------------------------------------
(* Strategies: what editing one makes is one.                              *)

LEMMA StepsFacts ==
  ASSUME NEW s
  PROVE  s \in Steps <=> s \in Seq(AuthStep) /\ Len(s) <= MaxSteps
<1>1. s \in Steps <=> \E m \in 0..MaxSteps : s \in [1..m -> AuthStep]
  BY DEF Steps, BoundedSeq, SeqOf
<1>2. ASSUME NEW m \in 0..MaxSteps, s \in [1..m -> AuthStep]
      PROVE  s \in Seq(AuthStep) /\ Len(s) <= MaxSteps
  <2>1. m \in Nat /\ m <= MaxSteps
    BY StrategyAssumption
  <2>2. s \in Seq(AuthStep) /\ Len(s) = m
    BY <1>2, <2>1
  <2>3. QED
    BY <2>1, <2>2
<1>3. ASSUME s \in Seq(AuthStep), Len(s) <= MaxSteps
      PROVE  \E m \in 0..MaxSteps : s \in [1..m -> AuthStep]
  <2>1. PICK m \in Nat : m = Len(s)
    BY <1>3
  <2>2. m \in 0..MaxSteps /\ s \in [1..m -> AuthStep]
    BY <1>3, <2>1, StrategyAssumption
  <2>3. QED
    BY <2>2
<1>4. QED
  BY <1>1, <1>2, <1>3

LEMMA StepFacts ==
  /\ \A action \in {"password", "totp", "other"} : Step(action) \in AuthStep
  /\ \A step \in AuthStep : step.enabled \in BOOLEAN
BY DEF Step, AuthStep

LEMMA AddStepFacts == ASSUME NEW s \in Steps PROVE AddStep(s) \in Steps
<1>1. s \in Seq(AuthStep) /\ Len(s) <= MaxSteps /\ Step("other") \in AuthStep
  BY StepsFacts, StepFacts
<1>2. CASE Len(s) < MaxSteps
  <2>1. Append(s, Step("other")) \in Seq(AuthStep) /\ Len(Append(s, Step("other"))) = Len(s) + 1
    BY <1>1, AppendProperties
  <2>2. Len(s) + 1 <= MaxSteps
    <3>1. PICK n \in Nat : n = Len(s)
      BY <1>1
    <3>2. QED
      BY <1>2, <3>1, StrategyAssumption
  <2>3. Append(s, Step("other")) \in Steps
    BY <2>1, <2>2, StepsFacts
  <2>4. QED
    BY <1>2, <2>3 DEF AddStep
<1>3. CASE ~(Len(s) < MaxSteps)
  BY <1>3 DEF AddStep
<1>4. QED
  BY <1>2, <1>3

\* A part of a strategy, which may be empty.
LEMMA PartFacts ==
  ASSUME NEW s \in Steps, NEW m \in Int, NEW n \in Int, 1 <= m, n <= Len(s)
  PROVE  /\ SubSeq(s, m, n) \in Seq(AuthStep)
         /\ Len(SubSeq(s, m, n)) = IF m <= n THEN n - m + 1 ELSE 0
<1>1. s \in Seq(AuthStep)
  BY StepsFacts
<1>2. PICK l \in Nat : l = Len(s)
  BY <1>1
<1>3. \A i \in 1..l : s[i] \in AuthStep
  BY <1>1, <1>2
<1>4. \A i \in m..n : s[i] \in AuthStep
  BY <1>2, <1>3
<1>5. QED
  BY <1>4, SubSeqProperties

LEMMA RemoveStepFacts ==
  ASSUME NEW s \in Steps, NEW i \in DOMAIN s
  PROVE  RemoveStep(s, i) \in Steps
<1>1. s \in Seq(AuthStep) /\ Len(s) <= MaxSteps
  BY StepsFacts
<1>2. PICK l \in Nat : l = Len(s)
  BY <1>1
<1>3. i \in 1..l
  BY <1>1, <1>2
<1>4. /\ SubSeq(s, 1, i - 1) \in Seq(AuthStep) /\ Len(SubSeq(s, 1, i - 1)) = i - 1
  <2>1. i - 1 \in Int /\ 1 \in Int /\ i - 1 <= Len(s) /\ 1 <= 1
    BY <1>2, <1>3
  <2>2. /\ SubSeq(s, 1, i - 1) \in Seq(AuthStep)
        /\ Len(SubSeq(s, 1, i - 1)) = IF 1 <= i - 1 THEN (i - 1) - 1 + 1 ELSE 0
    BY <2>1, PartFacts
  <2>3. (IF 1 <= i - 1 THEN (i - 1) - 1 + 1 ELSE 0) = i - 1
    BY <1>3
  <2>4. QED
    BY <2>2, <2>3
<1>5. /\ SubSeq(s, i + 1, l) \in Seq(AuthStep) /\ Len(SubSeq(s, i + 1, l)) = l - i
  <2>1. i + 1 \in Int /\ l \in Int /\ l <= Len(s) /\ 1 <= i + 1
    BY <1>2, <1>3
  <2>2. /\ SubSeq(s, i + 1, l) \in Seq(AuthStep)
        /\ Len(SubSeq(s, i + 1, l)) = IF i + 1 <= l THEN l - (i + 1) + 1 ELSE 0
    BY <2>1, PartFacts
  <2>3. (IF i + 1 <= l THEN l - (i + 1) + 1 ELSE 0) = l - i
    BY <1>3
  <2>4. QED
    BY <2>2, <2>3
<1>6. /\ RemoveAt(s, i) \in Seq(AuthStep)
      /\ Len(RemoveAt(s, i)) = (i - 1) + (l - i)
  BY <1>2, <1>4, <1>5, ConcatProperties DEF RemoveAt
<1>7. (i - 1) + (l - i) <= MaxSteps
  BY <1>1, <1>2, <1>3, StrategyAssumption
<1>8. RemoveAt(s, i) \in Steps
  BY <1>6, <1>7, StepsFacts
<1>9. QED
  BY <1>8 DEF RemoveStep

LEMMA DuplicateStepFacts ==
  ASSUME NEW s \in Steps, NEW i \in DOMAIN s
  PROVE  DuplicateStep(s, i) \in Steps
<1>1. s \in Seq(AuthStep) /\ Len(s) <= MaxSteps
  BY StepsFacts
<1>2. PICK l \in Nat : l = Len(s)
  BY <1>1
<1>3. i \in 1..l /\ s[i] \in AuthStep
  BY <1>1, <1>2
<1>4. CASE l < MaxSteps
  <2>1. /\ SubSeq(s, 1, (i + 1) - 1) \in Seq(AuthStep) /\ Len(SubSeq(s, 1, (i + 1) - 1)) = i
    <3>1. (i + 1) - 1 = i /\ i \in Int /\ 1 \in Int /\ i <= Len(s) /\ 1 <= 1
      BY <1>2, <1>3
    <3>2. /\ SubSeq(s, 1, i) \in Seq(AuthStep)
          /\ Len(SubSeq(s, 1, i)) = IF 1 <= i THEN i - 1 + 1 ELSE 0
      BY <3>1, PartFacts
    <3>3. (IF 1 <= i THEN i - 1 + 1 ELSE 0) = i
      BY <1>3
    <3>4. QED
      BY <3>1, <3>2, <3>3
  <2>2. /\ SubSeq(s, i + 1, l) \in Seq(AuthStep) /\ Len(SubSeq(s, i + 1, l)) = l - i
    <3>1. i + 1 \in Int /\ l \in Int /\ l <= Len(s) /\ 1 <= i + 1
      BY <1>2, <1>3
    <3>2. /\ SubSeq(s, i + 1, l) \in Seq(AuthStep)
          /\ Len(SubSeq(s, i + 1, l)) = IF i + 1 <= l THEN l - (i + 1) + 1 ELSE 0
      BY <3>1, PartFacts
    <3>3. (IF i + 1 <= l THEN l - (i + 1) + 1 ELSE 0) = l - i
      BY <1>3
    <3>4. QED
      BY <3>2, <3>3
  <2>3. <<s[i]>> \in Seq(AuthStep) /\ Len(<<s[i]>>) = 1
    BY <1>3
  <2>4. /\ SubSeq(s, 1, (i + 1) - 1) \o <<s[i]>> \in Seq(AuthStep)
        /\ Len(SubSeq(s, 1, (i + 1) - 1) \o <<s[i]>>) = i + 1
    BY <2>1, <2>3, ConcatProperties
  <2>5. /\ InsertAt(s, i + 1, s[i]) \in Seq(AuthStep)
        /\ Len(InsertAt(s, i + 1, s[i])) = (i + 1) + (l - i)
    BY <1>2, <2>2, <2>4, ConcatProperties DEF InsertAt
  <2>6. (i + 1) + (l - i) <= MaxSteps
    BY <1>3, <1>4, StrategyAssumption
  <2>7. InsertAt(s, i + 1, s[i]) \in Steps
    BY <2>5, <2>6, StepsFacts
  <2>8. QED
    BY <1>2, <1>4, <2>7 DEF DuplicateStep
<1>5. CASE ~(l < MaxSteps)
  BY <1>2, <1>5 DEF DuplicateStep
<1>6. QED
  BY <1>4, <1>5

LEMMA ReplaceFacts ==
  ASSUME NEW s \in Steps, NEW i \in DOMAIN s, NEW step \in AuthStep
  PROVE  [s EXCEPT ![i] = step] \in Steps
<1>1. s \in Seq(AuthStep) /\ Len(s) <= MaxSteps
  BY StepsFacts
<1>2. [s EXCEPT ![i] = step] \in Seq(AuthStep) /\ Len([s EXCEPT ![i] = step]) = Len(s)
  BY <1>1, ExceptSeq
<1>3. QED
  BY <1>1, <1>2, StepsFacts

LEMMA ToggleEnabledFacts ==
  ASSUME NEW s \in Steps, NEW i \in DOMAIN s
  PROVE  ToggleEnabled(s, i) \in Steps
<1>1. s[i] \in AuthStep
  BY StepsFacts
<1>2. CASE s[i].action = "other"
  BY <1>2 DEF ToggleEnabled
<1>3. CASE s[i].action # "other"
  <2>1. [s[i] EXCEPT !.enabled = ~@] \in AuthStep
    BY <1>1, <1>3 DEF AuthStep
  <2>2. [s EXCEPT ![i] = [s[i] EXCEPT !.enabled = ~@]] \in Steps
    BY <2>1, ReplaceFacts
  <2>3. QED
    BY <1>3, <2>2 DEF ToggleEnabled
<1>4. QED
  BY <1>2, <1>3

LEMMA UpdateStepFacts ==
  ASSUME NEW s \in Steps, NEW i \in DOMAIN s
  PROVE  UpdateStep(s, i) \subseteq Steps
BY ReplaceFacts DEF UpdateStep, ReplaceAt

LEMMA MoveStepFacts ==
  ASSUME NEW s \in Steps, NEW i \in DOMAIN s, NEW target
  PROVE  MoveStep(s, i, target) \in Steps
<1>1. CASE target \in DOMAIN s
  <2>1. s[i] \in AuthStep /\ s[target] \in AuthStep
    BY <1>1, StepsFacts
  <2>2. PICK t : t = [s EXCEPT ![i] = s[target]]
    OBVIOUS
  <2>3. t \in Steps /\ DOMAIN t = DOMAIN s
    BY <2>1, <2>2, ReplaceFacts
  <2>4. [t EXCEPT ![target] = s[i]] \in Steps
    BY <1>1, <2>1, <2>3, ReplaceFacts
  <2>5. QED
    BY <1>1, <2>2, <2>4 DEF MoveStep
<1>2. CASE target \notin DOMAIN s
  BY <1>2 DEF MoveStep
<1>3. QED
  BY <1>1, <1>2

LEMMA BuiltinFacts == Builtin \subseteq Steps
<1>1. Step("password") \in AuthStep /\ Step("totp") \in AuthStep
  BY StepFacts
<1>2. <<Step("password")>> \in Seq(AuthStep) /\ Len(<<Step("password")>>) = 1
  BY <1>1
<1>3. /\ <<Step("password"), Step("totp")>> \in Seq(AuthStep)
      /\ Len(<<Step("password"), Step("totp")>>) = 2
  BY <1>1
<1>4. 1 <= MaxSteps /\ 2 <= MaxSteps
  BY StrategyAssumption
<1>5. <<Step("password")>> \in Steps /\ <<Step("password"), Step("totp")>> \in Steps
  BY <1>2, <1>3, <1>4, StepsFacts
<1>6. QED
  BY <1>5 DEF Builtin, DefaultSteps

-----------------------------------------------------------------------------
(* The strategy editor.                                                    *)

LEMMA ValidateFacts ==
  ASSUME NEW steps, NEW hasTotp
  PROVE  ValidateStrategy(steps, hasTotp) \in BOOLEAN
BY Zenon DEF ValidateStrategy

\* What _render leaves of the editor.
LEMMA RenderFacts ==
  ASSUME strategy \in StrategyType, NEW steps \in Steps, Render(steps), Validated
  PROVE  /\ strategy' \in StrategyType
         /\ strategy'.open = strategy.open /\ strategy'.totp = strategy.totp
         /\ Validated'
<1>1. PICK savable \in BOOLEAN :
        /\ strategy' = [strategy EXCEPT !.steps = steps, !.savable = savable]
        /\ Rendered(steps) => savable = ValidateStrategy(steps, strategy.totp)
  <2>1. CASE Rendered(steps)
    BY <2>1, ValidateFacts DEF Render
  <2>2. CASE ~Rendered(steps)
    BY <2>2 DEF Render, StrategyType
  <2>3. QED
    BY <2>1, <2>2
<1>2. /\ strategy' \in StrategyType
      /\ strategy'.open = strategy.open /\ strategy'.totp = strategy.totp
      /\ strategy'.steps = steps /\ strategy'.savable = savable
  BY <1>1 DEF StrategyType
<1>3. Rendered(steps) => (strategy'.savable <=> ValidateStrategy(steps, strategy'.totp))
  BY <1>1, <1>2
<1>4. Validated'
  BY <1>2, <1>3 DEF Validated, Rendered, ValidateStrategy
<1>5. QED
  BY <1>2, <1>4

LEMMA EditStepsFacts ==
  ASSUME strategy \in StrategyType, EditSteps
  PROVE  \E steps \in Steps : Render(steps)
<1>1. PICK s \in Steps : s = strategy.steps
  BY DEF StrategyType
<1>2. \/ Render(AddStep(s))
      \/ \E i \in DOMAIN s :
           \/ Render(RemoveStep(s, i))
           \/ Render(DuplicateStep(s, i))
           \/ Render(ToggleEnabled(s, i))
           \/ \E new \in UpdateStep(s, i) : Render(new)
           \/ \E target \in {i - 1, i + 1} : Render(MoveStep(s, i, target))
  BY <1>1 DEF EditSteps
<1>3. QED
  BY <1>2, AddStepFacts, RemoveStepFacts, DuplicateStepFacts, ToggleEnabledFacts,
     UpdateStepFacts, MoveStepFacts

LEMMA OpenStrategyFacts ==
  ASSUME NEW hasTotp \in BOOLEAN, OpenStrategy(hasTotp)
  PROVE  strategy' \in StrategyType /\ strategy'.totp = hasTotp /\ Validated'
<1>1. PICK steps \in Builtin :
        strategy' = [open |-> TRUE, steps |-> steps, totp |-> hasTotp,
                     savable |-> ValidateStrategy(steps, hasTotp)]
  BY DEF OpenStrategy
<1>2. steps \in Steps /\ ValidateStrategy(steps, hasTotp) \in BOOLEAN
  BY BuiltinFacts, ValidateFacts
<1>3. /\ strategy' \in StrategyType /\ strategy'.totp = hasTotp
      /\ strategy'.steps = steps
      /\ strategy'.savable = ValidateStrategy(steps, hasTotp)
  BY <1>1, <1>2 DEF StrategyType
<1>4. Validated'
  BY <1>3 DEF Validated, Rendered, ValidateStrategy
<1>5. QED
  BY <1>3, <1>4

LEMMA NoStrategyFacts ==
  ASSUME strategy' = NoStrategy
  PROVE  strategy' \in StrategyType /\ ~strategy'.open /\ Validated'
<1>1. <<>> \in Steps
  <2>1. <<>> \in Seq(AuthStep) /\ Len(<<>>) = 0 /\ 0 <= MaxSteps
    BY StrategyAssumption
  <2>2. QED
    BY <2>1, StepsFacts
<1>2. strategy' \in StrategyType /\ strategy'.open = FALSE
  BY <1>1 DEF NoStrategy, StrategyType
<1>3. QED
  BY <1>2 DEF Validated

-----------------------------------------------------------------------------
(* The parts that the handlers share.                                      *)

LEMMA CodesFacts ==
  /\ \A name \in {"none", "old", "new"} : Unused(name) \in Codes
  /\ \A codes \in Codes : \A i : Flip(codes, i) \in Codes
<1>1. /\ Position("none") = {} /\ Position("old") = {1, 2} /\ Position("new") = {1}
  BY DEF Position
<1>2. \A name \in {"none", "old", "new"} : Unused(name) \in Codes
  BY DEF Unused, Codes
<1>3. ASSUME NEW codes \in Codes, NEW i PROVE Flip(codes, i) \in Codes
  <2>1. CASE i \notin Position(codes.name)
    BY <2>1 DEF Flip
  <2>2. CASE i \in Position(codes.name)
    <3>1. PICK name \in {"none", "old", "new"}, used \in SUBSET {1, 2} :
            /\ codes = [name |-> name, used |-> used] /\ used \subseteq Position(name)
      <4>1. /\ codes \in [name : {"none", "old", "new"}, used : SUBSET {1, 2}]
            /\ codes.used \subseteq Position(codes.name)
        BY DEF Codes
      <4>2. codes = [name |-> codes.name, used |-> codes.used]
        BY <4>1
      <4>3. QED
        BY <4>1, <4>2
    <3>2. PICK flipped : flipped = IF i \in used THEN used \ {i} ELSE used \cup {i}
      OBVIOUS
    <3>3. Flip(codes, i) = [name |-> name, used |-> flipped]
      BY <2>2, <3>1, <3>2 DEF Flip
    <3>4. flipped \subseteq Position(name) /\ i \in {1, 2}
      BY <1>1, <2>2, <3>1, <3>2
    <3>5. [name |-> name, used |-> flipped] \in Codes
      BY <3>1, <3>2, <3>4 DEF Codes
    <3>6. QED
      BY <3>3, <3>5
  <2>3. QED
    BY <2>1, <2>2
<1>4. QED
  BY <1>2, <1>3

LEMMA NoDetailFacts ==
  /\ NoDetail \in DetailType /\ NoDetail.entry = None
  /\ \A d \in DetailType : d.entry \in Entry => d # NoDetail
<1>1. Unused("none") \in Codes
  BY CodesFacts
<1>2. NoDetail \in DetailType /\ NoDetail.entry = None
  BY <1>1 DEF NoDetail, DetailType
<1>3. QED
  BY <1>2, AccountsAssumption

LEMMA NoEditorFacts ==
  /\ NoEditor \in EditorType /\ NoEditor.entry = None /\ NoEditor.made = 0
  /\ NoEditor.open = FALSE /\ NoEditor.closes = FALSE
<1>1. Unused("none") \in Codes
  BY CodesFacts
<1>2. QED
  BY <1>1 DEF NoEditor, EditorType

LEMMA RefreshFacts ==
  ASSUME Refresh
  PROVE  list' \in ListType /\ ListCurrent'
<1>1. list' = [all |-> Listed', selected |-> None, failed |-> FALSE]
  BY DEF Refresh, Listed
<1>2. Listed' \subseteq Entry
  BY DEF Listed
<1>3. list' \in ListType /\ list'.all = Listed'
  BY <1>1, <1>2 DEF ListType
<1>4. QED
  BY <1>3 DEF ListCurrent

\* What a failed save says is that nothing on the screen need be current.
LEMMA FailFacts ==
  ASSUME Inv, Fail
  PROVE  /\ list' \in ListType /\ ListCurrent'
         /\ detail' \in DetailType /\ DetailCurrent'
         /\ detail'.entry = detail.entry /\ detail'.totp = detail.totp
         /\ detail' = NoDetail <=> detail = NoDetail
         /\ NewIsNew'
<1>1. list' \in ListType /\ list'.failed = TRUE
  BY DEF Fail, Inv, Types, ListType
<1>2. ListCurrent'
  BY <1>1 DEF ListCurrent
<1>3. CASE detail = NoDetail
  <2>1. detail' = detail
    BY <1>3 DEF Fail
  <2>2. detail' \in DetailType /\ DetailCurrent'
    BY <1>3, <2>1 DEF Inv, Types, DetailCurrent
  <2>3. NewIsNew'
    BY <1>3, <2>1 DEF NewIsNew
  <2>4. QED
    BY <1>1, <1>2, <1>3, <2>1, <2>2, <2>3
<1>4. CASE detail # NoDetail
  <2>1. /\ detail' \in DetailType /\ detail'.failed = TRUE
        /\ detail'.entry = detail.entry /\ detail'.totp = detail.totp
    BY <1>4 DEF Fail, Inv, Types, DetailType
  <2>2. detail'.entry \in Entry
    BY <1>4, <2>1 DEF Inv, Stacked
  <2>3. detail' # NoDetail
    BY <2>1, <2>2, NoDetailFacts
  <2>4. DetailCurrent' /\ NewIsNew'
    BY <2>1 DEF DetailCurrent, NewIsNew
  <2>5. QED
    BY <1>1, <1>2, <1>4, <2>1, <2>3, <2>4
<1>5. QED
  BY <1>3, <1>4

LEMMA StrategyKept ==
  ASSUME Inv, UNCHANGED strategy
  PROVE  strategy' \in StrategyType /\ Validated'
<1>1. strategy' \in StrategyType
  BY DEF Inv, Types
<1>2. Validated'
  BY DEF Inv, Validated, Rendered, ValidateStrategy
<1>3. QED
  BY <1>1, <1>2

LEMMA EditorKept ==
  ASSUME Inv, UNCHANGED editor
  PROVE  editor' \in EditorType /\ MadeOnce'
BY DEF Inv, Types, MadeOnce

LEMMA ListKept ==
  ASSUME Inv, UNCHANGED <<tree, list>>
  PROVE  list' \in ListType /\ ListCurrent' /\ tree' \in [Entry -> Account \cup {None}]
BY DEF Inv, Types, ListCurrent, Listed

LEMMA DetailKept ==
  ASSUME Inv, UNCHANGED <<tree, detail>>
  PROVE  detail' \in DetailType /\ DetailCurrent'
BY DEF Inv, Types, DetailCurrent, Exists

\* One account is another one, or gone.
LEMMA TreeFacts ==
  ASSUME Inv, NEW e \in Entry, NEW account \in Account \cup {None},
         tree' = [tree EXCEPT ![e] = account]
  PROVE  /\ tree' \in [Entry -> Account \cup {None}] /\ tree'[e] = account
         /\ \A f \in Entry \ {e} : tree'[f] = tree[f]
         /\ tree[e] # None /\ account \in Account => Listed' = Listed
<1>1. /\ tree' \in [Entry -> Account \cup {None}] /\ tree'[e] = account
      /\ \A f \in Entry \ {e} : tree'[f] = tree[f]
  BY DEF Inv, Types
<1>2. ASSUME tree[e] # None, account \in Account PROVE Listed' = Listed
  <2>1. tree'[e] # None
    BY <1>1, <1>2, AccountsAssumption
  <2>2. \A f \in Entry : tree'[f] # None <=> tree[f] # None
    BY <1>1, <1>2, <2>1
  <2>3. QED
    BY <2>2 DEF Listed
<1>3. QED
  BY <1>1, <1>2

\* An account that is there.
LEMMA AccountFacts ==
  ASSUME Inv, NEW e \in Entry, tree[e] # None
  PROVE  /\ tree[e] \in Account
         /\ tree[e].totp \in BOOLEAN /\ tree[e].codes \in Codes
<1>1. tree[e] \in Account
  BY DEF Inv, Types
<1>2. QED
  BY <1>1 DEF Account

-----------------------------------------------------------------------------
(* The window and the dialog of an account.                                *)

LEMMA SelectInv == ASSUME Inv, Select PROVE Inv'
<1>1. PICK e \in list.all \cup {None} : list' = [list EXCEPT !.selected = e]
  BY DEF Select
<1>2. list' \in ListType /\ list'.all = list.all /\ list'.failed = list.failed
  BY <1>1 DEF Inv, Types, ListType
<1>3. UNCHANGED <<strategy, tree, detail, editor>>
  BY DEF Select
<1>4. ListCurrent' /\ Stacked' /\ NewIsNew' /\ tree' \in [Entry -> Account \cup {None}]
  BY <1>2, <1>3 DEF Inv, Types, ListCurrent, Listed, Stacked, NewIsNew
<1>5. QED
  BY <1>2, <1>3, <1>4, StrategyKept, DetailKept, EditorKept DEF Inv, Types

LEMMA QuickTotpInv == ASSUME Inv, NEW e \in Entry, QuickTotp(e) PROVE Inv'
<1>1. /\ detail = NoDetail /\ ~editor.open /\ tree[e] # None
      /\ tree' = [tree EXCEPT ![e].totp = TRUE]
      /\ (Refresh /\ UNCHANGED detail) \/ Fail
      /\ UNCHANGED <<strategy, editor>>
  BY DEF QuickTotp, OnWindow
<1>2. tree' \in [Entry -> Account \cup {None}]
  <2>1. PICK account : account = [tree[e] EXCEPT !.totp = TRUE]
    OBVIOUS
  <2>2. account \in Account
    BY <1>1, <2>1, AccountFacts DEF Account
  <2>3. tree' = [tree EXCEPT ![e] = account]
    BY <1>1, <2>1
  <2>4. QED
    BY <2>2, <2>3, TreeFacts
<1>3. list' \in ListType /\ ListCurrent' /\ detail' = NoDetail
  BY <1>1, RefreshFacts, FailFacts
<1>4. detail' \in DetailType /\ DetailCurrent' /\ Stacked' /\ NewIsNew'
  BY <1>1, <1>3, NoDetailFacts DEF Inv, DetailCurrent, Stacked, NewIsNew
<1>5. QED
  BY <1>1, <1>2, <1>3, <1>4, StrategyKept, EditorKept DEF Inv, Types

LEMMA OpenDetailInv == ASSUME Inv, NEW e \in Entry, OpenDetail(e) PROVE Inv'
<1>1. /\ detail = NoDetail /\ ~editor.open /\ tree[e] # None
      /\ UNCHANGED <<strategy, tree, list, editor>>
  BY DEF OpenDetail, OnWindow
<1>2. tree[e].totp \in BOOLEAN
  BY <1>1, AccountFacts
<1>3. PICK recovery \in BOOLEAN :
        detail' = [NoDetail EXCEPT !.entry = e, !.totp = tree[e].totp, !.recovery = recovery]
  BY DEF OpenDetail
<1>4. /\ detail' \in DetailType /\ detail'.entry = e /\ detail'.totp = tree[e].totp
      /\ detail'.gate = "hidden"
  BY <1>2, <1>3, NoDetailFacts DEF NoDetail, DetailType
<1>5. DetailCurrent'
  BY <1>1, <1>4 DEF DetailCurrent, Exists
<1>6. Stacked' /\ NewIsNew'
  BY <1>1, <1>4 DEF Inv, Stacked, NewIsNew
<1>7. QED
  BY <1>1, <1>4, <1>5, <1>6, StrategyKept, ListKept, EditorKept DEF Inv, Types

LEMMA OpenNewInv == ASSUME Inv, OpenNew PROVE Inv'
<1>1. /\ UNCHANGED <<strategy, tree, list, detail>>
      /\ editor' = [NoEditor EXCEPT !.open = TRUE]
      /\ ~strategy.open
  BY DEF OpenNew, OnWindow, OnDetail, Inv, Stacked
<1>2. editor' \in EditorType /\ editor'.entry = None /\ editor'.made = 0
  BY <1>1, NoEditorFacts DEF NoEditor, EditorType
<1>3. MadeOnce' /\ Stacked' /\ NewIsNew'
  BY <1>1, <1>2 DEF Inv, MadeOnce, Stacked, NewIsNew
<1>4. QED
  BY <1>1, <1>2, <1>3, StrategyKept, ListKept, DetailKept DEF Inv, Types

\* Something else of the dialog is shown, or it is closed.
LEMMA ShowInv ==
  ASSUME Inv, OnDetail, NEW d \in DetailType, Show(d),
         \/ d = NoDetail
         \/ /\ d.entry = detail.entry /\ d.totp = detail.totp /\ d.failed = detail.failed
            /\ d.gate = "shown" => d.shown = tree[detail.entry].codes
  PROVE  Inv'
<1>1. detail' = d /\ UNCHANGED <<strategy, tree, list, editor>>
  BY DEF Show
<1>2. ~strategy.open /\ detail # NoDetail /\ ~editor.open
  BY DEF OnDetail
<1>3. Stacked' /\ DetailCurrent' /\ NewIsNew'
  <2>1. CASE d = NoDetail
    BY <1>1, <1>2, <2>1 DEF Stacked, DetailCurrent, NewIsNew
  <2>2. CASE d # NoDetail
    BY <1>1, <1>2, <2>2 DEF Inv, Stacked, DetailCurrent, Exists, NewIsNew
  <2>3. QED
    BY <2>1, <2>2
<1>4. QED
  BY <1>1, <1>3, StrategyKept, ListKept, EditorKept DEF Inv, Types

LEMMA GateInv == ASSUME Inv, Request \/ Expire \/ Confirm \/ CloseDetail PROVE Inv'
<1> USE DEF Inv, Types
<1>1. CASE Request
  <2>1. PICK d : d = [detail EXCEPT !.gate = "asked"]
    OBVIOUS
  <2>2. /\ d \in DetailType /\ d.gate = "asked" /\ d.entry = detail.entry
        /\ d.totp = detail.totp /\ d.failed = detail.failed
    BY <2>1 DEF DetailType
  <2>3. OnDetail /\ Show(d)
    BY <1>1, <2>1 DEF Request
  <2>4. QED
    BY <2>2, <2>3, ShowInv
<1>2. CASE Expire
  <2>1. PICK d : d = [detail EXCEPT !.gate = "late"]
    OBVIOUS
  <2>2. /\ d \in DetailType /\ d.gate = "late" /\ d.entry = detail.entry
        /\ d.totp = detail.totp /\ d.failed = detail.failed
    BY <2>1 DEF DetailType
  <2>3. OnDetail /\ Show(d)
    BY <1>2, <2>1 DEF Expire
  <2>4. QED
    BY <2>2, <2>3, ShowInv
<1>3. CASE Confirm
  <2>1. CASE Show([detail EXCEPT !.gate = "hidden"])
    <3>1. PICK d : d = [detail EXCEPT !.gate = "hidden"]
      OBVIOUS
    <3>2. /\ d \in DetailType /\ d.gate = "hidden" /\ d.entry = detail.entry
          /\ d.totp = detail.totp /\ d.failed = detail.failed
      BY <3>1 DEF DetailType
    <3>3. OnDetail /\ Show(d)
      BY <1>3, <2>1, <3>1 DEF Confirm
    <3>4. QED
      BY <3>2, <3>3, ShowInv
  <2>2. CASE /\ Exists
             /\ Show([detail EXCEPT !.gate = "shown", !.shown = tree[detail.entry].codes])
    <3>1. PICK d : d = [detail EXCEPT !.gate = "shown", !.shown = tree[detail.entry].codes]
      OBVIOUS
    <3>2. tree[detail.entry].codes \in Codes
      BY <1>3, <2>2, AccountFacts DEF Confirm, OnDetail, Exists, Stacked
    <3>3. /\ d \in DetailType /\ d.entry = detail.entry
          /\ d.totp = detail.totp /\ d.failed = detail.failed
          /\ d.shown = tree[detail.entry].codes
      BY <3>1, <3>2 DEF DetailType
    <3>4. OnDetail /\ Show(d)
      BY <1>3, <2>2, <3>1 DEF Confirm
    <3>5. QED
      BY <3>3, <3>4, ShowInv
  <2>3. QED
    BY <1>3, <2>1, <2>2 DEF Confirm
<1>4. CASE CloseDetail
  BY <1>4, ShowInv, NoDetailFacts DEF CloseDetail
<1>5. QED
  BY <1>1, <1>2, <1>3, <1>4

LEMMA ToggleCodeInv == ASSUME Inv, NEW i \in {1, 2}, ToggleCode(i) PROVE Inv'
<1>1. PICK e \in Entry : e = detail.entry /\ tree[e] # None
  BY DEF ToggleCode, OnDetail, Exists, Inv, Stacked
<1>2. PICK codes : codes = Flip(tree[e].codes, i)
  OBVIOUS
<1>3. /\ detail # NoDetail /\ ~strategy.open /\ ~editor.open /\ UNCHANGED <<strategy, editor>>
      /\ tree' = [tree EXCEPT ![e].codes = codes]
      /\ (detail' = [detail EXCEPT !.shown = codes] /\ UNCHANGED list) \/ Fail
  BY <1>1, <1>2 DEF ToggleCode, OnDetail
<1>4. PICK account : account = [tree[e] EXCEPT !.codes = codes]
  OBVIOUS
<1>5. /\ account \in Account /\ codes \in Codes
      /\ account.totp = tree[e].totp /\ account.codes = codes
  BY <1>1, <1>2, <1>4, AccountFacts, CodesFacts DEF Account
<1>6. /\ tree' \in [Entry -> Account \cup {None}] /\ tree'[e] = account
      /\ Listed' = Listed
  <2>1. tree' = [tree EXCEPT ![e] = account]
    BY <1>3, <1>4
  <2>2. QED
    BY <1>1, <1>5, <2>1, TreeFacts
<1>7. /\ list' \in ListType /\ ListCurrent' /\ detail' \in DetailType /\ DetailCurrent'
      /\ detail'.entry = e /\ detail' # NoDetail
  <2>1. CASE detail' = [detail EXCEPT !.shown = codes] /\ UNCHANGED list
    <3>1. list' \in ListType /\ ListCurrent'
      BY <1>6, <2>1 DEF Inv, Types, ListCurrent
    <3>2. /\ detail' \in DetailType /\ detail'.entry = e /\ detail'.totp = detail.totp
          /\ detail'.shown = codes /\ detail'.failed = detail.failed
      BY <1>1, <1>5, <2>1 DEF Inv, Types, DetailType
    <3>3. tree'[e] # None
      BY <1>5, <1>6, AccountsAssumption
    <3>4. ~detail.failed => detail.totp = tree[e].totp
      BY <1>1, <1>3 DEF Inv, DetailCurrent
    <3>5. DetailCurrent'
      BY <1>5, <1>6, <3>2, <3>3, <3>4 DEF DetailCurrent, Exists
    <3>6. detail' # NoDetail
      BY <3>2, NoDetailFacts
    <3>7. QED
      BY <3>1, <3>2, <3>5, <3>6
  <2>2. CASE Fail
    BY <1>1, <1>3, <2>2, FailFacts
  <2>3. QED
    BY <1>3, <2>1, <2>2
<1>8. Stacked' /\ NewIsNew'
  BY <1>3, <1>7 DEF Stacked, NewIsNew
<1>9. QED
  BY <1>3, <1>6, <1>7, <1>8, StrategyKept, EditorKept DEF Inv, Types

\* An action of the dialog that changes its account and, if it is saved, closes it.
LEMMA SaveAndCloseInv ==
  ASSUME Inv, OnDetail, SaveAndClose, UNCHANGED <<strategy, editor>>,
         tree' \in [Entry -> Account \cup {None}]
  PROVE  Inv'
<1>1. ~strategy.open /\ ~editor.open /\ detail # NoDetail /\ detail.entry \in Entry
  BY DEF OnDetail, Inv, Stacked
<1>2. /\ list' \in ListType /\ ListCurrent' /\ detail' \in DetailType /\ DetailCurrent'
      /\ detail' # NoDetail => detail'.entry \in Entry
  <2>1. CASE Refresh /\ detail' = NoDetail
    BY <2>1, RefreshFacts, NoDetailFacts DEF DetailCurrent
  <2>2. CASE Fail
    BY <1>1, <2>2, FailFacts
  <2>3. QED
    BY <2>1, <2>2 DEF SaveAndClose
<1>3. Stacked' /\ NewIsNew'
  BY <1>1, <1>2 DEF Stacked, NewIsNew
<1>4. QED
  BY <1>2, <1>3, StrategyKept, EditorKept DEF Inv, Types

LEMMA RemoveInv == ASSUME Inv, RemoveTotp \/ DeleteAccount PROVE Inv'
<1>1. PICK e \in Entry : e = detail.entry /\ tree[e] # None
  BY DEF RemoveTotp, DeleteAccount, OnDetail, Exists, Inv, Stacked
<1>2. OnDetail /\ SaveAndClose /\ UNCHANGED <<strategy, editor>>
  BY DEF RemoveTotp, DeleteAccount
<1>3. PICK account \in Account \cup {None} : tree' = [tree EXCEPT ![e] = account]
  <2>1. CASE RemoveTotp
    <3>1. [tree[e] EXCEPT !.totp = FALSE] \in Account
      BY <1>1, AccountFacts DEF Account
    <3>2. tree' = [tree EXCEPT ![e] = [tree[e] EXCEPT !.totp = FALSE]]
      BY <1>1, <2>1 DEF RemoveTotp
    <3>3. QED
      BY <3>1, <3>2
  <2>2. CASE DeleteAccount
    BY <1>1, <2>2 DEF DeleteAccount
  <2>3. QED
    BY <2>1, <2>2
<1>4. QED
  BY <1>2, <1>3, TreeFacts, SaveAndCloseInv

-----------------------------------------------------------------------------
(* The entry editor.                                                       *)

LEMMA OpenEditorInv == ASSUME Inv, OpenEditor PROVE Inv'
<1>1. PICK e \in Entry : e = detail.entry /\ tree[e] # None
  BY DEF OpenEditor, OnDetail, Exists, Inv, Stacked
<1>2. /\ ~strategy.open /\ UNCHANGED <<strategy, tree, list, detail>>
      /\ editor' = [NoEditor EXCEPT !.open = TRUE, !.closes = TRUE, !.entry = e,
                                    !.totp = tree[e].totp, !.codes = tree[e].codes]
  BY <1>1 DEF OpenEditor, OnDetail
<1>3. tree[e].totp \in BOOLEAN /\ tree[e].codes \in Codes
  BY <1>1, AccountFacts
<1>4. editor' \in EditorType /\ editor'.closes = TRUE /\ editor'.entry = e /\ editor'.made = 0
  BY <1>2, <1>3, NoEditorFacts DEF NoEditor, EditorType
<1>5. MadeOnce' /\ Stacked' /\ NewIsNew'
  BY <1>2, <1>4 DEF Inv, MadeOnce, Stacked, NewIsNew
<1>6. QED
  BY <1>2, <1>4, <1>5, StrategyKept, ListKept, DetailKept DEF Inv, Types

\* The editor has other values, of the same account, or is closed.
LEMMA EditInv ==
  ASSUME Inv, NEW new \in EditorType, Edit(new),
         \/ new = NoEditor
         \/ new.entry = editor.entry /\ new.made = editor.made /\ new.closes = editor.closes
  PROVE  Inv'
<1>1. editor' = new /\ editor.open /\ UNCHANGED <<strategy, tree, list, detail>>
  BY DEF Edit
<1>2. ~strategy.open
  BY <1>1 DEF Inv, Stacked
<1>3. MadeOnce'
  BY <1>1, NoEditorFacts DEF Inv, MadeOnce
<1>4. Stacked' /\ NewIsNew'
  BY <1>1, <1>2, NoEditorFacts DEF Inv, Stacked, NewIsNew
<1>5. QED
  BY <1>1, <1>3, <1>4, StrategyKept, ListKept, DetailKept DEF Inv, Types

LEMMA EditorInv == ASSUME Inv, AddTotp \/ AddRecoveryCodes \/ CancelEditor PROVE Inv'
<1>1. CASE AddTotp
  <2>1. PICK new : new = [editor EXCEPT !.totp = TRUE]
    OBVIOUS
  <2>2. /\ new \in EditorType /\ new.entry = editor.entry /\ new.made = editor.made
        /\ new.closes = editor.closes
    BY <2>1 DEF Inv, Types, EditorType
  <2>3. QED
    BY <1>1, <2>1, <2>2, EditInv DEF AddTotp
<1>2. CASE AddRecoveryCodes
  <2>1. PICK new : new = [editor EXCEPT !.codes = Unused("new")]
    OBVIOUS
  <2>2. /\ new \in EditorType /\ new.entry = editor.entry /\ new.made = editor.made
        /\ new.closes = editor.closes
    BY <2>1, CodesFacts DEF Inv, Types, EditorType
  <2>3. QED
    BY <1>2, <2>1, <2>2, EditInv DEF AddRecoveryCodes
<1>3. CASE CancelEditor
  BY <1>3, NoEditorFacts, EditInv DEF CancelEditor
<1>4. QED
  BY <1>1, <1>2, <1>3

LEMMA SaveEntryInv == ASSUME Inv, NEW e \in Entry, SaveEntry(e) PROVE Inv'
<1>1. /\ editor.open /\ Target(e) /\ UNCHANGED strategy
      /\ tree' = [tree EXCEPT ![e] = Written(IF tree[e] = None THEN Blank ELSE tree[e])]
      /\ \/ /\ Refresh /\ editor' = NoEditor
            /\ detail' = IF editor.closes THEN NoDetail ELSE detail
         \/ /\ Fail
            /\ editor' = [editor EXCEPT !.entry = e,
                                        !.made = @ + (IF editor.entry = None THEN 1 ELSE 0)]
  BY DEF SaveEntry
<1>2. PICK account : account = IF tree[e] = None THEN Blank ELSE tree[e]
  OBVIOUS
<1>3. account.totp \in BOOLEAN /\ account.codes \in Codes
  BY <1>2, AccountFacts, CodesFacts DEF Blank
<1>4. Written(account) \in Account
  <2>1. PICK totp \in BOOLEAN : totp = (account.totp \/ editor.totp)
    OBVIOUS
  <2>2. PICK codes \in Codes :
          codes = IF editor.codes.name = "none" THEN account.codes ELSE editor.codes
    BY <1>3 DEF Inv, Types, EditorType
  <2>3. [totp |-> totp, codes |-> codes] \in Account
    BY DEF Account
  <2>4. QED
    BY <2>1, <2>2, <2>3 DEF Written
<1>5. tree' \in [Entry -> Account \cup {None}] /\ \A f \in Entry \ {e} : tree'[f] = tree[f]
  BY <1>1, <1>2, <1>4, TreeFacts
<1>6. ~strategy.open
  BY <1>1 DEF Inv, Stacked
<1>7. /\ list' \in ListType /\ ListCurrent' /\ detail' \in DetailType /\ DetailCurrent'
      /\ detail' # NoDetail => detail'.entry \in Entry
      /\ editor' \in EditorType /\ MadeOnce' /\ NewIsNew'
  <2>1. CASE /\ Refresh /\ editor' = NoEditor
             /\ detail' = IF editor.closes THEN NoDetail ELSE detail
    <3>1. /\ list' \in ListType /\ ListCurrent'
          /\ editor' \in EditorType /\ MadeOnce' /\ NewIsNew'
      BY <2>1, RefreshFacts, NoEditorFacts DEF MadeOnce, NewIsNew
    <3>2. /\ detail' \in DetailType
          /\ detail' # NoDetail => detail' = detail /\ detail.entry \in Entry /\ ~editor.closes
      BY <2>1, NoDetailFacts DEF Inv, Types, Stacked
    <3>3. ASSUME detail' # NoDetail, ~detail'.failed PROVE tree'[detail.entry] = tree[detail.entry]
      <4>1. editor.entry = None /\ Exists
        BY <1>1, <3>2, <3>3 DEF Inv, NewIsNew, DetailCurrent
      <4>2. detail.entry # e
        BY <1>1, <4>1 DEF Target, Exists
      <4>3. QED
        BY <1>5, <3>2, <3>3, <4>2
    <3>4. DetailCurrent'
      BY <3>2, <3>3 DEF Inv, DetailCurrent, Exists
    <3>5. QED
      BY <3>1, <3>2, <3>4
  <2>2. CASE /\ Fail
             /\ editor' = [editor EXCEPT !.entry = e,
                                         !.made = @ + (IF editor.entry = None THEN 1 ELSE 0)]
    <3>1. /\ list' \in ListType /\ ListCurrent' /\ detail' \in DetailType /\ DetailCurrent'
          /\ detail' # NoDetail => detail'.entry \in Entry
          /\ NewIsNew'
      BY <2>2, FailFacts DEF Inv, Stacked
    <3>2. PICK n \in Nat : n = editor.made + (IF editor.entry = None THEN 1 ELSE 0)
      BY DEF Inv, Types, EditorType
    <3>3. n <= 1
      BY <3>2 DEF Inv, Types, EditorType, MadeOnce
    <3>4. editor' \in EditorType /\ editor'.entry = e /\ editor'.made = n
      BY <2>2, <3>2 DEF Inv, Types, EditorType
    <3>5. MadeOnce'
      BY <3>3, <3>4, AccountsAssumption DEF MadeOnce
    <3>6. QED
      BY <3>1, <3>4, <3>5
  <2>3. QED
    BY <1>1, <2>1, <2>2
<1>8. Stacked'
  BY <1>1, <1>6, <1>7 DEF Stacked
<1>9. QED
  BY <1>1, <1>5, <1>7, <1>8, StrategyKept DEF Inv, Types

-----------------------------------------------------------------------------
(* The strategy editor over the dialog.                                    *)

\* The strategy editor changes, and nothing below it.
LEMMA OverlayInv ==
  ASSUME Inv, strategy' \in StrategyType, Validated',
         UNCHANGED <<tree, list, detail, editor>>,
         strategy'.open => detail # NoDetail /\ ~editor.open /\ strategy'.totp = detail.totp
  PROVE  Inv'
<1>1. Stacked' /\ NewIsNew'
  BY DEF Inv, Stacked, NewIsNew
<1>2. QED
  BY <1>1, ListKept, DetailKept, EditorKept DEF Inv, Types

LEMMA EditStrategyInv == ASSUME Inv, EditStrategy PROVE Inv'
<1>1. UNCHANGED <<tree, list, detail, editor>> /\ detail # NoDetail
  BY DEF EditStrategy
<1>2. CASE OnDetail /\ OpenStrategy(detail.totp)
  <2>1. detail.totp \in BOOLEAN /\ ~editor.open
    BY <1>2 DEF Inv, Types, DetailType, OnDetail
  <2>2. QED
    BY <1>1, <1>2, <2>1, OpenStrategyFacts, OverlayInv
<1>3. CASE EditSteps \/ OnPresetSelected \/ OnSaveAsPreset
  <2>1. strategy.open /\ strategy \in StrategyType /\ Validated
    BY <1>3 DEF EditSteps, OnPresetSelected, OnSaveAsPreset, Inv, Types
  <2>2. PICK steps \in Steps : Render(steps)
    <3>1. CASE EditSteps
      BY <2>1, <3>1, EditStepsFacts
    <3>2. CASE OnPresetSelected \/ OnSaveAsPreset
      <4>1. strategy.steps \in Steps
        BY <2>1 DEF StrategyType
      <4>2. QED
        BY <3>2, <4>1, BuiltinFacts DEF OnPresetSelected, OnSaveAsPreset
    <3>3. QED
      BY <1>3, <3>1, <3>2
  <2>3. /\ strategy' \in StrategyType /\ Validated'
        /\ strategy'.open = strategy.open /\ strategy'.totp = strategy.totp
    BY <2>1, <2>2, RenderFacts
  <2>4. ~editor.open /\ strategy.totp = detail.totp
    BY <2>1 DEF Inv, Stacked
  <2>5. QED
    BY <1>1, <2>3, <2>4, OverlayInv
<1>4. CASE CloseStrategy
  BY <1>1, <1>4, NoStrategyFacts, OverlayInv DEF CloseStrategy
<1>5. QED
  BY <1>2, <1>3, <1>4 DEF EditStrategy

LEMMA SaveStrategyInv == ASSUME Inv, SaveStrategy PROVE Inv'
<1>1. strategy.open /\ UNCHANGED <<tree, editor>>
  BY DEF SaveStrategy
<1>2. CASE CloseStrategy /\ UNCHANGED <<list, detail>>
  BY <1>1, <1>2, NoStrategyFacts, OverlayInv DEF CloseStrategy
<1>3. CASE Fail /\ UNCHANGED strategy
  <2>1. /\ list' \in ListType /\ ListCurrent' /\ detail' \in DetailType /\ DetailCurrent'
        /\ detail'.entry = detail.entry /\ detail'.totp = detail.totp
        /\ detail' = NoDetail <=> detail = NoDetail
    BY <1>3, FailFacts
  <2>2. Stacked' /\ NewIsNew'
    BY <1>1, <1>3, <2>1, FailFacts DEF Inv, Stacked
  <2>3. QED
    BY <1>1, <1>3, <2>1, <2>2, StrategyKept, EditorKept DEF Inv, Types
<1>4. QED
  BY <1>2, <1>3 DEF SaveStrategy

-----------------------------------------------------------------------------
(* The invariant holds, and what follows from it.                          *)

LEMMA InitInv == Init => Inv
<1> SUFFICES ASSUME Init PROVE Inv
  OBVIOUS
<1>1. strategy \in StrategyType /\ ~strategy.open /\ Validated
  <2>1. <<>> \in Seq(AuthStep) /\ Len(<<>>) = 0 /\ 0 <= MaxSteps
    BY StrategyAssumption
  <2>2. <<>> \in Steps
    BY <2>1, StepsFacts
  <2>3. strategy \in StrategyType /\ strategy.open = FALSE
    BY <2>2 DEF Init, NoStrategy, StrategyType
  <2>4. QED
    BY <2>3 DEF Validated
<1>2. tree \in [Entry -> Account \cup {None}]
  BY DEF Init
<1>3. list \in ListType /\ ListCurrent
  <2>1. Listed \subseteq Entry
    BY DEF Listed
  <2>2. QED
    BY <2>1 DEF Init, ListType, ListCurrent
<1>4. detail \in DetailType /\ DetailCurrent /\ detail = NoDetail
  BY NoDetailFacts DEF Init, DetailCurrent
<1>5. editor \in EditorType /\ MadeOnce
  BY NoEditorFacts DEF Init, MadeOnce
<1>6. Stacked /\ NewIsNew
  BY <1>1, <1>4 DEF Stacked, NewIsNew
<1>7. QED
  BY <1>1, <1>2, <1>3, <1>4, <1>5, <1>6 DEF Inv, Types

LEMMA InvStep == Inv /\ [Next]_vars => Inv'
<1> SUFFICES ASSUME Inv, [Next]_vars PROVE Inv'
  OBVIOUS
<1>1. CASE UNCHANGED vars
  <2>1. UNCHANGED <<strategy, tree, list, detail, editor>>
    BY <1>1 DEF vars
  <2>2. Stacked' /\ NewIsNew'
    BY <2>1 DEF Inv, Stacked, NewIsNew
  <2>3. QED
    BY <2>1, <2>2, StrategyKept, ListKept, DetailKept, EditorKept DEF Inv, Types
<1>2. CASE Next
  BY <1>2, SelectInv, OpenNewInv, QuickTotpInv, OpenDetailInv, SaveEntryInv, GateInv,
     ToggleCodeInv, RemoveInv, OpenEditorInv, EditorInv, EditStrategyInv, SaveStrategyInv
     DEF Next
<1>3. QED
  BY <1>1, <1>2

LEMMA InvAlways == Spec => []Inv
<1>1. QED
  BY InitInv, InvStep, PTL DEF Spec

\* Every variable keeps its type: whatever is edited, a strategy stays a list
\* of steps within its bound, and codes are marked only at their positions.
THEOREM TypeCorrect == Spec => []TypeOK
<1>1. Inv => TypeOK
  <2> SUFFICES ASSUME Inv PROVE TypeOK
    OBVIOUS
  <2>1. StrategyTypeOK
    BY DEF Inv, Types, StrategyType, StrategyTypeOK
  <2>2. /\ list.all \subseteq Entry /\ list.selected \in Entry \cup {None}
        /\ list.failed \in BOOLEAN
    BY DEF Inv, Types, ListType
  <2>3. /\ detail.entry \in Entry \cup {None} /\ detail.totp \in BOOLEAN
        /\ detail.recovery \in BOOLEAN /\ detail.gate \in {"hidden", "asked", "late", "shown"}
        /\ detail.shown \in Codes /\ detail.failed \in BOOLEAN
    BY DEF Inv, Types, DetailType
  <2>4. /\ editor.open \in BOOLEAN /\ editor.closes \in BOOLEAN /\ editor.entry \in Entry \cup {None}
        /\ editor.totp \in BOOLEAN /\ editor.codes \in Codes /\ editor.made \in Nat
    BY DEF Inv, Types, EditorType
  <2>5. QED
    BY <2>1, <2>2, <2>3, <2>4 DEF Inv, Types, TypeOK
<1>2. QED
  BY <1>1, InvAlways, PTL

\* Unless a save failed since, the windows show what the database holds, the
\* Save button of the strategy editor goes with the account as it is, and one
\* editor makes one account.
THEOREM WindowsAreCurrent == Spec => []ScreenIsCurrent
<1>1. Inv => ScreenIsCurrent
  <2> SUFFICES ASSUME Inv PROVE ScreenIsCurrent
    OBVIOUS
  <2>1. ~list.failed => list.all = Listed
    BY DEF Inv, ListCurrent
  <2>2. ASSUME detail # NoDetail, ~detail.failed
        PROVE  /\ Exists /\ detail.totp = tree[detail.entry].totp
               /\ detail.gate = "shown" => detail.shown = tree[detail.entry].codes
    BY <2>2 DEF Inv, DetailCurrent
  <2>3. ASSUME detail # NoDetail, ~detail.failed, strategy.open, Rendered(strategy.steps)
        PROVE  strategy.savable <=>
                 ValidateStrategy(strategy.steps, tree[detail.entry].totp)
    <3>1. strategy.totp = tree[detail.entry].totp
      BY <2>2, <2>3 DEF Inv, Stacked
    <3>2. QED
      BY <2>3, <3>1 DEF Inv, Validated
  <2>4. editor.made <= 1
    <3>1. editor.made \in Nat
      BY DEF Inv, Types, EditorType
    <3>2. QED
      BY <3>1 DEF Inv, MadeOnce
  <2>5. QED
    BY <2>1, <2>2, <2>3, <2>4 DEF ScreenIsCurrent
<1>2. QED
  BY <1>1, InvAlways, PTL
=============================================================================
