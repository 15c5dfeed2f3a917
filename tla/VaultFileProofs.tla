--------------------------- MODULE VaultFileProofs ---------------------------
(***************************************************************************)
(* Theorems about VaultFile, for any processes, edits and other programs.  *)
(* Inv adds to TypeOK what makes the safety properties inductive: digests  *)
(* only grow, the flock belongs to the one process inside a save, and an   *)
(* open or a save that is under way has not seen less than its digest says. *)
(***************************************************************************)
EXTENDS VaultFile, TLAPS

Inside == {"check", "replace", "refinger"}

\* A digest held in memory is that of the file or of an earlier one.
DigestsAreOld ==
  \A p \in Proc : /\ print[p] \in Nat => print[p] <= version
                  /\ before[p] \in Nat => before[p] <= version

LockIsHeld == \A p \in Proc : pc[p] \in Inside => lock = p

\* open_vault between parsing and the second digest.
ParsedSeesAll ==
  \A p \in Proc :
    pc[p] = "finish" /\ before[p] = version => content \subseteq tree[p]

\* save between the comparison and the replacement, and after it.
SaverIsCurrent ==
  ~raced => \A p \in Proc : /\ pc[p] = "replace" => print[p] = version
                            /\ pc[p] = "refinger" => content = tree[p]

Inv ==
  /\ TypeOK
  /\ DigestsAreOld
  /\ LockIsHeld
  /\ ParsedSeesAll
  /\ SaverIsCurrent
  /\ MatchingHandleSeesAll
  /\ SavedIsOnDisk

-----------------------------------------------------------------------------
(* The initial states.                                                     *)
LEMMA InvInit == Init => Inv
<1> SUFFICES ASSUME Init PROVE Inv
  OBVIOUS
<1> USE ConstantsAssumption DEF Init
<1>1. TypeOK
  <2>1. mounted \in BOOLEAN /\ raced \in BOOLEAN
    OBVIOUS
  <2>2. /\ version \in 0 .. MaxVersion /\ faults \in 0 .. MaxFaults
        /\ writer \in Proc \cup Foreign \cup {NoProc}
        /\ lock \in Proc \cup {NoProc}
        /\ content \in SUBSET Edit /\ made \in SUBSET Edit
        /\ saved \in SUBSET Edit
    OBVIOUS
  <2>3. /\ pc \in [Proc -> {"closed", "idle"} \cup Opening \cup Saving]
        /\ before \in [Proc -> Nat \cup {NoVersion}]
        /\ print \in [Proc -> Nat \cup {NoVersion}]
        /\ tree \in [Proc -> SUBSET Edit]
        /\ shown \in [Proc -> Outcome]
    BY DEF Outcome
  <2>4. \A p \in Proc : print[p] \in Nat <=> pc[p] \in {"idle"} \cup Saving
    BY DEF Saving
  <2>5. QED
    BY <2>1, <2>2, <2>3, <2>4 DEF TypeOK
<1>2. DigestsAreOld /\ LockIsHeld /\ ParsedSeesAll
  BY DEF DigestsAreOld, LockIsHeld, ParsedSeesAll, Inside
<1>3. SaverIsCurrent /\ MatchingHandleSeesAll /\ SavedIsOnDisk
  BY DEF SaverIsCurrent, MatchingHandleSeesAll, SavedIsOnDisk
<1>4. QED
  BY <1>1, <1>2, <1>3 DEF Inv

(* Every step keeps the variables in their types.                          *)
LEMMA TypeStep == TypeOK /\ [Next]_vars => TypeOK'
<1> SUFFICES ASSUME TypeOK, [Next]_vars PROVE TypeOK'
  OBVIOUS
<1> USE ConstantsAssumption
<1> USE DEF TypeOK, Opening, Saving, Outcome, fileVars, handleVars
<1>1. ASSUME NEW p \in Proc, NEW new \in SUBSET Edit, Save(p, new) PROVE TypeOK'
  BY <1>1 DEF Save, Goto
<1>2. ASSUME NEW p \in Proc, StartOpen(p) PROVE TypeOK'
  BY <1>2 DEF StartOpen, At, Goto
<1>3. ASSUME NEW p \in Proc, Parse(p) PROVE TypeOK'
  BY <1>3 DEF Parse, At, Goto
<1>4. ASSUME NEW p \in Proc, FinishOpen(p) PROVE TypeOK'
  BY <1>4 DEF FinishOpen, At, Goto
<1>5. ASSUME NEW p \in Proc, ChangedWhileOpening(p) PROVE TypeOK'
  BY <1>5 DEF ChangedWhileOpening, Drop, Goto
<1>6. ASSUME NEW p \in Proc, Close(p) PROVE TypeOK'
  BY <1>6 DEF Close, Drop, Goto
<1>7. ASSUME NEW p \in Proc, Lock(p) PROVE TypeOK'
  BY <1>7 DEF Lock, At, Goto
<1>8. ASSUME NEW p \in Proc, RefuseBusy(p) PROVE TypeOK'
  BY <1>8 DEF RefuseBusy, At, Finish, Goto
<1>9. ASSUME NEW p \in Proc, Check(p) PROVE TypeOK'
  BY <1>9 DEF Check, At, Goto
<1>10. ASSUME NEW p \in Proc, RefuseChanged(p) PROVE TypeOK'
  BY <1>10 DEF RefuseChanged, At, Finish, Goto
<1>11. ASSUME NEW p \in Proc, RefuseRemoved(p) PROVE TypeOK'
  BY <1>11 DEF RefuseRemoved, Finish, Goto
<1>12. ASSUME NEW p \in Proc, Replace(p) PROVE TypeOK'
  BY <1>12 DEF Replace, At, Goto
<1>13. ASSUME NEW p \in Proc, Refinger(p) PROVE TypeOK'
  BY <1>13 DEF Refinger, At, Finish, Goto
<1>14. ASSUME NEW p \in Proc, FailSave(p) PROVE TypeOK'
  BY <1>14 DEF FailSave, Fault, Finish, Goto
<1>15. ASSUME NEW p \in Proc, FailOpen(p) PROVE TypeOK'
  BY <1>15 DEF FailOpen, Fault, Drop, Goto
<1>16. ASSUME NEW p \in Proc, Crash(p) PROVE TypeOK'
  BY <1>16 DEF Crash, Fault, Drop, Goto
<1>17. ASSUME Unplug \/ Plug PROVE TypeOK'
  BY <1>17 DEF Unplug, Plug
<1>18. ASSUME NEW f \in Foreign, NEW e \in Edit, ForeignSave(f, e) PROVE TypeOK'
  BY <1>18 DEF ForeignSave
<1>19. CASE UNCHANGED vars
  BY <1>19 DEF vars
<1>20. QED
  BY <1>1, <1>2, <1>3, <1>4, <1>5, <1>6, <1>7, <1>8, <1>9, <1>10, <1>11, <1>12, <1>13, <1>14, <1>15, <1>16, <1>17, <1>18, <1>19 DEF Next, Step

(* The digests in memory stay those of the file or older ones.             *)
LEMMA DigestsStep ==
  TypeOK /\ DigestsAreOld /\ [Next]_vars => DigestsAreOld'
<1> SUFFICES ASSUME TypeOK, DigestsAreOld, [Next]_vars
             PROVE  DigestsAreOld'
  OBVIOUS
<1> USE ConstantsAssumption
<1> USE DEF TypeOK, DigestsAreOld, Opening, Saving,
            fileVars, handleVars
<1>1. ASSUME NEW p \in Proc, NEW new \in SUBSET Edit, Save(p, new)
      PROVE  DigestsAreOld'
  BY <1>1 DEF Save, Goto
<1>2. ASSUME NEW p \in Proc, StartOpen(p) PROVE DigestsAreOld'
  BY <1>2 DEF StartOpen, At, Goto
<1>3. ASSUME NEW p \in Proc, Parse(p) PROVE DigestsAreOld'
  BY <1>3 DEF Parse, At, Goto
<1>4. ASSUME NEW p \in Proc, FinishOpen(p) PROVE DigestsAreOld'
  BY <1>4 DEF FinishOpen, At, Goto
<1>5. ASSUME NEW p \in Proc,
             ChangedWhileOpening(p) \/ Close(p) \/ FailOpen(p) \/ Crash(p)
      PROVE  DigestsAreOld'
  BY <1>5 DEF ChangedWhileOpening, Close, FailOpen, Crash,
            Drop, Goto, Fault
<1>6. ASSUME NEW p \in Proc, Lock(p) PROVE DigestsAreOld'
  BY <1>6 DEF Lock, At, Goto
<1>7. ASSUME NEW p \in Proc,
             RefuseBusy(p) \/ RefuseChanged(p) \/ RefuseRemoved(p) \/ FailSave(p)
      PROVE  DigestsAreOld'
  BY <1>7 DEF RefuseBusy, RefuseChanged, RefuseRemoved, FailSave,
            At, Finish, Goto, Fault
<1>8. ASSUME NEW p \in Proc, Check(p) PROVE DigestsAreOld'
  BY <1>8 DEF Check, At, Goto
<1>9. ASSUME NEW p \in Proc, Replace(p) PROVE DigestsAreOld'
  BY <1>9 DEF Replace, At, Goto
<1>10. ASSUME NEW p \in Proc, Refinger(p) PROVE DigestsAreOld'
  BY <1>10 DEF Refinger, At, Finish, Goto
<1>11. CASE Unplug \/ Plug
  BY <1>11 DEF Unplug, Plug
<1>12. ASSUME NEW f \in Foreign, NEW e \in Edit, ForeignSave(f, e)
      PROVE  DigestsAreOld'
  BY <1>12 DEF ForeignSave
<1>13. CASE UNCHANGED vars
  BY <1>13 DEF vars
<1>14. QED
  BY <1>1, <1>2, <1>3, <1>4, <1>5, <1>6, <1>7, <1>8, <1>9, <1>10, <1>11, <1>12, <1>13
  DEF Next, Step

(* A process enters a save with the flock and releases it on every way out. *)
LEMMA LockStep ==
  TypeOK /\ LockIsHeld /\ [Next]_vars => LockIsHeld'
<1> SUFFICES ASSUME TypeOK, LockIsHeld, [Next]_vars
             PROVE  LockIsHeld'
  OBVIOUS
<1> USE ConstantsAssumption
<1> USE DEF TypeOK, LockIsHeld, Inside, Opening, Saving,
            fileVars, handleVars
<1>1. ASSUME NEW p \in Proc, NEW new \in SUBSET Edit, Save(p, new)
      PROVE  LockIsHeld'
  BY <1>1 DEF Save, Goto
<1>2. ASSUME NEW p \in Proc, StartOpen(p) PROVE LockIsHeld'
  BY <1>2 DEF StartOpen, At, Goto
<1>3. ASSUME NEW p \in Proc, Parse(p) PROVE LockIsHeld'
  BY <1>3 DEF Parse, At, Goto
<1>4. ASSUME NEW p \in Proc, FinishOpen(p) PROVE LockIsHeld'
  BY <1>4 DEF FinishOpen, At, Goto
<1>5. ASSUME NEW p \in Proc,
             ChangedWhileOpening(p) \/ Close(p) \/ FailOpen(p) \/ Crash(p)
      PROVE  LockIsHeld'
  BY <1>5 DEF ChangedWhileOpening, Close, FailOpen, Crash,
            Drop, Goto, Fault
<1>6. ASSUME NEW p \in Proc, Lock(p) PROVE LockIsHeld'
  BY <1>6 DEF Lock, At, Goto
<1>7. ASSUME NEW p \in Proc,
             RefuseBusy(p) \/ RefuseChanged(p) \/ RefuseRemoved(p) \/ FailSave(p)
      PROVE  LockIsHeld'
  BY <1>7 DEF RefuseBusy, RefuseChanged, RefuseRemoved, FailSave,
            At, Finish, Goto, Fault
<1>8. ASSUME NEW p \in Proc, Check(p) PROVE LockIsHeld'
  BY <1>8 DEF Check, At, Goto
<1>9. ASSUME NEW p \in Proc, Replace(p) PROVE LockIsHeld'
  BY <1>9 DEF Replace, At, Goto
<1>10. ASSUME NEW p \in Proc, Refinger(p) PROVE LockIsHeld'
  BY <1>10 DEF Refinger, At, Finish, Goto
<1>11. CASE Unplug \/ Plug
  BY <1>11 DEF Unplug, Plug
<1>12. ASSUME NEW f \in Foreign, NEW e \in Edit, ForeignSave(f, e)
      PROVE  LockIsHeld'
  BY <1>12 DEF ForeignSave
<1>13. CASE UNCHANGED vars
  BY <1>13 DEF vars
<1>14. QED
  BY <1>1, <1>2, <1>3, <1>4, <1>5, <1>6, <1>7, <1>8, <1>9, <1>10, <1>11, <1>12, <1>13
  DEF Next, Step

(* A save during an open changes the digest the open will compare.         *)
LEMMA ParsedStep ==
  TypeOK /\ ParsedSeesAll /\ DigestsAreOld /\ [Next]_vars => ParsedSeesAll'
<1> SUFFICES ASSUME TypeOK, ParsedSeesAll, DigestsAreOld, [Next]_vars
             PROVE  ParsedSeesAll'
  OBVIOUS
<1> USE ConstantsAssumption
<1> USE DEF TypeOK, ParsedSeesAll, DigestsAreOld, Opening, Saving,
            fileVars, handleVars
<1>1. ASSUME NEW p \in Proc, NEW new \in SUBSET Edit, Save(p, new)
      PROVE  ParsedSeesAll'
  BY <1>1 DEF Save, Goto
<1>2. ASSUME NEW p \in Proc, StartOpen(p) PROVE ParsedSeesAll'
  BY <1>2 DEF StartOpen, At, Goto
<1>3. ASSUME NEW p \in Proc, Parse(p) PROVE ParsedSeesAll'
  BY <1>3 DEF Parse, At, Goto
<1>4. ASSUME NEW p \in Proc, FinishOpen(p) PROVE ParsedSeesAll'
  BY <1>4 DEF FinishOpen, At, Goto
<1>5. ASSUME NEW p \in Proc,
             ChangedWhileOpening(p) \/ Close(p) \/ FailOpen(p) \/ Crash(p)
      PROVE  ParsedSeesAll'
  BY <1>5 DEF ChangedWhileOpening, Close, FailOpen, Crash,
            Drop, Goto, Fault
<1>6. ASSUME NEW p \in Proc, Lock(p) PROVE ParsedSeesAll'
  BY <1>6 DEF Lock, At, Goto
<1>7. ASSUME NEW p \in Proc,
             RefuseBusy(p) \/ RefuseChanged(p) \/ RefuseRemoved(p) \/ FailSave(p)
      PROVE  ParsedSeesAll'
  BY <1>7 DEF RefuseBusy, RefuseChanged, RefuseRemoved, FailSave,
            At, Finish, Goto, Fault
<1>8. ASSUME NEW p \in Proc, Check(p) PROVE ParsedSeesAll'
  BY <1>8 DEF Check, At, Goto
<1>9. ASSUME NEW p \in Proc, Replace(p) PROVE ParsedSeesAll'
  BY <1>9 DEF Replace, At, Goto
<1>10. ASSUME NEW p \in Proc, Refinger(p) PROVE ParsedSeesAll'
  BY <1>10 DEF Refinger, At, Finish, Goto
<1>11. CASE Unplug \/ Plug
  BY <1>11 DEF Unplug, Plug
<1>12. ASSUME NEW f \in Foreign, NEW e \in Edit, ForeignSave(f, e)
      PROVE  ParsedSeesAll'
  BY <1>12 DEF ForeignSave
<1>13. CASE UNCHANGED vars
  BY <1>13 DEF vars
<1>14. QED
  BY <1>1, <1>2, <1>3, <1>4, <1>5, <1>6, <1>7, <1>8, <1>9, <1>10, <1>11, <1>12, <1>13
  DEF Next, Step

(* Under the flock only another program can change the file.               *)
LEMMA SaverStep ==
  TypeOK /\ SaverIsCurrent /\ LockIsHeld /\ [Next]_vars => SaverIsCurrent'
<1> SUFFICES ASSUME TypeOK, SaverIsCurrent, LockIsHeld, [Next]_vars
             PROVE  SaverIsCurrent'
  OBVIOUS
<1> USE ConstantsAssumption
<1> USE DEF TypeOK, SaverIsCurrent, LockIsHeld, Inside, Opening, Saving,
            fileVars, handleVars
<1>1. ASSUME NEW p \in Proc, NEW new \in SUBSET Edit, Save(p, new)
      PROVE  SaverIsCurrent'
  BY <1>1 DEF Save, Goto
<1>2. ASSUME NEW p \in Proc, StartOpen(p) PROVE SaverIsCurrent'
  BY <1>2 DEF StartOpen, At, Goto
<1>3. ASSUME NEW p \in Proc, Parse(p) PROVE SaverIsCurrent'
  BY <1>3 DEF Parse, At, Goto
<1>4. ASSUME NEW p \in Proc, FinishOpen(p) PROVE SaverIsCurrent'
  BY <1>4 DEF FinishOpen, At, Goto
<1>5. ASSUME NEW p \in Proc,
             ChangedWhileOpening(p) \/ Close(p) \/ FailOpen(p) \/ Crash(p)
      PROVE  SaverIsCurrent'
  BY <1>5 DEF ChangedWhileOpening, Close, FailOpen, Crash,
            Drop, Goto, Fault
<1>6. ASSUME NEW p \in Proc, Lock(p) PROVE SaverIsCurrent'
  BY <1>6 DEF Lock, At, Goto
<1>7. ASSUME NEW p \in Proc,
             RefuseBusy(p) \/ RefuseChanged(p) \/ RefuseRemoved(p) \/ FailSave(p)
      PROVE  SaverIsCurrent'
  BY <1>7 DEF RefuseBusy, RefuseChanged, RefuseRemoved, FailSave,
            At, Finish, Goto, Fault
<1>8. ASSUME NEW p \in Proc, Check(p) PROVE SaverIsCurrent'
  BY <1>8 DEF Check, At, Goto
<1>9. ASSUME NEW p \in Proc, Replace(p) PROVE SaverIsCurrent'
  BY <1>9 DEF Replace, At, Goto
<1>10. ASSUME NEW p \in Proc, Refinger(p) PROVE SaverIsCurrent'
  BY <1>10 DEF Refinger, At, Finish, Goto
<1>11. CASE Unplug \/ Plug
  BY <1>11 DEF Unplug, Plug
<1>12. ASSUME NEW f \in Foreign, NEW e \in Edit, ForeignSave(f, e)
      PROVE  SaverIsCurrent'
  BY <1>12 DEF ForeignSave
<1>13. CASE UNCHANGED vars
  BY <1>13 DEF vars
<1>14. QED
  BY <1>1, <1>2, <1>3, <1>4, <1>5, <1>6, <1>7, <1>8, <1>9, <1>10, <1>11, <1>12, <1>13
  DEF Next, Step

(* A digest that matches was taken when all of the file was in the handle. *)
LEMMA MatchingStep ==
  TypeOK /\ MatchingHandleSeesAll /\ SaverIsCurrent /\ ParsedSeesAll /\ DigestsAreOld /\ [Next]_vars => MatchingHandleSeesAll'
<1> SUFFICES ASSUME TypeOK, MatchingHandleSeesAll, SaverIsCurrent, ParsedSeesAll, DigestsAreOld, [Next]_vars
             PROVE  MatchingHandleSeesAll'
  OBVIOUS
<1> USE ConstantsAssumption
<1> USE DEF TypeOK, MatchingHandleSeesAll, SaverIsCurrent, ParsedSeesAll, DigestsAreOld, Opening, Saving,
            fileVars, handleVars
<1>1. ASSUME NEW p \in Proc, NEW new \in SUBSET Edit, Save(p, new)
      PROVE  MatchingHandleSeesAll'
  BY <1>1 DEF Save, Goto
<1>2. ASSUME NEW p \in Proc, StartOpen(p) PROVE MatchingHandleSeesAll'
  BY <1>2 DEF StartOpen, At, Goto
<1>3. ASSUME NEW p \in Proc, Parse(p) PROVE MatchingHandleSeesAll'
  BY <1>3 DEF Parse, At, Goto
<1>4. ASSUME NEW p \in Proc, FinishOpen(p) PROVE MatchingHandleSeesAll'
  BY <1>4 DEF FinishOpen, At, Goto
<1>5. ASSUME NEW p \in Proc,
             ChangedWhileOpening(p) \/ Close(p) \/ FailOpen(p) \/ Crash(p)
      PROVE  MatchingHandleSeesAll'
  BY <1>5 DEF ChangedWhileOpening, Close, FailOpen, Crash,
            Drop, Goto, Fault
<1>6. ASSUME NEW p \in Proc, Lock(p) PROVE MatchingHandleSeesAll'
  BY <1>6 DEF Lock, At, Goto
<1>7. ASSUME NEW p \in Proc,
             RefuseBusy(p) \/ RefuseChanged(p) \/ RefuseRemoved(p) \/ FailSave(p)
      PROVE  MatchingHandleSeesAll'
  BY <1>7 DEF RefuseBusy, RefuseChanged, RefuseRemoved, FailSave,
            At, Finish, Goto, Fault
<1>8. ASSUME NEW p \in Proc, Check(p) PROVE MatchingHandleSeesAll'
  BY <1>8 DEF Check, At, Goto
<1>9. ASSUME NEW p \in Proc, Replace(p) PROVE MatchingHandleSeesAll'
  BY <1>9 DEF Replace, At, Goto
<1>10. ASSUME NEW p \in Proc, Refinger(p) PROVE MatchingHandleSeesAll'
  BY <1>10 DEF Refinger, At, Finish, Goto
<1>11. CASE Unplug \/ Plug
  BY <1>11 DEF Unplug, Plug
<1>12. ASSUME NEW f \in Foreign, NEW e \in Edit, ForeignSave(f, e)
      PROVE  MatchingHandleSeesAll'
  BY <1>12 DEF ForeignSave
<1>13. CASE UNCHANGED vars
  BY <1>13 DEF vars
<1>14. QED
  BY <1>1, <1>2, <1>3, <1>4, <1>5, <1>6, <1>7, <1>8, <1>9, <1>10, <1>11, <1>12, <1>13, ZenonT(40)
  DEF Next, Step

(* A replacement keeps what was saved: the saver has seen all of it.       *)
LEMMA SavedStep ==
  TypeOK /\ SavedIsOnDisk /\ SaverIsCurrent /\ MatchingHandleSeesAll /\ [Next]_vars => SavedIsOnDisk'
<1> SUFFICES ASSUME TypeOK, SavedIsOnDisk, SaverIsCurrent, MatchingHandleSeesAll, [Next]_vars
             PROVE  SavedIsOnDisk'
  OBVIOUS
<1> USE ConstantsAssumption
<1> USE DEF TypeOK, SavedIsOnDisk, SaverIsCurrent, MatchingHandleSeesAll, Opening, Saving,
            fileVars, handleVars
<1>1. ASSUME NEW p \in Proc, NEW new \in SUBSET Edit, Save(p, new)
      PROVE  SavedIsOnDisk'
  BY <1>1 DEF Save, Goto
<1>2. ASSUME NEW p \in Proc, StartOpen(p) PROVE SavedIsOnDisk'
  BY <1>2 DEF StartOpen, At, Goto
<1>3. ASSUME NEW p \in Proc, Parse(p) PROVE SavedIsOnDisk'
  BY <1>3 DEF Parse, At, Goto
<1>4. ASSUME NEW p \in Proc, FinishOpen(p) PROVE SavedIsOnDisk'
  BY <1>4 DEF FinishOpen, At, Goto
<1>5. ASSUME NEW p \in Proc,
             ChangedWhileOpening(p) \/ Close(p) \/ FailOpen(p) \/ Crash(p)
      PROVE  SavedIsOnDisk'
  BY <1>5 DEF ChangedWhileOpening, Close, FailOpen, Crash,
            Drop, Goto, Fault
<1>6. ASSUME NEW p \in Proc, Lock(p) PROVE SavedIsOnDisk'
  BY <1>6 DEF Lock, At, Goto
<1>7. ASSUME NEW p \in Proc,
             RefuseBusy(p) \/ RefuseChanged(p) \/ RefuseRemoved(p) \/ FailSave(p)
      PROVE  SavedIsOnDisk'
  BY <1>7 DEF RefuseBusy, RefuseChanged, RefuseRemoved, FailSave,
            At, Finish, Goto, Fault
<1>8. ASSUME NEW p \in Proc, Check(p) PROVE SavedIsOnDisk'
  BY <1>8 DEF Check, At, Goto
<1>9. ASSUME NEW p \in Proc, Replace(p) PROVE SavedIsOnDisk'
  BY <1>9 DEF Replace, At, Goto
<1>10. ASSUME NEW p \in Proc, Refinger(p) PROVE SavedIsOnDisk'
  BY <1>10 DEF Refinger, At, Finish, Goto
<1>11. CASE Unplug \/ Plug
  BY <1>11 DEF Unplug, Plug
<1>12. ASSUME NEW f \in Foreign, NEW e \in Edit, ForeignSave(f, e)
      PROVE  SavedIsOnDisk'
  BY <1>12 DEF ForeignSave
<1>13. CASE UNCHANGED vars
  BY <1>13 DEF vars
<1>14. QED
  BY <1>1, <1>2, <1>3, <1>4, <1>5, <1>6, <1>7, <1>8, <1>9, <1>10, <1>11, <1>12, <1>13
  DEF Next, Step

-----------------------------------------------------------------------------
(* The invariant holds in every reachable state.                           *)
LEMMA Invariance == Spec => []Inv
<1>1. Inv /\ [Next]_vars => Inv'
  BY TypeStep, DigestsStep, LockStep, ParsedStep, SaverStep, MatchingStep,
     SavedStep DEF Inv
<1>2. QED
  BY InvInit, <1>1, PTL DEF Spec

(* Every variable keeps its type; an open handle always has a fingerprint.  *)
THEOREM TypeCorrect == Spec => []TypeOK
<1>1. Inv => TypeOK
  BY DEF Inv
<1>2. QED
  BY Invariance, <1>1, PTL

(* What save acknowledged is in the file, until another program saves in    *)
(* the middle of one of our saves.                                          *)
THEOREM AcknowledgedIsDurable == Spec => []SavedIsOnDisk
<1>1. Inv => SavedIsOnDisk
  BY DEF Inv
<1>2. QED
  BY Invariance, <1>1, PTL

(* A handle whose fingerprint matches the file holds all of the file.       *)
THEOREM MatchIsEnough == Spec => []MatchingHandleSeesAll
<1>1. Inv => MatchingHandleSeesAll
  BY DEF Inv
<1>2. QED
  BY Invariance, <1>1, PTL

(* Only a replacement changes the file of a vault no other program writes. *)
LEMMA ContentStep ==
  Inv /\ [Next]_vars => (~raced => content \subseteq content')
<1> SUFFICES ASSUME Inv, [Next]_vars, ~raced
             PROVE  content \subseteq content'
  OBVIOUS
<1>1. ASSUME NEW p \in Proc, Replace(p) PROVE content \subseteq content'
  <2>1. print[p] = version
    BY <1>1 DEF Inv, SaverIsCurrent, Replace, At
  <2>2. content \subseteq tree[p]
    BY <2>1 DEF Inv, MatchingHandleSeesAll
  <2>3. QED
    BY <1>1, <2>2 DEF Replace
<1>2. ASSUME NEW f \in Foreign, NEW e \in Edit, ForeignSave(f, e)
      PROVE  content \subseteq content'
  BY <1>2 DEF ForeignSave
<1>3. CASE UNCHANGED content
  BY <1>3
<1>4. QED
  BY <1>1, <1>2, <1>3
  DEF Next, Step, vars, fileVars, StartOpen, Parse, FinishOpen,
      ChangedWhileOpening, Close, Save, Lock, RefuseBusy, Check,
      RefuseChanged, RefuseRemoved, Refinger, FailSave, FailOpen, Crash,
      Unplug, Plug

(* No save of the program ever drops an edit from the file, for any number  *)
(* of processes, whatever other programs save between their saves.          *)
THEOREM NothingIsLost == Spec => NoLostUpdate
<1>1. Inv /\ [Next]_vars => [~raced => content \subseteq content']_vars
  BY ContentStep
<1>2. QED
  BY Invariance, <1>1, PTL DEF Spec, NoLostUpdate

-----------------------------------------------------------------------------
(* The refinement of SharedVault.                                          *)

(* One step of the file is one step, or none, of the load-linked and        *)
(* store-conditional vault.                                                 *)
LEMMA RefinementStep ==
  ASSUME Inv, [Next]_vars, ~raced'
  PROVE  [Shared!Next]_Shared!vars
<1> USE ConstantsAssumption DEF Inv, TypeOK
<1>0. ~raced
  BY DEF Next, Step, vars, fileVars, StartOpen, Parse, FinishOpen,
         ChangedWhileOpening, Close, Save, Lock, RefuseBusy, Check,
         RefuseChanged, RefuseRemoved, Replace, Refinger, FailSave, FailOpen,
         Crash, Unplug, Plug, ForeignSave
<1>1. ASSUME NEW p \in Proc, FinishOpen(p) PROVE Shared!Open(p)
  BY <1>1 DEF FinishOpen, Goto, At, fileVars, Fresh, Shared!Open
<1>2. ASSUME NEW p \in Proc, Replace(p)
      PROVE  Shared!Commit(p, tree[p])
  <2>1. p \in Fresh
    BY <1>0, <1>2 DEF SaverIsCurrent, Replace, At, Fresh
  <2>2. content' = content \cup tree[p]
    BY <1>0, <1>2, <2>1 DEF MatchingHandleSeesAll, Replace, Fresh
  <2>3. Fresh' = {}
    BY <1>2 DEF Replace, DigestsAreOld, handleVars, Fresh
  <2>4. QED
    BY <1>2, <2>1, <2>2, <2>3 DEF Replace, Shared!Commit
<1>3. ASSUME NEW p \in Proc, Refinger(p) PROVE Shared!Acknowledge(p)
  <2>1. content = tree[p]
    BY <1>0, <1>3 DEF SaverIsCurrent, Refinger, At
  <2>2. saved' = content'
    BY <1>0, <1>3, <2>1 DEF Refinger, SavedIsOnDisk, fileVars
  <2>3. Fresh' = Fresh \cup {p}
    BY <1>3 DEF Refinger, fileVars, Fresh
  <2>4. QED
    BY <1>3, <2>2, <2>3 DEF Refinger, fileVars, Shared!Acknowledge
<1>4. ASSUME NEW p \in Proc,
             Close(p) \/ ChangedWhileOpening(p) \/ FailOpen(p) \/ Crash(p)
      PROVE  Shared!Close(p)
  <2>1. print' = [print EXCEPT ![p] = NoVersion] /\ UNCHANGED version
    BY <1>4 DEF Close, ChangedWhileOpening, FailOpen, Crash, Drop, fileVars
  <2>2. Fresh' = Fresh \ {p}
    BY <2>1 DEF Fresh
  <2>3. QED
    BY <1>4, <2>2 DEF Close, ChangedWhileOpening, FailOpen, Crash, fileVars,
                      Shared!Close
<1>5. ASSUME NEW f \in Foreign, NEW e \in Edit, ForeignSave(f, e)
      PROVE  Shared!OtherProgram({e})
  <2>1. Fresh' = {}
    BY <1>5 DEF ForeignSave, DigestsAreOld, handleVars, Fresh
  <2>2. QED
    BY <1>0, <1>5, <2>1 DEF ForeignSave, Shared!OtherProgram
<1>6. CASE UNCHANGED <<version, content, print, saved, raced>>
  BY <1>6 DEF Fresh, Shared!vars
<1>7. QED
  <2>1. CASE \E p \in Proc : FinishOpen(p) \/ Refinger(p)
    BY <2>1, <1>1, <1>3 DEF Shared!Next
  <2>2. CASE \E p \in Proc : Replace(p)
    <3>1. PICK p \in Proc : Replace(p)
      BY <2>2
    <3>2. tree[p] \in SUBSET Edit
      OBVIOUS
    <3>3. QED
      BY <3>1, <3>2, <1>2 DEF Shared!Next
  <2>3. CASE \E p \in Proc :
               Close(p) \/ ChangedWhileOpening(p) \/ FailOpen(p) \/ Crash(p)
    BY <2>3, <1>4 DEF Shared!Next
  <2>4. CASE \E f \in Foreign, e \in Edit : ForeignSave(f, e)
    BY <2>4, <1>5 DEF Shared!Next
  <2>5. QED
    BY <2>1, <2>2, <2>3, <2>4, <1>6
    DEF Next, Step, vars, fileVars, handleVars, StartOpen, Parse, Save, Lock,
        RefuseBusy, Check, RefuseChanged, RefuseRemoved, FailSave, Finish,
        Unplug, Plug

(* Opening the vault and saving it are a load-linked and a store-conditional *)
(* for any number of processes, until another program writes during a save.  *)
THEOREM SavesAreConditional == Spec => ImplementsSharedVault
<1>1. Init => Shared!Init
  BY ConstantsAssumption DEF Init, Shared!Init, Fresh
<1>2. Inv /\ [Next]_vars => [Shared!Next]_Shared!vars
  <2>1. raced' => Shared!Next
    BY DEF Shared!Next, Shared!Break
  <2>2. QED
    BY <2>1, RefinementStep
<1>3. QED
  BY Invariance, <1>1, <1>2, PTL
  DEF Spec, ImplementsSharedVault, Shared!Spec

=============================================================================
