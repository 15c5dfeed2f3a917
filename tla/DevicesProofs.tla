---------------------------- MODULE DevicesProofs ----------------------------
(* Theorems about Devices, for any number of devices, computers, processes,  *)
(* threads and passwords, and any overlap of their calls.  Inv is the        *)
(* inductive invariant: the types, which labels each call passes through,    *)
(* and what a call may hold or know about the device ids at each of them.    *)
(* PasswordInv and RosterInv add what a call may rely on when it returns or  *)
(* writes devices.json: everything that no other call replaced meanwhile.    *)
EXTENDS Devices, TLAPS

(* The labels of each call, in the order of the code. *)
LabelsOf(o) ==
  CASE o = "none"     -> {"idle"}
    [] o = "unlock"   -> {"readRoster", "unwrap", "writeRoster", "saveRoster"}
    [] o = "register" -> {"localKey", "writeIdentity", "writeSlot", "saveSlot",
                          "readRoster", "writeRoster", "saveRoster"}
    [] o = "blank"    -> {"localKey", "writeIdentity", "writeSlot"}
    [] o = "revoke"   -> {"unlinkSlot", "readRoster", "writeRoster",
                          "saveRoster", "saveAgain"}
    [] o = "reset"    -> {"readRoster", "unwrap", "writeRoster", "saveRoster",
                          "writePassword", "saveSlot"}
    [] OTHER          -> {"writePassword", "saveSlot"}

(* Calls keep to their labels, at the computer that has the USB. *)
CallsOK ==
  \A p \in Proc :
    /\ pc[p] \in LabelsOf(op[p])
    /\ pc[p] # "idle" => at # NoHost
    /\ op[p] \in {"unlock", "register", "blank", "revoke", "reset"} => dev[p] \in Device
    /\ Installing(p) => newPw[p] \in Password

(* The calls that have minted an id but not written its slot yet. *)
Enrolling(p) ==
  op[p] = "register" /\ pc[p] \in {"localKey", "writeIdentity", "writeSlot"}

(* An id nobody was given yet occurs nowhere on the USB or in a call. *)
MintedFirst ==
  /\ \A d \in Device \ minted :
       /\ slots[d] = NoSlot
       /\ roster[d] = "absent"
       /\ d \notin revoking /\ d \notin enrolled
       /\ \A q \in Proc : seen[q][d] = "absent"
  /\ \A p \in Proc : op[p] = "register" => dev[p] \in minted
  /\ \A p, q \in Proc :
       op[p] = "register" /\ op[q] = "register" /\ dev[p] = dev[q] => p = q

(* Until its slot is written, a minted id is known to its own call only. *)
EnrollingUnknown ==
  \A p \in Proc : Enrolling(p) =>
    /\ slots[dev[p]] = NoSlot
    /\ roster[dev[p]] = "absent"
    /\ dev[p] \notin revoking /\ dev[p] \notin enrolled
    /\ \A q \in Proc : seen[q][dev[p]] = "absent"

(* A revocation removes the slot before it does anything else. *)
RevokingUnlinks ==
  /\ \A p \in Proc : op[p] = "revoke" =>
       /\ dev[p] \in revoking
       /\ pc[p] # "unlinkSlot" => slots[dev[p]] = NoSlot
  /\ revoked \subseteq revoking
  /\ RevocationIsReal

(* Without a revocation of d nobody marks or unlinks d. *)
OnlyRevocationRevokes ==
  \A d \in Device \ revoking :
    /\ roster[d] # "revoked"
    /\ \A q \in Proc : seen[q][d] # "revoked"
    /\ d \in enrolled => slots[d] # NoSlot
    /\ \A p \in Proc :
         op[p] = "register" /\ ~Enrolling(p) /\ dev[p] = d => slots[d] # NoSlot

TypeInv == TypeOK /\ CallsOK

Inv ==
  /\ TypeInv
  /\ MintedFirst
  /\ EnrollingUnknown
  /\ RevokingUnlinks
  /\ OnlyRevocationRevokes

-----------------------------------------------------------------------------
LEMMA TypeInit == Init => TypeInv
  BY ConstantsAssumption
  DEF Init, TypeInv, TypeOK, CallsOK, LabelsOf, Installing, EmptyRoster, Record,
      Label, Call

(* A call that ends takes its own locals with it and nothing else. *)
LEMMA LeaveIs ==
  ASSUME TypeOK, NEW p \in Proc, Leave(p)
  PROVE  /\ pc' = [pc EXCEPT ![p] = "idle"]
         /\ op' = [op EXCEPT ![p] = "none"]
         /\ dev' = [dev EXCEPT ![p] = NoDevice]
         /\ seen' = [seen EXCEPT ![p] = EmptyRoster]
         /\ newPw' = [newPw EXCEPT ![p] = NoPassword]
         /\ stale' = [stale EXCEPT ![p] = {}]
BY DEF Leave, End, TypeOK

(* The end of any set of calls keeps the types of the calls. *)
LEMMA EndTypes ==
  ASSUME TypeInv, NEW S, End(S), UNCHANGED at
  PROVE  /\ pc' \in [Proc -> Label] /\ op' \in [Proc -> Call]
         /\ dev' \in [Proc -> Device \cup {NoDevice}]
         /\ seen' \in [Proc -> [Device -> Record]]
         /\ newPw' \in [Proc -> Password \cup {NoPassword}]
         /\ stale' \in [Proc -> SUBSET (Device \cup {"password.slot"})]
         /\ cli' \in SUBSET Proc
         /\ CallsOK'
<1> USE DEF TypeInv, TypeOK, CallsOK, LabelsOf, Installing, Label, Record, Call,
            EmptyRoster
<1>1. /\ pc' \in [Proc -> Label] /\ op' \in [Proc -> Call]
      /\ dev' \in [Proc -> Device \cup {NoDevice}]
    BY DEF End
<1>2. /\ seen' \in [Proc -> [Device -> Record]]
      /\ newPw' \in [Proc -> Password \cup {NoPassword}]
      /\ stale' \in [Proc -> SUBSET (Device \cup {"password.slot"})]
      /\ cli' \in SUBSET Proc
    BY DEF End
<1>3. CallsOK'
  <2>1. ASSUME NEW q \in Proc, q \in S
        PROVE  pc'[q] = "idle" /\ op'[q] = "none"
      BY <2>1 DEF End
  <2>2. ASSUME NEW q \in Proc, q \notin S
        PROVE  pc'[q] = pc[q] /\ op'[q] = op[q] /\ dev'[q] = dev[q] /\ newPw'[q] = newPw[q]
      BY <2>2 DEF End
  <2> QED
      BY <2>1, <2>2
<1> QED
    BY <1>1, <1>2, <1>3

(* A returning call leaves a well-typed session and history behind. *)
LEMMA ReturnTypes ==
  ASSUME TypeInv, NEW p \in Proc, Return(p)
  PROVE  /\ session' \in [Host -> {"none", "offered", "asked", "open"}]
         /\ minted' \in SUBSET Device /\ revoking' \in SUBSET Device
         /\ revoked' \in SUBSET Device /\ enrolled' \in SUBSET Device
         /\ acked' \in Password /\ unacked' \in SUBSET Password
<1> USE DEF TypeInv, TypeOK, CallsOK, Installing
<1>1. session' \in [Host -> {"none", "offered", "asked", "open"}]
    BY DEF Return, Opened
<1>2. /\ minted' \in SUBSET Device /\ revoking' \in SUBSET Device
      /\ revoked' \in SUBSET Device /\ enrolled' \in SUBSET Device
    BY DEF Return
<1>3. acked' \in Password /\ unacked' \in SUBSET Password
    BY DEF Return
<1> QED
    BY <1>1, <1>2, <1>3

LEMMA TypeStep == TypeInv /\ [Next]_vars => TypeInv'
<1> SUFFICES ASSUME TypeInv, [Next]_vars
             PROVE  TypeInv'
    OBVIOUS
<1> USE ConstantsAssumption
    DEF TypeInv, TypeOK, CallsOK, LabelsOf, Installing, Label, Record, Call,
        EmptyRoster, vars, usbVars, hostVars, callVars, memVars, pastVars
<1>1. ASSUME NEW p \in Proc, NEW d \in Device, RevokeDevice(p, d)
      PROVE  TypeInv'
    BY <1>1 DEF RevokeDevice, Asked, Enter, Goto, HasLocalKey
<1>2. ASSUME NEW p \in Proc, GenerateLocalKey(p)
      PROVE  TypeInv'
    BY <1>2 DEF GenerateLocalKey, Goto
<1>3. ASSUME NEW p \in Proc, RefuseLocalKey(p) \/ FindRevoked(p) \/ FailToUnwrap(p)
                               \/ FailWithoutSecret(p)
      PROVE  TypeInv'
  <2>1. /\ End({p})
        /\ UNCHANGED <<usbVars, hostVars, pastVars, lost, faults>>
      BY <1>3 DEF RefuseLocalKey, FindRevoked, FailToUnwrap, FailWithoutSecret, Leave
  <2>2. session' \in [Host -> {"none", "offered", "asked", "open"}]
      BY <1>3 DEF RefuseLocalKey, FindRevoked, FailToUnwrap, FailWithoutSecret, Enrolled,
                  Opened
  <2> QED
      BY <2>1, <2>2, EndTypes
<1>4. ASSUME NEW p \in Proc, WriteIdentity(p)
      PROVE  TypeInv'
    BY <1>4 DEF WriteIdentity, Goto
<1>5. ASSUME NEW p \in Proc, WriteDeviceSlot(p)
      PROVE  TypeInv'
    BY <1>5 DEF WriteDeviceSlot, At, Goto
<1>6. ASSUME NEW p \in Proc, UnlinkSlot(p)
      PROVE  TypeInv'
    BY <1>6 DEF UnlinkSlot, At, Goto
<1>7. ASSUME NEW p \in Proc, ReadRoster(p) \/ MisreadRoster(p)
      PROVE  TypeInv'
  <2> PICK r \in {roster, EmptyRoster} : TakeRoster(p, r)
      BY <1>7 DEF ReadRoster, MisreadRoster
  <2>1. seen' \in [Proc -> [Device -> Record]]
    <3>1. \A d \in Device : EditedRecord(p, d, r[d]) \in Record
        BY DEF EditedRecord
    <3> QED
        BY <3>1 DEF TakeRoster
  <2>2. faults' \in 0 .. MaxFaults
      BY <1>7 DEF ReadRoster, MisreadRoster, Fault
  <2>3. stale' \in [Proc -> SUBSET (Device \cup {"password.slot"})]
      BY DEF TakeRoster
  <2>4. CASE Unlocking(p) /\ Goto(p, "unwrap")
      BY <2>1, <2>2, <2>3, <2>4 DEF TakeRoster, At, Goto, Unlocking
  <2>5. CASE ~Unlocking(p) /\ Goto(p, "writeRoster")
      BY <2>1, <2>2, <2>3, <2>5 DEF TakeRoster, At, Goto, Unlocking
  <2> QED
      BY <2>4, <2>5 DEF TakeRoster
<1>9. ASSUME NEW p \in Proc, Unwrap(p)
      PROVE  TypeInv'
    BY <1>9 DEF Unwrap, At, Goto
<1>10. ASSUME NEW p \in Proc, UnwrapUnlisted(p)
      PROVE  TypeInv'
  <2>1. CASE op[p] = "unlock" /\ Return(p)
      BY <1>10, <2>1, ReturnTypes, EndTypes DEF UnwrapUnlisted, Return, Leave
  <2>2. CASE op[p] = "reset" /\ Goto(p, "writePassword")
      BY <1>10, <2>2 DEF UnwrapUnlisted, At, Goto
  <2> QED
      BY <1>10, <2>1, <2>2 DEF UnwrapUnlisted
<1>12. ASSUME NEW p \in Proc, WriteRoster(p)
      PROVE  TypeInv'
  <2>1. stale' \in [Proc -> SUBSET (Device \cup {"password.slot"})]
      BY <1>12 DEF WriteRoster, Outdate
  <2>2. lost' \in SUBSET Device /\ roster' \in [Device -> Record]
      BY <1>12 DEF WriteRoster
  <2>3. seen' \in [Proc -> [Device -> Record]]
      BY <1>12 DEF WriteRoster
  <2> QED
      BY <1>12, <2>1, <2>2, <2>3 DEF WriteRoster, At, Goto
<1>13. ASSUME NEW p \in Proc, WritePasswordSlot(p)
      PROVE  TypeInv'
  <2>1. stale' \in [Proc -> SUBSET (Device \cup {"password.slot"})]
      BY <1>13 DEF WritePasswordSlot, Outdate
  <2> QED
      BY <1>13, <2>1 DEF WritePasswordSlot, At, Goto
<1>15. ASSUME NEW p \in Proc, SaveManifest(p)
      PROVE  TypeInv'
  <2>2. ASSUME NEW l \in Label, <<op[p], pc[p], l>> \in Continuation,
               Goto(p, l), UNCHANGED <<callVars, seen, stale, session, pastVars>>
        PROVE  TypeInv'
    <3>1. \/ op[p] = "register" /\ l = "readRoster"
          \/ op[p] = "revoke" /\ l = "saveAgain"
          \/ op[p] = "reset" /\ l = "writePassword"
        BY <2>2 DEF Continuation
    <3> QED
        BY <1>15, <2>2, <3>1 DEF SaveManifest, Goto
  <2>3. CASE Return(p)
      BY <1>15, <2>3, ReturnTypes, EndTypes DEF SaveManifest, Return, Leave
  <2> QED
      BY <1>15, <2>2, <2>3 DEF SaveManifest
<1>16. ASSUME NEW p \in Proc, FailCall(p)
      PROVE  TypeInv'
  <2>1. key' \in [Host -> Device \cup {NoKey, TornKey}]
      BY <1>16 DEF FailCall, Tear
  <2>2. session' \in [Host -> {"none", "offered", "asked", "open"}]
      BY <1>16 DEF FailCall, Enrolled, Opened
  <2>3. faults' \in 0 .. MaxFaults
      BY <1>16 DEF FailCall, Fault
  <2> QED
      BY <1>16, <2>1, <2>2, <2>3, EndTypes DEF FailCall, Leave
<1>17. ASSUME NEW p \in Proc, CrashCli(p)
      PROVE  TypeInv'
  <2>1. faults' \in 0 .. MaxFaults
      BY <1>17 DEF CrashCli, Fault
  <2> QED
      BY <1>17, <2>1, EndTypes DEF CrashCli, Leave
<1>18. ASSUME NEW h \in Host, NEW w \in Password, UnlockWithPassword(h, w)
      PROVE  TypeInv'
    BY <1>18 DEF UnlockWithPassword
<1>19. ASSUME NEW p \in Proc, NEW w \in Password, ResetMasterPassword(p, w)
      PROVE  TypeInv'
    BY <1>19 DEF ResetMasterPassword, Asked, Enter, Goto, HasLocalKey
<1>20. ASSUME NEW p \in Proc, NEW old \in Password, NEW w \in Password,
             ChangeMasterPassword(p, old, w)
      PROVE  TypeInv'
    BY <1>20 DEF ChangeMasterPassword, Asked, Enter, Goto
<1>21. ASSUME NEW p \in Proc, NEW d \in Device, ProvisionPepper(p, d)
      PROVE  TypeInv'
  <2>1. PICK o \in {"register", "blank"} : Enter(p, o, d, NoPassword, "localKey")
      BY <1>21 DEF ProvisionPepper
  <2>2. /\ pc' = [pc EXCEPT ![p] = "localKey"]
        /\ op' = [op EXCEPT ![p] = o]
        /\ dev' = [dev EXCEPT ![p] = d]
        /\ newPw' = [newPw EXCEPT ![p] = NoPassword]
        /\ UNCHANGED <<seen, stale>>
      BY <2>1 DEF Enter, Goto
  <2>0. at \in Host /\ UNCHANGED <<at, cli>>
      BY <1>21 DEF ProvisionPepper, Asked
  <2>3. keyring' \in [Host -> SUBSET Device] /\ peppered' \in SUBSET Device
    <3>1. CASE UNCHANGED <<keyring, peppered>>
        BY <3>1
    <3>2. CASE /\ keyring' = [keyring EXCEPT ![at] = @ \cup {d}]
               /\ peppered' = peppered \cup {d}
      <4>1. keyring[at] \cup {d} \in SUBSET Device
          BY <2>0
      <4> QED
          BY <3>2, <4>1
    <3> QED
        BY <1>21, <3>1, <3>2 DEF ProvisionPepper
  <2>4. minted' \in SUBSET Device /\ session' \in [Host -> {"none", "offered", "asked", "open"}]
      BY <1>21 DEF ProvisionPepper
  <2>5. UNCHANGED <<usbVars, key, identity, bindingOf, revoking, revoked, enrolled, acked,
                    unacked, lost, faults>>
      BY <1>21 DEF ProvisionPepper
  <2>6. CallsOK'
      BY <2>0, <2>2
  <2> QED
      BY <2>0, <2>2, <2>3, <2>4, <2>5, <2>6
<1>22. ASSUME NEW p \in Proc, UnlockWithLocalKey(p)
      PROVE  TypeInv'
    BY <1>22 DEF UnlockWithLocalKey, Asked, Enter, Goto, HasLocalKey
<1>23. ASSUME NEW h \in Host, SkipRegister(h)
      PROVE  TypeInv'
  <2>1. session' \in [Host -> {"none", "offered", "asked", "open"}]
      BY <1>23 DEF SkipRegister, Opened
  <2> QED
      BY <1>23, <2>1 DEF SkipRegister
<1>24. ASSUME NEW h \in Host, SignOut(h) \/ Crash(h)
      PROVE  TypeInv'
  <2>1. EndProcess(h) /\ faults' \in 0 .. MaxFaults
      BY <1>24 DEF SignOut, Crash, Fault
  <2>2. /\ key' \in [Host -> Device \cup {NoKey, TornKey}]
        /\ session' \in [Host -> {"none", "offered", "asked", "open"}]
      BY <2>1 DEF EndProcess, Tear, Threads
  <2> QED
      BY <2>1, <2>2, EndTypes DEF EndProcess
<1>25. ASSUME Outside
      PROVE  TypeInv'
  <2>1. CASE Unplug
      BY <2>1 DEF Unplug, Idle
  <2>2. ASSUME NEW h \in Host, Plug(h)
        PROVE  TypeInv'
      BY <2>2 DEF Plug
  <2>3. ASSUME NEW h \in Host, WipeHome(h)
        PROVE  TypeInv'
      BY <2>3 DEF WipeHome, Fault
  <2>4. ASSUME NEW h \in Host, LoseKeyring(h)
        PROVE  TypeInv'
      BY <2>4 DEF LoseKeyring, Fault
  <2>5. ASSUME NEW h \in Host, NEW b \in Binding, ChangeBinding(h, b)
        PROVE  TypeInv'
      BY <2>5 DEF ChangeBinding, Fault
  <2> QED
      BY <1>25, <2>1, <2>2, <2>3, <2>4, <2>5 DEF Outside
<1>26. ASSUME UNCHANGED vars
      PROVE  TypeInv'
    BY <1>26 DEF vars
<1> QED
    BY <1>1, <1>2, <1>3, <1>4, <1>5, <1>6, <1>7, <1>9, <1>10, <1>12, <1>13, <1>15, <1>16, <1>17, <1>18, <1>19, <1>20, <1>21, <1>22, <1>23, <1>24, <1>25, <1>26
    DEF Next, Step, AppStep, WindowStep

-----------------------------------------------------------------------------
LEMMA SafeInit == Init => Inv
  BY TypeInit
  DEF Init, Inv, MintedFirst, EnrollingUnknown, Enrolling, RevokingUnlinks,
      RevocationIsReal, OnlyRevocationRevokes, EmptyRoster

(* Calls that end without a result forget what they knew. *)
LEMMA EndSafe ==
  ASSUME Inv, TypeInv', NEW S, End(S),
         UNCHANGED <<slots, roster, minted, revoking, revoked, enrolled>>
  PROVE  Inv'
<1>1. \A q \in Proc :
        \/ op'[q] = "none" /\ (\A d \in Device : seen'[q][d] = "absent")
        \/ pc'[q] = pc[q] /\ op'[q] = op[q] /\ dev'[q] = dev[q] /\ seen'[q] = seen[q]
    BY DEF End, EmptyRoster
<1> USE DEF Inv
<1>2. MintedFirst'
    BY <1>1 DEF MintedFirst
<1>3. EnrollingUnknown'
  <2>1. ASSUME NEW q \in Proc, Enrolling(q)'
        PROVE  Enrolling(q) /\ dev'[q] = dev[q] /\ dev[q] \in Device
      BY <1>1, <2>1 DEF Enrolling, TypeInv, CallsOK
  <2> QED
      BY <1>1, <2>1 DEF EnrollingUnknown
<1>4. RevokingUnlinks'
    BY <1>1 DEF RevokingUnlinks, RevocationIsReal
<1>5. OnlyRevocationRevokes'
    BY <1>1 DEF OnlyRevocationRevokes, Enrolling
<1> QED
    BY <1>2, <1>3, <1>4, <1>5

(* A call that returns after its slot accesses keeps the invariant. *)
LEMMA ReturnSafe ==
  ASSUME Inv, TypeInv', NEW p \in Proc, Return(p),
         pc[p] \in {"unwrap", "saveSlot", "saveRoster", "saveAgain"},
         UNCHANGED <<slots, roster>>
  PROVE  Inv'
<1> USE ConstantsAssumption
    DEF Inv, MintedFirst, EnrollingUnknown, Enrolling, RevokingUnlinks,
        RevocationIsReal, OnlyRevocationRevokes,
        TypeInv, TypeOK, CallsOK, Record, EmptyRoster, Return, Leave, End
<1>1. MintedFirst'
    OBVIOUS
<1>2. EnrollingUnknown'
    OBVIOUS
<1>3. RevokingUnlinks'
    OBVIOUS
<1>4. ASSUME NEW d \in Device, d \notin revoking
      PROVE  /\ roster[d] # "revoked"
             /\ \A q \in Proc : seen'[q][d] # "revoked"
             /\ d \in enrolled' => slots[d] # NoSlot
             /\ \A q \in Proc :
                  op'[q] = "register" /\ ~Enrolling(q)' /\ dev'[q] = d
                    => slots[d] # NoSlot
  <2>1. \A q \in Proc : q # p =>
          seen'[q] = seen[q] /\ op'[q] = op[q] /\ dev'[q] = dev[q] /\ pc'[q] = pc[q]
      OBVIOUS
  <2>2. op'[p] = "none" /\ seen'[p] = EmptyRoster
      OBVIOUS
  <2>3. d \in enrolled' => d \in enrolled \/ (op[p] = "register" /\ dev[p] = d)
      OBVIOUS
  <2>4. d \in enrolled' => slots[d] # NoSlot
      BY <1>4, <2>3
  <2>5. ASSUME NEW q \in Proc, op'[q] = "register", ~Enrolling(q)', dev'[q] = d
        PROVE  slots[d] # NoSlot
      BY <1>4, <2>1, <2>2, <2>5
  <2> QED
      BY <1>4, <2>1, <2>2, <2>4, <2>5
<1>5. OnlyRevocationRevokes'
    BY <1>4
<1> QED
    BY <1>1, <1>2, <1>3, <1>5

LEMMA SafeStep == Inv /\ TypeInv' /\ [Next]_vars => Inv'
<1> SUFFICES ASSUME Inv, TypeInv', [Next]_vars
             PROVE  Inv'
    OBVIOUS
<1> USE ConstantsAssumption
    DEF Inv, MintedFirst, EnrollingUnknown, Enrolling, RevokingUnlinks,
        RevocationIsReal, OnlyRevocationRevokes,
        TypeInv, TypeOK, CallsOK, LabelsOf, Installing, Label, Record, Call,
        EmptyRoster, vars, usbVars, hostVars, callVars, memVars, pastVars
<1>1. ASSUME NEW p \in Proc, NEW d \in Device, RevokeDevice(p, d)
      PROVE  Inv'
  <2>1. /\ op[p] = "none"
        /\ pc' = [pc EXCEPT ![p] = "unlinkSlot"]
        /\ op' = [op EXCEPT ![p] = "revoke"]
        /\ dev' = [dev EXCEPT ![p] = d]
        /\ revoking' = revoking \cup {d}
        /\ roster[d] # "absent" \/ slots[d] # NoSlot
      BY <1>1 DEF RevokeDevice, Enter, Goto
  <2>2. UNCHANGED <<slots, roster, seen, minted, revoked, enrolled>>
      BY <1>1 DEF RevokeDevice, Enter
  <2>3. \A q \in Proc : Enrolling(q)' <=> Enrolling(q)
      BY <2>1
  <2>4. MintedFirst'
      BY <2>1, <2>2
  <2>5. EnrollingUnknown'
      BY <2>1, <2>2, <2>3
  <2>6. RevokingUnlinks'
      BY <2>1, <2>2
  <2>7. OnlyRevocationRevokes'
      BY <2>1, <2>2, <2>3
  <2> QED
      BY <2>2, <2>4, <2>5, <2>6, <2>7
<1>2. ASSUME NEW p \in Proc, GenerateLocalKey(p)
      PROVE  Inv'
    BY <1>2 DEF GenerateLocalKey, Goto
<1>3. ASSUME NEW p \in Proc, RefuseLocalKey(p) \/ FindRevoked(p) \/ FailToUnwrap(p)
                               \/ FailWithoutSecret(p) \/ FailCall(p) \/ CrashCli(p)
      PROVE  Inv'
    BY <1>3, EndSafe DEF RefuseLocalKey, FindRevoked, FailToUnwrap, FailWithoutSecret,
       FailCall, CrashCli, Leave
<1>4. ASSUME NEW p \in Proc, WriteIdentity(p)
      PROVE  Inv'
    BY <1>4 DEF WriteIdentity, Goto
<1>5. ASSUME NEW p \in Proc, WriteDeviceSlot(p)
      PROVE  Inv'
  <2>1. /\ op[p] = "register" /\ dev[p] \in Device /\ Enrolling(p)
        /\ dev[p] \notin revoking /\ ~Enrolling(p)'
      BY <1>5 DEF WriteDeviceSlot, At, Goto
  <2>2. \A d \in Device : d # dev[p] => slots'[d] = slots[d]
      BY <1>5 DEF WriteDeviceSlot
  <2>3. slots'[dev[p]] # NoSlot
      BY <1>5, <2>1 DEF WriteDeviceSlot
  <2>4. UNCHANGED <<roster, op, dev, seen, minted, revoking, revoked, enrolled>>
      BY <1>5 DEF WriteDeviceSlot
  <2>5. \A q \in Proc : q # p => pc'[q] = pc[q]
      BY <1>5 DEF WriteDeviceSlot, Goto
  <2>6. MintedFirst'
      BY <2>1, <2>2, <2>4
  <2>7. EnrollingUnknown'
      BY <2>1, <2>2, <2>4, <2>5, SMTT(60)
  <2>8. RevokingUnlinks'
      BY <2>1, <2>2, <2>4, <2>5, SMTT(60)
  <2>9. ASSUME NEW d \in Device, d \notin revoking
        PROVE  /\ d \in enrolled => slots'[d] # NoSlot
               /\ \A q \in Proc :
                    op[q] = "register" /\ ~Enrolling(q)' /\ dev[q] = d
                      => slots'[d] # NoSlot
    <3>1. CASE d = dev[p]
        BY <2>3, <3>1
    <3>2. CASE d # dev[p]
      <4>1. slots'[d] = slots[d]
          BY <2>2, <3>2
      <4>2. ASSUME NEW q \in Proc, op[q] = "register", ~Enrolling(q)', dev[q] = d
            PROVE  ~Enrolling(q)
          BY <2>4, <2>5, <3>2, <4>2
      <4> QED
          BY <2>9, <4>1, <4>2
    <3> QED
        BY <3>1, <3>2
  <2>10. OnlyRevocationRevokes'
      BY <2>4, <2>9
  <2> QED
      BY <2>4, <2>6, <2>7, <2>8, <2>10
<1>6. ASSUME NEW p \in Proc, UnlinkSlot(p)
      PROVE  Inv'
  <2>a. op[p] = "revoke"
      BY <1>6 DEF UnlinkSlot, At
  <2>b. dev[p] \in Device /\ dev[p] \in revoking
      BY <2>a
  <2>c. slots'[dev[p]] = NoSlot
      BY <1>6, <2>b DEF UnlinkSlot
  <2>1. /\ op[p] = "revoke" /\ dev[p] \in Device /\ dev[p] \in revoking
        /\ slots'[dev[p]] = NoSlot
      BY <2>a, <2>b, <2>c
  <2>2. \A d \in Device : d # dev[p] => slots'[d] = slots[d]
      BY <1>6 DEF UnlinkSlot
  <2>3. UNCHANGED <<roster, op, dev, seen, minted, revoking, revoked, enrolled>>
      BY <1>6 DEF UnlinkSlot
  <2>4. pc' = [pc EXCEPT ![p] = "readRoster"]
      BY <1>6 DEF UnlinkSlot, Goto
  <2>5. MintedFirst'
      BY <2>1, <2>2, <2>3
  <2>6. EnrollingUnknown'
      BY <2>1, <2>2, <2>3, <2>4
  <2>7. RevokingUnlinks'
      BY <2>1, <2>2, <2>3, <2>4
  <2>8. OnlyRevocationRevokes'
      BY <2>1, <2>2, <2>3, <2>4
  <2> QED
      BY <2>3, <2>5, <2>6, <2>7, <2>8
<1>7. ASSUME NEW p \in Proc, ReadRoster(p) \/ MisreadRoster(p)
      PROVE  Inv'
  <2> PICK rs \in {roster, EmptyRoster} : TakeRoster(p, rs)
      BY <1>7 DEF ReadRoster, MisreadRoster
  <2>1. op[p] \in {"unlock", "register", "revoke", "reset"} /\ pc[p] = "readRoster"
      BY DEF TakeRoster, At
  <2>2. UNCHANGED <<slots, roster, op, dev, minted, revoking, revoked, enrolled>>
      BY DEF TakeRoster
  <2>3. \A q \in Proc : q # p => seen'[q] = seen[q] /\ pc'[q] = pc[q]
      BY DEF TakeRoster, Goto
  <2>4. pc'[p] \in {"unwrap", "writeRoster"}
      BY DEF TakeRoster, Goto
  <2>5. \A d \in Device : seen'[p][d] = EditedRecord(p, d, rs[d])
      BY DEF TakeRoster
  <2>6. \A d \in Device :
          /\ d # dev[p] => seen'[p][d] \in {roster[d], "absent"}
          /\ op[p] # "register" /\ roster[d] = "absent" => seen'[p][d] = "absent"
          /\ op[p] # "revoke" /\ roster[d] # "revoked" => seen'[p][d] # "revoked"
      BY <2>5 DEF EditedRecord, EmptyRoster
  <2>7. MintedFirst'
    <3>1. ASSUME NEW d \in Device, d \notin minted, NEW q \in Proc
          PROVE  seen'[q][d] = "absent"
      <4>1. CASE q # p
          BY <2>3, <3>1, <4>1
      <4>2. CASE q = p /\ op[p] = "register"
          BY <2>6, <3>1, <4>2
      <4>3. CASE q = p /\ op[p] # "register"
          BY <2>6, <3>1, <4>3
      <4> QED
          BY <4>1, <4>2, <4>3
    <3> QED
        BY <2>2, <3>1
  <2>8. EnrollingUnknown'
    <3>1. ~Enrolling(p) /\ ~Enrolling(p)'
        BY <2>1, <2>4
    <3>2. ASSUME NEW r \in Proc, Enrolling(r), NEW q \in Proc
          PROVE  seen'[q][dev[r]] = "absent"
      <4>1. CASE q # p
          BY <2>3, <3>2, <4>1
      <4>2. dev[r] \in Device /\ roster[dev[r]] = "absent"
          BY <3>2
      <4>3. CASE q = p /\ op[p] = "register"
        <5>1. dev[r] # dev[p]
            BY <3>1, <3>2, <4>3
        <5> QED
            BY <2>6, <4>2, <4>3, <5>1
      <4>4. CASE q = p /\ op[p] # "register"
          BY <2>6, <4>2, <4>4
      <4> QED
          BY <4>1, <4>3, <4>4
    <3>3. ASSUME NEW r \in Proc, Enrolling(r)'
          PROVE  r # p /\ Enrolling(r)
        BY <2>2, <2>3, <3>1, <3>3
    <3> QED
        BY <2>2, <3>2, <3>3
  <2>9. RevokingUnlinks'
      BY <2>1, <2>2, <2>3, <2>4
  <2>10. OnlyRevocationRevokes'
    <3>1. ASSUME NEW d \in Device, d \notin revoking, NEW q \in Proc
          PROVE  seen'[q][d] # "revoked"
      <4>1. CASE q # p
          BY <2>3, <3>1, <4>1
      <4>2. CASE q = p /\ op[p] # "revoke"
          BY <2>6, <3>1, <4>2
      <4>3. CASE q = p /\ op[p] = "revoke"
        <5>1. d # dev[p]
            BY <3>1, <4>3
        <5> QED
            BY <2>6, <3>1, <4>3, <5>1
      <4> QED
          BY <4>1, <4>2, <4>3
    <3>2. ASSUME NEW r \in Proc, op[r] = "register", ~Enrolling(r)'
          PROVE  ~Enrolling(r)
      <4>1. CASE r = p
          BY <2>1, <4>1
      <4>2. CASE r # p
          BY <2>2, <2>3, <3>2, <4>2
      <4> QED
          BY <4>1, <4>2
    <3> QED
        BY <2>2, <3>1, <3>2
  <2> QED
      BY <2>2, <2>7, <2>8, <2>9, <2>10
<1>9. ASSUME NEW p \in Proc, Unwrap(p)
      PROVE  Inv'
    BY <1>9 DEF Unwrap, At, Goto
<1>10. ASSUME NEW p \in Proc, UnwrapUnlisted(p)
      PROVE  Inv'
  <2>1. CASE op[p] = "unlock" /\ Return(p)
      BY <1>10, <2>1, ReturnSafe DEF UnwrapUnlisted, At
  <2>2. CASE op[p] = "reset" /\ Goto(p, "writePassword")
      BY <1>10, <2>2 DEF UnwrapUnlisted, At, Goto
  <2> QED
      BY <1>10, <2>1, <2>2 DEF UnwrapUnlisted
<1>12. ASSUME NEW p \in Proc, WriteRoster(p)
      PROVE  Inv'
    BY <1>12 DEF WriteRoster, At, Goto
<1>13. ASSUME NEW p \in Proc, WritePasswordSlot(p)
      PROVE  Inv'
    BY <1>13 DEF WritePasswordSlot, At, Goto
<1>15. ASSUME NEW p \in Proc, SaveManifest(p)
      PROVE  Inv'
  <2>1. pc[p] \in {"saveSlot", "saveRoster", "saveAgain"}
      BY <1>15 DEF SaveManifest
  <2>2. CASE /\ \E l \in Label : <<op[p], pc[p], l>> \in Continuation /\ Goto(p, l)
             /\ UNCHANGED <<callVars, seen, stale, session, pastVars>>
    <3> PICK l \in Label : <<op[p], pc[p], l>> \in Continuation /\ Goto(p, l)
        BY <2>2
    <3>1. l \in {"readRoster", "saveAgain", "writePassword"}
        BY <2>2 DEF Continuation
    <3> QED
        BY <1>15, <2>1, <2>2, <3>1 DEF SaveManifest, Goto
  <2>3. CASE Return(p)
      BY <1>15, <2>1, <2>3, ReturnSafe DEF SaveManifest
  <2>4. \/ Return(p)
        \/ /\ \E l \in Label : <<op[p], pc[p], l>> \in Continuation /\ Goto(p, l)
           /\ UNCHANGED <<callVars, seen, stale, session, pastVars>>
      BY <1>15 DEF SaveManifest
  <2> QED
      BY <2>2, <2>3, <2>4
<1>18. ASSUME NEW h \in Host, NEW w \in Password, UnlockWithPassword(h, w)
      PROVE  Inv'
    BY <1>18 DEF UnlockWithPassword
<1>19. ASSUME NEW p \in Proc, NEW w \in Password, ResetMasterPassword(p, w)
      PROVE  Inv'
    BY <1>19 DEF ResetMasterPassword, Enter, Goto
<1>20. ASSUME NEW p \in Proc, NEW old \in Password, NEW w \in Password,
             ChangeMasterPassword(p, old, w)
      PROVE  Inv'
    BY <1>20 DEF ChangeMasterPassword, Enter, Goto
<1>21. ASSUME NEW p \in Proc, NEW d \in Device, ProvisionPepper(p, d)
      PROVE  Inv'
  <2>1. PICK o \in {"register", "blank"} : Enter(p, o, d, NoPassword, "localKey")
      BY <1>21 DEF ProvisionPepper
  <2>2. /\ op[p] = "none" /\ d \notin minted
        /\ pc' = [pc EXCEPT ![p] = "localKey"]
        /\ op' = [op EXCEPT ![p] = o]
        /\ dev' = [dev EXCEPT ![p] = d]
        /\ minted' = minted \cup {d}
        /\ UNCHANGED <<slots, roster, seen, revoking, revoked, enrolled>>
      BY <1>21, <2>1 DEF ProvisionPepper, Enter, Goto
  <2>3. MintedFirst'
      BY <2>2
  <2>4. EnrollingUnknown'
      BY <2>2
  <2>5. RevokingUnlinks'
      BY <2>2
  <2>6. OnlyRevocationRevokes'
      BY <2>2
  <2> QED
      BY <2>3, <2>4, <2>5, <2>6
<1>22. ASSUME NEW p \in Proc, UnlockWithLocalKey(p)
      PROVE  Inv'
    BY <1>22 DEF UnlockWithLocalKey, Enter, Goto
<1>23. ASSUME NEW h \in Host, SkipRegister(h)
      PROVE  Inv'
    BY <1>23 DEF SkipRegister
<1>24. ASSUME NEW h \in Host, SignOut(h) \/ Crash(h)
      PROVE  Inv'
    BY <1>24, EndSafe DEF SignOut, Crash, EndProcess
<1>25. ASSUME Outside
      PROVE  Inv'
  <2>1. UNCHANGED <<slots, roster, pc, op, dev, seen, minted, revoking, revoked,
                    enrolled>>
      BY <1>25 DEF Outside, Unplug, Plug, WipeHome, LoseKeyring, ChangeBinding
  <2> QED
      BY <2>1
<1>26. ASSUME UNCHANGED vars
      PROVE  Inv'
    BY <1>26 DEF vars
<1> QED
    BY <1>1, <1>2, <1>3, <1>4, <1>5, <1>6, <1>7, <1>9, <1>10, <1>12, <1>13, <1>15, <1>18, <1>19, <1>20, <1>21, <1>22, <1>23, <1>24, <1>25, <1>26
    DEF Next, Step, AppStep, WindowStep

-----------------------------------------------------------------------------
(* A call that wrote the password slot finds its own password there until    *)
(* another call writes: what it returns for is then what the slot opens with. *)
PasswordInv ==
  /\ \A p \in Proc :
       Installing(p) /\ pc[p] = "saveSlot" /\ "password.slot" \notin stale[p]
         => pwSlot = newPw[p]
  /\ PasswordAlwaysOpens

LEMMA PasswordInit == Init => PasswordInv
  BY DEF Init, PasswordInv, PasswordAlwaysOpens, Installing

(* An access of the call of p, or its start, that is not a write of the      *)
(* password slot.                                                            *)
LEMMA PasswordAccess ==
  ASSUME PasswordInv, TypeInv, NEW p \in Proc, NEW l,
         l # "saveSlot" \/ op'[p] = "register",
         pc' = [pc EXCEPT ![p] = l], UNCHANGED <<pwSlot, acked, unacked>>,
         \A q \in Proc \ {p} : op'[q] = op[q] /\ newPw'[q] = newPw[q],
         \A q \in Proc \ {p} : pc[q] = "saveSlot" => stale'[q] = stale[q]
  PROVE  PasswordInv'
<1>1. \A q \in Proc \ {p} : pc'[q] = pc[q]
    BY DEF TypeInv, TypeOK
<1>2. pc'[p] = l
    BY DEF TypeInv, TypeOK
<1> QED
    BY <1>1, <1>2 DEF PasswordInv, PasswordAlwaysOpens, Installing

LEMMA PasswordEnd ==
  ASSUME PasswordInv, NEW S, End(S), UNCHANGED <<pwSlot, acked, unacked>>
  PROVE  PasswordInv'
<1>1. \A q \in Proc :
        \/ pc'[q] = "idle"
        \/ /\ pc'[q] = pc[q] /\ op'[q] = op[q] /\ newPw'[q] = newPw[q]
           /\ stale'[q] = stale[q]
    BY DEF End
<1> QED
    BY <1>1 DEF PasswordInv, PasswordAlwaysOpens, Installing

LEMMA PasswordReturn ==
  ASSUME PasswordInv, NEW p \in Proc, Return(p), UNCHANGED pwSlot,
         Installing(p) => pc[p] = "saveSlot"
  PROVE  PasswordInv'
<1>1. \A q \in Proc :
        \/ pc'[q] = "idle"
        \/ /\ pc'[q] = pc[q] /\ op'[q] = op[q] /\ newPw'[q] = newPw[q]
           /\ stale'[q] = stale[q]
    BY DEF Return, Leave, End
<1>2. PasswordAlwaysOpens'
  <2>1. CASE Installing(p) /\ "password.slot" \notin stale[p]
      BY <2>1 DEF Return, PasswordInv, PasswordAlwaysOpens
  <2>2. CASE UNCHANGED <<acked, unacked>>
      BY <2>2 DEF PasswordInv, PasswordAlwaysOpens
  <2> QED
      BY <2>1, <2>2 DEF Return
<1> QED
    BY <1>1, <1>2 DEF PasswordInv, Installing

LEMMA PasswordStep == PasswordInv /\ TypeInv /\ [Next]_vars => PasswordInv'
<1> SUFFICES ASSUME PasswordInv, TypeInv, [Next]_vars
             PROVE  PasswordInv'
    OBVIOUS
<1> USE ConstantsAssumption
    DEF vars, usbVars, hostVars, callVars, memVars, pastVars
<1>1. ASSUME NEW p \in Proc, NEW o, NEW d, NEW w,
             NEW l \in {"unlinkSlot", "readRoster", "localKey", "writePassword"},
             Enter(p, o, d, w, l), UNCHANGED <<pwSlot, acked, unacked>>
      PROVE  PasswordInv'
  <2>1. \A q \in Proc \ {p} : op'[q] = op[q] /\ newPw'[q] = newPw[q] /\ stale'[q] = stale[q]
      BY <1>1 DEF Enter, TypeInv, TypeOK
  <2>2. pc' = [pc EXCEPT ![p] = l] /\ l # "saveSlot"
      BY <1>1 DEF Enter, Goto
  <2> QED
      BY <1>1, <2>1, <2>2, PasswordAccess
<1>2. ASSUME NEW p \in Proc, \E d \in Device : RevokeDevice(p, d)
      PROVE  PasswordInv'
    BY <1>1, <1>2 DEF RevokeDevice
<1>3. ASSUME NEW p \in Proc, AppStep(p)
      PROVE  PasswordInv'
  <2>2. ASSUME NEW d \in Device, ProvisionPepper(p, d)
        PROVE  PasswordInv'
    <3>1. PICK o \in {"register", "blank"} : Enter(p, o, d, NoPassword, "localKey")
        BY <2>2 DEF ProvisionPepper
    <3> QED
        BY <1>1, <2>2, <3>1 DEF ProvisionPepper
  <2> QED
      BY <1>1, <1>3, <2>2
      DEF AppStep, ResetMasterPassword, ChangeMasterPassword, UnlockWithLocalKey
<1>4. ASSUME NEW p \in Proc,
             \/ GenerateLocalKey(p) \/ WriteIdentity(p) \/ UnlinkSlot(p) \/ Unwrap(p)
      PROVE  PasswordInv'
  <2> PICK l \in {"writeIdentity", "writeSlot", "readRoster", "writeRoster"} : Goto(p, l)
      BY <1>4 DEF GenerateLocalKey, WriteIdentity, UnlinkSlot, Unwrap
  <2>1. l # "saveSlot" /\ pc' = [pc EXCEPT ![p] = l]
        /\ UNCHANGED <<pwSlot, acked, unacked, op, newPw, stale>>
      BY <1>4 DEF Goto, GenerateLocalKey, WriteIdentity, UnlinkSlot, Unwrap
  <2> QED
      BY <2>1, PasswordAccess
<1>5. ASSUME NEW p \in Proc, WriteDeviceSlot(p)
      PROVE  PasswordInv'
  <2>1. op[p] = "register" /\ pc' = [pc EXCEPT ![p] = "saveSlot"]
        /\ UNCHANGED <<pwSlot, acked, unacked, op, newPw, stale>>
      BY <1>5 DEF Goto, WriteDeviceSlot
  <2> QED
      BY <2>1, PasswordAccess
<1>6. ASSUME NEW p \in Proc, ReadRoster(p) \/ MisreadRoster(p)
      PROVE  PasswordInv'
  <2> PICK r \in {roster, EmptyRoster} : TakeRoster(p, r)
      BY <1>6 DEF ReadRoster, MisreadRoster
  <2> PICK l \in {"unwrap", "writeRoster"} : Goto(p, l)
      BY DEF TakeRoster
  <2>1. l # "saveSlot" /\ pc' = [pc EXCEPT ![p] = l]
        /\ UNCHANGED <<pwSlot, acked, unacked, op, newPw>>
      BY DEF Goto, TakeRoster
  <2>2. \A q \in Proc \ {p} : stale'[q] = stale[q]
      BY DEF TakeRoster, TypeInv, TypeOK
  <2> QED
      BY <2>1, <2>2, PasswordAccess
<1>7. ASSUME NEW p \in Proc, WriteRoster(p)
      PROVE  PasswordInv'
  <2>1. /\ pc' = [pc EXCEPT ![p] = "saveRoster"]
        /\ UNCHANGED <<pwSlot, acked, unacked, op, newPw>>
      BY <1>7 DEF Goto, WriteRoster
  <2>2. \A q \in Proc \ {p} : pc[q] = "saveSlot" => stale'[q] = stale[q]
      BY <1>7 DEF WriteRoster, Outdate
  <2> QED
      BY <2>1, <2>2, PasswordAccess
<1>8. ASSUME NEW p \in Proc, WritePasswordSlot(p)
      PROVE  PasswordInv'
  <2>1. /\ pc' = [pc EXCEPT ![p] = "saveSlot"] /\ pwSlot' = newPw[p]
        /\ unacked' = unacked \cup {newPw[p]}
        /\ UNCHANGED <<op, newPw, acked>>
      BY <1>8 DEF Goto, WritePasswordSlot
  <2>2. ASSUME NEW q \in Proc, q # p, pc'[q] = "saveSlot"
        PROVE  "password.slot" \in stale'[q]
    <3>1. pc[q] = "saveSlot"
        BY <2>1, <2>2 DEF TypeInv, TypeOK
    <3> QED
        BY <1>8, <2>2, <3>1 DEF WritePasswordSlot, Outdate
  <2> QED
      BY <2>1, <2>2 DEF PasswordInv, PasswordAlwaysOpens, Installing
<1>9. ASSUME NEW p \in Proc, SaveManifest(p)
      PROVE  PasswordInv'
  <2>1. pc[p] \in {"saveSlot", "saveRoster", "saveAgain"} /\ UNCHANGED pwSlot
      BY <1>9 DEF SaveManifest
  <2>2. CASE /\ \E l \in Label : <<op[p], pc[p], l>> \in Continuation /\ Goto(p, l)
             /\ UNCHANGED <<callVars, seen, stale, session, pastVars>>
    <3> PICK l \in Label : <<op[p], pc[p], l>> \in Continuation /\ Goto(p, l)
        BY <2>2
    <3>1. l # "saveSlot" /\ pc' = [pc EXCEPT ![p] = l]
        BY DEF Continuation, Goto
    <3> QED
        BY <2>1, <2>2, <3>1, PasswordAccess
  <2>3. CASE Return(p) /\ \A l \in Label : <<op[p], pc[p], l>> \notin Continuation
    <3>1. ~(op[p] = "reset" /\ pc[p] = "saveRoster")
        BY <2>3 DEF Continuation, Label
    <3>2. Installing(p) => pc[p] = "saveSlot"
        BY <2>1, <3>1 DEF Installing, TypeInv, CallsOK, LabelsOf
    <3> QED
        BY <2>1, <2>3, <3>2, PasswordReturn
  <2> QED
      BY <1>9, <2>2, <2>3 DEF SaveManifest
<1>10. ASSUME NEW p \in Proc, UnwrapUnlisted(p)
      PROVE  PasswordInv'
  <2>1. CASE op[p] = "unlock" /\ Return(p)
      BY <1>10, <2>1, PasswordReturn DEF UnwrapUnlisted, Installing
  <2>2. CASE /\ op[p] = "reset" /\ Goto(p, "writePassword")
             /\ UNCHANGED <<callVars, seen, stale, session, pastVars>>
    <3>1. pc' = [pc EXCEPT ![p] = "writePassword"] /\ UNCHANGED pwSlot
        BY <1>10, <2>2 DEF UnwrapUnlisted, Goto
    <3> QED
        BY <2>2, <3>1, PasswordAccess
  <2> QED
      BY <1>10, <2>1, <2>2 DEF UnwrapUnlisted
<1>11. ASSUME NEW p \in Proc,
              \/ RefuseLocalKey(p) \/ FindRevoked(p) \/ FailToUnwrap(p)
              \/ FailWithoutSecret(p) \/ FailCall(p) \/ CrashCli(p)
       PROVE  PasswordInv'
  <2>1. End({p}) /\ UNCHANGED <<pwSlot, acked, unacked>>
      BY <1>11 DEF RefuseLocalKey, FindRevoked, FailToUnwrap, FailWithoutSecret, FailCall,
                   CrashCli, Leave
  <2> QED
      BY <2>1, PasswordEnd
<1>12. ASSUME NEW h \in Host, SignOut(h) \/ Crash(h)
       PROVE  PasswordInv'
  <2>1. End(Threads(h)) /\ UNCHANGED <<pwSlot, acked, unacked>>
      BY <1>12 DEF SignOut, Crash, EndProcess
  <2> QED
      BY <2>1, PasswordEnd
<1>13. ASSUME \/ \E h \in Host, w \in Password : UnlockWithPassword(h, w)
              \/ \E h \in Host : SkipRegister(h)
              \/ Outside \/ UNCHANGED vars
       PROVE  PasswordInv'
  <2>1. UNCHANGED <<pwSlot, acked, unacked, pc, op, newPw, stale>>
      BY <1>13 DEF UnlockWithPassword, SkipRegister, Outside, Unplug, Plug, WipeHome,
                   LoseKeyring, ChangeBinding
  <2> QED
      BY <2>1 DEF PasswordInv, PasswordAlwaysOpens, Installing
<1> QED
    BY <1>2, <1>3, <1>4, <1>5, <1>6, <1>7, <1>8, <1>9, <1>10, <1>11, <1>12, <1>13
    DEF Next, Step, WindowStep

-----------------------------------------------------------------------------
(* What a call may rely on when it writes devices.json back: every record    *)
(* that was not replaced since it was read is its own edit of the present    *)
(* one, and nobody but the call that enrolls a device lists it.              *)
RosterInv ==
  /\ \A p \in Proc : pc[p] \in {"unwrap", "writeRoster"} =>
       \A d \in Device \ stale[p] : seen[p][d] = EditedRecord(p, d, roster[d])
  /\ \A p \in Proc : op[p] = "register" /\ pc[p] = "writeRoster" =>
       seen[p][dev[p]] = "active"
  /\ \A p \in Proc : op[p] = "register" /\ pc[p] # "saveRoster" =>
       /\ roster[dev[p]] = "absent"
       /\ \A q \in Proc \ {p} : seen[q][dev[p]] = "absent"
  /\ \A p \in Proc : op[p] = "register" /\ pc[p] = "saveRoster" =>
       roster[dev[p]] # "absent" \/ dev[p] \in lost
  /\ EnrolledIsListed

LEMMA RosterInit == Init => RosterInv
  BY DEF Init, RosterInv, EnrolledIsListed

(* An access of the call of p that neither reads nor writes devices.json. *)
LEMMA RosterAccess ==
  ASSUME RosterInv, TypeInv, NEW p \in Proc, NEW l,
         pc' = [pc EXCEPT ![p] = l],
         UNCHANGED <<op, dev, seen, roster, lost, enrolled>>,
         stale' = stale \/ \A q \in Proc : pc'[q] \in {"unwrap", "writeRoster"} =>
                                             stale'[q] = stale[q],
         l \notin {"unwrap", "saveRoster"},
         l = "writeRoster" => pc[p] = "unwrap",
         op[p] = "register" => pc[p] # "saveRoster" /\ l # "writeRoster"
  PROVE  RosterInv'
<1>1. pc'[p] = l /\ \A q \in Proc \ {p} : pc'[q] = pc[q]
    BY DEF TypeInv, TypeOK
<1>2. \A q \in Proc : pc'[q] \in {"unwrap", "writeRoster"} =>
        pc[q] \in {"unwrap", "writeRoster"} /\ stale'[q] = stale[q]
    BY <1>1
<1>4. ASSUME NEW q \in Proc, pc'[q] \in {"unwrap", "writeRoster"}, NEW d \in Device \ stale'[q]
      PROVE  seen'[q][d] = EditedRecord(q, d, roster[d])'
  <2>1. seen[q][d] = EditedRecord(q, d, roster[d])
      BY <1>2, <1>4 DEF RosterInv
  <2> QED
      BY <2>1 DEF EditedRecord
<1>5. EnrolledIsListed'
    BY DEF RosterInv, EnrolledIsListed
<1>6. \A q \in Proc : op[q] = "register" =>
        /\ pc'[q] = "writeRoster" => pc[q] = "writeRoster"
        /\ pc'[q] = "saveRoster" <=> pc[q] = "saveRoster"
    BY <1>1
<1> QED
    BY <1>4, <1>5, <1>6 DEF RosterInv

(* Calls that end without a result leave the others what they rely on. *)
LEMMA RosterEnd ==
  ASSUME RosterInv, NEW S, End(S), UNCHANGED <<roster, lost, enrolled>>, TypeInv
  PROVE  RosterInv'
<1>1. \A q \in Proc :
        \/ pc'[q] = "idle" /\ op'[q] = "none" /\ seen'[q] = EmptyRoster
        \/ /\ pc'[q] = pc[q] /\ op'[q] = op[q] /\ dev'[q] = dev[q] /\ seen'[q] = seen[q]
           /\ stale'[q] = stale[q]
    BY DEF End
<1>2. ASSUME NEW q \in Proc, pc'[q] \in {"unwrap", "writeRoster"}, NEW d \in Device \ stale'[q]
      PROVE  seen'[q][d] = EditedRecord(q, d, roster[d])'
  <2>1. seen[q][d] = EditedRecord(q, d, roster[d])
      BY <1>1, <1>2 DEF RosterInv
  <2> QED
      BY <1>1, <1>2, <2>1 DEF EditedRecord
<1>3. EnrolledIsListed'
    BY DEF RosterInv, EnrolledIsListed
<1>4. ASSUME NEW p \in Proc, op'[p] = "register", pc'[p] # "saveRoster"
      PROVE  /\ roster'[dev'[p]] = "absent"
             /\ \A q \in Proc \ {p} : seen'[q][dev'[p]] = "absent"
  <2>1. op[p] = "register" /\ pc[p] # "saveRoster" /\ dev'[p] = dev[p] /\ dev[p] \in Device
      BY <1>1, <1>4 DEF TypeInv, CallsOK
  <2> QED
      BY <1>1, <2>1 DEF RosterInv, EmptyRoster
<1> QED
    BY <1>1, <1>2, <1>3, <1>4 DEF RosterInv

LEMMA RosterReturn ==
  ASSUME RosterInv, TypeInv, NEW p \in Proc, Return(p), UNCHANGED <<roster, lost>>,
         op[p] = "register" => pc[p] = "saveRoster"
  PROVE  RosterInv'
<1>1. \A d \in enrolled' : d \in enrolled \/ (d = dev[p] /\ op[p] = "register")
    BY DEF Return
<1>2. EnrolledIsListed'
    BY <1>1 DEF RosterInv, EnrolledIsListed
<1>3. \A q \in Proc :
        \/ pc'[q] = "idle" /\ op'[q] = "none" /\ seen'[q] = EmptyRoster
        \/ /\ pc'[q] = pc[q] /\ op'[q] = op[q] /\ dev'[q] = dev[q] /\ seen'[q] = seen[q]
           /\ stale'[q] = stale[q]
    BY DEF Return, Leave, End
<1>4. ASSUME NEW q \in Proc, pc'[q] \in {"unwrap", "writeRoster"}, NEW d \in Device \ stale'[q]
      PROVE  seen'[q][d] = EditedRecord(q, d, roster[d])'
  <2>1. seen[q][d] = EditedRecord(q, d, roster[d])
      BY <1>3, <1>4 DEF RosterInv
  <2> QED
      BY <1>3, <1>4, <2>1 DEF EditedRecord
<1>5. ASSUME NEW r \in Proc, op'[r] = "register", pc'[r] # "saveRoster"
      PROVE  /\ roster'[dev'[r]] = "absent"
             /\ \A q \in Proc \ {r} : seen'[q][dev'[r]] = "absent"
  <2>1. op[r] = "register" /\ pc[r] # "saveRoster" /\ dev'[r] = dev[r] /\ dev[r] \in Device
      BY <1>3, <1>5 DEF TypeInv, CallsOK
  <2> QED
      BY <1>3, <2>1 DEF RosterInv, EmptyRoster
<1> QED
    BY <1>2, <1>3, <1>4, <1>5 DEF RosterInv

(* A call starts: one that enrolls has an id that nobody was given before. *)
LEMMA RosterEnter ==
  ASSUME Inv, RosterInv, NEW p \in Proc, NEW o, NEW d, NEW w,
         NEW l \in {"localKey", "readRoster", "unlinkSlot", "writePassword"},
         Enter(p, o, d, w, l), UNCHANGED <<roster, lost, enrolled>>,
         o = "register" => d \in Device \ minted
  PROVE  RosterInv'
<1>1. /\ pc'[p] = l /\ op'[p] = o /\ dev'[p] = d
      /\ \A q \in Proc \ {p} : pc'[q] = pc[q] /\ op'[q] = op[q] /\ dev'[q] = dev[q]
      /\ UNCHANGED <<seen, stale>>
    BY DEF Enter, Goto, Inv, TypeInv, TypeOK
<1>2. o = "register" => roster[d] = "absent" /\ \A q \in Proc : seen[q][d] = "absent"
    BY DEF Inv, MintedFirst
<1>3. ASSUME NEW q \in Proc, pc'[q] \in {"unwrap", "writeRoster"}, NEW e \in Device \ stale'[q]
      PROVE  seen'[q][e] = EditedRecord(q, e, roster[e])'
  <2>1. q # p
      BY <1>1, <1>3
  <2>2. seen[q][e] = EditedRecord(q, e, roster[e])
      BY <1>1, <1>3, <2>1 DEF RosterInv
  <2> QED
      BY <1>1, <2>1, <2>2 DEF EditedRecord
<1>4. EnrolledIsListed'
    BY DEF RosterInv, EnrolledIsListed
<1> QED
    BY <1>1, <1>2, <1>3, <1>4 DEF RosterInv

(* A roster is read, whether as it is or as an empty one. *)
LEMMA RosterRead ==
  ASSUME Inv, RosterInv, NEW p \in Proc, NEW r \in {roster, EmptyRoster}, TakeRoster(p, r)
  PROVE  RosterInv'
<1> USE DEF Inv, TypeInv, TypeOK
<1>1. /\ pc[p] = "readRoster" /\ pc'[p] \in {"unwrap", "writeRoster"}
      /\ UNCHANGED <<roster, op, dev, lost, enrolled>>
      /\ \A q \in Proc \ {p} : pc'[q] = pc[q] /\ seen'[q] = seen[q] /\ stale'[q] = stale[q]
    BY DEF TakeRoster, At, Goto, usbVars, callVars, pastVars
<1>2. \A d \in Device : seen'[p][d] = EditedRecord(p, d, r[d])
    BY DEF TakeRoster
<1>3. \A d \in Device \ stale'[p] : r[d] = roster[d]
    BY DEF TakeRoster
<1>4. ASSUME NEW q \in Proc, pc'[q] \in {"unwrap", "writeRoster"}, NEW d \in Device \ stale'[q]
      PROVE  seen'[q][d] = EditedRecord(q, d, roster[d])'
  <2>1. CASE q = p
      BY <1>1, <1>2, <1>3, <1>4, <2>1 DEF EditedRecord
  <2>2. CASE q # p
    <3>1. seen[q][d] = EditedRecord(q, d, roster[d])
        BY <1>1, <1>4, <2>2 DEF RosterInv
    <3> QED
        BY <1>1, <2>2, <3>1 DEF EditedRecord
  <2> QED
      BY <2>1, <2>2
<1>5. op[p] = "register" => seen'[p][dev[p]] = "active"
    BY <1>2 DEF EditedRecord, CallsOK
<1>6. ASSUME NEW e \in Proc, op[e] = "register", pc'[e] # "saveRoster"
      PROVE  /\ roster[dev[e]] = "absent"
             /\ \A q \in Proc \ {e} : seen'[q][dev[e]] = "absent"
  <2>1. pc[e] # "saveRoster" /\ dev[e] \in Device
      BY <1>1, <1>6 DEF CallsOK
  <2>2. roster[dev[e]] = "absent" /\ r[dev[e]] = "absent"
      BY <1>6, <2>1 DEF RosterInv, EmptyRoster
  <2>3. ASSUME p # e
        PROVE  seen'[p][dev[e]] = "absent"
    <3>1. ~(op[p] = "register" /\ dev[p] = dev[e])
        BY <1>6, <2>3 DEF MintedFirst
    <3> QED
        BY <1>2, <2>1, <2>2, <3>1 DEF EditedRecord
  <2> QED
      BY <1>1, <1>6, <2>1, <2>2, <2>3 DEF RosterInv
<1>7. EnrolledIsListed'
    BY <1>1 DEF RosterInv, EnrolledIsListed
<1> QED
    BY <1>1, <1>4, <1>5, <1>6, <1>7 DEF RosterInv

(* A roster is written: a record that was not replaced since it was read     *)
(* stays on the list, and stays revoked.                                     *)
LEMMA WriteRosterFacts ==
  ASSUME Inv, RosterInv, NEW p \in Proc, WriteRoster(p), NEW d \in Device \ stale[p]
  PROVE  /\ roster[d] # "absent" => roster'[d] # "absent"
         /\ roster[d] = "revoked" => roster'[d] = "revoked"
<1>1. /\ pc[p] = "writeRoster" /\ roster' = seen[p]
      /\ seen[p][d] = EditedRecord(p, d, roster[d])
    BY DEF WriteRoster, At, RosterInv
<1>2. op[p] = "register" /\ d = dev[p] => roster[d] = "absent"
    BY <1>1 DEF RosterInv
<1> QED
    BY <1>1, <1>2 DEF EditedRecord

LEMMA RosterWrite ==
  ASSUME Inv, RosterInv, NEW p \in Proc, WriteRoster(p)
  PROVE  RosterInv'
<1> USE DEF Inv, TypeInv, TypeOK
<1>1. /\ pc[p] = "writeRoster" /\ pc'[p] = "saveRoster" /\ roster' = seen[p]
      /\ \A q \in Proc \ {p} : pc'[q] = pc[q]
      /\ seen' = [seen EXCEPT ![p] = EmptyRoster]
      /\ UNCHANGED <<op, dev, enrolled>>
    BY DEF WriteRoster, At, Goto, callVars, pastVars
<1>2. ASSUME NEW q \in Proc, pc'[q] \in {"unwrap", "writeRoster"}, NEW d \in Device \ stale'[q]
      PROVE  seen'[q][d] = EditedRecord(q, d, roster[d])'
  <2>1. q # p /\ pc[q] \in {"unwrap", "writeRoster"}
      BY <1>1, <1>2
  <2>2. stale'[q] = stale[q] \cup {e \in Device : seen[p][e] # roster[e]}
      BY <2>1 DEF WriteRoster, Outdate
  <2>3. roster'[d] = roster[d] /\ d \notin stale[q]
      BY <1>1, <1>2, <2>2
  <2>4. seen[q][d] = EditedRecord(q, d, roster[d])
      BY <1>2, <2>1, <2>3 DEF RosterInv
  <2> QED
      BY <1>1, <2>1, <2>3, <2>4 DEF EditedRecord
<1>3. ASSUME NEW d \in Device, roster[d] # "absent", roster'[d] = "absent"
      PROVE  d \in lost'
  <2>1. d \in stale[p]
      BY <1>3, WriteRosterFacts
  <2> QED
      BY <1>1, <1>3, <2>1 DEF WriteRoster
<1>4. lost \subseteq lost'
    BY DEF WriteRoster
<1>5. EnrolledIsListed'
    BY <1>1, <1>3, <1>4 DEF RosterInv, EnrolledIsListed
<1>6. ASSUME NEW e \in Proc, op[e] = "register", pc'[e] # "saveRoster"
      PROVE  /\ roster'[dev[e]] = "absent"
             /\ \A q \in Proc \ {e} : seen'[q][dev[e]] = "absent"
  <2>1. e # p /\ pc[e] # "saveRoster" /\ dev[e] \in Device
      BY <1>1, <1>6 DEF CallsOK
  <2> QED
      BY <1>1, <1>6, <2>1 DEF RosterInv, EmptyRoster
<1>7. ASSUME NEW e \in Proc, op[e] = "register", pc'[e] = "saveRoster"
      PROVE  roster'[dev[e]] # "absent" \/ dev[e] \in lost'
  <2>1. dev[e] \in Device
      BY <1>7 DEF CallsOK
  <2>2. CASE e = p
      BY <1>1, <1>7, <2>2 DEF RosterInv
  <2>3. CASE e # p
      BY <1>1, <1>3, <1>4, <1>7, <2>1, <2>3 DEF RosterInv
  <2> QED
      BY <2>2, <2>3
<1> QED
    BY <1>1, <1>2, <1>5, <1>6, <1>7 DEF RosterInv

LEMMA RosterStep == Inv /\ RosterInv /\ [Next]_vars => RosterInv'
<1> SUFFICES ASSUME Inv, RosterInv, [Next]_vars
             PROVE  RosterInv'
    OBVIOUS
<1>0. TypeInv
    BY DEF Inv
<1> USE ConstantsAssumption
    DEF vars, usbVars, hostVars, callVars, memVars, pastVars
<1>1. ASSUME NEW p \in Proc, NEW d \in Device, RevokeDevice(p, d)
      PROVE  RosterInv'
    BY <1>1, RosterEnter DEF RevokeDevice
<1>2. ASSUME NEW p \in Proc, AppStep(p)
      PROVE  RosterInv'
  <2>2. ASSUME NEW d \in Device, ProvisionPepper(p, d)
        PROVE  RosterInv'
    <3>1. PICK o \in {"register", "blank"} : Enter(p, o, d, NoPassword, "localKey")
        BY <2>2 DEF ProvisionPepper
    <3>2. d \in Device \ minted /\ UNCHANGED <<roster, lost, enrolled>>
        BY <2>2 DEF ProvisionPepper
    <3> QED
        BY <3>1, <3>2, RosterEnter
  <2>3. CASE UnlockWithLocalKey(p)
      BY <2>3, RosterEnter DEF UnlockWithLocalKey
  <2>4. ASSUME NEW w \in Password, ResetMasterPassword(p, w)
        PROVE  RosterInv'
      BY <2>4, RosterEnter DEF ResetMasterPassword
  <2>5. ASSUME NEW old \in Password, NEW w \in Password, ChangeMasterPassword(p, old, w)
        PROVE  RosterInv'
      BY <2>5, RosterEnter DEF ChangeMasterPassword
  <2> QED
      BY <1>2, <2>2, <2>3, <2>4, <2>5 DEF AppStep
<1>3. ASSUME NEW p \in Proc,
             \/ GenerateLocalKey(p) \/ WriteIdentity(p) \/ WriteDeviceSlot(p)
             \/ UnlinkSlot(p) \/ Unwrap(p)
      PROVE  RosterInv'
  <2> PICK l \in {"writeIdentity", "writeSlot", "saveSlot", "readRoster", "writeRoster"} :
        Goto(p, l) /\ (l = "writeRoster" => Unwrap(p))
      BY <1>3 DEF GenerateLocalKey, WriteIdentity, WriteDeviceSlot, UnlinkSlot, Unwrap
  <2>1. /\ pc' = [pc EXCEPT ![p] = l] /\ pc[p] # "saveRoster"
        /\ UNCHANGED <<op, dev, seen, stale, roster, lost, enrolled>>
      BY <1>3 DEF Goto, GenerateLocalKey, WriteIdentity, WriteDeviceSlot, UnlinkSlot, Unwrap,
                  At
  <2>2. l = "writeRoster" => pc[p] = "unwrap" /\ op[p] # "register"
      BY <1>0 DEF Unwrap, At, TypeInv, CallsOK, LabelsOf
  <2> QED
      BY <1>0, <2>1, <2>2, RosterAccess
<1>4. ASSUME NEW p \in Proc, ReadRoster(p) \/ MisreadRoster(p)
      PROVE  RosterInv'
    BY <1>4, RosterRead DEF ReadRoster, MisreadRoster
<1>5. ASSUME NEW p \in Proc, WriteRoster(p)
      PROVE  RosterInv'
    BY <1>5, RosterWrite
<1>6. ASSUME NEW p \in Proc, WritePasswordSlot(p)
      PROVE  RosterInv'
  <2>1. /\ pc' = [pc EXCEPT ![p] = "saveSlot"] /\ pc[p] = "writePassword"
        /\ UNCHANGED <<op, dev, seen, roster, lost, enrolled>>
      BY <1>6 DEF WritePasswordSlot, Goto, At
  <2>2. \A q \in Proc : pc'[q] \in {"unwrap", "writeRoster"} => stale'[q] = stale[q]
      BY <1>0, <1>6, <2>1 DEF WritePasswordSlot, Outdate, TypeInv, TypeOK
  <2> QED
      BY <1>0, <2>1, <2>2, RosterAccess
<1>7. ASSUME NEW p \in Proc, SaveManifest(p)
      PROVE  RosterInv'
  <2>1. pc[p] \in {"saveSlot", "saveRoster", "saveAgain"} /\ UNCHANGED <<roster, lost>>
      BY <1>7 DEF SaveManifest
  <2>2. CASE /\ \E l \in Label : <<op[p], pc[p], l>> \in Continuation /\ Goto(p, l)
             /\ UNCHANGED <<callVars, seen, stale, session, pastVars>>
    <3> PICK l \in Label : <<op[p], pc[p], l>> \in Continuation /\ Goto(p, l)
        BY <2>2
    <3>1. /\ l \in {"readRoster", "saveAgain", "writePassword"}
          /\ op[p] = "register" => pc[p] = "saveSlot"
        BY DEF Continuation
    <3>2. pc' = [pc EXCEPT ![p] = l]
        BY DEF Goto
    <3> QED
        BY <1>0, <2>1, <2>2, <3>1, <3>2, RosterAccess
  <2>3. CASE Return(p) /\ \A l \in Label : <<op[p], pc[p], l>> \notin Continuation
    <3>1. ~(op[p] = "register" /\ pc[p] = "saveSlot")
        BY <2>3 DEF Continuation, Label
    <3>2. op[p] = "register" => pc[p] = "saveRoster"
        BY <1>0, <2>1, <3>1 DEF TypeInv, CallsOK, LabelsOf
    <3> QED
        BY <1>0, <2>1, <2>3, <3>2, RosterReturn
  <2> QED
      BY <1>7, <2>2, <2>3 DEF SaveManifest
<1>8. ASSUME NEW p \in Proc, UnwrapUnlisted(p)
      PROVE  RosterInv'
  <2>1. UNCHANGED <<roster, lost>> /\ pc[p] = "unwrap"
      BY <1>8 DEF UnwrapUnlisted, At
  <2>2. CASE op[p] = "unlock" /\ Return(p)
      BY <1>0, <2>1, <2>2, RosterReturn
  <2>3. CASE /\ op[p] = "reset" /\ Goto(p, "writePassword")
             /\ UNCHANGED <<callVars, seen, stale, session, pastVars>>
    <3>1. pc' = [pc EXCEPT ![p] = "writePassword"]
        BY <2>3 DEF Goto
    <3> QED
        BY <1>0, <2>1, <2>3, <3>1, RosterAccess
  <2> QED
      BY <1>8, <2>2, <2>3 DEF UnwrapUnlisted
<1>9. ASSUME NEW p \in Proc,
             \/ RefuseLocalKey(p) \/ FindRevoked(p) \/ FailToUnwrap(p)
             \/ FailWithoutSecret(p) \/ FailCall(p) \/ CrashCli(p)
      PROVE  RosterInv'
  <2>1. End({p}) /\ UNCHANGED <<roster, lost, enrolled>>
      BY <1>9 DEF RefuseLocalKey, FindRevoked, FailToUnwrap, FailWithoutSecret, FailCall,
                  CrashCli, Leave
  <2> QED
      BY <1>0, <2>1, RosterEnd
<1>10. ASSUME NEW h \in Host, SignOut(h) \/ Crash(h)
       PROVE  RosterInv'
  <2>1. End(Threads(h)) /\ UNCHANGED <<roster, lost, enrolled>>
      BY <1>10 DEF SignOut, Crash, EndProcess
  <2> QED
      BY <1>0, <2>1, RosterEnd
<1>11. ASSUME \/ \E h \in Host, w \in Password : UnlockWithPassword(h, w)
              \/ \E h \in Host : SkipRegister(h)
              \/ Outside \/ UNCHANGED vars
       PROVE  RosterInv'
  <2>1. UNCHANGED <<pc, op, dev, seen, stale, roster, lost, enrolled>>
      BY <1>11 DEF UnlockWithPassword, SkipRegister, Outside, Unplug, Plug, WipeHome,
                   LoseKeyring, ChangeBinding
  <2> QED
      BY <2>1 DEF RosterInv, EnrolledIsListed, EditedRecord
<1> QED
    BY <1>1, <1>2, <1>3, <1>4, <1>5, <1>6, <1>7, <1>8, <1>9, <1>10, <1>11
    DEF Next, Step, WindowStep

-----------------------------------------------------------------------------
LEMMA Invariance == Spec => [](Inv /\ PasswordInv /\ RosterInv)
<1>1. Init => Inv /\ PasswordInv /\ RosterInv
    BY SafeInit, PasswordInit, RosterInit
<1>2. Inv /\ PasswordInv /\ RosterInv /\ [Next]_vars => (Inv /\ PasswordInv /\ RosterInv)'
    BY TypeStep, SafeStep, PasswordStep, RosterStep DEF Inv
<1> QED
    BY <1>1, <1>2, PTL DEF Spec

(* Every file, key and call of the registry keeps its type, so that no step  *)
(* is taken on a device id, a record or a password that is not one.          *)
THEOREM TypeCorrect == Spec => []TypeOK
<1>1. Inv => TypeOK
    BY DEF Inv, TypeInv
<1> QED
    BY <1>1, Invariance, PTL

(* revoke_device is final: once it returned, no interleaving of stale roster *)
(* writes, crashes, repeated enrollments or copied keys brings the slot back. *)
THEOREM RevocationIsFinal == Spec => []RevocationIsReal
<1>1. Inv => RevocationIsReal
    BY DEF Inv, RevokingUnlinks
<1> QED
    BY <1>1, Invariance, PTL

(* And so is one that was cut short after it unlinked the slot: no later     *)
(* enrollment, on any computer, writes that slot again.                      *)
THEOREM UnlinkedStaysUnlinked == Spec => RevocationSticks
<1>1. Inv /\ [Next]_vars =>
        [\A d \in revoking : slots[d] = NoSlot => slots'[d] = NoSlot]_vars
  <2> SUFFICES ASSUME Inv, [Next]_vars, NEW d \in revoking, slots[d] = NoSlot
               PROVE  slots'[d] = NoSlot
      OBVIOUS
  <2>1. CASE UNCHANGED slots
      BY <2>1
  <2>2. ASSUME NEW p \in Proc, WriteDeviceSlot(p)
        PROVE  slots'[d] = NoSlot
    <3>1. Enrolling(p)
        BY <2>2 DEF WriteDeviceSlot, At, Enrolling
    <3>2. dev[p] # d
        BY <3>1 DEF Inv, EnrollingUnknown
    <3> QED
        BY <2>2, <3>2 DEF WriteDeviceSlot
  <2>3. ASSUME NEW p \in Proc, UnlinkSlot(p)
        PROVE  slots'[d] = NoSlot
      BY <2>3 DEF UnlinkSlot, Inv, TypeInv, TypeOK
  <2>4. UNCHANGED slots \/ \E p \in Proc : WriteDeviceSlot(p) \/ UnlinkSlot(p)
      BY DEF Next, Step, AppStep, WindowStep, Outside, vars, usbVars, RevokeDevice,
             GenerateLocalKey, RefuseLocalKey, WriteIdentity, FailWithoutSecret, ReadRoster,
             MisreadRoster, TakeRoster, FindRevoked, Unwrap, UnwrapUnlisted, FailToUnwrap,
             WriteRoster, WritePasswordSlot, SaveManifest, FailCall, CrashCli,
             UnlockWithPassword, ResetMasterPassword, ChangeMasterPassword,
             ProvisionPepper, UnlockWithLocalKey, SkipRegister, SignOut, Crash, EndProcess,
             Unplug, Plug, WipeHome, LoseKeyring, ChangeBinding
  <2> QED
      BY <2>1, <2>2, <2>3, <2>4
<1> QED
    BY <1>1, Invariance, PTL DEF Spec, RevocationSticks

(* An enrolled device loses its Local Key to a revocation of that device or  *)
(* to a change on the device itself, never to another call.                  *)
THEOREM EnrollmentLasts == Spec => []EnrolledKeepsWorking
<1>1. Inv => EnrolledKeepsWorking
    BY ConstantsAssumption
    DEF Inv, OnlyRevocationRevokes, EnrolledKeepsWorking, LocalKeyWorks,
        LocalKeyOpens, TypeInv, TypeOK
<1> QED
    BY <1>1, Invariance, PTL

(* password.slot opens with the password of the last call that returned with *)
(* nothing written after it, or with one that was written later; the first   *)
(* call that returns undisturbed leaves exactly its password, whatever       *)
(* failed, was killed or overlapped before it.                               *)
THEOREM PasswordIsNeverLost == Spec => []PasswordAlwaysOpens
<1>1. PasswordInv => PasswordAlwaysOpens
    BY DEF PasswordInv
<1> QED
    BY <1>1, Invariance, PTL

(* For any overlap of calls and any read errors: an enrolled device is on    *)
(* the list that Settings shows, or a write from a stale list took it off.   *)
THEOREM EnrolledStayListed == Spec => []EnrolledIsListed
<1>1. RosterInv => EnrolledIsListed
    BY DEF RosterInv
<1> QED
    BY <1>1, Invariance, PTL

(* And a record is lost, or a revoked one brought back, only by a call for   *)
(* which that very record was replaced after it was read, or misread.        *)
THEOREM OnlyStaleWritesForget == Spec => RosterRemembers
<1> DEFINE Regress(d) == \/ roster[d] # "absent" /\ roster'[d] = "absent"
                         \/ roster[d] = "revoked" /\ roster'[d] # "revoked"
           StaleWrite(p, d) == /\ pc[p] = "writeRoster" /\ pc'[p] = "saveRoster"
                               /\ d \in stale[p]
<1>1. Inv /\ RosterInv /\ [Next]_vars =>
        [\A d \in Device : Regress(d) => \E p \in Proc : StaleWrite(p, d)]_vars
  <2> SUFFICES ASSUME Inv, RosterInv, [Next]_vars, NEW d \in Device, Regress(d)
               PROVE  \E p \in Proc : StaleWrite(p, d)
      OBVIOUS
  <2>1. ~UNCHANGED roster
      OBVIOUS
  <2>2. PICK p \in Proc : WriteRoster(p)
      BY <2>1
      DEF Next, Step, AppStep, WindowStep, Outside, vars, usbVars, RevokeDevice,
          GenerateLocalKey, RefuseLocalKey, WriteIdentity, WriteDeviceSlot, UnlinkSlot,
          FailWithoutSecret, ReadRoster, MisreadRoster, TakeRoster, FindRevoked, Unwrap,
          UnwrapUnlisted, FailToUnwrap, WritePasswordSlot, SaveManifest, FailCall, CrashCli,
          UnlockWithPassword, ResetMasterPassword, ChangeMasterPassword, ProvisionPepper,
          UnlockWithLocalKey, SkipRegister, SignOut, Crash, EndProcess, Unplug, Plug,
          WipeHome, LoseKeyring, ChangeBinding
  <2>3. d \in stale[p]
      BY <2>2, WriteRosterFacts
  <2>4. pc[p] = "writeRoster" /\ pc'[p] = "saveRoster"
      BY <2>2 DEF WriteRoster, At, Goto, Inv, TypeInv, TypeOK
  <2> QED
      BY <2>3, <2>4
<1> QED
    BY <1>1, Invariance, PTL DEF Spec, RosterRemembers

==============================================================================
