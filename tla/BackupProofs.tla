---------------------------- MODULE BackupProofs ----------------------------
(***************************************************************************)
(* Theorems about Backup, for any processes, sizes and number of failures. *)
(***************************************************************************)
EXTENDS Backup, TLAPS

\* The path has at most one writer, whose file is not complete.
OneWriter ==
  \A p \in Proc : proc[p].pc = "write" =>
    /\ archive.state = "torn"
    /\ \A q \in Proc : proc[q].pc = "write" => q = p

\* What is about to be written has passed the validation.
WritesAreValid == \A p \in Proc : proc[p].pc \in {"open", "write"} => Valid(proc[p].pack)

\* Names of the files before position i.
Before(i) == {File[j] : j \in 1 .. i - 1}

\* A hidden directory has the files up to the position, and all when published.
Progress ==
  \A p \in Proc :
    /\ proc[p].pc \in {"look", "copy"} => proc[p].at \in 1 .. Len(File)
    /\ proc[p].pc = "unpack" => work[p] = Before(proc[p].at)
    /\ proc[p].pc = "publish" => work[p] = Names \cup {"manifest"}

Inv == TypeOK /\ OneWriter /\ WritesAreValid /\ Progress /\ BackupsAreSafe

-----------------------------------------------------------------------------

LEMMA FileFacts ==
  /\ Len(File) = 3
  /\ File[1] = "db" /\ File[2] = "devices" /\ File[3] = "slot"
  /\ \A i \in 1 .. 3 : File[i] \in Names
  BY DEF File, Names

LEMMA BeforeFacts ==
  /\ Before(1) = {}
  /\ \A i \in 1 .. 3 : Before(i + 1) = Before(i) \cup {File[i]}
  /\ Before(4) = Names
<1>1. Before(1) = {}
  BY DEF Before
<1>2. ASSUME NEW i \in 1 .. 3 PROVE Before(i + 1) = Before(i) \cup {File[i]}
  <2>1. 1 .. (i + 1) - 1 = (1 .. i - 1) \cup {i}
    OBVIOUS
  <2>2. QED
    BY <2>1 DEF Before
<1>3. Before(4) = Names
  <2>1. Before(4) = {File[j] : j \in 1 .. 3}
    BY DEF Before
  <2>2. 1 .. 3 = {1, 2, 3}
    OBVIOUS
  <2>3. QED
    BY <2>1, <2>2, FileFacts DEF Names
<1>4. QED
  BY <1>1, <1>2, <1>3

LEMMA PackFacts ==
  /\ Nothing \in Pack /\ Whole \in Pack /\ Legacy \in Pack
  /\ Idle \in Call
  /\ Idle.pc = "idle" /\ Idle.at = 1 /\ Idle.pack = Nothing
  /\ NoArchive \in Archive
  /\ NoArchive.state = "none"
<1> USE BackupAssumption DEF BackupAssumption
<1>1. Nothing \in Pack /\ Whole \in Pack
  BY DEF Nothing, Whole, Pack, Member, Names
<1>2. Legacy \in Pack
  BY <1>1 DEF Legacy, Pack, Member, Names
<1>3. QED
  BY <1>1, <1>2, FileFacts DEF Idle, NoArchive, Call, Archive

LEMMA InvInit == Init => Inv
<1> SUFFICES ASSUME Init PROVE Inv
  OBVIOUS
<1> USE BackupAssumption, PackFacts, FileFacts DEF BackupAssumption, Init
<1>1. TypeOK
  <2>1. size \in [Names -> 1 .. MaxSize]
    OBVIOUS
  <2>2. archive \in Archive
    BY DEF Archive
  <2>3. work \in [Proc -> SUBSET (Names \cup {"manifest"})]
    OBVIOUS
  <2>4. promised \in BOOLEAN
    BY Zenon
  <2>5. faults \in 0 .. MaxFaults
    OBVIOUS
  <2>6. dest \in {{"other"}} \cup SUBSET (Names \cup {"manifest"})
    OBVIOUS
  <2>7. proc \in [Proc -> Call]
    OBVIOUS
  <2>8. QED
    BY ONLY <2>1, <2>2, <2>3, <2>4, <2>5, <2>6, <2>7 DEF TypeOK
<1>2. OneWriter /\ WritesAreValid /\ Progress /\ BackupsAreSafe
  BY DEF OneWriter, WritesAreValid, Progress, BackupsAreSafe
<1>3. QED
  BY <1>1, <1>2 DEF Inv

-----------------------------------------------------------------------------

\* What a step of p may do to the process, and nothing else is changed by it.
LEMMA CallFacts ==
  ASSUME TypeOK, NEW p \in Proc, NEW call \in Call, Becomes(p, call)
  PROVE  /\ proc' \in [Proc -> Call]
         /\ proc'[p] = call
         /\ \A q \in Proc : q # p => proc'[q] = proc[q]
  BY DEF TypeOK, Becomes

(* Steps of others.                                                        *)
LEMMA InvOthers ==
  ASSUME Inv, FileReplaced \/ DestinationUsed \/ ArchiveRemoved
  PROVE  Inv'
<1> USE DEF Inv
<1>1. CASE FileReplaced
  <2>1. TypeOK'
    BY <1>1 DEF TypeOK, FileReplaced
  <2>2. QED
    BY <1>1, <2>1 DEF FileReplaced, OneWriter, WritesAreValid, Progress, BackupsAreSafe, Accepted,
                      Decrypts, Valid
<1>2. CASE DestinationUsed
  <2>1. TypeOK'
    BY <1>2 DEF TypeOK, DestinationUsed
  <2>2. QED
    BY <1>2, <2>1 DEF DestinationUsed, OneWriter, WritesAreValid, Progress, BackupsAreSafe, Accepted,
                      Decrypts, Valid
<1>3. CASE ArchiveRemoved
  <2>1. TypeOK'
    BY <1>3, PackFacts DEF TypeOK, ArchiveRemoved
  <2>2. QED
    BY <1>3, <2>1 DEF ArchiveRemoved, OneWriter, WritesAreValid, Progress, BackupsAreSafe, Valid
<1>4. QED
  BY <1>1, <1>2, <1>3

(* create_backup.                                                          *)
LEMMA InvCreate ==
  ASSUME Inv, NEW p \in Proc,
         CreateBackup(p) \/ Look(p) \/ CopyMember(p) \/ OpenOutput(p) \/ WriteOutput(p)
  PROVE  Inv'
<1> USE DEF Inv
<1> DEFINE Rest == OneWriter' /\ WritesAreValid' /\ Progress' /\ BackupsAreSafe'
<1>1. CASE CreateBackup(p)
  <2> DEFINE call == [Idle EXCEPT !.pc = "look"]
  <2>1. call \in Call /\ call.pc = "look" /\ call.at = 1
    BY PackFacts DEF Call
  <2>2. Becomes(p, call)
    BY <1>1 DEF CreateBackup
  <2> HIDE DEF call
  <2>3. /\ proc' \in [Proc -> Call] /\ proc'[p] = call
        /\ \A q \in Proc : q # p => proc'[q] = proc[q]
    BY <2>1, <2>2, CallFacts
  <2>4. TypeOK'
    BY <1>1, <2>3 DEF TypeOK, CreateBackup
  <2>5. Rest
    BY <1>1, <2>1, <2>3, FileFacts
       DEF CreateBackup, OneWriter, WritesAreValid, Progress, BackupsAreSafe, Accepted, Decrypts, Valid
  <2>6. QED
    BY <2>4, <2>5
<1>2. CASE Look(p)
  <2> DEFINE call == [proc[p] EXCEPT !.pc = "copy", !.seen = size[File[proc[p].at]]]
  <2>1. call \in Call /\ call.pc = "copy" /\ call.at \in 1 .. Len(File)
    <3>1. proc[p].at \in 1 .. Len(File) /\ proc[p] \in Call
      BY <1>2 DEF Look, Progress, TypeOK
    <3>2. size[File[proc[p].at]] \in 0 .. MaxSize
      BY <3>1, FileFacts, BackupAssumption DEF TypeOK, BackupAssumption
    <3>3. QED
      BY <3>1, <3>2 DEF Call
  <2>2. Becomes(p, call)
    BY <1>2 DEF Look
  <2> HIDE DEF call
  <2>3. /\ proc' \in [Proc -> Call] /\ proc'[p] = call
        /\ \A q \in Proc : q # p => proc'[q] = proc[q]
    BY <2>1, <2>2, CallFacts
  <2>4. TypeOK'
    BY <1>2, <2>3 DEF TypeOK, Look
  <2>5. Rest
    BY <1>2, <2>1, <2>3, FileFacts
       DEF Look, OneWriter, WritesAreValid, Progress, BackupsAreSafe, Accepted, Decrypts, Valid
  <2>6. QED
    BY <2>4, <2>5
<1>3. CASE CopyMember(p)
  <2> DEFINE name == File[proc[p].at]
             grew == size[name] > proc[p].seen
             pack == [proc[p].pack EXCEPT ![name] = IF grew THEN "cut" ELSE "whole"]
             last == proc[p].at = Len(File)
             next == [pc |-> IF last THEN "open" ELSE "look", at |-> proc[p].at + 1,
                      seen |-> 0, pack |-> pack]
             call == IF size[name] < proc[p].seen \/ (last /\ ~Valid(pack)) THEN Idle ELSE next
  <2>1. proc[p].at \in 1 .. Len(File) /\ proc[p] \in Call
    BY <1>3 DEF CopyMember, Progress, TypeOK
  <2>2. pack \in Pack
    BY <2>1 DEF Call, Pack, Member
  <2>3. 0 \in 0 .. MaxSize
    BY BackupAssumption DEF BackupAssumption
  <2>4. next \in Call
    <3> HIDE DEF pack
    <3>1. QED
      BY <2>1, <2>2, <2>3, FileFacts DEF Call
  <2>5. /\ call \in Call /\ call.pc \in {"idle", "look", "open"}
        /\ call.pc = "look" => call.at \in 1 .. Len(File)
        /\ call.pc = "open" => Valid(call.pack)
    <3> HIDE DEF pack
    <3>1. /\ next.pc = IF last THEN "open" ELSE "look"
          /\ next.at = proc[p].at + 1 /\ next.pack = pack
      OBVIOUS
    <3>2. ~last => proc[p].at + 1 \in 1 .. Len(File)
      BY <2>1, FileFacts
    <3> HIDE DEF next, name, last
    <3>3. QED
      BY <2>4, <3>1, <3>2, PackFacts
  <2>6. Becomes(p, call)
    BY <1>3 DEF CopyMember
  <2> HIDE DEF call
  <2>7. /\ proc' \in [Proc -> Call] /\ proc'[p] = call
        /\ \A q \in Proc : q # p => proc'[q] = proc[q]
    BY <2>5, <2>6, CallFacts
  <2>8. TypeOK'
    BY <1>3, <2>7 DEF TypeOK, CopyMember
  <2>9. Rest
    BY <1>3, <2>5, <2>7
       DEF CopyMember, OneWriter, WritesAreValid, Progress, BackupsAreSafe, Accepted, Decrypts, Valid
  <2>10. QED
    BY <2>8, <2>9
<1>4. CASE OpenOutput(p)
  <2>1. CASE archive.state = "none"
    <3> DEFINE call == [proc[p] EXCEPT !.pc = "write"]
    <3>1. call \in Call /\ call.pc = "write" /\ call.pack = proc[p].pack
      BY DEF TypeOK, Call
    <3>2. Becomes(p, call) /\ archive' = [state |-> "torn", pack |-> Nothing]
      BY <1>4, <2>1 DEF OpenOutput
    <3>3. archive' \in Archive /\ archive'.state = "torn"
      BY <3>2, PackFacts DEF Archive
    <3>4. Valid(call.pack)
      BY <1>4, <3>1 DEF OpenOutput, WritesAreValid
    <3> HIDE DEF call
    <3>5. /\ proc' \in [Proc -> Call] /\ proc'[p] = call
          /\ \A q \in Proc : q # p => proc'[q] = proc[q]
      BY <3>1, <3>2, CallFacts
    <3>6. TypeOK'
      BY <1>4, <3>3, <3>5 DEF TypeOK, OpenOutput
    <3>7. \A q \in Proc : proc[q].pc # "write"
      BY <2>1 DEF OneWriter
    <3>8. ~promised
      BY <2>1, Zenon DEF BackupsAreSafe, Accepted, Decrypts
    <3>9. Rest
      BY <1>4, <3>1, <3>3, <3>4, <3>5, <3>7, <3>8
         DEF OpenOutput, OneWriter, WritesAreValid, Progress, BackupsAreSafe, Valid
    <3>10. QED
      BY <3>6, <3>9
  <2>2. CASE archive.state # "none"
    <3>1. Becomes(p, Idle) /\ UNCHANGED archive
      BY <1>4, <2>2 DEF OpenOutput
    <3>2. /\ proc' \in [Proc -> Call] /\ proc'[p] = Idle
          /\ \A q \in Proc : q # p => proc'[q] = proc[q]
      BY <3>1, PackFacts, CallFacts
    <3>3. TypeOK'
      BY <1>4, <3>1, <3>2 DEF TypeOK, OpenOutput
    <3>4. Rest
      BY <1>4, <3>1, <3>2, PackFacts
         DEF OpenOutput, OneWriter, WritesAreValid, Progress, BackupsAreSafe, Accepted, Decrypts, Valid
    <3>5. QED
      BY <3>3, <3>4
  <2>3. QED
    BY <2>1, <2>2
<1>5. CASE WriteOutput(p)
  <2>1. /\ archive' = [state |-> "whole", pack |-> proc[p].pack]
        /\ promised' = TRUE /\ Becomes(p, Idle)
    BY <1>5 DEF WriteOutput
  <2>2. archive' \in Archive /\ archive'.state = "whole" /\ Valid(archive'.pack)
    BY <1>5, <2>1 DEF Archive, TypeOK, Call, WritesAreValid, WriteOutput
  <2>3. /\ proc' \in [Proc -> Call] /\ proc'[p] = Idle
        /\ \A q \in Proc : q # p => proc'[q] = proc[q]
    BY <2>1, PackFacts, CallFacts
  <2>4. TypeOK'
    BY <1>5, <2>1, <2>2, <2>3 DEF TypeOK, WriteOutput
  <2>5. \A q \in Proc : proc'[q].pc # "write"
    BY <1>5, <2>3, PackFacts DEF OneWriter, WriteOutput
  <2>6. Rest
    BY <1>5, <2>2, <2>3, <2>5, PackFacts
       DEF WriteOutput, OneWriter, WritesAreValid, Progress, BackupsAreSafe, Accepted, Decrypts, Valid
  <2>7. QED
    BY <2>4, <2>6
<1>6. QED
  BY <1>1, <1>2, <1>3, <1>4, <1>5

(* verify_backup and restore_backup.                                       *)
LEMMA InvRestore ==
  ASSUME Inv, NEW p \in Proc,
         VerifyBackup(p) \/ RestoreBackup(p) \/ Unpack(p) \/ Publish(p)
  PROVE  Inv'
<1> USE DEF Inv
<1> DEFINE Rest == OneWriter' /\ WritesAreValid' /\ Progress' /\ BackupsAreSafe'
<1>1. CASE VerifyBackup(p)
  <2>1. promised' = TRUE /\ Accepted
    BY <1>1 DEF VerifyBackup
  <2>2. TypeOK'
    BY <1>1, <2>1 DEF VerifyBackup, TypeOK
  <2>3. Rest
    BY <1>1, <2>1
       DEF VerifyBackup, OneWriter, WritesAreValid, Progress, BackupsAreSafe, Accepted, Decrypts, Valid
  <2>4. QED
    BY <2>2, <2>3
<1>2. CASE RestoreBackup(p)
  <2> DEFINE files == [archive.pack EXCEPT !["slot"] = IF @ = "missing" THEN "whole" ELSE @]
             call == [Idle EXCEPT !.pc = "unpack", !.pack = files]
  <2>1. files \in Pack
    BY DEF TypeOK, Archive, Pack, Member
  <2>2. call \in Call /\ call.pc = "unpack" /\ call.at = 1
    <3> HIDE DEF files
    <3>1. QED
      BY <2>1, PackFacts DEF Call
  <2>3. /\ Becomes(p, call) /\ work' = [work EXCEPT ![p] = {}]
        /\ UNCHANGED <<size, archive, dest, promised, faults>>
    BY <1>2 DEF RestoreBackup
  <2> HIDE DEF call, files
  <2>4. /\ proc' \in [Proc -> Call] /\ proc'[p] = call
        /\ \A q \in Proc : q # p => proc'[q] = proc[q]
    BY <2>2, <2>3, CallFacts
  <2>5. work'[p] = {} /\ \A q \in Proc : q # p => work'[q] = work[q]
    BY <2>3 DEF TypeOK
  <2>6. TypeOK'
    BY <2>3, <2>4 DEF TypeOK
  <2>7. Rest
    <3>1. Progress'
      BY <2>2, <2>4, <2>5, BeforeFacts DEF Progress
    <3>2. OneWriter' /\ WritesAreValid' /\ BackupsAreSafe'
      BY <2>2, <2>3, <2>4
         DEF OneWriter, WritesAreValid, BackupsAreSafe, Accepted, Decrypts, Valid
    <3>3. QED
      BY <3>1, <3>2
  <2>8. QED
    BY <2>6, <2>7
<1>3. CASE Unpack(p)
  <2> DEFINE at == proc[p].at
             last == at > Len(File)
             added == IF last THEN "manifest" ELSE File[at]
             call == IF last THEN [proc[p] EXCEPT !.pc = "publish"] ELSE [proc[p] EXCEPT !.at = @ + 1]
  <2>1. at \in 1 .. 4 /\ proc[p] \in Call /\ proc[p].pc = "unpack" /\ work[p] = Before(at)
    BY <1>3, FileFacts DEF Unpack, Progress, TypeOK, Call
  <2>2. /\ call \in Call
        /\ last => call.pc = "publish"
        /\ ~last => call.pc = "unpack" /\ call.at = at + 1
    BY <2>1, FileFacts DEF Call
  <2>3. /\ Becomes(p, call) /\ work' = [work EXCEPT ![p] = @ \cup {added}]
        /\ UNCHANGED <<size, archive, dest, promised, faults>>
    BY <1>3 DEF Unpack
  <2>4. work'[p] = Before(at) \cup {added} /\ \A q \in Proc : q # p => work'[q] = work[q]
    BY <2>1, <2>3 DEF TypeOK
  <2>5. added \in Names \cup {"manifest"}
    BY <2>1, FileFacts
  <2>6. /\ last => work'[p] = Names \cup {"manifest"}
        /\ ~last => work'[p] = Before(at + 1)
    <3>1. last => at = 4 /\ added = "manifest"
      BY <2>1, FileFacts
    <3>2. ~last => at \in 1 .. 3 /\ added = File[at]
      BY <2>1, FileFacts
    <3> HIDE DEF last, added, at
    <3>3. QED
      BY <2>4, <3>1, <3>2, BeforeFacts
  <2> HIDE DEF call, last, added
  <2>7. /\ proc' \in [Proc -> Call] /\ proc'[p] = call
        /\ \A q \in Proc : q # p => proc'[q] = proc[q]
    BY <2>2, <2>3, CallFacts
  <2>8. TypeOK'
    BY <2>3, <2>5, <2>7 DEF TypeOK
  <2>9. Rest
    BY <2>1, <2>2, <2>3, <2>4, <2>6, <2>7
       DEF OneWriter, WritesAreValid, Progress, BackupsAreSafe, Accepted, Decrypts, Valid
  <2>10. QED
    BY <2>8, <2>9
<1>4. CASE Publish(p)
  <2>1. Becomes(p, Idle) /\ work' = [work EXCEPT ![p] = {}]
    BY <1>4 DEF Publish
  <2>2. /\ proc' \in [Proc -> Call] /\ proc'[p] = Idle
        /\ \A q \in Proc : q # p => proc'[q] = proc[q]
    BY <2>1, PackFacts, CallFacts
  <2>3. \A q \in Proc : q # p => work'[q] = work[q]
    BY <2>1 DEF TypeOK
  <2>4. dest' = dest \/ dest' = Names \cup {"manifest"}
    BY <1>4 DEF Publish, Progress
  <2>5. TypeOK'
    BY <1>4, <2>1, <2>2, <2>4 DEF Publish, TypeOK
  <2>6. Rest
    BY <1>4, <2>2, <2>3, <2>4, PackFacts
       DEF Publish, OneWriter, WritesAreValid, Progress, BackupsAreSafe, Accepted, Decrypts, Valid
  <2>7. QED
    BY <2>5, <2>6
<1>5. QED
  BY <1>1, <1>2, <1>3, <1>4

(* Failures and crashes.                                                   *)
LEMMA InvFaults ==
  ASSUME Inv, NEW p \in Proc, Fails(p) \/ Crash(p)
  PROVE  Inv'
<1> USE DEF Inv
<1>1. Becomes(p, Idle)
  BY DEF Fails, Crash
<1>2. /\ proc' \in [Proc -> Call] /\ proc'[p] = Idle
      /\ \A q \in Proc : q # p => proc'[q] = proc[q]
  BY <1>1, PackFacts, CallFacts
<1>3. /\ work' \in [Proc -> SUBSET (Names \cup {"manifest"})]
      /\ \A q \in Proc : q # p => work'[q] = work[q]
  BY DEF Fails, Crash, TypeOK
<1>4. faults' \in 0 .. MaxFaults
  BY BackupAssumption DEF Fails, Crash, TypeOK, BackupAssumption
<1>5. CASE proc[p].pc = "write" /\ Fails(p)
  <2>1. archive' = NoArchive
    BY <1>5 DEF Fails
  <2>2. ~promised /\ \A q \in Proc : proc'[q].pc # "write"
    BY <1>2, <1>5, PackFacts DEF OneWriter, BackupsAreSafe, Accepted, Decrypts
  <2>3. TypeOK'
    BY <1>2, <1>3, <1>4, <1>5, <2>1, PackFacts DEF Fails, TypeOK
  <2>4. OneWriter' /\ WritesAreValid' /\ Progress' /\ BackupsAreSafe'
    BY <1>2, <1>3, <1>5, <2>2, PackFacts
       DEF Fails, OneWriter, WritesAreValid, Progress, BackupsAreSafe, Valid
  <2>5. QED
    BY <2>3, <2>4
<1>6. CASE proc[p].pc # "write" \/ Crash(p)
  <2>1. archive' = archive /\ dest' = dest /\ size' = size /\ promised' = promised
    BY <1>6 DEF Fails, Crash
  <2>2. TypeOK'
    BY <1>2, <1>3, <1>4, <2>1 DEF TypeOK
  <2>3. OneWriter' /\ WritesAreValid' /\ Progress' /\ BackupsAreSafe'
    BY <1>2, <1>3, <2>1, PackFacts
       DEF OneWriter, WritesAreValid, Progress, BackupsAreSafe, Accepted, Decrypts, Valid
  <2>4. QED
    BY <2>2, <2>3
<1>7. QED
  BY <1>5, <1>6

LEMMA InvNext == Inv /\ [Next]_vars => Inv'
<1> SUFFICES ASSUME Inv, [Next]_vars PROVE Inv'
  OBVIOUS
<1>1. CASE UNCHANGED vars
  BY <1>1 DEF vars, Inv, TypeOK, OneWriter, WritesAreValid, Progress, BackupsAreSafe, Accepted,
              Decrypts, Valid
<1>2. CASE Next
  BY <1>2, InvOthers, InvCreate, InvRestore, InvFaults DEF Next
<1>3. QED
  BY <1>1, <1>2

LEMMA InvHolds == Spec => []Inv
  BY InvInit, InvNext, PTL DEF Spec

-----------------------------------------------------------------------------

(* Every variable keeps its type, whatever order the calls come in.        *)
THEOREM TypeCorrect == Spec => []TypeOK
<1>1. Inv => TypeOK
  BY DEF Inv
<1>2. QED
  BY <1>1, InvHolds, PTL

(* create_backup, verify_backup and restore_backup: a reported archive     *)
(* stays at its path and stays one that verify_backup accepts (which is    *)
(* less than recoverable: the database in it may be cut), and a directory  *)
(* gets every file of a vault or none, for any number of processes,        *)
(* failures and crashes.                                                   *)
THEOREM BackupsStaySafe == Spec => []BackupsAreSafe
<1>1. Inv => BackupsAreSafe
  BY DEF Inv
<1>2. QED
  BY <1>1, InvHolds, PTL
=============================================================================
