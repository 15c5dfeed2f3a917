------------------------------- MODULE Backup -------------------------------
(***************************************************************************)
(* `passman.core.backup.archive`: writing an encrypted archive of a vault  *)
(* that is in use, verifying it, and restoring it into an empty directory. *)
(* The command line and a worker of the settings window do this, in        *)
(* processes of their own, over one output path and one destination.       *)
(*                                                                         *)
(* Only the files that change are told apart; the key file and vault.json  *)
(* do not change while a vault is in use.  A wrong passphrase, an empty one *)
(* and a missing file end a call before it has done anything.              *)
(***************************************************************************)
EXTENDS Naturals, Sequences

CONSTANTS
  Proc,     \* processes that create, verify and restore
  MaxSize,  \* bound: sizes of a file
  MaxFaults \* bound: failures and crashes

ASSUME BackupAssumption == MaxSize \in Nat \ {0} /\ MaxFaults \in Nat

File == <<"db", "devices", "slot">>   \* in the order of _pack
Names == {"db", "devices", "slot"}

\* A member has the bytes that were there when its size was looked up, or, if the
\* file had grown in between, only as many of the new ones.
Member == {"missing", "whole", "cut"}
Pack == [Names -> Member]
Nothing == [name \in Names |-> "missing"]
Whole == [name \in Names |-> "whole"]
Legacy == [Whole EXCEPT !["slot"] = "missing"]

VARIABLES
  size,      \* of each file of the vault
  archive,   \* the file at the output path
  dest,      \* the directory to restore into
  proc,      \* what each process does
  work,      \* its hidden directory beside dest: the files in it
  promised,  \* history: the archive was reported as written, or as valid
  faults

vars == <<size, archive, dest, proc, work, promised, faults>>

\* Where a call is: at a file, whose size was seen, with what it has packed so far,
\* or is unpacking.
Call == [pc : {"idle", "look", "copy", "open", "write", "unpack", "publish"},
         at : 1 .. Len(File) + 1, seen : 0 .. MaxSize, pack : Pack]
Archive == [state : {"none", "torn", "whole"}, pack : Pack]

Idle == [pc |-> "idle", at |-> 1, seen |-> 0, pack |-> Nothing]
NoArchive == [state |-> "none", pack |-> Nothing]

TypeOK ==
  /\ size \in [Names -> 1 .. MaxSize]
  /\ archive \in Archive
  /\ dest \in {{"other"}} \cup SUBSET (Names \cup {"manifest"})
  /\ proc \in [Proc -> Call]
  /\ work \in [Proc -> SUBSET (Names \cup {"manifest"})]
  /\ promised \in BOOLEAN /\ faults \in 0 .. MaxFaults

\* There may be an archive of version 1, which has no slot.
Init ==
  /\ size = [name \in Names |-> 1]
  /\ archive \in {NoArchive, [state |-> "whole", pack |-> Legacy]}
  /\ dest = {}
  /\ proc = [p \in Proc |-> Idle] /\ work = [p \in Proc |-> {}]
  /\ promised = FALSE /\ faults = 0

-----------------------------------------------------------------------------
(* Around the calls.                                                       *)

\* Saving, enrolling, changing the password: each replaces a file in one step.
FileReplaced ==
  /\ \E name \in Names, n \in 1 .. MaxSize : size' = [size EXCEPT ![name] = n]
  /\ UNCHANGED <<archive, dest, proc, work, promised, faults>>

\* Something else is put into the destination, or the user empties it.
DestinationUsed ==
  /\ dest' \in {{}, {"other"}}
  /\ UNCHANGED <<size, archive, proc, work, promised, faults>>

\* The user removes the file, when nobody writes it.
ArchiveRemoved ==
  /\ \A p \in Proc : proc[p].pc # "write"
  /\ archive' = NoArchive /\ promised' = FALSE
  /\ UNCHANGED <<size, dest, proc, work, faults>>

-----------------------------------------------------------------------------
(* create_backup.                                                          *)

Becomes(p, change) == proc' = [proc EXCEPT ![p] = change]

CreateBackup(p) ==
  /\ proc[p].pc = "idle" /\ archive.state = "none"
  /\ Becomes(p, [Idle EXCEPT !.pc = "look"])
  /\ UNCHANGED <<size, archive, dest, work, promised, faults>>

\* tar.add: the size is looked up, then the file is opened and copied.
Look(p) ==
  /\ proc[p].pc = "look"
  /\ Becomes(p, [proc[p] EXCEPT !.pc = "copy", !.seen = size[File[proc[p].at]]])
  /\ UNCHANGED <<size, archive, dest, work, promised, faults>>

\* _validate_payload: a roster or a slot that was cut is no JSON; the database is
\* not looked at.
Valid(pack) == \A name \in Names \ {"db"} : pack[name] = "whole"

\* Fewer bytes than the size that was looked up are an error.
CopyMember(p) ==
  LET name == File[proc[p].at]
      grew == size[name] > proc[p].seen
      pack == [proc[p].pack EXCEPT ![name] = IF grew THEN "cut" ELSE "whole"]
      last == proc[p].at = Len(File)
  IN /\ proc[p].pc = "copy"
     /\ Becomes(p, IF size[name] < proc[p].seen \/ (last /\ ~Valid(pack)) THEN Idle
                   ELSE [pc |-> IF last THEN "open" ELSE "look", at |-> proc[p].at + 1,
                         seen |-> 0, pack |-> pack])
     /\ UNCHANGED <<size, archive, dest, work, promised, faults>>

\* Mutant: the file is removed whoever made it.
MOpenOutput(p) ==
  /\ proc[p].pc = "open"
  /\ IF archive.state = "none"
       THEN /\ archive' = [state |-> "torn", pack |-> Nothing]
            /\ Becomes(p, [proc[p] EXCEPT !.pc = "write"])
       ELSE archive' = NoArchive /\ Becomes(p, Idle)
  /\ UNCHANGED <<size, dest, work, promised, faults>>

\* O_EXCL; a file that is there by now is not ours.
OpenOutput(p) ==
  /\ proc[p].pc = "open"
  /\ IF archive.state = "none"
       THEN /\ archive' = [state |-> "torn", pack |-> Nothing]
            /\ Becomes(p, [proc[p] EXCEPT !.pc = "write"])
       ELSE Becomes(p, Idle) /\ UNCHANGED archive
  /\ UNCHANGED <<size, dest, work, promised, faults>>

WriteOutput(p) ==
  /\ proc[p].pc = "write"
  /\ archive' = [state |-> "whole", pack |-> proc[p].pack]
  /\ promised' = TRUE
  /\ Becomes(p, Idle)
  /\ UNCHANGED <<size, dest, work, faults>>

-----------------------------------------------------------------------------
(* verify_backup and restore_backup.                                       *)

\* _decrypt_archive: the tag of a torn file is wrong, if it has one.
Decrypts == archive.state = "whole"

\* What verify_backup accepts: it does not look at the database; version 1 has no
\* slot.
Accepted == Decrypts /\ Valid(archive.pack)

VerifyBackup(p) ==
  /\ proc[p].pc = "idle" /\ Accepted
  /\ promised' = TRUE
  /\ UNCHANGED <<size, archive, dest, proc, work, faults>>

\* Into no directory or an empty one.  An archive of version 1 needs the slot of
\* the original vault, one of version 2 takes none.
RestoreBackup(p) ==
  /\ proc[p].pc = "idle" /\ dest = {} /\ Decrypts
  /\ LET files == [archive.pack EXCEPT !["slot"] = IF @ = "missing" THEN "whole" ELSE @]
     IN Valid(files) /\ Becomes(p, [Idle EXCEPT !.pc = "unpack", !.pack = files])
  /\ work' = [work EXCEPT ![p] = {}]
  /\ UNCHANGED <<size, archive, dest, promised, faults>>

\* File after file, then the manifest.
Unpack(p) ==
  LET at == proc[p].at
      last == at > Len(File)
  IN /\ proc[p].pc = "unpack"
     /\ work' = [work EXCEPT ![p] = @ \cup {IF last THEN "manifest" ELSE File[at]}]
     /\ Becomes(p, IF last THEN [proc[p] EXCEPT !.pc = "publish"] ELSE [proc[p] EXCEPT !.at = @ + 1])
     /\ UNCHANGED <<size, archive, dest, promised, faults>>

\* Mutant: whatever is in the directory is overwritten, file by file.
MPublish(p) ==
  /\ proc[p].pc = "publish"
  /\ dest' = dest \cup work[p]
  /\ work' = [work EXCEPT ![p] = {}] /\ Becomes(p, Idle)
  /\ UNCHANGED <<size, archive, promised, faults>>

\* os.replace, onto nothing or an empty directory.
Publish(p) ==
  /\ proc[p].pc = "publish"
  /\ dest' = IF dest = {} THEN work[p] ELSE dest
  /\ work' = [work EXCEPT ![p] = {}] /\ Becomes(p, Idle)
  /\ UNCHANGED <<size, archive, promised, faults>>

-----------------------------------------------------------------------------

\* An I/O error, also of a USB that is pulled: what the call has made is removed.
Fails(p) ==
  /\ proc[p].pc # "idle" /\ faults < MaxFaults /\ faults' = faults + 1
  /\ archive' = IF proc[p].pc = "write" THEN NoArchive ELSE archive
  /\ work' = [work EXCEPT ![p] = {}] /\ Becomes(p, Idle)
  /\ UNCHANGED <<size, dest, promised>>

\* The process ends (for the settings window: also when the vault locks).
Crash(p) ==
  /\ proc[p].pc # "idle" /\ faults < MaxFaults /\ faults' = faults + 1
  /\ Becomes(p, Idle)
  /\ UNCHANGED <<size, archive, dest, work, promised>>

Next ==
  \/ FileReplaced \/ DestinationUsed \/ ArchiveRemoved
  \/ \E p \in Proc :
       \/ CreateBackup(p) \/ Look(p) \/ CopyMember(p) \/ OpenOutput(p) \/ WriteOutput(p)
       \/ VerifyBackup(p) \/ RestoreBackup(p) \/ Unpack(p) \/ Publish(p)
       \/ Fails(p) \/ Crash(p)

Spec == Init /\ [][Next]_vars

-----------------------------------------------------------------------------

\* create_backup and restore_backup against other calls: an archive that was
\* reported as written, or as valid, stays at its path and stays one that
\* verify_backup accepts, whatever another call does to that path, until the user
\* removes it; and the destination has nothing in it, something else, or every
\* file of a vault.  Nothing is said of the database's contents: see the next.
BackupsAreSafe ==
  /\ promised => Accepted
  /\ dest \in {{}, {"other"}, Names \cup {"manifest"}}

\* What verify_backup says of itself, "Validate a complete, independently
\* recoverable backup": no member of a reported archive was cut.  The code does
\* not keep it: a database that grows between the lookup of its size and the copy
\* is stored without its end, and nothing after that looks at it.
ReportedIsRecoverable == promised => archive.pack = Whole
=============================================================================
