----------------------------- MODULE Quarantine -----------------------------
(* One installed package that is put away by `pkgwatch quarantine` and put     *)
(* back by `pkgwatch restore` or the dashboard's button.  It is the one part   *)
(* of the program that deletes something, and it works on three stores that no *)
(* transaction joins: the package's directory, the archives in the quarantine  *)
(* directory and the quarantine table.  A command may be killed, and a read, a *)
(* write or a statement may fail, at every step; a package manager may install *)
(* into the directory again, and a person may delete an archive or move the    *)
(* directory aside.                                                            *)
(*                                                                             *)
(* A file is its content: 0 where there is none, 1 for what was installed      *)
(* first, higher for what a later installation wrote, Bad for what a failed    *)
(* write left.  A tree is the content of every file, and stands for its        *)
(* digest.                                                                     *)
EXTENDS Naturals, FiniteSets

CONSTANTS
    Files,      \* files of the package
    InstallDir, \* those under the directory its inventory row names
    Keepers,    \* processes that quarantine
    Restorers,  \* processes that restore: the command line, the dashboard
    MaxIds,     \* bound: quarantines attempted
    MaxContent, \* bound: installations of the package, the first included
    MaxFaults,  \* bound: files written badly, statements that failed, commands killed
    Quiet       \* nobody installs into the directory while it is being put away

ASSUME QuarantineAssumption ==
    /\ InstallDir \subseteq Files /\ MaxIds \in Nat /\ MaxContent \in Nat \ {0}
    /\ MaxFaults \in Nat /\ Quiet \in BOOLEAN

VARIABLES
    disk,    \* file -> content
    dir,     \* the package's directory exists
    archive, \* id -> the archive file: whether it is there, and the tree in it
    row,     \* quarantine table: id -> state ("none" for no row) and digest
    finding, \* state of the package's finding
    proc,    \* process -> where it is, its id, the files ahead, the tree packed or unpacked
    ids,     \* ids handed out
    faults,  \* faults so far
    deleted, \* archives a person deleted
    written  \* process -> files that changed since it listed what it put back

vars == <<disk, dir, archive, row, finding, proc, ids, faults, deleted, written>>

Bad     == MaxContent + 1
Trees   == [InstallDir -> 0 .. Bad]
Nothing == [f \in InstallDir |-> 0]
Ids     == 1 .. MaxIds
Tree    == [f \in InstallDir |-> disk[f]]
NoFile  == [there |-> FALSE, tree |-> Nothing]
NoRow   == [state |-> "none", sha |-> Nothing]
Rest    == [pc |-> "idle", id |-> 0, todo |-> {}, digest |-> Nothing]

Procs == Keepers \cup Restorers

Waiting   == {"idle", "asked"}
Keeping   == {"walk", "pack", "verify", "record", "remove", "mark"}
Restoring == {"stat", "open", "unpack", "read", "restored", "failed", "reopen"}

Archives == [there : BOOLEAN, tree : Trees]
Records  == [state : {"none", "active", "restored", "failed", "missing"}, sha : Trees]
Running  == [pc : Waiting \cup Keeping \cup Restoring, id : 0 .. MaxIds,
             todo : SUBSET InstallDir, digest : Trees]

TypeOK ==
    /\ disk \in [Files -> 0 .. Bad] /\ dir \in BOOLEAN
    /\ ~dir => Tree = Nothing
    /\ archive \in [Ids -> Archives]
    /\ row \in [Ids -> Records]
    /\ finding \in {"open", "quarantined"}
    /\ proc \in [Procs -> Running]
    /\ \A p \in Procs : proc[p].pc \notin Waiting => proc[p].id # 0
    /\ ids \in 0 .. MaxIds /\ faults \in 0 .. MaxFaults
    /\ deleted \subseteq Ids /\ written \in [Procs -> SUBSET InstallDir]

Init ==
    /\ disk = [f \in Files |-> 1] /\ dir = TRUE
    /\ archive = [i \in Ids |-> NoFile] /\ row = [i \in Ids |-> NoRow]
    /\ finding = "open"
    /\ proc = [p \in Procs |-> Rest] /\ ids = 0 /\ faults = 0 /\ deleted = {}
    /\ written = [p \in Procs |-> {}]

Goto(p, pc) == proc' = [proc EXCEPT ![p].pc = pc]
Ends(p)     == proc' = [proc EXCEPT ![p] = Rest]
Fault       == faults < MaxFaults /\ faults' = faults + 1

\* History: a file changes, and whoever is reading the tree back has listed it.
Writes(f) ==
    written' = [p \in Procs |-> IF proc[p].pc = "read" THEN written[p] \cup {f} ELSE written[p]]
ReadsNoMore(p) == written' = [written EXCEPT ![p] = {}]

-----------------------------------------------------------------------------
(* `pkgwatch quarantine`                                                       *)

\* The package is in the inventory, which may be out of date, and no row says it
\* is put away already; the person is asked.
Begin(p) ==
    /\ proc[p].pc = "idle" /\ ids < MaxIds
    /\ \A i \in Ids : row[i].state # "active"
    /\ Goto(p, "asked")
    /\ UNCHANGED <<disk, dir, archive, row, finding, ids, faults, deleted, written>>

\* The answer: no, or yes; Pack finds the directory and creates the archive.
Pack(p) ==
    /\ proc[p].pc = "asked"
    /\ \/ Ends(p) /\ UNCHANGED <<archive, ids>>
       \/ /\ dir /\ ids < MaxIds
          /\ ids' = ids + 1
          /\ archive' = [archive EXCEPT ![ids + 1].there = TRUE]
          /\ proc' = [proc EXCEPT ![p] = [Rest EXCEPT !.pc = "walk", !.id = ids + 1]]
    /\ UNCHANGED <<disk, dir, row, finding, faults, deleted, written>>

\* walk: what is in the directory is listed, all of it.
Walk(p) ==
    /\ proc[p].pc = "walk"
    /\ \/ ~dir /\ Ends(p)
       \/ /\ dir
          /\ proc' = [proc EXCEPT ![p] = [@ EXCEPT !.pc = "pack",
                                            !.todo = {f \in InstallDir : disk[f] # 0}]]
    /\ UNCHANGED <<disk, dir, archive, row, finding, ids, faults, deleted, written>>

\* writeEntry: a file goes into the archive and into the digest.  What the tar
\* cannot bring back, or the disk did not take, goes into the digest all the same.
PackFile(p, f) ==
    /\ proc[p].pc = "pack" /\ f \in proc[p].todo /\ disk[f] # 0
    /\ \E content \in {disk[f], Bad} :
         /\ IF content = disk[f] THEN faults' = faults ELSE Fault
         /\ archive' = [archive EXCEPT ![proc[p].id] =
                          [@ EXCEPT !.tree = [archive[proc[p].id].tree EXCEPT ![f] = content]]]
    /\ proc' = [proc EXCEPT ![p] = [@ EXCEPT !.todo = proc[p].todo \ {f},
                                      !.digest = [proc[p].digest EXCEPT ![f] = disk[f]]]]
    /\ UNCHANGED <<disk, dir, row, finding, ids, deleted, written>>

\* A listed file that is gone ends the command, the archive unfinished.
PackFails(p) ==
    /\ proc[p].pc = "pack" /\ \E f \in proc[p].todo : disk[f] = 0
    /\ Ends(p)
    /\ UNCHANGED <<disk, dir, archive, row, finding, ids, faults, deleted, written>>

Packed(p) ==
    /\ proc[p].pc = "pack" /\ proc[p].todo = {}
    /\ Goto(p, "verify")
    /\ UNCHANGED <<disk, dir, archive, row, finding, ids, faults, deleted, written>>

\* Mutant: an archive that was written is an archive.
TakenAsWritten(p) == TRUE

\* Unpack into a directory of its own, and compare the digests.
ReadsBack(p) == archive[proc[p].id].tree = proc[p].digest

\* An archive that does not reproduce the tree is removed and nothing else is.
VerifyArchive(p) ==
    /\ proc[p].pc = "verify"
    /\ \/ /\ ReadsBack(p) /\ Goto(p, "record") /\ archive' = archive
       \/ /\ ~ReadsBack(p) /\ Ends(p)
          /\ archive' = [archive EXCEPT ![proc[p].id] = NoFile]
    /\ UNCHANGED <<disk, dir, row, finding, ids, faults, deleted, written>>

\* Mutant: the files go although the row was not written.
RemoveAnyway(p) == Goto(p, "remove") /\ row' = row

\* RecordQuarantine failed: the command ends before anything is removed.
NotRecorded(p) == Ends(p) /\ row' = row

\* RecordQuarantine, before the removal.
RecordQuarantine(p) ==
    /\ proc[p].pc = "record"
    /\ \/ /\ row' = [row EXCEPT ![proc[p].id] = [state |-> "active", sha |-> proc[p].digest]]
          /\ Goto(p, "remove") /\ faults' = faults
       \/ /\ NotRecorded(p) /\ Fault
    /\ UNCHANGED <<disk, dir, archive, finding, ids, deleted, written>>

\* os.RemoveAll: the files one by one, in any order, then the directory.
RemoveFile(p, f) ==
    /\ proc[p].pc = "remove" /\ f \in InstallDir /\ disk[f] # 0
    /\ disk' = [disk EXCEPT ![f] = 0]
    /\ Writes(f)
    /\ UNCHANGED <<dir, archive, row, finding, proc, ids, faults, deleted>>

RemoveDir(p) ==
    /\ proc[p].pc = "remove" /\ Tree = Nothing
    /\ dir' = FALSE /\ Goto(p, "mark")
    /\ UNCHANGED <<disk, archive, row, finding, ids, faults, deleted, written>>

\* MarkFindingsQuarantined, whose failure is only noted.
MarkFindings(p) ==
    /\ proc[p].pc = "mark"
    /\ \/ finding' = "quarantined" /\ faults' = faults
       \/ finding' = finding /\ Fault
    /\ Ends(p)
    /\ UNCHANGED <<disk, dir, archive, row, ids, deleted, written>>

-----------------------------------------------------------------------------
(* Restore                                                                     *)

\* The row is read: only an active one can be put back.
ReadItem(p, i) ==
    /\ proc[p].pc = "idle" /\ row[i].state = "active"
    /\ proc' = [proc EXCEPT ![p] = [Rest EXCEPT !.pc = "stat", !.id = i]]
    /\ UNCHANGED <<disk, dir, archive, row, finding, ids, faults, deleted, written>>

\* What a restore came to, before it is recorded.
Outcome(p, pc) == proc' = [proc EXCEPT ![p] = [Rest EXCEPT !.pc = pc, !.id = proc[p].id]]

\* The state of a row whose archive is no longer there.
QuarantineMissing == "missing"

\* An archive that is gone is recorded as missing; a directory that is there is
\* not unpacked over.
CheckPaths(p) ==
    LET i == proc[p].id
    IN  /\ proc[p].pc = "stat"
        /\ \/ /\ ~archive[i].there /\ Ends(p)
              /\ row' = [row EXCEPT ![i].state = QuarantineMissing]
           \/ archive[i].there /\ dir /\ Ends(p) /\ row' = row
           \/ archive[i].there /\ ~dir /\ Goto(p, "open") /\ row' = row
        /\ UNCHANGED <<disk, dir, archive, finding, ids, faults, deleted, written>>

\* Unpack opens the archive, which may be gone by now, and creates the directory,
\* which may be there by now.
OpenArchive(p) ==
    LET i == proc[p].id
    IN  /\ proc[p].pc = "open"
        /\ \/ ~archive[i].there /\ Outcome(p, "failed") /\ dir' = dir
           \/ /\ archive[i].there /\ dir' = TRUE
              /\ proc' = [proc EXCEPT ![p] =
                            [@ EXCEPT !.pc = "unpack", !.digest = archive[i].tree,
                                      !.todo = {f \in InstallDir : archive[i].tree[f] # 0}]]
        /\ UNCHANGED <<disk, archive, row, finding, ids, faults, deleted, written>>

\* Mutant: O_TRUNC for O_EXCL.
MayWriteOver(f) == TRUE

\* O_EXCL: a file that is there is not opened for writing.
MayCreate(f) == disk[f] = 0

\* Unpack, one entry of the archive that is open: written, written badly, or
\* refused because a file is there.
UnpackFile(p, f) ==
    /\ proc[p].pc = "unpack" /\ f \in proc[p].todo
    /\ dir' = TRUE
    /\ \/ /\ MayCreate(f) /\ Writes(f)
          /\ disk' = [disk EXCEPT ![f] = proc[p].digest[f]]
          /\ proc' = [proc EXCEPT ![p].todo = proc[p].todo \ {f}] /\ faults' = faults
       \/ /\ MayCreate(f) /\ Fault /\ Writes(f)
          /\ disk' = [disk EXCEPT ![f] = Bad]
          /\ Outcome(p, "failed")
       \/ /\ ~MayCreate(f)
          /\ Outcome(p, "failed") /\ UNCHANGED <<disk, faults, written>>
    /\ UNCHANGED <<archive, row, finding, ids, deleted>>

\* Mutant: only the files that were unpacked are read back.
ListedInArchive(p) == {f \in InstallDir : row[proc[p].id].sha[f] # 0}

\* The files that Digest goes through: those in the directory, whoever put them there.
Listed(p) == {f \in InstallDir : disk[f] # 0}

\* Digest, its walk: the directory is listed once the last entry is written.
ListTree(p) ==
    /\ proc[p].pc = "unpack" /\ proc[p].todo = {}
    /\ \/ ~dir /\ Outcome(p, "failed")
       \/ /\ dir
          /\ proc' = [proc EXCEPT ![p] = [@ EXCEPT !.pc = "read", !.todo = Listed(p),
                                            !.digest = Nothing]]
    /\ UNCHANGED <<disk, dir, archive, row, finding, ids, faults, deleted, written>>

\* Digest, one file that was listed: what is in it now, or an error if it is gone.
ReadFile(p, f) ==
    /\ proc[p].pc = "read" /\ f \in proc[p].todo
    /\ \/ /\ disk[f] # 0 /\ written' = written
          /\ proc' = [proc EXCEPT ![p] = [@ EXCEPT !.todo = proc[p].todo \ {f},
                                            !.digest = [proc[p].digest EXCEPT ![f] = disk[f]]]]
       \/ disk[f] = 0 /\ Outcome(p, "failed") /\ ReadsNoMore(p)
    /\ UNCHANGED <<disk, dir, archive, row, finding, ids, faults, deleted>>

\* The digest of what was read is compared with that of what was taken.
CompareDigests(p) ==
    /\ proc[p].pc = "read" /\ proc[p].todo = {}
    /\ Outcome(p, IF proc[p].digest = row[proc[p].id].sha THEN "restored" ELSE "failed")
    /\ ReadsNoMore(p)
    /\ UNCHANGED <<disk, dir, archive, row, finding, ids, faults, deleted>>

\* An error anywhere between the open and the comparison is a failed restore.
UnpackFails(p) ==
    /\ proc[p].pc \in {"open", "unpack", "read"} /\ Fault
    /\ Outcome(p, "failed") /\ ReadsNoMore(p)
    /\ UNCHANGED <<disk, dir, archive, row, finding, ids, deleted>>

\* MarkRestored with the outcome; after a success the findings are next.
MarkRestored(p) ==
    /\ proc[p].pc \in {"restored", "failed"}
    /\ row' = [row EXCEPT ![proc[p].id].state = proc[p].pc]
    /\ IF proc[p].pc = "restored" THEN Goto(p, "reopen") ELSE Ends(p)
    /\ UNCHANGED <<disk, dir, archive, finding, ids, faults, deleted, written>>

\* ReopenFindingsForRestored.
ReopenFindings(p) ==
    /\ proc[p].pc = "reopen"
    /\ finding' = "open" /\ Ends(p)
    /\ UNCHANGED <<disk, dir, archive, row, ids, faults, deleted, written>>

-----------------------------------------------------------------------------
(* Faults, and the world                                                       *)

\* A command is killed, or ends on an error the steps above do not single out.
Killed(p) ==
    /\ proc[p].pc # "idle" /\ Fault
    /\ Ends(p) /\ ReadsNoMore(p)
    /\ UNCHANGED <<disk, dir, archive, row, finding, ids, deleted>>

\* The package manager installs the package, or one more file of it, again.
Install(f, content) ==
    /\ Quiet => \A p \in Keepers : proc[p].pc \in Waiting \cup {"walk"}
    /\ content \in 2 .. MaxContent /\ disk[f] < content
    /\ disk' = [disk EXCEPT ![f] = content]
    /\ dir' = (dir \/ f \in InstallDir)
    /\ IF f \in InstallDir THEN Writes(f) ELSE written' = written
    /\ UNCHANGED <<archive, row, finding, proc, ids, faults, deleted>>

\* A person moves the directory aside, as a refused restore asks for.
MoveAside ==
    /\ dir /\ \A p \in Procs : proc[p].pc \in Waiting
    /\ disk' = [f \in Files |-> IF f \in InstallDir THEN 0 ELSE disk[f]] /\ dir' = FALSE
    /\ UNCHANGED <<archive, row, finding, proc, ids, faults, deleted, written>>

\* A person deletes an archive that a row names.
DeleteArchive(i) ==
    /\ archive[i].there /\ row[i].state # "none"
    /\ archive' = [archive EXCEPT ![i] = NoFile]
    /\ deleted' = deleted \cup {i}
    /\ UNCHANGED <<disk, dir, row, finding, proc, ids, faults, written>>

Next ==
    \/ \E p \in Keepers :
         \/ Begin(p) \/ Pack(p) \/ Walk(p) \/ PackFails(p) \/ Packed(p) \/ VerifyArchive(p)
         \/ RecordQuarantine(p)
         \/ \E f \in Files : PackFile(p, f) \/ RemoveFile(p, f)
         \/ RemoveDir(p) \/ MarkFindings(p)
    \/ \E p \in Restorers :
         \/ \E i \in Ids : ReadItem(p, i)
         \/ CheckPaths(p) \/ OpenArchive(p) \/ ListTree(p) \/ CompareDigests(p)
         \/ UnpackFails(p) \/ MarkRestored(p) \/ ReopenFindings(p)
         \/ \E f \in Files : UnpackFile(p, f) \/ ReadFile(p, f)
    \/ \E p \in Procs : Killed(p)
    \/ \E f \in Files, content \in 2 .. MaxContent : Install(f, content)
    \/ MoveAside
    \/ \E i \in Ids : DeleteArchive(i)

Spec == Init /\ [][Next]_vars

-----------------------------------------------------------------------------
(* Correctness                                                                 *)

\* What a row records is on file, whole: the archive holds the tree the digest
\* is of, until a person deletes it.
Held(i) == archive[i].there /\ archive[i].tree = row[i].sha

ProgramStep == \E p \in Procs : proc'[p] # proc[p] \/ proc[p].pc = "remove"

\* "The archive is written and verified before the original is removed"
\* (quarantine/quarantine.go:4-8): whatever fails or is killed, a recorded
\* package is held whole, and no command takes a file away, or writes over one,
\* that no recorded archive holds.
TakesHeld ==
    /\ \A i \in Ids \ deleted' : row'[i].state # "none" => Held(i)'
    /\ \A f \in InstallDir :
         ProgramStep /\ disk[f] \notin {0, Bad} /\ disk'[f] # disk[f] /\ deleted = {} =>
             \E i \in Ids : row[i].state # "none" /\ archive[i].tree[f] = disk[f]
TakesOnlyWhatItHolds == [][TakesHeld]_vars

\* "A restore that does not reproduce that digest exactly is reported as a
\* failure" (quarantine/quarantine.go:7-8): whatever a package manager, a second
\* restore or a quarantine did to the directory before, when a restore succeeds
\* every file is what was taken, and no other is there, but for the files that
\* somebody wrote while the directory was being read back.
ComparedLast ==
    \A p \in Restorers :
        proc[p].pc = "read" /\ proc'[p].pc = "restored" =>
            \A f \in InstallDir \ written[p] : disk[f] = row[proc[p].id].sha[f]
RestoredIsIdentical == [][ComparedLast]_vars

\* Between them the two commands keep the promise of Custody, whichever of their
\* steps fails or is killed: what is on file for a row is held, RemoveFile takes,
\* UnpackFile gives back and never writes over a file (quarantine/quarantine.go,
\* quarantine/restore.go), and no other step touches a file or an archive of a row.
InCustody == {archive[i].tree : i \in {j \in Ids \ deleted : row[j].state # "none"}}
Promise == INSTANCE Custody WITH
    Files <- InstallDir, Contents <- 0 .. MaxContent, Damaged <- Bad,
    here <- Tree, held <- InCustody, discarded <- deleted # {}
KeepsCustody == Promise!Spec

-----------------------------------------------------------------------------
(* What does not hold                                                          *)

\* "Move an installed package out of the way" (cli/quarantine.go:28): when the
\* command has ended well, the package is off the disk.
OffTheMachine ==
    [][\A p \in Keepers : proc[p].pc = "mark" =>
          \A f \in Files : disk[f] # 1]_vars

\* A restore that succeeds has the tree that was taken in the directory, whole.
ReproducedExactly ==
    [][\A p \in Restorers :
          proc[p].pc = "read" /\ proc'[p].pc = "restored" => Tree = row[proc[p].id].sha]_vars

\* What is held can be put back.
CanComeBack == \A i \in Ids : Held(i) /\ row[i].state # "none" => row[i].state # "failed"

\* A second quarantine cannot bury the first (repo/quarantine.go:136-137).
OneActive == \A i, j \in Ids : row[i].state = "active" /\ row[j].state = "active" => i = j

=============================================================================
