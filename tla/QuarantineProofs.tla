-------------------------- MODULE QuarantineProofs --------------------------
(***************************************************************************)
(* Theorems about Quarantine, for every package, number of processes and   *)
(* bound.                                                                  *)
(***************************************************************************)
EXTENDS Quarantine, TLAPS

(* Type correctness. *)

LEMMA EmptyTypes ==
    /\ Nothing \in Trees /\ NoFile \in Archives /\ NoRow \in Records /\ Rest \in Running
    /\ Bad \in 0 .. Bad /\ 0 \in 0 .. Bad
<1>1. Bad \in 0 .. Bad /\ 0 \in 0 .. Bad
  BY QuarantineAssumption DEF Bad
<1>2. Nothing \in Trees
  BY <1>1 DEF Nothing, Trees
<1>3. QED
  BY <1>1, <1>2, QuarantineAssumption DEF NoFile, Archives, NoRow, Records, Rest, Running, Waiting

\* The directory's part of a well-formed disk is a tree.
LEMMA TreeType ==
    ASSUME disk \in [Files -> 0 .. Bad]
    PROVE  Tree \in Trees
BY QuarantineAssumption DEF Tree, Trees

\* A process that moves on, one that has its outcome, and one that ends.
LEMMA MoveType ==
    ASSUME TypeOK, NEW p \in Procs
    PROVE  /\ \A pc \in Keeping \cup Restoring :
                 proc[p].pc \notin Waiting /\ (Goto(p, pc) \/ Outcome(p, pc)) =>
                    /\ proc' \in [Procs -> Running]
                    /\ \A q \in Procs : proc'[q].pc \notin Waiting => proc'[q].id # 0
           /\ Ends(p) =>
                /\ proc' \in [Procs -> Running]
                /\ \A q \in Procs : proc'[q].pc \notin Waiting => proc'[q].id # 0
<1>1. proc[p] \in Running /\ Rest \in Running /\ Rest.pc \in Waiting
  BY EmptyTypes DEF TypeOK, Rest, Waiting
<1>2. ASSUME NEW pc \in Keeping \cup Restoring, proc[p].pc \notin Waiting,
             Goto(p, pc) \/ Outcome(p, pc)
      PROVE  /\ proc' \in [Procs -> Running]
             /\ \A q \in Procs : proc'[q].pc \notin Waiting => proc'[q].id # 0
  <2>1. [proc[p] EXCEPT !.pc = pc] \in Running /\ [proc[p] EXCEPT !.pc = pc].id = proc[p].id
    BY <1>1 DEF Running
  <2>2. /\ [Rest EXCEPT !.pc = pc, !.id = proc[p].id] \in Running
        /\ [Rest EXCEPT !.pc = pc, !.id = proc[p].id].id = proc[p].id
    BY <1>1 DEF Running
  <2>3. \/ proc' = [proc EXCEPT ![p] = [proc[p] EXCEPT !.pc = pc]]
        \/ proc' = [proc EXCEPT ![p] = [Rest EXCEPT !.pc = pc, !.id = proc[p].id]]
    BY <1>2 DEF Goto, Outcome
  <2>4. QED
    BY <1>2, <2>1, <2>2, <2>3 DEF TypeOK
<1>3. ASSUME Ends(p)
      PROVE  /\ proc' \in [Procs -> Running]
             /\ \A q \in Procs : proc'[q].pc \notin Waiting => proc'[q].id # 0
  BY <1>1, <1>3 DEF Ends, TypeOK
<1>4. QED
  BY <1>2, <1>3

\* An id that a process works on is one.
LEMMA IdType ==
    ASSUME TypeOK, NEW p \in Procs, proc[p].pc \notin {"idle", "asked"}
    PROVE  proc[p].id \in Ids /\ proc[p] \in Running
BY QuarantineAssumption DEF TypeOK, Running, Ids, Waiting

\* What is noted of the files that change.
LEMMA WrittenType ==
    ASSUME TypeOK
    PROVE  /\ \A f \in InstallDir : Writes(f) => written' \in [Procs -> SUBSET InstallDir]
           /\ \A p \in Procs : ReadsNoMore(p) => written' \in [Procs -> SUBSET InstallDir]
BY DEF TypeOK, Writes, ReadsNoMore

LEMMA KeeperType ==
    ASSUME TypeOK, NEW p \in Keepers,
           \/ Begin(p) \/ Pack(p) \/ Walk(p) \/ PackFails(p) \/ Packed(p) \/ VerifyArchive(p)
           \/ RecordQuarantine(p)
           \/ \E f \in Files : PackFile(p, f) \/ RemoveFile(p, f)
           \/ RemoveDir(p) \/ MarkFindings(p)
    PROVE  TypeOK'
<1> p \in Procs
  BY DEF Procs
<1>0. Tree \in Trees
  BY TreeType DEF TypeOK
<1>1. CASE Begin(p)
  <2>1. [proc[p] EXCEPT !.pc = "asked"] \in Running /\ [proc[p] EXCEPT !.pc = "asked"].pc \in Waiting
    BY DEF TypeOK, Running, Waiting
  <2>2. /\ proc' \in [Procs -> Running]
        /\ \A q \in Procs : proc'[q].pc \notin Waiting => proc'[q].id # 0
    BY <1>1, <2>1 DEF Begin, Goto, TypeOK
  <2>3. QED
    BY <1>1, <2>2 DEF Begin, TypeOK, Tree
<1>10. CASE Pack(p)
  <2>1. CASE Ends(p) /\ UNCHANGED <<archive, ids>>
    BY <1>10, <2>1, MoveType DEF Pack, TypeOK, Tree
  <2>2. CASE /\ dir /\ ids < MaxIds
             /\ ids' = ids + 1
             /\ archive' = [archive EXCEPT ![ids + 1].there = TRUE]
             /\ proc' = [proc EXCEPT ![p] = [Rest EXCEPT !.pc = "walk", !.id = ids + 1]]
    <3>1. ids + 1 \in Ids /\ ids' \in 0 .. MaxIds /\ ids + 1 \in 0 .. MaxIds /\ ids + 1 # 0
      BY <2>2, QuarantineAssumption DEF TypeOK, Ids
    <3>2. archive[ids + 1] \in Archives
      BY <3>1 DEF TypeOK
    <3>3. archive' \in [Ids -> Archives]
      <4>1. [archive[ids + 1] EXCEPT !.there = TRUE] \in Archives
        BY <3>2 DEF Archives
      <4>2. archive' = [archive EXCEPT ![ids + 1] = [archive[ids + 1] EXCEPT !.there = TRUE]]
        BY <2>2
      <4>3. QED
        BY <3>1, <4>1, <4>2 DEF TypeOK
    <3> DEFINE next == [Rest EXCEPT !.pc = "walk", !.id = ids + 1]
    <3>4. next \in Running /\ next.id = ids + 1
      BY <3>1, EmptyTypes DEF Running, Keeping
    <3>5. /\ proc' \in [Procs -> Running]
          /\ \A q \in Procs : proc'[q].pc \notin Waiting => proc'[q].id # 0
      BY <2>2, <3>1, <3>4 DEF TypeOK
    <3>6. QED
      BY <1>10, <3>1, <3>3, <3>5 DEF Pack, TypeOK, Tree
  <2>3. QED
    BY <1>10, <2>1, <2>2 DEF Pack
<1>11. CASE Walk(p)
  <2>1. proc[p] \in Running /\ proc[p].id # 0
    BY <1>11 DEF Walk, TypeOK, Waiting
  <2> DEFINE next == [proc[p] EXCEPT !.pc = "pack", !.todo = {f \in InstallDir : disk[f] # 0}]
  <2>2. next \in Running /\ next.id = proc[p].id
    BY <2>1, Zenon DEF Running, Keeping
  <2>3. CASE proc' = [proc EXCEPT ![p] = next]
    <3>1. /\ proc' \in [Procs -> Running]
          /\ \A q \in Procs : proc'[q].pc \notin Waiting => proc'[q].id # 0
      BY <2>1, <2>2, <2>3 DEF TypeOK
    <3>2. QED
      BY <1>11, <3>1 DEF Walk, TypeOK, Tree
  <2>4. CASE Ends(p)
    BY <1>11, <2>4, MoveType DEF Walk, TypeOK, Tree
  <2>5. QED
    BY <1>11, <2>3, <2>4 DEF Walk
<1>2. CASE PackFails(p) \/ Packed(p)
  BY <1>2, MoveType DEF PackFails, Packed, TypeOK, Tree, Keeping, Waiting
<1>3. CASE VerifyArchive(p)
  <2>1. archive' \in [Ids -> Archives]
    BY <1>3, EmptyTypes DEF VerifyArchive, TypeOK
  <2>2. /\ proc' \in [Procs -> Running]
        /\ \A q \in Procs : proc'[q].pc \notin Waiting => proc'[q].id # 0
    BY <1>3, MoveType DEF VerifyArchive, Keeping, Waiting
  <2>3. QED
    BY <1>3, <2>1, <2>2 DEF VerifyArchive, TypeOK, Tree
<1>4. CASE RecordQuarantine(p)
  <2>1. proc[p].id \in Ids /\ proc[p].digest \in Trees
    BY <1>4, IdType DEF RecordQuarantine, Running
  <2>2. [state |-> "active", sha |-> proc[p].digest] \in Records
    BY <2>1 DEF Records
  <2>3. row' \in [Ids -> Records]
    BY <1>4, <2>2 DEF RecordQuarantine, NotRecorded, TypeOK
  <2>4. /\ proc' \in [Procs -> Running]
        /\ \A q \in Procs : proc'[q].pc \notin Waiting => proc'[q].id # 0
    BY <1>4, MoveType DEF RecordQuarantine, NotRecorded, Keeping, Waiting
  <2>5. faults' \in 0 .. MaxFaults
    BY <1>4, QuarantineAssumption DEF RecordQuarantine, Fault, TypeOK
  <2>6. QED
    BY <1>4, <2>3, <2>4, <2>5 DEF RecordQuarantine, TypeOK, Tree
<1>5. ASSUME NEW f \in Files, PackFile(p, f) PROVE TypeOK'
  <2> DEFINE i == proc[p].id
  <2>1. i \in Ids /\ proc[p] \in Running /\ archive[i] \in Archives /\ f \in InstallDir
    BY <1>5, IdType DEF PackFile, TypeOK, Running
  <2>2. PICK content \in {disk[f], Bad} :
             archive' = [archive EXCEPT ![i] = [archive[i] EXCEPT !.tree = [archive[i].tree EXCEPT ![f] = content]]]
    BY <1>5, Zenon DEF PackFile
  <2>3. content \in 0 .. Bad /\ disk[f] \in 0 .. Bad
    BY EmptyTypes DEF TypeOK
  <2>4. [archive[i].tree EXCEPT ![f] = content] \in Trees
    BY <2>1, <2>3 DEF Archives, Trees
  <2>5. archive' \in [Ids -> Archives]
    <3>1. [archive[i] EXCEPT !.tree = [archive[i].tree EXCEPT ![f] = content]] \in Archives
      BY <2>1, <2>4 DEF Archives
    <3>2. QED
      BY <2>1, <2>2, <3>1 DEF TypeOK
  <2>6. [proc[p].digest EXCEPT ![f] = disk[f]] \in Trees
    BY <2>1, <2>3 DEF Running, Trees
  <2> DEFINE next == [proc[p] EXCEPT !.todo = proc[p].todo \ {f},
                                     !.digest = [proc[p].digest EXCEPT ![f] = disk[f]]]
  <2>7. next \in Running /\ next.id = i
    BY <2>1, <2>6 DEF Running
  <2>8. /\ proc' \in [Procs -> Running]
        /\ \A q \in Procs : proc'[q].pc \notin Waiting => proc'[q].id # 0
    <3>1. proc' = [proc EXCEPT ![p] = next]
      BY <1>5, Zenon DEF PackFile
    <3>2. i # 0
      BY <1>5 DEF PackFile, TypeOK, Waiting
    <3>3. QED
      BY <2>7, <3>1, <3>2 DEF TypeOK
  <2>9. faults' \in 0 .. MaxFaults
    <3>1. faults' = faults \/ Fault
      BY <1>5, Zenon DEF PackFile
    <3>2. QED
      BY <3>1, QuarantineAssumption DEF Fault, TypeOK
  <2>10. QED
    BY <1>5, <2>5, <2>8, <2>9 DEF PackFile, TypeOK, Tree
<1>6. ASSUME NEW f \in Files, RemoveFile(p, f) PROVE TypeOK'
  <2>1. disk' \in [Files -> 0 .. Bad]
    BY <1>6, EmptyTypes DEF RemoveFile, TypeOK
  <2>2. ~dir => Tree' = Nothing
    BY <1>6, QuarantineAssumption DEF RemoveFile, TypeOK, Tree, Nothing
  <2>3. written' \in [Procs -> SUBSET InstallDir]
    BY <1>6, WrittenType DEF RemoveFile
  <2>4. QED
    BY <1>6, <2>1, <2>2, <2>3 DEF RemoveFile, TypeOK
<1>7. CASE RemoveDir(p)
  <2>1. dir' \in BOOLEAN
    BY <1>7 DEF RemoveDir
  <2>2. QED
    BY <1>7, <2>1, MoveType DEF RemoveDir, TypeOK, Tree, Keeping, Waiting
<1>8. CASE MarkFindings(p)
  <2>1. faults' \in 0 .. MaxFaults
    BY <1>8, QuarantineAssumption DEF MarkFindings, Fault, TypeOK
  <2>2. QED
    BY <1>8, <2>1, MoveType DEF MarkFindings, TypeOK, Tree
<1>9. QED
  BY <1>1, <1>2, <1>3, <1>4, <1>5, <1>6, <1>7, <1>8, <1>10, <1>11

LEMMA RestorerType ==
    ASSUME TypeOK, NEW p \in Restorers,
           \/ \E i \in Ids : ReadItem(p, i)
           \/ CheckPaths(p) \/ OpenArchive(p) \/ ListTree(p) \/ CompareDigests(p)
           \/ UnpackFails(p) \/ MarkRestored(p) \/ ReopenFindings(p)
           \/ \E f \in Files : UnpackFile(p, f) \/ ReadFile(p, f)
    PROVE  TypeOK'
<1> p \in Procs
  BY DEF Procs
<1>1. ASSUME NEW i \in Ids, ReadItem(p, i) PROVE TypeOK'
  <2>1. [Rest EXCEPT !.pc = "stat", !.id = i] \in Running
    <3>1. i \in 0 .. MaxIds /\ Rest \in Running
      BY EmptyTypes, QuarantineAssumption DEF Ids
    <3>2. QED
      BY <3>1 DEF Running, Restoring
  <2>2. [Rest EXCEPT !.pc = "stat", !.id = i].id # 0
    BY DEF Rest, Ids
  <2>3. /\ proc' \in [Procs -> Running]
        /\ \A q \in Procs : proc'[q].pc \notin Waiting => proc'[q].id # 0
    BY <1>1, <2>1, <2>2 DEF ReadItem, TypeOK
  <2>4. QED
    BY <1>1, <2>3 DEF ReadItem, TypeOK, Tree
<1>2. CASE CheckPaths(p)
  <2> DEFINE i == proc[p].id
  <2>1. i \in Ids /\ i # 0 /\ proc[p] \in Running /\ archive[i] \in Archives /\ row[i] \in Records
    BY <1>2, IdType DEF CheckPaths, TypeOK, Waiting
  <2>2. CASE /\ Ends(p) /\ row' = [row EXCEPT ![i].state = QuarantineMissing] /\ dir' = dir
    <3>1. row' \in [Ids -> Records]
      BY <2>1, <2>2 DEF TypeOK, Records, QuarantineMissing
    <3>2. QED
      BY <1>2, <2>2, <3>1, MoveType DEF CheckPaths, TypeOK, Tree
  <2>3. CASE row' = row /\ (Ends(p) \/ Goto(p, "open"))
    <3>1. /\ proc' \in [Procs -> Running]
          /\ \A q \in Procs : proc'[q].pc \notin Waiting => proc'[q].id # 0
      BY <1>2, <2>3, MoveType DEF CheckPaths, Restoring, Waiting
    <3>2. QED
      BY <1>2, <2>3, <3>1 DEF CheckPaths, TypeOK, Tree
  <2>4. QED
    BY <1>2, <2>2, <2>3 DEF CheckPaths
<1>3. CASE OpenArchive(p)
  <2> DEFINE i == proc[p].id
  <2>1. i \in Ids /\ i # 0 /\ proc[p] \in Running /\ archive[i] \in Archives
    BY <1>3, IdType DEF OpenArchive, TypeOK, Ids
  <2>2. CASE Outcome(p, "failed") /\ dir' = dir
    <3>1. /\ proc' \in [Procs -> Running]
          /\ \A q \in Procs : proc'[q].pc \notin Waiting => proc'[q].id # 0
      BY <1>3, <2>2, MoveType DEF OpenArchive, Restoring, Waiting
    <3>2. QED
      BY <1>3, <2>2, <3>1 DEF OpenArchive, TypeOK, Tree
  <2> DEFINE next == [proc[p] EXCEPT !.pc = "unpack", !.digest = archive[i].tree,
                                     !.todo = {f \in InstallDir : archive[i].tree[f] # 0}]
  <2>3. CASE dir' = TRUE /\ proc' = [proc EXCEPT ![p] = next]
    <3>1. next \in Running /\ next.id = i
      BY <2>1, Zenon DEF Running, Archives, Restoring
    <3>2. /\ proc' \in [Procs -> Running]
          /\ \A q \in Procs : proc'[q].pc \notin Waiting => proc'[q].id # 0
      BY <2>1, <2>3, <3>1 DEF TypeOK
    <3>3. QED
      BY <1>3, <2>3, <3>2 DEF OpenArchive, TypeOK, Tree
  <2>4. QED
    BY <1>3, <2>2, <2>3 DEF OpenArchive
<1>4. CASE MarkRestored(p)
  <2>1. proc[p].id \in Ids /\ row[proc[p].id] \in Records
    BY <1>4, IdType DEF MarkRestored, TypeOK
  <2>2. row' \in [Ids -> Records]
    BY <1>4, <2>1 DEF MarkRestored, TypeOK, Records
  <2>3. QED
    BY <1>4, <2>2, MoveType DEF MarkRestored, TypeOK, Tree, Restoring, Waiting
<1>5. CASE ReopenFindings(p)
  BY <1>5, MoveType DEF ReopenFindings, TypeOK, Tree
<1>6. ASSUME NEW f \in Files, UnpackFile(p, f) PROVE TypeOK'
  <2>1. proc[p] \in Running /\ f \in InstallDir /\ proc[p].pc \notin Waiting
    BY <1>6, IdType DEF UnpackFile, TypeOK, Running, Waiting
  <2>2. proc[p].digest[f] \in 0 .. Bad
    BY <2>1 DEF Running, Trees
  <2>3. disk' \in [Files -> 0 .. Bad]
    BY <1>6, <2>2, EmptyTypes DEF UnpackFile, TypeOK
  <2>4. faults' \in 0 .. MaxFaults
    BY <1>6, QuarantineAssumption DEF UnpackFile, Fault, TypeOK
  <2>5. /\ proc' \in [Procs -> Running]
        /\ \A q \in Procs : proc'[q].pc \notin Waiting => proc'[q].id # 0
    <3>1. CASE Outcome(p, "failed")
      BY <2>1, <3>1, MoveType DEF Restoring
    <3>2. CASE proc' = [proc EXCEPT ![p] = [proc[p] EXCEPT !.todo = proc[p].todo \ {f}]]
      <4>1. /\ [proc[p] EXCEPT !.todo = proc[p].todo \ {f}] \in Running
            /\ [proc[p] EXCEPT !.todo = proc[p].todo \ {f}].id = proc[p].id
        BY <2>1 DEF Running
      <4>2. proc[p].id # 0
        BY <2>1 DEF TypeOK
      <4>3. QED
        BY <3>2, <4>1, <4>2 DEF TypeOK
    <3>3. QED
      BY <1>6, <3>1, <3>2 DEF UnpackFile
  <2>6. dir'
    BY <1>6 DEF UnpackFile
  <2>7. written' \in [Procs -> SUBSET InstallDir]
    <3>1. Writes(f) \/ written' = written
      BY <1>6 DEF UnpackFile
    <3>2. QED
      BY <2>1, <3>1, WrittenType DEF TypeOK
  <2>8. QED
    BY <1>6, <2>3, <2>4, <2>5, <2>6, <2>7 DEF UnpackFile, TypeOK
<1>7. CASE ListTree(p)
  <2>1. proc[p] \in Running /\ proc[p].id # 0
    BY <1>7 DEF ListTree, TypeOK, Waiting
  <2>2. CASE Outcome(p, "failed")
    <3>1. /\ proc' \in [Procs -> Running]
          /\ \A q \in Procs : proc'[q].pc \notin Waiting => proc'[q].id # 0
      BY <1>7, <2>2, MoveType DEF ListTree, Restoring, Waiting
    <3>2. QED
      BY <1>7, <3>1 DEF ListTree, TypeOK, Tree
  <2> DEFINE next == [proc[p] EXCEPT !.pc = "read", !.todo = Listed(p), !.digest = Nothing]
  <2>3. CASE proc' = [proc EXCEPT ![p] = next]
    <3>1. Listed(p) \in SUBSET InstallDir
      BY DEF Listed
    <3>2. next \in Running /\ next.id = proc[p].id
      BY <2>1, <3>1, EmptyTypes DEF Running, Restoring
    <3>3. /\ proc' \in [Procs -> Running]
          /\ \A q \in Procs : proc'[q].pc \notin Waiting => proc'[q].id # 0
      BY <2>1, <2>3, <3>2 DEF TypeOK
    <3>4. QED
      BY <1>7, <3>3 DEF ListTree, TypeOK, Tree
  <2>4. QED
    BY <1>7, <2>2, <2>3 DEF ListTree
<1>8. ASSUME NEW f \in Files, ReadFile(p, f) PROVE TypeOK'
  <2>1. proc[p] \in Running /\ f \in InstallDir /\ proc[p].id # 0 /\ disk[f] \in 0 .. Bad
    BY <1>8 DEF ReadFile, TypeOK, Running, Waiting
  <2>2. CASE Outcome(p, "failed") /\ ReadsNoMore(p)
    <3>1. /\ proc' \in [Procs -> Running]
          /\ \A q \in Procs : proc'[q].pc \notin Waiting => proc'[q].id # 0
      BY <1>8, <2>2, MoveType DEF ReadFile, Restoring, Waiting
    <3>2. QED
      BY <1>8, <2>2, <3>1, WrittenType DEF ReadFile, TypeOK, Tree
  <2> DEFINE next == [proc[p] EXCEPT !.todo = proc[p].todo \ {f},
                                     !.digest = [proc[p].digest EXCEPT ![f] = disk[f]]]
  <2>3. CASE written' = written /\ proc' = [proc EXCEPT ![p] = next]
    <3>1. [proc[p].digest EXCEPT ![f] = disk[f]] \in Trees
      BY <2>1 DEF Running, Trees
    <3>2. next \in Running /\ next.id = proc[p].id
      BY <2>1, <3>1 DEF Running
    <3>3. /\ proc' \in [Procs -> Running]
          /\ \A q \in Procs : proc'[q].pc \notin Waiting => proc'[q].id # 0
      BY <2>1, <2>3, <3>2 DEF TypeOK
    <3>4. QED
      BY <1>8, <2>3, <3>3 DEF ReadFile, TypeOK, Tree
  <2>4. QED
    BY <1>8, <2>2, <2>3, Zenon DEF ReadFile
<1>9. CASE CompareDigests(p) \/ UnpackFails(p)
  <2>1. PICK pc \in {"restored", "failed"} : Outcome(p, pc)
    BY <1>9 DEF CompareDigests, UnpackFails
  <2>2. /\ proc' \in [Procs -> Running]
        /\ \A q \in Procs : proc'[q].pc \notin Waiting => proc'[q].id # 0
    BY <1>9, <2>1, MoveType DEF CompareDigests, UnpackFails, Restoring, Waiting
  <2>3. faults' \in 0 .. MaxFaults /\ written' \in [Procs -> SUBSET InstallDir]
    BY <1>9, WrittenType, QuarantineAssumption DEF CompareDigests, UnpackFails, Fault, TypeOK
  <2>4. QED
    BY <1>9, <2>2, <2>3 DEF CompareDigests, UnpackFails, TypeOK, Tree
<1>10. QED
  BY <1>1, <1>2, <1>3, <1>4, <1>5, <1>6, <1>7, <1>8, <1>9

LEMMA WorldType ==
    ASSUME TypeOK,
           \/ \E p \in Procs : Killed(p)
           \/ \E f \in Files, content \in 2 .. MaxContent : Install(f, content)
           \/ MoveAside
           \/ \E i \in Ids : DeleteArchive(i)
    PROVE  TypeOK'
<1>1. ASSUME NEW p \in Procs, Killed(p) PROVE TypeOK'
  <2>1. faults' \in 0 .. MaxFaults
    BY <1>1, QuarantineAssumption DEF Killed, Fault, TypeOK
  <2>2. QED
    BY <1>1, <2>1, MoveType, WrittenType DEF Killed, TypeOK, Tree
<1>2. ASSUME NEW f \in Files, NEW content \in 2 .. MaxContent, Install(f, content) PROVE TypeOK'
  <2>1. disk' \in [Files -> 0 .. Bad]
    BY <1>2, QuarantineAssumption DEF Install, TypeOK, Bad
  <2>2. dir' \in BOOLEAN
    BY <1>2 DEF Install, TypeOK
  <2>3. ~dir' => Tree' = Nothing
    <3>1. ASSUME ~dir' PROVE Tree' = Tree /\ ~dir
      <4>1. ~dir /\ f \notin InstallDir
        BY <1>2, <3>1 DEF Install
      <4>2. disk' = [disk EXCEPT ![f] = content]
        BY <1>2 DEF Install
      <4>3. QED
        BY <4>1, <4>2, QuarantineAssumption DEF TypeOK, Tree
    <3>2. QED
      BY <3>1 DEF TypeOK
  <2>4. written' \in [Procs -> SUBSET InstallDir]
    BY <1>2, WrittenType DEF Install, TypeOK
  <2>5. QED
    BY <1>2, <2>1, <2>2, <2>3, <2>4 DEF Install, TypeOK
<1>3. CASE MoveAside
  <2>1. disk' \in [Files -> 0 .. Bad]
    BY <1>3, EmptyTypes DEF MoveAside, TypeOK
  <2>2. Tree' = Nothing /\ dir' \in BOOLEAN
    BY <1>3, QuarantineAssumption DEF MoveAside, Tree, Nothing
  <2>3. QED
    BY <1>3, <2>1, <2>2 DEF MoveAside, TypeOK
<1>4. ASSUME NEW i \in Ids, DeleteArchive(i) PROVE TypeOK'
  <2>1. archive' \in [Ids -> Archives]
    BY <1>4, EmptyTypes DEF DeleteArchive, TypeOK
  <2>2. QED
    BY <1>4, <2>1 DEF DeleteArchive, TypeOK, Tree
<1>5. QED
  BY <1>1, <1>2, <1>3, <1>4

\* Every state is well-formed, and a directory that is gone holds no file
\* (quarantine/quarantine.go, cli/quarantine.go, quarantine/restore.go).
THEOREM QuarantineTypeOK == Spec => []TypeOK
<1>1. Init => TypeOK
  <2> SUFFICES ASSUME Init PROVE TypeOK
    OBVIOUS
  <2>1. disk \in [Files -> 0 .. Bad]
    BY QuarantineAssumption DEF Init, Bad
  <2>2. /\ archive \in [Ids -> Archives] /\ row \in [Ids -> Records]
        /\ proc \in [Procs -> Running] /\ \A p \in Procs : proc[p].pc = "idle"
    BY EmptyTypes DEF Init, Rest
  <2>6. /\ \A p \in Procs : proc[p].pc \in Waiting
        /\ written \in [Procs -> SUBSET InstallDir]
    BY DEF Init, Rest, Waiting
  <2>3. dir \in BOOLEAN /\ dir
    BY DEF Init
  <2>4. ids \in 0 .. MaxIds /\ faults \in 0 .. MaxFaults
    BY QuarantineAssumption DEF Init
  <2>5. QED
    BY <2>1, <2>2, <2>3, <2>4, <2>6 DEF Init, TypeOK
<1>2. TypeOK /\ [Next]_vars => TypeOK'
  <2> SUFFICES ASSUME TypeOK, [Next]_vars PROVE TypeOK'
    OBVIOUS
  <2>1. CASE Next
    BY <2>1, KeeperType, RestorerType, WorldType DEF Next
  <2>2. CASE UNCHANGED vars
    BY <2>2 DEF vars, TypeOK, Tree
  <2>3. QED
    BY <2>1, <2>2
<1>3. QED
  BY <1>1, <1>2, PTL DEF Spec

-----------------------------------------------------------------------------
(* The inductive invariant. *)

\* A quarantine works on an id of its own, which has no row until its archive
\* has been read back and has one from then on.
Owned ==
    /\ \A p \in Procs : proc[p].pc \in Keeping =>
         /\ p \in Keepers /\ proc[p].id \in 1 .. ids
         /\ IF proc[p].pc \in {"remove", "mark"}
            THEN row[proc[p].id].state # "none"
            ELSE row[proc[p].id].state = "none" /\ archive[proc[p].id].there
         /\ proc[p].pc = "record" => archive[proc[p].id].tree = proc[p].digest
    /\ \A p, q \in Procs :
         p # q /\ proc[p].pc \in Keeping /\ proc[q].pc \in Keeping => proc[p].id # proc[q].id
    /\ \A i \in Ids : i > ids => row[i].state = "none"

\* A restore works on a row, and unpacks what that row's archive held.
Opened ==
    \A p \in Procs : proc[p].pc \in Restoring =>
        /\ row[proc[p].id].state # "none"
        /\ proc[p].pc = "unpack" => proc[p].id \in deleted \/ archive[proc[p].id].tree = proc[p].digest

AllHeld == \A i \in Ids \ deleted : row[i].state # "none" => Held(i)

\* The content of a file is in the archive of some row.
Saved(f) == \E i \in Ids : row[i].state # "none" /\ archive[i].tree[f] = disk[f]

\* What a quarantine may still come to remove it has yet to read, or has read as
\* it is, or is saved already.
Safe ==
    Quiet /\ deleted = {} =>
        \A p \in Procs, f \in InstallDir :
            proc[p].pc \in {"pack", "verify", "record", "remove"} /\ disk[f] \notin {0, Bad} =>
                \/ proc[p].pc = "pack" /\ f \in proc[p].todo
                \/ proc[p].pc # "remove" /\ proc[p].digest[f] = disk[f]
                \/ Saved(f)

QInv == Owned /\ Opened /\ AllHeld /\ Safe

-----------------------------------------------------------------------------
(* The invariant is inductive. *)

\* Only process p takes a step.
Others(p) == \A q \in Procs : q # p => proc'[q] = proc[q]

\* Process p goes on with what it has.
Keeps(p) ==
    proc'[p].id = proc[p].id /\ proc'[p].todo = proc[p].todo /\ proc'[p].digest = proc[p].digest

LEMMA Moves ==
    ASSUME TypeOK, NEW p \in Procs
    PROVE  /\ \A pc : Goto(p, pc) => Others(p) /\ Keeps(p) /\ proc'[p].pc = pc
           /\ \A pc : Outcome(p, pc) => Others(p) /\ proc'[p].pc = pc /\ proc'[p].id = proc[p].id
           /\ Ends(p) => Others(p) /\ proc'[p].pc = "idle"
<1>1. ASSUME NEW pc, Goto(p, pc) PROVE Others(p) /\ Keeps(p) /\ proc'[p].pc = pc
  BY <1>1 DEF Goto, Others, Keeps, TypeOK, Running
<1>2. ASSUME Ends(p) PROVE Others(p) /\ proc'[p].pc = "idle"
  BY <1>2 DEF Ends, Others, TypeOK, Rest
<1>3. ASSUME NEW pc, Outcome(p, pc)
      PROVE  Others(p) /\ proc'[p].pc = pc /\ proc'[p].id = proc[p].id
  BY <1>3 DEF Outcome, Others, TypeOK, Rest
<1>4. QED
  BY <1>1, <1>2, <1>3

\* Rows stay rows, of the same digest.
RowsStay ==
    \A i \in Ids : (row'[i].state = "none" <=> row[i].state = "none") /\ row'[i].sha = row[i].sha

\* A step of one process that leaves archives and files alone, by ending or by
\* going on to the next stage.
Onward(p) ==
    \/ proc'[p].pc \in Waiting
    \/ /\ Keeps(p)
       /\ \/ proc[p].pc = "pack" /\ proc'[p].pc = "verify" /\ proc[p].todo = {}
          \/ proc[p].pc = "verify" /\ proc'[p].pc = "record" /\ ReadsBack(p)
          \/ proc[p].pc = "remove" /\ proc'[p].pc = "mark"
    \/ /\ proc[p].pc \in Restoring /\ proc'[p].pc \in Restoring \ {"unpack"}
       /\ proc'[p].id = proc[p].id

LEMMA OnwardStep ==
    ASSUME TypeOK, QInv, NEW p \in Procs, Others(p), Onward(p), RowsStay,
           UNCHANGED <<archive, disk, ids, deleted>>
    PROVE  QInv'
<1>0. /\ \A q \in Procs : proc[q].pc \notin Waiting => proc[q].id \in Ids
      /\ \A i \in Ids : archive'[i] = archive[i]
      /\ \A f \in InstallDir : Saved(f)' <=> Saved(f)
  BY IdType DEF RowsStay, Saved, Waiting
<1>1. Owned'
  <2>1. \A q \in Procs : proc'[q].pc \in Keeping => proc[q].pc \in Keeping /\ proc'[q].id = proc[q].id
    BY DEF Others, Onward, Keeps, Keeping, Restoring, Waiting
  <2>2. ASSUME NEW q \in Procs, proc'[q].pc \in Keeping
        PROVE  /\ q \in Keepers /\ proc'[q].id \in 1 .. ids
               /\ IF proc'[q].pc \in {"remove", "mark"}
                  THEN row'[proc'[q].id].state # "none"
                  ELSE row'[proc'[q].id].state = "none" /\ archive[proc'[q].id].there
               /\ proc'[q].pc = "record" => archive[proc'[q].id].tree = proc'[q].digest
    <3>1. /\ q \in Keepers /\ proc'[q].id \in 1 .. ids /\ proc'[q].id = proc[q].id
          /\ proc[q].id \in Ids
      BY <1>0, <2>1, <2>2 DEF QInv, Owned, Keeping, Waiting
    <3>2. CASE q # p
      BY <2>1, <2>2, <3>1, <3>2 DEF QInv, Owned, Others, RowsStay
    <3>3. CASE q = p
      BY <2>1, <2>2, <3>1, <3>3 DEF QInv, Owned, Onward, Keeps, Keeping, Restoring, Waiting, RowsStay, ReadsBack
    <3>4. QED
      BY <3>2, <3>3
  <2>3. \A i \in Ids : i > ids => row'[i].state = "none"
    BY DEF QInv, Owned, RowsStay
  <2>4. \A q, r \in Procs :
          q # r /\ proc'[q].pc \in Keeping /\ proc'[r].pc \in Keeping => proc'[q].id # proc'[r].id
    BY <2>1 DEF QInv, Owned
  <2>5. QED
    BY <2>2, <2>3, <2>4 DEF Owned
<1>2. Opened'
  <2>1. ASSUME NEW q \in Procs, proc'[q].pc \in Restoring
        PROVE  /\ row'[proc'[q].id].state # "none"
               /\ proc'[q].pc = "unpack" =>
                    proc'[q].id \in deleted \/ archive[proc'[q].id].tree = proc'[q].digest
    <3>1. /\ proc[q].pc \in Restoring /\ proc'[q].id = proc[q].id
          /\ proc'[q].pc = "unpack" => proc'[q] = proc[q]
      BY <2>1 DEF Others, Onward, Keeps, Restoring, Waiting
    <3>2. QED
      BY <1>0, <2>1, <3>1 DEF QInv, Opened, RowsStay, Restoring, Waiting
  <2>2. QED
    BY <2>1 DEF Opened
<1>3. AllHeld'
  BY <1>0 DEF QInv, AllHeld, Held, RowsStay
<1>4. Safe'
  <2> SUFFICES ASSUME Quiet, deleted = {}, NEW q \in Procs, NEW f \in InstallDir,
                      proc'[q].pc \in {"pack", "verify", "record", "remove"},
                      disk[f] \notin {0, Bad}
               PROVE  \/ proc'[q].pc = "pack" /\ f \in proc'[q].todo
                      \/ proc'[q].pc # "remove" /\ proc'[q].digest[f] = disk[f]
                      \/ Saved(f)'
    BY DEF Safe
  <2>1. CASE q # p
    BY <1>0, <2>1 DEF QInv, Safe, Others
  <2>2. CASE q = p
    BY <1>0, <2>2 DEF QInv, Safe, Onward, Keeps, Restoring, Waiting
  <2>3. QED
    BY <2>1, <2>2
<1>5. QED
  BY <1>1, <1>2, <1>3, <1>4 DEF QInv

\* The archive is created, on an id of its own.
LEMMA CreateStep ==
    ASSUME TypeOK, QInv, NEW p \in Keepers, Pack(p), ~(Ends(p) /\ UNCHANGED <<archive, ids>>)
    PROVE  QInv'
<1> DEFINE i == ids + 1
<1>0. p \in Procs /\ i \in Ids /\ i > ids /\ ids' = i /\ row[i].state = "none"
  BY QuarantineAssumption DEF Pack, QInv, Owned, TypeOK, Procs, Ids
<1>1. /\ Others(p) /\ proc'[p] = [Rest EXCEPT !.pc = "walk", !.id = i]
      /\ UNCHANGED <<disk, row, deleted>>
  BY <1>0 DEF Pack, Others, TypeOK
<1>2. /\ \A j \in Ids : j # i => archive'[j] = archive[j]
      /\ archive'[i].there /\ archive'[i].tree = archive[i].tree
  BY <1>0 DEF Pack, TypeOK, Archives
<1>3. proc'[p].pc = "walk" /\ proc'[p].id = i
  BY <1>1 DEF Rest
<1>4. \A q \in Procs : proc[q].pc \notin Waiting => proc[q].id \in Ids
  BY IdType DEF Waiting
<1>5. Owned'
  <2>1. ASSUME NEW q \in Procs, q # p, proc[q].pc \in Keeping
        PROVE  proc'[q] = proc[q] /\ proc[q].id \in 1 .. ids /\ proc[q].id # i /\ proc[q].id \in 1 .. i
               /\ archive'[proc[q].id] = archive[proc[q].id]
    <3>1. proc[q].id \in 1 .. ids /\ proc[q].id \in Ids
      BY <1>4, <2>1 DEF QInv, Owned, Keeping, Waiting
    <3>2. proc[q].id # i /\ proc[q].id \in 1 .. i
      BY <3>1, QuarantineAssumption DEF TypeOK
    <3>3. QED
      BY <1>1, <1>2, <2>1, <3>1, <3>2 DEF Others
  <2>2. \A q \in Procs : proc'[q].pc \in Keeping =>
          /\ q \in Keepers /\ proc'[q].id \in 1 .. i
          /\ IF proc'[q].pc \in {"remove", "mark"}
             THEN row[proc'[q].id].state # "none"
             ELSE row[proc'[q].id].state = "none" /\ archive'[proc'[q].id].there
          /\ proc'[q].pc = "record" => archive'[proc'[q].id].tree = proc'[q].digest
    <3>1. i \in 1 .. i
      BY QuarantineAssumption DEF TypeOK
    <3>2. ASSUME NEW q \in Procs, q # p, proc'[q].pc \in Keeping
          PROVE  /\ q \in Keepers /\ proc'[q].id \in 1 .. i
                 /\ IF proc'[q].pc \in {"remove", "mark"}
                    THEN row[proc'[q].id].state # "none"
                    ELSE row[proc'[q].id].state = "none" /\ archive'[proc'[q].id].there
                 /\ proc'[q].pc = "record" => archive'[proc'[q].id].tree = proc'[q].digest
      BY <1>1, <2>1, <3>2 DEF QInv, Owned, Others
    <3>3. QED
      BY <1>0, <1>2, <1>3, <3>1, <3>2
  <2>3. \A q, r \in Procs :
          q # r /\ proc'[q].pc \in Keeping /\ proc'[r].pc \in Keeping => proc'[q].id # proc'[r].id
    <3>1. \A q \in Procs : q # p => proc'[q] = proc[q]
      BY <1>1 DEF Others
    <3>2. QED
      BY <1>3, <2>1, <3>1 DEF QInv, Owned
  <2>4. \A j \in Ids : j > i => row[j].state = "none"
    BY <1>0 DEF QInv, Owned, Ids, TypeOK
  <2>5. QED
    BY <1>0, <1>1, <2>2, <2>3, <2>4 DEF Owned
<1>6. Opened'
  <2>1. \A q \in Procs : proc'[q].pc \in Restoring =>
          q # p /\ proc'[q] = proc[q] /\ proc[q].id \in Ids /\ row[proc[q].id].state # "none"
    BY <1>1, <1>3, <1>4 DEF QInv, Opened, Others, Restoring, Waiting
  <2>2. QED
    BY <1>0, <1>1, <1>2, <2>1 DEF QInv, Opened
<1>7. AllHeld'
  BY <1>0, <1>1, <1>2 DEF QInv, AllHeld, Held
<1>8. Safe'
  <2>1. \A f \in InstallDir : Saved(f)' <=> Saved(f)
    BY <1>1, <1>2 DEF Saved
  <2> SUFFICES ASSUME Quiet, deleted = {}, NEW q \in Procs, NEW f \in InstallDir,
                      proc'[q].pc \in {"pack", "verify", "record", "remove"},
                      disk[f] \notin {0, Bad}
               PROVE  \/ proc'[q].pc = "pack" /\ f \in proc'[q].todo
                      \/ proc'[q].pc # "remove" /\ proc'[q].digest[f] = disk[f]
                      \/ Saved(f)'
    BY <1>1 DEF Safe
  <2>2. CASE q = p
    BY <1>3, <2>2
  <2>3. CASE q # p
    BY <1>1, <2>1, <2>3 DEF QInv, Safe, Others
  <2>4. QED
    BY <2>2, <2>3
<1>9. QED
  BY <1>5, <1>6, <1>7, <1>8 DEF QInv

\* The tree is listed: everything is still to be read.
LEMMA WalkStep ==
    ASSUME TypeOK, QInv, NEW p \in Keepers, Walk(p)
    PROVE  QInv'
<1>0. p \in Procs /\ proc[p].pc = "walk" /\ UNCHANGED <<archive, row, disk, ids, deleted>>
  BY DEF Walk, Procs
<1>1. CASE Ends(p)
  <2>1. Others(p) /\ Onward(p) /\ RowsStay
    BY <1>0, <1>1, Moves DEF Onward, Waiting, RowsStay
  <2>2. QED
    BY <1>0, <2>1, OnwardStep
<1>2. CASE ~Ends(p)
  <2>1. /\ Others(p) /\ proc'[p].pc = "pack" /\ proc'[p].id = proc[p].id
        /\ proc'[p].todo = {f \in InstallDir : disk[f] # 0}
    BY <1>0, <1>2 DEF Walk, Others, TypeOK, Running
  <2>2. \A q \in Procs :
          /\ q # p => proc'[q] = proc[q]
          /\ proc'[q].id = proc[q].id
          /\ proc'[q].pc \in Keeping <=> proc[q].pc \in Keeping
          /\ proc'[q].pc \in {"remove", "mark"} <=> proc[q].pc \in {"remove", "mark"}
          /\ proc'[q].pc \in Restoring \/ proc'[q].pc = "record" => q # p
    BY <1>0, <2>1 DEF Others, Keeping, Restoring
  <2>3. Owned'
    BY <1>0, <2>2 DEF QInv, Owned
  <2>4. Opened'
    BY <1>0, <2>2 DEF QInv, Opened
  <2>5. AllHeld'
    BY <1>0 DEF QInv, AllHeld, Held
  <2>6. \A f \in InstallDir : Saved(f)' <=> Saved(f)
    BY <1>0 DEF Saved
  <2>7. Safe'
    BY <1>0, <2>1, <2>2, <2>6 DEF QInv, Safe
  <2>8. QED
    BY <2>3, <2>4, <2>5, <2>7 DEF QInv
<1>3. QED
  BY <1>1, <1>2

\* An archive that no row names yet changes: nothing that is held does.
LEMMA DraftStep ==
    ASSUME TypeOK, QInv, NEW p \in Procs, NEW i \in Ids,
           proc[p].pc \in {"pack", "verify"}, i = proc[p].id,
           \A j \in Ids : j # i => archive'[j] = archive[j],
           UNCHANGED <<row, disk, ids, deleted>>, Others(p), proc'[p].pc \notin Restoring
    PROVE  /\ AllHeld' /\ Opened'
           /\ \A f \in InstallDir : Saved(f)' <=> Saved(f)
           /\ \A q \in Procs : q # p /\ proc[q].pc \in Keeping =>
                proc[q].id \in Ids /\ archive'[proc[q].id] = archive[proc[q].id]
<1>1. row[i].state = "none"
  BY DEF QInv, Owned, Keeping
<1>2. AllHeld'
  BY <1>1 DEF QInv, AllHeld, Held
<1>3. \A f \in InstallDir : Saved(f)' <=> Saved(f)
  BY <1>1 DEF Saved
<1>4. ASSUME NEW q \in Procs, q # p, proc[q].pc \in Keeping
      PROVE  proc[q].id \in Ids /\ archive'[proc[q].id] = archive[proc[q].id]
  BY <1>4, IdType DEF QInv, Owned, Keeping
<1>5. Opened'
  <2>1. ASSUME NEW q \in Procs, proc'[q].pc \in Restoring
        PROVE  /\ proc'[q] = proc[q] /\ proc[q].id \in Ids /\ row[proc[q].id].state # "none"
               /\ archive'[proc[q].id] = archive[proc[q].id]
    BY <1>1, <2>1, IdType DEF QInv, Opened, Others, Restoring
  <2>2. QED
    BY <2>1 DEF QInv, Opened
<1>6. QED
  BY <1>2, <1>3, <1>4, <1>5

LEMMA PackStep ==
    ASSUME TypeOK, QInv, NEW p \in Keepers, NEW f \in Files, PackFile(p, f)
    PROVE  QInv'
<1> DEFINE i == proc[p].id
<1>0. p \in Procs /\ proc[p].pc = "pack" /\ f \in proc[p].todo
  BY DEF PackFile, Procs
<1>1. i \in Ids /\ proc[p] \in Running
  BY <1>0, IdType
<1>2. UNCHANGED <<disk, row, ids, deleted>>
  BY DEF PackFile
<1>3. /\ Others(p) /\ proc'[p].pc = "pack" /\ proc'[p].id = i /\ proc'[p].todo = proc[p].todo \ {f}
      /\ proc'[p].digest = [proc[p].digest EXCEPT ![f] = disk[f]]
  BY <1>0, <1>1 DEF PackFile, Others, TypeOK, Running
<1>4. (\A j \in Ids : j # i => archive'[j] = archive[j]) /\ archive'[i].there = archive[i].there
  BY <1>1 DEF PackFile, TypeOK, Archives
<1>5. /\ AllHeld' /\ Opened'
      /\ \A g \in InstallDir : Saved(g)' <=> Saved(g)
      /\ \A q \in Procs : q # p /\ proc[q].pc \in Keeping =>
           proc[q].id \in Ids /\ archive'[proc[q].id] = archive[proc[q].id]
  BY <1>0, <1>1, <1>2, <1>3, <1>4, DraftStep DEF Restoring
<1>6. Owned'
  <2>1. \A q \in Procs : proc'[q].pc = proc[q].pc /\ proc'[q].id = proc[q].id
    BY <1>0, <1>3 DEF Others
  <2>2. ASSUME NEW q \in Procs, proc[q].pc \in Keeping
        PROVE  /\ archive'[proc[q].id].there <=> archive[proc[q].id].there
               /\ proc[q].pc = "record" => /\ archive'[proc[q].id].tree = archive[proc[q].id].tree
                                           /\ proc'[q].digest = proc[q].digest
    BY <1>0, <1>3, <1>4, <1>5, <2>2 DEF Others
  <2>3. QED
    BY <1>2, <2>1, <2>2 DEF QInv, Owned
<1>7. Safe'
  <2> SUFFICES ASSUME Quiet, deleted = {}, NEW q \in Procs, NEW g \in InstallDir,
                      proc'[q].pc \in {"pack", "verify", "record", "remove"},
                      disk[g] \notin {0, Bad}
               PROVE  \/ proc'[q].pc = "pack" /\ g \in proc'[q].todo
                      \/ proc'[q].pc # "remove" /\ proc'[q].digest[g] = disk[g]
                      \/ Saved(g)'
    BY <1>2 DEF Safe
  <2>1. CASE q # p
    BY <1>3, <1>5, <2>1 DEF QInv, Safe, Others
  <2>2. CASE q = p /\ g # f
    <3>1. proc'[p].digest[g] = proc[p].digest[g] /\ (g \in proc'[p].todo <=> g \in proc[p].todo)
      BY <1>1, <1>3, <2>2 DEF Running, Trees
    <3>2. \/ g \in proc[p].todo \/ proc[p].digest[g] = disk[g] \/ Saved(g)
      BY <1>0 DEF QInv, Safe
    <3>3. QED
      BY <1>3, <1>5, <2>2, <3>1, <3>2
  <2>3. CASE q = p /\ g = f
    BY <1>1, <1>3, <2>3 DEF Running, Trees
  <2>4. QED
    BY <2>1, <2>2, <2>3
<1>8. QED
  BY <1>5, <1>6, <1>7 DEF QInv

LEMMA VerifyStep ==
    ASSUME TypeOK, QInv, NEW p \in Keepers, VerifyArchive(p)
    PROVE  QInv'
<1>0. p \in Procs /\ proc[p].pc = "verify" /\ proc[p].id \in Ids
  BY IdType DEF VerifyArchive, Procs
<1>1. CASE ReadsBack(p)
  <2>1. Goto(p, "record") /\ archive' = archive
    BY <1>1 DEF VerifyArchive
  <2>2. Others(p) /\ Onward(p)
    BY <1>0, <1>1, <2>1, Moves DEF Onward
  <2>3. QED
    BY <1>0, <2>1, <2>2, OnwardStep DEF VerifyArchive, RowsStay
<1>2. CASE ~ReadsBack(p)
  <2>1. /\ Others(p) /\ proc'[p].pc = "idle"
        /\ UNCHANGED <<row, disk, ids, deleted>>
        /\ \A j \in Ids : j # proc[p].id => archive'[j] = archive[j]
    BY <1>0, <1>2, Moves DEF VerifyArchive, TypeOK
  <2>2. /\ AllHeld' /\ Opened'
        /\ \A g \in InstallDir : Saved(g)' <=> Saved(g)
        /\ \A q \in Procs : q # p /\ proc[q].pc \in Keeping =>
             proc[q].id \in Ids /\ archive'[proc[q].id] = archive[proc[q].id]
    BY <1>0, <2>1, DraftStep DEF Restoring
  <2>3. \A q \in Procs : proc'[q].pc \in Keeping => q # p /\ proc'[q] = proc[q]
    BY <2>1 DEF Others, Keeping
  <2>4. Owned'
    BY <2>1, <2>2, <2>3 DEF QInv, Owned
  <2>5. Safe'
    BY <2>1, <2>2, <2>3 DEF QInv, Safe, Keeping
  <2>6. QED
    BY <2>2, <2>4, <2>5 DEF QInv
<1>3. QED
  BY <1>1, <1>2

LEMMA RecordStep ==
    ASSUME TypeOK, QInv, NEW p \in Keepers, RecordQuarantine(p), row' # row
    PROVE  QInv'
<1> DEFINE i == proc[p].id
<1>0. p \in Procs /\ proc[p].pc = "record" /\ i \in Ids
  BY IdType DEF RecordQuarantine, Procs
<1>1. /\ row' = [row EXCEPT ![i] = [state |-> "active", sha |-> proc[p].digest]]
      /\ Goto(p, "remove") /\ UNCHANGED <<disk, archive, ids, deleted>>
  BY DEF RecordQuarantine, NotRecorded
<1>2. Others(p) /\ Keeps(p) /\ proc'[p].pc = "remove"
  BY <1>0, <1>1, Moves
<1>3. /\ \A j \in Ids : j # i => row'[j] = row[j]
      /\ row'[i].state = "active" /\ row'[i].sha = proc[p].digest
  BY <1>0, <1>1 DEF TypeOK
<1>4. archive[i].there /\ archive[i].tree = proc[p].digest
  BY <1>0 DEF QInv, Owned, Keeping
<1>5. \A g \in InstallDir : Saved(g) => Saved(g)'
  BY <1>1, <1>3 DEF Saved
<1>6. Owned'
  <2>1. \A q \in Procs : proc'[q].pc \in Keeping =>
          /\ proc[q].pc \in Keeping /\ proc'[q].id = proc[q].id /\ proc[q].id \in Ids
          /\ q # p => proc'[q] = proc[q] /\ proc[q].id # i
    BY <1>0, <1>2, IdType DEF QInv, Owned, Others, Keeps, Keeping
  <2>2. ASSUME NEW q \in Procs, proc'[q].pc \in Keeping
        PROVE  /\ q \in Keepers /\ proc'[q].id \in 1 .. ids
               /\ IF proc'[q].pc \in {"remove", "mark"}
                  THEN row'[proc'[q].id].state # "none"
                  ELSE row'[proc'[q].id].state = "none" /\ archive[proc'[q].id].there
               /\ proc'[q].pc = "record" => archive[proc'[q].id].tree = proc'[q].digest
    <3>1. CASE q = p
      BY <1>0, <1>2, <1>3, <3>1 DEF QInv, Owned, Keeps, Keeping
    <3>2. CASE q # p
      BY <1>3, <2>1, <2>2, <3>2 DEF QInv, Owned
    <3>3. QED
      BY <3>1, <3>2
  <2>3. \A j \in Ids : j > ids => row'[j].state = "none"
    <3>1. i \in 1 .. ids
      BY <1>0 DEF QInv, Owned, Keeping
    <3>2. QED
      BY <1>3, <3>1 DEF QInv, Owned, Ids, TypeOK
  <2>4. QED
    BY <1>1, <2>1, <2>2, <2>3 DEF QInv, Owned
<1>7. Opened'
  <2>1. \A q \in Procs : proc'[q].pc \in Restoring =>
          proc'[q] = proc[q] /\ proc[q].id \in Ids /\ row[proc[q].id].state # "none"
    BY <1>0, <1>2, IdType DEF QInv, Opened, Others, Restoring
  <2>2. \A j \in Ids : row[j].state # "none" => row'[j].state # "none"
    BY <1>3
  <2>3. QED
    BY <1>1, <2>1, <2>2 DEF QInv, Opened
<1>8. AllHeld'
  BY <1>1, <1>3, <1>4 DEF QInv, AllHeld, Held
<1>9. Safe'
  <2> SUFFICES ASSUME Quiet, deleted = {}, NEW q \in Procs, NEW g \in InstallDir,
                      proc'[q].pc \in {"pack", "verify", "record", "remove"},
                      disk[g] \notin {0, Bad}
               PROVE  \/ proc'[q].pc = "pack" /\ g \in proc'[q].todo
                      \/ proc'[q].pc # "remove" /\ proc'[q].digest[g] = disk[g]
                      \/ Saved(g)'
    BY <1>1 DEF Safe
  <2>1. CASE q # p
    BY <1>2, <1>5, <2>1 DEF QInv, Safe, Others
  <2>2. CASE q = p
    <3>1. proc[p].digest[g] = disk[g] \/ Saved(g)
      BY <1>0 DEF QInv, Safe
    <3>2. proc[p].digest[g] = disk[g] => Saved(g)'
      BY <1>0, <1>1, <1>3, <1>4 DEF Saved
    <3>3. Saved(g)'
      BY <1>5, <3>1, <3>2
    <3>4. QED
      BY <3>3
  <2>3. QED
    BY <2>1, <2>2
<1>10. QED
  BY <1>6, <1>7, <1>8, <1>9 DEF QInv

LEMMA RemoveStep ==
    ASSUME TypeOK, QInv, NEW p \in Keepers, NEW g \in Files, RemoveFile(p, g)
    PROVE  QInv'
<1>1. UNCHANGED <<archive, row, proc, ids, deleted>>
  BY DEF RemoveFile
<1>2. Owned' /\ Opened' /\ AllHeld'
  BY <1>1 DEF QInv, Owned, Opened, AllHeld, Held
<1>3. \A f \in InstallDir : disk'[f] \in {disk[f], 0}
  BY QuarantineAssumption DEF RemoveFile, TypeOK
<1>4. \A f \in InstallDir : disk'[f] = disk[f] => (Saved(f)' <=> Saved(f))
  BY <1>1 DEF Saved
<1>5. Safe'
  BY <1>1, <1>3, <1>4 DEF QInv, Safe
<1>6. QED
  BY <1>2, <1>5 DEF QInv

\* A restore begins, on a row: it reads it, or opens its archive.
LEMMA OpenStep ==
    ASSUME TypeOK, QInv, NEW p \in Procs, Others(p), NEW i \in Ids,
           proc'[p].id = i, row[i].state # "none",
           \/ proc'[p].pc = "stat"
           \/ proc'[p].pc = "unpack" /\ proc'[p].digest = archive[i].tree,
           UNCHANGED <<archive, row, disk, ids, deleted>>
    PROVE  QInv'
<1>1. \A q \in Procs : proc'[q].pc \in Keeping => q # p /\ proc'[q] = proc[q]
  BY DEF Others, Keeping
<1>2. Owned'
  BY <1>1 DEF QInv, Owned
<1>3. Opened'
  BY DEF QInv, Opened, Others
<1>4. AllHeld'
  BY DEF QInv, AllHeld, Held
<1>5. \A f \in InstallDir : Saved(f)' <=> Saved(f)
  BY DEF Saved
<1>6. Safe'
  BY <1>1, <1>5 DEF QInv, Safe, Keeping
<1>7. QED
  BY <1>2, <1>3, <1>4, <1>6 DEF QInv

LEMMA CheckStep ==
    ASSUME TypeOK, QInv, NEW p \in Restorers, CheckPaths(p)
    PROVE  QInv'
<1> DEFINE i == proc[p].id
<1>0. p \in Procs /\ proc[p].pc = "stat" /\ i \in Ids /\ row[i] \in Records
  BY IdType DEF CheckPaths, Procs, TypeOK
<1>1. row[i].state # "none" /\ UNCHANGED <<archive, disk, ids, deleted>>
  BY <1>0 DEF CheckPaths, QInv, Opened, Restoring
<1>2. RowsStay
  BY <1>0, <1>1 DEF CheckPaths, RowsStay, TypeOK, Records, QuarantineMissing
<1>3. Ends(p) \/ Goto(p, "open")
  BY DEF CheckPaths
<1>4. Others(p) /\ Onward(p)
  BY <1>0, <1>3, Moves DEF Onward, Keeps, Waiting, Restoring
<1>5. QED
  BY <1>0, <1>1, <1>2, <1>4, OnwardStep

LEMMA OpenArchiveStep ==
    ASSUME TypeOK, QInv, NEW p \in Restorers, OpenArchive(p)
    PROVE  QInv'
<1> DEFINE i == proc[p].id
<1>0. p \in Procs /\ proc[p].pc = "open" /\ i \in Ids
  BY IdType DEF OpenArchive, Procs
<1>1. row[i].state # "none" /\ UNCHANGED <<archive, row, disk, ids, deleted>>
  BY <1>0 DEF OpenArchive, QInv, Opened, Restoring
<1>2. CASE Outcome(p, "failed")
  <2>1. Others(p) /\ Onward(p) /\ RowsStay
    BY <1>0, <1>1, <1>2, Moves DEF Onward, Restoring, RowsStay
  <2>2. QED
    BY <1>0, <1>1, <2>1, OnwardStep
<1>3. CASE proc' = [proc EXCEPT ![p] =
                      [@ EXCEPT !.pc = "unpack", !.digest = archive[i].tree,
                                !.todo = {f \in InstallDir : archive[i].tree[f] # 0}]]
  <2>1. /\ Others(p) /\ proc'[p].pc = "unpack" /\ proc'[p].digest = archive[i].tree
        /\ proc'[p].id = i
    BY <1>0, <1>3, IdType DEF Others, TypeOK, Running
  <2>2. QED
    BY <1>0, <1>1, <2>1, OpenStep
<1>4. QED
  BY <1>2, <1>3 DEF OpenArchive

LEMMA UnpackStep ==
    ASSUME TypeOK, QInv, NEW p \in Restorers, NEW f \in Files, UnpackFile(p, f)
    PROVE  QInv'
<1> DEFINE i == proc[p].id
<1>0. /\ p \in Procs /\ proc[p].pc = "unpack" /\ i \in Ids /\ proc[p] \in Running
      /\ UNCHANGED <<archive, row, ids, deleted>> /\ f \in InstallDir
  BY IdType DEF UnpackFile, Procs, Running
<1>1. /\ Others(p) /\ proc'[p].id = i /\ proc'[p].pc \in {"unpack", "failed"}
      /\ proc'[p].pc = "unpack" => proc'[p].digest = proc[p].digest
  <2>1. CASE Outcome(p, "failed")
    BY <1>0, <2>1, Moves
  <2>2. CASE proc' = [proc EXCEPT ![p].todo = proc[p].todo \ {f}]
    BY <1>0, <2>2 DEF Others, TypeOK, Running
  <2>3. QED
    BY <2>1, <2>2 DEF UnpackFile
<1>2. /\ \A q \in Procs : proc'[q].pc \in Keeping => q # p /\ proc'[q] = proc[q]
      /\ \A q \in Procs : proc'[q].pc \in Restoring => proc[q].pc \in Restoring
      /\ \A q \in Procs : proc'[q].pc = "unpack" =>
           proc[q].pc = "unpack" /\ proc'[q].digest = proc[q].digest
      /\ \A q \in Procs : proc'[q].id = proc[q].id
  BY <1>0, <1>1 DEF Others, Keeping, Restoring
<1>3. Owned'
  BY <1>0, <1>2 DEF QInv, Owned
<1>4. Opened'
  BY <1>0, <1>2 DEF QInv, Opened
<1>5. AllHeld'
  BY <1>0 DEF QInv, AllHeld, Held
<1>6. \A g \in InstallDir : disk'[g] = disk[g] \/ disk'[g] = Bad \/ (g = f /\ disk'[g] = proc[p].digest[f])
  BY <1>0, QuarantineAssumption DEF UnpackFile, TypeOK
<1>7. \A g \in InstallDir : disk'[g] = disk[g] => (Saved(g)' <=> Saved(g))
  BY <1>0 DEF Saved
<1>8. deleted = {} /\ disk'[f] = proc[p].digest[f] => Saved(f)'
  <2>1. deleted = {} => archive[i].tree = proc[p].digest /\ row[i].state # "none"
    BY <1>0 DEF QInv, Opened, Restoring
  <2>2. QED
    BY <1>0, <2>1 DEF Saved
<1>9. Safe'
  <2> SUFFICES ASSUME Quiet, deleted = {}, NEW q \in Procs, NEW g \in InstallDir,
                      proc'[q].pc \in {"pack", "verify", "record", "remove"},
                      disk'[g] \notin {0, Bad}, ~Saved(g)'
               PROVE  \/ proc'[q].pc = "pack" /\ g \in proc'[q].todo
                      \/ proc'[q].pc # "remove" /\ proc'[q].digest[g] = disk'[g]
    BY <1>0 DEF Safe
  <2>1. disk'[g] = disk[g] /\ ~Saved(g)
    BY <1>6, <1>7, <1>8
  <2>2. proc'[q] = proc[q]
    BY <1>2 DEF Keeping
  <2>3. QED
    BY <2>1, <2>2 DEF QInv, Safe
<1>10. QED
  BY <1>3, <1>4, <1>5, <1>9 DEF QInv

LEMMA DeleteStep ==
    ASSUME TypeOK, QInv, NEW i \in Ids, DeleteArchive(i)
    PROVE  QInv'
<1>1. /\ row[i].state # "none" /\ deleted' = deleted \cup {i}
      /\ UNCHANGED <<disk, row, proc, ids>>
      /\ \A j \in Ids : j # i => archive'[j] = archive[j]
  BY DEF DeleteArchive, TypeOK
<1>2. Owned'
  <2>1. ASSUME NEW q \in Procs, proc[q].pc \in Keeping, proc[q].pc \notin {"remove", "mark"}
        PROVE  archive'[proc[q].id] = archive[proc[q].id]
    BY <1>1, <2>1, IdType DEF QInv, Owned, Keeping
  <2>2. \A q \in Procs : proc[q].pc = "record" => proc[q].pc \in Keeping /\ proc[q].pc \notin {"remove", "mark"}
    BY DEF Keeping
  <2>3. QED
    BY <1>1, <2>1, <2>2 DEF QInv, Owned
<1>3. Opened'
  BY <1>1, IdType DEF QInv, Opened, Restoring
<1>4. AllHeld'
  BY <1>1 DEF QInv, AllHeld, Held
<1>5. Safe'
  BY <1>1 DEF Safe
<1>6. QED
  BY <1>2, <1>3, <1>4, <1>5 DEF QInv

LEMMA WorldStep ==
    ASSUME TypeOK, QInv,
           \/ \E f \in Files, content \in 2 .. MaxContent : Install(f, content)
           \/ MoveAside
    PROVE  QInv'
<1>1. UNCHANGED <<archive, row, proc, ids, deleted>>
  BY DEF Install, MoveAside
<1>2. Owned' /\ Opened' /\ AllHeld'
  BY <1>1 DEF QInv, Owned, Opened, AllHeld, Held
<1>3. Quiet => \A p \in Procs : proc[p].pc \notin Keeping \ {"walk"}
  BY DEF Install, MoveAside, QInv, Owned, Keeping, Waiting
<1>4. Safe'
  BY <1>1, <1>3 DEF Safe, Keeping
<1>5. QED
  BY <1>2, <1>4 DEF QInv

LEMMA QInvStep ==
    ASSUME TypeOK, QInv, [Next]_vars
    PROVE  QInv'
<1>1. CASE UNCHANGED vars
  BY <1>1 DEF vars, QInv, Owned, Opened, AllHeld, Held, Safe, Saved
<1>2. ASSUME NEW p \in Keepers, PackFails(p) \/ Packed(p) \/ RemoveDir(p) \/ MarkFindings(p)
      PROVE  QInv'
  <2>1. p \in Procs /\ UNCHANGED <<archive, disk, ids, deleted>> /\ RowsStay
    BY <1>2 DEF PackFails, Packed, RemoveDir, MarkFindings, Procs, RowsStay
  <2>2. Others(p) /\ Onward(p)
    BY <1>2, <2>1, Moves DEF PackFails, Packed, RemoveDir, MarkFindings, Onward, Waiting
  <2>3. QED
    BY <2>1, <2>2, OnwardStep
<1>8. ASSUME NEW p \in Keepers, Begin(p) \/ (Pack(p) /\ Ends(p) /\ UNCHANGED <<archive, ids>>)
      PROVE  QInv'
  <2>1. p \in Procs /\ UNCHANGED <<archive, disk, ids, deleted>> /\ RowsStay
    BY <1>8 DEF Begin, Pack, Procs, RowsStay
  <2>2. Others(p) /\ Onward(p)
    BY <1>8, <2>1, Moves DEF Begin, Onward, Waiting
  <2>3. QED
    BY <2>1, <2>2, OnwardStep
<1>3. ASSUME NEW p \in Keepers, RecordQuarantine(p)
      PROVE  QInv'
  <2>1. CASE row' = row
    <3>1. p \in Procs /\ proc[p].pc = "record" /\ proc[p].id \in Ids
      BY <1>3, IdType DEF RecordQuarantine, Procs
    <3>2. row[proc[p].id].state = "none"
      BY <3>1 DEF QInv, Owned, Keeping
    <3>3. NotRecorded(p) /\ UNCHANGED <<archive, disk, ids, deleted>>
      BY <1>3, <2>1, <3>1, <3>2 DEF RecordQuarantine, TypeOK
    <3>4. Others(p) /\ Onward(p) /\ RowsStay
      BY <3>1, <3>3, Moves DEF NotRecorded, Onward, Waiting, RowsStay
    <3>5. QED
      BY <3>1, <3>3, <3>4, OnwardStep
  <2>2. QED
    BY <1>3, <2>1, RecordStep
<1>4. ASSUME NEW p \in Restorers, NEW i \in Ids, ReadItem(p, i)
      PROVE  QInv'
  <2>1. /\ p \in Procs /\ Others(p) /\ proc'[p].id = i /\ proc'[p].pc = "stat"
        /\ row[i].state # "none"
        /\ UNCHANGED <<archive, row, disk, ids, deleted>>
    BY <1>4 DEF ReadItem, Procs, Others, TypeOK, Rest
  <2>2. QED
    BY <2>1, OpenStep
<1>5. ASSUME NEW p \in Restorers,
             \/ ListTree(p) \/ (\E f \in Files : ReadFile(p, f))
             \/ CompareDigests(p) \/ UnpackFails(p) \/ MarkRestored(p) \/ ReopenFindings(p)
      PROVE  QInv'
  <2>1. /\ p \in Procs /\ proc[p].id \in Ids /\ proc[p].pc \in Restoring
        /\ UNCHANGED <<archive, disk, ids, deleted>>
    BY <1>5, IdType
       DEF ListTree, ReadFile, CompareDigests, UnpackFails, MarkRestored, ReopenFindings, Procs, Restoring
  <2>2. Others(p) /\ Onward(p)
    <3>1. CASE ListTree(p)
      <4>1. CASE Outcome(p, "failed")
        BY <2>1, <4>1, Moves DEF Onward, Restoring
      <4>2. CASE proc' = [proc EXCEPT ![p] = [@ EXCEPT !.pc = "read", !.todo = Listed(p),
                                                       !.digest = Nothing]]
        <5>1. Others(p) /\ proc'[p].pc = "read" /\ proc'[p].id = proc[p].id
          BY <2>1, <4>2 DEF Others, TypeOK, Running
        <5>2. QED
          BY <2>1, <5>1 DEF Onward, Restoring
      <4>3. QED
        BY <3>1, <4>1, <4>2 DEF ListTree
    <3>2. ASSUME NEW f \in Files, ReadFile(p, f) PROVE Others(p) /\ Onward(p)
      <4>1. CASE Outcome(p, "failed")
        BY <2>1, <4>1, Moves DEF Onward, Restoring
      <4>2. CASE proc' = [proc EXCEPT ![p] = [@ EXCEPT !.todo = proc[p].todo \ {f},
                                              !.digest = [proc[p].digest EXCEPT ![f] = disk[f]]]]
        <5>1. Others(p) /\ proc'[p].pc = proc[p].pc /\ proc'[p].id = proc[p].id
          BY <2>1, <4>2 DEF Others, TypeOK, Running
        <5>2. proc[p].pc = "read"
          BY <3>2 DEF ReadFile
        <5>3. QED
          BY <2>1, <5>1, <5>2 DEF Onward, Restoring
      <4>3. QED
        BY <3>2, <4>1, <4>2 DEF ReadFile
    <3>3. CASE CompareDigests(p) \/ UnpackFails(p)
      BY <2>1, <3>3, Moves DEF CompareDigests, UnpackFails, Onward, Restoring
    <3>4. CASE MarkRestored(p) \/ ReopenFindings(p)
      BY <2>1, <3>4, Moves DEF MarkRestored, ReopenFindings, Onward, Keeps, Restoring, Waiting
    <3>5. QED
      BY <1>5, <3>1, <3>2, <3>3, <3>4
  <2>3. RowsStay
    <3>1. row[proc[p].id].state # "none"
      BY <2>1 DEF QInv, Opened
    <3>2. CASE row' = row
      BY <3>2 DEF RowsStay
    <3>3. CASE MarkRestored(p)
      BY <2>1, <3>1, <3>3 DEF MarkRestored, RowsStay, TypeOK, Records
    <3>4. QED
      BY <1>5, <3>2, <3>3 DEF ListTree, ReadFile, CompareDigests, UnpackFails, ReopenFindings
  <2>4. QED
    BY <2>1, <2>2, <2>3, OnwardStep
<1>6. ASSUME NEW p \in Procs, Killed(p) PROVE QInv'
  <2>1. Others(p) /\ Onward(p) /\ RowsStay /\ UNCHANGED <<archive, disk, ids, deleted>>
    BY <1>6, Moves DEF Killed, Onward, Waiting, RowsStay
  <2>2. QED
    BY <2>1, OnwardStep
<1>7. QED
  BY <1>1, <1>2, <1>3, <1>4, <1>5, <1>6, <1>8, CreateStep, WalkStep, PackStep, VerifyStep,
     RemoveStep, CheckStep, OpenArchiveStep, UnpackStep, DeleteStep, WorldStep
     DEF Next

LEMMA QInvHolds == Spec => [](TypeOK /\ QInv)
<1>1. Init => QInv
  <2> SUFFICES ASSUME Init PROVE QInv
    OBVIOUS
  <2>1. /\ \A p \in Procs : proc[p].pc = "idle"
        /\ \A i \in Ids : row[i].state = "none"
    BY DEF Init, Rest, NoRow
  <2>2. QED
    BY <2>1 DEF QInv, Owned, Opened, AllHeld, Safe, Keeping, Restoring
<1>2. TypeOK /\ QInv /\ [Next]_vars => QInv'
  BY QInvStep
<1>3. QED
  BY <1>1, <1>2, QuarantineTypeOK, PTL DEF Spec

-----------------------------------------------------------------------------
(* What the invariant gives. *)

\* No program step takes a file that a recorded archive does not hold, and what
\* a row records is on file, as long as nothing is installed into a directory
\* that is being put away (cli/quarantine.go:92-157, quarantine/quarantine.go:4-8).
THEOREM HoldsWhatItTakes ==
    ASSUME Quiet
    PROVE  Spec => TakesOnlyWhatItHolds
<1>1. ASSUME TypeOK, QInv, TypeOK', QInv', [Next]_vars, vars' # vars PROVE TakesHeld
  <2>1. \A i \in Ids \ deleted' : row'[i].state # "none" => Held(i)'
    BY <1>1 DEF QInv, AllHeld
  <2>2. ASSUME NEW f \in InstallDir, ProgramStep, disk[f] \notin {0, Bad}, disk'[f] # disk[f],
               deleted = {}
        PROVE  \E i \in Ids : row[i].state # "none" /\ archive[i].tree[f] = disk[f]
    <3>1. ASSUME NEW p \in Keepers, NEW g \in Files, RemoveFile(p, g)
          PROVE  Saved(f)
      <4>1. proc[p].pc = "remove" /\ p \in Procs
        BY <3>1 DEF RemoveFile, Procs
      <4>2. QED
        BY <1>1, <2>2, <4>1 DEF QInv, Safe
    <3>2. ASSUME NEW p \in Restorers, NEW g \in Files, UnpackFile(p, g)
          PROVE  FALSE
      <4>1. disk'[f] = disk[f] \/ (g = f /\ MayCreate(g))
        BY <1>1, <3>2, QuarantineAssumption DEF UnpackFile, TypeOK
      <4>2. QED
        BY <2>2, <4>1 DEF MayCreate
    <3>3. ASSUME NEW g \in Files, NEW content \in 2 .. MaxContent, Install(g, content)
          PROVE  FALSE
      <4>1. proc' = proc /\ \A p \in Keepers : proc[p].pc \in Waiting \cup {"walk"}
        BY <3>3 DEF Install
      <4>2. \A p \in Procs : proc[p].pc # "remove"
        BY <1>1, <4>1 DEF QInv, Owned, Keeping, Waiting
      <4>3. QED
        BY <2>2, <4>1, <4>2 DEF ProgramStep
    <3>4. CASE MoveAside
      BY <2>2, <3>4 DEF MoveAside, ProgramStep, Waiting
    <3>5. CASE disk' = disk
      BY <2>2, <3>5
    <3>6. QED
      BY <1>1, <3>1, <3>2, <3>3, <3>4, <3>5, Zenon
         DEF Saved, Next, Begin, Pack, Walk, PackFails, Packed, VerifyArchive, RecordQuarantine, PackFile,
             RemoveDir, MarkFindings, ReadItem, CheckPaths, OpenArchive, ListTree, ReadFile,
             CompareDigests, UnpackFails, MarkRestored, ReopenFindings, Killed, DeleteArchive
  <2>3. QED
    BY <2>1, <2>2 DEF TakesHeld
<1>2. TypeOK /\ QInv /\ TypeOK' /\ QInv' /\ [Next]_vars => [TakesHeld]_vars
  BY <1>1
<1>3. QED
  BY <1>2, QInvHolds, PTL DEF Spec, TakesOnlyWhatItHolds

\* What a restore has read of the tree it listed is there still, and what it has
\* not read yet is there, but for what was written meanwhile.
Current(p) ==
    \A f \in InstallDir \ written[p] :
        IF f \in proc[p].todo THEN disk[f] # 0 ELSE proc[p].digest[f] = disk[f]
ReadInv == \A p \in Procs : proc[p].pc = "read" => Current(p)

\* A step after which everybody who reads was reading the same, and whatever
\* changed is noted.
LEMMA ReadersOn ==
    ASSUME ReadInv,
           \A p \in Procs : proc'[p].pc = "read" => proc[p].pc = "read" /\ proc'[p] = proc[p],
           \A p \in Procs : proc'[p].pc = "read" =>
               /\ written[p] \subseteq written'[p]
               /\ \A f \in InstallDir \ written'[p] : disk'[f] = disk[f]
    PROVE  ReadInv'
BY DEF ReadInv, Current

\* A file changes.
LEMMA WrittenOn ==
    ASSUME TypeOK, NEW f \in InstallDir, NEW content, Writes(f),
           disk' = [disk EXCEPT ![f] = content], NEW p \in Procs, proc[p].pc = "read"
    PROVE  /\ written[p] \subseteq written'[p]
           /\ \A g \in InstallDir \ written'[p] : disk'[g] = disk[g]
<1>1. written'[p] = written[p] \cup {f}
  BY DEF Writes
<1>2. \A g \in InstallDir : g # f => disk'[g] = disk[g]
  BY QuarantineAssumption DEF TypeOK
<1>3. QED
  BY <1>1, <1>2

LEMMA ReadKeeperStep ==
    ASSUME TypeOK, ReadInv, NEW p \in Keepers,
           \/ Begin(p) \/ Pack(p) \/ Walk(p) \/ PackFails(p) \/ Packed(p) \/ VerifyArchive(p)
           \/ RecordQuarantine(p)
           \/ \E f \in Files : PackFile(p, f) \/ RemoveFile(p, f)
           \/ RemoveDir(p) \/ MarkFindings(p)
    PROVE  ReadInv'
<1>0. p \in Procs
  BY DEF Procs
<1>1. ASSUME NEW f \in Files, RemoveFile(p, f) PROVE ReadInv'
  <2>1. f \in InstallDir /\ Writes(f) /\ proc' = proc /\ disk' = [disk EXCEPT ![f] = 0]
    BY <1>1 DEF RemoveFile
  <2>2. QED
    BY <2>1, WrittenOn, ReadersOn
<1>2. ASSUME NEW f \in Files, PackFile(p, f) PROVE ReadInv'
  <2>1. proc[p].pc = "pack" /\ UNCHANGED <<disk, written>>
    BY <1>2 DEF PackFile
  <2>2. Others(p) /\ proc'[p].pc = "pack"
    BY <1>0, <1>2, <2>1 DEF PackFile, Others, TypeOK, Running
  <2>3. QED
    BY <2>1, <2>2, ReadersOn DEF Others
<1>3. CASE Pack(p)
  <2>1. UNCHANGED <<disk, written>>
    BY <1>3 DEF Pack
  <2>2. Others(p) /\ proc'[p].pc \in {"idle", "walk"}
    <3>1. CASE Ends(p)
      BY <1>0, <3>1, Moves
    <3>2. CASE proc' = [proc EXCEPT ![p] = [Rest EXCEPT !.pc = "walk", !.id = ids + 1]]
      BY <1>0, <3>2 DEF Others, TypeOK, Rest
    <3>3. QED
      BY <1>3, <3>1, <3>2 DEF Pack
  <2>3. QED
    BY <2>1, <2>2, ReadersOn DEF Others
<1>4. CASE Walk(p)
  <2>1. UNCHANGED <<disk, written>>
    BY <1>4 DEF Walk
  <2>2. Others(p) /\ proc'[p].pc \in {"idle", "pack"}
    <3>1. CASE Ends(p)
      BY <1>0, <3>1, Moves
    <3>2. CASE ~Ends(p)
      BY <1>0, <1>4, <3>2 DEF Walk, Others, TypeOK, Running
    <3>3. QED
      BY <3>1, <3>2
  <2>3. QED
    BY <2>1, <2>2, ReadersOn DEF Others
<1>5. CASE \/ Begin(p) \/ PackFails(p) \/ Packed(p) \/ VerifyArchive(p) \/ RecordQuarantine(p)
           \/ RemoveDir(p) \/ MarkFindings(p)
  <2>1. UNCHANGED <<disk, written>>
    BY <1>5 DEF Begin, PackFails, Packed, VerifyArchive, RecordQuarantine, RemoveDir, MarkFindings
  <2>2. Ends(p) \/ \E pc \in {"asked", "verify", "record", "remove", "mark"} : Goto(p, pc)
    BY <1>5 DEF Begin, PackFails, Packed, VerifyArchive, RecordQuarantine, NotRecorded, RemoveDir,
                MarkFindings
  <2>3. Others(p) /\ proc'[p].pc # "read"
    BY <1>0, <2>2, Moves
  <2>4. QED
    BY <2>1, <2>3, ReadersOn DEF Others
<1>6. QED
  BY <1>1, <1>2, <1>3, <1>4, <1>5

LEMMA ReadRestorerStep ==
    ASSUME TypeOK, ReadInv, NEW p \in Restorers,
           \/ \E i \in Ids : ReadItem(p, i)
           \/ CheckPaths(p) \/ OpenArchive(p) \/ ListTree(p) \/ CompareDigests(p)
           \/ UnpackFails(p) \/ MarkRestored(p) \/ ReopenFindings(p)
           \/ \E f \in Files : UnpackFile(p, f) \/ ReadFile(p, f)
    PROVE  ReadInv'
<1>0. p \in Procs /\ proc[p] \in Running
  BY DEF Procs, TypeOK
\* The process stops reading, or does not read, and no file changes.
<1>1. ASSUME Others(p), proc'[p].pc # "read", disk' = disk, ReadsNoMore(p) \/ written' = written
      PROVE  ReadInv'
  <2>1. \A q \in Procs : q # p => written'[q] = written[q]
    BY <1>1 DEF ReadsNoMore, TypeOK
  <2>2. QED
    BY <1>1, <2>1, ReadersOn DEF Others
<1>2. CASE CompareDigests(p) \/ UnpackFails(p)
  <2>1. \E pc \in {"restored", "failed"} : Outcome(p, pc)
    BY <1>2 DEF CompareDigests, UnpackFails
  <2>2. QED
    BY <1>0, <1>1, <1>2, <2>1, Moves DEF CompareDigests, UnpackFails
<1>3. CASE CheckPaths(p) \/ MarkRestored(p) \/ ReopenFindings(p)
  <2>1. Ends(p) \/ Goto(p, "open") \/ Goto(p, "reopen")
    BY <1>3 DEF CheckPaths, MarkRestored, ReopenFindings
  <2>2. QED
    BY <1>0, <1>1, <1>3, <2>1, Moves DEF CheckPaths, MarkRestored, ReopenFindings
<1>4. ASSUME NEW i \in Ids, ReadItem(p, i) PROVE ReadInv'
  <2>1. Others(p) /\ proc'[p].pc = "stat"
    BY <1>0, <1>4 DEF ReadItem, Others, TypeOK, Rest
  <2>2. QED
    BY <1>1, <1>4, <2>1 DEF ReadItem
<1>5. CASE OpenArchive(p)
  <2>1. CASE Outcome(p, "failed")
    BY <1>0, <1>1, <1>5, <2>1, Moves DEF OpenArchive
  <2> DEFINE next == [proc[p] EXCEPT !.pc = "unpack", !.digest = archive[proc[p].id].tree,
                        !.todo = {f \in InstallDir : archive[proc[p].id].tree[f] # 0}]
  <2>2. CASE proc' = [proc EXCEPT ![p] = next]
    <3>0. next.pc = "unpack"
      BY <1>0 DEF Running
    <3>1. Others(p) /\ proc'[p].pc = "unpack"
      BY <1>0, <2>2, <3>0 DEF Others, TypeOK
    <3>2. QED
      BY <1>1, <1>5, <3>1 DEF OpenArchive
  <2>3. QED
    BY <1>5, <2>1, <2>2 DEF OpenArchive
<1>6. ASSUME NEW f \in Files, UnpackFile(p, f) PROVE ReadInv'
  <2>1. f \in InstallDir
    BY <1>0, <1>6 DEF UnpackFile, Running
  <2>2. Others(p) /\ proc'[p].pc \in {"unpack", "failed"}
    <3>1. CASE Outcome(p, "failed")
      BY <1>0, <3>1, Moves
    <3>2. CASE proc' = [proc EXCEPT ![p].todo = proc[p].todo \ {f}]
      BY <1>0, <1>6, <3>2 DEF UnpackFile, Others, TypeOK, Running
    <3>3. QED
      BY <1>6, <3>1, <3>2 DEF UnpackFile
  <2>3. CASE UNCHANGED <<disk, written>>
    BY <1>1, <2>2, <2>3
  <2>4. ASSUME NEW content, disk' = [disk EXCEPT ![f] = content], Writes(f) PROVE ReadInv'
    <3>1. \A q \in Procs : proc'[q].pc = "read" => proc[q].pc = "read" /\ proc'[q] = proc[q]
      BY <2>2 DEF Others
    <3>2. QED
      BY <2>1, <2>4, <3>1, WrittenOn, ReadersOn
  <2>5. QED
    BY <1>6, <2>3, <2>4 DEF UnpackFile
<1>7. CASE ListTree(p)
  <2>1. CASE Outcome(p, "failed")
    BY <1>0, <1>1, <1>7, <2>1, Moves DEF ListTree
  <2> DEFINE next == [proc[p] EXCEPT !.pc = "read", !.todo = Listed(p), !.digest = Nothing]
  <2>2. CASE proc' = [proc EXCEPT ![p] = next]
    <3>0. next.todo = Listed(p) /\ next.digest = Nothing
      BY <1>0 DEF Running
    <3>1. /\ Others(p) /\ proc'[p].todo = Listed(p) /\ proc'[p].digest = Nothing
          /\ UNCHANGED <<disk, written>>
      BY <1>0, <1>7, <2>2, <3>0 DEF ListTree, Others, TypeOK
    <3>2. Current(p)'
      BY <3>1 DEF Current, Listed, Nothing
    <3>3. \A q \in Procs : q # p => (Current(q)' <=> Current(q)) /\ proc'[q] = proc[q]
      BY <3>1 DEF Others, Current
    <3>4. QED
      BY <3>2, <3>3 DEF ReadInv
  <2>3. QED
    BY <1>7, <2>1, <2>2 DEF ListTree
<1>8. ASSUME NEW f \in Files, ReadFile(p, f) PROVE ReadInv'
  <2>1. CASE Outcome(p, "failed") /\ ReadsNoMore(p)
    <3>1. disk' = disk
      BY <1>8 DEF ReadFile
    <3>2. Others(p) /\ proc'[p].pc = "failed"
      BY <1>0, <2>1, Moves
    <3>3. QED
      BY <1>1, <2>1, <3>1, <3>2
  <2>2. CASE disk[f] # 0 /\ written' = written
             /\ proc' = [proc EXCEPT ![p] = [@ EXCEPT !.todo = proc[p].todo \ {f},
                                             !.digest = [proc[p].digest EXCEPT ![f] = disk[f]]]]
    <3>1. /\ Others(p) /\ proc'[p].todo = proc[p].todo \ {f} /\ UNCHANGED <<disk, written>>
          /\ proc'[p].digest = [proc[p].digest EXCEPT ![f] = disk[f]]
      BY <1>0, <1>8, <2>2 DEF ReadFile, Others, TypeOK, Running
    <3>2. proc[p].pc = "read" /\ f \in InstallDir /\ proc[p].digest \in Trees
      BY <1>0, <1>8 DEF ReadFile, Running
    <3>3. Current(p)
      BY <1>0, <3>2 DEF ReadInv
    <3>4. \A g \in InstallDir : proc'[p].digest[g] = IF g = f THEN disk[f] ELSE proc[p].digest[g]
      BY <3>1, <3>2 DEF Trees
    <3>5. Current(p)'
      BY <3>1, <3>3, <3>4 DEF Current
    <3>6. \A q \in Procs : q # p => (Current(q)' <=> Current(q)) /\ proc'[q] = proc[q]
      BY <3>1 DEF Others, Current
    <3>7. QED
      BY <3>5, <3>6 DEF ReadInv
  <2>3. QED
    BY <1>8, <2>1, <2>2, Zenon DEF ReadFile
<1>9. QED
  BY <1>2, <1>3, <1>4, <1>5, <1>6, <1>7, <1>8

LEMMA ReadWorldStep ==
    ASSUME TypeOK, ReadInv,
           \/ \E p \in Procs : Killed(p)
           \/ \E f \in Files, content \in 2 .. MaxContent : Install(f, content)
           \/ MoveAside
           \/ \E i \in Ids : DeleteArchive(i)
    PROVE  ReadInv'
<1>1. ASSUME NEW p \in Procs, Killed(p) PROVE ReadInv'
  <2>1. Others(p) /\ proc'[p].pc = "idle" /\ disk' = disk
    BY <1>1, Moves DEF Killed
  <2>2. \A q \in Procs : q # p => written'[q] = written[q]
    BY <1>1 DEF Killed, ReadsNoMore, TypeOK
  <2>3. QED
    BY <2>1, <2>2, ReadersOn DEF Others
<1>2. ASSUME NEW f \in Files, NEW content \in 2 .. MaxContent, Install(f, content) PROVE ReadInv'
  <2>1. disk' = [disk EXCEPT ![f] = content] /\ proc' = proc
    BY <1>2 DEF Install
  <2>2. CASE f \in InstallDir
    <3>1. Writes(f)
      BY <1>2, <2>2 DEF Install
    <3>2. QED
      BY <2>1, <2>2, <3>1, WrittenOn, ReadersOn
  <2>3. CASE f \notin InstallDir
    <3>1. written' = written
      BY <1>2, <2>3 DEF Install
    <3>2. \A g \in InstallDir : disk'[g] = disk[g]
      BY <2>1, <2>3, QuarantineAssumption DEF TypeOK
    <3>3. QED
      BY <2>1, <3>1, <3>2, ReadersOn
  <2>4. QED
    BY <2>2, <2>3
<1>3. CASE MoveAside
  BY <1>3 DEF MoveAside, Waiting, ReadInv
<1>4. ASSUME NEW i \in Ids, DeleteArchive(i) PROVE ReadInv'
  BY <1>4, ReadersOn DEF DeleteArchive
<1>5. QED
  BY <1>1, <1>2, <1>3, <1>4

\* Only a comparison that finds the digests equal gives a restore its success.
LEMMA OnlyTheComparison ==
    ASSUME TypeOK, Next, NEW p \in Restorers, proc[p].pc = "read", proc'[p].pc = "restored"
    PROVE  proc[p].todo = {} /\ proc[p].digest = row[proc[p].id].sha
<1>0. p \in Procs /\ proc[p] \in Running
  BY DEF Procs, TypeOK
<1>1. \A q \in Procs : Others(q) => q = p
  BY <1>0 DEF Others
<1>2. \A q \in Procs : /\ ~Ends(q)
                       /\ \A pc : Goto(q, pc) \/ Outcome(q, pc) => q = p /\ pc = "restored"
  BY <1>0, <1>1, Moves
<1>3. proc' # proc
  OBVIOUS
<1>4. \A q \in Procs : \A rec : proc' = [proc EXCEPT ![q] = rec] => q = p /\ rec.pc = "restored"
  BY <1>0, <1>1 DEF Others, TypeOK
<1>5. ASSUME NEW q \in Keepers
      PROVE  /\ ~Begin(q) /\ ~Pack(q) /\ ~Walk(q) /\ ~PackFails(q) /\ ~Packed(q)
             /\ ~VerifyArchive(q) /\ ~RecordQuarantine(q) /\ ~RemoveDir(q) /\ ~MarkFindings(q)
             /\ \A f \in Files : ~PackFile(q, f) /\ ~RemoveFile(q, f)
  <2>1. q \in Procs
    BY DEF Procs
  <2>2. /\ ~Begin(q) /\ ~PackFails(q) /\ ~Packed(q) /\ ~VerifyArchive(q) /\ ~RecordQuarantine(q)
        /\ ~RemoveDir(q) /\ ~MarkFindings(q)
    BY <1>2, <2>1 DEF Begin, PackFails, Packed, VerifyArchive, RecordQuarantine, NotRecorded,
                      RemoveDir, MarkFindings
  <2>3. ~Pack(q)
    <3>1. [Rest EXCEPT !.pc = "walk", !.id = ids + 1].pc = "walk"
      BY DEF Rest
    <3>2. QED
      BY <1>2, <1>4, <2>1, <3>1 DEF Pack
  <2>4. ~Walk(q)
    BY <1>2, <1>4, <2>1 DEF Walk
  <2>5. \A f \in Files : ~PackFile(q, f) /\ ~RemoveFile(q, f)
    BY <1>3, <1>4, <2>1 DEF PackFile, RemoveFile
  <2>6. QED
    BY <2>2, <2>3, <2>4, <2>5
<1>6. ASSUME NEW q \in Restorers
      PROVE  /\ \A i \in Ids : ~ReadItem(q, i)
             /\ ~CheckPaths(q) /\ ~OpenArchive(q) /\ ~ListTree(q) /\ ~UnpackFails(q)
             /\ ~MarkRestored(q) /\ ~ReopenFindings(q)
             /\ \A f \in Files : ~UnpackFile(q, f) /\ ~ReadFile(q, f)
  <2>1. q \in Procs
    BY DEF Procs
  <2>2. ~CheckPaths(q) /\ ~UnpackFails(q) /\ ~MarkRestored(q) /\ ~ReopenFindings(q)
    BY <1>2, <2>1 DEF CheckPaths, UnpackFails, MarkRestored, ReopenFindings
  <2>3. \A i \in Ids : ~ReadItem(q, i)
    BY <1>4, <2>1 DEF ReadItem
  <2>4. ~OpenArchive(q) /\ ~ListTree(q)
    BY <1>2, <1>4, <2>1 DEF OpenArchive, ListTree
  <2>5. \A f \in Files : ~UnpackFile(q, f) /\ ~ReadFile(q, f)
    <3>1. proc[q] \in Running /\ \A pc : Outcome(q, pc) => pc = "restored"
      BY <1>2, <2>1 DEF TypeOK
    <3>2. ASSUME NEW f \in Files, UnpackFile(q, f) PROVE FALSE
      <4>1. proc[q].pc = "unpack" /\ proc' = [proc EXCEPT ![q] = [proc[q] EXCEPT !.todo = proc[q].todo \ {f}]]
        BY <3>1, <3>2 DEF UnpackFile
      <4>2. [proc[q] EXCEPT !.todo = proc[q].todo \ {f}].pc = proc[q].pc
        BY <3>1 DEF Running
      <4>3. QED
        BY <1>4, <2>1, <4>1, <4>2
    <3>3. ASSUME NEW f \in Files, ReadFile(q, f) PROVE FALSE
      <4> DEFINE next == [proc[q] EXCEPT !.todo = proc[q].todo \ {f},
                                         !.digest = [proc[q].digest EXCEPT ![f] = disk[f]]]
      <4>1. proc[q].pc = "read" /\ proc' = [proc EXCEPT ![q] = next]
        BY <3>1, <3>3 DEF ReadFile
      <4>2. next.pc = proc[q].pc
        BY <3>1 DEF Running
      <4> HIDE DEF next
      <4>3. QED
        BY <1>4, <2>1, <4>1, <4>2
    <3>4. QED
      BY <3>2, <3>3
  <2>6. QED
    BY <2>2, <2>3, <2>4, <2>5
<1>7. ASSUME NEW q \in Restorers, CompareDigests(q)
      PROVE  proc[p].todo = {} /\ proc[p].digest = row[proc[p].id].sha
  <2>1. q = p
    BY <1>2, <1>7 DEF CompareDigests, Procs
  <2>2. QED
    BY <1>2, <1>7, <2>1 DEF CompareDigests, Procs
<1>8. /\ \A q \in Procs : ~Killed(q)
      /\ \A f \in Files, content \in 2 .. MaxContent : ~Install(f, content)
      /\ ~MoveAside /\ \A i \in Ids : ~DeleteArchive(i)
  BY <1>2, <1>3 DEF Killed, Install, MoveAside, DeleteArchive
<1>9. QED
  BY <1>5, <1>6, <1>7, <1>8 DEF Next

\* When a restore succeeds, every file in the directory is what was taken and no
\* other is there, whoever else wrote into it before; only what was written while
\* the tree was being read back may differ (quarantine/quarantine.go:320-354,
\* quarantine/restore.go:44-62).
THEOREM RestoresWhatWasTaken == Spec => RestoredIsIdentical
<1>1. Init => ReadInv
  BY DEF Init, Rest, ReadInv
<1>2. TypeOK /\ ReadInv /\ [Next]_vars => ReadInv'
  <2> SUFFICES ASSUME TypeOK, ReadInv, [Next]_vars PROVE ReadInv'
    OBVIOUS
  <2>1. CASE Next
    BY <2>1, ReadKeeperStep, ReadRestorerStep, ReadWorldStep DEF Next
  <2>2. CASE UNCHANGED vars
    BY <2>2, ReadersOn DEF vars
  <2>3. QED
    BY <2>1, <2>2
<1>3. TypeOK /\ ReadInv /\ [Next]_vars => [ComparedLast]_vars
  <2> SUFFICES ASSUME TypeOK, ReadInv, Next, NEW p \in Restorers,
                      proc[p].pc = "read", proc'[p].pc = "restored",
                      NEW f \in InstallDir \ written[p]
               PROVE  disk[f] = row[proc[p].id].sha[f]
    BY DEF ComparedLast
  <2>1. p \in Procs
    BY DEF Procs
  <2>2. Current(p)
    BY <2>1 DEF ReadInv
  <2>3. proc[p].todo = {} /\ proc[p].digest = row[proc[p].id].sha
    BY OnlyTheComparison
  <2>4. QED
    BY <2>2, <2>3 DEF Current
<1>4. QED
  BY <1>1, <1>2, <1>3, QuarantineTypeOK, PTL DEF Spec, RestoredIsIdentical

-----------------------------------------------------------------------------
(* The refinement of Custody. *)

\* No archive of a row changes, and no row comes or goes.
CustodyStays ==
    /\ \A i \in Ids : row'[i].state = "none" <=> row[i].state = "none"
    /\ \A i \in Ids : row[i].state # "none" => archive'[i].tree = archive[i].tree
    /\ deleted' = deleted

LEMMA CustodySame == ASSUME CustodyStays PROVE InCustody' = InCustody
BY DEF CustodyStays, InCustody

\* What a file and a tree look like from outside.
LEMMA CustodyTypes ==
    ASSUME TypeOK
    PROVE  /\ Bad \notin 0 .. MaxContent /\ 0 .. Bad = (0 .. MaxContent) \cup {Bad}
           /\ Tree \in Promise!Trees
           /\ \A f \in InstallDir : Tree[f] = disk[f]
           /\ \A i \in Ids : archive[i].tree \in Promise!Trees
<1>1. MaxContent \in Nat /\ Bad = MaxContent + 1
  BY QuarantineAssumption DEF Bad
<1>2. Bad \notin 0 .. MaxContent /\ 0 .. Bad = (0 .. MaxContent) \cup {Bad}
  BY <1>1
<1>3. Tree \in Trees
  BY TreeType DEF TypeOK
<1>6. \A f \in InstallDir : Tree[f] = disk[f]
  BY DEF Tree
<1>4. \A i \in Ids : archive[i].tree \in Trees
  BY DEF TypeOK, Archives
<1>5. Promise!Trees = Trees
  BY <1>2 DEF Promise!Trees, Trees
<1> QED  BY <1>2, <1>3, <1>4, <1>5, <1>6

\* A step that changes one file, or none.
LEMMA OneFile ==
    ASSUME TypeOK, NEW f \in InstallDir, NEW content, disk' = [disk EXCEPT ![f] = content]
    PROVE  Tree' = [Tree EXCEPT ![f] = content]
<1>1. \A g \in InstallDir : disk'[g] = IF g = f THEN content ELSE disk[g]
  BY QuarantineAssumption DEF TypeOK
<1> QED  BY <1>1 DEF Tree

LEMMA CustodyStutters ==
    ASSUME CustodyStays, UNCHANGED disk PROVE UNCHANGED Promise!vars
BY CustodySame DEF Promise!vars, CustodyStays, Tree

LEMMA KeeperInCustody ==
    ASSUME Quiet, TypeOK, QInv, NEW p \in Keepers,
           \/ Begin(p) \/ Pack(p) \/ Walk(p) \/ PackFails(p) \/ Packed(p) \/ VerifyArchive(p)
           \/ RecordQuarantine(p)
           \/ \E f \in Files : PackFile(p, f) \/ RemoveFile(p, f)
           \/ RemoveDir(p) \/ MarkFindings(p)
    PROVE  [Promise!Next]_(Promise!vars)
<1>0. p \in Procs
  BY DEF Procs
<1>1. CASE Pack(p)
  <2>1. UNCHANGED <<row, deleted, disk>>
    BY <1>1 DEF Pack
  <2>2. \A i \in Ids : archive'[i].tree = archive[i].tree
    BY <1>1 DEF Pack, TypeOK, Archives
  <2> QED  BY <2>1, <2>2, CustodyStutters DEF CustodyStays
<1>2. CASE Begin(p) \/ Walk(p) \/ PackFails(p) \/ Packed(p) \/ RemoveDir(p) \/ MarkFindings(p)
  BY <1>2, CustodyStutters DEF CustodyStays, Begin, Walk, PackFails, Packed, RemoveDir, MarkFindings
<1>3. ASSUME NEW f \in Files, PackFile(p, f) PROVE CustodyStays /\ UNCHANGED disk
  <2>1. row[proc[p].id].state = "none"
    BY <1>0, <1>3, Zenon DEF PackFile, QInv, Owned, Keeping
  <2>2. \A i \in Ids : i # proc[p].id => archive'[i] = archive[i]
    BY <1>3, Zenon DEF PackFile, TypeOK
  <2> QED  BY <1>3, <2>1, <2>2, Zenon DEF PackFile, CustodyStays
<1>4. CASE VerifyArchive(p)
  <2>1. row[proc[p].id].state = "none"
    BY <1>0, <1>4 DEF VerifyArchive, QInv, Owned, Keeping
  <2>2. \A i \in Ids : i # proc[p].id => archive'[i] = archive[i]
    BY <1>4 DEF VerifyArchive, TypeOK
  <2> QED  BY <1>4, <2>1, <2>2, CustodyStutters DEF VerifyArchive, CustodyStays
<1>5. CASE RecordQuarantine(p)
  <2> DEFINE i == proc[p].id
  <2>1. UNCHANGED <<disk, archive, deleted>> /\ proc[p].pc = "record"
    BY <1>5 DEF RecordQuarantine, NotRecorded
  <2>2. i \in 1 .. ids /\ row[i].state = "none"
    BY <1>0, <2>1 DEF QInv, Owned, Keeping
  <2>3. i \in Ids
    BY <2>2, QuarantineAssumption DEF TypeOK, Ids
  <2>4. UNCHANGED <<disk, archive, deleted>> /\ i \in Ids /\ row[i].state = "none"
    BY <2>1, <2>2, <2>3
  <2>5. CASE row' = row
    BY <2>4, <2>5, CustodyStutters DEF CustodyStays
  <2>6. CASE row' = [row EXCEPT ![i] = [state |-> "active", sha |-> proc[p].digest]]
    <3>1. \A j \in Ids : row'[j].state # "none" <=> (j = i \/ row[j].state # "none")
      BY <2>4, <2>6 DEF TypeOK
    <3>2. CASE i \in deleted
      <4>1. InCustody' = InCustody
        BY <2>4, <3>1, <3>2 DEF InCustody
      <4> QED  BY <2>4, <4>1 DEF Promise!vars, Tree
    <3>3. CASE i \notin deleted
      <4>1. InCustody' = InCustody \cup {archive[i].tree}
        BY <2>4, <3>1, <3>3 DEF InCustody
      <4>2. archive[i].tree \in Promise!Trees
        BY <2>4, CustodyTypes
      <4>3. Promise!Hold
        BY <2>4, <4>1, <4>2 DEF Promise!Hold, Tree
      <4> QED  BY <4>3 DEF Promise!Next
    <3> QED  BY <3>2, <3>3
  <2> QED  BY <1>5, <2>5, <2>6 DEF RecordQuarantine, NotRecorded
<1>6. ASSUME NEW f \in Files, RemoveFile(p, f) PROVE Promise!Next
  <2>1. /\ proc[p].pc = "remove" /\ f \in InstallDir /\ disk[f] # 0 /\ disk' = [disk EXCEPT ![f] = 0]
        /\ UNCHANGED <<archive, row, deleted>>
    BY <1>6 DEF RemoveFile
  <2>2. Tree' = [Tree EXCEPT ![f] = 0] /\ Tree[f] = disk[f]
    BY <2>1, OneFile, CustodyTypes
  <2>3. InCustody' = InCustody
    BY <2>1, CustodySame DEF CustodyStays
  <2>4. Promise!IsHeld(f, disk[f]) \/ disk[f] = Bad \/ deleted # {}
    <3> SUFFICES ASSUME disk[f] # Bad, deleted = {} PROVE Promise!IsHeld(f, disk[f])
      OBVIOUS
    <3>1. Saved(f)
      BY <1>0, <2>1 DEF QInv, Safe
    <3> QED  BY <3>1 DEF Saved, Promise!IsHeld, InCustody
  <2>5. Promise!Take(f)
    BY <2>1, <2>2, <2>3, <2>4 DEF Promise!Take
  <2> QED  BY <2>1, <2>5 DEF Promise!Next
<1> QED  BY <1>1, <1>2, <1>3, <1>4, <1>5, <1>6, CustodyStutters

LEMMA RestorerInCustody ==
    ASSUME TypeOK, QInv, NEW p \in Restorers,
           \/ \E i \in Ids : ReadItem(p, i)
           \/ CheckPaths(p) \/ OpenArchive(p) \/ ListTree(p) \/ CompareDigests(p)
           \/ UnpackFails(p) \/ MarkRestored(p) \/ ReopenFindings(p)
           \/ \E f \in Files : UnpackFile(p, f) \/ ReadFile(p, f)
    PROVE  [Promise!Next]_(Promise!vars)
<1>0. p \in Procs /\ proc[p] \in Running
  BY DEF Procs, TypeOK
<1>1. CASE \/ (\E i \in Ids : ReadItem(p, i)) \/ OpenArchive(p) \/ ListTree(p)
           \/ (\E f \in Files : ReadFile(p, f))
           \/ CompareDigests(p) \/ UnpackFails(p) \/ ReopenFindings(p)
  BY <1>1, CustodyStutters
     DEF CustodyStays, ReadItem, OpenArchive, ListTree, ReadFile, CompareDigests, UnpackFails,
         ReopenFindings
<1>2. ASSUME NEW state, state # "none", row' = [row EXCEPT ![proc[p].id].state = state],
             row[proc[p].id].state # "none", UNCHANGED <<archive, deleted, disk>>
      PROVE  UNCHANGED Promise!vars
  <2>1. \A i \in Ids : row'[i].state = "none" <=> row[i].state = "none"
    BY <1>2 DEF TypeOK, Records
  <2> QED  BY <1>2, <2>1, CustodyStutters DEF CustodyStays
<1>3. CASE CheckPaths(p)
  <2>1. row[proc[p].id].state # "none" /\ UNCHANGED <<archive, deleted, disk>>
    BY <1>0, <1>3 DEF CheckPaths, QInv, Opened, Restoring
  <2>2. CASE row' = row
    BY <2>1, <2>2, CustodyStutters DEF CustodyStays
  <2>3. CASE row' = [row EXCEPT ![proc[p].id].state = QuarantineMissing]
    BY <1>2, <2>1, <2>3 DEF QuarantineMissing
  <2> QED  BY <1>3, <2>2, <2>3, SMTT(30) DEF CheckPaths
<1>4. CASE MarkRestored(p)
  <2>1. row[proc[p].id].state # "none" /\ proc[p].pc # "none"
    BY <1>0, <1>4 DEF MarkRestored, QInv, Opened, Restoring
  <2> QED  BY <1>2, <1>4, <2>1 DEF MarkRestored
<1>5. ASSUME NEW f \in Files, UnpackFile(p, f) PROVE [Promise!Next]_(Promise!vars)
  <2>1. /\ proc[p].pc = "unpack" /\ f \in InstallDir /\ UNCHANGED <<archive, row, deleted>>
        /\ proc[p].id \in Ids
    BY <1>0, <1>5, IdType DEF UnpackFile, Running
  <2>2. InCustody' = InCustody
    BY <2>1, CustodySame DEF CustodyStays
  <2>3. CASE UNCHANGED disk
    BY <2>1, <2>3, CustodyStutters DEF CustodyStays
  <2>4. ASSUME NEW content \in 0 .. Bad, disk[f] = 0, disk' = [disk EXCEPT ![f] = content],
               content = Bad \/ content = proc[p].digest[f]
        PROVE  Promise!Next
    <3>1. Tree' = [Tree EXCEPT ![f] = content] /\ Tree[f] = 0
      BY <2>1, <2>4, OneFile, CustodyTypes
    <3>2. Promise!IsHeld(f, content) \/ content = Bad \/ deleted # {}
      <4> SUFFICES ASSUME content = proc[p].digest[f], deleted = {} PROVE Promise!IsHeld(f, content)
        BY <2>4
      <4>1. archive[proc[p].id].tree = proc[p].digest /\ row[proc[p].id].state # "none"
        BY <1>0, <2>1 DEF QInv, Opened, Restoring
      <4> QED  BY <2>1, <4>1 DEF Promise!IsHeld, InCustody
    <3>3. content \in (0 .. MaxContent) \cup {Bad}
      BY CustodyTypes
    <3>4. Promise!GiveBack(f)
      BY <2>1, <2>2, <3>1, <3>2, <3>3 DEF Promise!GiveBack
    <3> QED  BY <2>1, <3>4 DEF Promise!Next
  <2>5. proc[p].digest[f] \in 0 .. Bad /\ Bad \in 0 .. Bad
    BY <1>0, <2>1, CustodyTypes DEF Running, Trees
  <2> QED  BY <1>5, <2>3, <2>4, <2>5 DEF UnpackFile, MayCreate
<1> QED  BY <1>1, <1>3, <1>4, <1>5

LEMMA WorldInCustody ==
    ASSUME TypeOK,
           \/ \E p \in Procs : Killed(p)
           \/ \E f \in Files, content \in 2 .. MaxContent : Install(f, content)
           \/ MoveAside
           \/ \E i \in Ids : DeleteArchive(i)
    PROVE  [Promise!Next]_(Promise!vars)
<1>1. CASE \E p \in Procs : Killed(p)
  BY <1>1, CustodyStutters DEF Killed, CustodyStays
<1>2. ASSUME NEW f \in Files, NEW content \in 2 .. MaxContent, Install(f, content)
      PROVE  [Promise!Next]_(Promise!vars)
  <2>1. disk[f] < content /\ disk' = [disk EXCEPT ![f] = content] /\ UNCHANGED <<archive, row, deleted>>
    BY <1>2 DEF Install
  <2>2. InCustody' = InCustody
    BY <2>1, CustodySame DEF CustodyStays
  <2>3. CASE f \in InstallDir
    <3>1. Tree' = [Tree EXCEPT ![f] = content] /\ Tree[f] = disk[f]
      BY <2>1, <2>3, OneFile, CustodyTypes
    <3>2. content \in 0 .. MaxContent
      BY QuarantineAssumption
    <3>3. Promise!Reinstall(f)
      BY <2>1, <2>2, <3>1, <3>2 DEF Promise!Reinstall
    <3> QED  BY <2>3, <3>3 DEF Promise!Next
  <2>4. CASE f \notin InstallDir
    <3>1. \A g \in InstallDir : disk'[g] = disk[g]
      BY <2>1, <2>4, QuarantineAssumption DEF TypeOK
    <3>2. Tree' = Tree
      BY <3>1 DEF Tree
    <3> QED  BY <2>1, <2>2, <3>2 DEF Promise!vars
  <2> QED  BY <2>3, <2>4
<1>3. CASE MoveAside
  <2>1. \A f \in InstallDir : disk'[f] = 0
    BY <1>3, QuarantineAssumption DEF MoveAside
  <2>2. Tree' = [f \in InstallDir |-> 0]
    BY <2>1 DEF Tree
  <2>3. InCustody' = InCustody /\ deleted' = deleted
    BY <1>3, CustodySame DEF MoveAside, CustodyStays
  <2>4. Promise!MoveAside
    BY <2>2, <2>3 DEF Promise!MoveAside
  <2> QED  BY <2>4 DEF Promise!Next
<1>4. ASSUME NEW i \in Ids, DeleteArchive(i) PROVE Promise!Next
  <2>1. /\ archive' = [archive EXCEPT ![i] = NoFile] /\ deleted' = deleted \cup {i}
        /\ UNCHANGED <<disk, row>>
    BY <1>4 DEF DeleteArchive
  <2>2. \A j \in Ids : j # i => archive'[j] = archive[j]
    BY <2>1 DEF TypeOK
  <2>3. InCustody' \in SUBSET InCustody
    BY <2>1, <2>2 DEF InCustody
  <2>4. deleted' # {} /\ Tree' = Tree
    BY <2>1 DEF Tree
  <2>5. Promise!Discard
    BY <2>3, <2>4 DEF Promise!Discard
  <2> QED  BY <2>5 DEF Promise!Next
<1> QED  BY <1>1, <1>2, <1>3, <1>4

\* Quarantine and restore keep the promise of Custody as long as nothing is
\* installed into a directory that is being put away: for any number of commands
\* at once, each killed or failing wherever it may be, the owner's files are
\* installed, held or both (quarantine/quarantine.go, quarantine/restore.go).
THEOREM CustodyIsKept ==
    ASSUME Quiet
    PROVE  Spec => KeepsCustody
<1>1. Init => Promise!Init
  <2> SUFFICES ASSUME Init PROVE Promise!Init
    OBVIOUS
  <2>1. Tree = [f \in InstallDir |-> 1] /\ 1 \in 0 .. MaxContent
    BY QuarantineAssumption DEF Init, Tree
  <2>2. \A i \in Ids : row[i].state = "none"
    BY DEF Init, NoRow
  <2>3. InCustody = {} /\ (deleted # {}) = FALSE
    BY <2>2 DEF Init, InCustody
  <2> QED  BY <2>1, <2>3 DEF Promise!Init
<1>2. TypeOK /\ QInv /\ [Next]_vars => [Promise!Next]_(Promise!vars)
  <2> SUFFICES ASSUME TypeOK, QInv, [Next]_vars PROVE [Promise!Next]_(Promise!vars)
    OBVIOUS
  <2>1. CASE UNCHANGED vars
    BY <2>1, CustodyStutters DEF vars, CustodyStays
  <2> QED  BY <2>1, KeeperInCustody, RestorerInCustody, WorldInCustody DEF Next
<1> QED  BY <1>1, <1>2, QInvHolds, PTL DEF Spec, KeepsCustody, Promise!Spec

=============================================================================
