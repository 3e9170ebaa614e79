--------------------------- MODULE FindingsProofs ---------------------------
(***************************************************************************)
(* Theorems about Findings, for every number of packages and passes, every *)
(* clock and every number of changes from outside.                         *)
(***************************************************************************)
EXTENDS Findings, TLAPS

(* Type correctness. *)

\* Every value findings.state is given is one of its states.
LEMMA RowTypes ==
    ASSUME TypeOK
    PROVE  /\ \A P, s : s \in States => Moved(P, s) \in [Packages -> States \cup {"none"}]
           /\ \A P : AtItsWeight(P) \in [Packages -> States \cup {"none"}]
           /\ \A S : InState(S) \subseteq Packages
  BY DEF TypeOK, Moved, AtItsWeight, InState, States

\* A finding that leaves the ignored ones leaves its date, and no other gets one.
LEMMA MovedDates ==
    ASSUME TypeOK, NEW P, NEW s \in States \ {"ignored"}, P \cap InState({"ignored"}) = {}
    PROVE  \A p \in Packages : Moved(P, s)[p] = "ignored" <=> until[p] # 0
  BY DEF TypeOK, Moved, InState, States

LEMMA WeightDates ==
    ASSUME TypeOK, NEW P, P \cap InState({"ignored"}) = {}
    PROVE  \A p \in Packages : AtItsWeight(P)[p] = "ignored" <=> until[p] # 0
  BY DEF TypeOK, AtItsWeight, InState

\* The states of a pass.
LEMMA IdlePass ==
    /\ Idle \in PassState
    /\ \A pc \in {"idle", "collect", "packages"}, now \in 0..MaxClock :
          [Idle EXCEPT !.pc = pc, !.now = now] \in PassState
    /\ \A now \in 0..MaxClock : [Idle EXCEPT !.now = now] \in PassState
<1>1. 0 \in 0..MaxClock /\ {} \in SUBSET Packages
  BY ClockAssumption
<1>2. Idle \in PassState
  BY <1>1 DEF Idle, PassState
<1>3. QED
  BY <1>2 DEF PassState

LEMMA FindingsInitType == Init => TypeOK
<1>1. SUFFICES ASSUME Init PROVE TypeOK
  OBVIOUS
<1>2. clock \in 1..MaxClock /\ edits \in 0..MaxEdits /\ 0 \in 0..MaxClock
  BY <1>1, ClockAssumption DEF Init
<1>3. hand \in [do : {"nothing", "remove", "mark", "unpacked", "reopen"}, pkg : SUBSET Packages]
  BY <1>1 DEF Init, NoHand
<1>4. pass \in [Passes -> PassState]
  <2>1. Idle \in PassState
    BY IdlePass
  <2>2. QED
    BY <1>1, <2>1 DEF Init
<1>5. /\ row \in [Packages -> States \cup {"none"}]
      /\ \A p \in Packages : row[p] = "ignored" <=> until[p] # 0
  BY <1>1 DEF Init
<1>6. QED
  BY <1>1, <1>2, <1>3, <1>4, <1>5 DEF Init, TypeOK

\* A pass goes on.
LEMMA GotoType ==
    ASSUME TypeOK, NEW w \in Passes,
           NEW next \in {"supersede", "packages", "announce", "rescore", "resolve", "reopen", "expire"}, Goto(w, next)
    PROVE  pass' \in [Passes -> PassState]
<1>1. pass[w] \in PassState
  BY DEF TypeOK
<1>2. [pass[w] EXCEPT !.pc = next] \in PassState
  BY <1>1 DEF PassState
<1>3. pass' = [pass EXCEPT ![w] = [pass[w] EXCEPT !.pc = next]]
  BY DEF Goto
<1>4. QED
  BY <1>2, <1>3 DEF TypeOK

LEMMA FinishType ==
    ASSUME TypeOK, NEW w \in Passes, Finish(w) PROVE pass' \in [Passes -> PassState]
<1>1. pass[w].now \in 0..MaxClock
  BY DEF TypeOK, PassState
<1>2. QED
  BY <1>1, IdlePass DEF Finish, TypeOK

\* A scan's inventory changes the packages table and its own position.
LEMMA InventoryStep ==
    ASSUME TypeOK, NEW w \in Passes, TakeInventory(w)
    PROVE  /\ UNCHANGED <<clock, machine, findings, told, box, hand, edits, ran>>
           /\ present' \subseteq Packages /\ gone' \subseteq Packages \ present'
           /\ pass' \in [Passes -> PassState] /\ pass'[w].now = pass[w].now
           /\ \A v \in Passes \ {w} : pass'[v] = pass[v]
           /\ pass[w].pc \in {"collect", "upsert", "supersede", "reconcile"}
<1>1. pass[w] \in PassState /\ pass \in [Passes -> PassState]
  BY DEF TypeOK
<1>2. CASE Collect(w)
  <2>1. PICK passed \in SUBSET (onDisk \cup replaced) :
           pass' = [pass EXCEPT ![w] = [pass[w] EXCEPT !.pc = "upsert", !.seen = onDisk \ passed,
                                            !.others = replaced \ passed, !.thorough = (passed = {})]]
    BY <1>2 DEF Collect
  <2> DEFINE s == onDisk \ passed
             o == replaced \ passed
             t == passed = {}
  <2>2. s \in SUBSET Packages /\ o \in SUBSET Packages /\ t \in BOOLEAN
    BY DEF TypeOK
  <2>3. pass' = [pass EXCEPT ![w] = [pass[w] EXCEPT !.pc = "upsert", !.seen = s, !.others = o, !.thorough = t]]
    BY <2>1
  <2> HIDE DEF s, o, t
  <2>4. LET r == [pass[w] EXCEPT !.pc = "upsert", !.seen = s, !.others = o, !.thorough = t]
        IN  r \in PassState /\ r.now = pass[w].now
    BY <1>1, <2>2 DEF PassState
  <2>5. /\ pass' \in [Passes -> PassState] /\ pass'[w].now = pass[w].now
        /\ \A v \in Passes \ {w} : pass'[v] = pass[v]
    BY <1>1, <2>3, <2>4
  <2>6. QED
    BY <1>2, <2>5 DEF Collect, inventory, TypeOK
<1>3. CASE UpsertPackages(w)
  <2>1. /\ pass' \in [Passes -> PassState] /\ pass'[w].now = pass[w].now
        /\ \A v \in Passes \ {w} : pass'[v] = pass[v]
    BY <1>1, <1>3, GotoType DEF UpsertPackages, Goto, PassState
  <2>2. pass[w].seen \subseteq Packages
    BY <1>1 DEF PassState
  <2>3. QED
    BY <1>3, <2>1, <2>2 DEF UpsertPackages, TypeOK
<1>4. CASE MarkSuperseded(w)
  <2>1. PICK kept \in SUBSET (pass[w].others \cap present) :
           /\ Retire(pass[w].others \ kept)
           /\ pass' = [pass EXCEPT ![w] = [pass[w] EXCEPT !.pc = "reconcile",
                                                          !.thorough = pass[w].thorough /\ kept = {}]]
    BY <1>4 DEF MarkSuperseded
  <2> DEFINE t == pass[w].thorough /\ kept = {}
  <2>2. t \in BOOLEAN
    BY <1>1 DEF PassState
  <2>3. pass' = [pass EXCEPT ![w] = [pass[w] EXCEPT !.pc = "reconcile", !.thorough = t]]
    BY <2>1
  <2> HIDE DEF t
  <2>4. LET r == [pass[w] EXCEPT !.pc = "reconcile", !.thorough = t]
        IN  r \in PassState /\ r.now = pass[w].now
    BY <1>1, <2>2 DEF PassState
  <2>5. /\ pass' \in [Passes -> PassState] /\ pass'[w].now = pass[w].now
        /\ \A v \in Passes \ {w} : pass'[v] = pass[v]
    BY <1>1, <2>3, <2>4
  <2>6. present' \subseteq Packages /\ gone' \subseteq Packages \ present'
    BY <2>1 DEF Retire, TypeOK
  <2>7. QED
    BY <1>4, <2>5, <2>6 DEF MarkSuperseded
<1>5. CASE Reconcile(w)
  <2>1. /\ pass' \in [Passes -> PassState] /\ pass'[w].now = pass[w].now
        /\ \A v \in Passes \ {w} : pass'[v] = pass[v]
    BY <1>1, <1>5, GotoType DEF Reconcile, Goto, PassState
  <2>2. QED
    BY <1>5, <2>1 DEF Reconcile, RetireMissing, Retire, TypeOK
<1>6. QED
  BY <1>2, <1>3, <1>4, <1>5 DEF TakeInventory

LEMMA PassType == ASSUME TypeOK, NEW w \in Passes, PassStep(w) PROVE TypeOK'
<1>0. pass[w] \in PassState
  BY DEF TypeOK
<1>1. CASE Start(w)
  <2> DEFINE first == IF w \in Scanners THEN "collect" ELSE "packages"
  <2>1. [Idle EXCEPT !.pc = first, !.now = clock] \in PassState
    <3>1. first \in {"idle", "collect", "packages"} /\ clock \in 0..MaxClock
      BY ClockAssumption DEF TypeOK
    <3> HIDE DEF first
    <3>2. QED
      BY <3>1, IdlePass
  <2>2. QED
    BY <1>1, <2>1 DEF Start, TypeOK, machine, inventory, findings
<1>2. CASE TakeInventory(w)
  BY <1>2, InventoryStep DEF TypeOK, machine, findings
<1>3. CASE PresentPackages(w)
  <2>1. [pass[w] EXCEPT !.pc = "evaluate", !.seen = present, !.others = {}] \in PassState
    BY <1>0 DEF TypeOK, PassState
  <2>2. QED
    BY <1>3, <2>1 DEF PresentPackages, TypeOK, machine, inventory, findings
<1>4. CASE Evaluate(w)
  <2> DEFINE baseline == InState(States) = {}
             found == pass[w].seen \cap advised
             news == {p \in found : IsNews(baseline, p)}
  <2>1. /\ baseline \in BOOLEAN /\ found \in SUBSET Packages
        /\ found \cap hot \in SUBSET Packages /\ news \in SUBSET Packages
    BY <1>0 DEF TypeOK, PassState
  <2>2. \A b \in BOOLEAN, f, l, n \in SUBSET Packages :
           [pass[w] EXCEPT !.pc = "record", !.seen = {}, !.baseline = b, !.found = f, !.loud = l, !.news = n]
              \in PassState
    BY <1>0 DEF PassState
  <2>3. [pass[w] EXCEPT !.pc = "record", !.seen = {}, !.baseline = baseline, !.found = found,
                        !.loud = found \cap hot, !.news = news] \in PassState
    BY <2>1, <2>2
  <2>4. pass' \in [Passes -> PassState]
    BY <1>4, <2>3 DEF Evaluate, TypeOK
  <2>5. QED
    BY <1>4, <2>4 DEF Evaluate, TypeOK, machine, inventory, findings
<1>5. CASE Record(w)
  <2>1. pass' \in [Passes -> PassState]
    BY <1>5, GotoType DEF Record
  <2>2. /\ row' \in [Packages -> States \cup {"none"}] /\ scored' \subseteq Packages
        /\ detected' \in [Packages -> 0..MaxClock] /\ until' = until
    BY <1>0, <1>5 DEF Record, RecordFindings, TypeOK, PassState, InState, States
  <2>3. \A p \in Packages : row'[p] = "ignored" <=> until'[p] # 0
    BY <1>5 DEF Record, RecordFindings, TypeOK, InState
  <2>4. QED
    BY <1>5, <2>1, <2>2, <2>3 DEF Record, TypeOK, machine, inventory
<1>6. CASE Announce(w)
  <2>1. pass' \in [Passes -> PassState]
    BY <1>6, GotoType DEF Announce
  <2>2. told' \in [Packages -> 0..2]
    BY <1>6 DEF Announce, TypeOK
  <2>3. QED
    BY <1>6, <2>1, <2>2 DEF Announce, TypeOK, machine, inventory, findings
<1>7. CASE Rescore(w)
  <2>1. pass' \in [Passes -> PassState]
    BY <1>7, GotoType DEF Rescore
  <2>2. scored' \subseteq Packages
    BY <1>0, <1>7 DEF Rescore, RescoreFindings, TypeOK, PassState
  <2>3. QED
    BY <1>7, <2>1, <2>2 DEF Rescore, RescoreFindings, TypeOK, machine, inventory
<1>8. CASE Resolve(w)
  <2>1. pass' \in [Passes -> PassState]
    BY <1>8, GotoType DEF Resolve
  <2> DEFINE P == gone \cap InState(States \ {"ignored", "fixed"})
  <2>2. P \cap InState({"ignored"}) = {}
    BY DEF InState
  <2>3. row' = Moved(P, "fixed")
    BY <1>8 DEF Resolve, ResolveFindingsForGonePackages
  <2>4. row' \in [Packages -> States \cup {"none"}]
    BY <2>3, RowTypes DEF States
  <2>5. \A p \in Packages : row'[p] = "ignored" <=> until[p] # 0
    BY <2>2, <2>3, MovedDates DEF States
  <2>6. QED
    BY <1>8, <2>1, <2>4, <2>5
       DEF Resolve, ResolveFindingsForGonePackages, TypeOK, machine, inventory
<1>9. CASE Reopen(w)
  <2>1. pass' \in [Passes -> PassState]
    BY <1>9, GotoType DEF Reopen
  <2> DEFINE P == present \cap InState({"fixed", "quarantined"})
  <2>2. P \cap InState({"ignored"}) = {}
    BY DEF InState
  <2>3. row' = AtItsWeight(P)
    BY <1>9 DEF Reopen, ReopenFindingsForPresentPackages
  <2>4. row' \in [Packages -> States \cup {"none"}]
    BY <2>3, RowTypes
  <2>5. \A p \in Packages : row'[p] = "ignored" <=> until[p] # 0
    BY <2>2, <2>3, WeightDates
  <2>6. QED
    BY <1>9, <2>1, <2>4, <2>5
       DEF Reopen, ReopenFindingsForPresentPackages, TypeOK, machine, inventory
<1>10. CASE Expire(w)
  <2>1. pass' \in [Passes -> PassState]
    BY <1>10, FinishType DEF Expire
  <2>2. row' \in [Packages -> States \cup {"none"}]
    BY <1>10, RowTypes DEF Expire, ExpireIgnores
  <2>3. until' \in [Packages -> 0..MaxClock]
    BY <1>10, ClockAssumption DEF Expire, ExpireIgnores, TypeOK
  <2>4. \A p \in Packages : row'[p] = "ignored" <=> until'[p] # 0
    BY <1>10 DEF Expire, ExpireIgnores, AtItsWeight, InState, TypeOK
  <2>5. QED
    BY <1>10, <2>1, <2>2, <2>3, <2>4 DEF Expire, ExpireIgnores, TypeOK, machine, inventory
<1>11. QED
  BY <1>1, <1>2, <1>3, <1>4, <1>5, <1>6, <1>7, <1>8, <1>9, <1>10 DEF PassStep, WatchStep

\* People, package managers and bundles.
LEMMA OutsideType == TypeOK /\ Outside => TypeOK'
<1>1. SUFFICES ASSUME TypeOK, Outside PROVE TypeOK'
  OBVIOUS
<1>2. ASSUME Edit PROVE edits' \in 0..MaxEdits
  BY <1>1, <1>2, ClockAssumption DEF Edit, TypeOK
<1>3. ASSUME NEW w \in Passes, Abandon(w) PROVE TypeOK'
  <2>1. pass' \in [Passes -> PassState]
    BY <1>1, <1>3, FinishType DEF Abandon
  <2>2. QED
    BY <1>1, <1>2, <1>3, <2>1 DEF Abandon, TypeOK, machine, inventory, findings
<1>4. ASSUME NEW p \in Packages, AcknowledgeFinding(p) PROVE TypeOK'
  <2>1. row' = Moved({p}, "acknowledged") /\ {p} \cap InState({"ignored"}) = {} /\ until' = until
    BY <1>4 DEF AcknowledgeFinding, InState
  <2>2. /\ row' \in [Packages -> States \cup {"none"}]
        /\ \A q \in Packages : row'[q] = "ignored" <=> until[q] # 0
    BY <1>1, <2>1, RowTypes, MovedDates DEF States
  <2>3. QED
    BY <1>1, <1>2, <1>4, <2>1, <2>2 DEF AcknowledgeFinding, TypeOK, machine, inventory
<1>5. ASSUME NEW p \in Packages, IgnoreFinding(p) PROVE TypeOK'
  <2>1. PICK end \in clock + 1 .. MaxClock : until' = [until EXCEPT ![p] = end]
    BY <1>5 DEF IgnoreFinding
  <2>2. end \in 1..MaxClock
    BY <1>1, ClockAssumption DEF TypeOK
  <2>3. row' = Moved({p}, "ignored") /\ row' \in [Packages -> States \cup {"none"}]
    BY <1>1, <1>5, RowTypes DEF IgnoreFinding, States
  <2>4. /\ until' \in [Packages -> 0..MaxClock]
        /\ \A q \in Packages : row'[q] = "ignored" <=> until'[q] # 0
    BY <1>1, <2>1, <2>2, <2>3 DEF TypeOK, Moved
  <2>5. QED
    BY <1>1, <1>2, <1>5, <2>3, <2>4 DEF IgnoreFinding, TypeOK, machine, inventory
<1>6. ASSUME NEW p \in Packages, InstallOrRemove(p) PROVE TypeOK'
  <2>1. onDisk' \subseteq Packages
    BY <1>1, <1>6 DEF InstallOrRemove, TypeOK
  <2>2. QED
    BY <1>1, <1>2, <1>6, <2>1 DEF InstallOrRemove, TypeOK, inventory, findings
<1>7. CASE BundleOrContext
  BY <1>1, <1>2, <1>7 DEF BundleOrContext, TypeOK, inventory, findings
<1>8. ASSUME NEW p \in Packages, Quarantine(p) PROVE TypeOK'
  <2>1. hand' \in [do : {"nothing", "remove", "mark", "unpacked", "reopen"}, pkg : SUBSET Packages]
    BY <1>8 DEF Quarantine, Handling
  <2>2. QED
    BY <1>1, <1>2, <1>8, <2>1 DEF Quarantine, TypeOK, machine, inventory, findings
<1>9. ASSUME NEW p \in Packages, Restore(p) PROVE TypeOK'
  <2>1. hand' \in [do : {"nothing", "remove", "mark", "unpacked", "reopen"}, pkg : SUBSET Packages]
    BY <1>1, <1>9 DEF Restore, Handling, TypeOK
  <2>2. onDisk' \subseteq Packages
    BY <1>1, <1>9 DEF Restore, TypeOK
  <2>3. box' \in [Packages -> {"none", "active", "restored", "failed", "missing"}]
    BY <1>1, <1>9 DEF Restore, TypeOK
  <2>4. QED
    BY <1>1, <1>2, <1>9, <2>1, <2>2, <2>3 DEF Restore, TypeOK, inventory, findings
<1>10. CASE HandKilled
  <2>1. NoHand \in [do : {"nothing", "remove", "mark", "unpacked", "reopen"}, pkg : SUBSET Packages]
    BY DEF NoHand
  <2>2. QED
    BY <1>1, <1>2, <1>10, <2>1 DEF HandKilled, TypeOK, machine, inventory, findings
<1>11. QED
  BY <1>1, <1>3, <1>4, <1>5, <1>6, <1>7, <1>8, <1>9, <1>10 DEF Outside

\* Quarantine and restore.
LEMMA HandType == TypeOK /\ HandStep => TypeOK'
<1>1. SUFFICES ASSUME TypeOK, HandStep PROVE TypeOK'
  OBVIOUS
<1> DEFINE Hands == [do : {"nothing", "remove", "mark", "unpacked", "reopen"}, pkg : SUBSET Packages]
<1>2. NoHand \in Hands /\ \A p \in Packages, do \in {"mark", "reopen"} : [do |-> do, pkg |-> {p}] \in Hands
  BY DEF NoHand
<1>3. \A do : Held(do) \subseteq Packages
  BY DEF Held
<1>4. CASE RemoveAll
  <2>1. hand' \in Hands /\ onDisk' \subseteq Packages
    BY <1>1, <1>2, <1>3, <1>4 DEF RemoveAll, Handling, TypeOK
  <2>2. QED
    BY <1>1, <1>4, <2>1 DEF RemoveAll, TypeOK, inventory, findings
<1>5. CASE MarkFindingsQuarantined
  <2>1. PICK p \in Held("mark") :
              row' = Moved({p} \cap InState(States \ {"ignored", "fixed"}), "quarantined")
    BY <1>5 DEF MarkFindingsQuarantined
  <2> DEFINE P == {p} \cap InState(States \ {"ignored", "fixed"})
  <2>2. P \cap InState({"ignored"}) = {}
    BY DEF InState
  <2>3. /\ row' \in [Packages -> States \cup {"none"}]
        /\ \A q \in Packages : row'[q] = "ignored" <=> until[q] # 0
    BY <1>1, <2>1, <2>2, RowTypes, MovedDates DEF States
  <2>4. hand' \in Hands
    BY <1>2, <1>5 DEF MarkFindingsQuarantined
  <2>5. QED
    BY <1>1, <1>5, <2>3, <2>4 DEF MarkFindingsQuarantined, TypeOK, machine, inventory
<1>6. CASE MarkRestored
  <2>1. hand' \in Hands /\ box' \in [Packages -> {"none", "active", "restored", "failed", "missing"}]
    BY <1>1, <1>2, <1>3, <1>6 DEF MarkRestored, Handling, TypeOK
  <2>2. QED
    BY <1>1, <1>6, <2>1 DEF MarkRestored, TypeOK, machine, inventory, findings
<1>7. CASE ReopenFindingsForRestored
  <2>1. PICK p \in Held("reopen") : row' = AtItsWeight({p} \cap InState({"quarantined"}))
    BY <1>7 DEF ReopenFindingsForRestored
  <2> DEFINE P == {p} \cap InState({"quarantined"})
  <2>2. P \cap InState({"ignored"}) = {}
    BY DEF InState
  <2>3. /\ row' \in [Packages -> States \cup {"none"}]
        /\ \A q \in Packages : row'[q] = "ignored" <=> until[q] # 0
    BY <1>1, <2>1, <2>2, RowTypes, WeightDates
  <2>4. hand' \in Hands
    BY <1>2, <1>7 DEF ReopenFindingsForRestored
  <2>5. QED
    BY <1>1, <1>7, <2>3, <2>4 DEF ReopenFindingsForRestored, TypeOK, machine, inventory
<1>8. QED
  BY <1>1, <1>4, <1>5, <1>6, <1>7 DEF HandStep

LEMMA FindingsNextType == TypeOK /\ [Next]_vars => TypeOK'
<1>1. SUFFICES ASSUME TypeOK, [Next]_vars PROVE TypeOK'
  OBVIOUS
<1>2. CASE Tick
  BY <1>1, <1>2, ClockAssumption DEF Tick, TypeOK, machine, inventory, findings
<1>3. CASE UNCHANGED vars
  BY <1>1, <1>3 DEF vars, TypeOK, machine, inventory, findings
<1>4. QED
  BY <1>1, <1>2, <1>3, PassType, OutsideType, HandType DEF Next

\* Every state of a finding is one the schema names, and a finding has a date
\* on which it comes back exactly while it is ignored.
THEOREM FindingsTypeOK == Spec => []TypeOK
<1>1. QED
  BY FindingsInitType, FindingsNextType, PTL DEF Spec

------------------------------------------------------------------------------
(* What a pass does to its position and its second. *)

LEMMA GotoPass ==
    ASSUME TypeOK, NEW w \in Passes, NEW next, Goto(w, next)
    PROVE  /\ \A v \in Passes : pass'[v].now = pass[v].now
           /\ pass'[w].pc = next
           /\ \A v \in Passes \ {w} : pass'[v] = pass[v]
<1>1. pass[w] \in PassState
  BY DEF TypeOK
<1>2. pass' = [pass EXCEPT ![w] = [pass[w] EXCEPT !.pc = next]]
  BY DEF Goto
<1>3. pass'[w] = [pass[w] EXCEPT !.pc = next] /\ \A v \in Passes \ {w} : pass'[v] = pass[v]
  BY <1>2 DEF TypeOK
<1>4. QED
  BY <1>1, <1>3 DEF PassState

LEMMA FinishPass ==
    ASSUME TypeOK, NEW w \in Passes, Finish(w)
    PROVE  /\ \A v \in Passes : pass'[v].now = pass[v].now
           /\ pass'[w].pc = "idle"
           /\ \A v \in Passes \ {w} : pass'[v] = pass[v]
<1>1. pass'[w] = [Idle EXCEPT !.now = pass[w].now] /\ \A v \in Passes \ {w} : pass'[v] = pass[v]
  BY DEF TypeOK, Finish
<1>2. QED
  BY <1>1 DEF Idle

\* The seconds of the passes change only as one starts.
LEMMA StepPass ==
    ASSUME TypeOK, NEW w \in Passes, PassStep(w), ~Start(w)
    PROVE  /\ \A v \in Passes : pass'[v].now = pass[v].now
           /\ \A v \in Passes \ {w} : pass'[v] = pass[v]
           /\ pass[w].pc # "idle"
<1>1. pass[w] \in PassState
  BY DEF TypeOK
<1>2. CASE PresentPackages(w)
  <2>1. pass'[w] = [pass[w] EXCEPT !.pc = "evaluate", !.seen = present, !.others = {}]
        /\ \A v \in Passes \ {w} : pass'[v] = pass[v]
    BY <1>2 DEF PresentPackages, TypeOK
  <2>2. pass'[w].now = pass[w].now
    BY <1>1, <2>1 DEF PassState
  <2>3. QED
    BY <1>2, <2>1, <2>2 DEF PresentPackages
<1>3. CASE Evaluate(w)
  <2>1. PICK b, f, l, n :
           pass' = [pass EXCEPT ![w] = [pass[w] EXCEPT !.pc = "record", !.seen = {}, !.baseline = b, !.found = f,
                                                       !.loud = l, !.news = n]]
    BY <1>3 DEF Evaluate
  <2>2. pass'[w].now = pass[w].now
    BY <1>1, <2>1 DEF PassState, TypeOK
  <2>3. \A v \in Passes \ {w} : pass'[v] = pass[v]
    BY <2>1 DEF TypeOK
  <2>4. QED
    BY <1>3, <2>2, <2>3 DEF Evaluate
<1>7. CASE TakeInventory(w)
  BY <1>7, InventoryStep
<1>4. CASE Record(w) \/ Announce(w) \/ Rescore(w) \/ Resolve(w) \/ Reopen(w)
  <2>1. pass[w].pc # "idle" /\ \E next : Goto(w, next)
    BY <1>4 DEF Record, Announce, Rescore, Resolve, Reopen
  <2>2. QED
    BY <2>1, GotoPass
<1>5. CASE Expire(w)
  BY <1>5, FinishPass DEF Expire
<1>6. QED
  BY <1>2, <1>3, <1>4, <1>5, <1>7 DEF PassStep, WatchStep

------------------------------------------------------------------------------
(* What a person decided stands. *)

\* No pass is ahead of the clock.
Past == \A w \in Passes : pass[w].now <= clock

LEMMA PastNext == TypeOK /\ Past /\ [Next]_vars => Past'
<1>1. SUFFICES ASSUME TypeOK, Past, [Next]_vars PROVE Past'
  OBVIOUS
<1>a. clock \in Int /\ \A w \in Passes : pass[w].now \in Int
  BY <1>1 DEF TypeOK, PassState
<1>2. ASSUME NEW w \in Passes, Start(w) PROVE Past'
  <2>1. pass'[w].now = clock /\ clock' = clock /\ \A v \in Passes \ {w} : pass'[v] = pass[v]
    BY <1>1, <1>2 DEF Start, Idle, TypeOK
  <2>2. QED
    BY <1>1, <1>a, <2>1 DEF Past
<1>3. ASSUME NEW w \in Passes, PassStep(w), ~Start(w) PROVE Past'
  <2>1. clock' = clock
    BY <1>1, <1>3, InventoryStep DEF PassStep, WatchStep, PresentPackages, Evaluate, Record, Announce,
                Rescore, Resolve, Reopen, Expire
  <2>2. QED
    BY <1>1, <1>3, <2>1, StepPass DEF Past
<1>4. ASSUME NEW w \in Passes, Abandon(w) PROVE Past'
  BY <1>1, <1>4, FinishPass DEF Abandon, Past
<1>5. CASE HandStep \/ UNCHANGED vars
  <2>1. pass' = pass /\ clock' = clock
    BY <1>5 DEF HandStep, RemoveAll, MarkFindingsQuarantined, MarkRestored, ReopenFindingsForRestored,
                vars
  <2>2. QED
    BY <1>1, <2>1 DEF Past
<1>6. ASSUME Outside, \A w \in Passes : ~Abandon(w) PROVE Past'
  <2>1. pass' = pass /\ clock' = clock
    BY <1>6 DEF Outside, AcknowledgeFinding, IgnoreFinding, InstallOrRemove, Quarantine, Restore,
                BundleOrContext, HandKilled
  <2>2. QED
    BY <1>1, <2>1 DEF Past
<1>7. CASE Tick
  <2>1. pass' = pass /\ clock' = clock + 1
    BY <1>7 DEF Tick
  <2>2. QED
    BY <1>1, <1>a, <2>1 DEF Past
<1>8. QED
  BY <1>1, <1>2, <1>3, <1>4, <1>5, <1>6, <1>7 DEF Next

\* No statement of a pass touches what was decided, but the one that ends an
\* ignore whose date has come.
LEMMA PassTriages ==
    ASSUME TypeOK, Past, NEW w \in Passes, PassStep(w), NEW p \in Packages
    PROVE  Triaged(p)
<1>a. clock \in Int /\ until[p] \in Int /\ pass[w].now \in Int /\ pass[w].now <= clock
  BY DEF TypeOK, PassState, Past
<1>1. CASE row' = row
  BY <1>1 DEF Triaged
<1>2. CASE Record(w)
  BY <1>2 DEF Record, RecordFindings, Triaged, InState
<1>3. CASE Resolve(w)
  BY <1>3 DEF Resolve, ResolveFindingsForGonePackages, Triaged, Moved, InState
<1>4. CASE Reopen(w)
  BY <1>4 DEF Reopen, ReopenFindingsForPresentPackages, Triaged, AtItsWeight, InState
<1>5. CASE Expire(w)
  BY <1>a, <1>5 DEF Expire, ExpireIgnores, Triaged, AtItsWeight, InState
<1>6. QED
  BY <1>1, <1>2, <1>3, <1>4, <1>5, InventoryStep
     DEF PassStep, WatchStep, Start, PresentPackages, Evaluate, Announce, Rescore,
         RescoreFindings, findings

\* A person changes the finding named, and quarantine what is not ignored.
LEMMA OthersTriage ==
    ASSUME TypeOK, Past, HandStep \/ Outside \/ Tick \/ UNCHANGED vars, NEW p \in Packages
    PROVE  Triaged(p)
<1>1. CASE row' = row
  BY <1>1 DEF Triaged
<1>2. CASE MarkFindingsQuarantined
  BY <1>2 DEF MarkFindingsQuarantined, Triaged, Moved, InState
<1>3. CASE ReopenFindingsForRestored
  BY <1>3 DEF ReopenFindingsForRestored, Triaged, AtItsWeight, InState
<1>4. ASSUME NEW q \in Packages, AcknowledgeFinding(q) PROVE Triaged(p)
  BY <1>4 DEF AcknowledgeFinding, Triaged, Moved
<1>5. ASSUME NEW q \in Packages, IgnoreFinding(q) PROVE Triaged(p)
  BY <1>5 DEF IgnoreFinding, Triaged, Moved
<1>6. QED
  BY <1>1, <1>2, <1>3, <1>4, <1>5
     DEF HandStep, Outside, Tick, vars, findings, RemoveAll, MarkRestored, Abandon, InstallOrRemove,
         BundleOrContext, Quarantine, Restore, HandKilled

\* An ignored finding stays ignored until its date whatever happens to its
\* package, and an acknowledged one is never made news by a pass.
THEOREM TriageStands == Spec => TriageHonoured
<1>1. Init => Past
  BY DEF Init, Past, Idle
<1>2. TypeOK /\ Past /\ [Next]_vars => [\A p \in Packages : Triaged(p)]_vars
  BY PassTriages, OthersTriage DEF Next
<1>3. QED
  BY <1>1, <1>2, PastNext, FindingsTypeOK, PTL DEF Spec, TriageHonoured

------------------------------------------------------------------------------
(* A finding is told of once, as long as no two passes start in one second. *)

Early(w) == pass[w].pc \in {"collect", "upsert", "supersede", "reconcile", "packages", "evaluate", "record", "announce"}

\* No two passes have a second in common.
Apart ==
    \A v, w \in Passes : v # w /\ pass[v].now = pass[w].now => pass[v].now = 0
Started == \A w \in Passes : pass[w].pc # "idle" => pass[w].now # 0
\* A finding was recorded in the second of a pass, and what was recorded in
\* this one was recorded by a pass that has not started again.
Dated ==
    \A p \in Packages : /\ detected[p] <= clock
                        /\ detected[p] = clock => \E w \in Passes : pass[w].now = clock
Unrecorded == \A p \in Packages : row[p] = "none" => told[p] = 0 /\ detected[p] = 0
\* Whoever has told of it is past telling.
Spoken ==
    \A p \in Packages : /\ told[p] <= 1
                        /\ \A w \in Passes : told[p] = 1 /\ pass[w].now = detected[p] => ~Early(w)

OnceInv == Past /\ Apart /\ Started /\ Dated /\ Unrecorded /\ Spoken

LEMMA OnceInit == Init => OnceInv
<1>1. SUFFICES ASSUME Init PROVE OnceInv
  OBVIOUS
<1>2. \A w \in Passes : pass[w].now = 0 /\ pass[w].pc = "idle"
  BY <1>1 DEF Init, Idle
<1>3. QED
  BY <1>1, <1>2 DEF Init, OnceInv, Past, Apart, Started, Dated, Unrecorded, Spoken, Early

\* A step that records nothing and tells nothing.
LEMMA OnceQuiet ==
    ASSUME TypeOK, OnceInv, UNCHANGED <<clock, told, detected>>,
           \A w \in Passes : /\ pass'[w].now = pass[w].now
                             /\ pass'[w].pc # "idle" => pass[w].pc # "idle"
                             /\ Early(w)' => Early(w),
           \A p \in Packages : row'[p] = "none" => row[p] = "none"
    PROVE  OnceInv'
<1>1. Past' /\ Apart' /\ Started' /\ Dated'
  BY DEF OnceInv, Past, Apart, Started, Dated
<1>2. Unrecorded' /\ Spoken'
  BY DEF OnceInv, Unrecorded, Spoken
<1>3. QED
  BY <1>1, <1>2 DEF OnceInv

\* Findings only change states; a row never goes away.
LEMMA RowStays ==
    ASSUME TypeOK
    PROVE  /\ \A P, s : s # "none" => \A p \in Packages : Moved(P, s)[p] = "none" => row[p] = "none"
           /\ \A P : \A p \in Packages : AtItsWeight(P)[p] = "none" => row[p] = "none"
  BY DEF Moved, AtItsWeight

LEMMA OnceStart ==
    ASSUME TypeOK, OnceInv, ~SameSecond, NEW w \in Passes, Start(w) PROVE OnceInv'
<1>a. /\ clock \in 1..MaxClock /\ \A v \in Passes : pass[v].now \in Int
      /\ \A p \in Packages : detected[p] \in Int
  BY ClockAssumption DEF TypeOK, PassState
<1>1. /\ pass'[w].now = clock /\ pass'[w].pc # "idle"
      /\ \A v \in Passes \ {w} : pass'[v] = pass[v]
      /\ UNCHANGED <<clock, row, told, detected>>
  BY DEF Start, Idle, TypeOK, findings
<1>2. \A v \in Passes : pass[v].now # clock
  BY DEF Start
<1>3. Past' /\ Apart' /\ Started'
  BY <1>a, <1>1, <1>2 DEF OnceInv, Past, Apart, Started
<1>4. \A p \in Packages : detected[p] # clock
  BY <1>2 DEF OnceInv, Dated
<1>5. Dated' /\ Unrecorded'
  BY <1>1, <1>4 DEF OnceInv, Dated, Unrecorded
<1>6. Spoken'
  BY <1>1, <1>4 DEF OnceInv, Spoken, Early
<1>7. QED
  BY <1>3, <1>5, <1>6 DEF OnceInv

LEMMA OnceRecord ==
    ASSUME TypeOK, OnceInv, NEW w \in Passes, Record(w) PROVE OnceInv'
<1>1. /\ \A v \in Passes : pass'[v].now = pass[v].now
      /\ pass'[w].pc = "announce" /\ pass[w].pc = "record"
      /\ \A v \in Passes \ {w} : pass'[v] = pass[v]
      /\ UNCHANGED <<clock, told>>
  BY GotoPass DEF Record
<1>2. Past' /\ Apart' /\ Started'
  BY <1>1 DEF OnceInv, Past, Apart, Started
<1> DEFINE fresh == pass[w].found \cap InState({"none"})
<1>3. \A p \in Packages : /\ detected'[p] = IF p \in fresh THEN pass[w].now ELSE detected[p]
                          /\ row'[p] = "none" => row[p] = "none" /\ p \notin fresh
                          /\ p \in fresh => row[p] = "none"
  BY DEF Record, RecordFindings, InState
<1> HIDE DEF fresh
<1>4. Dated'
  BY <1>1, <1>3 DEF OnceInv, Dated, Past
<1>5. Unrecorded'
  BY <1>1, <1>3 DEF OnceInv, Unrecorded
<1>6. \A v \in Passes : Early(v)' <=> Early(v)
  BY <1>1 DEF Early
<1>7. Spoken'
  BY <1>1, <1>3, <1>6 DEF OnceInv, Spoken, Unrecorded
<1>8. QED
  BY <1>2, <1>4, <1>5, <1>7 DEF OnceInv

LEMMA OnceAnnounce ==
    ASSUME TypeOK, OnceInv, NEW w \in Passes, Announce(w) PROVE OnceInv'
<1>1. /\ \A v \in Passes : pass'[v].now = pass[v].now
      /\ pass'[w].pc = "rescore" /\ pass[w].pc = "announce"
      /\ \A v \in Passes \ {w} : pass'[v] = pass[v]
      /\ UNCHANGED <<clock, row, detected>>
  BY GotoPass DEF Announce, findings
<1>2. Past' /\ Apart' /\ Started' /\ Dated'
  BY <1>1 DEF OnceInv, Past, Apart, Started, Dated
<1>3. pass[w].now # 0 /\ Early(w) /\ ~Early(w)'
  BY <1>1 DEF OnceInv, Started, Early
<1>4. \A p \in Packages : \/ told'[p] = told[p]
                          \/ told'[p] = told[p] + 1 /\ detected[p] = pass[w].now
  BY DEF Announce, TypeOK
<1>5. \A p \in Packages : told[p] \in 0..2 /\ told[p] <= 1
  BY DEF OnceInv, Spoken, TypeOK
<1>6. \A p \in Packages : told'[p] # told[p] => told[p] = 0 /\ told'[p] = 1 /\ row[p] # "none"
  BY <1>3, <1>4, <1>5 DEF OnceInv, Spoken, Unrecorded
<1>7. Unrecorded'
  BY <1>1, <1>6 DEF OnceInv, Unrecorded
<1>8. \A v \in Passes : v # w => pass[v].now # pass[w].now
  BY <1>3 DEF OnceInv, Apart
<1>9. \A v \in Passes : Early(v)' => Early(v)
  BY <1>1, <1>3 DEF Early
<1>10. Spoken'
  <2>1. \A p \in Packages : told'[p] <= 1
    BY <1>5, <1>6
  <2>2. SUFFICES ASSUME NEW p \in Packages, NEW v \in Passes, told'[p] = 1, pass'[v].now = detected'[p]
                 PROVE  ~Early(v)'
    BY <2>1 DEF Spoken
  <2>3. CASE told'[p] = told[p]
    BY <1>1, <1>9, <2>2, <2>3 DEF OnceInv, Spoken
  <2>4. CASE told'[p] # told[p]
    <3>1. detected[p] = pass[w].now
      BY <1>4, <2>4
    <3>2. v = w
      BY <1>1, <1>8, <2>2, <3>1
    <3>3. QED
      BY <1>3, <3>2
  <2>5. QED
    BY <2>3, <2>4
<1>11. QED
  BY <1>2, <1>7, <1>10 DEF OnceInv

\* The rest of a pass, which neither records nor tells.
LEMMA OnceRest ==
    ASSUME TypeOK, OnceInv, NEW w \in Passes, PassStep(w), ~Start(w), ~Record(w), ~Announce(w)
    PROVE  OnceInv'
<1>1. /\ \A v \in Passes : pass'[v].now = pass[v].now
      /\ \A v \in Passes \ {w} : pass'[v] = pass[v]
      /\ pass[w].pc # "idle"
  BY StepPass
<1>2. UNCHANGED <<clock, told, detected>>
  BY InventoryStep DEF PassStep, WatchStep, PresentPackages, Evaluate, Rescore, RescoreFindings,
         Resolve, ResolveFindingsForGonePackages, Reopen, ReopenFindingsForPresentPackages, Expire,
         ExpireIgnores, findings
<1>3. \A p \in Packages : row'[p] = "none" => row[p] = "none"
  <2>1. row' = row \/ (\E P : row' = Moved(P, "fixed")) \/ (\E P : row' = AtItsWeight(P))
    BY InventoryStep DEF PassStep, WatchStep, PresentPackages, Evaluate, Rescore, RescoreFindings,
           Resolve, ResolveFindingsForGonePackages, Reopen, ReopenFindingsForPresentPackages, Expire,
           ExpireIgnores, findings
  <2>2. QED
    BY <2>1, RowStays
<1>4. Early(w)' => Early(w)
  <2>5. CASE TakeInventory(w)
    BY <2>5, InventoryStep DEF Early
  <2>1. CASE PresentPackages(w) \/ Evaluate(w)
    BY <2>1 DEF PresentPackages, Evaluate, Early
  <2>2. CASE Rescore(w) \/ Resolve(w) \/ Reopen(w)
    <3>1. PICK next \in {"resolve", "reopen", "expire"} : Goto(w, next)
      BY <2>2 DEF Rescore, Resolve, Reopen
    <3>2. QED
      BY <3>1, GotoPass DEF Early
  <2>3. CASE Expire(w)
    BY <2>3, FinishPass DEF Expire, Early
  <2>4. QED
    BY <2>1, <2>2, <2>3, <2>5 DEF PassStep, WatchStep
<1>5. \A v \in Passes : /\ pass'[v].now = pass[v].now
                        /\ pass'[v].pc # "idle" => pass[v].pc # "idle"
                        /\ Early(v)' => Early(v)
  BY <1>1, <1>4 DEF Early
<1>6. QED
  BY <1>2, <1>3, <1>5, OnceQuiet DEF Early

\* People, quarantine and bundles tell nothing either.
LEMMA OnceOthers ==
    ASSUME TypeOK, OnceInv, HandStep \/ Outside \/ UNCHANGED vars PROVE OnceInv'
<1>1. UNCHANGED <<clock, told, detected>>
  BY DEF HandStep, RemoveAll, MarkFindingsQuarantined, MarkRestored, ReopenFindingsForRestored, Outside,
         Abandon, AcknowledgeFinding, IgnoreFinding, InstallOrRemove, BundleOrContext, Quarantine,
         Restore, HandKilled, vars, findings
<1>2. \A p \in Packages : row'[p] = "none" => row[p] = "none"
  <2>1. \/ row' = row
        \/ \E P, s : s # "none" /\ row' = Moved(P, s)
        \/ \E P : row' = AtItsWeight(P)
    BY DEF HandStep, RemoveAll, MarkFindingsQuarantined, MarkRestored, ReopenFindingsForRestored,
           Outside, Abandon, AcknowledgeFinding, IgnoreFinding, InstallOrRemove, BundleOrContext,
           Quarantine, Restore, HandKilled, vars, findings
  <2>2. QED
    BY <2>1, RowStays
<1>3. \A v \in Passes : /\ pass'[v].now = pass[v].now
                        /\ pass'[v].pc # "idle" => pass[v].pc # "idle"
                        /\ Early(v)' => Early(v)
  <2>1. CASE pass' = pass
    BY <2>1 DEF Early
  <2>2. ASSUME NEW w \in Passes, Abandon(w)
        PROVE  \A v \in Passes : /\ pass'[v].now = pass[v].now
                                 /\ pass'[v].pc # "idle" => pass[v].pc # "idle"
                                 /\ Early(v)' => Early(v)
    BY <2>2, FinishPass DEF Abandon, Early
  <2>3. QED
    BY <2>1, <2>2
       DEF HandStep, RemoveAll, MarkFindingsQuarantined, MarkRestored, ReopenFindingsForRestored,
           Outside, AcknowledgeFinding, IgnoreFinding, InstallOrRemove, BundleOrContext, Quarantine,
           Restore, HandKilled, vars
<1>4. QED
  BY <1>1, <1>2, <1>3, OnceQuiet DEF Early

LEMMA OnceTick == ASSUME TypeOK, OnceInv, Tick PROVE OnceInv'
<1>1. clock' = clock + 1 /\ UNCHANGED <<pass, told, detected, row>>
  BY DEF Tick, findings
<1>2. clock \in Int /\ (\A w \in Passes : pass[w].now \in Int) /\ \A p \in Packages : detected[p] \in Int
  BY DEF TypeOK, PassState
<1>3. Past' /\ Dated'
  BY <1>1, <1>2 DEF OnceInv, Past, Dated
<1>4. Apart' /\ Started' /\ Unrecorded' /\ Spoken'
  BY <1>1 DEF OnceInv, Apart, Started, Unrecorded, Spoken, Early
<1>5. QED
  BY <1>3, <1>4 DEF OnceInv

\* One finding makes one row on the timeline, whatever passes overlap, fail or
\* are killed, if no two start within one second.
THEOREM AlertsOnce == ASSUME ~SameSecond PROVE Spec => []AlertOnce
<1>1. TypeOK /\ OnceInv /\ [Next]_vars => OnceInv'
  BY OnceStart, OnceRecord, OnceAnnounce, OnceRest, OnceOthers, OnceTick DEF Next
<1>2. TypeOK /\ OnceInv => AlertOnce
  <2>1. SUFFICES ASSUME TypeOK, OnceInv, NEW p \in Packages PROVE told[p] < 2
    BY DEF AlertOnce
  <2>2. told[p] \in 0..2 /\ told[p] <= 1
    BY <2>1 DEF TypeOK, OnceInv, Spoken
  <2>3. QED
    BY <2>2
<1>3. QED
  BY <1>1, <1>2, OnceInit, FindingsTypeOK, PTL DEF Spec

=============================================================================
