------------------------------ MODULE Findings ------------------------------
(***************************************************************************)
(* The life of a finding on one machine: watch/watch.go (Run) and the      *)
(* statements of repo/findings.go and repo/triage.go it is made of, what a *)
(* person does to a finding (cli/triage.go and the dashboard), and what    *)
(* quarantine and restore do (cli/quarantine.go, quarantine/restore.go).   *)
(*                                                                         *)
(* A package stands for its purl and for the one advisory that may apply   *)
(* to it.  Passes run in processes and goroutines of their own: the        *)
(* agent's timer and the CLI start scans, a bundle update starts a pass    *)
(* without one.  A step is one SQL statement, transaction or file          *)
(* operation.  Each package has a directory of its own, which may hold     *)
(* another version.  Which directories a scan passes over is left open     *)
(* here, and so is what it does not supersede: Inventory has the rules.    *)
(***************************************************************************)
EXTENDS Integers, FiniteSets

CONSTANTS
    Packages,
    Malware,      \* packages whose advisory is a malware record
    Severe,       \* packages whose advisory is of the critical or high tier
    Scanners,     \* passes that take the inventory first
    Rematchers,   \* passes that only match: a bundle update's, `pkgwatch sync`'s
    MaxClock,     \* bound: the clock, in the seconds detected_at is stored in
    MaxEdits,     \* bound: changes from outside: people, installs, bundles, faults
    SameSecond    \* two passes may start in the same second

ASSUME PackagesAssumption == Malware \subseteq Severe /\ Severe \subseteq Packages
ASSUME ClockAssumption == MaxClock \in Nat \ {0} /\ MaxEdits \in Nat /\ SameSecond \in BOOLEAN

Passes == Scanners \cup Rematchers

VARIABLES
    clock,
    onDisk,      \* packages whose files are there
    replaced,    \* packages whose directory holds another version
    present,     \* rows of the packages table with gone_at NULL
    gone,        \* rows with gone_at set
    advised,     \* packages the attached bundle has an advisory for
    hot,         \* packages whose contextual score is 7 or more today
    row,         \* findings.state, "none" without a row
    scored,      \* findings whose stored score is 7 or more
    detected,    \* findings.detected_at
    until,       \* findings.ignore_until, 0 for NULL
    told,        \* finding_new rows on the timeline, counted to 2
    box,         \* quarantine.state of the package's latest row, "none" without one
    hand,        \* the quarantine or restore under way: [do, pkg]
    pass,        \* the local state of each pass
    edits,       \* how many changes came from outside
    ran          \* history: a pass has run to its end

machine == <<onDisk, replaced, advised, hot>>
inventory == <<present, gone>>
findings == <<row, scored, detected, until>>
vars == <<clock, machine, inventory, findings, told, box, hand, pass, edits, ran>>

States == {"new", "acknowledged", "ignored", "quarantined", "fixed"}
Idle == [pc |-> "idle", now |-> 0, thorough |-> FALSE, seen |-> {}, others |-> {}, baseline |-> FALSE,
         found |-> {}, loud |-> {}, news |-> {}]
NoHand == [do |-> "nothing", pkg |-> {}]

PassState == [pc : {"idle", "collect", "upsert", "supersede", "reconcile", "packages", "evaluate", "record",
                    "announce", "rescore", "resolve", "reopen", "expire"},
              now : 0..MaxClock, thorough : BOOLEAN, seen : SUBSET Packages, others : SUBSET Packages,
              baseline : BOOLEAN, found : SUBSET Packages, loud : SUBSET Packages, news : SUBSET Packages]

\* An ignored finding has the date that brings it back, and no other has one.
TypeOK ==
    /\ clock \in 1..MaxClock /\ edits \in 0..MaxEdits
    /\ onDisk \subseteq Packages /\ replaced \subseteq Packages \ onDisk /\ advised \subseteq Packages /\ hot \subseteq Packages
    /\ present \subseteq Packages /\ gone \subseteq Packages \ present
    /\ row \in [Packages -> States \cup {"none"}] /\ scored \subseteq Packages
    /\ detected \in [Packages -> 0..MaxClock] /\ until \in [Packages -> 0..MaxClock]
    /\ told \in [Packages -> 0..2]
    /\ box \in [Packages -> {"none", "active", "restored", "failed", "missing"}]
    /\ hand \in [do : {"nothing", "remove", "mark", "unpacked", "reopen"}, pkg : SUBSET Packages]
    /\ pass \in [Passes -> PassState]
    /\ \A p \in Packages : row[p] = "ignored" <=> until[p] # 0

Init ==
    /\ clock = 1 /\ edits = 0 /\ ran = FALSE
    /\ onDisk \in SUBSET Packages /\ replaced = {} /\ advised \in SUBSET Packages
    /\ hot \in SUBSET Packages /\ Severe \subseteq hot
    /\ present = {} /\ gone = {}
    /\ row = [p \in Packages |-> "none"] /\ scored = {}
    /\ detected = [p \in Packages |-> 0] /\ until = [p \in Packages |-> 0]
    /\ told = [p \in Packages |-> 0] /\ box = [p \in Packages |-> "none"]
    /\ hand = NoHand /\ pass = [w \in Passes |-> Idle]

------------------------------------------------------------------------------
\* The statements.

\* Findings in P take the state s.
Moved(P, s) == [p \in Packages |-> IF p \in P THEN s ELSE row[p]]

\* CASE WHEN score >= 7 THEN 'new' ELSE 'acknowledged', for the findings in P.
AtItsWeight(P) ==
    [p \in Packages |-> IF p \notin P THEN row[p] ELSE IF p \in scored THEN "new" ELSE "acknowledged"]

InState(S) == {p \in Packages : row[p] \in S}

\* stateFor: whether a finding met for the first time is news.
IsNews(baseline, p) == ~baseline \/ p \in Malware \/ p \in hot

\* Mutant: a finding recorded again starts its life again.
RecordOrReplace(found, loud, news, now) ==
    /\ row' = [p \in Packages |-> IF p \in news THEN "new" ELSE IF p \in found THEN "acknowledged" ELSE row[p]]
    /\ scored' = (scored \ found) \cup loud
    /\ detected' = [p \in Packages |-> IF p \in found THEN now ELSE detected[p]]
    /\ UNCHANGED until

\* INSERT OR IGNORE.
RecordFindings(found, loud, news, now) ==
    LET fresh == found \cap InState({"none"})
    IN  /\ row' = [p \in Packages |-> IF p \notin fresh THEN row[p]
                                      ELSE IF p \in news THEN "new" ELSE "acknowledged"]
        /\ scored' = scored \cup (fresh \cap loud)
        /\ detected' = [p \in Packages |-> IF p \in fresh THEN now ELSE detected[p]]
        /\ UNCHANGED until

\* Mutant: whatever the tier, a finding that became loud is news again.
RescoreAndReopen(found, loud) ==
    /\ scored' = (scored \ found) \cup loud
    /\ row' = Moved((loud \ scored) \cap InState({"acknowledged"}), "new")
    /\ UNCHANGED <<detected, until>>

RescoreFindings(found, loud) ==
    /\ scored' = (scored \ found) \cup loud
    /\ UNCHANGED <<row, detected, until>>

\* Mutant: only what was never triaged is closed.
ResolveOnlyNews == row' = Moved(gone \cap InState({"new"}), "fixed") /\ UNCHANGED <<scored, detected, until>>

ResolveFindingsForGonePackages ==
    /\ row' = Moved(gone \cap InState(States \ {"ignored", "fixed"}), "fixed")
    /\ UNCHANGED <<scored, detected, until>>

ReopenFindingsForPresentPackages ==
    /\ row' = AtItsWeight(present \cap InState({"fixed", "quarantined"}))
    /\ UNCHANGED <<scored, detected, until>>

\* Mutant: the window is not looked at again.
ExpireNothing(now) == UNCHANGED findings

ExpireIgnores(now) ==
    LET over == {p \in InState({"ignored"}) : until[p] <= now}
    IN  /\ row' = AtItsWeight(over)
        /\ until' = [p \in Packages |-> IF p \in over THEN 0 ELSE until[p]]
        /\ UNCHANGED <<scored, detected>>

------------------------------------------------------------------------------
\* watch.Run.

Goto(w, next) == pass' = [pass EXCEPT ![w].pc = next]
Finish(w) == pass' = [pass EXCEPT ![w] = [Idle EXCEPT !.now = pass[w].now]]

\* One pass starts.  Its now is the second it starts in.
Start(w) ==
    /\ pass[w].pc = "idle"
    /\ SameSecond \/ \A v \in Passes : pass[v].now # clock
    /\ pass' = [pass EXCEPT ![w] =
          [Idle EXCEPT !.pc = IF w \in Scanners THEN "collect" ELSE "packages", !.now = clock]]
    /\ UNCHANGED <<clock, machine, inventory, findings, told, box, hand, edits, ran>>

\* scanner.Run, up to the watcher.  The collectors pass over directories whose
\* time is on record; thorough notes that a scan passed over none, and left no
\* row for having been written in its own second.
Collect(w) ==
    /\ pass[w].pc = "collect"
    /\ \E passed \in SUBSET (onDisk \cup replaced) :
          pass' = [pass EXCEPT ![w] = [@ EXCEPT !.pc = "upsert", !.seen = onDisk \ passed,
                                                !.others = replaced \ passed, !.thorough = (passed = {})]]
    /\ UNCHANGED <<clock, machine, inventory, findings, told, box, hand, edits, ran>>

UpsertPackages(w) ==
    /\ pass[w].pc = "upsert"
    /\ present' = present \cup pass[w].seen
    /\ gone' = gone \ pass[w].seen
    /\ Goto(w, "supersede")
    /\ UNCHANGED <<clock, machine, findings, told, box, hand, edits, ran>>

Retire(P) == present' = present \ P /\ gone' = gone \cup (present \cap P)

\* What another scan wrote in this second is not superseded.
MarkSuperseded(w) ==
    /\ pass[w].pc = "supersede"
    /\ \E kept \in SUBSET (pass[w].others \cap present) :
          /\ Retire(pass[w].others \ kept)
          /\ pass' = [pass EXCEPT ![w] = [@ EXCEPT !.pc = "reconcile", !.thorough = pass[w].thorough /\ kept = {}]]
    /\ UNCHANGED <<clock, machine, findings, told, box, hand, edits, ran>>

\* Mutant: what is not in its directory is looked for no further.
RetireNothing == UNCHANGED inventory

\* The stat of every path, and MarkGone.
RetireMissing == Retire(Packages \ (onDisk \cup replaced))

Reconcile(w) ==
    /\ pass[w].pc = "reconcile"
    /\ RetireMissing
    /\ Goto(w, "packages")
    /\ UNCHANGED <<clock, machine, findings, told, box, hand, edits, ran>>

PresentPackages(w) ==
    /\ pass[w].pc = "packages"
    /\ pass' = [pass EXCEPT ![w] = [@ EXCEPT !.pc = "evaluate", !.seen = present, !.others = {}]]
    /\ UNCHANGED <<clock, machine, inventory, findings, told, box, hand, edits, ran>>

\* HasFindings, then every package against the bundle.
Evaluate(w) ==
    /\ pass[w].pc = "evaluate"
    /\ LET baseline == InState(States) = {}
           found == pass[w].seen \cap advised
       IN  pass' = [pass EXCEPT ![w] =
              [@ EXCEPT !.pc = "record", !.seen = {}, !.baseline = baseline, !.found = found,
                        !.loud = found \cap hot, !.news = {p \in found : IsNews(baseline, p)}]]
    /\ UNCHANGED <<clock, machine, inventory, findings, told, box, hand, edits, ran>>

Record(w) ==
    /\ pass[w].pc = "record"
    /\ RecordFindings(pass[w].found, pass[w].loud, pass[w].news, pass[w].now)
    /\ Goto(w, "announce")
    /\ UNCHANGED <<clock, machine, inventory, told, box, hand, edits, ran>>

\* recordFindingEvents: a row for each piece of news first seen in this second.
Announce(w) ==
    /\ pass[w].pc = "announce"
    /\ told' = [p \in Packages |->
          IF p \in pass[w].news /\ detected[p] = pass[w].now /\ told[p] < 2 THEN told[p] + 1 ELSE told[p]]
    /\ Goto(w, "rescore")
    /\ UNCHANGED <<clock, machine, inventory, findings, box, hand, edits, ran>>

Rescore(w) ==
    /\ pass[w].pc = "rescore"
    /\ RescoreFindings(pass[w].found, pass[w].loud)
    /\ Goto(w, "resolve")
    /\ UNCHANGED <<clock, machine, inventory, told, box, hand, edits, ran>>

Resolve(w) ==
    /\ pass[w].pc = "resolve"
    /\ ResolveFindingsForGonePackages
    /\ Goto(w, "reopen")
    /\ UNCHANGED <<clock, machine, inventory, told, box, hand, edits, ran>>

Reopen(w) ==
    /\ pass[w].pc = "reopen"
    /\ ReopenFindingsForPresentPackages
    /\ Goto(w, "expire")
    /\ UNCHANGED <<clock, machine, inventory, told, box, hand, edits, ran>>

Expire(w) ==
    /\ pass[w].pc = "expire"
    /\ ExpireIgnores(pass[w].now)
    /\ Finish(w)
    /\ ran' = TRUE
    /\ UNCHANGED <<clock, machine, inventory, told, box, hand, edits>>

WatchStep(w) ==
    \/ PresentPackages(w) \/ Evaluate(w) \/ Record(w) \/ Announce(w)
    \/ Rescore(w) \/ Resolve(w) \/ Reopen(w) \/ Expire(w)
TakeInventory(w) == Collect(w) \/ UpsertPackages(w) \/ MarkSuperseded(w) \/ Reconcile(w)
PassStep(w) == Start(w) \/ TakeInventory(w) \/ WatchStep(w)

------------------------------------------------------------------------------
\* From outside.  Each of these counts against MaxEdits.

Edit == edits < MaxEdits /\ edits' = edits + 1

\* A statement fails or the process is killed: the pass returns, and what it
\* has written stays.
Abandon(w) ==
    /\ Edit
    /\ pass[w].pc # "idle"
    /\ Finish(w)
    /\ UNCHANGED <<clock, machine, inventory, findings, told, box, hand, ran>>

AcknowledgeFinding(p) ==
    /\ Edit
    /\ row[p] \notin {"none", "fixed", "ignored"}
    /\ row' = Moved({p}, "acknowledged")
    /\ UNCHANGED <<clock, machine, inventory, scored, detected, until, told, box, hand, pass, ran>>

\* For at least one day: the date is always ahead of the clock.
IgnoreFinding(p) ==
    /\ Edit
    /\ row[p] \notin {"none", "fixed"}
    /\ row' = Moved({p}, "ignored")
    /\ \E end \in clock + 1 .. MaxClock : until' = [until EXCEPT ![p] = end]
    /\ UNCHANGED <<clock, machine, inventory, scored, detected, told, box, hand, pass, ran>>

\* A package is installed or removed by its package manager, or another version
\* put in its place.
InstallOrRemove(p) ==
    /\ Edit
    /\ \/ p \notin onDisk /\ onDisk' = onDisk \cup {p} /\ replaced' = replaced \ {p}
       \/ p \in onDisk \cup replaced /\ onDisk' = onDisk \ {p} /\ replaced' = replaced \ {p}
       \/ p \in onDisk /\ onDisk' = onDisk \ {p} /\ replaced' = replaced \cup {p}
    /\ UNCHANGED <<clock, advised, hot, inventory, findings, told, box, hand, pass, ran>>

\* A bundle is swapped in, or a package goes stale or is touched again.
BundleOrContext ==
    /\ Edit
    /\ \/ advised' \in SUBSET Packages /\ UNCHANGED hot
       \/ hot' \in SUBSET Packages /\ UNCHANGED advised
    /\ UNCHANGED <<clock, onDisk, replaced, inventory, findings, told, box, hand, pass, ran>>

Tick ==
    /\ clock < MaxClock
    /\ clock' = clock + 1
    /\ UNCHANGED <<machine, inventory, findings, told, box, hand, pass, edits, ran>>

------------------------------------------------------------------------------
\* Quarantine and restore.  One at a time: a person types them.

Handling(do, p) == hand' = [do |-> do, pkg |-> {p}]
Held(do) == {p \in Packages : hand = [do |-> do, pkg |-> {p}]}

\* Up to RecordQuarantine: the archive was packed from files that were there.
Quarantine(p) ==
    /\ Edit
    /\ hand = NoHand /\ p \in present /\ p \in onDisk /\ box[p] # "active"
    /\ box' = [box EXCEPT ![p] = "active"]
    /\ Handling("remove", p)
    /\ UNCHANGED <<clock, machine, inventory, findings, told, pass, ran>>

RemoveAll ==
    \E p \in Held("remove") :
        /\ onDisk' = onDisk \ {p}
        /\ Handling("mark", p)
        /\ UNCHANGED <<clock, replaced, advised, hot, inventory, findings, told, box, pass, edits, ran>>

\* Mutant: what was ignored is quarantined as well.
MarkEveryFinding ==
    \E p \in Held("mark") :
        /\ row' = Moved({p} \cap InState(States \ {"fixed"}), "quarantined")
        /\ hand' = NoHand
        /\ UNCHANGED <<clock, machine, inventory, scored, detected, until, told, box, pass, edits, ran>>

MarkFindingsQuarantined ==
    \E p \in Held("mark") :
        /\ row' = Moved({p} \cap InState(States \ {"ignored", "fixed"}), "quarantined")
        /\ hand' = NoHand
        /\ UNCHANGED <<clock, machine, inventory, scored, detected, until, told, box, pass, edits, ran>>

\* Restore refuses when something is in the way, and otherwise unpacks.  What
\* comes back may not be what was taken.
Restore(p) ==
    /\ Edit
    /\ hand = NoHand /\ box[p] = "active" /\ p \notin onDisk \cup replaced
    /\ \/ box' = [box EXCEPT ![p] = "missing"] /\ UNCHANGED <<onDisk, hand>>
       \/ /\ box' = [box EXCEPT ![p] = "failed"]
          /\ onDisk' \in {onDisk, onDisk \cup {p}}
          /\ UNCHANGED hand
       \/ /\ onDisk' = onDisk \cup {p}
          /\ Handling("unpacked", p)
          /\ UNCHANGED box
    /\ UNCHANGED <<clock, replaced, advised, hot, inventory, findings, told, pass, ran>>

MarkRestored ==
    \E p \in Held("unpacked") :
        /\ box' = [box EXCEPT ![p] = "restored"]
        /\ Handling("reopen", p)
        /\ UNCHANGED <<clock, machine, inventory, findings, told, pass, edits, ran>>

ReopenFindingsForRestored ==
    \E p \in Held("reopen") :
        /\ row' = AtItsWeight({p} \cap InState({"quarantined"}))
        /\ hand' = NoHand
        /\ UNCHANGED <<clock, machine, inventory, scored, detected, until, told, box, pass, edits, ran>>

\* The command is killed between two of its steps.
HandKilled ==
    /\ Edit
    /\ hand # NoHand
    /\ hand' = NoHand
    /\ UNCHANGED <<clock, machine, inventory, findings, told, box, pass, ran>>

HandStep ==
    \/ RemoveAll \/ MarkFindingsQuarantined \/ MarkRestored \/ ReopenFindingsForRestored

Outside ==
    \/ \E w \in Passes : Abandon(w)
    \/ \E p \in Packages : AcknowledgeFinding(p) \/ IgnoreFinding(p) \/ InstallOrRemove(p)
                           \/ Quarantine(p) \/ Restore(p)
    \/ BundleOrContext \/ HandKilled

Next == (\E w \in Passes : PassStep(w)) \/ HandStep \/ Outside \/ Tick

Spec == Init /\ [][Next]_vars
\* The timer starts the next scan and a bundle's arrival the next match; a
\* started pass and a typed command go on by themselves, and time passes.
FairSpec ==
    /\ Spec
    /\ \A w \in Passes : WF_vars(PassStep(w))
    /\ WF_vars(HandStep) /\ WF_vars(Tick)

------------------------------------------------------------------------------
\* Properties.

\* What a person decided stands.  Whatever happens to its package meanwhile,
\* removed, boxed, put back, rescored, an ignored finding stays ignored until
\* its date; and what was acknowledged is not made news again by rescoring or
\* recording: first its package has to go away, or into quarantine.
Triaged(p) ==
    /\ row[p] = "ignored" /\ row'[p] # "ignored" => until[p] <= clock
    /\ row[p] = "acknowledged" => row'[p] # "new"
TriageHonoured == [][\A p \in Packages : Triaged(p)]_vars

\* repo/findings.go: "this is what makes it alert-once".
AlertOnce == \A p \in Packages : told[p] < 2

\* When the changes stop, the findings come to follow the packages table, whatever
\* scans passed over or were cut short at: an advisory for a listed package is
\* open unless ignored, and nothing unlisted is open or still called quarantined.
Follow(listed) ==
    \A p \in Packages :
        /\ p \in listed /\ p \in advised => row[p] \in {"new", "acknowledged", "ignored"}
        /\ p \in listed => row[p] \notin {"fixed", "quarantined"}
        /\ p \notin listed => row[p] \in {"none", "fixed", "ignored"}
\* And as long as full scans run among the others, each in a second of its own,
\* they tell the truth about the disk: an incremental one may pass a package over
\* for ever.
Examined == \E w \in Scanners : pass[w].pc = "expire" /\ pass[w].thorough
FindingsConverge == <>[]Follow(present) /\ ([]<>Examined => <>[]Follow(onDisk))

\* An ignored finding comes back: no ignore lasts for ever.
IgnoresEnd == \A p \in Packages : row[p] = "ignored" ~> row[p] # "ignored"

\* repo/findings.go, of reopening a quarantined finding: "if the files are
\* present again then that claim is false".  While they are not, it is kept.
QuarantineIsBelieved ==
    [][\A p \in Packages : row[p] = "quarantined" /\ row'[p] = "new" => p \in onDisk]_vars

\* repo/findings.go: "Leaving the finding open would keep a machine looking
\* dirty for something it no longer has".
NothingOpensForGone ==
    [][\A p \in gone : row[p] = "ignored" => row'[p] \notin {"new", "acknowledged"}]_vars

\* watch/watch.go: "Baseline is set on the first pass a machine ever runs", and
\* only then is a finding filed without being announced.
QuietOnlyAtFirst ==
    [][\A p \in Packages : ran /\ row[p] = "none" => row'[p] # "acknowledged"]_vars

\* cli/triage.go: an ignored finding comes back "critical and high as news".
SevereComesBackAsNews ==
    [][\A p \in Severe : row[p] = "ignored" => row'[p] # "acknowledged"]_vars
==============================================================================
