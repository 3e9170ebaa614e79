------------------------------ MODULE DaemonView ------------------------------
(***************************************************************************)
(* What the running daemon makes of the bundles BundleSync brings: the     *)
(* gates it serves, the pages it shows and the matching it does.           *)
(* agent/agent.go (Open, Run), gate/open.go and gate/gate.go (Open,        *)
(* decide), agent/bundles.go (updateBundlesOnce, rematch),                 *)
(* agent/periodic.go (runPeriodicScans, scanOnce).                         *)
(*                                                                         *)
(* Open asks the attached file once, when the daemon starts, whether there *)
(* is a bundle and what it covers; those answers live in State and Gate    *)
(* for the life of the process.  A lease swap gives the handles a new      *)
(* file and says nothing to either.  A scan and a rematch open the file    *)
(* for themselves.  One pass is one step here; its statements are          *)
(* Findings'.  A scan holds the lease, so the daemon's own swap waits for  *)
(* it.                                                                     *)
(***************************************************************************)
EXTENDS BundleSync

ASSUME DaemonAssumption == "agent" \in Updaters

VARIABLES
    known,      \* what Open found at start: a bundle at all, and its coverage
    due,        \* an update has installed something that rematch has not seen
    examined    \* history: the newest version of each scope a pass matched with

viewVars == <<known, due, examined>>
viewed == <<vars, viewVars>>

Covers(file) == {s \in Scopes : file.of[s] # 0}

\* Mutant: gate.New alone, without the coverage Open adds.
OpenWithoutCoverage(file) == [attached |-> file # NoFile, covered |-> {}]

\* Open: attach, check the schema, read bundle_meta.
Open(file) == [attached |-> file # NoFile, covered |-> Covers(file)]

ViewInit == Init /\ known = Open(merged) /\ due = FALSE /\ examined = None

\* One pass of watch.Run over the inventory with the file that is there.
MatchWith(file) ==
    examined' = [s \in Scopes |-> IF s \in Inventory /\ file.of[s] > examined[s]
                                    THEN file.of[s] ELSE examined[s]]

------------------------------------------------------------------------------
\* updateBundlesOnce goes on to rematch before it sleeps again.
UpdateGoesOn ==
    /\ Steps
    /\ due => run'["agent"] = run["agent"]
    /\ due' = (due \/ Attach("agent"))
    /\ UNCHANGED <<known, examined>>

\* The pass that follows an installed bundle, unless it cannot open the file.
Rematch ==
    /\ due
    /\ due' = FALSE
    /\ MatchWith(merged) \/ (Faults /\ UNCHANGED examined)
    /\ UNCHANGED <<vars, known>>

\* Mutant: the pass asks the daemon's State instead of the file.
ScanAsAtStart ==
    /\ ~Swapping
    /\ known.attached
    /\ MatchWith(merged)
    /\ UNCHANGED <<vars, known, due>>

\* scanOnce, on a handle of its own: it attaches what is there now.
Scan ==
    /\ ~Swapping
    /\ merged # NoFile
    /\ MatchWith(merged)
    /\ UNCHANGED <<vars, known, due>>

\* The process is killed in an update and started again...
KilledInUpdate ==
    /\ Killed("agent")
    /\ known' = Open(merged) /\ due' = FALSE
    /\ UNCHANGED examined

\* ... or restarted between two, perhaps before the rematch.
RestartDaemon ==
    /\ run["agent"].pc = "idle"
    /\ Edit
    /\ Reattached /\ reading' = FALSE
    /\ known' = Open(merged) /\ due' = FALSE
    /\ UNCHANGED <<hub, files, run, failed, examined>>

ViewNext == UpdateGoesOn \/ Rematch \/ Scan \/ KilledInUpdate \/ RestartDaemon

ViewSpec == ViewInit /\ [][ViewNext]_viewed

\* The scan's ticker fires for ever.  A scan waits for a swap to end, and no
\* swap waits for the next scan: hence SF.
FairViewSpec ==
    /\ ViewSpec
    /\ \A u \in Updaters : WF_viewed(UpdateStep(u) /\ UpdateGoesOn)
                           /\ SF_viewed(Detach(u) /\ UpdateGoesOn)
    /\ WF_viewed(EndRead /\ UpdateGoesOn) /\ WF_viewed(HubSavesManifest /\ UpdateGoesOn)
    /\ WF_viewed(Rematch) /\ SF_viewed(Scan)

------------------------------------------------------------------------------
\* The gate's decide, before it looks anything up: it answers "not evaluated"
\* without a bundle, and for an ecosystem the bundle has no advisories of.
Degraded(s) == ~known.attached \/ (known.covered # {} /\ s \notin known.covered)

\* gate/gate.go, of an ecosystem without a feed, answering "no advisories": "the
\* one wrong answer this tool must never give".  Whatever was installed, lost
\* or swapped since the daemon started, a package that is judged at all is
\* judged by a file that has its ecosystem.  On a handle that is detached the
\* lookup fails, and that is an answer of "not evaluated" too.
JudgedByAFile == reading => \A s \in Scopes : Degraded(s) \/ attached = Detached \/ attached.of[s] # 0

\* agent/bundles.go: no advisory may sit on disk with nothing having looked at
\* it.  Again and again everything in the merged file has been matched against
\* what is installed, though the process may be killed between the two.
MergedIsExamined == []<>(\A s \in Inventory : examined[s] >= merged.of[s])

\* gate/gate.go: "BundleAttached is false on a machine that has never synced."
DegradedOnlyUnsynced == reading /\ attached # NoFile => known.attached

\* repo/repo.go, of a bundle's ecosystems: "what this bundle actually covers".
CoverageIsCurrent == reading /\ known.attached => known.covered = Covers(attached)
=============================================================================
