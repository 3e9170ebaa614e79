----------------------------- MODULE BundleSync -----------------------------
(***************************************************************************)
(* How advisories reach the file every match reads: the publisher's builds *)
(* (cli/publish.go), the hub that relays them (hub/relay.go), bundlesync/  *)
(* bundlesync.go (FromHub, FromDir, Stage, rebuild), bundle/bundle.go      *)
(* (Install, SaveManifest), bundle/merge.go (Merge) and the agent's lease  *)
(* on the merged file (agent/lease.go).                                    *)
(*                                                                         *)
(* The daemon updates on a timer and `pkgwatch sync` in a process of its   *)
(* own; both write the same directory.  A bundle is its scope and the      *)
(* number of the publisher's build; its digest and signature are those of  *)
(* one build, its version is the day of it.  Each action is one request,   *)
(* one file replaced, or one lock taken.  POSIX: a renamed file stays      *)
(* readable to whoever has it open.  The agent does not use                *)
(* --allow-downgrade.                                                      *)
(***************************************************************************)
EXTENDS Integers, FiniteSets

CONSTANTS
    Scopes,
    Inventory,     \* scopes the machine has packages of
    Updaters,      \* "agent" is the daemon; others are `pkgwatch sync`
    MaxVersion,    \* bound: the publisher's builds are 1..MaxVersion
    BuildsPerDay,  \* how many of them carry one day's version
    Faults,        \* requests and writes fail and processes are killed
    MaxEdits       \* bound: what the hub and failures do

ASSUME ScopesAssumption == Inventory \subseteq Scopes
ASSUME BoundsAssumption == 
    /\ MaxVersion \in Nat \ {0} /\ BuildsPerDay \in Nat \ {0}
    /\ MaxEdits \in Nat /\ Faults \in BOOLEAN

VARIABLES
    relayed,    \* the build in each bundle file of the hub, 0 without a file
    offer,      \* the build in the manifest beside it, which is what it offers
    source,     \* the same two on the agent: the build in each staged file...
    manifest,   \* ... and the one in its manifest
    merged,     \* advisories.db: the builds merged into it, and if it is whole
    temp,       \* whose file is at .merged-advisories.tmp, "none" without one
    run,        \* the local state of each updater
    attached,   \* the file the daemon's handles read, or Detached
    reading,    \* a gate or the dashboard is inside lease.Read
    disarmed,   \* the daemon has logged that a swap left its handles detached
    failed,     \* history: an update failed or was killed, or the hub was downgraded
    edits

hub == <<relayed, offer>>
files == <<source, manifest, merged, temp>>
daemon == <<attached, reading, disarmed>>
vars == <<hub, files, run, daemon, failed, edits>>

Versions == 0..MaxVersion

\* --version is the day unless it is given; 0 is no bundle.
VersionOf(build) == (build + BuildsPerDay - 1) \div BuildsPerDay

None == [s \in Scopes |-> 0]
File == [of : [Scopes -> Versions], whole : BOOLEAN]
NoFile == [of |-> None, whole |-> TRUE]
Detached == [of |-> None, whole |-> FALSE]
Idle == [pc |-> "idle", offers |-> None, held |-> None, todo |-> {}, now |-> {}, staged |-> FALSE,
         built |-> Detached]

Local == [pc : {"idle", "held", "offers", "install", "manifest", "write", "current", "rebuild", "merge",
                "replace", "attach"},
          offers : [Scopes -> Versions], held : [Scopes -> Versions],
          todo : SUBSET Scopes, now : SUBSET Scopes, staged : BOOLEAN, built : File]

TypeOK ==
    /\ relayed \in [Scopes -> Versions] /\ offer \in [Scopes -> Versions]
    /\ source \in [Scopes -> Versions]
    /\ manifest \in [Scopes -> Versions] /\ merged \in File
    /\ temp \in Updaters \cup {"none"} /\ edits \in 0..MaxEdits
    /\ run \in [Updaters -> Local]
    /\ attached \in File /\ {reading, disarmed, failed} \subseteq BOOLEAN

Init ==
    /\ relayed \in [Scopes -> {0, 1}] /\ offer = relayed /\ source = None /\ manifest = None
    /\ merged = NoFile /\ temp = "none" /\ run = [u \in Updaters |-> Idle]
    /\ attached = NoFile /\ reading = FALSE /\ disarmed = FALSE /\ failed = FALSE /\ edits = 0

Goto(u, next) == run' = [run EXCEPT ![u].pc = next]
End(u) == run' = [run EXCEPT ![u] = Idle]

------------------------------------------------------------------------------
\* FromHub.

\* The hub's list.  An empty one ends the run as an error.
AskHub(u) ==
    /\ run[u].pc = "idle"
    /\ offer # None
    /\ run' = [run EXCEPT ![u] = [@ EXCEPT !.pc = "held", !.offers = offer]]
    /\ UNCHANGED <<hub, files, daemon, failed, edits>>

\* HeldVersions: what the manifest beside a bundle file says.
Held == [s \in Scopes |-> IF source[s] = 0 THEN 0 ELSE manifest[s]]

\* scopesWorthHolding, and of those the offers that are news.
Wanted == {s \in Scopes : s \in Inventory \/ Held[s] # 0}

\* Mutant: the version on file is taken again, and nothing newer.
SameOnly(offers) == {s \in Wanted : offers[s] # 0 /\ (Held[s] = 0 \/ VersionOf(offers[s]) = VersionOf(Held[s]))}

Newer(offers) ==
    {s \in Wanted : offers[s] # 0 /\ (Held[s] = 0 \/ VersionOf(offers[s]) > VersionOf(Held[s]))}

ReadHeld(u) ==
    /\ run[u].pc = "held"
    /\ run' = [run EXCEPT ![u] = [@ EXCEPT !.pc = "offers", !.held = Held, !.todo = Newer(run[u].offers)]]
    /\ UNCHANGED <<hub, files, daemon, failed, edits>>

\* Mutants: no check against what is installed, or of the digest.
StageUnchecked(u) ==
    /\ run[u].pc = "offers"
    /\ \E s \in run[u].todo :
          run' = [run EXCEPT ![u] = [@ EXCEPT !.pc = "install", !.now = {s},
                                                !.todo = run[u].todo \ {s}]]
    /\ UNCHANGED <<hub, files, daemon, failed, edits>>

\* FetchBundle reads the file the hub has now, and Stage checks it against the
\* digest and signature of the manifest that was offered, and its version
\* against the file installed.  A refusal ends the run.
Stage(u) ==
    /\ run[u].pc = "offers"
    /\ \E s \in run[u].todo :
          IF relayed[s] = run[u].offers[s] /\ VersionOf(relayed[s]) >= VersionOf(source[s])
            THEN run' = [run EXCEPT ![u] = [@ EXCEPT !.pc = "install", !.now = {s},
                                                      !.todo = run[u].todo \ {s}]]
            ELSE End(u)
    /\ UNCHANGED <<hub, files, daemon, failed, edits>>

\* The bundle file is replaced...
InstallSource(u) ==
    /\ run[u].pc = "install"
    /\ source' = [s \in Scopes |-> IF s \in run[u].now THEN run[u].offers[s] ELSE source[s]]
    /\ Goto(u, "manifest")
    /\ UNCHANGED <<hub, manifest, merged, temp, daemon, failed, edits>>

\* ... and then its manifest: os.WriteFile empties the file first.
TruncateManifest(u) ==
    /\ run[u].pc = "manifest"
    /\ manifest' = [s \in Scopes |-> IF s \in run[u].now THEN 0 ELSE manifest[s]]
    /\ Goto(u, "write")
    /\ UNCHANGED <<hub, source, merged, temp, daemon, failed, edits>>

SaveManifest(u) ==
    /\ run[u].pc = "write"
    /\ manifest' = [s \in Scopes |-> IF s \in run[u].now THEN run[u].offers[s] ELSE manifest[s]]
    /\ run' = [run EXCEPT ![u] = [@ EXCEPT !.pc = "offers", !.now = {}, !.staged = TRUE]]
    /\ UNCHANGED <<hub, source, merged, temp, daemon, failed, edits>>

\* ScopesMissingFromMerged.  A file that cannot be read carries nothing.
Unmerged(held) == {s \in Scopes : held[s] # 0 /\ (~merged.whole \/ merged.of[s] = 0)}

\* Nothing staged and nothing missing of what was held as the run began: it
\* reports itself current.
AllStaged(u) ==
    /\ run[u].pc = "offers" /\ run[u].todo = {}
    /\ Goto(u, IF run[u].staged \/ Unmerged(run[u].held) # {} THEN "rebuild" ELSE "current")
    /\ UNCHANGED <<hub, files, daemon, failed, edits>>

Current(u) ==
    /\ run[u].pc = "current"
    /\ End(u)
    /\ UNCHANGED <<hub, files, daemon, failed, edits>>

------------------------------------------------------------------------------
\* rebuild and Merge.

\* Mutant: the swap does not wait for those who read.
DetachAtOnce(u) ==
    /\ run[u].pc = "rebuild"
    /\ attached' = IF u = "agent" THEN Detached ELSE attached
    /\ Goto(u, "merge")
    /\ UNCHANGED <<hub, files, reading, disarmed, failed, edits>>

\* lease.Swap takes the write lock and detaches; another process has no lease.
Detach(u) ==
    /\ run[u].pc = "rebuild"
    /\ u = "agent" => ~reading
    /\ attached' = IF u = "agent" THEN Detached ELSE attached
    /\ Goto(u, "merge")
    /\ UNCHANGED <<hub, files, reading, disarmed, failed, edits>>

\* A new temporary file takes the one name there is for it.
OpenTemp(u) ==
    /\ run[u].pc = "merge"
    /\ source # None
    /\ temp' = u
    /\ run' = [run EXCEPT ![u] = [@ EXCEPT !.pc = "replace", !.built = Idle.built]]
    /\ UNCHANGED <<hub, source, manifest, merged, daemon, failed, edits>>

\* Every source is copied into the open file, wherever its name went.
MergeSources(u) ==
    /\ run[u].pc = "replace" /\ ~run[u].built.whole
    /\ run' = [run EXCEPT ![u].built = [of |-> source, whole |-> TRUE]]
    /\ UNCHANGED <<hub, files, daemon, failed, edits>>

\* Mutant: the merge is written straight to where it is read.
ReplaceEarly(u) ==
    /\ run[u].pc = "replace"
    /\ merged' = IF temp = "none" THEN merged ELSE run[temp].built
    /\ temp' = "none"
    /\ Goto(u, "attach")
    /\ UNCHANGED <<hub, source, manifest, daemon, failed, edits>>

\* os.ReadFile(tmpPath) and Install.  What is read is what has that name now;
\* nothing there ends the run as an error.
ReplaceMerged(u) ==
    /\ run[u].pc = "replace" /\ run[u].built.whole
    /\ merged' = IF temp = "none" THEN merged ELSE run[temp].built
    /\ temp' = "none"
    /\ Goto(u, "attach")
    /\ UNCHANGED <<hub, source, manifest, daemon, failed, edits>>

\* Mutant: a swap leaves its readers where they are.
AttachNothing(u) ==
    /\ run[u].pc = "attach"
    /\ End(u)
    /\ UNCHANGED <<hub, files, daemon, failed, edits>>

\* A handle may fail to attach, to the new file as to the old.  It is logged, and
\* the handle answers without advisories until another swap or a restart.
StaysDetached == attached' = Detached /\ disarmed' = TRUE
Reattached == attached' = merged /\ disarmed' = FALSE

\* The lease brings its readers back.
Attach(u) ==
    /\ run[u].pc = "attach"
    /\ End(u)
    /\ \/ u = "agent" /\ Reattached /\ UNCHANGED <<failed, edits>>
       \/ u = "agent" /\ StaysDetached /\ Faults /\ edits < MaxEdits /\ edits' = edits + 1 /\ failed' = TRUE
       \/ u # "agent" /\ UNCHANGED <<attached, disarmed, failed, edits>>
    /\ UNCHANGED <<hub, files, reading>>

UpdateStep(u) ==
    \/ AskHub(u) \/ ReadHeld(u) \/ Stage(u) \/ InstallSource(u) \/ TruncateManifest(u)
    \/ SaveManifest(u) \/ AllStaged(u) \/ Current(u)
    \/ Detach(u) \/ OpenTemp(u) \/ MergeSources(u) \/ ReplaceMerged(u) \/ Attach(u)

------------------------------------------------------------------------------
\* The daemon's readers.

Swapping == "agent" \in Updaters /\ run["agent"].pc \in {"merge", "replace", "attach"}

BeginRead ==
    /\ ~reading
    /\ ~Swapping
    /\ reading' = TRUE
    /\ UNCHANGED <<hub, files, run, attached, disarmed, failed, edits>>

EndRead ==
    /\ reading
    /\ reading' = FALSE
    /\ UNCHANGED <<hub, files, run, attached, disarmed, failed, edits>>

------------------------------------------------------------------------------
\* From outside.

Edit == edits < MaxEdits /\ edits' = edits + 1

\* `pkgwatch sync --dir` on the hub's machine stages what the publisher built,
\* with the agent's own code: the file, and then its manifest.  An older build
\* takes --allow-downgrade.
HubStages ==
    /\ Edit
    /\ \E s \in Scopes, build \in Versions \ {0} :
          /\ relayed' = [relayed EXCEPT ![s] = build]
          /\ failed' = (failed \/ VersionOf(build) < VersionOf(relayed[s]))
    /\ UNCHANGED <<offer, files, run, daemon>>

HubSavesManifest ==
    /\ \E s \in Scopes :
          /\ offer[s] # relayed[s]
          /\ offer' = [offer EXCEPT ![s] = relayed[s]]
    /\ UNCHANGED <<relayed, files, run, daemon, failed, edits>>

\* An update ends before its time, and the next run starts from the files.
CutShort(u) ==
    /\ Faults
    /\ Edit
    /\ run[u].pc # "idle"
    /\ failed' = TRUE
    /\ run' = [run EXCEPT ![u] = [Idle EXCEPT !.built = run[u].built]]
    /\ temp' \in {temp} \cup (IF run[u].pc = "replace" THEN {"none"} ELSE {})
    /\ UNCHANGED <<hub, source, manifest, merged>>

\* A request or a write fails: a failed swap, too, tries to bring the readers back.
Fail(u) ==
    /\ CutShort(u)
    /\ IF u = "agent" /\ Swapping THEN Reattached \/ StaysDetached ELSE UNCHANGED <<attached, disarmed>>
    /\ UNCHANGED reading

\* The process is killed; a restarted daemon opens the file anew.
Killed(u) ==
    /\ CutShort(u)
    /\ IF u = "agent" THEN Reattached /\ reading' = FALSE ELSE UNCHANGED daemon

Steps ==
    \/ \E u \in Updaters : UpdateStep(u) \/ Fail(u)
    \/ BeginRead \/ EndRead \/ HubStages \/ HubSavesManifest
Next == Steps \/ \E u \in Updaters : Killed(u)

Spec == Init /\ [][Next]_vars
\* The timer fires again; a run goes on by itself.  Detach waits for readers,
\* who always finish, and an RWMutex lets no new one in before a waiting
\* writer: hence SF.  The hub's two renames follow each other.
FairSpec ==
    /\ Spec
    /\ \A u \in Updaters : WF_vars(UpdateStep(u)) /\ SF_vars(Detach(u))
    /\ WF_vars(EndRead) /\ WF_vars(HubSavesManifest)

------------------------------------------------------------------------------
\* Properties.

\* What readers have is a whole merge, never a half-written one (bundle/
\* merge.go: "a half-written advisory database silently disarms matching"), and
\* the file that is there now, never the one it replaced: nobody reads during a
\* swap, and after it a handle has the new file, or none and the log says so.
ReadersHaveTheFile ==
    /\ merged.whole
    /\ reading => ~Swapping
    /\ Swapping \/ attached = merged \/ (disarmed /\ attached = Detached)

\* Whatever an update lost or the hub replays, no scope's advisories go back
\* to an older version, and none disappears.
NoOlder ==
    \A s \in Scopes : /\ VersionOf(merged'.of[s]) >= VersionOf(merged.of[s])
                      /\ VersionOf(source'[s]) >= VersionOf(source[s])
NeverOlder == [][NoOlder]_vars

\* With a steady hub and no update cut short, the version the hub relays of the
\* scopes this machine needs ends in the merged file, and with the readers.
UpToDate ==
    \A s \in Inventory : /\ VersionOf(merged.of[s]) >= VersionOf(offer[s])
                         /\ VersionOf(attached.of[s]) >= VersionOf(offer[s])
AdvisoriesArrive == <>[](failed \/ UpToDate)

\* bundlesync/bundlesync.go: FromHub "installs whatever the paired hub relays".
NewerBuildArrives == <>[](failed \/ \A s \in Inventory : merged.of[s] >= offer[s])

\* bundle/merge.go: no reader may meet half of a merge.
MergedIsWhole == merged.whole

\* bundlesync/bundlesync.go, of a rebuild that failed: the agent "will merge
\* this itself on its next bundle check".
CurrentIsMerged ==
    \A u \in Updaters : run[u].pc = "current" => \A s \in Scopes : merged.of[s] >= Held[s]

\* agent/lease.go: "brings them back".
HandlesComeBack == Swapping \/ attached # Detached

\* agent/lease.go: a handle the swap does not know of "keeps answering out of
\* a file that no longer exists".  When the daemon finds nothing to update, its
\* readers have what there is, or the log says that they have nothing.
CurrentIsRead == run["agent"].pc = "current" => attached = merged \/ disarmed
=============================================================================
