---------------------------- MODULE BundleProofs ----------------------------
(***************************************************************************)
(* Theorems about DaemonView: the daemon with one updater, itself, for     *)
(* every number of scopes, builds, builds a day, failures and restarts.    *)
(***************************************************************************)
EXTENDS DaemonView, TLAPS

\* Constants of the module have the types the variables are given.
LEMMA ConstantTypes == None \in [Scopes -> Versions] /\ NoFile \in File /\ Detached \in File
                       /\ Idle \in Local
<1>1. 0 \in Versions
  BY BoundsAssumption DEF Versions
<1>2. None \in [Scopes -> Versions]
  BY <1>1 DEF None
<1>3. NoFile \in File /\ Detached \in File
  BY <1>2 DEF NoFile, Detached, File
<1>4. QED
  BY <1>2, <1>3 DEF Idle, Local

\* Versions can be compared.
LEMMA VersionType == \A b \in Versions : VersionOf(b) \in Int
  BY BoundsAssumption DEF VersionOf, Versions

\* What an updater may write down next.
Places == {"idle", "held", "offers", "install", "manifest", "write", "current", "rebuild", "merge",
           "replace", "attach"}

LEMMA LocalMoves ==
    ASSUME NEW r \in Local
    PROVE  /\ r.offers \in [Scopes -> Versions] /\ r.todo \in SUBSET Scopes /\ r.built \in File
           /\ \A pc \in Places : [r EXCEPT !.pc = pc] \in Local
           /\ \A offers \in [Scopes -> Versions] : [r EXCEPT !.pc = "held", !.offers = offers] \in Local
           /\ \A held \in [Scopes -> Versions], todo \in SUBSET Scopes :
                 [r EXCEPT !.pc = "offers", !.held = held, !.todo = todo] \in Local
           /\ \A now, todo \in SUBSET Scopes :
                 [r EXCEPT !.pc = "install", !.now = now, !.todo = todo] \in Local
           /\ [r EXCEPT !.pc = "offers", !.now = {}, !.staged = TRUE] \in Local
           /\ \A built \in File : /\ [r EXCEPT !.built = built] \in Local
                                  /\ [r EXCEPT !.pc = "replace", !.built = built] \in Local
<1>1. r.offers \in [Scopes -> Versions] /\ r.todo \in SUBSET Scopes /\ r.built \in File
  BY DEF Local
<1>2. \A pc \in Places : [r EXCEPT !.pc = pc] \in Local
  BY DEF Local, Places
<1>3. \A offers \in [Scopes -> Versions] : [r EXCEPT !.pc = "held", !.offers = offers] \in Local
  BY DEF Local
<1>4. \A held \in [Scopes -> Versions], todo \in SUBSET Scopes :
        [r EXCEPT !.pc = "offers", !.held = held, !.todo = todo] \in Local
  BY DEF Local
<1>5. \A now, todo \in SUBSET Scopes : [r EXCEPT !.pc = "install", !.now = now, !.todo = todo] \in Local
  BY DEF Local
<1>6. [r EXCEPT !.pc = "offers", !.now = {}, !.staged = TRUE] \in Local
  BY DEF Local
<1>7. ASSUME NEW built \in File
      PROVE  [r EXCEPT !.built = built] \in Local /\ [r EXCEPT !.pc = "replace", !.built = built] \in Local
  BY DEF Local
<1>8. QED
  BY <1>1, <1>2, <1>3, <1>4, <1>5, <1>6, <1>7

\* The first state has the types.
LEMMA InitType == Init => TypeOK
<1>1. SUFFICES ASSUME Init PROVE TypeOK
  OBVIOUS
<1>2. relayed \in [Scopes -> Versions] /\ offer \in [Scopes -> Versions]
  <2>1. {0, 1} \subseteq Versions
    BY BoundsAssumption DEF Versions
  <2>2. QED
    BY <1>1, <2>1 DEF Init
<1>3. edits \in 0..MaxEdits
  BY <1>1, BoundsAssumption DEF Init
<1>4. QED
  BY <1>1, <1>2, <1>3, ConstantTypes DEF Init, TypeOK

\* An updater that writes something of that kind down has the type.
LEMMA RunType ==
    ASSUME run \in [Updaters -> Local], NEW u \in Updaters, NEW r \in Local,
           run' = [run EXCEPT ![u] = r]
    PROVE  run' \in [Updaters -> Local]
  OBVIOUS

\* Each step of an update keeps every variable in its type.
LEMMA UpdateType == ASSUME TypeOK, NEW u \in Updaters, UpdateStep(u) PROVE TypeOK'
<1>0. run \in [Updaters -> Local] /\ run[u] \in Local
  BY DEF TypeOK
<1>a. ASSUME NEW pc \in Places, Goto(u, pc) PROVE run' \in [Updaters -> Local]
  BY <1>0, <1>a, LocalMoves, RunType DEF Goto
<1>b. ASSUME End(u) PROVE run' \in [Updaters -> Local]
  BY <1>0, <1>b, ConstantTypes, RunType DEF End
<1>1. CASE AskHub(u)
  <2>1. run' \in [Updaters -> Local]
    <3>1. offer \in [Scopes -> Versions]
      BY DEF TypeOK
    <3>2. [run[u] EXCEPT !.pc = "held", !.offers = offer] \in Local
      BY <1>0, <3>1, LocalMoves, Zenon
    <3>3. QED
      BY <1>0, <1>1, <3>2, RunType DEF AskHub
  <2>2. QED
    BY <1>1, <2>1 DEF AskHub, TypeOK, hub, files, daemon
<1>2. CASE ReadHeld(u)
  <2>1. run' \in [Updaters -> Local]
    <3>1. Newer(run[u].offers) \in SUBSET Scopes
      BY DEF Newer, Wanted
    <3>2. Held \in [Scopes -> Versions]
      BY BoundsAssumption DEF Held, TypeOK, Versions
    <3>3. [run[u] EXCEPT !.pc = "offers", !.held = Held, !.todo = Newer(run[u].offers)] \in Local
      BY <1>0, <3>1, <3>2, LocalMoves, Zenon
    <3>4. QED
      BY <1>0, <1>2, <3>3, RunType DEF ReadHeld
  <2>2. QED
    BY <1>2, <2>1 DEF ReadHeld, TypeOK, hub, files, daemon
<1>3. CASE Stage(u)
  <2>1. run' \in [Updaters -> Local]
    <3>1. PICK s \in run[u].todo :
            \/ run' = [run EXCEPT ![u] = [run[u] EXCEPT !.pc = "install", !.now = {s},
                                                        !.todo = run[u].todo \ {s}]]
            \/ End(u)
      BY <1>3 DEF Stage
    <3>2. {s} \in SUBSET Scopes /\ run[u].todo \ {s} \in SUBSET Scopes
      BY <1>0, LocalMoves, Zenon
    <3>3. [run[u] EXCEPT !.pc = "install", !.now = {s}, !.todo = run[u].todo \ {s}] \in Local
      BY <1>0, <3>2, LocalMoves, Zenon
    <3>4. QED
      BY <1>0, <1>b, <3>1, <3>3, RunType
  <2>2. QED
    BY <1>3, <2>1 DEF Stage, TypeOK, hub, files, daemon
<1>4. CASE InstallSource(u)
  <2>1. run' \in [Updaters -> Local]
    BY <1>4, <1>a DEF InstallSource, Places
  <2>2. source' \in [Scopes -> Versions]
    BY <1>0, <1>4, LocalMoves, Zenon DEF InstallSource, TypeOK
  <2>3. QED
    BY <1>4, <2>1, <2>2 DEF InstallSource, TypeOK, hub, daemon
<1>5. CASE SaveManifest(u)
  <2>1. run' \in [Updaters -> Local]
    BY <1>0, <1>5, LocalMoves, RunType DEF SaveManifest
  <2>2. manifest' \in [Scopes -> Versions]
    BY <1>0, <1>5, LocalMoves, Zenon DEF SaveManifest, TypeOK
  <2>3. QED
    BY <1>5, <2>1, <2>2 DEF SaveManifest, TypeOK, hub, daemon
<1>6. CASE AllStaged(u)
  <2>1. run' \in [Updaters -> Local]
    BY <1>6, <1>a DEF AllStaged, Places
  <2>2. QED
    BY <1>6, <2>1 DEF AllStaged, TypeOK, hub, files, daemon
<1>7. CASE Current(u)
  BY <1>7, <1>b DEF Current, TypeOK, hub, files, daemon
<1>8. CASE Detach(u)
  <2>1. run' \in [Updaters -> Local]
    BY <1>8, <1>a DEF Detach, Places
  <2>2. QED
    BY <1>8, <2>1, ConstantTypes DEF Detach, TypeOK, hub, files
<1>9. CASE OpenTemp(u)
  <2>1. run' \in [Updaters -> Local]
    <3>1. Idle.built \in File
      BY ConstantTypes, LocalMoves, Zenon
    <3>2. [run[u] EXCEPT !.pc = "replace", !.built = Idle.built] \in Local
      BY <1>0, <3>1, LocalMoves, Zenon
    <3>3. QED
      BY <1>0, <1>9, <3>2, RunType DEF OpenTemp
  <2>2. QED
    BY <1>9, <2>1 DEF OpenTemp, TypeOK, hub, daemon
<1>10. CASE MergeSources(u)
  <2>1. run' \in [Updaters -> Local]
    <3>1. [of |-> source, whole |-> TRUE] \in File
      BY DEF File, TypeOK
    <3>2. [run[u] EXCEPT !.built = [of |-> source, whole |-> TRUE]] \in Local
      BY <1>0, <3>1, LocalMoves
    <3>3. run' = [run EXCEPT ![u] = [run[u] EXCEPT !.built = [of |-> source, whole |-> TRUE]]]
      BY <1>10 DEF MergeSources
    <3>4. QED
      BY <1>0, <3>2, <3>3, RunType
  <2>2. QED
    BY <1>10, <2>1 DEF MergeSources, TypeOK, hub, files, daemon
<1>11. CASE ReplaceMerged(u)
  <2>1. run' \in [Updaters -> Local]
    BY <1>11, <1>a DEF ReplaceMerged, Places
  <2>2. merged' \in File
    <3>1. \A v \in Updaters : run[v].built \in File
      BY <1>0, LocalMoves, Zenon
    <3>2. QED
      BY <1>11, <3>1 DEF ReplaceMerged, TypeOK
  <2>3. QED
    BY <1>11, <2>1, <2>2 DEF ReplaceMerged, TypeOK, hub, daemon
<1>12. CASE Attach(u)
  <2>1. run' \in [Updaters -> Local]
    BY <1>12, <1>b DEF Attach
  <2>2. attached' \in File /\ disarmed' \in BOOLEAN
    BY <1>12, ConstantTypes DEF Attach, StaysDetached, Reattached, TypeOK
  <2>3. edits' \in 0..MaxEdits /\ failed' \in BOOLEAN
    <3>1. \/ edits' = edits /\ failed' = failed
          \/ edits < MaxEdits /\ edits' = edits + 1 /\ failed' = TRUE
      BY <1>12 DEF Attach
    <3>2. edits \in 0..MaxEdits /\ failed \in BOOLEAN
      BY DEF TypeOK
    <3>3. edits' \in 0..MaxEdits
      <4>1. edits' = edits \/ (edits < MaxEdits /\ edits' = edits + 1)
        BY <3>1, Zenon
      <4>2. QED
        BY <3>2, <4>1, BoundsAssumption
    <3>4. failed' \in BOOLEAN
      BY <3>1, <3>2, Zenon
    <3>5. QED
      BY <3>3, <3>4
  <2>4. QED
    BY <1>12, <2>1, <2>2, <2>3 DEF Attach, TypeOK, hub, files
<1>13. CASE TruncateManifest(u)
  <2>1. run' \in [Updaters -> Local]
    BY <1>13, <1>a DEF TruncateManifest, Places
  <2>2. manifest' \in [Scopes -> Versions]
    BY <1>13, BoundsAssumption DEF TruncateManifest, TypeOK, Versions
  <2>3. QED
    BY <1>13, <2>1, <2>2 DEF TruncateManifest, TypeOK, hub, daemon
<1>14. QED
  BY <1>1, <1>2, <1>3, <1>4, <1>5, <1>6, <1>7, <1>8, <1>9, <1>10, <1>11, <1>12, <1>13 DEF UpdateStep

\* The hub, the readers and failures too.
LEMMA NextType == TypeOK /\ [Next]_vars => TypeOK'
<1>1. SUFFICES ASSUME TypeOK, [Next]_vars PROVE TypeOK'
  OBVIOUS
<1> USE <1>1 DEF TypeOK
<1>2. ASSUME NEW u \in Updaters, Fail(u) \/ Killed(u) PROVE TypeOK'
  <2>1. [Idle EXCEPT !.built = run[u].built] \in Local
    BY ConstantTypes DEF Local
  <2>2. CutShort(u)
    BY <1>2 DEF Fail, Killed
  <2>3. edits' \in 0..MaxEdits
    BY <2>2, BoundsAssumption DEF CutShort, Edit
  <2>4. attached' \in File /\ reading' \in BOOLEAN /\ disarmed' \in BOOLEAN
    BY <1>2, <2>2, ConstantTypes DEF Fail, Killed, CutShort, StaysDetached, Reattached, daemon
  <2>5. run' \in [Updaters -> Local]
    BY <2>1, <2>2 DEF CutShort
  <2>6. QED
    BY <2>2, <2>3, <2>4, <2>5 DEF CutShort, hub
<1>3. CASE BeginRead \/ EndRead
  BY <1>3 DEF BeginRead, EndRead, hub, files
<1>4. CASE HubStages
  <2>1. edits' \in 0..MaxEdits
    BY <1>4, BoundsAssumption DEF HubStages, Edit
  <2>2. relayed' \in [Scopes -> Versions] /\ failed' \in BOOLEAN
    BY <1>4 DEF HubStages
  <2>3. QED
    BY <1>4, <2>1, <2>2 DEF HubStages, files, daemon
<1>5. CASE HubSavesManifest
  BY <1>5 DEF HubSavesManifest, files, daemon
<1>6. CASE UNCHANGED vars
  BY <1>6 DEF vars, hub, files, daemon
<1>7. QED
  BY <1>1, <1>2, <1>3, <1>4, <1>5, <1>6, UpdateType DEF Next, Steps

\* A restart keeps them.
LEMMA RestartType == TypeOK /\ RestartDaemon => TypeOK'
<1>1. SUFFICES ASSUME TypeOK, RestartDaemon PROVE TypeOK'
  OBVIOUS
<1>2. edits' \in 0..MaxEdits
  BY <1>1, BoundsAssumption DEF RestartDaemon, Edit, TypeOK
<1>3. UNCHANGED <<relayed, offer, source, manifest, merged, temp, run, failed>>
      /\ attached' = merged /\ reading' = FALSE /\ disarmed' = FALSE
  BY <1>1 DEF RestartDaemon, Reattached, hub, files
<1>4. QED
  BY <1>1, <1>2, <1>3 DEF TypeOK

\* Every step of the daemon is a step of the update, or of nothing there, or a
\* restart.
LEMMA ViewStep == [ViewNext]_viewed => [Next]_vars \/ RestartDaemon
<1>1. SUFFICES ASSUME [ViewNext]_viewed PROVE [Next]_vars \/ RestartDaemon
  OBVIOUS
<1>2. CASE KilledInUpdate
  BY <1>2, DaemonAssumption DEF KilledInUpdate, Next
<1>3. CASE UpdateGoesOn \/ Rematch \/ Scan \/ UNCHANGED viewed
  BY <1>3 DEF UpdateGoesOn, Rematch, Scan, viewed, Next
<1>4. QED
  BY <1>1, <1>2, <1>3 DEF ViewNext

------------------------------------------------------------------------------
(* The readers' file, with one updater. *)

OneUpdater == Updaters = {"agent"}

\* Readers are away while the lease swaps; after it they have the new file, or
\* what they do not have is in the log.
Leased ==
    /\ merged.whole
    /\ Swapping => attached = Detached /\ ~reading
    /\ ~Swapping => attached = merged \/ (disarmed /\ attached = Detached)

\* The daemon opens what is there.
LEMMA LeasedInit == OneUpdater /\ Init => Leased
  BY DEF OneUpdater, Init, Leased, Swapping, NoFile, Idle

\* Each step of the update keeps readers and lease apart.
LEMMA LeasedUpdate ==
    ASSUME OneUpdater, TypeOK, Leased, UpdateStep("agent") PROVE Leased'
<1> USE DEF OneUpdater, TypeOK, Leased, Swapping
<1> DEFINE u == "agent"
<1>0. u \in Updaters /\ run[u] \in Local
  OBVIOUS
<1>1. ASSUME run'[u].pc \notin {"merge", "replace", "attach"},
             run[u].pc \notin {"merge", "replace", "attach"},
             UNCHANGED <<merged, attached, reading, disarmed>>
      PROVE  Leased'
  BY <1>0, <1>1
<1>2. CASE AskHub(u) \/ ReadHeld(u) \/ InstallSource(u) \/ TruncateManifest(u) \/ SaveManifest(u)
           \/ AllStaged(u) \/ Current(u) \/ Stage(u)
  <2>1. /\ run[u].pc \notin {"merge", "replace", "attach"}
        /\ UNCHANGED <<merged, attached, reading, disarmed>>
    BY <1>2 DEF AskHub, ReadHeld, InstallSource, TruncateManifest, SaveManifest, AllStaged, Current,
                Stage, files, daemon
  <2>2. run'[u].pc \in {"held", "offers", "install", "manifest", "write", "current", "rebuild", "idle"}
    <3>1. CASE AskHub(u)
      BY <1>0, <3>1 DEF AskHub, Local
    <3>2. CASE ReadHeld(u)
      BY <1>0, <3>2 DEF ReadHeld, Local
    <3>3. CASE InstallSource(u) \/ TruncateManifest(u) \/ AllStaged(u)
      <4>1. PICK next \in {"manifest", "write", "rebuild", "current"} :
              run' = [run EXCEPT ![u].pc = next]
        BY <3>3 DEF InstallSource, TruncateManifest, AllStaged, Goto
      <4>2. QED
        BY <1>0, <4>1 DEF Local
    <3>4. CASE SaveManifest(u)
      BY <1>0, <3>4 DEF SaveManifest, Local
    <3>5. CASE Current(u)
      BY <1>0, <3>5 DEF Current, End, Idle
    <3>6. CASE Stage(u)
      <4>1. PICK s : \/ run' = [run EXCEPT ![u] = Idle]
                     \/ run' = [run EXCEPT ![u] = [run[u] EXCEPT !.pc = "install", !.now = {s},
                                                        !.todo = run[u].todo \ {s}]]
        BY <3>6 DEF Stage, End
      <4>2. CASE run' = [run EXCEPT ![u] = Idle]
        BY <1>0, <4>2 DEF Idle
      <4>3. CASE run' # [run EXCEPT ![u] = Idle]
        <5>1. run'[u] = [run[u] EXCEPT !.pc = "install", !.now = {s}, !.todo = run[u].todo \ {s}]
          BY <1>0, <4>1, <4>3
        <5>2. QED
          BY <1>0, <5>1 DEF Local
      <4>4. QED
        BY <4>2, <4>3
    <3>7. QED
      BY <1>2, <3>1, <3>2, <3>3, <3>4, <3>5, <3>6
  <2>3. QED
    BY <1>1, <2>1, <2>2
<1>3. CASE Detach(u)
  BY <1>0, <1>3 DEF Detach, Goto, hub, files, Local
<1>4. CASE OpenTemp(u) \/ MergeSources(u)
  <2>1. run'[u].pc = "replace"
    <3>1. CASE OpenTemp(u)
      BY <1>0, <3>1 DEF OpenTemp, Local
    <3>2. CASE MergeSources(u)
      BY <1>0, <3>2 DEF MergeSources, Local
    <3>3. QED
      BY <1>4, <3>1, <3>2
  <2>2. QED
    BY <1>4, <2>1 DEF OpenTemp, MergeSources, files, daemon
<1>5. CASE ReplaceMerged(u)
  <2>1. merged'.whole
    BY <1>5 DEF ReplaceMerged
  <2>2. QED
    BY <1>0, <1>5, <2>1 DEF ReplaceMerged, Goto, hub, daemon, Local
<1>6. CASE Attach(u)
  <2>1. run'[u].pc = "idle" /\ merged' = merged
    BY <1>0, <1>6 DEF Attach, End, Idle, files
  <2>2. Reattached \/ StaysDetached
    BY <1>6 DEF Attach
  <2>3. QED
    BY <2>1, <2>2 DEF Reattached, StaysDetached
<1>7. QED
  BY <1>2, <1>3, <1>4, <1>5, <1>6 DEF UpdateStep

\* So does everything else.
LEMMA LeasedNext == OneUpdater /\ TypeOK /\ Leased /\ [Next]_vars => Leased'
<1>1. SUFFICES ASSUME OneUpdater, TypeOK, Leased, [Next]_vars PROVE Leased'
  OBVIOUS
<1> USE <1>1 DEF OneUpdater, TypeOK, Leased, Swapping
<1>2. CASE Fail("agent") \/ Killed("agent")
  <2>1. run'["agent"].pc = "idle" /\ merged' = merged
    BY <1>2 DEF Fail, Killed, CutShort, Idle
  <2>2. \/ Reattached \/ StaysDetached
        \/ ~Swapping /\ UNCHANGED <<attached, disarmed>>
    BY <1>2 DEF Fail, Killed
  <2>3. QED
    BY <2>1, <2>2 DEF Reattached, StaysDetached
<1>3. CASE BeginRead \/ EndRead
  BY <1>3 DEF BeginRead, EndRead, hub, files
<1>4. CASE HubStages \/ HubSavesManifest \/ UNCHANGED vars
  BY <1>4 DEF HubStages, HubSavesManifest, vars, hub, files, daemon
<1>5. QED
  BY <1>2, <1>3, <1>4, LeasedUpdate DEF Next, Steps

\* A restarted daemon opens the file anew.
LEMMA LeasedRestart == OneUpdater /\ TypeOK /\ Leased /\ RestartDaemon => Leased'
  BY DEF OneUpdater, TypeOK, Leased, RestartDaemon, Reattached, Swapping, hub, files

\* What readers need follows.
LEMMA LeasedReaders == OneUpdater /\ TypeOK /\ Leased => ReadersHaveTheFile
  BY DEF OneUpdater, TypeOK, Leased, ReadersHaveTheFile, Detached

------------------------------------------------------------------------------
(* No bundle goes back, with one updater. *)

\* g holds every scope f does, in no older a version.
Kept(f, g) ==
    \A s \in Scopes : VersionOf(f[s]) <= VersionOf(g[s]) /\ (f[s] # 0 => g[s] # 0)

\* Nothing is lost in standing still...
LEMMA KeptSame == \A f \in [Scopes -> Versions] : Kept(f, f)
  BY VersionType DEF Kept

\* ... or in two steps.
LEMMA KeptKept ==
    ASSUME NEW f \in [Scopes -> Versions], NEW g \in [Scopes -> Versions],
           NEW h \in [Scopes -> Versions], Kept(f, g), Kept(g, h)
    PROVE  Kept(f, h)
  BY VersionType DEF Kept

\* The merged file is behind the staged ones, and what is being merged or
\* staged lies between.
Ordered ==
    LET r == run["agent"] IN
    /\ Kept(merged.of, source)
    /\ r.pc = "replace" /\ r.built.whole => Kept(merged.of, r.built.of) /\ Kept(r.built.of, source)
    /\ r.pc \in {"offers", "install", "manifest", "write"} => \A s \in r.todo : r.offers[s] # 0
    /\ r.pc = "install" =>
          \A s \in r.now : r.offers[s] # 0 /\ VersionOf(source[s]) <= VersionOf(r.offers[s])

\* Nothing is merged at first.
LEMMA OrderedInit == OneUpdater /\ Init => Ordered
<1>1. SUFFICES ASSUME OneUpdater, Init PROVE Ordered
  OBVIOUS
<1>2. merged.of = None /\ source = None /\ run["agent"].pc = "idle"
  BY <1>1 DEF OneUpdater, Init, NoFile, Idle
<1>3. QED
  BY <1>2, KeptSame, ConstantTypes DEF Ordered

\* A step that leaves the files and what is merged alone, and lists no news.
LEMMA OrderedSame ==
    ASSUME OneUpdater, TypeOK, Ordered, UNCHANGED <<source, merged>>,
           run'["agent"].pc \notin {"offers", "install", "manifest", "write"},
           \/ run'["agent"].pc # "replace"
           \/ ~run'["agent"].built.whole
           \/ run'["agent"].built = run["agent"].built /\ run["agent"].pc = "replace"
    PROVE  Ordered'
  BY DEF Ordered, Kept

\* No step of the update puts an older bundle in place.
LEMMA OrderedUpdate ==
    ASSUME OneUpdater, TypeOK, Ordered, UpdateStep("agent")
    PROVE  Ordered' /\ Kept(merged.of, merged'.of) /\ Kept(source, source')
<1> DEFINE u == "agent"
<1>0. /\ u \in Updaters /\ run \in [Updaters -> Local] /\ run[u] \in Local
      /\ merged.of \in [Scopes -> Versions] /\ source \in [Scopes -> Versions]
      /\ run[u].offers \in [Scopes -> Versions] /\ run[u].built.of \in [Scopes -> Versions]
  BY DEF OneUpdater, TypeOK, Local, File
<1>1. ASSUME UNCHANGED <<source, merged>>
      PROVE  Kept(merged.of, merged'.of) /\ Kept(source, source')
  BY <1>0, <1>1, KeptSame
<1>2. CASE AskHub(u)
  <2>1. run'[u].pc = "held"
    BY <1>0, <1>2 DEF AskHub, Local
  <2>2. QED
    BY <1>1, <1>2, <2>1, OrderedSame DEF AskHub, files
<1>3. CASE ReadHeld(u)
  <2>1. run'[u].pc = "offers" /\ run'[u].todo = Newer(run[u].offers) /\ run'[u].offers = run[u].offers
    BY <1>0, <1>3 DEF ReadHeld, Local
  <2>2. \A s \in Newer(run[u].offers) : run[u].offers[s] # 0
    BY DEF Newer
  <2>3. UNCHANGED <<source, merged>>
    BY <1>3 DEF ReadHeld, files
  <2>4. QED
    BY <1>1, <2>1, <2>2, <2>3 DEF Ordered, Kept
<1>4. CASE Stage(u)
  <2>1. UNCHANGED <<source, merged>>
    BY <1>4 DEF Stage, files
  <2>2. PICK s \in run[u].todo :
              IF relayed[s] = run[u].offers[s] /\ VersionOf(relayed[s]) >= VersionOf(source[s])
                THEN run' = [run EXCEPT ![u] = [run[u] EXCEPT !.pc = "install", !.now = {s},
                                                          !.todo = run[u].todo \ {s}]]
                ELSE run' = [run EXCEPT ![u] = Idle]
    BY <1>4 DEF Stage, End
  <2>3. CASE run' = [run EXCEPT ![u] = Idle]
    <3>1. run'[u].pc = "idle"
      BY <1>0, <2>3 DEF Idle
    <3>2. QED
      BY <1>1, <2>1, <3>1, OrderedSame
  <2>4. CASE run' # [run EXCEPT ![u] = Idle]
    <3>1. /\ run'[u].pc = "install" /\ run'[u].now = {s} /\ run'[u].todo \subseteq run[u].todo
          /\ run'[u].offers = run[u].offers
      <4>1. run' = [run EXCEPT ![u] = [run[u] EXCEPT !.pc = "install", !.now = {s},
                                                 !.todo = run[u].todo \ {s}]]
        BY <2>2, <2>4
      <4>2. run'[u] = [run[u] EXCEPT !.pc = "install", !.now = {s}, !.todo = run[u].todo \ {s}]
        BY <1>0, <4>1
      <4>3. QED
        BY <1>0, <4>2 DEF Local
    <3>2. run[u].offers[s] # 0
      BY <1>4, <2>2 DEF Ordered, Stage
    <3>3. VersionOf(source[s]) <= VersionOf(run[u].offers[s])
      <4>1. s \in Scopes
        BY <1>0, <2>2 DEF Local
      <4>2. VersionOf(source[s]) \in Int /\ VersionOf(run[u].offers[s]) \in Int
        BY <1>0, <4>1, VersionType
      <4>3. QED
        BY <2>2, <2>4, <4>2
    <3>4. \A t \in run[u].todo : run[u].offers[t] # 0
      BY <1>4 DEF Ordered, Stage
    <3>5. QED
      BY <1>1, <2>1, <3>1, <3>2, <3>3, <3>4 DEF Ordered, Kept
  <2>5. QED
    BY <2>3, <2>4
<1>5. CASE InstallSource(u)
  <2>1. /\ run'[u].pc = "manifest" /\ run'[u].todo = run[u].todo
        /\ run'[u].offers = run[u].offers
    BY <1>0, <1>5 DEF InstallSource, Goto, Local
  <2>2. Kept(source, source')
    <3>1. SUFFICES ASSUME NEW s \in Scopes
                   PROVE  /\ VersionOf(source[s]) <= VersionOf(source'[s])
                          /\ source[s] # 0 => source'[s] # 0
      BY DEF Kept
    <3>2. CASE s \in run[u].now
      BY <1>5, <3>2 DEF InstallSource, Ordered
    <3>3. CASE s \notin run[u].now
      <4>1. source'[s] = source[s] /\ VersionOf(source[s]) \in Int
        BY <1>0, <1>5, <3>3, VersionType DEF InstallSource
      <4>2. QED
        BY <4>1
    <3>4. QED
      BY <3>2, <3>3
  <2>3. source' \in [Scopes -> Versions]
    BY <1>0, <1>5 DEF InstallSource
  <2>4. merged' = merged /\ Kept(merged.of, source')
    BY <1>0, <1>5, <2>2, <2>3, KeptKept DEF InstallSource, Ordered
  <2>5. \A s \in run[u].todo : run[u].offers[s] # 0
    BY <1>5 DEF Ordered, InstallSource
  <2>6. Kept(merged.of, merged'.of)
    BY <1>0, <2>4, KeptSame
  <2>7. QED
    BY <2>1, <2>2, <2>4, <2>5, <2>6 DEF Ordered
<1>6. CASE TruncateManifest(u) \/ SaveManifest(u)
  <2>1. /\ run'[u].pc \in {"write", "offers"} /\ run'[u].todo = run[u].todo
        /\ run'[u].offers = run[u].offers
    <3>1. CASE TruncateManifest(u)
      BY <1>0, <3>1 DEF TruncateManifest, Goto, Local
    <3>2. CASE SaveManifest(u)
      BY <1>0, <3>2 DEF SaveManifest, Local
    <3>3. QED
      BY <1>6, <3>1, <3>2
  <2>2. \A s \in run[u].todo : run[u].offers[s] # 0
    BY <1>6 DEF Ordered, TruncateManifest, SaveManifest
  <2>3. UNCHANGED <<source, merged>>
    BY <1>6 DEF TruncateManifest, SaveManifest
  <2>4. QED
    BY <1>1, <2>1, <2>2, <2>3 DEF Ordered, Kept
<1>7. CASE AllStaged(u) \/ Current(u) \/ Detach(u) \/ Attach(u)
  <2>1. PICK next \in {"current", "rebuild", "merge"} :
              run' = [run EXCEPT ![u].pc = next] \/ run' = [run EXCEPT ![u] = Idle]
    BY <1>7 DEF AllStaged, Current, Detach, Attach, Goto, End
  <2>2. run'[u].pc \in {"current", "rebuild", "merge", "idle"}
    BY <1>0, <2>1 DEF Idle, Local
  <2>3. UNCHANGED <<source, merged>>
    BY <1>7 DEF AllStaged, Current, Detach, Attach, files
  <2>4. QED
    BY <1>1, <2>2, <2>3, OrderedSame
<1>8. CASE OpenTemp(u)
  <2>1. run'[u].pc = "replace" /\ ~run'[u].built.whole
    BY <1>0, <1>8 DEF OpenTemp, Idle, Detached, Local
  <2>2. QED
    BY <1>1, <1>8, <2>1, OrderedSame DEF OpenTemp
<1>9. CASE MergeSources(u)
  <2>1. run'[u].pc = "replace" /\ run'[u].built.of = source
    BY <1>0, <1>9 DEF MergeSources, Local
  <2>2. UNCHANGED <<source, merged>>
    BY <1>9 DEF MergeSources, files
  <2>3. Kept(source, source) /\ Kept(merged.of, source)
    BY <1>0, KeptSame DEF Ordered
  <2>4. QED
    BY <1>1, <2>1, <2>2, <2>3 DEF Ordered
<1>10. CASE ReplaceMerged(u)
  <2>1. run'[u].pc = "attach"
    BY <1>0, <1>10 DEF ReplaceMerged, Goto, Local
  <2>2. merged' = merged \/ merged' = run[u].built
    BY <1>10 DEF ReplaceMerged, OneUpdater, TypeOK
  <2>3. source' = source /\ Kept(merged.of, run[u].built.of) /\ Kept(run[u].built.of, source)
        /\ Kept(merged.of, source)
    BY <1>10 DEF ReplaceMerged, Ordered
  <2>4. Kept(merged.of, merged'.of) /\ Kept(merged'.of, source) /\ Kept(source, source)
    BY <1>0, <2>2, <2>3, KeptSame
  <2>5. QED
    BY <2>1, <2>3, <2>4 DEF Ordered
<1>11. QED
  BY <1>2, <1>3, <1>4, <1>5, <1>6, <1>7, <1>8, <1>9, <1>10 DEF UpdateStep

\* Nothing else touches the files.
LEMMA OrderedNext ==
    OneUpdater /\ TypeOK /\ Ordered /\ ([Next]_vars \/ RestartDaemon)
        => Ordered' /\ Kept(merged.of, merged'.of) /\ Kept(source, source')
<1>1. SUFFICES ASSUME OneUpdater, TypeOK, Ordered, [Next]_vars \/ RestartDaemon
               PROVE  Ordered' /\ Kept(merged.of, merged'.of) /\ Kept(source, source')
  OBVIOUS
<1>2. merged.of \in [Scopes -> Versions] /\ source \in [Scopes -> Versions]
  BY <1>1 DEF TypeOK, File
<1>3. CASE Fail("agent") \/ Killed("agent")
  <2>1. run'["agent"].pc = "idle" /\ UNCHANGED <<source, merged>>
    BY <1>1, <1>3 DEF Fail, Killed, CutShort, Idle, OneUpdater, TypeOK, Local
  <2>2. QED
    BY <1>1, <1>2, <2>1, OrderedSame, KeptSame
<1>4. CASE BeginRead \/ EndRead \/ HubStages \/ HubSavesManifest \/ RestartDaemon \/ UNCHANGED vars
  <2>1. UNCHANGED <<run, source, merged>>
    BY <1>4 DEF BeginRead, EndRead, HubStages, HubSavesManifest, RestartDaemon, vars, files
  <2>2. QED
    BY <1>1, <1>2, <2>1, KeptSame DEF Ordered, Kept
<1>5. QED
  BY <1>1, <1>3, <1>4, OrderedUpdate DEF Next, Steps, OneUpdater

------------------------------------------------------------------------------
(* What the daemon took down when it started. *)

Coverage ==
    /\ known.covered \subseteq Covers(merged)
    /\ known.attached => known.covered # {}

\* A whole file that is there covers something.
LEMMA OpenedCovers ==
    ASSUME merged \in File, merged.whole
    PROVE  Open(merged).covered \subseteq Covers(merged)
           /\ (Open(merged).attached => Open(merged).covered # {})
<1>1. SUFFICES ASSUME merged # NoFile, Covers(merged) = {} PROVE FALSE
  BY DEF Open
<1>2. \A s \in Scopes : merged.of[s] = 0
  BY <1>1 DEF Covers
<1>3. merged.of = None
  BY <1>2 DEF File, None
<1>4. merged = [of |-> None, whole |-> TRUE]
  BY <1>3 DEF File
<1>5. QED
  BY <1>1, <1>4 DEF NoFile

\* What was covered at start stays covered, for no scope leaves the merged file.
LEMMA CoverageNext ==
    ASSUME OneUpdater, TypeOK, TypeOK', Leased, Leased', Ordered, Coverage, [ViewNext]_viewed
    PROVE  Coverage'
<1>1. Kept(merged.of, merged'.of)
  BY ViewStep, OrderedNext
<1>2. Covers(merged) \subseteq Covers(merged)'
  BY <1>1 DEF Covers, Kept
<1>3. CASE known' = known
  BY <1>2, <1>3 DEF Coverage
<1>4. CASE KilledInUpdate \/ RestartDaemon
  <2>1. known' = Open(merged)
    BY <1>4 DEF KilledInUpdate, RestartDaemon
  <2>2. merged \in File /\ merged.whole
    BY DEF TypeOK, Leased
  <2>3. QED
    BY <1>2, <2>1, <2>2, OpenedCovers DEF Coverage
<1>5. QED
  BY <1>3, <1>4 DEF ViewNext, UpdateGoesOn, Rematch, Scan, viewed, viewVars

\* A gate that judges looks in a file that has the ecosystem.
LEMMA CoverageJudges ==
    ASSUME OneUpdater, TypeOK, Leased, Coverage PROVE JudgedByAFile
<1>1. SUFFICES ASSUME reading, NEW s \in Scopes, ~Degraded(s), attached # Detached
               PROVE  attached.of[s] # 0
  BY DEF JudgedByAFile
<1>2. attached = merged
  BY <1>1 DEF Leased
<1>3. s \in known.covered
  BY <1>1 DEF Degraded, Coverage
<1>4. QED
  BY <1>2, <1>3 DEF Coverage, Covers

------------------------------------------------------------------------------
(* The theorems. *)

\* Every variable of the update keeps its type in every behaviour of the
\* daemon, however many processes update.
THEOREM BundlesTypeOK == ViewSpec => []TypeOK
<1>1. ViewInit => TypeOK
  BY InitType DEF ViewInit
<1>2. TypeOK /\ [ViewNext]_viewed => TypeOK'
  <2>1. SUFFICES ASSUME TypeOK, [ViewNext]_viewed PROVE TypeOK'
    OBVIOUS
  <2>2. QED
    BY <2>1, NextType, RestartType, ViewStep
<1>3. QED
  BY <1>1, <1>2, PTL DEF ViewSpec

\* The invariant behind the three theorems that follow.
BundleInv == TypeOK /\ Leased /\ Ordered /\ Coverage

\* It holds in every behaviour.
LEMMA BundleInvariant == ASSUME OneUpdater PROVE ViewSpec => []BundleInv
<1>1. ViewInit => BundleInv
  <2>1. SUFFICES ASSUME ViewInit PROVE BundleInv
    OBVIOUS
  <2>2. TypeOK /\ Leased /\ Ordered
    BY <2>1, InitType, LeasedInit, OrderedInit DEF ViewInit
  <2>3. Coverage
    BY <2>1, <2>2, OpenedCovers DEF ViewInit, Coverage, TypeOK, Leased
  <2>4. QED
    BY <2>2, <2>3 DEF BundleInv
<1>2. BundleInv /\ [ViewNext]_viewed => BundleInv'
  <2>1. SUFFICES ASSUME BundleInv, [ViewNext]_viewed PROVE BundleInv'
    OBVIOUS
  <2>2. TypeOK /\ Leased /\ Ordered /\ Coverage
    BY <2>1 DEF BundleInv
  <2>3. TypeOK'
    BY <2>1, <2>2, NextType, RestartType, ViewStep
  <2>4. Leased' /\ Ordered'
    BY <2>1, <2>2, LeasedNext, LeasedRestart, OrderedNext, ViewStep
  <2>5. Coverage'
    BY <2>1, <2>2, <2>3, <2>4, CoverageNext
  <2>6. QED
    BY <2>3, <2>4, <2>5 DEF BundleInv
<1>3. QED
  BY <1>1, <1>2, PTL DEF ViewSpec

\* While only the daemon updates, the merged file is whole, nobody reads during a
\* swap, and after one every handle has the new file or the log says that it has
\* none: neither a failed request nor a kill at any step leaves the lease or the
\* rename of bundle.Install half done, and a handle that does not reattach
\* never keeps the old file.
THEOREM ReadersSafe == ASSUME OneUpdater PROVE ViewSpec => []ReadersHaveTheFile
<1>1. BundleInv => ReadersHaveTheFile
  BY LeasedReaders DEF BundleInv
<1>2. QED
  BY <1>1, BundleInvariant, PTL

\* The gate, which asks for its coverage once, when the daemon starts, never
\* judges a package by a file that lacks its ecosystem.
THEOREM GatesJudge == ASSUME OneUpdater PROVE ViewSpec => []JudgedByAFile
<1>1. BundleInv => JudgedByAFile
  BY CoverageJudges DEF BundleInv
<1>2. QED
  BY <1>1, BundleInvariant, PTL

\* No step takes a scope back to an older version, in the merged file or among
\* the staged ones, whatever the hub serves.
THEOREM VersionsKept == ASSUME OneUpdater PROVE ViewSpec => NeverOlder
<1>1. BundleInv /\ BundleInv' /\ [ViewNext]_viewed => [NoOlder]_vars
  <2>1. SUFFICES ASSUME BundleInv, BundleInv', [ViewNext]_viewed PROVE NoOlder
    OBVIOUS
  <2>2. Kept(merged.of, merged'.of) /\ Kept(source, source')
    BY <2>1, OrderedNext, ViewStep DEF BundleInv
  <2>3. SUFFICES ASSUME NEW s \in Scopes
                 PROVE  /\ VersionOf(merged'.of[s]) >= VersionOf(merged.of[s])
                        /\ VersionOf(source'[s]) >= VersionOf(source[s])
    BY DEF NoOlder
  <2>4. /\ merged.of[s] \in Versions /\ source[s] \in Versions
        /\ merged'.of[s] \in Versions /\ source'[s] \in Versions
    BY <2>1 DEF BundleInv, TypeOK, File
  <2>5. QED
    BY <2>2, <2>4, VersionType DEF Kept
<1>2. QED
  BY <1>1, BundleInvariant, PTL DEF NeverOlder, ViewSpec

=============================================================================
