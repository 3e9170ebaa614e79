# pkgwatch in TLA+

pkgwatch keeps an inventory of the packages installed on a machine, matches it
against signed advisory bundles, stands between package managers and their
registries, and reports to a hub that shows a fleet of such machines. This
directory holds TLA+ modules for its core, the TLC configurations that check
them, and theorems that TLAPS proves. Every definition names its source lines
in `PROJECT.json` ("map").

## 1. The system

One binary. On a machine it runs as a daemon (`agent/`), as a CLI typed by a
person, and as a wrapper around `npm` and `pip`; on a server it runs as the hub
(`hub/`). The daemon, the CLI and every wrapper are separate processes over the
same SQLite file (`agent.db`) and the same directory of bundles. Nothing but
SQLite's transactions orders them.

| part | keeps | does | must hold |
|---|---|---|---|
| event sync, agent (`agent/sync.go`, `repo/syncqueue.go`, `repo/retention.go`) | `events` with a synced flag, `hub_state` markers | trims the queue to a cap, pushes the oldest batch, moves the cursor, halts on a refusal | every event is owed, held by the hub, or given up by the cap; the least severe first |
| hub ingest (`hub/sync.go`, `hub/api.go`, `repo/fleet.go`, `repo/devices.go`) | `devices`, `fleet_*` tables | authenticates once per request, stores table after table, touches the device last | a device seen is a device stored; a lowered level holds no inventory |
| hub pages (`web/fleet.go`, `web/fleetpages.go`, `web/rotate.go`) | nothing | ask the tables one statement at a time | what is shown is no older than the report it is shown beside; "nowhere" means looked |
| scanner (`scanner/`, `collect/`, `repo/packages.go`, `repo/presence.go`) | `packages` (gone_at, install_path, path_mtime) | reads what changed, collapses copies, upserts, retires | what is installed is listed, what is not is retired, and nothing else |
| watch and triage (`watch/`, `repo/findings.go`, `repo/triage.go`) | `findings` with state, score, ignore_until | matches, records once, announces, rescores, resolves, reopens, expires | news is announced once; a person's decision is kept until it ends |
| quarantine (`quarantine/`, `cli/quarantine.go`) | archives, `quarantine` rows | packs, reads back, records, removes, marks; restores and compares | nothing is removed that is not held; a restore that reports success gave back what was taken |
| bundle sync (`bundlesync/`, `bundle/`, `agent/lease.go`) | bundle files, manifests, the merged `advisories.db`, open handles | fetches newer versions, refuses older ones, merges, swaps under a lease | no half-written merge is read, nothing goes back, what is published arrives |
| gate (`gate/`, `match/`) | nothing but the attached bundle | judges versions, filters listings, refuses downloads | what is known to be bad is refused; the buffer leaves a choice |
| install session (`cli/wrap.go`, `repo/sessions.go`) | `install_sessions`, `install_decisions`, `session_approvals` | runs a tool through a gate, reads the refusals, overrides, runs again | what went through is what the session says |
| matcher (`match/`, `version/`) | nothing | compares versions in four ecosystems, evaluates ranges, names a fix | a verdict is that of the ecosystem's written rules, or admits it could not read |
| daemon's view (`agent/agent.go`, `gate/open.go`, `agent/bundles.go`, `agent/periodic.go`) | what was found when the process started: a bundle, its coverage | serves gates and pages, rematches after a bundle, scans on a timer | no ecosystem is judged by a file that lacks it; what was merged is matched |
| timeline page (`web/timeline.go`, `static/app.js`) | a cursor in the page, one in the stream's handler | a page of rows, then a stream of newer ones, reconnecting | no hole; what is queued appears |
| script guard (`scriptguard/`, `cli/scripts.go`, `repo/scripts.go`) | npm's user config, `script_allowlist` | turns install scripts off, allows one package and rebuilds it, revokes | no script runs before its allowance is on file; a command ends though a script may not |
| pairing (`cli/pair.go`, `hub/api.go`, `hub/tls.go`, `fleet/pin.go`) | `hub_state`, `devices`, `pair_codes`, certificate and key | enrols with a one-time code, pins the certificate, builds a client per push | a pairing that ended well is whole; the token goes to the pinned hub only |
| rotation checklist, publisher, dashboard login, configuration, secrets, migrations | | | not modelled, see 6 |

They meet in `agent.db` (daemon, command line, wrappers), in `hub.db` (API and
pages), in the files under the data directory (bundles, archives, certificates),
and in requests from agent to hub, which are the only messages; the hub calls
nobody. Within the daemon, a gate or a page holds the lease for reading while a
bundle update holds it for writing.

What is hard in it: statements of several processes interleave on one database;
requests time out and are served afterwards; files are replaced under open
handles; processes are killed between two steps of a handler; caches (a
directory's modification time, a tool's HTTP cache, a listing already judged)
are used after they have gone stale; queues have caps. `PROJECT.json`
("hazards") lists these, each at its line.

## 2. Modules

`EventSync` - the road of an event from the agent's database to the hub's
timeline. `rows`/`synced` are the `events` table, `pc` is where `syncOnce` is,
`wire` the push or its answer, `orphans` the requests whose sender gave up.
`StartSync`, `TrimQueue`, `RecordDropped`, `SendPush`, `Acknowledged`,
`Refused`, `TryLater`, `WrongCertificate` are its steps in order;
`Authenticate` and `IngestEvents` the hub's; `Prune` is a scan's retention;
`Crash`, `NetworkError`, `ReadFails` and `TrimOrNoticeFails` may happen at any
step they apply to; where the code logs a failed write of marker, cursor or event
and goes on, so does the step (`NotWritten`).

`FleetTimeline` - what that road promises to the reader of the timeline page,
with no queue, cursor, request or crash. `EventSync` implements it:
`owed <- Queue`, `shown <- timeline`, `abandoned <- givenUp`.

`EventSyncProofs` - the theorems about what a push brings: about `EventSync` and
`TimelinePage`, and about the fleet's tables and pages below (it EXTENDS
`TimelinePage` and `FleetPages`, which have no name in common).

`TimelinePage` (EXTENDS `EventSync`) - the other end of that road: one timeline
page in a browser. `log` is `fleet_events` by id, `since` the cursor the page
carries, `cursor` the local variable of the handler that serves its stream,
`list` what is on screen. `OpenPage`, `Connect`, `Tick` and `Drop` interleave
with everything `EventSync` does (`SyncGoesOn`), so its runs go from the
machine to the screen. A tick puts every row it read on screen: the row's template
is built in and prints fields of the row, so rendering does not fail.

`FleetSnapshot` - the other half of a push: findings, inventory, rotation,
quarantine and credentials, each replaced whole in a transaction of its own.
`table[t]` is the version of the machine that table was read from. Two pushes
may be in flight, the sync level and the status change under them, and
`TouchDevice` comes last. Lowering the level is two statements
(`SetDeviceSyncLevel`, `ClearInventory`), and the second may fail or never run
(`ClearingFails`): nothing tries it again.

`FleetPages` (EXTENDS `FleetSnapshot`) - the hub's pages over those tables.
`view` is the page being built: `HandleFleet` and `FleetFindingCounts`,
`InventoryCoverage` and `SearchPackages`, `FleetMalwareFindings`,
`FleetRotation` and `FleetCredentials` are statements, and anything in
`FleetSnapshot` may happen between two of a page. Pages of one statement are
operators (`HasNone`, `PathReplicated`).

`Inventory` - a scan up to the watcher. The disk is `Held`: projects and global
directories with a modification time, the host's package database, containers
with theirs; `rows`, `gone`, `dirOf`, `mtimeOf` are the `packages` table. A scan
goes `Begin`, `StatDirs`, `Collect`, `ListContainers`, `ReadContainer`,
`UpsertPackages`, `MarkSuperseded`, `MarkGone`, and the disk changes between any
two. Times are whole seconds, the disk's and the table's, and `Tick` passes one:
a directory may change in the second a scan has on record for it (`twice`), and
rows written by another scan in one's own second are not superseded (`seenNow`).
A place may be `Unreadable`, which the scan counts (`skipped`), or `PassedOver`,
which it does not. A system package may be on the host and in a container at
once, and then has one row. `MCInventory` makes the versions of the package
symmetric, `InventoryProofs` has the theorems.

`Findings` - the life of a finding. A pass goes through the statements of
`watch.Run` one by one (`pass[w].pc`), other passes, people (`AcknowledgeFinding`,
`IgnoreFinding`), quarantine and restore run in between, and any of them can be
cut short. A package stands for its purl and its one advisory. A scan takes its
inventory in four steps, `Collect`, `UpsertPackages`, `MarkSuperseded` and
`Reconcile`: it may pass over any directories, leave what it should have
superseded, and be killed after each; `Inventory` has the rules by which it does.
`FindingsProofs` has the theorems.

`Quarantine` - one package put away and put back. `disk` and `dir` are its
directory, `archive` the files in the quarantine directory, `row` the table,
`proc` where each command is. A keeper goes `Begin` (and asks), `Pack`, `Walk`,
`PackFile`, `Packed`, `VerifyArchive`, `RecordQuarantine`, `RemoveFile`,
`RemoveDir`, `MarkFindings`; a restorer `ReadItem`, `CheckPaths`, `OpenArchive`,
`UnpackFile`, `ListTree`, `ReadFile`, `CompareDigests`, `MarkRestored`,
`ReopenFindings`. Trees are walked first and read file by file afterwards, so a
package manager or a second command may write between any two; `written` (history)
is what changed while a restorer read. A file is its content, and a digest equals
another only if the trees it was computed from do. `Findings` has the same two
commands from the finding's side, in fewer steps. `MCQuarantine` makes the files
and the processes of a kind symmetric, `QuarantineProofs` has the theorems.

`Custody` - what the two commands promise the owner of the package, with no
archive, row, command or fault: every file is installed, held or both. `Quarantine`
implements it: `here <- Tree` (the package's directory), `held <- InCustody` (the
archives of recorded rows that nobody deleted), `discarded <- deleted # {}`.
`RemoveFile` is a `Take`, `UnpackFile` a `GiveBack`, a row that is written a
`Hold`; everything else stutters, or is the owner's.

`Pairing` - how an agent comes to have a hub. `store` is `hub_state`, written
row by row by `Pair`/`StoreRow` and read row by row by `HubState`; `enrol` the
enrolment requests, `codes` and `devices` the hub's tables, `certFile`/`keyFile`
and `starter` the hub's certificate and who is making it, `daemon` the sync loop
up to the answer of one push. An address is https or http, and a hub may run with
`tls = false` (`InClear`): such a pairing has no certificate and its push needs no
pin. Pairings are numbered: pairing n is a device key, the ID computed from it and
the token returned for it. `MCPairing` makes the codes symmetric, `PairingProofs`
has the theorems.

`BundleSync` - how a build becomes what matches read. On the hub, `relayed` is
the bundle file and `offer` the build in its manifest, replaced one after the
other and perhaps between an agent's list and its fetch. `VersionOf` is the day
of a build: two builds of one day differ in their digest and not in their
version. On the agent, bundle file (`source`), `manifest` (truncated, then written)
and `merged` file are separate steps, the lease is a readers-writer lock, and
`Fail` and `Killed` cut an update short anywhere. A handle may fail to attach
after a swap: the code logs it and goes on (`StaysDetached`, `disarmed`).

`DaemonView` (EXTENDS `BundleSync`) - what the running daemon makes of it.
`known` is what `Open` found at start and nobody asks again, `due` an installed
bundle not yet rematched, `examined` (history) the newest version of each scope
a pass matched with. `UpdateGoesOn` is a step of `BundleSync`; `Rematch`, `Scan`,
`KilledInUpdate`, `RestartDaemon` are the daemon's. `BundleProofs` has the
theorems about both.

`GateRules` - the gate's rules as operators without state: the verdict of one
version, which of two advisories it is about, the publish buffer, what is left
of a listing, where its tags point.

`InstallSession` (EXTENDS `GateRules`) - one install of one package: listing
judged version by version, downloads judged concurrently, the tool's cache and
its lockfile, the wrapper that reads the decisions, overrides and runs again,
and a bundle swapped under the daemon's gate. `MCInstallSession` gives it
advisories for TLC. `GateProofs` (EXTENDS `InstallSession`) has theorems about
the rules and about an install.

`Matcher` - is an installed version inside an advisory, and which version to
move to, for any ecosystems and comparators (CONSTANT operators). `Affects`,
`InRange` and `FixFor` are the functions of `match/`; the actions are what
happens around them: a match, a person following the advice, upstream amending
or withdrawing the record. `VersionOrder` - the orders of dpkg, apk and PEP 440
and the parsers of the first two, each with a reference: a key read off the
written rules. `Comparators` (EXTENDS both) is `comparatorFrom` and the registry's
entries that are the repository's own; the PEP 440 parse, a regular expression,
is a CONSTANT operator that yields versions. `MCMatcher` gives it fifteen strings,
their characters and that parse as a table. `MatcherProofs` has theorems about
`Matcher` and about the three comparators.

`ScriptGuard` - install scripts of npm packages. `userrc` and `projectrc` are
`ignore-scripts` where npm looks for it, `allowlist` the table, `tree` how a
package is unpacked in a project, `cmd` the step each terminal's command is at,
`strays` rebuilds that outlived the command that started them. `EnableGuard`,
`Enable`, `PrintNeeding`; `DisableGuard`, `Disable`; `Allow`, `StartRebuild`,
`Rebuilt` or `RunFails`; `RevokeScripts`; and npm and people in between. Its
theorems are in `GateProofs`.

The models are connected through their interfaces: `BundleSync` ends where
`InstallSession` and `Findings` begin (the attached advisories), `Inventory`
where `Findings` begins (`present`, `gone`), `DaemonView` says when the match
pass that `Findings` takes apart is run, `Findings` and `Inventory` where
`FleetSnapshot` begins (the version of the machine a push reads).

## 3. Runs

| run | question | bounds |
|---|---|---|
| `sync_safety` | does any order of records, prunes, pushes, lost answers, late requests and kills lose an event, tear the timeline, or make the cap drop the wrong one; is the timeline's promise kept | 3 events of 2 severities, cap 1, batches of 2, one late request. Three events are the least with which a batch is partial, the cap drops one and its notice is recorded |
| `sync_liveness` (`TimelinePage`) | does the queue drain and a revocation heal; does an open page show every event that was queued after it was opened, with no hole | 2 events, cap 1, batches of 1: two pushes are needed, and the cap drops one; a page of 2 rows and a stream of 1 a tick, so that a tick leaves something behind; one row of another device, for a cursor above 0; one broken stream |
| `findings_safety` | triage, passes and quarantine interleaved: is a decision kept, is news announced once | one package (findings share nothing but the baseline flag) whose directory may come to hold another version, a scanner and a rematcher, 3 seconds, 3 outside changes |
| `findings_liveness` | do findings come to follow the packages table, and the disk as long as scans come that passed nothing over; do ignores end | as above with one scanner and 2 seconds |
| `inventory` | is anything missed, left over or wrongly retired by scans that skip, collapse, are killed, share a second with a change or with each other, or cannot read a directory, the engine or a container; does a full scan settle what earlier ones left | two versions of a package that may be in a project, globally, replaced, and moved away and back; a system package on the host and one in a container; an unreadable global directory and container; full and incremental scans, 2 changes after the first state: one during a scan, one between or during the next; 3 seconds: the one on record, one in which a debt is paid, and a later scan |
| `bundles_safety` (`DaemonView`) | half-written merges, detached readers, rollbacks; is an ecosystem judged by a file that lacks it; do builds arrive, and is what arrived matched | two scopes, 3 builds of two days, a file and a manifest replaced apart from each other, 3 outside changes, of which a failure, a kill or a handle that stays detached is one |
| `gate` | can a version known to be bad be handed over unnoticed; do listing and download agree; is a choice left; is clean clean | two versions of which one is a prerelease, a vulnerability and a malware record, one failing lookup, npm and pip, wrapped and shared |
| `fleet` | do pages show what was reported; does "nowhere" mean looked; is a lowered level respected; do tables converge | two pushes in flight, two versions of the machine of which the later has the package, one fault, 2 changes on the pairing page, one page at a time; the one fault may be the clearing that follows a lowered level |
| `match` | is a verdict the one the ecosystem's written rules give; is what could not be read admitted; does advice name the next fix | every advisory of two entries (version or interval) over 15 strings, three ecosystems and one without a comparator: a second entry is what makes a branch, a string read by one ecosystem is unreadable in another |
| `pairing` | is a pairing that ended well whole; does the pin stay good; where does the token go | one terminal, two codes, two pairings and two certificates, each pairing over https or http: what an earlier pairing left half written, and a hub that was rebuilt or started without TLS, are second ones |
| `quarantine` | is anything removed that no archive holds; does a restore that says so give back what was taken; is the promise of `Custody` kept | two files, two commands that put away, one restore, two archives, one fault, one more installation, while files are unpacked and read back too |
| `scripts` | do scripts of a blocked package run before they are allowed; do commands end | 2 packages, 2 projects (one may override the user's config), 2 terminals, 4 outside changes: enough for a revocation, an install and two commands that overlap |

Bounds in guards: `MaxEvents`, `MaxOrphans` (EventSync); `MaxClock`, `MaxEdits`
(Findings); `MaxChanges`, `MaxSeconds` (Inventory); `MaxVersion`, `BuildsPerDay`, `MaxEdits`
(BundleSync); `PageLimit`, `StreamLimit`, `Others`, `MaxDrops` (TimelinePage);
`MaxEdits` (ScriptGuard); `MaxFailures`, `MaxWanted`, two runs (InstallSession);
`MaxVersion`, `Slots`,
`MaxFaults`, `MaxAdmin` (FleetSnapshot); `MaxEntries`, `Published` (Matcher);
`MaxPairings`, `MaxCerts` (Pairing); `MaxIds`, `MaxContent`, `MaxFaults`
(Quarantine); `MaxDigits` (VersionOrder), which stands for the 19 digits of a
64-bit integer. `CHECK_DEADLOCK FALSE` stands where the bounds, or the end of
the one install, stop the model.

Where a run checks a weaker question than one would ask first, the stronger one
is in section 5 with its counterexample. `quarantine` assumes that nobody writes
into the directory while it is being put away (`Quiet`), `inventory` that no project
or os-release is passed over uncounted (`PassedOver = {}`), `pairing` that one
person pairs at a time (`Commands`) and that only the hub makes its certificate
(`Starters`), `bundles_safety` that the daemon is the only updater (`Updaters`),
`findings_safety` that no two passes start in one second (`SameSecond`),
`sync_safety` that `config.toml` names the hub (`HubConfigured`), `scripts` that
killing npm closes the pipes its output is read from (`KillFrees`).

Two configurations ask the questions of a run elsewhere, and pass:
`Inventory_databases.cfg` (`MCInventory`) has a package on the host and in a
container at once, and a host database that cannot be read;
`Quarantine_restore.cfg` (`MCQuarantine`) has two restores at once and is not
`Quiet`. `OnlyTheMissingAreRetired` and `RestoresWhatWasTaken` cover both in general.

Not repeated in a run, because a theorem has them for every value of the
constants: the type invariants of `EventSync`, `Findings`, `Inventory`,
`BundleSync`, `InstallSession`, `Matcher`, `Pairing`, `Quarantine`, `FleetPages`
(`PageTypeOK`, with `FleetSnapshot`'s `FleetTypeOK`) and `ScriptGuard`, `TimelineHasNoGap` of
`EventSync` and `NeverSentBack` of `Matcher`. Each may be added to its
configuration, and holds there.

Every property of a passing run has a mutant: a plausible slip in the code it
is about (a dropped early return, an off-by-one cursor, a missing reset),
defined before the operator it replaces, under which TLC finds the property
violated.

### Fairness

- `EventSync`: the loop's timer fires again and its own statements do not wait
  for anybody (WF; of `RecordDropped` and the failure of that statement, one or
  the other); the client has a 30 s timeout (WF on `NetworkError`); the network
  and the hub may fail any number of times but not for ever (SF on `SendPush`,
  `Authenticate`, the answer that is stored, and the step in which, that answer
  heard, the cursor and the cleared marker are written).
- `TimelinePage`: the script connects and reconnects (WF on `Connect`), the
  handler's ticker fires while the connection stands (WF on `Tick`).
- `Findings`: a started pass goes on, the timers start the next, time passes.
- `BundleSync` and `DaemonView`: an update goes on, a hub that replaced a file
  replaces its manifest, a match pass starts after an update (WF). The swap waits
  for readers, who finish, and Go's `RWMutex` admits no new reader before a
  waiting writer (SF on `Detach`); the scan's ticker fires for ever, and no swap
  waits for the next scan (SF on `Scan`).
- `FleetSnapshot`: the timer fires, the hub serves what it received, the page's
  second statement follows its first or fails.
- `ScriptGuard`: a command goes on by itself and its deadline passes (WF on
  `Proceeds`). That an install script ends is not assumed.
- `Inventory`, `InstallSession`, `Quarantine` and `Pairing` claim no liveness: a
  person starts what they model.

## 4. Proofs

For every number of events, cap, batch size, number of late requests and set of
severities, `EventSyncProofs` proves of `Spec` of `EventSync`:

- `TypeCorrect`, `CapSparesTheSevere` and `SyncedHeld` from the constants'
  assumptions alone;
- `NothingIsLost`, `NoGap` and `TimelineImplemented` (the refinement of
  `FleetTimeline`, initial states and steps) from `HubConfigured`: without it
  `EventSync_unconfigured` has a counterexample to each.

None of the invariants is inductive. `SyncInv` adds two facts about what is on its
way: every batch, waited for or not, was gap-free when it was read and stays so
(`PushesGapFree`: the queue is read oldest first, and events leave it only to the
hub or by being given up), and an answer "ok" means the hub has the batch
(`AnswerIsTrue`). For the cursor less is enough, and holds of a pruned queue too:
no event still owed lies behind a batch (`NothingBehind`). `Oldest` and
`LeastImportant` are defined with `Cardinality`; the lemmas about them say that
what they choose is closed under "older" and "less important".

`PageIsUnbroken`, of the same module, is `PageHasNoHole` of `TimelinePage` for any
page size, tick size, other devices' rows and broken streams. The invariant adds
where a stream stands (`Resumes`: the id it resumes from, and its own cursor, are
rows on screen unless the page was empty) and needs that what a query returns are
the lowest, or highest, rows it could (`Hits`, `AtMost`). Its hypothesis is a page
without a filter; `FilterIsKept` (section 5) shows what becomes of one with.

Of `FleetSnapshot` and `FleetPages`, for any number of pushes in flight, versions,
faults and changes of level and status:

- `LookingChangesNothing`: whoever looks, the hub behaves as without, fairness
  included. What is proved of `FleetSnapshot` therefore holds under the pages;
- `InventoryIsWithdrawn`: where the last change to "findings" ran both its
  statements, and no push admitted at "full" was being stored at that moment, the
  hub has no inventory of the device and takes none, whatever failed half way
  before (`unsettled` is the history of these two exceptions, and
  `InventoryWithdrawn` of section 5 what the first one leaves);
- `CheckInsAreBacked`. The invariant `SnapInv` adds
  that nothing is newer than the machine (`Past`), that a lowered device has no
  push with an inventory left to store unless the page has still to clear it
  (`NoneUnderWay`), and, while pushes do not overlap, that the one in flight is
  newer than every table and what it has stored stands (`Orderly`);
- `PagesAreBacked` and `NowhereWasLookedFor`, from `PageInv`: an inventory that a
  page counted as on file is still there unless it was cleared, and no table has
  fallen behind the report the page was opened with.

`GateProofs`: among finitely many advisories one is beaten by no other, so
`Worst` is defined (`WorstExists`; the order is malware first, then score); a
version hit by an advisory that blocks is refused whatever else hits it and
whenever it was published, and so left out of the listing
(`KnownBadIsRefused`); the buffer never takes the last version that was
neither refused nor too new (`BufferLeavesSomething`); and a tag that stays names
a version that is left (`TagsNameWhatIsLeft`: among finitely many versions there
is a highest, so the tag is not moved to nowhere).

`MatcherProofs`, for every comparator that is a total order of what it reads:
a clean verdict rests on intervals that were read and a hit on one that was or
on a named version (`Sure`), a branch with a fix is shown its next fix
(`NextFix`), and where each interval has a readable fix the advice never leads
to what is installed or was left before (`OnlyUp`). `NeverSentBack` is not
inductive: `Climbing` adds that the installed version lies above all that were
left, and `Current` that a finding is what `Affects` and `FixFor` say of the
present advisory.

That a comparator is such an order is `CompareAssumption`. Of the three that the
repository wrote it is proved, for all versions and not the fifteen of the run:
`DpkgIsAnOrder`, `ApkIsAnOrder`, `Pep440IsAnOrder`, and with the parsers of dpkg
and apk shown to yield versions, `OwnComparatorsOrder` states the assumption's
body for every ecosystem of theirs without citing it. They are also the right
orders: `DpkgByTheRules`, `ApkByTheRules` and `Pep440ByTheRules` say that the
loops of `Compare` answer as the keys of the written rules do, and `ByTheRules`
that every verdict about a Debian, Alpine or PyPI package is the one the rules
give. The argument is the same three times. A version has keys of integers, and
keys are compared from the left, the shorter as if it went on with zeros; such a
comparison is an order because each place is one (`DifferenceChain`, by the first
place that differs). What remains is that each loop answers as its keys do: a
longer number without leading zeros is a larger one (`DigitsByValue`), a round
of `compareFragment` leaves less than it found, so the keys see all of it
(`RoundShrinks`, `RestEnds`), "shorter first" is one more place
(`ShorterFirst`), and absent parts of a PEP 440 version are places of their own
(`StageIsKey`). The recursions of `Value`, `Rest` and `Split` are functions, and
each is first shown to have a solution (`ValueOf`, `RestOf`, `SplitLevel`).

Two hypotheses are explicit. `ComponentsFit`: no component of an apk version is
too long for an int. `apk.atoi` counts a longer one as 0, so that
1.9999999999999999999999 is below 1.2: still an order (`ApkIsAnOrder` does not
need the hypothesis), but not the written one. And `CodesAssumption`: what
`pep440.Parse` answers with is a version.

Of an install `GateProofs` proves the state well formed (`InstallTypeOK`),
`KnownBadIsNoticed`, `OffersAreKept` and `CleanMeansClean`. They rest on `Sure`,
which follows a version from verdict to outcome: a verdict on its way into a
listing (`Judged`), a listing and the tool's copy of it (`Listed`), a download
(`Fetched`), the row of a refusal and the wrapper that read it (`Reported`);
`Wrapped` and `NotYet` say which of these can be under way. `ChoiceIsLeft` is
`ListingLeavesAChoice`: the bundle may be replaced between two versions of one
listing; what the argument needs of the verdicts is that they are finitely many
and that none is a refusal for being new (`Weighed`), and of the tags that they
name versions of the listing (`TagsNameVersions`).

Of `ScriptGuard`, for any packages, projects and terminals:
`GuardTypeCorrect` and `OnlyWhatWasAllowed`. For what a command is about to build,
and for what a rebuild that outlived its command still builds, a decision is on
file, one that was revoked included (`OnFile`, `Guarded`).

`FindingsProofs`: `TriageStands` needs no more than that no pass is ahead of the
clock (`Past`). `AlertsOnce` is proved from `~SameSecond`, which
`Findings_words` shows to be needed: passes have their seconds to themselves
(`Apart`, `Started`), a finding's date is that of a pass (`Dated`), and a pass
that spoke of a finding is past the step at which it could again (`Spoken`).

`BundleProofs`, of `DaemonView` and for a daemon that is the only updater
(`OneUpdater`, again needed): readers are away while the lease has them detached,
and afterwards they have the merged file, or none and the log says so (`Leased`:
a handle that does not reattach never keeps the old file), no scope is merged at a version above the staged one, nor
staged above what is being installed (`Ordered`), and what `Open` found at start
is still covered (`Coverage`). Hence `ReadersSafe`, `GatesJudge`, `VersionsKept`.
Kills, restarts and whatever the hub serves are included.

`PairingProofs`: the state is well formed, and a daemon about to push to an https
address has a pin (`Pins`), so `TokenToAPinnedHub`: to an https address the token
goes only if the hub there presents the certificate on file, for any number of
commands, hub processes and half-written rows. An http address has no pin to
check, and the theorem says nothing of it. `PairingIsEnrolled` follows a pairing from the code through its
rows: an answered enrolment has its device and its code (`Enrolments`), a command
that is writing rows has such an answer and is their only writer (`Underway`), and a
pairing that ended well is on file whole (`Kept`). Its hypothesis is one terminal (`OneTerminal`);
`Pairing_words` has the counterexample with two. `PinIsTheHubsOwn` adds the
certificate: what the hub presents, what a pairing under way has seen and what a
standing one has pinned is on file, certificate and key, wherever the hub that
makes them was killed, and however often it ran without TLS in between
(`Certificate`). Its hypothesis
`Starters = {"hub"}` is needed too: `hub fingerprint` beside `hub` makes a second.

`QuarantineProofs`: `HoldsWhatItTakes` is proved for any number of processes.
An id belongs to one command and has a row from the moment its archive was read
back (`Owned`); a restore unpacks what its row's archive held (`Opened`); what a
row records is on file until a person deletes it (`AllHeld`); and what a command
may still remove it has yet to read, has read as it is, or is saved (`Safe`).
The last is under `Quiet`. `RestoresWhatWasTaken` needs no such hypothesis. A
restore lists the tree and reads it file by file, so it has to be shown that what
it read is still what is there when it compares: each file it listed is as it was
read, has yet to be read, or is among those somebody wrote meanwhile, and one it
did not list is absent or among them too (`Current`, `ReadInv`). `CustodyIsKept`
is the refinement of `Custody`, under `Quiet`, from the same invariant: initial
states map to initial states, and one lemma each for the steps of a keeper, of a
restorer and of everybody else shows that they map to steps or stutters.

`InventoryProofs`, for any directories, containers and packages whose places and
names do not overlap (`PlacesAssumption`), and where every place that cannot be
read is counted (`PassedOver = {}`; `NothingMissed` fails without it, section 5):
`ScanListsAll`, `ScanListsOnly`, `FullScanIsEnough`, `OnlyTheMissingAreRetired`.
The reason a skipped directory is safe is `Stamped`: a whole second written with a
package stays with that package for as long as it is the directory's time, unless
the directory changed again within that second (`twice`), which no incremental
scan can see and which the properties therefore except. `Clock` and `Ahead` order
the times of the disk, the table and the scan, `Backed` says that what a directory
is skipped for is a row, `Kept` and `Alone` that this row is present and the only
one unless a killed scan, or one that shared its second with another, left a debt,
`CalmReading` and `CalmWritten` what a scan that nobody disturbed has found and
written.

Model-checked only: liveness and fairness (`QueueDrains`, `RevocationRecoverable`,
`QueuedIsSeen`, `FindingsConverge`, `IgnoresEnd`, `AdvisoriesArrive`,
`MergedIsExamined`, `SnapshotConverges`, `CommandsEnd`), which is beyond the
prover. Every other property of the runs has a theorem.

## 5. Where the code and its own words part

No run of section 3 expects a violation. The configurations below are kept
beside them: each asks for something the code or its comments say, quoted above
the property, and TLC answers with a counterexample. `X_words.cfg` lists several
properties, of which one at a time is to be uncommented; TLC stops at the first
violation.

| configuration | property | what happens |
|---|---|---|
| `EventSync_unconfigured` | `NothingLost` | a paired machine whose `config.toml` names no hub: retention prunes events that were never sent (scanner/scanner.go:68), while the loop syncs by the pairing in the database |
| `EventSync_named` | `EveryLossNamed` | the notice of a dropped event has no severity, so the next trim drops the notice |
| `Findings_words` | `AlertOnce` | two passes starting in the same second announce a finding twice |
| | `QuietOnlyAtFirst` | a machine whose first passes found nothing files its first finding without a word |
| | `NothingOpensForGone` | an ignore that expires reopens the finding of a removed package for one pass |
| | `QuarantineIsBelieved` | a match between quarantine and the next scan calls the boxed package news |
| | `SevereComesBackAsNews` | an expired ignore on a critical finding with a low contextual score comes back quiet |
| `Inventory_words` | `MissesNothing` | modification times are kept in whole seconds (collect/collect.go:106): a version put in a directory in the second a scan has on record for it is skipped by every later incremental scan. With `MovesBack`: a directory that went away and came back untouched is skipped and stays gone |
| | `LeavesNothing` | the version it replaced stays listed, for the same reason; with `Faults`, also after a scan killed before `MarkSuperseded` |
| | `LeavesNothingAnywhere` | a version replaced in the copy that was not kept stays listed until its kept directory changes |
| | `WidestScopeWins` | an incremental scan that reads only the project copy narrows the scope |
| | `RetiresNothingUnread` | one unreadable container's packages are retired where they are |
| | `RetiresNothingInstalled` | a package of the host and of a container is one row, filed under the host: removed from the host while the engine is down, the container's copy goes with it |
| | `NothingMissed` (`PassedOver = {"app"}`) | a project the walk cannot enter, or a host whose os-release cannot be read, is not listed and not counted: "a scan that quietly covers less of the disk than you think reads as a clean machine" (collect/collect.go) |
| `BundleSync_words` | `CurrentIsMerged` | after a merge that failed the next run asks whether each scope is in the merged file, not which version, and calls itself current |
| | `MergedIsWhole` | daemon and CLI share the merge's temporary file name |
| | `HandlesComeBack` | "brings them back" (agent/lease.go): a handle that does not attach is logged, and answers without advisories until another swap or a restart (lease.go:83-93) |
| | `CurrentIsRead` | after the CLI swapped the file the daemon keeps reading the unlinked one |
| `FleetSnapshot_words` | `CredentialsAtLevel` | lowering a device to findings deletes its inventory (repo/devices.go:248) and leaves the credentials, which travel on the same terms (hub/sync.go:141) |
| | `InventoryWithdrawn` | the level is lowered by one statement and the inventory deleted by the next: if that fails or the hub is killed, the inventory stays, and nothing tries again (repo/devices.go:240-251) |
| | `UninstallsArrive` | the last package is uninstalled: an empty inventory is not replaced, and the hub keeps the old one for good |
| `FleetPages_words` | `EmptyListWasReported` | a device set to full on the hub whose agent is set to findings, or has not reported yet, is shown as holding no credentials and no packages rather than as not sending them |
| | `PathsAtLevel` | where a quarantined package lay is on the hub at level findings: the agent's level alone decides, and lowering deletes none |
| | `AllClearWasHeard` | a fleet whose only machine is revoked is "All clear" |
| | `TicksOfTheExposure` | between two tables of a push, an exposure is shown beside the checklist of an older report, as not started |
| | `NowhereIsNow` | an inventory the agent could not read is left out of a push that counts as a report: the search answers from the older one |
| `InstallSession_silent` | `LoudlyOpen` | a version that cannot be parsed passes with a log line and no gate_degraded event |
| `Pairing_words` | `TokenComesWithPin` | `pair` with an https hub is killed between its rows: an agent with a token and no pin, "written in the same step" (cli/pair.go:88); the loop refuses to push, so nothing leaks |
| | `ClientIsOnePairing` | the sync loop reads its four rows while `pair` writes them: key of one pairing, token of another, refused and marked revoked. Or an http pairing was killed and left its address, and a later https pairing's token goes there in the clear |
| | `MarkerIsAboutThisPairing` | the refusal of an earlier pairing's push arrives after the new pairing was stored |
| | `PairedIsEnrolled` (two terminals) | `unpair` while another terminal pairs: a pairing that ended well lacks rows |
| | `PinStaysGood` (two starters) | `hub` and `hub fingerprint` both find no certificate and both make one |
| `Quarantine_words` | `OffTheMachine` | the inventory row of a Python package names its `.dist-info` directory (collect/python.go:46-70), so `quarantine`, "take a package off this machine" (cli/quarantine.go:28), puts the metadata away and leaves every file of the code importable |
| | `TakesOnlyWhatItHolds` (not `Quiet`) | what a package manager writes between the packing and `os.RemoveAll` is removed and in no archive |
| | `ReproducedExactly` | a file that a package manager writes while the tree is read back: the digests agree, and the tree is not what was taken |
| | `CanComeBack` | a restore that failed marks the row, and only active rows are restored: an intact archive stays out of reach |
| | `OneActive` | two commands ask whether the package is put away before either records it |
| `DaemonView_words` | `DegradedOnlyUnsynced` | a daemon started before the first bundle came: the handles read the file, and every gate it serves still says that nothing is attached (gate/open.go) |
| | `CoverageIsCurrent` | a scope first merged while the daemon runs: its packages stay "not evaluated" until a restart |
| | `NewerBuildArrives` | a second build of one day has the version of the first, and is not newer |
| `TimelinePage_words` | `StreamResumes` | a page that was empty when it opened carries cursor 0, and the stream's first tick takes the newest rows, not the oldest: a batch larger than a tick leaves a hole |
| | `NoRowTwice` | the browser reconnects to the address the page came with, and every row since is sent and put on top again |
| | `NewestOnTop` | the same two ways out of order |
| | `FilterIsKept` (`Filters = {{2}}`) | the stream asks for all severities, whatever the page is filtered by |
| `ScriptGuard_words` | `OffForEveryRun` | a project's `.npmrc` overrides the user's config (cli/scripts.go:69) |
| | `UpgradeStaysBuilt` | an allowance is one rebuild: an upgrade under the guard comes up unbuilt (cli/scripts.go:204-206, repo/scripts.go:14-16) |
| | `NotAfterRevoke` | `--revoke` while the rebuild runs, or before it starts: the script runs (cli/scripts.go:213) |
| | `CommandsEnd` (not `KillFrees`) | the deadline kills npm, and `CombinedOutput` waits for a grandchild that holds its pipe (scriptguard/scriptguard.go:105-111) |

## 6. Not modelled, and assumptions

- Reads and writes of `agent.db` by the gate and the wrapper succeed; a push
  reads the machine in one step; a wrapper is not killed.
- A gate's verdict is the same with and without promoted tiers, and an advisory
  without a CVSS score counts as its base of 5, so `Score` has one number.
- A halted agent is restarted by a person (`EventSync`, `Pairing`);
  `FleetSnapshot` leaves the halt out, so its agent pushes also after a refusal.
- One device, one package per install, one advisory per package in `Findings`,
  one quarantined package.
- The pages' clock: "reported recently" is either, and a bundle is attached.
- POSIX rename: whoever has a replaced file open keeps reading it. A file that
  is being written and cut short is torn; one that was renamed is whole.
- Signatures, certificates and hashes are what they promise: a digest equals
  another only if the tree does, a token is known only to who was given it.
- What a collector, an OSV record, a listing or a file name parses to is data.
- The rotation checklist is a static list with a tick per item; the publisher
  parses, scores and signs on a machine of its own, and what agents see of it is
  the version and order of its files (`BundleSync`); the dashboard login, its
  limiter and the service files keep nothing the modules above read. A migration
  and the row that says it ran are one transaction, but which ones are pending is
  read before it (db/db.go:150-177): of two processes that open a new database at
  once, the later one fails to open it and applies nothing twice. None of these
  is modelled.
- Of the script guard, what a command prints and reads only to print it.
- npm, Go and crates versions are compared by a library. An apk component of
  more digits than an integer holds counts as 0 (`atoi`); the run stays below and
  `ByTheRules` says so. That npm, Go and crates answer with an order is assumed.
- The package manager is outside the repository and modelled by what it may do.

## 7. Plan

Done, in this order: event sync with its abstract timeline and proofs, findings,
bundle sync, the gate and its session, inventory, the fleet tables, the matcher,
pairing, quarantine, the hub's pages, the daemon's view of its bundle, the
timeline page, the script guard; proofs of the safety properties of all of
these; the abstract specification `Custody` and its refinement; the orders of
dpkg, apk and PEP 440.

Next, by worth:

1. Abstract specifications: "advisory is acted upon", which `DaemonView` and
   `Findings` implement together; the hub as one row per device that is replaced
   whole, of which `FleetSnapshot` falls short table by table.
2. A push that reads its tables one by one, and two devices, in `FleetPages`.
3. The PEP 440 grammar; file names of npm and PyPI downloads
   (`versionFromTarball`, `versionFromPyPIFile`) beside `InstallSession`; the
   intervals an OSV record's events become.
