------------------------------ MODULE Inventory ------------------------------
(***************************************************************************)
(* A scan, up to the point where the watcher takes over: scanner/          *)
(* scanner.go (Run, collapse, reconcile), the collectors' rule for what    *)
(* need not be read again (collect/collect.go, npm.go, python.go), the     *)
(* container engine (docker.go), the host's own package database           *)
(* (system.go) and the packages table (repo/packages.go, repo/presence.go).*)
(*                                                                         *)
(* A purl is one version of one package.  A place is what install_path     *)
(* holds: a package's own directory, or a package database, the host's or  *)
(* a container's, with many packages.  Each action is one query, one       *)
(* transaction, one walk over the disk or one container; what the machine  *)
(* holds changes between any two.  Times are whole seconds, the disk's and *)
(* the table's: two things that happen in one second have one time.        *)
(***************************************************************************)
EXTENDS Integers, FiniteSets

CONSTANTS
    Purls,        \* what a directory may hold, one at a time
    Debs,         \* distribution packages, what a container may hold
    HostDebs,     \* distribution packages, what the host's database may hold
    Projects,     \* directories of scope project
    Globals,      \* directories of scope global
    Containers,
    Hosts,        \* the host's package database, at most one
    Modes,        \* "full": `scan --full`, no directory is skipped; "incremental"
    MovesBack,    \* a directory may go and return as it was: a rename, a mount
    Faults,       \* a statement may fail and the process may be killed
    Unreadable,   \* places that may be there and not readable, which is counted
    PassedOver,   \* and those of which it is not: a project the walk cannot enter,
                  \* a host whose os-release cannot be read
    MaxChanges,   \* bound: states of the machine, the first one included
    MaxSeconds    \* bound: the clock

ASSUME FlagsAssumption ==
    /\ {MovesBack, Faults} \subseteq BOOLEAN
    /\ Modes # {} /\ Modes \subseteq {"full", "incremental"}
ASSUME BoundsAssumption == MaxChanges \in Nat \ {0} /\ MaxSeconds \in Nat \ {0}
ASSUME PlacesAssumption ==
    /\ Containers \cap Hosts = {} /\ (Projects \cup Globals) \cap (Containers \cup Hosts) = {}
    /\ Purls \cap (Debs \cup HostDebs) = {}
    /\ Unreadable \subseteq Projects \cup Globals \cup Containers \cup Hosts
    /\ PassedOver \subseteq Projects \cup Hosts

Packages == Purls \cup Debs \cup HostDebs
Dirs == Projects \cup Globals
Places == Dirs \cup Containers \cup Hosts

VARIABLES
    content,   \* the purls each place holds
    mtime,     \* a directory's modification time
    away,      \* directories that are not where they were
    changes,   \* how often the machine changed
    now,       \* the clock
    rows,      \* purls with a row in the packages table
    gone,      \* rows with gone_at set
    dirOf,     \* packages.install_path
    mtimeOf,   \* packages.path_mtime
    seenNow,   \* rows whose last_seen is the present second
    pc,
    mode,
    known,     \* KnownMTimes
    stats,     \* the modification times the collectors read
    found,     \* the packages they returned
    unread,    \* containers the engine listed that are still to be read
    scanned,   \* Result.ContainersScanned
    skipped,   \* the places Result.Skipped counts
    written,   \* rows whose last_seen is this scan's
    calm,      \* history: nothing disturbed this scan; the machine has not changed
               \* since it began, and no other wrote in its second
    twice,     \* history: directories that changed again in the second that a scan
               \* has on record for them
    owed       \* history: a scan was cut short or shared its second, or a directory
               \* went and came back, and no full scan has read everything since

disk == <<content, mtime, away, changes>>
table == <<rows, gone, dirOf, mtimeOf, seenNow>>
scan == <<pc, mode, known, stats, found, unread, scanned, skipped, written>>
vars == <<disk, now, table, scan, calm, twice, owed>>

MayHold(d) == IF d \in Containers THEN SUBSET Debs
              ELSE IF d \in Hosts THEN (SUBSET HostDebs) \ {{}}
              ELSE {{}} \cup {{p} : p \in Purls}
Contents == {c \in [Places -> SUBSET Packages] : \A d \in Places : c[d] \in MayHold(d)}
Held(d) == IF d \in away THEN {} ELSE content[d]
Installed == UNION {Held(d) : d \in Places}
Present == rows \ gone
Rank(d) == IF d \in Globals THEN 4 ELSE IF d \in Hosts THEN 3 ELSE 1

TypeOK ==
    /\ content \in Contents
    /\ changes \in 1..MaxChanges /\ now \in 1..MaxSeconds
    /\ mtime \in [Dirs -> 1..MaxSeconds] /\ away \subseteq Dirs
    /\ rows \subseteq Packages /\ gone \subseteq rows /\ written \subseteq rows /\ seenNow \subseteq rows
    /\ dirOf \in [rows -> Places] /\ mtimeOf \in [rows -> 0..MaxSeconds]
    /\ pc \in {"idle", "stat", "collect", "containers", "upsert", "supersede", "reconcile", "done"}
    /\ mode \in Modes \cup {"none"}
    /\ known \in [Dirs -> 0..MaxSeconds] /\ stats \in [Dirs -> 0..MaxSeconds]
    /\ found \subseteq [purl : Packages, at : Places, mtime : 0..MaxSeconds]
    /\ unread \subseteq Containers /\ skipped \subseteq Places /\ twice \subseteq Dirs
    /\ {scanned, calm, owed} \subseteq BOOLEAN
    /\ unread # {} => scanned /\ pc = "containers"

Nothing == [d \in Dirs |-> 0]
Init ==
    /\ content \in Contents
    /\ mtime = [d \in Dirs |-> 1] /\ away = {} /\ changes = 1 /\ now = 1
    /\ rows = {} /\ gone = {} /\ dirOf \in [{} -> Places] /\ mtimeOf \in [{} -> {0}]
    /\ seenNow = {}
    /\ pc = "idle" /\ mode = "none" /\ known = Nothing /\ stats = Nothing /\ found = {}
    /\ unread = {} /\ scanned = FALSE /\ skipped = {} /\ written = {}
    /\ calm = TRUE /\ twice = {} /\ owed = FALSE

------------------------------------------------------------------------------
\* The machine.

Tick ==
    /\ now < MaxSeconds /\ now' = now + 1 /\ seenNow' = {}
    /\ UNCHANGED <<disk, rows, gone, dirOf, mtimeOf, scan, calm, twice, owed>>

Change == changes < MaxChanges /\ changes' = changes + 1 /\ calm' = FALSE /\ UNCHANGED now

\* What a scan recorded, or is about to record, of a directory has this very time.
OnRecord(d) ==
    \/ \E p \in rows : dirOf[p] = d /\ mtimeOf[p] = now
    \/ \E f \in found : f.at = d /\ f.mtime = now

\* A package manager puts a version in a directory, or removes the directory.
InstallOrRemove(d) ==
    /\ Change
    /\ d \notin away
    /\ \E held \in MayHold(d) \ {content[d]} : content' = [content EXCEPT ![d] = held]
    /\ mtime' = [mtime EXCEPT ![d] = now]
    /\ twice' = IF OnRecord(d) THEN twice \cup {d} ELSE twice \ {d}
    /\ UNCHANGED <<away, table, scan, owed>>

\* apt or apk changes the host; a container starts, stops or is rebuilt.
DatabaseChanges(c) ==
    /\ Change
    /\ \E held \in MayHold(c) \ {content[c]} : content' = [content EXCEPT ![c] = held]
    /\ UNCHANGED <<mtime, away, table, scan, twice, owed>>

\* A directory is renamed or its disk unmounted, and comes back untouched.
MoveAwayOrBack(d) ==
    /\ MovesBack
    /\ Change
    /\ content[d] # {}
    /\ away' = IF d \in away THEN away \ {d} ELSE away \cup {d}
    /\ owed' = TRUE
    /\ UNCHANGED <<content, mtime, table, scan, twice>>

------------------------------------------------------------------------------
\* The scan.

\* KnownMTimes: every row's, gone or not.  Of two rows with one install_path
\* the one the query returns last is kept.
KnownMTimes ==
    {k \in [Dirs -> {0} \cup {mtimeOf[p] : p \in rows}] :
        \A d \in Dirs : LET at == {p \in rows : dirOf[p] = d}
                        IN  IF at = {} THEN k[d] = 0 ELSE \E p \in at : k[d] = mtimeOf[p]}

Begin ==
    /\ pc = "idle"
    /\ mode' \in Modes
    /\ known' \in IF mode' = "full" THEN {Nothing} ELSE KnownMTimes
    /\ pc' = "stat" /\ calm' = TRUE
    /\ UNCHANGED <<disk, now, table, stats, found, unread, scanned, skipped, written, twice, owed>>

\* dirMTime: a collector takes a directory's time before it reads what is in it.
StatDirs ==
    /\ pc = "stat"
    /\ stats' = mtime
    /\ pc' = "collect"
    /\ UNCHANGED <<disk, now, table, mode, known, found, unread, scanned, skipped, written, calm, twice, owed>>

Unchanged(d) == known[d] = stats[d]

Package(p, d) == [purl |-> p, at |-> d, mtime |-> IF d \in Dirs THEN stats[d] ELSE 0]

ReadFrom(places) == UNION {{Package(p, d) : p \in Held(d)} : d \in places}

\* The host's database is one file, and read whatever its time says.
SystemDistro(unreadable) == ReadFrom(Hosts \ unreadable)

\* Everything in the directories that changed, and on the host.  Of what cannot
\* be read, a directory, one above it or the database, each is counted and left.
Collect ==
    /\ pc = "collect"
    /\ \E dark \in SUBSET {d \in Unreadable \ Containers : Held(d) # {}},
          lost \in SUBSET {d \in PassedOver : Held(d) # {}} :
          /\ found' = ReadFrom({d \in Dirs \ (dark \cup lost) : ~Unchanged(d)}) \cup SystemDistro(dark \cup lost)
          /\ skipped' = dark
    /\ pc' = "containers"
    /\ UNCHANGED <<disk, now, table, mode, known, stats, unread, scanned, written, calm, twice, owed>>

\* The first call to the engine lists its containers, fails, or finds no
\* engine to talk to.
Engine == {"answers", "refuses", "absent"}

\* An engine that is not there is no gap; one that refuses is.
ListContainers ==
    /\ pc = "containers" /\ unread = {} /\ ~scanned
    /\ \E engine \in Engine :
          /\ unread' = IF engine = "answers" THEN Containers ELSE {}
          /\ scanned' = (engine = "answers")
          /\ skipped' = IF engine = "refuses" THEN skipped \cup Containers ELSE skipped
          /\ pc' = IF unread' = {} THEN "upsert" ELSE "containers"
    /\ UNCHANGED <<disk, now, table, mode, known, stats, found, written, calm, twice, owed>>

\* client.File: one file copied out of the container.  One without packages,
\* or that is no longer there, may not have it.
Copied(c) ==
    {"file"} \cup (IF content[c] = {} THEN {"missing"} ELSE {})
             \cup (IF c \in Unreadable THEN {"failed"} ELSE {})

\* Mutant: the reason for giving up is logged and the gap is not counted.
ReadContainerQuietly(c) ==
    /\ c \in unread
    /\ unread' = unread \ {c}
    /\ pc' = IF unread' = {} THEN "upsert" ELSE "containers"
    /\ found' \in {found, found \cup ReadFrom({c})}
    /\ UNCHANGED <<disk, now, table, mode, known, stats, scanned, skipped, written, calm, twice, owed>>

\* client.packages: os-release, then the database it points to.  A missing
\* file means no packages; a failure is counted, and costs the others nothing.
ReadContainer(c) ==
    /\ c \in unread
    /\ unread' = unread \ {c}
    /\ pc' = IF unread' = {} THEN "upsert" ELSE "containers"
    /\ \E release, database \in Copied(c) :
          LET failed == release = "failed" \/ (release = "file" /\ database = "failed")
          IN  /\ skipped' = IF failed THEN skipped \cup {c} ELSE skipped
              /\ found' = IF release = "file" /\ database = "file" THEN found \cup ReadFrom({c}) ELSE found
    /\ UNCHANGED <<disk, now, table, mode, known, stats, scanned, written, calm, twice, owed>>

Copies(p) == {f \in found : f.purl = p}

\* Mutant: the first copy met wins.
AnyCopy(p) == Copies(p)

\* collapse: the copy of the widest scope, the first met among equals.
WidestCopies(p) == {f \in Copies(p) : \A g \in Copies(p) : Rank(g.at) <= Rank(f.at)}

\* Mutant: an upsert that leaves a retired row retired.
StillGone(seen) == gone

\* ON CONFLICT ... SET gone_at = NULL.
NoLongerGone(seen) == gone \ seen

\* Mutant: the time is taken when the row is written.
TimeWhenWritten(f) == IF f.at \in Dirs THEN mtime[f.at] ELSE 0

\* path_mtime: the time the collector saw.
PathMTime(f) == f.mtime

Seen == {f.purl : f \in found}

\* One transaction.  last_seen is the second it began in: what another scan
\* wrote in that second has the same.
UpsertPackages ==
    /\ pc = "upsert"
    /\ \E pick \in [Seen -> found] :
          /\ \A p \in Seen : pick[p] \in WidestCopies(p)
          /\ rows' = rows \cup Seen
          /\ gone' = NoLongerGone(Seen)
          /\ dirOf' = [p \in rows \cup Seen |-> IF p \in Seen THEN pick[p].at ELSE dirOf[p]]
          /\ mtimeOf' = [p \in rows \cup Seen |-> IF p \in Seen THEN PathMTime(pick[p]) ELSE mtimeOf[p]]
    /\ written' = seenNow \cup Seen /\ seenNow' = written'
    /\ calm' = (calm /\ seenNow = {})
    /\ owed' = (owed \/ seenNow # {})
    /\ pc' = "supersede" /\ found' = {} /\ stats' = Nothing /\ known' = Nothing
    /\ UNCHANGED <<disk, now, mode, unread, scanned, skipped, twice>>

\* Mutant: nothing was replaced in place.
NothingSuperseded == {}

\* Rows last seen before this scan's second whose install_path holds one seen in it.
Superseded == {p \in Present \ written : \E q \in written : dirOf[q] = dirOf[p]}

MarkSuperseded ==
    /\ pc = "supersede"
    /\ gone' = gone \cup Superseded
    /\ pc' = "reconcile"
    /\ UNCHANGED <<disk, now, rows, dirOf, mtimeOf, seenNow, mode, known, stats, found, unread, scanned,
                   skipped, written, calm, twice, owed>>

\* Mutant: an engine that is down looks like an engine without containers.
MissingWhenUnseen(p) == IF dirOf[p] \in Containers THEN p \notin written ELSE Held(dirOf[p]) = {}

\* A path is looked for on the disk, a container in this scan.
Missing(p) == IF dirOf[p] \in Containers THEN scanned /\ p \notin written ELSE Held(dirOf[p]) = {}

\* The rest of reconcile: Present, a stat of each path, MarkGone.
MarkGone ==
    /\ pc = "reconcile"
    /\ gone' = gone \cup {p \in Present : Missing(p)}
    /\ pc' = "done"
    /\ UNCHANGED <<disk, now, rows, dirOf, mtimeOf, seenNow, mode, known, stats, found, unread, scanned,
                   skipped, written, calm, twice, owed>>

EndScan ==
    /\ pc' = "idle" /\ mode' = "none" /\ known' = Nothing /\ stats' = Nothing /\ found' = {}
    /\ unread' = {} /\ scanned' = FALSE /\ skipped' = {} /\ written' = {} /\ calm' = TRUE
    /\ UNCHANGED <<disk, now, table, twice>>

\* The scan goes on to retention and the watcher, which leave packages alone.
Finish ==
    /\ pc = "done"
    /\ owed' = (owed /\ ~(mode = "full" /\ calm /\ skipped \cap Dirs = {}))
    /\ EndScan

\* Any step of the scan may be its last.
Interrupted ==
    /\ Faults /\ pc \in {"supersede", "reconcile"}
    /\ owed' = TRUE
    /\ EndScan

ScanStep ==
    \/ Begin \/ StatDirs \/ Collect \/ ListContainers \/ \E c \in Containers : ReadContainer(c)
    \/ UpsertPackages \/ MarkSuperseded \/ MarkGone \/ Finish \/ Interrupted
Next ==
    \/ \E d \in Dirs : InstallOrRemove(d) \/ MoveAwayOrBack(d)
    \/ \E c \in Containers \cup Hosts : DatabaseChanges(c)
    \/ Tick
    \/ ScanStep

Spec == Init /\ [][Next]_vars

------------------------------------------------------------------------------
\* Properties.  A scan that nothing disturbed has just ended:
JustScanned == pc = "done" /\ calm

\* What the scan had no sight of: what it could not read, or the engine did not
\* list, or, unless it is a full one, what changed in a second already on record.
NotRead(d) == d \in skipped \/ (d \in Containers /\ ~scanned)
Unseen(d) == NotRead(d) \/ (d \in twice /\ mode # "full")

\* Everything is listed that the scan had sight of.
AllListed == \A d \in Places : Unseen(d) \/ Held(d) \subseteq Present

\* Nothing is listed that is not installed, but for what is named for a place the
\* scan had no sight of, or one whose version is listed at another place.
Elsewhere(d) == \E q \in Held(d) \cap rows : dirOf[q] # d
AllInstalled == \A p \in Present : p \in Installed \/ Unseen(dirOf[p]) \/ Elsewhere(dirOf[p])

\* Whatever happened during earlier scans, every installed package is listed,
\* though most directories were not read again: that is Findings' inventory.
\* What a scan could not read it says; collect/collect.go: "a scan that quietly
\* covers less of the disk than you think reads as a clean machine".
NothingMissed == JustScanned /\ ~owed => AllListed

\* Nothing is left that was removed, nor what was replaced in place:
\* scanner/scanner.go, "both have to be caught".
NothingLeftOver == JustScanned /\ ~owed => AllInstalled

\* A full scan makes good whatever interrupted or outwitted earlier ones, changes
\* within one second too, and lists each package it can read under the widest
\* scope that holds it: scanner/scanner.go, "that is the fact that decides its
\* score".
FullScanSettles ==
    JustScanned /\ mode = "full" =>
        /\ AllListed /\ AllInstalled
        /\ \A d \in Dirs \ skipped : \A p \in Held(d) : Rank(d) <= Rank(dirOf[p])

\* A purl is retired when it is not where its row says, nor anywhere the scan
\* looked: what is in another place, it may have had no sight of.  scanner/
\* scanner.go: an engine that was down for one scan must not make every container
\* look emptied.  A container that could not be read does look so.
NothingInstalledIsRetired ==
    [][pc # "idle" /\ calm =>
          \A p \in gone' \ gone, d \in Places :
              p \in Held(d) => d \in skipped \cap Containers \/ (d # dirOf[p] /\ Unseen(d))]_vars

\* The same without their reserves.
RetiresNothingInstalled == [][pc # "idle" /\ calm => \A p \in gone' \ gone : p \notin Installed]_vars
RetiresNothingUnread ==
    [][pc # "idle" /\ calm => \A p \in gone' \ gone : p \notin Held(dirOf[p])]_vars
MissesNothing == JustScanned => \A d \in Places : NotRead(d) \/ Held(d) \subseteq Present
LeavesNothing == JustScanned => \A p \in Present : p \in Installed \/ NotRead(dirOf[p]) \/ Elsewhere(dirOf[p])
LeavesNothingAnywhere == JustScanned => \A p \in Present : p \in Installed \/ Unseen(dirOf[p])
WidestScopeWins == JustScanned => \A d \in Dirs : \A p \in Held(d) : p \in Present => Rank(d) <= Rank(dirOf[p])
=============================================================================
