--------------------------- MODULE InventoryProofs ---------------------------
(***************************************************************************)
(* Theorems about a scan, for every set of directories, containers and     *)
(* packages and any number of changes to the machine.                      *)
(***************************************************************************)
EXTENDS Inventory, TLAPS

------------------------------------------------------------------------------
\* What a scan keeps true.

Reading == pc \in {"collect", "containers", "upsert"}
Written == pc \in {"supersede", "reconcile", "done"}

\* What the scan has not come to yet is empty.
Blank ==
    /\ pc \notin {"containers", "upsert"} => found = {}
    /\ ~Written => written = {}
    /\ pc \in {"idle", "stat", "collect"} => ~scanned /\ skipped = {}
    /\ mode = "full" /\ ~Written => known = Nothing
    /\ pc = "containers" /\ ~scanned => skipped \cap Containers = {}
    /\ unread \cap skipped = {}

\* No modification time is in the future.
Clock == \A d \in Dirs : mtime[d] <= now

\* A directory's time, once taken together with a purl, goes with that purl
\* for as long as it is the directory's time, and no second change shares it.
Fits(p, d, m) == 1 <= m /\ m <= mtime[d] /\ (m = mtime[d] /\ d \notin twice => content[d] = {p})

Kind(p, d) == /\ d \in Dirs => p \in Purls
              /\ d \in Containers => p \in Debs
              /\ d \in Hosts => p \in HostDebs

Stamped ==
    /\ \A p \in rows : Kind(p, dirOf[p]) /\ (dirOf[p] \in Dirs => Fits(p, dirOf[p], mtimeOf[p]))
    /\ \A f \in found : Kind(f.purl, f.at) /\ (f.at \in Dirs => Fits(f.purl, f.at, f.mtime))

\* The time this scan took is no older than what earlier scans wrote; what it
\* wrote is its own, unless there is a debt.
Ahead ==
    /\ Reading => /\ \A d \in Dirs : 1 <= stats[d] /\ stats[d] <= mtime[d]
                  /\ \A p \in rows : dirOf[p] \in Dirs => mtimeOf[p] <= stats[dirOf[p]]
                  /\ \A f \in found : f.at \in Dirs => f.mtime = stats[f.at]
    /\ ~owed => \A p \in rows, q \in written :
          dirOf[q] \in Dirs /\ dirOf[p] = dirOf[q] => mtimeOf[p] <= mtimeOf[q]

\* What a directory is skipped for is in the table.
Backed ==
    pc = "stat" \/ Reading =>
        \A d \in Dirs : known[d] # 0 => \E q \in rows : dirOf[q] = d /\ mtimeOf[q] = known[d]

\* Without a debt, the row a directory is skipped for is present, and it is the
\* only one there.
Kept ==
    ~owed => \A p \in rows :
        dirOf[p] \in Dirs \ (away \cup twice) /\ mtimeOf[p] = mtime[dirOf[p]] => p \notin gone

Alone ==
    ~owed => \A p, q \in rows :
        /\ p # q /\ dirOf[p] = dirOf[q] /\ dirOf[q] \in Dirs \ twice /\ mtimeOf[q] = mtime[dirOf[q]]
        => p \in gone \/ (pc = "supersede" /\ q \in written)

\* Nobody has disturbed the scan: what it found.
CalmReading ==
    /\ Reading => stats = mtime
    /\ pc \in {"containers", "upsert"} =>
          /\ \A d \in Dirs \ skipped : \A p \in Held(d) : Unchanged(d) \/ Package(p, d) \in found
          /\ \A d \in Hosts \ skipped : \A p \in Held(d) : Package(p, d) \in found
          /\ scanned => \A c \in Containers \ (unread \cup skipped) : \A p \in Held(c) : Package(p, c) \in found
          /\ \A f \in found : /\ f.purl \in Held(f.at) /\ f.at \notin skipped \cup unread
                              /\ f.at \in Containers => scanned

\* Nobody has disturbed the scan: what it wrote.
CalmWritten ==
    Written =>
        /\ \A d \in Dirs \ skipped : \A p \in Held(d) :
              \/ p \in written /\ (mode = "full" => Rank(d) <= Rank(dirOf[p]))
              \/ mode # "full" /\ (d \in twice \/ (p \in rows /\ dirOf[p] = d /\ mtimeOf[p] = mtime[d]))
        /\ \A d \in Hosts \ skipped : Held(d) \subseteq written
        /\ scanned => \A c \in Containers \ skipped : Held(c) \subseteq written
        /\ \A q \in written : /\ q \in Held(dirOf[q]) /\ q \notin gone /\ dirOf[q] \notin skipped
                              /\ dirOf[q] \in Containers => scanned
        /\ pc # "supersede" => \A p \in Present \ written, q \in written : dirOf[q] # dirOf[p]
        /\ pc = "done" => \A p \in Present : ~Missing(p)

Inv == Blank /\ Clock /\ Stamped /\ Ahead /\ Backed /\ Kept /\ Alone
         /\ (calm => CalmReading /\ CalmWritten)

\* Everything but the clock and what depends on it.
still == <<disk, rows, gone, dirOf, mtimeOf, scan, calm, twice, owed>>

------------------------------------------------------------------------------
\* Types.

Found == [purl : Packages, at : Places, mtime : 0..MaxSeconds]

LEMMA MayHoldPackages == \A d : MayHold(d) \subseteq SUBSET Packages
  BY DEF MayHold, Packages

LEMMA DirsArePlaces == Dirs \subseteq Places /\ Containers \subseteq Places /\ Hosts \subseteq Places
  BY DEF Places

LEMMA ContentsFit ==
  TypeOK => /\ content \in [Places -> SUBSET Packages]
            /\ \A d \in Places : content[d] \in MayHold(d) /\ content[d] \subseteq Packages /\ Held(d) \subseteq content[d]
  BY DEF TypeOK, Contents, Held

LEMMA ReadFits ==
  ASSUME TypeOK, NEW places, places \subseteq Places
  PROVE  ReadFrom(places) \subseteq Found
<1> SUFFICES ASSUME NEW d \in places, NEW p \in Held(d)
             PROVE  Package(p, d) \in Found
  BY DEF ReadFrom
<1>1. p \in Packages /\ d \in Places
  BY ContentsFit
<1>2. 0 \in 0..MaxSeconds
  BY BoundsAssumption
<1>3. (IF d \in Dirs THEN stats[d] ELSE 0) \in 0..MaxSeconds
  BY <1>2 DEF TypeOK
<1> QED
  BY <1>1, <1>3 DEF Package, Found

LEMMA NothingFits == Nothing \in [Dirs -> 0..MaxSeconds]
  BY BoundsAssumption DEF Nothing

LEMMA InitTypeOK == Init => TypeOK
<1> SUFFICES ASSUME Init PROVE TypeOK
  OBVIOUS
<1>1. changes \in 1..MaxChanges /\ now \in 1..MaxSeconds /\ mtime \in [Dirs -> 1..MaxSeconds]
  BY BoundsAssumption DEF Init
<1>2. dirOf \in [rows -> Places] /\ mtimeOf \in [rows -> 0..MaxSeconds]
  BY BoundsAssumption DEF Init
<1> QED
  BY <1>1, <1>2, NothingFits DEF Init, TypeOK

LEMMA ContentChanges ==
  ASSUME TypeOK, NEW d \in Places, NEW held \in MayHold(d), content' = [content EXCEPT ![d] = held]
  PROVE  content' \in Contents
<1>1. content' \in [Places -> SUBSET Packages]
  BY ContentsFit, MayHoldPackages
<1>2. \A e \in Places : content'[e] \in MayHold(e)
  BY ContentsFit
<1> QED
  BY <1>1, <1>2 DEF Contents

LEMMA MachineTypeOK ==
  ASSUME TypeOK
  PROVE  /\ \A d \in Dirs : InstallOrRemove(d) \/ MoveAwayOrBack(d) => TypeOK'
         /\ \A c \in Containers \cup Hosts : DatabaseChanges(c) => TypeOK'
<1>1. Change => changes' \in 1..MaxChanges /\ changes' = changes + 1 /\ calm' = FALSE /\ now' = now
  BY BoundsAssumption DEF Change, TypeOK
<1>2. ASSUME NEW d \in Dirs, InstallOrRemove(d) PROVE TypeOK'
  <2>1. content' \in Contents
    BY <1>2, ContentChanges, DirsArePlaces DEF InstallOrRemove
  <2>2. mtime' \in [Dirs -> 1..MaxSeconds] /\ twice' \subseteq Dirs
    BY <1>1, <1>2 DEF InstallOrRemove, TypeOK
  <2> QED
    BY <1>1, <1>2, <2>1, <2>2 DEF InstallOrRemove, TypeOK, table, scan
<1>3. ASSUME NEW d \in Dirs, MoveAwayOrBack(d) PROVE TypeOK'
  BY <1>1, <1>3 DEF MoveAwayOrBack, TypeOK, table, scan
<1>4. ASSUME NEW c \in Containers \cup Hosts, DatabaseChanges(c) PROVE TypeOK'
  <2>1. content' \in Contents
    BY <1>4, ContentChanges, DirsArePlaces DEF DatabaseChanges
  <2> QED
    BY <1>1, <1>4, <2>1 DEF DatabaseChanges, TypeOK, table, scan
<1> QED
  BY <1>2, <1>3, <1>4

LEMMA UpsertTypeOK == TypeOK /\ UpsertPackages => TypeOK'
<1> SUFFICES ASSUME TypeOK, UpsertPackages PROVE TypeOK'
  OBVIOUS
<1>1. PICK pick \in [Seen -> found] :
          /\ rows' = rows \cup Seen
          /\ gone' = NoLongerGone(Seen)
          /\ dirOf' = [p \in rows \cup Seen |-> IF p \in Seen THEN pick[p].at ELSE dirOf[p]]
          /\ mtimeOf' = [p \in rows \cup Seen |-> IF p \in Seen THEN PathMTime(pick[p]) ELSE mtimeOf[p]]
  BY DEF UpsertPackages
<1>2. Seen \subseteq Packages /\ \A p \in Seen : pick[p].at \in Places /\ pick[p].mtime \in 0..MaxSeconds
  BY DEF TypeOK, Seen
<1>3. dirOf' \in [rows' -> Places] /\ mtimeOf' \in [rows' -> 0..MaxSeconds]
  BY <1>1, <1>2 DEF TypeOK, PathMTime
<1>4. rows' \subseteq Packages /\ gone' \subseteq rows'
  BY <1>1, <1>2 DEF TypeOK, NoLongerGone
<1>5. pc' = "supersede" /\ found' = {} /\ stats' = Nothing /\ known' = Nothing
      /\ UNCHANGED <<disk, now, mode, unread, scanned, skipped, twice>> /\ unread = {}
      /\ calm' \in BOOLEAN /\ owed' \in BOOLEAN /\ written' = seenNow \cup Seen /\ seenNow' = written'
  BY DEF UpsertPackages, TypeOK
<1>6. written' \subseteq rows' /\ seenNow' \subseteq rows'
  BY <1>1, <1>5 DEF TypeOK
<1> QED
  BY <1>3, <1>4, <1>5, <1>6, NothingFits DEF TypeOK, disk

LEMMA ScanTypeOK == TypeOK /\ ScanStep => TypeOK'
<1> SUFFICES ASSUME TypeOK PROVE ScanStep => TypeOK'
  OBVIOUS
<1>1. ASSUME Begin PROVE TypeOK'
  <2>1. mode' \in Modes /\ pc' = "stat" /\ calm' = TRUE
        /\ UNCHANGED <<disk, now, table, stats, found, unread, scanned, skipped, written, twice, owed>> /\ pc = "idle"
    BY <1>1 DEF Begin
  <2>2. known' = Nothing \/ known' \in KnownMTimes
    BY <1>1 DEF Begin
  <2>3. {0} \cup {mtimeOf[p] : p \in rows} \subseteq 0..MaxSeconds
    BY BoundsAssumption DEF TypeOK
  <2>4. known' \in [Dirs -> 0..MaxSeconds]
    BY <2>2, <2>3, NothingFits DEF KnownMTimes
  <2> QED
    BY <2>1, <2>4 DEF TypeOK, disk, table
<1>2. ASSUME StatDirs PROVE TypeOK'
  BY <1>2 DEF StatDirs, TypeOK, disk, table
<1>3. ASSUME Collect PROVE TypeOK'
  <2>1. PICK dark \in SUBSET (Unreadable \ Containers), lost \in SUBSET PassedOver :
            /\ found' = ReadFrom({d \in Dirs \ (dark \cup lost) : ~Unchanged(d)}) \cup ReadFrom(Hosts \ (dark \cup lost))
            /\ skipped' = dark
    BY <1>3 DEF Collect, SystemDistro
  <2>2. {d \in Dirs \ (dark \cup lost) : ~Unchanged(d)} \subseteq Places /\ Hosts \ (dark \cup lost) \subseteq Places
    BY DirsArePlaces
  <2>3. found' \subseteq Found
    BY <2>1, <2>2, ReadFits
  <2>4. skipped' \subseteq Places
    BY <2>1, PlacesAssumption DEF Places, Dirs
  <2> QED
    BY <1>3, <2>3, <2>4 DEF Collect, TypeOK, disk, table, Found
<1>4. ASSUME ListContainers PROVE TypeOK'
  BY <1>4, DirsArePlaces DEF ListContainers, TypeOK, disk, table, Engine
<1>5. ASSUME NEW c \in Containers, ReadContainer(c) PROVE TypeOK'
  <2>1. found' \subseteq Found /\ skipped' \subseteq Places
    BY <1>5, ReadFits, DirsArePlaces DEF ReadContainer, TypeOK, Found
  <2>2. pc' \in {"upsert", "containers"} /\ (unread' # {} => pc' = "containers")
    BY <1>5 DEF ReadContainer
  <2> QED
    BY <1>5, <2>1, <2>2 DEF ReadContainer, TypeOK, disk, table, Found
<1>6. ASSUME MarkSuperseded \/ MarkGone PROVE TypeOK'
  <2>1. Superseded \subseteq rows /\ Present \subseteq rows
    BY DEF Superseded, Present
  <2> QED
    BY <1>6, <2>1 DEF MarkSuperseded, MarkGone, TypeOK, disk
<1>7. ASSUME Finish \/ Interrupted PROVE TypeOK'
  BY <1>7, NothingFits DEF Finish, Interrupted, EndScan, TypeOK, disk, table
<1> QED
  BY <1>1, <1>2, <1>3, <1>4, <1>5, <1>6, <1>7, UpsertTypeOK DEF ScanStep

LEMMA NextTypeOK == TypeOK /\ [Next]_vars => TypeOK'
<1>0. TypeOK /\ Tick => TypeOK'
  BY BoundsAssumption DEF Tick, TypeOK, disk, scan
<1>1. TypeOK /\ Next => TypeOK'
  BY <1>0, MachineTypeOK, ScanTypeOK DEF Next
<1>2. TypeOK /\ UNCHANGED vars => TypeOK'
  BY DEF TypeOK, vars, disk, table, scan
<1> QED
  BY <1>1, <1>2

\* The state of every scan is well formed.
THEOREM InventoryTypeOK == Spec => []TypeOK
  BY InitTypeOK, NextTypeOK, PTL DEF Spec

------------------------------------------------------------------------------
\* The parts of the invariant, one action at a time.

\* A directory holds one purl at most, and none that a database holds.
LEMMA OneEach ==
  ASSUME TypeOK, NEW d \in Dirs, NEW p \in content[d]
  PROVE  content[d] = {p} /\ p \in Purls
  BY ContentsFit, DirsArePlaces, PlacesAssumption DEF MayHold, Dirs

LEMMA HeldKind == ASSUME TypeOK, NEW d \in Places, NEW p \in Held(d) PROVE Kind(p, d)
  BY ContentsFit, OneEach, PlacesAssumption DEF Kind, MayHold, Places

LEMMA ReadMembers ==
  ASSUME NEW places, NEW f \in ReadFrom(places)
  PROVE  \E d \in places : \E p \in Held(d) : f = Package(p, d)
  BY DEF ReadFrom

LEMMA PackageFields ==
  \A p, d : /\ Package(p, d).purl = p /\ Package(p, d).at = d
            /\ d \in Dirs => Package(p, d).mtime = stats[d]
  BY DEF Package

\* The clock and what the table says of it are all that Tick changes.
LEMMA StillStands == Tick \/ UNCHANGED vars => UNCHANGED still
  BY DEF Tick, vars, still, table

LEMMA BlankStands == TypeOK /\ Blank /\ [Next]_vars => Blank'
<1> SUFFICES ASSUME TypeOK, Blank PROVE [Next]_vars => Blank'
  OBVIOUS
<1> USE DEF Blank, Written
<1>1. ASSUME NEW d \in Dirs, InstallOrRemove(d) \/ MoveAwayOrBack(d) PROVE Blank'
  BY <1>1 DEF InstallOrRemove, MoveAwayOrBack, table, scan
<1>2. ASSUME NEW c \in Containers \cup Hosts, DatabaseChanges(c) PROVE Blank'
  BY <1>2 DEF DatabaseChanges, table, scan
<1>3. ASSUME Begin PROVE Blank'
  BY <1>3 DEF Begin
<1>4. ASSUME StatDirs PROVE Blank'
  BY <1>4 DEF StatDirs, TypeOK
<1>11. ASSUME Collect PROVE Blank'
  <2>1. /\ pc = "collect" /\ pc' = "containers" /\ ~scanned /\ unread = {} /\ skipped' \cap Containers = {}
        /\ UNCHANGED <<mode, known, unread, scanned, written>>
    BY <1>11 DEF Collect, TypeOK
  <2> QED
    BY <2>1
<1>5. ASSUME ListContainers PROVE Blank'
  <2>1. \/ unread' = Containers /\ scanned' /\ skipped' = skipped
        \/ unread' = {} /\ pc' = "upsert"
    BY <1>5 DEF ListContainers
  <2>2. /\ pc = "containers" /\ ~scanned /\ pc' \in {"containers", "upsert"}
        /\ UNCHANGED <<mode, known, found, written>>
    BY <1>5 DEF ListContainers
  <2> QED
    BY <2>1, <2>2
<1>6. ASSUME NEW c \in Containers, ReadContainer(c) PROVE Blank'
  <2>1. /\ pc = "containers" /\ scanned /\ pc' \in {"containers", "upsert"} /\ unread' = unread \ {c}
        /\ skipped' = skipped \/ skipped' = skipped \cup {c}
        /\ UNCHANGED <<mode, known, written, scanned>>
    BY <1>6 DEF ReadContainer, TypeOK
  <2> QED
    BY <2>1
<1>7. ASSUME UpsertPackages PROVE Blank'
  BY <1>7 DEF UpsertPackages
<1>8. ASSUME MarkSuperseded \/ MarkGone PROVE Blank'
  BY <1>8 DEF MarkSuperseded, MarkGone
<1>9. ASSUME Finish \/ Interrupted PROVE Blank'
  BY <1>9 DEF Finish, Interrupted, EndScan
<1>10. ASSUME UNCHANGED still PROVE Blank'
  BY <1>10 DEF still, scan
<1> QED
  BY <1>1, <1>2, <1>3, <1>4, <1>5, <1>6, <1>7, <1>8, <1>9, <1>10, <1>11, StillStands DEF Next, ScanStep

\* A step of the scan leaves the machine as it is.
LEMMA ScanLeavesDisk == ScanStep => UNCHANGED <<disk, now, twice>>
  BY DEF ScanStep, Begin, StatDirs, Collect, ListContainers, ReadContainer, UpsertPackages, MarkSuperseded,
         MarkGone, Finish, Interrupted, EndScan

\* A change of the machine leaves the scan as it is, and disturbs it.
LEMMA MachineLeavesScan ==
  /\ \A d \in Dirs : InstallOrRemove(d) \/ MoveAwayOrBack(d) => UNCHANGED <<table, scan>> /\ ~calm'
  /\ \A c \in Containers \cup Hosts : DatabaseChanges(c) => UNCHANGED <<table, scan>> /\ ~calm'
  BY DEF InstallOrRemove, MoveAwayOrBack, DatabaseChanges, Change

LEMMA ClockStands == TypeOK /\ Clock /\ [Next]_vars => Clock'
<1> SUFFICES ASSUME TypeOK, Clock PROVE [Next]_vars => Clock'
  OBVIOUS
<1>1. ASSUME NEW d \in Dirs, InstallOrRemove(d) PROVE Clock'
  BY <1>1, BoundsAssumption DEF InstallOrRemove, Change, Clock, TypeOK
<1>2. ASSUME mtime' = mtime, now' = now \/ now' = now + 1 PROVE Clock'
  BY <1>2, BoundsAssumption DEF Clock, TypeOK
<1>3. /\ \A d \in Dirs : MoveAwayOrBack(d) => mtime' = mtime /\ now' = now
      /\ \A c \in Containers \cup Hosts : DatabaseChanges(c) => mtime' = mtime /\ now' = now
      /\ Tick => mtime' = mtime /\ now' = now + 1
      /\ UNCHANGED vars => mtime' = mtime /\ now' = now
  BY DEF MoveAwayOrBack, DatabaseChanges, Change, Tick, vars, disk
<1>4. ScanStep => mtime' = mtime /\ now' = now
  BY ScanLeavesDisk DEF disk
<1> QED
  BY <1>1, <1>2, <1>3, <1>4 DEF Next

\* What a machine change does to a directory that no second change shares its
\* time with: nothing, or it gets a time that nothing on record has.
MachineStep == \/ \E d \in Dirs : InstallOrRemove(d) \/ MoveAwayOrBack(d)
               \/ \E c \in Containers \cup Hosts : DatabaseChanges(c)

NewTime(e) ==
    /\ \A p \in rows : dirOf[p] = e => mtimeOf[p] # mtime'[e]
    /\ \A f \in found : f.at = e => f.mtime # mtime'[e]

LEMMA MachineStamps ==
  ASSUME TypeOK, Clock, MachineStep, NEW e \in Dirs
  PROVE  /\ mtime[e] <= mtime'[e]
         /\ \/ mtime'[e] = mtime[e] /\ content'[e] = content[e] /\ (e \in twice' <=> e \in twice)
            \/ away' = away /\ (e \notin twice' => NewTime(e))
<1>0. mtime[e] \in 1..MaxSeconds /\ now \in 1..MaxSeconds /\ mtime[e] <= now
  BY DEF TypeOK, Clock
<1>1. ASSUME NEW d \in Dirs, InstallOrRemove(d), e # d
      PROVE  mtime'[e] = mtime[e] /\ content'[e] = content[e] /\ (e \in twice' <=> e \in twice)
  BY <1>1, ContentsFit, DirsArePlaces DEF InstallOrRemove, TypeOK
<1>2. ASSUME InstallOrRemove(e) PROVE mtime'[e] = now /\ away' = away /\ (e \notin twice' => NewTime(e))
  <2>1. mtime'[e] = now /\ away' = away
    BY <1>2 DEF InstallOrRemove, TypeOK
  <2>2. twice' = IF OnRecord(e) THEN twice \cup {e} ELSE twice \ {e}
    BY <1>2 DEF InstallOrRemove
  <2>3. e \notin twice' => ~OnRecord(e)
    BY <2>2
  <2> QED
    BY <2>1, <2>3 DEF OnRecord, NewTime
<1>3. ASSUME NEW d \in Dirs, MoveAwayOrBack(d) PROVE mtime'[e] = mtime[e] /\ content'[e] = content[e] /\ twice' = twice
  BY <1>3 DEF MoveAwayOrBack
<1>4. ASSUME NEW c \in Containers \cup Hosts, DatabaseChanges(c)
      PROVE  mtime'[e] = mtime[e] /\ content'[e] = content[e] /\ twice' = twice
  <2>1. c # e /\ e \in Places
    BY PlacesAssumption, DirsArePlaces DEF Dirs
  <2>2. \E held : content' = [content EXCEPT ![c] = held]
    BY <1>4 DEF DatabaseChanges
  <2> QED
    BY <2>1, <2>2, <1>4, ContentsFit DEF DatabaseChanges
<1>5. mtime[e] <= mtime[e]
  BY <1>0, BoundsAssumption
<1> QED
  BY <1>0, <1>1, <1>2, <1>3, <1>4, <1>5, BoundsAssumption DEF MachineStep

LEMMA StampedStands == TypeOK /\ TypeOK' /\ Clock /\ Stamped /\ Ahead /\ [Next]_vars => Stamped'
<1> SUFFICES ASSUME TypeOK, TypeOK', Clock, Stamped, Ahead PROVE [Next]_vars => Stamped'
  OBVIOUS
<1>1. ASSUME MachineStep PROVE Stamped'
  <2>1. ASSUME NEW p, NEW e \in Dirs, NEW m \in 0..MaxSeconds, Fits(p, e, m), NewTime(e) => m # mtime'[e]
        PROVE  Fits(p, e, m)'
    <3>1. mtime[e] \in 1..MaxSeconds /\ mtime'[e] \in 1..MaxSeconds /\ mtime[e] <= mtime'[e]
      BY <1>1, MachineStamps DEF TypeOK
    <3>2. 1 <= m /\ m <= mtime'[e]
      BY <2>1, <3>1, BoundsAssumption DEF Fits
    <3>4. m = mtime'[e] /\ e \notin twice' => content'[e] = {p}
      BY <1>1, <2>1, MachineStamps DEF Fits
    <3> QED
      BY <3>2, <3>4 DEF Fits
  <2>2. UNCHANGED <<table, scan>>
    BY <1>1, MachineLeavesScan DEF MachineStep
  <2>3. ASSUME NEW p \in rows, dirOf[p] \in Dirs PROVE Fits(p, dirOf[p], mtimeOf[p])'
    <3>1. Fits(p, dirOf[p], mtimeOf[p]) /\ mtimeOf[p] \in 0..MaxSeconds
      BY <2>3 DEF Stamped, TypeOK
    <3>2. NewTime(dirOf[p]) => mtimeOf[p] # mtime'[dirOf[p]]
      BY DEF NewTime
    <3> QED
      BY <2>1, <2>2, <2>3, <3>1, <3>2 DEF Fits, table
  <2>4. ASSUME NEW f \in found, f.at \in Dirs PROVE Fits(f.purl, f.at, f.mtime)'
    <3>1. Fits(f.purl, f.at, f.mtime) /\ f.mtime \in 0..MaxSeconds
      BY <2>4 DEF Stamped, TypeOK
    <3>2. NewTime(f.at) => f.mtime # mtime'[f.at]
      BY DEF NewTime
    <3> QED
      BY <2>1, <2>4, <3>1, <3>2
  <2> QED
    BY <2>2, <2>3, <2>4 DEF Stamped, Kind, table, scan, Fits
<1>2. ASSUME UNCHANGED <<content, mtime, twice, rows, dirOf, mtimeOf, found>> PROVE Stamped'
  BY <1>2 DEF Stamped, Kind, Fits
<1>3. ASSUME NEW places \in SUBSET Places, found' \subseteq found \cup ReadFrom(places),
             places \cap Dirs # {} => pc = "collect",
             UNCHANGED <<content, mtime, twice, rows, dirOf, mtimeOf>>
      PROVE  Stamped'
  <2> SUFFICES ASSUME NEW f \in ReadFrom(places)
               PROVE  Kind(f.purl, f.at) /\ (f.at \in Dirs => Fits(f.purl, f.at, f.mtime))
    BY <1>3 DEF Stamped, Kind, Fits
  <2>1. PICK d \in places : \E p \in Held(d) : f = Package(p, d)
    BY ReadMembers
  <2>a. PICK p \in Held(d) : f = Package(p, d)
    BY <2>1
  <2>2. Kind(p, d)
    BY HeldKind
  <2>3. ASSUME d \in Dirs PROVE Fits(p, d, stats[d])
    <3>1. 1 <= stats[d] /\ stats[d] <= mtime[d]
      BY <1>3, <2>3 DEF Ahead, Reading
    <3>2. content[d] = {p}
      BY <2>3, OneEach, ContentsFit, DirsArePlaces
    <3> QED
      BY <3>1, <3>2 DEF Fits
  <2> QED
    BY <2>a, <2>2, <2>3, PackageFields
<1>4. ASSUME Collect PROVE Stamped'
  <2>1. PICK dark \in SUBSET (Unreadable \ Containers), lost \in SUBSET PassedOver :
            found' = ReadFrom({d \in Dirs \ (dark \cup lost) : ~Unchanged(d)}) \cup ReadFrom(Hosts \ (dark \cup lost))
    BY <1>4 DEF Collect, SystemDistro
  <2> DEFINE places == {d \in Dirs \ (dark \cup lost) : ~Unchanged(d)} \cup (Hosts \ (dark \cup lost))
  <2>2. places \in SUBSET Places
    BY DirsArePlaces
  <2>3. found' \subseteq found \cup ReadFrom(places)
    BY <2>1 DEF ReadFrom
  <2>4. pc = "collect" /\ UNCHANGED <<content, mtime, twice, rows, dirOf, mtimeOf>>
    BY <1>4 DEF Collect, disk, table
  <2> HIDE DEF places
  <2> QED
    BY <1>3, <2>2, <2>3, <2>4
<1>5. ASSUME NEW c \in Containers, ReadContainer(c) PROVE Stamped'
  <2>1. {c} \in SUBSET Places /\ {c} \cap Dirs = {}
    BY DirsArePlaces, PlacesAssumption DEF Dirs
  <2>2. found' \subseteq found \cup ReadFrom({c}) /\ UNCHANGED <<content, mtime, twice, rows, dirOf, mtimeOf>>
    BY <1>5 DEF ReadContainer, disk, table
  <2> QED
    BY <1>3, <2>1, <2>2
<1>6. ASSUME UpsertPackages PROVE Stamped'
  <2>1. PICK pick \in [Seen -> found] :
          /\ \A p \in Seen : pick[p] \in WidestCopies(p)
          /\ rows' = rows \cup Seen
          /\ dirOf' = [p \in rows \cup Seen |-> IF p \in Seen THEN pick[p].at ELSE dirOf[p]]
          /\ mtimeOf' = [p \in rows \cup Seen |-> IF p \in Seen THEN PathMTime(pick[p]) ELSE mtimeOf[p]]
    BY <1>6 DEF UpsertPackages
  <2>2. \A p \in Seen : pick[p] \in found /\ pick[p].purl = p
    BY <2>1 DEF WidestCopies, Copies
  <2>3. found' = {} /\ UNCHANGED <<content, mtime, twice>>
    BY <1>6 DEF UpsertPackages, disk
  <2>4. \A p \in rows' : \/ p \in Seen /\ dirOf'[p] = pick[p].at /\ mtimeOf'[p] = pick[p].mtime
                         \/ p \in rows /\ dirOf'[p] = dirOf[p] /\ mtimeOf'[p] = mtimeOf[p]
    BY <2>1 DEF PathMTime
  <2>5. \A p \in rows' : /\ Kind(p, dirOf'[p])
                         /\ dirOf'[p] \in Dirs => Fits(p, dirOf'[p], mtimeOf'[p])
    BY <2>2, <2>4 DEF Stamped
  <2> QED
    BY <2>3, <2>5 DEF Stamped, Kind, Fits
<1>7. ASSUME Finish \/ Interrupted PROVE Stamped'
  BY <1>7 DEF Finish, Interrupted, EndScan, disk, table, Stamped, Kind, Fits
<1>8. Begin \/ StatDirs \/ ListContainers \/ MarkSuperseded \/ MarkGone =>
         UNCHANGED <<content, mtime, twice, rows, dirOf, mtimeOf, found>>
  BY DEF Begin, StatDirs, ListContainers, MarkSuperseded, MarkGone, disk, table
<1>9. UNCHANGED still => UNCHANGED <<content, mtime, twice, rows, dirOf, mtimeOf, found>>
  BY DEF still, disk, scan
<1> QED
  BY <1>1, <1>2, <1>4, <1>5, <1>6, <1>7, <1>8, <1>9, StillStands DEF Next, ScanStep, MachineStep

\* What UpsertPackages writes, by name.
LEMMA UpsertRows ==
  ASSUME TypeOK, UpsertPackages
  PROVE  \E pick :
          /\ \A p \in Seen : /\ pick[p] \in found /\ pick[p].purl = p
                             /\ \A g \in found : g.purl = p => Rank(g.at) <= Rank(pick[p].at)
                             /\ dirOf'[p] = pick[p].at /\ mtimeOf'[p] = pick[p].mtime
          /\ \A p \in rows \ Seen : dirOf'[p] = dirOf[p] /\ mtimeOf'[p] = mtimeOf[p]
          /\ rows' = rows \cup Seen /\ gone' = gone \ Seen
<1>1. PICK pick \in [Seen -> found] :
          /\ \A p \in Seen : pick[p] \in WidestCopies(p)
          /\ rows' = rows \cup Seen
          /\ gone' = NoLongerGone(Seen)
          /\ dirOf' = [p \in rows \cup Seen |-> IF p \in Seen THEN pick[p].at ELSE dirOf[p]]
          /\ mtimeOf' = [p \in rows \cup Seen |-> IF p \in Seen THEN PathMTime(pick[p]) ELSE mtimeOf[p]]
  BY DEF UpsertPackages
<1>2. \A p \in Seen : /\ pick[p] \in found /\ pick[p].purl = p
                      /\ \A g \in found : g.purl = p => Rank(g.at) <= Rank(pick[p].at)
  BY <1>1 DEF WidestCopies, Copies
<1> QED
  BY <1>1, <1>2 DEF NoLongerGone, PathMTime

\* A scan that shares its second with no other writes what it found and no more.
LEMMA OwnSecond ==
  UpsertPackages => /\ (~owed' => ~owed /\ written' = Seen)
                    /\ (calm' => calm /\ written' = Seen)
                    /\ pc = "upsert" /\ pc' = "supersede" /\ UNCHANGED <<disk, twice, mode, scanned, skipped>>
                    /\ found' = {}
  BY DEF UpsertPackages

LEMMA AheadStands == TypeOK /\ TypeOK' /\ Clock /\ Stamped /\ Blank /\ Ahead /\ [Next]_vars => Ahead'
<1> SUFFICES ASSUME TypeOK, TypeOK', Clock, Stamped, Blank, Ahead PROVE [Next]_vars => Ahead'
  OBVIOUS
<1>1. ASSUME MachineStep PROVE Ahead'
  <2>1. \A d \in Dirs : mtime[d] \in 1..MaxSeconds /\ mtime'[d] \in 1..MaxSeconds /\ stats[d] \in 0..MaxSeconds
    BY DEF TypeOK
  <2>2. \A d \in Dirs : mtime[d] <= mtime'[d]
    BY <1>1, MachineStamps
  <2>3. \A d \in Dirs : stats[d] <= mtime[d] => stats[d] <= mtime'[d]
    BY <2>1, <2>2, BoundsAssumption
  <2>4. UNCHANGED <<table, scan>>
    BY <1>1, MachineLeavesScan DEF MachineStep
  <2>5. ~owed' => ~owed
    BY <1>1 DEF MachineStep, InstallOrRemove, MoveAwayOrBack, DatabaseChanges
  <2> QED
    BY <2>3, <2>4, <2>5 DEF Ahead, Reading, table, scan
<1>2. ASSUME StatDirs PROVE Ahead'
  <2>1. \A d \in Dirs : mtime[d] \in 1..MaxSeconds
    BY DEF TypeOK
  <2>2. stats' = mtime /\ found = {} /\ written = {} /\ UNCHANGED <<mtime, rows, dirOf, mtimeOf, found, written>>
    BY <1>2 DEF StatDirs, Blank, Written, disk, table
  <2> QED
    BY <2>1, <2>2 DEF Ahead, Stamped, Fits
<1>3. ASSUME Reading, Reading', UNCHANGED <<mtime, rows, dirOf, mtimeOf, stats, written, owed>>,
             \A f \in found' : f \in found \/ (f.at \in Dirs => f.mtime = stats[f.at])
      PROVE  Ahead'
  BY <1>3 DEF Ahead
<1>4. ASSUME Collect PROVE Ahead'
  <2>1. ASSUME NEW f \in found' PROVE f.at \in Dirs => f.mtime = stats[f.at]
    <3>1. \E d, p : f = Package(p, d)
      BY <1>4 DEF Collect, SystemDistro, ReadFrom
    <3> QED
      BY <3>1, PackageFields
  <2>2. Reading /\ Reading' /\ UNCHANGED <<mtime, rows, dirOf, mtimeOf, stats, written, owed>>
    BY <1>4 DEF Collect, Reading, disk, table
  <2> QED
    BY <1>3, <2>1, <2>2
<1>5. ASSUME ListContainers PROVE Ahead'
  <2>1. Reading /\ Reading' /\ UNCHANGED <<mtime, rows, dirOf, mtimeOf, stats, written, owed, found>>
    BY <1>5 DEF ListContainers, Reading, disk, table
  <2> QED
    BY <1>3, <2>1
<1>6. ASSUME NEW c \in Containers, ReadContainer(c) PROVE Ahead'
  <2>1. ASSUME NEW f \in found' \ found PROVE f.at \in Dirs => f.mtime = stats[f.at]
    <3>1. f \in ReadFrom({c})
      BY <1>6 DEF ReadContainer
    <3>2. \E p : f = Package(p, c)
      BY <3>1 DEF ReadFrom
    <3> QED
      BY <3>2, PackageFields
  <2>2. Reading /\ Reading' /\ UNCHANGED <<mtime, rows, dirOf, mtimeOf, stats, written, owed>>
    BY <1>6 DEF ReadContainer, Reading, TypeOK, disk, table
  <2> QED
    BY <1>3, <2>1, <2>2
<1>7. ASSUME UpsertPackages PROVE Ahead'
  <2>1. PICK pick :
          /\ \A p \in Seen : /\ pick[p] \in found
                             /\ dirOf'[p] = pick[p].at /\ mtimeOf'[p] = pick[p].mtime
          /\ \A p \in rows \ Seen : dirOf'[p] = dirOf[p] /\ mtimeOf'[p] = mtimeOf[p]
          /\ rows' = rows \cup Seen
    BY <1>7, UpsertRows
  <2>2. Reading /\ ~Reading' /\ (~owed' => written' = Seen)
    BY <1>7, OwnSecond DEF Reading
  <2>3. \A q \in Seen : dirOf'[q] \in Dirs => mtimeOf'[q] = stats[dirOf'[q]]
    BY <2>1, <2>2 DEF Ahead
  <2>4. \A p \in rows' : dirOf'[p] \in Dirs => mtimeOf'[p] <= stats[dirOf'[p]]
    <3> SUFFICES ASSUME NEW p \in rows', dirOf'[p] \in Dirs PROVE mtimeOf'[p] <= stats[dirOf'[p]]
      OBVIOUS
    <3>1. CASE p \in Seen
      <4>1. stats[dirOf'[p]] \in 0..MaxSeconds
        BY DEF TypeOK
      <4> QED
        BY <3>1, <4>1, <2>3, BoundsAssumption
    <3>2. CASE p \notin Seen
      BY <2>1, <2>2, <3>2 DEF Ahead
    <3> QED
      BY <3>1, <3>2
  <2>5. \A p \in rows', q \in Seen :
          dirOf'[q] \in Dirs /\ dirOf'[p] = dirOf'[q] => mtimeOf'[p] <= mtimeOf'[q]
    BY <2>3, <2>4
  <2> QED
    BY <2>2, <2>5 DEF Ahead
<1>8. ASSUME Begin \/ MarkSuperseded \/ MarkGone PROVE Ahead'
  BY <1>8 DEF Begin, MarkSuperseded, MarkGone, Ahead, Reading, table
<1>9. ASSUME Finish \/ Interrupted PROVE Ahead'
  BY <1>9 DEF Finish, Interrupted, EndScan, Ahead, Reading
<1>10. ASSUME UNCHANGED still PROVE Ahead'
  BY <1>10 DEF still, disk, scan, Ahead, Reading
<1> QED
  BY <1>1, <1>2, <1>4, <1>5, <1>6, <1>7, <1>8, <1>9, <1>10, StillStands DEF Next, ScanStep, MachineStep

LEMMA BackedStands == TypeOK /\ Backed /\ [Next]_vars => Backed'
<1> SUFFICES ASSUME TypeOK, Backed PROVE [Next]_vars => Backed'
  OBVIOUS
<1>1. ASSUME Begin PROVE Backed'
  <2>1. UNCHANGED <<rows, dirOf, mtimeOf>> /\ (known' = Nothing \/ known' \in KnownMTimes)
    BY <1>1 DEF Begin, table
  <2>2. ASSUME NEW d \in Dirs, known'[d] # 0 PROVE \E q \in rows : dirOf[q] = d /\ mtimeOf[q] = known'[d]
    <3>1. known' \in KnownMTimes
      BY <2>1, <2>2 DEF Nothing
    <3>2. LET at == {p \in rows : dirOf[p] = d}
          IN  IF at = {} THEN known'[d] = 0 ELSE \E p \in at : known'[d] = mtimeOf[p]
      BY <3>1 DEF KnownMTimes
    <3> QED
      BY <3>2, <2>2
  <2> QED
    BY <2>1, <2>2 DEF Backed
<1>2. ASSUME UNCHANGED <<known, rows, dirOf, mtimeOf>>, (pc = "stat" \/ Reading)' => pc = "stat" \/ Reading PROVE Backed'
  BY <1>2 DEF Backed
<1>3. ASSUME (pc \notin {"stat", "collect", "containers", "upsert"})' PROVE Backed'
  BY <1>3 DEF Backed, Reading
<1>4. StatDirs \/ Collect \/ ListContainers => /\ UNCHANGED <<known, rows, dirOf, mtimeOf>> /\ (pc = "stat" \/ Reading)
  BY DEF StatDirs, Collect, ListContainers, table, Reading
<1>5. \A c \in Containers : ReadContainer(c) => /\ UNCHANGED <<known, rows, dirOf, mtimeOf>> /\ (pc = "stat" \/ Reading)
  BY DEF ReadContainer, table, Reading, TypeOK
<1>6. UpsertPackages \/ MarkSuperseded \/ MarkGone \/ Finish \/ Interrupted =>
         (pc \notin {"stat", "collect", "containers", "upsert"})'
  BY DEF UpsertPackages, MarkSuperseded, MarkGone, Finish, Interrupted, EndScan
<1>7. UNCHANGED <<table, scan>> \/ UNCHANGED still => /\ UNCHANGED <<known, rows, dirOf, mtimeOf>>
                                   /\ ((pc = "stat" \/ Reading)' => pc = "stat" \/ Reading)
  BY DEF table, scan, still, Reading
<1> QED
  BY <1>1, <1>2, <1>3, <1>4, <1>5, <1>6, <1>7, MachineLeavesScan, StillStands DEF Next, ScanStep

\* Two rows that have the directory's present time are one.
LEMMA SameTime ==
  ASSUME TypeOK, Stamped, NEW p \in rows, NEW q \in rows, dirOf[p] = dirOf[q], dirOf[q] \in Dirs \ twice,
         mtimeOf[p] = mtime[dirOf[q]], mtimeOf[q] = mtime[dirOf[q]]
  PROVE  p = q
  BY DEF Stamped, Fits

\* A row with the present time of a directory that is there is what it holds.
LEMMA Fresh ==
  ASSUME TypeOK, Stamped, NEW p \in rows, dirOf[p] \in Dirs \ (away \cup twice), mtimeOf[p] = mtime[dirOf[p]]
  PROVE  Held(dirOf[p]) = {p}
  BY DEF Stamped, Fits, Held

\* A full scan that nobody disturbed and that could read every directory leaves
\* nothing of earlier debts.
LEMMA FinishSettles ==
  ASSUME TypeOK, Stamped, CalmWritten, pc = "done", mode = "full", skipped \cap Dirs = {}
  PROVE  /\ \A p \in rows : dirOf[p] \in Dirs \ (away \cup twice) /\ mtimeOf[p] = mtime[dirOf[p]] => p \notin gone
         /\ \A p, q \in rows :
              p # q /\ dirOf[p] = dirOf[q] /\ dirOf[q] \in Dirs \ twice /\ mtimeOf[q] = mtime[dirOf[q]] => p \in gone
<1>1. /\ \A d \in Dirs : \A p \in Held(d) : p \in written
      /\ \A q \in written : q \in Held(dirOf[q]) /\ q \notin gone
      /\ \A p \in Present \ written, q \in written : dirOf[q] # dirOf[p]
      /\ \A p \in Present : ~Missing(p)
  BY DEF CalmWritten, Written
<1>2. ASSUME NEW p \in rows, dirOf[p] \in Dirs \ (away \cup twice), mtimeOf[p] = mtime[dirOf[p]]
      PROVE  p \in written /\ p \notin gone
  BY <1>1, <1>2, Fresh
<1>3. ASSUME NEW p \in rows, NEW q \in rows, p # q, dirOf[p] = dirOf[q], dirOf[q] \in Dirs \ twice,
             mtimeOf[q] = mtime[dirOf[q]], p \notin gone
      PROVE  FALSE
  <2>1. p \in Present /\ ~Missing(p)
    BY <1>1, <1>3 DEF Present
  <2>2. dirOf[q] \notin Containers
    BY <1>3, PlacesAssumption DEF Dirs
  <2>3. dirOf[q] \notin away
    BY <1>3, <2>1, <2>2 DEF Missing, Held
  <2>4. q \in written /\ Held(dirOf[q]) = {q}
    BY <1>2, <1>3, <2>3, Fresh
  <2>5. p \notin written
    BY <1>1, <1>3, <2>4
  <2> QED
    BY <1>1, <1>3, <2>1, <2>4, <2>5
<1> QED
  BY <1>2, <1>3

\* The debt is paid off by such a scan only.
LEMMA FinishDebt ==
  Finish => /\ UNCHANGED <<rows, gone, dirOf, mtimeOf, mtime, away, twice>> /\ pc = "done" /\ pc' = "idle"
            /\ ~owed' => ~owed \/ (mode = "full" /\ calm /\ skipped \cap Dirs = {})
  BY DEF Finish, EndScan, disk, table

LEMMA KeptStands ==
  TypeOK /\ Clock /\ Stamped /\ Ahead /\ Kept /\ (calm => CalmWritten) /\ [Next]_vars => Kept'
<1> SUFFICES ASSUME TypeOK, Clock, Stamped, Ahead, Kept, calm => CalmWritten PROVE [Next]_vars => Kept'
  OBVIOUS
<1>1. ASSUME MachineStep PROVE Kept'
  <2>1. (~owed' => ~owed) /\ UNCHANGED <<rows, gone, dirOf, mtimeOf>>
    BY <1>1, MachineLeavesScan DEF MachineStep, InstallOrRemove, MoveAwayOrBack, DatabaseChanges, table
  <2>2. CASE ~owed' /\ away' = away
    <3> SUFFICES ASSUME NEW p \in rows, dirOf[p] \in Dirs \ (away \cup twice'), mtimeOf[p] = mtime'[dirOf[p]]
                 PROVE  p \notin gone
      BY <2>1, <2>2 DEF Kept
    <3>1. ~NewTime(dirOf[p])
      BY DEF NewTime
    <3>2. mtime'[dirOf[p]] = mtime[dirOf[p]] /\ dirOf[p] \notin twice
      BY <1>1, <3>1, MachineStamps
    <3> QED
      BY <2>1, <2>2, <3>2 DEF Kept
  <2>3. ~owed' => away' = away
    BY <1>1 DEF MachineStep, InstallOrRemove, MoveAwayOrBack, DatabaseChanges
  <2> QED
    BY <2>2, <2>3 DEF Kept
<1>3. ASSUME UNCHANGED <<rows, gone, dirOf, mtimeOf, mtime, away, twice, owed>> PROVE Kept'
  BY <1>3 DEF Kept
<1>4. Begin \/ StatDirs \/ Collect \/ ListContainers \/ (\E c \in Containers : ReadContainer(c)) \/ UNCHANGED still =>
         UNCHANGED <<rows, gone, dirOf, mtimeOf, mtime, away, twice, owed>>
  BY DEF Begin, StatDirs, Collect, ListContainers, ReadContainer, still, disk, table
<1>5. ASSUME UpsertPackages PROVE Kept'
  <2>1. /\ \A p \in rows \ Seen : dirOf'[p] = dirOf[p] /\ mtimeOf'[p] = mtimeOf[p]
        /\ rows' = rows \cup Seen /\ gone' = gone \ Seen
    BY <1>5, UpsertRows
  <2>2. UNCHANGED <<mtime, away, twice>> /\ (~owed' => ~owed)
    BY <1>5, OwnSecond DEF disk
  <2> QED
    BY <2>1, <2>2 DEF Kept
<1>6. ASSUME MarkSuperseded PROVE Kept'
  <2> SUFFICES ASSUME ~owed, NEW p \in rows, dirOf[p] \in Dirs \ (away \cup twice), mtimeOf[p] = mtime[dirOf[p]],
                      p \in Superseded
               PROVE  FALSE
    BY <1>6 DEF MarkSuperseded, Kept, disk
  <2>1. PICK q \in written : dirOf[q] = dirOf[p]
    BY DEF Superseded
  <2>2. q \in rows /\ p \notin written
    BY DEF TypeOK, Superseded
  <2>3. mtimeOf[p] <= mtimeOf[q] /\ mtimeOf[q] <= mtime[dirOf[q]]
    BY <2>1, <2>2 DEF Ahead, Stamped, Fits
  <2>4. mtimeOf[q] = mtime[dirOf[q]]
    <3>1. mtimeOf[q] \in 0..MaxSeconds /\ mtime[dirOf[q]] \in 1..MaxSeconds
      BY <2>1, <2>2 DEF TypeOK
    <3> QED
      BY <2>1, <2>3, <3>1, BoundsAssumption
  <2> QED
    BY <2>1, <2>2, <2>4, SameTime
<1>7. ASSUME MarkGone PROVE Kept'
  <2>1. ASSUME NEW p \in rows, dirOf[p] \in Dirs \ (away \cup twice), mtimeOf[p] = mtime[dirOf[p]]
        PROVE  ~Missing(p)
    BY <2>1, Fresh, PlacesAssumption DEF Missing, Dirs
  <2> QED
    BY <1>7, <2>1 DEF MarkGone, Kept, disk
<1>8. ASSUME Finish PROVE Kept'
  BY <1>8, FinishDebt, FinishSettles DEF Kept
<1>9. ASSUME Interrupted PROVE Kept'
  BY <1>9 DEF Interrupted, Kept
<1> QED
  BY <1>1, <1>3, <1>4, <1>5, <1>6, <1>7, <1>8, <1>9, StillStands DEF Next, ScanStep, MachineStep

LEMMA AloneStands ==
  TypeOK /\ TypeOK' /\ Clock /\ Stamped /\ Stamped' /\ Ahead /\ Alone /\ (calm => CalmWritten) /\ [Next]_vars => Alone'
<1> SUFFICES ASSUME TypeOK, TypeOK', Clock, Stamped, Stamped', Ahead, Alone, calm => CalmWritten
             PROVE  [Next]_vars => Alone'
  OBVIOUS
<1>1. ASSUME MachineStep PROVE Alone'
  <2>1. (~owed' => ~owed) /\ UNCHANGED <<rows, gone, dirOf, mtimeOf, pc, written>>
    BY <1>1, MachineLeavesScan DEF MachineStep, InstallOrRemove, MoveAwayOrBack, DatabaseChanges, table, scan
  <2> SUFFICES ASSUME ~owed, NEW p \in rows, NEW q \in rows, p # q, dirOf[p] = dirOf[q], dirOf[q] \in Dirs \ twice',
                      mtimeOf[q] = mtime'[dirOf[q]]
               PROVE  p \in gone \/ (pc = "supersede" /\ q \in written)
    BY <2>1 DEF Alone
  <2>2. ~NewTime(dirOf[q])
    BY DEF NewTime
  <2>3. mtime'[dirOf[q]] = mtime[dirOf[q]] /\ dirOf[q] \notin twice
    BY <1>1, <2>2, MachineStamps
  <2> QED
    BY <2>3 DEF Alone
<1>3. ASSUME UNCHANGED <<rows, gone, dirOf, mtimeOf, mtime, twice, owed>>,
             (pc = "supersede" => pc' = "supersede" /\ written' = written)
      PROVE  Alone'
  BY <1>3 DEF Alone
<1>4. Begin \/ StatDirs \/ Collect \/ ListContainers \/ (\E c \in Containers : ReadContainer(c)) \/ UNCHANGED still =>
         /\ UNCHANGED <<rows, gone, dirOf, mtimeOf, mtime, twice, owed>>
         /\ (pc = "supersede" => pc' = "supersede" /\ written' = written)
  BY DEF Begin, StatDirs, Collect, ListContainers, ReadContainer, TypeOK, still, disk, table, scan
<1>5. ASSUME UpsertPackages PROVE Alone'
  <2>1. PICK pick :
          /\ \A p \in Seen : /\ pick[p] \in found /\ pick[p].purl = p
                             /\ dirOf'[p] = pick[p].at /\ mtimeOf'[p] = pick[p].mtime
          /\ \A p \in rows \ Seen : dirOf'[p] = dirOf[p] /\ mtimeOf'[p] = mtimeOf[p]
          /\ rows' = rows \cup Seen /\ gone' = gone \ Seen
    BY <1>5, UpsertRows
  <2>2. UNCHANGED <<mtime, away, twice>> /\ pc = "upsert" /\ pc' = "supersede" /\ (~owed' => ~owed /\ written' = Seen)
    BY <1>5, OwnSecond DEF disk
  <2> SUFFICES ASSUME NEW p \in rows', NEW q \in rows', ~owed, p # q, dirOf'[p] = dirOf'[q], dirOf'[q] \in Dirs \ twice,
                      mtimeOf'[q] = mtime[dirOf'[q]], q \notin Seen
               PROVE  p \in gone'
    BY <2>2 DEF Alone
  <2>3. q \in rows /\ dirOf'[q] = dirOf[q] /\ mtimeOf'[q] = mtimeOf[q]
    BY <2>1
  <2>4. CASE p \in Seen
    <3>1. mtimeOf'[p] = stats[dirOf[q]] /\ stats[dirOf[q]] <= mtime[dirOf[q]] /\ mtimeOf[q] <= stats[dirOf[q]]
      BY <2>1, <2>2, <2>3, <2>4 DEF Ahead, Reading
    <3>2. stats[dirOf[q]] \in 0..MaxSeconds /\ mtime[dirOf[q]] \in 1..MaxSeconds
      BY <2>3 DEF TypeOK
    <3>3. mtimeOf'[p] = mtime[dirOf[q]]
      BY <2>3, <3>1, <3>2, BoundsAssumption
    <3>4. \A r \in rows' : mtimeOf'[r] = mtime'[dirOf'[r]] /\ dirOf'[r] \in Dirs \ twice' => content'[dirOf'[r]] = {r}
      BY DEF Stamped, Fits
    <3>5. mtimeOf'[p] = mtime'[dirOf'[p]] /\ mtimeOf'[q] = mtime'[dirOf'[q]]
      BY <2>2, <2>3, <3>3
    <3>6. content'[dirOf'[p]] = {p} /\ content'[dirOf'[q]] = {q}
      BY <2>2, <3>4, <3>5
    <3> QED
      BY <3>6
  <2>5. CASE p \notin Seen
    BY <2>1, <2>2, <2>3, <2>5 DEF Alone
  <2> QED
    BY <2>4, <2>5
<1>6. ASSUME MarkSuperseded PROVE Alone'
  <2>1. UNCHANGED <<rows, dirOf, mtimeOf, mtime, twice, owed, written>> /\ gone' = gone \cup Superseded
    BY <1>6 DEF MarkSuperseded, disk
  <2> SUFFICES ASSUME NEW p \in rows, NEW q \in rows, ~owed, p # q, dirOf[p] = dirOf[q], dirOf[q] \in Dirs \ twice,
                      mtimeOf[q] = mtime[dirOf[q]], p \notin gone
               PROVE  p \in Superseded
    BY <2>1 DEF Alone
  <2>2. q \in written
    BY DEF Alone
  <2>3. p \notin written
    <3> SUFFICES ASSUME p \in written PROVE FALSE
      OBVIOUS
    <3>1. mtimeOf[q] <= mtimeOf[p] /\ mtimeOf[p] <= mtime[dirOf[q]]
      BY DEF Ahead, Stamped, Fits
    <3>2. mtimeOf[p] \in 0..MaxSeconds /\ mtime[dirOf[q]] \in 1..MaxSeconds
      BY DEF TypeOK
    <3>3. mtimeOf[p] = mtime[dirOf[q]]
      BY <3>1, <3>2, BoundsAssumption
    <3> QED
      BY <3>3, SameTime
  <2> QED
    BY <2>2, <2>3 DEF Superseded, Present
<1>7. ASSUME MarkGone PROVE Alone'
  BY <1>7 DEF MarkGone, Alone, disk
<1>8. ASSUME Finish PROVE Alone'
  <2>1. CASE ~owed
    BY <1>8, <2>1, FinishDebt DEF Alone
  <2>2. CASE owed /\ ~owed'
    BY <1>8, <2>2, FinishDebt, FinishSettles DEF Alone
  <2> QED
    BY <2>1, <2>2 DEF Alone
<1>9. ASSUME Interrupted PROVE Alone'
  BY <1>9 DEF Interrupted, Alone
<1> QED
  BY <1>1, <1>3, <1>4, <1>5, <1>6, <1>7, <1>8, <1>9, StillStands DEF Next, ScanStep, MachineStep

LEMMA CalmReadingStands ==
  PassedOver = {} /\ TypeOK /\ Blank /\ (calm => CalmReading) /\ [Next]_vars => (calm => CalmReading)'
<1> SUFFICES ASSUME PassedOver = {}, TypeOK, Blank, calm => CalmReading, [Next]_vars, calm' PROVE CalmReading'
  OBVIOUS
<1>1. ASSUME StatDirs PROVE CalmReading'
  BY <1>1 DEF StatDirs, CalmReading, Reading, disk
<1>2. ASSUME Collect PROVE CalmReading'
  <2>1. /\ stats = mtime /\ UNCHANGED <<content, mtime, away, known, stats, unread>> /\ pc = "collect" /\ pc' = "containers"
        /\ scanned' = FALSE /\ unread = {}
    BY <1>2 DEF Collect, CalmReading, Reading, Blank, TypeOK, disk
  <2>2. PICK dark \in SUBSET (Unreadable \ Containers), lost \in SUBSET PassedOver :
            /\ found' = ReadFrom({d \in Dirs \ (dark \cup lost) : ~Unchanged(d)}) \cup ReadFrom(Hosts \ (dark \cup lost))
            /\ skipped' = dark
    BY <1>2 DEF Collect, SystemDistro
  <2>a. lost = {}
    BY <2>2
  <2>3. \A d \in Dirs \ skipped' : \A p \in Held(d) : Unchanged(d) \/ Package(p, d) \in found'
    BY <2>2, <2>a DEF ReadFrom
  <2>4. \A d \in Hosts \ skipped' : \A p \in Held(d) : Package(p, d) \in found'
    BY <2>2, <2>a DEF ReadFrom
  <2>5. ASSUME NEW f \in found' PROVE f.purl \in Held(f.at) /\ f.at \notin Containers /\ f.at \notin skipped'
    <3>1. \E d \in (Dirs \cup Hosts) \ dark : \E p \in Held(d) : f = Package(p, d)
      BY <2>2, <2>a DEF ReadFrom
    <3> QED
      BY <2>2, <3>1, PackageFields, PlacesAssumption DEF Dirs
  <2>6. \A d, p : Package(p, d)' = Package(p, d) /\ Held(d)' = Held(d) /\ Unchanged(d)' = Unchanged(d)
    BY <2>1 DEF Package, Held, Unchanged
  <2> QED
    BY <2>1, <2>3, <2>4, <2>5, <2>6 DEF CalmReading
<1>3. ASSUME ListContainers PROVE CalmReading'
  <2>1. /\ UNCHANGED <<content, mtime, away, known, stats, found, calm>> /\ pc = "containers" /\ ~scanned
        /\ scanned' => unread' = Containers /\ skipped' = skipped
        /\ ~scanned' => unread' = {}
        /\ skipped' = skipped \/ skipped' = skipped \cup Containers
        /\ unread' \subseteq Containers
    BY <1>3 DEF ListContainers, disk
  <2>2. CalmReading /\ stats = mtime
    BY <2>1 DEF CalmReading, Reading
  <2>3. \A d, p : Package(p, d)' = Package(p, d) /\ Held(d)' = Held(d) /\ Unchanged(d)' = Unchanged(d)
    BY <2>1 DEF Package, Held, Unchanged
  <2>4. \A f \in found : f.purl \in Held(f.at) /\ f.at \notin skipped /\ f.at \notin Containers
    BY <2>1, <2>2 DEF CalmReading
  <2>5. \A f \in found : f.at \notin skipped' /\ f.at \notin unread'
    BY <2>1, <2>4
  <2>6. /\ \A d \in Dirs \ skipped' : \A p \in Held(d) : Unchanged(d) \/ Package(p, d) \in found
        /\ \A d \in Hosts \ skipped' : \A p \in Held(d) : Package(p, d) \in found
    BY <2>1, <2>2 DEF CalmReading
  <2> QED
    BY <2>1, <2>2, <2>3, <2>4, <2>5, <2>6 DEF CalmReading
<1>4. ASSUME NEW c \in Containers, ReadContainer(c) PROVE CalmReading'
  <2>1. /\ UNCHANGED <<content, mtime, away, known, stats, scanned, calm>> /\ pc = "containers" /\ scanned
        /\ c \in unread /\ unread' = unread \ {c} /\ found \subseteq found' /\ found' \subseteq found \cup ReadFrom({c})
    BY <1>4 DEF ReadContainer, disk, TypeOK
  <2>2. CalmReading /\ stats = mtime
    BY <2>1 DEF CalmReading, Reading
  <2>3. \A d, p : Package(p, d)' = Package(p, d) /\ Held(d)' = Held(d) /\ Unchanged(d)' = Unchanged(d)
    BY <2>1 DEF Package, Held, Unchanged
  <2>4. \/ skipped' = skipped \cup {c} /\ found' = found
        \/ skipped' = skipped /\ \A p \in Held(c) : Package(p, c) \in found'
    <3>1. PICK release \in Copied(c), database \in Copied(c) :
             /\ skipped' = IF release = "failed" \/ (release = "file" /\ database = "failed")
                           THEN skipped \cup {c} ELSE skipped
             /\ found' = IF release = "file" /\ database = "file" THEN found \cup ReadFrom({c}) ELSE found
      BY <1>4 DEF ReadContainer
    <3>2. CASE release = "failed" \/ (release = "file" /\ database = "failed")
      BY <3>1, <3>2
    <3>3. CASE release = "file" /\ database = "file"
      BY <3>1, <3>3 DEF ReadFrom
    <3>4. CASE release = "missing" \/ (release = "file" /\ database = "missing")
      <4>1. content[c] = {}
        BY <3>4 DEF Copied
      <4> QED
        BY <3>1, <3>4, <4>1 DEF Held
    <3> QED
      BY <3>2, <3>3, <3>4 DEF Copied
  <2>5. skipped' \subseteq skipped \cup {c} /\ skipped \subseteq skipped'
    BY <2>4
  <2>6. ASSUME NEW f \in found
        PROVE  f.purl \in Held(f.at) /\ f.at \notin skipped \cup unread /\ f.at # c /\ (f.at \in Containers => scanned)
    BY <2>1, <2>2 DEF CalmReading
  <2>7. ASSUME NEW f \in found' PROVE /\ f.purl \in Held(f.at) /\ f.at \notin skipped' \cup unread'
                                      /\ f.at \in Containers => scanned'
    <3>1. CASE f \in found
      BY <2>1, <2>5, <2>6, <3>1
    <3>2. CASE f \notin found
      <4>1. f \in ReadFrom({c})
        BY <2>1, <3>2
      <4>2. \E p \in Held(c) : f = Package(p, c)
        BY <4>1 DEF ReadFrom
      <4>3. skipped' = skipped
        BY <2>4, <3>2
      <4>4. c \notin skipped
        BY <2>1 DEF Blank
      <4> QED
        BY <2>1, <4>2, <4>3, <4>4, PackageFields
    <3> QED
      BY <3>1, <3>2
  <2>8. \A e \in Containers \ (unread' \cup skipped') : \A p \in Held(e) : Package(p, e) \in found'
    BY <2>1, <2>2, <2>4, <2>5 DEF CalmReading
  <2>9. /\ \A d \in Dirs \ skipped' : \A p \in Held(d) : Unchanged(d) \/ Package(p, d) \in found'
        /\ \A d \in Hosts \ skipped' : \A p \in Held(d) : Package(p, d) \in found'
    BY <2>1, <2>2, <2>5 DEF CalmReading
  <2> QED
    BY <2>1, <2>2, <2>3, <2>7, <2>8, <2>9 DEF CalmReading
<1>5. (pc \notin {"collect", "containers", "upsert"})' => CalmReading'
  BY DEF CalmReading, Reading
<1>6. Begin \/ UpsertPackages \/ MarkSuperseded \/ MarkGone \/ Finish \/ Interrupted =>
        (pc \notin {"collect", "containers", "upsert"})'
  BY DEF Begin, UpsertPackages, MarkSuperseded, MarkGone, Finish, Interrupted, EndScan
<1>7. ASSUME UNCHANGED still PROVE CalmReading'
  BY <1>7 DEF still, disk, scan, CalmReading, Reading, Held, Unchanged, Package
<1> QED
  BY <1>1, <1>2, <1>3, <1>4, <1>5, <1>6, <1>7, MachineLeavesScan, StillStands DEF Next, ScanStep

LEMMA CalmWrittenStands ==
  TypeOK /\ Blank /\ Stamped /\ Backed /\ (calm => CalmReading /\ CalmWritten) /\ [Next]_vars => (calm => CalmWritten)'
<1> SUFFICES ASSUME TypeOK, Blank, Stamped, Backed, calm => CalmReading /\ CalmWritten, [Next]_vars, calm'
             PROVE  CalmWritten'
  OBVIOUS
<1>1. ASSUME UpsertPackages PROVE CalmWritten'
  <2>1. PICK pick :
          /\ \A p \in Seen : /\ pick[p] \in found /\ pick[p].purl = p
                             /\ \A g \in found : g.purl = p => Rank(g.at) <= Rank(pick[p].at)
                             /\ dirOf'[p] = pick[p].at /\ mtimeOf'[p] = pick[p].mtime
          /\ \A p \in rows \ Seen : dirOf'[p] = dirOf[p] /\ mtimeOf'[p] = mtimeOf[p]
          /\ rows' = rows \cup Seen /\ gone' = gone \ Seen
    BY <1>1, UpsertRows
  <2>2. /\ UNCHANGED <<content, mtime, away, mode, scanned, skipped, twice>> /\ pc = "upsert" /\ pc' = "supersede"
        /\ unread = {} /\ calm /\ written' = Seen
    BY <1>1, OwnSecond DEF disk, TypeOK
  <2>a. \A f \in found : f.purl \in Seen
    BY DEF Seen
  <2>3. CalmReading /\ stats = mtime /\ \A d : Held(d)' = Held(d)
    BY <2>2 DEF CalmReading, Reading, Held
  <2>4. ASSUME NEW d \in Dirs \ skipped, NEW p \in Held(d)
        PROVE  \/ p \in Seen /\ (mode = "full" => Rank(d) <= Rank(dirOf'[p]))
               \/ mode # "full" /\ (d \in twice \/ (p \in rows' /\ dirOf'[p] = d /\ mtimeOf'[p] = mtime[d]))
    <3>1. CASE Package(p, d) \in found
      <4>1. p \in Seen
        BY <2>a, <3>1, PackageFields
      <4>2. Rank(d) <= Rank(dirOf'[p])
        BY <2>1, <3>1, <4>1, PackageFields
      <4> QED
        BY <4>1, <4>2
    <3>2. CASE Unchanged(d) /\ p \notin Seen
      <4>1. known[d] = mtime[d] /\ mtime[d] \in 1..MaxSeconds
        BY <2>3, <3>2 DEF Unchanged, TypeOK
      <4>2. known[d] # 0
        BY <4>1, BoundsAssumption
      <4>3. PICK q \in rows : dirOf[q] = d /\ mtimeOf[q] = known[d]
        BY <2>2, <4>2 DEF Backed, Reading
      <4>4. d \notin twice => content[d] = {q}
        BY <4>1, <4>3 DEF Stamped, Fits
      <4>5. d \notin twice => p = q
        BY <4>4, ContentsFit, DirsArePlaces
      <4>6. mode # "full"
        BY <2>2, <4>2 DEF Blank, Written, Nothing
      <4> QED
        BY <2>1, <3>2, <4>1, <4>3, <4>5, <4>6
    <3>3. CASE Unchanged(d) /\ p \in Seen /\ Package(p, d) \notin found
      <4>1. known[d] = mtime[d] /\ mtime[d] \in 1..MaxSeconds
        BY <2>3, <3>3 DEF Unchanged, TypeOK
      <4>2. known[d] # 0
        BY <4>1, BoundsAssumption
      <4>3. mode # "full"
        BY <2>2, <4>2 DEF Blank, Written, Nothing
      <4> QED
        BY <3>3, <4>3
    <3> QED
      BY <2>2, <2>3, <3>1, <3>2, <3>3 DEF CalmReading
  <2>5. \A d \in Hosts \ skipped : Held(d) \subseteq Seen
    BY <2>a, <2>2, <2>3, PackageFields DEF CalmReading
  <2>6. scanned => \A c \in Containers \ skipped : Held(c) \subseteq Seen
    BY <2>a, <2>2, <2>3, PackageFields DEF CalmReading
  <2>7. \A q \in Seen : /\ q \in Held(dirOf'[q]) /\ q \notin gone' /\ dirOf'[q] \notin skipped
                        /\ dirOf'[q] \in Containers => scanned
    BY <2>1, <2>2, <2>3 DEF CalmReading
  <2> QED
    BY <2>2, <2>3, <2>4, <2>5, <2>6, <2>7 DEF CalmWritten
<1>2. ASSUME MarkSuperseded PROVE CalmWritten'
  <2>1. /\ UNCHANGED <<content, mtime, away, rows, dirOf, mtimeOf, mode, scanned, skipped, written, calm, twice>>
        /\ gone' = gone \cup Superseded /\ pc = "supersede" /\ pc' = "reconcile"
    BY <1>2 DEF MarkSuperseded, disk
  <2>2. CalmWritten /\ (\A d : Held(d)' = Held(d)) /\ \A q : Held(dirOf[q])' = Held(dirOf[q])
    BY <2>1 DEF Held
  <2>3. \A p \in Present' \ written, q \in written : dirOf[q] # dirOf[p]
    BY <2>1 DEF Superseded, Present
  <2>4. \A q \in written : /\ q \in Held(dirOf[q]) /\ q \notin gone' /\ dirOf[q] \notin skipped
                           /\ dirOf[q] \in Containers => scanned
    BY <2>1, <2>2 DEF CalmWritten, Written, Superseded
  <2>5. /\ \A d \in Dirs \ skipped : \A p \in Held(d) :
              \/ p \in written /\ (mode = "full" => Rank(d) <= Rank(dirOf[p]))
              \/ mode # "full" /\ (d \in twice \/ (p \in rows /\ dirOf[p] = d /\ mtimeOf[p] = mtime[d]))
        /\ \A d \in Hosts \ skipped : Held(d) \subseteq written
        /\ scanned => \A c \in Containers \ skipped : Held(c) \subseteq written
    BY <2>1, <2>2 DEF CalmWritten, Written
  <2>6. pc' = "reconcile" /\ written' = written /\ dirOf' = dirOf /\ UNCHANGED <<rows, mtime, mtimeOf, mode, scanned, skipped, twice>>
    BY <2>1
  <2>7. /\ \A p \in Present' \ written', q \in written' : dirOf'[q] # dirOf'[p]
        /\ \A q \in written' : /\ q \in Held(dirOf[q])' /\ q \notin gone' /\ dirOf'[q] \notin skipped'
                               /\ dirOf'[q] \in Containers => scanned'
    BY <2>2, <2>3, <2>4, <2>6
  <2>8. /\ \A d \in Dirs \ skipped' : \A p \in Held(d)' :
              \/ p \in written' /\ (mode' = "full" => Rank(d) <= Rank(dirOf'[p]))
              \/ mode' # "full" /\ (d \in twice' \/ (p \in rows' /\ dirOf'[p] = d /\ mtimeOf'[p] = mtime'[d]))
        /\ \A d \in Hosts \ skipped' : Held(d)' \subseteq written'
        /\ scanned' => \A c \in Containers \ skipped' : Held(c)' \subseteq written'
    BY <2>2, <2>5, <2>6
  <2> QED
    BY <2>6, <2>7, <2>8 DEF CalmWritten
<1>3. ASSUME MarkGone PROVE CalmWritten'
  <2>1. /\ UNCHANGED <<content, mtime, away, rows, dirOf, mtimeOf, mode, scanned, skipped, written, calm, twice>>
        /\ gone' = gone \cup {p \in Present : Missing(p)} /\ pc = "reconcile" /\ pc' = "done"
    BY <1>3 DEF MarkGone, disk
  <2>2. CalmWritten /\ (\A d : Held(d)' = Held(d) /\ Missing(d)' = Missing(d)) /\ \A q : Held(dirOf[q])' = Held(dirOf[q])
    BY <2>1 DEF Held, Missing
  <2>3. \A p \in Present' : ~Missing(p) /\ p \in Present
    BY <2>1 DEF Present
  <2>4. \A q \in written : /\ q \in Held(dirOf[q]) /\ q \notin gone /\ dirOf[q] \notin skipped
                           /\ dirOf[q] \in Containers => scanned
    BY <2>1, <2>2 DEF CalmWritten, Written
  <2>a. \A q \in written : ~Missing(q)
    BY <2>4 DEF Missing
  <2>5. \A q \in written : q \notin gone'
    BY <2>1, <2>4, <2>a
  <2>6. /\ \A d \in Dirs \ skipped : \A p \in Held(d) :
              \/ p \in written /\ (mode = "full" => Rank(d) <= Rank(dirOf[p]))
              \/ mode # "full" /\ (d \in twice \/ (p \in rows /\ dirOf[p] = d /\ mtimeOf[p] = mtime[d]))
        /\ \A d \in Hosts \ skipped : Held(d) \subseteq written
        /\ scanned => \A c \in Containers \ skipped : Held(c) \subseteq written
        /\ \A p \in Present \ written, q \in written : dirOf[q] # dirOf[p]
    BY <2>1, <2>2 DEF CalmWritten, Written
  <2>7. pc' = "done" /\ written' = written /\ dirOf' = dirOf /\ UNCHANGED <<rows, mtime, mtimeOf, mode, scanned, skipped, twice>>
    BY <2>1
  <2>8. /\ \A p \in Present' \ written', q \in written' : dirOf'[q] # dirOf'[p]
        /\ \A q \in written' : /\ q \in Held(dirOf[q])' /\ q \notin gone' /\ dirOf'[q] \notin skipped'
                               /\ dirOf'[q] \in Containers => scanned'
    BY <2>2, <2>3, <2>4, <2>5, <2>6, <2>7
  <2>9. /\ \A d \in Dirs \ skipped' : \A p \in Held(d)' :
              \/ p \in written' /\ (mode' = "full" => Rank(d) <= Rank(dirOf'[p]))
              \/ mode' # "full" /\ (d \in twice' \/ (p \in rows' /\ dirOf'[p] = d /\ mtimeOf'[p] = mtime'[d]))
        /\ \A d \in Hosts \ skipped' : Held(d)' \subseteq written'
        /\ scanned' => \A c \in Containers \ skipped' : Held(c)' \subseteq written'
    BY <2>2, <2>6, <2>7
  <2>10. \A p \in Present' : ~Missing(p)'
    BY <2>2, <2>3
  <2> QED
    BY <2>7, <2>8, <2>9, <2>10 DEF CalmWritten
<1>4. (pc \notin {"supersede", "reconcile", "done"})' => CalmWritten'
  BY DEF CalmWritten, Written
<1>5. Begin \/ StatDirs \/ Collect \/ ListContainers \/ (\E c \in Containers : ReadContainer(c)) \/ Finish \/ Interrupted =>
        (pc \notin {"supersede", "reconcile", "done"})'
  BY DEF Begin, StatDirs, Collect, ListContainers, ReadContainer, Finish, Interrupted, EndScan
<1>6. ASSUME UNCHANGED still PROVE CalmWritten'
  BY <1>6 DEF still, disk, scan, CalmWritten, Written, Held, Missing, Present
<1> QED
  BY <1>1, <1>2, <1>3, <1>4, <1>5, <1>6, MachineLeavesScan, StillStands DEF Next, ScanStep

------------------------------------------------------------------------------
\* The invariant and what follows from it.

IInv == TypeOK /\ Inv

LEMMA InitInv == Init => IInv
<1> SUFFICES ASSUME Init PROVE Inv
  BY InitTypeOK DEF IInv
<1>1. pc = "idle" /\ rows = {} /\ found = {} /\ written = {} /\ ~scanned /\ skipped = {} /\ mode = "none"
      /\ now = 1 /\ \A d \in Dirs : mtime[d] = 1
  BY DEF Init
<1> QED
  BY <1>1 DEF Inv, Blank, Clock, Stamped, Ahead, Backed, Kept, Alone, CalmReading, CalmWritten, Reading, Written

LEMMA NextInv == PassedOver = {} /\ IInv /\ [Next]_vars => IInv'
<1> SUFFICES ASSUME PassedOver = {}, IInv, [Next]_vars PROVE IInv'
  OBVIOUS
<1>1. TypeOK /\ Blank /\ Clock /\ Stamped /\ Ahead /\ Backed /\ Kept /\ Alone /\ (calm => CalmReading /\ CalmWritten)
  BY DEF IInv, Inv
<1>2. TypeOK' /\ Blank' /\ Clock' /\ Stamped' /\ Ahead' /\ Backed'
  BY <1>1, NextTypeOK, BlankStands, ClockStands, StampedStands, AheadStands, BackedStands
<1>3. Kept' /\ Alone'
  BY <1>1, <1>2, KeptStands, AloneStands
<1>4. (calm => CalmReading)' /\ (calm => CalmWritten)'
  BY <1>1, CalmReadingStands, CalmWrittenStands
<1> QED
  BY <1>2, <1>3, <1>4 DEF IInv, Inv

LEMMA SpecInv == ASSUME PassedOver = {} PROVE Spec => []IInv
<1>1. IInv /\ [Next]_vars => IInv'
  BY NextInv
<1> QED
  BY <1>1, InitInv, PTL DEF Spec

\* What a scan that nobody disturbed has at its end.
LEMMA AtTheEnd ==
  ASSUME IInv, JustScanned, mode = "full" \/ ~owed
  PROVE  /\ \A d \in Dirs : \A p \in Held(d) : ~Unseen(d) =>
              \/ p \in written /\ (mode = "full" => Rank(d) <= Rank(dirOf[p]))
              \/ ~owed /\ d \notin twice /\ p \in Present /\ dirOf[p] = d /\ mtimeOf[p] = mtime[d]
         /\ \A d \in Hosts \ skipped : Held(d) \subseteq written
         /\ scanned => \A c \in Containers \ skipped : Held(c) \subseteq written
         /\ \A q \in written : q \in Held(dirOf[q]) /\ q \in Present
         /\ \A p \in Present \ written, q \in written : dirOf[q] # dirOf[p]
         /\ \A p \in Present : ~Missing(p)
         /\ mode = "full" => \A d \in Dirs \ skipped : \A p \in Held(d) : p \in written /\ Rank(d) <= Rank(dirOf[p])
<1>1. TypeOK /\ Stamped /\ Kept /\ CalmWritten /\ Written /\ pc = "done"
  BY DEF IInv, Inv, JustScanned, Written
<1>2. written \subseteq rows
  BY <1>1 DEF TypeOK
<1>3. ASSUME NEW d \in Dirs, NEW p \in Held(d) PROVE d \notin away
  BY <1>3 DEF Held
<1>4. \A d \in Dirs \ skipped : \A p \in Held(d) :
        \/ p \in written /\ (mode = "full" => Rank(d) <= Rank(dirOf[p]))
        \/ mode # "full" /\ (d \in twice \/ (p \in rows /\ dirOf[p] = d /\ mtimeOf[p] = mtime[d]))
  BY <1>1 DEF CalmWritten
<1>5. \A q \in written : q \in Held(dirOf[q]) /\ q \in Present
  BY <1>1, <1>2 DEF CalmWritten, Present
<1>6. ASSUME NEW d \in Dirs, NEW p \in Held(d), ~Unseen(d)
      PROVE  \/ p \in written /\ (mode = "full" => Rank(d) <= Rank(dirOf[p]))
             \/ ~owed /\ d \notin twice /\ p \in Present /\ dirOf[p] = d /\ mtimeOf[p] = mtime[d]
  <2>1. d \notin skipped /\ (mode # "full" => d \notin twice)
    BY <1>6 DEF Unseen, NotRead
  <2>2. CASE mode # "full" /\ d \notin twice /\ p \in rows /\ dirOf[p] = d /\ mtimeOf[p] = mtime[d]
    <3>1. ~owed /\ d \notin away
      BY <1>3, <2>2
    <3> QED
      BY <1>1, <2>2, <3>1 DEF Kept, Present
  <2> QED
    BY <1>4, <2>1, <2>2
<1>7. \A p \in Present \ written, q \in written : dirOf[q] # dirOf[p]
  BY <1>1 DEF CalmWritten
<1>8. /\ \A d \in Hosts \ skipped : Held(d) \subseteq written
      /\ scanned => \A c \in Containers \ skipped : Held(c) \subseteq written
      /\ \A p \in Present : ~Missing(p)
  BY <1>1 DEF CalmWritten
<1> QED
  BY <1>4, <1>5, <1>6, <1>7, <1>8

LEMMA EndListsAll == ASSUME IInv, JustScanned, mode = "full" \/ ~owed PROVE AllListed
<1> SUFFICES ASSUME NEW d \in Places, ~Unseen(d), NEW p \in Held(d) PROVE p \in Present
  BY DEF AllListed
<1>1. d \notin skipped /\ (d \in Containers => scanned)
  BY DEF Unseen, NotRead
<1> QED
  BY <1>1, AtTheEnd DEF Places

LEMMA EndListsOnly == ASSUME IInv, JustScanned, mode = "full" \/ ~owed PROVE AllInstalled
<1> SUFFICES ASSUME NEW p \in Present, p \notin Installed, ~Unseen(dirOf[p]) PROVE Elsewhere(dirOf[p])
  BY DEF AllInstalled
<1>1. TypeOK /\ Alone /\ pc = "done" /\ p \in rows /\ p \notin gone
  BY DEF IInv, Inv, JustScanned, Present
<1>2. dirOf[p] \in Places /\ dirOf[p] \notin skipped /\ (dirOf[p] \in Containers => scanned)
  BY <1>1 DEF TypeOK, Unseen, NotRead
<1>3. p \notin written
  BY AtTheEnd, <1>2 DEF Installed
<1>4. dirOf[p] \in Dirs \cup Hosts /\ Held(dirOf[p]) # {}
  BY AtTheEnd, <1>2, <1>3 DEF Missing, Places
<1>5. PICK q \in Held(dirOf[p]) : TRUE
  BY <1>4
<1>6. q # p
  BY <1>2, <1>5 DEF Installed
<1>7. CASE q \in written
  BY <1>1, <1>3, <1>5, <1>7, AtTheEnd DEF Elsewhere, TypeOK
<1>8. CASE q \notin written
  <2>1. dirOf[p] \notin Hosts
    BY <1>2, <1>5, <1>8, AtTheEnd
  <2>2. ~owed /\ dirOf[p] \in Dirs \ twice /\ q \in rows /\ dirOf[q] = dirOf[p] /\ mtimeOf[q] = mtime[dirOf[p]]
    BY <1>4, <1>5, <1>8, <2>1, AtTheEnd DEF Present
  <2> QED
    BY <1>1, <1>6, <2>2 DEF Alone
<1> QED
  BY <1>7, <1>8

\* Every installed package that the scan had sight of is listed at the end of one
\* that nobody disturbed, whatever earlier ones skipped.
THEOREM ScanListsAll == ASSUME PassedOver = {} PROVE Spec => []NothingMissed
<1>1. IInv => NothingMissed
  BY EndListsAll DEF NothingMissed
<1> QED
  BY <1>1, SpecInv, PTL

\* Nothing removed, and nothing replaced in place, is left in the list.
THEOREM ScanListsOnly == ASSUME PassedOver = {} PROVE Spec => []NothingLeftOver
<1>1. IInv => NothingLeftOver
  BY EndListsOnly DEF NothingLeftOver
<1> QED
  BY <1>1, SpecInv, PTL

\* A full scan makes good whatever earlier ones left.
THEOREM FullScanIsEnough == ASSUME PassedOver = {} PROVE Spec => []FullScanSettles
<1>1. IInv => FullScanSettles
  <2> SUFFICES ASSUME IInv, JustScanned, mode = "full"
               PROVE  /\ AllListed /\ AllInstalled
                      /\ \A d \in Dirs \ skipped : \A p \in Held(d) : Rank(d) <= Rank(dirOf[p])
    BY DEF FullScanSettles
  <2> QED
    BY EndListsAll, EndListsOnly, AtTheEnd
<1> QED
  BY <1>1, SpecInv, PTL

RetiresOnlyWhatIsNot ==
  pc # "idle" /\ calm =>
    \A p \in gone' \ gone, d \in Places :
        p \in Held(d) => d \in skipped \cap Containers \/ (d # dirOf[p] /\ Unseen(d))

LEMMA StepRetires == IInv /\ [Next]_vars => RetiresOnlyWhatIsNot
<1> SUFFICES ASSUME IInv, [Next]_vars, calm, NEW p \in gone' \ gone, NEW d \in Places, p \in Held(d)
             PROVE  d \in skipped \cap Containers \/ (d # dirOf[p] /\ Unseen(d))
  BY DEF RetiresOnlyWhatIsNot
<1>1. TypeOK /\ CalmWritten
  BY DEF IInv, Inv
<1>2. MarkSuperseded \/ MarkGone
  <2>1. gone' # gone
    OBVIOUS
  <2>2. ~Begin /\ ~StatDirs /\ ~Collect /\ ~ListContainers /\ (\A c \in Containers : ~ReadContainer(c))
        /\ ~Finish /\ ~Interrupted
    BY <2>1 DEF Begin, StatDirs, Collect, ListContainers, ReadContainer, Finish, Interrupted, EndScan, table
  <2>3. ~UpsertPackages
    BY UpsertRows, <1>1
  <2>4. ~Tick /\ ~UNCHANGED vars
    BY <2>1, StillStands DEF still
  <2>5. ~UNCHANGED <<table, scan>>
    BY <2>1 DEF table
  <2> QED
    BY <2>2, <2>3, <2>4, <2>5, MachineLeavesScan DEF Next, ScanStep
<1>3. Written
  BY <1>2 DEF MarkSuperseded, MarkGone, Written
<1>4. p \in Present /\ p \notin written
      /\ (Missing(p) \/ \E q \in written : dirOf[q] = dirOf[p])
  <2>1. CASE MarkSuperseded
    BY <2>1 DEF MarkSuperseded, Superseded
  <2>2. CASE MarkGone
    <3>1. p \in Present /\ Missing(p)
      BY <2>2 DEF MarkGone
    <3> QED
      BY <1>1, <1>3, <3>1 DEF CalmWritten, Missing
  <2> QED
    BY <1>2, <2>1, <2>2
<1>5. /\ d \in Hosts => d \in skipped
      /\ d \in Containers => d \in skipped \/ ~scanned
      /\ d \in Dirs /\ d \notin skipped => mode # "full" /\ (d \in twice \/ dirOf[p] = d)
  BY <1>1, <1>3, <1>4 DEF CalmWritten
<1>6. ASSUME dirOf[p] = d PROVE d \in skipped \cap Containers
  <2>1. CASE Missing(p)
    <3>1. d \in Containers /\ scanned
      BY <1>6, <2>1 DEF Missing
    <3> QED
      BY <1>5, <3>1
  <2>2. CASE \E q \in written : dirOf[q] = d
    <3>1. PICK q \in written : dirOf[q] = d
      BY <2>2
    <3>2. q \in Held(d) /\ d \notin skipped /\ (d \in Containers => scanned) /\ q # p
      BY <1>1, <1>3, <1>4, <3>1 DEF CalmWritten
    <3>3. d \in Dirs
      BY <1>5, <3>2 DEF Places
    <3> QED
      BY <1>1, <3>2, <3>3, OneEach, ContentsFit, DirsArePlaces
  <2> QED
    BY <1>4, <1>6, <2>1, <2>2
<1>7. ASSUME dirOf[p] # d PROVE Unseen(d)
  BY <1>5, <1>7 DEF Unseen, NotRead, Places
<1> QED
  BY <1>6, <1>7

\* An undisturbed scan retires nothing that is where its row says, nor what it
\* found elsewhere, but for what a container holds that could not be read.
THEOREM OnlyTheMissingAreRetired == ASSUME PassedOver = {} PROVE Spec => NothingInstalledIsRetired
<1>1. IInv /\ [Next]_vars => [RetiresOnlyWhatIsNot]_vars
  BY StepRetires
<1>2. Spec => [][RetiresOnlyWhatIsNot]_vars
  BY <1>1, SpecInv, PTL DEF Spec
<1> QED
  BY <1>2 DEF NothingInstalledIsRetired, RetiresOnlyWhatIsNot

=============================================================================
