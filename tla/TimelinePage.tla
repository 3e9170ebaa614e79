----------------------------- MODULE TimelinePage -----------------------------
(***************************************************************************)
(* The other end of event sync: one timeline page open in a browser while  *)
(* devices push.  web/timeline.go (handleTimeline, handleStream),          *)
(* repo/fleet.go (FleetEvents) and the EventSource of web/static/app.js,   *)
(* over EventSync's tables.  The agent serves the same page from its own   *)
(* events with the same code (repo/events.go).                             *)
(*                                                                         *)
(* A row of fleet_events is its id, which is its place in the log: rows    *)
(* are only ever added, by one writer at a time.  The stream is a handler  *)
(* of its own that lives as long as the connection, asks again on every    *)
(* tick, and keeps its cursor in a local variable.                         *)
(***************************************************************************)
EXTENDS EventSync, SequencesExt

CONSTANTS
    PageLimit,      \* rows handleTimeline asks for
    StreamLimit,    \* rows one tick asks for
    Filters,        \* what may be picked on the page: the severities shown
    Others,         \* rows the hub has from other devices, before any of ours
    MaxDrops        \* bound: how often the stream's connection breaks

ASSUME PageAssumption ==
    /\ PageLimit \in Nat \ {0} /\ StreamLimit \in Nat \ {0}
    /\ Others \in Nat /\ MaxDrops \in Nat /\ Filters \subseteq SUBSET (0..3)

VARIABLES
    log,        \* fleet_events by id: the event of our device, or Foreign
    page,       \* the page: not opened yet, or what the browser did last
    since,      \* data-cursor of the page, the since= of its EventSource
    cursor,     \* the local variable of the handler that serves the stream
    list,       \* ids of the rows on screen, top first
    drops

pageVars == <<page, since, cursor, list, drops>>
allVars == <<vars, log, pageVars>>

Foreign == 0
Everything == 0..3

PageInit ==
    /\ Init
    /\ log = [i \in 1..Others |-> Foreign]
    /\ page = "unopened" /\ since = 0 /\ cursor = 0 /\ list = <<>> /\ drops = 0

------------------------------------------------------------------------------
\* The table.

\* The members of S, smallest first.
Ascending(S) == CHOOSE s \in SetToSeqs(S) : \A i, j \in DOMAIN s : i < j => s[i] < s[j]

\* IngestEvents inserts a batch in the order it was sent, oldest first, and
\* ignores the rows it already has.
Arrive == log' = log \o Ascending(timeline' \ timeline)

SyncGoesOn == Next /\ Arrive /\ UNCHANGED pageVars

SeverityOf(i) == IF log[i] = Foreign THEN 0 ELSE rank[log[i]]

Hits(filter, after) == {i \in DOMAIN log : i > after /\ SeverityOf(i) \in filter}

\* LIMIT.
AtMost(limit, s) == SubSeq(s, 1, IF Len(s) < limit THEN Len(s) ELSE limit)

\* Mutant: the newest first, whoever asks.
FleetEventsNewest(filter, after, limit) ==
    AtMost(limit, Reverse(Ascending(Hits(filter, after))))

\* Newest first, or oldest first after a cursor; a cursor of 0 is none.
FleetEvents(filter, after, limit) ==
    LET hits == Ascending(Hits(filter, after))
    IN  AtMost(limit, IF after > 0 THEN hits ELSE Reverse(hits))

------------------------------------------------------------------------------
\* The browser and the handlers.

\* handleTimeline.
OpenPage ==
    /\ page = "unopened"
    /\ \E filter \in Filters :
          LET found == FleetEvents(filter, 0, PageLimit)
          IN  list' = found /\ since' = IF found = <<>> THEN 0 ELSE found[1]
    /\ page' = "waiting"
    /\ UNCHANGED <<vars, log, cursor, drops>>

\* Mutant: the stream begins at the newest row there is.
ConnectAtTheEnd ==
    /\ page = "waiting"
    /\ page' = "live" /\ cursor' = Len(log)
    /\ UNCHANGED <<vars, log, since, list, drops>>

\* The EventSource, at first and after every break: always the same address.
Connect ==
    /\ page = "waiting"
    /\ page' = "live" /\ cursor' = since
    /\ UNCHANGED <<vars, log, since, list, drops>>

\* A tick of handleStream.  It asks for every event, whatever the page was
\* filtered by; the script puts each row on top.  A row whose template fails is
\* passed over; the one it is rendered with is built in and only prints fields,
\* so none fails.
Tick ==
    /\ page = "live"
    /\ LET found == FleetEvents(Everything, cursor, StreamLimit)
       IN  /\ found # <<>>
           /\ list' = Reverse(found) \o list
           /\ cursor' = Last(found)
    /\ UNCHANGED <<vars, log, page, since, drops>>

\* A proxy, a sleeping laptop, a restarted hub.
Drop ==
    /\ page = "live" /\ drops < MaxDrops
    /\ page' = "waiting" /\ drops' = drops + 1 /\ cursor' = 0
    /\ UNCHANGED <<vars, log, since, list>>

PageNext == SyncGoesOn \/ OpenPage \/ Connect \/ Tick \/ Drop

PageSpec == PageInit /\ [][PageNext]_allVars

\* The script connects as soon as the page is there, the browser reconnects by
\* itself, and the handler's ticker fires as long as the connection stands.
FairPageSpec == PageSpec /\ Fairness /\ WF_allVars(Connect) /\ WF_allVars(Tick)

------------------------------------------------------------------------------
\* Properties.

OnScreen == {list[k] : k \in DOMAIN list}
Seen == {log[i] : i \in OnScreen}

\* Of a page that had a row, no row is missing between two on screen: the
\* stream takes up where the page ended, and a tick that reads only part of what
\* is new, an event that arrives between page and stream, or a broken connection
\* leaves no hole.
PageHasNoHole ==
    since > 0 => \A i, j \in OnScreen : \A k \in i..j : k \in OnScreen

\* From the machine to the screen: with the device approved and its loop
\* running, an event queued while a page that had a row is open appears on that
\* page without a reload, or was given up by the cap.
QueuedIsSeen ==
    <>[]Serving =>
        \A e \in Ids : []((e \in Queue /\ page # "unopened" /\ since > 0)
                              => <>(e \in Seen \cup givenUp))

\* web/timeline.go, of the stream: "one message per new row".
NoRowTwice == \A k, l \in DOMAIN list : list[k] = list[l] => k = l

\* web/timeline.go, of the page: "the newest event id on the page, which the
\* live stream resumes from"; nothing that came after it is left out.
StreamResumes == \A i \in DOMAIN log : since < i /\ i <= cursor => i \in OnScreen

\* repo/events.go: "the stream appends in order".
NewestOnTop == \A k, l \in DOMAIN list : k < l => list[k] >= list[l]

\* A page filtered by severity shows what was asked for.
FilterIsKept == \A i \in OnScreen : \E f \in Filters : SeverityOf(i) \in f
=============================================================================
