------------------------------ MODULE EventSync ------------------------------
(***************************************************************************)
(* The road an event takes from one agent's database to the hub's fleet    *)
(* timeline: agent/sync.go (runSync, syncOnce, handlePushError),           *)
(* repo/syncqueue.go (TrimQueue, QueuedEvents, MarkEventsSynced),          *)
(* repo/retention.go (Prune, its events statement), hub/api.go             *)
(* (requireDevice) and hub/sync.go with repo/fleet.go (IngestEvents).      *)
(*                                                                         *)
(* One paired device.  Each action is one database transaction or one      *)
(* message, so scans and gates record and prune between any two steps of   *)
(* a push, a request that timed out can still reach the hub, and the       *)
(* process can be killed anywhere.  The tables handleSync replaces after   *)
(* the events are not here: their failure is HubFails.                     *)
(***************************************************************************)
EXTENDS Integers, FiniteSets

CONSTANTS
    MaxEvents,      \* bound: event ids are 1..MaxEvents
    Severities,     \* ranks the rest of the agent records events with
    Cap,            \* repo.EventQueueCap
    BatchLimit,     \* agent.eventBatchLimit
    MaxOrphans,     \* bound: requests still travelling after their sender gave up
    HubConfigured,  \* the flag scanner.Run hands Prune: cfg.Agent.HubURL != ""
    Faults          \* the process may be killed and a statement may fail

ASSUME BoundsAssumption ==
    MaxEvents \in Nat /\ MaxOrphans \in Nat /\ Cap \in Nat \ {0} /\ BatchLimit \in Nat \ {0}
ASSUME SeveritiesAssumption == Severities \subseteq 0..3
ASSUME FlagsAssumption == HubConfigured \in BOOLEAN /\ Faults \in BOOLEAN

VARIABLES
    last,       \* AUTOINCREMENT high-water mark of the events table
    rows,       \* ids of the rows in the events table
    synced,     \* rows with synced = 1
    rank,       \* severity of each id, as TrimQueue's ORDER BY ranks it
    counted,    \* for a sync_dropped row, the ids its "dropped" total counts
    revokedAt,  \* hub_state holds a HubRevoked marker
    pc,         \* where syncOnce is
    over,       \* depth - cap as TrimQueue read it
    dropped,    \* the rows TrimQueue returned, until the notice is recorded
    batch,      \* the events of the push being made
    wire,       \* the push: at which end it is, or the hub's answer
    orphans,    \* pushes whose sender stopped waiting, not yet handled
    status,     \* devices.status on the hub
    timeline,   \* fleet_events of this device, by agent_event_id
    givenUp     \* history: every id TrimQueue abandoned

agentDb  == <<last, rows, synced, rank, counted>>
attempt  == <<pc, over, dropped, batch>>
hubVars  == <<status, timeline>>
vars == <<agentDb, revokedAt, attempt, wire, orphans, hubVars, givenUp>>

Ids == 1..MaxEvents
Recorded == 1..last
Queue == rows \ synced
Requests == [batch : SUBSET Recorded, admitted : BOOLEAN]
Answers == {"ok", "error", "pending", "revoked"}

TypeOK ==
    /\ last \in 0..MaxEvents
    /\ rows \subseteq Recorded /\ synced \subseteq rows
    /\ rank \in [Ids -> 0..3] /\ counted \in [Ids -> SUBSET Ids]
    /\ revokedAt \in BOOLEAN
    /\ pc \in {"idle", "trim", "notice", "read", "push", "halted", "down"}
    /\ over \in Nat /\ dropped \subseteq Recorded /\ batch \subseteq Recorded
    /\ wire \in {"none", "sent", "admitted"} \cup Answers
    /\ orphans \subseteq Requests
    /\ status \in {"pending", "approved", "revoked"}
    /\ timeline \subseteq Recorded /\ givenUp \subseteq Recorded

Init ==
    /\ last = 0 /\ rows = {} /\ synced = {}
    /\ rank = [e \in Ids |-> 0] /\ counted = [e \in Ids |-> {}]
    /\ revokedAt = FALSE
    /\ pc = "idle" /\ over = 0 /\ dropped = {} /\ batch = {}
    /\ wire = "none" /\ orphans = {}
    /\ status = "pending" /\ timeline = {} /\ givenUp = {}

------------------------------------------------------------------------------
\* The events table.

\* One INSERT.  names is what a sync_dropped row counts, {} for any other.
InsertEvent(r, names) ==
    /\ last < MaxEvents
    /\ last' = last + 1
    /\ rows' = rows \cup {last + 1}
    /\ rank' = [rank EXCEPT ![last + 1] = r]
    /\ counted' = [counted EXCEPT ![last + 1] = names]
    /\ UNCHANGED synced

\* A write that fails is logged, and the attempt goes on as if it had not.
NotWritten(what) == Faults /\ UNCHANGED what

\* The n oldest of S.
Oldest(S, n) == {e \in S : Cardinality({f \in S : f < e}) < n}

\* Mutant: the cap drops by age alone.
OlderFirst(e, f) == e < f

\* TrimQueue's order: severity first, then id.
Before(e, f) == rank[e] < rank[f] \/ (rank[e] = rank[f] /\ e < f)
LeastImportant(S, n) == {e \in S : Cardinality({f \in S : Before(f, e)}) < n}

\* Any part of the agent records an event: a gate, a scan, the CLI.
Record ==
    /\ \E r \in Severities : InsertEvent(r, {})
    /\ UNCHANGED <<revokedAt, attempt, wire, orphans, hubVars, givenUp>>

\* Mutant: retention by age alone, as for an agent that owes nobody.
PruneByAgeAlone ==
    /\ \E old \in SUBSET rows \ {{}} : rows' = rows \ old /\ synced' = synced \ old
    /\ UNCHANGED <<last, rank, counted, revokedAt, attempt, wire, orphans, hubVars, givenUp>>

\* A scan's retention pass deletes rows older than its cutoff: whichever rows
\* those are, an unsynced one goes only when no hub is configured.
Prune ==
    /\ \E old \in SUBSET rows \ {{}} :
          LET deleted == {e \in old : ~HubConfigured \/ e \in synced}
          IN  rows' = rows \ deleted /\ synced' = synced \ deleted
    /\ UNCHANGED <<last, rank, counted, revokedAt, attempt, wire, orphans, hubVars, givenUp>>

------------------------------------------------------------------------------
\* syncOnce.

EndAttempt(next) == pc' = next /\ over' = 0 /\ dropped' = {} /\ batch' = {}

\* Mutant: the revocation marker consulted as a gate.
StartSyncUnlessRevoked ==
    /\ pc = "idle" /\ ~revokedAt
    /\ pc' = "read" /\ over' = 0
    /\ UNCHANGED <<agentDb, revokedAt, dropped, batch, wire, orphans, hubVars, givenUp>>

\* TrimQueue reads the depth.  At or under the cap it returns at once.
StartSync ==
    /\ pc = "idle"
    /\ LET depth == Cardinality(Queue)
       IN  IF depth > Cap
             THEN pc' = "trim" /\ over' = depth - Cap
             ELSE pc' = "read" /\ over' = 0
    /\ UNCHANGED <<agentDb, revokedAt, dropped, batch, wire, orphans, hubVars, givenUp>>

\* Its UPDATE ... RETURNING, a statement of its own.
TrimQueue ==
    /\ pc = "trim"
    /\ LET out == LeastImportant(Queue, over)
       IN  /\ synced' = synced \cup out
           /\ givenUp' = givenUp \cup out
           /\ dropped' = out
           /\ pc' = IF out = {} THEN "read" ELSE "notice"
    /\ over' = 0
    /\ UNCHANGED <<last, rows, rank, counted, revokedAt, batch, wire, orphans, hubVars>>

\* The gap is recorded as an event without a severity.
RecordDropped ==
    /\ pc = "notice"
    /\ InsertEvent(0, dropped)
    /\ pc' = "read" /\ dropped' = {}
    /\ UNCHANGED <<revokedAt, over, batch, wire, orphans, hubVars, givenUp>>

\* Neither a failed trim nor a failed notice ends the attempt.
TrimOrNoticeFails ==
    /\ Faults
    /\ pc \in {"trim", "notice"}
    /\ pc' = "read" /\ over' = 0 /\ dropped' = {}
    /\ UNCHANGED <<agentDb, revokedAt, batch, wire, orphans, hubVars, givenUp>>

\* QueuedEvents, then client.Push puts the request on the wire.
SendPush ==
    /\ pc = "read"
    /\ batch' = Oldest(Queue, BatchLimit)
    /\ pc' = "push" /\ wire' = "sent"
    /\ UNCHANGED <<agentDb, revokedAt, over, dropped, orphans, hubVars, givenUp>>

ReadFails ==
    /\ Faults
    /\ pc = "read"
    /\ EndAttempt("idle")
    /\ UNCHANGED <<agentDb, revokedAt, wire, orphans, hubVars, givenUp>>

\* Something else answers on the hub's address: the pinned transport refuses
\* before a request is sent, the refusal is recorded, and the loop stops.
WrongCertificate ==
    /\ pc = "read"
    /\ InsertEvent(3, {}) \/ NotWritten(agentDb)
    /\ EndAttempt("halted")
    /\ UNCHANGED <<revokedAt, wire, orphans, hubVars, givenUp>>

\* The sender stops waiting.  Its request is lost, or is still on the way.
StopWaiting ==
    /\ wire' = "none"
    /\ \/ orphans' = orphans
       \/ /\ wire \in {"sent", "admitted"}
          /\ Cardinality(orphans) < MaxOrphans
          /\ orphans' = orphans \cup {[batch |-> batch, admitted |-> wire = "admitted"]}

\* The client's timeout, or a connection that broke on the way out or back.
NetworkError ==
    /\ pc = "push"
    /\ StopWaiting
    /\ EndAttempt("idle")
    /\ UNCHANGED <<agentDb, revokedAt, hubVars, givenUp>>

\* Mutants: the cursor moves to what was recorded, one too far, one short.
ThroughEverything(b) == IF b = {} THEN {} ELSE Queue
ThroughOneMore(b) == {e \in Queue : \E f \in b : e <= f + 1}
ThroughOneLess(b) == {e \in Queue : \E f \in b : e < f}

\* The cursor moves to resp.AcceptedThrough, the greatest id of the batch.
Through(b) == {e \in Queue : \E f \in b : e <= f}

Acknowledged ==
    /\ pc = "push" /\ wire = "ok"
    /\ revokedAt' = FALSE \/ NotWritten(revokedAt)
    /\ synced' = synced \cup Through(batch) \/ NotWritten(synced)
    /\ wire' = "none"
    /\ EndAttempt("idle")
    /\ UNCHANGED <<last, rows, rank, counted, orphans, hubVars, givenUp>>

\* handlePushError on a refusal only a person can lift.
Refused ==
    /\ pc = "push" /\ wire = "revoked"
    /\ revokedAt' = TRUE \/ NotWritten(revokedAt)
    /\ InsertEvent(2, {}) \/ NotWritten(agentDb)
    /\ wire' = "none"
    /\ EndAttempt("halted")
    /\ UNCHANGED <<orphans, hubVars, givenUp>>

\* handlePushError on "not approved yet", and on any other refusal.
TryLater ==
    /\ pc = "push" /\ wire \in {"pending", "error"}
    /\ wire' = "none"
    /\ EndAttempt("idle")
    /\ UNCHANGED <<agentDb, revokedAt, orphans, hubVars, givenUp>>

\* The process is killed, wherever the attempt was.
Crash ==
    /\ Faults
    /\ pc # "down"
    /\ StopWaiting
    /\ EndAttempt("down")
    /\ UNCHANGED <<agentDb, revokedAt, hubVars, givenUp>>

\* A halted loop is started again by restarting the agent, and by nothing else.
Restart ==
    /\ pc \in {"halted", "down"}
    /\ pc' = "idle"
    /\ UNCHANGED <<agentDb, revokedAt, over, dropped, batch, wire, orphans, hubVars, givenUp>>

------------------------------------------------------------------------------
\* The hub.

Refusal == IF status = "revoked" THEN "revoked" ELSE "pending"

\* requireDevice reads the device row once, for the whole request.
Authenticate ==
    /\ wire = "sent"
    /\ wire' = IF status = "approved" THEN "admitted" ELSE Refusal
    /\ UNCHANGED <<agentDb, revokedAt, attempt, orphans, hubVars, givenUp>>

\* IngestEvents commits the batch; a later step of handleSync may still refuse
\* the push, and then the answer carries no cursor.
IngestEvents ==
    /\ wire = "admitted"
    /\ timeline' = timeline \cup batch
    /\ wire' \in {"ok", "error"}
    /\ UNCHANGED <<agentDb, revokedAt, attempt, orphans, status, givenUp>>

\* The transaction rolls back: no event is stored and none is acknowledged.
HubFails ==
    /\ wire \in {"sent", "admitted"}
    /\ wire' = "error"
    /\ UNCHANGED <<agentDb, revokedAt, attempt, orphans, hubVars, givenUp>>

\* The same handler on a request nobody waits for.
OrphanAuthenticated ==
    /\ \E q \in orphans :
          /\ ~q.admitted
          /\ orphans' = (orphans \ {q}) \cup
                (IF status = "approved" THEN {[q EXCEPT !.admitted = TRUE]} ELSE {})
    /\ UNCHANGED <<agentDb, revokedAt, attempt, wire, hubVars, givenUp>>

OrphanIngested ==
    /\ \E q \in orphans :
          /\ q.admitted
          /\ timeline' = timeline \cup q.batch
          /\ orphans' = orphans \ {q}
    /\ UNCHANGED <<agentDb, revokedAt, attempt, wire, status, givenUp>>

OrphanLost ==
    /\ \E q \in orphans : orphans' = orphans \ {q}
    /\ UNCHANGED <<agentDb, revokedAt, attempt, wire, hubVars, givenUp>>

\* A person on the pairing page, or `pkgwatch hub devices approve|revoke`.
SetDeviceStatus ==
    /\ status' \in {"approved", "revoked"} \ {status}
    /\ UNCHANGED <<agentDb, revokedAt, attempt, wire, orphans, timeline, givenUp>>

------------------------------------------------------------------------------
SyncStep ==
    \/ StartSync \/ TrimQueue \/ RecordDropped \/ TrimOrNoticeFails
    \/ SendPush \/ ReadFails \/ WrongCertificate \/ NetworkError
    \/ Acknowledged \/ Refused \/ TryLater \/ Crash \/ Restart

HubStep ==
    \/ Authenticate \/ IngestEvents \/ HubFails
    \/ OrphanAuthenticated \/ OrphanIngested \/ OrphanLost \/ SetDeviceStatus

Next == Record \/ Prune \/ SyncStep \/ HubStep

Spec == Init /\ [][Next]_vars
\* The loop's timer always fires again and its own steps do not wait for
\* anybody (WF).  A request ends within the client's 30 s timeout (WF).  The
\* network and the hub may fail any number of times, but a push that is tried
\* again and again is one day answered, stored and its answer applied (SF).
LoopGoesOn ==
    \/ StartSync \/ TrimQueue \/ RecordDropped \/ TrimOrNoticeFails
    \/ NetworkError \/ TryLater \/ Refused
StoredAndAnswered == IngestEvents /\ wire' = "ok"
CursorAdvances == Acknowledged /\ synced' = synced \cup Through(batch) /\ ~revokedAt'

Fairness ==
    /\ WF_vars(LoopGoesOn)
    /\ SF_vars(SendPush) /\ SF_vars(Authenticate)
    /\ SF_vars(StoredAndAnswered) /\ SF_vars(CursorAdvances)

FairSpec == Spec /\ Fairness

------------------------------------------------------------------------------
\* Properties.

\* An event the agent will never send again (synced = 1) is one the hub holds
\* or one TrimQueue gave up: the cursor follows what was committed, through
\* lost answers, late requests and records made in the middle of a push.
SyncedIsHeld == synced \subseteq timeline \cup givenUp

\* Every event ever recorded is still owed, on the hub, or given up: neither
\* retention nor a crash makes one disappear without the hub having it.
NothingLost == Recorded \subseteq Queue \cup timeline \cup givenUp

\* The hub's timeline never holds an event while an earlier one is still to
\* come: QueuedEvents sends oldest first, and the batch limit never skips.
TimelineHasNoGap ==
    \A e \in timeline : \A f \in Recorded : f < e => f \in timeline \cup givenUp

\* What repo/syncqueue.go says of that row, "an event naming what was lost,
\* which itself syncs": every event given up is counted by a row that is on the
\* hub or still owed to it.
EveryLossNamed ==
    \A e \in givenUp : \/ e \in dropped
                       \/ \E n \in Queue \cup timeline : e \in counted[n]

\* The cap never costs an event while a less important one is kept.
LeastImportantFirst ==
    [][\A e \in givenUp' \ givenUp : \A f \in Queue' : rank[e] <= rank[f]]_vars

\* With the device approved for good and the loop neither halted nor killed,
\* every queued event ends on the hub or is given up.
Serving == status = "approved" /\ pc \notin {"halted", "down"}
QueueDrains ==
    <>[]Serving => \A e \in Ids : [](e \in Queue => <>(e \in timeline \cup givenUp))

\* A device that was refused and then approved again stops reporting itself as
\* revoked once its restarted loop gets a push through: the marker is no gate.
RevocationRecoverable == <>[]Serving => <>[]~revokedAt
\* Event sync implements the fleet timeline's promise: the queue is the debt,
\* the synced column settles it, TrimQueue gives up and IngestEvents shows.
Promise == INSTANCE FleetTimeline WITH
    recorded <- last, owed <- Queue, shown <- timeline, abandoned <- givenUp
ImplementsTimeline == Promise!Spec

\* The strengthening that makes the invariants above inductive: whatever is on
\* its way to the hub was oldest first when it was read, and an acknowledged
\* batch is one the hub holds.
GapFree(b) == \A e \in b : \A f \in Recorded : f < e => f \in b \cup timeline \cup givenUp
PushesGapFree == GapFree(batch) /\ \A q \in orphans : GapFree(q.batch)
AnswerIsTrue == wire = "ok" => batch \subseteq timeline
SyncInv ==
    /\ TypeOK /\ SyncedIsHeld /\ NothingLost /\ TimelineHasNoGap
    /\ PushesGapFree /\ AnswerIsTrue
==============================================================================
