--------------------------- MODULE EventSyncProofs ---------------------------
(***************************************************************************)
(* Theorems about what a push brings to the hub.                           *)
(*                                                                         *)
(* Its events: EventSync and the page that follows them (TimelinePage),    *)
(* for every number of events, every cap, batch limit and number of late   *)
(* requests, with and without faults.                                      *)
(*                                                                         *)
(* Its tables: FleetSnapshot and the pages over them (FleetPages), for     *)
(* every number of versions, of pushes in flight, of failures and of       *)
(* changes on the pairing page.                                            *)
(***************************************************************************)
EXTENDS TimelinePage, FleetPages, FiniteSetTheorems, TLAPS

\* A set of events is finite, and so is any part of it.
LEMMA EventsFinite ==
    ASSUME NEW n \in Nat, NEW S \in SUBSET (1..n)
    PROVE  IsFiniteSet(S) /\ Cardinality(S) \in Nat
<1>1. IsFiniteSet(1..n)
  BY FS_Interval
<1>2. IsFiniteSet(S)
  BY <1>1, FS_Subset
<1>3. QED
  BY <1>2, FS_CardinalityType

\* Whatever is older than a member of Oldest(S, k) is in it too.
LEMMA OldestIsPrefix ==
    ASSUME NEW n \in Nat, NEW S \in SUBSET (1..n), NEW k \in Nat,
           NEW e \in Oldest(S, k), NEW f \in S, f < e
    PROVE  f \in Oldest(S, k)
<1> DEFINE Under(x) == {g \in S : g < x}
<1>1. e \in S /\ Cardinality(Under(e)) < k
  BY DEF Oldest
<1>a. \A g \in S : g \in Int
  OBVIOUS
<1>2. Under(f) \in SUBSET Under(e)
  <2>1. \A g \in S : g < f => g < e
    BY <1>1, <1>a
  <2>2. QED
    BY <2>1
<1>3. IsFiniteSet(Under(e)) /\ Cardinality(Under(e)) \in Nat
  BY EventsFinite, Under(e) \in SUBSET (1..n)
<1>4. Cardinality(Under(f)) <= Cardinality(Under(e))
  BY <1>2, <1>3, FS_Subset
<1>5. Cardinality(Under(f)) \in Nat
  BY EventsFinite, Under(f) \in SUBSET (1..n)
<1>6. Cardinality(Under(f)) < k
  BY <1>1, <1>3, <1>4, <1>5
<1>7. QED
  BY <1>6 DEF Oldest

\* TrimQueue never leaves behind a row that ranks below one it takes.
LEMMA LeastImportantIsLowest ==
    ASSUME NEW n \in Nat, NEW S \in SUBSET (1..n), NEW k \in Nat,
           \A x \in 1..n : rank[x] \in Int,
           NEW e \in LeastImportant(S, k), NEW f \in S \ LeastImportant(S, k)
    PROVE  rank[e] <= rank[f]
<1> DEFINE Ahead(x) == {g \in S : Before(g, x)}
<1>1. e \in S /\ Cardinality(Ahead(e)) < k
  BY DEF LeastImportant
<1>a. \A g \in S : g \in Int /\ rank[g] \in Int
  OBVIOUS
<1>2. SUFFICES ASSUME rank[f] < rank[e] PROVE FALSE
  BY <1>1, <1>a
<1>3. Ahead(f) \in SUBSET Ahead(e)
  <2>1. \A g \in S : Before(g, f) => Before(g, e)
    BY <1>1, <1>2, <1>a DEF Before
  <2>2. QED
    BY <2>1
<1>4. IsFiniteSet(Ahead(e)) /\ Cardinality(Ahead(e)) \in Nat
  BY EventsFinite, Ahead(e) \in SUBSET (1..n)
<1>5. Cardinality(Ahead(f)) <= Cardinality(Ahead(e))
  BY <1>3, <1>4, FS_Subset
<1>6. Cardinality(Ahead(f)) \in Nat
  BY EventsFinite, Ahead(f) \in SUBSET (1..n)
<1>7. Cardinality(Ahead(f)) < k
  BY <1>1, <1>4, <1>5, <1>6
<1>8. QED
  BY <1>7 DEF LeastImportant
------------------------------------------------------------------------------
(* Type correctness. *)

\* The request a sender leaves behind is a request.
LEMMA LateRequestType ==
    ASSUME batch \subseteq Recorded
    PROVE  [batch |-> batch, admitted |-> wire = "admitted"] \in Requests
<1>1. (wire = "admitted") \in BOOLEAN
  OBVIOUS
<1>2. ASSUME NEW b \in BOOLEAN
      PROVE  [batch |-> batch, admitted |-> b] \in Requests
  BY DEF Requests
<1>3. QED
  BY <1>1, <1>2, Zenon

LEMMA TypeInitially == Init => TypeOK
<1> USE BoundsAssumption
<1> SUFFICES ASSUME Init PROVE TypeOK
  OBVIOUS
<1>1. rank \in [Ids -> 0..3] /\ counted \in [Ids -> SUBSET Ids]
  BY DEF Init
<1>2. revokedAt \in BOOLEAN
  BY Zenon DEF Init
<1>3. last \in 0..MaxEvents /\ over \in Nat
  BY DEF Init
<1>4. /\ pc \in {"idle", "trim", "notice", "read", "push", "halted", "down"}
      /\ wire \in {"none", "sent", "admitted"} \cup Answers
      /\ status \in {"pending", "approved", "revoked"}
  BY DEF Init
<1>5. QED
  BY <1>1, <1>2, <1>3, <1>4, Zenon DEF Init, TypeOK

LEMMA TypePreserved ==
    ASSUME TypeOK, [Next]_vars
    PROVE  TypeOK'
<1> USE BoundsAssumption, SeveritiesAssumption, FlagsAssumption
<1> USE DEF TypeOK, Recorded, Ids, Requests, Answers, agentDb, attempt, hubVars
<1>1. CASE Record
  BY <1>1 DEF Record, InsertEvent
<1>2. CASE Prune
  BY <1>2 DEF Prune, Queue
<1>3. CASE StartSync
  <2>1. Queue \in SUBSET (1..last)
    BY DEF Queue
  <2>2. Cardinality(Queue) \in Nat
    BY <2>1, EventsFinite, last \in Nat
  <2>3. over' \in Nat
    BY <1>3, <2>2 DEF StartSync
  <2>4. pc' \in {"trim", "read"}
    BY <1>3 DEF StartSync
  <2>5. QED
    BY <1>3, <2>3, <2>4 DEF StartSync
<1>4. CASE TrimQueue
  BY <1>4 DEF TrimQueue, LeastImportant, Queue
<1>5. CASE RecordDropped
  BY <1>5 DEF RecordDropped, InsertEvent
<1>6. CASE TrimOrNoticeFails
  BY <1>6 DEF TrimOrNoticeFails
<1>7. CASE SendPush
  BY <1>7 DEF SendPush, Oldest, Queue
<1>8. CASE ReadFails
  BY <1>8 DEF ReadFails, EndAttempt
<1>9. CASE WrongCertificate
  <2>1. CASE InsertEvent(3, {})
    BY <1>9, <2>1 DEF WrongCertificate, InsertEvent, EndAttempt
  <2>2. CASE NotWritten(agentDb)
    BY <1>9, <2>2 DEF WrongCertificate, NotWritten, agentDb, EndAttempt
  <2>3. QED
    BY <1>9, <2>1, <2>2, Zenon DEF WrongCertificate
<1>10. CASE NetworkError
  BY <1>10, LateRequestType DEF NetworkError, EndAttempt, StopWaiting
<1>11. CASE Acknowledged
  BY <1>11 DEF Acknowledged, NotWritten, EndAttempt, Through, Queue
<1>12. CASE Refused
  <2>1. revokedAt' \in BOOLEAN
    <3>1. revokedAt' = TRUE \/ revokedAt' = revokedAt
      BY <1>12 DEF Refused, NotWritten
    <3>2. revokedAt \in BOOLEAN
      BY Zenon
    <3>3. QED
      BY <3>1, <3>2, Zenon
  <2>a. wire' = "none" /\ EndAttempt("halted") /\ UNCHANGED <<orphans, hubVars, givenUp>>
    BY <1>12, Zenon DEF Refused
  <2>2. CASE InsertEvent(2, {})
    BY <2>1, <2>2, <2>a DEF InsertEvent, EndAttempt
  <2>3. CASE NotWritten(agentDb)
    BY <2>1, <2>3, <2>a DEF NotWritten, agentDb, EndAttempt
  <2>4. QED
    BY <1>12, <2>2, <2>3, Zenon DEF Refused
<1>13. CASE TryLater
  BY <1>13 DEF TryLater, EndAttempt
<1>14. CASE Crash
  BY <1>14, LateRequestType DEF Crash, EndAttempt, StopWaiting
<1>15. CASE Restart
  BY <1>15 DEF Restart
<1>16. CASE Authenticate
  BY <1>16 DEF Authenticate, Refusal
<1>17. CASE IngestEvents
  BY <1>17 DEF IngestEvents
<1>18. CASE HubFails
  BY <1>18 DEF HubFails
<1>19. CASE OrphanAuthenticated
  BY <1>19 DEF OrphanAuthenticated
<1>20. CASE OrphanIngested
  BY <1>20 DEF OrphanIngested
<1>21. CASE OrphanLost
  BY <1>21 DEF OrphanLost
<1>22. CASE SetDeviceStatus
  BY <1>22 DEF SetDeviceStatus
<1>23. CASE UNCHANGED vars
  BY <1>23 DEF vars
<1>24. QED
  BY <1>1, <1>2, <1>3, <1>4, <1>5, <1>6, <1>7, <1>8, <1>9, <1>10, <1>11, <1>12, <1>13, <1>14, <1>15, <1>16, <1>17, <1>18, <1>19, <1>20, <1>21, <1>22, <1>23 DEF Next, SyncStep, HubStep

\* The events table, the push and the hub keep their types through every step.
THEOREM TypeCorrect == Spec => []TypeOK
<1>1. QED
  BY TypeInitially, TypePreserved, PTL DEF Spec

------------------------------------------------------------------------------
(* Nothing is lost on the way to the hub. *)

LEMMA SyncInvInitially == Init => SyncInv
<1> SUFFICES ASSUME Init PROVE SyncInv
  OBVIOUS
<1>1. TypeOK
  BY TypeInitially
<1>2. QED
  BY <1>1 DEF Init, SyncInv, SyncedIsHeld, NothingLost, TimelineHasNoGap, PushesGapFree,
     GapFree, AnswerIsTrue, Recorded, Queue

\* A new row is owed; it comes after everything the hub has been sent.
LEMMA InsertKeepsOrder ==
    ASSUME SyncInv, NEW r, NEW names, InsertEvent(r, names), batch' \in {batch, {}},
           UNCHANGED <<orphans, timeline, givenUp>>
    PROVE  (SyncedIsHeld /\ NothingLost /\ TimelineHasNoGap /\ PushesGapFree)'
<1> USE DEF SyncInv, Queue, Recorded, InsertEvent
<1>1. /\ last \in Nat /\ last' = last + 1 /\ rows' = rows \cup {last + 1} /\ synced' = synced
      /\ rows \in SUBSET (1..last) /\ synced \in SUBSET rows
      /\ batch \in SUBSET (1..last) /\ timeline \in SUBSET (1..last)
      /\ \A q \in orphans : q.batch \in SUBSET (1..last)
  BY BoundsAssumption DEF TypeOK, Requests
<1>2. SyncedIsHeld'
  BY DEF SyncedIsHeld
<1>3. NothingLost'
  BY <1>1 DEF NothingLost
<1>4. ASSUME NEW b \in SUBSET (1..last), GapFree(b), NEW e \in b, NEW f \in 1..(last + 1), f < e
      PROVE  f \in b \cup timeline \cup givenUp
  BY <1>1, <1>4 DEF GapFree
<1>5. TimelineHasNoGap'
  <2>1. GapFree(timeline)
    BY DEF TimelineHasNoGap, GapFree
  <2>2. \A e \in timeline : \A f \in 1..(last + 1) : f < e => f \in timeline \cup givenUp
    BY <1>1, <1>4, <2>1
  <2>3. QED
    BY <1>1, <2>2 DEF TimelineHasNoGap
<1>6. PushesGapFree'
  <2>1. \A e \in batch : \A f \in 1..(last + 1) : f < e => f \in batch \cup timeline \cup givenUp
    BY <1>1, <1>4 DEF PushesGapFree
  <2>2. \A q \in orphans : \A e \in q.batch : \A f \in 1..(last + 1) :
            f < e => f \in q.batch \cup timeline \cup givenUp
    BY <1>1, <1>4 DEF PushesGapFree
  <2>3. QED
    BY <1>1, <2>1, <2>2 DEF PushesGapFree, GapFree
<1>7. QED
  BY <1>2, <1>3, <1>5, <1>6

\* A request left behind is as gap-free as the push it was.
LEMMA StopWaitingKeepsOrder ==
    ASSUME PushesGapFree, StopWaiting, batch' = {}, UNCHANGED <<last, timeline, givenUp>>
    PROVE  PushesGapFree'
<1> DEFINE late == [batch |-> batch, admitted |-> wire = "admitted"]
<1>0. late.batch = batch
  OBVIOUS
<1> HIDE DEF late
<1>1. \A q \in orphans' : q \in orphans \/ q.batch = batch
  <2>1. orphans' = orphans \/ orphans' = orphans \cup {late}
    BY Zenon DEF StopWaiting, late
  <2>2. QED
    BY <1>0, <2>1
<1>2. QED
  BY <1>1 DEF PushesGapFree, GapFree, Recorded

LEMMA SyncInvPreserved ==
    ASSUME HubConfigured, SyncInv, [Next]_vars
    PROVE  SyncInv'
<1> USE BoundsAssumption
<1>0. TypeOK /\ TypeOK'
  BY TypePreserved DEF SyncInv
<1> DEFINE Parts == SyncedIsHeld /\ NothingLost /\ TimelineHasNoGap /\ PushesGapFree /\ AnswerIsTrue
<1> SUFFICES Parts'
  BY <1>0 DEF SyncInv
<1> USE DEF SyncInv, SyncedIsHeld, NothingLost, TimelineHasNoGap, PushesGapFree, GapFree,
        AnswerIsTrue, Recorded, Queue, agentDb, attempt, hubVars
<1>1. CASE Record
  BY <1>1, InsertKeepsOrder DEF Record
<1>2. CASE Prune
  BY <1>0, <1>2 DEF Prune, TypeOK
<1>3. CASE StartSync
  BY <1>0, <1>3 DEF StartSync, TypeOK
<1>4. CASE TrimQueue
  BY <1>0, <1>4 DEF TrimQueue, TypeOK
<1>5. CASE RecordDropped
  BY <1>5, InsertKeepsOrder DEF RecordDropped
<1>6. CASE TrimOrNoticeFails
  BY <1>0, <1>6 DEF TrimOrNoticeFails, TypeOK
<1>7. CASE SendPush
  <2>1. Queue \in SUBSET (1..last) /\ last \in Nat
    BY <1>0 DEF TypeOK
  <2>2. \A e \in batch' : \A f \in Queue : f < e => f \in batch'
    BY <1>7, <2>1, OldestIsPrefix, BatchLimit \in Nat DEF SendPush
  <2>3. \A e \in batch' : \A f \in Recorded : f < e => f \in batch' \cup timeline \cup givenUp
    BY <2>2
  <2>4. QED
    BY <1>7, <2>3 DEF SendPush
<1>8. CASE ReadFails
  BY <1>0, <1>8 DEF ReadFails, EndAttempt, TypeOK
<1>9. CASE WrongCertificate
  <2>1. ASSUME NEW r, InsertEvent(r, {})
        PROVE  (SyncedIsHeld /\ NothingLost /\ TimelineHasNoGap /\ PushesGapFree)'
    BY <1>9, <2>1, InsertKeepsOrder DEF WrongCertificate, EndAttempt
  <2>2. CASE NotWritten(agentDb)
    BY <1>0, <1>9, <2>2 DEF WrongCertificate, NotWritten, EndAttempt, TypeOK
  <2>3. QED
    BY <1>9, <2>1, <2>2 DEF WrongCertificate, EndAttempt
<1>10. CASE NetworkError
  <2>1. PushesGapFree'
    BY <1>10, StopWaitingKeepsOrder DEF NetworkError, EndAttempt
  <2>2. QED
    BY <1>10, <2>1 DEF NetworkError, EndAttempt, StopWaiting
<1>11. CASE Acknowledged
  BY <1>0, <1>11 DEF Acknowledged, NotWritten, EndAttempt, Through, TypeOK
<1>12. CASE Refused
  <2>1. ASSUME NEW r, InsertEvent(r, {})
        PROVE  (SyncedIsHeld /\ NothingLost /\ TimelineHasNoGap /\ PushesGapFree)'
    BY <1>12, <2>1, InsertKeepsOrder DEF Refused, EndAttempt
  <2>2. CASE NotWritten(agentDb)
    BY <1>0, <1>12, <2>2 DEF Refused, NotWritten, EndAttempt, TypeOK
  <2>3. QED
    BY <1>12, <2>1, <2>2 DEF Refused, EndAttempt
<1>13. CASE TryLater
  BY <1>0, <1>13 DEF TryLater, EndAttempt, TypeOK
<1>14. CASE Crash
  <2>1. PushesGapFree'
    BY <1>14, StopWaitingKeepsOrder DEF Crash, EndAttempt
  <2>2. QED
    BY <1>14, <2>1 DEF Crash, EndAttempt, StopWaiting
<1>15. CASE Restart
  BY <1>0, <1>15 DEF Restart, TypeOK
<1>16. CASE Authenticate
  BY <1>0, <1>16 DEF Authenticate, Refusal, TypeOK
<1>17. CASE IngestEvents
  BY <1>0, <1>17 DEF IngestEvents, TypeOK
<1>18. CASE HubFails
  BY <1>0, <1>18 DEF HubFails, TypeOK
<1>19. CASE OrphanAuthenticated
  <2>1. \A q \in orphans : [q EXCEPT !.admitted = TRUE].batch = q.batch
    BY <1>0 DEF TypeOK, Requests
  <2>2. \A q \in orphans' : \E p \in orphans : q.batch = p.batch
    BY <1>19, <2>1 DEF OrphanAuthenticated
  <2>3. QED
    BY <1>19, <2>2 DEF OrphanAuthenticated
<1>20. CASE OrphanIngested
  BY <1>0, <1>20 DEF OrphanIngested, TypeOK
<1>21. CASE OrphanLost
  BY <1>0, <1>21 DEF OrphanLost, TypeOK
<1>22. CASE SetDeviceStatus
  BY <1>0, <1>22 DEF SetDeviceStatus, TypeOK
<1>23. CASE UNCHANGED vars
  BY <1>23 DEF vars
<1>24. QED
  BY <1>1, <1>2, <1>3, <1>4, <1>5, <1>6, <1>7, <1>8, <1>9, <1>10, <1>11, <1>12, <1>13, <1>14, <1>15, <1>16, <1>17, <1>18, <1>19, <1>20, <1>21, <1>22, <1>23 DEF Next, SyncStep, HubStep

\* What the cursor relies on, whether or not config.toml names the hub: no event
\* still owed lies behind a batch, unless it is in it or the hub has it.
NothingBehind == \A e \in batch : \A f \in Queue : f < e => f \in batch \cup timeline \cup givenUp

CursorInv == TypeOK /\ SyncedIsHeld /\ AnswerIsTrue /\ NothingBehind

\* A new row comes after every batch.
LEMMA InsertIsAhead ==
    ASSUME CursorInv, NEW r, NEW names, InsertEvent(r, names), batch' \in {batch, {}},
           UNCHANGED <<timeline, givenUp>>
    PROVE  SyncedIsHeld' /\ NothingBehind'
<1>1. /\ last \in Nat /\ rows' = rows \cup {last + 1} /\ synced' = synced
      /\ batch \in SUBSET (1..last)
  BY BoundsAssumption DEF CursorInv, TypeOK, InsertEvent, Recorded
<1>2. \A e \in batch : ~(last + 1 < e)
  BY <1>1
<1>3. QED
  BY <1>1, <1>2 DEF CursorInv, SyncedIsHeld, NothingBehind, Queue

LEMMA CursorInvPreserved ==
    ASSUME CursorInv, [Next]_vars
    PROVE  CursorInv'
<1> USE BoundsAssumption
<1>0. TypeOK /\ TypeOK'
  BY TypePreserved DEF CursorInv
<1> DEFINE Parts == SyncedIsHeld /\ AnswerIsTrue /\ NothingBehind
<1> SUFFICES Parts'
  BY <1>0 DEF CursorInv
<1> USE DEF CursorInv, SyncedIsHeld, AnswerIsTrue, NothingBehind, Recorded, Queue, agentDb, attempt, hubVars
<1>1. CASE Record
  BY <1>1, InsertIsAhead DEF Record
<1>2. CASE RecordDropped
  BY <1>2, InsertIsAhead DEF RecordDropped
<1>3. CASE WrongCertificate
  <2>1. ASSUME NEW r, InsertEvent(r, {}) PROVE Parts'
    BY <1>3, <2>1, InsertIsAhead DEF WrongCertificate, EndAttempt
  <2>2. CASE NotWritten(agentDb)
    BY <1>3, <2>2 DEF WrongCertificate, NotWritten, EndAttempt
  <2>3. QED
    BY <1>3, <2>1, <2>2 DEF WrongCertificate
<1>4. CASE Refused
  <2>1. ASSUME NEW r, InsertEvent(r, {}) PROVE Parts'
    BY <1>4, <2>1, InsertIsAhead DEF Refused, EndAttempt
  <2>2. CASE NotWritten(agentDb)
    BY <1>4, <2>2 DEF Refused, NotWritten, EndAttempt
  <2>3. QED
    BY <1>4, <2>1, <2>2 DEF Refused
<1>5. CASE SendPush
  <2>1. Queue \in SUBSET (1..last) /\ last \in Nat
    BY <1>0 DEF TypeOK
  <2>2. \A e \in batch' : \A f \in Queue : f < e => f \in batch'
    BY <1>5, <2>1, OldestIsPrefix, BatchLimit \in Nat DEF SendPush
  <2>3. QED
    BY <1>5, <2>2 DEF SendPush
<1>6. CASE Acknowledged
  <2>1. CASE synced' = synced
    BY <1>6, <2>1 DEF Acknowledged, EndAttempt
  <2>2. CASE synced' = synced \cup Through(batch)
    <3>1. Through(batch) \subseteq timeline \cup givenUp
      <4>1. batch \subseteq timeline
        BY <1>6 DEF Acknowledged
      <4>2. ASSUME NEW e \in Queue, NEW f \in batch, e <= f PROVE e \in timeline \cup givenUp
        <5>1. e = f \/ e < f
          BY <1>0, <4>2 DEF TypeOK
        <5>2. QED
          BY <4>1, <4>2, <5>1
      <4>3. QED
        BY <4>2 DEF Through
    <3>2. QED
      BY <1>6, <2>2, <3>1 DEF Acknowledged, EndAttempt
  <2>3. QED
    BY <1>6, <2>1, <2>2 DEF Acknowledged, NotWritten
<1>7. CASE TrimQueue
  <2>1. UNCHANGED <<rows, batch, wire, timeline>>
    BY <1>7 DEF TrimQueue
  <2>2. synced' = synced \cup LeastImportant(Queue, over)
        /\ givenUp' = givenUp \cup LeastImportant(Queue, over)
    BY <1>7 DEF TrimQueue
  <2>3. QED
    BY <2>1, <2>2
<1>8. CASE Prune \/ StartSync \/ TrimOrNoticeFails
  BY <1>8 DEF Prune, StartSync, TrimOrNoticeFails
<1>9. CASE ReadFails \/ NetworkError \/ TryLater \/ Crash \/ Restart
  BY <1>9 DEF ReadFails, NetworkError, TryLater, Crash, Restart, EndAttempt, StopWaiting
<1>10. CASE Authenticate \/ IngestEvents \/ HubFails \/ SetDeviceStatus
  BY <1>10 DEF Authenticate, Refusal, IngestEvents, HubFails, SetDeviceStatus
<1>11. CASE OrphanAuthenticated \/ OrphanIngested \/ OrphanLost
  BY <1>11 DEF OrphanAuthenticated, OrphanIngested, OrphanLost
<1>12. CASE UNCHANGED vars
  BY <1>12 DEF vars
<1>13. QED
  BY <1>1, <1>2, <1>3, <1>4, <1>5, <1>6, <1>7, <1>8, <1>9, <1>10, <1>11, <1>12
     DEF Next, SyncStep, HubStep

\* The cursor tells the truth: an event marked synced is on the hub or was given
\* up on purpose (agent/sync.go, repo/syncqueue.go), whatever config.toml says.
THEOREM SyncedHeld == Spec => []SyncedIsHeld
<1>1. Init => CursorInv
  BY TypeInitially DEF Init, CursorInv, SyncedIsHeld, AnswerIsTrue, NothingBehind
<1>2. CursorInv => SyncedIsHeld
  BY DEF CursorInv
<1>3. QED
  BY <1>1, <1>2, CursorInvPreserved, PTL DEF Spec

\* No event disappears: it is owed, on the hub, or was given up on purpose.
THEOREM NothingIsLost == HubConfigured => (Spec => []NothingLost)
<1>1. SyncInv => NothingLost
  BY DEF SyncInv
<1>2. SUFFICES ASSUME HubConfigured PROVE Spec => []NothingLost
  OBVIOUS
<1>3. SyncInv /\ [Next]_vars => SyncInv'
  BY <1>2, SyncInvPreserved
<1>4. QED
  BY <1>1, <1>3, SyncInvInitially, PTL DEF Spec

\* The hub's timeline never shows an event ahead of one still to come.
THEOREM NoGap == HubConfigured => (Spec => []TimelineHasNoGap)
<1>1. SyncInv => TimelineHasNoGap
  BY DEF SyncInv
<1>2. SUFFICES ASSUME HubConfigured PROVE Spec => []TimelineHasNoGap
  OBVIOUS
<1>3. SyncInv /\ [Next]_vars => SyncInv'
  BY <1>2, SyncInvPreserved
<1>4. QED
  BY <1>1, <1>3, SyncInvInitially, PTL DEF Spec
------------------------------------------------------------------------------
(* Refinement, and what the cap may cost. *)

\* Every step of event sync is a step of FleetTimeline or changes nothing the
\* timeline's reader can see.
LEMMA StepKeepsPromise ==
    ASSUME HubConfigured, SyncInv, [Next]_vars
    PROVE  [Promise!Next]_(Promise!vars)
<1> USE DEF Promise!Next, Promise!vars
<1>0. TypeOK /\ Queue \in SUBSET (1..last) /\ synced \subseteq rows
  BY DEF SyncInv, TypeOK, Queue, Recorded
<1>a. ASSUME NEW r, NEW names, InsertEvent(r, names), UNCHANGED <<timeline, givenUp>>
      PROVE  Promise!Record
  BY <1>0, <1>a, BoundsAssumption DEF Promise!Record, InsertEvent, Queue, TypeOK, Recorded
<1>b. ASSUME NEW b \in SUBSET (1..last), GapFree(b), timeline' = timeline \cup b,
             UNCHANGED <<last, rows, synced, givenUp>>
      PROVE  Promise!Show
  BY <1>b DEF Promise!Show, GapFree, Recorded, Queue
<1>1. CASE Record
  BY <1>1, <1>a DEF Record, hubVars
<1>2. CASE Prune
  <2>1. Queue' = Queue
    BY <1>0, <1>2 DEF Prune, Queue
  <2>2. QED
    BY <1>2, <2>1 DEF Prune, hubVars
<1>3. CASE TrimQueue
  <2>1. LeastImportant(Queue, over) \in SUBSET Queue
    BY DEF LeastImportant
  <2>2. Promise!GiveUp
    BY <1>3, <2>1 DEF TrimQueue, Promise!GiveUp, Queue, hubVars
  <2>3. QED
    BY <2>2
<1>4. CASE RecordDropped
  BY <1>4, <1>a DEF RecordDropped, hubVars
<1>5. CASE WrongCertificate
  BY <1>5, <1>a DEF WrongCertificate, NotWritten, agentDb, Queue, hubVars
<1>6. CASE Refused
  BY <1>6, <1>a DEF Refused, NotWritten, agentDb, Queue, hubVars
<1>7. CASE Acknowledged
  <2>1. SyncInv'
    BY SyncInvPreserved
  <2>2. synced' \subseteq timeline \cup givenUp
    BY <1>7, <2>1 DEF SyncInv, SyncedIsHeld, Acknowledged, hubVars
  <2>3. Queue' = Queue \ (synced' \ synced) /\ (synced' \ synced) \in SUBSET Queue
    BY <1>7 DEF Acknowledged, NotWritten, Queue, Through
  <2>4. Promise!Settle
    BY <1>7, <2>2, <2>3 DEF Acknowledged, Promise!Settle, hubVars
  <2>5. QED
    BY <2>4
<1>8. CASE IngestEvents
  BY <1>0, <1>8, <1>b DEF IngestEvents, SyncInv, PushesGapFree, TypeOK, Recorded, agentDb
<1>9. CASE OrphanIngested
  <2>1. PICK q \in orphans : timeline' = timeline \cup q.batch
    BY <1>9 DEF OrphanIngested
  <2>2. GapFree(q.batch) /\ q.batch \in SUBSET (1..last)
    BY <1>0 DEF SyncInv, PushesGapFree, TypeOK, Requests, Recorded
  <2>3. QED
    BY <1>9, <1>b, <2>1, <2>2 DEF OrphanIngested, agentDb
<1>10. CASE \/ StartSync \/ TrimOrNoticeFails \/ SendPush \/ ReadFails \/ NetworkError
            \/ TryLater \/ Crash \/ Restart
  BY <1>10 DEF StartSync, TrimOrNoticeFails, SendPush, ReadFails, NetworkError, TryLater,
     Crash, Restart, agentDb, hubVars, Queue
<1>11. CASE Authenticate \/ HubFails \/ OrphanAuthenticated \/ OrphanLost \/ SetDeviceStatus
  BY <1>11 DEF Authenticate, HubFails, OrphanAuthenticated, OrphanLost, SetDeviceStatus,
     agentDb, hubVars, Queue
<1>12. CASE UNCHANGED vars
  BY <1>12 DEF vars, agentDb, hubVars, Queue
<1>13. QED
  BY <1>1, <1>2, <1>3, <1>4, <1>5, <1>6, <1>7, <1>8, <1>9, <1>10, <1>11, <1>12
     DEF Next, SyncStep, HubStep

\* With a hub configured, event sync keeps the fleet timeline's promise.
THEOREM TimelineImplemented == HubConfigured => (Spec => ImplementsTimeline)
<1>1. Init => Promise!Init
  BY DEF Init, Promise!Init, Queue
<1>2. SUFFICES ASSUME HubConfigured PROVE Spec => ImplementsTimeline
  OBVIOUS
<1>3. SyncInv /\ [Next]_vars => SyncInv'
  BY <1>2, SyncInvPreserved
<1>4. SyncInv /\ [Next]_vars => [Promise!Next]_(Promise!vars)
  BY <1>2, StepKeepsPromise
<1>5. QED
  BY <1>1, <1>3, <1>4, SyncInvInitially, PTL DEF Spec, ImplementsTimeline, Promise!Spec

\* TrimQueue never gives up an event while it keeps a less severe one.
THEOREM CapSparesTheSevere == Spec => LeastImportantFirst
<1> DEFINE Fair == \A e \in givenUp' \ givenUp : \A f \in Queue' : rank[e] <= rank[f]
<1>1. ASSUME TypeOK, [Next]_vars
      PROVE  [Fair]_vars
  <2>1. CASE TrimQueue
    <3>1. Queue \in SUBSET (1..last) /\ last \in Nat /\ over \in Nat
      BY <1>1, BoundsAssumption DEF TypeOK, Queue, Recorded
    <3>2. \A x \in 1..last : rank[x] \in Int
      BY <1>1, BoundsAssumption DEF TypeOK, Ids
    <3>3. /\ givenUp' \ givenUp \subseteq LeastImportant(Queue, over)
          /\ Queue' = Queue \ LeastImportant(Queue, over)
      BY <2>1 DEF TrimQueue, Queue
    <3>4. QED
      BY <3>1, <3>2, <3>3, LeastImportantIsLowest
  <2>2. CASE ~TrimQueue
    <3>1. givenUp' = givenUp
      BY <1>1, <2>2 DEF Next, SyncStep, HubStep, Record, Prune, StartSync, RecordDropped,
         TrimOrNoticeFails, SendPush, ReadFails, WrongCertificate, NetworkError, Acknowledged,
         Refused, TryLater, Crash, Restart, Authenticate, IngestEvents, HubFails,
         OrphanAuthenticated, OrphanIngested, OrphanLost, SetDeviceStatus, vars
    <3>2. QED
      BY <3>1
  <2>3. QED
    BY <2>1, <2>2
<1>2. QED
  BY <1>1, TypeInitially, TypePreserved, PTL DEF Spec, LeastImportantFirst

------------------------------------------------------------------------------
(* The page that shows the timeline (TimelinePage). *)

\* How many members of S are at most e: the place e has in Ascending(S).
LEMMA Places ==
    ASSUME NEW S \in SUBSET Int, IsFiniteSet(S),
           NEW r, r = [e \in S |-> Cardinality({f \in S : f <= e})]
    PROVE  /\ r \in [S -> 1..Cardinality(S)]
           /\ \A e, g \in S : e < g => r[e] < r[g]
           /\ \A i \in 1..Cardinality(S) : \E e \in S : r[e] = i
<1> DEFINE n == Cardinality(S)
           Upto(e) == {f \in S : f <= e}
<1>1. n \in Nat
  BY FS_CardinalityType
<1>2. \A e \in S : IsFiniteSet(Upto(e)) /\ Cardinality(Upto(e)) \in Nat /\ Cardinality(Upto(e)) <= n
  <2> TAKE e \in S
  <2>1. Upto(e) \in SUBSET S
    OBVIOUS
  <2>2. QED
    BY <2>1, FS_Subset, FS_CardinalityType
<1>3. \A e \in S : Cardinality(Upto(e)) \in 1..n
  <2> TAKE e \in S
  <2>1. e \in Upto(e)
    OBVIOUS
  <2>2. Cardinality(Upto(e)) # 0
    BY <1>2, <2>1, FS_EmptySet
  <2>3. QED
    BY <1>1, <1>2, <2>2
<1>4. \A e \in S : r[e] = Cardinality(Upto(e))
  OBVIOUS
<1>5. r \in [S -> 1..n]
  BY <1>3
<1>6. ASSUME NEW e \in S, NEW g \in S, e < g PROVE r[e] < r[g]
  <2>1. Upto(e) \in SUBSET Upto(g) /\ g \in Upto(g) /\ g \notin Upto(e)
    <3>1. \A f \in S : f <= e => f <= g
      BY <1>6
    <3>2. ~(g <= e) /\ g <= g
      BY <1>6
    <3>3. QED
      BY <3>1, <3>2
  <2>2. Cardinality(Upto(e)) <= Cardinality(Upto(g)) /\ Cardinality(Upto(e)) # Cardinality(Upto(g))
    BY <1>2, <2>1, FS_Subset
  <2>3. QED
    BY <1>2, <1>4, <2>2
<1>7. \A i \in 1..n : \E e \in S : r[e] = i
  <2>1. \A e, g \in S : r[e] = r[g] => e = g
    <3> TAKE e, g \in S
    <3>1. r[e] \in Int /\ r[g] \in Int /\ e \in Int /\ g \in Int
      BY <1>5
    <3>2. QED
      BY <1>6, <3>1
  <2>2. r \in Injection(S, 1..n)
    BY <1>5, <2>1 DEF Injection, IsInjective
  <2>3. IsFiniteSet(1..n) /\ Cardinality(1..n) = n
    BY <1>1, FS_Interval
  <2>4. r \in Surjection(S, 1..n)
    BY <2>2, <2>3, FS_Injection
  <2>5. QED
    BY <2>4 DEF Surjection
<1>8. QED
  BY <1>5, <1>6, <1>7

\* Ascending(S) lists each member of S once, the smaller ones first.
LEMMA AscendingLists ==
    ASSUME NEW S \in SUBSET Int, IsFiniteSet(S)
    PROVE  /\ Ascending(S) \in Seq(S) /\ Len(Ascending(S)) = Cardinality(S)
           /\ \A i, j \in DOMAIN Ascending(S) : i < j => Ascending(S)[i] < Ascending(S)[j]
           /\ \A e \in S : \E i \in DOMAIN Ascending(S) : Ascending(S)[i] = e
<1> DEFINE n == Cardinality(S)
           r == [e \in S |-> Cardinality({f \in S : f <= e})]
           s == [i \in 1..n |-> CHOOSE e \in S : r[e] = i]
           Sorted(t) == \A i, j \in DOMAIN t : i < j => t[i] < t[j]
<1>1. n \in Nat
  BY FS_CardinalityType
<1>2. /\ \A e, g \in S : e < g => r[e] < r[g]
      /\ \A i \in 1..n : \E e \in S : r[e] = i
      /\ \A e \in S : r[e] \in 1..n
  <2>1. r = [e \in S |-> Cardinality({f \in S : f <= e})]
    OBVIOUS
  <2> HIDE DEF r
  <2>2. QED
    BY <2>1, Places
<1> HIDE DEF r
<1>3. \A i \in 1..n : s[i] \in S /\ r[s[i]] = i
  BY <1>2
<1>4. s \in SetToSeqs(S)
  BY <1>3 DEF SetToSeqs
<1>5. Sorted(s)
  <2> SUFFICES ASSUME NEW i \in 1..n, NEW j \in 1..n, i < j PROVE s[i] < s[j]
    OBVIOUS
  <2> DEFINE a == s[i]
             b == s[j]
  <2>1. a \in S /\ b \in S /\ r[a] = i /\ r[b] = j
    BY <1>3
  <2> HIDE DEF a, b, s
  <2>2. a \in Int /\ b \in Int /\ ~(b < a) /\ a # b
    BY <1>1, <1>2, <2>1
  <2>3. a < b
    BY <2>2
  <2>4. QED
    BY <2>3 DEF a, b
<1> HIDE DEF s
<1>6. Ascending(S) \in SetToSeqs(S) /\ Sorted(Ascending(S))
  BY <1>4, <1>5 DEF Ascending
<1> DEFINE t == Ascending(S)
<1> HIDE DEF t
<1>7. t \in [1..n -> S] /\ \A i, j \in 1..n : i # j => t[i] # t[j]
  BY <1>6 DEF SetToSeqs, t
<1>8. t \in Injection(1..n, S)
  BY <1>7 DEF Injection, IsInjective
<1>9. t \in Surjection(1..n, S)
  BY <1>1, <1>8, FS_Injection, FS_Interval
<1>10. \A e \in S : \E i \in DOMAIN t : t[i] = e
  BY <1>9 DEF Surjection
<1>11. t \in Seq(S) /\ Len(t) = n
  BY <1>1, <1>7
<1>12. QED
  BY <1>6, <1>10, <1>11 DEF t

\* The first rows of a sequence.
LEMMA AtMostIs ==
    ASSUME NEW T, NEW s \in Seq(T), NEW limit \in Nat
    PROVE  /\ AtMost(limit, s) \in Seq(T)
           /\ Len(AtMost(limit, s)) = IF Len(s) < limit THEN Len(s) ELSE limit
           /\ \A i \in DOMAIN AtMost(limit, s) : AtMost(limit, s)[i] = s[i]
<1> DEFINE m == IF Len(s) < limit THEN Len(s) ELSE limit
<1>1. m \in 0..Len(s) /\ AtMost(limit, s) = SubSeq(s, 1, m)
  BY DEF AtMost
<1> HIDE DEF m
<1>2. SubSeq(s, 1, m) = [i \in 1..m |-> s[i]]
  BY <1>1
<1>3. SubSeq(s, 1, m) \in Seq(T) /\ Len(SubSeq(s, 1, m)) = m
  BY <1>1, <1>2
<1>4. QED
  BY <1>1, <1>2, <1>3 DEF m

LEMMA RowsAre ==
    ASSUME NEW T, NEW s \in Seq(T)
    PROVE  \A i \in DOMAIN s : s[i] \in T
  OBVIOUS

LEMMA WiderSeq ==
    ASSUME NEW U, NEW T \in SUBSET U, NEW s \in Seq(T)
    PROVE  s \in Seq(U)
  OBVIOUS

\* A severity is that of a row the agent recorded, or of no interest.
LEMMA EveryRowHits ==
    ASSUME TypeOK, log \in Seq(0..MaxEvents), NEW after \in Nat
    PROVE  /\ Hits(Everything, after) = {i \in DOMAIN log : i > after}
           /\ Hits(Everything, after) \subseteq 1..Len(log)
           /\ IsFiniteSet(Hits(Everything, after))
<1>1. \A i \in DOMAIN log : SeverityOf(i) \in Everything
  <2> TAKE i \in DOMAIN log
  <2>1. log[i] \in 0..MaxEvents
    BY RowsAre
  <2>2. log[i] # Foreign => log[i] \in Ids
    BY <2>1 DEF Foreign, Ids
  <2>3. QED
    BY <2>2 DEF TypeOK, SeverityOf, Everything
<1>2. Hits(Everything, after) = {i \in DOMAIN log : i > after}
  BY <1>1 DEF Hits
<1>3. Hits(Everything, after) \subseteq 1..Len(log)
  BY <1>2
<1>4. Len(log) \in Nat
  OBVIOUS
<1>5. QED
  BY <1>2, <1>3, <1>4, EventsFinite

\* What the stream reads after a cursor begins where the cursor is and leaves out
\* nothing before its end.
LEMMA StreamReadsOn ==
    ASSUME TypeOK, log \in Seq(0..MaxEvents), NEW after \in Nat, after > 0, NEW limit \in Nat,
           NEW found, found = FleetEvents(Everything, after, limit)
    PROVE  /\ found \in Seq(DOMAIN log)
           /\ \A a \in DOMAIN found : found[a] > after
           /\ \A a \in DOMAIN found : \A k \in DOMAIN log :
                after < k /\ k <= found[a] => \E b \in DOMAIN found : found[b] = k
<1> DEFINE S == Hits(Everything, after)
           s == Ascending(S)
<1>1. S = {i \in DOMAIN log : i > after} /\ S \subseteq 1..Len(log) /\ IsFiniteSet(S)
  BY EveryRowHits
<1>2. found = AtMost(limit, s)
  BY DEF FleetEvents
<1> HIDE DEF S
<1>3. /\ s \in Seq(S)
      /\ \A i, j \in DOMAIN s : i < j => s[i] < s[j]
      /\ \A e \in S : \E i \in DOMAIN s : s[i] = e
  <2>1. S \in SUBSET Int
    BY <1>1
  <2>2. QED
    BY <1>1, <2>1, AscendingLists
<1> HIDE DEF s
<1>4. /\ found \in Seq(S) /\ \A a \in DOMAIN found : a \in DOMAIN s /\ found[a] = s[a]
      /\ \A a \in DOMAIN found : \A b \in DOMAIN s : b <= a => b \in DOMAIN found
  BY <1>2, <1>3, AtMostIs
<1>5. found \in Seq(DOMAIN log) /\ \A a \in DOMAIN found : found[a] \in S
  BY <1>1, <1>4
<1>6. ASSUME NEW a \in DOMAIN found, NEW k \in DOMAIN log, after < k, k <= found[a]
      PROVE  \E b \in DOMAIN found : found[b] = k
  <2>1. k \in S
    BY <1>1, <1>6
  <2>2. PICK b \in DOMAIN s : s[b] = k
    BY <1>3, <2>1
  <2>3. ~(a < b)
    <3>1. a \in DOMAIN s /\ found[a] = s[a] /\ s[a] \in Int /\ k \in Int
      BY <1>1, <1>3, <1>4
    <3>2. QED
      BY <1>3, <1>6, <2>2, <3>1
  <2>4. b <= a
    BY <1>3, <1>4, <2>3
  <2>5. QED
    BY <1>4, <2>2, <2>4
<1>7. QED
  BY <1>1, <1>5, <1>6

\* What the page shows at first ends with the newest row and leaves out nothing
\* after its first.
LEMMA PageReadsBack ==
    ASSUME TypeOK, log \in Seq(0..MaxEvents), NEW limit \in Nat,
           NEW found, found = FleetEvents(Everything, 0, limit)
    PROVE  /\ found \in Seq(DOMAIN log)
           /\ \A a \in DOMAIN found : \A k \in DOMAIN log :
                found[a] <= k => \E b \in DOMAIN found : found[b] = k
<1> DEFINE S == Hits(Everything, 0)
           s == Ascending(S)
           n == Len(s)
           back == Reverse(s)
<1>1. S = DOMAIN log /\ S \subseteq 1..Len(log) /\ IsFiniteSet(S)
  <2>1. \A i \in DOMAIN log : i > 0
    OBVIOUS
  <2>2. QED
    BY <2>1, EveryRowHits
<1>2. found = AtMost(limit, back)
  BY DEF FleetEvents
<1> HIDE DEF S
<1>3. /\ s \in Seq(S)
      /\ \A i, j \in DOMAIN s : i < j => s[i] < s[j]
      /\ \A e \in S : \E i \in DOMAIN s : s[i] = e
  <2>1. S \in SUBSET Int
    BY <1>1
  <2>2. QED
    BY <1>1, <2>1, AscendingLists
<1> HIDE DEF s
<1>4. /\ back \in Seq(S) /\ Len(back) = n /\ n \in Nat /\ DOMAIN s = 1..n
      /\ \A i \in 1..n : back[i] = s[(n - i) + 1]
  BY <1>3 DEF Reverse
<1> HIDE DEF back, n
<1>5. /\ found \in Seq(S) /\ \A a \in DOMAIN found : a \in 1..n /\ found[a] = back[a]
      /\ \A a \in DOMAIN found : \A b \in 1..n : b <= a => b \in DOMAIN found
  BY <1>2, <1>4, AtMostIs
<1>6. ASSUME NEW a \in DOMAIN found, NEW k \in DOMAIN log, found[a] <= k
      PROVE  \E b \in DOMAIN found : found[b] = k
  <2>1. PICK c \in DOMAIN s : s[c] = k
    BY <1>1, <1>3
  <2> DEFINE b == (n - c) + 1
             d == (n - a) + 1
  <2>2. /\ c \in 1..n /\ b \in 1..n /\ (n - b) + 1 = c
        /\ a \in 1..n /\ d \in 1..n /\ found[a] = s[d]
    <3>1. c \in 1..n /\ a \in 1..n /\ found[a] = back[a]
      BY <1>4, <1>5, <2>1
    <3>2. QED
      BY <1>4, <3>1
  <2>3. back[b] = k
    BY <1>4, <2>1, <2>2
  <2>4. ~(c < d)
    <3>1. s[d] \in Int /\ k \in Int /\ d \in DOMAIN s
      BY <1>1, <1>3, <1>4, <2>2
    <3>2. QED
      BY <1>3, <1>6, <2>1, <2>2, <3>1
  <2>5. b <= a
    BY <1>4, <2>2, <2>4
  <2>6. QED
    BY <1>5, <2>2, <2>3, <2>5
<1>7. QED
  BY <1>1, <1>5, <1>6

\* The page is one more reader of the tables, and the agent does not see it.
LEMMA PageOnlyReads == PageSpec => Spec
<1>1. PageInit => Init
  BY DEF PageInit
<1>2. [PageNext]_allVars => [Next]_vars
  BY DEF PageNext, SyncGoesOn, OpenPage, Connect, Tick, Drop, allVars
<1>3. QED
  BY <1>1, <1>2, PTL DEF PageSpec, Spec

ShownTypeOK ==
    /\ log \in Seq(0..MaxEvents) /\ list \in Seq(DOMAIN log)
    /\ since \in Nat /\ cursor \in Nat

LEMMA LogGrows ==
    ASSUME TypeOK, TypeOK', ShownTypeOK, Arrive
    PROVE  log' \in Seq(0..MaxEvents) /\ DOMAIN log \subseteq DOMAIN log'
<1> DEFINE new == timeline' \ timeline
<1>1. new \subseteq 1..MaxEvents /\ MaxEvents \in Nat
  BY BoundsAssumption DEF TypeOK, Recorded
<1> HIDE DEF new
<1>2. new \in SUBSET Int /\ IsFiniteSet(new)
  <2>1. new \in SUBSET (1..MaxEvents)
    BY <1>1
  <2>2. IsFiniteSet(new)
    BY <1>1, <2>1, EventsFinite
  <2>3. QED
    BY <2>1, <2>2
<1>3. Ascending(new) \in Seq(new)
  BY <1>2, AscendingLists
<1>4. Ascending(new) \in Seq(0..MaxEvents)
  <2>1. new \subseteq 0..MaxEvents
    BY <1>1
  <2>2. QED
    BY <1>3, <2>1, WiderSeq
<1>5. log' = log \o Ascending(new)
  BY DEF Arrive, new
<1>6. QED
  BY <1>4, <1>5 DEF ShownTypeOK

\* A page that had a row shows the one its stream began with and the one it has
\* reached.
Resumes == since > 0 => since \in OnScreen /\ (page = "live" => cursor \in OnScreen)

LEMMA PageStands ==
    ASSUME Filters = {Everything}, TypeOK, TypeOK', ShownTypeOK, Resumes, PageHasNoHole,
           [PageNext]_allVars
    PROVE  ShownTypeOK' /\ Resumes' /\ PageHasNoHole'
<1> USE DEF ShownTypeOK, Resumes, PageHasNoHole, OnScreen
<1>0. DOMAIN log = 1..Len(log) /\ Len(log) \in Nat /\ \A k \in DOMAIN list : list[k] \in DOMAIN log
  BY RowsAre
<1>1. CASE SyncGoesOn
  <2>1. log' \in Seq(0..MaxEvents) /\ DOMAIN log \subseteq DOMAIN log'
    BY <1>1, LogGrows DEF SyncGoesOn
  <2>2. UNCHANGED pageVars
    BY <1>1 DEF SyncGoesOn
  <2>3. list' \in Seq(DOMAIN log')
    BY <2>1, <2>2 DEF pageVars
  <2>4. QED
    BY <2>1, <2>2, <2>3 DEF pageVars
<1>2. CASE OpenPage
  <2> DEFINE found == FleetEvents(Everything, 0, PageLimit)
  <2>1. /\ list' = found /\ since' = IF found = <<>> THEN 0 ELSE found[1]
        /\ log' = log /\ cursor' = cursor /\ page' = "waiting"
    BY <1>2 DEF OpenPage
  <2>2. /\ found \in Seq(DOMAIN log)
        /\ \A a \in DOMAIN found : \A k \in DOMAIN log :
             found[a] <= k => \E b \in DOMAIN found : found[b] = k
    BY PageReadsBack, PageAssumption
  <2> HIDE DEF found
  <2>3. found # <<>> => 1 \in DOMAIN found /\ found[1] \in DOMAIN log
    BY <2>2
  <2>4. ShownTypeOK'
    BY <1>0, <2>1, <2>2, <2>3
  <2>5. Resumes'
    BY <2>1, <2>3
  <2>6. PageHasNoHole'
    <3> SUFFICES ASSUME NEW a \in DOMAIN found, NEW c \in DOMAIN found, NEW k \in found[a]..found[c]
                 PROVE  \E b \in DOMAIN found : found[b] = k
      BY <2>1
    <3>1. found[a] \in DOMAIN log /\ found[c] \in DOMAIN log
      BY <2>2, RowsAre
    <3>2. k \in DOMAIN log /\ found[a] <= k
      BY <1>0, <3>1
    <3>3. QED
      BY <2>2, <3>2
  <2>7. QED
    BY <2>4, <2>5, <2>6
<1>3. CASE Connect
  BY <1>3 DEF Connect
<1>4. CASE Tick
  <2> DEFINE found == FleetEvents(Everything, cursor, StreamLimit)
             m == Len(found)
             New == {found[k] : k \in DOMAIN found}
  <2>1. /\ page = "live" /\ found # <<>> /\ list' = Reverse(found) \o list
        /\ cursor' = found[m] /\ UNCHANGED <<log, page, since>>
    BY <1>4 DEF Tick, Last
  <2>2. found \in Seq(DOMAIN log)
    <3>1. CASE cursor > 0
      BY <3>1, StreamReadsOn, PageAssumption
    <3>2. CASE cursor = 0
      BY <3>2, PageReadsBack, PageAssumption
    <3>3. QED
      BY <3>1, <3>2
  <2>3. since > 0 =>
          /\ \A i \in New : i > cursor
          /\ \A i \in New : \A k \in DOMAIN log : cursor < k /\ k <= i => k \in New
    <3> SUFFICES ASSUME since > 0
                 PROVE  /\ \A i \in New : i > cursor
                        /\ \A i \in New : \A k \in DOMAIN log : cursor < k /\ k <= i => k \in New
      OBVIOUS
    <3>1. cursor > 0
      BY <1>0, <2>1
    <3>2. /\ \A a \in DOMAIN found : found[a] > cursor
          /\ \A a \in DOMAIN found : \A k \in DOMAIN log :
               cursor < k /\ k <= found[a] => \E b \in DOMAIN found : found[b] = k
      <4>1. /\ found = FleetEvents(Everything, cursor, StreamLimit) /\ StreamLimit \in Nat
            /\ cursor \in Nat /\ log \in Seq(0..MaxEvents)
        BY PageAssumption
      <4> HIDE DEF found, ShownTypeOK, Resumes, PageHasNoHole, OnScreen
      <4>2. \A a \in DOMAIN found : found[a] > cursor
        BY <3>1, <4>1, StreamReadsOn
      <4>3. ASSUME NEW a \in DOMAIN found, NEW k \in DOMAIN log, cursor < k, k <= found[a]
            PROVE  \E b \in DOMAIN found : found[b] = k
        BY <3>1, <4>1, <4>3, StreamReadsOn, SMTT(30)
      <4>4. QED
        BY <4>2, <4>3
    <3> HIDE DEF found
    <3>3. QED
      BY <3>2
  <2> HIDE DEF found
  <2>4. /\ m \in DOMAIN found /\ DOMAIN found = 1..m /\ m \in Nat
        /\ \A k \in 1..m : found[k] \in DOMAIN log
    BY <2>1, <2>2, RowsAre
  <2>5. /\ Reverse(found) = [k \in 1..m |-> found[(m - k) + 1]]
        /\ Reverse(found) \in Seq(DOMAIN log) /\ Len(Reverse(found)) = m
    BY <2>4 DEF Reverse
  <2>6. /\ list' \in Seq(DOMAIN log) /\ DOMAIN list' = 1..(m + Len(list))
        /\ \A k \in 1..m : list'[k] = found[(m - k) + 1]
        /\ \A k \in DOMAIN list : list'[m + k] = list[k]
        /\ \A k \in DOMAIN list' : k \in 1..m \/ k - m \in DOMAIN list
    BY <2>1, <2>4, <2>5, SMTT(30)
  <2>7. OnScreen' = New \cup OnScreen
    <3>1. ASSUME NEW k \in DOMAIN list' PROVE list'[k] \in New \cup OnScreen
      <4>1. CASE k \in 1..m
        <5>1. (m - k) + 1 \in DOMAIN found /\ list'[k] = found[(m - k) + 1]
          BY <2>4, <2>6, <4>1
        <5>2. QED
          BY <5>1
      <4>2. CASE k - m \in DOMAIN list
        <5>1. m + (k - m) = k
          BY <2>4, <2>6
        <5>2. QED
          BY <2>6, <4>2, <5>1
      <4>3. QED
        BY <2>6, <4>1, <4>2
    <3>2. ASSUME NEW k \in DOMAIN found PROVE found[k] \in OnScreen'
      <4>1. (m - k) + 1 \in 1..m /\ (m - ((m - k) + 1)) + 1 = k
        BY <2>4
      <4>2. list'[(m - k) + 1] = found[k] /\ (m - k) + 1 \in DOMAIN list'
        BY <2>4, <2>6, <4>1
      <4>3. QED
        BY <4>2
    <3>3. ASSUME NEW k \in DOMAIN list PROVE list[k] \in OnScreen'
      <4>1. m + k \in DOMAIN list' /\ list'[m + k] = list[k]
        BY <2>4, <2>6, SMTT(30)
      <4>2. QED
        BY <4>1
    <3>4. QED
      BY <3>1, <3>2, <3>3
  <2>8. ShownTypeOK'
    BY <1>0, <2>1, <2>4, <2>6
  <2>9. cursor' \in New
    BY <2>1, <2>4
  <2>10. Resumes'
    BY <2>1, <2>7, <2>9
  <2>11. PageHasNoHole'
    <3> SUFFICES ASSUME since > 0, NEW i \in New \cup OnScreen, NEW j \in New \cup OnScreen,
                        NEW k \in i..j
                 PROVE  k \in New \cup OnScreen
      BY <2>1, <2>7
    <3> DEFINE Screen == OnScreen
    <3>1. /\ New \subseteq DOMAIN log /\ Screen \subseteq DOMAIN log /\ cursor \in Screen
          /\ \A a, b \in Screen : \A c \in a..b : c \in Screen
      BY <1>0, <2>1, <2>4
    <3> HIDE DEF New, Screen
    <3>2. i \in DOMAIN log /\ j \in DOMAIN log /\ k \in DOMAIN log /\ i <= k /\ k <= j
      BY <1>0, <3>1 DEF Screen
    <3>3. CASE j \in New /\ k > cursor
      BY <1>0, <2>3, <3>2, <3>3
    <3>4. CASE j \in New /\ k <= cursor
      <4>1. i \in Screen
        BY <1>0, <2>3, <3>2, <3>4 DEF Screen
      <4>2. k \in i..cursor
        BY <1>0, <3>2, <3>4
      <4>3. QED
        BY <3>1, <4>1, <4>2 DEF Screen
    <3>5. CASE j \in Screen
      <4>1. i \in Screen \/ i > cursor
        BY <2>3 DEF Screen
      <4>2. k \in i..j /\ (i > cursor => k \in cursor..j)
        BY <1>0, <3>2
      <4>3. QED
        BY <3>1, <3>5, <4>1, <4>2 DEF Screen
    <3>6. QED
      BY <1>0, <3>2, <3>3, <3>4, <3>5 DEF Screen
  <2>12. QED
    BY <2>8, <2>10, <2>11
<1>5. CASE Drop
  BY <1>5 DEF Drop
<1>6. CASE UNCHANGED allVars
  BY <1>6 DEF allVars, pageVars
<1>7. QED
  BY <1>1, <1>2, <1>3, <1>4, <1>5, <1>6 DEF PageNext

\* A page that is not filtered shows an unbroken run of the hub's rows: however
\* many arrive between page and stream or between two ticks, however few a tick
\* reads, and however often the stream breaks (web/timeline.go, handleStream).
THEOREM PageIsUnbroken ==
    ASSUME Filters = {Everything}
    PROVE  PageSpec => []PageHasNoHole
<1>1. PageInit => ShownTypeOK /\ Resumes /\ PageHasNoHole
  <2> SUFFICES ASSUME PageInit PROVE ShownTypeOK /\ Resumes /\ PageHasNoHole
    OBVIOUS
  <2>1. log = [i \in 1..Others |-> Foreign] /\ Foreign \in 0..MaxEvents /\ Others \in Nat
    BY PageAssumption, BoundsAssumption DEF PageInit, Foreign
  <2>2. log \in Seq(0..MaxEvents)
    BY <2>1
  <2>3. list = <<>> /\ since = 0 /\ cursor = 0
    BY DEF PageInit
  <2>4. QED
    BY <2>2, <2>3 DEF ShownTypeOK, Resumes, PageHasNoHole
<1>2. TypeOK /\ TypeOK' /\ ShownTypeOK /\ Resumes /\ PageHasNoHole /\ [PageNext]_allVars
        => ShownTypeOK' /\ Resumes' /\ PageHasNoHole'
  BY PageStands
<1>3. QED
  BY <1>1, <1>2, PageOnlyReads, TypeCorrect, PTL DEF PageSpec

------------------------------------------------------------------------------
\* The hub's tables.

\* What the bounds are good for.
LEMMA Bounds == MaxVersion \in Nat \ {0} /\ MaxFaults \in Nat /\ MaxAdmin \in Nat
BY VersionAssumption, FleetBoundsAssumption

\* What a request in flight is.
InFlight(p) ==
    /\ p.stage = "idle" => p = Idle
    /\ p.stage = "sent" => p.takes = {} /\ p.todo = {}
    /\ p.stage # "idle" => p.read \in 1..version
    /\ p.todo \subseteq p.takes

\* Nothing on the hub is from a machine yet to come.
Past ==
    /\ \A t \in Tables : table[t] <= version
    /\ seen.read <= version
    /\ \A s \in Slots : InFlight(push[s])

\* At the level findings no push has an inventory left to store, unless the
\* page has still to clear it.
NoneUnderWay ==
    level = "findings" /\ ~unsettled =>
        \A s \in Slots : push[s].stage = "storing" /\ "packages" \in push[s].todo => clearing

\* A table has what a push read, or newer, or was cleared.
Backed(t, read) == table[t] >= read \/ (t = "packages" /\ table[t] = 0)

\* While pushes do not overlap, there is one in flight at most, nothing on the
\* hub is newer, and what it has stored stands.
Orderly ==
    ~overlapped =>
        /\ \A s, o \in Slots : push[s] # Idle /\ push[o] # Idle => s = o
        /\ \A s \in Slots : push[s] # Idle =>
              /\ push[s].read >= seen.read
              /\ \A t \in Tables : push[s].read >= table[t]
              /\ \A t \in push[s].takes \ push[s].todo : Backed(t, push[s].read)

\* What the hub holds.
SnapInv ==
    FleetTypeOK /\ Past /\ InventoryAtLevel /\ NoneUnderWay /\ Orderly /\ CheckInIsBacked

\* A page that is open: the inventory it counts as on file is still there, and
\* no table has fallen behind the report the page was opened with.
PageInv ==
    /\ PageTypeOK
    /\ view.since["packages"] # 0 => view.at = "hits"
    /\ view.at = "hits" /\ view.listed /\ ~view.cleared => table["packages"] # 0
    /\ ~overlapped => \A t \in Tables : view.since[t] <= table[t] \/ (t = "packages" /\ view.cleared)

BothInv == SnapInv /\ PageInv

------------------------------------------------------------------------------
LEMMA IdleIsAPush ==
    /\ Idle \in Pushes
    /\ Idle.stage = "idle" /\ Idle.takes = {} /\ Idle.todo = {} /\ InFlight(Idle)
BY Bounds DEF Idle, Pushes, InFlight

\* The invariant holds of an empty hub, and every step of the agent, of the hub
\* and of the pairing page keeps it.
LEMMA SnapInit == FleetInit => SnapInv
<1> SUFFICES ASSUME FleetInit PROVE SnapInv
  OBVIOUS
<1> USE Bounds
<1>1. \A s \in Slots : push[s] = Idle
  BY DEF FleetInit
<1>2. FleetTypeOK
  <2>1. push \in [Slots -> Pushes]
    BY IdleIsAPush DEF FleetInit
  <2>2. version \in 1..MaxVersion /\ faults \in 0..MaxFaults /\ admin \in 0..MaxAdmin
    BY DEF FleetInit
  <2>3. table \in [Tables -> 0..MaxVersion] /\ seen \in [read : 0..MaxVersion, takes : SUBSET Tables]
    BY DEF FleetInit
  <2> QED  BY <2>1, <2>2, <2>3 DEF FleetInit, FleetTypeOK
<1>3. Past
  BY <1>1, IdleIsAPush DEF FleetInit, Past
<1>4. InventoryAtLevel /\ NoneUnderWay /\ Orderly /\ CheckInIsBacked
  BY <1>1, IdleIsAPush DEF FleetInit, InventoryAtLevel, NoneUnderWay, Orderly, CheckInIsBacked, Tables
<1> QED  BY <1>2, <1>3, <1>4 DEF SnapInv

\* A step that does no more than end requests.
LEMMA Ending ==
    ASSUME SnapInv, FleetTypeOK',
           UNCHANGED <<version, level, clearing, table, seen, overlapped, unsettled>>,
           \A s \in Slots : push'[s] = push[s] \/ push'[s] = Idle
    PROVE  SnapInv'
<1>1. Past'
  BY IdleIsAPush DEF SnapInv, Past, InFlight
<1>2. InventoryAtLevel' /\ CheckInIsBacked'
  BY DEF SnapInv, InventoryAtLevel, CheckInIsBacked
<1>3. NoneUnderWay'
  BY IdleIsAPush DEF SnapInv, NoneUnderWay
<1>4. Orderly'
  BY IdleIsAPush DEF SnapInv, Orderly, Backed
<1> QED  BY <1>1, <1>2, <1>3, <1>4 DEF SnapInv

LEMMA EndIsTyped ==
    ASSUME FleetTypeOK, NEW s \in Slots, End(s)
    PROVE  /\ push' \in [Slots -> Pushes] /\ waiting' \in Slots \cup {Nobody}
           /\ \A o \in Slots : push'[o] = push[o] \/ push'[o] = Idle
BY IdleIsAPush DEF FleetTypeOK, End

LEMMA SyncOnceStep == ASSUME SnapInv, NEW s \in Slots, SyncOnce(s) PROVE SnapInv'
<1> USE Bounds
<1>1. PICK omitted \in Unread :
         push' = [push EXCEPT ![s] = [stage |-> "sent", read |-> version, offers |-> Offers \ omitted,
                                      takes |-> {}, todo |-> {}]]
  BY DEF SyncOnce
<1> DEFINE new == [stage |-> "sent", read |-> version, offers |-> Offers \ omitted,
                   takes |-> {}, todo |-> {}]
<1>2. FleetTypeOK
  BY DEF SnapInv
<1>3. version \in 1..MaxVersion /\ faults' \in 0..MaxFaults
  BY <1>2 DEF FleetTypeOK, SyncOnce, Fault
<1>4. Offers \in SUBSET Tables
  BY DEF Offers, AtEitherLevel, AtFull, Tables
<1>5. /\ new.stage = "sent" /\ new.read = version /\ new.takes = {} /\ new.todo = {}
      /\ new \in Pushes
  <2>1. Offers \ omitted \in SUBSET Tables
    BY <1>4
  <2> QED  BY <1>3, <2>1 DEF Pushes
<1>6. \A o \in Slots : push'[o] = IF o = s THEN new ELSE push[o]
  BY <1>1, <1>2 DEF FleetTypeOK
<1> HIDE DEF new
<1>7. UNCHANGED <<version, agentLevel, hub, admin, unsettled>> /\ waiting' = s
  BY DEF SyncOnce
<1>8. overlapped' = (overlapped \/ \E o \in Slots : push[o] # Idle)
  BY DEF SyncOnce
<1>9. FleetTypeOK'
  <2>1. push' \in [Slots -> Pushes]
    BY <1>1, <1>2, <1>5 DEF FleetTypeOK, new
  <2> QED  BY <1>2, <1>3, <1>7, <1>8, <2>1 DEF FleetTypeOK, hub
<1>10. Past'
  <2>1. \A o \in Slots : InFlight(push[o])'
    BY <1>3, <1>5, <1>6, <1>7 DEF SnapInv, Past, InFlight
  <2> QED  BY <1>7, <2>1 DEF SnapInv, Past, hub
<1>11. InventoryAtLevel'
  BY <1>7 DEF SnapInv, InventoryAtLevel, hub
<1>12. NoneUnderWay'
  BY <1>5, <1>6, <1>7 DEF SnapInv, NoneUnderWay, hub
<1>13. Orderly' /\ CheckInIsBacked'
  <2>1. CASE overlapped'
    BY <2>1 DEF Orderly, CheckInIsBacked
  <2>2. CASE ~overlapped'
    <3>1. ~overlapped /\ \A o \in Slots : push[o] = Idle
      BY <1>8, <2>2
    <3>2. \A o \in Slots : push'[o] # Idle => o = s
      BY <1>6, <3>1
    <3>3. version >= seen.read /\ \A t \in Tables : version >= table[t]
      BY <1>2, <1>3 DEF SnapInv, Past, FleetTypeOK
    <3> QED  BY <3>1, <3>2, <3>3, <1>5, <1>6, <1>7 DEF SnapInv, Orderly, CheckInIsBacked, Backed, hub
  <2> QED  BY <2>1, <2>2
<1> QED  BY <1>9, <1>10, <1>11, <1>12, <1>13 DEF SnapInv

LEMMA RequireDeviceStep == ASSUME SnapInv, NEW s \in Slots, RequireDevice(s) PROVE SnapInv'
<1> USE Bounds
<1>1. FleetTypeOK
  BY DEF SnapInv
<1>2. push[s].stage = "sent" /\ UNCHANGED <<version, agentLevel, hub, bounds, history>>
  BY DEF RequireDevice
<1>3. CASE standing # "approved"
  <2>1. End(s)
    BY <1>3 DEF RequireDevice
  <2>2. FleetTypeOK'
    BY <1>1, <1>2, <2>1, EndIsTyped DEF FleetTypeOK, hub, bounds, history
  <2> QED  BY <1>1, <1>2, <2>1, <2>2, EndIsTyped, Ending DEF hub, history
<1>4. CASE standing = "approved"
  <2> DEFINE new == [push[s] EXCEPT !.stage = "storing", !.takes = Takes(push[s]), !.todo = Takes(push[s])]
  <2>1. push' = [push EXCEPT ![s] = new] /\ waiting' = waiting
    BY <1>1, <1>4 DEF RequireDevice, FleetTypeOK
  <2>2. Takes(push[s]) \in SUBSET Tables /\ (level = "findings" => "packages" \notin Takes(push[s]))
    BY <1>1 DEF FleetTypeOK, Takes, Pushes, Private
  <2>3. /\ new.stage = "storing" /\ new.read = push[s].read /\ new.todo = Takes(push[s])
        /\ new.takes = Takes(push[s]) /\ new \in Pushes
    BY <1>1, <2>2 DEF FleetTypeOK, Pushes
  <2> HIDE DEF new
  <2>4. \A o \in Slots : push'[o] = IF o = s THEN new ELSE push[o]
    BY <1>1, <2>1 DEF FleetTypeOK
  <2>5. FleetTypeOK'
    <3>1. push' \in [Slots -> Pushes]
      BY <1>1, <2>1, <2>3 DEF FleetTypeOK
    <3> QED  BY <1>1, <1>2, <2>1, <3>1 DEF FleetTypeOK, hub, bounds, history
  <2>6. Past'
    <3>1. InFlight(new)
      BY <1>2, <2>3 DEF SnapInv, Past, InFlight
    <3> QED  BY <1>2, <2>4, <3>1 DEF SnapInv, Past, InFlight, hub
  <2>7. InventoryAtLevel' /\ CheckInIsBacked'
    BY <1>2 DEF SnapInv, InventoryAtLevel, CheckInIsBacked, hub, history
  <2>8. NoneUnderWay'
    BY <1>2, <2>2, <2>3, <2>4 DEF SnapInv, NoneUnderWay, hub, history
  <2>9. Orderly'
    <3>1. push[s] # Idle
      BY <1>2, IdleIsAPush
    <3>2. SUFFICES ASSUME ~overlapped PROVE Orderly'
      BY <1>2 DEF Orderly, history
    <3>3. \A o \in Slots : push'[o] # Idle => push[o] # Idle /\ push'[o].read = push[o].read
      BY <2>3, <2>4, <3>1
    <3>4. \A o \in Slots : push'[o].takes \ push'[o].todo \subseteq push[o].takes \ push[o].todo
      BY <2>3, <2>4
    <3> QED  BY <3>2, <3>3, <3>4, <1>2 DEF SnapInv, Orderly, Backed, hub, history
  <2> QED  BY <2>5, <2>6, <2>7, <2>8, <2>9 DEF SnapInv
<1> QED  BY <1>3, <1>4

LEMMA StoreStep == ASSUME SnapInv, NEW s \in Slots, NEW t \in Tables, Store(s, t) PROVE SnapInv'
<1> USE Bounds
<1>1. FleetTypeOK
  BY DEF SnapInv
<1>2. /\ push[s].stage = "storing" /\ t \in push[s].todo /\ push[s].todo \subseteq push[s].takes
      /\ push[s].read \in 1..version /\ version \in 1..MaxVersion /\ push[s] # Idle
  BY <1>1, IdleIsAPush DEF SnapInv, Past, InFlight, Store, FleetTypeOK
<1>3. /\ table' = [table EXCEPT ![t] = push[s].read]
      /\ UNCHANGED <<version, agentLevel, waiting, standing, level, clearing, seen, bounds, history>>
  BY DEF Store, Replaced
<1> DEFINE new == [push[s] EXCEPT !.todo = @ \ {t}]
<1>4. push' = [push EXCEPT ![s] = new]
  BY <1>1 DEF Store, FleetTypeOK
<1>5. /\ new.stage = "storing" /\ new.read = push[s].read /\ new.takes = push[s].takes
      /\ new.todo = push[s].todo \ {t} /\ new \in Pushes
  BY <1>1, <1>2 DEF FleetTypeOK, Pushes
<1> HIDE DEF new
<1>6. \A o \in Slots : push'[o] = IF o = s THEN new ELSE push[o]
  BY <1>1, <1>4 DEF FleetTypeOK
<1>7. \A u \in Tables : table'[u] = IF u = t THEN push[s].read ELSE table[u]
  BY <1>1, <1>3 DEF FleetTypeOK
<1>8. FleetTypeOK'
  <2>1. push' \in [Slots -> Pushes] /\ table' \in [Tables -> 0..MaxVersion]
    BY <1>1, <1>2, <1>3, <1>4, <1>5 DEF FleetTypeOK
  <2> QED  BY <1>1, <1>3, <2>1 DEF FleetTypeOK, bounds, history
<1>9. Past'
  <2>1. InFlight(new)
    BY <1>2, <1>5 DEF InFlight
  <2> QED  BY <1>2, <1>3, <1>6, <1>7, <2>1 DEF SnapInv, Past, InFlight
<1>10. InventoryAtLevel' /\ NoneUnderWay'
  <2>1. NoneUnderWay'
    BY <1>2, <1>3, <1>5, <1>6 DEF SnapInv, NoneUnderWay, history
  <2>2. "packages" \in Tables
    BY DEF Tables
  <2> QED  BY <1>2, <1>3, <1>7, <2>1, <2>2 DEF SnapInv, NoneUnderWay, InventoryAtLevel, history
<1>11. Orderly' /\ CheckInIsBacked'
  <2>1. SUFFICES ASSUME ~overlapped PROVE Orderly' /\ CheckInIsBacked'
    BY <1>3 DEF Orderly, CheckInIsBacked, history
  <2>2. /\ \A o \in Slots : push[o] # Idle => o = s
        /\ push[s].read >= seen.read
        /\ \A u \in Tables : push[s].read >= table[u]
        /\ \A u \in push[s].takes \ push[s].todo : Backed(u, push[s].read)
    BY <2>1, <1>2 DEF SnapInv, Orderly
  <2>3. \A u \in Tables : push[s].read >= table'[u]
    BY <1>2, <1>7, <2>2
  <2>4. /\ push[s].takes \subseteq Tables /\ seen.takes \subseteq Tables /\ seen.read \in Int /\ push[s].read \in Int
        /\ \A u \in Tables : table[u] \in Int
    BY <1>1 DEF FleetTypeOK, Pushes
  <2>5. \A u \in push[s].takes \ new.todo : Backed(u, push[s].read)'
    BY <1>3, <1>5, <1>7, <2>2, <2>4, <1>6 DEF Backed
  <2>6. Orderly'
    BY <1>3, <1>5, <1>6, <2>2, <2>3, <2>5 DEF Orderly, Backed
  <2>7. CheckInIsBacked'
    BY <2>1, <1>3, <1>7, <2>2, <2>4 DEF SnapInv, CheckInIsBacked
  <2> QED  BY <2>6, <2>7
<1> QED  BY <1>8, <1>9, <1>10, <1>11 DEF SnapInv

LEMMA TouchDeviceStep == ASSUME SnapInv, NEW s \in Slots, TouchDevice(s) PROVE SnapInv'
<1> USE Bounds
<1>1. FleetTypeOK
  BY DEF SnapInv
<1>2. /\ push[s].stage = "storing" /\ push[s].todo = {} /\ push[s] # Idle
      /\ push[s] \in Pushes /\ push[s].read \in 1..version
      /\ seen' = [read |-> push[s].read, takes |-> push[s].takes] /\ End(s)
      /\ UNCHANGED <<version, agentLevel, standing, level, clearing, table, bounds, history>>
  BY <1>1, IdleIsAPush DEF TouchDevice, Ready, FleetTypeOK, SnapInv, Past, InFlight
<1>3. seen'.read = push[s].read /\ seen'.takes = push[s].takes
      /\ seen' \in [read : 0..MaxVersion, takes : SUBSET Tables]
  BY <1>2 DEF Pushes
<1>4. /\ push' \in [Slots -> Pushes] /\ waiting' \in Slots \cup {Nobody}
      /\ \A o \in Slots : push'[o] = IF o = s THEN Idle ELSE push[o]
  BY <1>1, <1>2, EndIsTyped DEF End, FleetTypeOK
<1>5. FleetTypeOK'
  BY <1>1, <1>2, <1>3, <1>4 DEF FleetTypeOK, bounds, history
<1>6. Past'
  <2>1. seen'.read <= version'
    BY <1>1, <1>2, <1>3 DEF FleetTypeOK
  <2> QED  BY <1>2, <1>4, <2>1, IdleIsAPush DEF SnapInv, Past, InFlight
<1>7. InventoryAtLevel' /\ NoneUnderWay'
  BY <1>2, <1>4, IdleIsAPush DEF SnapInv, InventoryAtLevel, NoneUnderWay, history
<1>8. Orderly' /\ CheckInIsBacked'
  <2>1. SUFFICES ASSUME ~overlapped PROVE Orderly' /\ CheckInIsBacked'
    BY <1>2 DEF Orderly, CheckInIsBacked, history
  <2>2. /\ \A o \in Slots : push[o] # Idle => o = s
        /\ \A u \in push[s].takes : Backed(u, push[s].read)
    BY <2>1, <1>2 DEF SnapInv, Orderly
  <2>3. \A o \in Slots : push'[o] = Idle
    BY <1>4, <2>2
  <2>4. Orderly'
    BY <2>3, <1>4 DEF Orderly
  <2>5. CheckInIsBacked'
    BY <1>2, <1>3, <2>2 DEF CheckInIsBacked, Backed
  <2> QED  BY <2>4, <2>5
<1> QED  BY <1>5, <1>6, <1>7, <1>8 DEF SnapInv

LEMMA ClearStep == ASSUME SnapInv, ClearInventory PROVE SnapInv'
<1> USE Bounds
<1>1. FleetTypeOK /\ "packages" \in Tables /\ "packages" \in Private
  BY DEF SnapInv, Tables, Private
<1>2. /\ table' = [table EXCEPT !["packages"] = 0] /\ clearing' = FALSE
      /\ unsettled' = (\E t \in Private : Admitted(t))
      /\ UNCHANGED <<version, agentLevel, waiting, push, standing, level, seen, bounds, overlapped>>
  BY DEF ClearInventory, Cleared
<1>3. \A u \in Tables : table'[u] = IF u = "packages" THEN 0 ELSE table[u]
  BY <1>1, <1>2 DEF FleetTypeOK
<1>4. FleetTypeOK'
  <2>1. table' \in [Tables -> 0..MaxVersion]
    BY <1>1, <1>2 DEF FleetTypeOK
  <2> QED  BY <1>1, <1>2, <2>1 DEF FleetTypeOK, bounds
<1>5. Past'
  BY <1>1, <1>2, <1>3 DEF SnapInv, Past, InFlight, FleetTypeOK
<1>6. InventoryAtLevel'
  BY <1>1, <1>3 DEF InventoryAtLevel
<1>7. NoneUnderWay'
  BY <1>1, <1>2 DEF NoneUnderWay, Admitted
<1>8. Orderly' /\ CheckInIsBacked'
  <2>1. SUFFICES ASSUME ~overlapped PROVE Orderly' /\ CheckInIsBacked'
    BY <1>2 DEF Orderly, CheckInIsBacked
  <2>2. /\ seen.takes \subseteq Tables /\ \A o \in Slots : push[o].takes \subseteq Tables /\ push[o].read \in Nat
        /\ \A u \in Tables : table[u] \in Nat
    BY <1>1 DEF FleetTypeOK, Pushes
  <2>3. Orderly'
    BY <2>1, <2>2, <1>2, <1>3 DEF SnapInv, Orderly, Backed
  <2>4. CheckInIsBacked'
    BY <2>1, <2>2, <1>2, <1>3 DEF SnapInv, CheckInIsBacked
  <2> QED  BY <2>3, <2>4
<1> QED  BY <1>4, <1>5, <1>6, <1>7, <1>8 DEF SnapInv

LEMMA ClearFailsStep == ASSUME SnapInv, ClearingFails PROVE SnapInv'
<1> USE Bounds
<1>1. /\ clearing' = FALSE /\ unsettled' = TRUE /\ Fault
      /\ UNCHANGED <<version, agentLevel, waiting, push, standing, level, table, seen, admin, overlapped>>
  BY DEF ClearingFails
<1>2. FleetTypeOK'
  <2>1. faults' \in 0..MaxFaults
    BY <1>1 DEF SnapInv, FleetTypeOK, Fault
  <2> QED  BY <1>1, <2>1 DEF SnapInv, FleetTypeOK
<1>3. Past' /\ InventoryAtLevel' /\ NoneUnderWay'
  BY <1>1 DEF SnapInv, Past, InFlight, InventoryAtLevel, NoneUnderWay
<1>4. Orderly' /\ CheckInIsBacked'
  BY <1>1 DEF SnapInv, Orderly, Backed, CheckInIsBacked
<1> QED  BY <1>2, <1>3, <1>4 DEF SnapInv

LEMMA LevelStep == ASSUME SnapInv, NEW new \in Levels, SetDeviceSyncLevel(new) PROVE SnapInv'
<1> USE Bounds
<1>1. /\ ~clearing /\ level' = new /\ clearing' = (new = "findings") /\ Administer
      /\ UNCHANGED <<version, agentLevel, waiting, push, standing, table, seen, faults, history>>
  BY DEF SetDeviceSyncLevel
<1>2. FleetTypeOK'
  BY <1>1 DEF SnapInv, FleetTypeOK, Administer, history
<1>3. Past' /\ InventoryAtLevel' /\ NoneUnderWay'
  BY <1>1 DEF SnapInv, Past, InFlight, InventoryAtLevel, NoneUnderWay, history
<1>4. Orderly' /\ CheckInIsBacked'
  BY <1>1 DEF SnapInv, Orderly, Backed, CheckInIsBacked, history
<1> QED  BY <1>2, <1>3, <1>4 DEF SnapInv

LEMMA SnapStep == SnapInv /\ [FleetNext]_fleetVars => SnapInv'
<1> SUFFICES ASSUME SnapInv, [FleetNext]_fleetVars PROVE SnapInv'
  OBVIOUS
<1> USE Bounds
<1>0. FleetTypeOK
  BY DEF SnapInv
<1>1. CASE MachineChanges
  <2>1. /\ version \in 1..MaxVersion /\ version' = version + 1 /\ version' \in 1..MaxVersion
        /\ UNCHANGED <<agentLevel, waiting, push, hub, bounds, history>>
    BY <1>0, <1>1 DEF MachineChanges, FleetTypeOK
  <2>2. FleetTypeOK'
    BY <1>0, <2>1 DEF FleetTypeOK, hub, bounds, history
  <2>3. Past'
    <3>1. /\ \A t \in Tables : table[t] \in Nat
          /\ seen.read \in Nat
      BY <1>0 DEF FleetTypeOK
    <3>2. \A s \in Slots : InFlight(push[s])'
      BY <2>1 DEF SnapInv, Past, InFlight
    <3> QED  BY <2>1, <3>1, <3>2 DEF SnapInv, Past, hub
  <2>4. InventoryAtLevel' /\ NoneUnderWay' /\ Orderly' /\ CheckInIsBacked'
    BY <2>1 DEF SnapInv, InventoryAtLevel, NoneUnderWay, Orderly, Backed, CheckInIsBacked, hub, history
  <2> QED  BY <2>2, <2>3, <2>4 DEF SnapInv
<1>2. CASE AgentGivesUp
  <2>1. FleetTypeOK'
    BY <1>0, <1>2 DEF AgentGivesUp, Fault, FleetTypeOK, hub, history
  <2> QED  BY <1>2, <2>1, Ending DEF AgentGivesUp, hub, history
<1>3. CASE \E new \in {"approved", "revoked"} : ChangeStatus(new)
  <2>1. FleetTypeOK'
    BY <1>0, <1>3 DEF ChangeStatus, Administer, FleetTypeOK, history
  <2> QED  BY <1>3, <2>1, Ending DEF ChangeStatus, history
<1>4. ASSUME NEW s \in Slots, PushFails(s) PROVE SnapInv'
  <2>1. FleetTypeOK'
    BY <1>0, <1>4, EndIsTyped DEF PushFails, Fault, FleetTypeOK, hub, history
  <2> QED  BY <1>0, <1>4, <2>1, EndIsTyped, Ending DEF PushFails, hub, history
<1>5. ASSUME NEW s \in Slots, StoreNext(s) PROVE SnapInv'
  BY <1>5, StoreStep DEF StoreNext, ReplaceFindings, ReplacePackages, ReplaceRotation, ReplaceQuarantine,
                         ReplaceCredentials, Tables
<1>6. CASE UNCHANGED fleetVars
  <2>1. FleetTypeOK'
    BY <1>0, <1>6 DEF fleetVars, FleetTypeOK, hub, bounds, history
  <2> QED  BY <1>6, <2>1, Ending DEF fleetVars, hub, history
<1> QED
  BY <1>1, <1>2, <1>3, <1>4, <1>5, <1>6, ClearStep, ClearFailsStep, LevelStep, SyncOnceStep, RequireDeviceStep, TouchDeviceStep
  DEF FleetNext, ServePush

LEMMA FairSnap == FleetSpec => []SnapInv
<1>1. FleetSpec => FleetInit /\ [][FleetNext]_fleetVars
  BY PTL DEF FleetSpec
<1> QED  BY <1>1, SnapInit, SnapStep, PTL

------------------------------------------------------------------------------
\* The pages.

LEMMA ClosedIsAPage == SnapInv /\ view = Closed => PageInv
<1> SUFFICES ASSUME SnapInv, view = Closed PROVE PageInv
  OBVIOUS
<1> USE Bounds
<1>1. Unseen \in [Tables -> 0..MaxVersion] /\ \A t \in Tables : Unseen[t] = 0
  BY DEF Unseen
<1>2. view.since = Unseen /\ view.at = "closed" /\ view.listed = FALSE /\ view.cleared = FALSE
  BY DEF Closed
<1>3. PageTypeOK
  BY <1>1 DEF Closed, PageTypeOK, SnapInv
<1>4. "packages" \in Tables /\ \A t \in Tables : table[t] \in Nat
  BY DEF SnapInv, FleetTypeOK, Tables
<1> QED  BY <1>1, <1>2, <1>3, <1>4 DEF PageInv

LEMMA PagesStart == PagesInit => BothInv
<1> SUFFICES ASSUME PagesInit PROVE BothInv
  OBVIOUS
<1>1. SnapInv /\ view = Closed
  BY SnapInit DEF PagesInit
<1> QED  BY <1>1, ClosedIsAPage DEF BothInv

\* No step of the hub takes anything from a table, but for the clearing; nor
\* does a table that is not empty become so.
TablesGrow ==
    \A t \in Tables :
        \/ table'[t] = table[t]
        \/ table'[t] >= 1 /\ (~overlapped => table'[t] >= table[t])
        \/ t = "packages" /\ table'[t] = 0

LEMMA OnlyNewer == ASSUME SnapInv, [FleetNext]_fleetVars PROVE TablesGrow /\ (overlapped => overlapped')
<1> USE Bounds
<1>0. FleetTypeOK
  BY DEF SnapInv
<1>1. ASSUME NEW s \in Slots, NEW t \in Tables, Store(s, t) PROVE TablesGrow /\ (overlapped => overlapped')
  <2>1. /\ push[s].stage = "storing" /\ push[s].read \in 1..version /\ version \in 1..MaxVersion /\ push[s] # Idle
        /\ table' = [table EXCEPT ![t] = push[s].read] /\ overlapped' = overlapped
    BY <1>0, <1>1, IdleIsAPush DEF SnapInv, Past, InFlight, Store, FleetTypeOK, Replaced, history
  <2>2. ~overlapped => push[s].read >= table[t]
    BY <2>1 DEF SnapInv, Orderly
  <2>3. \A u \in Tables : table'[u] = IF u = t THEN push[s].read ELSE table[u]
    BY <1>0, <2>1 DEF FleetTypeOK
  <2> QED  BY <2>1, <2>2, <2>3 DEF TablesGrow
<1>2. ASSUME NEW s \in Slots, StoreNext(s) PROVE TablesGrow /\ (overlapped => overlapped')
  BY <1>1, <1>2 DEF StoreNext, ReplaceFindings, ReplacePackages, ReplaceRotation, ReplaceQuarantine,
                    ReplaceCredentials, Tables
<1>3. CASE ClearInventory
  <2>1. \A u \in Tables : table'[u] = IF u = "packages" THEN 0 ELSE table[u]
    BY <1>0, <1>3 DEF ClearInventory, Cleared, FleetTypeOK
  <2> QED  BY <2>1, <1>3 DEF ClearInventory, TablesGrow
<1>4. CASE UNCHANGED table /\ (overlapped => overlapped')
  BY <1>4 DEF TablesGrow
<1>5. ASSUME NEW s \in Slots, SyncOnce(s) \/ RequireDevice(s) \/ TouchDevice(s) \/ PushFails(s)
      PROVE  UNCHANGED table /\ (overlapped => overlapped')
  <2>1. CASE SyncOnce(s)
    BY <2>1 DEF SyncOnce, hub
  <2>2. CASE RequireDevice(s)
    BY <2>2 DEF RequireDevice, hub, history
  <2>3. CASE TouchDevice(s)
    BY <2>3 DEF TouchDevice, history
  <2>4. CASE PushFails(s)
    BY <2>4 DEF PushFails, hub, history
  <2> QED  BY <1>5, <2>1, <2>2, <2>3, <2>4
<1>6. ASSUME MachineChanges \/ AgentGivesUp \/ ClearingFails \/ UNCHANGED fleetVars
      PROVE  UNCHANGED table /\ (overlapped => overlapped')
  BY <1>6 DEF MachineChanges, AgentGivesUp, ClearingFails, fleetVars, hub, history
<1>7. ASSUME NEW new, ChangeStatus(new) \/ SetDeviceSyncLevel(new)
      PROVE UNCHANGED table /\ (overlapped => overlapped')
  BY <1>7 DEF ChangeStatus, SetDeviceSyncLevel, history
<1> QED  BY <1>2, <1>3, <1>4, <1>5, <1>6, <1>7 DEF FleetNext, ServePush

LEMMA PagesStep == BothInv /\ [PagesNext]_<<fleetVars, view>> => BothInv'
<1> SUFFICES ASSUME BothInv, [PagesNext]_<<fleetVars, view>> PROVE BothInv'
  OBVIOUS
<1> USE Bounds
<1>0. SnapInv /\ PageInv /\ FleetTypeOK /\ PageTypeOK
  BY DEF BothInv, SnapInv, PageInv
<1>1. CASE Meanwhile
  <2>1. SnapInv' /\ TablesGrow /\ (overlapped => overlapped') /\ FleetTypeOK'
    BY <1>0, <1>1, SnapStep, OnlyNewer DEF Meanwhile, SnapInv
  <2>2. \/ view' = [view EXCEPT !.cleared = TRUE] /\ view.at = "hits" /\ OnFile /\ ~OnFile'
        \/ view' = view /\ ~(view.at = "hits" /\ OnFile /\ ~OnFile')
    BY <1>1 DEF Meanwhile
  <2>3. /\ view'.at = view.at /\ view'.listed = view.listed /\ view'.since = view.since
        /\ view.cleared => view'.cleared
        /\ view'.cleared \in BOOLEAN
        /\ view.at = "hits" /\ table["packages"] # 0 /\ table'["packages"] = 0 => view'.cleared
    BY <1>0, <2>2 DEF PageTypeOK, OnFile
  <2>4. PageTypeOK'
    BY <1>0, <2>1, <2>2 DEF PageTypeOK, SnapInv
  <2>5. /\ view.since["packages"] # 0 => view.at = "hits"
        /\ \A t \in Tables : table[t] \in Nat /\ table'[t] \in Nat /\ view.since[t] \in Nat
        /\ "packages" \in Tables
    BY <1>0, <2>1 DEF PageInv, PageTypeOK, FleetTypeOK, Tables
  <2>6. view'.at = "hits" /\ view'.listed /\ ~view'.cleared => table'["packages"] # 0
    BY <1>0, <2>1, <2>3, <2>5 DEF PageInv, TablesGrow
  <2>7. ~overlapped' => \A t \in Tables : view'.since[t] <= table'[t] \/ (t = "packages" /\ view'.cleared)
    BY <1>0, <2>1, <2>3, <2>5 DEF PageInv, TablesGrow
  <2> QED  BY <2>1, <2>3, <2>4, <2>5, <2>6, <2>7 DEF BothInv, PageInv
<1>2. ASSUME UNCHANGED fleetVars, view' = Closed PROVE BothInv'
  <2>1. SnapInv'
    BY <1>0, <1>2, SnapStep
  <2>2. (SnapInv /\ view = Closed => PageInv)'
    BY ClosedIsAPage, PTL
  <2>3. (view = Closed)'
    BY <1>2 DEF Closed, Unseen
  <2> QED  BY <2>1, <2>2, <2>3 DEF BothInv
<1>3. ASSUME UNCHANGED fleetVars, NEW at \in {"counts", "hits", "ticks"}, NEW asked \in SUBSET Tables,
             NEW listed \in BOOLEAN, Open(at, asked, listed),
             "packages" \in asked => at = "hits" /\ OnFile,
             at = "hits" => listed = OnFile
      PROVE  BothInv'
  <2>1. SnapInv' /\ table' = table /\ overlapped' = overlapped
    BY <1>0, <1>3, SnapStep DEF fleetVars, hub, history
  <2> DEFINE opened == [t \in Tables |-> IF t \in asked \cap seen.takes THEN seen.read ELSE 0]
  <2>2. view'.since = opened /\ view'.at = at /\ view'.listed = listed /\ view'.cleared = FALSE
    BY <1>3 DEF Open
  <2>3. opened \in [Tables -> 0..MaxVersion]
    BY <1>0 DEF FleetTypeOK
  <2>4. \A t \in Tables : opened[t] = IF t \in asked \cap seen.takes THEN seen.read ELSE 0
    OBVIOUS
  <2> HIDE DEF opened
  <2>5. "packages" \in Tables /\ \A t \in Tables : table[t] \in Nat
    BY <1>0 DEF Tables, FleetTypeOK
  <2>6. ~overlapped => \A t \in Tables : opened[t] <= table[t]
    BY <1>0, <1>3, <2>4, <2>5 DEF SnapInv, CheckInIsBacked, OnFile
  <2>7. PageTypeOK'
    <3>1. view' = [at |-> at, listed |-> listed, cleared |-> FALSE, since |-> opened]
      BY <1>3 DEF Open, opened
    <3> QED  BY <1>3, <2>1, <2>3, <3>1 DEF SnapInv, PageTypeOK
  <2>8. view'.since["packages"] # 0 => view'.at = "hits"
    BY <1>3, <2>2, <2>4, <2>5
  <2>9. view'.at = "hits" /\ view'.listed => table'["packages"] # 0
    BY <1>3, <2>1, <2>2 DEF OnFile
  <2> QED  BY <2>1, <2>2, <2>6, <2>7, <2>8, <2>9 DEF BothInv, PageInv
<1>4. CASE Ask
  <2>1. UNCHANGED fleetVars
    BY <1>4 DEF Ask
  <2>2. CASE HandleFleet
    BY <1>3, <2>1, <2>2 DEF HandleFleet, Tables
  <2>3. CASE InventoryCoverage
    BY <1>3, <2>1, <2>3 DEF InventoryCoverage, OnFile, Tables
  <2>4. CASE FleetMalwareFindings
    <3>1. CASE table["findings"] \in Exposed
      <4>1. Open("ticks", {"rotation", "credentials"}, TRUE)
        BY <2>4, <3>1 DEF FleetMalwareFindings, Open
      <4> QED  BY <1>3, <2>1, <4>1 DEF Tables
    <3>2. CASE table["findings"] \notin Exposed
      <4>1. (table["findings"] \in Exposed) = FALSE
        BY <3>2
      <4>2. Open("ticks", {"rotation", "credentials"}, FALSE)
        BY <2>4, <4>1, Zenon DEF FleetMalwareFindings
      <4> QED  BY <1>3, <2>1, <4>2 DEF Tables
    <3> QED  BY <3>1, <3>2
  <2>5. CASE FleetRotation
    <3>1. SnapInv' /\ table' = table /\ overlapped' = overlapped
      BY <1>0, <2>1, SnapStep DEF fleetVars, hub, history
    <3>2. view'.at = "credentials" /\ view'.listed = view.listed /\ view'.since = view.since /\ view'.cleared = view.cleared
      BY <1>0, <2>5 DEF FleetRotation, PageTypeOK
    <3>3. view.since["packages"] = 0
      BY <1>0, <2>5 DEF FleetRotation, PageInv
    <3>4. PageTypeOK'
      BY <1>0, <2>5, <3>1 DEF FleetRotation, PageTypeOK, SnapInv
    <3> QED  BY <1>0, <3>1, <3>2, <3>3, <3>4 DEF BothInv, PageInv
  <2>6. CASE FleetFindingCounts \/ SearchPackages \/ FleetCredentials
    BY <1>2, <2>1, <2>6 DEF FleetFindingCounts, SearchPackages, FleetCredentials
  <2> QED  BY <1>4, <2>2, <2>3, <2>4, <2>5, <2>6 DEF Ask
<1>5. CASE UNCHANGED <<fleetVars, view>>
  <2>1. SnapInv' /\ table' = table /\ overlapped' = overlapped
    BY <1>0, <1>5, SnapStep DEF fleetVars, hub, history
  <2> QED  BY <1>0, <1>5, <2>1 DEF BothInv, SnapInv, PageInv, PageTypeOK
<1> QED  BY <1>1, <1>4, <1>5 DEF PagesNext

LEMMA PagesKeep == PagesSpec => []BothInv
<1>1. PagesSpec => PagesInit /\ [][PagesNext]_<<fleetVars, view>>
  BY PTL DEF PagesSpec
<1> QED  BY <1>1, PagesStart, PagesStep, PTL

\* Whoever looks at the dashboard, and whenever, the hub behaves as it does
\* without (web/fleet.go, web/rotate.go: every page only reads), fairness
\* included: what holds of FleetSnapshot holds while pages are built.
THEOREM LookingChangesNothing == PagesSpec => FleetSpec
<1>1. PagesInit => FleetInit
  BY DEF PagesInit
<1>2. [PagesNext]_<<fleetVars, view>> => [FleetNext]_fleetVars
  BY DEF PagesNext, Meanwhile, Ask
<1> QED  BY <1>1, <1>2, PTL DEF PagesSpec, FleetSpec

\* The types of the hub's rows and of the page under construction.
THEOREM FleetTypeCorrect == PagesSpec => []PageTypeOK
<1>1. BothInv => PageTypeOK
  BY DEF BothInv, PageInv
<1> QED  BY PagesKeep, <1>1, PTL

\* When the last change to findings ran both its statements, the hub has no
\* inventory of the device and takes none, whatever was in flight and whatever
\* earlier changes that failed half way had left (repo/devices.go,
\* SetDeviceSyncLevel), but for a push admitted at full that was being stored
\* at that moment.
THEOREM InventoryIsWithdrawn == FleetSpec => []InventoryAtLevel
<1>1. SnapInv => InventoryAtLevel
  BY DEF SnapInv
<1> QED  BY FairSnap, <1>1, PTL

\* last_seen_at never runs ahead of the tables (hub/sync.go, handleSync touches
\* the device last): pushes that fail half way leave it where it was.
THEOREM CheckInsAreBacked == FleetSpec => []CheckInIsBacked
<1>1. SnapInv => CheckInIsBacked
  BY DEF SnapInv
<1> QED  BY FairSnap, <1>1, PTL

\* The same for a page that asks statement by statement while pushes are stored
\* (web/fleet.go, web/rotate.go).
THEOREM PagesAreBacked == PagesSpec => PageIsBacked
<1> DEFINE A == view.at # "closed" /\ view'.at # view.at /\ ~overlapped
                => LET t == Reads[view.at] IN table[t] >= view.since[t] \/ view.cleared
<1>1. BothInv => A
  <2> SUFFICES ASSUME BothInv, view.at # "closed", ~overlapped
               PROVE  LET t == Reads[view.at] IN table[t] >= view.since[t] \/ view.cleared
    OBVIOUS
  <2> DEFINE t == Reads[view.at]
  <2>1. PageTypeOK /\ FleetTypeOK
    BY DEF BothInv, PageInv, SnapInv
  <2>2. t \in Tables
    BY <2>1 DEF PageTypeOK, Reads, Tables
  <2>3. table[t] \in Int /\ view.since[t] \in Int
    BY <2>1, <2>2 DEF PageTypeOK, FleetTypeOK
  <2>4. view.since[t] <= table[t] \/ view.cleared
    BY <2>2 DEF BothInv, PageInv
  <2> QED  BY <2>3, <2>4
<1> QED  BY PagesKeep, <1>1, PTL DEF PageIsBacked, PagesSpec

\* A search page that names a machine as searched and shows no hit did look
\* (repo/fleet.go, InventoryCoverage and SearchPackages), with any number of
\* pushes in flight.
THEOREM NowhereWasLookedFor == PagesSpec => NowhereMeansLooked
<1> DEFINE A == view.at = "hits" /\ view'.at = "closed" /\ view.listed /\ ~Found /\ ~view.cleared
                => table["packages"] \in (1..MaxVersion) \ Exposed
<1>1. BothInv => A
  <2> SUFFICES ASSUME BothInv, view.at = "hits", view.listed, ~Found, ~view.cleared
               PROVE  table["packages"] \in (1..MaxVersion) \ Exposed
    OBVIOUS
  <2>1. table["packages"] \in 0..MaxVersion /\ table["packages"] # 0
    BY DEF BothInv, SnapInv, PageInv, FleetTypeOK, Tables
  <2> QED  BY <2>1 DEF Found
<1> QED  BY PagesKeep, <1>1, PTL DEF NowhereMeansLooked, PagesSpec

=============================================================================
