----------------------------- MODULE GateProofs -----------------------------
(***************************************************************************)
(* Theorems about the gate's rules and about an install that goes through  *)
(* it, for every set of versions, every block tier, every set of           *)
(* advisories and every number of failing lookups; and about the script    *)
(* guard npm runs under (ScriptGuard), for every number of packages,       *)
(* projects and terminals.                                                 *)
(***************************************************************************)
EXTENDS InstallSession, ScriptGuard, WellFoundedInduction, FiniteSetTheorems, TLAPS

\* The order of Beats as a number: malware above every score (40 at most).
Rank(a) == IF a.malware THEN 41 + Score(a) ELSE Score(a)

LEMMA RankBounds == \A a \in Advisory : Rank(a) \in 0..81
  BY DEF Advisory, Rank, Score

LEMMA BeatsIsRank == \A a, b \in Advisory : Beats(a, b) <=> Rank(a) > Rank(b)
  BY DEF Advisory, Rank, Score, Beats

\* There is always a worst advisory, one that no other beats: the CHOOSE of
\* Worst is never without a candidate.
THEOREM WorstExists ==
    ASSUME NEW A \in SUBSET Advisory, A # {}
    PROVE  Worst(A) \in A /\ \A b \in A : ~Beats(b, Worst(A))
<1> DEFINE T == {81 - Rank(a) : a \in A}
<1>1. T \subseteq Nat /\ T # {}
  BY RankBounds
<1> DEFINE R == {p \in Nat \X Nat : p[1] < p[2]}
<1>2. IsWellFoundedOn(R, Nat)
  BY NatLessThanWellFounded, Zenon DEF OpToRel
<1>3. \E m \in T : \A n \in T : ~(<<n, m>> \in R)
  <2> HIDE DEF T, R
  <2> QED  BY <1>1, <1>2, WFMin, Zenon
<1>4. PICK m \in T : \A n \in T : ~(n < m)
  BY <1>1, <1>3
<1>5. PICK a \in A : m = 81 - Rank(a)
  BY <1>4
<1>6. \A b \in A : ~Beats(b, a)
  <2> TAKE b \in A
  <2>1. 81 - Rank(b) \in T
    OBVIOUS
  <2>2. ~(81 - Rank(b) < 81 - Rank(a))
    BY <2>1, <1>4, <1>5
  <2>3. Rank(a) \in Int /\ Rank(b) \in Int
    BY RankBounds
  <2> QED  BY <2>2, <2>3, BeatsIsRank
<1> QED  BY <1>5, <1>6 DEF Worst

\* A version that some advisory blocks is refused, whatever else is known of
\* it: the advisory a verdict is about cannot be a milder one.
THEOREM KnownBadIsRefused ==
    ASSUME NEW A \in SUBSET Advisory, NEW v \in Versions, NEW tooNew \in BOOLEAN,
           NEW bad \in A, v \in bad.hits, Blocks(bad)
    PROVE  Judge(v, A, tooNew).blocked
<1> DEFINE hits == {a \in A : v \in a.hits}
           w == Worst(hits)
<1>1. bad \in hits /\ hits \in SUBSET Advisory
  OBVIOUS
<1>2. w \in hits /\ ~Beats(bad, w)
  <2> HIDE DEF hits
  <2> QED  BY <1>1, WorstExists
<1>3. Blocks(w)
  <2>1. w \in Advisory /\ bad \in Advisory
    BY <1>1, <1>2
  <2> HIDE DEF w, hits
  <2>2. CASE w.malware
    BY <2>2 DEF Blocks
  <2>3. CASE ~w.malware
    <3>1. ~bad.malware
      BY <1>2, <2>1, <2>3 DEF Beats
    <3>2. bad.cvss <= w.cvss
      BY <1>2, <2>1, <2>3, <3>1 DEF Beats, Score, Advisory
    <3>3. Tier(bad) <= Tier(w)
      BY <2>1, <2>3, <3>1, <3>2 DEF Tier, Advisory
    <3>4. Tier(bad) \in Int /\ Tier(w) \in Int /\ BlockTier \in Int
      BY TierAssumption DEF Tier
    <3> QED  BY <2>3, <3>1, <3>3, <3>4 DEF Blocks
  <2> QED  BY <2>2, <2>3
<1>4. Judge(v, A, tooNew) = [blocked |-> Blocks(w), why |-> Reason(w)]
  BY <1>1 DEF Judge
<1> QED  BY <1>3, <1>4

------------------------------------------------------------------------------
\* The buffer: applyBuffer's comment, "A buffer must never be the reason
\* there is nothing left".

\* What the buffer adds to the refusals is too new and was not refused.
LEMMA BufferOnlyHoldsTheNew ==
    ASSUME NEW S, NEW judged \in [S -> Verdict], NEW v \in S
    PROVE  IF judged[v].blocked THEN v \notin Offered(ApplyBuffer(judged))
           ELSE v \notin Offered(ApplyBuffer(judged))
                   => judged[v].why = "cooldown" /\ Fallback(judged)
  BY DEF ApplyBuffer, Offered, Verdict

\* A listing of which something would be offered without the buffer is not
\* empty with it, and what the buffer held back has an alternative that
\* nothing is held against.
THEOREM BufferLeavesSomething ==
    ASSUME NEW S, NEW judged \in [S -> Verdict], Offered(judged) # {}
    PROVE  /\ Offered(ApplyBuffer(judged)) # {}
           /\ Offered(ApplyBuffer(judged)) # Offered(judged)
                => \E w \in Offered(ApplyBuffer(judged)) : judged[w].why # "cooldown"
<1>1. CASE Fallback(judged)
  <2>1. PICK w \in S : ~judged[w].blocked /\ judged[w].why # "cooldown"
    BY <1>1 DEF Fallback
  <2>2. w \in Offered(ApplyBuffer(judged))
    BY <2>1 DEF Offered, ApplyBuffer
  <2> QED  BY <2>1, <2>2
<1>2. CASE ~Fallback(judged)
  <2>1. Offered(ApplyBuffer(judged)) = Offered(judged)
    BY <1>2 DEF Offered, ApplyBuffer
  <2> QED  BY <2>1
<1> QED  BY <1>1, <1>2
------------------------------------------------------------------------------
\* An install.

\* The version JudgeListed takes next, the least not judged yet, is one.
LEMMA NextIsAVersion ==
    ASSUME NEW S \in SUBSET Versions, S # {}
    PROVE  (CHOOSE v \in S : \A w \in S : v <= w) \in S
<1> DEFINE R == {p \in Nat \X Nat : p[1] < p[2]}
<1>1. S \subseteq Nat
  BY VersionsAssumption
<1>2. IsWellFoundedOn(R, Nat)
  BY NatLessThanWellFounded, Zenon DEF OpToRel
<1>3. \E m \in S : \A n \in S : ~(<<n, m>> \in R)
  <2> HIDE DEF R
  <2> QED  BY <1>1, <1>2, WFMin, Zenon
<1>4. PICK m \in S : \A n \in S : ~(n < m)
  BY <1>1, <1>3
<1>5. \A n \in S : m <= n
  BY <1>1, <1>4
<1> QED  BY <1>5

LEMMA JudgeIsAVerdict ==
    \A v, tooNew : \A A \in SUBSET Advisory : Judge(v, A, tooNew) \in Verdict
<1> TAKE v, tooNew
<1> TAKE A \in SUBSET Advisory
<1> DEFINE hits == {a \in A : v \in a.hits}
<1>1. CASE hits = {}
  BY <1>1 DEF Judge, Verdict, Reasons, Cooldown, Clean
<1>2. CASE hits # {}
  <2>1. Worst(hits) \in Advisory
    <3>1. hits \in SUBSET Advisory
      OBVIOUS
    <3> HIDE DEF hits
    <3> QED  BY <1>2, <3>1, WorstExists
  <2>2. Blocks(Worst(hits)) \in BOOLEAN /\ Reason(Worst(hits)) \in Reasons
    BY <2>1 DEF Blocks, Reason, Reasons, Advisory
  <2> HIDE DEF hits
  <2>3. [blocked |-> Blocks(Worst(hits)), why |-> Reason(Worst(hits))] \in Verdict
    BY <2>2 DEF Verdict
  <2> USE DEF hits
  <2> QED  BY <1>2, <2>3 DEF Judge
<1> QED  BY <1>1, <1>2

LEMMA DecideGivesVerdicts ==
    ASSUME TypeOK
    PROVE  \A v, tooNew : Decide(v, tooNew) \subseteq Verdict
<1>1. \A v, tooNew : Judge(v, bundle, tooNew) \in Verdict
  BY JudgeIsAVerdict, AdvisoriesAssumption DEF TypeOK
<1>2. Override \in Verdict /\ Degraded \in Verdict
  BY DEF Override, Degraded, Verdict, Reasons
<1> QED  BY <1>1, <1>2 DEF Decide

LEMMA TwoRuns == 1 \in Runs /\ 2 \in Runs
  BY DEF Runs

LEMMA NothingJudged == DOMAIN <<>> = {}
  OBVIOUS

\* One download moves on, the others stay where they are.
LEMMA OneMoves ==
    ASSUME TypeOK, NEW r \in Runs, NEW v \in Versions, NEW to \in RequestStates, Moves(r, v, to)
    PROVE  /\ reqs' \in [Runs -> [Versions -> RequestStates]]
           /\ reqs'[r][v] = to
           /\ \A s \in Runs, w \in Versions : <<s, w>> # <<r, v>> => reqs'[s][w] = reqs[s][w]
<1> DEFINE row == [reqs[r] EXCEPT ![v] = to]
<1>1. reqs \in [Runs -> [Versions -> RequestStates]]
  BY DEF TypeOK
<1>2. row \in [Versions -> RequestStates] /\ row[v] = to /\ \A w \in Versions \ {v} : row[w] = reqs[r][w]
  BY <1>1
<1> HIDE DEF row
<1>3. reqs' = [reqs EXCEPT ![r] = row]
  BY DEF Moves, row
<1> QED  BY <1>1, <1>2, <1>3

LEMMA TypeOKStands ==
    TypeOK /\ [Next]_vars => TypeOK'
<1> SUFFICES ASSUME TypeOK, [Next]_vars
             PROVE  TypeOK'
  OBVIOUS
<1>1. CASE JudgeListed
  <2> DEFINE next == CHOOSE v \in Versions \ DOMAIN verdicts :
                        \A w \in Versions \ DOMAIN verdicts : v <= w
  <2>1. next \in Versions
    <3>1. Versions \ DOMAIN verdicts # {}
      BY <1>1 DEF JudgeListed, TypeOK
    <3> QED  BY <3>1, NextIsAVersion
  <2>2. PICK verdict \in Decide(next, next \in env.fresh) :
           /\ verdicts' = [w \in DOMAIN verdicts \cup {next} |->
                             IF w = next THEN verdict ELSE verdicts[w]]
           /\ Note(next, verdict)
    BY <1>1, Zenon DEF JudgeListed
  <2> HIDE DEF next
  <2>3. verdict \in Verdict
    BY <2>2, DecideGivesVerdicts
  <2>4. DOMAIN verdicts' \subseteq Versions /\ \A v \in DOMAIN verdicts' : verdicts'[v] \in Verdict
    BY <2>1, <2>2, <2>3 DEF TypeOK
  <2>5. degraded' \subseteq Versions
    BY <2>1, <2>2 DEF TypeOK, Note
  <2> QED  BY <1>1, <2>4, <2>5 DEF JudgeListed, TypeOK
<1>2. CASE AnswerListing
  <2>1. Offered(ApplyBuffer(verdicts)) \subseteq Versions
    BY <1>2 DEF AnswerListing, Offered, ApplyBuffer
  <2>2. listing'.left \subseteq Versions /\ listing'.bare \in BOOLEAN /\ stored' = listing'
    BY <1>2, <2>1 DEF AnswerListing, None
  <2>3. rows' \subseteq Versions \X {"withheld", "blocked"}
    BY <1>2 DEF AnswerListing, Record, TypeOK
  <2> QED  BY <1>2, <2>2, <2>3 DEF AnswerListing, TypeOK
<1>3. CASE PassUnfiltered
  <2>1. listing'.left \subseteq Versions /\ listing'.bare \in BOOLEAN /\ stored' = listing'
    BY <1>3 DEF PassUnfiltered, None
  <2>2. rows' \subseteq Versions \X {"withheld", "blocked"}
    BY <1>3 DEF PassUnfiltered, Record, TypeOK
  <2> QED  BY <1>3, <2>1, <2>2 DEF PassUnfiltered, TypeOK
<1>4. CASE SwapBundle
  BY <1>4 DEF SwapBundle, gate, TypeOK
<1>5. ASSUME NEW r \in Runs, NEW v \in Versions, JudgeDownload(r, v) PROVE TypeOK'
  <2>1. PICK verdict \in Evaluate(v) :
           /\ Moves(r, v, IF verdict.blocked THEN "refused" ELSE "allowed")
           /\ Note(v, verdict)
    BY <1>5 DEF JudgeDownload
  <2>2. (IF verdict.blocked THEN "refused" ELSE "allowed") \in RequestStates
    BY <2>1, DecideGivesVerdicts DEF Evaluate, Verdict, RequestStates
  <2>3. reqs' \in [Runs -> [Versions -> RequestStates]]
    BY <2>1, <2>2, OneMoves
  <2>4. degraded' \subseteq Versions
    BY <2>1 DEF Note, TypeOK
  <2> QED  BY <1>5, <2>3, <2>4 DEF JudgeDownload, TypeOK
<1>6. ASSUME NEW r \in Runs, NEW v \in Versions, AnswerDownload(r, v) PROVE TypeOK'
  <2>1. \E to \in RequestStates : Moves(r, v, to)
    BY <1>6 DEF AnswerDownload, Waiting, RequestStates
  <2>2. reqs' \in [Runs -> [Versions -> RequestStates]]
    BY <2>1, OneMoves
  <2>3. rows' = rows \/ rows' = rows \cup {<<v, "blocked">>}
    BY <1>6 DEF AnswerDownload, Record
  <2>4. rows' \subseteq Versions \X {"withheld", "blocked"}
    <3>1. rows \subseteq Versions \X {"withheld", "blocked"}
      BY DEF TypeOK
    <3>2. <<v, "blocked">> \in Versions \X {"withheld", "blocked"}
      OBVIOUS
    <3> QED  BY <2>3, <3>1, <3>2, Zenon
  <2> QED  BY <1>6, <2>2, <2>4 DEF AnswerDownload, TypeOK
<1>7. ASSUME NEW r \in Runs, NEW v \in Versions, FetchDirect(r, v) PROVE TypeOK'
  <2>1. Moves(r, v, "handed") /\ "handed" \in RequestStates
    BY <1>7 DEF FetchDirect, RequestStates
  <2>2. reqs' \in [Runs -> [Versions -> RequestStates]]
    BY <2>1, OneMoves
  <2> QED  BY <1>7, <2>2 DEF FetchDirect, gate, TypeOK
<1>8. CASE AskListing
  <2>1. DOMAIN verdicts' = {}
    BY <1>8, NothingJudged DEF AskListing
  <2> QED  BY <1>8, <2>1 DEF AskListing, gate, TypeOK
<1>9. CASE ReuseListing
  <2>1. listing'.left \subseteq Versions /\ listing'.bare \in BOOLEAN
    BY <1>9 DEF ReuseListing, TypeOK
  <2>2. DOMAIN verdicts' = {}
    BY <1>9, NothingJudged DEF ReuseListing
  <2> QED  BY <1>9, <2>1, <2>2 DEF ReuseListing, gate, TypeOK
<1>10. ASSUME NEW S, NEW how \in {"asked", "direct"}, Want(S, how)
       PROVE  /\ reqs' \in [Runs -> [Versions -> RequestStates]] /\ DOMAIN verdicts' = {}
              /\ tool' = [tool EXCEPT !.pc = "fetching"]
  <2> DEFINE row == [v \in Versions |-> IF v \in S THEN how ELSE reqs[tool.run][v]]
  <2>1. reqs \in [Runs -> [Versions -> RequestStates]] /\ tool.run \in Runs
    BY DEF TypeOK
  <2>2. row \in [Versions -> RequestStates]
    BY <2>1 DEF RequestStates
  <2>3. reqs' = [reqs EXCEPT ![tool.run] = row]
    BY <1>10 DEF Want
  <2> HIDE DEF row
  <2>4. reqs' \in [Runs -> [Versions -> RequestStates]]
    BY <2>1, <2>2, <2>3
  <2>5. DOMAIN verdicts' = {}
    BY <1>10, NothingJudged DEF Want
  <2> QED  BY <1>10, <2>4, <2>5 DEF Want
<1>11. CASE Resolve
  <2>1. PICK S \in SUBSET listing.left :
           Want(S, IF env.tool = "pip" \/ listing.bare THEN "direct" ELSE "asked")
    BY <1>11 DEF Resolve
  <2>2. CASE env.tool = "pip" \/ listing.bare
    <3>1. Want(S, "direct")
      BY <2>1, <2>2
    <3> QED  BY <1>10, <1>11, <3>1 DEF Resolve, gate, TypeOK
  <2>3. CASE ~(env.tool = "pip" \/ listing.bare)
    <3>1. Want(S, "asked")
      BY <2>1, <2>3
    <3> QED  BY <1>10, <1>11, <3>1 DEF Resolve, gate, TypeOK
  <2> QED  BY <2>2, <2>3
<1>12. CASE ReadLockfile
  <2>1. PICK S : Want(S, "asked")
    BY <1>12 DEF ReadLockfile
  <2>2. listing'.left \subseteq Versions /\ listing'.bare \in BOOLEAN
    BY <1>12 DEF ReadLockfile, None
  <2> QED  BY <1>10, <1>12, <2>1, <2>2 DEF ReadLockfile, gate, TypeOK
<1>13. CASE RunAgain
  <2>1. tool' \in [run : Runs, pc : {"start", "asking", "listed", "fetching", "exited"}, ok : BOOLEAN]
    BY <1>13, TwoRuns DEF RunAgain
  <2> QED  BY <1>13, <2>1 DEF RunAgain, gate, TypeOK
<1>14. ASSUME NEW ok \in BOOLEAN, Exit(ok) PROVE TypeOK'
  BY <1>14 DEF Exit, gate, TypeOK
<1>15. CASE ReadDecisions
  BY <1>15 DEF ReadDecisions, SessionDecisions, gate, TypeOK
<1>16. CASE Conclude
  BY <1>16 DEF Conclude, EndSession, gate, TypeOK
<1>17. CASE OverrideAndRerun
  <2>1. approvals' \subseteq {"past", "this"} \X Versions
    BY <1>17 DEF OverrideAndRerun, TypeOK
  <2>2. tool' \in [run : Runs, pc : {"start", "asking", "listed", "fetching", "exited"}, ok : BOOLEAN]
    BY <1>17, TwoRuns DEF OverrideAndRerun
  <2> QED  BY <1>17, <2>1, <2>2 DEF OverrideAndRerun, gate, TypeOK
<1>18. CASE EndRerun
  BY <1>18 DEF EndRerun, EndSession, gate, TypeOK
<1>19. CASE UNCHANGED vars
  BY <1>19 DEF vars, TypeOK
<1> QED
  BY <1>1, <1>2, <1>3, <1>4, <1>5, <1>6, <1>7, <1>8, <1>9, <1>11, <1>12, <1>13, <1>14,
     <1>15, <1>16, <1>17, <1>18, <1>19 DEF Next

\* The states an install goes through are the ones its variables are for.
THEOREM InstallTypeOK == Spec => []TypeOK
<1>1. Init => TypeOK
  <2> SUFFICES ASSUME Init PROVE TypeOK
    OBVIOUS
  <2>1. DOMAIN verdicts = {}
    BY NothingJudged DEF Init
  <2>2. reqs \in [Runs -> [Versions -> RequestStates]]
    BY DEF Init, RequestStates
  <2>3. tool \in [run : Runs, pc : {"start", "asking", "listed", "fetching", "exited"}, ok : BOOLEAN]
    <3>1. tool = [run |-> 1, pc |-> "start", ok |-> FALSE] /\ 1 \in Runs
      BY TwoRuns DEF Init
    <3> QED  BY <3>1
  <2>4. \A l \in {listing, stored} : l.left \subseteq Versions /\ l.bare \in BOOLEAN
    <3>1. None.left = {} /\ None.bare = FALSE
      BY DEF None
    <3>2. listing = None /\ stored = None
      BY DEF Init
    <3> QED  BY <3>1, <3>2
  <2>5. session \in [pc : {"running", "read", "rerun", "over"}, shown : SUBSET Versions,
                     outcome : {"", "clean", "blocked", "approved", "aborted"}]
    BY DEF Init
  <2> QED  BY <2>1, <2>2, <2>3, <2>4, <2>5 DEF Init, TypeOK
<1> QED  BY <1>1, TypeOKStands, PTL DEF Spec
------------------------------------------------------------------------------
\* What an install is sure of at every moment.  Three properties follow from it.

\* Some advisory this run has known from its start on would have v refused.
Bad(v) == \E a \in known : v \in a.hits /\ Blocks(a)

\* v would be handed over, or there is word of its not having been checked.
Servable(v) == v \in degraded \/ <<"this", v>> \in approvals \/ ~Judge(v, bundle, FALSE).blocked

\* What pip on a shared port uses again may be older than the run.
Excused == env.tool = "pip" /\ env.shared /\ listing.cached

\* The wrapper follows the tool, and only a session has one.
Wrapped ==
    /\ env.shared => session.pc = "over" /\ session.outcome = ""
    /\ session.pc # "over" => session.outcome = ""
    /\ session.pc \in {"running", "read"} => tool.run = 1
    /\ session.pc = "read" => tool.pc = "exited"

\* Nothing is downloaded before the tool has made up its mind.
NotYet ==
    \A r \in Runs, v \in Versions :
        r > tool.run \/ (r = tool.run /\ tool.pc \in {"start", "asking", "listed"})
            => reqs[r][v] = "none"

\* A verdict on its way to a listing.
Judged ==
    tool.pc = "asking" =>
        \A v \in DOMAIN verdicts :
            ~verdicts[v].blocked => (Bad(v) => Noticed(v)) /\ (env.shared \/ Servable(v))

\* A listing, and the copy of it in the tool's cache.
Listed ==
    /\ env.shared \/ known = bundle
    /\ \A l \in {listing, stored} :
          /\ l.bare => unfiltered
          /\ env.shared \/ \A v \in l.left : (Bad(v) => Noticed(v)) /\ (l.bare \/ Servable(v))
    /\ tool.pc = "listed" =>
          (listing.cached /\ env.shared) \/ \A v \in listing.left : Bad(v) => Noticed(v)

\* A download.
Fetched ==
    \A v \in Versions :
        /\ reqs[tool.run][v] \in {"allowed", "direct", "handed"} /\ Bad(v) => Noticed(v) \/ Excused
        /\ listing.bare => reqs[tool.run][v] \notin {"asked", "refused", "denied"}
        /\ v \in listing.left /\ reqs[tool.run][v] \in {"refused", "denied"}
              => env.shared \/ v \in degraded

\* A refusal the tool was given is a row, and the wrapper has read it.
Reported ==
    \A r \in Runs, v \in Versions :
        reqs[r][v] = "denied" =>
            /\ env.shared \/ <<v, "blocked">> \in rows
            /\ ~(session.pc = "read" /\ session.shown = {})
            /\ session.outcome # "clean"

CleanEnds == session.outcome = "clean" => session.pc = "over" /\ tool.pc = "exited" /\ tool.ok

\* What stays so: who the install is for, a notice, and on a private gate the
\* bundle.
LEMMA Stays ==
    ASSUME TypeOK, [Next]_vars
    PROVE  /\ env' = env
           /\ approvals \subseteq approvals' /\ degraded \subseteq degraded' /\ rows \subseteq rows'
           /\ unfiltered => unfiltered'
           /\ env.shared \/ bundle' = bundle
           /\ known' \subseteq known \/ RunAgain \/ OverrideAndRerun
<1>1. CASE JudgeListed
  BY <1>1 DEF JudgeListed, Note
<1>2. CASE AnswerListing
  BY <1>2 DEF AnswerListing, Record
<1>3. CASE PassUnfiltered \/ AskListing \/ ReuseListing \/ Resolve \/ ReadLockfile
  BY <1>3 DEF PassUnfiltered, Record, AskListing, ReuseListing, Resolve, ReadLockfile, gate
<1>4. ASSUME NEW r \in Runs, NEW v \in Versions,
             JudgeDownload(r, v) \/ AnswerDownload(r, v) \/ FetchDirect(r, v)
      PROVE  env' = env /\ approvals' = approvals /\ degraded \subseteq degraded' /\ rows \subseteq rows'
             /\ unfiltered' = unfiltered /\ bundle' = bundle /\ known' = known
  BY <1>4 DEF JudgeDownload, Note, AnswerDownload, Record, FetchDirect, gate
<1>5. CASE SwapBundle
  BY <1>5 DEF SwapBundle, gate
<1>6. CASE RunAgain
  BY <1>6 DEF RunAgain, gate
<1>7. ASSUME NEW ok \in BOOLEAN, Exit(ok)
      PROVE  UNCHANGED <<env, approvals, gate, bundle, known>>
  BY <1>7 DEF Exit
<1>8. CASE ReadDecisions \/ Conclude \/ EndRerun
  BY <1>8 DEF ReadDecisions, Conclude, EndRerun, EndSession, gate
<1>9. CASE OverrideAndRerun
  BY <1>9 DEF OverrideAndRerun, gate
<1>10. CASE UNCHANGED vars
  BY <1>10 DEF vars
<1> QED
  BY <1>1, <1>2, <1>3, <1>4, <1>5, <1>6, <1>7, <1>8, <1>9, <1>10 DEF Next, gate

LEMMA NoticeStands ==
    ASSUME TypeOK, [Next]_vars
    PROVE  \A v : Noticed(v) => Noticed(v)'
  BY Stays DEF Noticed

LEMMA WrappedStands ==
    ASSUME TypeOK, Wrapped, [Next]_vars
    PROVE  Wrapped'
<1>1. CASE UNCHANGED <<env, tool, session>>
  BY <1>1 DEF Wrapped
<1>2. CASE JudgeListed \/ SwapBundle \/ UNCHANGED vars
  BY <1>1, <1>2 DEF JudgeListed, SwapBundle, vars
<1>3. ASSUME NEW r \in Runs, NEW v \in Versions,
             JudgeDownload(r, v) \/ AnswerDownload(r, v) \/ FetchDirect(r, v)
      PROVE  UNCHANGED <<env, tool, session>>
  BY <1>3 DEF JudgeDownload, AnswerDownload, FetchDirect
<1>4. CASE AnswerListing \/ PassUnfiltered \/ AskListing \/ ReuseListing
  BY <1>4 DEF AnswerListing, PassUnfiltered, AskListing, ReuseListing, TypeOK, Wrapped
<1>5. CASE Resolve \/ ReadLockfile
  <2>1. UNCHANGED <<env, session>> /\ tool' = [tool EXCEPT !.pc = "fetching"] /\ tool.pc # "exited"
    BY <1>5 DEF Resolve, ReadLockfile, Want
  <2> QED  BY <2>1 DEF TypeOK, Wrapped
<1>6. CASE RunAgain
  BY <1>6 DEF RunAgain, TypeOK, Wrapped
<1>7. ASSUME NEW ok \in BOOLEAN, Exit(ok) PROVE Wrapped'
  BY <1>7 DEF Exit, TypeOK, Wrapped
<1>8. CASE ReadDecisions
  BY <1>8 DEF ReadDecisions, TypeOK, Wrapped
<1>9. CASE Conclude
  BY <1>9 DEF Conclude, EndSession, TypeOK, Wrapped
<1>10. CASE OverrideAndRerun
  BY <1>10 DEF OverrideAndRerun, TypeOK, Wrapped
<1>11. CASE EndRerun
  BY <1>11 DEF EndRerun, EndSession, TypeOK, Wrapped
<1> QED
  BY <1>1, <1>2, <1>3, <1>4, <1>5, <1>6, <1>7, <1>8, <1>9, <1>10, <1>11 DEF Next

\* What a choice of S does to the downloads.
LEMMA Wanted ==
    ASSUME TypeOK, NEW S, NEW how \in {"asked", "direct"}, Want(S, how)
    PROVE  /\ tool' = [tool EXCEPT !.pc = "fetching"]
           /\ \A r \in Runs, v \in Versions :
                 reqs'[r][v] = IF r = tool.run /\ v \in S THEN how ELSE reqs[r][v]
<1> DEFINE row == [v \in Versions |-> IF v \in S THEN how ELSE reqs[tool.run][v]]
<1>1. reqs \in [Runs -> [Versions -> RequestStates]] /\ tool.run \in Runs
  BY DEF TypeOK
<1>2. reqs' = [reqs EXCEPT ![tool.run] = row]
  BY DEF Want
<1>3. \A v \in Versions : row[v] = IF v \in S THEN how ELSE reqs[tool.run][v]
  OBVIOUS
<1> HIDE DEF row
<1>4. \A r \in Runs : reqs'[r] = IF r = tool.run THEN row ELSE reqs[r]
  BY <1>1, <1>2
<1>5. ASSUME NEW r \in Runs, NEW v \in Versions
      PROVE  reqs'[r][v] = IF r = tool.run /\ v \in S THEN how ELSE reqs[r][v]
  BY <1>3, <1>4
<1>6. tool' = [tool EXCEPT !.pc = "fetching"]
  BY DEF Want
<1> QED  BY <1>5, <1>6

\* A verdict that lets a version pass is true to its word.
LEMMA DecideIsHonest ==
    ASSUME TypeOK, NEW v \in Versions, NEW tooNew \in BOOLEAN, NEW verdict \in Decide(v, tooNew),
           Note(v, verdict), ~verdict.blocked, UNCHANGED <<bundle, known, approvals, unfiltered>>
    PROVE  (Bad(v) => Noticed(v)') /\ Servable(v)'
<1>1. CASE verdict = Override
  <2>1. <<"this", v>> \in approvals
    <3>1. CASE IsApproved(v)
      BY <3>1 DEF IsApproved
    <3>2. CASE ~IsApproved(v)
      <4>1. verdict = Degraded \/ verdict = Judge(v, bundle, tooNew)
        BY <3>2 DEF Decide
      <4>2. verdict.why # "override"
        <5>1. CASE verdict = Degraded
          BY <5>1 DEF Degraded
        <5>2. CASE verdict = Judge(v, bundle, tooNew)
          BY <5>2 DEF Judge, Reason, Cooldown, Clean
        <5> QED  BY <4>1, <5>1, <5>2
      <4> QED  BY <1>1, <4>2 DEF Override
    <3> QED  BY <3>1, <3>2
  <2> QED  BY <2>1 DEF Noticed, Servable
<1>2. CASE verdict = Degraded
  <2>1. v \in degraded'
    BY <1>2 DEF Note
  <2> QED  BY <2>1 DEF Noticed, Servable
<1>3. CASE verdict = Judge(v, bundle, tooNew)
  <2>1. bundle \in SUBSET Advisory /\ known \subseteq bundle
    BY AdvisoriesAssumption DEF TypeOK
  <2>2. ~Bad(v)
    <3>1. SUFFICES ASSUME NEW bad \in known, v \in bad.hits, Blocks(bad) PROVE FALSE
      BY DEF Bad
    <3>2. Judge(v, bundle, tooNew).blocked
      BY <2>1, <3>1, KnownBadIsRefused
    <3> QED  BY <1>3, <3>2
  <2>3. ~Judge(v, bundle, FALSE).blocked
    BY <1>3 DEF Judge, Cooldown, Clean
  <2> QED  BY <2>2, <2>3 DEF Servable
<1> QED  BY <1>1, <1>2, <1>3 DEF Decide

LEMMA BadShrinks ==
    ASSUME known' \subseteq known
    PROVE  \A v : Bad(v)' => Bad(v)
  BY DEF Bad

LEMMA ServableStands ==
    ASSUME TypeOK, [Next]_vars, ~env.shared
    PROVE  \A v : Servable(v) => Servable(v)'
  BY Stays DEF Servable

\* What the tool and the gate do about downloads, as one choice each.
LEMMA DownloadMoves ==
    ASSUME TypeOK, NEW r \in Runs, NEW v \in Versions,
           JudgeDownload(r, v) \/ AnswerDownload(r, v) \/ FetchDirect(r, v)
    PROVE  \E to \in RequestStates : Moves(r, v, to)
<1>1. CASE JudgeDownload(r, v)
  <2>1. PICK verdict \in Evaluate(v) : Moves(r, v, IF verdict.blocked THEN "refused" ELSE "allowed")
    BY <1>1 DEF JudgeDownload
  <2>2. (IF verdict.blocked THEN "refused" ELSE "allowed") \in RequestStates
    BY <2>1, DecideGivesVerdicts DEF Evaluate, Verdict, RequestStates
  <2> QED  BY <2>1, <2>2
<1>2. CASE AnswerDownload(r, v)
  BY <1>2 DEF AnswerDownload, Waiting, RequestStates
<1>3. CASE FetchDirect(r, v)
  BY <1>3 DEF FetchDirect, RequestStates
<1> QED  BY <1>1, <1>2, <1>3

LEMMA ToolWants ==
    ASSUME Resolve \/ ReadLockfile
    PROVE  \E S : Want(S, "asked") \/ Want(S, "direct")
<1>1. CASE Resolve
  <2>1. PICK S \in SUBSET listing.left :
           Want(S, IF env.tool = "pip" \/ listing.bare THEN "direct" ELSE "asked")
    BY <1>1 DEF Resolve
  <2>2. CASE env.tool = "pip" \/ listing.bare
    BY <2>1, <2>2
  <2>3. CASE ~(env.tool = "pip" \/ listing.bare)
    BY <2>1, <2>3
  <2> QED  BY <2>2, <2>3
<1>2. CASE ReadLockfile
  BY <1>2 DEF ReadLockfile
<1> QED  BY <1>1, <1>2

LEMMA NotYetStands ==
    ASSUME TypeOK, Wrapped, NotYet, [Next]_vars
    PROVE  NotYet'
<1>1. CASE UNCHANGED <<tool, reqs>>
  BY <1>1 DEF NotYet
<1>2. CASE JudgeListed \/ SwapBundle \/ ReadDecisions \/ Conclude \/ EndRerun \/ UNCHANGED vars
  BY <1>1, <1>2 DEF JudgeListed, SwapBundle, ReadDecisions, Conclude, EndRerun, EndSession, vars
<1>3. ASSUME NEW r \in Runs, NEW v \in Versions,
             JudgeDownload(r, v) \/ AnswerDownload(r, v) \/ FetchDirect(r, v)
      PROVE  NotYet'
  <2>1. tool' = tool /\ reqs[r][v] # "none"
    BY <1>3 DEF JudgeDownload, AnswerDownload, FetchDirect
  <2>2. PICK to \in RequestStates : Moves(r, v, to)
    BY <1>3, DownloadMoves
  <2>3. \A s \in Runs, w \in Versions : reqs[s][w] = "none" => reqs'[s][w] = "none"
    BY <2>1, <2>2, OneMoves
  <2> QED  BY <2>1, <2>3 DEF NotYet
<1>4. CASE AnswerListing \/ PassUnfiltered \/ AskListing \/ ReuseListing
  <2>1. reqs' = reqs /\ tool'.run = tool.run /\ tool.pc \in {"start", "asking"}
    BY <1>4 DEF AnswerListing, PassUnfiltered, AskListing, ReuseListing, TypeOK
  <2> QED  BY <2>1 DEF NotYet
<1>5. ASSUME NEW S, NEW how \in {"asked", "direct"}, Want(S, how)
      PROVE  NotYet'
  <2>1. tool'.run = tool.run /\ tool'.pc = "fetching" /\ tool.run \in Nat
    <3>1. tool' = [tool EXCEPT !.pc = "fetching"]
      BY <1>5, Wanted
    <3>2. tool.run \in Runs
      BY DEF TypeOK
    <3>3. tool.run \in Nat
      BY <3>2 DEF Runs
    <3> QED  BY <3>1, <3>2, <3>3 DEF TypeOK
  <2>2. \A r \in Runs, v \in Versions : r > tool.run => reqs'[r][v] = reqs[r][v]
    BY <1>5, <2>1, Wanted DEF Runs
  <2> QED  BY <2>1, <2>2 DEF NotYet
<1>6. CASE Resolve \/ ReadLockfile
  <2>1. \E S : Want(S, "asked") \/ Want(S, "direct")
    BY <1>6, ToolWants
  <2> QED  BY <2>1, <1>5
<1>7. CASE RunAgain \/ OverrideAndRerun
  <2>1. tool.run = 1 /\ tool'.run = 2 /\ reqs' = reqs
    <3>1. CASE RunAgain
      BY <3>1 DEF RunAgain
    <3>2. CASE OverrideAndRerun
      <4>1. session.pc = "read" /\ tool' = [run |-> 2, pc |-> "start", ok |-> FALSE] /\ reqs' = reqs
        BY <3>2 DEF OverrideAndRerun
      <4> QED  BY <4>1 DEF Wrapped
    <3> QED  BY <1>7, <3>1, <3>2
  <2>2. \A v \in Versions : reqs[2][v] = "none"
    BY <2>1, TwoRuns DEF NotYet
  <2> QED  BY <2>1, <2>2 DEF NotYet, Runs
<1>8. ASSUME NEW ok \in BOOLEAN, Exit(ok) PROVE NotYet'
  <2>1. reqs' = reqs /\ tool'.run = tool.run /\ tool'.pc = "exited"
    BY <1>8 DEF Exit, TypeOK
  <2> QED  BY <2>1 DEF NotYet
<1> QED
  BY <1>1, <1>2, <1>3, <1>4, <1>6, <1>7, <1>8 DEF Next

LEMMA JudgedStands ==
    ASSUME TypeOK, Judged, [Next]_vars
    PROVE  Judged'
<1>1. CASE tool' = tool /\ verdicts' = verdicts /\ known' \subseteq known
  <2> SUFFICES ASSUME tool.pc = "asking", NEW v \in DOMAIN verdicts, ~verdicts[v].blocked
               PROVE  (Bad(v)' => Noticed(v)') /\ (env'.shared \/ Servable(v)')
    BY <1>1 DEF Judged
  <2>1. (Bad(v) => Noticed(v)) /\ (env.shared \/ Servable(v))
    BY DEF Judged
  <2>2. Bad(v)' => Bad(v)
    BY <1>1, BadShrinks
  <2>3. env' = env /\ (Noticed(v) => Noticed(v)')
    BY Stays, NoticeStands
  <2>4. env.shared \/ (Servable(v) => Servable(v)')
    BY ServableStands
  <2> QED  BY <2>1, <2>2, <2>3, <2>4
<1>2. CASE JudgeListed
  <2>1. PICK next, tooNew, verdict :
           /\ next \in Versions /\ tooNew \in BOOLEAN
           /\ verdict \in Decide(next, tooNew)
           /\ verdicts' = [w \in DOMAIN verdicts \cup {next} |->
                             IF w = next THEN verdict ELSE verdicts[w]]
           /\ Note(next, verdict)
    <3> DEFINE least == CHOOSE v \in Versions \ DOMAIN verdicts :
                           \A w \in Versions \ DOMAIN verdicts : v <= w
    <3>1. least \in Versions
      <4>1. Versions \ DOMAIN verdicts # {}
        BY <1>2 DEF JudgeListed, TypeOK
      <4> QED  BY <4>1, NextIsAVersion
    <3>2. \E verdict \in Decide(least, least \in env.fresh) :
             /\ verdicts' = [w \in DOMAIN verdicts \cup {least} |->
                               IF w = least THEN verdict ELSE verdicts[w]]
             /\ Note(least, verdict)
      BY <1>2, Zenon DEF JudgeListed
    <3> HIDE DEF least
    <3>3. (least \in env.fresh) \in BOOLEAN
      OBVIOUS
    <3> QED  BY <3>1, <3>2, <3>3, Zenon
  <2>3. tool.pc = "asking" /\ tool' = tool /\ UNCHANGED <<bundle, known, approvals, unfiltered>>
    BY <1>2 DEF JudgeListed
  <2>5. ASSUME ~verdict.blocked
        PROVE  (Bad(next)' => Noticed(next)') /\ Servable(next)'
    <3>1. Note(next, verdict) /\ UNCHANGED <<bundle, known, approvals, unfiltered>>
      BY <2>1, <2>3
    <3>2. (Bad(next) => Noticed(next)') /\ Servable(next)'
      BY <2>1, <2>5, <3>1, DecideIsHonest
    <3> QED  BY <2>3, <3>2, BadShrinks
  <2>6. SUFFICES ASSUME NEW v \in DOMAIN verdicts', ~verdicts'[v].blocked
                 PROVE  (Bad(v)' => Noticed(v)') /\ (env'.shared \/ Servable(v)')
    BY DEF Judged
  <2>7. Bad(v)' => Bad(v)
    BY <2>3, BadShrinks
  <2>8. CASE v = next
    <3>1. verdicts'[v] = verdict
      BY <2>1, <2>8
    <3> QED  BY <2>5, <2>6, <2>8, <3>1
  <2>9. CASE v # next
    <3>1. v \in DOMAIN verdicts /\ verdicts'[v] = verdicts[v]
      BY <2>1, <2>6, <2>9
    <3>2. (Bad(v) => Noticed(v)) /\ (env.shared \/ Servable(v))
      BY <2>3, <2>6, <3>1 DEF Judged
    <3>3. env' = env /\ (Noticed(v) => Noticed(v)')
      BY Stays, NoticeStands
    <3>4. env.shared \/ (Servable(v) => Servable(v)')
      BY ServableStands
    <3> QED  BY <2>7, <3>2, <3>3, <3>4
  <2> QED  BY <2>8, <2>9
<1>3. CASE AskListing
  <2>1. DOMAIN verdicts' = {}
    BY <1>3, NothingJudged DEF AskListing
  <2> QED  BY <2>1 DEF Judged
<1>4. CASE tool'.pc # "asking"
  BY <1>4 DEF Judged
<1>5. CASE AnswerListing \/ PassUnfiltered \/ ReuseListing
  <2>1. tool'.pc = "listed"
    BY <1>5 DEF AnswerListing, PassUnfiltered, ReuseListing, TypeOK
  <2> QED  BY <1>4, <2>1
<1>6. CASE Resolve \/ ReadLockfile
  <2>1. tool' = [tool EXCEPT !.pc = "fetching"]
    BY <1>6, ToolWants, Wanted
  <2> QED  BY <1>4, <2>1 DEF TypeOK
<1>7. CASE RunAgain
  BY <1>4, <1>7 DEF RunAgain
<1>8. CASE OverrideAndRerun
  <2>1. tool' = [run |-> 2, pc |-> "start", ok |-> FALSE]
    BY <1>8 DEF OverrideAndRerun
  <2> QED  BY <1>4, <2>1
<1>9. ASSUME NEW ok \in BOOLEAN, Exit(ok) PROVE Judged'
  <2>1. tool'.pc = "exited"
    BY <1>9 DEF Exit, TypeOK
  <2> QED  BY <1>4, <2>1
<1>10. ASSUME NEW r \in Runs, NEW v \in Versions,
              JudgeDownload(r, v) \/ AnswerDownload(r, v) \/ FetchDirect(r, v)
       PROVE  Judged'
  BY <1>1, <1>10 DEF JudgeDownload, AnswerDownload, FetchDirect
<1>11. CASE SwapBundle \/ ReadDecisions \/ Conclude \/ EndRerun \/ UNCHANGED vars
  BY <1>1, <1>11 DEF SwapBundle, ReadDecisions, Conclude, EndRerun, EndSession, vars
<1> QED
  BY <1>2, <1>3, <1>5, <1>6, <1>7, <1>8, <1>9, <1>10, <1>11 DEF Next

\* On a private gate what is known does not change either.
LEMMA Private ==
    ASSUME TypeOK, Wrapped, env.shared \/ known = bundle, [Next]_vars
    PROVE  (env'.shared \/ known' = bundle') /\ (env.shared \/ known' = known)
<1>1. env' = env /\ (env.shared \/ bundle' = bundle)
  BY Stays
<1>2. CASE RunAgain \/ OverrideAndRerun
  <2>1. known' = bundle
    <3>1. CASE RunAgain
      BY <3>1 DEF RunAgain
    <3>2. CASE OverrideAndRerun
      BY <3>2 DEF OverrideAndRerun
    <3> QED  BY <1>2, <3>1, <3>2
  <2> QED  BY <1>1, <2>1
<1>3. CASE known' = known
  BY <1>1, <1>3
<1>4. CASE SwapBundle
  BY <1>1, <1>4 DEF SwapBundle
<1>5. CASE JudgeListed \/ AnswerListing \/ PassUnfiltered \/ AskListing \/ ReuseListing
           \/ Resolve \/ ReadLockfile
  BY <1>3, <1>5 DEF JudgeListed, AnswerListing, PassUnfiltered, AskListing, ReuseListing,
                    Resolve, ReadLockfile
<1>6. ASSUME NEW r \in Runs, NEW v \in Versions,
             JudgeDownload(r, v) \/ AnswerDownload(r, v) \/ FetchDirect(r, v)
      PROVE  known' = known
  BY <1>6 DEF JudgeDownload, AnswerDownload, FetchDirect
<1>7. ASSUME NEW ok \in BOOLEAN, Exit(ok) PROVE known' = known
  BY <1>7 DEF Exit
<1>8. CASE ReadDecisions \/ Conclude \/ EndRerun \/ UNCHANGED vars
  BY <1>3, <1>8 DEF ReadDecisions, Conclude, EndRerun, EndSession, vars
<1> QED
  BY <1>2, <1>3, <1>4, <1>5, <1>6, <1>7, <1>8 DEF Next

\* A listing that stays what it is stays as good as it was.
LEMMA SameListing ==
    ASSUME TypeOK, Wrapped, Listed, [Next]_vars, NEW l \in {listing, stored}
    PROVE  /\ l.bare => unfiltered'
           /\ env'.shared \/ \A v \in l.left : (Bad(v)' => Noticed(v)') /\ (l.bare \/ Servable(v)')
<1>1. env' = env /\ (unfiltered => unfiltered')
  BY Stays
<1>2. l.bare => unfiltered
  BY DEF Listed
<1>3. ASSUME ~env.shared, NEW v \in l.left
      PROVE  (Bad(v)' => Noticed(v)') /\ (l.bare \/ Servable(v)')
  <2>1. (Bad(v) => Noticed(v)) /\ (l.bare \/ Servable(v))
    BY <1>3 DEF Listed
  <2>2. known' \subseteq known
    BY <1>3, Private DEF Listed
  <2> QED  BY <1>3, <2>1, <2>2, BadShrinks, NoticeStands, ServableStands
<1> QED  BY <1>1, <1>2, <1>3

LEMMA ListedStands ==
    ASSUME TypeOK, Wrapped, Judged, Listed, [Next]_vars
    PROVE  Listed'
<1>1. env' = env /\ (env'.shared \/ known' = bundle') /\ (env.shared \/ known' = known)
  BY Stays, Private DEF Listed
<1>2. CASE UNCHANGED <<listing, stored>> /\ (tool'.pc # "listed" \/ (tool' = tool /\ known' \subseteq known))
  <2>1. \A l \in {listing', stored'} :
           /\ l.bare => unfiltered'
           /\ env'.shared \/ \A v \in l.left : (Bad(v)' => Noticed(v)') /\ (l.bare \/ Servable(v)')
    BY <1>2, SameListing
  <2>2. ASSUME tool'.pc = "listed"
        PROVE  (listing'.cached /\ env'.shared) \/ \A v \in listing'.left : Bad(v)' => Noticed(v)'
    <3>1. tool.pc = "listed" /\ known' \subseteq known
      BY <1>2, <2>2
    <3>2. (listing.cached /\ env.shared) \/ \A v \in listing.left : Bad(v) => Noticed(v)
      BY <3>1 DEF Listed
    <3> QED  BY <1>1, <1>2, <3>1, <3>2, BadShrinks, NoticeStands
  <2> QED  BY <1>1, <2>1, <2>2 DEF Listed
<1>3. CASE AnswerListing
  <2>1. PICK left : /\ left = Offered(ApplyBuffer(verdicts))
                    /\ listing'.left = left /\ listing'.bare = FALSE /\ stored' = listing'
    BY <1>3 DEF AnswerListing
  <2>2. ASSUME NEW v \in left
        PROVE  (Bad(v)' => Noticed(v)') /\ (env.shared \/ Servable(v)')
    <3>1. v \in DOMAIN verdicts /\ ~verdicts[v].blocked
      BY <2>1, <2>2 DEF Offered, ApplyBuffer, HeldBack
    <3>2. tool.pc = "asking" /\ known' = known
      BY <1>3 DEF AnswerListing
    <3>3. (Bad(v) => Noticed(v)) /\ (env.shared \/ Servable(v))
      BY <3>1, <3>2 DEF Judged
    <3> QED  BY <3>2, <3>3, BadShrinks, NoticeStands, ServableStands
  <2>3. \A l \in {listing', stored'} :
           /\ l.bare => unfiltered'
           /\ env'.shared \/ \A v \in l.left : (Bad(v)' => Noticed(v)') /\ (l.bare \/ Servable(v)')
    BY <1>1, <2>1, <2>2
  <2>4. \A v \in listing'.left : Bad(v)' => Noticed(v)'
    BY <2>1, <2>2
  <2> QED  BY <1>1, <2>3, <2>4 DEF Listed
<1>4. CASE PassUnfiltered
  <2>1. listing'.bare = TRUE /\ stored' = listing' /\ unfiltered'
    BY <1>4 DEF PassUnfiltered
  <2>2. \A v : Noticed(v)'
    BY <2>1 DEF Noticed
  <2> QED  BY <1>1, <2>1, <2>2 DEF Listed
<1>5. CASE ReuseListing
  <2>1. /\ listing'.left = stored.left /\ listing'.bare = stored.bare /\ listing'.cached = TRUE
        /\ stored' = stored
    BY <1>5 DEF ReuseListing
  <2>2. /\ stored.bare => unfiltered'
        /\ env'.shared \/ \A v \in stored.left : (Bad(v)' => Noticed(v)') /\ (stored.bare \/ Servable(v)')
    BY SameListing
  <2> QED  BY <1>1, <2>1, <2>2 DEF Listed
<1>6. CASE ReadLockfile
  <2>1. listing'.left = {} /\ listing'.bare = FALSE /\ stored' = stored
    <3>1. listing' = None /\ stored' = stored
      BY <1>6 DEF ReadLockfile
    <3>2. None.left = {} /\ None.bare = FALSE
      BY DEF None
    <3> QED  BY <3>1, <3>2
  <2>2. /\ stored.bare => unfiltered'
        /\ env'.shared \/ \A v \in stored.left : (Bad(v)' => Noticed(v)') /\ (stored.bare \/ Servable(v)')
    BY SameListing
  <2> QED  BY <1>1, <2>1, <2>2 DEF Listed
<1>7. CASE Resolve
  <2>1. tool' = [tool EXCEPT !.pc = "fetching"]
    BY <1>7, ToolWants, Wanted
  <2>2. UNCHANGED <<listing, stored>>
    BY <1>7 DEF Resolve
  <2>3. tool'.pc # "listed"
    BY <2>1 DEF TypeOK
  <2> QED  BY <1>2, <2>2, <2>3
<1>8. CASE AskListing
  <2>1. tool'.pc # "listed" /\ UNCHANGED <<listing, stored>>
    BY <1>8 DEF AskListing, TypeOK
  <2> QED  BY <1>2, <2>1
<1>9. CASE RunAgain
  BY <1>2, <1>9 DEF RunAgain
<1>10. CASE OverrideAndRerun
  <2>1. tool' = [run |-> 2, pc |-> "start", ok |-> FALSE] /\ UNCHANGED <<listing, stored>>
    BY <1>10 DEF OverrideAndRerun
  <2> QED  BY <1>2, <2>1
<1>11. ASSUME NEW ok \in BOOLEAN, Exit(ok) PROVE Listed'
  <2>1. tool'.pc # "listed" /\ UNCHANGED <<listing, stored>>
    BY <1>11 DEF Exit, TypeOK
  <2> QED  BY <1>2, <2>1
<1>12. ASSUME NEW r \in Runs, NEW v \in Versions,
              JudgeDownload(r, v) \/ AnswerDownload(r, v) \/ FetchDirect(r, v)
       PROVE  Listed'
  BY <1>2, <1>12 DEF JudgeDownload, AnswerDownload, FetchDirect
<1>13. CASE JudgeListed \/ SwapBundle \/ ReadDecisions \/ Conclude \/ EndRerun \/ UNCHANGED vars
  BY <1>2, <1>13 DEF JudgeListed, SwapBundle, ReadDecisions, Conclude, EndRerun, EndSession, vars
<1> QED
  BY <1>3, <1>4, <1>5, <1>6, <1>7, <1>8, <1>9, <1>10, <1>11, <1>12, <1>13 DEF Next

LEMMA ReportedStands ==
    ASSUME TypeOK, Wrapped, NotYet, Reported, CleanEnds, [Next]_vars
    PROVE  Reported' /\ CleanEnds'
<1>1. env' = env /\ rows \subseteq rows'
  BY Stays
<1>2. CASE UNCHANGED <<reqs, session>> /\ (tool' = tool \/ tool.pc # "exited")
  BY <1>1, <1>2 DEF Reported, CleanEnds
<1>3. CASE JudgeListed \/ SwapBundle \/ UNCHANGED vars
  BY <1>2, <1>3 DEF JudgeListed, SwapBundle, vars
<1>4. CASE AnswerListing \/ PassUnfiltered \/ AskListing \/ ReuseListing
  BY <1>2, <1>4 DEF AnswerListing, PassUnfiltered, AskListing, ReuseListing
<1>5. ASSUME NEW ok \in BOOLEAN, Exit(ok) PROVE UNCHANGED <<reqs, session>> /\ tool.pc # "exited"
  BY <1>5 DEF Exit
<1>6. CASE Resolve \/ ReadLockfile
  <2>1. session' = session /\ tool.pc # "exited"
    BY <1>6 DEF Resolve, ReadLockfile
  <2>2. PICK S : Want(S, "asked") \/ Want(S, "direct")
    BY <1>6, ToolWants
  <2>3. ASSUME NEW r \in Runs, NEW v \in Versions, reqs'[r][v] = "denied"
        PROVE  reqs[r][v] = "denied"
    <3>1. CASE Want(S, "asked")
      BY <2>3, <3>1, Wanted
    <3>2. CASE Want(S, "direct")
      BY <2>3, <3>2, Wanted
    <3> QED  BY <2>2, <3>1, <3>2
  <2> QED  BY <1>1, <2>1, <2>3 DEF Reported, CleanEnds
<1>7. ASSUME NEW r \in Runs, NEW v \in Versions,
             JudgeDownload(r, v) \/ AnswerDownload(r, v) \/ FetchDirect(r, v)
      PROVE  Reported' /\ CleanEnds'
  <2>1. session' = session /\ tool' = tool
    BY <1>7 DEF JudgeDownload, AnswerDownload, FetchDirect
  <2>2. PICK to \in RequestStates : Moves(r, v, to)
    BY <1>7, DownloadMoves
  <2>3. reqs'[r][v] = to /\ \A s \in Runs, w \in Versions : <<s, w>> # <<r, v>> => reqs'[s][w] = reqs[s][w]
    BY <2>2, OneMoves
  <2>4. reqs'[r][v] = "denied" => Waiting(r) /\ (env.shared \/ <<v, "blocked">> \in rows')
    <3>1. CASE JudgeDownload(r, v)
      <4>1. PICK verdict : Moves(r, v, IF verdict.blocked THEN "refused" ELSE "allowed")
        BY <3>1 DEF JudgeDownload
      <4>2. (IF verdict.blocked THEN "refused" ELSE "allowed") \in RequestStates \ {"denied"}
        BY DEF RequestStates
      <4>3. reqs'[r][v] = IF verdict.blocked THEN "refused" ELSE "allowed"
        BY <4>1, <4>2, OneMoves
      <4> QED  BY <4>2, <4>3
    <3>2. CASE AnswerDownload(r, v)
      <4>1. CASE Waiting(r)
        BY <3>2, <4>1, OneMoves DEF AnswerDownload, Record, RequestStates
      <4>2. CASE ~Waiting(r)
        BY <3>2, <4>2, OneMoves DEF AnswerDownload, RequestStates
      <4> QED  BY <4>1, <4>2
    <3>3. CASE FetchDirect(r, v)
      BY <3>3, OneMoves DEF FetchDirect, RequestStates
    <3> QED  BY <1>7, <3>1, <3>2, <3>3
  <2>5. Waiting(r) => tool.pc # "exited"
    BY DEF Waiting
  <2>6. session.pc = "read" \/ session.outcome = "clean" => tool.pc = "exited"
    BY DEF Wrapped, CleanEnds
  <2>7. CleanEnds'
    BY <2>1 DEF CleanEnds
  <2>8. ASSUME NEW s \in Runs, NEW w \in Versions, reqs'[s][w] = "denied"
        PROVE  /\ env'.shared \/ <<w, "blocked">> \in rows'
               /\ ~(session'.pc = "read" /\ session'.shown = {})
               /\ session'.outcome # "clean"
    <3>1. CASE <<s, w>> = <<r, v>>
      BY <1>1, <2>1, <2>4, <2>5, <2>6, <2>8, <3>1
    <3>2. CASE <<s, w>> # <<r, v>>
      BY <1>1, <2>1, <2>3, <2>8, <3>2 DEF Reported
    <3> QED  BY <3>1, <3>2
  <2> QED  BY <2>7, <2>8 DEF Reported
<1>8. CASE RunAgain
  <2>1. session' = session /\ reqs' = reqs /\ session.outcome = ""
    BY <1>8 DEF RunAgain, Wrapped
  <2> QED  BY <1>1, <2>1 DEF Reported, CleanEnds
<1>9. CASE ReadDecisions
  <2>1. /\ session' = [session EXCEPT !.pc = "read", !.shown = SessionDecisions]
        /\ session.pc = "running" /\ reqs' = reqs
    BY <1>9 DEF ReadDecisions
  <2>2. session'.pc = "read" /\ session'.shown = SessionDecisions /\ session'.outcome = ""
    BY <2>1 DEF TypeOK, Wrapped
  <2>3. ~env.shared
    BY <2>1 DEF Wrapped
  <2>4. \A r \in Runs, v \in Versions : reqs[r][v] = "denied" => v \in SessionDecisions
    BY <2>3 DEF Reported, SessionDecisions
  <2> QED  BY <1>1, <2>1, <2>2, <2>4 DEF Reported, CleanEnds
<1>10. CASE Conclude
  <2>1. session.pc = "read" /\ UNCHANGED <<tool, reqs>>
    BY <1>10 DEF Conclude, EndSession
  <2>2. tool.pc = "exited"
    BY <2>1 DEF Wrapped
  <2>3. /\ session'.pc = "over" /\ session'.outcome \in {"clean", "aborted", "blocked"}
        /\ session'.outcome = "clean" => NothingToReport /\ tool.ok
    BY <1>10 DEF Conclude, EndSession, TypeOK
  <2>4. session'.outcome = "clean" => \A r \in Runs, v \in Versions : reqs[r][v] # "denied"
    BY <2>1, <2>3 DEF NothingToReport, Reported
  <2> QED  BY <1>1, <2>1, <2>2, <2>3, <2>4 DEF Reported, CleanEnds
<1>11. CASE OverrideAndRerun
  <2>1. session.pc = "read" /\ session' = [session EXCEPT !.pc = "rerun"] /\ reqs' = reqs
    BY <1>11 DEF OverrideAndRerun
  <2>2. session'.pc = "rerun" /\ session'.outcome = ""
    BY <2>1 DEF TypeOK, Wrapped
  <2> QED  BY <1>1, <2>1, <2>2 DEF Reported, CleanEnds
<1>12. CASE EndRerun
  <2>1. session' = [session EXCEPT !.pc = "over", !.outcome = "approved"] /\ reqs' = reqs
    BY <1>12 DEF EndRerun, EndSession
  <2>2. session'.pc = "over" /\ session'.outcome = "approved"
    BY <2>1 DEF TypeOK
  <2> QED  BY <1>1, <2>1, <2>2 DEF Reported, CleanEnds
<1> QED
  BY <1>2, <1>3, <1>4, <1>5, <1>6, <1>7, <1>8, <1>9, <1>10, <1>11, <1>12 DEF Next

\* On a private gate a version that would be handed over is not refused.
LEMMA ServedIfServable ==
    ASSUME TypeOK, ~env.shared, NEW v \in Versions, Servable(v),
           NEW verdict \in Decide(v, FALSE), verdict.blocked
    PROVE  v \in degraded
<1>1. ~IsApproved(v)
  <2> SUFFICES ASSUME IsApproved(v) PROVE FALSE
    OBVIOUS
  <2>1. verdict = Override
    BY DEF Decide
  <2> QED  BY <2>1 DEF Override
<1>2. verdict # Degraded
  BY DEF Degraded
<1>3. verdict = Judge(v, bundle, FALSE)
  BY <1>1, <1>2 DEF Decide
<1>4. <<"this", v>> \notin approvals
  BY <1>1 DEF IsApproved
<1> QED  BY <1>3, <1>4 DEF Servable

LEMMA FetchedStands ==
    ASSUME TypeOK, Wrapped, NotYet, Listed, Fetched, [Next]_vars
    PROVE  Fetched'
<1> USE DEF Excused
<1>1. env' = env /\ degraded \subseteq degraded'
  BY Stays
<1>2. CASE tool'.run = tool.run /\ UNCHANGED <<reqs, listing>> /\ known' \subseteq known
  <2> SUFFICES ASSUME NEW v \in Versions
               PROVE  /\ reqs[tool.run][v] \in {"allowed", "direct", "handed"} /\ Bad(v)' => Noticed(v)' \/ Excused
                      /\ listing.bare => reqs[tool.run][v] \notin {"asked", "refused", "denied"}
                      /\ v \in listing.left /\ reqs[tool.run][v] \in {"refused", "denied"}
                            => env.shared \/ v \in degraded'
    BY <1>1, <1>2 DEF Fetched
  <2> QED  BY <1>1, <1>2, BadShrinks, NoticeStands DEF Fetched
<1>3. CASE tool'.pc \in {"start", "asking", "listed"}
  <2>1. NotYet' /\ tool'.run \in Runs
    <3>1. TypeOK'
      BY TypeOKStands
    <3> QED  BY <3>1, NotYetStands DEF TypeOK
  <2>2. \A v \in Versions : reqs'[tool'.run][v] = "none"
    BY <1>3, <2>1 DEF NotYet
  <2> QED  BY <2>2 DEF Fetched
<1>4. CASE AnswerListing \/ PassUnfiltered \/ AskListing \/ ReuseListing
  <2>1. tool'.pc \in {"asking", "listed"}
    BY <1>4 DEF AnswerListing, PassUnfiltered, AskListing, ReuseListing, TypeOK
  <2> QED  BY <1>3, <2>1
<1>5. CASE RunAgain
  BY <1>3, <1>5 DEF RunAgain
<1>6. CASE OverrideAndRerun
  <2>1. tool' = [run |-> 2, pc |-> "start", ok |-> FALSE]
    BY <1>6 DEF OverrideAndRerun
  <2> QED  BY <1>3, <2>1
<1>7. ASSUME NEW ok \in BOOLEAN, Exit(ok) PROVE Fetched'
  <2>1. tool'.run = tool.run /\ UNCHANGED <<reqs, listing, known>>
    BY <1>7 DEF Exit, TypeOK
  <2> QED  BY <1>2, <2>1
<1>8. CASE JudgeListed \/ SwapBundle \/ ReadDecisions \/ Conclude \/ EndRerun \/ UNCHANGED vars
  BY <1>2, <1>8 DEF JudgeListed, SwapBundle, ReadDecisions, Conclude, EndRerun, EndSession, vars
<1>9. ASSUME NEW S, NEW how \in {"asked", "direct"}, Want(S, how),
             tool.pc \in {"start", "listed"}, NEW v \in Versions
      PROVE  reqs'[tool'.run][v] = IF v \in S THEN how ELSE "none"
  <2>1. tool'.run = tool.run /\ tool.run \in Runs
    <3>1. tool' = [tool EXCEPT !.pc = "fetching"]
      BY <1>9, Wanted
    <3> QED  BY <3>1 DEF TypeOK
  <2>2. reqs'[tool.run][v] = IF v \in S THEN how ELSE reqs[tool.run][v]
    BY <1>9, <2>1, Wanted
  <2>3. reqs[tool.run][v] = "none"
    BY <1>9, <2>1 DEF NotYet
  <2> QED  BY <2>1, <2>2, <2>3
<1>10. CASE Resolve
  <2>1. tool.pc = "listed" /\ UNCHANGED <<listing, known>>
    BY <1>10 DEF Resolve
  <2>2. PICK S \in SUBSET listing.left :
           Want(S, IF env.tool = "pip" \/ listing.bare THEN "direct" ELSE "asked")
    BY <1>10 DEF Resolve
  <2>3. \A v \in Versions : Bad(v)' => Bad(v)
    BY <2>1, BadShrinks
  <2>4. CASE env.tool = "pip" \/ listing.bare
    <3>1. Want(S, "direct")
      BY <2>2, <2>4
    <3>2. \A v \in Versions : reqs'[tool'.run][v] = IF v \in S THEN "direct" ELSE "none"
      BY <1>9, <2>1, <3>1
    <3>3. ASSUME NEW v \in S, Bad(v) PROVE Noticed(v)' \/ Excused'
      <4>1. CASE listing.bare
        BY <4>1, NoticeStands DEF Listed, Noticed
      <4>2. CASE env.tool = "pip"
        BY <1>1, <2>1, <3>3, <4>2, NoticeStands DEF Listed
      <4> QED  BY <2>4, <4>1, <4>2
    <3> QED  BY <2>3, <3>2, <3>3 DEF Fetched
  <2>5. CASE ~(env.tool = "pip" \/ listing.bare)
    <3>1. Want(S, "asked")
      BY <2>2, <2>5
    <3>2. \A v \in Versions : reqs'[tool'.run][v] = IF v \in S THEN "asked" ELSE "none"
      BY <1>9, <2>1, <3>1
    <3> QED  BY <2>1, <2>5, <3>2 DEF Fetched
  <2> QED  BY <2>4, <2>5
<1>11. CASE ReadLockfile
  <2>1. tool.pc = "start" /\ listing' = None
    BY <1>11 DEF ReadLockfile
  <2>2. PICK S : Want(S, "asked")
    BY <1>11 DEF ReadLockfile
  <2>3. \A v \in Versions : reqs'[tool'.run][v] = IF v \in S THEN "asked" ELSE "none"
    BY <1>9, <2>1, <2>2
  <2>4. None.bare = FALSE
    BY DEF None
  <2> QED  BY <2>1, <2>3, <2>4 DEF Fetched
<1>12. ASSUME NEW r \in Runs, NEW v \in Versions,
              JudgeDownload(r, v) \/ AnswerDownload(r, v) \/ FetchDirect(r, v)
       PROVE  Fetched'
  <2>1. UNCHANGED <<tool, listing, known>> /\ tool.run \in Runs
    BY <1>12 DEF JudgeDownload, AnswerDownload, FetchDirect, TypeOK
  <2>2. PICK to \in RequestStates : Moves(r, v, to)
    BY <1>12, DownloadMoves
  <2>3. reqs'[r][v] = to /\ \A s \in Runs, w \in Versions : <<s, w>> # <<r, v>> => reqs'[s][w] = reqs[s][w]
    BY <2>2, OneMoves
  <2>4. ASSUME r = tool.run
        PROVE  /\ to \in {"allowed", "direct", "handed"} /\ Bad(v) => Noticed(v)' \/ Excused
               /\ listing.bare => to \notin {"asked", "refused", "denied"}
               /\ v \in listing.left /\ to \in {"refused", "denied"} => env.shared \/ v \in degraded'
    <3>1. CASE JudgeDownload(r, v)
      <4>1. PICK verdict \in Decide(v, FALSE) :
               /\ Moves(r, v, IF verdict.blocked THEN "refused" ELSE "allowed")
               /\ Note(v, verdict)
        BY <3>1 DEF JudgeDownload, Evaluate
      <4>2. /\ reqs[tool.run][v] = "asked"
            /\ UNCHANGED <<bundle, known, approvals, unfiltered>>
        BY <2>4, <3>1 DEF JudgeDownload
      <4>3. (IF verdict.blocked THEN "refused" ELSE "allowed") \in RequestStates
        BY DEF RequestStates
      <4>4. to = IF verdict.blocked THEN "refused" ELSE "allowed"
        BY <2>3, <4>1, <4>3, OneMoves
      <4>5. ~listing.bare
        BY <4>2 DEF Fetched
      <4>6. CASE verdict.blocked
        <5>1. ASSUME v \in listing.left, ~env.shared PROVE v \in degraded'
          <6>1. Servable(v)
            BY <4>5, <5>1 DEF Listed
          <6> QED  BY <1>1, <4>1, <4>6, <5>1, <6>1, ServedIfServable
        <5> QED  BY <4>4, <4>5, <4>6, <5>1
      <4>7. CASE ~verdict.blocked
        <5>1. Bad(v) => Noticed(v)'
          BY <4>1, <4>2, <4>7, DecideIsHonest
        <5> QED  BY <4>4, <4>7, <5>1
      <4> QED  BY <4>6, <4>7
    <3>2. CASE AnswerDownload(r, v)
      <4>1. \/ reqs[tool.run][v] = "allowed" /\ to \in {"handed", "lost"}
            \/ reqs[tool.run][v] = "refused" /\ to \in {"denied", "lost"}
        <5>1. CASE Waiting(r)
          BY <2>3, <2>4, <3>2, <5>1, OneMoves DEF AnswerDownload, RequestStates
        <5>2. CASE ~Waiting(r)
          BY <2>3, <2>4, <3>2, <5>2, OneMoves DEF AnswerDownload, RequestStates
        <5> QED  BY <5>1, <5>2
      <4> QED  BY <1>1, <4>1, NoticeStands DEF Fetched
    <3>3. CASE FetchDirect(r, v)
      <4>1. reqs[tool.run][v] = "direct" /\ to = "handed"
        BY <2>3, <2>4, <3>3, OneMoves DEF FetchDirect, RequestStates
      <4> QED  BY <1>1, <4>1, NoticeStands DEF Fetched
    <3> QED  BY <1>12, <3>1, <3>2, <3>3
  <2>5. ASSUME NEW w \in Versions
        PROVE  /\ reqs'[tool.run][w] \in {"allowed", "direct", "handed"} /\ Bad(w)' => Noticed(w)' \/ Excused
               /\ listing.bare => reqs'[tool.run][w] \notin {"asked", "refused", "denied"}
               /\ w \in listing.left /\ reqs'[tool.run][w] \in {"refused", "denied"}
                     => env.shared \/ w \in degraded'
    <3>1. Bad(w)' => Bad(w)
      BY <2>1, BadShrinks
    <3>2. CASE <<tool.run, w>> = <<r, v>>
      BY <2>3, <2>4, <3>1, <3>2
    <3>3. CASE <<tool.run, w>> # <<r, v>>
      <4>1. reqs'[tool.run][w] = reqs[tool.run][w]
        BY <2>1, <2>3, <3>3
      <4> QED  BY <1>1, <3>1, <4>1, NoticeStands DEF Fetched
    <3> QED  BY <3>2, <3>3
  <2> QED  BY <1>1, <2>1, <2>5 DEF Fetched
<1> QED
  BY <1>4, <1>5, <1>6, <1>7, <1>8, <1>10, <1>11, <1>12 DEF Next

\* The invariant the properties of an install rest on.
Sure == Wrapped /\ NotYet /\ Judged /\ Listed /\ Fetched /\ Reported /\ CleanEnds

LEMMA AlwaysSure == Spec => []Sure
<1>1. Init => Sure
  <2> SUFFICES ASSUME Init PROVE Sure
    OBVIOUS
  <2>1. /\ tool.run = 1 /\ tool.pc = "start" /\ known = bundle
        /\ session.outcome = "" /\ session.pc \in {"running", "over"}
        /\ env.shared => session.pc = "over"
    BY DEF Init
  <2>2. \A r \in Runs, v \in Versions : reqs[r][v] = "none"
    BY DEF Init
  <2>3. listing.left = {} /\ stored.left = {} /\ listing.bare = FALSE /\ stored.bare = FALSE
    <3>1. None.left = {} /\ None.bare = FALSE
      BY DEF None
    <3>2. listing = None /\ stored = None
      BY DEF Init
    <3> QED  BY <3>1, <3>2
  <2>4. Wrapped /\ CleanEnds
    BY <2>1 DEF Wrapped, CleanEnds
  <2>5. NotYet /\ Reported
    BY <2>2 DEF NotYet, Reported
  <2>6. Judged
    BY <2>1 DEF Judged
  <2>7. Listed
    BY <2>1, <2>3 DEF Listed
  <2>8. Fetched
    <3>1. tool.run \in Runs
      BY <2>1, TwoRuns
    <3> QED  BY <2>2, <3>1 DEF Fetched
  <2> QED  BY <2>4, <2>5, <2>6, <2>7, <2>8 DEF Sure
<1>2. TypeOK /\ Sure /\ [Next]_vars => Sure'
  BY WrappedStands, NotYetStands, JudgedStands, ListedStands, FetchedStands, ReportedStands DEF Sure
<1> QED  BY <1>1, <1>2, InstallTypeOK, PTL DEF Spec

\* Bytes of a version the bundle would have refused reach the tool only with
\* the user's approval or next to a gate_degraded event: whatever the number
\* of versions and downloads, and in whatever order they are judged and
\* answered while the bundle is replaced.
THEOREM KnownBadIsNoticed == Spec => []NothingBadUnnoticed
<1>1. TypeOK /\ Sure => NothingBadUnnoticed
  <2> SUFFICES ASSUME TypeOK, Sure, NEW v \in Versions, Handed(v), Bad(v), ~Excused
               PROVE  Noticed(v)
    BY DEF NothingBadUnnoticed, Bad, Excused
  <2> QED  BY DEF Sure, Fetched, Handed
<1> QED  BY <1>1, AlwaysSure, InstallTypeOK, PTL

\* What a wrapped tool was offered is refused afterwards only if a lookup for
\* it failed.
THEOREM OffersAreKept == Spec => []OfferedIsServed
<1>1. TypeOK /\ Sure => OfferedIsServed
  <2> SUFFICES ASSUME TypeOK, Sure, ~env.shared, NEW v \in listing.left, reqs[tool.run][v] = "denied"
               PROVE  v \in degraded
    BY DEF OfferedIsServed
  <2>1. v \in Versions
    BY DEF TypeOK
  <2> QED  BY <2>1 DEF Sure, Fetched
<1> QED  BY <1>1, AlwaysSure, InstallTypeOK, PTL

\* A session is called clean only if its tool succeeded and met no refusal.
THEOREM CleanMeansClean == Spec => []CleanIsClean
<1>1. Sure => CleanIsClean
  BY DEF Sure, CleanIsClean, CleanEnds, Reported
<1> QED  BY <1>1, AlwaysSure, PTL
------------------------------------------------------------------------------
\* The listing: what is left of it and where its tags point.

\* A finite set of versions that is not empty has a newest.  The numbers of an
\* enumeration at which the prefix would have none have no least member.
LEMMA NewestExists ==
    ASSUME NEW S \in SUBSET Nat, IsFiniteSet(S), S # {}
    PROVE  Newest(S) \in S /\ \A w \in S : w <= Newest(S)
<1>1. PICK n \in Nat : ExistsBijection(1..n, S)
  BY FS_NatBijection
<1>2. PICK f \in [1..n -> S] : \A s \in S : \E i \in 1..n : f[i] = s
  BY <1>1 DEF ExistsBijection, Bijection, Surjection
<1> DEFINE Top(k) == \E v \in S : (\E i \in 1..k : f[i] = v) /\ \A i \in 1..k : f[i] <= v
           T == {k \in 1..n : ~Top(k)}
           R == {p \in Nat \X Nat : p[1] < p[2]}
<1>3. \A k \in 1..n : f[k] \in S /\ f[k] \in Nat
  BY <1>2
<1>4. n >= 1
  <2>1. PICK s \in S : TRUE
    OBVIOUS
  <2>2. PICK i \in 1..n : f[i] = s
    BY <1>2, <2>1
  <2> QED  BY <2>2
<1>5. \A k \in 1..n : (k > 1 => Top(k - 1)) => Top(k)
  <2> SUFFICES ASSUME NEW k \in 1..n, k > 1 => Top(k - 1)
               PROVE  Top(k)
    OBVIOUS
  <2>1. CASE k = 1
    <3>1. \A i \in 1..k : f[i] = f[k]
      BY <2>1
    <3> QED  BY <1>3, <2>1, <3>1
  <2>2. CASE k > 1
    <3>1. PICK v \in S : (\E i \in 1..(k - 1) : f[i] = v) /\ \A i \in 1..(k - 1) : f[i] <= v
      BY <2>2
    <3>2. \A i \in 1..k : i = k \/ i \in 1..(k - 1)
      OBVIOUS
    <3>3. v \in Nat /\ f[k] \in S /\ f[k] \in Nat /\ k \in 1..k /\ 1..(k - 1) \subseteq 1..k
      BY <1>3
    <3>4. CASE f[k] <= v
      BY <3>1, <3>2, <3>3, <3>4
    <3>5. CASE v <= f[k]
      <4>1. ASSUME NEW i \in 1..k PROVE f[i] <= f[k]
        <5>1. CASE i = k
          BY <3>3, <5>1
        <5>2. CASE i \in 1..(k - 1)
          <6>1. f[i] <= v /\ f[i] \in Nat
            BY <1>3, <3>1, <5>2
          <6> QED  BY <3>3, <3>5, <6>1
        <5> QED  BY <3>2, <5>1, <5>2
      <4> QED  BY <3>3, <4>1
    <3> QED  BY <3>3, <3>4, <3>5
  <2> QED  BY <2>1, <2>2
<1>6. Top(n)
  <2> HIDE DEF Top
  <2> SUFFICES ASSUME ~Top(n) PROVE FALSE
    OBVIOUS
  <2>1. T \subseteq Nat /\ n \in T
    BY <1>4
  <2>2. IsWellFoundedOn(R, Nat)
    BY NatLessThanWellFounded, Zenon DEF OpToRel
  <2>3. \E m \in T : \A k \in T : ~(<<k, m>> \in R)
    <3> HIDE DEF T, R
    <3> QED  BY <2>1, <2>2, WFMin, Zenon
  <2>4. PICK m \in T : \A k \in T : ~(k < m)
    <3> HIDE DEF T
    <3> QED  BY <2>1, <2>3
  <2>5. m \in 1..n /\ ~Top(m)
    BY <2>4
  <2>6. m > 1 => m - 1 \in 1..n
    BY <2>5
  <2>7. m > 1 => Top(m - 1)
    BY <2>4, <2>6
  <2> QED  BY <1>5, <2>5, <2>7
<1>7. PICK v \in S : \A i \in 1..n : f[i] <= v
  BY <1>6
<1>8. \A w \in S : w <= v
  BY <1>2, <1>7
<1> QED  BY <1>8 DEF Newest

\* The version a tag is moved to is one of those left.
LEMMA HighestIsLeft ==
    ASSUME NEW S \in SUBSET Versions, IsFiniteSet(S), S # {}
    PROVE  HighestVersion(S) \in S
<1>1. S \subseteq Nat /\ S \ Prereleases \subseteq Nat
  BY VersionsAssumption
<1>2. IsFiniteSet(S \ Prereleases)
  BY FS_Subset
<1>3. CASE S \subseteq Prereleases
  BY <1>1, <1>3, NewestExists DEF HighestVersion
<1>4. CASE ~(S \subseteq Prereleases)
  BY <1>1, <1>2, <1>4, NewestExists DEF HighestVersion
<1> QED  BY <1>3, <1>4

\* "repointDistTags moves any tag pointing at a removed version down to the highest
\* version that survived" (gate/npm.go): wherever the tags pointed, every one that
\* stays names a version that is left.
THEOREM TagsNameWhatIsLeft ==
    ASSUME NEW tags, NEW left \in SUBSET Versions, IsFiniteSet(left)
    PROVE  \A t \in DOMAIN RepointDistTags(tags, left) : RepointDistTags(tags, left)[t] \in left
<1> TAKE t \in DOMAIN RepointDistTags(tags, left)
<1>1. t \in DOMAIN tags /\ (tags[t] \in left \/ left # {})
  BY DEF RepointDistTags
<1>2. RepointDistTags(tags, left)[t] = IF tags[t] \in left THEN tags[t] ELSE HighestVersion(left)
  BY <1>1 DEF RepointDistTags
<1> QED  BY <1>1, <1>2, HighestIsLeft

\* A refusal is never for being new, so all that is missing for that reason is
\* missing because of the buffer.
LEMMA RefusedForAReason ==
    ASSUME TypeOK, NEW v, NEW tooNew, NEW verdict \in Decide(v, tooNew), verdict.blocked
    PROVE  verdict.why # "cooldown"
<1>1. verdict \in {Override, Degraded, Judge(v, bundle, tooNew)}
  BY DEF Decide
<1>2. verdict = Judge(v, bundle, tooNew)
  BY <1>1 DEF Override, Degraded
<1> DEFINE hits == {a \in bundle : v \in a.hits}
<1>3. CASE hits # {}
  <2>1. verdict = [blocked |-> Blocks(Worst(hits)), why |-> Reason(Worst(hits))]
    BY <1>2, <1>3 DEF Judge
  <2> HIDE DEF hits
  <2> QED  BY <2>1 DEF Reason
<1>4. CASE hits = {}
  BY <1>2, <1>4 DEF Judge, Cooldown, Clean
<1> QED  BY <1>3, <1>4

\* The verdicts of a listing under way: finitely many, and none refused for being
\* new.  There is a version to judge, or nothing would be installed.
Weighed ==
    /\ Versions # {} /\ IsFiniteSet(DOMAIN verdicts)
    /\ \A v \in DOMAIN verdicts : verdicts[v].blocked => verdicts[v].why # "cooldown"

TagsNameVersions == \A t \in DOMAIN env.tags : env.tags[t] \in Versions

LEMMA WeighedStands ==
    ASSUME TypeOK, Weighed, [Next]_vars
    PROVE  Weighed'
<1>1. CASE verdicts' = verdicts
  BY <1>1 DEF Weighed
<1>2. CASE DOMAIN verdicts' = {}
  BY <1>2, FS_EmptySet DEF Weighed
<1>3. CASE JudgeListed
  <2> DEFINE next == CHOOSE v \in Versions \ DOMAIN verdicts :
                        \A w \in Versions \ DOMAIN verdicts : v <= w
  <2>1. PICK verdict \in Decide(next, next \in env.fresh) :
           verdicts' = [w \in DOMAIN verdicts \cup {next} |->
                          IF w = next THEN verdict ELSE verdicts[w]]
    BY <1>3, Zenon DEF JudgeListed
  <2> HIDE DEF next
  <2>2. verdict.blocked => verdict.why # "cooldown"
    BY <2>1, RefusedForAReason
  <2>3. IsFiniteSet(DOMAIN verdicts \cup {next})
    BY FS_AddElement DEF Weighed
  <2>4. DOMAIN verdicts' = DOMAIN verdicts \cup {next}
    BY <2>1
  <2>5. \A w \in DOMAIN verdicts' : verdicts'[w].blocked => verdicts'[w].why # "cooldown"
    BY <2>1, <2>2, <2>4 DEF Weighed
  <2> QED  BY <2>3, <2>4, <2>5 DEF Weighed
<1>4. CASE AskListing \/ ReuseListing \/ Resolve \/ ReadLockfile
  BY <1>2, <1>4, NothingJudged DEF AskListing, ReuseListing, Resolve, ReadLockfile, Want
<1>5. ASSUME NEW r \in Runs, NEW v \in Versions,
             JudgeDownload(r, v) \/ AnswerDownload(r, v) \/ FetchDirect(r, v)
      PROVE  verdicts' = verdicts
  BY <1>5 DEF JudgeDownload, AnswerDownload, FetchDirect
<1>6. CASE AnswerListing \/ PassUnfiltered \/ SwapBundle \/ RunAgain \/ ReadDecisions
           \/ Conclude \/ OverrideAndRerun \/ EndRerun \/ UNCHANGED vars
  BY <1>1, <1>6 DEF AnswerListing, PassUnfiltered, SwapBundle, RunAgain, ReadDecisions,
                    Conclude, EndSession, OverrideAndRerun, EndRerun, vars
<1>7. ASSUME NEW ok \in BOOLEAN, Exit(ok) PROVE verdicts' = verdicts
  BY <1>7 DEF Exit
<1> QED  BY <1>1, <1>3, <1>4, <1>5, <1>6, <1>7 DEF Next

\* What AnswerListing answers leaves a choice.
LEMMA AnswerLeavesAChoice ==
    ASSUME TypeOK, Weighed, AnswerListing
    PROVE  ListingLeavesAChoice'
<1> DEFINE left == Offered(ApplyBuffer(verdicts))
<1>1. /\ DOMAIN verdicts = Versions /\ verdicts' = verdicts
      /\ listing'.left = left /\ listing'.tags = RepointDistTags(env.tags, left)
  BY DEF AnswerListing
<1>2. left \subseteq Versions /\ IsFiniteSet(left)
  <2>1. left \subseteq DOMAIN verdicts
    BY DEF Offered, ApplyBuffer
  <2> QED  BY <1>1, <2>1, FS_Subset DEF Weighed
<1>3. ASSUME NEW v \in Versions \ left, verdicts[v].why = "cooldown"
      PROVE  \E w \in left : verdicts[w].why # "cooldown"
  <2>1. ~verdicts[v].blocked
    BY <1>1, <1>3 DEF Weighed
  <2>2. Fallback(verdicts)
    BY <1>1, <1>3, <2>1 DEF Offered, ApplyBuffer
  <2>3. PICK w \in DOMAIN verdicts : ~verdicts[w].blocked /\ verdicts[w].why # "cooldown"
    BY <2>2 DEF Fallback
  <2>4. w \in left
    BY <2>3 DEF Offered, ApplyBuffer
  <2> QED  BY <2>3, <2>4
<1>4. ASSUME left = {}, NEW v \in Versions PROVE verdicts[v].blocked
  <2>1. CASE Fallback(verdicts)
    <3>1. PICK w \in DOMAIN verdicts : ~verdicts[w].blocked /\ verdicts[w].why # "cooldown"
      BY <2>1 DEF Fallback
    <3>2. w \in left
      BY <3>1 DEF Offered, ApplyBuffer
    <3> QED  BY <1>4, <3>2
  <2>2. CASE ~Fallback(verdicts)
    BY <1>1, <1>4, <2>2 DEF Offered, ApplyBuffer
  <2> QED  BY <2>1, <2>2
<1>5. \A t \in DOMAIN RepointDistTags(env.tags, left) : RepointDistTags(env.tags, left)[t] \in left
  BY <1>2, TagsNameWhatIsLeft
<1> HIDE DEF left
<1> QED  BY <1>1, <1>3, <1>4, <1>5 DEF ListingLeavesAChoice

\* "A buffer must never be the reason there is nothing left" (gate/gate.go), for
\* a listing as the tool gets it, whatever lookups failed, whichever bundles came
\* and went between two versions, and with every tag on a version that is there.
THEOREM ChoiceIsLeft == Spec => []ListingLeavesAChoice
<1>1. Init => Weighed /\ TagsNameVersions /\ ListingLeavesAChoice
  <2> SUFFICES ASSUME Init PROVE Weighed /\ TagsNameVersions /\ ListingLeavesAChoice
    OBVIOUS
  <2>1. DOMAIN verdicts = {} /\ Versions # {} /\ tool.pc = "start"
    BY NothingJudged DEF Init
  <2>2. PICK t \in {"npm", "pip"}, shared, blind \in BOOLEAN, fresh \in SUBSET Versions,
             latest \in Versions :
           env = [tool |-> t, shared |-> shared, blind |-> blind, fresh |-> fresh,
                  tags |-> IF t = "npm" THEN [latest |-> latest] ELSE <<>>]
    BY DEF Init
  <2>3. TagsNameVersions
    <3>1. CASE t = "npm"
      BY <2>2, <3>1 DEF TagsNameVersions
    <3>2. CASE t # "npm"
      BY <2>2, <3>2, NothingJudged DEF TagsNameVersions
    <3> QED  BY <3>1, <3>2
  <2> QED  BY <2>1, <2>3, FS_EmptySet DEF Weighed, ListingLeavesAChoice
<1>2. TypeOK /\ Weighed /\ TagsNameVersions /\ ListingLeavesAChoice /\ [Next]_vars
        => Weighed' /\ TagsNameVersions' /\ ListingLeavesAChoice'
  <2> SUFFICES ASSUME TypeOK, Weighed, TagsNameVersions, ListingLeavesAChoice, [Next]_vars
               PROVE  ListingLeavesAChoice'
    BY WeighedStands, Stays DEF TagsNameVersions
  <2>1. CASE UNCHANGED <<tool, listing, verdicts>>
    BY <2>1 DEF ListingLeavesAChoice
  <2>2. CASE tool'.pc # "listed" \/ DOMAIN verdicts' = {}
    BY <2>2 DEF ListingLeavesAChoice, Weighed
  <2>3. CASE AnswerListing
    BY <2>3, AnswerLeavesAChoice
  <2>4. CASE PassUnfiltered
    BY <2>4 DEF PassUnfiltered, ListingLeavesAChoice, TagsNameVersions, Weighed
  <2>5. CASE JudgeListed
    BY <2>2, <2>5 DEF JudgeListed
  <2>6. CASE AskListing \/ ReuseListing \/ Resolve \/ ReadLockfile
    BY <2>2, <2>6, NothingJudged DEF AskListing, ReuseListing, Resolve, ReadLockfile, Want
  <2>7. CASE RunAgain \/ OverrideAndRerun
    BY <2>2, <2>7 DEF RunAgain, OverrideAndRerun
  <2>8. ASSUME NEW ok \in BOOLEAN, Exit(ok) PROVE tool'.pc # "listed"
    BY <2>8 DEF Exit, TypeOK
  <2>9. ASSUME NEW r \in Runs, NEW v \in Versions,
               JudgeDownload(r, v) \/ AnswerDownload(r, v) \/ FetchDirect(r, v)
        PROVE  UNCHANGED <<tool, listing, verdicts>>
    BY <2>9 DEF JudgeDownload, AnswerDownload, FetchDirect
  <2>10. CASE SwapBundle \/ ReadDecisions \/ Conclude \/ EndRerun \/ UNCHANGED vars
    BY <2>1, <2>10 DEF SwapBundle, ReadDecisions, Conclude, EndSession, EndRerun, vars
  <2> QED
    BY <2>1, <2>2, <2>3, <2>4, <2>5, <2>6, <2>7, <2>8, <2>9, <2>10 DEF Next
<1> QED  BY <1>1, <1>2, InstallTypeOK, PTL DEF Spec

------------------------------------------------------------------------------
\* The script guard.

\* Nothing is built, now or by a script that goes on alone, but what a row is
\* on file for.
OnFile(p) == allowlist[p] # "none"
Guarded ==
    /\ \A t \in Terminals : cmd[t].at \in {"noted", "building"} => \A p \in cmd[t].pkgs : OnFile(p)
    /\ \A s \in strays : OnFile(s[2])

ScriptInv == GuardTypeOK /\ Guarded

LEMMA ScriptInit == GuardInit => ScriptInv
<1> SUFFICES ASSUME GuardInit PROVE ScriptInv
  OBVIOUS
<1>1. Rest.at = "idle" /\ Rest.pkgs = {} /\ Rest.dirs = {}
  BY DEF Rest
<1>2. edits \in 0..MaxEdits
  BY ScriptAssumption DEF GuardInit
<1>3. projectrc \in [Projects -> Settings]
  BY DEF GuardInit, Settings
<1>4. cmd \in [Terminals -> [at : {"idle", "set", "print", "delete", "noted", "building"},
                             pkgs : SUBSET Packages, dirs : SUBSET Projects]]
  BY DEF GuardInit, Rest
<1> QED  BY <1>1, <1>2, <1>3, <1>4 DEF GuardInit, ScriptInv, GuardTypeOK, Guarded

Commands == [at : {"idle", "set", "print", "delete", "noted", "building"},
             pkgs : SUBSET Packages, dirs : SUBSET Projects]

\* A terminal moves on to a step at which nothing is built.
LEMMA Elsewhere ==
    ASSUME ScriptInv, NEW t \in Terminals,
           \/ Ends(t)
           \/ \E at \in {"set", "print", "delete"} : Goto(t, at)
           \/ cmd[t].at = "noted" /\ Goto(t, "building")
    PROVE  /\ cmd' \in [Terminals -> Commands]
           /\ \A o \in Terminals : cmd'[o].at \in {"noted", "building"} =>
                 cmd[o].at \in {"noted", "building"} /\ cmd'[o].pkgs = cmd[o].pkgs
<1>1. cmd \in [Terminals -> Commands]
  BY DEF ScriptInv, GuardTypeOK, Commands
<1>2. Rest \in Commands /\ Rest.at = "idle"
  BY DEF Rest, Commands
<1>3. CASE Ends(t)
  BY <1>1, <1>2, <1>3 DEF Ends
<1>4. ASSUME NEW at \in {"set", "print", "delete", "building"}, Goto(t, at)
      PROVE  /\ cmd' \in [Terminals -> Commands]
             /\ \A o \in Terminals : cmd'[o].pkgs = cmd[o].pkgs /\ cmd'[o].at = IF o = t THEN at ELSE cmd[o].at
  BY <1>1, <1>4 DEF Goto, Commands
<1> QED  BY <1>3, <1>4

LEMMA BuiltInIsATree ==
    ASSUME GuardTypeOK, NEW done
    PROVE  BuiltIn(done) \in [Projects -> [Packages -> {"absent", "unbuilt", "built"}]]
BY DEF GuardTypeOK, BuiltIn

LEMMA RunningIsKnown ==
    ASSUME ScriptInv, NEW t \in Terminals
    PROVE  /\ Running(t) \in SUBSET (Projects \X Packages)
           /\ cmd[t].at = "building" => \A s \in Running(t) : OnFile(s[2])
BY DEF ScriptInv, GuardTypeOK, Guarded, Running

LEMMA ScriptStep == ScriptInv /\ [GuardNext]_guardVars => ScriptInv'
<1> SUFFICES ASSUME ScriptInv, [GuardNext]_guardVars PROVE ScriptInv'
  OBVIOUS
<1> USE ScriptAssumption
<1> USE DEF npm
<1>1. /\ GuardTypeOK /\ Guarded
      /\ GuardTypeOK' <=> /\ userrc' \in Settings /\ projectrc' \in [Projects -> Settings]
                     /\ allowlist' \in [Packages -> {"none", "active", "revoked"}]
                     /\ tree' \in [Projects -> [Packages -> {"absent", "unbuilt", "built"}]]
                     /\ cmd' \in [Terminals -> Commands]
                     /\ strays' \subseteq Projects \X Packages
                     /\ edits' \in 0..MaxEdits
  BY DEF ScriptInv, GuardTypeOK, Commands
<1>2. Edit => edits' \in 0..MaxEdits
  BY <1>1 DEF Edit, GuardTypeOK
<1>3. ASSUME NEW t \in Terminals, Enable(t) \/ PrintNeeding(t) \/ Disable(t) \/ StartRebuild(t) \/ EnableGuard(t) \/ DisableGuard(t)
      PROVE  ScriptInv'
  <2>1. /\ UNCHANGED <<projectrc, tree, allowlist, strays>> /\ userrc' \in Settings
        /\ edits' \in 0..MaxEdits
    BY <1>1, <1>2, <1>3
    DEF Enable, PrintNeeding, Disable, StartRebuild, EnableGuard, DisableGuard, GuardTypeOK, Settings
  <2>2. \/ Ends(t)
        \/ \E at \in {"set", "print", "delete"} : Goto(t, at)
        \/ cmd[t].at = "noted" /\ Goto(t, "building")
    BY <1>3 DEF Enable, PrintNeeding, Disable, StartRebuild, EnableGuard, DisableGuard
  <2>3. GuardTypeOK'
    BY <1>1, <2>1, <2>2, Elsewhere DEF GuardTypeOK
  <2>4. Guarded'
    BY <1>1, <2>1, <2>2, Elsewhere DEF Guarded, OnFile
  <2> QED  BY <2>3, <2>4 DEF ScriptInv
<1>4. ASSUME NEW t \in Terminals, Rebuilt(t) \/ RunFails(t) \/ CommandFails(t) PROVE ScriptInv'
  <2>1. /\ Ends(t) /\ UNCHANGED <<userrc, projectrc, allowlist>>
        /\ strays' = strays \/ (cmd[t].at = "building" /\ strays' = strays \cup Running(t))
        /\ tree' = tree \/ tree' = BuiltIn(Running(t))
        /\ edits' \in 0..MaxEdits
    BY <1>1, <1>2, <1>4 DEF Rebuilt, RunFails, CommandFails, GivesUp, GuardTypeOK
  <2>2. GuardTypeOK'
    BY <1>1, <2>1, Elsewhere, RunningIsKnown, BuiltInIsATree DEF GuardTypeOK
  <2>3. Guarded'
    BY <1>1, <2>1, Elsewhere, RunningIsKnown DEF Guarded, OnFile
  <2> QED  BY <2>2, <2>3 DEF ScriptInv
<1>5. ASSUME NEW t \in Terminals, NEW p \in Packages, NEW d \in Projects, Allow(t, p, d) PROVE ScriptInv'
  <2>1. edits' \in 0..MaxEdits /\ UNCHANGED <<userrc, projectrc, tree, strays>>
    BY <1>2, <1>5 DEF Allow
  <2>2. CASE allowlist' = [allowlist EXCEPT ![p] = "active"] /\ Noted(t, p, d)
    <3>1. /\ allowlist' \in [Packages -> {"none", "active", "revoked"}]
          /\ \A q \in Packages : allowlist'[q] = IF q = p THEN "active" ELSE allowlist[q]
      BY <1>1, <2>2 DEF GuardTypeOK
    <3>2. [at |-> "noted", pkgs |-> {p}, dirs |-> {d}] \in Commands
      BY DEF Commands
    <3>3. /\ cmd' \in [Terminals -> Commands]
          /\ \A o \in Terminals : o # t => cmd'[o] = cmd[o]
          /\ cmd'[t].pkgs = {p}
      BY <1>1, <2>2, <3>2 DEF Noted, GuardTypeOK, Commands
    <3>4. /\ \A o \in Terminals : cmd[o].pkgs \subseteq Packages
          /\ \A s \in strays : s[2] \in Packages
      BY <1>1 DEF GuardTypeOK
    <3>5. GuardTypeOK'
      BY <1>1, <2>1, <3>1, <3>3 DEF GuardTypeOK
    <3>6. Guarded'
      BY <1>1, <2>1, <3>1, <3>3, <3>4 DEF Guarded, OnFile
    <3> QED  BY <3>5, <3>6 DEF ScriptInv
  <2>3. CASE allowlist' = allowlist /\ NotRecorded(t, p, d)
    BY <1>1, <2>1, <2>3 DEF NotRecorded, ScriptInv, GuardTypeOK, Commands, Guarded, OnFile
  <2> QED  BY <1>5, <2>2, <2>3 DEF Allow
<1>6. ASSUME NEW d \in Projects, NEW p \in Packages, NpmInstall(d, p) PROVE ScriptInv'
  <2>1. edits' \in 0..MaxEdits /\ UNCHANGED <<userrc, projectrc, allowlist, cmd, strays>>
    BY <1>2, <1>6 DEF NpmInstall
  <2>2. tree' \in [Projects -> [Packages -> {"absent", "unbuilt", "built"}]]
    BY <1>1, <1>6 DEF NpmInstall, GuardTypeOK
  <2> QED  BY <1>1, <2>1, <2>2 DEF ScriptInv, GuardTypeOK, Commands, Guarded, OnFile
<1>7. ASSUME NEW p \in Packages, RevokeScripts(p) PROVE ScriptInv'
  <2>1. /\ edits' \in 0..MaxEdits /\ UNCHANGED <<userrc, projectrc, tree, cmd, strays>>
        /\ allowlist' = [allowlist EXCEPT ![p] = "revoked"]
    BY <1>2, <1>7 DEF RevokeScripts
  <2>2. /\ allowlist' \in [Packages -> {"none", "active", "revoked"}]
        /\ \A q \in Packages : allowlist'[q] = IF q = p THEN "revoked" ELSE allowlist[q]
    BY <1>1, <2>1 DEF GuardTypeOK
  <2>3. /\ \A o \in Terminals : cmd[o].pkgs \subseteq Packages
        /\ \A s \in strays : s[2] \in Packages
    BY <1>1 DEF GuardTypeOK
  <2>4. GuardTypeOK'
    BY <1>1, <2>1, <2>2 DEF GuardTypeOK, Commands
  <2>5. Guarded'
    BY <1>1, <2>1, <2>2, <2>3 DEF Guarded, OnFile
  <2> QED  BY <2>4, <2>5 DEF ScriptInv
<1>8. ASSUME NEW s \in strays, StrayEnds(s) PROVE ScriptInv'
  <2>1. /\ strays' \subseteq strays /\ tree' = BuiltIn({s})
        /\ UNCHANGED <<userrc, projectrc, allowlist, cmd, edits>>
    BY <1>8 DEF StrayEnds
  <2>2. GuardTypeOK'
    BY <1>1, <2>1, BuiltInIsATree DEF GuardTypeOK, Commands
  <2>3. Guarded'
    BY <1>1, <2>1 DEF Guarded, OnFile
  <2> QED  BY <2>2, <2>3 DEF ScriptInv
<1>9. CASE EditConfig
  <2>1. edits' \in 0..MaxEdits /\ UNCHANGED <<allowlist, tree, cmd, strays>>
    BY <1>2, <1>9 DEF EditConfig
  <2>2. userrc' \in Settings /\ projectrc' \in [Projects -> Settings]
    <3>1. CASE userrc' \in Settings \ {userrc} /\ UNCHANGED projectrc
      BY <1>1, <3>1 DEF GuardTypeOK
    <3>2. CASE UNCHANGED userrc /\ \E d \in Projects : \E v \in Settings \ {projectrc[d]} :
                                   projectrc' = [projectrc EXCEPT ![d] = v]
      BY <1>1, <3>2 DEF GuardTypeOK
    <3> QED  BY <1>9, <3>1, <3>2 DEF EditConfig
  <2>3. GuardTypeOK'
    BY <1>1, <2>1, <2>2 DEF GuardTypeOK, Commands
  <2>4. Guarded'
    BY <1>1, <2>1 DEF Guarded, OnFile
  <2> QED  BY <2>3, <2>4 DEF ScriptInv
<1>10. CASE UNCHANGED guardVars
  <2>1. GuardTypeOK'
    BY <1>1, <1>10 DEF GuardTypeOK, Commands, guardVars
  <2>2. Guarded'
    BY <1>1, <1>10 DEF Guarded, OnFile, guardVars
  <2> QED  BY <2>1, <2>2 DEF ScriptInv
<1> QED
  BY <1>3, <1>4, <1>5, <1>6, <1>7, <1>8, <1>9, <1>10 DEF GuardNext, Proceeds

LEMMA ScriptKeeps == GuardSpec => []ScriptInv
BY ScriptInit, ScriptStep, PTL DEF GuardSpec

\* The types of what npm, the allowlist and the commands hold.
THEOREM GuardTypeCorrect ==
    GuardSpec => []GuardTypeOK
<1>1. ScriptInv => GuardTypeOK
  BY DEF ScriptInv
<1> QED  BY <1>1, ScriptKeeps, PTL

\* Where ignore-scripts is in force no install script runs that no decision is
\* on file for, whatever failed, was killed or outlived its command
\* (cli/scripts.go, allowScriptsCmd: the row is written before npm rebuild).
THEOREM OnlyWhatWasAllowed ==
    GuardSpec => RunsOnlyWhatWasAllowed
<1> DEFINE A == \A d \in Projects, p \in Packages :
                   tree[d][p] = "unbuilt" /\ tree'[d][p] = "built" /\ Effective(d) = "true"
                       => allowlist[p] # "none"
<1>1. ScriptInv /\ [GuardNext]_guardVars => [A]_guardVars
  <2> SUFFICES ASSUME ScriptInv, GuardNext,
                      NEW d \in Projects, NEW p \in Packages,
                      tree[d][p] = "unbuilt", tree'[d][p] = "built", Effective(d) = "true"
               PROVE  allowlist[p] # "none"
    OBVIOUS
  <2>0. GuardTypeOK /\ tree' # tree
    BY DEF ScriptInv
  <2>1. ASSUME NEW t \in Terminals, Rebuilt(t) PROVE allowlist[p] # "none"
    <3>1. tree' = BuiltIn(Running(t)) /\ cmd[t].at = "building"
      BY <2>1 DEF Rebuilt
    <3>2. <<d, p>> \in Running(t)
      BY <3>1 DEF BuiltIn
    <3> QED  BY <3>1, <3>2, RunningIsKnown DEF OnFile
  <2>2. ASSUME NEW s \in strays, StrayEnds(s) PROVE allowlist[p] # "none"
    <3>1. tree' = BuiltIn({s})
      BY <2>2 DEF StrayEnds
    <3>2. <<d, p>> = s
      BY <3>1 DEF BuiltIn
    <3> QED  BY <3>2 DEF ScriptInv, Guarded, OnFile
  <2>3. ASSUME NEW e \in Projects, NEW q \in Packages, NpmInstall(e, q) PROVE FALSE
    <3>1. tree'[d][p] = IF d = e /\ p = q THEN (IF Effective(e) = "true" THEN "unbuilt" ELSE "built") ELSE tree[d][p]
      BY <2>0, <2>3 DEF NpmInstall, GuardTypeOK
    <3> QED  BY <3>1
  <2>4. ASSUME \/ \E t \in Terminals : \/ Proceeds(t) \/ EnableGuard(t) \/ DisableGuard(t) \/ CommandFails(t)
                                       \/ \E q \in Packages, e \in Projects : Allow(t, q, e)
               \/ \E q \in Packages : RevokeScripts(q)
               \/ EditConfig
        PROVE  tree' = tree
    BY <2>4 DEF Proceeds, Enable, PrintNeeding, Disable, StartRebuild, RunFails, EnableGuard, DisableGuard,
                CommandFails, Allow, RevokeScripts, EditConfig, npm
  <2> QED  BY <2>0, <2>1, <2>2, <2>3, <2>4 DEF GuardNext
<1> QED  BY ScriptKeeps, <1>1, PTL DEF RunsOnlyWhatWasAllowed, GuardSpec

=============================================================================
