-------------------------- MODULE InstallSession --------------------------
(***************************************************************************)
(* One install of one package through a registry gate: gate/npm.go and     *)
(* gate/pypi.go answer the package manager, gate/gate.go judges,           *)
(* repo/sessions.go keeps the decisions and the overrides, and cli/wrap.go *)
(* runs the package manager, reads the decisions and offers the override.  *)
(*                                                                         *)
(* The package manager is outside the repository: it asks for the listing  *)
(* (or has it in its HTTP cache, or has a lockfile), wants some versions,  *)
(* downloads them concurrently and exits.  Reads and writes of agent.db    *)
(* are taken to succeed; a lookup in the bundle may fail.                  *)
(***************************************************************************)
EXTENDS GateRules

CONSTANTS
    Advisories,   \* what a bundle may hold about this package
    Opaque,       \* versions no comparator can read (Affects: firstErr)
    MaxFailures,  \* bound: lookups that fail
    MaxWanted     \* bound: versions one run downloads

ASSUME BoundsAssumption == MaxFailures \in Nat /\ MaxWanted \in Nat \ {0}
ASSUME AdvisoriesAssumption == Advisories \subseteq Advisory /\ Opaque \subseteq Versions

Runs == 1..2      \* the install, and its re-run
None == [left |-> {}, tags |-> <<>>, bare |-> FALSE, cached |-> FALSE]

VARIABLES
    env,          \* what is fixed: the tool, whose gate it is, what gate.Open saw, the registry
    bundle,       \* advisories in the attached database
    known,        \* those attached ever since this run began (history)
    tool,         \* the package manager: run, where it is, its exit
    verdicts,     \* EvaluateSet under way: the versions judged so far
    listing,      \* the listing the tool resolves from
    stored,       \* the tool's HTTP cache
    reqs,         \* the downloads of each run
    rows,         \* install_decisions of this session: <<version, decision>>
    degraded,     \* versions with a gate_degraded event
    unfiltered,   \* a gate_degraded event for the package's listing
    approvals,    \* session_approvals: <<session, version>>
    session       \* the wrapper: where it is, the refusals it read, the outcome

vars == <<env, bundle, known, tool, verdicts, listing, stored, reqs, rows, degraded,
          unfiltered, approvals, session>>
gate == <<rows, degraded, unfiltered>>

RequestStates == {"none", "asked", "allowed", "refused", "direct", "handed", "denied", "lost"}

TypeOK ==
    /\ bundle \subseteq Advisories /\ known \subseteq bundle
    /\ tool \in [run : Runs, pc : {"start", "asking", "listed", "fetching", "exited"}, ok : BOOLEAN]
    /\ DOMAIN verdicts \subseteq Versions
    /\ \A v \in DOMAIN verdicts : verdicts[v] \in Verdict
    /\ \A l \in {listing, stored} : l.left \subseteq Versions /\ l.bare \in BOOLEAN
    /\ reqs \in [Runs -> [Versions -> RequestStates]]
    /\ rows \subseteq Versions \X {"withheld", "blocked"}
    /\ degraded \subseteq Versions /\ unfiltered \in BOOLEAN
    /\ approvals \subseteq {"past", "this"} \X Versions
    /\ session \in [pc : {"running", "read", "rerun", "over"}, shown : SUBSET Versions,
                     outcome : {"", "clean", "blocked", "approved", "aborted"}]

Init ==
    /\ \E t \in {"npm", "pip"}, shared, blind \in BOOLEAN, fresh \in SUBSET Versions,
          latest \in Versions :
          env = [tool |-> t, shared |-> shared, blind |-> blind, fresh |-> fresh,
                 tags |-> IF t = "npm" THEN [latest |-> latest] ELSE <<>>]
    /\ bundle \in SUBSET Advisories
    /\ known = bundle
    /\ tool = [run |-> 1, pc |-> "start", ok |-> FALSE]
    /\ verdicts = <<>>
    /\ listing = None /\ stored = None
    /\ reqs = [r \in Runs |-> [v \in Versions |-> "none"]]
    /\ rows = {} /\ degraded = {} /\ unfiltered = FALSE
    /\ approvals = {"past"} \X Versions      \* an earlier session approved everything
    /\ session = [pc |-> IF env.shared THEN "over" ELSE "running", shown |-> {}, outcome |-> ""]

------------------------------------------------------------------------------
\* The gate.

\* Mutant: an approval counts whichever session gave it.
ApprovedByAnyone(v) == \E s \in {"past", "this"} : <<s, v>> \in approvals

\* The shared ports have no session, and what has no session has no approval.
\* An approval of the package as a whole is one of each of its versions.
IsApproved(v) == ~env.shared /\ <<"this", v>> \in approvals

\* decide.  Degraded also stands for a lookup that failed or a matcher that
\* panicked.
Decide(v, tooNew) ==
    IF IsApproved(v) THEN {Override}
    ELSE IF env.blind THEN {Degraded}
    ELSE {Judge(v, bundle, tooNew)}
         \cup (IF Cardinality(degraded) < MaxFailures THEN {Degraded} ELSE {})

Note(v, verdict) == degraded' = IF verdict = Degraded THEN degraded \cup {v} ELSE degraded

\* Rows of the shared ports carry no session: no wrapper reads them.
Record(new) == rows' = IF env.shared THEN rows ELSE rows \cup new

\* EvaluateSet for a listing: version after version, and the lease lets a
\* bundle be replaced between two of them.
JudgeListed ==
    /\ tool.pc = "asking" /\ DOMAIN verdicts # Versions
    /\ LET v == CHOOSE v \in Versions \ DOMAIN verdicts :
                   \A w \in Versions \ DOMAIN verdicts : v <= w
       IN  \E verdict \in Decide(v, v \in env.fresh) :
              /\ verdicts' = [w \in DOMAIN verdicts \cup {v} |->
                                 IF w = v THEN verdict ELSE verdicts[w]]
              /\ Note(v, verdict)
    /\ UNCHANGED <<env, bundle, known, tool, listing, stored, reqs, rows, unfiltered,
                   approvals, session>>

\* The listing without what is withheld.
AnswerListing ==
    /\ tool.pc = "asking" /\ DOMAIN verdicts = Versions
    /\ LET left == Offered(ApplyBuffer(verdicts))
       IN  /\ Record((Versions \ left) \X {"withheld"})
           /\ listing' = [left |-> left, tags |-> RepointDistTags(env.tags, left),
                          bare |-> FALSE, cached |-> FALSE]
    /\ stored' = listing'
    /\ tool' = [tool EXCEPT !.pc = "listed"]
    /\ UNCHANGED <<env, bundle, known, verdicts, reqs, degraded, unfiltered, approvals, session>>

\* A listing that cannot be parsed is passed on as it came, its download links
\* still the registry's own: before any version is judged, or after all were and
\* what was withheld is on record, when it is the tags that cannot be read.
PassUnfiltered ==
    /\ tool.pc = "asking"
    /\ \/ verdicts = <<>> /\ rows' = rows
       \/ DOMAIN verdicts = Versions
            /\ Record((Versions \ Offered(ApplyBuffer(verdicts))) \X {"withheld"})
    /\ listing' = [left |-> Versions, tags |-> env.tags, bare |-> TRUE, cached |-> FALSE]
    /\ stored' = listing'
    /\ unfiltered' = TRUE
    /\ tool' = [tool EXCEPT !.pc = "listed"]
    /\ UNCHANGED <<env, bundle, known, verdicts, reqs, degraded, approvals, session>>

\* Mutant: a download is judged by the listing's rules, buffer and all.
EvaluateAsListing(v) ==
    {IF verdict.why = "cooldown" THEN HeldBack ELSE verdict :
        verdict \in Decide(v, v \in env.fresh)}

\* Evaluate for a download: no publication time, and a list of one has
\* nothing to fall back to.
Evaluate(v) == Decide(v, FALSE)

Moves(r, v, to) == reqs' = [reqs EXCEPT ![r] = [@ EXCEPT ![v] = to]]

JudgeDownload(r, v) ==
    /\ reqs[r][v] = "asked"
    /\ \E verdict \in Evaluate(v) :
          /\ Moves(r, v, IF verdict.blocked THEN "refused" ELSE "allowed")
          /\ Note(v, verdict)
    /\ UNCHANGED <<env, bundle, known, tool, verdicts, listing, stored, rows, unfiltered,
                   approvals, session>>

Waiting(r) == tool.run = r /\ tool.pc = "fetching"

\* Whoever has exited gets no answer, but the decision is recorded.
AnswerDownload(r, v) ==
    /\ \/ /\ reqs[r][v] = "allowed"
          /\ Moves(r, v, IF Waiting(r) THEN "handed" ELSE "lost")
          /\ UNCHANGED rows
       \/ /\ reqs[r][v] = "refused"
          /\ Moves(r, v, IF Waiting(r) THEN "denied" ELSE "lost")
          /\ Record({<<v, "blocked">>})
    /\ UNCHANGED <<env, bundle, known, tool, verdicts, listing, stored, degraded, unfiltered,
                   approvals, session>>

\* The daemon's bundle is replaced under its gate.  A wrapper's gate keeps
\* the file it opened.
SwapBundle ==
    /\ env.shared
    /\ \E new \in SUBSET Advisories \ {bundle} : bundle' = new
    /\ known' = known \cap bundle'
    /\ UNCHANGED <<env, tool, verdicts, listing, stored, reqs, gate, approvals, session>>

------------------------------------------------------------------------------
\* The package manager.

AskListing ==
    /\ tool.pc = "start"
    /\ tool' = [tool EXCEPT !.pc = "asking"]
    /\ verdicts' = <<>>
    /\ UNCHANGED <<env, bundle, known, listing, stored, reqs, gate, approvals, session>>

\* The registry's validators and lifetimes pass through the gate, so a
\* listing it filtered once may be used again.
ReuseListing ==
    /\ tool.pc = "start" /\ stored # None
    /\ listing' = [left |-> stored.left, tags |-> stored.tags, bare |-> stored.bare, cached |-> TRUE]
    /\ tool' = [tool EXCEPT !.pc = "listed"]
    /\ verdicts' = <<>>
    /\ UNCHANGED <<env, bundle, known, stored, reqs, gate, approvals, session>>

Want(S, how) ==
    /\ S # {} /\ Cardinality(S) <= MaxWanted
    /\ tool' = [tool EXCEPT !.pc = "fetching"]
    /\ verdicts' = <<>>
    /\ reqs' = [reqs EXCEPT ![tool.run] = [v \in Versions |-> IF v \in S THEN how ELSE @[v]]]

\* pip downloads from the file server the listing names, and so does npm
\* from a listing the gate did not rewrite.
Resolve ==
    /\ tool.pc = "listed"
    /\ \E S \in SUBSET listing.left :
          Want(S, IF env.tool = "pip" \/ listing.bare THEN "direct" ELSE "asked")
    /\ UNCHANGED <<env, bundle, known, listing, stored, gate, approvals, session>>

\* npm ci: the versions are written in package-lock.json.
ReadLockfile ==
    /\ env.tool = "npm" /\ tool.pc = "start"
    /\ \E S \in SUBSET Versions : Want(S, "asked")
    /\ listing' = None
    /\ UNCHANGED <<env, bundle, known, stored, gate, approvals, session>>

FetchDirect(r, v) ==
    /\ reqs[r][v] = "direct" /\ Waiting(r)
    /\ Moves(r, v, "handed")
    /\ UNCHANGED <<env, bundle, known, tool, verdicts, listing, stored, gate, approvals, session>>

\* It may give up at any moment, with downloads still under way.  It succeeds
\* when each is answered: a refused one may be an optional dependency.
Exit(ok) ==
    /\ tool.pc # "exited"
    /\ ok => /\ tool.pc = "fetching"
             /\ \A v \in Versions : reqs[tool.run][v] \in {"none", "handed", "denied"}
    /\ tool' = [tool EXCEPT !.pc = "exited", !.ok = ok]
    /\ UNCHANGED <<env, bundle, known, verdicts, listing, stored, reqs, gate, approvals, session>>

\* Without a wrapper: somebody runs the same install again.
RunAgain ==
    /\ env.shared /\ tool.pc = "exited" /\ tool.run = 1
    /\ tool' = [run |-> 2, pc |-> "start", ok |-> FALSE]
    /\ known' = bundle
    /\ UNCHANGED <<env, bundle, verdicts, listing, stored, reqs, gate, approvals, session>>

------------------------------------------------------------------------------
\* The wrapper: runWrapped after the tool has exited.

SessionDecisions == {v \in Versions : <<v, "blocked">> \in rows}
SessionWithheld == {v \in Versions : <<v, "withheld">> \in rows}

ReadDecisions ==
    /\ session.pc = "running" /\ tool.pc = "exited"
    /\ session' = [session EXCEPT !.pc = "read", !.shown = SessionDecisions]
    /\ UNCHANGED <<env, bundle, known, tool, verdicts, listing, stored, reqs, gate, approvals>>

\* Mutant: the exit code alone says whether anything went wrong.
NothingFailed == tool.ok \/ SessionWithheld = {}

\* No refusal, and no resolution that failed for want of the withheld.
NothingToReport == session.shown = {} /\ (tool.ok \/ SessionWithheld = {})

EndSession(outcome) ==
    /\ session' = [session EXCEPT !.pc = "over", !.outcome = outcome]
    /\ UNCHANGED <<env, bundle, known, tool, verdicts, listing, stored, reqs, gate, approvals>>

Conclude ==
    /\ session.pc = "read"
    /\ \/ NothingToReport /\ EndSession(IF tool.ok THEN "clean" ELSE "aborted")
       \/ ~NothingToReport /\ EndSession("blocked")      \* nobody to ask
       \/ ~NothingToReport /\ EndSession("aborted")      \* asked, and approved nothing

\* promptOverride: refused downloads one by one, what was withheld as a whole.
OverrideAndRerun ==
    /\ session.pc = "read" /\ ~NothingToReport
    /\ \E named \in SUBSET session.shown, package \in BOOLEAN :
          /\ package => SessionWithheld # {}
          /\ named # {} \/ package
          /\ approvals' = approvals \cup ({"this"} \X (IF package THEN Versions ELSE named))
    /\ session' = [session EXCEPT !.pc = "rerun"]
    /\ tool' = [run |-> 2, pc |-> "start", ok |-> FALSE]
    /\ known' = bundle
    /\ UNCHANGED <<env, bundle, verdicts, listing, stored, reqs, gate>>

EndRerun == session.pc = "rerun" /\ tool.pc = "exited" /\ EndSession("approved")

------------------------------------------------------------------------------
Next ==
    \/ JudgeListed \/ AnswerListing \/ PassUnfiltered \/ SwapBundle
    \/ \E r \in Runs, v \in Versions :
          JudgeDownload(r, v) \/ AnswerDownload(r, v) \/ FetchDirect(r, v)
    \/ AskListing \/ ReuseListing \/ Resolve \/ ReadLockfile \/ RunAgain
    \/ \E ok \in BOOLEAN : Exit(ok)
    \/ ReadDecisions \/ Conclude \/ OverrideAndRerun \/ EndRerun

Spec == Init /\ [][Next]_vars

------------------------------------------------------------------------------
Handed(v) == reqs[tool.run][v] = "handed"
Noticed(v) == <<"this", v>> \in approvals \/ v \in degraded \/ unfiltered

\* Bytes of a version that an advisory blocks, one attached from the start of
\* the run on, are handed over only if the user approved it in this session or
\* a gate_degraded event says that nothing was checked.  npm's own cache of an
\* old listing does not matter, for the download is judged as well; pip has
\* only the listing, so on the shared port what it cached is excepted.
NothingBadUnnoticed ==
    \A v \in Versions :
        /\ Handed(v)
        /\ \E a \in known : v \in a.hits /\ Blocks(a)
        /\ ~(env.tool = "pip" /\ env.shared /\ listing.cached)
        => Noticed(v)

\* What a wrapped npm was offered it can also download: a resolver that picked
\* from the listing meets no refusal, whatever is cached or too new.
OfferedIsServed ==
    ~env.shared =>
        \A v \in listing.left : reqs[tool.run][v] = "denied" => v \in degraded

\* The publish buffer is never the reason nothing is left: it withholds only
\* next to a version that is neither refused nor too new, and every tag of
\* the listing names a version that is still there.
ListingLeavesAChoice ==
    tool.pc = "listed" /\ DOMAIN verdicts = Versions =>
        /\ (\E v \in Versions \ listing.left : verdicts[v].why = "cooldown")
             => \E w \in listing.left : verdicts[w].why # "cooldown"
        /\ listing.left = {} => \A v \in Versions : verdicts[v].blocked
        /\ \A t \in DOMAIN listing.tags : listing.tags[t] \in listing.left

\* A session recorded as clean is one whose tool succeeded without a single
\* refusal.
CleanIsClean ==
    session.outcome = "clean" =>
        tool.ok /\ \A r \in Runs, v \in Versions : reqs[r][v] # "denied"

\* "It fails open LOUDLY: every degraded evaluation writes a gate_degraded
\* event" (gate/gate.go): what is handed over although an advisory about the
\* package could not be compared with it has one.
LoudlyOpen ==
    \A v \in Opaque : Handed(v) /\ (\E a \in known : v \notin a.hits) => Noticed(v)
=============================================================================
