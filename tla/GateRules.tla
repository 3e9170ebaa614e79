----------------------------- MODULE GateRules -----------------------------
(***************************************************************************)
(* What the gate says of the versions of one package: gate/gate.go (decide,*)
(* beats, applyBuffer), match/match.go (Score, tierFor) and what is left   *)
(* of a listing: gate/npm.go (filterPackument, repointDistTags,            *)
(* highestVersion).                                                        *)
(*                                                                         *)
(* Versions are numbered in semver order.  An advisory is the set of       *)
(* versions it affects, whether it is a malware record, and what its CVSS  *)
(* counts as: its score, or 5 where it has none (Score's base).  A gate    *)
(* scores with project scope, seen now and no scripts, so only the malware *)
(* multiplier is left of Score; and as tierFor puts malware on top         *)
(* whatever it scores, PromoteTiers makes no difference to a gate's tier.  *)
(***************************************************************************)
EXTENDS Integers, FiniteSets

CONSTANTS
    Versions,
    Prereleases,
    BlockTier     \* config's block_tier: 1 low, 2 medium, 3 high, 4 critical

ASSUME VersionsAssumption == Versions \subseteq Nat /\ Prereleases \subseteq Versions
ASSUME TierAssumption == BlockTier \in 1..4

Advisory == [hits : SUBSET Versions, malware : BOOLEAN, cvss : 0..10]
Reasons == {"none", "malware", "vulnerability", "cooldown", "degraded", "override"}
Verdict == [blocked : BOOLEAN, why : Reasons]

HeldBack == [blocked |-> TRUE, why |-> "cooldown"]
Clean == [blocked |-> FALSE, why |-> "none"]
Cooldown == [blocked |-> FALSE, why |-> "cooldown"]
\* Mutant: a degraded verdict that does not say so.
Unexplained == [blocked |-> FALSE, why |-> ""]

Degraded == [blocked |-> FALSE, why |-> "degraded"]
Override == [blocked |-> FALSE, why |-> "override"]

------------------------------------------------------------------------------
\* One version.

Score(a) == IF a.malware THEN 4 * a.cvss ELSE a.cvss

\* tierFor, of the base or of the score: they differ for malware alone.
Tier(a) == IF a.malware \/ a.cvss >= 9 THEN 4
           ELSE IF a.cvss >= 7 THEN 3
           ELSE IF a.cvss >= 4 THEN 2 ELSE 1

Blocks(a) == a.malware \/ Tier(a) >= BlockTier

\* Mutant: the score alone decides which advisory is the one reported.
BeatsByScore(a, b) == Score(a) > Score(b)

\* Malware before anything else, then the higher score.
Beats(a, b) == \/ a.malware /\ ~b.malware
               \/ a.malware = b.malware /\ Score(a) > Score(b)

\* The advisory a verdict is about: one that no other beats.
Worst(A) == CHOOSE a \in A : \A b \in A : ~Beats(b, a)

Reason(a) == IF a.malware THEN "malware" ELSE "vulnerability"

\* decide, after the override and the coverage checks.  Only a listing tells
\* when a version was published, so only there can one be too new.
Judge(v, advisories, tooNew) ==
    LET hits == {a \in advisories : v \in a.hits}
    IN  IF hits # {} THEN [blocked |-> Blocks(Worst(hits)), why |-> Reason(Worst(hits))]
        ELSE IF tooNew THEN Cooldown ELSE Clean

------------------------------------------------------------------------------
\* A listing: a verdict for each version of it.

\* Mutant: too new is reason enough.
BufferEverything(verdicts) ==
    [v \in DOMAIN verdicts |-> IF verdicts[v].why = "cooldown" THEN HeldBack
                                 ELSE verdicts[v]]

\* Something that is neither refused nor held back.
Fallback(verdicts) == \E v \in DOMAIN verdicts : ~verdicts[v].blocked /\ verdicts[v].why # "cooldown"

ApplyBuffer(verdicts) ==
    [v \in DOMAIN verdicts |->
        IF Fallback(verdicts) /\ ~verdicts[v].blocked /\ verdicts[v].why = "cooldown"
          THEN HeldBack
          ELSE verdicts[v]]

Offered(verdicts) == {v \in DOMAIN verdicts : ~verdicts[v].blocked}

Newest(S) == CHOOSE v \in S : \A w \in S : w <= v

\* highestVersion: a prerelease only if there is nothing else.
HighestVersion(S) == IF S \subseteq Prereleases THEN Newest(S) ELSE Newest(S \ Prereleases)

\* Mutant: a tag stays where it is.
TagsAsTheyAre(tags, left) == tags

\* repointDistTags.  With nothing left the tag goes as well.
RepointDistTags(tags, left) ==
    [t \in {t \in DOMAIN tags : tags[t] \in left \/ left # {}} |->
        IF tags[t] \in left THEN tags[t] ELSE HighestVersion(left)]
=============================================================================
