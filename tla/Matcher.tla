------------------------------ MODULE Matcher ------------------------------
(***************************************************************************)
(* Is an installed version inside an advisory, and which version to move   *)
(* to: match/match.go (Affects, inRange) and match/fix.go (FixFor,         *)
(* lowestFix), for any set of ecosystems and whatever their comparators    *)
(* (match/ecosystem.go) read and answer.                                   *)
(*                                                                         *)
(* The state is one package and one advisory about it.  Upstream amends    *)
(* and withdraws the advisory, the watcher matches, and a person installs  *)
(* the version that the finding names.                                     *)
(***************************************************************************)
EXTENDS Integers, FiniteSets

CONSTANTS
    Ecosystems,          \* those with a comparator
    NoComparator,        \* any other
    Strings,             \* what may stand where a version is expected
    NoBound,             \* the empty string, and "0" as introduced
    Reads(_, _),         \* an ecosystem's comparator parses a string
    Compare(_, _, _),    \* its answer on two that it parses
    Earlier(_, _),       \* the order of strings
    Published(_),        \* bound: the intervals of an ecosystem's advisories
    MaxEntries           \* bound: versions and intervals of an advisory

ASSUME NamesAssumption == NoComparator \notin Ecosystems /\ NoBound \notin Strings
ASSUME PublishedAssumption ==
    \A e \in Ecosystems \cup {NoComparator} :
        Published(e) \subseteq [introduced : Strings \cup {NoBound}, fixed : Strings \cup {NoBound},
                                last : Strings \cup {NoBound}]

\* A comparator reads both its sides, and answers -1, 0 or 1.
ASSUME CompareAssumption ==
    \A e \in Ecosystems : \A u, v \in {s \in Strings : Reads(e, s)} :
        /\ Compare(e, u, v) \in {-1, 0, 1}
        /\ Compare(e, u, v) = -Compare(e, v, u)
        /\ \A w \in {s \in Strings : Reads(e, s)} :
              Compare(e, u, v) <= 0 /\ Compare(e, v, w) <= 0 => Compare(e, u, w) <= 0

VARIABLES
    advisory,    \* [ecosystem, malware, withdrawn, exact, ranges]
    installed,
    verdict,     \* of the last match: "none", "hit", "clean", "unsure" for an error
    advised,     \* the version its finding names, NoBound for none
    left         \* history: the versions left on the finding's advice

vars == <<advisory, installed, verdict, advised, left>>

------------------------------------------------------------------------------
\* inRange reads the bounds one after the other; the first that settles the
\* matter or cannot be read ends it.

Readable(e, v, b) == Reads(e, v) /\ Reads(e, b)

\* Mutant: the fixed version is still affected.
InRangeInclusive(e, v, r) ==
    IF r.introduced # NoBound /\ ~Readable(e, v, r.introduced) THEN "error"
    ELSE IF r.introduced # NoBound /\ Compare(e, v, r.introduced) < 0 THEN "out"
    ELSE IF r.fixed # NoBound /\ ~Readable(e, v, r.fixed) THEN "error"
    ELSE IF r.fixed # NoBound /\ Compare(e, v, r.fixed) > 0 THEN "out"
    ELSE IF r.last # NoBound /\ ~Readable(e, v, r.last) THEN "error"
    ELSE IF r.last # NoBound /\ Compare(e, v, r.last) > 0 THEN "out"
    ELSE "in"

InRange(e, v, r) ==
    IF r.introduced # NoBound /\ ~Readable(e, v, r.introduced) THEN "error"
    ELSE IF r.introduced # NoBound /\ Compare(e, v, r.introduced) < 0 THEN "out"
    ELSE IF r.fixed # NoBound /\ ~Readable(e, v, r.fixed) THEN "error"
    ELSE IF r.fixed # NoBound /\ Compare(e, v, r.fixed) >= 0 THEN "out"
    ELSE IF r.last # NoBound /\ ~Readable(e, v, r.last) THEN "error"
    ELSE IF r.last # NoBound /\ Compare(e, v, r.last) > 0 THEN "out"
    ELSE "in"

\* By its string, or by another string of the same version.
Named(a, v) == \E x \in a.exact : x = v \/ (Readable(a.ecosystem, v, x) /\ Compare(a.ecosystem, v, x) = 0)

\* Mutant: the first interval that cannot be read is the end of the advisory,
\* and nobody is told.
AffectsQuietly(a, v) ==
    IF a.withdrawn THEN "clean"
    ELSE IF a.ecosystem = NoComparator THEN "unsure"
    ELSE IF Named(a, v) \/ \E r \in a.ranges : InRange(a.ecosystem, v, r) = "in" THEN "hit"
    ELSE "clean"

\* An interval that cannot be read does not end the search.
Affects(a, v) ==
    IF a.withdrawn THEN "clean"
    ELSE IF a.ecosystem = NoComparator THEN "unsure"
    ELSE IF Named(a, v) \/ \E r \in a.ranges : InRange(a.ecosystem, v, r) = "in" THEN "hit"
    ELSE IF \E r \in a.ranges : InRange(a.ecosystem, v, r) = "error" THEN "unsure"
    ELSE "clean"

------------------------------------------------------------------------------
\* FixFor.  Of two bounds that are equal versions either may be named.

Fixed(a) == {r.fixed : r \in a.ranges} \ {NoBound}

LowestFix(a) == {f \in Fixed(a) : \A g \in Fixed(a) : ~Earlier(g, f)}

\* The bounds above the installed version: another is "a different branch's fix".
Above(a, v) == {f \in Fixed(a) : /\ a.ecosystem # NoComparator
                                 /\ Readable(a.ecosystem, f, v)
                                 /\ Compare(a.ecosystem, f, v) > 0}

\* Mutant: the order of strings.
NearestByString(a, v) == {f \in Above(a, v) : \A g \in Above(a, v) : ~Earlier(g, f)}

Nearest(a, v) == {f \in Above(a, v) : \A g \in Above(a, v) : Compare(a.ecosystem, f, g) <= 0}

\* What may be answered; NoBound says that no fix is published.
FixFor(a, v) ==
    IF a.malware \/ Fixed(a) = {} THEN {NoBound}
    ELSE IF Above(a, v) # {} THEN Nearest(a, v) ELSE LowestFix(a)

------------------------------------------------------------------------------
Init ==
    /\ advisory \in [ecosystem : Ecosystems \cup {NoComparator}, malware : BOOLEAN,
                     withdrawn : {FALSE}, exact : {{}}, ranges : {{}}]
    /\ installed \in Strings
    /\ verdict = "none" /\ advised = NoBound /\ left = {}

Unmatched == verdict' = "none" /\ advised' = NoBound

\* The watcher matches; a finding is shown with the fix that FixFor names.
Match ==
    /\ verdict' = Affects(advisory, installed)
    /\ advised' \in IF verdict' = "hit" THEN FixFor(advisory, installed) ELSE {NoBound}
    /\ UNCHANGED <<advisory, installed, left>>

Follow ==
    /\ advised # NoBound
    /\ installed' = advised /\ left' = left \cup {installed}
    /\ Unmatched
    /\ UNCHANGED advisory

\* A bundle brings the record with one more entry, or withdrawn.
Amend ==
    /\ Cardinality(advisory.exact) + Cardinality(advisory.ranges) < MaxEntries
    /\ \/ \E x \in Strings \ advisory.exact : advisory' = [advisory EXCEPT !.exact = @ \cup {x}]
       \/ \E r \in Published(advisory.ecosystem) \ advisory.ranges :
             advisory' = [advisory EXCEPT !.ranges = @ \cup {r}]
    /\ Unmatched
    /\ UNCHANGED <<installed, left>>

Withdraw ==
    /\ ~advisory.withdrawn
    /\ advisory' = [advisory EXCEPT !.withdrawn = TRUE]
    /\ Unmatched
    /\ UNCHANGED <<installed, left>>

Next == Match \/ Follow \/ Amend \/ Withdraw

Spec == Init /\ [][Next]_vars

------------------------------------------------------------------------------
\* Properties.

TypeOK ==
    /\ advisory \in [ecosystem : Ecosystems \cup {NoComparator}, malware : BOOLEAN, withdrawn : BOOLEAN,
                     exact : SUBSET Strings, ranges : SUBSET Published(advisory.ecosystem)]
    /\ installed \in Strings
    /\ verdict \in {"none", "hit", "clean", "unsure"}
    /\ advised \in Strings \cup {NoBound} /\ (advised # NoBound => verdict = "hit" /\ ~advisory.malware)
    /\ left \subseteq Strings

\* match.go: "introduced <= v, and v < fixed, and v <= last_affected, for
\* whichever bounds are present".
Inside(e, v, i, f, l) ==
    /\ i # NoBound => Compare(e, i, v) <= 0
    /\ f # NoBound => Compare(e, v, f) < 0
    /\ l # NoBound => Compare(e, v, l) <= 0

\* What a string may stand for: one that cannot be read, for any version.
Meanings(e, s) == IF s = NoBound \/ Reads(e, s) THEN {s} ELSE {t \in Strings : Reads(e, t)}

SurelyInside(e, v, r) ==
    \A w \in Meanings(e, v), i \in Meanings(e, r.introduced), f \in Meanings(e, r.fixed), l \in Meanings(e, r.last) :
        Inside(e, w, i, f, l)
SurelyOutside(e, v, r) ==
    \A w \in Meanings(e, v), i \in Meanings(e, r.introduced), f \in Meanings(e, r.fixed), l \in Meanings(e, r.last) :
        ~Inside(e, w, i, f, l)

\* That a package is in none of the intervals is concluded only when it is so
\* whatever the strings that could not be read stand for, and so is a hit in
\* one; anything else comes with an error, match.go: "so the caller can say
\* coverage was incomplete rather than report a clean result".
VerdictIsSure ==
    /\ verdict = "clean" /\ ~advisory.withdrawn =>
          \A r \in advisory.ranges : SurelyOutside(advisory.ecosystem, installed, r)
    /\ verdict = "hit" =>
          \/ Named(advisory, installed)
          \/ \E r \in advisory.ranges : SurelyInside(advisory.ecosystem, installed, r)

\* fix.go: nobody on a branch with a fix is told to go down, or further up
\* than the next fix.  A package inside an interval that ends in a readable fix
\* is shown a version above its own, and no readable fix lies between.
AdviceIsTheNextFix ==
    LET e == advisory.ecosystem
    IN  \A r \in advisory.ranges :
            verdict = "hit" /\ ~advisory.malware /\ InRange(e, installed, r) = "in" /\ r.fixed # NoBound =>
                /\ advised # NoBound /\ Reads(e, advised) /\ Compare(e, advised, installed) > 0
                /\ \A f \in Fixed(advisory) :
                      Reads(e, f) /\ Compare(e, f, installed) > 0 => Compare(e, advised, f) <= 0

\* An advisory that only has intervals, each with a readable fix, only ever
\* sends a package up: never to what it has, nor back to a version it had it
\* leave, through any number of fixes and amendments.
OnlyFixedIntervals(a) ==
    a.ecosystem # NoComparator /\ a.exact = {} /\ \A r \in a.ranges : r.fixed # NoBound /\ Reads(a.ecosystem, r.fixed)
NeverSentBack ==
    OnlyFixedIntervals(advisory) /\ advised # NoBound =>
        \A v \in left \cup {installed} : Compare(advisory.ecosystem, advised, v) > 0
=============================================================================
