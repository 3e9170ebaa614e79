---------------------------- MODULE Comparators ----------------------------
(***************************************************************************)
(* The matcher with the comparators that are the repository's own:         *)
(* match/ecosystem.go (registry, comparatorFrom) over version/dpkg,        *)
(* version/apk and version/pep440.  Matcher supposes of a comparator that  *)
(* it orders what it reads; of these it need not be supposed.              *)
(***************************************************************************)
EXTENDS VersionOrder, Matcher

CONSTANTS
    Dpkg, Apk, PyPI,     \* the ecosystems of each comparator
    Codes(_),            \* a string's characters
    ParsePep440(_)       \* what pep440.Parse makes of a string: a version, or none

ASSUME CodesAssumption == \A s \in Strings : Codes(s) \in Seq(Int) /\ ParsePep440(s) \subseteq Pep440Versions

Own == Dpkg \cup Apk \cup PyPI

Parse(e, s) == IF e \in Dpkg THEN ParseDeb(Codes(s)) ELSE IF e \in Apk THEN ParseApk(Codes(s)) ELSE ParsePep440(s)
Legible(e) == {s \in Strings : Parse(e, s) # {}}
Version(e, s) == CHOOSE v \in Parse(e, s) : TRUE

Ordering(e, u, v) ==
    IF e \in Dpkg THEN CompareDeb(Version(e, u), Version(e, v))
    ELSE IF e \in Apk THEN CompareApk(Version(e, u), Version(e, v))
    ELSE ComparePep440(Version(e, u), Version(e, v))

\* comparatorFrom: both sides are parsed, then compared.
ASSUME RegistryAssumption ==
    /\ Own \subseteq Ecosystems
    /\ \A e \in Own : /\ \A s \in Strings : Reads(e, s) <=> s \in Legible(e)
                      /\ \A u, v \in Legible(e) : Compare(e, u, v) = Ordering(e, u, v)

\* The same by the written rules.
Rules ==
    [e \in Own |-> [u \in Legible(e) |-> [v \in Legible(e) |->
        IF e \in Dpkg THEN DebReference(Version(e, u), Version(e, v))
        ELSE IF e \in Apk THEN ApkReference(Version(e, u), Version(e, v))
        ELSE Pep440Reference(Version(e, u), Version(e, v))]]]

\* The comparators answer as their ecosystems' rules do: the verdict on a
\* version that can be read is the one the written rules give.  It is about
\* dpkg.Compare, apk.Compare and pep440.Compare as inRange and Affects use them.
InsideByTheRules(e, v, r) ==
    /\ r.introduced # NoBound => Rules[e][r.introduced][v] <= 0
    /\ r.fixed # NoBound => Rules[e][v][r.fixed] < 0
    /\ r.last # NoBound => Rules[e][v][r.last] <= 0
VerdictByTheRules ==
    LET e == advisory.ecosystem
        named == {x \in advisory.exact : Reads(e, x)}
        legible == {r \in advisory.ranges : \A b \in {r.introduced, r.fixed, r.last} \ {NoBound} : Reads(e, b)}
    IN  e \in Own /\ Reads(e, installed) /\ ~advisory.withdrawn /\ verdict # "none" =>
            (verdict = "hit" <=> \/ \E x \in named : Rules[e][installed][x] = 0
                                 \/ \E r \in legible : InsideByTheRules(e, installed, r))
=============================================================================
