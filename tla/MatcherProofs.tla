--------------------------- MODULE MatcherProofs ---------------------------
(***************************************************************************)
(* Theorems about Matcher, for every set of ecosystems and every total     *)
(* order of versions a comparator may implement, and about Comparators,    *)
(* whose three comparators are shown to be such orders and to answer as    *)
(* the written rules do, on every version.                                 *)
(*                                                                         *)
(* What a finding says is a function of the advisory and the installed     *)
(* version (Current), so the verdict and the next fix are questions about  *)
(* Affects and FixFor.  That nobody is sent back is not: it needs to be    *)
(* known of the whole past that it lies below (Climbing).                  *)
(*                                                                         *)
(* The comparators: each version has keys of integers, and to compare two  *)
(* versions is to compare their keys from the left, the shorter as if it   *)
(* went on with zeros.  That is an order because each place is ordered     *)
(* (DifferenceChain), so what remains of each comparator is that its loops *)
(* answer as its keys do.                                                  *)
(***************************************************************************)
EXTENDS Comparators, SequenceTheorems, WellFoundedInduction, TLAPS

Answer(a, v) == IF Affects(a, v) = "hit" THEN FixFor(a, v) ELSE {NoBound}

Current ==
    IF verdict = "none" THEN advised = NoBound
    ELSE verdict = Affects(advisory, installed) /\ advised \in Answer(advisory, installed)

Climbing ==
    OnlyFixedIntervals(advisory) =>
        \A v \in left : Reads(advisory.ecosystem, v) /\ Reads(advisory.ecosystem, installed)
                        /\ Compare(advisory.ecosystem, installed, v) > 0

IInv == TypeOK /\ Current /\ Climbing

AdvisoryType(e) ==
    [ecosystem : Ecosystems \cup {NoComparator}, malware : BOOLEAN, withdrawn : BOOLEAN,
     exact : SUBSET Strings, ranges : SUBSET Published(e)]

------------------------------------------------------------------------------
\* About the functions.

LEMMA FixesAreStrings ==
    ASSUME NEW a, a \in AdvisoryType(a.ecosystem)
    PROVE  Fixed(a) \subseteq Strings
<1> SUFFICES ASSUME NEW r \in a.ranges, r.fixed # NoBound PROVE r.fixed \in Strings
  BY DEF Fixed
<1>1. a.ecosystem \in Ecosystems \cup {NoComparator} /\ r \in Published(a.ecosystem)
  BY DEF AdvisoryType
<1> QED  BY <1>1, PublishedAssumption

LEMMA FixForType ==
    ASSUME NEW a, a \in AdvisoryType(a.ecosystem), NEW v \in Strings, NEW f \in FixFor(a, v)
    PROVE  f \in Strings \cup {NoBound} /\ (f # NoBound => ~a.malware)
BY FixesAreStrings DEF FixFor, Nearest, LowestFix, Above

\* Where there is a fix above, the answer is such a fix and the lowest.
LEMMA FixForAbove ==
    ASSUME NEW a, NEW v, ~a.malware, NEW g \in Above(a, v), NEW f \in FixFor(a, v)
    PROVE  /\ f \in Above(a, v) /\ f # NoBound
           /\ \A h \in Above(a, v) : Compare(a.ecosystem, f, h) <= 0
BY DEF FixFor, Nearest, Above, Fixed

\* A readable interval that holds a version and is fixed, is fixed above it.
LEMMA FixedAbove ==
    ASSUME NEW a, a \in AdvisoryType(a.ecosystem), a.ecosystem # NoComparator, NEW v \in Strings,
           NEW r \in a.ranges, InRange(a.ecosystem, v, r) = "in", r.fixed # NoBound
    PROVE  r.fixed \in Above(a, v)
<1> DEFINE e == a.ecosystem
           f == r.fixed
<1>1. f \in Fixed(a) /\ f \in Strings /\ e \in Ecosystems
  BY FixesAreStrings DEF Fixed, AdvisoryType
<1>2. Readable(e, v, f) /\ ~(Compare(e, v, f) >= 0)
  BY DEF InRange
<1>3. Compare(e, v, f) \in {-1, 0, 1} /\ Compare(e, f, v) = -Compare(e, v, f)
  BY <1>1, <1>2, CompareAssumption, Z3 DEF Readable
<1> QED  BY <1>1, <1>2, <1>3 DEF Above, Readable

------------------------------------------------------------------------------
\* The inductive invariant.

LEMMA InitIInv == Init => IInv
BY DEF Init, IInv, TypeOK, Current, Climbing

LEMMA AffectsType ==
    ASSUME NEW a, NEW v PROVE Affects(a, v) \in {"hit", "clean", "unsure"}
BY DEF Affects

\* What a finding advises lies above all that the advice has been so far.
LEMMA AdviceIsAbove ==
    ASSUME IInv, OnlyFixedIntervals(advisory), advised # NoBound, NEW v \in left \cup {installed}
    PROVE  /\ Reads(advisory.ecosystem, v) /\ Reads(advisory.ecosystem, advised)
           /\ Compare(advisory.ecosystem, advised, v) > 0
<1> DEFINE e == advisory.ecosystem
<1>1. /\ advisory \in AdvisoryType(e) /\ installed \in Strings /\ left \subseteq Strings
      /\ e \in Ecosystems /\ ~advisory.malware
  BY DEF IInv, TypeOK, AdvisoryType, OnlyFixedIntervals
<1>2. Affects(advisory, installed) = "hit" /\ advised \in FixFor(advisory, installed)
  BY DEF IInv, Current, TypeOK, Answer
<1>3. PICK r \in advisory.ranges : InRange(e, installed, r) = "in" /\ r.fixed # NoBound
  BY <1>2 DEF Affects, Named, OnlyFixedIntervals
<1>4. r.fixed \in Above(advisory, installed)
  BY <1>1, <1>3, FixedAbove DEF OnlyFixedIntervals
<1>5. advised \in Above(advisory, installed)
  BY <1>1, <1>2, <1>4, FixForAbove
<1>6. Reads(e, advised) /\ Reads(e, installed) /\ Compare(e, advised, installed) > 0 /\ advised \in Strings
  BY <1>5, <1>1, FixesAreStrings DEF Above, Readable
<1>7. CASE v = installed
  BY <1>6, <1>7
<1>8. CASE v \in left
  <2>1. Reads(e, v) /\ Compare(e, installed, v) > 0 /\ v \in Strings
    BY <1>8, <1>1 DEF IInv, Climbing
  <2>2. /\ Compare(e, advised, v) \in {-1, 0, 1} /\ Compare(e, installed, v) \in {-1, 0, 1}
        /\ Compare(e, v, installed) = -Compare(e, installed, v)
    BY <1>1, <1>6, <2>1, CompareAssumption
  <2>3. Compare(e, advised, v) <= 0 /\ Compare(e, v, installed) <= 0 => Compare(e, advised, installed) <= 0
    BY <1>1, <1>6, <2>1, CompareAssumption
  <2>4. Compare(e, v, installed) <= 0
    BY <2>1, <2>2
  <2>5. ~(Compare(e, advised, installed) <= 0)
    BY <1>1, <1>6, CompareAssumption
  <2> QED  BY <1>6, <2>1, <2>2, <2>3, <2>4, <2>5
<1> QED  BY <1>7, <1>8

LEMMA NextIInv == IInv /\ [Next]_vars => IInv'
<1> SUFFICES ASSUME IInv, [Next]_vars PROVE IInv'
  OBVIOUS
<1>0. advisory \in AdvisoryType(advisory.ecosystem) /\ installed \in Strings /\ left \subseteq Strings
  BY DEF IInv, TypeOK, AdvisoryType
<1>1. CASE Match
  <2>1. verdict' = Affects(advisory, installed) /\ advised' \in Answer(advisory, installed)
    BY <1>1 DEF Match, Answer
  <2>2. UNCHANGED <<advisory, installed, left>>
    BY <1>1 DEF Match
  <2>3. verdict' \in {"hit", "clean", "unsure"}
    BY <2>1, AffectsType
  <2>4. advised' \in Strings \cup {NoBound} /\ (advised' # NoBound => verdict' = "hit" /\ ~advisory.malware)
    BY <2>1, <1>0, FixForType DEF Answer
  <2>5. TypeOK'
    BY <2>2, <2>3, <2>4 DEF IInv, TypeOK
  <2>6. Current'
    BY <2>1, <2>2, <2>3 DEF Current, Answer, Affects, FixFor, Named, Above, Nearest, LowestFix, Fixed, InRange, Readable
  <2>7. Climbing'
    BY <2>2 DEF IInv, Climbing, OnlyFixedIntervals
  <2> QED  BY <2>5, <2>6, <2>7 DEF IInv
<1>2. CASE Follow
  <2>1. /\ advised # NoBound /\ advisory' = advisory /\ installed' = advised /\ left' = left \cup {installed}
        /\ verdict' = "none" /\ advised' = NoBound
    BY <1>2 DEF Follow, Unmatched
  <2>2. TypeOK'
    BY <2>1 DEF IInv, TypeOK
  <2>3. Current'
    BY <2>1 DEF Current
  <2>4. Climbing'
    BY <2>1, AdviceIsAbove DEF Climbing
  <2> QED  BY <2>2, <2>3, <2>4 DEF IInv
<1>3. CASE Amend
  <2>1. /\ UNCHANGED <<installed, left>> /\ verdict' = "none" /\ advised' = NoBound
        /\ \/ \E x \in Strings : advisory' = [advisory EXCEPT !.exact = @ \cup {x}]
           \/ \E r \in Published(advisory.ecosystem) : advisory' = [advisory EXCEPT !.ranges = @ \cup {r}]
    BY <1>3 DEF Amend, Unmatched
  <2>2. advisory'.ecosystem = advisory.ecosystem /\ advisory' \in AdvisoryType(advisory.ecosystem)
    BY <1>0, <2>1 DEF AdvisoryType
  <2>3. advisory.exact \subseteq advisory'.exact /\ advisory.ranges \subseteq advisory'.ranges
    BY <1>0, <2>1 DEF AdvisoryType
  <2>4. TypeOK'
    BY <2>1, <2>2 DEF IInv, TypeOK, AdvisoryType
  <2>5. Current'
    BY <2>1 DEF Current
  <2>6. Climbing'
    BY <2>1, <2>2, <2>3 DEF IInv, Climbing, OnlyFixedIntervals
  <2> QED  BY <2>4, <2>5, <2>6 DEF IInv
<1>4. CASE Withdraw
  <2>1. /\ UNCHANGED <<installed, left>> /\ verdict' = "none" /\ advised' = NoBound
        /\ advisory' = [advisory EXCEPT !.withdrawn = TRUE]
    BY <1>4 DEF Withdraw, Unmatched
  <2>2. /\ advisory'.ecosystem = advisory.ecosystem /\ advisory' \in AdvisoryType(advisory.ecosystem)
        /\ advisory'.exact = advisory.exact /\ advisory'.ranges = advisory.ranges
    BY <1>0, <2>1 DEF AdvisoryType
  <2>3. TypeOK'
    BY <2>1, <2>2 DEF IInv, TypeOK, AdvisoryType
  <2>4. Current'
    BY <2>1 DEF Current
  <2>5. Climbing'
    BY <2>1, <2>2 DEF IInv, Climbing, OnlyFixedIntervals
  <2> QED  BY <2>3, <2>4, <2>5 DEF IInv
<1>5. CASE UNCHANGED vars
  BY <1>5 DEF vars, IInv, TypeOK, Current, Answer, Climbing, OnlyFixedIntervals, Affects, FixFor, Named, Above,
              Nearest, LowestFix, Fixed, InRange, Readable
<1> QED  BY <1>1, <1>2, <1>3, <1>4, <1>5 DEF Next

LEMMA SpecIInv == Spec => []IInv
BY InitIInv, NextIInv, PTL DEF Spec

\* The type invariant; with it, that no finding of malware names a version to
\* move to (fix.go, FixFor).
THEOREM TypeCorrect == Spec => []TypeOK
<1>1. IInv => TypeOK
  BY DEF IInv
<1> QED  BY SpecIInv, <1>1, PTL

------------------------------------------------------------------------------
\* What the verdicts mean.

\* An interval whose answer is "in" or "out" was read as far as it took.
LEMMA InIsInside ==
    ASSUME NEW e \in Ecosystems, NEW v \in Strings, NEW r \in Published(e), InRange(e, v, r) = "in"
    PROVE  SurelyInside(e, v, r)
<1> DEFINE i == r.introduced
           f == r.fixed
           l == r.last
<1>1. {i, f, l} \subseteq Strings \cup {NoBound}
  BY PublishedAssumption
<1>2. /\ i # NoBound => Readable(e, v, i) /\ ~(Compare(e, v, i) < 0)
      /\ f # NoBound => Readable(e, v, f) /\ ~(Compare(e, v, f) >= 0)
      /\ l # NoBound => Readable(e, v, l) /\ ~(Compare(e, v, l) > 0)
  BY DEF InRange
<1>3. \A b \in {i, f, l} : b # NoBound =>
         Compare(e, v, b) \in {-1, 0, 1} /\ Compare(e, b, v) = -Compare(e, v, b)
  BY <1>1, <1>2, CompareAssumption DEF Readable
<1>4. Inside(e, v, i, f, l)
  BY <1>2, <1>3 DEF Inside
<1>5. CASE i = NoBound /\ f = NoBound /\ l = NoBound
  BY <1>5 DEF SurelyInside, Inside, Meanings
<1>6. CASE ~(i = NoBound /\ f = NoBound /\ l = NoBound)
  <2>1. Reads(e, v)
    BY <1>2, <1>6 DEF Readable
  <2>2. Meanings(e, v) = {v} /\ Meanings(e, i) = {i} /\ Meanings(e, f) = {f} /\ Meanings(e, l) = {l}
    BY <1>2, <2>1 DEF Meanings, Readable
  <2> QED  BY <2>2, <1>4 DEF SurelyInside
<1> QED  BY <1>5, <1>6

LEMMA OutIsOutside ==
    ASSUME NEW e \in Ecosystems, NEW v \in Strings, NEW r \in Published(e), InRange(e, v, r) = "out"
    PROVE  SurelyOutside(e, v, r)
<1> DEFINE i == r.introduced
           f == r.fixed
           l == r.last
<1>1. {i, f, l} \subseteq Strings \cup {NoBound}
  BY PublishedAssumption
<1>2. \/ i # NoBound /\ Readable(e, v, i) /\ Compare(e, v, i) < 0
      \/ f # NoBound /\ Readable(e, v, f) /\ Compare(e, v, f) >= 0
      \/ l # NoBound /\ Readable(e, v, l) /\ Compare(e, v, l) > 0
  BY DEF InRange
<1>3. \A b \in {i, f, l} : b # NoBound /\ Readable(e, v, b) =>
         /\ Compare(e, v, b) \in {-1, 0, 1} /\ Compare(e, b, v) = -Compare(e, v, b)
         /\ Meanings(e, v) = {v} /\ Meanings(e, b) = {b}
  BY <1>1, CompareAssumption DEF Readable, Meanings
<1> QED  BY <1>2, <1>3 DEF SurelyOutside, Inside

\* A clean answer rests on intervals that were read, and a hit on one that was
\* read or on a version the advisory names: Affects never takes an error for
\* either, whatever comparator the ecosystem has.
THEOREM Sure == Spec => []VerdictIsSure
<1>1. IInv => VerdictIsSure
  <2> SUFFICES ASSUME IInv PROVE VerdictIsSure
    OBVIOUS
  <2> DEFINE e == advisory.ecosystem
  <2>1. /\ e \in Ecosystems \cup {NoComparator} /\ installed \in Strings
        /\ \A r \in advisory.ranges : r \in Published(e)
        /\ verdict # "none" => verdict = Affects(advisory, installed)
    BY DEF IInv, TypeOK, Current
  <2>2. ASSUME verdict = "clean", ~advisory.withdrawn, NEW r \in advisory.ranges
        PROVE  SurelyOutside(e, installed, r)
    <3>1. e \in Ecosystems /\ InRange(e, installed, r) \notin {"in", "error"}
      BY <2>1, <2>2 DEF Affects
    <3>2. InRange(e, installed, r) = "out"
      BY <3>1 DEF InRange
    <3> QED  BY <2>1, <3>1, <3>2, OutIsOutside
  <2>3. ASSUME verdict = "hit", ~Named(advisory, installed)
        PROVE  \E r \in advisory.ranges : SurelyInside(e, installed, r)
    <3>1. e \in Ecosystems /\ \E r \in advisory.ranges : InRange(e, installed, r) = "in"
      BY <2>1, <2>3 DEF Affects
    <3> QED  BY <2>1, <3>1, InIsInside
  <2> QED  BY <2>2, <2>3 DEF VerdictIsSure
<1> QED  BY SpecIInv, <1>1, PTL

------------------------------------------------------------------------------
\* What the advice is worth.

\* On a branch with a fix, a finding names the next fix above what is
\* installed (fix.go, FixFor).
THEOREM NextFix == Spec => []AdviceIsTheNextFix
<1>1. IInv => AdviceIsTheNextFix
  <2> SUFFICES ASSUME IInv, verdict = "hit", ~advisory.malware, NEW r \in advisory.ranges,
                      InRange(advisory.ecosystem, installed, r) = "in", r.fixed # NoBound
               PROVE  /\ advised # NoBound /\ Reads(advisory.ecosystem, advised)
                      /\ Compare(advisory.ecosystem, advised, installed) > 0
                      /\ \A f \in Fixed(advisory) :
                            Reads(advisory.ecosystem, f) /\ Compare(advisory.ecosystem, f, installed) > 0 =>
                                Compare(advisory.ecosystem, advised, f) <= 0
    BY DEF AdviceIsTheNextFix
  <2>1. advisory \in AdvisoryType(advisory.ecosystem) /\ installed \in Strings
    BY DEF IInv, TypeOK, AdvisoryType
  <2>2. Affects(advisory, installed) = "hit" /\ advised \in FixFor(advisory, installed)
    BY DEF IInv, Current, Answer
  <2>3. advisory.ecosystem # NoComparator
    BY <2>2 DEF Affects
  <2>4. r.fixed \in Above(advisory, installed)
    BY <2>1, <2>3, FixedAbove
  <2>5. /\ advised \in Above(advisory, installed) /\ advised # NoBound
        /\ \A h \in Above(advisory, installed) : Compare(advisory.ecosystem, advised, h) <= 0
    BY <2>2, <2>4, FixForAbove
  <2> QED  BY <2>3, <2>5 DEF Above, Readable
<1> QED  BY SpecIInv, <1>1, PTL

\* Where every interval has a readable fix, following the advice only ever
\* leads up, so it comes to an end.
THEOREM OnlyUp == Spec => []NeverSentBack
<1>1. IInv => NeverSentBack
  BY AdviceIsAbove DEF NeverSentBack
<1> QED  BY SpecIInv, <1>1, PTL

------------------------------------------------------------------------------
\* What is compared from the left.

Signs == {-1, 0, 1}

\* What the answers to u against v, v against w and u against w have to do
\* with each other.
Chain(x, y, z) == x <= 0 /\ y <= 0 => z <= 0 /\ (z = 0 <=> x = 0 /\ y = 0)

LEMMA LeastOf ==
    ASSUME NEW S \in SUBSET Nat, S # {}
    PROVE  \E m \in S : \A n \in S : m <= n
<1> DEFINE R == {p \in Nat \X Nat : p[1] < p[2]}
<1>1. IsWellFoundedOn(R, Nat)
  BY NatLessThanWellFounded, Zenon DEF OpToRel
<1>2. \E m \in S : \A n \in S : ~(<<n, m>> \in R)
  <2> HIDE DEF R
  <2> QED  BY <1>1, WFMin, Zenon
<1>3. PICK m \in S : \A n \in S : ~(<<n, m>> \in R)
  BY <1>2
<1>4. \A n \in S : ~(n < m)
  BY <1>3
<1> QED  BY <1>4

\* Induction over the naturals, for a set instead of a predicate.
LEMMA Induction ==
    ASSUME NEW S, 0 \in S, \A n \in Nat : n \in S => n + 1 \in S
    PROVE  Nat \subseteq S
<1> SUFFICES ASSUME Nat \ S # {} PROVE FALSE
  OBVIOUS
<1>1. PICK m \in Nat \ S : \A n \in Nat \ S : m <= n
  <2> DEFINE T == Nat \ S
  <2>1. T \in SUBSET Nat /\ T # {}
    OBVIOUS
  <2> HIDE DEF T
  <2>2. \E m \in T : \A n \in T : m <= n
    BY <2>1, LeastOf
  <2> QED  BY <2>2 DEF T
<1>2. m # 0 /\ m - 1 \in Nat
  BY <1>1
<1>3. m - 1 \in S
  BY <1>1, <1>2
<1>4. (m - 1) + 1 \in S
  BY <1>2, <1>3
<1> QED  BY <1>1, <1>4

LEMMA SignType == \A a, b \in Int : Sign(a, b) \in Signs /\ Sign(a, b) = -Sign(b, a)
BY DEF Sign, Signs

LEMMA SignChain == \A a, b, c \in Int : Chain(Sign(a, b), Sign(b, c), Sign(a, c))
BY DEF Sign, Chain

\* FirstDifference is 0 when nothing differs...
LEMMA NoDifference ==
    ASSUME NEW n \in Nat, NEW f \in [1..n -> Signs], \A i \in 1..n : f[i] = 0
    PROVE  FirstDifference(f) = 0
BY DEF FirstDifference

\* ... and otherwise the first sign that does.
LEMMA ThatDifference ==
    ASSUME NEW n \in Nat, NEW f \in [1..n -> Signs], NEW k \in 1..n, f[k] # 0, \A j \in 1..(k - 1) : f[j] = 0
    PROVE  FirstDifference(f) = f[k]
<1> DEFINE differ == {i \in DOMAIN f : f[i] # 0}
<1>1. DOMAIN f = 1..n /\ k \in differ
  OBVIOUS
<1>2. \A j \in differ : k <= j
  OBVIOUS
<1>3. (CHOOSE i \in differ : \A j \in differ : i <= j) = k
  <2>1. \A i \in differ : (\A j \in differ : i <= j) => i = k
    BY <1>1, <1>2
  <2> HIDE DEF differ
  <2> QED  BY <1>1, <1>2, <2>1
<1> QED  BY <1>1, <1>3 DEF FirstDifference

LEMMA SomeDifference ==
    ASSUME NEW n \in Nat, NEW f \in [1..n -> Signs], ~\A i \in 1..n : f[i] = 0
    PROVE  \E k \in 1..n : f[k] # 0 /\ \A j \in 1..(k - 1) : f[j] = 0
<1> DEFINE differ == {i \in 1..n : f[i] # 0}
<1>1. differ \in SUBSET Nat /\ differ # {}
  OBVIOUS
<1>2. \E k \in differ : \A j \in differ : k <= j
  <2> HIDE DEF differ
  <2> QED  BY <1>1, LeastOf
<1> QED  BY <1>2

LEMMA DifferenceType ==
    ASSUME NEW n \in Nat, NEW f \in [1..n -> Signs]
    PROVE  FirstDifference(f) \in Signs /\ (FirstDifference(f) = 0 <=> \A i \in 1..n : f[i] = 0)
<1>1. CASE \A i \in 1..n : f[i] = 0
  BY <1>1, NoDifference DEF Signs
<1>2. CASE ~\A i \in 1..n : f[i] = 0
  <2>1. PICK k \in 1..n : f[k] # 0 /\ \A j \in 1..(k - 1) : f[j] = 0
    BY <1>2, SomeDifference
  <2> QED  BY <2>1, <1>2, ThatDifference
<1> QED  BY <1>1, <1>2

\* Signs that agree as far as both go, and are 0 beyond, have the same.
LEMMA SameDifference ==
    ASSUME NEW m \in Nat, NEW n \in Nat, m <= n, NEW f \in [1..m -> Signs], NEW g \in [1..n -> Signs],
           \A i \in 1..n : (i <= m => g[i] = f[i]) /\ (i > m => g[i] = 0)
    PROVE  FirstDifference(f) = FirstDifference(g)
<1>1. CASE \A i \in 1..m : f[i] = 0
  BY <1>1, NoDifference
<1>2. CASE ~\A i \in 1..m : f[i] = 0
  <2>1. PICK k \in 1..m : f[k] # 0 /\ \A j \in 1..(k - 1) : f[j] = 0
    BY <1>2, SomeDifference
  <2>2. k \in 1..n /\ g[k] = f[k] /\ \A j \in 1..(k - 1) : g[j] = 0
    BY <2>1
  <2> QED  BY <2>1, <2>2, ThatDifference
<1> QED  BY <1>1, <1>2

LEMMA OppositeDifference ==
    ASSUME NEW n \in Nat, NEW f \in [1..n -> Signs], NEW g \in [1..n -> Signs], \A i \in 1..n : g[i] = -f[i]
    PROVE  FirstDifference(g) = -FirstDifference(f)
<1>1. CASE \A i \in 1..n : f[i] = 0
  BY <1>1, NoDifference
<1>2. CASE ~\A i \in 1..n : f[i] = 0
  <2>1. PICK k \in 1..n : f[k] # 0 /\ \A j \in 1..(k - 1) : f[j] = 0
    BY <1>2, SomeDifference
  <2>2. g[k] # 0 /\ \A j \in 1..(k - 1) : g[j] = 0
    BY <2>1 DEF Signs
  <2> QED  BY <2>1, <2>2, ThatDifference
<1> QED  BY <1>1, <1>2

\* Signs that chain place by place chain as a whole: what is compared from the
\* left, by orders, is ordered.
LEMMA DifferenceChain ==
    ASSUME NEW n \in Nat, NEW f \in [1..n -> Signs], NEW g \in [1..n -> Signs], NEW h \in [1..n -> Signs],
           \A i \in 1..n : Chain(f[i], g[i], h[i]) 
    PROVE  Chain(FirstDifference(f), FirstDifference(g), FirstDifference(h))
<1> SUFFICES ASSUME FirstDifference(f) <= 0, FirstDifference(g) <= 0
             PROVE  /\ FirstDifference(h) <= 0
                    /\ FirstDifference(h) = 0 <=> FirstDifference(f) = 0 /\ FirstDifference(g) = 0
  BY DEF Chain
<1>1. CASE (\A i \in 1..n : f[i] = 0) /\ \A i \in 1..n : g[i] = 0
  <2>1. \A i \in 1..n : h[i] = 0
    BY <1>1 DEF Chain
  <2> QED  BY <1>1, <2>1, NoDifference
<1>2. CASE ~((\A i \in 1..n : f[i] = 0) /\ \A i \in 1..n : g[i] = 0)
  <2> DEFINE both == [i \in 1..n |-> IF f[i] # 0 \/ g[i] # 0 THEN 1 ELSE 0]
  <2>1. both \in [1..n -> Signs] /\ ~\A i \in 1..n : both[i] = 0
    BY <1>2 DEF Signs
  <2>2. PICK k \in 1..n : both[k] # 0 /\ \A j \in 1..(k - 1) : both[j] = 0
    <3> HIDE DEF both
    <3> QED  BY <2>1, SomeDifference
  <2>3. /\ f[k] # 0 \/ g[k] # 0
        /\ \A j \in 1..(k - 1) : f[j] = 0 /\ g[j] = 0
    <3>1. \A j \in 1..n : both[j] = 0 <=> f[j] = 0 /\ g[j] = 0
      OBVIOUS
    <3>2. \A j \in 1..(k - 1) : j \in 1..n
      OBVIOUS
    <3> HIDE DEF both
    <3> QED  BY <2>2, <3>1, <3>2
  <2>4. f[k] <= 0
    <3>1. CASE f[k] = 0
      BY <3>1
    <3>2. CASE f[k] # 0
      BY <3>2, <2>3, ThatDifference
    <3> QED  BY <3>1, <3>2
  <2>5. g[k] <= 0
    <3>1. CASE g[k] = 0
      BY <3>1
    <3>2. CASE g[k] # 0
      BY <3>2, <2>3, ThatDifference
    <3> QED  BY <3>1, <3>2
  <2>6. h[k] < 0
    BY <2>3, <2>4, <2>5 DEF Chain, Signs
  <2>7. \A j \in 1..(k - 1) : h[j] = 0
    BY <2>3 DEF Chain
  <2>8. FirstDifference(h) = h[k]
    BY <2>6, <2>7, ThatDifference
  <2>9. FirstDifference(f) # 0 \/ FirstDifference(g) # 0
    BY <1>2, DifferenceType
  <2>10. h[k] \in Signs
    OBVIOUS
  <2> QED  BY <2>6, <2>8, <2>9, <2>10 DEF Signs
<1> QED  BY <1>1, <1>2

LEMMA LongerOf ==
    ASSUME NEW S, NEW T, NEW k \in Seq(S), NEW l \in Seq(T)
    PROVE  /\ Longer(k, l) \in Nat /\ Longer(k, l) = Longer(l, k)
           /\ Len(k) <= Longer(k, l) /\ Len(l) <= Longer(k, l)
           /\ \A N \in Nat : Len(k) <= N /\ Len(l) <= N => Longer(k, l) <= N
BY DEF Longer

LEMMA AtType ==
    ASSUME NEW S, NEW k \in Seq(S), NEW i \in Nat \ {0}, NEW a \in S
    PROVE  At(k, i, a) \in S /\ (i > Len(k) => At(k, i, a) = a)
BY DEF At

LEMMA IntAt == ASSUME NEW k \in Seq(Int), NEW i \in Nat \ {0} PROVE At(k, i, 0) \in Int
BY AtType

LEMMA KeyAt == ASSUME NEW k \in Seq(Seq(Int)), NEW i \in Nat \ {0} PROVE At(k, i, <<>>) \in Seq(Int)
<1>1. <<>> \in Seq(Int)
  OBVIOUS
<1> QED  BY <1>1, AtType, Zenon

LEMMA AboveThree ==
    ASSUME NEW a \in Nat, NEW b \in Nat, NEW c \in Nat
    PROVE  \E n \in Nat : a <= n /\ b <= n /\ c <= n
<1>1. a + b + c \in Nat /\ a <= a + b + c /\ b <= a + b + c /\ c <= a + b + c
  OBVIOUS
<1> QED  BY <1>1

\* A key may be taken as long as one likes.
LEMMA KeyUpTo ==
    ASSUME NEW k \in Seq(Int), NEW l \in Seq(Int), NEW N \in Nat, Len(k) <= N, Len(l) <= N
    PROVE  /\ [i \in 1..N |-> Sign(At(k, i, 0), At(l, i, 0))] \in [1..N -> Signs]
           /\ ByKey(k, l) = FirstDifference([i \in 1..N |-> Sign(At(k, i, 0), At(l, i, 0))])
<1> DEFINE L == Longer(k, l)
           f == [i \in 1..L |-> Sign(At(k, i, 0), At(l, i, 0))]
           g == [i \in 1..N |-> Sign(At(k, i, 0), At(l, i, 0))]
<1>1. L \in Nat /\ Len(k) <= L /\ Len(l) <= L /\ L <= N
  BY LongerOf
<1>2. \A i \in Nat \ {0} : Sign(At(k, i, 0), At(l, i, 0)) \in Signs
  BY IntAt, SignType
<1>3. f \in [1..L -> Signs] /\ g \in [1..N -> Signs]
  BY <1>1, <1>2
<1>4. \A i \in 1..N : (i <= L => g[i] = f[i]) /\ (i > L => g[i] = 0)
  <2> TAKE i \in 1..N
  <2>1. CASE i <= L
    BY <2>1, <1>1
  <2>2. CASE i > L
    <3>1. At(k, i, 0) = 0 /\ At(l, i, 0) = 0
      BY <2>2, <1>1, AtType
    <3> QED  BY <2>2, <3>1, <1>1 DEF Sign
  <2> QED  BY <1>1, <2>1, <2>2
<1>5. FirstDifference(f) = FirstDifference(g)
  <2> HIDE DEF f, g, L
  <2> QED  BY <1>1, <1>3, <1>4, SameDifference
<1> QED  BY <1>3, <1>5 DEF ByKey

LEMMA KeyType ==
    ASSUME NEW k \in Seq(Int), NEW l \in Seq(Int)
    PROVE  ByKey(k, l) \in Signs /\ ByKey(k, l) = -ByKey(l, k)
<1> DEFINE N == Longer(k, l)
           f == [i \in 1..N |-> Sign(At(k, i, 0), At(l, i, 0))]
           g == [i \in 1..N |-> Sign(At(l, i, 0), At(k, i, 0))]
<1>1. N \in Nat /\ Len(k) <= N /\ Len(l) <= N
  BY LongerOf
<1>2. f \in [1..N -> Signs] /\ ByKey(k, l) = FirstDifference(f)
  BY <1>1, KeyUpTo
<1>3. g \in [1..N -> Signs] /\ ByKey(l, k) = FirstDifference(g)
  BY <1>1, KeyUpTo
<1>4. \A i \in 1..N : f[i] = -g[i]
  BY <1>1, IntAt, SignType
<1>5. FirstDifference(f) = -FirstDifference(g) /\ FirstDifference(f) \in Signs
  <2> HIDE DEF f, g, N
  <2> QED  BY <1>1, <1>2, <1>3, <1>4, OppositeDifference, DifferenceType
<1> QED  BY <1>2, <1>3, <1>5

LEMMA KeyChain ==
    ASSUME NEW k \in Seq(Int), NEW l \in Seq(Int), NEW m \in Seq(Int)
    PROVE  Chain(ByKey(k, l), ByKey(l, m), ByKey(k, m))
<1>1. PICK N \in Nat : Len(k) <= N /\ Len(l) <= N /\ Len(m) <= N
  <2>1. Len(k) \in Nat /\ Len(l) \in Nat /\ Len(m) \in Nat
    OBVIOUS
  <2> QED  BY <2>1, AboveThree
<1> DEFINE f == [i \in 1..N |-> Sign(At(k, i, 0), At(l, i, 0))]
           g == [i \in 1..N |-> Sign(At(l, i, 0), At(m, i, 0))]
           h == [i \in 1..N |-> Sign(At(k, i, 0), At(m, i, 0))]
<1>2. f \in [1..N -> Signs] /\ ByKey(k, l) = FirstDifference(f)
  BY <1>1, KeyUpTo
<1>3. g \in [1..N -> Signs] /\ ByKey(l, m) = FirstDifference(g)
  BY <1>1, KeyUpTo
<1>4. h \in [1..N -> Signs] /\ ByKey(k, m) = FirstDifference(h)
  BY <1>1, KeyUpTo
<1>5. \A i \in 1..N : Chain(f[i], g[i], h[i])
  BY IntAt, SignChain
<1> HIDE DEF f, g, h
<1> QED  BY <1>2, <1>3, <1>4, <1>5, DifferenceChain

LEMMA KeysUpTo ==
    ASSUME NEW k \in Seq(Seq(Int)), NEW l \in Seq(Seq(Int)), NEW N \in Nat, Len(k) <= N, Len(l) <= N
    PROVE  /\ [i \in 1..N |-> ByKey(At(k, i, <<>>), At(l, i, <<>>))] \in [1..N -> Signs]
           /\ ByKeys(k, l) = FirstDifference([i \in 1..N |-> ByKey(At(k, i, <<>>), At(l, i, <<>>))])
<1> DEFINE L == Longer(k, l)
           f == [i \in 1..L |-> ByKey(At(k, i, <<>>), At(l, i, <<>>))]
           g == [i \in 1..N |-> ByKey(At(k, i, <<>>), At(l, i, <<>>))]
<1>1. L \in Nat /\ Len(k) <= L /\ Len(l) <= L /\ L <= N
  BY LongerOf
<1>2. \A i \in Nat \ {0} : ByKey(At(k, i, <<>>), At(l, i, <<>>)) \in Signs
  BY KeyAt, KeyType
<1>3. f \in [1..L -> Signs] /\ g \in [1..N -> Signs]
  BY <1>1, <1>2
<1>4. ByKey(<<>>, <<>>) = 0
  <2>1. <<>> \in Seq(Int)
    OBVIOUS
  <2>2. ByKey(<<>>, <<>>) \in Signs /\ ByKey(<<>>, <<>>) = -ByKey(<<>>, <<>>)
    BY <2>1, KeyType, Zenon
  <2> QED  BY <2>2 DEF Signs
<1>5. \A i \in 1..N : (i <= L => g[i] = f[i]) /\ (i > L => g[i] = 0)
  <2> TAKE i \in 1..N
  <2>1. CASE i <= L
    BY <2>1, <1>1
  <2>2. CASE i > L
    <3>1. At(k, i, <<>>) = <<>> /\ At(l, i, <<>>) = <<>>
      BY <2>2, <1>1 DEF At
    <3> QED  BY <2>2, <3>1, <1>1, <1>4
  <2> QED  BY <1>1, <2>1, <2>2
<1>6. FirstDifference(f) = FirstDifference(g)
  <2> HIDE DEF f, g, L
  <2> QED  BY <1>1, <1>3, <1>5, SameDifference
<1> QED  BY <1>3, <1>6 DEF ByKeys

LEMMA KeysType ==
    ASSUME NEW k \in Seq(Seq(Int)), NEW l \in Seq(Seq(Int))
    PROVE  ByKeys(k, l) \in Signs /\ ByKeys(k, l) = -ByKeys(l, k)
<1> DEFINE N == Longer(k, l)
           f == [i \in 1..N |-> ByKey(At(k, i, <<>>), At(l, i, <<>>))]
           g == [i \in 1..N |-> ByKey(At(l, i, <<>>), At(k, i, <<>>))]
<1>1. N \in Nat /\ Len(k) <= N /\ Len(l) <= N
  BY LongerOf
<1>2. f \in [1..N -> Signs] /\ ByKeys(k, l) = FirstDifference(f)
  BY <1>1, KeysUpTo
<1>3. g \in [1..N -> Signs] /\ ByKeys(l, k) = FirstDifference(g)
  BY <1>1, KeysUpTo
<1>4. \A i \in 1..N : f[i] = -g[i]
  BY <1>1, KeyAt, KeyType
<1>5. FirstDifference(f) = -FirstDifference(g) /\ FirstDifference(f) \in Signs
  <2> HIDE DEF f, g, N
  <2> QED  BY <1>1, <1>2, <1>3, <1>4, OppositeDifference, DifferenceType
<1> QED  BY <1>2, <1>3, <1>5

LEMMA KeysChain ==
    ASSUME NEW k \in Seq(Seq(Int)), NEW l \in Seq(Seq(Int)), NEW m \in Seq(Seq(Int))
    PROVE  Chain(ByKeys(k, l), ByKeys(l, m), ByKeys(k, m))
<1>1. PICK N \in Nat : Len(k) <= N /\ Len(l) <= N /\ Len(m) <= N
  <2>1. Len(k) \in Nat /\ Len(l) \in Nat /\ Len(m) \in Nat
    OBVIOUS
  <2> QED  BY <2>1, AboveThree
<1> DEFINE f == [i \in 1..N |-> ByKey(At(k, i, <<>>), At(l, i, <<>>))]
           g == [i \in 1..N |-> ByKey(At(l, i, <<>>), At(m, i, <<>>))]
           h == [i \in 1..N |-> ByKey(At(k, i, <<>>), At(m, i, <<>>))]
<1>2. f \in [1..N -> Signs] /\ ByKeys(k, l) = FirstDifference(f)
  BY <1>1, KeysUpTo
<1>3. g \in [1..N -> Signs] /\ ByKeys(l, m) = FirstDifference(g)
  BY <1>1, KeysUpTo
<1>4. h \in [1..N -> Signs] /\ ByKeys(k, m) = FirstDifference(h)
  BY <1>1, KeysUpTo
<1>5. \A i \in 1..N : Chain(f[i], g[i], h[i])
  <2> TAKE i \in 1..N
  <2>1. At(k, i, <<>>) \in Seq(Int) /\ At(l, i, <<>>) \in Seq(Int) /\ At(m, i, <<>>) \in Seq(Int)
    BY KeyAt
  <2> QED  BY <2>1, KeyChain
<1> HIDE DEF f, g, h
<1> QED  BY <1>2, <1>3, <1>4, <1>5, DifferenceChain

------------------------------------------------------------------------------
\* Chains of comparisons, written out.

LEMMA OfTwo ==
    ASSUME NEW x \in Signs, NEW y \in Signs
    PROVE  /\ <<x, y>> \in [1..2 -> Signs]
           /\ FirstDifference(<<x, y>>) = IF x # 0 THEN x ELSE y
<1> DEFINE f == <<x, y>>
<1>1. PICK n \in Nat : n = 2
  OBVIOUS
<1>2. f \in [1..n -> Signs] /\ f[1] = x /\ f[2] = y
  BY <1>1
<1>3. FirstDifference(f) = IF x # 0 THEN x ELSE y
  <2> HIDE DEF f
  <2>1. CASE \A i \in 1..n : f[i] = 0
    <3>1. x = 0 /\ y = 0
      BY <2>1, <1>1, <1>2
    <3> QED  BY <3>1, <2>1, <1>2, NoDifference
  <2>2. CASE ~\A i \in 1..n : f[i] = 0
    <3>1. PICK k \in 1..n : f[k] # 0 /\ \A j \in 1..(k - 1) : f[j] = 0
      BY <2>2, <1>2, SomeDifference
    <3>2. FirstDifference(f) = f[k]
      BY <3>1, <1>2, ThatDifference
    <3>3. k = 1 \/ k = 2
      BY <1>1
    <3> QED  BY <3>1, <3>2, <3>3, <1>2
  <2> QED  BY <2>1, <2>2
<1> QED  BY <1>1, <1>2, <1>3

LEMMA OfThree ==
    ASSUME NEW x \in Signs, NEW y \in Signs, NEW z \in Signs
    PROVE  /\ <<x, y, z>> \in [1..3 -> Signs]
           /\ FirstDifference(<<x, y, z>>) =
                 IF x # 0 THEN x ELSE IF y # 0 THEN y ELSE z
<1> DEFINE f == <<x, y, z>>
<1>1. PICK n \in Nat : n = 3
  OBVIOUS
<1>2. f \in [1..n -> Signs] /\ f[1] = x /\ f[2] = y /\ f[3] = z
  BY <1>1
<1>3. FirstDifference(f) =
                 IF x # 0 THEN x ELSE IF y # 0 THEN y ELSE z
  <2> HIDE DEF f
  <2>1. CASE \A i \in 1..n : f[i] = 0
    <3>1. x = 0 /\ y = 0 /\ z = 0
      BY <2>1, <1>1, <1>2
    <3> QED  BY <3>1, <2>1, <1>2, NoDifference
  <2>2. CASE ~\A i \in 1..n : f[i] = 0
    <3>1. PICK k \in 1..n : f[k] # 0 /\ \A j \in 1..(k - 1) : f[j] = 0
      BY <2>2, <1>2, SomeDifference
    <3>2. FirstDifference(f) = f[k]
      BY <3>1, <1>2, ThatDifference
    <3>3. k = 1 \/ k = 2 \/ k = 3
      BY <1>1
    <3> QED  BY <3>1, <3>2, <3>3, <1>2
  <2> QED  BY <2>1, <2>2
<1> QED  BY <1>1, <1>2, <1>3

LEMMA OfFour ==
    ASSUME NEW x \in Signs, NEW y \in Signs, NEW z \in Signs, NEW w \in Signs
    PROVE  /\ <<x, y, z, w>> \in [1..4 -> Signs]
           /\ FirstDifference(<<x, y, z, w>>) =
                 IF x # 0 THEN x ELSE IF y # 0 THEN y ELSE IF z # 0 THEN z ELSE w
<1> DEFINE f == <<x, y, z, w>>
<1>1. PICK n \in Nat : n = 4
  OBVIOUS
<1>2. f \in [1..n -> Signs] /\ f[1] = x /\ f[2] = y /\ f[3] = z /\ f[4] = w
  BY <1>1
<1>3. FirstDifference(f) =
                 IF x # 0 THEN x ELSE IF y # 0 THEN y ELSE IF z # 0 THEN z ELSE w
  <2> HIDE DEF f
  <2>1. CASE \A i \in 1..n : f[i] = 0
    <3>1. x = 0 /\ y = 0 /\ z = 0 /\ w = 0
      BY <2>1, <1>1, <1>2
    <3> QED  BY <3>1, <2>1, <1>2, NoDifference
  <2>2. CASE ~\A i \in 1..n : f[i] = 0
    <3>1. PICK k \in 1..n : f[k] # 0 /\ \A j \in 1..(k - 1) : f[j] = 0
      BY <2>2, <1>2, SomeDifference
    <3>2. FirstDifference(f) = f[k]
      BY <3>1, <1>2, ThatDifference
    <3>3. k = 1 \/ k = 2 \/ k = 3 \/ k = 4
      BY <1>1
    <3> QED  BY <3>1, <3>2, <3>3, <1>2
  <2> QED  BY <2>1, <2>2
<1> QED  BY <1>1, <1>2, <1>3

LEMMA OfSix ==
    ASSUME NEW x \in Signs, NEW y \in Signs, NEW z \in Signs, NEW u \in Signs, NEW v \in Signs, NEW w \in Signs
    PROVE  /\ <<x, y, z, u, v, w>> \in [1..6 -> Signs]
           /\ FirstDifference(<<x, y, z, u, v, w>>) =
                 IF x # 0 THEN x ELSE IF y # 0 THEN y ELSE IF z # 0 THEN z
                 ELSE IF u # 0 THEN u ELSE IF v # 0 THEN v ELSE w
<1> DEFINE f == <<x, y, z, u, v, w>>
<1>1. PICK n \in Nat : n = 6
  OBVIOUS
<1>2. f \in [1..n -> Signs] /\ f[1] = x /\ f[2] = y /\ f[3] = z /\ f[4] = u /\ f[5] = v /\ f[6] = w
  BY <1>1
<1>3. FirstDifference(f) =
                 IF x # 0 THEN x ELSE IF y # 0 THEN y ELSE IF z # 0 THEN z
                 ELSE IF u # 0 THEN u ELSE IF v # 0 THEN v ELSE w
  <2> HIDE DEF f
  <2>1. CASE \A i \in 1..n : f[i] = 0
    <3>1. x = 0 /\ y = 0 /\ z = 0 /\ u = 0 /\ v = 0 /\ w = 0
      BY <2>1, <1>1, <1>2
    <3> QED  BY <3>1, <2>1, <1>2, NoDifference
  <2>2. CASE ~\A i \in 1..n : f[i] = 0
    <3>1. PICK k \in 1..n : f[k] # 0 /\ \A j \in 1..(k - 1) : f[j] = 0
      BY <2>2, <1>2, SomeDifference
    <3>2. FirstDifference(f) = f[k]
      BY <3>1, <1>2, ThatDifference
    <3>3. k = 1 \/ k = 2 \/ k = 3 \/ k = 4 \/ k = 5 \/ k = 6
      BY <1>1
    <3> QED  BY <3>1, <3>2, <3>3, <1>2
  <2> QED  BY <2>1, <2>2
<1> QED  BY <1>1, <1>2, <1>3

\* Short keys.
LEMMA ShortKey ==
    ASSUME NEW k \in Seq(Int), NEW l \in Seq(Int), Len(k) <= 5, Len(l) <= 5
    PROVE  ByKey(k, l) =
              IF At(k, 1, 0) # At(l, 1, 0) THEN Sign(At(k, 1, 0), At(l, 1, 0))
              ELSE IF At(k, 2, 0) # At(l, 2, 0) THEN Sign(At(k, 2, 0), At(l, 2, 0))
              ELSE IF At(k, 3, 0) # At(l, 3, 0) THEN Sign(At(k, 3, 0), At(l, 3, 0))
              ELSE IF At(k, 4, 0) # At(l, 4, 0) THEN Sign(At(k, 4, 0), At(l, 4, 0))
              ELSE Sign(At(k, 5, 0), At(l, 5, 0))
<1>1. PICK n \in Nat : n = 5
  OBVIOUS
<1> DEFINE f == [i \in 1..n |-> Sign(At(k, i, 0), At(l, i, 0))]
<1>2. f \in [1..n -> Signs] /\ ByKey(k, l) = FirstDifference(f)
  BY <1>1, KeyUpTo
<1>3. FirstDifference(f) = IF f[1] # 0 THEN f[1] ELSE IF f[2] # 0 THEN f[2] ELSE IF f[3] # 0 THEN f[3]
                           ELSE IF f[4] # 0 THEN f[4] ELSE f[5]
  <2> HIDE DEF f
  <2>1. CASE \A i \in 1..n : f[i] = 0
    <3>1. FirstDifference(f) = 0
      BY <1>2, <2>1, NoDifference
    <3> QED  BY <1>1, <2>1, <3>1
  <2>2. CASE ~\A i \in 1..n : f[i] = 0
    <3>1. PICK m \in 1..n : f[m] # 0 /\ \A j \in 1..(m - 1) : f[j] = 0
      BY <1>2, <2>2, SomeDifference
    <3>2. FirstDifference(f) = f[m]
      BY <1>2, <3>1, ThatDifference
    <3>3. m = 1 \/ m = 2 \/ m = 3 \/ m = 4 \/ m = 5
      BY <1>1
    <3> QED  BY <3>1, <3>2, <3>3
  <2> QED  BY <2>1, <2>2
<1>4. \A i \in 1..n : f[i] = Sign(At(k, i, 0), At(l, i, 0)) /\ (f[i] = 0 <=> At(k, i, 0) = At(l, i, 0))
  <2> TAKE i \in 1..n
  <2>1. At(k, i, 0) \in Int /\ At(l, i, 0) \in Int
    BY IntAt
  <2> QED  BY <2>1 DEF Sign
<1>5. 1 \in 1..n /\ 2 \in 1..n /\ 3 \in 1..n /\ 4 \in 1..n /\ 5 \in 1..n
  BY <1>1
<1> HIDE DEF f
<1>6. /\ f[1] = Sign(At(k, 1, 0), At(l, 1, 0)) /\ (f[1] = 0 <=> At(k, 1, 0) = At(l, 1, 0))
      /\ f[2] = Sign(At(k, 2, 0), At(l, 2, 0)) /\ (f[2] = 0 <=> At(k, 2, 0) = At(l, 2, 0))
      /\ f[3] = Sign(At(k, 3, 0), At(l, 3, 0)) /\ (f[3] = 0 <=> At(k, 3, 0) = At(l, 3, 0))
      /\ f[4] = Sign(At(k, 4, 0), At(l, 4, 0)) /\ (f[4] = 0 <=> At(k, 4, 0) = At(l, 4, 0))
      /\ f[5] = Sign(At(k, 5, 0), At(l, 5, 0))
  BY <1>4, <1>5
<1> QED  BY <1>2, <1>3, <1>6, Zenon

LEMMA KeyOfTwo ==
    ASSUME NEW a \in Int, NEW b \in Int, NEW c \in Int, NEW d \in Int
    PROVE  ByKey(<<a, b>>, <<c, d>>) = IF a # c THEN Sign(a, c) ELSE Sign(b, d)
<1> DEFINE k == <<a, b>>
           l == <<c, d>>
<1>1. /\ k \in Seq(Int) /\ l \in Seq(Int) /\ Len(k) <= 5 /\ Len(l) <= 5
      /\ At(k, 1, 0) = a /\ At(l, 1, 0) = c /\ At(k, 2, 0) = b /\ At(l, 2, 0) = d
      /\ \A i \in 3..5 : At(k, i, 0) = 0 /\ At(l, i, 0) = 0
  BY DEF At
<1>2. ByKey(k, l) = IF a # c THEN Sign(a, c) ELSE Sign(b, d)
  <2>1. b = d => Sign(b, d) = 0 /\ Sign(0, 0) = 0
    BY DEF Sign
  <2> HIDE DEF k, l
  <2> QED  BY <1>1, <2>1, ShortKey
<1> QED  BY <1>2

LEMMA NothingAgainst ==
    ASSUME NEW a \in Nat, NEW b \in Int, a # 0
    PROVE  ByKey(<<>>, <<a, b>>) = -1 /\ ByKey(<<a, b>>, <<>>) = 1
<1> DEFINE k == <<>>
           l == <<a, b>>
<1>1. /\ k \in Seq(Int) /\ l \in Seq(Int) /\ Len(k) <= 5 /\ Len(l) <= 5
      /\ At(k, 1, 0) = 0 /\ At(l, 1, 0) = a
  BY DEF At
<1>2. Sign(0, a) = -1 /\ Sign(a, 0) = 1
  BY DEF Sign
<1>3. ByKey(k, l) = -1 /\ ByKey(l, k) = 1
  <2> HIDE DEF k, l
  <2> QED  BY <1>1, <1>2, ShortKey
<1> QED  BY <1>3

\* "Shorter first" is one more place at the end of what both have.
EndsWith(g, c, N, p, m, n) ==
    /\ m \in Nat /\ n \in Nat /\ p \in Nat /\ N \in Nat
    /\ p <= m /\ p <= n /\ (p = m \/ p = n) /\ m <= N /\ n <= N /\ (N = m \/ N = n)
    /\ c \in [1..p -> Signs] /\ g \in [1..N -> Signs]
    /\ \A i \in 1..N : (i <= p => g[i] = c[i]) /\ (i > p => g[i] = Sign(m, n))

LEMMA ShorterFirst ==
    ASSUME NEW m, NEW n, NEW p, NEW N, NEW c, NEW g, EndsWith(g, c, N, p, m, n)
    PROVE  FirstDifference(c \o <<Sign(m, n)>>) = FirstDifference(g)
<1> USE DEF EndsWith
<1> DEFINE f == c \o <<Sign(m, n)>>
<1>1. Sign(m, n) \in Signs /\ (Sign(m, n) = 0 <=> m = n)
  BY SignType DEF Sign
<1>2. c \in Seq(Signs) /\ Len(c) = p /\ <<Sign(m, n)>> \in Seq(Signs) /\ Len(<<Sign(m, n)>>) = 1
  BY <1>1
<1>3. f \in [1..(p + 1) -> Signs] /\ (\A i \in 1..p : f[i] = c[i]) /\ f[p + 1] = Sign(m, n)
  <2> DEFINE x == Sign(m, n)
             d == <<x>>
  <2>1. x \in Signs /\ d \in Seq(Signs) /\ Len(d) = 1 /\ d[1] = x
    BY <1>1
  <2> HIDE DEF x, d
  <2>2. f \in Seq(Signs) /\ Len(f) = p + 1
    BY <1>2, <2>1 DEF d, x
  <2>3. \A i \in 1..p : f[i] = c[i]
    BY <1>2, <2>1 DEF d, x
  <2>4. f[p + 1] = x
    BY <1>2, <2>1 DEF d, x
  <2> HIDE DEF f
  <2> QED  BY <2>2, <2>3, <2>4 DEF x
<1> HIDE DEF f
<1>4. CASE \E i \in 1..p : c[i] # 0
  <2>1. PICK k \in 1..p : c[k] # 0 /\ \A j \in 1..(k - 1) : c[j] = 0
    BY <1>4, SomeDifference
  <2>2. k \in 1..(p + 1) /\ f[k] = c[k] /\ \A j \in 1..(k - 1) : f[j] = 0
    BY <2>1, <1>3
  <2>3. k \in 1..N /\ g[k] = c[k] /\ \A j \in 1..(k - 1) : g[j] = 0
    BY <2>1
  <2>4. FirstDifference(f) = f[k]
    BY <2>1, <2>2, <1>3, ThatDifference
  <2>5. FirstDifference(g) = g[k]
    BY <2>1, <2>3, ThatDifference
  <2> QED  BY <2>2, <2>3, <2>4, <2>5 DEF f
<1>5. CASE (\A i \in 1..p : c[i] = 0) /\ m = n
  <2>1. \A i \in 1..(p + 1) : f[i] = 0
    BY <1>1, <1>3, <1>5
  <2>2. \A i \in 1..N : g[i] = 0
    BY <1>5
  <2>3. FirstDifference(f) = 0
    BY <2>1, <1>3, NoDifference
  <2>4. FirstDifference(g) = 0
    BY <2>2, NoDifference
  <2> QED  BY <2>3, <2>4 DEF f
<1>6. CASE (\A i \in 1..p : c[i] = 0) /\ m # n
  <2>1. p + 1 \in 1..N /\ g[p + 1] = Sign(m, n) /\ \A j \in 1..p : g[j] = 0
    BY <1>6
  <2>2. FirstDifference(g) = g[p + 1]
    BY <2>1, <1>1, <1>6, ThatDifference
  <2>3. \A j \in 1..p : f[j] = 0
    BY <1>3, <1>6
  <2>4. FirstDifference(f) = f[p + 1]
    BY <2>3, <1>1, <1>3, <1>6, ThatDifference
  <2> QED  BY <2>1, <2>2, <2>4, <1>3 DEF f
<1> QED  BY <1>4, <1>5, <1>6

\* What d makes positive.
Positive(s, d) == \A i \in DOMAIN s : s[i] + d > 0

LEMMA Shifted ==
    ASSUME NEW s \in Seq(Int), NEW d \in Int
    PROVE  LET k == [i \in DOMAIN s |-> s[i] + d]
           IN  /\ k \in Seq(Int) /\ Len(k) = Len(s)
               /\ \A i \in Nat \ {0} :
                     /\ i <= Len(s) => i \in DOMAIN s /\ s[i] \in Int /\ At(k, i, 0) = s[i] + d
                     /\ i > Len(s) => At(k, i, 0) = 0
<1> DEFINE k == [i \in DOMAIN s |-> s[i] + d]
<1>1. PICK n \in Nat : n = Len(s) /\ DOMAIN s = 1..n
  OBVIOUS
<1>2. \A i \in 1..n : s[i] \in Int /\ k[i] = s[i] + d
  BY <1>1
<1>3. k \in Seq(Int) /\ Len(k) = n
  BY <1>1, <1>2
<1>4. \A i \in Nat \ {0} : /\ i <= n => i \in 1..n /\ At(k, i, 0) = k[i]
                           /\ i > n => At(k, i, 0) = 0
  <2> HIDE DEF k
  <2> QED  BY <1>3 DEF At
<1> QED  BY <1>1, <1>2, <1>3, <1>4

LEMMA Lengths ==
    ASSUME NEW S, NEW T, NEW s \in Seq(S), NEW t \in Seq(T)
    PROVE  /\ Len(s) \in Nat /\ Len(t) \in Nat
           /\ Shorter(s, t) \in Nat /\ Shorter(s, t) <= Len(s) /\ Shorter(s, t) <= Len(t)
           /\ Shorter(s, t) = Len(s) \/ Shorter(s, t) = Len(t)
           /\ Longer(s, t) \in Nat /\ Len(s) <= Longer(s, t) /\ Len(t) <= Longer(s, t)
           /\ Longer(s, t) = Len(s) \/ Longer(s, t) = Len(t)
BY DEF Shorter, Longer

\* strings.Compare, of numbers made positive.
LEMMA TextIsKey ==
    ASSUME NEW s \in Seq(Int), NEW t \in Seq(Int), NEW d \in Int, Positive(s, d), Positive(t, d)
    PROVE  Text(s, t) = ByKey([i \in DOMAIN s |-> s[i] + d], [i \in DOMAIN t |-> t[i] + d])
<1> DEFINE k == [i \in DOMAIN s |-> s[i] + d]
           l == [i \in DOMAIN t |-> t[i] + d]
<1>1. PICK p \in Nat, N \in Nat, m \in Nat, n \in Nat :
         p = Shorter(s, t) /\ N = Longer(s, t) /\ m = Len(s) /\ n = Len(t)
  BY Lengths
<1>2. /\ m \in Nat /\ n \in Nat /\ p <= m /\ p <= n /\ (p = m \/ p = n)
      /\ m <= N /\ n <= N /\ (N = m \/ N = n)
  BY <1>1, Lengths
<1>3. k \in Seq(Int) /\ l \in Seq(Int) /\ Len(k) = m /\ Len(l) = n
  BY <1>1, Shifted
<1> DEFINE c == [i \in 1..p |-> Sign(s[i], t[i])]
           g == [i \in 1..N |-> Sign(At(k, i, 0), At(l, i, 0))]
<1>4. c \in [1..p -> Signs]
  <2>1. \A i \in 1..p : s[i] \in Int /\ t[i] \in Int
    BY <1>1, <1>2
  <2> QED  BY <2>1, SignType
<1>5. g \in [1..N -> Signs] /\ ByKey(k, l) = FirstDifference(g)
  <2> HIDE DEF k, l
  <2> QED  BY <1>1, <1>2, <1>3, KeyUpTo
<1>6. \A i \in Nat \ {0} : /\ i <= m => s[i] \in Int /\ s[i] + d > 0 /\ At(k, i, 0) = s[i] + d
                           /\ i <= n => t[i] \in Int /\ t[i] + d > 0 /\ At(l, i, 0) = t[i] + d
                           /\ i > m => At(k, i, 0) = 0
                           /\ i > n => At(l, i, 0) = 0
  <2> TAKE i \in Nat \ {0}
  <2>1. i <= m => s[i] \in Int /\ s[i] + d > 0 /\ At(k, i, 0) = s[i] + d
    BY <1>1, Shifted DEF Positive
  <2>2. i <= n => t[i] \in Int /\ t[i] + d > 0 /\ At(l, i, 0) = t[i] + d
    BY <1>1, Shifted DEF Positive
  <2>3. (i > m => At(k, i, 0) = 0) /\ (i > n => At(l, i, 0) = 0)
    BY <1>1, Shifted
  <2> QED  BY <2>1, <2>2, <2>3
<1>7. ASSUME NEW i \in 1..N PROVE (i <= p => g[i] = c[i]) /\ (i > p => g[i] = Sign(m, n))
  <2>1. g[i] = Sign(At(k, i, 0), At(l, i, 0)) /\ (i <= p => c[i] = Sign(s[i], t[i])) /\ i \in Nat \ {0}
    OBVIOUS
  <2> HIDE DEF g, c, k, l
  <2>2. ASSUME i <= p PROVE g[i] = c[i]
    BY <2>1, <2>2, <1>2, <1>6 DEF Sign
  <2>3. ASSUME i > p PROVE g[i] = Sign(m, n)
    <3>1. CASE i <= m
      <4>1. ~(i <= n) /\ m > n
        BY <3>1, <2>3, <1>2
      <4> QED  BY <4>1, <3>1, <2>1, <1>2, <1>6 DEF Sign
    <3>2. CASE i <= n
      <4>1. ~(i <= m) /\ n > m
        BY <3>2, <2>3, <1>2
      <4> QED  BY <4>1, <3>2, <2>1, <1>2, <1>6 DEF Sign
    <3> QED  BY <3>1, <3>2, <1>2
  <2> QED  BY <2>2, <2>3
<1>8. FirstDifference(c \o <<Sign(m, n)>>) = FirstDifference(g)
  <2>1. g \in [1..N -> Signs] /\ c \in [1..p -> Signs]
    BY <1>4, <1>5
  <2>2. \A i \in 1..N : (i <= p => g[i] = c[i]) /\ (i > p => g[i] = Sign(m, n))
    BY <1>7
  <2>3. EndsWith(g, c, N, p, m, n)
    <3> HIDE DEF c, g, k, l
    <3> QED  BY <1>2, <2>1, <2>2 DEF EndsWith
  <2> HIDE DEF c, g, k, l
  <2> QED  BY <2>3, ShorterFirst
<1> QED  BY <1>1, <1>5, <1>8 DEF Text

LEMMA HeadKey ==
    ASSUME NEW k \in Seq(Int), NEW l \in Seq(Int), At(k, 1, 0) # At(l, 1, 0)
    PROVE  ByKey(k, l) = Sign(At(k, 1, 0), At(l, 1, 0))
<1> DEFINE f(N) == [i \in 1..N |-> Sign(At(k, i, 0), At(l, i, 0))]
<1>1. PICK N \in Nat : Len(k) <= N /\ Len(l) <= N /\ 1 <= N
  <2>1. Len(k) \in Nat /\ Len(l) \in Nat /\ 1 \in Nat
    OBVIOUS
  <2> QED  BY <2>1, AboveThree
<1>2. PICK g : g = f(N) /\ g \in [1..N -> Signs] /\ ByKey(k, l) = FirstDifference(g)
  BY <1>1, KeyUpTo
<1>3. g[1] = Sign(At(k, 1, 0), At(l, 1, 0)) /\ g[1] # 0
  <2>1. At(k, 1, 0) \in Int /\ At(l, 1, 0) \in Int
    BY IntAt
  <2> QED  BY <1>1, <1>2, <2>1 DEF Sign
<1>4. FirstDifference(g) = g[1]
  <2>1. 1 \in 1..N /\ \A j \in 1..(1 - 1) : g[j] = 0
    BY <1>1
  <2> QED  BY <1>2, <1>3, <2>1, ThatDifference
<1> QED  BY <1>2, <1>3, <1>4

\* What is equal at the front may be left out.
Follows(g, f, m, n) ==
    /\ n \in Nat /\ m \in Nat /\ m = n + 1 /\ f \in [1..n -> Signs] /\ g \in [1..m -> Signs]
    /\ g[1] = 0 /\ \A i \in 1..n : g[i + 1] = f[i]

LEMMA NextDifference ==
    ASSUME NEW n, NEW m, NEW f, NEW g, Follows(g, f, m, n)
    PROVE  FirstDifference(g) = FirstDifference(f)
<1> USE DEF Follows
<1>1. CASE \A i \in 1..n : f[i] = 0
  <2>1. ASSUME NEW i \in 1..m PROVE g[i] = 0
    <3>1. i = 1 \/ (i - 1 \in 1..n /\ (i - 1) + 1 = i)
      OBVIOUS
    <3> QED  BY <1>1, <3>1
  <2> QED  BY <1>1, <2>1, NoDifference
<1>2. CASE ~\A i \in 1..n : f[i] = 0
  <2>1. PICK k \in 1..n : f[k] # 0 /\ \A j \in 1..(k - 1) : f[j] = 0
    BY <1>2, SomeDifference
  <2>2. PICK h \in 1..m : h = k + 1
    OBVIOUS
  <2>3. ASSUME NEW i \in 1..(h - 1) PROVE g[i] = 0
    <3>1. i = 1 \/ (i - 1 \in 1..(k - 1) /\ i - 1 \in 1..n /\ (i - 1) + 1 = i)
      BY <2>2
    <3> QED  BY <2>1, <3>1
  <2>4. g[h] # 0 /\ g[h] = f[k]
    BY <2>1, <2>2
  <2>5. FirstDifference(g) = g[h]
    BY <2>3, <2>4, ThatDifference
  <2>6. FirstDifference(f) = f[k]
    BY <2>1, ThatDifference
  <2> QED  BY <2>4, <2>5, <2>6
<1> QED  BY <1>1, <1>2

LEMMA ConsAt ==
    ASSUME NEW x \in Int, NEW s \in Seq(Int)
    PROVE  LET k == <<x>> \o s
           IN  /\ k \in Seq(Int) /\ Len(k) = Len(s) + 1 /\ At(k, 1, 0) = x
               /\ \A i \in Nat \ {0} : At(k, i + 1, 0) = At(s, i, 0)
BY DEF At

LEMMA ConsKey ==
    ASSUME NEW x \in Int, NEW s \in Seq(Int), NEW t \in Seq(Int)
    PROVE  ByKey(<<x>> \o s, <<x>> \o t) = ByKey(s, t)
<1> DEFINE k == <<x>> \o s
           l == <<x>> \o t
<1>1. /\ At(k, 1, 0) = x /\ At(l, 1, 0) = x
      /\ \A i \in Nat \ {0} : At(k, i + 1, 0) = At(s, i, 0) /\ At(l, i + 1, 0) = At(t, i, 0)
  BY ConsAt
<1>0. k \in Seq(Int) /\ l \in Seq(Int) /\ Len(k) = Len(s) + 1 /\ Len(l) = Len(t) + 1
  BY ConsAt
<1>2. PICK N \in Nat : Len(s) <= N /\ Len(t) <= N
  BY Lengths
<1>3. PICK f : f = [i \in 1..N |-> Sign(At(s, i, 0), At(t, i, 0))] /\ f \in [1..N -> Signs] /\ ByKey(s, t) = FirstDifference(f)
  BY <1>2, KeyUpTo
<1> HIDE DEF k, l
<1>4. PICK M \in Nat : M = N + 1 /\ Len(k) <= M /\ Len(l) <= M
  <2>1. Len(s) \in Nat /\ Len(t) \in Nat /\ N + 1 \in Nat
    OBVIOUS
  <2>2. Len(k) <= N + 1 /\ Len(l) <= N + 1
    BY <1>0, <1>2, <2>1
  <2> QED  BY <2>1, <2>2
<1>5. PICK g : /\ g = [i \in 1..M |-> Sign(At(k, i, 0), At(l, i, 0))]
               /\ g \in [1..M -> Signs] /\ ByKey(k, l) = FirstDifference(g)
  <2>1. Len(k) <= M /\ Len(l) <= M
    BY <1>4
  <2>2. k \in Seq(Int) /\ l \in Seq(Int)
    BY <1>0
  <2>3. /\ [i \in 1..M |-> Sign(At(k, i, 0), At(l, i, 0))] \in [1..M -> Signs]
        /\ ByKey(k, l) = FirstDifference([i \in 1..M |-> Sign(At(k, i, 0), At(l, i, 0))])
    BY <2>1, <2>2, KeyUpTo, Zenon
  <2> QED  BY <2>3, Zenon
<1>6. g[1] = Sign(x, x)
  BY <1>1, <1>4, <1>5
<1>7. ASSUME NEW i \in 1..N PROVE g[i + 1] = f[i]
  <2>1. i \in Nat \ {0} /\ i + 1 \in 1..M
    BY <1>4
  <2>2. g[i + 1] = Sign(At(k, i + 1, 0), At(l, i + 1, 0)) /\ f[i] = Sign(At(s, i, 0), At(t, i, 0))
    BY <2>1, <1>3, <1>5
  <2> QED  BY <1>1, <2>1, <2>2
<1>8. FirstDifference(g) = FirstDifference(f)
  <2>1. g[1] = 0
    BY <1>6 DEF Sign
  <2>2. \A i \in 1..N : g[i + 1] = f[i]
    BY <1>7
  <2>3. Follows(g, f, M, N)
    BY <1>3, <1>4, <1>5, <2>1, <2>2 DEF Follows
  <2> QED  BY <2>3, NextDifference
<1> QED  BY <1>3, <1>5, <1>8 DEF k, l

\* Lists of keys that all come after the empty key: the shorter list first.
LEMMA KeysShorter ==
    ASSUME NEW k \in Seq(Seq(Int)), NEW l \in Seq(Seq(Int)),
           \A i \in DOMAIN k : ByKey(k[i], <<>>) = 1, \A i \in DOMAIN l : ByKey(l[i], <<>>) = 1
    PROVE  ByKeys(k, l) =
              FirstDifference([i \in 1..Shorter(k, l) |-> ByKey(k[i], l[i])] \o <<Sign(Len(k), Len(l))>>)
<1>1. PICK p \in Nat, N \in Nat, m \in Nat, n \in Nat :
         p = Shorter(k, l) /\ N = Longer(k, l) /\ m = Len(k) /\ n = Len(l)
  BY Lengths
<1>2. /\ m \in Nat /\ n \in Nat /\ p <= m /\ p <= n /\ (p = m \/ p = n)
      /\ m <= N /\ n <= N /\ (N = m \/ N = n)
  BY <1>1, Lengths
<1> DEFINE c == [i \in 1..p |-> ByKey(k[i], l[i])]
           g == [i \in 1..N |-> ByKey(At(k, i, <<>>), At(l, i, <<>>))]
<1>3. g \in [1..N -> Signs] /\ ByKeys(k, l) = FirstDifference(g)
  BY <1>1, <1>2, KeysUpTo
<1>4. c \in [1..p -> Signs]
  <2>1. \A i \in 1..p : k[i] \in Seq(Int) /\ l[i] \in Seq(Int)
    BY <1>1, <1>2
  <2> QED  BY <2>1, KeyType
<1>5. ASSUME NEW i \in 1..N PROVE (i <= p => g[i] = c[i]) /\ (i > p => g[i] = Sign(m, n))
  <2>1. g[i] = ByKey(At(k, i, <<>>), At(l, i, <<>>)) /\ (i <= p => c[i] = ByKey(k[i], l[i])) /\ i \in Nat \ {0}
    OBVIOUS
  <2>2. /\ i <= m => At(k, i, <<>>) = k[i]
        /\ i > m => At(k, i, <<>>) = <<>>
        /\ i <= n => At(l, i, <<>>) = l[i]
        /\ i > n => At(l, i, <<>>) = <<>>
    BY <1>1 DEF At
  <2>3. (i <= m => ByKey(k[i], <<>>) = 1) /\ (i <= n => ByKey(<<>>, l[i]) = -1)
    <3>1. (i <= m => i \in DOMAIN k) /\ (i <= n => i \in DOMAIN l /\ l[i] \in Seq(Int))
      BY <1>1
    <3>2. <<>> \in Seq(Int)
      OBVIOUS
    <3>3. i <= n => ByKey(<<>>, l[i]) = -ByKey(l[i], <<>>)
      BY <3>1, <3>2, KeyType
    <3> QED  BY <3>1, <3>3
  <2> HIDE DEF g, c
  <2>4. ASSUME i <= p PROVE g[i] = c[i]
    BY <2>1, <2>2, <2>4, <1>2
  <2>5. ASSUME i > p PROVE g[i] = Sign(m, n)
    <3>1. CASE i <= m
      <4>1. ~(i <= n) /\ m > n
        BY <3>1, <2>5, <1>2
      <4> QED  BY <4>1, <3>1, <2>1, <2>2, <2>3 DEF Sign
    <3>2. CASE i <= n
      <4>1. ~(i <= m) /\ n > m
        BY <3>2, <2>5, <1>2
      <4> QED  BY <4>1, <3>2, <2>1, <2>2, <2>3 DEF Sign
    <3> QED  BY <3>1, <3>2, <1>2
  <2> QED  BY <2>4, <2>5
<1>6. EndsWith(g, c, N, p, m, n)
  <2> HIDE DEF g, c
  <2> QED  BY <1>2, <1>3, <1>4, <1>5 DEF EndsWith
<1>7. FirstDifference(c \o <<Sign(m, n)>>) = FirstDifference(g)
  <2> HIDE DEF g, c
  <2> QED  BY <1>6, ShorterFirst
<1> QED  BY <1>1, <1>3, <1>7

------------------------------------------------------------------------------
\* pep440.

Segments == [numeric : BOOLEAN, value : Nat]
SegmentKey(x) == <<IF x.numeric THEN 2 ELSE 1, x.value>>

LEMMA SegmentIsKey ==
    ASSUME NEW x \in Segments, NEW y \in Segments
    PROVE  /\ SegmentKey(x) \in Seq(Int) /\ ByKey(SegmentKey(x), <<>>) = 1
           /\ ByKey(SegmentKey(x), SegmentKey(y)) = Segment(x, y)
<1> DEFINE a == IF x.numeric THEN 2 ELSE 1
           c == IF y.numeric THEN 2 ELSE 1
<1>1. a \in {1, 2} /\ c \in {1, 2} /\ x.value \in Nat /\ y.value \in Nat
  BY DEF Segments
<1>2. ByKey(<<a, x.value>>, <<c, y.value>>) = IF a # c THEN Sign(a, c) ELSE Sign(x.value, y.value)
  <2> HIDE DEF a, c
  <2> QED  BY <1>1, KeyOfTwo
<1>3. ByKey(<<a, x.value>>, <<>>) = 1 /\ <<a, x.value>> \in Seq(Int)
  <2> HIDE DEF a
  <2>1. a \in Nat /\ a # 0 /\ x.value \in Int
    BY <1>1
  <2> QED  BY <2>1, NothingAgainst
<1>4. (IF a # c THEN Sign(a, c) ELSE Sign(x.value, y.value)) = Segment(x, y)
  <2>1. x.numeric \in BOOLEAN /\ y.numeric \in BOOLEAN
    BY DEF Segments
  <2> QED  BY <1>1, <2>1 DEF Segment, Sign
<1> QED  BY <1>2, <1>3, <1>4 DEF SegmentKey

LEMMA LocalIsKeys ==
    ASSUME NEW a \in Seq(Segments), NEW b \in Seq(Segments)
    PROVE  /\ Pep440Local(a) \in Seq(Seq(Int))
           /\ CompareLocal(a, b) = ByKeys(Pep440Local(a), Pep440Local(b))
<1>1. ASSUME NEW s \in Seq(Segments)
      PROVE  /\ Pep440Local(s) \in Seq(Seq(Int)) /\ Len(Pep440Local(s)) = Len(s)
             /\ \A i \in 1..Len(s) : s[i] \in Segments /\ Pep440Local(s)[i] = SegmentKey(s[i])
             /\ \A i \in DOMAIN Pep440Local(s) : ByKey(Pep440Local(s)[i], <<>>) = 1
  <2> DEFINE k == Pep440Local(s)
  <2>1. PICK n \in Nat : n = Len(s) /\ DOMAIN s = 1..n
    OBVIOUS
  <2>2. k = [i \in 1..n |-> SegmentKey(s[i])]
    BY <2>1 DEF Pep440Local, SegmentKey
  <2>3. \A i \in 1..n : s[i] \in Segments
    BY <2>1
  <2>4. \A i \in 1..n : SegmentKey(s[i]) \in Seq(Int) /\ ByKey(SegmentKey(s[i]), <<>>) = 1
    BY <2>3, SegmentIsKey
  <2> HIDE DEF k
  <2>5. k \in [1..n -> Seq(Int)]
    BY <2>2, <2>4
  <2>6. k \in Seq(Seq(Int)) /\ Len(k) = n /\ DOMAIN k = 1..n
    BY <2>5
  <2>7. \A i \in 1..n : k[i] = SegmentKey(s[i])
    BY <2>2
  <2>8. \A i \in DOMAIN k : ByKey(k[i], <<>>) = 1
    BY <2>4, <2>6, <2>7
  <2> QED  BY <2>1, <2>3, <2>6, <2>7, <2>8 DEF k
<1> DEFINE k == Pep440Local(a)
           l == Pep440Local(b)
<1>2. PICK p \in Nat : p = Shorter(a, b) /\ p = Shorter(k, l) /\ p <= Len(a) /\ p <= Len(b)
  BY <1>1, Lengths DEF Shorter
<1>3. \A i \in 1..p : Segment(a[i], b[i]) = ByKey(k[i], l[i])
  <2> TAKE i \in 1..p
  <2>1. i \in 1..Len(a) /\ i \in 1..Len(b)
    BY <1>2
  <2> QED  BY <2>1, <1>1, SegmentIsKey
<1>4. [i \in 1..p |-> Segment(a[i], b[i])] = [i \in 1..p |-> ByKey(k[i], l[i])]
  BY <1>3
<1>5. ByKeys(k, l) = FirstDifference([i \in 1..p |-> ByKey(k[i], l[i])] \o <<Sign(Len(k), Len(l))>>)
  <2>1. /\ k \in Seq(Seq(Int)) /\ l \in Seq(Seq(Int))
        /\ \A i \in DOMAIN k : ByKey(k[i], <<>>) = 1
        /\ \A i \in DOMAIN l : ByKey(l[i], <<>>) = 1
    BY <1>1
  <2> HIDE DEF k, l
  <2>2. ByKeys(k, l) =
              FirstDifference([i \in 1..Shorter(k, l) |-> ByKey(k[i], l[i])] \o <<Sign(Len(k), Len(l))>>)
    BY <2>1, KeysShorter
  <2> QED  BY <1>2, <2>2
<1>6. Len(k) = Len(a) /\ Len(l) = Len(b)
  BY <1>1
<1> QED  BY <1>1, <1>2, <1>4, <1>5, <1>6, Zenon DEF CompareLocal

Single == {<<>>} \cup {<<n>> : n \in Nat}
Pair == {<<>>} \cup ((0..2) \X Nat)

LEMMA AtMostOne == {s \in Seq(Nat) : Len(s) <= 1} \subseteq Single
<1> SUFFICES ASSUME NEW s \in Seq(Nat), Len(s) <= 1 PROVE s \in Single
  OBVIOUS
<1>1. CASE Len(s) = 0
  BY <1>1 DEF Single
<1>2. CASE Len(s) = 1
  <2>1. s \in [1..1 -> Nat] /\ s[1] \in Nat
    BY <1>2
  <2>2. \A n \in Nat : <<n>> \in [1..1 -> Nat] /\ <<n>>[1] = n
    OBVIOUS
  <2>3. s = <<s[1]>>
    BY <2>1, <2>2
  <2> QED  BY <2>1, <2>3 DEF Single
<1>3. Len(s) \in Nat
  OBVIOUS
<1> QED  BY <1>1, <1>2, <1>3

LEMMA SingleShape ==
    ASSUME NEW a \in Single
    PROVE  /\ a \in Seq(Int) /\ At(a, 1, -1) \in Int /\ At(a, 1, 0) \in Int
           /\ \/ a = <<>> /\ Len(a) = 0 /\ At(a, 1, -1) = -1 /\ At(a, 1, 0) = 0
              \/ \E n \in Nat : a = <<n>> /\ Len(a) = 1 /\ At(a, 1, -1) = n /\ At(a, 1, 0) = n
<1>1. CASE a = <<>>
  BY <1>1 DEF At
<1>2. CASE \E n \in Nat : a = <<n>>
  BY <1>2 DEF At
<1> QED  BY <1>1, <1>2 DEF Single

LEMMA SingleText ==
    ASSUME NEW a \in Single, NEW b \in Single
    PROVE  Text(a, b) = Sign(At(a, 1, -1), At(b, 1, -1))
<1> DEFINE k(s) == [i \in DOMAIN s |-> s[i] + 1]
<1>1. ASSUME NEW s \in Single
      PROVE  /\ Positive(s, 1) /\ k(s) \in Seq(Int) /\ Len(k(s)) <= 1
             /\ At(k(s), 1, 0) = At(s, 1, -1) + 1
             /\ \A i \in 2..5 : At(k(s), i, 0) = 0
  <2>1. CASE s = <<>>
    BY <2>1 DEF Positive, At
  <2>2. CASE \E n \in Nat : s = <<n>>
    <3>1. PICK n \in Nat : s = <<n>>
      BY <2>2
    <3>2. k(s) = <<n + 1>>
      BY <3>1
    <3>3. \A i \in DOMAIN s : s[i] = n
      BY <3>1
    <3> QED  BY <3>1, <3>2, <3>3 DEF Positive, At
  <2> QED  BY <2>1, <2>2 DEF Single
<1>2. Text(a, b) = ByKey(k(a), k(b))
  <2>1. a \in Seq(Int) /\ b \in Seq(Int) /\ Positive(a, 1) /\ Positive(b, 1) /\ 1 \in Int
    <3>1. Positive(a, 1) /\ Positive(b, 1)
      BY <1>1, Zenon
    <3>2. a \in Seq(Int) /\ b \in Seq(Int)
      BY SingleShape
    <3> QED  BY <3>1, <3>2
  <2> QED  BY <2>1, TextIsKey, Zenon
<1>3. ByKey(k(a), k(b)) = Sign(At(k(a), 1, 0), At(k(b), 1, 0))
  <2>1. /\ k(a) \in Seq(Int) /\ k(b) \in Seq(Int) /\ Len(k(a)) <= 5 /\ Len(k(b)) <= 5
        /\ At(k(a), 2, 0) = 0 /\ At(k(a), 3, 0) = 0 /\ At(k(a), 4, 0) = 0 /\ At(k(a), 5, 0) = 0
        /\ At(k(b), 2, 0) = 0 /\ At(k(b), 3, 0) = 0 /\ At(k(b), 4, 0) = 0 /\ At(k(b), 5, 0) = 0
    BY <1>1
  <2>2. /\ Sign(0, 0) = 0
        /\ At(k(a), 1, 0) = At(k(b), 1, 0) => Sign(At(k(a), 1, 0), At(k(b), 1, 0)) = 0
    <3>1. At(k(a), 1, 0) \in Int
      BY <1>1, SingleShape
    <3> QED  BY <3>1 DEF Sign
  <2> HIDE DEF k
  <2> QED  BY <2>1, <2>2, ShortKey
<1>4. \A x, y \in Int : Sign(x + 1, y + 1) = Sign(x, y)
  BY DEF Sign
<1> QED  BY <1>1, <1>2, <1>3, <1>4, SingleShape

LEMMA PairShape ==
    ASSUME NEW a \in Pair
    PROVE  /\ a \in Seq(Int)
           /\ \/ a = <<>>
              \/ \E r \in 0..2, n \in Nat : a = <<r, n>>
<1>1. CASE a = <<>>
  BY <1>1
<1>2. CASE a \in (0..2) \X Nat
  <2>1. PICK r \in 0..2, n \in Nat : a = <<r, n>>
    BY <1>2
  <2> QED  BY <2>1
<1> QED  BY <1>1, <1>2 DEF Pair

LEMMA PairText ==
    /\ Text(<<>>, <<>>) = 0
    /\ \A r, n \in Nat : Text(<<r, n>>, <<>>) = 1 /\ Text(<<>>, <<r, n>>) = -1
    /\ \A r, n, q, m \in Nat : Text(<<r, n>>, <<q, m>>) = IF r # q THEN Sign(r, q) ELSE Sign(n, m)
<1> DEFINE k(s) == [i \in DOMAIN s |-> s[i] + 1]
<1>1. k(<<>>) = <<>> /\ <<>> \in Seq(Int) /\ Positive(<<>>, 1) /\ 1 \in Int
  BY DEF Positive
<1>2. ASSUME NEW r \in Nat, NEW n \in Nat
      PROVE  k(<<r, n>>) = <<r + 1, n + 1>> /\ <<r, n>> \in Seq(Int) /\ Positive(<<r, n>>, 1)
  <2> DEFINE s == <<r, n>>
  <2>1. s \in Seq(Int) /\ DOMAIN s = {1, 2} /\ s[1] = r /\ s[2] = n
    OBVIOUS
  <2>2. Positive(s, 1)
    BY <2>1 DEF Positive
  <2>3. k(s) = <<r + 1, n + 1>>
    OBVIOUS
  <2> QED  BY <2>1, <2>2, <2>3
<1>3. ASSUME NEW s \in Seq(Int), NEW t \in Seq(Int), Positive(s, 1), Positive(t, 1)
      PROVE  Text(s, t) = ByKey(k(s), k(t))
  BY <1>1, <1>3, TextIsKey, Zenon
<1> HIDE DEF k
<1>4. Text(<<>>, <<>>) = 0
  <2>1. Text(<<>>, <<>>) = ByKey(<<>>, <<>>)
    BY <1>1, <1>3, Zenon
  <2>2. ByKey(<<>>, <<>>) \in Signs /\ ByKey(<<>>, <<>>) = -ByKey(<<>>, <<>>)
    BY <1>1, KeyType, Zenon
  <2> QED  BY <2>1, <2>2 DEF Signs
<1>5. ASSUME NEW r \in Nat, NEW n \in Nat PROVE Text(<<r, n>>, <<>>) = 1 /\ Text(<<>>, <<r, n>>) = -1
  <2>1. /\ Text(<<r, n>>, <<>>) = ByKey(<<r + 1, n + 1>>, <<>>)
        /\ Text(<<>>, <<r, n>>) = ByKey(<<>>, <<r + 1, n + 1>>)
    BY <1>1, <1>2, <1>3, Zenon
  <2>2. r + 1 \in Nat /\ r + 1 # 0 /\ n + 1 \in Int
    OBVIOUS
  <2> QED  BY <2>1, <2>2, NothingAgainst
<1>6. ASSUME NEW r \in Nat, NEW n \in Nat, NEW q \in Nat, NEW m \in Nat
      PROVE  Text(<<r, n>>, <<q, m>>) = IF r # q THEN Sign(r, q) ELSE Sign(n, m)
  <2>1. Text(<<r, n>>, <<q, m>>) = ByKey(<<r + 1, n + 1>>, <<q + 1, m + 1>>)
    <3>1. k(<<r, n>>) = <<r + 1, n + 1>> /\ k(<<q, m>>) = <<q + 1, m + 1>>
      BY <1>2
    <3>2. <<r, n>> \in Seq(Int) /\ Positive(<<r, n>>, 1) /\ <<q, m>> \in Seq(Int) /\ Positive(<<q, m>>, 1)
      BY <1>2
    <3>3. Text(<<r, n>>, <<q, m>>) = ByKey(k(<<r, n>>), k(<<q, m>>))
      BY <3>2, <1>3
    <3> QED  BY <3>1, <3>3, Zenon
  <2>2. ByKey(<<r + 1, n + 1>>, <<q + 1, m + 1>>) = IF r + 1 # q + 1 THEN Sign(r + 1, q + 1) ELSE Sign(n + 1, m + 1)
    BY KeyOfTwo
  <2>3. \A x, y \in Int : Sign(x + 1, y + 1) = Sign(x, y) /\ (x + 1 = y + 1 <=> x = y)
    BY DEF Sign
  <2> QED  BY <2>1, <2>2, <2>3
<1> QED  BY <1>4, <1>5, <1>6

\* The place of a version in its release.
PreKey(v) == IF v.pre # <<>> THEN <<1 + v.pre[1], v.pre[2]>>
             ELSE IF v.post = <<>> /\ v.dev # <<>> THEN <<0, 0>> ELSE <<4, 0>>

LEMMA PreIsKey ==
    ASSUME NEW a \in Pep440Versions, NEW b \in Pep440Versions
    PROVE  /\ PreKey(a) \in Int \X Int /\ PreKey(b) \in Int \X Int
           /\ ComparePre(a, b) \in Signs
           /\ ComparePre(a, b) = IF PreKey(a)[1] # PreKey(b)[1] THEN Sign(PreKey(a)[1], PreKey(b)[1])
                                 ELSE Sign(PreKey(a)[2], PreKey(b)[2])
<1>1. ASSUME NEW v \in Pep440Versions
      PROVE  \/ \E r \in 0..2, n \in Nat : v.pre = <<r, n>> /\ PreRank(v) = 0 /\ PreKey(v) = <<1 + r, n>>
             \/ v.pre = <<>> /\ PreRank(v) = -1 /\ PreKey(v) = <<0, 0>>
             \/ v.pre = <<>> /\ PreRank(v) = 1 /\ PreKey(v) = <<4, 0>>
  <2>1. v.pre \in Pair
    BY DEF Pep440Versions, Pair
  <2>2. CASE v.pre = <<>>
    BY <2>2 DEF PreRank, PreKey
  <2>3. CASE \E r \in 0..2, n \in Nat : v.pre = <<r, n>>
    <3>1. PICK r \in 0..2, n \in Nat : v.pre = <<r, n>>
      BY <2>3
    <3>2. v.pre # <<>> /\ v.pre[1] = r /\ v.pre[2] = n
      BY <3>1
    <3> QED  BY <3>1, <3>2 DEF PreRank, PreKey
  <2> QED  BY <2>1, <2>2, <2>3, PairShape
<1>2. ASSUME NEW x \in Signs, NEW y \in Signs PROVE FirstDifference(<<x, y>>) = IF x # 0 THEN x ELSE y
  BY OfTwo
<1>3. PreRank(a) \in {-1, 0, 1} /\ PreRank(b) \in {-1, 0, 1} /\ PreKey(a) \in Int \X Int /\ PreKey(b) \in Int \X Int
  BY <1>1
<1>4. Text(a.pre, b.pre) \in Signs
  <2>1. \A r, n, q, m \in Nat : (IF r # q THEN Sign(r, q) ELSE Sign(n, m)) \in Signs
    BY DEF Sign, Signs
  <2> QED  BY <1>1, <2>1, PairText DEF Signs
<1>5. ComparePre(a, b) = IF Sign(PreRank(a), PreRank(b)) # 0 THEN Sign(PreRank(a), PreRank(b)) ELSE Text(a.pre, b.pre)
  <2>1. Sign(PreRank(a), PreRank(b)) \in Signs
    BY <1>3 DEF Sign, Signs
  <2> QED  BY <1>2, <1>4, <2>1 DEF ComparePre
<1>6. ComparePre(a, b) \in Signs
  BY <1>3, <1>4, <1>5 DEF Sign, Signs
<1>7. CASE \E r, q \in 0..2, n, m \in Nat : /\ a.pre = <<r, n>> /\ PreRank(a) = 0 /\ PreKey(a) = <<1 + r, n>>
                                            /\ b.pre = <<q, m>> /\ PreRank(b) = 0 /\ PreKey(b) = <<1 + q, m>>
  <2>1. PICK r \in 0..2, q \in 0..2, n \in Nat, m \in Nat :
           /\ a.pre = <<r, n>> /\ PreRank(a) = 0 /\ PreKey(a) = <<1 + r, n>>
           /\ b.pre = <<q, m>> /\ PreRank(b) = 0 /\ PreKey(b) = <<1 + q, m>>
    BY <1>7
  <2>2. ComparePre(a, b) = Text(<<r, n>>, <<q, m>>)
    BY <1>5, <2>1 DEF Sign
  <2>3. Text(<<r, n>>, <<q, m>>) = IF r # q THEN Sign(r, q) ELSE Sign(n, m)
    BY PairText
  <2>4. PreKey(a)[1] = 1 + r /\ PreKey(a)[2] = n /\ PreKey(b)[1] = 1 + q /\ PreKey(b)[2] = m
    BY <2>1
  <2>5. Sign(r, q) = Sign(1 + r, 1 + q)
    BY DEF Sign
  <2> QED  BY <1>3, <1>6, <2>2, <2>3, <2>4, <2>5
<1>8. CASE PreRank(a) # PreRank(b)
  <2>1. /\ PreKey(a)[1] # PreKey(b)[1]
        /\ Sign(PreKey(a)[1], PreKey(b)[1]) = Sign(PreRank(a), PreRank(b)) /\ Sign(PreRank(a), PreRank(b)) # 0
    BY <1>1, <1>8 DEF Sign
  <2> QED  BY <1>3, <1>5, <1>6, <2>1
<1>9. CASE PreRank(a) = PreRank(b) /\ PreRank(a) # 0
  <2>1. a.pre = <<>> /\ b.pre = <<>> /\ PreKey(a) = PreKey(b) /\ PreKey(a)[2] = 0 /\ PreKey(b)[2] = 0
    BY <1>1, <1>9
  <2>2. ComparePre(a, b) = 0
    BY <1>3, <1>5, <1>9, <2>1, PairText DEF Sign
  <2> QED  BY <1>3, <1>6, <2>1, <2>2 DEF Sign
<1> QED  BY <1>1, <1>3, <1>7, <1>8, <1>9

LEMMA TwoAndThree ==
    ASSUME NEW x \in Int, NEW y \in Int, NEW p \in Int, NEW q \in Int, NEW r \in Int
    PROVE  LET k == <<x, y>> \o <<p, q, r>>
           IN  /\ k \in Seq(Int) /\ Len(k) <= 5 /\ At(k, 1, 0) = x /\ At(k, 2, 0) = y
               /\ At(k, 3, 0) = p /\ At(k, 4, 0) = q /\ At(k, 5, 0) = r
<1> DEFINE f == <<x, y>>
           g == <<p, q, r>>
           k == f \o g
<1>1. /\ f \in Seq(Int) /\ Len(f) = 2 /\ f[1] = x /\ f[2] = y
      /\ g \in Seq(Int) /\ Len(g) = 3 /\ g[1] = p /\ g[2] = q /\ g[3] = r
  OBVIOUS
<1>2. k \in Seq(Int) /\ Len(k) = 5 /\ k[1] = x /\ k[2] = y /\ k[3] = p /\ k[4] = q /\ k[5] = r
  <2> HIDE DEF f, g
  <2>1. /\ k \in Seq(Int) /\ Len(k) = Len(f) + Len(g)
        /\ \A i \in 1..Len(f) + Len(g) : k[i] = IF i <= Len(f) THEN f[i] ELSE g[i - Len(f)]
    BY <1>1, ConcatProperties, Zenon
  <2> HIDE DEF k
  <2>2. \A i \in 1..2 : k[i] = f[i]
    BY <1>1, <2>1
  <2>3. \A i \in 3..5 : k[i] = g[i - 2]
    BY <1>1, <2>1
  <2>4. k[1] = x /\ k[2] = y
    BY <1>1, <2>2
  <2>5. k[3] = p /\ k[4] = q /\ k[5] = r
    BY <1>1, <2>3
  <2> QED  BY <1>1, <2>1, <2>4, <2>5
<1> HIDE DEF k
<1> QED  BY <1>2 DEF At, k

LEMMA StageShape ==
    ASSUME NEW v \in Pep440Versions
    PROVE  /\ Pep440Stage(v) \in Seq(Int) /\ Len(Pep440Stage(v)) <= 5
           /\ At(Pep440Stage(v), 1, 0) = PreKey(v)[1] /\ At(Pep440Stage(v), 2, 0) = PreKey(v)[2]
           /\ At(Pep440Stage(v), 3, 0) = At(v.post, 1, -1)
           /\ At(Pep440Stage(v), 4, 0) = 1 - Len(v.dev)
           /\ At(Pep440Stage(v), 5, 0) = At(v.dev, 1, 0)
<1>1. v.post \in Single /\ v.dev \in Single
  BY AtMostOne DEF Pep440Versions
<1>2. At(v.post, 1, -1) \in Int /\ 1 - Len(v.dev) \in Int /\ At(v.dev, 1, 0) \in Int
  BY <1>1, SingleShape
<1>3. PICK x \in Int, y \in Int : PreKey(v) = <<x, y>>
  BY PreIsKey
<1>4. Pep440Stage(v) = <<x, y>> \o <<At(v.post, 1, -1), 1 - Len(v.dev), At(v.dev, 1, 0)>>
  BY <1>3, Zenon DEF Pep440Stage, PreKey
<1>5. ASSUME NEW p \in Int, NEW q \in Int, NEW r \in Int
      PROVE  LET k == <<x, y>> \o <<p, q, r>>
             IN  /\ k \in Seq(Int) /\ Len(k) <= 5 /\ At(k, 1, 0) = x /\ At(k, 2, 0) = y
                 /\ At(k, 3, 0) = p /\ At(k, 4, 0) = q /\ At(k, 5, 0) = r
  BY TwoAndThree
<1>6. PreKey(v)[1] = x /\ PreKey(v)[2] = y
  BY <1>3
<1> QED  BY <1>2, <1>4, <1>5, <1>6

LEMMA StageIsKey ==
    ASSUME NEW a \in Pep440Versions, NEW b \in Pep440Versions
    PROVE  LET pre == ComparePre(a, b)
               post == ComparePresence(a.post, b.post, FALSE)
               dev == ComparePresence(a.dev, b.dev, TRUE)
           IN  /\ pre \in Signs /\ post \in Signs /\ dev \in Signs
               /\ ByKey(Pep440Stage(a), Pep440Stage(b)) = IF pre # 0 THEN pre ELSE IF post # 0 THEN post ELSE dev
<1>1. a.post \in Single /\ b.post \in Single /\ a.dev \in Single /\ b.dev \in Single
  BY AtMostOne DEF Pep440Versions
<1>2. \A x, y \in Int : Sign(x, y) \in Signs /\ (Sign(x, y) = 0 <=> x = y)
  BY DEF Sign, Signs
<1>3. /\ ComparePresence(a.post, b.post, FALSE) = Sign(At(a.post, 1, -1), At(b.post, 1, -1))
      /\ At(a.post, 1, -1) \in Int /\ At(b.post, 1, -1) \in Int
  BY <1>1, SingleText, SingleShape DEF ComparePresence
<1> DEFINE s == 1 - Len(a.dev)
           t == 1 - Len(b.dev)
           x == At(a.dev, 1, 0)
           y == At(b.dev, 1, 0)
<1>4. s \in Int /\ t \in Int /\ x \in Int /\ y \in Int
  BY <1>1, SingleShape
<1>5. ComparePresence(a.dev, b.dev, TRUE) = IF s # t THEN Sign(s, t) ELSE Sign(x, y)
  <2>1. Text(a.dev, b.dev) = Sign(At(a.dev, 1, -1), At(b.dev, 1, -1))
    BY <1>1, SingleText
  <2>2. CASE Len(a.dev) # Len(b.dev)
    <3>1. ComparePresence(a.dev, b.dev, TRUE) = Sign(Len(b.dev), Len(a.dev))
      BY <2>2 DEF ComparePresence
    <3>2. Len(a.dev) \in Int /\ Len(b.dev) \in Int
      BY <1>1, SingleShape
    <3>3. s # t /\ Sign(s, t) = Sign(Len(b.dev), Len(a.dev))
      BY <2>2, <3>2 DEF Sign
    <3> QED  BY <3>1, <3>3
  <2>3. CASE Len(a.dev) = Len(b.dev)
    <3>1. ComparePresence(a.dev, b.dev, TRUE) = Sign(At(a.dev, 1, -1), At(b.dev, 1, -1))
      BY <2>1, <2>3 DEF ComparePresence
    <3>2. Sign(At(a.dev, 1, -1), At(b.dev, 1, -1)) = Sign(x, y)
      <4>1. \/ At(a.dev, 1, -1) = x /\ At(b.dev, 1, -1) = y
            \/ At(a.dev, 1, -1) = -1 /\ At(b.dev, 1, -1) = -1 /\ x = 0 /\ y = 0
        BY <1>1, <2>3, SingleShape
      <4> QED  BY <4>1 DEF Sign
    <3> QED  BY <2>3, <3>1, <3>2
  <2> QED  BY <2>2, <2>3
<1> DEFINE pre == ComparePre(a, b)
           post == ComparePresence(a.post, b.post, FALSE)
           dev == ComparePresence(a.dev, b.dev, TRUE)
           k == Pep440Stage(a)
           l == Pep440Stage(b)
<1>6. pre \in Signs /\ post \in Signs /\ dev \in Signs
  <2>1. pre \in Signs
    BY PreIsKey
  <2> HIDE DEF s, t, x, y
  <2> QED  BY <2>1, <1>2, <1>3, <1>4, <1>5
<1>7. ByKey(k, l) = IF PreKey(a)[1] # PreKey(b)[1] THEN Sign(PreKey(a)[1], PreKey(b)[1])
                    ELSE IF PreKey(a)[2] # PreKey(b)[2] THEN Sign(PreKey(a)[2], PreKey(b)[2])
                    ELSE IF At(a.post, 1, -1) # At(b.post, 1, -1) THEN Sign(At(a.post, 1, -1), At(b.post, 1, -1))
                    ELSE IF s # t THEN Sign(s, t)
                    ELSE Sign(x, y)
  <2>1. /\ k \in Seq(Int) /\ l \in Seq(Int) /\ Len(k) <= 5 /\ Len(l) <= 5
        /\ At(k, 1, 0) = PreKey(a)[1] /\ At(k, 2, 0) = PreKey(a)[2] /\ At(k, 3, 0) = At(a.post, 1, -1)
        /\ At(k, 4, 0) = s /\ At(k, 5, 0) = x
        /\ At(l, 1, 0) = PreKey(b)[1] /\ At(l, 2, 0) = PreKey(b)[2] /\ At(l, 3, 0) = At(b.post, 1, -1)
        /\ At(l, 4, 0) = t /\ At(l, 5, 0) = y
    BY StageShape
  <2> HIDE DEF k, l, s, t, x, y
  <2> QED  BY <2>1, ShortKey
<1>8. PreKey(a)[1] \in Int /\ PreKey(b)[1] \in Int /\ PreKey(a)[2] \in Int /\ PreKey(b)[2] \in Int
  BY PreIsKey
<1>9. pre = IF PreKey(a)[1] # PreKey(b)[1] THEN Sign(PreKey(a)[1], PreKey(b)[1])
            ELSE Sign(PreKey(a)[2], PreKey(b)[2])
  BY PreIsKey
<1>10. ByKey(k, l) = IF pre # 0 THEN pre ELSE IF post # 0 THEN post ELSE dev
  <2> HIDE DEF k, l, s, t, x, y, pre, post, dev
  <2>1. CASE pre # 0
    BY <2>1, <1>2, <1>7, <1>8, <1>9
  <2>2. CASE pre = 0
    <3>1. PreKey(a)[1] = PreKey(b)[1] /\ PreKey(a)[2] = PreKey(b)[2]
      BY <2>2, <1>2, <1>8, <1>9
    <3>2. post = 0 <=> At(a.post, 1, -1) = At(b.post, 1, -1)
      BY <1>2, <1>3 DEF post
    <3>3. dev = IF s # t THEN Sign(s, t) ELSE Sign(x, y)
      BY <1>5 DEF dev
    <3>4. post = Sign(At(a.post, 1, -1), At(b.post, 1, -1))
      BY <1>3 DEF post
    <3> QED  BY <2>2, <3>1, <3>2, <3>3, <3>4, <1>7
  <2> QED  BY <2>1, <2>2
<1> QED  BY <1>6, <1>10

\* pep440.Compare answers on every two versions as PEP 440 says: which suffix
\* comes first, and a release as if it went on with zeros.
THEOREM Pep440ByTheRules ==
    \A a, b \in Pep440Versions : ComparePep440(a, b) = Pep440Reference(a, b)
<1> TAKE a, b \in Pep440Versions
<1>1. a.epoch \in Int /\ b.epoch \in Int /\ a.release \in Seq(Int) /\ b.release \in Seq(Int)
  BY DEF Pep440Versions
<1>2. a.local \in Seq(Segments) /\ b.local \in Seq(Segments)
  BY DEF Pep440Versions, Segments
<1> DEFINE epoch == Sign(a.epoch, b.epoch)
           release == ByKey(a.release, b.release)
           pre == ComparePre(a, b)
           post == ComparePresence(a.post, b.post, FALSE)
           dev == ComparePresence(a.dev, b.dev, TRUE)
           stage == ByKey(Pep440Stage(a), Pep440Stage(b))
           local == ByKeys(Pep440Local(a.local), Pep440Local(b.local))
<1>3. epoch \in Signs /\ release \in Signs /\ pre \in Signs /\ post \in Signs /\ dev \in Signs
  BY <1>1, SignType, KeyType, StageIsKey
<1>4. local \in Signs /\ CompareLocal(a.local, b.local) = local
  BY <1>2, LocalIsKeys, KeysType
<1>5. stage = (IF pre # 0 THEN pre ELSE IF post # 0 THEN post ELSE dev) /\ stage \in Signs
  BY StageIsKey
<1>6. ComparePep440(a, b) = FirstDifference(<<epoch, release, pre, post, dev, local>>)
  BY <1>4 DEF ComparePep440, CompareRelease
<1>7. Pep440Reference(a, b) = FirstDifference(<<epoch, release, stage, local>>)
  BY DEF Pep440Reference
<1> HIDE DEF epoch, release, pre, post, dev, stage, local
<1>8. FirstDifference(<<epoch, release, pre, post, dev, local>>) =
         IF epoch # 0 THEN epoch ELSE IF release # 0 THEN release ELSE IF pre # 0 THEN pre
         ELSE IF post # 0 THEN post ELSE IF dev # 0 THEN dev ELSE local
  BY <1>3, <1>4, OfSix
<1>9. FirstDifference(<<epoch, release, stage, local>>) =
         IF epoch # 0 THEN epoch ELSE IF release # 0 THEN release ELSE IF stage # 0 THEN stage ELSE local
  BY <1>3, <1>4, <1>5, OfFour
<1> QED  BY <1>5, <1>6, <1>7, <1>8, <1>9

\* Orders one after the other.
LEMMA FourChain ==
    ASSUME NEW x1 \in Signs, NEW x2 \in Signs, NEW x3 \in Signs, NEW x4 \in Signs,
           NEW y1 \in Signs, NEW y2 \in Signs, NEW y3 \in Signs, NEW y4 \in Signs,
           NEW z1 \in Signs, NEW z2 \in Signs, NEW z3 \in Signs, NEW z4 \in Signs,
           Chain(x1, y1, z1), Chain(x2, y2, z2), Chain(x3, y3, z3), Chain(x4, y4, z4)
    PROVE  Chain(FirstDifference(<<x1, x2, x3, x4>>), FirstDifference(<<y1, y2, y3, y4>>),
                 FirstDifference(<<z1, z2, z3, z4>>))
<1>1. /\ FirstDifference(<<x1, x2, x3, x4>>) = IF x1 # 0 THEN x1 ELSE IF x2 # 0 THEN x2 ELSE IF x3 # 0 THEN x3 ELSE x4
      /\ FirstDifference(<<y1, y2, y3, y4>>) = IF y1 # 0 THEN y1 ELSE IF y2 # 0 THEN y2 ELSE IF y3 # 0 THEN y3 ELSE y4
      /\ FirstDifference(<<z1, z2, z3, z4>>) = IF z1 # 0 THEN z1 ELSE IF z2 # 0 THEN z2 ELSE IF z3 # 0 THEN z3 ELSE z4
  BY OfFour
<1> QED  BY <1>1 DEF Chain, Signs

LEMMA ThreeChain ==
    ASSUME NEW x1 \in Signs, NEW x2 \in Signs, NEW x3 \in Signs,
           NEW y1 \in Signs, NEW y2 \in Signs, NEW y3 \in Signs,
           NEW z1 \in Signs, NEW z2 \in Signs, NEW z3 \in Signs,
           Chain(x1, y1, z1), Chain(x2, y2, z2), Chain(x3, y3, z3)
    PROVE  Chain(FirstDifference(<<x1, x2, x3>>), FirstDifference(<<y1, y2, y3>>), FirstDifference(<<z1, z2, z3>>))
<1>1. /\ FirstDifference(<<x1, x2, x3>>) = IF x1 # 0 THEN x1 ELSE IF x2 # 0 THEN x2 ELSE x3
      /\ FirstDifference(<<y1, y2, y3>>) = IF y1 # 0 THEN y1 ELSE IF y2 # 0 THEN y2 ELSE y3
      /\ FirstDifference(<<z1, z2, z3>>) = IF z1 # 0 THEN z1 ELSE IF z2 # 0 THEN z2 ELSE z3
  BY OfThree
<1> QED  BY <1>1 DEF Chain, Signs

LEMMA FourOpposite ==
    ASSUME NEW x1 \in Signs, NEW x2 \in Signs, NEW x3 \in Signs, NEW x4 \in Signs,
           NEW y1 \in Signs, NEW y2 \in Signs, NEW y3 \in Signs, NEW y4 \in Signs,
           x1 = -y1, x2 = -y2, x3 = -y3, x4 = -y4
    PROVE  /\ FirstDifference(<<x1, x2, x3, x4>>) \in Signs
           /\ FirstDifference(<<x1, x2, x3, x4>>) = -FirstDifference(<<y1, y2, y3, y4>>)
<1>1. /\ FirstDifference(<<x1, x2, x3, x4>>) = IF x1 # 0 THEN x1 ELSE IF x2 # 0 THEN x2 ELSE IF x3 # 0 THEN x3 ELSE x4
      /\ FirstDifference(<<y1, y2, y3, y4>>) = IF y1 # 0 THEN y1 ELSE IF y2 # 0 THEN y2 ELSE IF y3 # 0 THEN y3 ELSE y4
  BY OfFour
<1> QED  BY <1>1 DEF Signs

LEMMA ThreeOpposite ==
    ASSUME NEW x1 \in Signs, NEW x2 \in Signs, NEW x3 \in Signs,
           NEW y1 \in Signs, NEW y2 \in Signs, NEW y3 \in Signs, x1 = -y1, x2 = -y2, x3 = -y3
    PROVE  /\ FirstDifference(<<x1, x2, x3>>) \in Signs
           /\ FirstDifference(<<x1, x2, x3>>) = -FirstDifference(<<y1, y2, y3>>)
<1>1. /\ FirstDifference(<<x1, x2, x3>>) = IF x1 # 0 THEN x1 ELSE IF x2 # 0 THEN x2 ELSE x3
      /\ FirstDifference(<<y1, y2, y3>>) = IF y1 # 0 THEN y1 ELSE IF y2 # 0 THEN y2 ELSE y3
  BY OfThree
<1> QED  BY <1>1 DEF Signs

LEMMA Pep440Parts ==
    ASSUME NEW v \in Pep440Versions
    PROVE  /\ v.epoch \in Int /\ v.release \in Seq(Int) /\ Pep440Stage(v) \in Seq(Int)
           /\ Pep440Local(v.local) \in Seq(Seq(Int))
<1>1. v.epoch \in Int /\ v.release \in Seq(Int)
  BY DEF Pep440Versions
<1>2. v.local \in Seq(Segments)
  BY DEF Pep440Versions, Segments
<1> QED  BY <1>1, <1>2, StageShape, LocalIsKeys

\* pep440.Compare orders versions: a sort, a lowest fix and an interval mean
\* something.
THEOREM Pep440IsAnOrder ==
    \A u, v \in Pep440Versions :
        /\ ComparePep440(u, v) \in {-1, 0, 1} /\ ComparePep440(u, v) = -ComparePep440(v, u)
        /\ \A w \in Pep440Versions :
              ComparePep440(u, v) <= 0 /\ ComparePep440(v, w) <= 0 => ComparePep440(u, w) <= 0
<1> DEFINE epoch(a, b) == Sign(a.epoch, b.epoch)
           release(a, b) == ByKey(a.release, b.release)
           stage(a, b) == ByKey(Pep440Stage(a), Pep440Stage(b))
           local(a, b) == ByKeys(Pep440Local(a.local), Pep440Local(b.local))
<1>1. ASSUME NEW a \in Pep440Versions, NEW b \in Pep440Versions
      PROVE  ComparePep440(a, b) = FirstDifference(<<epoch(a, b), release(a, b), stage(a, b), local(a, b)>>)
  BY Pep440ByTheRules, Zenon DEF Pep440Reference
<1>2. ASSUME NEW a \in Pep440Versions, NEW b \in Pep440Versions
      PROVE  /\ epoch(a, b) \in Signs /\ release(a, b) \in Signs /\ stage(a, b) \in Signs /\ local(a, b) \in Signs
             /\ epoch(a, b) = -epoch(b, a) /\ release(a, b) = -release(b, a)
             /\ stage(a, b) = -stage(b, a) /\ local(a, b) = -local(b, a)
  BY Pep440Parts, SignType, KeyType, KeysType
<1>3. ASSUME NEW a \in Pep440Versions, NEW b \in Pep440Versions, NEW c \in Pep440Versions
      PROVE  /\ Chain(epoch(a, b), epoch(b, c), epoch(a, c)) /\ Chain(release(a, b), release(b, c), release(a, c))
             /\ Chain(stage(a, b), stage(b, c), stage(a, c)) /\ Chain(local(a, b), local(b, c), local(a, c))
  BY Pep440Parts, SignChain, KeyChain, KeysChain
<1> HIDE DEF epoch, release, stage, local
<1>4. ASSUME NEW a \in Pep440Versions, NEW b \in Pep440Versions
      PROVE  ComparePep440(a, b) \in Signs /\ ComparePep440(a, b) = -ComparePep440(b, a)
  <2>1. /\ ComparePep440(a, b) = FirstDifference(<<epoch(a, b), release(a, b), stage(a, b), local(a, b)>>)
        /\ ComparePep440(b, a) = FirstDifference(<<epoch(b, a), release(b, a), stage(b, a), local(b, a)>>)
    BY <1>1
  <2>2. /\ epoch(a, b) \in Signs /\ release(a, b) \in Signs /\ stage(a, b) \in Signs /\ local(a, b) \in Signs
        /\ epoch(b, a) \in Signs /\ release(b, a) \in Signs /\ stage(b, a) \in Signs /\ local(b, a) \in Signs
        /\ epoch(a, b) = -epoch(b, a) /\ release(a, b) = -release(b, a)
        /\ stage(a, b) = -stage(b, a) /\ local(a, b) = -local(b, a)
    BY <1>2
  <2> QED  BY <2>1, <2>2, FourOpposite
<1>5. ASSUME NEW a \in Pep440Versions, NEW b \in Pep440Versions, NEW c \in Pep440Versions
      PROVE  Chain(ComparePep440(a, b), ComparePep440(b, c), ComparePep440(a, c))
  <2>1. /\ ComparePep440(a, b) = FirstDifference(<<epoch(a, b), release(a, b), stage(a, b), local(a, b)>>)
        /\ ComparePep440(b, c) = FirstDifference(<<epoch(b, c), release(b, c), stage(b, c), local(b, c)>>)
        /\ ComparePep440(a, c) = FirstDifference(<<epoch(a, c), release(a, c), stage(a, c), local(a, c)>>)
    BY <1>1
  <2>2. /\ epoch(a, b) \in Signs /\ release(a, b) \in Signs /\ stage(a, b) \in Signs /\ local(a, b) \in Signs
        /\ epoch(b, c) \in Signs /\ release(b, c) \in Signs /\ stage(b, c) \in Signs /\ local(b, c) \in Signs
        /\ epoch(a, c) \in Signs /\ release(a, c) \in Signs /\ stage(a, c) \in Signs /\ local(a, c) \in Signs
    BY <1>2
  <2>3. /\ Chain(epoch(a, b), epoch(b, c), epoch(a, c)) /\ Chain(release(a, b), release(b, c), release(a, c))
        /\ Chain(stage(a, b), stage(b, c), stage(a, c)) /\ Chain(local(a, b), local(b, c), local(a, c))
    BY <1>3
  <2>4. Chain(FirstDifference(<<epoch(a, b), release(a, b), stage(a, b), local(a, b)>>),
              FirstDifference(<<epoch(b, c), release(b, c), stage(b, c), local(b, c)>>),
              FirstDifference(<<epoch(a, c), release(a, c), stage(a, c), local(a, c)>>))
    BY <2>2, <2>3, FourChain
  <2> QED  BY <2>1, <2>4
<1> QED  BY <1>4, <1>5 DEF Chain, Signs

------------------------------------------------------------------------------
\* Runs of characters and the numbers they stand for.

LEMMA RunOf ==
    ASSUME NEW s \in Seq(Int), NEW D
    PROVE  \E n \in 0..Len(s) : (\A i \in 1..n : s[i] \in D) /\ (n < Len(s) => s[n + 1] \notin D)
<1> DEFINE stops == {n \in 0..Len(s) : n < Len(s) => s[n + 1] \notin D}
<1>1. stops \in SUBSET Nat /\ Len(s) \in stops
  OBVIOUS
<1>2. PICK m \in stops : \A n \in stops : m <= n
  <2> HIDE DEF stops
  <2> QED  BY <1>1, LeastOf
<1>3. ASSUME NEW i \in 1..m PROVE s[i] \in D
  <2>1. i - 1 \in 0..Len(s) /\ i - 1 < Len(s) /\ ~(m <= i - 1) /\ (i - 1) + 1 = i
    BY <1>2
  <2>2. i - 1 \notin stops
    <3> HIDE DEF stops
    <3> QED  BY <1>2, <2>1
  <2> QED  BY <2>1, <2>2
<1> QED  BY <1>2, <1>3

Digit == 48..57

LEMMA DigitsOf ==
    ASSUME NEW s \in Seq(Int)
    PROVE  /\ Digits(s) \in 0..Len(s) /\ (\A i \in 1..Digits(s) : s[i] \in Digit)
           /\ Digits(s) < Len(s) => s[Digits(s) + 1] \notin Digit
<1>1. \E n \in 0..Len(s) : (\A i \in 1..n : s[i] \in Digit) /\ (n < Len(s) => s[n + 1] \notin Digit)
  BY RunOf
<1>2. Digits(s) = CHOOSE n \in 0..Len(s) : (\A i \in 1..n : s[i] \in Digit) /\ (n < Len(s) => s[n + 1] \notin Digit)
  BY Zenon DEF Digits, Run, IsDigit, Digit
<1> QED  BY <1>1, <1>2, Zenon

LEMMA ZerosOf ==
    ASSUME NEW s \in Seq(Int)
    PROVE  /\ Zeros(s) \in 0..Len(s) /\ (\A i \in 1..Zeros(s) : s[i] = 48)
           /\ Zeros(s) < Len(s) => s[Zeros(s) + 1] # 48
<1>1. \E n \in 0..Len(s) : (\A i \in 1..n : s[i] \in {48}) /\ (n < Len(s) => s[n + 1] \notin {48})
  BY RunOf
<1>2. \E n \in 0..Len(s) : (\A i \in 1..n : s[i] = 48) /\ (n < Len(s) => ~(s[n + 1] = 48))
  BY <1>1
<1>3. Zeros(s) = CHOOSE n \in 0..Len(s) : (\A i \in 1..n : s[i] = 48) /\ (n < Len(s) => ~(s[n + 1] = 48))
  BY Zenon DEF Zeros, Run, Zero
<1> QED  BY <1>2, <1>3, Zenon

LEMMA NonDigitsOf ==
    ASSUME NEW s \in Seq(Int)
    PROVE  /\ NonDigits(s) \in 0..Len(s) /\ (\A i \in 1..NonDigits(s) : s[i] \notin Digit)
           /\ NonDigits(s) < Len(s) => s[NonDigits(s) + 1] \in Digit
<1>1. \E n \in 0..Len(s) : (\A i \in 1..n : s[i] \in Int \ Digit) /\ (n < Len(s) => s[n + 1] \notin Int \ Digit)
  BY RunOf
<1>2. \E n \in 0..Len(s) : (\A i \in 1..n : ~(s[i] \in Digit)) /\ (n < Len(s) => ~~(s[n + 1] \in Digit))
  BY <1>1
<1>3. NonDigits(s) = CHOOSE n \in 0..Len(s) : (\A i \in 1..n : ~(s[i] \in Digit)) /\ (n < Len(s) => ~~(s[n + 1] \in Digit))
  BY Zenon DEF NonDigits, Run, IsDigit, Digit
<1> QED  BY <1>2, <1>3, Zenon

\* What Value computes on the way.
Values(s, f) ==
    /\ f \in [0..Len(s) -> Nat] /\ f[0] = 0
    /\ \A n \in 1..Len(s) : f[n] = 10 * f[n - 1] + s[n] - 48

LEMMA ValueOf ==
    ASSUME NEW s \in Seq(Digit)
    PROVE  \E f : Values(s, f) /\ Value(s) = f[Len(s)]
<1> DEFINE P(m, f) == f \in [0..m -> Nat] /\ f[0] = 0 /\ \A n \in 1..m : f[n] = 10 * f[n - 1] + s[n] - 48
           S == {m \in Nat : m <= Len(s) => \E f : P(m, f)}
<1>1. 0 \in S
  <2>1. P(0, [n \in 0..0 |-> 0])
    OBVIOUS
  <2> QED  BY <2>1
<1>2. ASSUME NEW m \in Nat, m \in S, m + 1 <= Len(s) PROVE \E f : P(m + 1, f)
  <2>0. \E f : P(m, f)
    <3> HIDE DEF P
    <3> QED  BY <1>2
  <2>1. PICK f : P(m, f)
    BY <2>0
  <2>2. s[m + 1] \in 48..57
    <3>1. m + 1 \in 1..Len(s)
      BY <1>2
    <3>2. s[m + 1] \in Digit
      BY <3>1, ElementOfSeq
    <3> QED  BY <3>2 DEF Digit
  <2> DEFINE h == 10 * f[m] + s[m + 1] - 48
             g == [n \in 0..(m + 1) |-> IF n <= m THEN f[n] ELSE h]
  <2>3. h \in Nat
    <3>1. f[m] \in Nat
      BY <2>1
    <3>2. \A x \in Nat, y \in 48..57 : 10 * x + y - 48 \in Nat
      OBVIOUS
    <3> QED  BY <3>1, <3>2, <2>2, Zenon
  <2>4. g \in [0..(m + 1) -> Nat] /\ g[0] = 0
    <3> HIDE DEF h
    <3> QED  BY <2>1, <2>3
  <2>5. ASSUME NEW n \in 1..(m + 1) PROVE g[n] = 10 * g[n - 1] + s[n] - 48
    <3>1. CASE n <= m
      BY <2>1, <3>1
    <3>2. CASE n = m + 1
      BY <2>1, <3>2
    <3> QED  BY <3>1, <3>2
  <2> HIDE DEF g
  <2> QED  BY <2>4, <2>5
<1>10. ASSUME NEW m \in Nat, m \in S PROVE m + 1 \in S
  <2> HIDE DEF P
  <2> QED  BY <1>2, <1>10
<1>3. \A m \in Nat : m \in S
  <2> HIDE DEF S
  <2> QED  BY <1>1, <1>10, Induction
<1>4. PICK f : Values(s, f)
  BY <1>3 DEF Values
<1> DEFINE D(v) == v = [n \in 0..Len(s) |-> IF n = 0 THEN 0 ELSE 10 * v[n - 1] + s[n] - Zero]
           value == CHOOSE v : D(v)
<1>5. D(f)
  BY <1>4 DEF Values, Zero
<1>6. D(value)
  <2> HIDE DEF D
  <2> QED  BY <1>5
<1>7. value[0] = 0 /\ \A n \in 1..Len(s) : value[n] = 10 * value[n - 1] + s[n] - 48
  <2> HIDE DEF value
  <2> QED  BY <1>6 DEF Zero
<1> HIDE DEF value
<1> DEFINE T == {n \in Nat : n <= Len(s) => value[n] = f[n]}
<1>8. \A n \in Nat : n \in T
  <2>1. 0 \in T
    BY <1>4, <1>7 DEF Values
  <2>2. ASSUME NEW n \in Nat, n \in T PROVE n + 1 \in T
    <3>1. n + 1 <= Len(s) => n + 1 \in 1..Len(s) /\ value[n] = f[n] /\ (n + 1) - 1 = n
      BY <2>2
    <3> QED  BY <3>1, <1>4, <1>7 DEF Values
  <2> HIDE DEF T
  <2> QED  BY <2>1, <2>2, Induction
<1>9. Value(s) = value[Len(s)]
  BY Zenon DEF Value, value
<1> QED  BY <1>4, <1>8, <1>9

LEMMA PrefixOf ==
    ASSUME NEW S, NEW s \in Seq(S), NEW n \in 0..Len(s)
    PROVE  /\ SubSeq(s, 1, n) \in Seq(S) /\ Len(SubSeq(s, 1, n)) = n
           /\ \A i \in 1..n : SubSeq(s, 1, n)[i] = s[i]
<1>1. \A i \in 1..n : s[i] \in S
  OBVIOUS
<1>2. /\ SubSeq(s, 1, n) \in Seq(S)
      /\ Len(SubSeq(s, 1, n)) = IF 1 <= n THEN n - 1 + 1 ELSE 0
      /\ \A i \in 1..n - 1 + 1 : SubSeq(s, 1, n)[i] = s[1 + i - 1]
  <2>1. 1 \in Int /\ n \in Int
    OBVIOUS
  <2> QED  BY <1>1, <2>1, SubSeqProperties
<1> QED  BY <1>2

LEMMA WithoutOf ==
    ASSUME NEW S, NEW s \in Seq(S), NEW n \in 0..Len(s)
    PROVE  /\ Without(s, n) \in Seq(S) /\ Len(Without(s, n)) = Len(s) - n
           /\ \A i \in 1..Len(s) - n : Without(s, n)[i] = s[n + i]
<1>1. \A i \in n + 1 .. Len(s) : s[i] \in S
  OBVIOUS
<1>2. /\ SubSeq(s, n + 1, Len(s)) \in Seq(S)
      /\ Len(SubSeq(s, n + 1, Len(s))) = IF n + 1 <= Len(s) THEN Len(s) - (n + 1) + 1 ELSE 0
      /\ \A i \in 1..Len(s) - (n + 1) + 1 : SubSeq(s, n + 1, Len(s))[i] = s[(n + 1) + i - 1]
  <2>1. n + 1 \in Int /\ Len(s) \in Int
    OBVIOUS
  <2> QED  BY <1>1, <2>1, SubSeqProperties
<1>3. Without(s, n) = SubSeq(s, n + 1, Len(s))
  BY DEF Without
<1> HIDE DEF Without
<1>4. Len(s) - (n + 1) + 1 = Len(s) - n /\ Len(s) - n \in Nat
  OBVIOUS
<1>5. Len(SubSeq(s, n + 1, Len(s))) = Len(s) - n
  <2>1. Len(s) \in Nat /\ n \in Nat /\ n <= Len(s)
    OBVIOUS
  <2>2. n + 1 <= Len(s) \/ Len(s) - n = 0
    BY <2>1
  <2> QED  BY <1>2, <1>4, <2>1, <2>2
<1>6. ASSUME NEW i \in 1..Len(s) - n PROVE SubSeq(s, n + 1, Len(s))[i] = s[n + i]
  <2>1. i \in 1..Len(s) - (n + 1) + 1 /\ (n + 1) + i - 1 = n + i
    BY <1>4
  <2> QED  BY <1>2, <2>1
<1> QED  BY <1>2, <1>3, <1>5, <1>6

LEMMA ValueNat == ASSUME NEW s \in Seq(Digit) PROVE Value(s) \in Nat
<1>1. PICK f : Values(s, f) /\ Value(s) = f[Len(s)]
  BY ValueOf
<1> QED  BY <1>1 DEF Values

LEMMA ValueStep ==
    ASSUME NEW s \in Seq(Digit), NEW f, Values(s, f), NEW n \in Nat, n + 1 <= Len(s)
    PROVE  f[n] \in Nat /\ f[n + 1] \in Nat /\ s[n + 1] \in 48..57 /\ f[n + 1] = 10 * f[n] + s[n + 1] - 48
<1>1. n + 1 \in 1..Len(s) /\ n \in 0..Len(s) /\ n + 1 \in 0..Len(s) /\ (n + 1) - 1 = n
  OBVIOUS
<1>2. s[n + 1] \in 48..57
  BY <1>1, ElementOfSeq DEF Digit
<1>3. f[n + 1] = 10 * f[(n + 1) - 1] + s[n + 1] - 48
  BY <1>1 DEF Values
<1>4. f[n] \in Nat /\ f[n + 1] \in Nat
  BY <1>1 DEF Values
<1> QED  BY <1>1, <1>2, <1>3, <1>4

LEMMA Behind == \A x, y \in Nat, a, b \in 48..57 : x < y => 10 * x + a - 48 < 10 * y + b - 48
OBVIOUS

\* Once behind, behind for good.
LEMMA StaysBehind ==
    ASSUME NEW s \in Seq(Digit), NEW t \in Seq(Digit), NEW f, NEW g, Values(s, f), Values(t, g),
           NEW m \in Nat, NEW d \in Nat, m <= Len(s), Len(s) + d = Len(t), f[m] < g[m + d]
    PROVE  f[Len(s)] < g[Len(t)]
<1> DEFINE S == {j \in Nat : m + j <= Len(s) => f[m + j] < g[m + j + d]}
<1>1. 0 \in S
  OBVIOUS
<1>2. ASSUME NEW j \in Nat, j \in S PROVE j + 1 \in S
  <2> SUFFICES ASSUME m + (j + 1) <= Len(s) PROVE f[m + (j + 1)] < g[m + (j + 1) + d]
    OBVIOUS
  <2>1. PICK n \in Nat, p \in Nat : /\ n = m + j /\ p = m + j + d /\ n + 1 <= Len(s) /\ p + 1 <= Len(t)
                                    /\ n + 1 = m + (j + 1) /\ p + 1 = m + (j + 1) + d
    OBVIOUS
  <2>2. f[n] < g[p]
    BY <1>2, <2>1
  <2>3. f[n] \in Nat /\ s[n + 1] \in 48..57 /\ f[n + 1] = 10 * f[n] + s[n + 1] - 48
    BY <2>1, ValueStep
  <2>4. g[p] \in Nat /\ t[p + 1] \in 48..57 /\ g[p + 1] = 10 * g[p] + t[p + 1] - 48
    BY <2>1, ValueStep
  <2>5. f[n + 1] < g[p + 1]
    <3>1. f[n] \in Nat /\ g[p] \in Nat /\ s[n + 1] \in 48..57 /\ t[p + 1] \in 48..57
      BY <2>3, <2>4
    <3>2. 10 * f[n] + s[n + 1] - 48 < 10 * g[p] + t[p + 1] - 48
      BY <2>2, <3>1, Behind, Zenon
    <3> QED  BY <2>3, <2>4, <3>2
  <2> QED  BY <2>1, <2>5
<1>3. \A j \in Nat : j \in S
  <2> HIDE DEF S
  <2> QED  BY <1>1, <1>2, Induction
<1>4. PICK j \in Nat : m + j = Len(s)
  <2>1. Len(s) - m \in Nat /\ m + (Len(s) - m) = Len(s)
    OBVIOUS
  <2> QED  BY <2>1
<1>5. m + j + d = Len(t) /\ m + j <= Len(s) /\ f[m + j] < g[m + j + d]
  BY <1>3, <1>4
<1> QED  BY <1>4, <1>5

\* With a digit other than zero in front, the longer number is the larger.
LEMMA LongerIsLarger ==
    ASSUME NEW s \in Seq(Digit), NEW t \in Seq(Digit), Len(s) < Len(t), t[1] # 48
    PROVE  Value(s) < Value(t)
<1>1. PICK f : Values(s, f) /\ Value(s) = f[Len(s)]
  BY ValueOf
<1>2. PICK g : Values(t, g) /\ Value(t) = g[Len(t)]
  BY ValueOf
<1> DEFINE S == {j \in Nat : j + 1 <= Len(t) => g[j + 1] > 0}
<1>3. 0 \in S
  <2>1. 0 + 1 <= Len(t)
    OBVIOUS
  <2>2. t[0 + 1] \in 48..57 /\ g[0 + 1] = 10 * g[0] + t[0 + 1] - 48
    BY <1>2, <2>1, ValueStep
  <2>3. g[0] = 0
    BY <1>2 DEF Values
  <2> QED  BY <2>2, <2>3
<1>4. ASSUME NEW j \in Nat, j \in S PROVE j + 1 \in S
  <2> SUFFICES ASSUME (j + 1) + 1 <= Len(t) PROVE g[(j + 1) + 1] > 0
    OBVIOUS
  <2>1. PICK n \in Nat : n = j + 1 /\ n + 1 <= Len(t) /\ g[n] > 0
    BY <1>4
  <2>2. g[n] \in Nat /\ t[n + 1] \in 48..57 /\ g[n + 1] = 10 * g[n] + t[n + 1] - 48
    BY <1>2, <2>1, ValueStep
  <2>3. \A x \in Nat, a \in 48..57 : x > 0 => 10 * x + a - 48 > 0
    OBVIOUS
  <2>4. g[n + 1] > 0
    BY <2>1, <2>2, <2>3
  <2> QED  BY <2>1, <2>4
<1>5. \A j \in Nat : j \in S
  <2> HIDE DEF S
  <2> QED  BY <1>3, <1>4, Induction
<1>6. PICK d \in Nat : Len(s) + d = Len(t) /\ d # 0
  <2>1. Len(s) \in Nat /\ Len(t) \in Nat
    OBVIOUS
  <2>2. Len(t) - Len(s) \in Nat /\ Len(s) + (Len(t) - Len(s)) = Len(t) /\ Len(t) - Len(s) # 0
    BY <2>1
  <2> QED  BY <2>2
<1>7. f[0] < g[0 + d]
  <2>1. d - 1 \in Nat /\ (d - 1) + 1 = d /\ d <= Len(t)
    BY <1>6
  <2>2. g[d] > 0
    BY <1>5, <2>1
  <2> QED  BY <1>1, <2>2 DEF Values
<1>8. 0 \in Nat /\ 0 <= Len(s) /\ Len(s) + d = Len(t)
  BY <1>6
<1>9. f[Len(s)] < g[Len(t)]
  BY <1>1, <1>2, <1>7, <1>8, StaysBehind
<1> QED  BY <1>1, <1>2, <1>9

LEMMA SameDigits ==
    ASSUME NEW s \in Seq(Digit), NEW t \in Seq(Digit), NEW f, NEW g, Values(s, f), Values(t, g),
           NEW m \in Nat, m <= Len(s), m <= Len(t), \A i \in 1..m : s[i] = t[i]
    PROVE  f[m] = g[m]
<1> DEFINE S == {n \in Nat : n <= m => f[n] = g[n]}
<1>1. 0 \in S
  BY DEF Values
<1>2. ASSUME NEW n \in Nat, n \in S PROVE n + 1 \in S
  <2> SUFFICES ASSUME n + 1 <= m PROVE f[n + 1] = g[n + 1]
    OBVIOUS
  <2>1. n + 1 <= Len(s) /\ n + 1 <= Len(t) /\ s[n + 1] = t[n + 1] /\ f[n] = g[n]
    BY <1>2
  <2> QED  BY <2>1, ValueStep
<1>3. \A n \in Nat : n \in S
  <2> HIDE DEF S
  <2> QED  BY <1>1, <1>2, Induction
<1> QED  BY <1>3

\* Leading zeros stand for nothing.
LEMMA WithoutZeros ==
    ASSUME NEW s \in Seq(Digit), NEW z \in 0..Len(s), \A i \in 1..z : s[i] = 48
    PROVE  Value(Without(s, z)) = Value(s)
<1>1. PICK f : Values(s, f) /\ Value(s) = f[Len(s)]
  BY ValueOf
<1>2. PICK t \in Seq(Digit) : t = Without(s, z) /\ Len(t) = Len(s) - z /\ \A i \in 1..Len(s) - z : t[i] = s[z + i]
  BY WithoutOf
<1>3. PICK g : Values(t, g) /\ Value(t) = g[Len(t)]
  BY ValueOf
<1> DEFINE S == {n \in Nat : n <= z => f[n] = 0}
           T == {n \in Nat : n <= Len(t) => f[z + n] = g[n]}
<1>4. \A n \in Nat : n \in S
  <2>1. 0 \in S
    BY <1>1 DEF Values
  <2>2. ASSUME NEW n \in Nat, n \in S PROVE n + 1 \in S
    <3> SUFFICES ASSUME n + 1 <= z PROVE f[n + 1] = 0
      OBVIOUS
    <3>1. n + 1 <= Len(s) /\ s[n + 1] = 48 /\ f[n] = 0
      BY <2>2
    <3> QED  BY <1>1, <3>1, ValueStep
  <2> HIDE DEF S
  <2> QED  BY <2>1, <2>2, Induction
<1>5. \A n \in Nat : n \in T
  <2>1. 0 \in T
    BY <1>3, <1>4 DEF Values
  <2>2. ASSUME NEW n \in Nat, n \in T PROVE n + 1 \in T
    <3> SUFFICES ASSUME n + 1 <= Len(t) PROVE f[z + (n + 1)] = g[n + 1]
      OBVIOUS
    <3>1. PICK p \in Nat : p = z + n /\ p + 1 = z + (n + 1) /\ p + 1 <= Len(s)
      BY <1>2
    <3>2. f[p + 1] = 10 * f[p] + s[p + 1] - 48
      BY <1>1, <3>1, ValueStep
    <3>3. g[n + 1] = 10 * g[n] + t[n + 1] - 48
      BY <1>3, ValueStep
    <3>4. t[n + 1] = s[p + 1] /\ f[p] = g[n]
      BY <1>2, <2>2, <3>1
    <3> QED  BY <3>1, <3>2, <3>3, <3>4
  <2> HIDE DEF T
  <2> QED  BY <2>1, <2>2, Induction
<1>6. Len(t) \in Nat /\ z + Len(t) = Len(s)
  BY <1>2
<1> QED  BY <1>1, <1>2, <1>3, <1>5, <1>6

LEMMA Ending ==
    ASSUME NEW p \in Nat, NEW c \in [1..p -> Signs], NEW x \in Signs
    PROVE  /\ c \o <<x>> \in [1..(p + 1) -> Signs]
           /\ \A i \in 1..p : (c \o <<x>>)[i] = c[i]
           /\ (c \o <<x>>)[p + 1] = x
<1>1. c \in Seq(Signs) /\ Len(c) = p /\ <<x>> \in Seq(Signs) /\ Len(<<x>>) = 1 /\ <<x>>[1] = x
  OBVIOUS
<1> DEFINE d == <<x>>
           f == c \o d
<1> HIDE DEF d
<1>2. d \in Seq(Signs) /\ Len(d) = 1 /\ d[1] = x
  BY <1>1 DEF d
<1>3. /\ f \in Seq(Signs) /\ Len(f) = Len(c) + Len(d)
      /\ \A i \in 1..Len(c) + Len(d) : f[i] = IF i <= Len(c) THEN c[i] ELSE d[i - Len(c)]
  BY <1>1, <1>2, ConcatProperties
<1> HIDE DEF f
<1>4. Len(f) = p + 1 /\ \A i \in 1..p : f[i] = c[i]
  BY <1>1, <1>2, <1>3
<1>5. f[p + 1] = x
  <2>1. p + 1 \in 1..Len(c) + Len(d) /\ ~(p + 1 <= Len(c)) /\ (p + 1) - Len(c) = 1
    BY <1>1, <1>2
  <2> QED  BY <1>2, <1>3, <2>1
<1>6. f \in [1..(p + 1) -> Signs]
  BY <1>3, <1>4, LenProperties
<1> QED  BY <1>4, <1>5, <1>6 DEF f, d

LEMMA TextFirst ==
    ASSUME NEW s \in Seq(Int), NEW t \in Seq(Int), NEW k \in 1..Shorter(s, t), s[k] # t[k],
           \A j \in 1..(k - 1) : s[j] = t[j]
    PROVE  Text(s, t) = Sign(s[k], t[k])
<1>1. PICK p \in Nat : p = Shorter(s, t) /\ p <= Len(s) /\ p <= Len(t) /\ k \in 1..p
  BY Lengths
<1>2. PICK x \in Signs : x = Sign(Len(s), Len(t))
  BY Lengths, SignType
<1>3. PICK c : c = [i \in 1..p |-> Sign(s[i], t[i])]
  OBVIOUS
<1>4. c \in [1..p -> Signs]
  <2>1. \A i \in 1..p : s[i] \in Int /\ t[i] \in Int
    BY <1>1
  <2> QED  BY <1>3, <2>1, SignType
<1>5. c[k] # 0 /\ c[k] = Sign(s[k], t[k]) /\ \A j \in 1..(k - 1) : c[j] = 0
  <2>1. \A i \in 1..p : s[i] \in Int /\ t[i] \in Int /\ c[i] = Sign(s[i], t[i])
    BY <1>1, <1>3
  <2>2. \A i \in 1..p : c[i] = 0 <=> s[i] = t[i]
    BY <2>1 DEF Sign
  <2>3. k \in 1..p /\ \A j \in 1..(k - 1) : j \in 1..p
    BY <1>1
  <2> QED  BY <2>1, <2>2, <2>3
<1>6. PICK f : f = c \o <<x>> /\ f \in [1..(p + 1) -> Signs] /\ \A i \in 1..p : f[i] = c[i]
  <2>1. c \in [1..p -> Signs]
    BY <1>4
  <2>2. /\ c \o <<x>> \in [1..(p + 1) -> Signs]
        /\ \A i \in 1..p : (c \o <<x>>)[i] = c[i]
        /\ (c \o <<x>>)[p + 1] = x
    BY <2>1, Ending
  <2> QED  BY <2>2, Zenon
<1>7. FirstDifference(f) = f[k]
  <2>1. p + 1 \in Nat /\ k \in 1..(p + 1) /\ f[k] # 0 /\ \A j \in 1..(k - 1) : f[j] = 0
    BY <1>1, <1>5, <1>6
  <2> QED  BY <1>6, <2>1, ThatDifference
<1>8. f[k] = Sign(s[k], t[k])
  BY <1>1, <1>5, <1>6
<1>9. Text(s, t) = FirstDifference(f)
  BY <1>1, <1>2, <1>3, <1>6, Zenon DEF Text
<1> QED  BY <1>7, <1>8, <1>9

LEMMA TextSame == ASSUME NEW s \in Seq(Int) PROVE Text(s, s) = 0
<1>1. PICK p \in Nat : p = Shorter(s, s) /\ p <= Len(s)
  BY Lengths
<1>2. PICK x \in Signs : x = Sign(Len(s), Len(s)) /\ x = 0
  <2>1. Len(s) \in Int
    OBVIOUS
  <2> QED  BY <2>1 DEF Sign, Signs
<1>3. PICK c : c = [i \in 1..p |-> Sign(s[i], s[i])]
  OBVIOUS
<1>4. c \in [1..p -> Signs] /\ \A i \in 1..p : c[i] = 0
  <2>1. \A i \in 1..p : s[i] \in Int
    BY <1>1
  <2> QED  BY <1>3, <2>1 DEF Sign, Signs
<1>5. PICK f : f = c \o <<x>> /\ f \in [1..(p + 1) -> Signs] /\ (\A i \in 1..p : f[i] = c[i]) /\ f[p + 1] = x
  <2>1. c \in [1..p -> Signs]
    BY <1>4
  <2>2. /\ c \o <<x>> \in [1..(p + 1) -> Signs]
        /\ \A i \in 1..p : (c \o <<x>>)[i] = c[i]
        /\ (c \o <<x>>)[p + 1] = x
    BY <2>1, Ending
  <2> QED  BY <2>2, Zenon
<1>6. \A i \in 1..(p + 1) : f[i] = 0
  BY <1>2, <1>4, <1>5
<1>7. FirstDifference(f) = 0
  <2>1. p + 1 \in Nat
    OBVIOUS
  <2> QED  BY <1>5, <1>6, <2>1, NoDifference
<1>8. Text(s, s) = FirstDifference(f)
  BY <1>1, <1>2, <1>3, <1>5, Zenon DEF Text
<1> QED  BY <1>7, <1>8

LEMMA FirstDigit ==
    ASSUME NEW s \in Seq(Digit), NEW t \in Seq(Digit), Len(s) = Len(t), NEW k \in 1..Len(s),
           \A j \in 1..(k - 1) : s[j] = t[j], s[k] < t[k]
    PROVE  Value(s) < Value(t)
<1>1. PICK f : Values(s, f) /\ Value(s) = f[Len(s)]
  BY ValueOf
<1>2. PICK g : Values(t, g) /\ Value(t) = g[Len(t)]
  BY ValueOf
<1>3. PICK m \in Nat : m = k - 1 /\ m + 1 = k /\ m + 1 <= Len(s) /\ m + 1 <= Len(t) /\ m <= Len(s) /\ m <= Len(t)
  <2>1. k - 1 \in Nat /\ (k - 1) + 1 = k /\ k <= Len(s)
    OBVIOUS
  <2> QED  BY <2>1
<1>4. f[m] = g[m]
  <2>1. \A i \in 1..m : s[i] = t[i]
    BY <1>3
  <2>2. m <= Len(s) /\ m <= Len(t)
    BY <1>3
  <2> QED  BY <1>1, <1>2, <2>1, <2>2, SameDigits
<1>5. f[k] < g[k]
  <2>1. f[m] \in Nat /\ s[k] \in 48..57 /\ f[k] = 10 * f[m] + s[k] - 48
    BY <1>1, <1>3, ValueStep
  <2>2. t[k] \in 48..57 /\ g[k] = 10 * g[m] + t[k] - 48
    BY <1>2, <1>3, ValueStep
  <2>3. \A x \in Nat, y, z \in 48..57 : y < z => 10 * x + y - 48 < 10 * x + z - 48
    OBVIOUS
  <2>4. 10 * f[m] + s[k] - 48 < 10 * f[m] + t[k] - 48
    BY <2>1, <2>2, <2>3
  <2> QED  BY <1>4, <2>1, <2>2, <2>4
<1>6. k \in Nat /\ 0 \in Nat /\ k <= Len(s) /\ Len(s) + 0 = Len(t) /\ k + 0 = k
  OBVIOUS
<1>7. f[Len(s)] < g[Len(t)]
  BY <1>1, <1>2, <1>5, <1>6, StaysBehind
<1> QED  BY <1>1, <1>2, <1>7

\* dpkg orders numbers by their length, then as text.
LEMMA DigitsByValue ==
    ASSUME NEW s \in Seq(Digit), NEW t \in Seq(Digit), s # <<>> => s[1] # 48, t # <<>> => t[1] # 48
    PROVE  CompareDigits(s, t) = Sign(Value(s), Value(t))
<1>1. s \in Seq(Int) /\ t \in Seq(Int)
  <2>1. Digit \subseteq Int
    BY DEF Digit
  <2> QED  BY <2>1, SeqMonotonic
<1>2. PICK m \in Nat, n \in Nat : m = Len(s) /\ n = Len(t)
  OBVIOUS
<1>3. Value(s) \in Nat /\ Value(t) \in Nat
  BY ValueNat
<1>4. Text(s, t) \in Signs
  <2>1. /\ [i \in DOMAIN s |-> s[i] + 0] \in Seq(Int) /\ [i \in DOMAIN t |-> t[i] + 0] \in Seq(Int)
    BY <1>1, Shifted
  <2>2. Positive(s, 0) /\ Positive(t, 0)
    <3>1. \A i \in DOMAIN s : s[i] \in Digit
      OBVIOUS
    <3>2. \A i \in DOMAIN t : t[i] \in Digit
      OBVIOUS
    <3>3. \A x \in Digit : x + 0 > 0
      BY DEF Digit
    <3> QED  BY <3>1, <3>2, <3>3 DEF Positive
  <2>3. Text(s, t) = ByKey([i \in DOMAIN s |-> s[i] + 0], [i \in DOMAIN t |-> t[i] + 0])
    <3>1. 0 \in Int
      OBVIOUS
    <3> QED  BY <1>1, <2>2, <3>1, TextIsKey, Zenon
  <2> QED  BY <2>1, <2>3, KeyType, Zenon
<1>5. CompareDigits(s, t) = IF Sign(m, n) # 0 THEN Sign(m, n) ELSE Text(s, t)
  <2>1. Sign(m, n) \in Signs
    BY SignType
  <2> QED  BY <1>2, <1>4, <2>1, OfTwo, Zenon DEF CompareDigits
<1>6. CASE m < n
  <2>1. Value(s) < Value(t)
    <3>1. t # <<>> /\ Len(s) < Len(t)
      BY <1>2, <1>6
    <3> QED  BY <3>1, LongerIsLarger
  <2> QED  BY <1>3, <1>5, <1>6, <2>1 DEF Sign
<1>7. CASE m > n
  <2>1. Value(t) < Value(s)
    <3>1. s # <<>> /\ Len(t) < Len(s)
      BY <1>2, <1>7
    <3> QED  BY <3>1, LongerIsLarger
  <2> QED  BY <1>3, <1>5, <1>7, <2>1 DEF Sign
<1>8. CASE m = n
  <2>1. CompareDigits(s, t) = Text(s, t)
    BY <1>5, <1>8 DEF Sign
  <2>2. CASE \A i \in 1..m : s[i] = t[i]
    <3>1. s = t
      BY <1>1, <1>2, <1>8, <2>2, SeqEqual
    <3> QED  BY <1>1, <1>3, <2>1, <3>1, TextSame DEF Sign
  <2>3. CASE ~\A i \in 1..m : s[i] = t[i]
    <3> DEFINE differ == {i \in 1..m : s[i] # t[i]}
    <3>1. differ \in SUBSET Nat /\ differ # {}
      BY <2>3
    <3>2. PICK k \in differ : \A j \in differ : k <= j
      <4> HIDE DEF differ
      <4> QED  BY <3>1, LeastOf
    <3>3. k \in 1..m /\ s[k] # t[k] /\ \A j \in 1..(k - 1) : s[j] = t[j]
      BY <3>2
    <3>4. Shorter(s, t) = m
      BY <1>2, <1>8 DEF Shorter
    <3>5. Text(s, t) = Sign(s[k], t[k])
      BY <1>1, <3>3, <3>4, TextFirst
    <3>6. s[k] \in Int /\ t[k] \in Int
      <4>1. k \in 1..Len(s) /\ k \in 1..Len(t)
        BY <1>2, <1>8, <3>3
      <4> QED  BY <1>1, <4>1, ElementOfSeq
    <3>7. CASE s[k] < t[k]
      <4>1. Value(s) < Value(t)
        BY <1>2, <1>8, <3>3, <3>7, FirstDigit
      <4> QED  BY <1>3, <2>1, <3>5, <3>6, <3>7, <4>1 DEF Sign
    <3>8. CASE t[k] < s[k]
      <4>1. Value(t) < Value(s)
        BY <1>2, <1>8, <3>3, <3>8, FirstDigit
      <4> QED  BY <1>3, <2>1, <3>5, <3>6, <3>8, <4>1 DEF Sign
    <3> QED  BY <3>3, <3>6, <3>7, <3>8
  <2> QED  BY <2>2, <2>3
<1> QED  BY <1>2, <1>6, <1>7, <1>8

------------------------------------------------------------------------------
\* dpkg.

LEMMA PrintableText == Seq(Printable) \subseteq Seq(Int)
<1>1. Printable \subseteq Int
  BY DEF Printable, Tilde
<1> QED  BY <1>1, SeqMonotonic

LEMMA AfterLettersOf ==
    ASSUME NEW u \in Seq(Printable)
    PROVE  /\ AfterLetters(u) \in Seq(Printable) /\ Len(AfterLetters(u)) = Len(u) - NonDigits(u)
           /\ NonDigits(u) \in 0..Len(u)
           /\ AfterLetters(u) # <<>> => AfterLetters(u)[1] \in Digit
<1>1. u \in Seq(Int)
  BY PrintableText
<1>2. NonDigits(u) \in 0..Len(u) /\ (NonDigits(u) < Len(u) => u[NonDigits(u) + 1] \in Digit)
  BY <1>1, NonDigitsOf
<1>3. PICK z \in 0..Len(u) : z = NonDigits(u)
  BY <1>2
<1>4. PICK w : w = AfterLetters(u) /\ w \in Seq(Printable) /\ Len(w) = Len(u) - z /\ \A i \in 1..Len(u) - z : w[i] = u[z + i]
  <2>1. AfterLetters(u) = Without(u, z)
    BY <1>3, Zenon DEF AfterLetters
  <2>2. /\ Without(u, z) \in Seq(Printable) /\ Len(Without(u, z)) = Len(u) - z
        /\ \A i \in 1..Len(u) - z : Without(u, z)[i] = u[z + i]
    BY WithoutOf
  <2> QED  BY <2>1, <2>2, Zenon
<1>5. ASSUME w # <<>> PROVE w[1] \in Digit
  <2>1. 1 \in 1..Len(u) - z /\ z < Len(u)
    BY <1>4, <1>5
  <2> QED  BY <1>2, <1>3, <1>4, <2>1
<1> QED  BY <1>2, <1>3, <1>4, <1>5

LEMMA SignificantOf ==
    ASSUME NEW u \in Seq(Printable)
    PROVE  /\ Significant(u) \in Seq(Printable) /\ Len(Significant(u)) = Len(u) - Zeros(u)
           /\ Zeros(u) \in 0..Len(u)
           /\ \A i \in 1..Len(u) - Zeros(u) : Significant(u)[i] = u[Zeros(u) + i]
           /\ Significant(u) # <<>> => Significant(u)[1] # 48
<1>1. u \in Seq(Int)
  BY PrintableText
<1>2. Zeros(u) \in 0..Len(u) /\ (Zeros(u) < Len(u) => u[Zeros(u) + 1] # 48)
  BY <1>1, ZerosOf
<1>3. PICK z \in 0..Len(u) : z = Zeros(u)
  BY <1>2
<1>4. PICK w : w = Significant(u) /\ w \in Seq(Printable) /\ Len(w) = Len(u) - z /\ \A i \in 1..Len(u) - z : w[i] = u[z + i]
  <2>1. Significant(u) = Without(u, z)
    BY <1>3, Zenon DEF Significant
  <2>2. /\ Without(u, z) \in Seq(Printable) /\ Len(Without(u, z)) = Len(u) - z
        /\ \A i \in 1..Len(u) - z : Without(u, z)[i] = u[z + i]
    BY WithoutOf
  <2> QED  BY <2>1, <2>2, Zenon
<1>5. ASSUME w # <<>> PROVE w[1] # 48
  <2>1. 1 \in 1..Len(u) - z /\ z < Len(u)
    BY <1>4, <1>5
  <2> QED  BY <1>2, <1>3, <1>4, <2>1
<1> QED  BY <1>2, <1>3, <1>4, <1>5

LEMMA NumberOf ==
    ASSUME NEW u \in Seq(Printable)
    PROVE  /\ Number(u) \in Seq(Digit) /\ Len(Number(u)) = Digits(u) /\ Digits(u) \in 0..Len(u)
           /\ \A i \in 1..Digits(u) : Number(u)[i] = u[i]
           /\ AfterNumber(u) \in Seq(Printable) /\ Len(AfterNumber(u)) = Len(u) - Digits(u)
<1>1. u \in Seq(Int)
  BY PrintableText
<1>2. Digits(u) \in 0..Len(u) /\ \A i \in 1..Digits(u) : u[i] \in Digit
  BY <1>1, DigitsOf
<1>3. PICK z \in 0..Len(u) : z = Digits(u)
  BY <1>2
<1>4. PICK w : w = Number(u) /\ w \in Seq(Printable) /\ Len(w) = z /\ \A i \in 1..z : w[i] = u[i]
  <2>1. Number(u) = SubSeq(u, 1, z)
    BY <1>3, Zenon DEF Number
  <2>2. /\ SubSeq(u, 1, z) \in Seq(Printable) /\ Len(SubSeq(u, 1, z)) = z
        /\ \A i \in 1..z : SubSeq(u, 1, z)[i] = u[i]
    BY PrefixOf
  <2> QED  BY <2>1, <2>2, Zenon
<1>5. w \in Seq(Digit)
  <2>1. \A i \in 1..z : w[i] \in Digit
    BY <1>2, <1>3, <1>4
  <2>2. w \in [1..z -> Digit]
    BY <1>4, <2>1, LenProperties
  <2> QED  BY <2>2
<1>6. AfterNumber(u) \in Seq(Printable) /\ Len(AfterNumber(u)) = Len(u) - z
  BY <1>3, WithoutOf DEF AfterNumber
<1> QED  BY <1>2, <1>3, <1>4, <1>5, <1>6

Round(u) == AfterNumber(Significant(AfterLetters(u)))

\* Each round of compareFragment leaves less.
LEMMA RoundShrinks ==
    ASSUME NEW u \in Seq(Printable)
    PROVE  /\ Round(u) \in Seq(Printable) /\ Len(Round(u)) <= Len(u)
           /\ u # <<>> => Len(Round(u)) < Len(u)
<1>1. PICK v \in Seq(Printable) : /\ v = AfterLetters(u) /\ Len(v) = Len(u) - NonDigits(u)
                                  /\ NonDigits(u) \in 0..Len(u) /\ (v # <<>> => v[1] \in Digit)
  BY AfterLettersOf
<1>2. PICK w \in Seq(Printable) : /\ w = Significant(v) /\ Len(w) = Len(v) - Zeros(v) /\ Zeros(v) \in 0..Len(v)
                                  /\ \A i \in 1..Len(v) - Zeros(v) : w[i] = v[Zeros(v) + i]
  BY SignificantOf
<1>3. AfterNumber(w) \in Seq(Printable) /\ Len(AfterNumber(w)) = Len(w) - Digits(w) /\ Digits(w) \in 0..Len(w)
  BY NumberOf
<1>4. Round(u) = AfterNumber(w)
  BY <1>1, <1>2 DEF Round
<1>5. Len(Round(u)) <= Len(u)
  BY <1>1, <1>2, <1>3, <1>4
<1>6. ASSUME u # <<>>, ~(Len(Round(u)) < Len(u)) PROVE FALSE
  <2>1. Len(u) \in Nat /\ Len(u) > 0
    BY <1>6
  <2>2. NonDigits(u) = 0 /\ Zeros(v) = 0 /\ Digits(w) = 0 /\ Len(w) = Len(u) /\ Len(v) = Len(u)
    <3>1. \A a, b, c, d \in Nat : ~(a - b - c - d < a) => b = 0 /\ c = 0 /\ d = 0
      OBVIOUS
    <3>2. NonDigits(u) \in Nat /\ Zeros(v) \in Nat /\ Digits(w) \in Nat
      BY <1>1, <1>2, <1>3
    <3>3. Len(Round(u)) = Len(u) - NonDigits(u) - Zeros(v) - Digits(w)
      BY <1>1, <1>2, <1>3, <1>4
    <3>4. NonDigits(u) = 0 /\ Zeros(v) = 0 /\ Digits(w) = 0
      BY <1>6, <2>1, <3>1, <3>2, <3>3
    <3>5. Len(v) = Len(u)
      BY <1>1, <2>1, <3>4
    <3>6. Len(w) = Len(v)
      BY <1>2, <2>1, <3>4, <3>5
    <3> QED  BY <3>4, <3>5, <3>6
  <2>3. w[1] = v[1] /\ v # <<>>
    BY <1>2, <2>1, <2>2
  <2>4. w[1] \notin Digit
    <3>1. w \in Seq(Int)
      BY PrintableText
    <3>2. Digits(w) < Len(w) => w[Digits(w) + 1] \notin Digit
      BY <3>1, DigitsOf
    <3> QED  BY <3>2, <2>1, <2>2
  <2> QED  BY <1>1, <2>3, <2>4
<1> QED  BY <1>3, <1>4, <1>5, <1>6

\* The recursion of Rest has a solution.
LEMMA RestOf ==
    ASSUME NEW s \in Seq(Printable)
    PROVE  /\ Rest(s)[0] = s
           /\ \A n \in Nat : Rest(s)[n] \in Seq(Printable) /\ Rest(s)[n + 1] = Round(Rest(s)[n])
<1> DEFINE P(m, f) == f \in [0..m -> Seq(Printable)] /\ f[0] = s /\ \A n \in 1..m : f[n] = Round(f[n - 1])
           S == {m \in Nat : \E f : P(m, f)}
<1>1. \A m \in Nat : m \in S
  <2>1. 0 \in S
    <3>1. P(0, [n \in 0..0 |-> s])
      OBVIOUS
    <3> QED  BY <3>1
  <2>2. ASSUME NEW m \in Nat, NEW f, P(m, f) PROVE \E g : P(m + 1, g)
    <3> DEFINE g == [n \in 0..(m + 1) |-> IF n <= m THEN f[n] ELSE Round(f[m])]
    <3>1. f[m] \in Seq(Printable) /\ Round(f[m]) \in Seq(Printable)
      <4>1. f[m] \in Seq(Printable)
        BY <2>2
      <4> QED  BY <4>1, RoundShrinks
    <3>2. g \in [0..(m + 1) -> Seq(Printable)] /\ g[0] = s
      BY <2>2, <3>1
    <3>3. ASSUME NEW n \in 1..(m + 1) PROVE g[n] = Round(g[n - 1])
      <4>1. CASE n <= m
        BY <2>2, <4>1
      <4>2. CASE n = m + 1
        BY <2>2, <4>2
      <4> QED  BY <4>1, <4>2
    <3> HIDE DEF g
    <3> QED  BY <3>2, <3>3
  <2>3. ASSUME NEW m \in Nat, m \in S PROVE m + 1 \in S
    <3> HIDE DEF P
    <3> QED  BY <2>2, <2>3
  <2> HIDE DEF S
  <2> QED  BY <2>1, <2>3, Induction
<1>2. ASSUME NEW m \in Nat, NEW f, P(m, f), NEW h \in Nat, NEW g, P(h, g), m <= h PROVE f[m] = g[m]
  <2> DEFINE T == {n \in Nat : n <= m => f[n] = g[n]}
  <2>1. 0 \in T
    BY <1>2
  <2>2. ASSUME NEW n \in Nat, n \in T PROVE n + 1 \in T
    <3> SUFFICES ASSUME n + 1 <= m PROVE f[n + 1] = g[n + 1]
      OBVIOUS
    <3>1. n + 1 \in 1..m /\ n + 1 \in 1..h /\ (n + 1) - 1 = n /\ f[n] = g[n]
      BY <1>2, <2>2
    <3>2. f[n + 1] = Round(f[n]) /\ g[n + 1] = Round(g[n])
      BY <1>2, <3>1
    <3> QED  BY <3>1, <3>2
  <2>3. \A n \in Nat : n \in T
    <3> HIDE DEF T
    <3> QED  BY <2>1, <2>2, Induction
  <2> QED  BY <2>3
<1> DEFINE part(m) == CHOOSE f : P(m, f)
           R == [n \in Nat |-> part(n)[n]]
           D(r) == r = [n \in Nat |-> IF n = 0 THEN s ELSE AfterNumber(Significant(AfterLetters(r[n - 1])))]
           rest == CHOOSE r : D(r)
<1>3. ASSUME NEW m \in Nat PROVE P(m, part(m))
  <2>1. \E f : P(m, f)
    BY <1>1
  <2> HIDE DEF P
  <2> QED  BY <2>1
<1>4. ASSUME NEW n \in Nat, n # 0 PROVE R[n] = Round(R[n - 1])
  <2>1. PICK m \in Nat : m = n - 1 /\ m <= n /\ n \in 1..n
    BY <1>4
  <2>2. P(m, part(m)) /\ P(n, part(n))
    <3> HIDE DEF P, part
    <3> QED  BY <1>3
  <2>3. part(m)[m] = part(n)[m]
    <3> HIDE DEF P, part
    <3> QED  BY <1>2, <2>1, <2>2
  <2>4. part(n)[n] = Round(part(n)[n - 1])
    <3> HIDE DEF part
    <3> QED  BY <2>1, <2>2
  <2>5. R[n] = part(n)[n] /\ R[m] = part(m)[m]
    <3> HIDE DEF part
    <3> QED  OBVIOUS
  <2> HIDE DEF R, part
  <2> QED  BY <2>1, <2>3, <2>4, <2>5
<1>5. R[0] = s
  <2>1. part(0)[0] = s
    <3>1. P(0, part(0))
      <4> HIDE DEF P, part
      <4> QED  BY <1>3
    <3> HIDE DEF part
    <3> QED  BY <3>1
  <2> HIDE DEF part
  <2> QED  BY <2>1
<1>6. D(R)
  <2>1. R = [n \in Nat |-> R[n]]
    <3> HIDE DEF part
    <3> QED  OBVIOUS
  <2>2. \A n \in Nat : R[n] = IF n = 0 THEN s ELSE AfterNumber(Significant(AfterLetters(R[n - 1])))
    <3> HIDE DEF R
    <3> QED  BY <1>4, <1>5 DEF Round
  <2>3. [n \in Nat |-> R[n]] = [n \in Nat |-> IF n = 0 THEN s ELSE AfterNumber(Significant(AfterLetters(R[n - 1])))]
    <3> HIDE DEF R
    <3> QED  BY <2>2
  <2> HIDE DEF R
  <2> QED  BY <2>1, <2>3
<1>7. D(rest)
  <2> HIDE DEF D, R
  <2> QED  BY <1>6
<1>8. Rest(s) = rest
  BY Zenon DEF Rest
<1> HIDE DEF rest
<1>9. rest[0] = s /\ \A n \in Nat : n # 0 => rest[n] = Round(rest[n - 1])
  BY <1>7 DEF Round
<1>10. \A n \in Nat : rest[n + 1] = Round(rest[n])
  <2>1. \A n \in Nat : n + 1 \in Nat /\ n + 1 # 0 /\ (n + 1) - 1 = n
    OBVIOUS
  <2> QED  BY <1>9, <2>1
<1>11. \A n \in Nat : rest[n] \in Seq(Printable)
  <2> DEFINE T == {n \in Nat : rest[n] \in Seq(Printable)}
  <2>1. 0 \in T
    BY <1>9
  <2>2. ASSUME NEW n \in Nat, n \in T PROVE n + 1 \in T
    <3>1. rest[n] \in Seq(Printable) /\ rest[n + 1] = Round(rest[n]) /\ n + 1 \in Nat
      BY <1>10, <2>2
    <3>2. Round(rest[n]) \in Seq(Printable)
      BY <3>1, RoundShrinks
    <3> QED  BY <3>1, <3>2
  <2>3. Nat \subseteq T
    <3> HIDE DEF T
    <3> QED  BY <2>1, <2>2, Induction
  <2> QED  BY <2>3
<1> QED  BY <1>8, <1>9, <1>10, <1>11

LEMMA RestEnds ==
    ASSUME NEW s \in Seq(Printable), NEW n \in Nat, n >= Len(s)
    PROVE  Rest(s)[n] = <<>>
<1> DEFINE T == {m \in Nat : Len(Rest(s)[m]) + m <= Len(s) \/ Rest(s)[m] = <<>>}
<1>1. 0 \in T
  <2>1. Rest(s)[0] = s
    BY RestOf
  <2> QED  BY <2>1
<1>2. ASSUME NEW m \in Nat, m \in T PROVE m + 1 \in T
  <2>1. PICK u \in Seq(Printable) : u = Rest(s)[m] /\ Rest(s)[m + 1] = Round(u)
    BY RestOf
  <2>2. PICK w \in Seq(Printable) : w = Round(u) /\ Len(w) <= Len(u) /\ (u # <<>> => Len(w) < Len(u))
    BY RoundShrinks
  <2>3. CASE u = <<>>
    <3>1. w = <<>>
      BY <2>2, <2>3
    <3> QED  BY <2>1, <2>2, <3>1
  <2>4. CASE u # <<>>
    <3>1. Len(u) + m <= Len(s)
      BY <1>2, <2>1, <2>4
    <3>2. Len(w) + (m + 1) <= Len(s)
      <4>1. Len(w) \in Nat /\ Len(u) \in Nat /\ Len(s) \in Nat /\ Len(w) < Len(u)
        BY <2>2, <2>4
      <4> QED  BY <3>1, <4>1
    <3> QED  BY <2>1, <2>2, <3>2
  <2> QED  BY <2>3, <2>4
<1>3. n \in T
  <2> HIDE DEF T
  <2> QED  BY <1>1, <1>2, Induction
<1>4. PICK u \in Seq(Printable) : u = Rest(s)[n]
  BY RestOf
<1>5. Len(u) \in Nat /\ Len(s) \in Nat /\ (Len(u) + n <= Len(s) \/ u = <<>>)
  BY <1>3, <1>4
<1>6. Len(u) = 0 => u = <<>>
  OBVIOUS
<1> QED  BY <1>4, <1>5, <1>6

\* The comment's order of letters is that of Order.
LEMMA LetterSigns ==
    \A c, d \in Printable \ Digit :
        /\ Order(c) \in Int /\ Order(c) # 0 /\ DebLetter(c) \in Int /\ DebLetter(c) # 0
        /\ Sign(Order(c), Order(d)) = Sign(DebLetter(c), DebLetter(d))
        /\ Sign(Order(c), 0) = Sign(DebLetter(c), 0) /\ Sign(0, Order(c)) = Sign(0, DebLetter(c))
        /\ Order(c) = Order(d) => c = d
<1> USE DEF Printable, Digit, Tilde
<1>1. \A c \in Printable \ Digit : Order(c) \in Int /\ Order(c) # 0 /\ DebLetter(c) \in Int /\ DebLetter(c) # 0
  BY DEF Order, DebLetter, IsDigit, IsAlpha
<1>2. \A c, d \in Printable \ Digit :
        /\ Order(c) < Order(d) <=> DebLetter(c) < DebLetter(d)
        /\ Order(c) = Order(d) => c = d
  BY DEF Order, DebLetter, IsDigit, IsAlpha
<1>3. \A c \in Printable \ Digit : (Order(c) < 0 <=> DebLetter(c) < 0)
  BY DEF Order, DebLetter, IsDigit, IsAlpha
<1> HIDE DEF Printable, Digit
<1>4. \A x, y, z, w \in Int : (x < y <=> z < w) /\ (y < x <=> w < z) => Sign(x, y) = Sign(z, w)
  BY DEF Sign
<1> TAKE c, d \in Printable \ Digit
<1>5. Sign(Order(c), Order(d)) = Sign(DebLetter(c), DebLetter(d))
  BY <1>1, <1>2, <1>4
<1>6. Sign(Order(c), 0) = Sign(DebLetter(c), 0) /\ Sign(0, Order(c)) = Sign(0, DebLetter(c))
  BY <1>1, <1>3, <1>4
<1> QED  BY <1>1, <1>2, <1>5, <1>6

LEMMA LettersOf ==
    ASSUME NEW u \in Seq(Printable)
    PROVE  /\ Letters(u) \in Seq(Printable \ Digit) /\ Len(Letters(u)) = NonDigits(u)
           /\ NonDigits(u) \in 0..Len(u)
           /\ \A i \in 1..NonDigits(u) : Letters(u)[i] = u[i]
<1>1. u \in Seq(Int)
  BY PrintableText
<1>2. NonDigits(u) \in 0..Len(u) /\ \A i \in 1..NonDigits(u) : u[i] \notin Digit
  BY <1>1, NonDigitsOf
<1>3. PICK z \in 0..Len(u) : z = NonDigits(u)
  BY <1>2
<1>4. PICK w : w = Letters(u) /\ w \in Seq(Printable) /\ Len(w) = z /\ \A i \in 1..z : w[i] = u[i]
  <2>1. Letters(u) = SubSeq(u, 1, z)
    BY <1>3, Zenon DEF Letters
  <2>2. /\ SubSeq(u, 1, z) \in Seq(Printable) /\ Len(SubSeq(u, 1, z)) = z
        /\ \A i \in 1..z : SubSeq(u, 1, z)[i] = u[i]
    BY PrefixOf
  <2> QED  BY <2>1, <2>2, Zenon
<1>5. w \in Seq(Printable \ Digit)
  <2>1. \A i \in 1..z : w[i] \in Printable \ Digit
    BY <1>2, <1>3, <1>4
  <2>2. w \in [1..z -> Printable \ Digit]
    BY <1>4, <2>1, LenProperties
  <2> QED  BY <2>2
<1> QED  BY <1>2, <1>3, <1>4, <1>5

\* The number a round compares is the one the digits stand for.
RunNumber(u) == Value(Number(AfterLetters(u)))

LEMMA RoundNumbers ==
    ASSUME NEW u \in Seq(Printable), NEW v \in Seq(Printable)
    PROVE  /\ RunNumber(u) \in Nat /\ RunNumber(v) \in Nat
           /\ CompareDigits(Number(Significant(AfterLetters(u))), Number(Significant(AfterLetters(v)))) =
                 Sign(RunNumber(u), RunNumber(v))
<1>1. ASSUME NEW x \in Seq(Printable)
      PROVE  LET w == Number(Significant(AfterLetters(x)))
             IN  /\ RunNumber(x) \in Nat /\ w \in Seq(Digit) /\ Value(w) = RunNumber(x)
                 /\ w # <<>> => w[1] # 48
  <2>1. PICK y \in Seq(Printable) : y = AfterLetters(x)
    BY AfterLettersOf
  <2>2. PICK p \in Seq(Digit) : /\ p = Number(y) /\ Len(p) = Digits(y) /\ Digits(y) \in 0..Len(y)
                                /\ \A i \in 1..Digits(y) : p[i] = y[i]
    BY NumberOf
  <2>3. PICK z \in Seq(Printable) : /\ z = Significant(y) /\ Len(z) = Len(y) - Zeros(y) /\ Zeros(y) \in 0..Len(y)
                                    /\ (\A i \in 1..Len(y) - Zeros(y) : z[i] = y[Zeros(y) + i])
                                    /\ (z # <<>> => z[1] # 48)
    BY SignificantOf
  <2>4. PICK w \in Seq(Digit) : /\ w = Number(z) /\ Len(w) = Digits(z) /\ Digits(z) \in 0..Len(z)
                                /\ \A i \in 1..Digits(z) : w[i] = z[i]
    BY NumberOf
  <2>5. y \in Seq(Int) /\ z \in Seq(Int)
    BY PrintableText
  <2>6. /\ \A i \in 1..Zeros(y) : y[i] = 48
        /\ \A i \in 1..Digits(y) : y[i] \in Digit
        /\ Digits(y) < Len(y) => y[Digits(y) + 1] \notin Digit
        /\ \A i \in 1..Digits(z) : z[i] \in Digit
        /\ Digits(z) < Len(z) => z[Digits(z) + 1] \notin Digit
    BY <2>5, ZerosOf, DigitsOf
  <2>7. PICK a \in Nat, b \in Nat, c \in Nat, l \in Nat :
            a = Zeros(y) /\ b = Digits(y) /\ c = Digits(z) /\ l = Len(y) /\ a <= l /\ b <= l /\ c <= l - a
    BY <2>2, <2>3, <2>4
  <2>15. a <= l /\ b <= l /\ c <= l - a
    BY <2>7
  <2>8. a <= b
    <3> SUFFICES ASSUME b < a PROVE FALSE
      BY <2>7
    <3>1. b < l /\ b + 1 \in 1..a
      BY <2>7
    <3>2. y[b + 1] = 48 /\ y[b + 1] \notin Digit
      BY <2>6, <2>7, <3>1
    <3> QED  BY <3>2 DEF Digit
  <2>9. c = b - a
    <3>1. CASE c < b - a
      <4>1. c + 1 \in 1..(l - a) /\ c < l - a /\ a + (c + 1) \in 1..b
        BY <2>15, <2>8, <3>1
      <4>2. z[c + 1] \notin Digit
        BY <2>3, <2>6, <2>7, <4>1
      <4>3. z[c + 1] = y[a + (c + 1)]
        BY <2>3, <2>7, <4>1
      <4>4. y[a + (c + 1)] \in Digit
        BY <2>6, <2>7, <4>1
      <4> QED  BY <4>2, <4>3, <4>4
    <3>2. CASE c > b - a
      <4>1. (b - a) + 1 \in 1..c /\ (b - a) + 1 \in 1..(l - a) /\ b < l /\ a + ((b - a) + 1) = b + 1
        BY <2>15, <2>8, <3>2
      <4>2. z[(b - a) + 1] \in Digit
        BY <2>6, <2>7, <4>1
      <4>3. z[(b - a) + 1] = y[b + 1]
        BY <2>3, <2>7, <4>1
      <4>4. y[b + 1] \notin Digit
        BY <2>6, <2>7, <4>1
      <4> QED  BY <4>2, <4>3, <4>4
    <3> QED  BY <2>8, <3>1, <3>2
  <2>10. PICK q \in Seq(Digit) : q = Without(p, a) /\ Len(q) = b - a /\ \A i \in 1..(b - a) : q[i] = p[a + i]
    <3>1. a \in 0..Len(p) /\ Len(p) = b
      BY <2>2, <2>7, <2>8
    <3>2. Without(p, a) \in Seq(Digit) /\ Len(Without(p, a)) = Len(p) - a /\ \A i \in 1..Len(p) - a : Without(p, a)[i] = p[a + i]
      BY <3>1, WithoutOf
    <3> QED  BY <3>1, <3>2
  <2>11. q = w
    <3>1. Len(q) = Len(w)
      BY <2>4, <2>7, <2>9, <2>10
    <3>2. ASSUME NEW i \in 1..Len(q) PROVE q[i] = w[i]
      <4>1. i \in 1..(b - a) /\ i \in 1..(l - a) /\ i \in 1..c /\ a + i \in 1..b
        BY <2>15, <2>8, <2>9, <2>10
      <4>2. q[i] = p[a + i] /\ p[a + i] = y[a + i]
        BY <2>2, <2>7, <2>10, <4>1
      <4>3. w[i] = z[i] /\ z[i] = y[a + i]
        BY <2>3, <2>4, <2>7, <4>1
      <4> QED  BY <4>2, <4>3
    <3> QED  BY <3>1, <3>2, SeqEqual
  <2>12. Value(w) = Value(p)
    <3>1. a \in 0..Len(p) /\ \A i \in 1..a : p[i] = 48
      BY <2>2, <2>6, <2>7, <2>8
    <3>2. Value(Without(p, a)) = Value(p)
      BY <3>1, WithoutZeros
    <3> QED  BY <2>10, <2>11, <3>2
  <2>13. ASSUME w # <<>> PROVE w[1] # 48
    <3>1. 1 \in 1..Digits(z) /\ z # <<>>
      BY <2>4, <2>13
    <3> QED  BY <2>3, <2>4, <3>1
  <2>14. Value(p) \in Nat
    BY ValueNat
  <2> QED  BY <2>1, <2>2, <2>3, <2>4, <2>12, <2>13, <2>14 DEF RunNumber
<1> DEFINE w(x) == Number(Significant(AfterLetters(x)))
<1>2. /\ w(u) \in Seq(Digit) /\ (w(u) # <<>> => w(u)[1] # 48)
      /\ w(v) \in Seq(Digit) /\ (w(v) # <<>> => w(v)[1] # 48)
      /\ RunNumber(u) \in Nat /\ RunNumber(v) \in Nat
      /\ Value(w(u)) = RunNumber(u) /\ Value(w(v)) = RunNumber(v)
  BY <1>1
<1>3. CompareDigits(w(u), w(v)) = Sign(Value(w(u)), Value(w(v)))
  <2> HIDE DEF w
  <2> QED  BY <1>2, DigitsByValue
<1> QED  BY <1>2, <1>3

\* A run as a key: its letters, the end, its number.
IsRun(k, a, x) ==
    /\ a \in Seq(Printable \ Digit) /\ x \in Nat /\ k \in Seq(Int) /\ Len(k) = Len(a) + 2
    /\ \A i \in 1..Len(a) : At(k, i, 0) = DebLetter(a[i])
    /\ At(k, Len(a) + 1, 0) = 0 /\ At(k, Len(a) + 2, 0) = x

LEMMA DebRunIs ==
    ASSUME NEW u \in Seq(Printable)
    PROVE  IsRun(DebRun(u), Letters(u), RunNumber(u))
<1>1. PICK m \in Nat : m = NonDigits(u) /\ m = Len(Letters(u)) /\ m <= Len(u)
  BY LettersOf
<1>2. Letters(u) \in Seq(Printable \ Digit) /\ \A i \in 1..m : Letters(u)[i] = u[i] /\ Letters(u)[i] \in Printable \ Digit
  BY <1>1, LettersOf, ElementOfSeq
<1>3. RunNumber(u) \in Nat
  BY RoundNumbers
<1> DEFINE f == [i \in 1..m |-> DebLetter(u[i])]
           g == <<0, RunNumber(u)>>
           k == f \o g
<1>4. f \in Seq(Int) /\ Len(f) = m /\ \A i \in 1..m : f[i] = DebLetter(Letters(u)[i])
  <2>1. \A i \in 1..m : DebLetter(u[i]) \in Int
    BY <1>2, LetterSigns
  <2> QED  BY <1>2, <2>1
<1>5. g \in Seq(Int) /\ Len(g) = 2 /\ g[1] = 0 /\ g[2] = RunNumber(u)
  BY <1>3
<1> HIDE DEF f, g
<1>6. /\ k \in Seq(Int) /\ Len(k) = Len(f) + Len(g)
      /\ \A i \in 1..Len(f) + Len(g) : k[i] = IF i <= Len(f) THEN f[i] ELSE g[i - Len(f)]
  BY <1>4, <1>5, ConcatProperties
<1> HIDE DEF k
<1>7. Len(k) = m + 2 /\ \A i \in 1..(m + 2) : k[i] = IF i <= m THEN f[i] ELSE g[i - m]
  BY <1>4, <1>5, <1>6
<1>8. \A i \in 1..m : At(k, i, 0) = DebLetter(Letters(u)[i])
  BY <1>4, <1>7 DEF At
<1>9. At(k, m + 1, 0) = 0 /\ At(k, m + 2, 0) = RunNumber(u)
  <2>1. m + 1 \in 1..(m + 2) /\ m + 2 \in 1..(m + 2) /\ (m + 1) - m = 1 /\ (m + 2) - m = 2
    OBVIOUS
  <2>2. k[m + 1] = g[1] /\ k[m + 2] = g[2]
    BY <1>7, <2>1
  <2> QED  BY <1>5, <1>7, <2>1, <2>2 DEF At
<1>10. DebRun(u) = k
  BY <1>1, Zenon DEF DebRun, RunNumber, f, g, k
<1>11. IsRun(k, Letters(u), RunNumber(u))
  <2>1. m = Len(Letters(u))
    BY <1>1
  <2> QED  BY <1>2, <1>3, <1>6, <1>7, <1>8, <1>9, <2>1 DEF IsRun
<1> QED  BY <1>10, <1>11

LEMMA RunsCompared ==
    ASSUME NEW a, NEW b, NEW x, NEW y, NEW k, NEW l, IsRun(k, a, x), IsRun(l, b, y)
    PROVE  ByKey(k, l) = FirstDifference(<<CompareLetters(a, b), Sign(x, y)>>)
<1>1. PICK m \in Nat, n \in Nat : m = Len(a) /\ n = Len(b)
  BY DEF IsRun
<1>2. PICK L \in Nat : L = Longer(a, b) /\ m <= L /\ n <= L /\ (L = m \/ L = n)
  <2>1. Len(a) \in Nat /\ Len(b) \in Nat
    BY LenProperties DEF IsRun
  <2>2. \A p, q \in Nat : LET z == IF p < q THEN q ELSE p IN z \in Nat /\ p <= z /\ q <= z /\ (z = p \/ z = q)
    OBVIOUS
  <2>3. LET z == Longer(a, b) IN z \in Nat /\ Len(a) <= z /\ Len(b) <= z /\ (z = Len(a) \/ z = Len(b))
    BY <2>1, <2>2, Zenon DEF Longer
  <2> QED  BY <1>1, <2>3
<1>3. /\ \A i \in 1..m : a[i] \in Printable \ Digit /\ At(k, i, 0) = DebLetter(a[i]) /\ OrderAt(a, i) = Order(a[i])
      /\ \A i \in 1..n : b[i] \in Printable \ Digit /\ At(l, i, 0) = DebLetter(b[i]) /\ OrderAt(b, i) = Order(b[i])
  <2>1. \A i \in 1..m : a[i] \in Printable \ Digit
    BY <1>1, ElementOfSeq DEF IsRun
  <2>2. \A i \in 1..n : b[i] \in Printable \ Digit
    BY <1>1, ElementOfSeq DEF IsRun
  <2> QED  BY <1>1, <2>1, <2>2 DEF IsRun, OrderAt
<1>4. /\ At(k, m + 1, 0) = 0 /\ At(k, m + 2, 0) = x /\ At(l, n + 1, 0) = 0 /\ At(l, n + 2, 0) = y
      /\ \A i \in Nat : (i > m => OrderAt(a, i) = 0) /\ (i > n => OrderAt(b, i) = 0)
  BY <1>1 DEF IsRun, OrderAt
<1>5. k \in Seq(Int) /\ l \in Seq(Int) /\ Len(k) = m + 2 /\ Len(l) = n + 2 /\ x \in Nat /\ y \in Nat
  BY <1>1 DEF IsRun
<1>6. \A i \in Nat \ {0} : OrderAt(a, i) \in Int /\ OrderAt(b, i) \in Int
  <2> TAKE i \in Nat \ {0}
  <2>1. OrderAt(a, i) \in Int
    <3>1. CASE i <= m
      BY <1>3, <3>1, LetterSigns
    <3>2. CASE i > m
      BY <1>4, <3>2
    <3> QED  BY <3>1, <3>2
  <2>2. OrderAt(b, i) \in Int
    <3>1. CASE i <= n
      BY <1>3, <3>1, LetterSigns
    <3>2. CASE i > n
      BY <1>4, <3>2
    <3> QED  BY <3>1, <3>2
  <2> QED  BY <2>1, <2>2
<1>7. \A i \in Nat \ {0} :
         i <= m + 1 /\ i <= n + 1 => Sign(OrderAt(a, i), OrderAt(b, i)) = Sign(At(k, i, 0), At(l, i, 0))
  <2> SUFFICES ASSUME NEW i \in Nat \ {0}, i <= m + 1, i <= n + 1
               PROVE  Sign(OrderAt(a, i), OrderAt(b, i)) = Sign(At(k, i, 0), At(l, i, 0))
    OBVIOUS
  <2>1. CASE i <= m /\ i <= n
    BY <1>3, <2>1, LetterSigns
  <2>2. CASE i <= m /\ i = n + 1
    <3>1. OrderAt(b, i) = 0 /\ At(l, i, 0) = 0
      BY <1>4, <2>2
    <3> QED  BY <1>3, <2>2, <3>1, LetterSigns
  <2>3. CASE i = m + 1 /\ i <= n
    <3>1. OrderAt(a, i) = 0 /\ At(k, i, 0) = 0
      BY <1>4, <2>3
    <3> QED  BY <1>3, <2>3, <3>1, LetterSigns
  <2>4. CASE i = m + 1 /\ i = n + 1
    <3>1. OrderAt(a, i) = 0 /\ At(k, i, 0) = 0 /\ OrderAt(b, i) = 0 /\ At(l, i, 0) = 0
      BY <1>4, <2>4
    <3> QED  BY <3>1
  <2> QED  BY <2>1, <2>2, <2>3, <2>4
<1>8. PICK c : c = [i \in 1..L |-> Sign(OrderAt(a, i), OrderAt(b, i))]
  OBVIOUS
<1>9. /\ c \in [1..L -> Signs]
      /\ \A i \in 1..L : c[i] = Sign(OrderAt(a, i), OrderAt(b, i)) /\ (c[i] = 0 <=> OrderAt(a, i) = OrderAt(b, i))
  <2>1. \A p, q \in Int : Sign(p, q) \in Signs /\ (Sign(p, q) = 0 <=> p = q)
    BY DEF Sign, Signs
  <2> QED  BY <1>6, <1>8, <2>1
<1>10. CompareLetters(a, b) = FirstDifference(c)
  BY <1>2, <1>8, Zenon DEF CompareLetters
<1>11. CompareLetters(a, b) \in Signs /\ (CompareLetters(a, b) = 0 <=> \A i \in 1..L : c[i] = 0)
  BY <1>9, <1>10, DifferenceType
<1>12. FirstDifference(<<CompareLetters(a, b), Sign(x, y)>>) =
          IF CompareLetters(a, b) # 0 THEN CompareLetters(a, b) ELSE Sign(x, y)
  <2>1. Sign(x, y) \in Signs
    BY <1>5, SignType
  <2> QED  BY <1>11, <2>1, OfTwo
<1>13. PICK N \in Nat : m + 2 <= N /\ n + 2 <= N
  <2>1. m + n + 2 \in Nat /\ m + 2 <= m + n + 2 /\ n + 2 <= m + n + 2
    OBVIOUS
  <2> QED  BY <2>1
<1>14. PICK g : /\ g = [i \in 1..N |-> Sign(At(k, i, 0), At(l, i, 0))]
                /\ g \in [1..N -> Signs] /\ ByKey(k, l) = FirstDifference(g)
  <2>1. Len(k) <= N /\ Len(l) <= N /\ k \in Seq(Int) /\ l \in Seq(Int)
    BY <1>5, <1>13
  <2>2. /\ [i \in 1..N |-> Sign(At(k, i, 0), At(l, i, 0))] \in [1..N -> Signs]
        /\ ByKey(k, l) = FirstDifference([i \in 1..N |-> Sign(At(k, i, 0), At(l, i, 0))])
    BY <2>1, KeyUpTo
  <2> QED  BY <2>2, Zenon
<1>15. \A i \in 1..N : g[i] = Sign(At(k, i, 0), At(l, i, 0))
  BY <1>14
<1>16. CASE \A i \in 1..L : c[i] = 0
  <2>1. m = n
    <3>1. CASE m < n
      <4>1. m + 1 \in 1..L /\ m + 1 \in 1..n /\ m + 1 > m
        BY <1>2, <3>1
      <4>2. OrderAt(a, m + 1) = 0 /\ OrderAt(b, m + 1) # 0
        BY <1>3, <1>4, <4>1, LetterSigns
      <4> QED  BY <1>9, <1>16, <4>1, <4>2
    <3>2. CASE n < m
      <4>1. n + 1 \in 1..L /\ n + 1 \in 1..m /\ n + 1 > n
        BY <1>2, <3>2
      <4>2. OrderAt(b, n + 1) = 0 /\ OrderAt(a, n + 1) # 0
        BY <1>3, <1>4, <4>1, LetterSigns
      <4> QED  BY <1>9, <1>16, <4>1, <4>2
    <3> QED  BY <3>1, <3>2
  <2>2. ASSUME NEW i \in 1..(m + 1) PROVE g[i] = 0
    <3>1. i \in Nat \ {0} /\ i <= m + 1 /\ i <= n + 1 /\ i \in 1..N
      BY <1>13, <2>1
    <3>2. g[i] = Sign(OrderAt(a, i), OrderAt(b, i))
      BY <1>7, <1>15, <3>1
    <3>3. CASE i <= m
      <4>1. i \in 1..L
        BY <1>2, <3>3
      <4> QED  BY <1>9, <1>16, <3>2, <4>1
    <3>4. CASE i = m + 1
      <4>1. OrderAt(a, i) = 0 /\ OrderAt(b, i) = 0
        BY <1>4, <2>1, <3>4
      <4> QED  BY <3>2, <4>1 DEF Sign
    <3> QED  BY <3>3, <3>4
  <2>3. m + 2 \in 1..N /\ g[m + 2] = Sign(x, y)
    <3>1. m + 2 \in 1..N
      BY <1>13
    <3>2. At(k, m + 2, 0) = x /\ At(l, m + 2, 0) = y
      BY <1>4, <2>1
    <3> QED  BY <1>15, <3>1, <3>2
  <2>4. \A i \in 1..N : i > m + 2 => g[i] = 0
    <3> SUFFICES ASSUME NEW i \in 1..N, i > m + 2 PROVE g[i] = 0
      OBVIOUS
    <3>1. At(k, i, 0) = 0 /\ At(l, i, 0) = 0
      BY <1>5, <2>1 DEF At
    <3> QED  BY <1>15, <3>1 DEF Sign
  <2>5. FirstDifference(g) = Sign(x, y)
    <3>1. CASE Sign(x, y) = 0
      <4>1. \A i \in 1..N : g[i] = 0
        <5> TAKE i \in 1..N
        <5>1. i \in 1..(m + 1) \/ i = m + 2 \/ i > m + 2
          OBVIOUS
        <5> QED  BY <2>2, <2>3, <2>4, <3>1, <5>1
      <4> QED  BY <1>14, <3>1, <4>1, NoDifference
    <3>2. CASE Sign(x, y) # 0
      <4>1. PICK h \in 1..N : h = m + 2
        BY <2>3
      <4>2. g[h] = Sign(x, y) /\ \A j \in 1..(h - 1) : g[j] = 0
        <5>1. \A j \in 1..(h - 1) : j \in 1..(m + 1)
          BY <4>1
        <5> QED  BY <2>2, <2>3, <4>1, <5>1
      <4> QED  BY <1>14, <3>2, <4>2, ThatDifference
    <3> QED  BY <3>1, <3>2
  <2> QED  BY <1>11, <1>12, <1>14, <1>16, <2>5
<1>17. CASE ~\A i \in 1..L : c[i] = 0
  <2>1. PICK h \in 1..L : c[h] # 0 /\ \A j \in 1..(h - 1) : c[j] = 0
    BY <1>9, <1>17, SomeDifference
  <2>2. OrderAt(a, h) # OrderAt(b, h) /\ h \in Nat \ {0}
    BY <1>9, <2>1
  <2>3. \A j \in 1..(h - 1) : OrderAt(a, j) = OrderAt(b, j) /\ j \in 1..L
    BY <1>9, <2>1
  <2>4. h <= m + 1
    <3> SUFFICES ASSUME h > m + 1 PROVE FALSE
      OBVIOUS
    <3>1. m + 1 \in 1..(h - 1) /\ OrderAt(a, m + 1) = 0 /\ OrderAt(a, h) = 0
      BY <1>4
    <3>2. OrderAt(b, m + 1) = 0
      BY <2>3, <3>1
    <3>3. ~(m + 1 <= n)
      <4> SUFFICES ASSUME m + 1 <= n PROVE FALSE
        OBVIOUS
      <4>1. m + 1 \in 1..n
        OBVIOUS
      <4> QED  BY <1>3, <3>2, <4>1, LetterSigns
    <3>4. OrderAt(b, h) = 0
      BY <1>4, <3>3
    <3> QED  BY <2>2, <3>1, <3>4
  <2>5. h <= n + 1
    <3> SUFFICES ASSUME h > n + 1 PROVE FALSE
      OBVIOUS
    <3>1. n + 1 \in 1..(h - 1) /\ OrderAt(b, n + 1) = 0 /\ OrderAt(b, h) = 0
      BY <1>4
    <3>2. OrderAt(a, n + 1) = 0
      BY <2>3, <3>1
    <3>3. ~(n + 1 <= m)
      <4> SUFFICES ASSUME n + 1 <= m PROVE FALSE
        OBVIOUS
      <4>1. n + 1 \in 1..m
        OBVIOUS
      <4> QED  BY <1>3, <3>2, <4>1, LetterSigns
    <3>4. OrderAt(a, h) = 0
      BY <1>4, <3>3
    <3> QED  BY <2>2, <3>1, <3>4
  <2>6. h \in 1..N /\ \A j \in 1..h : j \in Nat \ {0} /\ j <= m + 1 /\ j <= n + 1 /\ j \in 1..N /\ j \in 1..L
    BY <1>13, <2>4, <2>5
  <2>7. \A j \in 1..h : g[j] = c[j]
    BY <1>7, <1>9, <1>15, <2>6
  <2>8. g[h] = c[h] /\ \A j \in 1..(h - 1) : g[j] = 0
    <3>1. h \in 1..h /\ \A j \in 1..(h - 1) : j \in 1..h
      OBVIOUS
    <3> QED  BY <2>1, <2>7, <3>1
  <2>9. FirstDifference(g) = g[h]
    BY <1>14, <2>1, <2>6, <2>8, ThatDifference
  <2>10. FirstDifference(c) = c[h]
    BY <1>9, <2>1, ThatDifference
  <2> QED  BY <1>10, <1>12, <1>14, <2>1, <2>8, <2>9, <2>10
<1> QED  BY <1>16, <1>17

LEMMA RoundIsKey ==
    ASSUME NEW u \in Seq(Printable), NEW v \in Seq(Printable)
    PROVE  DebRun(u) \in Seq(Int) /\ CompareRound(u, v) = ByKey(DebRun(u), DebRun(v))
<1>1. IsRun(DebRun(u), Letters(u), RunNumber(u)) /\ IsRun(DebRun(v), Letters(v), RunNumber(v))
  BY DebRunIs
<1>2. ByKey(DebRun(u), DebRun(v)) = FirstDifference(<<CompareLetters(Letters(u), Letters(v)), Sign(RunNumber(u), RunNumber(v))>>)
  BY <1>1, RunsCompared
<1>3. CompareRound(u, v) = FirstDifference(<<CompareLetters(Letters(u), Letters(v)), Sign(RunNumber(u), RunNumber(v))>>)
  BY RoundNumbers, Zenon DEF CompareRound
<1>4. DebRun(u) \in Seq(Int)
  BY <1>1 DEF IsRun
<1> QED  BY <1>2, <1>3, <1>4

\* When nothing is left, a run is as the empty key.
LEMMA NoRun ==
    ASSUME NEW u \in Seq(Printable), Len(u) = 0
    PROVE  \A i \in Nat \ {0} : At(DebRun(u), i, 0) = 0
<1>1. NonDigits(u) \in 0..Len(u) /\ Len(Letters(u)) = NonDigits(u)
  BY LettersOf
<1>2. Len(Letters(u)) = 0
  BY <1>1
<1>3. RunNumber(u) = 0
  <2>1. PICK v \in Seq(Printable) : v = AfterLetters(u) /\ Len(v) <= Len(u)
    <3>1. AfterLetters(u) \in Seq(Printable) /\ Len(AfterLetters(u)) = Len(u) - NonDigits(u)
      BY AfterLettersOf
    <3> QED  BY <1>1, <3>1
  <2>2. Number(v) \in Seq(Digit) /\ Len(Number(v)) = Digits(v) /\ Digits(v) \in 0..Len(v)
    BY NumberOf
  <2>3. Len(Number(v)) = 0
    BY <2>1, <2>2
  <2>4. PICK f : Values(Number(v), f) /\ Value(Number(v)) = f[Len(Number(v))]
    BY <2>2, ValueOf
  <2>5. f[0] = 0
    BY <2>4 DEF Values
  <2>6. Value(Number(v)) = 0
    BY <2>3, <2>4, <2>5
  <2> QED  BY <2>1, <2>6 DEF RunNumber
<1>4. IsRun(DebRun(u), Letters(u), RunNumber(u))
  BY DebRunIs
<1>5. /\ DebRun(u) \in Seq(Int) /\ Len(DebRun(u)) = 2 /\ At(DebRun(u), 1, 0) = 0 /\ At(DebRun(u), 2, 0) = 0
  BY <1>2, <1>3, <1>4 DEF IsRun
<1>6. ASSUME NEW i \in Nat \ {0} PROVE At(DebRun(u), i, 0) = 0
  <2>1. i = 1 \/ i = 2 \/ i > 2
    OBVIOUS
  <2>2. CASE i > 2
    BY <1>5, <2>2 DEF At
  <2> QED  BY <1>5, <2>1, <2>2
<1> QED  BY <1>6

\* Keys that agree everywhere compare alike.
SameAt(k, m) == \A i \in Nat \ {0} : At(k, i, 0) = At(m, i, 0)

LEMMA SameKeys ==
    ASSUME NEW k \in Seq(Int), NEW l \in Seq(Int), NEW m \in Seq(Int), NEW n \in Seq(Int), SameAt(k, m), SameAt(l, n)
    PROVE  ByKey(k, l) = ByKey(m, n)
<1>1. PICK N \in Nat : Len(k) <= N /\ Len(l) <= N /\ Len(m) <= N /\ Len(n) <= N
  <2>1. Len(k) \in Nat /\ Len(l) \in Nat /\ Len(m) \in Nat /\ Len(n) \in Nat /\ 0 \in Nat
    OBVIOUS
  <2>2. PICK M \in Nat : Len(k) <= M /\ Len(l) <= M /\ Len(m) <= M
    BY <2>1, AboveThree
  <2>3. PICK N \in Nat : M <= N /\ Len(n) <= N /\ 0 <= N
    BY <2>1, AboveThree
  <2>4. \A a \in Nat : a <= M => a <= N
    BY <2>3
  <2> QED  BY <2>1, <2>2, <2>3, <2>4
<1>2. ByKey(k, l) = FirstDifference([i \in 1..N |-> Sign(At(k, i, 0), At(l, i, 0))])
  BY <1>1, KeyUpTo
<1>3. ByKey(m, n) = FirstDifference([i \in 1..N |-> Sign(At(m, i, 0), At(n, i, 0))])
  BY <1>1, KeyUpTo
<1>4. [i \in 1..N |-> Sign(At(k, i, 0), At(l, i, 0))] = [i \in 1..N |-> Sign(At(m, i, 0), At(n, i, 0))]
  BY DEF SameAt
<1> QED  BY <1>2, <1>3, <1>4

\* compareFragment answers what the keys of the two sides do.
LEMMA FragmentIsKeys ==
    ASSUME NEW s \in Seq(Printable), NEW t \in Seq(Printable)
    PROVE  /\ DebKey(s) \in Seq(Seq(Int))
           /\ CompareFragment(s, t) = ByKeys(DebKey(s), DebKey(t))
<1>1. ASSUME NEW x \in Seq(Printable)
      PROVE  /\ DebKey(x) \in Seq(Seq(Int)) /\ Len(DebKey(x)) = Len(x)
             /\ \A i \in Nat \ {0} :
                   /\ Rest(x)[i - 1] \in Seq(Printable) /\ DebRun(Rest(x)[i - 1]) \in Seq(Int)
                   /\ At(DebKey(x), i, <<>>) \in Seq(Int)
                   /\ \A j \in Nat \ {0} : At(DebRun(Rest(x)[i - 1]), j, 0) = At(At(DebKey(x), i, <<>>), j, 0)
  <2>1. PICK m \in Nat : m = Len(x)
    OBVIOUS
  <2>2. \A i \in Nat \ {0} : Rest(x)[i - 1] \in Seq(Printable) /\ DebRun(Rest(x)[i - 1]) \in Seq(Int)
    <3> TAKE i \in Nat \ {0}
    <3>1. i - 1 \in Nat
      OBVIOUS
    <3>2. Rest(x)[i - 1] \in Seq(Printable)
      BY <3>1, RestOf
    <3> QED  BY <3>2, RoundIsKey
  <2>3. PICK k : k = DebKey(x) /\ k \in Seq(Seq(Int)) /\ Len(k) = m /\ \A i \in 1..m : k[i] = DebRun(Rest(x)[i - 1])
    <3>1. DebKey(x) = [i \in 1..m |-> DebRun(Rest(x)[i - 1])]
      BY <2>1, Zenon DEF DebKey
    <3>2. PICK k : k = [i \in 1..m |-> DebRun(Rest(x)[i - 1])]
      OBVIOUS
    <3>3. \A i \in 1..m : i \in Nat \ {0} /\ k[i] = DebRun(Rest(x)[i - 1])
      BY <3>2
    <3>4. \A i \in 1..m : k[i] \in Seq(Int)
      BY <2>2, <3>3
    <3>5. k \in [1..m -> Seq(Int)]
      BY <3>2, <3>4
    <3>6. k \in Seq(Seq(Int)) /\ Len(k) = m
      BY <3>5
    <3> QED  BY <3>1, <3>2, <3>3, <3>6
  <2>4. ASSUME NEW i \in Nat \ {0}, NEW j \in Nat \ {0}
        PROVE  At(DebRun(Rest(x)[i - 1]), j, 0) = At(At(k, i, <<>>), j, 0)
    <3>1. CASE i <= m
      <4>1. At(k, i, <<>>) = DebRun(Rest(x)[i - 1])
        BY <2>3, <3>1 DEF At
      <4> QED  BY <4>1
    <3>2. CASE i > m
      <4>1. At(k, i, <<>>) = <<>>
        BY <2>3, <3>2 DEF At
      <4>2. Rest(x)[i - 1] \in Seq(Printable) /\ Len(Rest(x)[i - 1]) = 0
        <5>1. i - 1 \in Nat /\ i - 1 >= Len(x)
          BY <2>1, <3>2
        <5>2. Rest(x)[i - 1] = <<>>
          BY <5>1, RestEnds
        <5> QED  BY <2>2, <5>2
      <4>3. At(<<>>, j, 0) = 0
        BY DEF At
      <4> QED  BY <4>1, <4>2, <4>3, NoRun
    <3> QED  BY <2>1, <3>1, <3>2
  <2>5. \A i \in Nat \ {0} : At(k, i, <<>>) \in Seq(Int)
    BY <2>3, KeyAt
  <2> QED  BY <2>1, <2>2, <2>3, <2>4, <2>5
<1>2. PICK N \in Nat : N = Longer(s, t) /\ Len(s) <= N /\ Len(t) <= N
  BY Lengths
<1>3. ByKeys(DebKey(s), DebKey(t)) = FirstDifference([i \in 1..N |-> ByKey(At(DebKey(s), i, <<>>), At(DebKey(t), i, <<>>))])
  <2>1. DebKey(s) \in Seq(Seq(Int)) /\ DebKey(t) \in Seq(Seq(Int)) /\ Len(DebKey(s)) <= N /\ Len(DebKey(t)) <= N
    BY <1>1, <1>2
  <2> QED  BY <2>1, KeysUpTo
<1>4. ASSUME NEW i \in 1..N
      PROVE  CompareRound(Rest(s)[i - 1], Rest(t)[i - 1]) = ByKey(At(DebKey(s), i, <<>>), At(DebKey(t), i, <<>>))
  <2> DEFINE u == Rest(s)[i - 1]
             v == Rest(t)[i - 1]
             k == At(DebKey(s), i, <<>>)
             l == At(DebKey(t), i, <<>>)
  <2>1. i \in Nat \ {0}
    OBVIOUS
  <2>2. /\ u \in Seq(Printable) /\ v \in Seq(Printable) /\ k \in Seq(Int) /\ l \in Seq(Int)
        /\ DebRun(u) \in Seq(Int) /\ DebRun(v) \in Seq(Int)
        /\ \A j \in Nat \ {0} : At(DebRun(u), j, 0) = At(k, j, 0)
        /\ \A j \in Nat \ {0} : At(DebRun(v), j, 0) = At(l, j, 0)
    BY <1>1, <2>1
  <2> HIDE DEF u, v, k, l
  <2>3. CompareRound(u, v) = ByKey(DebRun(u), DebRun(v))
    BY <2>2, RoundIsKey
  <2>4. SameAt(DebRun(u), k) /\ SameAt(DebRun(v), l)
    BY <2>2 DEF SameAt
  <2>5. ByKey(DebRun(u), DebRun(v)) = ByKey(k, l)
    <3>1. DebRun(u) \in Seq(Int) /\ DebRun(v) \in Seq(Int) /\ k \in Seq(Int) /\ l \in Seq(Int)
      BY <2>2
    <3> QED  BY <2>4, <3>1, SameKeys
  <2>6. CompareRound(u, v) = ByKey(k, l)
    BY <2>3, <2>5
  <2> QED  BY <2>6 DEF u, v, k, l
<1>5. [i \in 1..N |-> CompareRound(Rest(s)[i - 1], Rest(t)[i - 1])] =
          [i \in 1..N |-> ByKey(At(DebKey(s), i, <<>>), At(DebKey(t), i, <<>>))]
  BY <1>4
<1>6. CompareFragment(s, t) = FirstDifference([i \in 1..N |-> CompareRound(Rest(s)[i - 1], Rest(t)[i - 1])])
  BY <1>2, Zenon DEF CompareFragment
<1> QED  BY <1>1, <1>3, <1>5, <1>6

\* dpkg.Compare answers on every two versions as deb-version(7) says, its loop
\* over fragments and its numbers of any length included.
THEOREM DpkgByTheRules == \A a, b \in DebVersions : CompareDeb(a, b) = DebReference(a, b)
<1> TAKE a, b \in DebVersions
<1>1. /\ a.upstream \in Seq(Printable) /\ a.revision \in Seq(Printable)
      /\ b.upstream \in Seq(Printable) /\ b.revision \in Seq(Printable)
  BY DEF DebVersions
<1>2. /\ CompareFragment(a.upstream, b.upstream) = ByKeys(DebKey(a.upstream), DebKey(b.upstream))
      /\ CompareFragment(a.revision, b.revision) = ByKeys(DebKey(a.revision), DebKey(b.revision))
  BY <1>1, FragmentIsKeys
<1> QED  BY <1>2, Zenon DEF CompareDeb, DebReference

\* dpkg.Compare orders versions, with the tilde before the end of a run.
THEOREM DpkgIsAnOrder ==
    \A u, v \in DebVersions :
        /\ CompareDeb(u, v) \in {-1, 0, 1} /\ CompareDeb(u, v) = -CompareDeb(v, u)
        /\ \A w \in DebVersions :
              CompareDeb(u, v) <= 0 /\ CompareDeb(v, w) <= 0 => CompareDeb(u, w) <= 0
<1> DEFINE epoch(a, b) == Sign(a.epoch, b.epoch)
           upstream(a, b) == ByKeys(DebKey(a.upstream), DebKey(b.upstream))
           revision(a, b) == ByKeys(DebKey(a.revision), DebKey(b.revision))
<1>1. ASSUME NEW a \in DebVersions, NEW b \in DebVersions
      PROVE  CompareDeb(a, b) = FirstDifference(<<epoch(a, b), upstream(a, b), revision(a, b)>>)
  BY DpkgByTheRules, Zenon DEF DebReference
<1>0. ASSUME NEW a \in DebVersions
      PROVE  a.epoch \in Int /\ DebKey(a.upstream) \in Seq(Seq(Int)) /\ DebKey(a.revision) \in Seq(Seq(Int))
  BY FragmentIsKeys DEF DebVersions
<1>2. ASSUME NEW a \in DebVersions, NEW b \in DebVersions
      PROVE  /\ epoch(a, b) \in Signs /\ upstream(a, b) \in Signs /\ revision(a, b) \in Signs
             /\ epoch(a, b) = -epoch(b, a) /\ upstream(a, b) = -upstream(b, a) /\ revision(a, b) = -revision(b, a)
  BY <1>0, SignType, KeysType
<1>3. ASSUME NEW a \in DebVersions, NEW b \in DebVersions, NEW c \in DebVersions
      PROVE  /\ Chain(epoch(a, b), epoch(b, c), epoch(a, c)) /\ Chain(upstream(a, b), upstream(b, c), upstream(a, c))
             /\ Chain(revision(a, b), revision(b, c), revision(a, c))
  BY <1>0, SignChain, KeysChain
<1> HIDE DEF epoch, upstream, revision
<1>4. ASSUME NEW a \in DebVersions, NEW b \in DebVersions
      PROVE  CompareDeb(a, b) \in Signs /\ CompareDeb(a, b) = -CompareDeb(b, a)
  <2>1. /\ CompareDeb(a, b) = FirstDifference(<<epoch(a, b), upstream(a, b), revision(a, b)>>)
        /\ CompareDeb(b, a) = FirstDifference(<<epoch(b, a), upstream(b, a), revision(b, a)>>)
    BY <1>1
  <2>2. /\ epoch(a, b) \in Signs /\ upstream(a, b) \in Signs /\ revision(a, b) \in Signs
        /\ epoch(b, a) \in Signs /\ upstream(b, a) \in Signs /\ revision(b, a) \in Signs
        /\ epoch(a, b) = -epoch(b, a) /\ upstream(a, b) = -upstream(b, a) /\ revision(a, b) = -revision(b, a)
    BY <1>2
  <2> QED  BY <2>1, <2>2, ThreeOpposite
<1>5. ASSUME NEW a \in DebVersions, NEW b \in DebVersions, NEW c \in DebVersions
      PROVE  Chain(CompareDeb(a, b), CompareDeb(b, c), CompareDeb(a, c))
  <2>1. /\ CompareDeb(a, b) = FirstDifference(<<epoch(a, b), upstream(a, b), revision(a, b)>>)
        /\ CompareDeb(b, c) = FirstDifference(<<epoch(b, c), upstream(b, c), revision(b, c)>>)
        /\ CompareDeb(a, c) = FirstDifference(<<epoch(a, c), upstream(a, c), revision(a, c)>>)
    BY <1>1
  <2>2. /\ epoch(a, b) \in Signs /\ upstream(a, b) \in Signs /\ revision(a, b) \in Signs
        /\ epoch(b, c) \in Signs /\ upstream(b, c) \in Signs /\ revision(b, c) \in Signs
        /\ epoch(a, c) \in Signs /\ upstream(a, c) \in Signs /\ revision(a, c) \in Signs
    BY <1>2
  <2>3. /\ Chain(epoch(a, b), epoch(b, c), epoch(a, c)) /\ Chain(upstream(a, b), upstream(b, c), upstream(a, c))
        /\ Chain(revision(a, b), revision(b, c), revision(a, c))
    BY <1>3
  <2>4. Chain(FirstDifference(<<epoch(a, b), upstream(a, b), revision(a, b)>>),
              FirstDifference(<<epoch(b, c), upstream(b, c), revision(b, c)>>),
              FirstDifference(<<epoch(a, c), upstream(a, c), revision(a, c)>>))
    BY <2>2, <2>3, ThreeChain
  <2> QED  BY <2>1, <2>4
<1> QED  BY <1>4, <1>5 DEF Chain, Signs

------------------------------------------------------------------------------
\* apk.  Zero is below every digit; a number is what Atoi reads.
Numbers == Seq(Digit) \ {<<>>}
NumberKey(x, i) == IF i > 1 /\ x[1] = Zero THEN <<1>> \o x ELSE <<2, Atoi(x)>>
NumberKeys(s) == [i \in DOMAIN s |-> NumberKey(s[i], i)]

LEMMA AtoiInt == ASSUME NEW x \in Seq(Digit) PROVE Atoi(x) \in Int
<1>1. Value(x) \in Nat
  BY ValueNat
<1> QED  BY <1>1 DEF Atoi

\* strings.Compare on digits.
LEMMA DigitsText ==
    ASSUME NEW x \in Seq(Digit), NEW y \in Seq(Digit)
    PROVE  Text(x, y) = ByKey(x, y)
<1>1. x \in Seq(Int) /\ y \in Seq(Int)
  <2>1. Digit \subseteq Int
    BY DEF Digit
  <2> QED  BY <2>1, SeqMonotonic
<1>2. ASSUME NEW z \in Seq(Digit) PROVE Positive(z, 0) /\ [i \in DOMAIN z |-> z[i] + 0] = z
  <2>1. \A i \in DOMAIN z : z[i] \in 48..57
    BY ElementOfSeq DEF Digit
  <2>0. \A c \in 48..57 : c + 0 > 0 /\ c + 0 = c
    OBVIOUS
  <2>2. \A i \in DOMAIN z : z[i] + 0 > 0 /\ z[i] + 0 = z[i]
    BY <2>0, <2>1, Zenon
  <2>3. z = [i \in DOMAIN z |-> z[i]]
    OBVIOUS
  <2> QED  BY <2>2, <2>3 DEF Positive
<1>3. Text(x, y) = ByKey([i \in DOMAIN x |-> x[i] + 0], [i \in DOMAIN y |-> y[i] + 0])
  <2>1. Positive(x, 0) /\ Positive(y, 0) /\ 0 \in Int
    BY <1>2
  <2> QED  BY <1>1, <2>1, TextIsKey, Zenon
<1> QED  BY <1>2, <1>3

LEMMA NumberIsKey ==
    ASSUME NEW x \in Numbers, NEW y \in Numbers, NEW i \in Nat \ {0}
    PROVE  /\ NumberKey(x, i) \in Seq(Int) /\ ByKey(NumberKey(x, i), <<>>) = 1
           /\ ByKey(NumberKey(x, i), NumberKey(y, i)) = Component(x, y, i)
<1>1. /\ x \in Seq(Digit) /\ y \in Seq(Digit) /\ x \in Seq(Int) /\ y \in Seq(Int)
      /\ x[1] \in 48..57 /\ y[1] \in 48..57 /\ At(x, 1, 0) = x[1] /\ At(y, 1, 0) = y[1]
  <2>1. Digit \subseteq Int
    BY DEF Digit
  <2>2. x \in Seq(Digit) /\ y \in Seq(Digit) /\ x # <<>> /\ y # <<>>
    BY DEF Numbers
  <2>3. x \in Seq(Int) /\ y \in Seq(Int)
    BY <2>1, <2>2, SeqMonotonic
  <2>4. 1 \in DOMAIN x /\ 1 \in DOMAIN y /\ 1 <= Len(x) /\ 1 <= Len(y)
    BY <2>2
  <2>5. x[1] \in Digit /\ y[1] \in Digit
    BY <2>2, <2>4
  <2> QED  BY <2>2, <2>3, <2>4, <2>5 DEF At, Digit
<1>2. Atoi(x) \in Int /\ Atoi(y) \in Int
  BY <1>1, AtoiInt
<1> DEFINE c(z) == <<1>> \o z
           d(z) == <<2, Atoi(z)>>
<1>3. /\ c(x) \in Seq(Int) /\ At(c(x), 1, 0) = 1 /\ c(y) \in Seq(Int) /\ At(c(y), 1, 0) = 1
  BY <1>1, ConsAt
<1>4. /\ d(x) \in Seq(Int) /\ At(d(x), 1, 0) = 2 /\ d(y) \in Seq(Int) /\ At(d(y), 1, 0) = 2
  BY <1>2 DEF At
<1>5. <<>> \in Seq(Int) /\ At(<<>>, 1, 0) = 0
  BY DEF At
<1>6. ByKey(c(x), <<>>) = 1
  <2> HIDE DEF c
  <2>1. ByKey(c(x), <<>>) = Sign(At(c(x), 1, 0), At(<<>>, 1, 0))
    <3>1. c(x) \in Seq(Int) /\ <<>> \in Seq(Int)
      BY <1>3, <1>5
    <3>2. At(c(x), 1, 0) # At(<<>>, 1, 0)
      BY <1>3, <1>5
    <3> QED  BY <3>1, <3>2, HeadKey, Zenon
  <2> QED  BY <1>3, <1>5, <2>1 DEF Sign
<1>7. ByKey(d(x), <<>>) = 1
  BY <1>2, NothingAgainst
<1>8. ByKey(c(x), c(y)) = ByKey(x, y)
  <2>1. 1 \in Int
    OBVIOUS
  <2> QED  BY <1>1, <2>1, ConsKey
<1>9. ByKey(d(x), d(y)) = Sign(Atoi(x), Atoi(y))
  <2>1. \A a, b \in Int : ByKey(<<2, a>>, <<2, b>>) = Sign(a, b)
    BY KeyOfTwo
  <2> QED  BY <1>2, <2>1
<1>10. ByKey(c(x), d(y)) = -1 /\ ByKey(d(x), c(y)) = 1
  <2> HIDE DEF c, d
  <2>1. /\ ByKey(c(x), d(y)) = Sign(At(c(x), 1, 0), At(d(y), 1, 0))
        /\ ByKey(d(x), c(y)) = Sign(At(d(x), 1, 0), At(c(y), 1, 0))
    BY <1>3, <1>4, HeadKey
  <2> QED  BY <1>3, <1>4, <2>1 DEF Sign
<1>11. Text(x, y) = ByKey(x, y)
  BY <1>1, DigitsText
<1>12. x[1] # y[1] => ByKey(x, y) = Sign(x[1], y[1])
  BY <1>1, HeadKey
<1>13. /\ NumberKey(x, i) = (IF i > 1 /\ x[1] = 48 THEN c(x) ELSE d(x))
       /\ NumberKey(y, i) = (IF i > 1 /\ y[1] = 48 THEN c(y) ELSE d(y))
  BY Zenon DEF NumberKey, Zero
<1>14. Component(x, y, i) = IF i > 1 /\ 48 \in {x[1], y[1]} THEN ByKey(x, y) ELSE Sign(Atoi(x), Atoi(y))
  BY <1>11, Zenon DEF Component, Zero
<1>15. ByKey(NumberKey(x, i), NumberKey(y, i)) = Component(x, y, i)
  <2> HIDE DEF c, d
  <2>1. CASE i > 1 /\ x[1] = 48 /\ y[1] = 48
    BY <1>8, <1>13, <1>14, <2>1
  <2>2. CASE i > 1 /\ x[1] = 48 /\ y[1] # 48
    <3>1. ByKey(x, y) = -1
      <4>1. x[1] < y[1]
        BY <1>1, <2>2
      <4>2. x[1] # y[1]
        BY <2>2
      <4> QED  BY <1>12, <4>1, <4>2 DEF Sign
    <3> QED  BY <1>10, <1>13, <1>14, <2>2, <3>1
  <2>3. CASE i > 1 /\ x[1] # 48 /\ y[1] = 48
    <3>1. ByKey(x, y) = 1
      <4>1. x[1] > y[1] /\ ~(x[1] < y[1])
        BY <1>1, <2>3
      <4>2. x[1] # y[1]
        BY <2>3
      <4> QED  BY <1>12, <4>1, <4>2 DEF Sign
    <3> QED  BY <1>10, <1>13, <1>14, <2>3, <3>1
  <2>4. CASE ~(i > 1) \/ (x[1] # 48 /\ y[1] # 48)
    BY <1>9, <1>13, <1>14, <2>4
  <2> QED  BY <2>1, <2>2, <2>3, <2>4
<1> QED  BY <1>3, <1>4, <1>6, <1>7, <1>13, <1>15

LEMMA NumbersAreKeys ==
    ASSUME NEW a \in Seq(Numbers), NEW b \in Seq(Numbers)
    PROVE  /\ NumberKeys(a) \in Seq(Seq(Int))
           /\ CompareNumbers(a, b) = ByKeys(NumberKeys(a), NumberKeys(b))
<1>1. ASSUME NEW s \in Seq(Numbers)
      PROVE  /\ NumberKeys(s) \in Seq(Seq(Int)) /\ Len(NumberKeys(s)) = Len(s)
             /\ \A i \in 1..Len(s) : s[i] \in Numbers /\ NumberKeys(s)[i] = NumberKey(s[i], i)
             /\ \A i \in DOMAIN NumberKeys(s) : ByKey(NumberKeys(s)[i], <<>>) = 1
  <2> DEFINE k == NumberKeys(s)
  <2>1. PICK n \in Nat : n = Len(s) /\ DOMAIN s = 1..n
    OBVIOUS
  <2>2. k = [i \in 1..n |-> NumberKey(s[i], i)]
    BY <2>1 DEF NumberKeys
  <2>3. \A i \in 1..n : s[i] \in Numbers /\ i \in Nat \ {0}
    BY <2>1
  <2>4. \A i \in 1..n : NumberKey(s[i], i) \in Seq(Int) /\ ByKey(NumberKey(s[i], i), <<>>) = 1
    BY <2>3, NumberIsKey
  <2> HIDE DEF k
  <2>5. k \in [1..n -> Seq(Int)]
    BY <2>2, <2>4
  <2>6. k \in Seq(Seq(Int)) /\ Len(k) = n /\ DOMAIN k = 1..n
    BY <2>5
  <2>7. \A i \in 1..n : k[i] = NumberKey(s[i], i)
    BY <2>2
  <2>8. \A i \in DOMAIN k : ByKey(k[i], <<>>) = 1
    BY <2>4, <2>6, <2>7
  <2> QED  BY <2>1, <2>3, <2>6, <2>7, <2>8 DEF k
<1> DEFINE k == NumberKeys(a)
           l == NumberKeys(b)
<1>2. PICK p \in Nat : p = Shorter(a, b) /\ p = Shorter(k, l) /\ p <= Len(a) /\ p <= Len(b)
  BY <1>1, Lengths DEF Shorter
<1>3. \A i \in 1..p : Component(a[i], b[i], i) = ByKey(k[i], l[i])
  <2> TAKE i \in 1..p
  <2>1. i \in 1..Len(a) /\ i \in 1..Len(b) /\ i \in Nat \ {0}
    BY <1>2
  <2>2. a[i] \in Numbers /\ b[i] \in Numbers /\ k[i] = NumberKey(a[i], i) /\ l[i] = NumberKey(b[i], i)
    BY <1>1, <2>1
  <2>3. ByKey(NumberKey(a[i], i), NumberKey(b[i], i)) = Component(a[i], b[i], i)
    BY <2>1, <2>2, NumberIsKey
  <2> QED  BY <2>2, <2>3
<1>4. [i \in 1..p |-> Component(a[i], b[i], i)] = [i \in 1..p |-> ByKey(k[i], l[i])]
  BY <1>3
<1>5. ByKeys(k, l) = FirstDifference([i \in 1..p |-> ByKey(k[i], l[i])] \o <<Sign(Len(k), Len(l))>>)
  <2>1. /\ k \in Seq(Seq(Int)) /\ l \in Seq(Seq(Int))
        /\ \A i \in DOMAIN k : ByKey(k[i], <<>>) = 1
        /\ \A i \in DOMAIN l : ByKey(l[i], <<>>) = 1
    BY <1>1
  <2> HIDE DEF k, l
  <2>2. ByKeys(k, l) =
              FirstDifference([i \in 1..Shorter(k, l) |-> ByKey(k[i], l[i])] \o <<Sign(Len(k), Len(l))>>)
    BY <2>1, KeysShorter
  <2> QED  BY <1>2, <2>2
<1>6. Len(k) = Len(a) /\ Len(l) = Len(b)
  BY <1>1
<1> QED  BY <1>1, <1>2, <1>4, <1>5, <1>6, Zenon DEF CompareNumbers

Suffixes == (0..9) \X (Nat \cup {-1})
SuffixKey(p) == <<p[1] - 4, p[2] + 1>>

LEMMA SuffixIsKey ==
    ASSUME NEW p \in Suffixes, NEW q \in Suffixes
    PROVE  SuffixKey(p) \in Seq(Int) /\ Text(p, q) = ByKey(SuffixKey(p), SuffixKey(q))
<1>1. PICK a \in 0..9, b \in Nat \cup {-1}, c \in 0..9, d \in Nat \cup {-1} : p = <<a, b>> /\ q = <<c, d>>
  BY DEF Suffixes
<1>2. ASSUME NEW x \in 0..9, NEW y \in Nat \cup {-1}
      PROVE  <<x, y>> \in Seq(Int) /\ Positive(<<x, y>>, 2) /\ [i \in DOMAIN <<x, y>> |-> <<x, y>>[i] + 2] = <<x + 2, y + 2>>
  BY DEF Positive
<1>3. Text(<<a, b>>, <<c, d>>) = ByKey([i \in DOMAIN <<a, b>> |-> <<a, b>>[i] + 2], [i \in DOMAIN <<c, d>> |-> <<c, d>>[i] + 2])
  <2>0. 2 \in Int
    OBVIOUS
  <2>1. /\ <<a, b>> \in Seq(Int) /\ Positive(<<a, b>>, 2) /\ <<c, d>> \in Seq(Int) /\ Positive(<<c, d>>, 2) /\ 2 \in Int
    BY <1>2, <2>0, Zenon
  <2> QED  BY <2>1, TextIsKey, Zenon
<1>4. ByKey(<<a + 2, b + 2>>, <<c + 2, d + 2>>) = IF a + 2 # c + 2 THEN Sign(a + 2, c + 2) ELSE Sign(b + 2, d + 2)
  BY KeyOfTwo
<1>5. ByKey(<<a - 4, b + 1>>, <<c - 4, d + 1>>) = IF a - 4 # c - 4 THEN Sign(a - 4, c - 4) ELSE Sign(b + 1, d + 1)
  BY KeyOfTwo
<1>6. Sign(a + 2, c + 2) = Sign(a - 4, c - 4) /\ Sign(b + 2, d + 2) = Sign(b + 1, d + 1) /\ (a + 2 # c + 2 <=> a - 4 # c - 4)
  BY DEF Sign
<1>7. Text(<<a, b>>, <<c, d>>) = ByKey(<<a + 2, b + 2>>, <<c + 2, d + 2>>)
  BY <1>2, <1>3
<1>8. SuffixKey(<<a, b>>) = <<a - 4, b + 1>> /\ SuffixKey(<<c, d>>) = <<c - 4, d + 1>>
  BY DEF SuffixKey
<1>9. <<a - 4, b + 1>> \in Seq(Int)
  OBVIOUS
<1> QED  BY <1>1, <1>4, <1>5, <1>6, <1>7, <1>8, <1>9, Zenon

LEMMA SuffixesAreKeys ==
    ASSUME NEW a \in Seq(Suffixes), NEW b \in Seq(Suffixes)
    PROVE  /\ ApkSuffixes(a) \in Seq(Seq(Int))
           /\ CompareSuffixes(a, b) = ByKeys(ApkSuffixes(a), ApkSuffixes(b))
<1>1. ASSUME NEW s \in Seq(Suffixes)
      PROVE  /\ ApkSuffixes(s) \in Seq(Seq(Int)) /\ Len(ApkSuffixes(s)) = Len(s)
             /\ \A i \in Nat \ {0} : /\ At(s, i, NoSuffix) \in Suffixes /\ At(ApkSuffixes(s), i, <<>>) \in Seq(Int)
                                     /\ SameAt(SuffixKey(At(s, i, NoSuffix)), At(ApkSuffixes(s), i, <<>>))
  <2>1. PICK n \in Nat : n = Len(s) /\ DOMAIN s = 1..n
    OBVIOUS
  <2>2. PICK k : k = ApkSuffixes(s) /\ k = [i \in 1..n |-> SuffixKey(s[i])]
    BY <2>1 DEF ApkSuffixes, SuffixKey
  <2>3. \A i \in 1..n : s[i] \in Suffixes
    BY <2>1
  <2>4. \A i \in 1..n : SuffixKey(s[i]) \in Seq(Int)
    BY <2>3, SuffixIsKey
  <2>5. k \in [1..n -> Seq(Int)] /\ \A i \in 1..n : k[i] = SuffixKey(s[i])
    BY <2>2, <2>4
  <2>6. k \in Seq(Seq(Int)) /\ Len(k) = n
    BY <2>5
  <2>7. NoSuffix \in Suffixes /\ \A j \in Nat \ {0} : At(SuffixKey(NoSuffix), j, 0) = 0
    BY DEF NoSuffix, Suffixes, SuffixKey, At
  <2>8. ASSUME NEW i \in Nat \ {0}
        PROVE  /\ At(s, i, NoSuffix) \in Suffixes /\ At(k, i, <<>>) \in Seq(Int)
               /\ SameAt(SuffixKey(At(s, i, NoSuffix)), At(k, i, <<>>))
    <3>1. CASE i <= n
      <4>1. i \in 1..n /\ At(s, i, NoSuffix) = s[i] /\ At(k, i, <<>>) = k[i] /\ k[i] = SuffixKey(s[i])
        BY <2>1, <2>5, <2>6, <3>1 DEF At
      <4> QED  BY <2>3, <2>4, <4>1 DEF SameAt
    <3>2. CASE i > n
      <4>1. At(s, i, NoSuffix) = NoSuffix /\ At(k, i, <<>>) = <<>>
        BY <2>1, <2>6, <3>2 DEF At
      <4>2. <<>> \in Seq(Int) /\ \A j \in Nat \ {0} : At(<<>>, j, 0) = 0
        BY DEF At
      <4> QED  BY <2>7, <4>1, <4>2 DEF SameAt
    <3> QED  BY <3>1, <3>2
  <2> QED  BY <2>1, <2>2, <2>6, <2>8
<1>2. PICK N \in Nat : N = Longer(a, b) /\ Len(a) <= N /\ Len(b) <= N
  BY Lengths
<1>3. ByKeys(ApkSuffixes(a), ApkSuffixes(b)) =
          FirstDifference([i \in 1..N |-> ByKey(At(ApkSuffixes(a), i, <<>>), At(ApkSuffixes(b), i, <<>>))])
  <2>1. /\ ApkSuffixes(a) \in Seq(Seq(Int)) /\ ApkSuffixes(b) \in Seq(Seq(Int))
        /\ Len(ApkSuffixes(a)) <= N /\ Len(ApkSuffixes(b)) <= N
    BY <1>1, <1>2
  <2> QED  BY <2>1, KeysUpTo
<1>4. ASSUME NEW i \in 1..N
      PROVE  Text(At(a, i, NoSuffix), At(b, i, NoSuffix)) = ByKey(At(ApkSuffixes(a), i, <<>>), At(ApkSuffixes(b), i, <<>>))
  <2> DEFINE u == At(a, i, NoSuffix)
             v == At(b, i, NoSuffix)
             k == At(ApkSuffixes(a), i, <<>>)
             l == At(ApkSuffixes(b), i, <<>>)
  <2>1. i \in Nat \ {0}
    OBVIOUS
  <2>2. /\ u \in Suffixes /\ v \in Suffixes /\ k \in Seq(Int) /\ l \in Seq(Int)
        /\ SameAt(SuffixKey(u), k) /\ SameAt(SuffixKey(v), l)
    BY <1>1, <2>1
  <2> HIDE DEF u, v, k, l
  <2>3. /\ Text(u, v) = ByKey(SuffixKey(u), SuffixKey(v)) /\ SuffixKey(u) \in Seq(Int) /\ SuffixKey(v) \in Seq(Int)
    BY <2>2, SuffixIsKey
  <2>4. ByKey(SuffixKey(u), SuffixKey(v)) = ByKey(k, l)
    BY <2>2, <2>3, SameKeys
  <2>5. Text(u, v) = ByKey(k, l)
    BY <2>3, <2>4
  <2> QED  BY <2>5 DEF u, v, k, l
<1>5. [i \in 1..N |-> Text(At(a, i, NoSuffix), At(b, i, NoSuffix))] =
          [i \in 1..N |-> ByKey(At(ApkSuffixes(a), i, <<>>), At(ApkSuffixes(b), i, <<>>))]
  BY <1>4
<1>6. CompareSuffixes(a, b) = FirstDifference([i \in 1..N |-> Text(At(a, i, NoSuffix), At(b, i, NoSuffix))])
  BY <1>2, Zenon DEF CompareSuffixes
<1> QED  BY <1>1, <1>3, <1>5, <1>6

LEMMA ApkParts ==
    ASSUME NEW v \in ApkVersions
    PROVE  /\ v.numbers \in Seq(Numbers) /\ v.letter \in Int /\ v.suffixes \in Seq(Suffixes) /\ v.revision \in Int
           /\ NumberKeys(v.numbers) \in Seq(Seq(Int)) /\ ApkSuffixes(v.suffixes) \in Seq(Seq(Int))
<1>1. v.numbers \in Seq(Numbers) /\ v.letter \in Int /\ v.suffixes \in Seq(Suffixes) /\ v.revision \in Int
  BY DEF ApkVersions, Numbers, Suffixes, Digit
<1> QED  BY <1>1, NumbersAreKeys, SuffixesAreKeys

\* What apk.Compare compares, numbers too long for an int counted as it does.
LEMMA ApkCompared ==
    ASSUME NEW a \in ApkVersions, NEW b \in ApkVersions
    PROVE  CompareApk(a, b) =
               FirstDifference(<<ByKeys(NumberKeys(a.numbers), NumberKeys(b.numbers)), Sign(a.letter, b.letter),
                                 ByKeys(ApkSuffixes(a.suffixes), ApkSuffixes(b.suffixes)), Sign(a.revision, b.revision)>>)
<1>1. /\ a.numbers \in Seq(Numbers) /\ a.suffixes \in Seq(Suffixes)
      /\ b.numbers \in Seq(Numbers) /\ b.suffixes \in Seq(Suffixes)
  BY ApkParts
<1>2. /\ CompareNumbers(a.numbers, b.numbers) = ByKeys(NumberKeys(a.numbers), NumberKeys(b.numbers))
      /\ CompareSuffixes(a.suffixes, b.suffixes) = ByKeys(ApkSuffixes(a.suffixes), ApkSuffixes(b.suffixes))
  BY <1>1, NumbersAreKeys, SuffixesAreKeys
<1> QED  BY <1>2, Zenon DEF CompareApk

\* apk.Compare answers as the rules that the package's comment gives, on
\* versions whose components are ints: compareNumeric's atoi counts a longer
\* one as nothing.
THEOREM ApkByTheRules ==
    \A a, b \in ApkVersions :
        (\A i \in DOMAIN a.numbers : IsInt(a.numbers[i])) /\ (\A i \in DOMAIN b.numbers : IsInt(b.numbers[i])) =>
            CompareApk(a, b) = ApkReference(a, b)
<1> SUFFICES ASSUME NEW a \in ApkVersions, NEW b \in ApkVersions,
                    \A i \in DOMAIN a.numbers : IsInt(a.numbers[i]), \A i \in DOMAIN b.numbers : IsInt(b.numbers[i])
             PROVE  CompareApk(a, b) = ApkReference(a, b)
  BY Zenon
<1>1. ASSUME NEW v \in ApkVersions, \A i \in DOMAIN v.numbers : IsInt(v.numbers[i])
      PROVE  NumberKeys(v.numbers) = ApkNumbers(v.numbers)
  <2>1. \A i \in DOMAIN v.numbers : Atoi(v.numbers[i]) = Value(v.numbers[i])
    BY <1>1, Zenon DEF Atoi
  <2>2. \A i \in DOMAIN v.numbers :
            NumberKey(v.numbers[i], i) = IF i > 1 /\ v.numbers[i][1] = Zero THEN <<1>> \o v.numbers[i]
                                         ELSE <<2, Value(v.numbers[i])>>
    BY <2>1, Zenon DEF NumberKey
  <2>3. [i \in DOMAIN v.numbers |-> NumberKey(v.numbers[i], i)] =
        [i \in DOMAIN v.numbers |-> IF i > 1 /\ v.numbers[i][1] = Zero THEN <<1>> \o v.numbers[i]
                                    ELSE <<2, Value(v.numbers[i])>>]
    BY <2>2, Zenon
  <2> QED  BY <2>3, Zenon DEF NumberKeys, ApkNumbers
<1>2. NumberKeys(a.numbers) = ApkNumbers(a.numbers) /\ NumberKeys(b.numbers) = ApkNumbers(b.numbers)
  BY <1>1
<1> QED  BY <1>2, ApkCompared, Zenon DEF ApkReference

\* apk.Compare orders all versions, those with too long a component too.
THEOREM ApkIsAnOrder ==
    \A u, v \in ApkVersions :
        /\ CompareApk(u, v) \in {-1, 0, 1} /\ CompareApk(u, v) = -CompareApk(v, u)
        /\ \A w \in ApkVersions :
              CompareApk(u, v) <= 0 /\ CompareApk(v, w) <= 0 => CompareApk(u, w) <= 0
<1> DEFINE numbers(a, b) == ByKeys(NumberKeys(a.numbers), NumberKeys(b.numbers))
           letter(a, b) == Sign(a.letter, b.letter)
           suffixes(a, b) == ByKeys(ApkSuffixes(a.suffixes), ApkSuffixes(b.suffixes))
           revision(a, b) == Sign(a.revision, b.revision)
<1>1. ASSUME NEW a \in ApkVersions, NEW b \in ApkVersions
      PROVE  CompareApk(a, b) = FirstDifference(<<numbers(a, b), letter(a, b), suffixes(a, b), revision(a, b)>>)
  BY ApkCompared
<1>2. ASSUME NEW a \in ApkVersions, NEW b \in ApkVersions
      PROVE  /\ numbers(a, b) \in Signs /\ letter(a, b) \in Signs /\ suffixes(a, b) \in Signs /\ revision(a, b) \in Signs
             /\ numbers(a, b) = -numbers(b, a) /\ letter(a, b) = -letter(b, a)
             /\ suffixes(a, b) = -suffixes(b, a) /\ revision(a, b) = -revision(b, a)
  BY ApkParts, SignType, KeysType
<1>3. ASSUME NEW a \in ApkVersions, NEW b \in ApkVersions, NEW c \in ApkVersions
      PROVE  /\ Chain(numbers(a, b), numbers(b, c), numbers(a, c)) /\ Chain(letter(a, b), letter(b, c), letter(a, c))
             /\ Chain(suffixes(a, b), suffixes(b, c), suffixes(a, c))
             /\ Chain(revision(a, b), revision(b, c), revision(a, c))
  BY ApkParts, SignChain, KeysChain
<1> HIDE DEF numbers, letter, suffixes, revision
<1>4. ASSUME NEW a \in ApkVersions, NEW b \in ApkVersions
      PROVE  CompareApk(a, b) \in Signs /\ CompareApk(a, b) = -CompareApk(b, a)
  <2>1. /\ CompareApk(a, b) = FirstDifference(<<numbers(a, b), letter(a, b), suffixes(a, b), revision(a, b)>>)
        /\ CompareApk(b, a) = FirstDifference(<<numbers(b, a), letter(b, a), suffixes(b, a), revision(b, a)>>)
    BY <1>1
  <2>2. /\ numbers(a, b) \in Signs /\ letter(a, b) \in Signs /\ suffixes(a, b) \in Signs /\ revision(a, b) \in Signs
        /\ numbers(b, a) \in Signs /\ letter(b, a) \in Signs /\ suffixes(b, a) \in Signs /\ revision(b, a) \in Signs
        /\ numbers(a, b) = -numbers(b, a) /\ letter(a, b) = -letter(b, a)
        /\ suffixes(a, b) = -suffixes(b, a) /\ revision(a, b) = -revision(b, a)
    BY <1>2
  <2> QED  BY <2>1, <2>2, FourOpposite
<1>5. ASSUME NEW a \in ApkVersions, NEW b \in ApkVersions, NEW c \in ApkVersions
      PROVE  Chain(CompareApk(a, b), CompareApk(b, c), CompareApk(a, c))
  <2>1. /\ CompareApk(a, b) = FirstDifference(<<numbers(a, b), letter(a, b), suffixes(a, b), revision(a, b)>>)
        /\ CompareApk(b, c) = FirstDifference(<<numbers(b, c), letter(b, c), suffixes(b, c), revision(b, c)>>)
        /\ CompareApk(a, c) = FirstDifference(<<numbers(a, c), letter(a, c), suffixes(a, c), revision(a, c)>>)
    BY <1>1
  <2>2. /\ numbers(a, b) \in Signs /\ letter(a, b) \in Signs /\ suffixes(a, b) \in Signs /\ revision(a, b) \in Signs
        /\ numbers(b, c) \in Signs /\ letter(b, c) \in Signs /\ suffixes(b, c) \in Signs /\ revision(b, c) \in Signs
        /\ numbers(a, c) \in Signs /\ letter(a, c) \in Signs /\ suffixes(a, c) \in Signs /\ revision(a, c) \in Signs
    BY <1>2
  <2>3. /\ Chain(numbers(a, b), numbers(b, c), numbers(a, c)) /\ Chain(letter(a, b), letter(b, c), letter(a, c))
        /\ Chain(suffixes(a, b), suffixes(b, c), suffixes(a, c))
        /\ Chain(revision(a, b), revision(b, c), revision(a, c))
    BY <1>3
  <2>4. Chain(FirstDifference(<<numbers(a, b), letter(a, b), suffixes(a, b), revision(a, b)>>),
              FirstDifference(<<numbers(b, c), letter(b, c), suffixes(b, c), revision(b, c)>>),
              FirstDifference(<<numbers(a, c), letter(a, c), suffixes(a, c), revision(a, c)>>))
    BY <2>2, <2>3, FourChain
  <2> QED  BY <2>1, <2>4
<1> QED  BY <1>4, <1>5 DEF Chain, Signs

------------------------------------------------------------------------------
\* What the parsers of dpkg and apk answer with.

LEMMA PlaceOf ==
    ASSUME NEW s \in Seq(Int), NEW c
    PROVE  FirstOf(c, s) \in 0..Len(s) /\ LastOf(c, s) \in 0..Len(s)
<1> DEFINE D == {i \in DOMAIN s : s[i] = c}
<1>1. DOMAIN s = 1..Len(s) /\ Len(s) \in Nat /\ D \in SUBSET Nat
  OBVIOUS
<1>2. CASE D = {}
  BY <1>1, <1>2 DEF FirstOf, LastOf
<1>3. CASE D # {}
  <2>1. \E i \in D : \A j \in D : i <= j
    <3> HIDE DEF D
    <3> QED  BY <1>1, <1>3, LeastOf
  <2>2. \E i \in DOMAIN s : s[i] = c /\ \A j \in 1..i - 1 : s[j] # c
    <3>1. PICK i \in D : \A j \in D : i <= j
      BY <2>1
    <3>2. i \in DOMAIN s /\ s[i] = c
      OBVIOUS
    <3>3. ASSUME NEW j \in 1..i - 1 PROVE s[j] # c
      <4>1. j \in DOMAIN s /\ ~(i <= j)
        BY <1>1, <3>2
      <4> QED  BY <3>1, <4>1
    <3> QED  BY <3>2, <3>3
  <2>3. \E i \in DOMAIN s : s[i] = c /\ \A j \in i + 1 .. Len(s) : s[j] # c
    <3> DEFINE B == {Len(s) - i : i \in D}
    <3>1. B \in SUBSET Nat /\ B # {}
      BY <1>1, <1>3
    <3>2. PICK b \in B : \A d \in B : b <= d
      <4> HIDE DEF B
      <4> QED  BY <3>1, LeastOf
    <3>3. PICK i \in D : b = Len(s) - i
      OBVIOUS
    <3>4. i \in DOMAIN s /\ s[i] = c
      OBVIOUS
    <3>5. ASSUME NEW j \in i + 1 .. Len(s) PROVE s[j] # c
      <4> SUFFICES ASSUME s[j] = c PROVE FALSE
        OBVIOUS
      <4>1. j \in 1..Len(s)
        BY <1>1, <3>4
      <4>2. j \in D
        BY <1>1, <4>1
      <4>3. Len(s) - i <= Len(s) - j
        BY <3>2, <3>3, <4>2
      <4> QED  BY <1>1, <3>4, <4>3
    <3> QED  BY <3>4, <3>5
  <2>4. FirstOf(c, s) \in DOMAIN s
    <3>1. \E i \in DOMAIN s : s[i] = c
      BY <2>2
    <3>2. FirstOf(c, s) = CHOOSE i \in DOMAIN s : s[i] = c /\ \A j \in 1..i - 1 : s[j] # c
      BY <3>1, Zenon DEF FirstOf
    <3> QED  BY <2>2, <3>2, Zenon
  <2>5. LastOf(c, s) \in DOMAIN s
    <3>1. \E i \in DOMAIN s : s[i] = c
      BY <2>2
    <3>2. LastOf(c, s) = CHOOSE i \in DOMAIN s : s[i] = c /\ \A j \in i + 1 .. Len(s) : s[j] # c
      BY <3>1, Zenon DEF LastOf
    <3> QED  BY <2>3, <3>2, Zenon
  <2> QED  BY <1>1, <2>4, <2>5
<1> QED  BY <1>2, <1>3

LEMMA AllDigits ==
    ASSUME NEW s \in Seq(Int), Digits(s) = Len(s)
    PROVE  s \in Seq(Digit)
<1>1. \A i \in 1..Digits(s) : s[i] \in Digit
  BY DigitsOf
<1>2. \A i \in 1..Len(s) : s[i] \in Digit
  BY <1>1
<1>3. s \in [1..Len(s) -> Digit]
  BY <1>2
<1> QED  BY <1>3

LEMMA NumberIsNat ==
    ASSUME NEW s \in Seq(Int), IsNumber(s)
    PROVE  Value(s) \in Nat
<1>1. Digits(s) = Len(s)
  BY DEF IsNumber
<1>2. s \in Seq(Digit)
  BY <1>1, AllDigits
<1> QED  BY <1>2, ValueNat

\* dpkg.Parse answers with a version.
LEMMA ParseDebType ==
    ASSUME NEW s \in Seq(Int)
    PROVE  ParseDeb(s) \subseteq DebVersions
<1>1. CASE \E i \in DOMAIN s : s[i] <= 32 \/ s[i] > Tilde
  <2>1. ParseDeb(s) = {}
    BY <1>1, Zenon DEF ParseDeb
  <2> QED  BY <2>1
<1>2. CASE ~\E i \in DOMAIN s : s[i] <= 32 \/ s[i] > Tilde
  <2>1. s \in Seq(Printable)
    <3>1. PICK n \in Nat : n = Len(s) /\ DOMAIN s = 1..n
      OBVIOUS
    <3>2. ASSUME NEW i \in 1..n PROVE s[i] \in Printable
      <4>1. s[i] \in Int /\ ~(s[i] <= 32) /\ ~(s[i] > Tilde)
        BY <1>2, <3>1
      <4>2. \A c \in Int : ~(c <= 32) /\ ~(c > Tilde) => c \in Printable
        BY DEF Printable, Tilde
      <4> QED  BY <4>1, <4>2, Zenon
    <3>3. s \in [1..n -> Printable]
      BY <3>1, <3>2
    <3> QED  BY <3>3
  <2>2. ASSUME NEW epoch \in Nat, NEW u \in Seq(Printable)
        PROVE  DebRevised(epoch, u, LastOf(Hyphen, u)) \subseteq DebVersions
    <3>1. PICK h \in 0..Len(u) : h = LastOf(Hyphen, u)
      <4>1. u \in Seq(Int)
        BY PrintableText
      <4> QED  BY <4>1, PlaceOf
    <3>2. ASSUME NEW x \in Seq(Printable), NEW y \in Seq(Printable) PROVE DebVersion(epoch, x, y) \subseteq DebVersions
      BY DEF DebVersion, DebVersions
    <3>3. CASE h = 0
      <4>1. <<>> \in Seq(Printable)
        OBVIOUS
      <4>2. DebRevised(epoch, u, h) = DebVersion(epoch, u, <<>>)
        BY <3>3, Zenon DEF DebRevised
      <4> QED  BY <3>1, <3>2, <4>1, <4>2
    <3>4. CASE h # 0 /\ h = Len(u)
      <4>1. DebRevised(epoch, u, h) = {}
        BY <3>4, Zenon DEF DebRevised
      <4> QED  BY <3>1, <4>1
    <3>5. CASE h # 0 /\ h # Len(u)
      <4>1. DebRevised(epoch, u, h) = DebVersion(epoch, SubSeq(u, 1, h - 1), Without(u, h))
        BY <3>5, Zenon DEF DebRevised
      <4>2. h - 1 \in 0..Len(u)
        BY <3>5
      <4>3. SubSeq(u, 1, h - 1) \in Seq(Printable) /\ Without(u, h) \in Seq(Printable)
        BY <4>2, PrefixOf, WithoutOf
      <4> QED  BY <3>1, <3>2, <4>1, <4>3
    <3> QED  BY <3>3, <3>4, <3>5
  <2>3. PICK f \in 0..Len(s) : f = FirstOf(Colon, s)
    BY PlaceOf
  <2>4. CASE f = 0
    <3>1. ParseDeb(s) = DebRevised(0, s, LastOf(Hyphen, s))
      BY <1>2, <2>3, <2>4, Zenon DEF ParseDeb
    <3>2. 0 \in Nat
      OBVIOUS
    <3> QED  BY <2>1, <2>2, <3>1, <3>2
  <2>5. CASE f # 0 /\ ~IsNumber(SubSeq(s, 1, f - 1))
    <3>1. ParseDeb(s) = {}
      BY <1>2, <2>3, <2>5, Zenon DEF ParseDeb
    <3> QED  BY <3>1
  <2>6. CASE f # 0 /\ IsNumber(SubSeq(s, 1, f - 1))
    <3>1. ParseDeb(s) = DebRevised(Value(SubSeq(s, 1, f - 1)), Without(s, f), LastOf(Hyphen, Without(s, f)))
      BY <1>2, <2>3, <2>6, Zenon DEF ParseDeb
    <3>2. f - 1 \in 0..Len(s)
      BY <2>6
    <3>3. SubSeq(s, 1, f - 1) \in Seq(Int) /\ Without(s, f) \in Seq(Printable)
      BY <2>1, <3>2, PrefixOf, WithoutOf
    <3>4. Value(SubSeq(s, 1, f - 1)) \in Nat
      BY <2>6, <3>3, NumberIsNat
    <3> QED  BY <2>2, <3>1, <3>3, <3>4
  <2> QED  BY <2>4, <2>5, <2>6
<1> QED  BY <1>1, <1>2

\* The recursion of Split has a solution.  Front is what precedes the first c.
Front(c, t) == SubSeq(t, 1, FirstOf(c, t) - 1)
Beyond(c, t) == Without(t, FirstOf(c, t))
UpTo(m) == {t \in Seq(Int) : Len(t) <= m}

LEMMA SplitShrinks ==
    ASSUME NEW c, NEW t \in Seq(Int), FirstOf(c, t) # 0
    PROVE  /\ Front(c, t) \in Seq(Int) /\ Beyond(c, t) \in Seq(Int) /\ Len(Beyond(c, t)) < Len(t)
           /\ Len(t) > 0
<1>1. PICK f \in 0..Len(t) : f = FirstOf(c, t)
  BY PlaceOf
<1>2. f - 1 \in 0..Len(t) /\ f # 0
  BY <1>1
<1>3. SubSeq(t, 1, f - 1) \in Seq(Int) /\ Without(t, f) \in Seq(Int) /\ Len(Without(t, f)) = Len(t) - f
  BY <1>2, PrefixOf, WithoutOf
<1>4. Len(t) - f < Len(t) /\ Len(t) > 0
  BY <1>2
<1> QED  BY <1>1, <1>3, <1>4 DEF Front, Beyond

Parts(c, t, f) == IF FirstOf(c, t) = 0 THEN <<t>> ELSE <<Front(c, t)>> \o f[Beyond(c, t)]

SplitsUpTo(c, m, f) == f \in [UpTo(m) -> Seq(Seq(Int))] /\ \A t \in UpTo(m) : f[t] = Parts(c, t, f)

LEMMA PartsType ==
    ASSUME NEW c, NEW t \in Seq(Int), NEW f, FirstOf(c, t) = 0 \/ f[Beyond(c, t)] \in Seq(Seq(Int))
    PROVE  Parts(c, t, f) \in Seq(Seq(Int))
<1>1. CASE FirstOf(c, t) = 0
  <2>1. <<t>> \in Seq(Seq(Int))
    OBVIOUS
  <2> QED  BY <1>1, <2>1 DEF Parts
<1>2. CASE FirstOf(c, t) # 0
  <2>1. <<Front(c, t)>> \in Seq(Seq(Int)) /\ f[Beyond(c, t)] \in Seq(Seq(Int))
    <3>1. Front(c, t) \in Seq(Int)
      BY <1>2, SplitShrinks
    <3> QED  BY <1>2, <3>1
  <2>2. <<Front(c, t)>> \o f[Beyond(c, t)] \in Seq(Seq(Int))
    BY <2>1, ConcatProperties
  <2> QED  BY <1>2, <2>2 DEF Parts
<1> QED  BY <1>1, <1>2

LEMMA SplitLevel == ASSUME NEW c, NEW m \in Nat PROVE \E f : SplitsUpTo(c, m, f)
<1> DEFINE S == {n \in Nat : \E f : SplitsUpTo(c, n, f)}
<1>1. 0 \in S
  <2>1. PICK f : f = [t \in UpTo(0) |-> <<t>>]
    OBVIOUS
  <2>2. f \in [UpTo(0) -> Seq(Seq(Int))]
    <3>1. \A t \in UpTo(0) : <<t>> \in Seq(Seq(Int))
      BY DEF UpTo
    <3> QED  BY <2>1, <3>1
  <2>3. ASSUME NEW t \in UpTo(0) PROVE f[t] = Parts(c, t, f)
    <3>1. t \in Seq(Int) /\ Len(t) <= 0
      BY DEF UpTo
    <3>2. FirstOf(c, t) = 0
      BY <3>1, SplitShrinks
    <3> QED  BY <2>1, <3>2 DEF Parts
  <2>4. SplitsUpTo(c, 0, f)
    BY <2>2, <2>3 DEF SplitsUpTo
  <2> QED  BY <2>4
<1>2. ASSUME NEW n \in Nat, n \in S PROVE n + 1 \in S
  <2>1. PICK f : SplitsUpTo(c, n, f)
    BY <1>2
  <2>2. PICK g : g = [t \in UpTo(n + 1) |-> Parts(c, t, f)]
    OBVIOUS
  <2>3. \A t \in UpTo(n + 1) : t \in Seq(Int) /\ (FirstOf(c, t) # 0 => Beyond(c, t) \in UpTo(n))
    <3> TAKE t \in UpTo(n + 1)
    <3>1. t \in Seq(Int) /\ Len(t) <= n + 1
      BY DEF UpTo
    <3>2. ASSUME FirstOf(c, t) # 0 PROVE Beyond(c, t) \in UpTo(n)
      <4>1. Beyond(c, t) \in Seq(Int) /\ Len(Beyond(c, t)) < Len(t)
        BY <3>1, <3>2, SplitShrinks
      <4>2. Len(Beyond(c, t)) <= n
        <5>1. Len(Beyond(c, t)) \in Nat /\ Len(t) \in Nat
          BY <3>1, <4>1
        <5> QED  BY <3>1, <4>1, <5>1
      <4> QED  BY <4>1, <4>2 DEF UpTo
    <3> QED  BY <3>1, <3>2
  <2>4. \A t \in UpTo(n) : f[t] \in Seq(Seq(Int)) /\ f[t] = Parts(c, t, f)
    BY <2>1 DEF SplitsUpTo
  <2>5. \A t \in UpTo(n + 1) : Parts(c, t, f) \in Seq(Seq(Int))
    BY <2>3, <2>4, PartsType
  <2>6. g \in [UpTo(n + 1) -> Seq(Seq(Int))]
    BY <2>2, <2>5
  <2>7. ASSUME NEW t \in UpTo(n + 1) PROVE g[t] = Parts(c, t, g)
    <3>1. CASE FirstOf(c, t) = 0
      BY <2>2, <3>1 DEF Parts
    <3>2. CASE FirstOf(c, t) # 0
      <4> DEFINE b == Beyond(c, t)
      <4>1. b \in UpTo(n) /\ b \in UpTo(n + 1)
        <5>1. b \in UpTo(n)
          BY <2>3, <3>2
        <5>2. b \in Seq(Int) /\ Len(b) \in Nat /\ Len(b) <= n
          BY <5>1 DEF UpTo
        <5>3. Len(b) <= n + 1
          BY <5>2
        <5> QED  BY <5>1, <5>2, <5>3 DEF UpTo
      <4> HIDE DEF b
      <4>2. g[b] = Parts(c, b, f) /\ f[b] = Parts(c, b, f)
        BY <2>2, <2>4, <4>1
      <4>3. g[t] = <<Front(c, t)>> \o f[b]
        BY <2>2, <3>2 DEF Parts, b
      <4>4. Parts(c, t, g) = <<Front(c, t)>> \o g[b]
        BY <3>2 DEF Parts, b
      <4> QED  BY <4>2, <4>3, <4>4
    <3> QED  BY <3>1, <3>2
  <2>8. SplitsUpTo(c, n + 1, g)
    BY <2>6, <2>7 DEF SplitsUpTo
  <2> QED  BY <2>8
<1>3. Nat \subseteq S
  <2> HIDE DEF S
  <2> QED  BY <1>1, <1>2, Induction
<1> QED  BY <1>3

LEMMA SplitUnique ==
    ASSUME NEW c, NEW m \in Nat, NEW n \in Nat, NEW f, NEW g, SplitsUpTo(c, m, f), SplitsUpTo(c, n, g), m <= n
    PROVE  \A t \in UpTo(m) : f[t] = g[t]
<1> DEFINE S == {k \in Nat : k <= m => \A t \in UpTo(k) : f[t] = g[t]}
<1>1. ASSUME NEW k \in Nat, NEW t \in UpTo(k), k <= m PROVE f[t] = Parts(c, t, f) /\ g[t] = Parts(c, t, g)
  <2>1. t \in UpTo(m) /\ t \in UpTo(n)
    <3>1. t \in Seq(Int) /\ Len(t) \in Nat /\ Len(t) <= k
      BY DEF UpTo
    <3>2. Len(t) <= m /\ Len(t) <= n
      BY <1>1, <3>1
    <3> QED  BY <3>1, <3>2 DEF UpTo
  <2> QED  BY <2>1 DEF SplitsUpTo
<1>2. 0 \in S
  <2>1. ASSUME NEW t \in UpTo(0) PROVE f[t] = g[t]
    <3>1. t \in Seq(Int) /\ Len(t) <= 0 /\ 0 <= m
      BY DEF UpTo
    <3>2. FirstOf(c, t) = 0
      BY <3>1, SplitShrinks
    <3>3. f[t] = Parts(c, t, f) /\ g[t] = Parts(c, t, g)
      BY <1>1, <3>1
    <3> QED  BY <3>2, <3>3 DEF Parts
  <2> QED  BY <2>1
<1>3. ASSUME NEW k \in Nat, k \in S PROVE k + 1 \in S
  <2> SUFFICES ASSUME k + 1 <= m, NEW t \in UpTo(k + 1) PROVE f[t] = g[t]
    OBVIOUS
  <2>1. f[t] = Parts(c, t, f) /\ g[t] = Parts(c, t, g)
    <3>1. k + 1 \in Nat
      OBVIOUS
    <3> QED  BY <1>1, <3>1
  <2>2. CASE FirstOf(c, t) = 0
    BY <2>1, <2>2 DEF Parts
  <2>3. CASE FirstOf(c, t) # 0
    <3>1. t \in Seq(Int) /\ Len(t) \in Nat /\ Len(t) <= k + 1
      BY DEF UpTo
    <3>2. Beyond(c, t) \in Seq(Int) /\ Len(Beyond(c, t)) \in Nat /\ Len(Beyond(c, t)) < Len(t)
      BY <2>3, <3>1, SplitShrinks
    <3>3. Len(Beyond(c, t)) <= k
      BY <3>1, <3>2
    <3>4. Beyond(c, t) \in UpTo(k)
      BY <3>2, <3>3 DEF UpTo
    <3>5. f[Beyond(c, t)] = g[Beyond(c, t)]
      BY <1>3, <3>4
    <3> QED  BY <2>1, <2>3, <3>5 DEF Parts
  <2> QED  BY <2>2, <2>3
<1>4. Nat \subseteq S
  <2> HIDE DEF S
  <2> QED  BY <1>2, <1>3, Induction
<1>5. m \in S
  BY <1>4
<1> QED  BY <1>5

\* strings.Split answers with strings.
LEMMA SplitType ==
    ASSUME NEW c, NEW s \in Seq(Int)
    PROVE  Split(c, s) \in Seq(Seq(Int)) /\ Split(c, s) # <<>>
<1> DEFINE part(m) == CHOOSE f : SplitsUpTo(c, m, f)
           R == [t \in Seq(Int) |-> part(Len(t))[t]]
           D(f) == f = [t \in Seq(Int) |-> IF FirstOf(c, t) = 0 THEN <<t>>
                                           ELSE <<SubSeq(t, 1, FirstOf(c, t) - 1)>> \o f[Without(t, FirstOf(c, t))]]
           split == CHOOSE f : D(f)
<1>1. \A m \in Nat : SplitsUpTo(c, m, part(m))
  BY SplitLevel
<1> HIDE DEF part
<1>2. ASSUME NEW t \in Seq(Int) PROVE R[t] \in Seq(Seq(Int)) /\ R[t] = Parts(c, t, R)
  <2>1. PICK n \in Nat : n = Len(t)
    OBVIOUS
  <2>2. t \in UpTo(n) /\ SplitsUpTo(c, n, part(n)) /\ R[t] = part(n)[t]
    BY <1>1, <2>1 DEF UpTo
  <2>3. part(n)[t] \in Seq(Seq(Int)) /\ part(n)[t] = Parts(c, t, part(n))
    BY <2>2 DEF SplitsUpTo
  <2>4. CASE FirstOf(c, t) = 0
    BY <2>2, <2>3, <2>4 DEF Parts
  <2>5. CASE FirstOf(c, t) # 0
    <3> DEFINE b == Beyond(c, t)
    <3>1. b \in Seq(Int) /\ Len(b) < Len(t)
      BY <2>5, SplitShrinks
    <3>2. PICK m \in Nat : m = Len(b) /\ m <= n
      BY <2>1, <3>1
    <3>3. SplitsUpTo(c, m, part(m)) /\ b \in UpTo(m) /\ R[b] = part(m)[b]
      BY <1>1, <3>1, <3>2 DEF UpTo
    <3>4. part(m)[b] = part(n)[b]
      <4>1. m <= n /\ SplitsUpTo(c, m, part(m)) /\ SplitsUpTo(c, n, part(n))
        BY <2>2, <3>2, <3>3
      <4>2. \A u \in UpTo(m) : part(m)[u] = part(n)[u]
        BY <4>1, SplitUnique
      <4> QED  BY <3>3, <4>2
    <3>5. Parts(c, t, part(n)) = <<Front(c, t)>> \o part(n)[b] /\ Parts(c, t, R) = <<Front(c, t)>> \o R[b]
      <4> HIDE DEF R
      <4> QED  BY <2>5 DEF Parts
    <3> HIDE DEF R, b
    <3> QED  BY <2>2, <2>3, <3>3, <3>4, <3>5
  <2> QED  BY <2>4, <2>5
<1>3. D(R)
  <2>1. R = [t \in Seq(Int) |-> R[t]]
    OBVIOUS
  <2> HIDE DEF R
  <2>2. \A t \in Seq(Int) : R[t] = IF FirstOf(c, t) = 0 THEN <<t>>
                                   ELSE <<SubSeq(t, 1, FirstOf(c, t) - 1)>> \o R[Without(t, FirstOf(c, t))]
    BY <1>2 DEF Parts, Front, Beyond
  <2>3. [t \in Seq(Int) |-> R[t]] =
        [t \in Seq(Int) |-> IF FirstOf(c, t) = 0 THEN <<t>>
                            ELSE <<SubSeq(t, 1, FirstOf(c, t) - 1)>> \o R[Without(t, FirstOf(c, t))]]
    BY <2>2
  <2> QED  BY <2>1, <2>3
<1>4. D(split)
  <2> HIDE DEF D, R
  <2> QED  BY <1>3
<1>5. Split(c, s) = split[s]
  BY Zenon DEF Split
<1> HIDE DEF split
<1>6. ASSUME NEW t \in Seq(Int) PROVE split[t] = Parts(c, t, split)
  BY <1>4 DEF Parts, Front, Beyond
<1> DEFINE T == {n \in Nat : \A t \in UpTo(n) : split[t] \in Seq(Seq(Int))}
<1>7. 0 \in T
  <2>1. ASSUME NEW t \in UpTo(0) PROVE split[t] \in Seq(Seq(Int))
    <3>1. t \in Seq(Int) /\ Len(t) <= 0
      BY DEF UpTo
    <3>2. FirstOf(c, t) = 0
      BY <3>1, SplitShrinks
    <3>3. Parts(c, t, split) \in Seq(Seq(Int))
      BY <3>1, <3>2, PartsType
    <3> QED  BY <1>6, <3>1, <3>3
  <2> QED  BY <2>1
<1>8. ASSUME NEW n \in Nat, n \in T PROVE n + 1 \in T
  <2> SUFFICES ASSUME NEW t \in UpTo(n + 1) PROVE split[t] \in Seq(Seq(Int))
    OBVIOUS
  <2>1. t \in Seq(Int) /\ Len(t) \in Nat /\ Len(t) <= n + 1
    BY DEF UpTo
  <2>2. FirstOf(c, t) = 0 \/ split[Beyond(c, t)] \in Seq(Seq(Int))
    <3> SUFFICES ASSUME FirstOf(c, t) # 0 PROVE split[Beyond(c, t)] \in Seq(Seq(Int))
      OBVIOUS
    <3>1. Beyond(c, t) \in Seq(Int) /\ Len(Beyond(c, t)) \in Nat /\ Len(Beyond(c, t)) < Len(t)
      BY <2>1, SplitShrinks
    <3>2. Len(Beyond(c, t)) <= n
      BY <2>1, <3>1
    <3>3. Beyond(c, t) \in UpTo(n)
      BY <3>1, <3>2 DEF UpTo
    <3> QED  BY <1>8, <3>3
  <2>3. Parts(c, t, split) \in Seq(Seq(Int))
    BY <2>1, <2>2, PartsType
  <2> QED  BY <1>6, <2>1, <2>3
<1>9. Nat \subseteq T
  <2> HIDE DEF T
  <2> QED  BY <1>7, <1>8, Induction
<1>10. PICK n \in Nat : n = Len(s)
  OBVIOUS
<1>11. s \in UpTo(n)
  BY <1>10 DEF UpTo
<1>12. split[s] \in Seq(Seq(Int))
  BY <1>9, <1>11
<1>13. split[s] # <<>>
  <2>1. split[s] = Parts(c, s, split)
    BY <1>6
  <2>2. CASE FirstOf(c, s) = 0
    BY <2>1, <2>2 DEF Parts
  <2>3. CASE FirstOf(c, s) # 0
    <3>1. Beyond(c, s) \in Seq(Int) /\ Len(Beyond(c, s)) \in Nat
      BY <2>3, SplitShrinks
    <3>2. PICK m \in Nat : Beyond(c, s) \in UpTo(m)
      BY <3>1 DEF UpTo
    <3>3. PICK r \in Seq(Seq(Int)) : r = split[Beyond(c, s)]
      BY <1>9, <3>2
    <3>4. split[s] = <<Front(c, s)>> \o r
      BY <2>1, <2>3, <3>3 DEF Parts
    <3>5. Front(c, s) \in Seq(Int)
      BY <2>3, SplitShrinks
    <3>6. Len(<<Front(c, s)>> \o r) = 1 + Len(r)
      <4>1. <<Front(c, s)>> \in Seq(Seq(Int)) /\ Len(<<Front(c, s)>>) = 1
        BY <3>5
      <4> QED  BY <4>1, ConcatProperties
    <3>7. Len(split[s]) # 0
      BY <3>4, <3>6
    <3> QED  BY <3>7
  <2> QED  BY <2>2, <2>3
<1> QED  BY <1>5, <1>12, <1>13

LEMMA SuffixType ==
    ASSUME NEW token \in Seq(Int), ReadableSuffix(token)
    PROVE  Suffix(token) \in Suffixes
<1>1. PICK n \in 1..10 : n = Rank(Letters(token))
  <2>1. DOMAIN SuffixNames = 1..10
    BY DEF SuffixNames
  <2>2. \E i \in DOMAIN SuffixNames : SuffixNames[i] = Letters(token)
    BY DEF ReadableSuffix
  <2>3. Rank(Letters(token)) \in DOMAIN SuffixNames
    BY <2>2, Zenon DEF Rank
  <2> QED  BY <2>1, <2>3
<1>2. PICK m \in Nat \cup {-1} : m = IF AfterLetters(token) = <<>> THEN -1 ELSE Value(AfterLetters(token))
  <2>1. CASE AfterLetters(token) = <<>>
    BY <2>1
  <2>2. CASE AfterLetters(token) # <<>>
    <3>1. IsNumber(AfterLetters(token))
      BY <2>2 DEF ReadableSuffix
    <3>2. AfterLetters(token) \in Seq(Int)
      <4>1. NonDigits(token) \in 0..Len(token)
        BY NonDigitsOf
      <4> QED  BY <4>1, WithoutOf DEF AfterLetters
    <3>3. Value(AfterLetters(token)) \in Nat
      BY <3>1, <3>2, NumberIsNat
    <3> QED  BY <2>2, <3>3
  <2> QED  BY <2>1, <2>2
<1>3. Suffix(token) = <<n - 1, m>>
  BY <1>1, <1>2, Zenon DEF Suffix
<1> QED  BY <1>3 DEF Suffixes

LEMMA ApkVersionType ==
    ASSUME NEW numbers \in Seq(Seq(Int)), NEW letter \in Nat, NEW suffixes \in Seq(Suffixes), NEW revision \in Nat \cup {-1}
    PROVE  ApkVersion(numbers, letter, suffixes, revision) \subseteq ApkVersions
<1>1. CASE \A i \in DOMAIN numbers : numbers[i] # <<>> /\ Digits(numbers[i]) = Len(numbers[i])
  <2>1. PICK n \in Nat : n = Len(numbers) /\ DOMAIN numbers = 1..n
    OBVIOUS
  <2>2. ASSUME NEW i \in 1..n PROVE numbers[i] \in Numbers
    <3>0. i \in DOMAIN numbers /\ i \in 1..Len(numbers)
      BY <2>1
    <3>3. numbers[i] \in Seq(Int)
      BY <3>0, ElementOfSeq
    <3>1. numbers[i] \in Seq(Int) /\ numbers[i] # <<>> /\ Digits(numbers[i]) = Len(numbers[i])
      BY <1>1, <3>0, <3>3, Zenon
    <3>2. numbers[i] \in Seq(Digit)
      BY <3>1, AllDigits
    <3> QED  BY <3>1, <3>2 DEF Numbers
  <2>3. numbers \in Seq(Numbers)
    <3>1. numbers \in [1..n -> Numbers]
      BY <2>1, <2>2
    <3> QED  BY <3>1
  <2>4. [numbers |-> numbers, letter |-> letter, suffixes |-> suffixes, revision |-> revision] \in ApkVersions
    BY <2>3 DEF ApkVersions, Numbers, Suffixes, Digit
  <2>5. ApkVersion(numbers, letter, suffixes, revision) =
           {[numbers |-> numbers, letter |-> letter, suffixes |-> suffixes, revision |-> revision]}
    BY <1>1, Zenon DEF ApkVersion
  <2> QED  BY <2>4, <2>5, Zenon
<1>2. CASE ~\A i \in DOMAIN numbers : numbers[i] # <<>> /\ Digits(numbers[i]) = Len(numbers[i])
  <2>1. ApkVersion(numbers, letter, suffixes, revision) = {}
    BY <1>2, Zenon DEF ApkVersion
  <2> QED  BY <2>1
<1> QED  BY <1>1, <1>2

LEMMA ApkNumberedType ==
    ASSUME NEW s \in Seq(Int), NEW suffixes \in Seq(Suffixes), NEW revision \in Nat \cup {-1}
    PROVE  ApkNumbered(s, suffixes, revision) \subseteq ApkVersions
<1>1. CASE s # <<>> /\ IsAlpha(s[Len(s)])
  <2>0. Len(s) \in Nat /\ Len(s) # 0
    <3>1. Len(s) = 0 => s = <<>>
      OBVIOUS
    <3> QED  BY <1>1, <3>1, LenProperties
  <2>1. PICK m \in 0..Len(s) : m = Len(s) - 1
    <3>1. \A n \in Nat : n # 0 => n - 1 \in 0..n
      OBVIOUS
    <3> QED  BY <2>0, <3>1
  <2>2. SubSeq(s, 1, m) \in Seq(Int)
    BY PrefixOf
  <2>3. Split(Dot, SubSeq(s, 1, m)) \in Seq(Seq(Int))
    BY <2>2, SplitType
  <2>4. s[Len(s)] \in Nat
    <3>1. \A c : IsAlpha(c) => c \in Nat
      BY DEF IsAlpha
    <3> QED  BY <1>1, <3>1, Zenon
  <2>5. ApkNumbered(s, suffixes, revision) = ApkVersion(Split(Dot, SubSeq(s, 1, m)), s[Len(s)], suffixes, revision)
    BY <1>1, <2>1, Zenon DEF ApkNumbered
  <2> QED  BY <2>3, <2>4, <2>5, ApkVersionType
<1>2. CASE ~(s # <<>> /\ IsAlpha(s[Len(s)]))
  <2>1. ApkNumbered(s, suffixes, revision) = ApkVersion(Split(Dot, s), 0, suffixes, revision)
    BY <1>2, Zenon DEF ApkNumbered
  <2>2. Split(Dot, s) \in Seq(Seq(Int)) /\ 0 \in Nat
    BY SplitType
  <2> QED  BY <2>1, <2>2, ApkVersionType
<1> QED  BY <1>1, <1>2

LEMMA ApkSuffixedType ==
    ASSUME NEW parts \in Seq(Seq(Int)), parts # <<>>, NEW revision \in Nat \cup {-1}
    PROVE  ApkSuffixed(parts, revision) \subseteq ApkVersions
<1>1. CASE \E i \in 2..Len(parts) : ~ReadableSuffix(parts[i])
  <2>1. ApkSuffixed(parts, revision) = {}
    BY <1>1, Zenon DEF ApkSuffixed
  <2> QED  BY <2>1
<1>2. CASE \A i \in 2..Len(parts) : ReadableSuffix(parts[i])
  <2>0. Len(parts) \in Nat /\ Len(parts) # 0
    <3>1. Len(parts) = 0 => parts = <<>>
      OBVIOUS
    <3> QED  BY <3>1, LenProperties
  <2>1. PICK n \in Nat : n = Len(parts) - 1
    <3>1. \A m \in Nat : m # 0 => m - 1 \in Nat
      OBVIOUS
    <3> QED  BY <2>0, <3>1
  <2>2. PICK t : t = [i \in 1..n |-> Suffix(parts[i + 1])]
    OBVIOUS
  <2>3. \A i \in 1..n : Suffix(parts[i + 1]) \in Suffixes
    <3> TAKE i \in 1..n
    <3>1. i + 1 \in 2..Len(parts) /\ i + 1 \in 1..Len(parts)
      BY <2>1
    <3>2. parts[i + 1] \in Seq(Int) /\ ReadableSuffix(parts[i + 1])
      BY <1>2, <3>1
    <3> QED  BY <3>2, SuffixType
  <2>4. t \in Seq(Suffixes)
    <3>1. t \in [1..n -> Suffixes]
      BY <2>2, <2>3
    <3> QED  BY <3>1
  <2>5. Head(parts) \in Seq(Int)
    OBVIOUS
  <2>6. ApkSuffixed(parts, revision) = ApkNumbered(Head(parts), t, revision)
    BY <1>2, <2>1, <2>2, Zenon DEF ApkSuffixed
  <2> QED  BY <2>4, <2>5, <2>6, ApkNumberedType
<1> QED  BY <1>1, <1>2

\* apk.Parse answers with a version.
LEMMA ParseApkType ==
    ASSUME NEW s \in Seq(Int)
    PROVE  ParseApk(s) \subseteq ApkVersions
<1>0. PICK h \in 0..Len(s) : h = LastOf(Hyphen, s)
  BY PlaceOf
<1>1. CASE h = 0
  <2>1. ParseApk(s) = ApkSuffixed(Split(Underscore, s), -1)
    BY <1>0, <1>1, Zenon DEF ParseApk
  <2>2. Split(Underscore, s) \in Seq(Seq(Int)) /\ Split(Underscore, s) # <<>> /\ -1 \in Nat \cup {-1}
    BY SplitType
  <2> QED  BY <2>1, <2>2, ApkSuffixedType
<1>2. CASE h # 0 /\ h < Len(s) /\ s[h + 1] = 114 /\ IsNumber(Without(s, h + 1))
  <2>1. PICK k \in 0..Len(s), m \in 0..Len(s) : k = h + 1 /\ m = h - 1
    BY <1>2
  <2>2. ParseApk(s) = ApkSuffixed(Split(Underscore, SubSeq(s, 1, m)), Value(Without(s, k)))
    BY <1>0, <1>2, <2>1, Zenon DEF ParseApk
  <2>3. Without(s, k) \in Seq(Int) /\ IsNumber(Without(s, k)) /\ SubSeq(s, 1, m) \in Seq(Int)
    BY <1>2, <2>1, PrefixOf, WithoutOf
  <2>4. Value(Without(s, k)) \in Nat
    BY <2>3, NumberIsNat
  <2>5. Split(Underscore, SubSeq(s, 1, m)) \in Seq(Seq(Int)) /\ Split(Underscore, SubSeq(s, 1, m)) # <<>>
    BY <2>3, SplitType
  <2> QED  BY <2>2, <2>4, <2>5, ApkSuffixedType
<1>3. CASE h # 0 /\ ~(h < Len(s) /\ s[h + 1] = 114 /\ IsNumber(Without(s, h + 1)))
  <2>1. ParseApk(s) = {}
    BY <1>0, <1>3, Zenon DEF ParseApk
  <2> QED  BY <2>1
<1> QED  BY <1>1, <1>2, <1>3

------------------------------------------------------------------------------
\* The comparators of the registry.

LEMMA VersionType ==
    ASSUME NEW e \in Own, NEW s \in Legible(e)
    PROVE  /\ s \in Strings
           /\ e \in Dpkg => Version(e, s) \in DebVersions
           /\ e \in Apk \ Dpkg => Version(e, s) \in ApkVersions
           /\ e \notin Dpkg /\ e \notin Apk => Version(e, s) \in Pep440Versions
<1>1. s \in Strings /\ Parse(e, s) # {}
  BY DEF Legible
<1>2. Version(e, s) \in Parse(e, s)
  BY <1>1, Zenon DEF Version
<1>3. Codes(s) \in Seq(Int) /\ ParsePep440(s) \subseteq Pep440Versions
  BY <1>1, CodesAssumption
<1>4. ParseDeb(Codes(s)) \subseteq DebVersions /\ ParseApk(Codes(s)) \subseteq ApkVersions
  BY <1>3, ParseDebType, ParseApkType
<1>5. /\ e \in Dpkg => Parse(e, s) = ParseDeb(Codes(s))
      /\ e \in Apk \ Dpkg => Parse(e, s) = ParseApk(Codes(s))
      /\ e \notin Dpkg /\ e \notin Apk => Parse(e, s) = ParsePep440(s)
  BY Zenon DEF Parse
<1> QED  BY <1>1, <1>2, <1>3, <1>4, <1>5, Zenon

\* What CompareAssumption supposes of every comparator is so of the three that
\* the repository wrote: comparatorFrom over dpkg.Compare, apk.Compare and
\* pep440.Compare orders the strings that it reads.
THEOREM OwnComparatorsOrder ==
    \A e \in Own : \A u, v \in {s \in Strings : Reads(e, s)} :
        /\ Compare(e, u, v) \in {-1, 0, 1}
        /\ Compare(e, u, v) = -Compare(e, v, u)
        /\ \A w \in {s \in Strings : Reads(e, s)} :
              Compare(e, u, v) <= 0 /\ Compare(e, v, w) <= 0 => Compare(e, u, w) <= 0
<1> SUFFICES ASSUME NEW e \in Own, NEW u \in Strings, NEW v \in Strings, NEW w \in Strings,
                    Reads(e, u), Reads(e, v), Reads(e, w)
             PROVE  /\ Compare(e, u, v) \in {-1, 0, 1}
                    /\ Compare(e, u, v) = -Compare(e, v, u)
                    /\ Compare(e, u, v) <= 0 /\ Compare(e, v, w) <= 0 => Compare(e, u, w) <= 0
  OBVIOUS
<1> DEFINE x == Version(e, u)
           y == Version(e, v)
           z == Version(e, w)
<1>1. u \in Legible(e) /\ v \in Legible(e) /\ w \in Legible(e)
  BY RegistryAssumption
<1>2. /\ Compare(e, u, v) = Ordering(e, u, v) /\ Compare(e, v, u) = Ordering(e, v, u)
      /\ Compare(e, v, w) = Ordering(e, v, w) /\ Compare(e, u, w) = Ordering(e, u, w)
  BY <1>1, RegistryAssumption
<1>3. CASE e \in Dpkg
  <2>1. x \in DebVersions /\ y \in DebVersions /\ z \in DebVersions
    BY <1>1, <1>3, VersionType
  <2>2. /\ Ordering(e, u, v) = CompareDeb(x, y) /\ Ordering(e, v, u) = CompareDeb(y, x)
        /\ Ordering(e, v, w) = CompareDeb(y, z) /\ Ordering(e, u, w) = CompareDeb(x, z)
    BY <1>3, Zenon DEF Ordering
  <2> HIDE DEF x, y, z
  <2> QED  BY <1>2, <2>1, <2>2, DpkgIsAnOrder
<1>4. CASE e \in Apk \ Dpkg
  <2>1. x \in ApkVersions /\ y \in ApkVersions /\ z \in ApkVersions
    BY <1>1, <1>4, VersionType
  <2>2. /\ Ordering(e, u, v) = CompareApk(x, y) /\ Ordering(e, v, u) = CompareApk(y, x)
        /\ Ordering(e, v, w) = CompareApk(y, z) /\ Ordering(e, u, w) = CompareApk(x, z)
    BY <1>4, Zenon DEF Ordering
  <2> HIDE DEF x, y, z
  <2> QED  BY <1>2, <2>1, <2>2, ApkIsAnOrder
<1>5. CASE e \notin Dpkg /\ e \notin Apk
  <2>1. x \in Pep440Versions /\ y \in Pep440Versions /\ z \in Pep440Versions
    BY <1>1, <1>5, VersionType
  <2>2. /\ Ordering(e, u, v) = ComparePep440(x, y) /\ Ordering(e, v, u) = ComparePep440(y, x)
        /\ Ordering(e, v, w) = ComparePep440(y, z) /\ Ordering(e, u, w) = ComparePep440(x, z)
    BY <1>5, Zenon DEF Ordering
  <2> HIDE DEF x, y, z
  <2> QED  BY <1>2, <2>1, <2>2, Pep440IsAnOrder
<1> QED  BY <1>3, <1>4, <1>5

\* Of Alpine packages, no component of a version is too long for an int:
\* apk.atoi would count it as 0.
ComponentsFit(e) ==
    e \in Apk \ Dpkg =>
        \A s \in Legible(e) : \A i \in DOMAIN Version(e, s).numbers : IsInt(Version(e, s).numbers[i])

LEMMA OwnByTheRules ==
    ASSUME NEW e \in Own, ComponentsFit(e), NEW u \in Legible(e), NEW v \in Legible(e)
    PROVE  Compare(e, u, v) = Rules[e][u][v]
<1> DEFINE x == Version(e, u)
           y == Version(e, v)
           rule(s, t) == IF e \in Dpkg THEN DebReference(Version(e, s), Version(e, t))
                         ELSE IF e \in Apk THEN ApkReference(Version(e, s), Version(e, t))
                         ELSE Pep440Reference(Version(e, s), Version(e, t))
<1>1. Rules[e][u][v] = rule(u, v)
  BY Zenon DEF Rules
<1>2. Compare(e, u, v) = Ordering(e, u, v)
  BY RegistryAssumption
<1>3. CASE e \in Dpkg
  <2>1. x \in DebVersions /\ y \in DebVersions
    BY <1>3, VersionType
  <2>2. Ordering(e, u, v) = CompareDeb(x, y) /\ rule(u, v) = DebReference(x, y)
    BY <1>3, Zenon DEF Ordering
  <2> HIDE DEF x, y, rule
  <2> QED  BY <1>1, <1>2, <2>1, <2>2, DpkgByTheRules, Zenon
<1>4. CASE e \in Apk \ Dpkg
  <2>1. x \in ApkVersions /\ y \in ApkVersions
    BY <1>4, VersionType
  <2>2. Ordering(e, u, v) = CompareApk(x, y) /\ rule(u, v) = ApkReference(x, y)
    BY <1>4, Zenon DEF Ordering
  <2>3. (\A i \in DOMAIN x.numbers : IsInt(x.numbers[i])) /\ (\A i \in DOMAIN y.numbers : IsInt(y.numbers[i]))
    BY <1>4, Zenon DEF ComponentsFit
  <2> HIDE DEF x, y, rule
  <2> QED  BY <1>1, <1>2, <2>1, <2>2, <2>3, ApkByTheRules, Zenon
<1>5. CASE e \notin Dpkg /\ e \notin Apk
  <2>1. x \in Pep440Versions /\ y \in Pep440Versions
    BY <1>5, VersionType
  <2>2. Ordering(e, u, v) = ComparePep440(x, y) /\ rule(u, v) = Pep440Reference(x, y)
    BY <1>5, Zenon DEF Ordering
  <2> HIDE DEF x, y, rule
  <2> QED  BY <1>1, <1>2, <2>1, <2>2, Pep440ByTheRules, Zenon
<1> QED  BY <1>3, <1>4, <1>5

\* Where everything can be read, an interval holds a version by its answer
\* exactly when it does so by the rules.
LEMMA InByTheRules ==
    ASSUME NEW e \in Own, ComponentsFit(e), NEW v \in Strings, Reads(e, v),
           NEW r \in Published(e)
    PROVE  InRange(e, v, r) = "in" <=>
               /\ \A b \in {r.introduced, r.fixed, r.last} \ {NoBound} : Reads(e, b)
               /\ InsideByTheRules(e, v, r)
<1> DEFINE i == r.introduced
           f == r.fixed
           l == r.last
<1>1. e \in Ecosystems /\ {i, f, l} \subseteq Strings \cup {NoBound}
  BY RegistryAssumption, PublishedAssumption
<1>2. \A b \in {i, f, l} : b # NoBound /\ Reads(e, b) =>
          /\ Compare(e, v, b) \in {-1, 0, 1} /\ Compare(e, b, v) = -Compare(e, v, b)
          /\ Rules[e][v][b] = Compare(e, v, b) /\ Rules[e][b][v] = Compare(e, b, v)
  <2> SUFFICES ASSUME NEW b \in {i, f, l}, b # NoBound, Reads(e, b)
               PROVE  /\ Compare(e, v, b) \in {-1, 0, 1} /\ Compare(e, b, v) = -Compare(e, v, b)
                      /\ Rules[e][v][b] = Compare(e, v, b) /\ Rules[e][b][v] = Compare(e, b, v)
    OBVIOUS
  <2>1. b \in Strings
    BY <1>1
  <2>2. v \in Legible(e) /\ b \in Legible(e)
    BY <2>1, RegistryAssumption
  <2>3. Compare(e, v, b) \in {-1, 0, 1} /\ Compare(e, b, v) = -Compare(e, v, b)
    BY <2>1, OwnComparatorsOrder
  <2> QED  BY <2>2, <2>3, OwnByTheRules
<1>3. InRange(e, v, r) = "in" <=>
          /\ i # NoBound => Reads(e, i) /\ ~(Compare(e, v, i) < 0)
          /\ f # NoBound => Reads(e, f) /\ ~(Compare(e, v, f) >= 0)
          /\ l # NoBound => Reads(e, l) /\ ~(Compare(e, v, l) > 0)
  BY DEF InRange, Readable
<1>4. /\ i # NoBound /\ Reads(e, i) => (~(Compare(e, v, i) < 0) <=> Rules[e][i][v] <= 0)
      /\ f # NoBound /\ Reads(e, f) => (~(Compare(e, v, f) >= 0) <=> Rules[e][v][f] < 0)
      /\ l # NoBound /\ Reads(e, l) => (~(Compare(e, v, l) > 0) <=> Rules[e][v][l] <= 0)
  BY <1>2
<1> QED  BY <1>3, <1>4, Zenon DEF InsideByTheRules

\* A version is named by its string, or by one that the rules call the same.
LEMMA NamedByTheRules ==
    ASSUME NEW a, a.ecosystem \in Own, ComponentsFit(a.ecosystem), a.exact \subseteq Strings,
           NEW v \in Strings, Reads(a.ecosystem, v)
    PROVE  Named(a, v) <=> \E x \in {s \in a.exact : Reads(a.ecosystem, s)} : Rules[a.ecosystem][v][x] = 0
<1> DEFINE e == a.ecosystem
<1>1. \A x \in a.exact : Reads(e, x) => Rules[e][v][x] = Compare(e, v, x)
  <2> SUFFICES ASSUME NEW x \in a.exact, Reads(e, x) PROVE Rules[e][v][x] = Compare(e, v, x)
    OBVIOUS
  <2>1. v \in Legible(e) /\ x \in Legible(e)
    BY RegistryAssumption
  <2> QED  BY <2>1, OwnByTheRules
<1>2. Compare(e, v, v) = 0
  <2>1. Compare(e, v, v) \in {-1, 0, 1} /\ Compare(e, v, v) = -Compare(e, v, v)
    BY OwnComparatorsOrder
  <2> QED  BY <2>1
<1> QED  BY <1>1, <1>2, Zenon DEF Named, Readable

\* Of Debian, Alpine and PyPI packages, what a match concludes is what the
\* ecosystem's written rules of version order say of the advisory
\* (match.go, Affects and inRange, over dpkg.Compare, apk.Compare and
\* pep440.Compare); of Alpine's, if no component is too long for an int.
THEOREM ByTheRules == Spec => [](ComponentsFit(advisory.ecosystem) => VerdictByTheRules)
<1>1. IInv => (ComponentsFit(advisory.ecosystem) => VerdictByTheRules)
  <2> DEFINE e == advisory.ecosystem
             named == {x \in advisory.exact : Reads(e, x)}
             legible == {r \in advisory.ranges : \A b \in {r.introduced, r.fixed, r.last} \ {NoBound} : Reads(e, b)}
  <2> SUFFICES ASSUME IInv, ComponentsFit(e), e \in Own, Reads(e, installed), ~advisory.withdrawn, verdict # "none"
               PROVE  verdict = "hit" <=> \/ \E x \in named : Rules[e][installed][x] = 0
                                          \/ \E r \in legible : InsideByTheRules(e, installed, r)
    BY Zenon DEF VerdictByTheRules
  <2>1. /\ e # NoComparator /\ installed \in Strings /\ advisory.exact \subseteq Strings
        /\ \A r \in advisory.ranges : r \in Published(e)
        /\ verdict = Affects(advisory, installed)
    BY RegistryAssumption, NamesAssumption DEF IInv, TypeOK, Current
  <2>2. verdict = "hit" <=> Named(advisory, installed) \/ \E r \in advisory.ranges : InRange(e, installed, r) = "in"
    BY <2>1 DEF Affects
  <2>3. Named(advisory, installed) <=> \E x \in named : Rules[e][installed][x] = 0
    BY <2>1, NamedByTheRules
  <2>4. \A r \in advisory.ranges : InRange(e, installed, r) = "in" <=> r \in legible /\ InsideByTheRules(e, installed, r)
    BY <2>1, InByTheRules
  <2> QED  BY <2>2, <2>3, <2>4, Zenon
<1> QED  BY SpecIInv, <1>1, PTL
=============================================================================
