---------------------------- MODULE VersionOrder ----------------------------
(***************************************************************************)
(* How versions are ordered: version/dpkg (Compare), version/apk (Compare) *)
(* and version/pep440 (Compare), with what their Parse functions keep of a *)
(* version.  npm, Go and crates versions go to a library of their own.     *)
(*                                                                         *)
(* A string is a sequence of character codes.  Each order has a reference: *)
(* keys of integers, read off the rules the packages' comments quote, so   *)
(* that to compare two versions is to compare their keys from the left.    *)
(***************************************************************************)
EXTENDS Integers, Sequences

CONSTANT MaxDigits     \* digits of the largest number strconv.Atoi reads

ASSUME DigitsAssumption == MaxDigits \in Nat \ {0}

\* cmpInt.
Sign(a, b) == IF a < b THEN -1 ELSE IF a > b THEN 1 ELSE 0

Shorter(s, t) == IF Len(s) < Len(t) THEN Len(s) ELSE Len(t)
Longer(s, t) == IF Len(s) < Len(t) THEN Len(t) ELSE Len(s)
At(s, i, absent) == IF i <= Len(s) THEN s[i] ELSE absent
Without(s, n) == SubSeq(s, n + 1, Len(s))

\* A chain of `if c := ...; c != 0 { return c }`.
FirstDifference(signs) ==
    LET differ == {i \in DOMAIN signs : signs[i] # 0}
    IN  IF differ = {} THEN 0 ELSE signs[CHOOSE i \in differ : \A j \in differ : i <= j]

\* strings.Compare.
Text(s, t) ==
    FirstDifference([i \in 1..Shorter(s, t) |-> Sign(s[i], t[i])] \o <<Sign(Len(s), Len(t))>>)

\* Keys are compared as if both went on with zeros for ever, and lists of keys
\* as if they went on with empty keys.
ByKey(k, l) == FirstDifference([i \in 1..Longer(k, l) |-> Sign(At(k, i, 0), At(l, i, 0))])
ByKeys(k, l) == FirstDifference([i \in 1..Longer(k, l) |-> ByKey(At(k, i, <<>>), At(l, i, <<>>))])

------------------------------------------------------------------------------
\* Characters and numbers.

Zero == 48
IsDigit(c) == c \in 48..57
IsAlpha(c) == c \in 65..90 \cup 97..122
Hyphen == 45
Dot == 46
Colon == 58
Underscore == 95
Tilde == 126

\* The number that a string of digits stands for.
Value(digits) ==
    LET value[n \in 0..Len(digits)] == IF n = 0 THEN 0 ELSE 10 * value[n - 1] + digits[n] - Zero
    IN  value[Len(digits)]

\* The length of the longest prefix of s whose characters all satisfy P.
Run(s, P(_)) == CHOOSE n \in 0..Len(s) :
                    /\ \A i \in 1..n : P(s[i])
                    /\ n < Len(s) => ~P(s[n + 1])
NonDigits(s) == Run(s, LAMBDA c : ~IsDigit(c))
Digits(s) == Run(s, IsDigit)
Zeros(s) == Run(s, LAMBDA c : c = Zero)
Significant(s) == Without(s, Zeros(s))

\* strconv.Atoi reads digits whose number is an int.
IsInt(digits) == Len(Significant(digits)) <= MaxDigits

\* strconv.Atoi on what follows a separator; a sign is left out.
IsNumber(s) == s # <<>> /\ Digits(s) = Len(s) /\ IsInt(s)

\* atoi: what is too long to be an int counts as nothing.
Atoi(digits) == IF IsInt(digits) THEN Value(digits) ELSE 0

\* strings.IndexByte, LastIndexByte: 0 when there is none.
FirstOf(c, s) == IF \E i \in DOMAIN s : s[i] = c
                 THEN CHOOSE i \in DOMAIN s : s[i] = c /\ \A j \in 1..i - 1 : s[j] # c ELSE 0
LastOf(c, s) == IF \E i \in DOMAIN s : s[i] = c
                THEN CHOOSE i \in DOMAIN s : s[i] = c /\ \A j \in i + 1 .. Len(s) : s[j] # c ELSE 0

\* strings.Split.
Split(c, s) ==
    LET split[t \in Seq(Int)] == IF FirstOf(c, t) = 0 THEN <<t>>
                                 ELSE <<SubSeq(t, 1, FirstOf(c, t) - 1)>> \o split[Without(t, FirstOf(c, t))]
    IN  split[s]

------------------------------------------------------------------------------
\* dpkg.  A Parse answers with the versions a string may be, none or one.

Printable == 33..Tilde
DebVersions == [epoch : Nat, upstream : Seq(Printable), revision : Seq(Printable)]

DebVersion(epoch, upstream, revision) ==
    IF upstream # <<>> /\ IsDigit(upstream[1])
    THEN {[epoch |-> epoch, upstream |-> upstream, revision |-> revision]} ELSE {}

\* The revision is what follows the last hyphen.
DebRevised(epoch, s, hyphen) ==
    IF hyphen = 0 THEN DebVersion(epoch, s, <<>>)
    ELSE IF hyphen = Len(s) THEN {}
    ELSE DebVersion(epoch, SubSeq(s, 1, hyphen - 1), Without(s, hyphen))

\* The epoch is what precedes the first colon.
ParseDeb(s) ==
    IF \E i \in DOMAIN s : s[i] <= 32 \/ s[i] > Tilde THEN {}
    ELSE IF FirstOf(Colon, s) = 0 THEN DebRevised(0, s, LastOf(Hyphen, s))
    ELSE IF ~IsNumber(SubSeq(s, 1, FirstOf(Colon, s) - 1)) THEN {}
    ELSE DebRevised(Value(SubSeq(s, 1, FirstOf(Colon, s) - 1)), Without(s, FirstOf(Colon, s)),
                    LastOf(Hyphen, Without(s, FirstOf(Colon, s))))

\* Mutant: the character's own order.
Ascii(c) == IF IsDigit(c) THEN 0 ELSE c

\* deb-version(7)'s order of characters.  A digit ends a run, as the end of
\* the string does.
Order(c) == IF IsDigit(c) THEN 0
            ELSE IF IsAlpha(c) THEN c
            ELSE IF c = Tilde THEN -1 ELSE c + 256

OrderAt(s, i) == IF i <= Len(s) THEN Order(s[i]) ELSE 0

\* A fragment is a run of non-digits, zeros, a run of digits and the rest.
Letters(s) == SubSeq(s, 1, NonDigits(s))
AfterLetters(s) == Without(s, NonDigits(s))
Number(s) == SubSeq(s, 1, Digits(s))
AfterNumber(s) == Without(s, Digits(s))

CompareLetters(s, t) == FirstDifference([i \in 1..Longer(s, t) |-> Sign(OrderAt(s, i), OrderAt(t, i))])
CompareDigits(s, t) == FirstDifference(<<Sign(Len(s), Len(t)), Text(s, t)>>)

\* One round of the loop on what is left of the two sides, and what each then
\* leaves for the next.
CompareRound(s, t) ==
    FirstDifference(<<CompareLetters(Letters(s), Letters(t)),
                      CompareDigits(Number(Significant(AfterLetters(s))), Number(Significant(AfterLetters(t))))>>)
Rest(s) ==
    LET rest[n \in Nat] == IF n = 0 THEN s ELSE AfterNumber(Significant(AfterLetters(rest[n - 1]))) IN rest

\* A round takes a character of every side that is not empty.
CompareFragment(s, t) ==
    FirstDifference([n \in 1..Longer(s, t) |-> CompareRound(Rest(s)[n - 1], Rest(t)[n - 1])])

\* An absent revision is an empty one.
CompareDeb(a, b) ==
    FirstDifference(<<Sign(a.epoch, b.epoch), CompareFragment(a.upstream, b.upstream),
                      CompareFragment(a.revision, b.revision)>>)

\* deb-version(7): the letters before the end of a run, the end before other
\* characters, the tilde before all; then the number the digits stand for.
\* The end of a run is 0.
DebLetter(c) == IF c = Tilde THEN -1 ELSE IF IsAlpha(c) THEN c ELSE c + 1000
DebRun(s) == [i \in 1..NonDigits(s) |-> DebLetter(s[i])] \o <<0, Value(Number(AfterLetters(s)))>>
DebKey(s) == [n \in 1..Len(s) |-> DebRun(Rest(s)[n - 1])]

DebReference(a, b) ==
    FirstDifference(<<Sign(a.epoch, b.epoch), ByKeys(DebKey(a.upstream), DebKey(b.upstream)),
                      ByKeys(DebKey(a.revision), DebKey(b.revision))>>)

------------------------------------------------------------------------------
\* apk.  A letter is 0 when there is none, a suffix is <<rank, number>> with -1
\* for no number, and so is a revision.

ApkVersions == [numbers : Seq(Seq(48..57) \ {<<>>}), letter : Nat, suffixes : Seq((0..9) \X (Nat \cup {-1})),
                revision : Nat \cup {-1}]

NoSuffix == <<4, -1>>

\* suffixOrder: alpha, beta, pre, rc, none, cvs, svn, git, hg, p.
SuffixNames == <<<<97, 108, 112, 104, 97>>, <<98, 101, 116, 97>>, <<112, 114, 101>>, <<114, 99>>, <<>>,
                 <<99, 118, 115>>, <<115, 118, 110>>, <<103, 105, 116>>, <<104, 103>>, <<112>>>>

\* suffixRank, and the number after the name.
Rank(name) == CHOOSE i \in DOMAIN SuffixNames : SuffixNames[i] = name
ReadableSuffix(token) ==
    /\ Letters(token) # <<>> /\ \E i \in DOMAIN SuffixNames : SuffixNames[i] = Letters(token)
    /\ AfterLetters(token) = <<>> \/ IsNumber(AfterLetters(token))
Suffix(token) ==
    <<Rank(Letters(token)) - 1, IF AfterLetters(token) = <<>> THEN -1 ELSE Value(AfterLetters(token))>>

ApkVersion(numbers, letter, suffixes, revision) ==
    IF \A i \in DOMAIN numbers : numbers[i] # <<>> /\ Digits(numbers[i]) = Len(numbers[i])
    THEN {[numbers |-> numbers, letter |-> letter, suffixes |-> suffixes, revision |-> revision]} ELSE {}

\* The numbers, and one letter after them.
ApkNumbered(s, suffixes, revision) ==
    IF s # <<>> /\ IsAlpha(s[Len(s)])
    THEN ApkVersion(Split(Dot, SubSeq(s, 1, Len(s) - 1)), s[Len(s)], suffixes, revision)
    ELSE ApkVersion(Split(Dot, s), 0, suffixes, revision)

\* The suffixes are what follows the underscores.
ApkSuffixed(parts, revision) ==
    IF \E i \in 2..Len(parts) : ~ReadableSuffix(parts[i]) THEN {}
    ELSE ApkNumbered(Head(parts), [i \in 1..Len(parts) - 1 |-> Suffix(parts[i + 1])], revision)

\* -rN is the revision.
ParseApk(s) ==
    IF LastOf(Hyphen, s) = 0 THEN ApkSuffixed(Split(Underscore, s), -1)
    ELSE IF LastOf(Hyphen, s) < Len(s) /\ s[LastOf(Hyphen, s) + 1] = 114 /\ IsNumber(Without(s, LastOf(Hyphen, s) + 1))
    THEN ApkSuffixed(Split(Underscore, SubSeq(s, 1, LastOf(Hyphen, s) - 1)), Value(Without(s, LastOf(Hyphen, s) + 1)))
    ELSE {}

\* Mutant: every component is a number.
Numerically(s, t, i) == Sign(Atoi(s), Atoi(t))

\* After the first, a component with a leading zero is a fraction.
Component(s, t, i) ==
    IF i > 1 /\ Zero \in {s[1], t[1]} THEN Text(s, t) ELSE Sign(Atoi(s), Atoi(t))

CompareNumbers(a, b) ==
    FirstDifference([i \in 1..Shorter(a, b) |-> Component(a[i], b[i], i)] \o <<Sign(Len(a), Len(b))>>)

CompareSuffixes(a, b) ==
    FirstDifference([i \in 1..Longer(a, b) |-> Text(At(a, i, NoSuffix), At(b, i, NoSuffix))])

CompareApk(a, b) ==
    FirstDifference(<<CompareNumbers(a.numbers, b.numbers), Sign(a.letter, b.letter),
                      CompareSuffixes(a.suffixes, b.suffixes), Sign(a.revision, b.revision)>>)

\* 1.0 < 1.0.0, 1.01 < 1.1, 1.0_p < 1.0_p0, 1.0_rc < 1.0 < 1.0_cvs.
ApkNumbers(numbers) ==
    [i \in DOMAIN numbers |-> IF i > 1 /\ numbers[i][1] = Zero THEN <<1>> \o numbers[i]
                              ELSE <<2, Value(numbers[i])>>]
ApkSuffixes(suffixes) == [i \in DOMAIN suffixes |-> <<suffixes[i][1] - 4, suffixes[i][2] + 1>>]

ApkReference(a, b) ==
    FirstDifference(<<ByKeys(ApkNumbers(a.numbers), ApkNumbers(b.numbers)), Sign(a.letter, b.letter),
                      ByKeys(ApkSuffixes(a.suffixes), ApkSuffixes(b.suffixes)), Sign(a.revision, b.revision)>>)

------------------------------------------------------------------------------
\* pep440.  pre is <<kind, number>>, post and dev are <<number>>, each <<>> when
\* absent; the value of a local segment that is no number is its place among
\* the strings.

Pep440Versions ==
    [epoch : Nat, release : Seq(Nat), pre : {<<>>} \cup ((0..2) \X Nat), post : {s \in Seq(Nat) : Len(s) <= 1},
     dev : {s \in Seq(Nat) : Len(s) <= 1}, local : Seq([numeric : BOOLEAN, value : Nat])]

CompareRelease(a, b) == ByKey(a, b)

PreRank(v) == IF v.pre # <<>> THEN 0
              ELSE IF v.post = <<>> /\ v.dev # <<>> THEN -1 ELSE 1

ComparePre(a, b) ==
    FirstDifference(<<Sign(PreRank(a), PreRank(b)), Text(a.pre, b.pre)>>)

\* Mutant: whatever is absent comes first.
AbsentFirst(a, b, absentIsGreater) == Text(a, b)

\* cmpPresence.
ComparePresence(a, b, absentIsGreater) ==
    IF absentIsGreater /\ Len(a) # Len(b) THEN Sign(Len(b), Len(a)) ELSE Text(a, b)

Segment(x, y) == IF x.numeric = y.numeric THEN Sign(x.value, y.value)
                 ELSE IF x.numeric THEN 1 ELSE -1

CompareLocal(a, b) ==
    FirstDifference([i \in 1..Shorter(a, b) |-> Segment(a[i], b[i])] \o <<Sign(Len(a), Len(b))>>)

ComparePep440(a, b) ==
    FirstDifference(<<Sign(a.epoch, b.epoch), CompareRelease(a.release, b.release), ComparePre(a, b),
                      ComparePresence(a.post, b.post, FALSE), ComparePresence(a.dev, b.dev, TRUE),
                      CompareLocal(a.local, b.local)>>)

\* PEP 440: "Within a numeric release the following suffixes are permitted and
\* MUST be ordered as shown: .devN, aN, bN, rcN, <no suffix>, .postN", and
\* within each of these .devN again comes before <no suffix>.
Pep440Stage(v) ==
    (IF v.pre # <<>> THEN <<1 + v.pre[1], v.pre[2]>>
     ELSE IF v.post = <<>> /\ v.dev # <<>> THEN <<0, 0>> ELSE <<4, 0>>)
    \o <<At(v.post, 1, -1), 1 - Len(v.dev), At(v.dev, 1, 0)>>

Pep440Local(local) == [i \in DOMAIN local |-> <<IF local[i].numeric THEN 2 ELSE 1, local[i].value>>]

Pep440Reference(a, b) ==
    FirstDifference(<<Sign(a.epoch, b.epoch), ByKey(a.release, b.release),
                      ByKey(Pep440Stage(a), Pep440Stage(b)),
                      ByKeys(Pep440Local(a.local), Pep440Local(b.local))>>)
=============================================================================
