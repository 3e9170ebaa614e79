----------------------------- MODULE MCMatcher -----------------------------
\* The matcher with its own three comparators, on version strings that are
\* hard to order.
EXTENDS Comparators, TLC

C == [c \in {"0", "1", "9"} |-> IF c = "0" THEN 48 ELSE IF c = "1" THEN 49 ELSE 57]
     @@ [c \in {"+", "-", ".", ":", "_", "~"} |->
            CASE c = "+" -> 43 [] c = "-" -> 45 [] c = "." -> 46 [] c = ":" -> 58 [] c = "_" -> 95 [] c = "~" -> 126]
     @@ [c \in {"a", "c", "d", "e", "r", "v"} |->
            CASE c = "a" -> 97 [] c = "c" -> 99 [] c = "d" -> 100 [] c = "e" -> 101 [] c = "r" -> 114 [] c = "v" -> 118]

Spelled ==
    "1.0" :> <<"1", ".", "0">>            @@ "1.0.0" :> <<"1", ".", "0", ".", "0">>
 @@ "1.1" :> <<"1", ".", "1">>            @@ "1.01" :> <<"1", ".", "0", "1">>
 @@ "1.10" :> <<"1", ".", "1", "0">>      @@ "1.9" :> <<"1", ".", "9">>
 @@ "1.0a" :> <<"1", ".", "0", "a">>      @@ "1.0~rc1" :> <<"1", ".", "0", "~", "r", "c", "1">>
 @@ "1.0_rc1" :> <<"1", ".", "0", "_", "r", "c", "1">>
 @@ "1.0-r1" :> <<"1", ".", "0", "-", "r", "1">>
 @@ "1.0.dev1" :> <<"1", ".", "0", ".", "d", "e", "v", "1">>
 @@ "1.0a.dev1" :> <<"1", ".", "0", "a", ".", "d", "e", "v", "1">>
 @@ "1.0+1" :> <<"1", ".", "0", "+", "1">>
 @@ "1:0.9" :> <<"1", ":", "0", ".", "9">> @@ "r1" :> <<"r", "1">>

MCStrings == DOMAIN Spelled
MCCodes(s) == [i \in DOMAIN Spelled[s] |-> C[Spelled[s][i]]]

\* What pep440.Parse makes of them.
Final(release) == [epoch |-> 0, release |-> release, pre |-> <<>>, post |-> <<>>, dev |-> <<>>, local |-> <<>>]
Pep440 ==
    "1.0" :> Final(<<1, 0>>)              @@ "1.0.0" :> Final(<<1, 0, 0>>)
 @@ "1.1" :> Final(<<1, 1>>)              @@ "1.01" :> Final(<<1, 1>>)
 @@ "1.10" :> Final(<<1, 10>>)            @@ "1.9" :> Final(<<1, 9>>)
 @@ "1.0a" :> [Final(<<1, 0>>) EXCEPT !.pre = <<0, 0>>]
 @@ "1.0_rc1" :> [Final(<<1, 0>>) EXCEPT !.pre = <<2, 1>>]
 @@ "1.0-r1" :> [Final(<<1, 0>>) EXCEPT !.post = <<1>>]
 @@ "1.0.dev1" :> [Final(<<1, 0>>) EXCEPT !.dev = <<1>>]
 @@ "1.0a.dev1" :> [Final(<<1, 0>>) EXCEPT !.pre = <<0, 0>>, !.dev = <<1>>]
 @@ "1.0+1" :> [Final(<<1, 0>>) EXCEPT !.local = <<[numeric |-> TRUE, value |-> 1]>>]

MCEcosystems == {"Debian", "Alpine", "PyPI"}
MCPep440(s) == IF s \in DOMAIN Pep440 THEN {Pep440[s]} ELSE {}

Read == [e \in MCEcosystems |-> Legible(e)]
Ordered == [e \in MCEcosystems |-> [u \in Read[e] |-> [v \in Read[e] |-> Ordering(e, u, v)]]]
Sorted == [v \in MCStrings |-> {u \in MCStrings : Text(MCCodes(u), MCCodes(v)) < 0}]

MCReads(e, s) == s \in Read[e]
MCCompare(e, u, v) == Ordered[e][u][v]
MCEarlier(u, v) == u \in Sorted[v]

MCPublished(e) ==
    LET bounds == IF e = "Alpine" THEN {"1.0_rc1", "1.01", "1.9", "1.10"}
                  ELSE IF e = "PyPI" THEN {"1.0.dev1", "1.0a", "1.9", "1.10", "r1"}
                  ELSE {"1.0~rc1", "1.0a", "1.9", "1.10"}
    IN  {r \in [introduced : bounds \cup {""}, fixed : bounds \cup {""}, last : bounds \cup {""}] :
            r.fixed = "" \/ r.last = ""}

=============================================================================
