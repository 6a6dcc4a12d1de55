-------------------------------- MODULE Loops --------------------------------
(* Loops and what they compute, in a form that can be evaluated and reasoned about. *)
EXTENDS Integers, Sequences

\* n rounds of a loop; a round whose condition fails changes nothing any more.
Rounds(Round(_), s, n) ==
    LET after[k \in Nat] == IF k = 0 THEN s ELSE Round(after[k - 1])
    IN  after[n]

\* v[1] + ... + v[n]
SumTo(v, n) ==
    LET sum[i \in 0 .. n] == IF i = 0 THEN 0 ELSE sum[i - 1] + v[i]
    IN  sum[n]

\* The sum of the sizes of the elements of s.
SumOver(size, s) == SumTo([i \in DOMAIN s |-> size[s[i]]], Len(s))

\* The sequences of ss, one after the other.
Concat(ss) ==
    LET cat[i \in 0 .. Len(ss)] == IF i = 0 THEN <<>> ELSE cat[i - 1] \o ss[i]
    IN  cat[Len(ss)]

\* Those of the first n elements of s that are in T, in order.
Selected(s, T, n) ==
    LET sel[i \in 0 .. n] == IF i = 0 THEN <<>>
                        ELSE IF s[i] \in T THEN Append(sel[i - 1], s[i]) ELSE sel[i - 1]
    IN  sel[n]
=============================================================================
