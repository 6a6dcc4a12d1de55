----------------------------- MODULE DataTheorems -----------------------------
(***************************************************************************)
(* Facts about numbers and recursive functions that the proofs of several  *)
(* components need.  Induction takes the form of a least counterexample,   *)
(* an element of a set of numbers.                                         *)
(***************************************************************************)
EXTENDS Integers, Sequences, Loops, WellFoundedInduction, TLAPS

\* Most leaves are first-order: Zenon tries each one for two seconds before SMT does.
USE ZenonT(2), SMTT(20)

\* Less-than on the natural numbers is a well-founded relation.
LEMMA NatWellFounded ==
    \E R : IsWellFoundedOn(R, Nat) /\ \A x, y \in Nat : y < x => <<y, x>> \in R
<1>1. \A x, y \in Nat : y < x => <<y, x>> \in OpToRel(<, Nat)
  BY DEF OpToRel
<1>. QED  BY <1>1, NatLessThanWellFounded, Zenon

\* A set of natural numbers has a least element.
LEMMA LeastNat ==
    ASSUME NEW T, T \subseteq Nat, T # {}
    PROVE  \E x \in T : \A y \in T : x <= y
<1>1. PICK R : IsWellFoundedOn(R, Nat) /\ \A x, y \in Nat : y < x => <<y, x>> \in R
  BY NatWellFounded
<1>2. PICK x \in T : \A y \in T : ~ (<<y, x>> \in R)
  BY <1>1, WFMin
<1>3. \A y \in T : x \in Nat /\ y \in Nat /\ ~ (y < x)
  BY <1>1, <1>2
<1>4. \A y \in T : x <= y
  BY <1>3
<1>. QED  BY <1>4

\* Induction: a set of natural numbers with 0 and every successor has them all.
LEMMA NatAll ==
    ASSUME NEW T, 0 \in T, \A n \in Nat : n \in T => n + 1 \in T
    PROVE  Nat \subseteq T
<1>. SUFFICES ASSUME Nat \ T # {} PROVE FALSE
  OBVIOUS
<1>1. PICK x \in Nat \ T : \A y \in Nat \ T : x <= y
  BY LeastNat
<1>2. x # 0 /\ x - 1 \in Nat /\ x - 1 \in T
  BY <1>1
<1>. QED  BY <1>1, <1>2

\* The values of F iterated from a.
IsIteration(g, S, F, a) == g \in [Nat -> S] /\ g[0] = a /\ \A n \in Nat : g[n + 1] = F[g[n]]

\* A function of its own last value can be iterated from any start.
LEMMA IterationExists ==
    ASSUME NEW S, NEW F \in [S -> S], NEW a \in S
    PROVE  \E g : IsIteration(g, S, F, a)
<1>. DEFINE Good(n, g) == g \in [0 .. n -> S] /\ g[0] = a /\ \A i \in 0 .. n - 1 : g[i + 1] = F[g[i]]
            T == {n \in Nat : \E g : Good(n, g)}
<1>1. 0 \in T
  <2>. DEFINE g == [i \in 0 .. 0 |-> a]
  <2>1. Good(0, g)
    OBVIOUS
  <2>. QED  BY <2>1
<1>2. ASSUME NEW n \in Nat, n \in T PROVE n + 1 \in T
  <2>1. PICK g : Good(n, g)
    BY <1>2
  <2>. DEFINE h == [i \in 0 .. n + 1 |-> IF i = n + 1 THEN F[g[n]] ELSE g[i]]
  <2>2. g[n] \in S /\ F[g[n]] \in S
    BY <2>1
  <2>3. h \in [0 .. n + 1 -> S] /\ h[0] = a
    BY <2>1, <2>2
  <2>4. ASSUME NEW i \in 0 .. n PROVE h[i + 1] = F[h[i]]
    <3>1. CASE i = n
      BY <3>1
    <3>2. CASE i # n
      BY <2>1, <3>2
    <3>. QED  BY <3>1, <3>2
  <2>5. Good(n + 1, h)
    <3>1. n + 1 - 1 = n
      OBVIOUS
    <3>. HIDE DEF h
    <3>. QED  BY <2>3, <2>4, <3>1
  <2>. HIDE DEF h
  <2>. QED  BY <2>5
<1>. HIDE DEF T
<1>3. Nat \subseteq T
  BY <1>1, <1>2, NatAll
<1>4. PICK f : \A n \in Nat : /\ f[n] \in [0 .. n -> S] /\ f[n][0] = a
                             /\ \A i \in 0 .. n - 1 : f[n][i + 1] = F[f[n][i]]
  <2>. DEFINE f == [n \in Nat |-> CHOOSE g : Good(n, g)]
  <2>1. ASSUME NEW n \in Nat PROVE Good(n, f[n])
    <3>1. \E g : Good(n, g)
      BY <1>3 DEF T
    <3>. QED  BY <3>1, Zenon
  <2>. HIDE DEF f
  <2>2. \A n \in Nat : Good(n, f[n])
    BY <2>1
  <2>. QED  BY <2>2, ZenonT(20)
<1>5. ASSUME NEW n \in Nat, NEW m \in Nat, n <= m PROVE \A i \in 0 .. n : f[n][i] = f[m][i]
  <2>. DEFINE U == {i \in Nat : i <= n => f[n][i] = f[m][i]}
  <2>1. 0 \in U
    BY <1>4
  <2>2. ASSUME NEW i \in Nat, i \in U PROVE i + 1 \in U
    <3>. SUFFICES ASSUME i + 1 <= n PROVE f[n][i + 1] = f[m][i + 1]
      OBVIOUS
    <3>1. f[n][i] = f[m][i]
      BY <2>2
    <3>2. f[n][i + 1] = F[f[n][i]]
      BY <1>4
    <3>3. f[m][i + 1] = F[f[m][i]]
      BY <1>4, <1>5
    <3>. QED  BY <3>1, <3>2, <3>3
  <2>. HIDE DEF U
  <2>3. Nat \subseteq U
    BY <2>1, <2>2, NatAll
  <2>. QED  BY <2>3 DEF U
<1>. DEFINE g == [n \in Nat |-> f[n][n]]
<1>6. g \in [Nat -> S] /\ g[0] = a
  <2>1. \A n \in Nat : n \in 0 .. n /\ f[n][n] \in S
    BY <1>4
  <2>. QED  BY <1>4, <2>1
<1>7. ASSUME NEW n \in Nat PROVE g[n + 1] = F[g[n]]
  <2>0. n + 1 \in Nat /\ n \in 0 .. n /\ n \in 0 .. (n + 1) - 1 /\ n <= n + 1
    OBVIOUS
  <2>1. f[n + 1][n + 1] = F[f[n + 1][n]]
    BY <1>4, <2>0, Zenon
  <2>2. f[n + 1][n] = f[n][n]
    BY <1>5, <2>0, Zenon
  <2>. QED  BY <2>1, <2>2
<1>8. IsIteration(g, S, F, a)
  BY <1>6, <1>7 DEF IsIteration
<1>. QED  BY <1>8

\* What holds of the start and is kept by every round holds after every number of rounds.
LEMMA IterationInvariant ==
    ASSUME NEW T, NEW g, g[0] \in T[0], \A n \in Nat : g[n] \in T[n] => g[n + 1] \in T[n + 1]
    PROVE  \A n \in Nat : g[n] \in T[n]
<1>. DEFINE U == {n \in Nat : g[n] \in T[n]}
<1>1. 0 \in U /\ \A n \in Nat : n \in U => n + 1 \in U
  OBVIOUS
<1>. HIDE DEF U
<1>2. Nat \subseteq U
  BY <1>1, NatAll
<1>. QED  BY <1>2 DEF U

\* f holds what is had after each of n rounds, round i leading from x to G[i][x].
IsFold(f, G, a, S, n) ==
    /\ f \in [0 .. n -> S]
    /\ f[0] = a
    /\ \A i \in 1 .. n : f[i] = G[i][f[i - 1]]

\* Rounds that are numbered can be iterated.
LEMMA FoldExists ==
    ASSUME NEW n \in Nat, NEW S, NEW a \in S, NEW G, \A i \in 1 .. n, x \in S : G[i][x] \in S
    PROVE  \E f : IsFold(f, G, a, S, n)
<1>. DEFINE P == Nat \X S
            H(p) == IF p[1] + 1 <= n THEN G[p[1] + 1][p[2]] ELSE p[2]
            F == [p \in P |-> <<p[1] + 1, H(p)>>]
<1>1. ASSUME NEW p \in P PROVE <<p[1] + 1, H(p)>> \in P
  <2>1. p[1] \in Nat /\ p[2] \in S
    OBVIOUS
  <2>2. p[1] + 1 <= n => p[1] + 1 \in 1 .. n
    BY <2>1
  <2>3. H(p) \in S
    BY <2>1, <2>2, Zenon
  <2>4. p[1] + 1 \in Nat
    BY <2>1
  <2>. HIDE DEF H
  <2>. QED  BY <2>3, <2>4
<1>. HIDE DEF H
<1>2. F \in [P -> P] /\ <<0, a>> \in P
  <2>1. <<0, a>> \in P
    OBVIOUS
  <2>. HIDE DEF P
  <2>. QED  BY <1>1, <2>1
<1>3. PICK g : g \in [Nat -> P] /\ g[0] = <<0, a>> /\ \A i \in Nat : g[i + 1] = F[g[i]]
  <2>. HIDE DEF P, F
  <2>1. PICK g : IsIteration(g, P, F, <<0, a>>)
    BY <1>2, IterationExists
  <2>. QED  BY <2>1 DEF IsIteration
<1>4. ASSUME NEW i \in Nat
      PROVE  g[i] \in P /\ g[i + 1][1] = g[i][1] + 1 /\ g[i + 1][2] = H(g[i])
  <2>1. \A p \in P : F[p] = <<p[1] + 1, H(p)>>
    OBVIOUS
  <2>. HIDE DEF P, F
  <2>2. g[i] \in P /\ g[i + 1] = <<g[i][1] + 1, H(g[i])>>
    BY <1>3, <2>1
  <2>. QED  BY <2>2
<1>5. \A i \in Nat : g[i][1] = i
  <2>. DEFINE U == {i \in Nat : g[i][1] = i}
  <2>1. 0 \in U
    BY <1>3
  <2>2. ASSUME NEW i \in Nat, i \in U PROVE i + 1 \in U
    <3>1. g[i][1] = i
      BY <2>2
    <3>2. g[i + 1][1] = i + 1
      BY <1>4, <3>1
    <3>. QED  BY <3>2
  <2>. HIDE DEF U
  <2>3. Nat \subseteq U
    BY <2>1, <2>2, NatAll
  <2>. QED  BY <2>3 DEF U
<1>. DEFINE f == [i \in 0 .. n |-> g[i][2]]
<1>6. f \in [0 .. n -> S] /\ f[0] = a
  <2>1. \A i \in 0 .. n : g[i][2] \in S
    BY <1>4
  <2>. QED  BY <1>3, <2>1
<1>7. ASSUME NEW i \in 1 .. n PROVE f[i] = G[i][f[i - 1]]
  <2>1. i - 1 \in Nat /\ (i - 1) + 1 = i /\ i - 1 \in 0 .. n /\ i \in 0 .. n /\ i <= n
    OBVIOUS
  <2>2. g[i][2] = H(g[i - 1]) /\ g[i - 1][1] = i - 1
    BY <1>4, <1>5, <2>1
  <2>3. H(g[i - 1]) = G[i][g[i - 1][2]]
    BY <2>1, <2>2 DEF H
  <2>. QED  BY <2>1, <2>2, <2>3
<1>. HIDE DEF f
<1>. QED  BY <1>6, <1>7 DEF IsFold

-----------------------------------------------------------------------------
(* Sums *)

\* The partial sums of v up to n.
IsSum(f, v, n) ==
    /\ f \in [0 .. n -> Int]
    /\ f[0] = 0
    /\ \A i \in 1 .. n : f[i] = f[i - 1] + v[i]

\* SumTo is the last partial sum.
LEMMA SumUnfolds ==
    ASSUME NEW n \in Nat, NEW v, \A i \in 1 .. n : v[i] \in Int
    PROVE  \E f : IsSum(f, v, n) /\ SumTo(v, n) = f[n]
<1>. DEFINE S == Nat \X Int
            w == [i \in Nat |-> IF i \in 1 .. n THEN v[i] ELSE 0]
            F == [s \in S |-> <<s[1] + 1, s[2] + w[s[1] + 1]>>]
            Body(f) == f = [i \in 0 .. n |-> IF i = 0 THEN 0 ELSE f[i - 1] + v[i]]
<1>1. \A i \in Nat : w[i] \in Int
  OBVIOUS
<1>2. \A i \in 1 .. n : w[i] = v[i]
  OBVIOUS
<1>. HIDE DEF w
<1>3. F \in [S -> S] /\ <<0, 0>> \in S
  BY <1>1
<1>4. PICK g : g \in [Nat -> S] /\ g[0] = <<0, 0>> /\ \A i \in Nat : g[i + 1] = F[g[i]]
  <2>. HIDE DEF S, F
  <2>1. PICK g : IsIteration(g, S, F, <<0, 0>>)
    BY <1>3, IterationExists
  <2>. QED  BY <2>1 DEF IsIteration
<1>5. \A i \in Nat : /\ g[i] \in S
                      /\ g[i + 1][1] = g[i][1] + 1
                      /\ g[i + 1][2] = g[i][2] + w[g[i][1] + 1]
  <2>1. \A s \in S : F[s] = <<s[1] + 1, s[2] + w[s[1] + 1]>>
    OBVIOUS
  <2>. HIDE DEF S, F
  <2>. SUFFICES ASSUME NEW i \in Nat
                PROVE  /\ g[i] \in S
                       /\ g[i + 1][1] = g[i][1] + 1
                       /\ g[i + 1][2] = g[i][2] + w[g[i][1] + 1]
    OBVIOUS
  <2>2. g[i] \in S /\ g[i + 1] = <<g[i][1] + 1, g[i][2] + w[g[i][1] + 1]>>
    BY <1>4, <2>1
  <2>. QED  BY <2>2
<1>6. \A i \in Nat : g[i][1] = i /\ g[i][2] \in Int
  <2>. DEFINE T == {i \in Nat : g[i][1] = i}
  <2>1. 0 \in T
    BY <1>4
  <2>2. ASSUME NEW i \in Nat, i \in T PROVE i + 1 \in T
    BY <1>5, <2>2
  <2>. HIDE DEF T
  <2>3. Nat \subseteq T
    BY <2>1, <2>2, NatAll
  <2>. QED  BY <1>5, <2>3 DEF T
<1>7. \A i \in Nat : g[i + 1][2] = g[i][2] + w[i + 1]
  BY <1>5, <1>6
<1>. DEFINE e == [i \in 0 .. n |-> g[i][2]]
<1>8. Body(e)
  <2>1. ASSUME NEW i \in 0 .. n PROVE e[i] = IF i = 0 THEN 0 ELSE e[i - 1] + v[i]
    <3>1. CASE i = 0
      BY <1>4, <3>1
    <3>2. CASE i # 0
      <4>1. i - 1 \in Nat /\ (i - 1) + 1 = i /\ i \in 1 .. n /\ i - 1 \in 0 .. n
        BY <3>2
      <4>2. g[i][2] = g[i - 1][2] + w[i]
        BY <1>7, <4>1
      <4>. QED  BY <1>2, <3>2, <4>1, <4>2
    <3>. QED  BY <3>1, <3>2
  <2>2. e = [i \in 0 .. n |-> e[i]]
    OBVIOUS
  <2>. HIDE DEF e
  <2>. QED  BY <2>1, <2>2
<1>. HIDE DEF e
<1>9. PICK f : Body(f) /\ SumTo(v, n) = f[n]
  BY <1>8, Zenon DEF SumTo
<1>10. \A i \in 0 .. n : f[i] = IF i = 0 THEN 0 ELSE f[i - 1] + v[i]
  BY <1>9, Zenon
<1>11. DOMAIN f = 0 .. n /\ f = [i \in 0 .. n |-> f[i]]
  BY <1>9, Zenon
<1>12. f[0] = 0 /\ \A i \in 1 .. n : f[i] = f[i - 1] + v[i]
  BY <1>10
<1>13. \A i \in 0 .. n : f[i] \in Int
  <2>. DEFINE T == {i \in Nat : i <= n => f[i] \in Int}
  <2>1. 0 \in T
    BY <1>12
  <2>2. ASSUME NEW i \in Nat, i \in T PROVE i + 1 \in T
    <3>. SUFFICES ASSUME i + 1 <= n PROVE f[i + 1] \in Int
      OBVIOUS
    <3>1. i + 1 \in 1 .. n /\ (i + 1) - 1 = i /\ f[i] \in Int
      BY <2>2
    <3>2. f[i + 1] = f[i] + v[i + 1]
      BY <1>12, <3>1
    <3>. QED  BY <3>1, <3>2
  <2>. HIDE DEF T
  <2>3. Nat \subseteq T
    BY <2>1, <2>2, NatAll
  <2>. QED  BY <2>3 DEF T
<1>14. IsSum(f, v, n)
  BY <1>11, <1>12, <1>13 DEF IsSum
<1>. QED  BY <1>9, <1>14

\* Sums of the same numbers agree.
LEMMA SumsAgree ==
    ASSUME NEW n \in Nat, NEW m \in Nat, NEW k \in Nat, k <= n, k <= m,
           NEW v, NEW w, \A i \in 1 .. k : v[i] = w[i],
           NEW f, NEW g, IsSum(f, v, n), IsSum(g, w, m)
    PROVE  f[k] = g[k]
<1>. DEFINE T == {i \in Nat : i <= k => f[i] = g[i]}
<1>1. 0 \in T
  BY DEF IsSum
<1>2. ASSUME NEW i \in Nat, i \in T PROVE i + 1 \in T
  <2>. SUFFICES ASSUME i + 1 <= k PROVE f[i + 1] = g[i + 1]
    OBVIOUS
  <2>1. i + 1 \in 1 .. n /\ i + 1 \in 1 .. m /\ i + 1 \in 1 .. k /\ (i + 1) - 1 = i /\ f[i] = g[i]
    BY <1>2
  <2>2. f[i + 1] = f[i] + v[i + 1] /\ g[i + 1] = g[i] + w[i + 1]
    BY <2>1 DEF IsSum
  <2>. QED  BY <2>1, <2>2
<1>. HIDE DEF T
<1>3. Nat \subseteq T
  BY <1>1, <1>2, NatAll
<1>. QED  BY <1>3 DEF T

\* A sum is an integer, and depends on its summands only.
LEMMA SumSame ==
    ASSUME NEW n \in Nat, NEW v, NEW w, \A i \in 1 .. n : v[i] \in Int /\ w[i] = v[i]
    PROVE  SumTo(v, n) \in Int /\ SumTo(v, n) = SumTo(w, n)
<1>1. PICK f : IsSum(f, v, n) /\ SumTo(v, n) = f[n]
  BY SumUnfolds
<1>2. PICK g : IsSum(g, w, n) /\ SumTo(w, n) = g[n]
  BY SumUnfolds
<1>3. n \in 0 .. n /\ n <= n
  OBVIOUS
<1>4. f[n] \in Int
  BY <1>1, <1>3 DEF IsSum
<1>5. f[n] = g[n]
  BY <1>1, <1>2, <1>3, SumsAgree
<1>. QED  BY <1>1, <1>2, <1>4, <1>5

\* One more summand.
LEMMA SumNext ==
    ASSUME NEW n \in Nat, NEW v, \A i \in 1 .. n + 1 : v[i] \in Int
    PROVE  SumTo(v, n + 1) = SumTo(v, n) + v[n + 1]
<1>1. PICK f : IsSum(f, v, n) /\ SumTo(v, n) = f[n]
  BY SumUnfolds
<1>2. n + 1 \in Nat /\ n <= n /\ n <= n + 1 /\ n + 1 \in 1 .. n + 1 /\ (n + 1) - 1 = n
  OBVIOUS
<1>3. PICK g : IsSum(g, v, n + 1) /\ SumTo(v, n + 1) = g[n + 1]
  BY <1>2, SumUnfolds
<1>4. f[n] = g[n]
  BY <1>1, <1>2, <1>3, SumsAgree
<1>5. g[n + 1] = g[n] + v[n + 1]
  BY <1>2, <1>3 DEF IsSum
<1>. QED  BY <1>1, <1>3, <1>4, <1>5

\* The empty sum.
LEMMA SumEmpty == \A v : SumTo(v, 0) = 0
<1>. SUFFICES ASSUME NEW v PROVE SumTo(v, 0) = 0
  OBVIOUS
<1>1. PICK f : IsSum(f, v, 0) /\ SumTo(v, 0) = f[0]
  BY SumUnfolds
<1>. QED  BY <1>1 DEF IsSum

\* The sizes of a sequence and one more element.
LEMMA SumOverAppend ==
    ASSUME NEW S, NEW size \in [S -> Int], NEW s \in Seq(S), NEW x \in S
    PROVE  SumOver(size, s) \in Int /\ SumOver(size, Append(s, x)) = SumOver(size, s) + size[x]
<1>. DEFINE n == Len(s)
            v == [i \in DOMAIN s |-> size[s[i]]]
            w == [i \in DOMAIN Append(s, x) |-> size[Append(s, x)[i]]]
<1>1. n \in Nat /\ DOMAIN s = 1 .. n /\ \A i \in 1 .. n : s[i] \in S
  OBVIOUS
<1>2. /\ Len(Append(s, x)) = n + 1 /\ DOMAIN Append(s, x) = 1 .. n + 1
      /\ Append(s, x)[n + 1] = x /\ \A i \in 1 .. n : Append(s, x)[i] = s[i]
  OBVIOUS
<1>3. n + 1 \in 1 .. n + 1 /\ \A i \in 1 .. n : i \in 1 .. n + 1
  BY <1>1
<1>4. \A i \in 1 .. n : v[i] \in Int /\ w[i] = v[i]
  BY <1>1, <1>2, <1>3
<1>5. w[n + 1] = size[x] /\ size[x] \in Int
  BY <1>2, <1>3
<1>6. \A i \in 1 .. n + 1 : w[i] \in Int
  BY <1>1, <1>4, <1>5
<1>7. SumOver(size, s) = SumTo(v, n) /\ SumOver(size, Append(s, x)) = SumTo(w, n + 1)
  BY <1>2 DEF SumOver
<1>. HIDE DEF n, v, w
<1>8. SumTo(v, n) \in Int /\ SumTo(v, n) = SumTo(w, n)
  BY <1>1, <1>4, SumSame
<1>9. SumTo(w, n + 1) = SumTo(w, n) + w[n + 1]
  BY <1>1, <1>6, SumNext
<1>. QED  BY <1>5, <1>7, <1>8, <1>9

\* The empty sequence.
LEMMA SumOverEmpty == \A size : SumOver(size, <<>>) = 0
<1>1. Len(<<>>) = 0
  OBVIOUS
<1>. QED  BY <1>1, SumEmpty DEF SumOver

-----------------------------------------------------------------------------
(* Selections *)

\* The selections from the first elements of s, up to n of them.
IsSelection(f, s, T, n) ==
    /\ f[0] = <<>>
    /\ \A i \in 1 .. n : f[i] = IF s[i] \in T THEN Append(f[i - 1], s[i]) ELSE f[i - 1]

\* Selected is the last of the selections.
LEMMA SelectedUnfolds ==
    ASSUME NEW n \in Nat, NEW s, NEW T
    PROVE  \E f : IsSelection(f, s, T, n) /\ Selected(s, T, n) = f[n]
<1>. DEFINE S == Nat \X Seq(T)
            F == [r \in S |-> <<r[1] + 1, IF s[r[1] + 1] \in T THEN Append(r[2], s[r[1] + 1]) ELSE r[2]>>]
            Loop(f) == f = [i \in 0 .. n |-> IF i = 0 THEN <<>>
                               ELSE IF s[i] \in T THEN Append(f[i - 1], s[i]) ELSE f[i - 1]]
<1>1. F \in [S -> S] /\ <<0, <<>>>> \in S
  <2>1. <<0, <<>>>> \in S
    <3>1. <<>> \in Seq(T) /\ 0 \in Nat
      OBVIOUS
    <3>. QED  BY <3>1, Zenon
  <2>2. ASSUME NEW r \in S
        PROVE  <<r[1] + 1, IF s[r[1] + 1] \in T THEN Append(r[2], s[r[1] + 1]) ELSE r[2]>> \in S
    <3>1. r[1] + 1 \in Nat /\ r[2] \in Seq(T)
      OBVIOUS
    <3>2. CASE s[r[1] + 1] \in T
      BY <3>1, <3>2
    <3>3. CASE s[r[1] + 1] \notin T
      BY <3>1, <3>3
    <3>. QED  BY <3>2, <3>3
  <2>. HIDE DEF S
  <2>. QED  BY <2>1, <2>2
<1>2. PICK g : g \in [Nat -> S] /\ g[0] = <<0, <<>>>> /\ \A i \in Nat : g[i + 1] = F[g[i]]
  <2>. HIDE DEF S, F
  <2>1. PICK g : IsIteration(g, S, F, <<0, <<>>>>)
    BY <1>1, IterationExists
  <2>. QED  BY <2>1 DEF IsIteration
<1>3. ASSUME NEW i \in Nat
      PROVE  /\ g[i] \in S
             /\ g[i + 1][1] = g[i][1] + 1
             /\ g[i + 1][2] = IF s[g[i][1] + 1] \in T THEN Append(g[i][2], s[g[i][1] + 1]) ELSE g[i][2]
  <2>1. \A r \in S : F[r] = <<r[1] + 1, IF s[r[1] + 1] \in T THEN Append(r[2], s[r[1] + 1]) ELSE r[2]>>
    OBVIOUS
  <2>. HIDE DEF S, F
  <2>2. g[i] \in S /\ g[i + 1] = <<g[i][1] + 1, IF s[g[i][1] + 1] \in T
                                                  THEN Append(g[i][2], s[g[i][1] + 1]) ELSE g[i][2]>>
    BY <1>2, <2>1
  <2>. QED  BY <2>2
<1>4. \A i \in Nat : g[i][1] = i
  <2>. DEFINE U == {i \in Nat : g[i][1] = i}
  <2>1. 0 \in U
    BY <1>2
  <2>2. ASSUME NEW i \in Nat, i \in U PROVE i + 1 \in U
    <3>1. g[i][1] = i
      BY <2>2
    <3>2. g[i + 1][1] = i + 1
      BY <1>3, <3>1
    <3>. QED  BY <3>2
  <2>. HIDE DEF U
  <2>3. Nat \subseteq U
    BY <2>1, <2>2, NatAll
  <2>. QED  BY <2>3 DEF U
<1>5. \A i \in Nat : g[i + 1][2] = IF s[i + 1] \in T THEN Append(g[i][2], s[i + 1]) ELSE g[i][2]
  BY <1>3, <1>4
<1>. DEFINE e == [i \in 0 .. n |-> g[i][2]]
<1>6. Loop(e)
  <2>1. ASSUME NEW i \in 0 .. n
        PROVE  e[i] = IF i = 0 THEN <<>> ELSE IF s[i] \in T THEN Append(e[i - 1], s[i]) ELSE e[i - 1]
    <3>1. CASE i = 0
      BY <1>2, <3>1
    <3>2. CASE i # 0
      <4>1. i - 1 \in Nat /\ (i - 1) + 1 = i /\ i \in 1 .. n /\ i - 1 \in 0 .. n
        BY <3>2
      <4>2. g[i][2] = IF s[i] \in T THEN Append(g[i - 1][2], s[i]) ELSE g[i - 1][2]
        BY <1>5, <4>1
      <4>. QED  BY <3>2, <4>1, <4>2
    <3>. QED  BY <3>1, <3>2
  <2>2. e = [i \in 0 .. n |-> e[i]]
    OBVIOUS
  <2>. HIDE DEF e
  <2>. QED  BY <2>1, <2>2
<1>. HIDE DEF e
<1>7. PICK f : Loop(f) /\ Selected(s, T, n) = f[n]
  BY <1>6, Zenon DEF Selected
<1>8. \A i \in 0 .. n : f[i] = IF i = 0 THEN <<>> ELSE IF s[i] \in T THEN Append(f[i - 1], s[i]) ELSE f[i - 1]
  BY <1>7, Zenon
<1>9. IsSelection(f, s, T, n)
  BY <1>8 DEF IsSelection
<1>. QED  BY <1>7, <1>9

\* Selections from the same sequence agree.
LEMMA SelectionsAgree ==
    ASSUME NEW n \in Nat, NEW m \in Nat, n <= m, NEW s, NEW T,
           NEW f, NEW g, IsSelection(f, s, T, n), IsSelection(g, s, T, m)
    PROVE  f[n] = g[n]
<1>. DEFINE U == {i \in Nat : i <= n => f[i] = g[i]}
<1>1. 0 \in U
  BY DEF IsSelection
<1>2. ASSUME NEW i \in Nat, i \in U PROVE i + 1 \in U
  <2>. SUFFICES ASSUME i + 1 <= n PROVE f[i + 1] = g[i + 1]
    OBVIOUS
  <2>1. i + 1 \in 1 .. n /\ i + 1 \in 1 .. m /\ (i + 1) - 1 = i /\ f[i] = g[i]
    BY <1>2
  <2>2. /\ f[i + 1] = IF s[i + 1] \in T THEN Append(f[i], s[i + 1]) ELSE f[i]
        /\ g[i + 1] = IF s[i + 1] \in T THEN Append(g[i], s[i + 1]) ELSE g[i]
    BY <2>1 DEF IsSelection
  <2>. QED  BY <2>1, <2>2
<1>. HIDE DEF U
<1>3. Nat \subseteq U
  BY <1>1, <1>2, NatAll
<1>. QED  BY <1>3 DEF U

\* The selection from one element more.
LEMMA SelectedNext ==
    ASSUME NEW n \in Nat, NEW s, NEW T
    PROVE  /\ Selected(s, T, 0) = <<>>
           /\ s[n + 1] \in T => Selected(s, T, n + 1) = Append(Selected(s, T, n), s[n + 1])
           /\ s[n + 1] \notin T => Selected(s, T, n + 1) = Selected(s, T, n)
<1>1. PICK e : IsSelection(e, s, T, 0) /\ Selected(s, T, 0) = e[0]
  BY SelectedUnfolds
<1>2. PICK f : IsSelection(f, s, T, n) /\ Selected(s, T, n) = f[n]
  BY SelectedUnfolds
<1>3. n + 1 \in Nat /\ n <= n + 1 /\ n + 1 \in 1 .. n + 1 /\ (n + 1) - 1 = n
  OBVIOUS
<1>4. PICK g : IsSelection(g, s, T, n + 1) /\ Selected(s, T, n + 1) = g[n + 1]
  BY <1>3, SelectedUnfolds
<1>5. f[n] = g[n]
  BY <1>2, <1>3, <1>4, SelectionsAgree
<1>6. g[n + 1] = IF s[n + 1] \in T THEN Append(g[n], s[n + 1]) ELSE g[n]
  BY <1>3, <1>4 DEF IsSelection
<1>. QED  BY <1>1, <1>2, <1>4, <1>5, <1>6 DEF IsSelection

\* What is selected is a sequence, and depends only on the elements looked at.
LEMMA SelectedFacts ==
    ASSUME NEW n \in Nat, NEW s, NEW t, NEW T, \A i \in 1 .. n : s[i] = t[i]
    PROVE  Selected(s, T, n) \in Seq(T) /\ Selected(s, T, n) = Selected(t, T, n)
<1>. DEFINE U == {i \in Nat : i <= n => Selected(s, T, i) \in Seq(T) /\ Selected(s, T, i) = Selected(t, T, i)}
<1>1. 0 \in U
  <2>1. Selected(s, T, 0) = <<>> /\ Selected(t, T, 0) = <<>> /\ <<>> \in Seq(T)
    BY SelectedNext
  <2>. QED  BY <2>1
<1>2. ASSUME NEW i \in Nat, i \in U PROVE i + 1 \in U
  <2>. SUFFICES ASSUME i + 1 <= n
                PROVE  Selected(s, T, i + 1) \in Seq(T) /\ Selected(s, T, i + 1) = Selected(t, T, i + 1)
    OBVIOUS
  <2>1. i + 1 \in 1 .. n /\ Selected(s, T, i) \in Seq(T) /\ Selected(s, T, i) = Selected(t, T, i)
    BY <1>2
  <2>2. s[i + 1] = t[i + 1]
    BY <2>1
  <2>3. CASE s[i + 1] \in T
    <3>1. /\ Selected(s, T, i + 1) = Append(Selected(s, T, i), s[i + 1])
          /\ Selected(t, T, i + 1) = Append(Selected(t, T, i), t[i + 1])
      BY <2>2, <2>3, SelectedNext
    <3>. QED  BY <2>1, <2>2, <2>3, <3>1
  <2>4. CASE s[i + 1] \notin T
    <3>1. Selected(s, T, i + 1) = Selected(s, T, i) /\ Selected(t, T, i + 1) = Selected(t, T, i)
      BY <2>2, <2>4, SelectedNext
    <3>. QED  BY <2>1, <3>1
  <2>. QED  BY <2>3, <2>4
<1>. HIDE DEF U
<1>3. Nat \subseteq U
  BY <1>1, <1>2, NatAll
<1>4. n \in U /\ n <= n
  BY <1>3
<1>. QED  BY <1>4 DEF U

\* An element may be appended before or after two sequences are joined.
AppendsLast(x, y, e) == Append(x \o y, e) = x \o Append(y, e)

\* A sequence, another one and one more element.
LEMMA AppendJoined ==
    ASSUME NEW T, NEW x \in Seq(T), NEW y \in Seq(T), NEW e \in T
    PROVE  AppendsLast(x, y, e)
<1>. DEFINE u == Append(x \o y, e)
            v == x \o Append(y, e)
            n == Len(x) + Len(y) + 1
<1>1. u \in Seq(T) /\ v \in Seq(T)
  OBVIOUS
<1>2. Len(u) = n /\ Len(v) = n
  OBVIOUS
<1>3. \A i \in 1 .. n : u[i] = v[i]
  OBVIOUS
<1>. HIDE DEF u, v, n
<1>4. u = v
  BY <1>1, <1>2, <1>3
<1>. QED  BY <1>4 DEF u, v, AppendsLast

\* A selection from a sequence that is followed by one all of which is selected.
LEMMA SelectedJoin ==
    ASSUME NEW T, NEW S, NEW a \in Seq(S), NEW b \in Seq(T)
    PROVE  /\ Selected(a, T, Len(a)) \in Seq(T)
           /\ Selected(a \o b, T, Len(a \o b)) = Selected(a, T, Len(a)) \o b
<1>. DEFINE s == a \o b
            m == Len(a)
            x == Selected(a, T, m)
            U == {j \in Nat : j <= Len(b) => Selected(s, T, m + j) = x \o SubSeq(b, 1, j)}
<1>1. m \in Nat /\ Len(b) \in Nat
  OBVIOUS
<1>2. Len(s) = m + Len(b) /\ (\A i \in 1 .. m : s[i] = a[i]) /\ \A j \in 1 .. Len(b) : s[m + j] = b[j]
  OBVIOUS
<1>. HIDE DEF s, m
<1>3. x \in Seq(T) /\ Selected(s, T, m) = x
  BY <1>1, <1>2, SelectedFacts
<1>. HIDE DEF x
<1>4. 0 \in U
  <2>1. m + 0 = m /\ SubSeq(b, 1, 0) = <<>> /\ x \o <<>> = x
    BY <1>1, <1>3
  <2>. QED  BY <1>3, <2>1
<1>5. ASSUME NEW j \in Nat, j \in U PROVE j + 1 \in U
  <2>. SUFFICES ASSUME j + 1 <= Len(b) PROVE Selected(s, T, m + (j + 1)) = x \o SubSeq(b, 1, j + 1)
    OBVIOUS
  <2>1. j + 1 \in 1 .. Len(b) /\ m + (j + 1) = (m + j) + 1 /\ m + j \in Nat
    BY <1>1
  <2>2. Selected(s, T, m + j) = x \o SubSeq(b, 1, j)
    BY <1>1, <1>5
  <2>3. s[(m + j) + 1] = b[j + 1] /\ b[j + 1] \in T
    <3>1. s[m + (j + 1)] = b[j + 1]
      BY <1>2, <2>1
    <3>. QED  BY <2>1, <3>1
  <2>4. Selected(s, T, (m + j) + 1) = Append(x \o SubSeq(b, 1, j), b[j + 1])
    BY <2>1, <2>2, <2>3, SelectedNext
  <2>5. Append(SubSeq(b, 1, j), b[j + 1]) = SubSeq(b, 1, j + 1)
    BY <2>1
  <2>6. SubSeq(b, 1, j) \in Seq(T)
    BY <2>1
  <2>7. Append(x \o SubSeq(b, 1, j), b[j + 1]) = x \o Append(SubSeq(b, 1, j), b[j + 1])
    <3>. DEFINE y == SubSeq(b, 1, j)
                e == b[j + 1]
    <3>1. y \in Seq(T) /\ e \in T
      BY <2>3, <2>6
    <3>. HIDE DEF y, e
    <3>2. AppendsLast(x, y, e)
      BY <1>3, <3>1, AppendJoined
    <3>. QED  BY <3>2 DEF y, e, AppendsLast
  <2>. QED  BY <2>1, <2>4, <2>5, <2>7
<1>. HIDE DEF U
<1>6. Nat \subseteq U
  BY <1>4, <1>5, NatAll
<1>7. Selected(s, T, m + Len(b)) = x \o SubSeq(b, 1, Len(b))
  <2>1. Len(b) \in U /\ Len(b) <= Len(b)
    BY <1>1, <1>6
  <2>. QED  BY <2>1 DEF U
<1>8. SubSeq(b, 1, Len(b)) = b
  OBVIOUS
<1>. QED  BY <1>2, <1>3, <1>7, <1>8 DEF s, m, x

-----------------------------------------------------------------------------
(* Concatenations *)

\* Two neighbouring parts of a sequence.
LEMMA PartsJoin ==
    ASSUME NEW S, NEW s \in Seq(S), NEW a \in Nat, NEW c \in Nat, a <= c, c <= Len(s)
    PROVE  SubSeq(s, 1, a) \o SubSeq(s, a + 1, c) = SubSeq(s, 1, c)
<1>. DEFINE x == SubSeq(s, 1, a)
            y == SubSeq(s, a + 1, c)
            z == SubSeq(s, 1, c)
<1>1. x \in Seq(S) /\ Len(x) = a /\ \A k \in 1 .. a : x[k] = s[k]
  OBVIOUS
<1>2. y \in Seq(S) /\ Len(y) = c - a /\ \A k \in 1 .. c - a : y[k] = s[a + k]
  OBVIOUS
<1>3. z \in Seq(S) /\ Len(z) = c /\ \A k \in 1 .. c : z[k] = s[k]
  OBVIOUS
<1>. HIDE DEF x, y, z
<1>4. x \o y \in Seq(S) /\ Len(x \o y) = c
  <2>1. \A v, w \in Seq(S) : v \o w \in Seq(S) /\ Len(v \o w) = Len(v) + Len(w)
    OBVIOUS
  <2>2. a + (c - a) = c
    OBVIOUS
  <2>. QED  BY <1>1, <1>2, <2>1, <2>2, Zenon
<1>5. ASSUME NEW k \in 1 .. c PROVE (x \o y)[k] = z[k]
  <2>1. CASE k <= a
    BY <1>1, <1>2, <1>3, <2>1
  <2>2. CASE k > a
    <3>1. k - a \in 1 .. c - a /\ a + (k - a) = k
      BY <2>2
    <3>2. (x \o y)[k] = y[k - a]
      BY <1>1, <1>2, <2>2
    <3>. QED  BY <1>2, <1>3, <3>1, <3>2
  <2>3. k <= a \/ k > a
    OBVIOUS
  <2>. QED  BY <2>1, <2>2, <2>3, Zenon
<1>6. x \o y = z
  BY <1>3, <1>4, <1>5
<1>. QED  BY <1>6 DEF x, y, z

\* What has been put together of the sequences ss.
IsConcatenation(p, ss) ==
    /\ p[0] = <<>>
    /\ \A i \in 1 .. Len(ss) : p[i] = p[i - 1] \o ss[i]

\* Concat is the last of the concatenations.
LEMMA ConcatIs ==
    ASSUME NEW ss, Len(ss) \in Nat, NEW p, IsConcatenation(p, ss)
    PROVE  Concat(ss) = p[Len(ss)]
<1>. DEFINE n == Len(ss)
            IsLoop(f) == f = [i \in 0 .. n |-> IF i = 0 THEN <<>> ELSE f[i - 1] \o ss[i]]
            e == [i \in 0 .. n |-> p[i]]
<1>1. p[0] = <<>> /\ \A i \in 1 .. n : p[i] = p[i - 1] \o ss[i]
  BY Zenon DEF IsConcatenation
<1>2. IsLoop(e)
  <2>1. ASSUME NEW i \in 0 .. n PROVE e[i] = IF i = 0 THEN <<>> ELSE e[i - 1] \o ss[i]
    <3>1. CASE i = 0
      BY <1>1, <3>1
    <3>2. CASE i # 0
      <4>1. i \in 1 .. n /\ i - 1 \in 0 .. n
        BY <3>2
      <4>. QED  BY <1>1, <3>2, <4>1
    <3>. QED  BY <3>1, <3>2
  <2>2. e = [i \in 0 .. n |-> e[i]]
    OBVIOUS
  <2>. HIDE DEF e
  <2>. QED  BY <2>1, <2>2
<1>. HIDE DEF e
<1>3. PICK f : IsLoop(f) /\ Concat(ss) = f[n]
  BY <1>2, Zenon DEF Concat
<1>4. \A i \in 0 .. n : f[i] = IF i = 0 THEN <<>> ELSE f[i - 1] \o ss[i]
  BY <1>3, Zenon
<1>. DEFINE U == {i \in Nat : i <= n => f[i] = p[i]}
<1>5. 0 \in U
  BY <1>1, <1>4
<1>6. ASSUME NEW i \in Nat, i \in U PROVE i + 1 \in U
  <2>. SUFFICES ASSUME i + 1 <= n PROVE f[i + 1] = p[i + 1]
    OBVIOUS
  <2>1. i + 1 \in 1 .. n /\ i + 1 \in 0 .. n /\ i + 1 # 0 /\ (i + 1) - 1 = i /\ f[i] = p[i]
    BY <1>6
  <2>. QED  BY <1>1, <1>4, <2>1
<1>. HIDE DEF U
<1>7. Nat \subseteq U
  BY <1>5, <1>6, NatAll
<1>8. f[n] = p[n]
  <2>1. n \in U /\ n <= n
    BY <1>7
  <2>. QED  BY <2>1 DEF U
<1>. QED  BY <1>3, <1>8

\* The places at which the sequences ss begin in their concatenation.
IsPlacing(p, ss) ==
    /\ p \in [0 .. Len(ss) -> Nat] /\ p[0] = 0 /\ p[Len(ss)] = Len(Concat(ss))
    /\ \A i \in 1 .. Len(ss) :
          /\ p[i] = p[i - 1] + Len(ss[i]) /\ p[i] <= Len(Concat(ss))
          /\ \A j \in 1 .. Len(ss[i]) : Concat(ss)[p[i - 1] + j] = ss[i][j]

\* The sequences have their places.
LEMMA ConcatPlaces ==
    ASSUME NEW S, NEW ss \in Seq(Seq(S))
    PROVE  Concat(ss) \in Seq(S) /\ \E p : IsPlacing(p, ss)
<1>. DEFINE n == Len(ss)
            G == [i \in 1 .. n |-> [x \in Seq(S) |-> x \o ss[i]]]
            e == <<>>
<1>1. n \in Nat /\ (\A i \in 1 .. n : ss[i] \in Seq(S) /\ Len(ss[i]) \in Nat) /\ e \in Seq(S)
  OBVIOUS
<1>2. \A i \in 1 .. n, x \in Seq(S) : G[i][x] = x \o ss[i] /\ G[i][x] \in Seq(S)
  BY <1>1
<1>3. PICK f : IsFold(f, G, e, Seq(S), n)
  <2>. HIDE DEF G, e
  <2>. QED  BY <1>1, <1>2, FoldExists
<1>. HIDE DEF G
<1>4. f \in [0 .. n -> Seq(S)] /\ f[0] = <<>> /\ \A i \in 1 .. n : f[i] = f[i - 1] \o ss[i]
  <2>1. f \in [0 .. n -> Seq(S)] /\ f[0] = e /\ \A i \in 1 .. n : f[i] = G[i][f[i - 1]]
    BY <1>3, Zenon DEF IsFold
  <2>2. \A i \in 1 .. n : i - 1 \in 0 .. n
    BY <1>1
  <2>. QED  BY <1>2, <2>1, <2>2
<1>5. Concat(ss) = f[n]
  <2>1. IsConcatenation(f, ss)
    BY <1>4 DEF IsConcatenation
  <2>. QED  BY <1>1, <2>1, ConcatIs
<1>. DEFINE c == f[n]
            Starts(k, m) == Len(f[k]) <= Len(f[m]) /\ \A j \in 1 .. Len(f[k]) : f[m][j] = f[k][j]
<1>6. ASSUME NEW k \in 0 .. n PROVE Starts(k, n)
  <2>. DEFINE U == {d \in Nat : k + d <= n => Starts(k, k + d)}
  <2>1. 0 \in U
    <3>1. k + 0 = k /\ Len(f[k]) \in Nat
      BY <1>4
    <3>. QED  BY <3>1
  <2>2. ASSUME NEW d \in Nat, d \in U PROVE d + 1 \in U
    <3>. SUFFICES ASSUME k + (d + 1) <= n PROVE Starts(k, k + (d + 1))
      OBVIOUS
    <3>. DEFINE m == k + d
    <3>1. m \in 0 .. n /\ m + 1 \in 1 .. n /\ m + 1 = k + (d + 1) /\ (m + 1) - 1 = m /\ Starts(k, m)
      <4>. HIDE DEF Starts
      <4>. QED  BY <1>1, <2>2
    <3>. HIDE DEF m
    <3>2. f[m + 1] = f[m] \o ss[m + 1] /\ f[m] \in Seq(S) /\ ss[m + 1] \in Seq(S) /\ f[k] \in Seq(S)
      BY <1>1, <1>4, <3>1
    <3>3. /\ Len(f[m + 1]) = Len(f[m]) + Len(ss[m + 1])
          /\ \A j \in 1 .. Len(f[m]) : f[m + 1][j] = f[m][j]
      <4>1. \A x, y \in Seq(S) : Len(x \o y) = Len(x) + Len(y) /\ \A j \in 1 .. Len(x) : (x \o y)[j] = x[j]
        OBVIOUS
      <4>. DEFINE x == f[m]
                  y == ss[m + 1]
                  z == f[m + 1]
      <4>2. z = x \o y /\ x \in Seq(S) /\ y \in Seq(S)
        BY <3>2
      <4>. HIDE DEF x, y, z
      <4>3. Len(z) = Len(x) + Len(y) /\ \A j \in 1 .. Len(x) : z[j] = x[j]
        BY <4>1, <4>2
      <4>. QED  BY <4>3 DEF x, y, z
    <3>4. Len(f[m]) \in Nat /\ Len(ss[m + 1]) \in Nat /\ Len(f[k]) \in Nat
      BY <3>2
    <3>5. \A j \in 1 .. Len(f[k]) : j \in 1 .. Len(f[m])
      BY <3>1, <3>4
    <3>6. Starts(k, m + 1)
      <4>1. Len(f[k]) <= Len(f[m + 1])
        <5>1. \A u, v, w \in Nat : u <= v => u <= v + w
          OBVIOUS
        <5>. QED  BY <3>1, <3>3, <3>4, <5>1, Zenon
      <4>2. \A j \in 1 .. Len(f[k]) : f[m + 1][j] = f[k][j]
        BY <3>1, <3>3, <3>5, Zenon
      <4>. QED  BY <4>1, <4>2
    <3>. QED  BY <3>1, <3>6
  <2>. HIDE DEF U
  <2>3. Nat \subseteq U
    BY <2>1, <2>2, NatAll
  <2>4. n - k \in U /\ k + (n - k) = n
    BY <1>1, <2>3
  <2>5. k + (n - k) <= n
    BY <1>1
  <2>. QED  BY <2>4, <2>5 DEF U
<1>. DEFINE p == [i \in 0 .. n |-> Len(f[i])]
<1>7. \A i \in 0 .. n : p[i] = Len(f[i]) /\ f[i] \in Seq(S) /\ p[i] \in Nat
  BY <1>4
<1>8. p \in [0 .. n -> Nat]
  BY <1>7
<1>. HIDE DEF p
<1>9. 0 \in 0 .. n /\ n \in 0 .. n /\ Len(<<>>) = 0
  BY <1>1
<1>10. ASSUME NEW i \in 1 .. n
       PROVE  /\ p[i] = p[i - 1] + Len(ss[i]) /\ p[i] <= Len(f[n])
              /\ \A j \in 1 .. Len(ss[i]) : f[n][p[i - 1] + j] = ss[i][j]
  <2>1. i \in 0 .. n /\ i - 1 \in 0 .. n
    BY <1>1
  <2>. DEFINE x == f[i - 1]
              y == ss[i]
  <2>2. f[i] = x \o y /\ x \in Seq(S) /\ y \in Seq(S) /\ p[i - 1] = Len(x) /\ p[i] = Len(f[i])
    BY <1>1, <1>4, <1>7, <2>1
  <2>. HIDE DEF x, y
  <2>3. Len(f[i]) = Len(x) + Len(y) /\ \A j \in 1 .. Len(y) : f[i][Len(x) + j] = y[j]
    BY <2>2
  <2>4. Starts(i, n)
    BY <1>6, <2>1
  <2>5. \A j \in 1 .. Len(y) : Len(x) + j \in 1 .. Len(f[i])
    BY <2>2, <2>3
  <2>. QED  BY <2>2, <2>3, <2>4, <2>5 DEF y
<1>11. IsPlacing(p, ss)
  BY <1>4, <1>5, <1>7, <1>8, <1>9, <1>10 DEF IsPlacing
<1>. QED  BY <1>5, <1>7, <1>9, <1>11

-----------------------------------------------------------------------------
(* Arithmetic *)

\* A product with a larger factor is at least one b larger.
LEMMA ProductGrows ==
    ASSUME NEW b \in Nat, NEW q \in Int, NEW k \in Int, q < k
    PROVE  q * b \in Int /\ k * b \in Int /\ q * b + b <= k * b
<1>1. PICK x \in Nat : k = q + 1 + x
  <2>. WITNESS k - q - 1 \in Nat
  <2>. QED  OBVIOUS
<1>2. k * b = q * b + b + x * b
  BY <1>1
<1>3. x * b \in Nat
  BY <1>1
<1>. QED  BY <1>2, <1>3

\* Multiplied out.
LEMMA MultipliedOut ==
    ASSUME NEW q \in Int, NEW m \in Int, NEW z \in Int, NEW b \in Int
    PROVE  (q * b + m) * b + z = q * (b * b) + (m * b + z)
OBVIOUS

\* Quotient and remainder.
LEMMA DivMod ==
    ASSUME NEW b \in Nat \ {0}, NEW q \in Nat, NEW r \in 0 .. b - 1
    PROVE  (q * b + r) \div b = q /\ (q * b + r) % b = r
OBVIOUS

\* What is divided is the quotient times the divisor and the remainder.
LEMMA DivModOf ==
    ASSUME NEW b \in Nat \ {0}, NEW a \in Nat
    PROVE  a \div b \in Nat /\ a % b \in 0 .. b - 1 /\ a = (a \div b) * b + (a % b)
OBVIOUS

\* Two different multiples of b are at least b apart, and the next one is b further.
LEMMA Multiples ==
    ASSUME NEW b \in Nat \ {0}, NEW x \in Nat, x % b = 0
    PROVE  /\ (x + b) % b = 0
           /\ \A y \in Nat : y % b = 0 /\ x < y => x + b <= y
           /\ \A r \in 1 .. b - 1 : (x + r) % b # 0
<1>1. x \div b \in Nat /\ x = (x \div b) * b
  BY DivModOf
<1>. DEFINE q == x \div b
<1>2. (x + b) % b = 0
  <2>1. q + 1 \in Nat /\ 0 \in 0 .. b - 1 /\ q \in Nat
    BY <1>1
  <2>2. ((q + 1) * b + 0) % b = 0
    BY <2>1, DivMod, Zenon
  <2>. HIDE DEF q
  <2>3. (q + 1) * b + 0 = q * b + b
    BY <2>1
  <2>. QED  BY <1>1, <2>2, <2>3 DEF q
<1>3. ASSUME NEW y \in Nat, y % b = 0, x < y PROVE x + b <= y
  <2>1. y \div b \in Nat /\ y = (y \div b) * b
    BY <1>3, DivModOf
  <2>2. x \div b < y \div b
    <3>1. CASE y \div b < x \div b
      BY <1>1, <1>3, <2>1, <3>1, ProductGrows
    <3>2. CASE y \div b = x \div b
      BY <1>1, <1>3, <2>1, <3>2
    <3>. QED  BY <1>1, <2>1, <3>1, <3>2
  <2>. QED  BY <1>1, <2>1, <2>2, ProductGrows
<1>4. ASSUME NEW r \in 1 .. b - 1 PROVE (x + r) % b # 0
  <2>1. q \in Nat /\ r \in 0 .. b - 1
    BY <1>1
  <2>2. (q * b + r) % b = r
    BY <2>1, DivMod, Zenon
  <2>. QED  BY <1>1, <2>2
<1>. QED  BY <1>2, <1>3, <1>4
=============================================================================
