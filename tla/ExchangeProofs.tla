--------------------------- MODULE ExchangeProofs ---------------------------
(***************************************************************************)
(* A poll and what it is made of: the armor, cut off anywhere, decodes to  *)
(* a part of the bytes; no two publishers share a prefix at an AMP cache;  *)
(* a response is complete or an error is seen, and a request arrives.      *)
(***************************************************************************)
EXTENDS Exchange, EncapsulationProofs

\* Most leaves are first-order: Zenon tries each one for two seconds before SMT does.
USE ZenonT(2), SMTT(20)

-----------------------------------------------------------------------------
(* Tokens and the states of the decoder *)

Token ==
    {<<"pre">>, <<"/pre">>, <<"space">>, <<"markup">>, <<"version">>}
    \cup {<<"char", q, r>> : q \in Seq(Nat), r \in 0 .. 3}

\* The tokens written to an elementEncoder.
Letter == {<<"version">>} \cup {<<"char", q, r>> : q \in Seq(Nat), r \in 0 .. 3}

\* The decoder has read the first c of the tokens ts and no error.
Decoded(active, ts, c) == [active |-> active, out |-> SubSeq(ts, 1, c), err |-> "nil"]

\* The states of the decoder over a text: each shows a part of ts, and between two elements
\* it is a part that does not end with a quantum, or all of ts.
Shows(g, text, ts, k) ==
    /\ g[0] = Decoded(FALSE, ts, 0)
    /\ \A m \in 1 .. Len(text) : g[m] = DecodeToken(g[m - 1], text[m])
    /\ \A m \in 0 .. Len(text) :
          \E a \in BOOLEAN, c \in 0 .. k :
              g[m] = Decoded(a, ts, c) /\ (a \/ c % 4 = 0 \/ c = Len(ts))

\* The text shows the first k tokens of ts.
ShowsTo(text, ts, k, active) ==
    /\ text \in Seq(Token) /\ k \in 0 .. Len(ts)
    /\ \E g : Shows(g, text, ts, k) /\ g[Len(text)] = Decoded(active, ts, k)

\* No text shows nothing.
LEMMA NothingShown ==
    ASSUME NEW ts \in Seq(Letter)
    PROVE  ShowsTo(<<>>, ts, 0, FALSE)
<1>. DEFINE d == Decoded(FALSE, ts, 0)
            g == [m \in 0 .. 0 |-> d]
<1>1. <<>> \in Seq(Token) /\ Len(<<>>) = 0 /\ Len(ts) \in Nat /\ 0 \in 0 .. Len(ts)
  OBVIOUS
<1>. HIDE DEF d
<1>2. g[0] = d /\ 0 % 4 = 0 /\ FALSE \in BOOLEAN /\ 0 \in 0 .. 0
  OBVIOUS
<1>. HIDE DEF g
<1>3. Shows(g, <<>>, ts, 0)
  <2>1. ASSUME NEW m \in 0 .. Len(<<>>)
        PROVE  \E a \in BOOLEAN, c \in 0 .. 0 :
                   g[m] = Decoded(a, ts, c) /\ (a \/ c % 4 = 0 \/ c = Len(ts))
    <3>1. g[m] = Decoded(FALSE, ts, 0)
      <4>1. m = 0
        BY <1>1
      <4>. QED  BY <1>2, <4>1 DEF d
    <3>. QED  BY <1>2, <3>1
  <2>2. \A m \in 1 .. Len(<<>>) : FALSE
    BY <1>1
  <2>. QED  BY <1>2, <2>1, <2>2 DEF Shows, d
<1>. QED  BY <1>1, <1>2, <1>3 DEF ShowsTo, d

\* One more token of the text.
LEMMA NextShown ==
    ASSUME NEW ts \in Seq(Letter), NEW text, NEW k, NEW a, ShowsTo(text, ts, k, a), NEW t \in Token,
           NEW b \in BOOLEAN, NEW c \in 0 .. Len(ts), k <= c, b \/ c % 4 = 0 \/ c = Len(ts),
           DecodeToken(Decoded(a, ts, k), t) = Decoded(b, ts, c)
    PROVE  ShowsTo(Append(text, t), ts, c, b)
<1>. DEFINE n == Len(text)
            x == Append(text, t)
<1>1. PICK g : Shows(g, text, ts, k) /\ g[n] = Decoded(a, ts, k)
  BY DEF ShowsTo
<1>2. text \in Seq(Token) /\ k \in 0 .. Len(ts) /\ n \in Nat /\ Len(ts) \in Nat
  BY DEF ShowsTo
<1>3. /\ x \in Seq(Token) /\ Len(x) = n + 1 /\ x[n + 1] = t
      /\ \A m \in 1 .. n : x[m] = text[m]
  BY <1>2
<1>. DEFINE h == [m \in 0 .. n + 1 |-> IF m = n + 1 THEN Decoded(b, ts, c) ELSE g[m]]
<1>4. h[n + 1] = Decoded(b, ts, c) /\ \A m \in 0 .. n : h[m] = g[m]
  BY <1>2
<1>. HIDE DEF h, x
<1>5. h[0] = Decoded(FALSE, ts, 0)
  <2>1. g[0] = Decoded(FALSE, ts, 0) /\ 0 \in 0 .. n
    <3>1. g[0] = Decoded(FALSE, ts, 0)
      BY <1>1, Zenon DEF Shows
    <3>. QED  BY <1>2, <3>1
  <2>. QED  BY <1>4, <2>1
<1>6. ASSUME NEW m \in 1 .. n + 1 PROVE h[m] = DecodeToken(h[m - 1], x[m])
  <2>1. CASE m = n + 1
    <3>1. m - 1 = n /\ n \in 0 .. n
      BY <1>2, <2>1
    <3>. QED  BY <1>1, <1>3, <1>4, <2>1, <3>1
  <2>2. CASE m # n + 1
    <3>1. m \in 1 .. n /\ m - 1 \in 0 .. n /\ m \in 0 .. n
      BY <1>2, <2>2
    <3>2. g[m] = DecodeToken(g[m - 1], text[m])
      BY <1>1, <3>1 DEF Shows
    <3>. QED  BY <1>3, <1>4, <3>1, <3>2
  <2>. QED  BY <2>1, <2>2
<1>7. ASSUME NEW m \in 0 .. n + 1
      PROVE  \E d \in BOOLEAN, j \in 0 .. c :
                 h[m] = Decoded(d, ts, j) /\ (d \/ j % 4 = 0 \/ j = Len(ts))
  <2>1. CASE m = n + 1
    <3>1. c \in 0 .. c
      OBVIOUS
    <3>. QED  BY <1>4, <2>1, <3>1
  <2>2. CASE m # n + 1
    <3>1. m \in 0 .. n
      BY <1>2, <2>2
    <3>2. PICK d \in BOOLEAN, j \in 0 .. k :
              g[m] = Decoded(d, ts, j) /\ (d \/ j % 4 = 0 \/ j = Len(ts))
      BY <1>1, <3>1 DEF Shows
    <3>3. j \in 0 .. c
      BY <1>2
    <3>. QED  BY <1>4, <3>1, <3>2, <3>3
  <2>. QED  BY <2>1, <2>2
<1>8. Shows(h, x, ts, c)
  BY <1>3, <1>5, <1>6, <1>7 DEF Shows
<1>. QED  BY <1>3, <1>4, <1>8 DEF ShowsTo, x

\* What the tokens do to a decoder without an error.
LEMMA DecodeCases ==
    ASSUME NEW ts \in Seq(Letter), NEW k \in 0 .. Len(ts)
    PROVE  /\ DecodeToken(Decoded(FALSE, ts, k), <<"pre">>) = Decoded(TRUE, ts, k)
           /\ DecodeToken(Decoded(TRUE, ts, k), <<"/pre">>) = Decoded(FALSE, ts, k)
           /\ \A a \in BOOLEAN : /\ DecodeToken(Decoded(a, ts, k), <<"space">>) = Decoded(a, ts, k)
                                 /\ DecodeToken(Decoded(a, ts, k), <<"markup">>) = Decoded(a, ts, k)
           /\ k < Len(ts) => DecodeToken(Decoded(TRUE, ts, k), ts[k + 1]) = Decoded(TRUE, ts, k + 1)
<1>. DEFINE d(a) == Decoded(a, ts, k)
<1>1. \A a \in BOOLEAN : d(a).err = "nil" /\ d(a).active = a /\ d(a).out = SubSeq(ts, 1, k)
  BY DEF Decoded
<1>0. \A a : d(a) = [active |-> a, out |-> SubSeq(ts, 1, k), err |-> "nil"]
  BY DEF Decoded
<1>. HIDE DEF d
<1>2. ASSUME NEW a, NEW b PROVE [d(a) EXCEPT !.active = b] = d(b)
  <2>. DEFINE e == d(a)
              o == SubSeq(ts, 1, k)
  <2>1. e = [active |-> a, out |-> o, err |-> "nil"]
    BY <1>0
  <2>. HIDE DEF e, o
  <2>2. [e EXCEPT !.active = b] = [active |-> b, out |-> o, err |-> "nil"]
    BY <2>1
  <2>. QED  BY <1>0, <2>2 DEF e, o
<1>7. ASSUME NEW a, NEW x
      PROVE  [d(a) EXCEPT !.out = Append(@, x)]
             = [active |-> a, out |-> Append(SubSeq(ts, 1, k), x), err |-> "nil"]
  <2>. DEFINE e == d(a)
              o == SubSeq(ts, 1, k)
  <2>1. e = [active |-> a, out |-> o, err |-> "nil"]
    BY <1>0
  <2>. HIDE DEF e, o
  <2>. DEFINE y == Append(o, x)
  <2>2. e.out = o
    BY <2>1
  <2>. HIDE DEF y
  <2>3. [e EXCEPT !.out = y] = [active |-> a, out |-> y, err |-> "nil"]
    BY <2>1
  <2>. QED  BY <2>2, <2>3, Zenon DEF e, o, y
<1>3. DecodeToken(d(FALSE), <<"pre">>) = d(TRUE)
  <2>1. DecodeToken(d(FALSE), <<"pre">>) = [d(FALSE) EXCEPT !.active = TRUE]
    BY <1>1 DEF DecodeToken
  <2>. QED  BY <1>2, <2>1
<1>4. DecodeToken(d(TRUE), <<"/pre">>) = d(FALSE)
  <2>1. DecodeToken(d(TRUE), <<"/pre">>) = [d(TRUE) EXCEPT !.active = FALSE]
    BY <1>1 DEF DecodeToken
  <2>. QED  BY <1>2, <2>1
<1>5. ASSUME NEW a \in BOOLEAN, NEW x \in {"space", "markup"}
      PROVE  DecodeToken(d(a), <<x>>) = d(a)
  BY <1>1 DEF DecodeToken
<1>6. ASSUME k < Len(ts) PROVE DecodeToken(d(TRUE), ts[k + 1]) = Decoded(TRUE, ts, k + 1)
  <2>1. ts[k + 1] \in Letter
    BY <1>6
  <2>2. ts[k + 1][1] \in {"version", "char"}
    BY <2>1 DEF Letter
  <2>3. DecodeToken(d(TRUE), ts[k + 1]) = [d(TRUE) EXCEPT !.out = Append(@, ts[k + 1])]
    BY <1>1, <2>2 DEF DecodeToken
  <2>4. Append(SubSeq(ts, 1, k), ts[k + 1]) = SubSeq(ts, 1, k + 1)
    BY <1>6
  <2>5. [d(TRUE) EXCEPT !.out = Append(@, ts[k + 1])] = Decoded(TRUE, ts, k + 1)
    BY <1>7, <2>4 DEF Decoded
  <2>. QED  BY <2>3, <2>5
<1>. QED  BY <1>3, <1>4, <1>5, <1>6 DEF d

-----------------------------------------------------------------------------
(* The encoder *)

\* A full element.
PerElement == BytesPerChunk * ChunksPerElement

\* What ArmorAssumption says.
LEMMA ArmorWidths ==
    /\ BytesPerChunk \in Nat \ {0} /\ ChunksPerElement \in Nat \ {0}
    /\ PerElement \in Nat \ {0} /\ PerElement % 4 = 0
BY ArmorAssumption DEF PerElement

\* The texts that follow a text.
LEMMA MoreText ==
    ASSUME NEW ts \in Seq(Letter), NEW text, NEW k, NEW a \in BOOLEAN, ShowsTo(text, ts, k, a)
    PROVE  /\ text \o <<>> = text
           /\ \A t : text \o <<t>> = Append(text, t)
           /\ a => ShowsTo(Append(text, <<"space">>), ts, k, a)
           /\ (a \/ k % 4 = 0 \/ k = Len(ts)) => ShowsTo(Append(text, <<"markup">>), ts, k, a)
           /\ ~ a => ShowsTo(Append(text, <<"pre">>), ts, k, TRUE)
           /\ a /\ (k % 4 = 0 \/ k = Len(ts)) => ShowsTo(Append(text, <<"/pre">>), ts, k, FALSE)
           /\ a /\ k < Len(ts) => ShowsTo(Append(text, ts[k + 1]), ts, k + 1, TRUE)
<1>1. text \in Seq(Token) /\ k \in 0 .. Len(ts) /\ Len(ts) \in Nat /\ k <= k
  BY DEF ShowsTo
<1>2. /\ <<"space">> \in Token /\ <<"markup">> \in Token /\ <<"pre">> \in Token /\ <<"/pre">> \in Token
      /\ Letter \subseteq Token
  BY DEF Token, Letter
<1>3. text \o <<>> = text /\ \A t : text \o <<t>> = Append(text, t)
  BY <1>1
<1>4. ASSUME a PROVE ShowsTo(Append(text, <<"space">>), ts, k, a)
  <2>1. DecodeToken(Decoded(a, ts, k), <<"space">>) = Decoded(a, ts, k)
    BY <1>1, DecodeCases
  <2>. QED  BY <1>1, <1>2, <1>4, <2>1, NextShown
<1>5. ASSUME a \/ k % 4 = 0 \/ k = Len(ts) PROVE ShowsTo(Append(text, <<"markup">>), ts, k, a)
  <2>1. DecodeToken(Decoded(a, ts, k), <<"markup">>) = Decoded(a, ts, k)
    BY <1>1, DecodeCases
  <2>. QED  BY <1>1, <1>2, <1>5, <2>1, NextShown
<1>6. ASSUME ~ a PROVE ShowsTo(Append(text, <<"pre">>), ts, k, TRUE)
  <2>1. DecodeToken(Decoded(FALSE, ts, k), <<"pre">>) = Decoded(TRUE, ts, k)
    BY <1>1, DecodeCases
  <2>2. a = FALSE
    BY <1>6
  <2>. QED  BY <1>1, <1>2, <2>1, <2>2, NextShown
<1>7. ASSUME a, k % 4 = 0 \/ k = Len(ts) PROVE ShowsTo(Append(text, <<"/pre">>), ts, k, FALSE)
  <2>1. DecodeToken(Decoded(TRUE, ts, k), <<"/pre">>) = Decoded(FALSE, ts, k)
    BY <1>1, DecodeCases
  <2>2. a = TRUE
    BY <1>7
  <2>. QED  BY <1>1, <1>2, <1>7, <2>1, <2>2, NextShown
<1>8. ASSUME a, k < Len(ts) PROVE ShowsTo(Append(text, ts[k + 1]), ts, k + 1, TRUE)
  <2>1. DecodeToken(Decoded(TRUE, ts, k), ts[k + 1]) = Decoded(TRUE, ts, k + 1)
    BY <1>1, <1>8, DecodeCases
  <2>2. a = TRUE
    BY <1>8
  <2>3. ts[k + 1] \in Token /\ k + 1 \in 0 .. Len(ts) /\ k <= k + 1
    BY <1>1, <1>2, <1>8
  <2>. QED  BY <2>1, <2>2, <2>3, NextShown
<1>. QED  BY <1>3, <1>4, <1>5, <1>6, <1>7, <1>8

\* The state of an elementEncoder after k bytes.
EncState == [text : Seq(Token), chunk : 0 .. BytesPerChunk - 1, element : 0 .. ChunksPerElement - 1]

Counts(s, k) == \E a \in Nat : k = a * PerElement + s.element * BytesPerChunk + s.chunk

Between(s) == s.element = 0 /\ s.chunk = 0

EncoderAt(s, ts, k) ==
    /\ s \in EncState /\ Counts(s, k)
    /\ ShowsTo(s.text, ts, k, ~ Between(s))

\* The counters after one more byte.
LEMMA CountsNext ==
    ASSUME NEW s \in EncState, NEW k \in Nat, Counts(s, k), NEW t
    PROVE  LET r == ElementWrite(s, t)
           IN  /\ r.chunk \in 0 .. BytesPerChunk - 1 /\ r.element \in 0 .. ChunksPerElement - 1
               /\ Counts(r, k + 1)
<1>. DEFINE r == ElementWrite(s, t)
            chunk == (s.chunk + 1) % BytesPerChunk
            element == (s.element + IF chunk = 0 THEN 1 ELSE 0) % ChunksPerElement
<1>1. r.chunk = chunk /\ r.element = element
  BY DEF ElementWrite
<1>. HIDE DEF r
<1>2. s.chunk \in 0 .. BytesPerChunk - 1 /\ s.element \in 0 .. ChunksPerElement - 1
  BY DEF EncState
<1>3. PICK a \in Nat : k = a * PerElement + s.element * BytesPerChunk + s.chunk
  BY DEF Counts
<1>4. /\ a * PerElement \in Nat /\ s.element * BytesPerChunk \in Nat
      /\ (s.element + 1) * BytesPerChunk = s.element * BytesPerChunk + BytesPerChunk
      /\ (a + 1) * PerElement = a * PerElement + PerElement
  BY <1>2, <1>3, ArmorWidths
<1>5. CASE s.chunk + 1 < BytesPerChunk
  <2>1. chunk = s.chunk + 1 /\ chunk # 0
    BY <1>2, <1>5, ArmorWidths
  <2>2. element = s.element
    BY <1>2, <2>1, ArmorWidths
  <2>3. k + 1 = a * PerElement + r.element * BytesPerChunk + r.chunk
    BY <1>1, <1>2, <1>3, <1>4, <2>1, <2>2
  <2>4. Counts(r, k + 1)
    BY <1>3, <2>3 DEF Counts
  <2>. HIDE DEF chunk, element
  <2>. QED  BY <1>1, <1>2, <1>5, <2>1, <2>2, <2>4, ArmorWidths DEF r
<1>6. CASE s.chunk + 1 = BytesPerChunk
  <2>1. chunk = 0
    BY <1>6, ArmorWidths
  <2>2. element = (s.element + 1) % ChunksPerElement
    BY <2>1
  <2>. HIDE DEF element, chunk
  <2>3. CASE s.element + 1 < ChunksPerElement
    <3>1. element = s.element + 1
      BY <1>2, <2>2, <2>3, ArmorWidths
    <3>2. k + 1 = a * PerElement + r.element * BytesPerChunk + r.chunk
      BY <1>1, <1>2, <1>3, <1>4, <1>6, <2>1, <3>1
    <3>. QED  BY <1>1, <1>2, <1>3, <2>1, <2>3, <3>1, <3>2, ArmorWidths DEF Counts, r
  <2>4. CASE s.element + 1 = ChunksPerElement
    <3>1. element = 0
      BY <2>2, <2>4, ArmorWidths
    <3>2. (s.element + 1) * BytesPerChunk = PerElement /\ 0 * BytesPerChunk = 0
      BY <2>4, ArmorWidths DEF PerElement
    <3>3. k + 1 = (a + 1) * PerElement + r.element * BytesPerChunk + r.chunk
      BY <1>1, <1>2, <1>3, <1>4, <1>6, <2>1, <3>1, <3>2
    <3>4. a + 1 \in Nat
      BY <1>3
    <3>5. Counts(r, k + 1)
      BY <3>3, <3>4 DEF Counts
    <3>. QED  BY <1>1, <2>1, <3>1, <3>5, ArmorWidths DEF r
  <2>. QED  BY <1>2, <2>3, <2>4, ArmorWidths
<1>. QED  BY <1>2, <1>5, <1>6, ArmorWidths

\* Between two elements the number of bytes written is a multiple of four.
LEMMA BetweenCount ==
    ASSUME NEW s \in EncState, NEW k \in Nat, Counts(s, k), Between(s)
    PROVE  k % 4 = 0
<1>1. PICK a \in Nat : k = a * PerElement + s.element * BytesPerChunk + s.chunk
  BY DEF Counts
<1>2. k = a * PerElement
  BY <1>1, ArmorWidths DEF Between
<1>3. PerElement \div 4 \in Nat /\ PerElement = 4 * (PerElement \div 4)
  BY ArmorWidths
<1>. DEFINE q == PerElement \div 4
<1>. HIDE DEF q
<1>4. k = 4 * (a * q) /\ a * q \in Nat
  BY <1>1, <1>2, <1>3 DEF q
<1>. QED  BY <1>4

\* One more byte is written to an elementEncoder.
LEMMA EncoderNext ==
    ASSUME NEW ts \in Seq(Letter), NEW s, NEW k \in Nat, k < Len(ts), EncoderAt(s, ts, k)
    PROVE  EncoderAt(ElementWrite(s, ts[k + 1]), ts, k + 1)
<1>. DEFINE t == ts[k + 1]
            r == ElementWrite(s, t)
            x1 == s.text \o (IF s.element = 0 /\ s.chunk = 0 THEN << <<"pre">> >> ELSE <<>>)
            x2 == x1 \o <<t>>
            x3 == x2 \o (IF r.chunk = 0 THEN << <<"space">> >> ELSE <<>>)
            x4 == x3 \o (IF r.chunk = 0 /\ r.element = 0 THEN << <<"/pre">> >> ELSE <<>>)
<1>1. s \in EncState /\ Counts(s, k) /\ ShowsTo(s.text, ts, k, ~ Between(s))
  BY DEF EncoderAt
<1>2. r.text = x4
  BY DEF ElementWrite
<1>3. /\ r.chunk \in 0 .. BytesPerChunk - 1 /\ r.element \in 0 .. ChunksPerElement - 1
      /\ Counts(r, k + 1)
  BY <1>1, CountsNext
<1>4. r = [text |-> x4, chunk |-> r.chunk, element |-> r.element]
  BY DEF ElementWrite
<1>. HIDE DEF r
<1>5. ShowsTo(x1, ts, k, TRUE)
  <2>1. CASE Between(s)
    <3>1. ShowsTo(s.text, ts, k, FALSE)
      BY <1>1, <2>1
    <3>2. s.text \o << <<"pre">> >> = Append(s.text, <<"pre">>) /\ ShowsTo(Append(s.text, <<"pre">>), ts, k, TRUE)
      BY <3>1, MoreText
    <3>. QED  BY <2>1, <3>2 DEF Between
  <2>2. CASE ~ Between(s)
    <3>1. ShowsTo(s.text, ts, k, TRUE)
      BY <1>1, <2>2
    <3>2. s.text \o <<>> = s.text
      BY <3>1, MoreText
    <3>. QED  BY <2>2, <3>1, <3>2 DEF Between
  <2>. QED  BY <2>1, <2>2
<1>. HIDE DEF x1
<1>6. ShowsTo(x2, ts, k + 1, TRUE)
  <2>1. x1 \o <<t>> = Append(x1, t)
    BY <1>5, MoreText
  <2>2. ShowsTo(Append(x1, ts[k + 1]), ts, k + 1, TRUE)
    BY <1>5, MoreText
  <2>. QED  BY <2>1, <2>2
<1>. HIDE DEF x2
<1>7. ShowsTo(x3, ts, k + 1, TRUE)
  <2>1. CASE r.chunk = 0
    BY <1>6, <2>1, MoreText
  <2>2. CASE r.chunk # 0
    BY <1>6, <2>2, MoreText
  <2>. QED  BY <2>1, <2>2
<1>. HIDE DEF x3
<1>8. x3 \in Seq(Token)
  BY <1>7 DEF ShowsTo
<1>9. k + 1 \in Nat
  OBVIOUS
<1>10. CASE Between(r)
  <2>1. x4 = Append(x3, <<"/pre">>)
    BY <1>7, <1>10, MoreText DEF Between
  <2>2. x4 \in Seq(Token)
    <3>1. <<"/pre">> \in Token
      BY DEF Token
    <3>. QED  BY <1>8, <2>1, <3>1
  <2>. HIDE DEF x4
  <2>3. r \in EncState
    BY <1>3, <1>4, <2>2 DEF EncState
  <2>4. (k + 1) % 4 = 0
    BY <1>3, <1>9, <1>10, <2>3, BetweenCount
  <2>5. ShowsTo(x4, ts, k + 1, FALSE)
    BY <1>7, <2>1, <2>4, MoreText
  <2>6. (~ Between(r)) = FALSE
    BY <1>10
  <2>7. EncoderAt(r, ts, k + 1)
    BY <1>2, <1>3, <2>3, <2>5, <2>6 DEF EncoderAt
  <2>. QED  BY <2>7 DEF r
<1>11. CASE ~ Between(r)
  <2>1. x4 = x3
    BY <1>7, <1>11, MoreText DEF Between
  <2>. HIDE DEF x4
  <2>2. r \in EncState
    BY <1>3, <1>4, <1>8, <2>1 DEF EncState
  <2>3. ShowsTo(x4, ts, k + 1, TRUE)
    BY <1>7, <2>1
  <2>4. (~ Between(r)) = TRUE
    BY <1>11
  <2>5. EncoderAt(r, ts, k + 1)
    BY <1>2, <1>3, <2>2, <2>3, <2>4 DEF EncoderAt
  <2>. QED  BY <2>5 DEF r
<1>. QED  BY <1>10, <1>11

\* The states of an elementEncoder.
EncoderRun(h, ts) ==
    /\ h[0] = [text |-> <<>>, chunk |-> 0, element |-> 0]
    /\ \A k \in 1 .. Len(ts) : h[k] = ElementWrite(h[k - 1], ts[k])

\* A letter leads from one state of the encoder to another.
LEMMA ElementWriteState ==
    ASSUME NEW s \in EncState, NEW t \in Letter
    PROVE  ElementWrite(s, t) \in EncState
<1>. DEFINE chunk == (s.chunk + 1) % BytesPerChunk
            element == (s.element + IF chunk = 0 THEN 1 ELSE 0) % ChunksPerElement
<1>1. s.chunk \in Nat /\ s.element \in Nat /\ s.text \in Seq(Token)
  BY DEF EncState
<1>2. chunk \in 0 .. BytesPerChunk - 1 /\ element \in 0 .. ChunksPerElement - 1
  <2>1. s.chunk + 1 \in Nat /\ s.element + (IF chunk = 0 THEN 1 ELSE 0) \in Nat
    BY <1>1
  <2>. QED  BY <2>1, DivModOf, ArmorWidths
<1>3. t \in Token /\ <<"pre">> \in Token /\ <<"space">> \in Token /\ <<"/pre">> \in Token
  BY DEF Letter, Token
<1>. HIDE DEF chunk, element
<1>. DEFINE text == s.text
                  \o (IF s.element = 0 /\ s.chunk = 0 THEN << <<"pre">> >> ELSE <<>>)
                  \o <<t>>
                  \o (IF chunk = 0 THEN << <<"space">> >> ELSE <<>>)
                  \o (IF chunk = 0 /\ element = 0 THEN << <<"/pre">> >> ELSE <<>>)
<1>4. text \in Seq(Token)
  <2>1. << <<"pre">> >> \in Seq(Token) /\ << <<"space">> >> \in Seq(Token)
        /\ << <<"/pre">> >> \in Seq(Token) /\ <<t>> \in Seq(Token) /\ <<>> \in Seq(Token)
    BY <1>3
  <2>2. \A x, y \in Seq(Token) : x \o y \in Seq(Token)
    OBVIOUS
  <2>. QED  BY <1>1, <2>1, <2>2, Zenon
<1>5. ElementWrite(s, t) = [text |-> text, chunk |-> chunk, element |-> element]
  BY DEF ElementWrite, chunk, element
<1>. HIDE DEF text
<1>. QED  BY <1>2, <1>4, <1>5 DEF EncState

\* Elements is what the encoder has written in the end.
LEMMA ElementsUnfold ==
    ASSUME NEW ts \in Seq(Letter)
    PROVE  \E h : EncoderRun(h, ts) /\ Elements(ts) = ElementClose(h[Len(ts)])
<1>. DEFINE n == Len(ts)
            start == [text |-> <<>>, chunk |-> 0, element |-> 0]
            IsLoop(f) == f = [k \in 0 .. n |-> IF k = 0 THEN start ELSE ElementWrite(f[k - 1], ts[k])]
            G == [i \in 1 .. n |-> [s \in EncState |-> ElementWrite(s, ts[i])]]
<1>1. start \in EncState /\ n \in Nat
  <2>1. <<>> \in Seq(Token)
    OBVIOUS
  <2>. QED  BY <2>1, ArmorWidths DEF EncState
<1>2. \A i \in 1 .. n, s \in EncState : G[i][s] = ElementWrite(s, ts[i]) /\ G[i][s] \in EncState
  BY ElementWriteState
<1>. HIDE DEF G, start
<1>3. PICK e : IsFold(e, G, start, EncState, n)
  BY <1>1, <1>2, FoldExists
<1>4. IsLoop(e)
  <2>1. ASSUME NEW k \in 0 .. n PROVE e[k] = IF k = 0 THEN start ELSE ElementWrite(e[k - 1], ts[k])
    <3>1. CASE k = 0
      BY <1>3, <3>1 DEF IsFold
    <3>2. CASE k # 0
      <4>1. k \in 1 .. n /\ k - 1 \in 0 .. n
        BY <3>2
      <4>. QED  BY <1>2, <1>3, <3>2, <4>1 DEF IsFold
    <3>. QED  BY <3>1, <3>2
  <2>2. e = [k \in 0 .. n |-> e[k]]
    BY <1>3 DEF IsFold
  <2>. QED  BY <2>1, <2>2
<1>5. PICK h : IsLoop(h) /\ Elements(ts) = ElementClose(h[n])
  BY <1>4, Zenon DEF Elements, start
<1>6. \A k \in 0 .. n : h[k] = IF k = 0 THEN start ELSE ElementWrite(h[k - 1], ts[k])
  BY <1>5, Zenon
<1>7. EncoderRun(h, ts)
  BY <1>1, <1>6 DEF EncoderRun, start
<1>. QED  BY <1>5, <1>7

\* The encoder's state after each byte.
LEMMA EncoderStates ==
    ASSUME NEW ts \in Seq(Letter), NEW h, EncoderRun(h, ts)
    PROVE  EncoderAt(h[Len(ts)], ts, Len(ts))
<1>. DEFINE U == {k \in Nat : k <= Len(ts) => EncoderAt(h[k], ts, k)}
<1>0. Len(ts) \in Nat
  OBVIOUS
<1>1. 0 \in U
  <2>. DEFINE x == <<>>
  <2>1. ShowsTo(x, ts, 0, FALSE)
    BY NothingShown
  <2>2. x \in Seq(Token)
    OBVIOUS
  <2>. HIDE DEF x
  <2>3. h[0] = [text |-> x, chunk |-> 0, element |-> 0]
    BY DEF EncoderRun, x
  <2>4. h[0] \in EncState
    BY <2>2, <2>3, ArmorWidths DEF EncState
  <2>5. Between(h[0]) /\ (~ Between(h[0])) = FALSE /\ h[0].text = x
    BY <2>3 DEF Between
  <2>6. Counts(h[0], 0)
    <3>1. 0 = 0 * PerElement + h[0].element * BytesPerChunk + h[0].chunk
      BY <2>3, ArmorWidths
    <3>. QED  BY <3>1 DEF Counts
  <2>7. EncoderAt(h[0], ts, 0)
    BY <2>1, <2>4, <2>5, <2>6 DEF EncoderAt
  <2>. QED  BY <2>7
<1>2. ASSUME NEW k \in Nat, k \in U PROVE k + 1 \in U
  <2>. SUFFICES ASSUME k + 1 <= Len(ts) PROVE EncoderAt(h[k + 1], ts, k + 1)
    OBVIOUS
  <2>1. k < Len(ts) /\ k + 1 \in 1 .. Len(ts) /\ (k + 1) - 1 = k
    BY <1>0
  <2>2. EncoderAt(h[k], ts, k)
    BY <1>0, <1>2, <2>1
  <2>3. h[k + 1] = ElementWrite(h[k], ts[k + 1])
    BY <2>1 DEF EncoderRun
  <2>. QED  BY <2>1, <2>2, <2>3, EncoderNext
<1>. HIDE DEF U
<1>3. Nat \subseteq U
  BY <1>1, <1>2, NatAll
<1>. QED  BY <1>0, <1>3 DEF U

\* The elements show everything that was written to the encoder.
LEMMA ElementsShow ==
    ASSUME NEW ts \in Seq(Letter)
    PROVE  ShowsTo(Elements(ts), ts, Len(ts), FALSE)
<1>1. PICK h : EncoderRun(h, ts) /\ Elements(ts) = ElementClose(h[Len(ts)])
  BY ElementsUnfold
<1>. DEFINE s == h[Len(ts)]
            k == Len(ts)
<1>2. EncoderAt(s, ts, k)
  BY <1>1, EncoderStates
<1>. HIDE DEF s
<1>3. CASE Between(s)
  <2>1. ShowsTo(s.text, ts, k, FALSE)
    BY <1>2, <1>3 DEF EncoderAt
  <2>2. ElementClose(s) = s.text
    BY <1>3 DEF ElementClose, Between
  <2>. QED  BY <1>1, <2>1, <2>2 DEF s
<1>4. CASE ~ Between(s)
  <2>1. ShowsTo(s.text, ts, k, TRUE)
    BY <1>2, <1>4 DEF EncoderAt
  <2>. DEFINE x == s.text \o (IF s.chunk = 0 THEN <<>> ELSE << <<"space">> >>)
  <2>2. ElementClose(s) = x \o << <<"/pre">> >>
    BY <1>4 DEF ElementClose, Between
  <2>3. ShowsTo(x, ts, k, TRUE)
    <3>1. s.text \o <<>> = s.text /\ s.text \o << <<"space">> >> = Append(s.text, <<"space">>)
      BY <2>1, MoreText
    <3>2. ShowsTo(Append(s.text, <<"space">>), ts, k, TRUE)
      BY <2>1, MoreText
    <3>3. CASE s.chunk = 0
      BY <2>1, <3>1, <3>3
    <3>4. CASE s.chunk # 0
      BY <3>1, <3>2, <3>4
    <3>. QED  BY <3>3, <3>4
  <2>. HIDE DEF x
  <2>4. x \o << <<"/pre">> >> = Append(x, <<"/pre">>)
    BY <2>3, MoreText
  <2>5. ShowsTo(Append(x, <<"/pre">>), ts, k, FALSE)
    BY <2>3, MoreText
  <2>. QED  BY <1>1, <2>2, <2>4, <2>5 DEF s
<1>. QED  BY <1>3, <1>4

\* Markup in front of a text changes nothing.
LEMMA MarkupInFront ==
    ASSUME NEW ts \in Seq(Letter), NEW text, NEW k, ShowsTo(text, ts, k, FALSE)
    PROVE  ShowsTo(<< <<"markup">> >> \o text, ts, k, FALSE)
<1>. DEFINE n == Len(text)
            t == <<"markup">>
            x == <<t>> \o text
<1>1. PICK g : Shows(g, text, ts, k) /\ g[n] = Decoded(FALSE, ts, k)
  BY DEF ShowsTo
<1>2. text \in Seq(Token) /\ k \in 0 .. Len(ts) /\ n \in Nat /\ Len(ts) \in Nat
  BY DEF ShowsTo
<1>3. t \in Token
  BY DEF Token
<1>4. DecodeToken(Decoded(FALSE, ts, 0), t) = Decoded(FALSE, ts, 0)
  <2>1. 0 \in 0 .. Len(ts) /\ FALSE \in BOOLEAN
    BY <1>2
  <2>. QED  BY <2>1, DecodeCases
<1>. HIDE DEF t
<1>5. /\ x \in Seq(Token) /\ Len(x) = n + 1 /\ x[1] = t
      /\ \A m \in 2 .. n + 1 : x[m] = text[m - 1]
  BY <1>2, <1>3
<1>. DEFINE h == [m \in 0 .. n + 1 |-> IF m = 0 THEN Decoded(FALSE, ts, 0) ELSE g[m - 1]]
<1>6. h[0] = Decoded(FALSE, ts, 0) /\ \A m \in 1 .. n + 1 : h[m] = g[m - 1]
  BY <1>2
<1>. HIDE DEF h, x
<1>7. g[0] = Decoded(FALSE, ts, 0)
  BY <1>1, Zenon DEF Shows
<1>8. ASSUME NEW m \in 1 .. n + 1 PROVE h[m] = DecodeToken(h[m - 1], x[m])
  <2>1. CASE m = 1
    <3>1. m - 1 = 0
      BY <2>1
    <3>. QED  BY <1>4, <1>5, <1>6, <1>7, <2>1, <3>1
  <2>2. CASE m # 1
    <3>1. m \in 2 .. n + 1 /\ m - 1 \in 1 .. n /\ m - 1 \in 1 .. n + 1
      BY <1>2, <2>2
    <3>2. g[m - 1] = DecodeToken(g[(m - 1) - 1], text[m - 1])
      BY <1>1, <3>1 DEF Shows
    <3>. QED  BY <1>5, <1>6, <3>1, <3>2
  <2>. QED  BY <2>1, <2>2
<1>9. ASSUME NEW m \in 0 .. n + 1
      PROVE  \E d \in BOOLEAN, j \in 0 .. k :
                 h[m] = Decoded(d, ts, j) /\ (d \/ j % 4 = 0 \/ j = Len(ts))
  <2>1. CASE m = 0
    <3>1. 0 \in 0 .. k /\ 0 % 4 = 0 /\ FALSE \in BOOLEAN
      BY <1>2
    <3>. QED  BY <1>6, <2>1, <3>1
  <2>2. CASE m # 0
    <3>1. m \in 1 .. n + 1 /\ m - 1 \in 0 .. n
      BY <1>2, <2>2
    <3>2. PICK d \in BOOLEAN, j \in 0 .. k :
              g[m - 1] = Decoded(d, ts, j) /\ (d \/ j % 4 = 0 \/ j = Len(ts))
      BY <1>1, <3>1 DEF Shows
    <3>. QED  BY <1>6, <3>1, <3>2
  <2>. QED  BY <2>1, <2>2
<1>10. Shows(h, x, ts, k)
  BY <1>5, <1>6, <1>8, <1>9 DEF Shows
<1>11. h[Len(x)] = Decoded(FALSE, ts, k)
  <2>1. n + 1 \in 1 .. n + 1 /\ (n + 1) - 1 = n
    BY <1>2
  <2>. QED  BY <1>1, <1>5, <1>6, <2>1
<1>12. ShowsTo(x, ts, k, FALSE)
  BY <1>2, <1>5, <1>10, <1>11 DEF ShowsTo
<1>. QED  BY <1>12 DEF x, t

-----------------------------------------------------------------------------
(* The decoder *)

\* The decoder of the first m tokens of a text.
LEMMA DecodesAPart ==
    ASSUME NEW ts \in Seq(Letter), NEW text, NEW k, NEW a, ShowsTo(text, ts, k, a), NEW m \in 0 .. Len(text)
    PROVE  \E d \in BOOLEAN, c \in 0 .. Len(ts) :
               /\ decodeToWriter(SubSeq(text, 1, m)) = DecodeEnd(Decoded(d, ts, c))
               /\ d \/ c % 4 = 0 \/ c = Len(ts)
<1>. DEFINE x == SubSeq(text, 1, m)
            start == [active |-> FALSE, out |-> <<>>, err |-> "nil"]
            IsLoop(f, y) == f = [j \in 0 .. Len(y) |-> IF j = 0 THEN start ELSE DecodeToken(f[j - 1], y[j])]
<1>1. PICK g : Shows(g, text, ts, k)
  BY DEF ShowsTo
<1>2. text \in Seq(Token) /\ k \in 0 .. Len(ts) /\ m \in Nat /\ Len(ts) \in Nat
  BY DEF ShowsTo
<1>3. x \in Seq(Token) /\ Len(x) = m /\ \A j \in 1 .. m : x[j] = text[j]
  BY <1>2
<1>4. Decoded(FALSE, ts, 0) = start
  <2>1. SubSeq(ts, 1, 0) = <<>>
    OBVIOUS
  <2>. QED  BY <2>1 DEF Decoded
<1>. HIDE DEF start
<1>5. g[0] = start
  BY <1>1, <1>4, Zenon DEF Shows
<1>6. \A j \in 1 .. m : g[j] = DecodeToken(g[j - 1], x[j])
  <2>1. \A j \in 1 .. m : j \in 1 .. Len(text)
    BY <1>2
  <2>. QED  BY <1>1, <1>3, <2>1 DEF Shows
<1>. DEFINE e == [j \in 0 .. m |-> g[j]]
<1>7. IsLoop(e, x)
  <2>1. ASSUME NEW j \in 0 .. m PROVE e[j] = IF j = 0 THEN start ELSE DecodeToken(e[j - 1], x[j])
    <3>1. CASE j = 0
      BY <1>5, <3>1
    <3>2. CASE j # 0
      <4>1. j \in 1 .. m /\ j - 1 \in 0 .. m
        BY <1>2, <3>2
      <4>. HIDE DEF x
      <4>. QED  BY <1>6, <3>2, <4>1
    <3>. QED  BY <3>1, <3>2
  <2>2. e = [j \in 0 .. m |-> e[j]]
    OBVIOUS
  <2>. HIDE DEF e, x
  <2>. QED  BY <1>3, <2>1, <2>2
<1>. HIDE DEF e, x
<1>8. PICK f : IsLoop(f, x) /\ decodeToWriter(x) = DecodeEnd(f[Len(x)])
  BY <1>7, Zenon DEF decodeToWriter, start
<1>9. \A j \in 0 .. m : f[j] = IF j = 0 THEN start ELSE DecodeToken(f[j - 1], x[j])
  BY <1>3, <1>8, Zenon
<1>10. f[m] = g[m]
  <2>. DEFINE U == {j \in Nat : j <= m => f[j] = g[j]}
  <2>1. 0 \in U
    BY <1>2, <1>5, <1>9
  <2>2. ASSUME NEW j \in Nat, j \in U PROVE j + 1 \in U
    <3>. SUFFICES ASSUME j + 1 <= m PROVE f[j + 1] = g[j + 1]
      OBVIOUS
    <3>1. j + 1 \in 1 .. m /\ j + 1 \in 0 .. m /\ j + 1 # 0 /\ (j + 1) - 1 = j /\ f[j] = g[j]
      BY <1>2, <2>2
    <3>. QED  BY <1>6, <1>9, <3>1
  <2>. HIDE DEF U
  <2>3. Nat \subseteq U
    BY <2>1, <2>2, NatAll
  <2>. QED  BY <1>2, <2>3 DEF U
<1>11. PICK d \in BOOLEAN, c \in 0 .. k : g[m] = Decoded(d, ts, c) /\ (d \/ c % 4 = 0 \/ c = Len(ts))
  BY <1>1 DEF Shows
<1>12. c \in 0 .. Len(ts)
  BY <1>2
<1>13. decodeToWriter(x) = DecodeEnd(Decoded(d, ts, c))
  BY <1>3, <1>8, <1>10, <1>11
<1>. QED  BY <1>11, <1>12, <1>13 DEF x

-----------------------------------------------------------------------------
(* Base64 *)

Quanta(s) == (Len(s) + 2) \div 3

\* The bytes of the first i quanta of s.
QuantaBytes(s, i) == SubSeq(s, 1, IF 3 * i < Len(s) THEN 3 * i ELSE Len(s))

\* The base64 encoding of a sequence of bytes.
LEMMA Base64Facts ==
    ASSUME NEW s \in Seq(Nat)
    PROVE  /\ Quanta(s) \in Nat /\ 3 * Quanta(s) >= Len(s) /\ 3 * Quanta(s) <= Len(s) + 2
           /\ Base64(s) \in Seq(Letter) /\ Len(Base64(s)) = 4 * Quanta(s)
           /\ \A i \in 1 .. Quanta(s) : Base64(s)[4 * i][2] = Quantum(s, i)
<1>. DEFINE Q == Quanta(s)
            b(k) == <<"char", Quantum(s, (k + 3) \div 4), (k - 1) % 4>>
<1>1. Len(s) \in Nat
  OBVIOUS
<1>2. Q \in Nat /\ 3 * Q >= Len(s) /\ 3 * Q <= Len(s) + 2
  BY <1>1 DEF Quanta
<1>3. Base64(s) = [k \in 1 .. 4 * Q |-> b(k)]
  BY DEF Base64, Quanta
<1>. HIDE DEF Q
<1>4. ASSUME NEW k \in 1 .. 4 * Q PROVE b(k) \in Letter
  <2>. DEFINE i == (k + 3) \div 4
              r == (k - 1) % 4
  <2>1. i \in 1 .. Q /\ r \in 0 .. 3
    BY <1>2
  <2>. HIDE DEF i, r
  <2>2. Quantum(s, i) \in Seq(Nat)
    BY <1>1, <1>2, <2>1 DEF Quantum
  <2>3. <<"char", Quantum(s, i), r>> \in Letter
    BY <2>1, <2>2 DEF Letter
  <2>. QED  BY <2>3 DEF i, r
<1>5. 4 * Q \in Nat
  BY <1>2
<1>. HIDE DEF b
<1>6. Base64(s) \in Seq(Letter) /\ Len(Base64(s)) = 4 * Q
  BY <1>3, <1>4, <1>5
<1>7. ASSUME NEW i \in 1 .. Q PROVE Base64(s)[4 * i][2] = Quantum(s, i)
  <2>1. 4 * i \in 1 .. 4 * Q /\ (4 * i + 3) \div 4 = i
    BY <1>2
  <2>2. Base64(s)[4 * i] = b(4 * i)
    BY <1>3, <2>1
  <2>3. b(4 * i)[2] = Quantum(s, (4 * i + 3) \div 4)
    BY DEF b
  <2>. QED  BY <2>1, <2>2, <2>3
<1>. QED  BY <1>2, <1>6, <1>7 DEF Q

\* One more quantum.
LEMMA QuantumNext ==
    ASSUME NEW s \in Seq(Nat), NEW i \in 1 .. Quanta(s)
    PROVE  QuantaBytes(s, i - 1) \o Quantum(s, i) = QuantaBytes(s, i)
<1>1. Len(s) \in Nat /\ 3 * i <= Len(s) + 2 /\ i \in Nat /\ i >= 1
  BY Base64Facts
<1>. DEFINE a == 3 * (i - 1)
            c == IF 3 * i < Len(s) THEN 3 * i ELSE Len(s)
<1>2. a \in Nat /\ c \in Nat /\ a < Len(s) /\ a <= c /\ c <= Len(s) /\ 3 * i - 2 = a + 1
  BY <1>1
<1>3. QuantaBytes(s, i - 1) = SubSeq(s, 1, a)
  BY <1>2 DEF QuantaBytes
<1>4. Quantum(s, i) = SubSeq(s, a + 1, c) /\ QuantaBytes(s, i) = SubSeq(s, 1, c)
  BY <1>2 DEF Quantum, QuantaBytes
<1>. HIDE DEF a, c
<1>5. SubSeq(s, 1, a) \o SubSeq(s, a + 1, c) = SubSeq(s, 1, c)
  BY <1>2, PartsJoin
<1>. QED  BY <1>3, <1>4, <1>5

\* The first j characters decode to the quanta they complete.
LEMMA Base64Decodes ==
    ASSUME NEW s \in Seq(Nat), NEW j \in 0 .. 4 * Quanta(s), NEW e
    PROVE  /\ j \div 4 \in 0 .. Quanta(s)
           /\ Base64Decoder(SubSeq(Base64(s), 1, j), e).bytes = QuantaBytes(s, j \div 4)
<1>. DEFINE cs == SubSeq(Base64(s), 1, j)
            q == j \div 4
            ss == [i \in 1 .. Len(cs) \div 4 |-> cs[4 * i][2]]
            p == [i \in 0 .. q |-> QuantaBytes(s, i)]
<1>1. Quanta(s) \in Nat /\ j \in Nat /\ j <= 4 * Quanta(s)
  BY Base64Facts
<1>2. q \in 0 .. Quanta(s) /\ 4 * q <= j /\ q \in Nat
  BY <1>1
<1>3. Len(cs) = j /\ \A i \in 1 .. j : cs[i] = Base64(s)[i]
  BY <1>1, Base64Facts
<1>4. Base64Decoder(cs, e).bytes = Concat(ss)
  BY DEF Base64Decoder
<1>. HIDE DEF cs
<1>5. ss = [i \in 1 .. q |-> cs[4 * i][2]]
  BY <1>3
<1>6. Len(ss) = q /\ \A i \in 1 .. q : ss[i] = Quantum(s, i)
  <2>1. ASSUME NEW i \in 1 .. q PROVE cs[4 * i][2] = Quantum(s, i)
    <3>1. 4 * i \in 1 .. j /\ i \in 1 .. Quanta(s)
      BY <1>1, <1>2
    <3>. QED  BY <1>3, <3>1, Base64Facts
  <2>. HIDE DEF ss, q
  <2>. QED  BY <1>2, <1>5, <2>1
<1>. HIDE DEF ss, q
<1>7. IsConcatenation(p, ss)
  <2>1. p[0] = <<>>
    <3>1. QuantaBytes(s, 0) = <<>>
      BY DEF QuantaBytes
    <3>. QED  BY <1>2, <3>1
  <2>2. ASSUME NEW i \in 1 .. q PROVE p[i] = p[i - 1] \o ss[i]
    <3>1. i \in 0 .. q /\ i - 1 \in 0 .. q /\ i \in 1 .. Quanta(s)
      BY <1>1, <1>2
    <3>2. p[i] = QuantaBytes(s, i) /\ p[i - 1] = QuantaBytes(s, i - 1)
      BY <3>1
    <3>. HIDE DEF p
    <3>. QED  BY <1>6, <3>1, <3>2, QuantumNext
  <2>. HIDE DEF p
  <2>. QED  BY <1>6, <2>1, <2>2 DEF IsConcatenation
<1>8. p[q] = QuantaBytes(s, q)
  BY <1>2
<1>. HIDE DEF p
<1>9. Concat(ss) = p[q]
  BY <1>2, <1>6, <1>7, ConcatIs
<1>. QED  BY <1>2, <1>4, <1>8, <1>9 DEF cs, q

-----------------------------------------------------------------------------
(* Armor, whole or cut off *)

\* The decoder's bytes are a part of s, all of it if it ends with "EOF".
DecodesTo(dec, s) ==
    \E n \in 0 .. Len(s) :
        /\ dec.bytes = SubSeq(s, 1, n) /\ dec.refused \in BOOLEAN /\ dec.tail # "nil"
        /\ dec.tail = "EOF" => n = Len(s) /\ ~ dec.refused
        /\ dec.refused => n = 0

\* The armor shows the version and the base64 of the bytes.
LEMMA ArmorShows ==
    ASSUME NEW s \in Seq(Nat)
    PROVE  LET ts == << <<"version">> >> \o Base64(s)
           IN  ts \in Seq(Letter) /\ ShowsTo(Armored(s), ts, Len(ts), FALSE)
<1>. DEFINE ts == << <<"version">> >> \o Base64(s)
            b == Base64(s)
<1>1. <<"version">> \in Letter /\ b \in Seq(Letter)
  BY Base64Facts DEF Letter
<1>2. ts \in Seq(Letter)
  <2>. HIDE DEF b
  <2>1. << <<"version">> >> \o b \in Seq(Letter)
    BY <1>1
  <2>. QED  BY <2>1 DEF b
<1>3. Armored(s) = (<< <<"markup">> >> \o Elements(ts)) \o << <<"markup">> >>
  BY DEF Armored
<1>. HIDE DEF ts
<1>. DEFINE x == << <<"markup">> >> \o Elements(ts)
<1>4. ShowsTo(x, ts, Len(ts), FALSE)
  BY <1>2, ElementsShow, MarkupInFront
<1>. HIDE DEF x
<1>5. x \o << <<"markup">> >> = Append(x, <<"markup">>)
  BY <1>2, <1>4, MoreText
<1>6. ShowsTo(Append(x, <<"markup">>), ts, Len(ts), FALSE)
  BY <1>2, <1>4, MoreText
<1>7. ShowsTo(Armored(s), ts, Len(ts), FALSE)
  BY <1>3, <1>5, <1>6 DEF x
<1>. QED  BY <1>2, <1>7 DEF ts

\* The tail of a decoder is never "nil".
LEMMA TailNotNil ==
    ASSUME NEW text
    PROVE  NewDecoder(text).tail # "nil" /\ NewDecoder(text).refused \in BOOLEAN
<1>1. ASSUME NEW cs, NEW e PROVE Base64Decoder(cs, e).tail # "nil" /\ Base64Decoder(cs, e).refused = FALSE
  <2>1. CASE e # "nil"
    BY <2>1 DEF Base64Decoder
  <2>2. CASE e = "nil"
    BY <2>2 DEF Base64Decoder
  <2>. QED  BY <2>1, <2>2
<1>. DEFINE o == decodeToWriter(text).out
<1>2. CASE o = <<>> \/ o[1] # <<"version">>
  <2>1. NewDecoder(text) = [bytes |-> <<>>, tail |-> "NewDecoder", refused |-> TRUE]
    BY <1>2, Zenon DEF NewDecoder
  <2>. QED  BY <2>1
<1>3. CASE ~ (o = <<>> \/ o[1] # <<"version">>)
  <2>1. NewDecoder(text) = Base64Decoder(Tail(o), decodeToWriter(text).err)
    BY <1>3, Zenon DEF NewDecoder
  <2>. HIDE DEF o
  <2>. QED  BY <1>1, <2>1
<1>. QED  BY <1>2, <1>3

\* Numbers of characters.
LEMMA Fours ==
    /\ \A j \in Nat : j % 4 = 0 => (j + 1) % 4 # 0
    /\ \A q \in Nat : (4 * q) \div 4 = q
OBVIOUS

\* The bytes of a decoder that has read the first c tokens of the armor of s.
LEMMA DecoderAt ==
    ASSUME NEW s \in Seq(Nat), NEW text, NEW d \in BOOLEAN,
           NEW c \in 0 .. 4 * Quanta(s) + 1,
           decodeToWriter(text) = DecodeEnd(Decoded(d, << <<"version">> >> \o Base64(s), c)),
           d \/ c % 4 = 0 \/ c = 4 * Quanta(s) + 1
    PROVE  DecodesTo(NewDecoder(text), s)
<1>. DEFINE v == <<"version">>
            b == Base64(s)
            ts == <<v>> \o b
            o == decodeToWriter(text).out
            e == decodeToWriter(text).err
            dec == NewDecoder(text)
<1>1. dec.tail # "nil" /\ dec.refused \in BOOLEAN
  BY TailNotNil
<1>2. /\ Quanta(s) \in Nat /\ 3 * Quanta(s) >= Len(s) /\ Len(s) \in Nat
      /\ b \in Seq(Letter) /\ Len(b) = 4 * Quanta(s) /\ v \in Letter
  BY Base64Facts DEF Letter
<1>3. o = SubSeq(ts, 1, c) /\ e = IF d THEN "missing" ELSE "nil"
  <2>. DEFINE y == SubSeq(ts, 1, c)
              r == Decoded(d, ts, c)
  <2>1. r = [active |-> d, out |-> y, err |-> "nil"]
    BY DEF Decoded
  <2>. HIDE DEF r, y
  <2>2. DecodeEnd(r).out = y /\ DecodeEnd(r).err = IF d THEN "missing" ELSE "nil"
    <3>1. CASE d
      <4>1. DecodeEnd(r) = [r EXCEPT !.err = "missing"]
        BY <2>1, <3>1 DEF DecodeEnd
      <4>2. [r EXCEPT !.err = "missing"] = [active |-> d, out |-> y, err |-> "missing"]
        BY <2>1
      <4>. QED  BY <3>1, <4>1, <4>2
    <3>2. CASE ~ d
      <4>1. DecodeEnd(r) = r
        BY <2>1, <3>2 DEF DecodeEnd
      <4>. QED  BY <2>1, <3>2, <4>1
    <3>. QED  BY <3>1, <3>2
  <2>. QED  BY <2>2 DEF r, y
<1>. HIDE DEF v, b, o, e
<1>4. CASE c = 0
  <2>1. o = <<>>
    BY <1>3, <1>4
  <2>2. dec = [bytes |-> <<>>, tail |-> "NewDecoder", refused |-> TRUE]
    BY <2>1, Zenon DEF NewDecoder, o
  <2>3. SubSeq(s, 1, 0) = <<>> /\ 0 \in 0 .. Len(s)
    BY <1>2
  <2>4. dec.bytes = <<>> /\ dec.tail = "NewDecoder" /\ "NewDecoder" # "EOF"
    BY <2>2
  <2>. HIDE DEF dec
  <2>5. DecodesTo(dec, s)
    BY <1>1, <2>3, <2>4 DEF DecodesTo
  <2>. QED  BY <2>5 DEF dec
<1>5. CASE c # 0
  <2>. DEFINE j == c - 1
              cs == SubSeq(b, 1, j)
              n == IF 3 * (j \div 4) < Len(s) THEN 3 * (j \div 4) ELSE Len(s)
  <2>1. j \in 0 .. 4 * Quanta(s)
    BY <1>2, <1>5
  <2>2. Len(ts) = 4 * Quanta(s) + 1 /\ ts \in Seq(Letter) /\ ts[1] = v /\ \A i \in 1 .. 4 * Quanta(s) : ts[i + 1] = b[i]
    BY <1>2
  <2>3. o # <<>> /\ o[1] = v /\ Len(o) = c /\ o \in Seq(Letter) /\ \A i \in 1 .. c : o[i] = ts[i]
    <3>. HIDE DEF ts
    <3>1. c \in 1 .. Len(ts)
      BY <1>2, <1>5, <2>2
    <3>2. /\ SubSeq(ts, 1, c) \in Seq(Letter) /\ Len(SubSeq(ts, 1, c)) = c
          /\ \A i \in 1 .. c : SubSeq(ts, 1, c)[i] = ts[i]
      BY <2>2, <3>1
    <3>3. 1 \in 1 .. c
      BY <3>1
    <3>. QED  BY <1>3, <1>5, <2>2, <3>2, <3>3
  <2>4. Tail(o) = cs
    <3>1. Tail(o) \in Seq(Letter) /\ Len(Tail(o)) = j /\ \A i \in 1 .. j : Tail(o)[i] = o[i + 1]
      BY <1>2, <2>1, <2>3
    <3>2. cs \in Seq(Letter) /\ Len(cs) = j /\ \A i \in 1 .. j : cs[i] = b[i]
      BY <1>2, <2>1
    <3>3. ASSUME NEW i \in 1 .. j PROVE Tail(o)[i] = cs[i]
      <4>1. i + 1 \in 1 .. c /\ i \in 1 .. 4 * Quanta(s)
        BY <1>2, <2>1
      <4>. HIDE DEF cs, ts
      <4>. QED  BY <2>2, <2>3, <3>1, <3>2, <4>1
    <3>. HIDE DEF cs
    <3>. QED  BY <3>1, <3>2, <3>3
  <2>5. dec = Base64Decoder(cs, e)
    <3>. HIDE DEF cs
    <3>. QED  BY <2>3, <2>4, Zenon DEF NewDecoder, o, e, v
  <2>6. j \div 4 \in 0 .. Quanta(s) /\ Base64Decoder(cs, e).bytes = QuantaBytes(s, j \div 4)
    BY <2>1, Base64Decodes DEF b
  <2>7. dec.bytes = SubSeq(s, 1, n) /\ n \in 0 .. Len(s)
    <3>1. n \in 0 .. Len(s)
      <4>. DEFINE q == j \div 4
      <4>. HIDE DEF q
      <4>. QED  BY <1>2, <2>6 DEF q
    <3>. QED  BY <2>5, <2>6, <3>1, Zenon DEF QuantaBytes
  <2>8. Len(cs) = j
    BY <1>2, <2>1
  <2>9. ASSUME dec.tail = "EOF" PROVE n = Len(s)
    <3>1. e = "nil" /\ Len(cs) % 4 = 0
      <4>. HIDE DEF cs
      <4>1. CASE e # "nil"
        <5>1. dec.tail = e /\ e = "missing"
          BY <1>3, <2>5, <4>1 DEF Base64Decoder
        <5>. QED  BY <2>9, <5>1
      <4>2. CASE e = "nil" /\ Len(cs) % 4 # 0
        BY <2>5, <2>9, <4>2 DEF Base64Decoder
      <4>. QED  BY <4>1, <4>2
    <3>2. ~ d
      BY <1>3, <3>1
    <3>3. c % 4 # 0
      <4>1. j \in Nat /\ j + 1 = c
        BY <1>2, <2>1
      <4>2. j % 4 = 0
        BY <2>8, <3>1, Zenon
      <4>. HIDE DEF j
      <4>. QED  BY <4>1, <4>2, Fours
    <3>4. j = 4 * Quanta(s)
      <4>1. c = 4 * Quanta(s) + 1
        BY <3>2, <3>3
      <4>2. (4 * Quanta(s) + 1) - 1 = 4 * Quanta(s)
        BY <1>2
      <4>. QED  BY <4>1, <4>2, Zenon
    <3>5. j \div 4 = Quanta(s)
      <4>1. (4 * Quanta(s)) \div 4 = Quanta(s)
        BY <1>2, Fours
      <4>. QED  BY <3>4, <4>1, Zenon
    <3>. QED  BY <1>2, <3>5
  <2>10. dec.refused = FALSE
    BY <2>5 DEF Base64Decoder
  <2>. HIDE DEF n, dec
  <2>11. DecodesTo(dec, s)
    BY <1>1, <2>7, <2>9, <2>10 DEF DecodesTo
  <2>. QED  BY <2>11 DEF dec
<1>. QED  BY <1>4, <1>5

(***************************************************************************)
(* Armor that is cut off anywhere, or not at all, decodes to a part of the *)
(* bytes, and ends with "EOF" only if that is all of them.                 *)
(***************************************************************************)
THEOREM ArmorDecodes ==
    ASSUME NEW s \in Seq(Nat), NEW m \in 0 .. Len(Armored(s))
    PROVE  DecodesTo(NewDecoder(SubSeq(Armored(s), 1, m)), s)
<1>. DEFINE ts == << <<"version">> >> \o Base64(s)
            text == SubSeq(Armored(s), 1, m)
<1>1. ts \in Seq(Letter) /\ ShowsTo(Armored(s), ts, Len(ts), FALSE)
  BY ArmorShows
<1>2. Len(ts) = 4 * Quanta(s) + 1
  <2>. DEFINE b == Base64(s)
  <2>1. b \in Seq(Letter) /\ Len(b) = 4 * Quanta(s) /\ Quanta(s) \in Nat /\ <<"version">> \in Letter
    BY Base64Facts DEF Letter
  <2>. HIDE DEF b
  <2>2. Len(<< <<"version">> >> \o b) = 4 * Quanta(s) + 1
    BY <2>1
  <2>. QED  BY <2>2 DEF b
<1>. HIDE DEF ts
<1>3. PICK d \in BOOLEAN, c \in 0 .. Len(ts) :
          /\ decodeToWriter(text) = DecodeEnd(Decoded(d, ts, c))
          /\ d \/ c % 4 = 0 \/ c = Len(ts)
  BY <1>1, DecodesAPart
<1>4. c \in 0 .. 4 * Quanta(s) + 1 /\ (d \/ c % 4 = 0 \/ c = 4 * Quanta(s) + 1)
  BY <1>2, <1>3
<1>. HIDE DEF text
<1>5. DecodesTo(NewDecoder(text), s)
  BY <1>3, <1>4, DecoderAt DEF ts
<1>. QED  BY <1>5 DEF text

-----------------------------------------------------------------------------
(* Prefixes of host names *)

\* Sequences of one or two elements.
LEMMA ShortSequences ==
    ASSUME NEW S, NEW a \in S, NEW b \in S
    PROVE  <<a>> \in Seq(S) /\ <<a, b>> \in Seq(S)
OBVIOUS

\* Characters, and more characters.
LEMMA CharactersConcatenated ==
    ASSUME NEW a \in Seq(Character), NEW b \in Seq(Character)
    PROVE  /\ a \o b \in Seq(Character) /\ Len(a \o b) = Len(a) + Len(b)
           /\ \A j \in 1 .. Len(a) : (a \o b)[j] = a[j]
           /\ \A j \in 1 .. Len(b) : (a \o b)[Len(a) + j] = b[j]
OBVIOUS

\* What is written for a character.
LEMMA HyphensFacts ==
    ASSUME NEW c \in Character
    PROVE  /\ Hyphens(c) \in Seq(Character)
           /\ c = "-" => Hyphens(c) = <<"-", "-">>
           /\ c = "." => Hyphens(c) = <<"-">>
           /\ c \notin {"-", "."} => Hyphens(c) = <<c>>
<1>1. CASE c = "-"
  <2>1. Hyphens(c) = <<"-", "-">>
    BY <1>1 DEF Hyphens
  <2>2. <<"-", "-">> \in Seq(Character) /\ "-" # "."
    <3>1. "-" \in Character /\ "-" # "."
      BY AMPCacheAssumption
    <3>. QED  BY <3>1, ShortSequences, Zenon
  <2>. QED  BY <1>1, <2>1, <2>2, Zenon
<1>2. CASE c = "."
  <2>1. Hyphens(c) = <<"-">>
    BY <1>2 DEF Hyphens
  <2>2. <<"-">> \in Seq(Character) /\ "-" # "."
    <3>1. "-" \in Character /\ "-" # "."
      BY AMPCacheAssumption
    <3>. QED  BY <3>1, ShortSequences, Zenon
  <2>. QED  BY <1>2, <2>1, <2>2, Zenon
<1>3. CASE c \notin {"-", "."}
  <2>1. Hyphens(c) = <<c>>
    BY <1>3 DEF Hyphens
  <2>. QED  BY <1>3, <2>1
<1>. QED  BY <1>1, <1>2, <1>3

\* Neither a hyphen nor a dot.
Plain(c) == c \notin {"-", "."}

\* What HostName says.
LEMMA HostFacts ==
    ASSUME NEW h, HostName(h)
    PROVE  /\ h \in Seq(Character) /\ Len(h) \in Nat \ {0}
           /\ \A i \in 1 .. Len(h) : h[i] \in Character /\ h[i] # "hash"
           /\ Plain(h[1]) /\ Plain(h[Len(h)])
           /\ \A i \in 1 .. Len(h) - 1 : h[i] = "." => Plain(h[i + 1])
           /\ Len(h) > 1 /\ h[Len(h) - 1] = "." => h[Len(h)] # "0"
           /\ h # <<"s">>
<1>1. /\ h \in Seq(Character) /\ h # <<>>
      /\ \A i \in DOMAIN h : (i = 1 \/ h[i - 1] = ".") \/ (i = Len(h) \/ h[i + 1] = ".") => Plain(h[i])
      /\ Len(h) = 1 \/ h[Len(h) - 1] = "." => h[Len(h)] \notin {"0", "s"}
  BY DEF HostName, Plain
<1>2. Len(h) \in Nat \ {0} /\ DOMAIN h = 1 .. Len(h) /\ \A i \in 1 .. Len(h) : h[i] \in Character
  BY <1>1
<1>3. \A i \in 1 .. Len(h) : h[i] \in Character /\ h[i] # "hash"
  BY <1>2, AMPCacheAssumption
<1>4. h \in Seq(Character)
  BY <1>1, <1>3
<1>5. 1 \in 1 .. Len(h) /\ Len(h) \in 1 .. Len(h)
  BY <1>2
<1>6. Plain(h[1]) /\ Plain(h[Len(h)])
  BY <1>1, <1>2, <1>5
<1>7. ASSUME NEW i \in 1 .. Len(h) - 1, h[i] = "." PROVE Plain(h[i + 1])
  <2>1. i + 1 \in 1 .. Len(h) /\ (i + 1) - 1 = i
    BY <1>2
  <2>. QED  BY <1>1, <1>2, <1>7, <2>1
<1>8. h # <<"s">>
  <2>1. Len(<<"s">>) = 1 /\ <<"s">>[1] = "s"
    OBVIOUS
  <2>. QED  BY <1>1, <2>1
<1>. QED  BY <1>1, <1>2, <1>3, <1>4, <1>6, <1>7, <1>8

\* The places of the characters of a host name in what is made of it.
Placed(p, h) ==
    /\ p \in [0 .. Len(h) -> Nat] /\ p[0] = 0 /\ p[Len(h)] = Len(Replaced(h))
    /\ \A i \in 1 .. Len(h) :
          /\ p[i] = p[i - 1] + Len(Hyphens(h[i])) /\ p[i] <= Len(Replaced(h))
          /\ \A j \in 1 .. Len(Hyphens(h[i])) : Replaced(h)[p[i - 1] + j] = Hyphens(h[i])[j]

\* The characters of a sequence have their places.
LEMMA CharactersPlaced ==
    ASSUME NEW h \in Seq(Character)
    PROVE  Replaced(h) \in Seq(Character) /\ \E p : Placed(p, h)
<1>. DEFINE ss == [i \in DOMAIN h |-> Hyphens(h[i])]
<1>1. Len(h) \in Nat /\ DOMAIN h = 1 .. Len(h)
  OBVIOUS
<1>2. ASSUME NEW i \in 1 .. Len(h) PROVE Hyphens(h[i]) \in Seq(Character)
  <2>1. h[i] \in Character
    OBVIOUS
  <2>. QED  BY <2>1, HyphensFacts
<1>3. /\ ss \in Seq(Seq(Character)) /\ Len(ss) = Len(h)
      /\ \A i \in 1 .. Len(h) : ss[i] = Hyphens(h[i])
  BY <1>1, <1>2
<1>4. Replaced(h) = Concat(ss)
  BY DEF Replaced
<1>. HIDE DEF ss
<1>5. Concat(ss) \in Seq(Character) /\ \E p : IsPlacing(p, ss)
  BY <1>3, ConcatPlaces
<1>6. PICK p : IsPlacing(p, ss)
  BY <1>5
<1>7. /\ p \in [0 .. Len(h) -> Nat] /\ p[0] = 0 /\ p[Len(h)] = Len(Replaced(h))
      /\ \A i \in 1 .. Len(h) :
            /\ p[i] = p[i - 1] + Len(ss[i]) /\ p[i] <= Len(Replaced(h))
            /\ \A j \in 1 .. Len(ss[i]) : Replaced(h)[p[i - 1] + j] = ss[i][j]
  BY <1>3, <1>4, <1>6, Zenon DEF IsPlacing
<1>8. Placed(p, h)
  BY <1>3, <1>7, Zenon DEF Placed
<1>. QED  BY <1>4, <1>5, <1>8

\* The place of a character.
LEMMA CharacterAt ==
    ASSUME NEW h \in Seq(Character), NEW p, Placed(p, h), NEW i \in 1 .. Len(h)
    PROVE  LET r == Replaced(h)
               k == p[i - 1]
           IN  /\ k \in Nat /\ p[i] \in Nat /\ p[i] <= Len(r)
               /\ h[i] = "-" => p[i] = k + 2 /\ r[k + 1] = "-" /\ r[k + 2] = "-"
               /\ h[i] = "." => p[i] = k + 1 /\ r[k + 1] = "-"
               /\ Plain(h[i]) => p[i] = k + 1 /\ r[k + 1] = h[i]
<1>. DEFINE r == Replaced(h)
            k == p[i - 1]
            y == Hyphens(h[i])
<1>1. i - 1 \in 0 .. Len(h) /\ i \in 0 .. Len(h) /\ h[i] \in Character
  OBVIOUS
<1>2. k \in Nat /\ p[i] \in Nat
  BY <1>1 DEF Placed
<1>3. p[i] = k + Len(y) /\ p[i] <= Len(r) /\ \A j \in 1 .. Len(y) : r[k + j] = y[j]
  BY DEF Placed
<1>. HIDE DEF r, k
<1>4. CASE h[i] = "-"
  <2>1. y = <<"-", "-">>
    BY <1>1, <1>4, HyphensFacts
  <2>. HIDE DEF y
  <2>2. Len(y) = 2 /\ y[1] = "-" /\ y[2] = "-"
    BY <2>1
  <2>. QED  BY <1>2, <1>3, <1>4, <2>2 DEF r, k, Plain
<1>5. CASE h[i] = "."
  <2>1. y = <<"-">>
    BY <1>1, <1>5, HyphensFacts
  <2>. HIDE DEF y
  <2>2. Len(y) = 1 /\ y[1] = "-"
    BY <2>1
  <2>. QED  BY <1>2, <1>3, <1>5, <2>2 DEF r, k, Plain
<1>6. CASE Plain(h[i])
  <2>1. y = <<h[i]>>
    BY <1>1, <1>6, HyphensFacts DEF Plain
  <2>. HIDE DEF y
  <2>2. Len(y) = 1 /\ y[1] = h[i]
    BY <2>1
  <2>. QED  BY <1>2, <1>3, <1>6, <2>2 DEF r, k, Plain
<1>. QED  BY <1>4, <1>5, <1>6 DEF Plain

\* A hyphen and a dot are told apart.
LEMMA HyphenOrDot ==
    ASSUME NEW h, HostName(h), NEW p, Placed(p, h), NEW g, HostName(g), NEW q, Placed(q, g),
           Replaced(h) = Replaced(g), NEW i \in 1 .. Len(h), i \in 1 .. Len(g), p[i - 1] = q[i - 1],
           h[i] = "-", g[i] = "."
    PROVE  FALSE
<1>1. h \in Seq(Character) /\ g \in Seq(Character) /\ Len(g) \in Nat \ {0}
  BY HostFacts
<1>. DEFINE r == Replaced(h)
            k == p[i - 1]
<1>2. k \in Nat /\ r[k + 2] = "-"
  BY <1>1, CharacterAt
<1>3. q[i] = k + 1 /\ Replaced(g) = r
  BY <1>1, CharacterAt
<1>4. i # Len(g)
  BY HostFacts DEF Plain
<1>5. i \in 1 .. Len(g) - 1 /\ i + 1 \in 1 .. Len(g) /\ (i + 1) - 1 = i
  BY <1>1, <1>4
<1>6. Plain(g[i + 1])
  BY <1>5, HostFacts
<1>. HIDE DEF r, k
<1>7. r[q[i] + 1] = g[i + 1]
  BY <1>1, <1>3, <1>5, <1>6, CharacterAt
<1>8. q[i] + 1 = k + 2
  BY <1>2, <1>3
<1>. QED  BY <1>2, <1>6, <1>7, <1>8 DEF Plain

\* What stands at a place tells which character it was made of.
LEMMA SameCharacter ==
    ASSUME NEW h, HostName(h), NEW p, Placed(p, h), NEW g, HostName(g), NEW q, Placed(q, g),
           Replaced(h) = Replaced(g), NEW i \in 1 .. Len(h), i \in 1 .. Len(g), p[i - 1] = q[i - 1]
    PROVE  h[i] = g[i] /\ p[i] = q[i]
<1>1. h \in Seq(Character) /\ g \in Seq(Character)
  BY HostFacts
<1>. DEFINE r == Replaced(h)
            k == p[i - 1]
<1>2. /\ h[i] = "-" => p[i] = k + 2 /\ r[k + 1] = "-"
      /\ h[i] = "." => p[i] = k + 1 /\ r[k + 1] = "-"
      /\ Plain(h[i]) => p[i] = k + 1 /\ r[k + 1] = h[i]
  BY <1>1, CharacterAt
<1>3. /\ g[i] = "-" => q[i] = k + 2 /\ r[k + 1] = "-"
      /\ g[i] = "." => q[i] = k + 1 /\ r[k + 1] = "-"
      /\ Plain(g[i]) => q[i] = k + 1 /\ r[k + 1] = g[i]
  BY <1>1, CharacterAt
<1>4. ~ (h[i] = "-" /\ g[i] = ".") /\ ~ (g[i] = "-" /\ h[i] = ".")
  BY HyphenOrDot
<1>. HIDE DEF r, k
<1>. QED  BY <1>2, <1>3, <1>4 DEF Plain

\* A host name begins with every other one of which the same is made.
LEMMA HostsAgree ==
    ASSUME NEW h, HostName(h), NEW g, HostName(g), Replaced(h) = Replaced(g)
    PROVE  Len(h) <= Len(g) /\ \A j \in 1 .. Len(h) : h[j] = g[j]
<1>1. /\ h \in Seq(Character) /\ g \in Seq(Character) /\ Len(h) \in Nat \ {0} /\ Len(g) \in Nat \ {0}
  BY HostFacts
<1>2. PICK p : Placed(p, h)
  BY <1>1, CharactersPlaced
<1>3. PICK q : Placed(q, g)
  BY <1>1, CharactersPlaced
<1>. DEFINE Same(i) == \A j \in 1 .. i : h[j] = g[j]
            U == {i \in Nat : i <= Len(h) => i <= Len(g) /\ p[i] = q[i] /\ Same(i)}
<1>4. 0 \in U
  BY <1>1, <1>2, <1>3 DEF Placed
<1>5. ASSUME NEW i \in Nat, i \in U PROVE i + 1 \in U
  <2>. SUFFICES ASSUME i + 1 <= Len(h) PROVE i + 1 <= Len(g) /\ p[i + 1] = q[i + 1] /\ Same(i + 1)
    OBVIOUS
  <2>1. /\ i <= Len(g) /\ p[i] = q[i] /\ Same(i)
        /\ i + 1 \in 1 .. Len(h) /\ (i + 1) - 1 = i
    <3>. HIDE DEF Same
    <3>. QED  BY <1>1, <1>5
  <2>2. i # Len(g)
    <3>. SUFFICES ASSUME i = Len(g) PROVE FALSE
      OBVIOUS
    <3>1. q[i] = Len(Replaced(g))
      BY <1>3 DEF Placed
    <3>. DEFINE e == i + 1
    <3>2. e \in 1 .. Len(h) /\ e - 1 = i
      BY <2>1
    <3>. HIDE DEF e
    <3>3. /\ p[i] \in Nat /\ p[e] <= Len(Replaced(h)) /\ p[e] \in Nat
          /\ p[e] = p[i] + 1 \/ p[e] = p[i] + 2
      BY <1>1, <1>2, <3>2, CharacterAt DEF Plain
    <3>. QED  BY <2>1, <3>1, <3>3
  <2>3. i + 1 \in 1 .. Len(g)
    BY <1>1, <2>1, <2>2
  <2>. DEFINE e == i + 1
  <2>4. e \in 1 .. Len(h) /\ e \in 1 .. Len(g) /\ p[e - 1] = q[e - 1]
    BY <2>1, <2>3
  <2>5. h[e] = g[e] /\ p[e] = q[e]
    <3>. HIDE DEF e
    <3>. QED  BY <1>2, <1>3, <2>4, SameCharacter
  <2>6. \A j \in 1 .. i + 1 : j \in 1 .. i \/ j = i + 1
    OBVIOUS
  <2>7. Same(i + 1)
    BY <2>1, <2>5, <2>6
  <2>. QED  BY <1>1, <2>3, <2>5, <2>7
<1>. HIDE DEF U
<1>6. Nat \subseteq U
  BY <1>4, <1>5, NatAll
<1>7. Len(h) \in U /\ Len(h) <= Len(h)
  BY <1>1, <1>6
<1>. QED  BY <1>7 DEF U

\* Hyphens and dots are replaced without loss.
LEMMA ReplacedInjective ==
    ASSUME NEW h, HostName(h), NEW g, HostName(g), Replaced(h) = Replaced(g)
    PROVE  h = g
<1>1. h \in Seq(Character) /\ g \in Seq(Character) /\ Len(h) \in Nat /\ Len(g) \in Nat
  BY HostFacts
<1>2. Len(h) <= Len(g) /\ Len(g) <= Len(h) /\ \A j \in 1 .. Len(h) : h[j] = g[j]
  BY HostsAgree
<1>. QED  BY <1>1, <1>2

\* Step 4 of the algorithm.
Wrapped(r) == <<"0", "-">> \o r \o <<"-", "0">>

\* What is added at both ends.
LEMMA WrappedFacts ==
    ASSUME NEW r \in Seq(Character)
    PROVE  /\ Wrapped(r) \in Seq(Character) /\ Len(Wrapped(r)) = Len(r) + 4 /\ Wrapped(r)[1] = "0"
           /\ \A i \in 1 .. Len(r) : Wrapped(r)[i + 2] = r[i]
           /\ Wrapped(r)[Len(r) + 3] = "-" /\ Wrapped(r)[Len(r) + 4] = "0"
<1>. DEFINE a == <<"0", "-">>
            b == <<"-", "0">>
            x == a \o r
<1>1. /\ a \in Seq(Character) /\ b \in Seq(Character) /\ Len(a) = 2 /\ Len(b) = 2
      /\ a[1] = "0" /\ b[1] = "-" /\ b[2] = "0"
  <2>1. "-" \in Character /\ "0" \in Character
    BY AMPCacheAssumption
  <2>2. a \in Seq(Character) /\ b \in Seq(Character)
    BY <2>1, ShortSequences, Zenon
  <2>3. Len(a) = 2 /\ Len(b) = 2 /\ a[1] = "0" /\ b[1] = "-" /\ b[2] = "0"
    OBVIOUS
  <2>. QED  BY <2>2, <2>3, Zenon
<1>. HIDE DEF a, b
<1>2. x \in Seq(Character) /\ Len(x) = 2 + Len(r) /\ x[1] = "0" /\ \A i \in 1 .. Len(r) : x[2 + i] = r[i]
  <2>1. /\ x \in Seq(Character) /\ Len(x) = Len(a) + Len(r)
        /\ \A i \in 1 .. Len(a) : x[i] = a[i]
        /\ \A i \in 1 .. Len(r) : x[Len(a) + i] = r[i]
    BY <1>1, CharactersConcatenated
  <2>2. 1 \in 1 .. Len(a)
    BY <1>1
  <2>. HIDE DEF x
  <2>. QED  BY <1>1, <2>1, <2>2, Zenon
<1>. HIDE DEF x
<1>. DEFINE z == x \o b
<1>3. /\ z \in Seq(Character) /\ Len(z) = Len(x) + Len(b)
      /\ \A i \in 1 .. Len(x) : z[i] = x[i]
      /\ \A i \in 1 .. Len(b) : z[Len(x) + i] = b[i]
  BY <1>1, <1>2, CharactersConcatenated
<1>. HIDE DEF z
<1>5. Len(r) \in Nat
  OBVIOUS
<1>6. Len(z) = Len(r) + 4 /\ z[1] = "0"
  BY <1>1, <1>2, <1>3, <1>5
<1>7. ASSUME NEW i \in 1 .. Len(r) PROVE z[i + 2] = r[i]
  <2>1. i + 2 = 2 + i /\ 2 + i \in 1 .. Len(x)
    BY <1>2, <1>5
  <2>. QED  BY <1>2, <1>3, <2>1
<1>8. z[Len(r) + 3] = "-" /\ z[Len(r) + 4] = "0"
  <2>1. Len(r) + 3 = Len(x) + 1 /\ Len(r) + 4 = Len(x) + 2 /\ 1 \in 1 .. Len(b) /\ 2 \in 1 .. Len(b)
    BY <1>1, <1>2, <1>5
  <2>. QED  BY <1>1, <1>3, <2>1
<1>4. Wrapped(r) = z
  BY DEF Wrapped, x, a, b, z
<1>. QED  BY <1>3, <1>4, <1>6, <1>7, <1>8

\* The ends of what is made of a host name.
LEMMA ReplacedEnds ==
    ASSUME NEW h, HostName(h)
    PROVE  LET r == Replaced(h)
           IN  /\ r \in Seq(Character) /\ Len(r) \in Nat \ {0}
               /\ r[1] = h[1] /\ r[Len(r)] = h[Len(h)]
<1>. DEFINE r == Replaced(h)
            n == Len(h)
<1>1. h \in Seq(Character) /\ n \in Nat \ {0} /\ Plain(h[1]) /\ Plain(h[n])
  BY HostFacts
<1>2. r \in Seq(Character) /\ \E p : Placed(p, h)
  BY <1>1, CharactersPlaced
<1>3. PICK p : Placed(p, h)
  BY <1>2
<1>4. p[0] = 0 /\ p[n] = Len(r)
  BY <1>3 DEF Placed
<1>5. 1 \in 1 .. n /\ n \in 1 .. n /\ 1 - 1 = 0
  BY <1>1
<1>. HIDE DEF n
<1>6. p[1] \in Nat /\ p[1] <= Len(r) /\ p[1] = p[0] + 1 /\ r[p[0] + 1] = h[1]
  BY <1>1, <1>3, <1>5, CharacterAt DEF n
<1>7. p[n - 1] \in Nat /\ p[n] = p[n - 1] + 1 /\ r[p[n - 1] + 1] = h[n]
  BY <1>1, <1>3, <1>5, CharacterAt DEF n
<1>. HIDE DEF r
<1>8. Len(r) \in Nat \ {0} /\ r[1] = h[1] /\ r[Len(r)] = h[n]
  BY <1>2, <1>4, <1>6, <1>7
<1>. QED  BY <1>2, <1>8 DEF r, n

\* What step 4 adds is not what steps 2 and 3 make of another host name.
LEMMA NotWrapped ==
    ASSUME NEW h, HostName(h), NEW g, HostName(g), Replaced(g) = Wrapped(Replaced(h))
    PROVE  FALSE
<1>. DEFINE r == Replaced(h)
            w == Replaced(g)
            n == Len(g)
            m == Len(r)
<1>1. /\ g \in Seq(Character) /\ n \in Nat \ {0} /\ Plain(g[n])
      /\ n > 1 /\ g[n - 1] = "." => g[n] # "0"
  BY HostFacts
<1>2. r \in Seq(Character) /\ m \in Nat \ {0} /\ Plain(r[m])
  <2>1. Plain(h[Len(h)])
    BY HostFacts
  <2>. QED  BY <2>1, ReplacedEnds
<1>. HIDE DEF r
<1>3. Len(w) = m + 4 /\ w[m + 2] = r[m] /\ w[m + 3] = "-" /\ w[m + 4] = "0"
  <2>1. m \in 1 .. m
    BY <1>2
  <2>2. w = Wrapped(r)
    BY DEF r
  <2>3. /\ Len(Wrapped(r)) = m + 4 /\ (\A i \in 1 .. m : Wrapped(r)[i + 2] = r[i])
        /\ Wrapped(r)[m + 3] = "-" /\ Wrapped(r)[m + 4] = "0"
    BY <1>2, WrappedFacts, Zenon
  <2>. QED  BY <2>1, <2>2, <2>3
<1>4. PICK q : Placed(q, g)
  BY <1>1, CharactersPlaced
<1>5. q[0] = 0 /\ q[n] = m + 4
  BY <1>3, <1>4 DEF Placed
<1>. HIDE DEF m
<1>6. q[n - 1] = m + 3 /\ g[n] = "0"
  <2>1. n \in 1 .. n
    BY <1>1
  <2>2. q[n - 1] \in Nat /\ q[n] = q[n - 1] + 1 /\ w[q[n - 1] + 1] = g[n]
    BY <1>1, <1>4, <2>1, CharacterAt
  <2>. HIDE DEF w, n
  <2>3. q[n - 1] = m + 3
    BY <1>2, <1>5, <2>2 DEF m
  <2>4. q[n - 1] + 1 = m + 4
    BY <1>2, <2>3 DEF m
  <2>. QED  BY <1>3, <2>2, <2>3, <2>4
<1>7. n > 1 /\ n - 1 \in 1 .. n
  BY <1>1, <1>2, <1>5, <1>6 DEF m
<1>. DEFINE k == n - 1
            e == q[k - 1]
<1>8. /\ e \in Nat
      /\ g[k] = "-" => q[k] = e + 2 /\ w[e + 1] = "-"
      /\ Plain(g[k]) => q[k] = e + 1 /\ w[e + 1] = g[k]
  BY <1>1, <1>4, <1>7, CharacterAt
<1>9. q[k] = m + 3 /\ g[k] # "."
  BY <1>1, <1>6, <1>7
<1>. HIDE DEF k, e, w, n
<1>10. CASE g[k] = "-"
  <2>1. e + 1 = m + 2
    BY <1>2, <1>8, <1>9, <1>10 DEF m
  <2>. QED  BY <1>2, <1>3, <1>8, <1>10, <2>1 DEF Plain, m
<1>11. CASE Plain(g[k])
  <2>1. e + 1 = m + 3
    BY <1>8, <1>9, <1>11
  <2>. QED  BY <1>3, <1>8, <1>11, <2>1 DEF Plain
<1>. QED  BY <1>9, <1>10, <1>11 DEF Plain

\* The basic algorithm's prefix.
LEMMA BasicFacts ==
    ASSUME NEW h, HostName(h)
    PROVE  /\ domainPrefixBasic(h) = Replaced(h) \/ domainPrefixBasic(h) = Wrapped(Replaced(h))
           /\ domainPrefixBasic(h) \in Seq(Character) /\ Len(domainPrefixBasic(h)) \in Nat \ {0}
           /\ domainPrefixBasic(h)[1] # "hash"
<1>. DEFINE r == Replaced(h)
            b == domainPrefixBasic(h)
<1>1. r \in Seq(Character) /\ Len(r) \in Nat \ {0} /\ r[1] = h[1]
  BY ReplacedEnds
<1>2. h[1] # "hash"
  <2>1. 1 \in 1 .. Len(h)
    BY HostFacts
  <2>. QED  BY <2>1, HostFacts
<1>3. b = r \/ b = Wrapped(r)
  BY DEF domainPrefixBasic, Wrapped
<1>. HIDE DEF r, b
<1>4. b \in Seq(Character) /\ Len(b) \in Nat \ {0} /\ b[1] # "hash"
  <2>1. /\ Wrapped(r) \in Seq(Character) /\ Len(Wrapped(r)) = Len(r) + 4 /\ Wrapped(r)[1] = "0"
    BY <1>1, WrappedFacts
  <2>2. Len(Wrapped(r)) \in Nat \ {0} /\ "0" # "hash"
    BY <1>1, <2>1
  <2>. QED  BY <1>1, <1>2, <1>3, <2>1, <2>2, Zenon
<1>. QED  BY <1>3, <1>4 DEF r, b

\* The basic algorithm tells host names apart.
LEMMA BasicInjective ==
    ASSUME NEW h, HostName(h), NEW g, HostName(g), domainPrefixBasic(h) = domainPrefixBasic(g)
    PROVE  h = g
<1>. DEFINE r == Replaced(h)
            w == Replaced(g)
<1>1. r \in Seq(Character) /\ w \in Seq(Character)
  BY ReplacedEnds
<1>2. \/ r = w \/ r = Wrapped(w) \/ Wrapped(r) = w
      \/ Wrapped(r) = Wrapped(w)
  BY BasicFacts
<1>3. r # Wrapped(w) /\ Wrapped(r) # w
  BY NotWrapped
<1>. HIDE DEF r, w
<1>4. ASSUME Wrapped(r) = Wrapped(w) PROVE r = w
  <2>1. Len(r) \in Nat /\ Len(w) \in Nat /\ Len(r) + 4 = Len(w) + 4
    BY <1>1, <1>4, WrappedFacts
  <2>2. Len(r) = Len(w)
    BY <2>1
  <2>3. \A i \in 1 .. Len(r) : r[i] = w[i]
    <3>1. /\ \A i \in 1 .. Len(r) : Wrapped(r)[i + 2] = r[i]
          /\ \A i \in 1 .. Len(w) : Wrapped(w)[i + 2] = w[i]
      BY <1>1, WrappedFacts, Zenon
    <3>. QED  BY <1>4, <2>2, <3>1
  <2>. QED  BY <1>1, <2>2, <2>3
<1>5. r = w
  BY <1>2, <1>3, <1>4
<1>. QED  BY <1>5, ReplacedInjective DEF r, w

(***************************************************************************)
(* Two host names have the same domainPrefix only if they are the same,    *)
(* and no host name has that of the empty one.                             *)
(***************************************************************************)
THEOREM DomainPrefixInjective ==
    ASSUME NEW h, HostName(h), NEW g, g = <<>> \/ HostName(g), domainPrefix(g) = domainPrefix(h)
    PROVE  h = g
<1>1. ASSUME NEW x, HostName(x)
      PROVE  /\ x \in Seq(Character)
             /\ \/ domainPrefix(x) = domainPrefixBasic(x)
                \/ domainPrefix(x) = <<"hash">> \o x
             /\ domainPrefixBasic(x)[1] # "hash" /\ domainPrefixBasic(x) # <<>>
  <2>1. domainPrefixBasic(x) # <<>>
    BY <1>1, BasicFacts
  <2>. QED  BY <1>1, <2>1, BasicFacts, HostFacts DEF domainPrefix, domainPrefixFallback
<1>2. \A x \in Seq(Character) : /\ (<<"hash">> \o x)[1] = "hash" /\ Len(<<"hash">> \o x) = Len(x) + 1
                             /\ <<"hash">> \o x # <<>>
                             /\ \A i \in 1 .. Len(x) : (<<"hash">> \o x)[i + 1] = x[i]
  OBVIOUS
<1>3. CASE g = <<>>
  <2>1. domainPrefix(<<>>) = <<>>
    <3>. DEFINE e == <<>>
    <3>1. e \in Seq(Character) /\ Len(e) = 0
      OBVIOUS
    <3>. HIDE DEF e
    <3>2. PICK p : Placed(p, e)
      BY <3>1, CharactersPlaced
    <3>3. Len(Replaced(e)) = 0 /\ Replaced(e) \in Seq(Character)
      BY <3>1, <3>2, CharactersPlaced DEF Placed
    <3>. DEFINE r == Replaced(e)
    <3>. HIDE DEF r
    <3>4. r = <<>> /\ Len(r) = 0
      BY <3>3 DEF r
    <3>5. domainPrefixBasic(e) = r
      BY <3>4 DEF domainPrefixBasic, r
    <3>6. domainPrefix(e) = r
      BY <3>4, <3>5, AMPCacheAssumption DEF domainPrefix
    <3>. QED  BY <3>4, <3>6 DEF e
  <2>2. domainPrefix(h) # <<>>
    BY <1>1, <1>2
  <2>. QED  BY <1>3, <2>1, <2>2
<1>4. CASE HostName(g)
  <2>. DEFINE x == <<"hash">> \o h
              y == <<"hash">> \o g
  <2>1. x[1] = "hash" /\ y[1] = "hash"
    BY <1>1, <1>2, <1>4
  <2>2. /\ domainPrefix(h) = domainPrefixBasic(h) \/ domainPrefix(h) = x
        /\ domainPrefix(g) = domainPrefixBasic(g) \/ domainPrefix(g) = y
        /\ domainPrefixBasic(h)[1] # "hash" /\ domainPrefixBasic(g)[1] # "hash"
    BY <1>1, <1>4
  <2>3. ASSUME x = y PROVE h = g
    <3>1. h \in Seq(Character) /\ g \in Seq(Character)
      BY <1>1, <1>4
    <3>2. Len(h) \in Nat /\ Len(g) \in Nat /\ Len(h) + 1 = Len(g) + 1
      BY <1>2, <2>3, <3>1
    <3>3. Len(h) = Len(g)
      BY <3>2
    <3>4. \A i \in 1 .. Len(h) : h[i] = g[i]
      <4>1. \A i \in 1 .. Len(h) : x[i + 1] = h[i] /\ y[i + 1] = g[i]
        BY <1>2, <3>1, <3>3
      <4>. HIDE DEF x, y
      <4>. QED  BY <2>3, <4>1
    <3>. QED  BY <3>1, <3>3, <3>4
  <2>. HIDE DEF x, y
  <2>4. domainPrefixBasic(h) = domainPrefixBasic(g) \/ x = y
    BY <2>1, <2>2
  <2>. QED  BY <1>4, <2>3, <2>4, BasicInjective
<1>. QED  BY <1>3, <1>4

-----------------------------------------------------------------------------
(* Responses *)

(***************************************************************************)
(* A response that is being read has an error to end with, and that is     *)
(* "EOF" only if all of the stream arrived or the limit is reached.        *)
(***************************************************************************)
ResponseInv ==
    via = "response" =>
        /\ mode \in {"read", "end"} /\ tail # "nil"
        /\ mode = "end" => err # "nil"
        /\ tail = "EOF" => cut = MaxResponseBody \/ cut = OffsetIn(chunks, Len(chunks))

ExchangeInv == StreamInv /\ ResponseInv

\* The stream when nothing of it is read.
LEMMA NothingRead ==
    ASSUME NEW cs \in Seq(Entry), NEW w, Written(w, cs), NEW e, e # "EOF", NEW t, t # "EOF"
    PROVE  ReadAll(cs, 0, 0, <<>>, e, t)
<1>1. OffsetIn(cs, 0) = 0 /\ Len(cs) \in Nat
  BY OffsetFacts
<1>2. 0 < Len(cs) => 0 < OffsetIn(cs, 0 + 1)
  <2>. SUFFICES ASSUME 0 < Len(cs) PROVE 0 < OffsetIn(cs, 0 + 1)
    OBVIOUS
  <2>1. 0 \in 0 .. Len(cs) /\ 0 + 1 \in 0 .. Len(cs) /\ 0 < 0 + 1
    BY <1>1
  <2>. QED  BY <1>1, <2>1, OffsetsGrow, OffsetFacts
<1>3. Within(cs, 0, 0)
  BY <1>1, <1>2 DEF Within
<1>4. Selected(cs, Nat, 0) = <<>>
  BY SelectedNext
<1>. QED  BY <1>3, <1>4 DEF ReadAll

\* A part of a part.
LEMMA PartOfPart ==
    ASSUME NEW s \in Seq(Nat), NEW k \in 0 .. Len(s), NEW n \in 0 .. k
    PROVE  Len(SubSeq(s, 1, k)) = k /\ SubSeq(SubSeq(s, 1, k), 1, n) = SubSeq(s, 1, n)
OBVIOUS

\* Whatever text arrives as the response, it decodes to a part of the stream.
LEMMA AnswerDecodes ==
    ASSUME NEW s \in Seq(Nat),
           NEW text \in Page \cup { SubSeq(Armored(s), 1, k) : k \in 0 .. Len(Armored(s)) }
    PROVE  DecodesTo(NewDecoder(text), s)
<1>1. CASE text \in Page
  <2>. DEFINE dec == NewDecoder(text)
  <2>1. dec.bytes = <<>> /\ dec.tail # "EOF"
    BY <1>1, ExchangeAssumption, Zenon
  <2>2. dec.tail # "nil" /\ dec.refused \in BOOLEAN
    BY TailNotNil
  <2>3. SubSeq(s, 1, 0) = <<>> /\ 0 \in 0 .. Len(s)
    OBVIOUS
  <2>. HIDE DEF dec
  <2>4. DecodesTo(dec, s)
    BY <2>1, <2>2, <2>3 DEF DecodesTo
  <2>. QED  BY <2>4 DEF dec
<1>2. CASE text \in { SubSeq(Armored(s), 1, k) : k \in 0 .. Len(Armored(s)) }
  BY <1>2, ArmorDecodes
<1>. QED  BY <1>1, <1>2

\* A response keeps the invariant.
LEMMA RespondKeeps == ExchangeInv /\ Respond => ExchangeInv'
<1>. SUFFICES ASSUME ExchangeInv, Respond PROVE ExchangeInv'
  OBVIOUS
<1>1. /\ chunks \in Seq(Entry) /\ Written(stream, chunks) /\ data = <<>>
      /\ chunks' = chunks /\ data' = data /\ via' = "response"
  BY DEF ExchangeInv, StreamInv, Respond
<1>2. /\ stream \in Seq(Nat) /\ Len(stream) \in Nat
      /\ Len(stream) = OffsetIn(chunks, Len(chunks))
  BY <1>1 DEF Written
<1>3. PICK text \in Page \cup { SubSeq(Armored(stream), 1, k) : k \in 0 .. Len(Armored(stream)) } :
          LET dec == NewDecoder(text)
              n == IF Len(dec.bytes) < MaxResponseBody THEN Len(dec.bytes) ELSE MaxResponseBody
          IN  /\ stream' = SubSeq(dec.bytes, 1, n)
              /\ cut' = n
              /\ tail' = IF n = MaxResponseBody THEN "EOF" ELSE dec.tail
              /\ mode' = IF dec.refused THEN "end" ELSE "read"
              /\ err' = IF dec.refused THEN dec.tail ELSE "nil"
  BY Zenon DEF Respond
<1>. DEFINE dec == NewDecoder(text)
            n == IF Len(dec.bytes) < MaxResponseBody THEN Len(dec.bytes) ELSE MaxResponseBody
<1>4. /\ stream' = SubSeq(dec.bytes, 1, n) /\ cut' = n
      /\ tail' = IF n = MaxResponseBody THEN "EOF" ELSE dec.tail
      /\ mode' = IF dec.refused THEN "end" ELSE "read"
      /\ err' = IF dec.refused THEN dec.tail ELSE "nil"
  BY <1>3, Zenon
<1>5. DecodesTo(dec, stream)
  BY <1>2, AnswerDecodes
<1>. HIDE DEF dec
<1>6. PICK k \in 0 .. Len(stream) :
        /\ dec.bytes = SubSeq(stream, 1, k) /\ dec.refused \in BOOLEAN /\ dec.tail # "nil"
        /\ dec.tail = "EOF" => k = Len(stream) /\ ~ dec.refused
        /\ dec.refused => k = 0
  BY <1>5 DEF DecodesTo
<1>7. Len(dec.bytes) = k /\ MaxResponseBody \in Nat \ {0}
  BY <1>2, <1>6, PartOfPart, ExchangeAssumption
<1>8. n \in 0 .. k /\ (n = MaxResponseBody \/ n = k)
  BY <1>2, <1>7
<1>9. n \in 0 .. Len(stream)
  BY <1>2, <1>8
<1>. HIDE DEF n
<1>10. stream' = SubSeq(stream, 1, n)
  BY <1>2, <1>4, <1>6, <1>8, PartOfPart
<1>11. tail' # "nil" /\ (tail' = "EOF" => n = MaxResponseBody \/ n = Len(stream))
  BY <1>4, <1>6, <1>8
<1>12. CASE dec.refused
  <2>1. n = 0 /\ n # MaxResponseBody
    BY <1>6, <1>7, <1>8, <1>12
  <2>2. mode' = "end" /\ tail' = dec.tail /\ err' = dec.tail /\ dec.tail # "EOF"
    BY <1>4, <1>6, <1>12, <2>1
  <2>3. ReadAll(chunks, 0, 0, <<>>, err', tail')
    BY <1>1, <2>2, NothingRead
  <2>4. StreamInv'
    BY <1>1, <1>4, <2>1, <2>2, <2>3 DEF StreamInv
  <2>5. ResponseInv'
    BY <1>1, <1>2, <1>4, <1>6, <1>11, <2>2 DEF ResponseInv
  <2>. QED  BY <2>4, <2>5 DEF ExchangeInv
<1>13. CASE ~ dec.refused
  <2>1. mode' = "read"
    BY <1>4, <1>13
  <2>2. ReadTo(stream, chunks, 0, 0, n, SubSeq(stream, 1, n), <<>>)
    BY <1>1, <1>9, StartsReading
  <2>3. StreamInv'
    BY <1>1, <1>4, <1>10, <2>1, <2>2 DEF StreamInv
  <2>4. ResponseInv'
    BY <1>1, <1>2, <1>4, <1>11, <2>1 DEF ResponseInv
  <2>. QED  BY <2>3, <2>4 DEF ExchangeInv
<1>. QED  BY <1>12, <1>13

\* No response keeps the invariant.
LEMMA NoResponseKeeps == ExchangeInv /\ NoResponse => ExchangeInv'
<1>. SUFFICES ASSUME ExchangeInv, NoResponse PROVE ExchangeInv'
  OBVIOUS
<1>1. /\ chunks \in Seq(Entry) /\ Written(stream, chunks) /\ data = <<>>
      /\ chunks' = chunks /\ data' = data /\ via' = "response"
      /\ mode' = "end" /\ err' # "EOF" /\ err' # "nil" /\ cut' = 0 /\ tail' = "none"
  BY DEF ExchangeInv, StreamInv, NoResponse
<1>2. ReadAll(chunks, 0, 0, <<>>, err', tail')
  BY <1>1, NothingRead
<1>3. StreamInv'
  BY <1>1, <1>2 DEF StreamInv
<1>4. ResponseInv'
  BY <1>1 DEF ResponseInv
<1>. QED  BY <1>3, <1>4 DEF ExchangeInv

\* A request keeps the invariant.
LEMMA SendKeeps == ExchangeInv /\ Send => ExchangeInv'
<1>. SUFFICES ASSUME ExchangeInv, Send PROVE ExchangeInv'
  OBVIOUS
<1>1. /\ chunks \in Seq(Entry) /\ Written(stream, chunks) /\ data = <<>>
      /\ chunks' = chunks /\ data' = data /\ stream' = stream /\ via' = "request"
  BY DEF ExchangeInv, StreamInv, Send
<1>2. stream \in Seq(Nat) /\ Len(stream) \in Nat
  BY <1>1 DEF Written
<1>3. \/ mode' = "read" /\ cut' = Len(stream)
      \/ mode' = "end" /\ cut' = 0 /\ tail' = "none" /\ err' \in {"refused", "undecoded"}
  BY DEF Send
<1>4. ResponseInv'
  BY <1>1 DEF ResponseInv
<1>5. CASE mode' = "read" /\ cut' = Len(stream)
  <2>1. ReadTo(stream, chunks, 0, 0, Len(stream), SubSeq(stream, 1, Len(stream)), <<>>)
    BY <1>1, <1>2, StartsReading
  <2>2. SubSeq(stream, 1, Len(stream)) = stream
    BY <1>2
  <2>3. StreamInv'
    BY <1>1, <1>5, <2>1, <2>2 DEF StreamInv
  <2>. QED  BY <1>4, <2>3 DEF ExchangeInv
<1>6. CASE mode' = "end" /\ cut' = 0 /\ tail' = "none" /\ err' \in {"refused", "undecoded"}
  <2>1. ReadAll(chunks, 0, 0, <<>>, err', tail')
    BY <1>1, <1>6, NothingRead
  <2>2. StreamInv'
    BY <1>1, <1>6, <2>1 DEF StreamInv
  <2>. QED  BY <1>4, <2>2 DEF ExchangeInv
<1>. QED  BY <1>3, <1>5, <1>6

\* Reading does not change how a response ends.
LEMMA ReadKeepsResponse == ResponseInv /\ ReadData /\ via' = via => ResponseInv'
<1>. SUFFICES ASSUME ResponseInv, ReadData, via' = via, via = "response" PROVE ResponseInv'
  BY DEF ResponseInv
<1>1. UNCHANGED <<chunks, cut, tail>> /\ tail # "nil"
      /\ (tail = "EOF" => cut = MaxResponseBody \/ cut = OffsetIn(chunks, Len(chunks)))
  BY DEF ReadData, ResponseInv
<1>2. mode' \in {"read", "end"} /\ (mode' = "end" => err' # "nil")
  BY <1>1 DEF ReadData, End, Inside
<1>. QED  BY <1>1, <1>2 DEF ResponseInv

(***************************************************************************)
(* The invariant of a stream and of its way to the other side, for every   *)
(* sequence of chunks, every answer and every place it is cut off at.      *)
(***************************************************************************)
THEOREM ExchangeInvariant == ExchangeSpec => []ExchangeInv
<1>1. ExchangeInit => ExchangeInv
  BY StreamStart DEF ExchangeInit, ExchangeInv, ResponseInv
<1>2. ExchangeInv /\ [ExchangeNext]_exchangeVars => ExchangeInv'
  <2>. SUFFICES ASSUME ExchangeInv, [ExchangeNext]_exchangeVars PROVE ExchangeInv'
    OBVIOUS
  <2>1. StreamInv /\ ResponseInv
    BY DEF ExchangeInv
  <2>2. CASE (WriteData \/ WritePadding \/ Arrive) /\ UNCHANGED <<via, request>>
    <3>1. mode = "write" /\ via # "response"
      BY <2>1, <2>2 DEF WriteData, WritePadding, Arrive, ResponseInv
    <3>2. ResponseInv'
      BY <2>2, <3>1 DEF ResponseInv
    <3>3. StreamInv'
      BY <2>1, <2>2, WriteDataKeeps, WritePaddingKeeps, ArriveKeeps
    <3>. QED  BY <3>2, <3>3 DEF ExchangeInv
  <2>3. CASE ReadData /\ UNCHANGED <<via, request>>
    BY <2>1, <2>3, ReadKeeps, ReadKeepsResponse DEF ExchangeInv
  <2>4. CASE UNCHANGED exchangeVars
    BY <2>4 DEF exchangeVars, vars, ExchangeInv, StreamInv, ResponseInv
  <2>. QED  BY <2>2, <2>3, <2>4, RespondKeeps, NoResponseKeeps, SendKeeps DEF ExchangeNext
<1>. QED  BY <1>1, <1>2, PTL DEF ExchangeSpec

(***************************************************************************)
(* What ReadData returns of a stream is the data whose chunks arrived      *)
(* completely, in order, for every width of the prefix bytes, whether the  *)
(* stream is read off a reader, a response or a request.                   *)
(***************************************************************************)
THEOREM StreamRoundTrip == ExchangeSpec => []ReadsWhatWasWritten
<1>1. ExchangeInv => ReadsWhatWasWritten
  BY StreamEnd DEF ExchangeInv
<1>. QED  BY <1>1, ExchangeInvariant, PTL

(***************************************************************************)
(* ReadData reports io.EOF only of a stream that ends between two chunks,  *)
(* and always of one that does when its reader says so.                    *)
(***************************************************************************)
THEOREM StreamCutNoticed == ExchangeSpec => []CutIsNoticed
<1>1. ExchangeInv => CutIsNoticed
  BY StreamEnd DEF ExchangeInv
<1>. QED  BY <1>1, ExchangeInvariant, PTL

(***************************************************************************)
(* What MaxDataForSize returns of the length of any data written fits, and *)
(* is at most one less than the most that fits.                            *)
(***************************************************************************)
THEOREM MaxDataTheorem == ExchangeSpec => []MaxDataFits
<1>1. ExchangeInv => MaxDataFits
  BY MaxDataHolds DEF ExchangeInv
<1>. QED  BY <1>1, ExchangeInvariant, PTL

\* When all of a response has arrived, all of its chunks have.
LEMMA AllArrived ==
    ASSUME NEW cs \in Seq(Entry), NEW i, Within(cs, i, OffsetIn(cs, Len(cs)))
    PROVE  i = Len(cs)
<1>1. i \in 0 .. Len(cs) /\ Len(cs) \in Nat /\ Len(cs) \in 0 .. Len(cs)
  BY DEF Within
<1>. SUFFICES ASSUME i < Len(cs) PROVE FALSE
  BY <1>1
<1>2. OffsetIn(cs, i + 1) <= OffsetIn(cs, Len(cs))
  BY <1>1, OffsetsGrow
<1>3. OffsetIn(cs, Len(cs)) < OffsetIn(cs, i + 1)
  BY DEF Within
<1>4. OffsetIn(cs, Len(cs)) \in Nat /\ OffsetIn(cs, i + 1) \in Nat
  <2>1. i + 1 \in 0 .. Len(cs)
    BY <1>1
  <2>. QED  BY <1>1, <2>1, OffsetFacts
<1>. QED  BY <1>2, <1>3, <1>4

(***************************************************************************)
(* processIncoming returns no error only if it has read all the data the   *)
(* server wrote, whatever the network and the AMP cache do to the answer.  *)
(***************************************************************************)
THEOREM ResponseCompleteTheorem == ExchangeSpec => []ResponseComplete
<1>1. ExchangeInv => ResponseComplete
  <2>. SUFFICES ASSUME ExchangeInv, mode = "end", via = "response", processIncoming = "nil"
                PROVE  data = Selected(chunks, Nat, Len(chunks))
    BY DEF ResponseComplete
  <2>1. /\ err # "nil"
        /\ tail = "EOF" => cut = MaxResponseBody \/ cut = OffsetIn(chunks, Len(chunks))
        /\ chunks \in Seq(Entry)
    BY DEF ExchangeInv, ResponseInv, StreamInv
  <2>2. PICK i : ReadAll(chunks, i, cut, data, err, tail)
    BY DEF ExchangeInv, StreamInv
  <2>3. err = "EOF" /\ cut # MaxResponseBody
    BY <2>1 DEF processIncoming
  <2>4. cut = OffsetIn(chunks, Len(chunks))
    BY <2>1, <2>2, <2>3 DEF ReadAll
  <2>5. i = Len(chunks)
    BY <2>1, <2>2, <2>4, AllArrived DEF ReadAll
  <2>. QED  BY <2>2, <2>5 DEF ReadAll
<1>. QED  BY <1>1, ExchangeInvariant, PTL

-----------------------------------------------------------------------------
(* Requests *)

\* Components of paths, and those that path.Join keeps.
Components == Seq(Character)
Kept == Components \ {<<>>}

\* The components a request always has.
LEMMA ComponentFacts ==
    /\ <<"c">> \in Kept /\ <<"s">> \in Kept /\ Breaker \in Kept /\ Payload \in Kept
    /\ Breaker[1] = "0"
<1>1. "c" \in Character /\ "s" \in Character /\ "0" \in Character /\ "breaker" \in Character
      /\ "payload" \in Character
  BY AMPCacheAssumption, ExchangeAssumption
<1>2. ASSUME NEW a \in Character, NEW b \in Character PROVE <<a>> \in Kept /\ <<a, b>> \in Kept
  BY DEF Kept, Components
<1>. QED  BY <1>1, <1>2 DEF Breaker, Payload

\* Paths one after the other.
Associate(a, b, c) == (a \o b) \o c = a \o (b \o c)

LEMMA PathsAssociate ==
    ASSUME NEW a \in Seq(Components), NEW b \in Seq(Components), NEW c \in Seq(Components)
    PROVE  a \o b \in Seq(Components) /\ Associate(a, b, c)
<1>. HIDE DEF Components
<1>1. a \o b \in Seq(Components)
  OBVIOUS
<1>. DEFINE x == (a \o b) \o c
            y == a \o (b \o c)
<1>2. x \in Seq(Components) /\ Len(x) = Len(a) + Len(b) + Len(c)
  OBVIOUS
<1>3. y \in Seq(Components) /\ Len(y) = Len(a) + Len(b) + Len(c)
  OBVIOUS
<1>4. ASSUME NEW i \in 1 .. Len(a) + Len(b) + Len(c) PROVE x[i] = y[i]
  OBVIOUS
<1>. HIDE DEF x, y
<1>5. x = y
  BY <1>2, <1>3, <1>4
<1>. QED  BY <1>1, <1>5 DEF x, y, Associate

\* What is left of a path without its first z components.
LEMMA ComponentsDropped ==
    ASSUME NEW w \in Seq(Components), NEW z \in Nat, z <= Len(w)
    PROVE  /\ SubSeq(w, z + 1, Len(w)) \in Seq(Components)
           /\ Len(SubSeq(w, z + 1, Len(w))) = Len(w) - z
           /\ \A i \in 1 .. Len(w) - z : SubSeq(w, z + 1, Len(w))[i] = w[z + i]
OBVIOUS

\* What follows a path and one component more.
LEMMA AfterThePrefix ==
    ASSUME NEW a \in Seq(Components), NEW b \in Seq(Components), Len(b) >= 1
    PROVE  SubSeq(a \o b, Len(a) + 2, Len(a \o b)) = Tail(b)
<1>. HIDE DEF Components
<1>1. a \o b \in Seq(Components) /\ Len(a \o b) = Len(a) + Len(b) /\ Len(a) \in Nat /\ Len(b) \in Nat
      /\ \A i \in 1 .. Len(b) : (a \o b)[Len(a) + i] = b[i]
  OBVIOUS
<1>. DEFINE w == a \o b
            x == SubSeq(w, Len(a) + 2, Len(w))
            y == Tail(b)
<1>2. y \in Seq(Components) /\ Len(y) = Len(b) - 1 /\ \A i \in 1 .. Len(b) - 1 : y[i] = b[i + 1]
  OBVIOUS
<1>. HIDE DEF w
<1>3. w \in Seq(Components) /\ Len(w) = Len(a) + Len(b)
  BY <1>1 DEF w
<1>6. x \in Seq(Components) /\ Len(x) = Len(b) - 1 /\ \A i \in 1 .. Len(b) - 1 : x[i] = w[Len(a) + (i + 1)]
  <2>. DEFINE z == Len(a) + 1
  <2>1. z \in Nat /\ z <= Len(w) /\ z + 1 = Len(a) + 2 /\ Len(w) - z = Len(b) - 1
        /\ \A i \in 1 .. Len(b) - 1 : z + i = Len(a) + (i + 1)
    BY <1>1, <1>3
  <2>. HIDE DEF z
  <2>2. /\ SubSeq(w, z + 1, Len(w)) \in Seq(Components)
        /\ Len(SubSeq(w, z + 1, Len(w))) = Len(w) - z
        /\ \A i \in 1 .. Len(w) - z : SubSeq(w, z + 1, Len(w))[i] = w[z + i]
    BY <1>3, <2>1, ComponentsDropped
  <2>. QED  BY <2>1, <2>2, Zenon
<1>4. ASSUME NEW i \in 1 .. Len(b) - 1 PROVE x[i] = y[i]
  <2>1. i + 1 \in 1 .. Len(b)
    BY <1>1
  <2>. QED  BY <1>1, <1>2, <1>6, <2>1 DEF w
<1>. HIDE DEF x, y
<1>5. x = y
  BY <1>2, <1>6, <1>4
<1>. QED  BY <1>5 DEF x, y, w

\* path.Join of a path that is followed by components which are not empty.
LEMMA JoinFollowed ==
    ASSUME NEW a \in Seq(Components), NEW b \in Seq(Kept)
    PROVE  Join(a) \in Seq(Kept) /\ Join(a \o b) = Join(a) \o b
BY SelectedJoin DEF Join, Kept, Components

\* What an AMP cache finds after its own path and the content type.
LEMMA PathSent ==
    ASSUME NEW a \in Seq(Components), NEW b \in Seq(Kept), NEW c \in Kept,
           NEW w, w = Join(a \o (<<c>> \o b))
    PROVE  SubSeq(w, Len(Join(a)) + 2, Len(w)) = b
<1>. DEFINE d == <<c>> \o b
            j == Join(a)
<1>1. \A x \in Seq(Kept) : x \in Seq(Components)
  BY DEF Kept
<1>2. d \in Seq(Kept) /\ Len(d) >= 1 /\ Tail(d) = b
  <2>. HIDE DEF Kept
  <2>1. d \in Seq(Kept) /\ Len(d) = Len(b) + 1 /\ \A i \in 1 .. Len(b) : d[i + 1] = b[i]
    OBVIOUS
  <2>. HIDE DEF d
  <2>2. Tail(d) = b
    BY <2>1
  <2>. QED  BY <2>1, <2>2
<1>. HIDE DEF d
<1>3. j \in Seq(Kept) /\ w = j \o d
  BY <1>2, JoinFollowed DEF d
<1>. HIDE DEF j
<1>4. SubSeq(j \o d, Len(j) + 2, Len(j \o d)) = Tail(d)
  BY <1>1, <1>2, <1>3, AfterThePrefix
<1>. QED  BY <1>2, <1>3, <1>4 DEF j

\* A component in front of a path.
Prepended(w, x, t) == w \in Seq(Kept) /\ w[1] = x /\ Tail(w) = t

LEMMA PrependedFacts ==
    ASSUME NEW x \in Kept, NEW t \in Seq(Kept)
    PROVE  Prepended(<<x>> \o t, x, t)
<1>. DEFINE w == <<x>> \o t
<1>. HIDE DEF Kept
<1>1. w \in Seq(Kept) /\ w[1] = x /\ Len(w) = Len(t) + 1 /\ \A i \in 1 .. Len(t) : w[i + 1] = t[i]
  OBVIOUS
<1>. HIDE DEF w
<1>2. Tail(w) = t
  BY <1>1
<1>3. Prepended(w, x, t)
  BY <1>1, <1>2 DEF Prepended
<1>. QED  BY <1>3 DEF w

\* Where a request without a refusal goes, if the server is at the root of its host.
LEMMA PageFetched ==
    ASSUME NEW server \in ServerURL, NEW cache \in CacheAddr \cup {Direct},
           ~ Refused(server, cache), server.path = <<>>
    PROVE  /\ HostName(server.host)
           /\ Fetched(server, cache).scheme = server.scheme /\ Fetched(server, cache).host = server.host
           /\ decodeRequest(Fetched(server, cache).path)
           /\ cache # Direct => exchangeAMP(server, cache).host[1] = domainPrefix(server.host)
<1>. DEFINE pub == RequestURL(server)
            h == server.host
            P == <<Breaker, Payload>>
            sent == exchangeAMP(server, cache)
            page == Fetched(server, cache)
<1>1. /\ server \in [scheme : STRING, user : BOOLEAN, port : STRING,
                     host : Seq(Character), path : Seq(Seq(Character))]
      /\ h = <<>> \/ HostName(h)
  BY ExchangeAssumption
<1>2. pub.scheme = server.scheme /\ pub.host = h /\ pub.path = P
  <2>1. <<>> \o P = P
    BY ComponentFacts
  <2>2. pub = [server EXCEPT !.path = server.path \o P]
    BY DEF RequestURL
  <2>. HIDE DEF pub, P
  <2>. QED  BY <1>1, <2>1, <2>2
<1>. HIDE DEF pub
<1>3. server.scheme \in {"http", "https"} /\ h # <<>>
  BY <1>2 DEF Refused, CacheURLFails, pub
<1>4. HostName(h) /\ h \in Kept /\ h # <<"s">>
  BY <1>1, <1>3, HostFacts DEF Kept, Components
<1>5. decodeRequest(P)
  BY ComponentFacts DEF decodeRequest, Kept, Components
<1>6. CASE cache = Direct
  <2>1. sent.path = P
    BY <1>2, <1>6 DEF exchangeAMP, pub
  <2>. HIDE DEF sent
  <2>2. page.scheme = server.scheme /\ page.host = h /\ page.path = P
    BY <1>6, <2>1 DEF Fetched, sent
  <2>. HIDE DEF page
  <2>. QED  BY <1>4, <1>5, <1>6, <2>2 DEF page
<1>7. CASE cache # Direct
  <2>. DEFINE c == <<"c">>
              s == <<"s">>
              S == IF server.scheme = "https" THEN <<s>> ELSE <<>>
              p == S \o (<<h>> \o P)
  <2>1. cache.path \in Seq(Components)
    BY <1>7, ExchangeAssumption DEF Components
  <2>2. sent.host[1] = domainPrefix(h) /\ sent.path = Join(((cache.path \o <<c>>) \o S) \o <<h>> \o P)
    BY <1>2, <1>7 DEF exchangeAMP, CacheURL, pub
  <2>3. <<c>> \in Seq(Kept) /\ <<h>> \in Seq(Kept) /\ P \in Seq(Kept) /\ S \in Seq(Kept)
    BY <1>4, ComponentFacts
  <2>4. /\ c \in Kept /\ s \in Kept /\ s # h
        /\ \A x, y \in Seq(Kept) : x \o y \in Seq(Kept)
        /\ \A x \in Seq(Kept) : x \in Seq(Components)
    BY <1>4, ComponentFacts DEF Kept
  <2>5. (server.scheme = "https" => S = <<s>>) /\ (server.scheme = "http" => S = <<>>)
    OBVIOUS
  <2>. DEFINE t == <<h>> \o P
  <2>. HIDE DEF sent, page, c, s, S, P, h
  <2>7. Prepended(t, h, P)
    BY <1>4, <2>3, PrependedFacts
  <2>8. sent.path = Join(cache.path \o (<<c>> \o p))
    <3>. DEFINE a == cache.path
                C == <<c>>
                H == <<h>>
    <3>1. a \in Seq(Components) /\ C \in Seq(Components) /\ S \in Seq(Components)
          /\ H \in Seq(Components) /\ P \in Seq(Components)
      BY <2>1, <2>3, <2>4
    <3>. HIDE DEF a, C, H
    <3>2. a \o C \in Seq(Components) /\ H \o P \in Seq(Components)
      BY <3>1, PathsAssociate, Zenon
    <3>3. (a \o C) \o S \in Seq(Components) /\ S \o (H \o P) \in Seq(Components)
      BY <3>1, <3>2, PathsAssociate, Zenon
    <3>4. /\ Associate((a \o C) \o S, H, P) /\ Associate(a \o C, S, H \o P)
          /\ Associate(a, C, S \o (H \o P))
      BY <3>1, <3>2, <3>3, PathsAssociate, Zenon
    <3>5. ((a \o C) \o S) \o H \o P = a \o (C \o (S \o (H \o P)))
      BY <3>4, Zenon DEF Associate
    <3>. QED  BY <2>2, <3>5 DEF a, C, H
  <2>9. p \in Seq(Kept)
    BY <2>3, <2>4, Zenon
  <2>. HIDE DEF p
  <2>10. SubSeq(sent.path, Len(Join(cache.path)) + 2, Len(sent.path)) = p
    <3>. DEFINE w == sent.path
    <3>1. w = Join(cache.path \o (<<c>> \o p))
      BY <2>8
    <3>. HIDE DEF w
    <3>2. SubSeq(w, Len(Join(cache.path)) + 2, Len(w)) = p
      BY <2>1, <2>4, <2>9, <3>1, PathSent
    <3>. QED  BY <3>2 DEF w
  <2>11. page = LET q == IF p[1] = s THEN Tail(p) ELSE p
                IN  [scheme |-> IF p[1] = s THEN "https" ELSE "http", host |-> q[1], path |-> Tail(q)]
    BY <1>7, <2>10 DEF Fetched, page, sent, s
  <2>12. page.scheme = server.scheme /\ page.host = h /\ page.path = P
    <3>1. t[1] = h /\ Tail(t) = P
      BY <2>7 DEF Prepended
    <3>2. CASE server.scheme = "https"
      <4>1. p = <<s>> \o t
        BY <2>5, <3>2 DEF p
      <4>. HIDE DEF t
      <4>2. Prepended(p, s, t)
        BY <2>4, <2>7, <4>1, PrependedFacts DEF Prepended
      <4>3. p[1] = s /\ Tail(p) = t
        BY <4>2 DEF Prepended
      <4>. QED  BY <2>11, <3>1, <3>2, <4>3
    <3>3. CASE server.scheme = "http"
      <4>1. p = <<>> \o t
        BY <2>5, <3>3 DEF p
      <4>. HIDE DEF t
      <4>2. p = t
        BY <2>7, <4>1 DEF Prepended
      <4>. QED  BY <2>4, <2>11, <3>1, <3>3, <4>2
    <3>. QED  BY <1>3, <3>2, <3>3
  <2>. QED  BY <1>4, <1>5, <1>7, <2>2, <2>12 DEF page, sent, h
<1>. QED  BY <1>6, <1>7

(***************************************************************************)
(* A request is read or done with; only one that is refused cannot be      *)
(* made, only one that decodeRequest fails on is undecoded, and one that   *)
(* is being read ends with "EOF".                                          *)
(***************************************************************************)
RequestInv ==
    via = "request" =>
        /\ mode \in {"read", "end"}
        /\ request.server \in ServerURL /\ request.cache \in CacheAddr \cup {Direct}
        /\ err = "refused" \/ ~ Refused(request.server, request.cache)
        /\ err = "undecoded" => ~ decodeRequest(Fetched(request.server, request.cache).path)
        /\ mode = "read" => tail = "EOF" /\ err = "nil"

\* Sending establishes the invariant of requests.
LEMMA SendRequests == Send => RequestInv'
<1>. SUFFICES ASSUME Send PROVE RequestInv'
  OBVIOUS
<1>1. PICK server \in ServerURL, cache \in CacheAddr \cup {Direct} :
          LET refused == Refused(server, cache)
              decoded == ~ refused /\ decodeRequest(Fetched(server, cache).path)
          IN  /\ mode' = IF decoded THEN "read" ELSE "end"
              /\ cut' = IF decoded THEN Len(stream) ELSE 0
              /\ tail' = IF decoded THEN "EOF" ELSE "none"
              /\ err' = IF refused THEN "refused" ELSE IF decoded THEN "nil" ELSE "undecoded"
              /\ request' = [server |-> server, cache |-> cache]
  BY DEF Send
<1>2. request'.server = server /\ request'.cache = cache
  BY <1>1
<1>. QED  BY <1>1, <1>2 DEF RequestInv

\* Reading keeps the invariant of requests.
LEMMA ReadKeepsRequest == RequestInv /\ ReadData /\ UNCHANGED <<via, request>> => RequestInv'
<1>. SUFFICES ASSUME RequestInv, ReadData, UNCHANGED <<via, request>>, via = "request" PROVE RequestInv'
  BY DEF RequestInv
<1>1. /\ mode = "read" /\ tail = "EOF" /\ tail' = tail /\ err = "nil"
      /\ request.server \in ServerURL /\ request.cache \in CacheAddr \cup {Direct}
      /\ ~ Refused(request.server, request.cache)
  BY DEF ReadData, RequestInv
<1>2. /\ mode' \in {"read", "end"} /\ err' # "refused" /\ err' # "undecoded"
      /\ mode' = "read" => err' = "nil"
  BY <1>1 DEF ReadData, End, Inside
<1>. QED  BY <1>1, <1>2 DEF RequestInv

\* The invariant of requests, for every URL of a server and every AMP cache.
THEOREM RequestInvariant == ExchangeSpec => []RequestInv
<1>1. ExchangeInit => RequestInv
  BY DEF ExchangeInit, RequestInv
<1>2. RequestInv /\ [ExchangeNext]_exchangeVars => RequestInv'
  <2>. SUFFICES ASSUME RequestInv, [ExchangeNext]_exchangeVars PROVE RequestInv'
    OBVIOUS
  <2>1. CASE (WriteData \/ WritePadding \/ Arrive) /\ UNCHANGED <<via, request>>
    <3>1. mode = "write" /\ via' = via
      BY <2>1 DEF WriteData, WritePadding, Arrive
    <3>. QED  BY <3>1 DEF RequestInv
  <2>2. CASE Respond \/ NoResponse
    BY <2>2 DEF Respond, NoResponse, RequestInv
  <2>3. CASE UNCHANGED exchangeVars
    BY <2>3 DEF exchangeVars, vars, RequestInv
  <2>. QED  BY <2>1, <2>2, <2>3, SendRequests, ReadKeepsRequest DEF ExchangeNext
<1>. QED  BY <1>1, <1>2, PTL DEF ExchangeSpec

(***************************************************************************)
(* A request to a server at the root of its host that is not refused is    *)
(* decoded there, and the AMP cache, asked at a host of this publisher     *)
(* alone, fetches the page the client means.                               *)
(***************************************************************************)
THEOREM RequestArrivesTheorem == ExchangeSpec => []RequestArrives
<1>1. RequestInv => RequestArrives
  <2>. DEFINE server == request.server
              cache == request.cache
  <2>. SUFFICES ASSUME RequestInv, via = "request", err # "refused", server.path = <<>>
                PROVE  LET page == Fetched(server, cache)
                           host == exchangeAMP(server, cache).host
                       IN  /\ err # "undecoded"
                           /\ page.scheme = server.scheme /\ page.host = server.host
                           /\ cache # Direct =>
                                 \A h \in DOMAIN Prefix : Prefix[h] = host[1] => h = server.host
    BY Zenon DEF RequestArrives
  <2>1. /\ server \in ServerURL /\ cache \in CacheAddr \cup {Direct} /\ ~ Refused(server, cache)
        /\ err = "undecoded" => ~ decodeRequest(Fetched(server, cache).path)
    BY DEF RequestInv
  <2>. HIDE DEF server, cache
  <2>2. /\ HostName(server.host)
        /\ Fetched(server, cache).scheme = server.scheme /\ Fetched(server, cache).host = server.host
        /\ decodeRequest(Fetched(server, cache).path)
        /\ cache # Direct => exchangeAMP(server, cache).host[1] = domainPrefix(server.host)
    BY <2>1, PageFetched
  <2>3. ASSUME cache # Direct, NEW h \in DOMAIN Prefix, Prefix[h] = exchangeAMP(server, cache).host[1]
        PROVE  h = server.host
    <3>1. PICK other \in ServerURL : h = other.host
      BY DEF Prefix
    <3>2. h = <<>> \/ HostName(h)
      BY <3>1, ExchangeAssumption
    <3>3. domainPrefix(h) = domainPrefix(server.host)
      BY <2>2, <2>3 DEF Prefix
    <3>. QED  BY <2>2, <3>2, <3>3, DomainPrefixInjective
  <2>. QED  BY <2>1, <2>2, <2>3
<1>. QED  BY <1>1, RequestInvariant, PTL
=============================================================================
