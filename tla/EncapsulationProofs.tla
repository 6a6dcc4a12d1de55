------------------------ MODULE EncapsulationProofs ------------------------
(***************************************************************************)
(* What is read of a stream of chunks is what was written of it, for every *)
(* width of the prefix bytes, every sequence of chunks and every place the *)
(* stream is cut off at.                                                   *)
(***************************************************************************)
EXTENDS Encapsulation, DataTheorems

\* Most leaves are first-order: Zenon tries each one for two seconds before SMT does.
USE ZenonT(2), SMTT(20)

\* What EncapsulationAssumption says of the widths.
LEMMA Widths ==
    /\ Half \in Nat \ {0} /\ More \in Nat \ {0} /\ More = 2 * Half /\ Half < More
    /\ Half * More \in Nat /\ More * More \in Nat \ {0} /\ TooLong \in Nat
    /\ PaddingBuffer \in Nat \ {0} /\ PaddingBuffer - 2 < Half * More
BY EncapsulationAssumption DEF More, TooLong

\* Bytes, and more bytes.
LEMMA BytesConcatenated ==
    ASSUME NEW a \in Seq(Nat), NEW b \in Seq(Nat)
    PROVE  /\ a \o b \in Seq(Nat) /\ Len(a \o b) = Len(a) + Len(b)
           /\ \A j \in 1 .. Len(a) : (a \o b)[j] = a[j]
           /\ \A j \in 1 .. Len(b) : (a \o b)[Len(a) + j] = b[j]
OBVIOUS

\* Bytes without the first z.
LEMMA Dropped ==
    ASSUME NEW s \in Seq(Nat), NEW z \in Nat, z <= Len(s)
    PROVE  /\ SubSeq(s, z + 1, Len(s)) \in Seq(Nat)
           /\ Len(SubSeq(s, z + 1, Len(s))) = Len(s) - z
           /\ \A j \in 1 .. Len(s) - z : SubSeq(s, z + 1, Len(s))[j] = s[z + j]
OBVIOUS

-----------------------------------------------------------------------------
(* Prefixes *)

\* The prefix b, or what has arrived of it, says: d for data, and a length of n.
Says(b, d, n) ==
    /\ b \in Seq(Nat) /\ Len(b) \in 1 .. 3
    /\ \A s \in Seq(Nat) :
          (Len(s) >= 1 /\ \A j \in 1 .. Len(s) : j <= Len(b) => s[j] = b[j]) =>
              /\ PrefixLen(s) <= 3
              /\ Len(s) < Len(b) => Len(s) < PrefixLen(s)
              /\ Len(s) >= Len(b) => PrefixLen(s) = Len(b) /\ Length(s, Len(b)) = n
              /\ s[1] >= More <=> d = 1

\* A prefix of one byte says what it was made from.
LEMMA OneByteSays ==
    ASSUME NEW d \in {0, 1}, NEW n \in 0 .. Half - 1
    PROVE  Says(OneByte(d, n), d, n)
<1>. DEFINE x == d * More + n
<1>1. x \in Nat /\ x = (2 * d) * Half + n /\ (x >= More <=> d = 1)
  BY Widths
<1>2. x \div Half = 2 * d /\ x % Half = n
  BY <1>1, DivMod, Widths
<1>3. (x \div Half) % 2 = 0
  BY <1>2
<1>. HIDE DEF x
<1>4. <<x>> \in Seq(Nat) /\ Len(<<x>>) = 1 /\ <<x>>[1] = x
  BY <1>1
<1>5. ASSUME NEW s \in Seq(Nat), Len(s) >= 1, s[1] = x
      PROVE  PrefixLen(s) = 1 /\ Length(s, 1) = n /\ (s[1] >= More <=> d = 1)
  BY <1>1, <1>2, <1>3, <1>5 DEF PrefixLen, Length
<1>6. OneByte(d, n) = <<x>>
  BY DEF OneByte, x
<1>. QED  BY <1>4, <1>5, <1>6 DEF Says

\* A prefix of two bytes says what it was made from.
LEMMA TwoBytesSay ==
    ASSUME NEW d \in {0, 1}, NEW n \in Nat, n < Half * More
    PROVE  Says(TwoBytes(d, n), d, n)
<1>. DEFINE h == n \div More
            x == d * More + Half + h
            y == n % More
<1>1. h \in Nat /\ y \in 0 .. More - 1 /\ n = h * More + y
  BY DivModOf, Widths
<1>2. h < Half
  <2>1. Half <= h => Half * More <= h * More
    BY ProductGrows, <1>1, Widths
  <2>. QED  BY <1>1, <2>1, Widths
<1>. HIDE DEF h, y
<1>3. x \in Nat /\ x = (2 * d + 1) * Half + h /\ (x >= More <=> d = 1)
  BY Widths, <1>1, <1>2
<1>4. x \div Half = 2 * d + 1 /\ x % Half = h
  BY <1>1, <1>2, <1>3, DivMod, Widths
<1>5. (x \div Half) % 2 = 1
  BY <1>4
<1>6. y % More = y /\ y \in Nat
  BY <1>1, Widths
<1>. HIDE DEF x
<1>7. <<x, y>> \in Seq(Nat) /\ Len(<<x, y>>) = 2 /\ <<x, y>>[1] = x /\ <<x, y>>[2] = y
  BY <1>3, <1>6
<1>8. ASSUME NEW s \in Seq(Nat), Len(s) >= 1, s[1] = x, Len(s) >= 2 => s[2] = y
      PROVE  /\ PrefixLen(s) = 2 /\ (Len(s) >= 2 => Length(s, 2) = n)
             /\ s[1] >= More <=> d = 1
  <2>1. PrefixLen(s) = 2
    BY <1>5, <1>8, <1>1, Widths DEF PrefixLen
  <2>2. ASSUME Len(s) >= 2 PROVE Length(s, 2) = n
    BY <1>1, <1>4, <1>6, <1>8, <2>2 DEF Length
  <2>. QED  BY <1>3, <1>8, <2>1, <2>2
<1>9. TwoBytes(d, n) = <<x, y>>
  BY DEF TwoBytes, x, y, h
<1>. QED  BY <1>7, <1>8, <1>9 DEF Says

\* A prefix of three bytes says what it was made from.
LEMMA ThreeBytesSay ==
    ASSUME NEW d \in {0, 1}, NEW n \in Nat, n < TooLong
    PROVE  Says(ThreeBytes(d, n), d, n)
<1>. DEFINE h == n \div (More * More)
            m == (n \div More) % More
            x == d * More + Half + h
            y == More + m
            z == n % More
<1>1. /\ n \div More \in Nat /\ z \in 0 .. More - 1 /\ n = (n \div More) * More + z
      /\ m \in 0 .. More - 1 /\ n \div More = ((n \div More) \div More) * More + m
      /\ (n \div More) \div More \in Nat
  <2>1. /\ n \div More \in Nat /\ z \in 0 .. More - 1 /\ n = (n \div More) * More + z
    BY DivModOf, Widths
  <2>. QED  BY <2>1, DivModOf, Widths
<1>. HIDE DEF m, z
<1>2. (n \div More) \div More = h
  <2>. DEFINE q == (n \div More) \div More
  <2>1. n = q * (More * More) + (m * More + z)
    <3>1. n = (q * More + m) * More + z
      BY <1>1, Zenon
    <3>2. q \in Int /\ m \in Int /\ z \in Int /\ More \in Int
      BY <1>1, Widths DEF q
    <3>. HIDE DEF q
    <3>3. (q * More + m) * More + z = q * (More * More) + (m * More + z)
      BY <3>2, MultipliedOut
    <3>. QED  BY <3>1, <3>3
  <2>2. m * More + z \in 0 .. More * More - 1
    <3>1. m * More + More <= More * More
      BY ProductGrows, <1>1, Widths
    <3>2. m * More \in Nat
      BY <1>1, Widths
    <3>. QED  BY <3>1, <3>2, <1>1, Widths
  <2>3. q \in Nat
    BY <1>1
  <2>. HIDE DEF q
  <2>4. n \div (More * More) = q
    BY <2>1, <2>2, <2>3, DivMod, Widths
  <2>. QED  BY <2>4 DEF q
<1>3. h \in Nat /\ n = (h * More + m) * More + z /\ h * More + m \in Nat
  BY <1>1, <1>2, Zenon
<1>. HIDE DEF h
<1>4. h < Half
  <2>1. Half <= h => Half * More <= h * More
    BY ProductGrows, <1>3, Widths
  <2>2. ASSUME Half * More <= h * More + m PROVE (Half * More) * More <= (h * More + m) * More
    BY ProductGrows, <2>2, <1>3, Widths
  <2>3. (Half * More) * More = TooLong
    BY Widths DEF TooLong
  <2>4. h * More \in Nat
    BY <1>3, Widths
  <2>. QED  BY <1>1, <1>3, <2>1, <2>2, <2>3, <2>4, Widths
<1>5. x \in Nat /\ x = (2 * d + 1) * Half + h /\ (x >= More <=> d = 1)
  BY Widths, <1>3, <1>4
<1>6. x \div Half = 2 * d + 1 /\ x % Half = h
  <2>1. 2 * d + 1 \in Nat /\ h \in 0 .. Half - 1 /\ Half \in Nat \ {0}
    BY <1>3, <1>4, Widths
  <2>2. ((2 * d + 1) * Half + h) \div Half = 2 * d + 1 /\ ((2 * d + 1) * Half + h) % Half = h
    BY <2>1, DivMod, Zenon
  <2>. QED  BY <2>2, <1>5
<1>7. (x \div Half) % 2 = 1
  BY <1>6
<1>8. y = 1 * More + m /\ y % More = m /\ z % More = z /\ y \in Nat /\ z \in Nat /\ y >= More
  <2>1. y = 1 * More + m
    BY <1>1, Widths
  <2>2. 1 \in Nat /\ m \in 0 .. More - 1 /\ More \in Nat \ {0}
    BY <1>1, Widths
  <2>3. (1 * More + m) % More = m
    BY <2>2, DivMod, Zenon
  <2>4. z % More = z /\ y \in Nat /\ z \in Nat /\ y >= More
    BY <1>1, Widths
  <2>. QED  BY <2>1, <2>3, <2>4
<1>. HIDE DEF x, y
<1>9. /\ <<x, y, z>> \in Seq(Nat) /\ Len(<<x, y, z>>) = 3
      /\ <<x, y, z>>[1] = x /\ <<x, y, z>>[2] = y /\ <<x, y, z>>[3] = z
  BY <1>5, <1>8
<1>10. ASSUME NEW s \in Seq(Nat), Len(s) >= 1, s[1] = x,
              Len(s) >= 2 => s[2] = y, Len(s) >= 3 => s[3] = z
       PROVE  /\ PrefixLen(s) \in {2, 3} /\ (Len(s) >= 2 => PrefixLen(s) = 3)
              /\ Len(s) >= 3 => Length(s, 3) = n
              /\ s[1] >= More <=> d = 1
  <2>0. ~ (y < More) /\ z < More
    BY <1>1, <1>8, Widths
  <2>1. PrefixLen(s) \in {2, 3} /\ (Len(s) >= 2 => PrefixLen(s) = 3)
    BY <1>7, <1>10, <2>0 DEF PrefixLen
  <2>2. ASSUME Len(s) >= 3 PROVE Length(s, 3) = n
    BY <1>3, <1>6, <1>8, <1>10, <2>2 DEF Length
  <2>. QED  BY <1>5, <1>10, <2>1, <2>2
<1>11. ThreeBytes(d, n) = <<x, y, z>>
  BY DEF ThreeBytes, x, y, z, h, m
<1>. HIDE DEF z
<1>. DEFINE b == <<x, y, z>>
<1>12. ASSUME NEW s \in Seq(Nat), Len(s) >= 1,
              \A j \in 1 .. Len(s) : j <= Len(b) => s[j] = b[j]
       PROVE  /\ PrefixLen(s) <= 3 /\ (Len(s) < Len(b) => Len(s) < PrefixLen(s))
              /\ Len(s) >= Len(b) => PrefixLen(s) = Len(b) /\ Length(s, Len(b)) = n
              /\ s[1] >= More <=> d = 1
  <2>1. s[1] = x /\ (Len(s) >= 2 => s[2] = y) /\ (Len(s) >= 3 => s[3] = z)
    BY <1>9, <1>12
  <2>2. Len(b) = 3
    BY <1>9
  <2>. HIDE DEF b
  <2>. QED  BY <1>10, <1>12, <2>1, <2>2
<1>. HIDE DEF b
<1>. QED  BY <1>9, <1>11, <1>12 DEF Says, b

-----------------------------------------------------------------------------
(* Chunks *)

\* A chunk: a prefix and as many bytes as it says.
IsChunk(e, d, n) == n \in Nat /\ \E b : Says(b, d, n) /\ e = b \o Body(n)

\* s is the chunk e, or what has arrived of it, and perhaps more.
Begins(s, e) == \A j \in 1 .. Len(s) : j <= Len(e) => s[j] = e[j]

\* A sequence of bytes followed by a body.
LEMMA BodyFacts ==
    ASSUME NEW b \in Seq(Nat), NEW n \in Nat
    PROVE  /\ b \o Body(n) \in Seq(Nat) /\ Len(b \o Body(n)) = Len(b) + n
           /\ \A j \in 1 .. Len(b) : (b \o Body(n))[j] = b[j]
<1>1. Body(n) \in Seq(Nat) /\ Len(Body(n)) = n
  BY DEF Body
<1>. QED  BY <1>1

\* The facts about a chunk.
LEMMA ChunkFacts ==
    ASSUME NEW e, NEW d, NEW n, IsChunk(e, d, n)
    PROVE  e \in Seq(Nat) /\ Len(e) > n /\ Len(e) > 0
<1>1. PICK b : Says(b, d, n) /\ e = b \o Body(n)
  BY DEF IsChunk
<1>2. b \in Seq(Nat) /\ n \in Nat /\ Len(b) \in 1 .. 3
  BY <1>1 DEF IsChunk, Says
<1>3. e \in Seq(Nat) /\ Len(e) = Len(b) + n
  BY <1>1, <1>2, BodyFacts
<1>. QED  BY <1>2, <1>3

\* What ReadData makes of a stream that begins with a chunk: the chunk, when all of it is there.
LEMMA ChunkRead ==
    ASSUME NEW e, NEW d, NEW n, IsChunk(e, d, n),
           NEW s \in Seq(Nat), s # <<>>, Begins(s, e)
    PROVE  /\ ~ (PrefixLen(s) > 3)
           /\ Len(s) < Len(e) =>
                 Len(s) < PrefixLen(s) \/ Len(s) < PrefixLen(s) + Length(s, PrefixLen(s))
           /\ Len(s) >= Len(e) =>
                 /\ ~ (Len(s) < PrefixLen(s))
                 /\ Length(s, PrefixLen(s)) = n /\ PrefixLen(s) + n = Len(e)
                 /\ s[1] >= More <=> d = 1
<1>1. PICK b : Says(b, d, n) /\ e = b \o Body(n)
  BY DEF IsChunk
<1>2. b \in Seq(Nat) /\ n \in Nat /\ Len(b) \in 1 .. 3
  BY <1>1 DEF IsChunk, Says
<1>3. Len(e) = Len(b) + n /\ \A j \in 1 .. Len(b) : e[j] = b[j]
  BY <1>1, <1>2, BodyFacts
<1>4. Len(s) \in Nat /\ Len(s) >= 1
  OBVIOUS
<1>5. \A j \in 1 .. Len(s) : j <= Len(b) => s[j] = b[j]
  BY <1>2, <1>3, <1>4 DEF Begins
<1>6. /\ PrefixLen(s) <= 3
      /\ Len(s) < Len(b) => Len(s) < PrefixLen(s)
      /\ Len(s) >= Len(b) => PrefixLen(s) = Len(b) /\ Length(s, Len(b)) = n
      /\ s[1] >= More <=> d = 1
  BY <1>1, <1>4, <1>5 DEF Says
<1>7. PrefixLen(s) \in Nat
  BY DEF PrefixLen
<1>. QED  BY <1>2, <1>3, <1>4, <1>6, <1>7

\* Data of length n, encoded.
Encoded(n) == dataPrefixForLength(n) \o Body(n)

\* Prefixes for data: what they say and how long they are.
LEMMA DataPrefix ==
    ASSUME NEW n \in Nat
    PROVE  /\ Encodable(n) <=> n < TooLong
           /\ Encodable(n) => Says(dataPrefixForLength(n), 1, n)
           /\ n < Half => Len(dataPrefixForLength(n)) = 1
           /\ n >= Half /\ n < Half * More => Len(dataPrefixForLength(n)) = 2
           /\ n >= Half * More /\ n < TooLong => Len(dataPrefixForLength(n)) = 3
           /\ n >= TooLong => Len(dataPrefixForLength(n)) = 0
<1>0. Half < Half * More /\ Half * More < TooLong
  <2>1. Half * 1 < Half * More
    BY Widths
  <2>2. Half * More \in Nat \ {0} /\ More >= 2
    BY Widths
  <2>3. (Half * More) * 1 < (Half * More) * More
    BY <2>2, Widths
  <2>. QED  BY <2>1, <2>2, <2>3, Widths DEF TooLong
<1>1. CASE n < Half
  <2>1. dataPrefixForLength(n) = OneByte(1, n)
    BY <1>0, <1>1, Widths DEF dataPrefixForLength
  <2>2. Says(OneByte(1, n), 1, n)
    BY <1>1, OneByteSays, Widths
  <2>3. OneByte(1, n) # <<>> /\ Len(OneByte(1, n)) = 1
    BY DEF OneByte
  <2>. QED  BY <1>0, <1>1, <2>1, <2>2, <2>3, Widths DEF Encodable
<1>2. CASE n >= Half /\ n < Half * More
  <2>1. dataPrefixForLength(n) = TwoBytes(1, n)
    BY <1>0, <1>2, Widths DEF dataPrefixForLength
  <2>2. Says(TwoBytes(1, n), 1, n)
    BY <1>2, TwoBytesSay, Widths
  <2>3. TwoBytes(1, n) # <<>> /\ Len(TwoBytes(1, n)) = 2
    BY DEF TwoBytes
  <2>. QED  BY <1>0, <1>2, <2>1, <2>2, <2>3, Widths DEF Encodable
<1>3. CASE n >= Half * More /\ n < TooLong
  <2>1. dataPrefixForLength(n) = ThreeBytes(1, n)
    BY <1>0, <1>3, Widths DEF dataPrefixForLength
  <2>2. Says(ThreeBytes(1, n), 1, n)
    BY <1>3, ThreeBytesSay, Widths
  <2>3. ThreeBytes(1, n) # <<>> /\ Len(ThreeBytes(1, n)) = 3
    BY DEF ThreeBytes
  <2>. QED  BY <1>0, <1>3, <2>1, <2>2, <2>3, Widths DEF Encodable
<1>4. CASE n >= TooLong
  <2>1. dataPrefixForLength(n) = <<>>
    BY <1>0, <1>4, Widths DEF dataPrefixForLength
  <2>. QED  BY <1>0, <1>4, <2>1, Widths DEF Encodable
<1>. QED  BY <1>0, <1>1, <1>2, <1>3, <1>4, Widths

\* Data is written as a chunk that says so.
LEMMA DataChunk ==
    ASSUME NEW n \in Nat, Encodable(n)
    PROVE  IsChunk(Encoded(n), 1, n) /\ Len(Encoded(n)) = EncodedSize(n)
<1>1. Says(dataPrefixForLength(n), 1, n)
  BY DataPrefix
<1>2. Len(Encoded(n)) = Len(dataPrefixForLength(n)) + n
  BY <1>1, BodyFacts DEF Encoded, Says
<1>. QED  BY <1>1, <1>2 DEF IsChunk, Encoded, EncodedSize

\* A round of WritePadding writes a chunk that is not data, as long as it should be.
LEMMA PadChunk ==
    ASSUME NEW p \in 1 .. PaddingBuffer
    PROVE  /\ \E n : IsChunk(PaddingChunk(p), 0, n)
           /\ Len(PaddingChunk(p)) = p
<1>1. CASE p - 1 < Half
  <2>1. p - 1 \in 0 .. Half - 1 /\ p - 1 \in Nat
    BY <1>1, Widths
  <2>2. Says(OneByte(0, p - 1), 0, p - 1) /\ Len(OneByte(0, p - 1)) = 1
    BY <2>1, OneByteSays DEF OneByte
  <2>3. PaddingChunk(p) = OneByte(0, p - 1) \o Body(p - 1)
    BY <1>1 DEF PaddingChunk
  <2>4. IsChunk(PaddingChunk(p), 0, p - 1)
    BY <2>1, <2>2, <2>3 DEF IsChunk
  <2>5. OneByte(0, p - 1) \in Seq(Nat)
    BY <2>2 DEF Says
  <2>6. Len(PaddingChunk(p)) = 1 + (p - 1)
    <3>1. Len(OneByte(0, p - 1) \o Body(p - 1)) = Len(OneByte(0, p - 1)) + (p - 1)
      BY <2>1, <2>5, BodyFacts
    <3>. QED  BY <2>2, <2>3, <3>1
  <2>. QED  BY <2>4, <2>6, Widths
<1>2. CASE ~ (p - 1 < Half)
  <2>1. p - 2 \in Nat /\ p - 2 < Half * More
    BY <1>2, Widths
  <2>2. Says(TwoBytes(0, p - 2), 0, p - 2) /\ Len(TwoBytes(0, p - 2)) = 2
    BY <2>1, TwoBytesSay DEF TwoBytes
  <2>3. PaddingChunk(p) = TwoBytes(0, p - 2) \o Body(p - 2)
    BY <1>2 DEF PaddingChunk
  <2>4. IsChunk(PaddingChunk(p), 0, p - 2)
    BY <2>1, <2>2, <2>3 DEF IsChunk
  <2>5. TwoBytes(0, p - 2) \in Seq(Nat)
    BY <2>2 DEF Says
  <2>6. Len(PaddingChunk(p)) = 2 + (p - 2)
    <3>1. Len(TwoBytes(0, p - 2) \o Body(p - 2)) = Len(TwoBytes(0, p - 2)) + (p - 2)
      BY <2>1, <2>5, BodyFacts
    <3>. QED  BY <2>2, <2>3, <3>1
  <2>. QED  BY <2>4, <2>6, Widths
<1>. QED  BY <1>1, <1>2

-----------------------------------------------------------------------------
(* Padding *)

\* The size of the chunk at offset q of n bytes of padding.
Piece(n, q) == IF n - q < PaddingBuffer THEN n - q ELSE PaddingBuffer

\* The chunk w has at offset q.
PieceAt(w, n, q) == \A j \in 1 .. Piece(n, q) : w[q + j] = PaddingChunk(Piece(n, q))[j]

\* The first m of n bytes of padding.
Padded(w, n, m) ==
    /\ w \in Seq(Nat) /\ Len(w) = m
    /\ \A q \in Nat : q < m /\ q % PaddingBuffer = 0 => q + Piece(n, q) <= m /\ PieceAt(w, n, q)

\* The state of WritePadding's loop.
PadState == [out : Seq(Nat), left : Nat]

\* The size of a chunk of padding.
LEMMA PieceFacts ==
    ASSUME NEW n \in Nat, NEW q \in Nat, q < n
    PROVE  Piece(n, q) \in 1 .. PaddingBuffer /\ Piece(n, q) <= n - q
BY Widths DEF Piece

\* A round of the loop.
LEMMA PadRound ==
    ASSUME NEW s \in PadState, s.left # 0
    PROVE  LET p == Piece(s.left, 0)
           IN  /\ PaddingRound(s) = [out |-> s.out \o PaddingChunk(p), left |-> s.left - p]
               /\ p \in 1 .. PaddingBuffer /\ p <= s.left
               /\ PaddingChunk(p) \in Seq(Nat) /\ Len(PaddingChunk(p)) = p
               /\ PaddingRound(s) \in PadState
<1>. DEFINE p == Piece(s.left, 0)
<1>1. s.out \in Seq(Nat) /\ s.left \in Nat /\ s.left > 0
  BY DEF PadState
<1>2. p \in 1 .. PaddingBuffer /\ p <= s.left
  BY <1>1, PieceFacts
<1>3. p = IF s.left < PaddingBuffer THEN s.left ELSE PaddingBuffer
  BY <1>1 DEF Piece
<1>4. PaddingRound(s) = [out |-> s.out \o PaddingChunk(p), left |-> s.left - p]
  BY <1>3, Zenon DEF PaddingRound
<1>. HIDE DEF p
<1>5. PICK n : IsChunk(PaddingChunk(p), 0, n)
  BY <1>2, PadChunk
<1>6. PaddingChunk(p) \in Seq(Nat) /\ Len(PaddingChunk(p)) = p
  BY <1>2, <1>5, ChunkFacts, PadChunk
<1>7. s.left - p \in Nat /\ s.out \o PaddingChunk(p) \in Seq(Nat)
  BY <1>1, <1>2, <1>6
<1>8. PaddingRound(s) \in PadState
  BY <1>4, <1>7 DEF PadState
<1>. QED  BY <1>2, <1>4, <1>6, <1>8 DEF p

\* A round writes one chunk more, until all is written.
LEMMA PadRoundKeeps ==
    ASSUME NEW n \in Nat, NEW s \in PadState, s.left <= n, s.left # 0,
           Padded(s.out, n, n - s.left), (n - s.left) % PaddingBuffer = 0
    PROVE  LET r == PaddingRound(s)
           IN  /\ r \in PadState /\ r.left < s.left
               /\ Padded(r.out, n, n - r.left)
               /\ r.left = 0 \/ (n - r.left) % PaddingBuffer = 0
<1>. DEFINE m == n - s.left
            p == Piece(n, m)
            c == PaddingChunk(p)
            w == s.out \o c
<1>1. s.out \in Seq(Nat) /\ s.left \in Nat /\ s.left > 0 /\ m \in Nat /\ n - m = s.left
  BY DEF PadState
<1>2. p = Piece(s.left, 0)
  BY <1>1 DEF Piece
<1>3. /\ PaddingRound(s) = [out |-> w, left |-> s.left - p]
      /\ p \in 1 .. PaddingBuffer /\ p <= s.left
      /\ c \in Seq(Nat) /\ Len(c) = p
      /\ PaddingRound(s) \in PadState
  <2>. HIDE DEF m
  <2>. QED  BY <1>2, PadRound
<1>4. PaddingRound(s).out = w /\ PaddingRound(s).left = s.left - p
  <2>. HIDE DEF w, p
  <2>. QED  BY <1>3
<1>5. Len(s.out) = m /\ \A q \in Nat : q < m /\ q % PaddingBuffer = 0
                            => q + Piece(n, q) <= m /\ PieceAt(s.out, n, q)
  BY DEF Padded
<1>6. p = PaddingBuffer \/ p = s.left
  BY <1>1 DEF Piece
<1>7. m % PaddingBuffer = 0
  OBVIOUS
<1>. HIDE DEF c, p, m
<1>8. /\ w \in Seq(Nat) /\ Len(w) = m + p
      /\ \A j \in 1 .. m : w[j] = s.out[j]
      /\ \A j \in 1 .. p : w[m + j] = c[j]
  BY <1>1, <1>3, <1>5, BytesConcatenated
<1>. HIDE DEF w
<1>9. ASSUME NEW q \in Nat, q < m + p, q % PaddingBuffer = 0
      PROVE  q + Piece(n, q) <= m + p /\ PieceAt(w, n, q)
  <2>1. CASE q < m
    <3>1. q + Piece(n, q) <= m /\ PieceAt(s.out, n, q)
      BY <1>5, <1>9, <2>1
    <3>2. Piece(n, q) \in Nat
      <4>1. q < n
        BY <1>1, <2>1 DEF m
      <4>. QED  BY <4>1, PieceFacts, Widths
    <3>3. q + Piece(n, q) <= m + p
      BY <3>1, <3>2, <1>1, <1>3
    <3>4. ASSUME NEW j \in 1 .. Piece(n, q) PROVE w[q + j] = s.out[q + j]
      <4>1. q + j \in 1 .. m
        BY <3>1, <3>2, <1>1
      <4>. QED  BY <4>1, <1>8
    <3>. QED  BY <3>1, <3>3, <3>4 DEF PieceAt
  <2>2. CASE q = m
    BY <1>1, <1>3, <1>8, <2>2 DEF PieceAt, p, c
  <2>3. CASE m < q
    <3>1. m + PaddingBuffer <= q
      BY <1>1, <1>7, <1>9, <2>3, Multiples, Widths
    <3>. QED  BY <3>1, <1>1, <1>3, <1>9, Widths
  <2>. QED  BY <1>1, <2>1, <2>2, <2>3
<1>10. Padded(w, n, m + p)
  BY <1>8, <1>9 DEF Padded
<1>11. n - (s.left - p) = m + p /\ s.left - p < s.left
  BY <1>1, <1>3
<1>12. s.left - p = 0 \/ (m + p) % PaddingBuffer = 0
  BY <1>1, <1>6, <1>7, Multiples, Widths
<1>. QED  BY <1>3, <1>4, <1>10, <1>11, <1>12

\* A run of WritePadding's loop.
PadRun(g, n) ==
    /\ g \in [Nat -> PadState]
    /\ g[0] = [out |-> <<>>, left |-> n]
    /\ \A k \in Nat : g[k + 1] = PaddingRound(g[k])

\* A round leads from a state of the loop to another.
LEMMA PadRoundState == ASSUME NEW s \in PadState PROVE PaddingRound(s) \in PadState
<1>1. CASE s.left = 0
  BY <1>1 DEF PaddingRound
<1>2. CASE s.left # 0
  BY <1>2, PadRound
<1>. QED  BY <1>1, <1>2

\* WritePadding is a sequence of its rounds.
LEMMA PadUnfolds ==
    ASSUME NEW n \in Nat
    PROVE  \E g : PadRun(g, n) /\ Padding(n) = g[n].out
<1>. DEFINE start == [out |-> <<>>, left |-> n]
            IsLoop(f) == f = [k \in Nat |-> IF k = 0 THEN start ELSE PaddingRound(f[k - 1])]
            F == [s \in PadState |-> PaddingRound(s)]
<1>1. start \in PadState /\ F \in [PadState -> PadState]
  <2>1. <<>> \in Seq(Nat)
    OBVIOUS
  <2>. QED  BY <2>1, PadRoundState DEF PadState
<1>2. PICK e : e \in [Nat -> PadState] /\ e[0] = start /\ \A k \in Nat : e[k + 1] = F[e[k]]
  <2>. HIDE DEF F, start
  <2>1. PICK e : IsIteration(e, PadState, F, start)
    BY <1>1, IterationExists
  <2>. QED  BY <2>1 DEF IsIteration
<1>3. IsLoop(e)
  <2>1. ASSUME NEW k \in Nat PROVE e[k] = IF k = 0 THEN start ELSE PaddingRound(e[k - 1])
    <3>1. CASE k = 0
      BY <1>2, <3>1
    <3>2. CASE k # 0
      <4>1. k - 1 \in Nat /\ (k - 1) + 1 = k
        BY <3>2
      <4>. QED  BY <1>2, <3>2, <4>1
    <3>. QED  BY <3>1, <3>2
  <2>. HIDE DEF start
  <2>. QED  BY <2>1, <1>2
<1>4. PICK g : IsLoop(g) /\ Padding(n) = g[n].out
  BY <1>3, Zenon DEF Padding, Rounds
<1>5. g[0] = start /\ \A k \in Nat : g[k + 1] = PaddingRound(g[k])
  <2>1. \A k \in Nat : g[k] = IF k = 0 THEN start ELSE PaddingRound(g[k - 1])
    BY <1>4, Zenon
  <2>2. \A k \in Nat : k + 1 \in Nat /\ k + 1 # 0 /\ (k + 1) - 1 = k
    OBVIOUS
  <2>. HIDE DEF start
  <2>. QED  BY <2>1, <2>2, Zenon
<1>6. \A k \in Nat : g[k] \in PadState
  <2>. DEFINE T == {k \in Nat : g[k] \in PadState}
  <2>1. g[0] \in PadState /\ \A k \in Nat : g[k] \in PadState => g[k + 1] \in PadState
    BY <1>1, <1>5, PadRoundState
  <2>2. 0 \in T /\ \A k \in T : k + 1 \in T
    BY <2>1
  <2>. HIDE DEF T
  <2>3. Nat \subseteq T
    BY <2>2, NatAll
  <2>. QED  BY <2>3 DEF T
<1>7. g \in [Nat -> PadState]
  <2>1. g = [k \in Nat |-> IF k = 0 THEN start ELSE PaddingRound(g[k - 1])]
    BY <1>4
  <2>. HIDE DEF start
  <2>2. DOMAIN g = Nat /\ g = [k \in Nat |-> g[k]]
    BY <2>1, Zenon
  <2>. QED  BY <1>6, <2>2
<1>. QED  BY <1>4, <1>5, <1>7 DEF PadRun

\* What holds after k rounds.
PadDone(s, n, k) ==
    /\ s.left <= n /\ Padded(s.out, n, n - s.left)
    /\ s.left = 0 \/ (k + s.left <= n /\ (n - s.left) % PaddingBuffer = 0)

\* n bytes of padding are n bytes of chunks that are not data.
LEMMA PaddingShape ==
    ASSUME NEW n \in Nat
    PROVE  Padded(Padding(n), n, n)
<1>1. PICK g : PadRun(g, n) /\ Padding(n) = g[n].out
  BY PadUnfolds
<1>2. \A k \in Nat : g[k] \in PadState /\ g[k + 1] = PaddingRound(g[k])
  BY <1>1 DEF PadRun
<1>. DEFINE T == {k \in Nat : PadDone(g[k], n, k)}
<1>3. 0 \in T
  <2>1. g[0].out = <<>> /\ g[0].left = n
    BY <1>1 DEF PadRun
  <2>2. Padded(<<>>, n, n - n)
    BY DEF Padded
  <2>3. (n - n) % PaddingBuffer = 0
    BY Widths
  <2>. QED  BY <2>1, <2>2, <2>3 DEF PadDone
<1>4. ASSUME NEW k \in Nat, k \in T PROVE k + 1 \in T
  <2>1. PadDone(g[k], n, k) /\ g[k] \in PadState /\ g[k + 1] = PaddingRound(g[k])
    BY <1>2, <1>4
  <2>. DEFINE s == g[k]
              r == g[k + 1]
  <2>2. CASE s.left = 0
    <3>1. r = s
      BY <2>1, <2>2 DEF PaddingRound
    <3>2. PadDone(r, n, k + 1)
      BY <2>1, <2>2, <3>1 DEF PadDone
    <3>. QED  BY <3>2
  <2>3. CASE s.left # 0
    <3>1. /\ s.left <= n /\ Padded(s.out, n, n - s.left)
          /\ k + s.left <= n /\ (n - s.left) % PaddingBuffer = 0
      BY <2>1, <2>3 DEF PadDone
    <3>. HIDE DEF r
    <3>2. r = PaddingRound(s)
      BY <2>1 DEF r
    <3>. HIDE DEF s
    <3>3. /\ r \in PadState /\ r.left < s.left
          /\ Padded(r.out, n, n - r.left)
          /\ r.left = 0 \/ (n - r.left) % PaddingBuffer = 0
      BY <2>1, <2>3, <3>1, <3>2, PadRoundKeeps DEF s
    <3>4. r.left \in Nat /\ s.left \in Nat
      BY <2>1, <3>3 DEF PadState, s
    <3>5. PadDone(r, n, k + 1)
      BY <3>1, <3>3, <3>4 DEF PadDone
    <3>. QED  BY <3>5 DEF r
  <2>. QED  BY <2>2, <2>3
<1>. HIDE DEF T
<1>5. Nat \subseteq T
  BY <1>3, <1>4, NatAll
<1>6. PadDone(g[n], n, n) /\ g[n] \in PadState
  BY <1>2, <1>5 DEF T
<1>7. g[n].left = 0
  BY <1>6 DEF PadDone, PadState
<1>. QED  BY <1>1, <1>6, <1>7 DEF PadDone

-----------------------------------------------------------------------------
(* The stream *)

\* What the history may hold, and the bytes that stand for it.
Entry == {c \in Int : c < 0 \/ Encodable(c)}
Bytes(c) == IF c < 0 THEN Padding(-c) ELSE Encoded(c)

\* Offset, of any history.
OffsetIn(cs, i) == SumTo([k \in DOMAIN cs |-> ChunkSize(cs[k])], i)

\* w is the stream written for the history cs.
Written(w, cs) ==
    /\ w \in Seq(Nat) /\ Len(w) = OffsetIn(cs, Len(cs))
    /\ \A i \in 1 .. Len(cs) : \A j \in 1 .. ChunkSize(cs[i]) :
          w[OffsetIn(cs, i - 1) + j] = Bytes(cs[i])[j]

\* An entry of the history takes as many bytes as ChunkSize says.
LEMMA EntryFacts ==
    ASSUME NEW c \in Entry
    PROVE  /\ c \in Int /\ (c < 0 \/ Encodable(c)) /\ ChunkSize(c) \in Nat \ {0}
           /\ Bytes(c) \in Seq(Nat) /\ Len(Bytes(c)) = ChunkSize(c)
<1>1. c \in Int /\ (c < 0 \/ Encodable(c))
  BY DEF Entry
<1>2. CASE c < 0
  <2>1. -c \in Nat \ {0}
    BY <1>1, <1>2
  <2>2. Padded(Padding(-c), -c, -c)
    BY <2>1, PaddingShape
  <2>. QED  BY <1>1, <1>2, <2>1, <2>2 DEF Padded, ChunkSize, Bytes
<1>3. CASE ~ (c < 0)
  <2>1. c \in Nat /\ Encodable(c)
    BY <1>1, <1>3
  <2>2. IsChunk(Encoded(c), 1, c) /\ Len(Encoded(c)) = EncodedSize(c)
    BY <2>1, DataChunk
  <2>3. Encoded(c) \in Seq(Nat) /\ Len(Encoded(c)) > 0
    BY <2>2, ChunkFacts
  <2>4. Bytes(c) = Encoded(c) /\ ChunkSize(c) = EncodedSize(c)
    BY <1>3 DEF Bytes, ChunkSize
  <2>. QED  BY <1>1, <2>2, <2>3, <2>4
<1>. QED  BY <1>2, <1>3

\* Offsets start at 0 and grow by the sizes of the chunks.
LEMMA OffsetFacts ==
    ASSUME NEW cs \in Seq(Entry)
    PROVE  /\ OffsetIn(cs, 0) = 0
           /\ \A i \in 0 .. Len(cs) : OffsetIn(cs, i) \in Nat
           /\ \A i \in 0 .. Len(cs) - 1 :
                 /\ cs[i + 1] \in Entry
                 /\ OffsetIn(cs, i + 1) = OffsetIn(cs, i) + ChunkSize(cs[i + 1])
<1>. DEFINE v == [k \in DOMAIN cs |-> ChunkSize(cs[k])]
            n == Len(cs)
<1>1. n \in Nat /\ DOMAIN cs = 1 .. n /\ \A i \in 1 .. n : cs[i] \in Entry
  OBVIOUS
<1>2. \A i \in 1 .. n : v[i] = ChunkSize(cs[i]) /\ v[i] \in Nat
  BY <1>1, EntryFacts
<1>. HIDE DEF v, n
<1>3. OffsetIn(cs, 0) = 0 /\ \A i \in Nat : OffsetIn(cs, i) = SumTo(v, i)
  BY SumEmpty DEF OffsetIn, v
<1>4. ASSUME NEW i \in 0 .. n - 1
      PROVE  cs[i + 1] \in Entry /\ OffsetIn(cs, i + 1) = OffsetIn(cs, i) + ChunkSize(cs[i + 1])
  <2>1. i \in Nat /\ i + 1 \in Nat /\ i + 1 \in 1 .. n /\ \A k \in 1 .. i + 1 : v[k] \in Int
    BY <1>1, <1>2
  <2>2. SumTo(v, i + 1) = SumTo(v, i) + v[i + 1]
    BY <2>1, SumNext
  <2>. QED  BY <1>1, <1>2, <1>3, <2>1, <2>2
<1>5. \A i \in 0 .. n : OffsetIn(cs, i) \in Nat
  <2>. DEFINE T == {i \in Nat : i <= n => OffsetIn(cs, i) \in Nat}
  <2>1. 0 \in T
    BY <1>3
  <2>2. ASSUME NEW i \in Nat, i \in T PROVE i + 1 \in T
    <3>. SUFFICES ASSUME i + 1 <= n PROVE OffsetIn(cs, i + 1) \in Nat
      OBVIOUS
    <3>1. i \in 0 .. n - 1 /\ OffsetIn(cs, i) \in Nat
      BY <1>1, <2>2
    <3>2. ChunkSize(cs[i + 1]) \in Nat
      BY <1>4, <3>1, EntryFacts
    <3>. QED  BY <1>4, <3>1, <3>2
  <2>. HIDE DEF T
  <2>3. Nat \subseteq T
    BY <2>1, <2>2, NatAll
  <2>. QED  BY <1>1, <2>3 DEF T
<1>. QED  BY <1>3, <1>4, <1>5 DEF n

\* A later chunk ends later.
LEMMA OffsetsGrow ==
    ASSUME NEW cs \in Seq(Entry), NEW i \in 0 .. Len(cs), NEW j \in 0 .. Len(cs), i < j
    PROVE  OffsetIn(cs, i) < OffsetIn(cs, j) /\ OffsetIn(cs, i + 1) <= OffsetIn(cs, j)
<1>. DEFINE n == Len(cs)
            T == {k \in Nat : i + 1 + k <= n => OffsetIn(cs, i + 1) <= OffsetIn(cs, i + 1 + k)}
<1>1. n \in Nat
  OBVIOUS
<1>2. 0 \in T
  <2>1. i + 1 + 0 = i + 1 /\ i + 1 \in 0 .. n
    OBVIOUS
  <2>2. OffsetIn(cs, i + 1) \in Nat
    BY <2>1, OffsetFacts
  <2>. QED  BY <2>1, <2>2
<1>3. ASSUME NEW k \in Nat, k \in T PROVE k + 1 \in T
  <2>. SUFFICES ASSUME i + 1 + (k + 1) <= n
                PROVE  OffsetIn(cs, i + 1) <= OffsetIn(cs, i + 1 + (k + 1))
    OBVIOUS
  <2>1. i + 1 + k \in 0 .. n - 1 /\ (i + 1 + k) + 1 = i + 1 + (k + 1) /\ i + 1 \in 0 .. n
    BY <1>1
  <2>2. OffsetIn(cs, i + 1) <= OffsetIn(cs, i + 1 + k)
    BY <1>3, <2>1
  <2>3. /\ OffsetIn(cs, i + 1 + (k + 1)) = OffsetIn(cs, i + 1 + k) + ChunkSize(cs[i + 1 + (k + 1)])
        /\ cs[i + 1 + (k + 1)] \in Entry
    <3>. DEFINE x == i + 1 + k
    <3>1. x \in 0 .. n - 1 /\ x + 1 = i + 1 + (k + 1)
      BY <2>1
    <3>. HIDE DEF x
    <3>2. OffsetIn(cs, x + 1) = OffsetIn(cs, x) + ChunkSize(cs[x + 1]) /\ cs[x + 1] \in Entry
      BY <3>1, OffsetFacts
    <3>. QED  BY <3>1, <3>2 DEF x
  <2>4. ChunkSize(cs[i + 1 + (k + 1)]) \in Nat
    BY <2>3, EntryFacts
  <2>5. OffsetIn(cs, i + 1 + k) \in Nat /\ OffsetIn(cs, i + 1) \in Nat
    BY <2>1, OffsetFacts
  <2>. QED  BY <2>2, <2>3, <2>4, <2>5
<1>. HIDE DEF T
<1>4. Nat \subseteq T
  BY <1>2, <1>3, NatAll
<1>5. j - i - 1 \in Nat /\ i + 1 + (j - i - 1) = j /\ i \in 0 .. n - 1 /\ i + 1 \in 0 .. n
  OBVIOUS
<1>6. OffsetIn(cs, i + 1) <= OffsetIn(cs, j)
  <2>. DEFINE k == j - i - 1
  <2>1. k \in Nat /\ i + 1 + k = j /\ i + 1 + k <= n
    BY <1>5
  <2>. HIDE DEF k
  <2>2. k \in T
    BY <1>4, <2>1
  <2>3. OffsetIn(cs, i + 1) <= OffsetIn(cs, i + 1 + k)
    BY <2>1, <2>2 DEF T
  <2>. QED  BY <2>1, <2>3
<1>7. OffsetIn(cs, i + 1) = OffsetIn(cs, i) + ChunkSize(cs[i + 1]) /\ cs[i + 1] \in Entry
  BY <1>5, OffsetFacts
<1>8. ChunkSize(cs[i + 1]) \in Nat \ {0}
  BY <1>7, EntryFacts
<1>9. OffsetIn(cs, i) \in Nat /\ OffsetIn(cs, i + 1) \in Nat /\ OffsetIn(cs, j) \in Nat
  BY <1>5, OffsetFacts
<1>. QED  BY <1>6, <1>7, <1>8, <1>9

\* Offsets stay when the history grows.
LEMMA OffsetsStay ==
    ASSUME NEW cs \in Seq(Entry), NEW c \in Entry, NEW i \in 0 .. Len(cs)
    PROVE  OffsetIn(Append(cs, c), i) = OffsetIn(cs, i)
<1>. DEFINE v == [k \in DOMAIN cs |-> ChunkSize(cs[k])]
            u == [k \in DOMAIN Append(cs, c) |-> ChunkSize(Append(cs, c)[k])]
<1>1. i \in Nat /\ \A k \in 1 .. i : /\ k \in DOMAIN cs /\ k \in DOMAIN Append(cs, c)
                                   /\ Append(cs, c)[k] = cs[k] /\ cs[k] \in Entry
  OBVIOUS
<1>2. \A k \in 1 .. i : v[k] \in Int /\ u[k] = v[k]
  BY <1>1, EntryFacts
<1>. HIDE DEF u, v
<1>3. SumTo(v, i) = SumTo(u, i)
  BY <1>1, <1>2, SumSame
<1>. QED  BY <1>3 DEF OffsetIn, u, v

\* One more chunk is written behind the others.
LEMMA WriteNext ==
    ASSUME NEW cs \in Seq(Entry), NEW c \in Entry, NEW w, Written(w, cs)
    PROVE  Append(cs, c) \in Seq(Entry) /\ Written(w \o Bytes(c), Append(cs, c))
<1>. DEFINE n == Len(cs)
            ds == Append(cs, c)
            x == w \o Bytes(c)
<1>1. /\ n \in Nat /\ ds \in Seq(Entry) /\ Len(ds) = n + 1 /\ ds[n + 1] = c
      /\ \A i \in 1 .. n : ds[i] = cs[i] /\ cs[i] \in Entry
  OBVIOUS
<1>2. w \in Seq(Nat) /\ Len(w) = OffsetIn(cs, n)
  BY DEF Written
<1>3. Bytes(c) \in Seq(Nat) /\ Len(Bytes(c)) = ChunkSize(c)
  BY EntryFacts
<1>4. /\ x \in Seq(Nat) /\ Len(x) = Len(w) + ChunkSize(c)
      /\ \A j \in 1 .. Len(w) : x[j] = w[j]
      /\ \A j \in 1 .. ChunkSize(c) : x[Len(w) + j] = Bytes(c)[j]
  <2>1. /\ x \in Seq(Nat) /\ Len(x) = Len(w) + Len(Bytes(c))
        /\ \A j \in 1 .. Len(w) : x[j] = w[j]
        /\ \A j \in 1 .. Len(Bytes(c)) : x[Len(w) + j] = Bytes(c)[j]
    BY <1>2, <1>3, BytesConcatenated
  <2>. HIDE DEF x
  <2>. QED  BY <2>1, <1>3
<1>5. \A i \in 0 .. n : OffsetIn(ds, i) = OffsetIn(cs, i)
  BY OffsetsStay
<1>. HIDE DEF ds, x
<1>6. OffsetIn(ds, n + 1) = OffsetIn(ds, n) + ChunkSize(c)
  <2>1. n \in 0 .. Len(ds) - 1
    BY <1>1
  <2>. QED  BY <1>1, <2>1, OffsetFacts
<1>7. Len(x) = OffsetIn(ds, Len(ds))
  <2>1. OffsetIn(ds, n) = OffsetIn(cs, n)
    BY <1>1, <1>5
  <2>. QED  BY <1>1, <1>2, <1>4, <1>6, <2>1
<1>8. ASSUME NEW i \in 1 .. n + 1, NEW j \in 1 .. ChunkSize(ds[i])
      PROVE  x[OffsetIn(ds, i - 1) + j] = Bytes(ds[i])[j]
  <2>0. i - 1 \in 0 .. n
    BY <1>1
  <2>1. CASE i = n + 1
    <3>1. OffsetIn(ds, i - 1) = Len(w)
      BY <1>1, <1>2, <1>5, <2>0, <2>1
    <3>. QED  BY <1>1, <1>4, <2>1, <3>1
  <2>2. CASE i # n + 1
    <3>1. i \in 1 .. n /\ i - 1 \in 0 .. n /\ ds[i] = cs[i] /\ cs[i] \in Entry
      BY <1>1, <2>2
    <3>2. OffsetIn(ds, i - 1) = OffsetIn(cs, i - 1) /\ OffsetIn(cs, i - 1) \in Nat
      BY <3>1, <1>5, OffsetFacts
    <3>3. w[OffsetIn(cs, i - 1) + j] = Bytes(cs[i])[j]
      BY <3>1 DEF Written
    <3>4. OffsetIn(cs, i) = OffsetIn(cs, i - 1) + ChunkSize(cs[i])
      <4>. DEFINE k == i - 1
      <4>1. k \in 0 .. n - 1 /\ k + 1 = i
        BY <3>1
      <4>. HIDE DEF k
      <4>2. OffsetIn(cs, k + 1) = OffsetIn(cs, k) + ChunkSize(cs[k + 1])
        BY <4>1, OffsetFacts
      <4>. QED  BY <4>1, <4>2 DEF k
    <3>5. OffsetIn(cs, i) <= OffsetIn(cs, n) /\ OffsetIn(cs, n) \in Nat
      <4>1. i \in 0 .. n /\ n \in 0 .. n /\ OffsetIn(cs, n) \in Nat
        BY <1>1, <3>1, OffsetFacts
      <4>2. CASE i = n
        BY <4>1, <4>2
      <4>3. CASE i < n
        BY <4>1, <4>3, OffsetsGrow, OffsetFacts
      <4>. QED  BY <1>1, <3>1, <4>1, <4>2, <4>3
    <3>6. ChunkSize(cs[i]) \in Nat
      BY <3>1, EntryFacts
    <3>7. OffsetIn(cs, i - 1) + j \in 1 .. Len(w)
      BY <1>2, <3>1, <3>2, <3>4, <3>5, <3>6
    <3>. QED  BY <1>4, <3>1, <3>2, <3>3, <3>7
  <2>. QED  BY <2>1, <2>2
<1>9. Written(x, ds)
  BY <1>1, <1>4, <1>7, <1>8 DEF Written
<1>. QED  BY <1>1, <1>9 DEF ds, x

-----------------------------------------------------------------------------
(* Reading *)

\* The offset p is where a chunk of the stream begins or the stream ends: after the first i
\* chunks of the history, or between two of the chunks that padding was split into.
Boundary(cs, i, p) ==
    /\ i \in 0 .. Len(cs) /\ p \in Nat /\ OffsetIn(cs, i) <= p
    /\ (p - OffsetIn(cs, i)) % PaddingBuffer = 0
    /\ p # OffsetIn(cs, i) => i < Len(cs) /\ cs[i + 1] < 0 /\ p < OffsetIn(cs, i + 1)

\* e is the chunk that the stream w has at the boundary p.
PieceOf(w, cs, i, p, e, d, n) ==
    /\ i < Len(cs) /\ IsChunk(e, d, n)
    /\ \A j \in 1 .. Len(e) : w[p + j] = e[j]
    /\ p + Len(e) <= OffsetIn(cs, i + 1)
    /\ d = 1 => cs[i + 1] = n /\ p + Len(e) = OffsetIn(cs, i + 1)
    /\ d # 1 => /\ cs[i + 1] < 0 /\ Len(e) <= PaddingBuffer
                /\ p + Len(e) = OffsetIn(cs, i + 1) \/ Len(e) = PaddingBuffer

\* At a boundary that is not the end of the stream there is a chunk.
LEMMA PieceThere ==
    ASSUME NEW cs \in Seq(Entry), NEW w, Written(w, cs), NEW i, NEW p, Boundary(cs, i, p), p < Len(w)
    PROVE  \E e, d, n : PieceOf(w, cs, i, p, e, d, n)
<1>. DEFINE o == OffsetIn(cs, i)
            c == cs[i + 1]
            q == p - o
<1>1. i \in 0 .. Len(cs) /\ p \in Nat /\ Len(cs) \in Nat
  BY DEF Boundary
<1>2. o \in Nat /\ o <= p /\ q \in Nat /\ q % PaddingBuffer = 0
  BY <1>1, OffsetFacts DEF Boundary
<1>3. i < Len(cs)
  BY <1>1, <1>2 DEF Boundary, Written
<1>4. /\ i \in 0 .. Len(cs) - 1 /\ i + 1 \in 1 .. Len(cs) /\ (i + 1) - 1 = i
      /\ c \in Entry /\ OffsetIn(cs, i + 1) = o + ChunkSize(c)
  BY <1>1, <1>3, OffsetFacts
<1>5. ChunkSize(c) \in Nat \ {0} /\ Len(Bytes(c)) = ChunkSize(c) /\ c \in Int /\ (c < 0 \/ Encodable(c))
  BY <1>4, EntryFacts
<1>6. \A j \in 1 .. ChunkSize(c) : w[o + j] = Bytes(c)[j]
  BY <1>4 DEF Written
<1>7. p # o => c < 0 /\ p < o + ChunkSize(c)
  BY <1>4 DEF Boundary
<1>. HIDE DEF o, c
<1>8. CASE c < 0
  <2>. DEFINE m == -c
              z == Piece(m, q)
              e == PaddingChunk(z)
  <2>1. m \in Nat \ {0} /\ ChunkSize(c) = m /\ Bytes(c) = Padding(m)
    BY <1>5, <1>8 DEF ChunkSize, Bytes
  <2>2. q < m
    BY <1>1, <1>2, <1>7, <2>1
  <2>3. Padded(Padding(m), m, m)
    BY <2>1, PaddingShape
  <2>. HIDE DEF m, q
  <2>4. q + z <= m /\ PieceAt(Padding(m), m, q)
    BY <1>2, <2>2, <2>3 DEF Padded
  <2>5. z \in 1 .. PaddingBuffer /\ z <= m - q /\ (z = m - q \/ z = PaddingBuffer)
    BY <1>2, <2>1, <2>2, PieceFacts DEF Piece
  <2>6. \A j \in 1 .. z : Padding(m)[q + j] = e[j]
    BY <2>4 DEF PieceAt
  <2>. HIDE DEF z, e
  <2>7. PICK n : IsChunk(e, 0, n)
    BY <2>5, PadChunk DEF e
  <2>8. Len(e) = z
    BY <2>5, PadChunk DEF e
  <2>9. ASSUME NEW j \in 1 .. z PROVE w[p + j] = e[j]
    <3>1. q + j \in 1 .. ChunkSize(c) /\ o + (q + j) = p + j
      BY <1>1, <1>2, <2>1, <2>2, <2>5 DEF q
    <3>2. w[o + (q + j)] = Padding(m)[q + j]
      BY <1>6, <2>1, <3>1
    <3>. QED  BY <2>6, <3>1, <3>2
  <2>10. p + Len(e) <= o + ChunkSize(c) /\ (p + Len(e) = o + ChunkSize(c) \/ Len(e) = PaddingBuffer)
    BY <1>1, <1>2, <2>1, <2>5, <2>8 DEF q
  <2>11. PieceOf(w, cs, i, p, e, 0, n)
    BY <1>3, <1>4, <1>8, <2>5, <2>7, <2>8, <2>9, <2>10, Widths DEF PieceOf, c
  <2>. QED  BY <2>11
<1>9. CASE ~ (c < 0)
  <2>1. c \in Nat /\ Encodable(c) /\ p = o
    BY <1>5, <1>7, <1>9
  <2>2. Bytes(c) = Encoded(c)
    BY <1>9 DEF Bytes
  <2>3. IsChunk(Encoded(c), 1, c)
    BY <2>1, DataChunk
  <2>. DEFINE e == Encoded(c)
  <2>4. /\ \A j \in 1 .. Len(e) : w[p + j] = e[j]
        /\ p + Len(e) = OffsetIn(cs, i + 1) /\ OffsetIn(cs, i + 1) \in Nat
    <3>1. Len(e) = ChunkSize(c) /\ OffsetIn(cs, i + 1) = p + ChunkSize(c) /\ ChunkSize(c) \in Nat
      BY <1>4, <1>5, <2>1, <2>2
    <3>2. \A j \in 1 .. ChunkSize(c) : w[p + j] = e[j]
      BY <1>6, <2>1, <2>2
    <3>. QED  BY <1>1, <3>1, <3>2
  <2>5. cs[i + 1] = c /\ p + Len(e) <= OffsetIn(cs, i + 1)
    BY <2>4 DEF c
  <2>. HIDE DEF e
  <2>6. PieceOf(w, cs, i, p, e, 1, c)
    BY <1>3, <2>3, <2>4, <2>5 DEF PieceOf, e
  <2>. QED  BY <2>6
<1>. QED  BY <1>8, <1>9

\* What ReadData does when the stream begins with a chunk, or with a part of one.
LEMMA ReadDataStep ==
    ASSUME ReadData, stream \in Seq(Nat), stream # <<>>,
           NEW e, NEW d, NEW n, IsChunk(e, d, n), Begins(stream, e)
    PROVE  /\ Len(stream) < Len(e) => End(Inside)
           /\ Len(stream) >= Len(e) =>
                 /\ stream' = SubSeq(stream, Len(e) + 1, Len(stream))
                 /\ data' = IF d = 1 THEN Append(data, n) ELSE data
                 /\ UNCHANGED <<mode, err>>
<1>. DEFINE k == PrefixLen(stream)
<1>1. /\ ~ (k > 3)
      /\ Len(stream) < Len(e) => Len(stream) < k \/ Len(stream) < k + Length(stream, k)
      /\ Len(stream) >= Len(e) =>
            /\ ~ (Len(stream) < k)
            /\ Length(stream, k) = n /\ k + n = Len(e)
            /\ stream[1] >= More <=> d = 1
  BY ChunkRead
<1>2. IF Len(stream) < k THEN End(Inside)
      ELSE IF Len(stream) < k + Length(stream, k) THEN End(Inside)
      ELSE /\ stream' = SubSeq(stream, k + Length(stream, k) + 1, Len(stream))
           /\ data' = IF stream[1] >= More THEN Append(data, Length(stream, k)) ELSE data
           /\ UNCHANGED <<mode, err>>
  BY <1>1, Zenon DEF ReadData
<1>. HIDE DEF k
<1>3. CASE Len(stream) < Len(e)
  BY <1>1, <1>2, <1>3
<1>4. CASE Len(stream) >= Len(e)
  <2>1. ~ (Len(stream) < k + Length(stream, k)) /\ ~ (Len(stream) < Len(e))
    BY <1>1, <1>4, ChunkFacts
  <2>2. /\ stream' = SubSeq(stream, k + Length(stream, k) + 1, Len(stream))
        /\ data' = IF stream[1] >= More THEN Append(data, Length(stream, k)) ELSE data
        /\ UNCHANGED <<mode, err>>
    BY <1>1, <1>2, <1>4, <2>1, Zenon
  <2>. QED  BY <1>1, <1>4, <2>1, <2>2
<1>5. Len(stream) \in Nat /\ Len(e) \in Nat
  BY ChunkFacts
<1>. QED  BY <1>3, <1>4, <1>5

\* s is what is left of the first m bytes of w from the offset p on.
Rest(s, w, p, m) ==
    /\ m \in Nat /\ p <= m /\ m <= Len(w)
    /\ s \in Seq(Nat) /\ Len(s) = m - p
    /\ \A j \in 1 .. m - p : s[j] = w[p + j]

\* Reading has come to the boundary p of the stream w, and returned all the data before it.
ReadTo(w, cs, i, p, m, s, ds) ==
    /\ Written(w, cs) /\ Boundary(cs, i, p) /\ Rest(s, w, p, m)
    /\ ds = Selected(cs, Nat, i)

\* i chunks of the history cs are within the first m bytes of the stream.
Within(cs, i, m) ==
    /\ i \in 0 .. Len(cs) /\ OffsetIn(cs, i) <= m
    /\ i < Len(cs) => m < OffsetIn(cs, i + 1)

\* The stream's first m bytes end where a chunk ends, i chunks of the history being complete.
EndsAt(cs, i, m) ==
    \/ m = OffsetIn(cs, i)
    \/ cs[i + 1] < 0 /\ (m - OffsetIn(cs, i)) % PaddingBuffer = 0

\* Reading ends with the data of the chunks that arrived, and with "EOF" only between chunks.
ReadAll(cs, i, m, ds, e, t) ==
    /\ Within(cs, i, m) /\ m \in Nat
    /\ ds = Selected(cs, Nat, i)
    /\ e = "EOF" <=> EndsAt(cs, i, m) /\ t = "EOF"

\* A boundary lies before the end of the next chunk of the history.
LEMMA BoundaryWithin ==
    ASSUME NEW cs \in Seq(Entry), NEW i, NEW p, Boundary(cs, i, p)
    PROVE  Within(cs, i, p) /\ EndsAt(cs, i, p)
<1>1. i \in 0 .. Len(cs) /\ Len(cs) \in Nat
  BY DEF Boundary
<1>2. i < Len(cs) => OffsetIn(cs, i) < OffsetIn(cs, i + 1)
  <2>1. i < Len(cs) => i + 1 \in 0 .. Len(cs) /\ i < i + 1
    BY <1>1
  <2>. QED  BY <1>1, <2>1, OffsetsGrow
<1>. QED  BY <1>1, <1>2 DEF Boundary, Within, EndsAt

\* A stream that is read to its end.
LEMMA ReadsToTheEnd ==
    ASSUME chunks \in Seq(Entry), NEW w, NEW i, NEW p,
           ReadTo(w, chunks, i, p, cut, stream, data), ReadData, stream = <<>>
    PROVE  mode' = "end" /\ ReadAll(chunks, i, cut, data', err', tail)
<1>1. p = cut /\ cut \in Nat
  <2>1. Len(stream) = 0 /\ Len(stream) = cut - p /\ p \in Nat /\ cut \in Nat
    BY DEF ReadTo, Rest, Boundary
  <2>. QED  BY <2>1
<1>2. Within(chunks, i, cut) /\ EndsAt(chunks, i, cut)
  BY <1>1, BoundaryWithin DEF ReadTo
<1>3. End(tail)
  BY DEF ReadData
<1>. QED  BY <1>1, <1>2, <1>3 DEF ReadAll, ReadTo, End

\* At any other place the reader finds a chunk, or a part of it.
LEMMA ChunkNext ==
    ASSUME chunks \in Seq(Entry), NEW w, NEW i, NEW p,
           ReadTo(w, chunks, i, p, cut, stream, data), stream # <<>>
    PROVE  \E e, d, n : PieceOf(w, chunks, i, p, e, d, n) /\ Begins(stream, e)
<1>1. /\ p \in Nat /\ cut \in Nat /\ stream \in Seq(Nat) /\ Len(stream) = cut - p
      /\ Len(stream) > 0 /\ cut <= Len(w) /\ Len(w) \in Nat
  BY DEF ReadTo, Rest, Boundary, Written
<1>2. p < Len(w)
  BY <1>1
<1>3. PICK e, d, n : PieceOf(w, chunks, i, p, e, d, n)
  BY <1>2, PieceThere DEF ReadTo
<1>4. ASSUME NEW j \in 1 .. Len(stream), j <= Len(e) PROVE stream[j] = e[j]
  <2>1. j \in 1 .. cut - p /\ j \in 1 .. Len(e)
    BY <1>1, <1>3, <1>4, ChunkFacts DEF PieceOf
  <2>. QED  BY <1>3, <2>1 DEF PieceOf, ReadTo, Rest
<1>5. Begins(stream, e)
  BY <1>4 DEF Begins
<1>. QED  BY <1>3, <1>5

\* A chunk that did not arrive completely.
LEMMA ReadsAPart ==
    ASSUME chunks \in Seq(Entry), NEW w, NEW i, NEW p,
           ReadTo(w, chunks, i, p, cut, stream, data), ReadData, stream # <<>>,
           NEW e, NEW d, NEW n, PieceOf(w, chunks, i, p, e, d, n), Begins(stream, e),
           Len(stream) < Len(e)
    PROVE  mode' = "end" /\ ReadAll(chunks, i, cut, data', err', tail)
<1>. DEFINE o == OffsetIn(chunks, i)
            s == Len(stream)
<1>1. /\ p \in Nat /\ cut \in Nat /\ stream \in Seq(Nat) /\ s \in Nat /\ s = cut - p /\ s > 0
      /\ i \in 0 .. Len(chunks) /\ i < Len(chunks)
      /\ o <= p /\ (p - o) % PaddingBuffer = 0
  BY DEF ReadTo, Rest, Boundary, PieceOf
<1>2. o \in Nat /\ e \in Seq(Nat) /\ Len(e) \in Nat /\ n \in Nat
  <2>1. IsChunk(e, d, n)
    BY DEF PieceOf
  <2>2. o \in Nat
    BY <1>1, OffsetFacts
  <2>3. e \in Seq(Nat) /\ Len(e) \in Nat
    BY <2>1, ChunkFacts
  <2>. QED  BY <2>1, <2>2, <2>3 DEF IsChunk
<1>3. End(Inside) /\ s < Len(e)
  BY <1>1, ReadDataStep DEF PieceOf
<1>. HIDE DEF o, s
<1>4. Within(chunks, i, cut)
  <2>1. OffsetIn(chunks, i + 1) \in Nat
    BY <1>1, OffsetFacts
  <2>2. p + Len(e) <= OffsetIn(chunks, i + 1)
    BY DEF PieceOf
  <2>3. o <= cut /\ cut < OffsetIn(chunks, i + 1)
    BY <1>1, <1>2, <1>3, <2>1, <2>2
  <2>. QED  BY <1>1, <2>3 DEF Within, o
<1>5. ~ EndsAt(chunks, i, cut)
  <2>1. cut # o
    BY <1>1, <1>2
  <2>2. ASSUME chunks[i + 1] < 0 PROVE (cut - o) % PaddingBuffer # 0
    <3>1. Len(e) <= PaddingBuffer
      <4>1. d # 1
        BY <1>2, <2>2 DEF PieceOf
      <4>. QED  BY <4>1 DEF PieceOf
    <3>2. p - o \in Nat /\ s \in 1 .. PaddingBuffer - 1 /\ cut - o = (p - o) + s
      BY <1>1, <1>2, <1>3, <3>1, Widths
    <3>3. ((p - o) + s) % PaddingBuffer # 0
      <4>. DEFINE x == p - o
      <4>1. x \in Nat /\ x % PaddingBuffer = 0
        BY <1>1, <3>2
      <4>. HIDE DEF x
      <4>2. (x + s) % PaddingBuffer # 0
        <5>1. s \in 1 .. PaddingBuffer - 1 /\ PaddingBuffer \in Nat \ {0}
          BY <3>2, Widths
        <5>. QED  BY <4>1, <5>1, Multiples, Zenon
      <4>. QED  BY <4>2 DEF x
    <3>. QED  BY <3>2, <3>3
  <2>. QED  BY <2>1, <2>2 DEF EndsAt, o
<1>6. Inside # "EOF"
  BY DEF Inside
<1>. QED  BY <1>1, <1>3, <1>4, <1>5, <1>6 DEF ReadAll, ReadTo, End

\* The offset p is a boundary, and ds is the data before it.
DataUpTo(cs, p, ds) == \E k : Boundary(cs, k, p) /\ Selected(cs, Nat, k) = ds

\* The end of a chunk is a boundary, and so is the end of each chunk of padding.
LEMMA NextBoundary ==
    ASSUME NEW cs \in Seq(Entry), NEW w, NEW i, NEW p, Boundary(cs, i, p),
           NEW e, NEW d, NEW n, PieceOf(w, cs, i, p, e, d, n), NEW ds, ds = Selected(cs, Nat, i)
    PROVE  DataUpTo(cs, p + Len(e), IF d = 1 THEN Append(ds, n) ELSE ds)
<1>. DEFINE o == OffsetIn(cs, i)
            z == Len(e)
<1>1. /\ i \in 0 .. Len(cs) - 1 /\ i \in 0 .. Len(cs) /\ i + 1 \in 0 .. Len(cs) /\ i \in Nat
      /\ p \in Nat /\ o <= p /\ (p - o) % PaddingBuffer = 0
  BY DEF Boundary, PieceOf
<1>2. IsChunk(e, d, n)
  BY DEF PieceOf
<1>3. z \in Nat /\ n \in Nat
  <2>1. z \in Nat
    BY <1>2, ChunkFacts
  <2>. QED  BY <1>2, <2>1 DEF IsChunk
<1>4. o \in Nat /\ OffsetIn(cs, i + 1) \in Nat /\ cs[i + 1] \in Entry
  BY <1>1, OffsetFacts
<1>5. cs[i + 1] \in Int
  BY <1>4, EntryFacts
<1>6. ASSUME p + z = OffsetIn(cs, i + 1)
      PROVE  Boundary(cs, i + 1, p + z)
  <2>1. (p + z - OffsetIn(cs, i + 1)) % PaddingBuffer = 0
    <3>1. p + z - OffsetIn(cs, i + 1) = 0
      BY <1>1, <1>3, <1>4, <1>6
    <3>2. 0 % PaddingBuffer = 0
      BY Widths
    <3>. QED  BY <3>1, <3>2
  <2>. QED  BY <1>1, <1>3, <1>4, <1>6, <2>1 DEF Boundary
<1>7. CASE d = 1
  <2>1. cs[i + 1] = n /\ p + z = OffsetIn(cs, i + 1)
    BY <1>7 DEF PieceOf
  <2>2. Selected(cs, Nat, i + 1) = Append(ds, n)
    BY <1>1, <1>3, <2>1, SelectedNext
  <2>3. Boundary(cs, i + 1, p + z)
    BY <1>6, <2>1
  <2>. QED  BY <1>7, <2>2, <2>3 DEF DataUpTo
<1>8. CASE d # 1 /\ p + z = OffsetIn(cs, i + 1)
  <2>1. cs[i + 1] \notin Nat
    BY <1>5, <1>8 DEF PieceOf
  <2>2. Selected(cs, Nat, i + 1) = ds
    BY <1>1, <2>1, SelectedNext
  <2>3. Boundary(cs, i + 1, p + z)
    BY <1>6, <1>8
  <2>. QED  BY <1>8, <2>2, <2>3 DEF DataUpTo
<1>9. CASE d # 1 /\ p + z # OffsetIn(cs, i + 1)
  <2>1. z = PaddingBuffer /\ cs[i + 1] < 0 /\ p + z < OffsetIn(cs, i + 1)
    <3>1. z = PaddingBuffer /\ cs[i + 1] < 0 /\ p + z <= OffsetIn(cs, i + 1)
      BY <1>9, Zenon DEF PieceOf
    <3>. HIDE DEF z
    <3>. QED  BY <1>1, <1>3, <1>4, <1>9, <3>1
  <2>. DEFINE x == p - o
  <2>2. x \in Nat /\ x % PaddingBuffer = 0 /\ PaddingBuffer \in Nat \ {0}
    BY <1>1, <1>4, Widths
  <2>. HIDE DEF x
  <2>3. (x + PaddingBuffer) % PaddingBuffer = 0
    BY <2>2, Multiples, Zenon
  <2>4. (p + z) - o = x + PaddingBuffer
    BY <1>1, <1>4, <2>1, <2>2 DEF x
  <2>5. Boundary(cs, i, p + z)
    BY <1>1, <1>3, <1>4, <2>1, <2>3, <2>4 DEF Boundary
  <2>. QED  BY <1>9, <2>5 DEF DataUpTo
<1>. QED  BY <1>7, <1>8, <1>9

\* A chunk that arrived completely is read, and the reader goes on behind it.
LEMMA ReadsAChunk ==
    ASSUME chunks \in Seq(Entry), NEW w, NEW i, NEW p,
           ReadTo(w, chunks, i, p, cut, stream, data), ReadData, stream # <<>>,
           NEW e, NEW d, NEW n, PieceOf(w, chunks, i, p, e, d, n), Begins(stream, e),
           Len(stream) >= Len(e)
    PROVE  mode' = mode /\ \E k, r : ReadTo(w, chunks, k, r, cut, stream', data')
<1>. DEFINE z == Len(e)
            r == p + z
<1>1. /\ p \in Nat /\ cut \in Nat /\ stream \in Seq(Nat) /\ Len(stream) = cut - p
      /\ p <= cut /\ cut <= Len(w)
      /\ \A j \in 1 .. cut - p : stream[j] = w[p + j]
      /\ Written(w, chunks) /\ Boundary(chunks, i, p) /\ data = Selected(chunks, Nat, i)
  BY DEF ReadTo, Rest, Boundary
<1>2. IsChunk(e, d, n)
  BY DEF PieceOf
<1>3. z \in Nat /\ z > 0
  BY <1>2, ChunkFacts
<1>4. /\ stream' = SubSeq(stream, z + 1, Len(stream))
      /\ data' = IF d = 1 THEN Append(data, n) ELSE data
      /\ mode' = mode
  BY <1>1, <1>2, ReadDataStep
<1>5. PICK k : /\ Boundary(chunks, k, r)
               /\ Selected(chunks, Nat, k) = IF d = 1 THEN Append(data, n) ELSE data
  <2>1. DataUpTo(chunks, r, IF d = 1 THEN Append(data, n) ELSE data)
    BY <1>1, NextBoundary
  <2>. QED  BY <2>1 DEF DataUpTo
<1>6. /\ r \in Nat /\ r <= cut
      /\ stream' \in Seq(Nat) /\ Len(stream') = cut - r
      /\ \A j \in 1 .. cut - r : stream'[j] = stream[z + j]
  <2>1. Len(stream) = cut - p /\ z <= Len(stream) /\ stream \in Seq(Nat)
    BY <1>1
  <2>. HIDE DEF z
  <2>2. /\ stream' \in Seq(Nat) /\ Len(stream') = Len(stream) - z
        /\ \A j \in 1 .. Len(stream) - z : stream'[j] = stream[z + j]
    BY <1>3, <1>4, <2>1, Dropped
  <2>3. Len(stream) - z = cut - r
    BY <1>1, <1>3
  <2>. QED  BY <1>1, <1>3, <2>1, <2>2, <2>3
<1>7. ASSUME NEW j \in 1 .. cut - r PROVE stream'[j] = w[r + j]
  <2>1. z + j \in 1 .. cut - p /\ p + (z + j) = r + j
    BY <1>1, <1>3, <1>6
  <2>2. stream[z + j] = w[p + (z + j)]
    BY <1>1, <2>1
  <2>. QED  BY <1>6, <2>1, <2>2
<1>8. Rest(stream', w, r, cut)
  BY <1>1, <1>6, <1>7 DEF Rest
<1>9. ReadTo(w, chunks, k, r, cut, stream', data')
  BY <1>1, <1>4, <1>5, <1>8 DEF ReadTo
<1>. QED  BY <1>4, <1>9

-----------------------------------------------------------------------------
(* The invariant *)

\* While the stream is written it holds the chunks of the history, while it is read the data
\* before the place reached has been returned, and afterwards all that arrived has been.
StreamInv ==
    /\ chunks \in Seq(Entry) /\ mode \in {"write", "read", "end"}
    /\ mode = "write" => Written(stream, chunks) /\ data = <<>>
    /\ mode = "read" => \E w, i, p : ReadTo(w, chunks, i, p, cut, stream, data)
    /\ mode = "end" => \E i : ReadAll(chunks, i, cut, data, err, tail)

\* Reading keeps the invariant.
LEMMA ReadKeeps == StreamInv /\ ReadData => StreamInv'
<1>. SUFFICES ASSUME StreamInv, ReadData PROVE StreamInv'
  OBVIOUS
<1>1. mode = "read" /\ UNCHANGED <<chunks, cut, tail>> /\ chunks \in Seq(Entry)
  BY DEF ReadData, StreamInv
<1>2. PICK w, i, p : ReadTo(w, chunks, i, p, cut, stream, data)
  BY <1>1 DEF StreamInv
<1>3. CASE stream = <<>>
  <2>1. mode' = "end" /\ ReadAll(chunks, i, cut, data', err', tail)
    BY <1>1, <1>2, <1>3, ReadsToTheEnd
  <2>. QED  BY <1>1, <2>1 DEF StreamInv
<1>4. CASE stream # <<>>
  <2>1. PICK e, d, n : PieceOf(w, chunks, i, p, e, d, n) /\ Begins(stream, e)
    BY <1>1, <1>2, <1>4, ChunkNext
  <2>2. CASE Len(stream) < Len(e)
    <3>1. mode' = "end" /\ ReadAll(chunks, i, cut, data', err', tail)
      BY <1>1, <1>2, <1>4, <2>1, <2>2, ReadsAPart
    <3>. QED  BY <1>1, <3>1 DEF StreamInv
  <2>3. CASE Len(stream) >= Len(e)
    <3>1. mode' = mode /\ \E k, r : ReadTo(w, chunks, k, r, cut, stream', data')
      BY <1>1, <1>2, <1>4, <2>1, <2>3, ReadsAChunk
    <3>. QED  BY <1>1, <3>1 DEF StreamInv
  <2>4. IsChunk(e, d, n) /\ stream \in Seq(Nat)
    BY <1>2, <2>1 DEF PieceOf, ReadTo, Rest
  <2>5. Len(e) \in Nat /\ Len(stream) \in Nat
    BY <2>4, ChunkFacts
  <2>. QED  BY <2>2, <2>3, <2>5
<1>. QED  BY <1>3, <1>4

\* Writing data keeps the invariant.
LEMMA WriteDataKeeps == StreamInv /\ WriteData => StreamInv'
<1>. SUFFICES ASSUME StreamInv, WriteData PROVE StreamInv'
  OBVIOUS
<1>1. /\ mode = "write" /\ mode' = "write" /\ data' = data /\ data = <<>>
      /\ chunks \in Seq(Entry) /\ Written(stream, chunks)
  BY DEF StreamInv, WriteData
<1>2. PICK n \in DataLen :
          /\ stream' = IF Encodable(n) THEN stream \o dataPrefixForLength(n) \o Body(n) ELSE stream
          /\ chunks' = IF Encodable(n) THEN Append(chunks, n) ELSE chunks
  BY DEF WriteData
<1>3. n \in Nat
  BY <1>2, EncapsulationAssumption
<1>4. CASE Encodable(n)
  <2>1. n \in Entry /\ Bytes(n) = Encoded(n)
    BY <1>3, <1>4 DEF Entry, Bytes
  <2>2. stream' = stream \o Bytes(n)
    <3>1. Says(dataPrefixForLength(n), 1, n)
      BY <1>3, <1>4, DataPrefix
    <3>2. stream \in Seq(Nat) /\ dataPrefixForLength(n) \in Seq(Nat) /\ Body(n) \in Seq(Nat)
      BY <1>1, <1>3, <3>1 DEF Written, Says, Body
    <3>3. (stream \o dataPrefixForLength(n)) \o Body(n) = stream \o (dataPrefixForLength(n) \o Body(n))
      BY <3>2
    <3>. QED  BY <1>2, <1>4, <2>1, <3>3 DEF Encoded
  <2>3. chunks' = Append(chunks, n)
    BY <1>2, <1>4
  <2>4. Append(chunks, n) \in Seq(Entry) /\ Written(stream \o Bytes(n), Append(chunks, n))
    BY <1>1, <2>1, WriteNext
  <2>. QED  BY <1>1, <2>2, <2>3, <2>4 DEF StreamInv
<1>5. CASE ~ Encodable(n)
  BY <1>1, <1>2, <1>5 DEF StreamInv
<1>. QED  BY <1>4, <1>5

\* Writing padding keeps the invariant.
LEMMA WritePaddingKeeps == StreamInv /\ WritePadding => StreamInv'
<1>. SUFFICES ASSUME StreamInv, WritePadding PROVE StreamInv'
  OBVIOUS
<1>1. /\ mode = "write" /\ mode' = "write" /\ data' = data /\ data = <<>>
      /\ chunks \in Seq(Entry) /\ Written(stream, chunks)
  BY DEF StreamInv, WritePadding
<1>2. PICK n \in PadLen \ {0} : stream' = stream \o Padding(n) /\ chunks' = Append(chunks, -n)
  BY DEF WritePadding
<1>3. n \in Nat \ {0} /\ -n \in Int /\ -n < 0 /\ -(-n) = n
  BY <1>2, EncapsulationAssumption
<1>4. -n \in Entry /\ Bytes(-n) = Padding(n)
  BY <1>3 DEF Entry, Bytes
<1>5. Append(chunks, -n) \in Seq(Entry) /\ Written(stream \o Bytes(-n), Append(chunks, -n))
  BY <1>1, <1>4, WriteNext
<1>. QED  BY <1>1, <1>2, <1>4, <1>5 DEF StreamInv

\* A stream of which m bytes arrive is read from its start on.
LEMMA StartsReading ==
    ASSUME NEW cs \in Seq(Entry), NEW w, Written(w, cs), NEW m \in 0 .. Len(w)
    PROVE  ReadTo(w, cs, 0, 0, m, SubSeq(w, 1, m), <<>>)
<1>1. w \in Seq(Nat) /\ m \in Nat /\ m <= Len(w) /\ Len(cs) \in Nat
  BY DEF Written
<1>2. /\ SubSeq(w, 1, m) \in Seq(Nat) /\ Len(SubSeq(w, 1, m)) = m
      /\ \A j \in 1 .. m : SubSeq(w, 1, m)[j] = w[j]
  BY <1>1
<1>3. Rest(SubSeq(w, 1, m), w, 0, m)
  BY <1>1, <1>2 DEF Rest
<1>4. OffsetIn(cs, 0) = 0 /\ 0 % PaddingBuffer = 0 /\ 0 - 0 = 0
  BY OffsetFacts, Widths
<1>5. Boundary(cs, 0, 0)
  BY <1>1, <1>4 DEF Boundary
<1>6. Selected(cs, Nat, 0) = <<>>
  BY SelectedNext
<1>. QED  BY <1>3, <1>5, <1>6 DEF ReadTo

\* The arrival of the stream keeps the invariant.
LEMMA ArriveKeeps == StreamInv /\ Arrive => StreamInv'
<1>. SUFFICES ASSUME StreamInv, Arrive PROVE StreamInv'
  OBVIOUS
<1>1. /\ mode = "write" /\ mode' = "read" /\ data' = <<>> /\ chunks' = chunks
      /\ chunks \in Seq(Entry) /\ Written(stream, chunks)
  BY DEF StreamInv, Arrive
<1>2. PICK k \in 0 .. Len(stream) : stream' = SubSeq(stream, 1, k) /\ cut' = k
  BY DEF Arrive
<1>3. ReadTo(stream, chunks', 0, 0, cut', stream', data')
  BY <1>1, <1>2, StartsReading
<1>. QED  BY <1>1, <1>3 DEF StreamInv

\* Nothing is written or read at first.
LEMMA StreamStart == Init => StreamInv
<1>. SUFFICES ASSUME Init PROVE StreamInv
  OBVIOUS
<1>1. <<>> \in Seq(Entry) /\ <<>> \in Seq(Nat) /\ Len(<<>>) = 0
  OBVIOUS
<1>2. OffsetIn(<<>>, 0) = 0
  BY <1>1, OffsetFacts
<1>3. Written(<<>>, <<>>)
  BY <1>1, <1>2 DEF Written
<1>. QED  BY <1>1, <1>3 DEF Init, StreamInv

(***************************************************************************)
(* The invariant of the stream, for every sequence of chunks and every     *)
(* place it is cut off at.                                                 *)
(***************************************************************************)
THEOREM StreamInvariant == Spec => []StreamInv
<1>1. StreamInv /\ [Next]_vars => StreamInv'
  <2>. SUFFICES ASSUME StreamInv, [Next]_vars PROVE StreamInv'
    OBVIOUS
  <2>1. CASE UNCHANGED vars
    BY <2>1 DEF vars, StreamInv
  <2>. QED  BY <2>1, WriteDataKeeps, WritePaddingKeeps, ArriveKeeps, ReadKeeps DEF Next
<1>. QED  BY <1>1, StreamStart, PTL DEF Spec

\* Only one number of chunks can have arrived.
LEMMA ArrivedIs ==
    ASSUME chunks \in Seq(Entry), NEW i, Within(chunks, i, cut), cut \in Nat
    PROVE  Arrived = i
<1>1. \A k : Offset(k) = OffsetIn(chunks, k)
  BY DEF Offset, OffsetIn
<1>2. i \in 0 .. Len(chunks) /\ Len(chunks) \in Nat
  BY DEF Within
<1>3. ASSUME NEW k \in 0 .. Len(chunks), NEW j \in 0 .. Len(chunks), k < j,
             Within(chunks, k, cut), Within(chunks, j, cut)
      PROVE  FALSE
  <2>1. OffsetIn(chunks, k + 1) <= OffsetIn(chunks, j)
    BY <1>3, OffsetsGrow
  <2>2. cut < OffsetIn(chunks, k + 1) /\ OffsetIn(chunks, j) <= cut
    BY <1>2, <1>3 DEF Within
  <2>3. OffsetIn(chunks, k + 1) \in Nat /\ OffsetIn(chunks, j) \in Nat
    <3>1. k + 1 \in 0 .. Len(chunks)
      BY <1>2, <1>3
    <3>. QED  BY <3>1, OffsetFacts
  <2>. QED  BY <2>1, <2>2, <2>3
<1>4. \A k \in 0 .. Len(chunks) : Within(chunks, k, cut) => k = i
  BY <1>2, <1>3
<1>5. \A k \in 0 .. Len(chunks) :
          Within(chunks, k, cut) <=> Offset(k) <= cut /\ (k < Len(chunks) => cut < Offset(k + 1))
  BY <1>1, Zenon DEF Within
<1>. QED  BY <1>2, <1>4, <1>5, Zenon DEF Arrived

\* When the reading has ended it has returned the data that arrived, and noticed a cut.
LEMMA StreamEnd == StreamInv => ReadsWhatWasWritten /\ CutIsNoticed
<1>. SUFFICES ASSUME StreamInv, mode = "end"
              PROVE  /\ data = Selected(chunks, Nat, Arrived)
                     /\ err = "EOF" <=> AtChunkEnd /\ tail = "EOF"
  BY DEF ReadsWhatWasWritten, CutIsNoticed
<1>1. PICK i : ReadAll(chunks, i, cut, data, err, tail)
  BY DEF StreamInv
<1>2. Arrived = i
  BY <1>1, ArrivedIs DEF ReadAll, StreamInv
<1>3. AtChunkEnd <=> EndsAt(chunks, i, cut)
  BY <1>2 DEF AtChunkEnd, EndsAt, Offset, OffsetIn
<1>. QED  BY <1>1, <1>2, <1>3 DEF ReadAll

\* MaxDataForSize of any size that can be encoded is the largest that fits, or one less.
LEMMA MaxDataForSizeFits ==
    ASSUME NEW n \in Nat \ {0}, n < TooLong
    PROVE  EncodedSize(MaxDataForSize(n)) <= n /\ EncodedSize(MaxDataForSize(n) + 2) > n
<1>. DEFINE L(k) == Len(dataPrefixForLength(k))
            m == MaxDataForSize(n)
<1>1. m = n - L(n)
  BY Widths DEF MaxDataForSize
<1>2. Half < Half * More /\ Half * More \in Nat /\ Half + 1 <= Half * More
  BY Widths
<1>3. \A k \in Nat : /\ k < Half => L(k) = 1
                     /\ k >= Half /\ k < Half * More => L(k) = 2
                     /\ k >= Half * More /\ k < TooLong => L(k) = 3
                     /\ k >= TooLong => L(k) = 0
  BY DataPrefix
<1>4. \A k : EncodedSize(k) = L(k) + k
  BY DEF EncodedSize
<1>5. \A k \in Int : k < 0 => L(k) = 1
  <2>1. \A k \in Int : k < 0 => dataPrefixForLength(k) = OneByte(1, k)
    BY <1>2, Widths DEF dataPrefixForLength
  <2>. QED  BY <2>1 DEF OneByte
<1>. HIDE DEF L, m
<1>6. CASE n < Half
  <2>1. L(n) = 1 /\ m = n - 1 /\ m \in Nat /\ m < Half /\ m + 2 = n + 1 /\ n + 1 \in Nat
    BY <1>1, <1>3, <1>6, Widths
  <2>2. L(m) = 1 /\ L(n + 1) \in Nat
    BY <1>3, <2>1, Widths
  <2>. QED  BY <1>4, <2>1, <2>2 DEF m
<1>7. CASE n >= Half /\ n < Half * More
  <2>1. L(n) = 2 /\ m = n - 2 /\ m + 2 = n /\ m \in Int
    BY <1>1, <1>3, <1>7, Widths
  <2>2. L(m) \in {1, 2}
    BY <1>3, <1>5, <1>7, <2>1, Widths
  <2>. QED  BY <1>4, <2>1, <2>2 DEF m
<1>8. CASE n >= Half * More
  <2>1. L(n) = 3 /\ m = n - 3 /\ m + 2 = n - 1 /\ m \in Int /\ n - 1 \in Nat /\ n - 1 >= Half
    BY <1>1, <1>2, <1>3, <1>8, Widths
  <2>2. L(m) \in {1, 2, 3} /\ L(n - 1) \in {2, 3}
    BY <1>3, <1>5, <1>8, <2>1, Widths
  <2>. QED  BY <1>4, <2>1, <2>2 DEF m
<1>. QED  BY <1>6, <1>7, <1>8, <1>2, Widths

\* MaxDataForSize fits every chunk that is written.
LEMMA MaxDataHolds == StreamInv => MaxDataFits
<1>. SUFFICES ASSUME StreamInv, NEW i \in DOMAIN chunks, chunks[i] > 0
              PROVE  LET m == MaxDataForSize(chunks[i])
                     IN  EncodedSize(m) <= chunks[i] /\ EncodedSize(m + 2) > chunks[i]
  BY DEF MaxDataFits
<1>1. chunks[i] \in Entry
  BY DEF StreamInv
<1>2. chunks[i] \in Nat \ {0} /\ Encodable(chunks[i])
  BY <1>1, EntryFacts
<1>3. chunks[i] < TooLong
  BY <1>2, DataPrefix
<1>. QED  BY <1>2, <1>3, MaxDataForSizeFits
=============================================================================
