---------------------------- MODULE Encapsulation ----------------------------
(***************************************************************************)
(* encapsulation/encapsulation.go: packets and padding as chunks with a    *)
(* length prefix, written to a stream (a poll's payload, a response) and   *)
(* read from what arrives of it.  A byte is an integer.  Half is 2^6, the  *)
(* values that fit into the first byte of a prefix beside its two flags; a *)
(* later byte has one flag and room for twice as many.                     *)
(***************************************************************************)
EXTENDS Integers, Sequences, Loops

CONSTANTS
    Half,          \* 64 in the code
    PaddingBuffer, \* len(paddingBuffer): 1024 in the code
    DataLen,       \* bound: lengths of data written
    PadLen,        \* bound: sizes of padding written
    MaxChunks      \* bound: calls that write

ASSUME EncapsulationAssumption ==
    /\ Half \in Nat \ {0} /\ PaddingBuffer \in Nat \ {0} /\ MaxChunks \in Nat
    /\ DataLen \subseteq Nat /\ PadLen \subseteq Nat
    \* Padding of this size never needs a prefix of three bytes.
    /\ PaddingBuffer - 2 < 2 * Half * Half

More == 2 * Half           \* 0x80
TooLong == Half * More * More

VARIABLES
    stream,     \* bytes written, and later the ones not yet read
    mode,       \* "write", "read" or "end"
    chunks,     \* history: what was written: data lengths, and -n for padding of n bytes
    cut,        \* history: bytes of the stream that arrived, once it is known
    data,       \* lengths of the data read
    tail,       \* the error the reader gives when the stream is used up
    err         \* the error that ended the reading

vars == <<stream, mode, chunks, cut, data, tail, err>>

Init ==
    /\ stream = <<>> /\ mode = "write" /\ chunks = <<>> /\ cut = 0
    /\ data = <<>> /\ tail = "nil" /\ err = "nil"

-----------------------------------------------------------------------------
(* Prefixes *)

\* The three forms of a prefix; d is the flag for data.
OneByte(d, n) == <<d * More + n>>
TwoBytes(d, n) == <<d * More + Half + n \div More, n % More>>
ThreeBytes(d, n) ==
    <<d * More + Half + n \div (More * More), More + ((n \div More) % More), n % More>>

\* The prefix of data of length n; empty stands for ErrTooLong.
dataPrefixForLength(n) ==
    CASE n < Half -> OneByte(1, n)
      [] n >= Half /\ n < Half * More -> TwoBytes(1, n)
      [] n >= Half * More /\ n < TooLong -> ThreeBytes(1, n)
      [] OTHER -> <<>>

Body(n) == [i \in 1 .. n |-> 0]

Encodable(n) == dataPrefixForLength(n) # <<>>

\* WritePadding: a chunk of p bytes, its prefix included.
PaddingChunk(p) ==
    IF p - 1 < Half THEN OneByte(0, p - 1) \o Body(p - 1)
                    ELSE TwoBytes(0, p - 2) \o Body(p - 2)

\* A round of its loop: as much as is left, and as PaddingBuffer allows.
PaddingRound(s) ==
    LET p == IF s.left < PaddingBuffer THEN s.left ELSE PaddingBuffer
    IN  IF s.left = 0 THEN s ELSE [out |-> s.out \o PaddingChunk(p), left |-> s.left - p]

Padding(n) == Rounds(PaddingRound, [out |-> <<>>, left |-> n], n).out

-----------------------------------------------------------------------------
(* Writing *)

WriteData ==
    /\ mode = "write" /\ Len(chunks) < MaxChunks
    /\ \E n \in DataLen :
          /\ stream' = IF Encodable(n) THEN stream \o dataPrefixForLength(n) \o Body(n) ELSE stream
          /\ chunks' = IF Encodable(n) THEN Append(chunks, n) ELSE chunks
    /\ UNCHANGED <<mode, cut, data, tail, err>>

WritePadding ==
    /\ mode = "write" /\ Len(chunks) < MaxChunks
    /\ \E n \in PadLen \ {0} :
          /\ stream' = stream \o Padding(n)
          /\ chunks' = Append(chunks, -n)
    /\ UNCHANGED <<mode, cut, data, tail, err>>

\* Some of the stream arrives, perhaps all of it.
Arrive ==
    /\ mode = "write"
    /\ \E k \in 0 .. Len(stream) :
          /\ stream' = SubSeq(stream, 1, k)
          /\ cut' = k
    /\ mode' = "read" /\ tail' = "EOF"
    /\ UNCHANGED <<chunks, data, err>>

-----------------------------------------------------------------------------
(* Reading *)

\* How many bytes the prefix at the head of s has, as its flags say: at most 3, else 4.
PrefixLen(s) ==
    IF (s[1] \div Half) % 2 = 0 THEN 1
    ELSE IF Len(s) < 2 \/ s[2] < More THEN 2
    ELSE IF Len(s) < 3 \/ s[3] < More THEN 3
    ELSE 4

\* The length a complete prefix of k bytes says.
Length(s, k) ==
    CASE k = 1 -> s[1] % Half
      [] k = 2 -> (s[1] % Half) * More + (s[2] % More)
      [] k = 3 -> ((s[1] % Half) * More + (s[2] % More)) * More + (s[3] % More)

\* The error of a reader that ends within a chunk: "EOF" becomes "UnexpectedEOF".
Inside == IF tail = "EOF" THEN "UnexpectedEOF" ELSE tail

End(e) == mode' = "end" /\ err' = e /\ UNCHANGED <<stream, data>>

\* Mutant of ReadData: the end of the stream is the end wherever it comes.
ReadDataLenient ==
    /\ mode = "read"
    /\ IF stream = <<>> THEN End(tail)
       ELSE LET k == PrefixLen(stream)
            IN  IF k > 3 THEN End("TooLong")
                ELSE IF Len(stream) < k THEN End(tail)
                ELSE LET n == Length(stream, k)
                     IN  IF Len(stream) < k + n THEN End(tail)
                         ELSE /\ stream' = SubSeq(stream, k + n + 1, Len(stream))
                              /\ data' = IF stream[1] >= More THEN Append(data, n) ELSE data
                              /\ UNCHANGED <<mode, err>>
    /\ UNCHANGED <<chunks, cut, tail>>

\* Mutant of ReadData: padding is returned as data.
ReadDataPadding ==
    /\ mode = "read"
    /\ IF stream = <<>> THEN End(tail)
       ELSE LET k == PrefixLen(stream)
            IN  IF k > 3 THEN End("TooLong")
                ELSE IF Len(stream) < k THEN End(Inside)
                ELSE LET n == Length(stream, k)
                     IN  IF Len(stream) < k + n THEN End(Inside)
                         ELSE /\ stream' = SubSeq(stream, k + n + 1, Len(stream))
                              /\ data' = Append(data, n)
                              /\ UNCHANGED <<mode, err>>
    /\ UNCHANGED <<chunks, cut, tail>>

(***************************************************************************)
(* One round of ReadData's loop, which returns data and skips padding; the *)
(* caller calls it until it returns an error.                              *)
(***************************************************************************)
ReadData ==
    /\ mode = "read"
    /\ IF stream = <<>> THEN End(tail)
       ELSE LET k == PrefixLen(stream)
            IN  IF k > 3 THEN End("TooLong")
                ELSE IF Len(stream) < k THEN End(Inside)
                ELSE LET n == Length(stream, k)
                     IN  IF Len(stream) < k + n THEN End(Inside)
                         ELSE /\ stream' = SubSeq(stream, k + n + 1, Len(stream))
                              /\ data' = IF stream[1] >= More THEN Append(data, n) ELSE data
                              /\ UNCHANGED <<mode, err>>
    /\ UNCHANGED <<chunks, cut, tail>>

Next == WriteData \/ WritePadding \/ Arrive \/ ReadData

Spec == Init /\ [][Next]_vars

-----------------------------------------------------------------------------
(* MaxDataForSize *)

\* Mutant of MaxDataForSize: every prefix is one byte.
MaxDataForSizeOneByte(n) == n - 1

MaxDataForSize(n) ==
    IF n >= TooLong THEN TooLong - 1 - 3 ELSE n - Len(dataPrefixForLength(n))

\* The encoded size of data of length n.
EncodedSize(n) == Len(dataPrefixForLength(n)) + n

-----------------------------------------------------------------------------
(* Properties *)

\* What a chunk of the history takes in the stream.
ChunkSize(c) == IF c < 0 THEN -c ELSE EncodedSize(c)

\* The offset in the stream at which the first i chunks end.
Offset(i) == SumTo([k \in DOMAIN chunks |-> ChunkSize(chunks[k])], i)

\* How many chunks arrived completely.
Arrived == CHOOSE i \in 0 .. Len(chunks) :
              /\ Offset(i) <= cut
              /\ i < Len(chunks) => cut < Offset(i + 1)

(***************************************************************************)
(* What is read is what was written: when the reading ends, the data read  *)
(* is exactly the data whose chunks arrived completely, in order, wherever *)
(* the stream was cut off; padding is never taken for data.                *)
(***************************************************************************)
ReadsWhatWasWritten ==
    mode = "end" => data = Selected(chunks, Nat, Arrived)

\* Where padding was split into several chunks the stream may also end between them.
AtChunkEnd ==
    \/ cut = Offset(Arrived)
    \/ chunks[Arrived + 1] < 0 /\ (cut - Offset(Arrived)) % PaddingBuffer = 0

(***************************************************************************)
(* "The returned error is io.EOF only if r ended before the first byte of  *)
(* a length prefix": a stream cut off inside a chunk is noticed, and so is *)
(* a reader that ends with an error of its own.                            *)
(***************************************************************************)
CutIsNoticed == mode = "end" => (err = "EOF" <=> AtChunkEnd /\ tail = "EOF")

(***************************************************************************)
(* What MaxDataForSize returns fits, and no slice more than one longer     *)
(* does, for the lengths written.                                          *)
(***************************************************************************)
MaxDataFits ==
    \A i \in DOMAIN chunks : chunks[i] > 0 =>
        LET m == MaxDataForSize(chunks[i])
        IN  EncodedSize(m) <= chunks[i] /\ EncodedSize(m + 2) > chunks[i]
=============================================================================
