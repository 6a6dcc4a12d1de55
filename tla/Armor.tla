-------------------------------- MODULE Armor --------------------------------
(***************************************************************************)
(* armor/encoder.go and armor/decoder.go: a response as AMP HTML.  Text is *)
(* a sequence of tokens, tuples with the kind of the token first: "pre",   *)
(* "/pre", "space", "version", "char", or "markup" for anything else.  The *)
(* four characters of a quantum of base64 stand together for its bytes, of *)
(* which there are three, or fewer at the end.                             *)
(***************************************************************************)
EXTENDS Integers, Sequences, Loops

CONSTANTS
    BytesPerChunk,    \* 32 in the code
    ChunksPerElement  \* 992 in the code

ASSUME ArmorAssumption ==
    /\ BytesPerChunk \in Nat \ {0} /\ ChunksPerElement \in Nat \ {0}
    \* The text of a full element ends with a quantum, were it not for the version.
    /\ (BytesPerChunk * ChunksPerElement) % 4 = 0

-----------------------------------------------------------------------------
(* NewEncoder, Write and Close *)

\* Quantum i of the bytes s.
Quantum(s, i) == SubSeq(s, 3 * i - 2, IF 3 * i < Len(s) THEN 3 * i ELSE Len(s))

Base64(s) ==
    [k \in 1 .. 4 * ((Len(s) + 2) \div 3) |->
        <<"char", Quantum(s, (k + 3) \div 4), (k - 1) % 4>>]

\* elementEncoder.Write, for one byte t.
ElementWrite(enc, t) ==
    LET chunk == (enc.chunk + 1) % BytesPerChunk
        element == (enc.element + IF chunk = 0 THEN 1 ELSE 0) % ChunksPerElement
    IN  [text |-> enc.text
                  \o (IF enc.element = 0 /\ enc.chunk = 0 THEN << <<"pre">> >> ELSE <<>>)
                  \o <<t>>
                  \o (IF chunk = 0 THEN << <<"space">> >> ELSE <<>>)
                  \o (IF chunk = 0 /\ element = 0 THEN << <<"/pre">> >> ELSE <<>>),
         chunk |-> chunk, element |-> element]

\* elementEncoder.Close: an open element is closed.
ElementClose(enc) ==
    IF enc.element = 0 /\ enc.chunk = 0 THEN enc.text
    ELSE enc.text \o (IF enc.chunk = 0 THEN <<>> ELSE << <<"space">> >>) \o << <<"/pre">> >>

\* Everything written to an elementEncoder, and its Close.
Elements(ts) ==
    LET after[k \in 0 .. Len(ts)] ==
            IF k = 0 THEN [text |-> <<>>, chunk |-> 0, element |-> 0]
                     ELSE ElementWrite(after[k - 1], ts[k])
    IN  ElementClose(after[Len(ts)])

\* Mutant of Armored: the version has an element of its own.
ArmoredApart(s) ==
    << <<"markup">> >> \o Elements(<< <<"version">> >>) \o Elements(Base64(s)) \o << <<"markup">> >>

\* The armor of the bytes s, between the parts of the boilerplate.
Armored(s) ==
    << <<"markup">> >> \o Elements(<< <<"version">> >> \o Base64(s)) \o << <<"markup">> >>

-----------------------------------------------------------------------------
(* NewDecoder *)

\* One round of decodeToWriter, which returns at the first error.
DecodeToken(dec, t) ==
    CASE dec.err # "nil" -> dec
      [] dec.err = "nil" /\ t[1] = "pre" ->
            IF dec.active THEN [dec EXCEPT !.err = "unexpected"] ELSE [dec EXCEPT !.active = TRUE]
      [] dec.err = "nil" /\ t[1] = "/pre" ->
            IF dec.active THEN [dec EXCEPT !.active = FALSE] ELSE [dec EXCEPT !.err = "unexpected"]
      [] dec.err = "nil" /\ t[1] \in {"version", "char"} /\ dec.active ->
            [dec EXCEPT !.out = Append(@, t)]
      [] OTHER -> dec

\* The text ends: within an element that is an error too.
DecodeEnd(dec) == IF dec.err = "nil" /\ dec.active THEN [dec EXCEPT !.err = "missing"] ELSE dec

decodeToWriter(text) ==
    LET after[k \in 0 .. Len(text)] ==
            IF k = 0 THEN [active |-> FALSE, out |-> <<>>, err |-> "nil"]
                     ELSE DecodeToken(after[k - 1], text[k])
    IN  DecodeEnd(after[Len(text)])

\* What base64.NewDecoder makes of the characters cs, and how it ends.
Base64Decoder(cs, e) ==
    [bytes |-> Concat([i \in 1 .. Len(cs) \div 4 |-> cs[4 * i][2]]),
     tail |-> CASE e # "nil" -> e
                [] e = "nil" /\ Len(cs) % 4 # 0 -> "UnexpectedEOF"
                [] OTHER -> "EOF",
     refused |-> FALSE]

\* The bytes a reader of NewDecoder's result gets, then its error; or an error of NewDecoder.
NewDecoder(text) ==
    LET dec == decodeToWriter(text)
    IN  IF dec.out = <<>> \/ dec.out[1] # <<"version">>
        THEN [bytes |-> <<>>, tail |-> "NewDecoder", refused |-> TRUE]
        ELSE Base64Decoder(Tail(dec.out), dec.err)
=============================================================================
