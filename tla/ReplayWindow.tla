---------------------------- MODULE ReplayWindow ----------------------------
(***************************************************************************)
(* The sliding window of noise/replay.go that tells a nonce seen before    *)
(* from a new one.  The 64-bit bitmap is the set of its one bits: bit d is *)
(* in the set when it is 1, and it stands for the nonce highest - d.       *)
(***************************************************************************)
EXTENDS Integers

CONSTANT WindowBits     \* width of the bitmap: 64 in the code

ASSUME WindowBitsAssumption == WindowBits \in Nat \ {0}

\* The zero replayWindow a new Session starts with.
NewWindow == [bitmap |-> {}, highest |-> 0]

\* Mutant of ShiftLeft: the shift rotates by one bit too many.
ShiftLeftTooFar(bits, diff) ==
    {d \in 0 .. WindowBits - 1 : d > diff /\ d - diff - 1 \in bits}

\* x << diff on a WindowBits-wide word: bits that leave the word are lost.
ShiftLeft(bits, diff) ==
    {d \in 0 .. WindowBits - 1 : d >= diff /\ d - diff \in bits}

\* CheckAndUpdate's verdict on a nonce ...
Accepts(rw, nonce) ==
    IF nonce <= rw.highest
    THEN /\ rw.highest - nonce < WindowBits
         /\ rw.highest - nonce \notin rw.bitmap
    ELSE TRUE

\* ... and the window it leaves behind when the verdict is "true".
Update(rw, nonce) ==
    IF nonce <= rw.highest
    THEN [rw EXCEPT !.bitmap = @ \cup {rw.highest - nonce}]
    ELSE [bitmap  |-> ShiftLeft(rw.bitmap, nonce - rw.highest) \cup {0},
          highest |-> nonce]
=============================================================================
