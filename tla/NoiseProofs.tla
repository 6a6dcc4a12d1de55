---------------------------- MODULE NoiseProofs -----------------------------
(***************************************************************************)
(* Proofs about the package noise: NoiseSession for any number of          *)
(* goroutines, any window width and any nonce range; NoiseLoop for any     *)
(* number of clients, sessions and queues, and any KeepAlive below Timeout. *)
(***************************************************************************)
EXTENDS NoiseSession, NoiseLoop, TLAPS

\* Most leaves are first-order: Zenon tries each one for two seconds before SMT does.
USE ZenonT(2), SMTT(20)

-----------------------------------------------------------------------------
(* Sessions *)

(***************************************************************************)
(* The window rw is an exact summary of the set acc of accepted nonces:    *)
(* nothing accepted is above highest, and bit d says whether highest - d   *)
(* was accepted.                                                           *)
(***************************************************************************)
Tracks(rw, acc) ==
    /\ rw = [bitmap |-> rw.bitmap, highest |-> rw.highest]
    /\ rw.highest \in Nat
    /\ rw.bitmap \subseteq 0 .. WindowBits - 1
    /\ acc \subseteq Nat
    /\ \A a \in acc : a <= rw.highest
    /\ \A d \in 0 .. WindowBits - 1 : d \in rw.bitmap <=> rw.highest - d \in acc
    /\ rw.highest # 0 => rw.highest \in acc

\* A sender is inside its critical section exactly when it owns sendLock.
SendLockInv ==
    \A s \in Sender : spc[s] \in {"header", "seal"} <=> sendLock = s

\* Under the lock the header is the nonce the cipher is about to use.
HeaderInv == \A s \in Sender : spc[s] = "seal" => header[s] = sendNonce

\* Every sent message carries its own nonce, and nonces are used in order.
WireInv ==
    /\ sealed = sendNonce
    /\ \A m \in wire : /\ m.header = m.seal
                       /\ m.body = m.seal
                       /\ m.seal \in Nat
                       /\ m.seal < sendNonce

\* A receiver is inside its critical section exactly when it owns recvLock.
RecvLockInv ==
    \A r \in Receiver : rpc[r] \in {"set", "open", "check"} <=> recvLock = r

\* What a receiver works on, and that the cipher nonce is its own message's.
MsgInv ==
    \A r \in Receiver :
        /\ rpc[r] # "idle" => msg[r] \in Arriving \cup Corrupt /\ msg[r].header # TooShort
        /\ rpc[r] = "open" => recvNonce = msg[r].header
        /\ rpc[r] = "check" => msg[r] \in wire

\* What has been accepted was sent, and was delivered exactly once.
DeliveredInv ==
    /\ \A a \in returned : \E m \in wire : m.seal = a
    /\ \A p \in Nonce : delivered[p] = IF p \in returned THEN 1 ELSE 0

SessionIndInv ==
    /\ SessionTypeOK
    /\ SendLockInv
    /\ HeaderInv
    /\ WireInv
    /\ RecvLockInv
    /\ MsgInv
    /\ Tracks(replay, returned)
    /\ DeliveredInv

-----------------------------------------------------------------------------
(* The window *)

(***************************************************************************)
(* The verdict of CheckAndUpdate on a window that tracks acc is that of a  *)
(* filter with unbounded memory.                                           *)
(***************************************************************************)
LEMMA AcceptsIffFresh ==
    ASSUME NEW rw, NEW acc, Tracks(rw, acc), NEW n \in Nat
    PROVE  Accepts(rw, n) <=> n \notin acc /\ \A a \in acc : a - n < WindowBits
<1>. USE WindowBitsAssumption DEF Tracks
<1>1. CASE n <= rw.highest
  <2>1. rw.highest - n < WindowBits => rw.highest - n \in 0 .. WindowBits - 1
    BY <1>1
  <2>2. rw.highest - (rw.highest - n) = n
    OBVIOUS
  <2>3. rw.highest - n < WindowBits => (rw.highest - n \in rw.bitmap <=> n \in acc)
    BY <2>1, <2>2
  <2>4. CASE rw.highest - n < WindowBits
    <3>1. \A a \in acc : a - n < WindowBits
      BY <2>4
    <3>. QED  BY <1>1, <2>3, <2>4, <3>1 DEF Accepts
  <2>5. CASE ~ (rw.highest - n < WindowBits)
    <3>1. rw.highest \in acc
      BY <1>1, <2>5
    <3>. QED  BY <1>1, <2>5, <3>1 DEF Accepts
  <2>. QED  BY <2>4, <2>5
<1>2. CASE ~ (n <= rw.highest)
  BY <1>2 DEF Accepts
<1>. QED  BY <1>1, <1>2

(***************************************************************************)
(* After CheckAndUpdate accepts a nonce the window tracks the set with     *)
(* that nonce added, also when the shift empties the bitmap.               *)
(***************************************************************************)
LEMMA UpdateTracks ==
    ASSUME NEW rw, NEW acc, Tracks(rw, acc), NEW n \in Nat, Accepts(rw, n)
    PROVE  Tracks(Update(rw, n), acc \cup {n})
<1>. USE WindowBitsAssumption
<1>1. CASE n <= rw.highest
  <2>1. rw.highest - n \in 0 .. WindowBits - 1
    BY <1>1 DEF Tracks, Accepts
  <2>2. Update(rw, n) = [bitmap |-> rw.bitmap \cup {rw.highest - n}, highest |-> rw.highest]
    BY <1>1 DEF Update, Tracks
  <2>3. \A d \in 0 .. WindowBits - 1 : rw.highest - d = n <=> d = rw.highest - n
    BY DEF Tracks
  <2>. QED  BY <1>1, <2>1, <2>2, <2>3 DEF Tracks
<1>2. CASE ~ (n <= rw.highest)
  <2>1. Update(rw, n) = [bitmap |-> ShiftLeft(rw.bitmap, n - rw.highest) \cup {0}, highest |-> n]
    BY <1>2 DEF Update
  <2>. DEFINE bits == ShiftLeft(rw.bitmap, n - rw.highest) \cup {0}
  <2>2. bits \subseteq 0 .. WindowBits - 1
    BY DEF ShiftLeft
  <2>3. ASSUME NEW d \in 0 .. WindowBits - 1
        PROVE  d \in bits <=> n - d \in acc \cup {n}
    <3>1. CASE d = 0
      BY <3>1
    <3>2. CASE d # 0 /\ d < n - rw.highest
      <4>1. n - d > rw.highest /\ n - d # n
        BY <3>2 DEF Tracks
      <4>. QED  BY <3>2, <4>1 DEF Tracks, ShiftLeft
    <3>3. CASE d # 0 /\ d >= n - rw.highest
      <4>1. d - (n - rw.highest) \in 0 .. WindowBits - 1
        BY <1>2, <3>3 DEF Tracks
      <4>2. rw.highest - (d - (n - rw.highest)) = n - d
        BY DEF Tracks
      <4>3. d - (n - rw.highest) \in rw.bitmap <=> n - d \in acc
        BY <4>1, <4>2 DEF Tracks
      <4>4. n - d # n
        BY <3>3
      <4>. QED  BY <3>3, <4>3, <4>4 DEF ShiftLeft, Tracks
    <3>. QED  BY <3>1, <3>2, <3>3 DEF Tracks
  <2>4. \A a \in acc \cup {n} : a <= n
    BY <1>2 DEF Tracks
  <2>. HIDE DEF bits
  <2>. QED  BY <2>1, <2>2, <2>3, <2>4 DEF Tracks, bits
<1>. QED  BY <1>1, <1>2 DEF Tracks

-----------------------------------------------------------------------------
(* The inductive invariant *)

\* A session after its handshake, with both nonces at 0, satisfies the invariant.
LEMMA InitSessionIndInv == SessionInit => SessionIndInv
<1>. SUFFICES ASSUME SessionInit PROVE SessionIndInv
  OBVIOUS
<1>. USE WindowBitsAssumption, MaxNonceAssumption, NobodyAssumption DEF SessionInit
<1>1. SessionTypeOK
  BY DEF SessionTypeOK, NewWindow, Nonce, Message, NoMsg, TooShort, BadSeal
<1>2. Tracks(replay, returned)
  BY DEF Tracks, NewWindow
<1>3. SendLockInv /\ HeaderInv /\ WireInv /\ RecvLockInv /\ MsgInv /\ DeliveredInv
  BY DEF SendLockInv, HeaderInv, WireInv, RecvLockInv, MsgInv, DeliveredInv
<1>. QED  BY <1>1, <1>2, <1>3 DEF SessionIndInv

(***************************************************************************)
(* The steps of Encrypt preserve the invariant: nothing they do touches    *)
(* the receiving side, and the lock keeps header and cipher nonce equal.   *)
(***************************************************************************)
LEMMA EncryptIndInv ==
    ASSUME SessionIndInv, NEW s \in Sender, Encrypt(s)
    PROVE  SessionIndInv'
<1>. USE WindowBitsAssumption, MaxNonceAssumption, NobodyAssumption DEF SessionIndInv
<1>0. wire' = wire => Arriving' = Arriving
  BY DEF Arriving
<1>1. CASE StartEncrypt(s)
  <2>1. SessionTypeOK'
    BY <1>1 DEF SessionTypeOK, StartEncrypt, recvVars
  <2>2. (SendLockInv /\ HeaderInv /\ WireInv)'
    BY <1>1 DEF SessionTypeOK, SendLockInv, HeaderInv, WireInv, StartEncrypt
  <2>3. (RecvLockInv /\ MsgInv /\ DeliveredInv /\ Tracks(replay, returned))'
    BY <1>0, <1>1 DEF RecvLockInv, MsgInv, DeliveredInv, Tracks, StartEncrypt, recvVars
  <2>. QED  BY <2>1, <2>2, <2>3
<1>2. CASE LockSend(s)
  <2>1. SessionTypeOK'
    BY <1>2 DEF SessionTypeOK, LockSend, recvVars
  <2>2. (SendLockInv /\ HeaderInv /\ WireInv)'
    BY <1>2 DEF SessionTypeOK, SendLockInv, HeaderInv, WireInv, LockSend
  <2>3. (RecvLockInv /\ MsgInv /\ DeliveredInv /\ Tracks(replay, returned))'
    BY <1>0, <1>2 DEF RecvLockInv, MsgInv, DeliveredInv, Tracks, LockSend, recvVars
  <2>. QED  BY <2>1, <2>2, <2>3
<1>3. CASE PrependNonce(s)
  <2>1. SessionTypeOK'
    BY <1>3 DEF SessionTypeOK, PrependNonce, recvVars
  <2>2. (SendLockInv /\ HeaderInv /\ WireInv)'
    BY <1>3 DEF SessionTypeOK, SendLockInv, HeaderInv, WireInv, PrependNonce
  <2>3. (RecvLockInv /\ MsgInv /\ DeliveredInv /\ Tracks(replay, returned))'
    BY <1>0, <1>3 DEF RecvLockInv, MsgInv, DeliveredInv, Tracks, PrependNonce, recvVars
  <2>. QED  BY <2>1, <2>2, <2>3
<1>4. CASE Seal(s)
  <2>. DEFINE m == [header |-> header[s], seal |-> sendNonce, body |-> sealed]
  <2>1. header[s] = sendNonce /\ sealed = sendNonce
    BY <1>4 DEF Seal, HeaderInv, WireInv
  <2>2. wire' = wire \/ (sendNonce \in Nonce /\ wire' = wire \cup {m})
    BY <1>4 DEF Seal, CipherEncrypt, SessionTypeOK, Nonce
  <2>3. sendNonce \in Nonce => m \in Message
    BY <2>1 DEF Message, Nonce
  <2>4. SessionTypeOK'
    <3>1. wire' \subseteq Message
      BY <2>2, <2>3 DEF SessionTypeOK
    <3>2. sendNonce' \in 0 .. MaxNonce + 1 /\ sealed' \in Nat
      BY <1>4 DEF Seal, CipherEncrypt, SessionTypeOK
    <3>. QED  BY <1>4, <3>1, <3>2 DEF SessionTypeOK, Seal, recvVars
  <2>5. WireInv'
    BY <1>4, <2>1 DEF WireInv, Seal, CipherEncrypt, SessionTypeOK
  <2>6. (SendLockInv /\ HeaderInv)'
    <3>1. \A t \in Sender : t # s => spc[t] \notin {"header", "seal"}
      BY <1>4 DEF SendLockInv, Seal
    <3>. QED  BY <1>4, <3>1 DEF SendLockInv, HeaderInv, Seal, SessionTypeOK
  <2>7. (MsgInv /\ DeliveredInv)'
    <3>1. Arriving \subseteq Arriving'
      BY <2>2 DEF Arriving
    <3>2. Corrupt' = Corrupt /\ wire \subseteq wire'
      BY <2>2 DEF Corrupt, Nonce
    <3>. QED  BY <1>4, <3>1, <3>2 DEF MsgInv, DeliveredInv, Seal, recvVars
  <2>8. (RecvLockInv /\ Tracks(replay, returned))'
    BY <1>4 DEF RecvLockInv, Tracks, Seal, recvVars
  <2>. QED  BY <2>4, <2>5, <2>6, <2>7, <2>8
<1>. QED  BY <1>1, <1>2, <1>3, <1>4 DEF Encrypt

(***************************************************************************)
(* The steps of Decrypt preserve the invariant.  The window changes only   *)
(* in CheckNonce, where the message is known to be one that was sent.      *)
(***************************************************************************)
LEMMA DecryptIndInv ==
    ASSUME SessionIndInv, NEW r \in Receiver, Decrypt(r)
    PROVE  SessionIndInv'
<1>. USE WindowBitsAssumption, MaxNonceAssumption, NobodyAssumption DEF SessionIndInv
<1>0. UNCHANGED sendVars => (SendLockInv /\ HeaderInv /\ WireInv)' /\ Arriving' = Arriving
  BY DEF sendVars, SendLockInv, HeaderInv, WireInv, Arriving
<1>1. CASE StartDecrypt(r)
  <2>1. PICK m \in Arriving \cup Corrupt :
           IF m.header = TooShort
           THEN UNCHANGED <<msg, rpc>>
           ELSE msg' = [msg EXCEPT ![r] = m] /\ rpc' = [rpc EXCEPT ![r] = "lock"]
    BY <1>1 DEF StartDecrypt
  <2>2. m \in Message
    <3>1. CASE m \in Corrupt
      BY <3>1 DEF Corrupt, Message, BadSeal, Nonce
    <3>2. CASE m \in Arriving
      <4>1. PICK w \in wire, h \in Nonce : m = [w EXCEPT !.header = h]
        BY <3>2 DEF Arriving
      <4>. QED  BY <4>1 DEF SessionTypeOK, Message
    <3>. QED  BY <3>1, <3>2
  <2>3. SessionTypeOK'
    BY <1>1, <2>1, <2>2 DEF SessionTypeOK, StartDecrypt, sendVars
  <2>4. (RecvLockInv /\ MsgInv)'
    BY <1>0, <1>1, <2>1 DEF SessionTypeOK, RecvLockInv, MsgInv, StartDecrypt, sendVars
  <2>5. (DeliveredInv /\ Tracks(replay, returned))'
    BY <1>1 DEF DeliveredInv, Tracks, StartDecrypt, sendVars
  <2>6. UNCHANGED sendVars
    BY <1>1 DEF StartDecrypt
  <2>. QED  BY <1>0, <2>3, <2>4, <2>5, <2>6
<1>2. CASE LockRecv(r)
  <2>1. SessionTypeOK'
    BY <1>2 DEF SessionTypeOK, LockRecv, sendVars
  <2>2. (RecvLockInv /\ MsgInv)'
    BY <1>0, <1>2 DEF SessionTypeOK, RecvLockInv, MsgInv, LockRecv, sendVars
  <2>3. (DeliveredInv /\ Tracks(replay, returned))'
    BY <1>2 DEF DeliveredInv, Tracks, LockRecv, sendVars
  <2>. QED  BY <1>0, <1>2, <2>1, <2>2, <2>3 DEF LockRecv
<1>3. CASE SetNonce(r)
  <2>1. msg[r].header \in 0 .. MaxNonce + 1
    <3>1. msg[r].header # TooShort /\ msg[r] \in Message
      BY <1>3 DEF SetNonce, MsgInv, SessionTypeOK
    <3>. QED  BY <3>1 DEF Message, Nonce, TooShort
  <2>2. SessionTypeOK'
    BY <1>3, <2>1 DEF SessionTypeOK, SetNonce, sendVars
  <2>3. (RecvLockInv /\ MsgInv)'
    <3>1. \A q \in Receiver : q # r => rpc[q] \notin {"set", "open", "check"}
      BY <1>3 DEF RecvLockInv, SetNonce
    <3>. QED  BY <1>0, <1>3, <3>1 DEF SessionTypeOK, RecvLockInv, MsgInv, SetNonce, sendVars
  <2>4. (DeliveredInv /\ Tracks(replay, returned))'
    BY <1>3 DEF DeliveredInv, Tracks, SetNonce, sendVars
  <2>. QED  BY <1>0, <1>3, <2>2, <2>3, <2>4 DEF SetNonce
<1>4. CASE Open(r)
  <2>1. \A q \in Receiver : q # r => rpc[q] \notin {"set", "open", "check"}
    BY <1>4 DEF RecvLockInv, Open
  <2>2. Opens(msg[r], recvNonce) => msg[r] \in wire
    <3>. SUFFICES ASSUME Opens(msg[r], recvNonce) PROVE msg[r] \in wire
      OBVIOUS
    <3>1. msg[r].seal = msg[r].header /\ msg[r].seal \in Nat
      BY <1>4 DEF Opens, Open, MsgInv, SessionTypeOK
    <3>2. msg[r] \in Arriving
      BY <1>4, <3>1 DEF Open, MsgInv, Corrupt, BadSeal
    <3>3. PICK w \in wire, h \in Nonce : msg[r] = [w EXCEPT !.header = h]
      BY <3>2 DEF Arriving
    <3>4. w.header = w.seal /\ w \in Message
      BY DEF WireInv, SessionTypeOK
    <3>. QED  BY <3>1, <3>3, <3>4 DEF Message
  <2>3. SessionTypeOK'
    <3>1. NoMsg \in Message
      BY DEF NoMsg, Message, TooShort, BadSeal, Nonce
    <3>2. Opens(msg[r], recvNonce) => recvNonce + 1 \in 0 .. MaxNonce + 1
      BY DEF Opens, SessionTypeOK
    <3>. QED  BY <1>4, <3>1, <3>2 DEF SessionTypeOK, Open, sendVars
  <2>4. (RecvLockInv /\ MsgInv)'
    BY <1>0, <1>4, <2>1, <2>2 DEF SessionTypeOK, RecvLockInv, MsgInv, Open, sendVars
  <2>5. (DeliveredInv /\ Tracks(replay, returned))'
    BY <1>4 DEF DeliveredInv, Tracks, Open, sendVars
  <2>. QED  BY <1>0, <1>4, <2>3, <2>4, <2>5 DEF Open
<1>5. CASE CheckNonce(r)
  <2>. DEFINE n == msg[r].header
              ok == Accepts(replay, n)
  <2>1. /\ msg[r] \in wire
        /\ n \in Nonce
        /\ n = msg[r].body
        /\ n = msg[r].seal
    BY <1>5 DEF CheckNonce, MsgInv, WireInv, SessionTypeOK, Message, Nonce
  <2>2. \A q \in Receiver : q # r => rpc[q] \notin {"set", "open", "check"}
    BY <1>5 DEF RecvLockInv, CheckNonce
  <2>3. n \in Nat
    BY <2>1 DEF Nonce
  <2>4. ok => n \notin returned
    BY <2>3, AcceptsIffFresh
  <2>5. Tracks(replay, returned)'
    <3>1. CASE ok
      <4>1. Tracks(Update(replay, n), returned \cup {n})
        BY <2>3, <3>1, UpdateTracks
      <4>. QED  BY <1>5, <3>1, <4>1 DEF CheckNonce
    <3>2. CASE ~ ok
      BY <1>5, <3>2 DEF CheckNonce
    <3>. QED  BY <3>1, <3>2
  <2>6. DeliveredInv'
    <3>1. CASE ok
      BY <1>5, <2>1, <2>4, <3>1 DEF CheckNonce, DeliveredInv, SessionTypeOK, sendVars
    <3>2. CASE ~ ok
      BY <1>5, <3>2 DEF CheckNonce, DeliveredInv, sendVars
    <3>. QED  BY <3>1, <3>2
  <2>7. (RecvLockInv /\ MsgInv)'
    BY <1>0, <1>5, <2>2 DEF SessionTypeOK, RecvLockInv, MsgInv, CheckNonce, sendVars
  <2>8. SessionTypeOK'
    <3>1. replay' \in [bitmap : SUBSET (0 .. WindowBits - 1), highest : Nonce]
      <4>1. replay'.highest \in {replay.highest, n}
        BY <1>5 DEF CheckNonce, Update, SessionTypeOK
      <4>2. replay'.highest \in Nonce
        BY <2>1, <4>1 DEF SessionTypeOK
      <4>. QED  BY <2>5, <4>2 DEF Tracks
    <3>2. NoMsg \in Message
      BY DEF NoMsg, Message, TooShort, BadSeal, Nonce
    <3>3. returned' \subseteq Nonce
      BY <1>5, <2>1 DEF CheckNonce, SessionTypeOK
    <3>4. verdict' \in [nonce : Nonce, ok : BOOLEAN]
      BY <1>5, <2>1 DEF CheckNonce, Accepts
    <3>5. delivered' \in [Nonce -> Nat]
      BY <1>5, <2>1 DEF CheckNonce, SessionTypeOK
    <3>. QED  BY <1>5, <3>1, <3>2, <3>3, <3>4, <3>5 DEF CheckNonce, SessionTypeOK, sendVars
  <2>. QED  BY <1>0, <1>5, <2>5, <2>6, <2>7, <2>8 DEF CheckNonce
<1>. QED  BY <1>1, <1>2, <1>3, <1>4, <1>5 DEF Decrypt

(***************************************************************************)
(* The invariant holds in every reachable state.                           *)
(***************************************************************************)
LEMMA SessionIndInvAlways == SessionSpec => []SessionIndInv
<1>1. SessionIndInv /\ [SessionNext]_sessionVars => SessionIndInv'
  <2>. SUFFICES ASSUME SessionIndInv, [SessionNext]_sessionVars PROVE SessionIndInv'
    OBVIOUS
  <2>1. CASE SessionNext
    BY <2>1, EncryptIndInv, DecryptIndInv DEF SessionNext
  <2>2. CASE UNCHANGED sessionVars
    BY <2>2 DEF sessionVars, sendVars, recvVars, SessionIndInv, Arriving, SessionTypeOK, SendLockInv, HeaderInv, WireInv,
                RecvLockInv, MsgInv, Tracks, DeliveredInv
  <2>. QED  BY <2>1, <2>2
<1>. QED  BY <1>1, InitSessionIndInv, PTL DEF SessionSpec

-----------------------------------------------------------------------------
(* Theorems *)

(***************************************************************************)
(* Every reachable state of Encrypt and Decrypt is well typed: no nonce    *)
(* leaves the range of the cipher, no bit leaves the bitmap.               *)
(***************************************************************************)
THEOREM SessionTypeCorrect == SessionSpec => []SessionTypeOK
BY SessionIndInvAlways, PTL DEF SessionIndInv

(***************************************************************************)
(* Decrypt never returns a plaintext twice.                                *)
(***************************************************************************)
THEOREM NoReplayTheorem == SessionSpec => []NoReplay
<1>1. SessionIndInv => NoReplay
  BY DEF SessionIndInv, DeliveredInv, NoReplay
<1>. QED  BY <1>1, SessionIndInvAlways, PTL

(***************************************************************************)
(* Encrypt never uses a nonce for two messages.                            *)
(***************************************************************************)
THEOREM NonceUsedOnceTheorem == SessionSpec => []NonceUsedOnce
<1>1. SessionIndInv => NonceUsedOnce
  BY DEF SessionIndInv, WireInv, SessionTypeOK, Message, NonceUsedOnce
<1>. QED  BY <1>1, SessionIndInvAlways, PTL

(***************************************************************************)
(* Messages that fail to authenticate leave no trace in the window.        *)
(***************************************************************************)
THEOREM WindowTracksSentTheorem == SessionSpec => []WindowTracksSent
<1>1. SessionIndInv => WindowTracksSent
  BY DEF SessionIndInv, Tracks, DeliveredInv, WindowTracksSent
<1>. QED  BY <1>1, SessionIndInvAlways, PTL

(***************************************************************************)
(* The bitmap implements the filter with unbounded memory.                 *)
(***************************************************************************)
THEOREM ImplementsFilterTheorem == SessionSpec => ImplementsFilter
<1>1. SessionInit => Filter!Init
  BY DEF SessionInit, Filter!Init
<1>2. SessionIndInv /\ [SessionNext]_sessionVars => [Filter!Next]_(Filter!vars)
  <2>. SUFFICES ASSUME SessionIndInv, [SessionNext]_sessionVars PROVE [Filter!Next]_(Filter!vars)
    OBVIOUS
  <2>1. ASSUME NEW r \in Receiver, CheckNonce(r)
        PROVE  Filter!Next
    <3>. DEFINE n == msg[r].header
    <3>1. n \in Nonce /\ n \in Nat
      BY <2>1, MaxNonceAssumption
         DEF SessionIndInv, CheckNonce, MsgInv, WireInv, SessionTypeOK, Message, Nonce
    <3>2. Accepts(replay, n) <=> Filter!Acceptable(n)
      BY <3>1, AcceptsIffFresh DEF SessionIndInv, Filter!Acceptable
    <3>3. Accepts(replay, n) \in BOOLEAN /\ Filter!Acceptable(n) \in BOOLEAN
      BY DEF Accepts, Filter!Acceptable
    <3>4. Filter!Check(n)
      BY <2>1, <3>2, <3>3 DEF CheckNonce, Filter!Check
    <3>. QED  BY <3>1, <3>4 DEF Filter!Next
  <2>2. ASSUME NEW r \in Receiver, Decrypt(r), ~ CheckNonce(r)
        PROVE  UNCHANGED Filter!vars
    BY <2>2 DEF Decrypt, StartDecrypt, LockRecv, SetNonce, Open, Filter!vars
  <2>3. ASSUME NEW s \in Sender, Encrypt(s)
        PROVE  UNCHANGED Filter!vars
    BY <2>3 DEF Encrypt, StartEncrypt, LockSend, PrependNonce, Seal, recvVars, Filter!vars
  <2>4. CASE UNCHANGED sessionVars
    BY <2>4 DEF sessionVars, recvVars, Filter!vars
  <2>. QED  BY <2>1, <2>2, <2>3, <2>4 DEF SessionNext
<1>. QED  BY <1>1, <1>2, SessionIndInvAlways, PTL DEF SessionSpec, ImplementsFilter, Filter!Spec

-----------------------------------------------------------------------------
(* The listener *)

\* What the main goroutine relies on between its steps: nobody else stores sessions.
LoopInv ==
    /\ loop.do = "accept" => accepted < MaxSess /\ sessions[loop.c] = None
    /\ loop.do = "store" =>
          /\ sessions[loop.c] = None
          /\ loop.sess <= accepted
          /\ owner[loop.sess] = loop.c
          /\ sender[loop.sess] = "none"

\* Only accepted sessions have a client and a goroutine, which ranges over a queue.
SenderInv ==
    \A s \in Sid :
        /\ s > accepted => sender[s] = "none"
        /\ s <= accepted => owner[s] \in Client
        /\ sender[s] = "range" => ranges[s] \in Chan

SessionInv == SessionHasSender /\ LoopInv /\ SenderInv

\* The queues plainConn knows are open, and no two clients share one.
QueueInv ==
    /\ \A c \in Client : rec[c] # None => rec[c] \notin qclosed
    /\ \A c, d \in Client : rec[c] # None /\ rec[c] = rec[d] => c = d

\* A healthy session's goroutine ranges over the client's queue, which is looked
\* up as often as KCP writes.
HealthyInv ==
    \A c \in Client :
        Healthy(c) /\ sender[sessions[c]] = "range" =>
            rec[c] = ranges[sessions[c]] /\ idle[c] <= quiet[c]

\* A goroutine leaves its loop for one of two reasons.
DeleteInv ==
    \A s \in Sid : sender[s] = "delete" => s \in failed \/ Lapsed(owner[s])

ConnInv == QueueInv /\ HealthyInv /\ DeleteInv

IndInv == TypeOK /\ SessionInv /\ ConnInv

-----------------------------------------------------------------------------

\* noiseLoop starts without sessions, goroutines and queues: the invariant holds.
LEMMA InitIndInv == Init => IndInv
<1>. SUFFICES ASSUME Init PROVE IndInv
  OBVIOUS
<1>. USE NoiseLoopAssumption DEF Init, Reading
<1>1. TypeOK
  BY DEF TypeOK, Sid
<1>2. SessionInv
  BY DEF SessionInv, SessionHasSender, LoopInv, SenderInv, Active, Sid
<1>3. ConnInv
  BY DEF ConnInv, QueueInv, HealthyInv, DeleteInv, Healthy, Sid
<1>. QED  BY <1>1, <1>2, <1>3 DEF IndInv

(***************************************************************************)
(* Types.                                                                  *)
(***************************************************************************)
LEMMA SendQueueTypes ==
    ASSUME rec \in [Client -> Chan \cup {None}], idle \in [Client -> 0 .. Timeout],
           qclosed \subseteq Chan, NEW c, NEW q \in Chan, SendQueue(c, q)
    PROVE  /\ rec' \in [Client -> Chan \cup {None}]
           /\ idle' \in [Client -> 0 .. Timeout]
           /\ qclosed' \subseteq Chan
<1>1. idle' \in [Client -> 0 .. Timeout]
  <2>1. idle' = [idle EXCEPT ![c] = 0]
    BY DEF SendQueue
  <2>2. 0 \in 0 .. Timeout
    BY NoiseLoopAssumption
  <2>. QED  BY <2>1, <2>2
<1>2. rec' \in [Client -> Chan \cup {None}] /\ qclosed' \subseteq Chan
  BY DEF SendQueue
<1>. QED  BY <1>1, <1>2

\* The steps of noiseLoop itself keep the types.
LEMMA LoopTypes ==
    ASSUME TypeOK, LoopInv, Loop
    PROVE  TypeOK'
<1>. USE NoiseLoopAssumption DEF TypeOK, loopVars, senderVars, connVars, clientVars, kcpVars
<1>1. ASSUME NEW c \in Client, ReadInit(c)
      PROVE  TypeOK'
  BY <1>1 DEF ReadInit, Reading
<1>2. ASSUME NEW c \in Client, ReadTransport(c)
      PROVE  TypeOK'
  BY <1>2 DEF ReadTransport, Reading
<1>3. CASE Accept
  <2>1. loop.do = "accept" /\ loop.c \in Client /\ accepted + 1 \in Sid
    BY <1>3 DEF Accept, LoopInv, Reading, Sid
  <2>2. /\ accepted' \in 0 .. MaxSess
        /\ owner' \in [Sid -> Client \cup {None}]
        /\ responses' \subseteq Sid
    <3>1. CASE UNCHANGED <<accepted, owner, responses>>
      BY <3>1
    <3>2. CASE /\ accepted' = accepted + 1
               /\ owner' = [owner EXCEPT ![accepted + 1] = loop.c]
               /\ responses' = responses \cup {accepted + 1}
      <4>1. accepted' \in 0 .. MaxSess
        BY <2>1, <3>2 DEF Sid
      <4>2. owner' \in [Sid -> Client \cup {None}]
        BY <2>1, <3>2
      <4>3. responses' \subseteq Sid
        BY <2>1, <3>2
      <4>. QED  BY <4>1, <4>2, <4>3
    <3>. QED  BY <1>3, <3>1, <3>2 DEF Accept
  <2>3. loop' \in {Reading} \cup [do : {"store"}, c : Client, sess : Sid]
    BY <1>3, <2>1 DEF Accept
  <2>. QED  BY <1>3, <2>2, <2>3 DEF Accept
<1>4. CASE Store
  BY <1>4 DEF Store, Reading
<1>5. CASE DecryptMessage
  BY <1>5 DEF DecryptMessage, Reading
<1>. QED  BY <1>1, <1>2, <1>3, <1>4, <1>5 DEF Loop

\* The steps of a sending goroutine keep the types.
LEMMA SenderTypes ==
    ASSUME TypeOK, SenderInv, NEW s \in Sid, SenderSteps(s)
    PROVE  TypeOK'
<1>. USE NoiseLoopAssumption DEF TypeOK, loopVars, senderVars, connVars, clientVars, kcpVars
<1>1. CASE SenderStart(s)
  <2>1. PICK q \in Chan : /\ SendQueue(owner[s], q)
                         /\ qlen' = [qlen EXCEPT ![q] = IF rec[owner[s]] = None THEN 0 ELSE @]
                         /\ ranges' = [ranges EXCEPT ![s] = q]
    BY <1>1 DEF SenderStart
  <2>2. /\ rec' \in [Client -> Chan \cup {None}] /\ idle' \in [Client -> 0 .. Timeout]
        /\ qclosed' \subseteq Chan
    BY <2>1, SendQueueTypes
  <2>3. qlen' \in [Chan -> 0 .. QueueSize] /\ ranges' \in [Sid -> Chan \cup {None}]
    BY <2>1
  <2>. QED  BY <1>1, <2>2, <2>3 DEF SenderStart
<1>2. CASE SenderSend(s)
  BY <1>2 DEF SenderSend, SenderInv
<1>3. CASE SenderFail(s)
  BY <1>3 DEF SenderFail, SenderInv
<1>4. CASE SenderEnd(s) \/ SenderDelete(s)
  BY <1>4 DEF SenderEnd, SenderDelete
<1>. QED  BY <1>1, <1>2, <1>3, <1>4 DEF SenderSteps

\* The steps of clients, KCP, sweeper and clock keep the types.
LEMMA OtherTypes ==
    ASSUME TypeOK,
           \/ \E c \in Client : Dial(c) \/ FinishHandshake(c) \/ SendTransport(c) \/ Leave(c)
           \/ \E c \in Client : KcpWrite(c) \/ KcpClose(c)
           \/ Sweep
           \/ Tick
    PROVE  TypeOK'
<1>. USE NoiseLoopAssumption DEF TypeOK, loopVars, senderVars, connVars, clientVars, kcpVars
<1>1. ASSUME NEW c \in Client, Dial(c) \/ FinishHandshake(c) \/ SendTransport(c) \/ Leave(c)
      PROVE  TypeOK'
  BY <1>1 DEF Dial, FinishHandshake, SendTransport, Leave
<1>2. ASSUME NEW c \in Client, KcpWrite(c)
      PROVE  TypeOK'
  BY <1>2 DEF KcpWrite, SendQueue, Lapsed
<1>3. ASSUME NEW c \in Client, KcpClose(c)
      PROVE  TypeOK'
  BY <1>3 DEF KcpClose
<1>4. CASE Sweep
  BY <1>4 DEF Sweep
<1>5. CASE Tick
  BY <1>5 DEF Tick, Lapsed
<1>. QED  BY <1>1, <1>2, <1>3, <1>4, <1>5

-----------------------------------------------------------------------------
(***************************************************************************)
(* Sessions and their goroutines.                                          *)
(***************************************************************************)
LEMMA SessionUnchanged ==
    ASSUME SessionInv, UNCHANGED <<loopVars, sender, ranges>>
    PROVE  SessionInv'
BY DEF SessionInv, SessionHasSender, LoopInv, SenderInv, Active, loopVars

\* The main goroutine reads or decrypts: at most its own place changes.
LEMMA SessionRead ==
    ASSUME TypeOK, SessionInv, NEW c \in Client, ReadInit(c) \/ ReadTransport(c) \/ DecryptMessage
    PROVE  SessionInv'
<1>. USE DEF senderVars, SessionInv
<1>1. UNCHANGED <<sessions, accepted, owner, sender, ranges>>
  BY DEF ReadInit, ReadTransport, DecryptMessage
<1>2. SessionHasSender' /\ SenderInv'
  BY <1>1 DEF SessionHasSender, SenderInv, Active
<1>3. LoopInv'
  BY <1>1 DEF LoopInv, ReadInit, ReadTransport, DecryptMessage, Reading
<1>. QED  BY <1>2, <1>3

\* A handshake is accepted: the session that is numbered next has no goroutine yet.
LEMMA SessionAccept ==
    ASSUME TypeOK, SessionInv, Accept
    PROVE  SessionInv'
<1>. USE NoiseLoopAssumption DEF SessionInv, senderVars
<1>1. UNCHANGED <<sessions, sender, ranges>>
  BY DEF Accept
<1>2. CASE loop' = Reading /\ UNCHANGED <<accepted, owner>>
  BY <1>1, <1>2 DEF SessionHasSender, LoopInv, SenderInv, Active, Reading
<1>3. CASE /\ accepted' = accepted + 1
           /\ owner' = [owner EXCEPT ![accepted + 1] = loop.c]
           /\ loop' = [do |-> "store", c |-> loop.c, sess |-> accepted + 1]
  <2>1. loop.c \in Client /\ accepted + 1 \in Sid /\ sessions[loop.c] = None
    BY DEF Accept, TypeOK, LoopInv, Reading, Sid
  <2>2. sender[accepted + 1] = "none"
    BY <2>1 DEF SenderInv, TypeOK
  <2>3. \A s \in Sid : s # accepted + 1 => owner'[s] = owner[s]
    BY <1>3, <2>1 DEF TypeOK
  <2>4. owner'[accepted + 1] = loop.c
    BY <1>3, <2>1 DEF TypeOK
  <2>5. SessionHasSender'
    <3>1. ASSUME NEW s \in Sid, Active(s) PROVE s # accepted + 1
      BY <2>2, <3>1 DEF Active
    <3>. QED  BY <1>1, <2>3, <3>1 DEF SessionHasSender, Active, TypeOK
  <2>6. LoopInv'
    BY <1>1, <1>3, <2>1, <2>2, <2>4 DEF LoopInv, TypeOK
  <2>7. SenderInv'
    BY <1>1, <1>3, <2>1, <2>3, <2>4 DEF SenderInv, TypeOK, Sid
  <2>. QED  BY <2>5, <2>6, <2>7
<1>. QED  BY <1>2, <1>3 DEF Accept

\* The session is stored where there was none.
LEMMA SessionStore ==
    ASSUME TypeOK, SessionInv, Store
    PROVE  SessionInv'
<1>. USE NoiseLoopAssumption DEF SessionInv
<1>. DEFINE c == loop.c
            s == loop.sess
<1>1. /\ c \in Client /\ s \in Sid /\ sessions[c] = None /\ s <= accepted
      /\ owner[s] = c /\ sender[s] = "none"
  BY DEF Store, TypeOK, LoopInv, Reading
<1>2. /\ sessions' = [sessions EXCEPT ![c] = s] /\ sender' = [sender EXCEPT ![s] = "start"]
      /\ loop' = Reading /\ UNCHANGED <<accepted, owner, ranges>>
  BY DEF Store
<1>. HIDE DEF c, s
<1>3. SessionHasSender'
  <2>1. ASSUME NEW d \in Client, sessions'[d] # None
        PROVE  owner'[sessions'[d]] = d /\ Active(sessions[d])'
    BY <1>1, <1>2, <2>1 DEF SessionHasSender, Active, TypeOK
  <2>2. ASSUME NEW t \in Sid, Active(t)'
        PROVE  sessions'[owner'[t]] = t
    <3>1. CASE t = s
      BY <1>1, <1>2, <3>1 DEF TypeOK
    <3>2. CASE t # s
      <4>1. sessions[owner[t]] = t
        BY <1>1, <1>2, <2>2, <3>2 DEF Active, SessionHasSender, TypeOK
      <4>2. owner[t] # c
        BY <1>1, <4>1 DEF Sid
      <4>. QED  BY <1>1, <1>2, <4>1, <4>2 DEF TypeOK
    <3>. QED  BY <3>1, <3>2
  <2>. QED  BY <2>1, <2>2 DEF SessionHasSender
<1>4. LoopInv'
  BY <1>2 DEF LoopInv, Reading
<1>5. SenderInv'
  BY <1>1, <1>2 DEF SenderInv, TypeOK, Sid
<1>. QED  BY <1>3, <1>4, <1>5

\* A goroutine starts, ranges and leaves its loop: it stays the session's.
LEMMA SessionSender ==
    ASSUME TypeOK, SessionInv, NEW s \in Sid,
           SenderStart(s) \/ SenderSend(s) \/ SenderFail(s) \/ SenderEnd(s)
    PROVE  SessionInv'
<1>. USE NoiseLoopAssumption DEF SessionInv, loopVars, senderVars
<1>1. UNCHANGED loopVars
  BY DEF SenderStart, SenderSend, SenderFail, SenderEnd
<1>2. \A t \in Sid : (Active(t)' <=> Active(t)) /\ (sender[t] = "none" <=> sender'[t] = "none")
  BY DEF SenderStart, SenderSend, SenderFail, SenderEnd, Active, TypeOK
<1>3. SessionHasSender'
  BY <1>1, <1>2 DEF SessionHasSender, TypeOK
<1>4. LoopInv'
  BY <1>1, <1>2 DEF LoopInv, TypeOK, Reading
<1>5. SenderInv'
  <2>1. \A t \in Sid : sender'[t] = "range" => ranges'[t] \in Chan
    BY DEF SenderInv, SenderStart, SenderSend, SenderFail, SenderEnd, TypeOK
  <2>. QED  BY <1>1, <1>2, <2>1 DEF SenderInv
<1>. QED  BY <1>3, <1>4, <1>5

\* A running goroutine sends for the client whose session it is.
LEMMA ActiveOwner ==
    ASSUME TypeOK, SessionInv, NEW s \in Sid, Active(s)
    PROVE  owner[s] \in Client /\ sessions[owner[s]] = s
<1>1. sender[s] # "none"
  BY DEF Active
<1>2. accepted \in Int /\ s \in Int /\ ~ (s > accepted)
  BY <1>1, NoiseLoopAssumption DEF TypeOK, Sid, SessionInv, SenderInv
<1>3. s <= accepted
  BY <1>2
<1>. QED  BY <1>3 DEF SessionInv, SenderInv, SessionHasSender

\* The deferred delete removes the goroutine's own session.
LEMMA SessionDelete ==
    ASSUME TypeOK, SessionInv, NEW s \in Sid, SenderDelete(s)
    PROVE  SessionInv'
<1>. USE NoiseLoopAssumption DEF SessionInv
<1>1. /\ sender[s] = "delete" /\ sessions' = [sessions EXCEPT ![owner[s]] = None]
      /\ sender' = [sender EXCEPT ![s] = "done"]
      /\ UNCHANGED <<accepted, owner, loop, ranges>>
  BY DEF SenderDelete
<1>2. owner[s] \in Client /\ sessions[owner[s]] = s
  BY <1>1, ActiveOwner DEF Active
<1>3. SessionHasSender'
  <2>1. ASSUME NEW d \in Client, sessions'[d] # None
        PROVE  owner'[sessions'[d]] = d /\ Active(sessions[d])'
    BY <1>1, <1>2, <2>1 DEF SessionHasSender, Active, TypeOK
  <2>2. ASSUME NEW t \in Sid, Active(t)'
        PROVE  sessions'[owner'[t]] = t
    <3>1. t # s /\ sessions[owner[t]] = t
      BY <1>1, <2>2 DEF Active, SessionHasSender, TypeOK
    <3>. QED  BY <1>1, <1>2, <3>1 DEF TypeOK
  <2>. QED  BY <2>1, <2>2 DEF SessionHasSender
<1>4. LoopInv'
  BY <1>1, <1>2 DEF LoopInv, TypeOK, Reading
<1>5. SenderInv'
  BY <1>1, <1>2 DEF SenderInv, TypeOK
<1>. QED  BY <1>3, <1>4, <1>5

-----------------------------------------------------------------------------
(***************************************************************************)
(* Queues and the goroutines that range over them.                         *)
(***************************************************************************)
LEMMA ConnUnchanged ==
    ASSUME ConnInv, UNCHANGED <<sessions, owner, senderVars, rec, idle, qclosed, quiet>>
    PROVE  ConnInv'
BY DEF ConnInv, QueueInv, HealthyInv, DeleteInv, Healthy, Lapsed, senderVars

\* Looking a client up leaves the other clients' queues alone, and refreshes its own.
LEMMA SendQueueInv ==
    ASSUME TypeOK, QueueInv, NEW c \in Client, NEW q \in Chan, SendQueue(c, q)
    PROVE  /\ QueueInv'
           /\ rec'[c] = q /\ idle'[c] = 0
           /\ rec[c] # None => rec'[c] = rec[c]
           /\ \A d \in Client : d # c => rec'[d] = rec[d] /\ idle'[d] = idle[d]
<1>. USE NoiseLoopAssumption
<1>1. idle'[c] = 0 /\ \A d \in Client : d # c => idle'[d] = idle[d]
  BY DEF SendQueue, TypeOK
<1>2. CASE rec[c] # None
  BY <1>1, <1>2 DEF SendQueue, QueueInv
<1>3. CASE rec[c] = None
  <2>1. /\ rec' = [rec EXCEPT ![c] = q] /\ qclosed' = qclosed \ {q}
        /\ \A d \in Client : rec[d] # q
    BY <1>3 DEF SendQueue, Unused
  <2>2. QueueInv'
    BY <2>1 DEF QueueInv, TypeOK
  <2>. QED  BY <1>1, <1>3, <2>1, <2>2 DEF TypeOK
<1>. QED  BY <1>2, <1>3

\* The main goroutine stores a session or numbers the next one.
LEMMA ConnLoop ==
    ASSUME TypeOK, SessionInv, ConnInv, Accept \/ Store
    PROVE  ConnInv'
<1>. USE NoiseLoopAssumption DEF ConnInv, SessionInv, connVars, senderVars, kcpVars
<1>1. QueueInv'
  BY DEF Accept, Store, QueueInv
<1>2. CASE Accept
  <2>1. UNCHANGED <<sessions, sender, ranges, failed, rec, idle, quiet>>
    BY <1>2 DEF Accept
  <2>2. \A s \in Sid : sender[s] = "delete" => owner'[s] = owner[s]
    BY <1>2 DEF Accept, SenderInv, TypeOK
  <2>. QED  BY <1>1, <2>1, <2>2 DEF HealthyInv, DeleteInv, Healthy, Lapsed
<1>3. CASE Store
  <2>. DEFINE c == loop.c
              t == loop.sess
  <2>1. c \in Client /\ t \in Sid /\ sessions[c] = None /\ sender[t] = "none"
    BY <1>3 DEF Store, TypeOK, LoopInv, Reading
  <2>2. /\ sessions' = [sessions EXCEPT ![c] = t] /\ sender' = [sender EXCEPT ![t] = "start"]
        /\ quiet' = [quiet EXCEPT ![c] = 0]
        /\ UNCHANGED <<owner, ranges, failed, rec, idle>>
    BY <1>3 DEF Store
  <2>. HIDE DEF c, t
  <2>3. HealthyInv'
    <3>. SUFFICES ASSUME NEW d \in Client, Healthy(d)', sender'[sessions'[d]] = "range"
                  PROVE  rec'[d] = ranges'[sessions'[d]] /\ idle'[d] <= quiet'[d]
      BY DEF HealthyInv
    <3>1. d # c
      BY <2>1, <2>2 DEF TypeOK
    <3>2. sessions'[d] = sessions[d] /\ quiet'[d] = quiet[d] /\ sessions[d] \in Sid
      BY <2>1, <2>2, <3>1 DEF TypeOK, Healthy
    <3>3. Healthy(d) /\ sender[sessions[d]] = "range"
      BY <2>1, <2>2, <3>2 DEF TypeOK, Healthy, Lapsed
    <3>. QED  BY <2>2, <3>2, <3>3 DEF HealthyInv
  <2>4. DeleteInv'
    <3>. SUFFICES ASSUME NEW s \in Sid, sender'[s] = "delete"
                  PROVE  s \in failed' \/ Lapsed(owner[s])'
      BY DEF DeleteInv
    <3>1. sender[s] = "delete"
      BY <2>1, <2>2 DEF TypeOK
    <3>2. owner[s] \in Client /\ owner[s] # c
      <4>1. owner[s] \in Client /\ sessions[owner[s]] = s
        BY <3>1, ActiveOwner DEF Active
      <4>. QED  BY <2>1, <4>1 DEF Sid
    <3>. QED  BY <2>1, <2>2, <3>1, <3>2 DEF DeleteInv, Lapsed, TypeOK
  <2>. QED  BY <1>1, <2>3, <2>4
<1>. QED  BY <1>2, <1>3

\* A goroutine looks its queue up when it starts.
LEMMA ConnSenderStart ==
    ASSUME TypeOK, SessionInv, ConnInv, NEW s \in Sid, SenderStart(s)
    PROVE  ConnInv'
<1>. USE NoiseLoopAssumption DEF ConnInv, SessionInv, loopVars, kcpVars
<1>1. PICK q \in Chan : SendQueue(owner[s], q) /\ ranges' = [ranges EXCEPT ![s] = q]
  BY DEF SenderStart
<1>2. /\ sender[s] = "start" /\ sender' = [sender EXCEPT ![s] = "range"]
      /\ UNCHANGED <<sessions, owner, failed, quiet>>
  BY DEF SenderStart
<1>3. owner[s] \in Client /\ sessions[owner[s]] = s
  BY <1>2, ActiveOwner DEF Active
<1>4. /\ QueueInv' /\ rec'[owner[s]] = q /\ idle'[owner[s]] = 0
      /\ \A d \in Client : d # owner[s] => rec'[d] = rec[d] /\ idle'[d] = idle[d]
  BY <1>1, <1>3, SendQueueInv
<1>5. HealthyInv'
  <2>. SUFFICES ASSUME NEW d \in Client, Healthy(d)', sender'[sessions'[d]] = "range"
                PROVE  rec'[d] = ranges'[sessions'[d]] /\ idle'[d] <= quiet'[d]
    BY DEF HealthyInv
  <2>1. CASE d = owner[s]
    BY <1>1, <1>2, <1>3, <1>4, <2>1 DEF TypeOK
  <2>2. CASE d # owner[s]
    <3>1. sessions[d] \in Sid /\ sessions[d] # s
      BY <1>2, <2>2 DEF Healthy, TypeOK, SessionHasSender
    <3>2. Healthy(d) /\ sender[sessions[d]] = "range"
      BY <1>2, <3>1 DEF Healthy, Lapsed, TypeOK
    <3>. QED  BY <1>1, <1>2, <1>4, <2>2, <3>1, <3>2 DEF HealthyInv, TypeOK
  <2>. QED  BY <2>1, <2>2
<1>6. DeleteInv'
  BY <1>2 DEF DeleteInv, Lapsed, TypeOK
<1>. QED  BY <1>4, <1>5, <1>6

(***************************************************************************)
(* A goroutine leaves its loop because Encrypt failed, or because its      *)
(* queue was closed, which never happens to the queue of a session that    *)
(* is healthy.                                                             *)
(***************************************************************************)
LEMMA ConnSenderLeaves ==
    ASSUME TypeOK, SessionInv, ConnInv, NEW s \in Sid, SenderFail(s) \/ SenderEnd(s)
    PROVE  ConnInv'
<1>. USE NoiseLoopAssumption DEF ConnInv, SessionInv, loopVars, connVars, kcpVars
<1>1. /\ sender[s] = "range" /\ sender' = [sender EXCEPT ![s] = "delete"]
      /\ ranges' = [ranges EXCEPT ![s] = None] /\ failed \subseteq failed'
      /\ UNCHANGED <<sessions, owner, rec, idle, qclosed, quiet>>
  BY DEF SenderFail, SenderEnd
<1>2. owner[s] \in Client /\ sessions[owner[s]] = s
  BY <1>1, ActiveOwner DEF Active
<1>3. s \in failed' \/ Lapsed(owner[s])
  <2>1. CASE SenderFail(s)
    BY <2>1 DEF SenderFail
  <2>2. CASE SenderEnd(s)
    <3>1. ranges[s] \in qclosed /\ ranges[s] \in Chan
      BY <1>1, <2>2 DEF SenderEnd, SenderInv
    <3>2. ~Healthy(owner[s])
      BY <1>1, <1>2, <3>1 DEF HealthyInv, QueueInv
    <3>. QED  BY <1>1, <1>2, <3>2 DEF Healthy, Sid
  <2>. QED  BY <2>1, <2>2
<1>4. QueueInv'
  BY <1>1 DEF QueueInv
<1>5. HealthyInv'
  <2>. SUFFICES ASSUME NEW d \in Client, Healthy(d)', sender'[sessions'[d]] = "range"
                PROVE  rec'[d] = ranges'[sessions'[d]] /\ idle'[d] <= quiet'[d]
    BY DEF HealthyInv
  <2>1. sessions[d] \in Sid /\ sessions[d] # s
    BY <1>1 DEF Healthy, TypeOK
  <2>2. Healthy(d) /\ sender[sessions[d]] = "range"
    BY <1>1, <2>1 DEF Healthy, Lapsed, TypeOK
  <2>. QED  BY <1>1, <2>1, <2>2 DEF HealthyInv, TypeOK
<1>6. DeleteInv'
  BY <1>1, <1>3 DEF DeleteInv, Lapsed, TypeOK
<1>. QED  BY <1>4, <1>5, <1>6

\* The deferred delete.
LEMMA ConnSenderDelete ==
    ASSUME TypeOK, SessionInv, ConnInv, NEW s \in Sid, SenderDelete(s)
    PROVE  ConnInv'
<1>. USE NoiseLoopAssumption DEF ConnInv, SessionInv, connVars, kcpVars
<1>1. /\ sender[s] = "delete" /\ sender' = [sender EXCEPT ![s] = "done"]
      /\ sessions' = [sessions EXCEPT ![owner[s]] = None]
      /\ UNCHANGED <<owner, ranges, failed, rec, idle, qclosed, quiet>>
  BY DEF SenderDelete
<1>2. QueueInv'
  BY <1>1 DEF QueueInv
<1>3. HealthyInv'
  <2>. SUFFICES ASSUME NEW d \in Client, Healthy(d)', sender'[sessions'[d]] = "range"
                PROVE  rec'[d] = ranges'[sessions'[d]] /\ idle'[d] <= quiet'[d]
    BY DEF HealthyInv
  <2>1. sessions'[d] = sessions[d] /\ sessions[d] \in Sid /\ sessions[d] # s
    BY <1>1 DEF Healthy, TypeOK
  <2>2. Healthy(d) /\ sender[sessions[d]] = "range"
    BY <1>1, <2>1 DEF Healthy, Lapsed, TypeOK
  <2>. QED  BY <1>1, <2>1, <2>2 DEF HealthyInv
<1>4. DeleteInv'
  BY <1>1 DEF DeleteInv, Lapsed, TypeOK
<1>. QED  BY <1>2, <1>3, <1>4

\* KCP writes: the client's queue counts as looked up at the same moment.
LEMMA ConnKcpWrite ==
    ASSUME TypeOK, SessionInv, ConnInv, NEW c \in Client, KcpWrite(c)
    PROVE  ConnInv'
<1>. USE NoiseLoopAssumption DEF ConnInv, SessionInv, loopVars, senderVars
<1>1. PICK q \in Chan : SendQueue(c, q)
  BY DEF KcpWrite
<1>2. /\ quiet' = [quiet EXCEPT ![c] = IF Lapsed(c) THEN @ ELSE 0]
      /\ UNCHANGED <<sessions, owner, sender, ranges, failed>>
  BY DEF KcpWrite
<1>3. /\ QueueInv' /\ idle'[c] = 0 /\ (rec[c] # None => rec'[c] = rec[c])
      /\ \A d \in Client : d # c => rec'[d] = rec[d] /\ idle'[d] = idle[d]
  BY <1>1, SendQueueInv
<1>4. \A d \in Client : /\ Lapsed(d)' <=> Lapsed(d)
                        /\ d # c => quiet'[d] = quiet[d]
                        /\ quiet'[d] >= 0
  BY <1>2 DEF Lapsed, TypeOK
<1>5. HealthyInv'
  <2>. SUFFICES ASSUME NEW d \in Client, Healthy(d)', sender'[sessions'[d]] = "range"
                PROVE  rec'[d] = ranges'[sessions'[d]] /\ idle'[d] <= quiet'[d]
    BY DEF HealthyInv
  <2>1. Healthy(d) /\ sender[sessions[d]] = "range"
    BY <1>2, <1>4 DEF Healthy
  <2>2. rec[d] = ranges[sessions[d]] /\ idle[d] <= quiet[d] /\ rec[d] # None
    BY <2>1 DEF HealthyInv, Healthy, SenderInv, TypeOK
  <2>. QED  BY <1>2, <1>3, <1>4, <2>2
<1>6. DeleteInv'
  <2>1. \A s \in Sid : sender[s] = "delete" => owner[s] \in Client
    BY DEF SenderInv, TypeOK, Sid
  <2>. QED  BY <1>2, <1>4, <2>1 DEF DeleteInv
<1>. QED  BY <1>3, <1>5, <1>6

\* The sweeper only forgets peers not looked up for Timeout, which is more than KeepAlive.
LEMMA ConnSweep ==
    ASSUME TypeOK, SessionInv, ConnInv, Sweep
    PROVE  ConnInv'
<1>. USE NoiseLoopAssumption DEF ConnInv, SessionInv, loopVars, senderVars, kcpVars
<1>. DEFINE expired == {c \in Client : rec[c] # None /\ idle[c] = Timeout}
<1>1. /\ rec' = [c \in Client |-> IF c \in expired THEN None ELSE rec[c]]
      /\ idle' = [c \in Client |-> IF c \in expired THEN 0 ELSE idle[c]]
      /\ qclosed' = qclosed \cup {rec[c] : c \in expired}
      /\ UNCHANGED <<sessions, owner, sender, ranges, failed, quiet>>
  BY DEF Sweep
<1>2. QueueInv'
  BY <1>1 DEF QueueInv
<1>3. HealthyInv'
  <2>. SUFFICES ASSUME NEW d \in Client, Healthy(d)', sender'[sessions'[d]] = "range"
                PROVE  rec'[d] = ranges'[sessions'[d]] /\ idle'[d] <= quiet'[d]
    BY DEF HealthyInv
  <2>1. Healthy(d) /\ sender[sessions[d]] = "range"
    BY <1>1 DEF Healthy, Lapsed
  <2>2. rec[d] = ranges[sessions[d]] /\ idle[d] <= quiet[d] /\ quiet[d] <= KeepAlive
    BY <2>1 DEF HealthyInv, Healthy, Lapsed, TypeOK
  <2>3. d \notin expired
    BY <2>2 DEF TypeOK
  <2>. QED  BY <1>1, <2>2, <2>3
<1>4. DeleteInv'
  BY <1>1 DEF DeleteInv, Lapsed
<1>. QED  BY <1>2, <1>3, <1>4

\* Time goes on for idle and for quiet alike.
LEMMA ConnTick ==
    ASSUME TypeOK, SessionInv, ConnInv, Tick
    PROVE  ConnInv'
<1>. USE NoiseLoopAssumption DEF ConnInv, SessionInv, loopVars, senderVars
<1>1. /\ idle' = [c \in Client |-> IF rec[c] # None /\ idle[c] < Timeout THEN idle[c] + 1 ELSE idle[c]]
      /\ quiet' = [c \in Client |-> IF Lapsed(c) THEN quiet[c] ELSE quiet[c] + 1]
      /\ UNCHANGED <<sessions, owner, sender, ranges, failed, rec, qclosed>>
  BY DEF Tick
<1>2. QueueInv'
  BY <1>1 DEF QueueInv
<1>3. \A c \in Client : Lapsed(c) => Lapsed(c)'
  BY <1>1 DEF Lapsed
<1>4. HealthyInv'
  <2>. SUFFICES ASSUME NEW d \in Client, Healthy(d)', sender'[sessions'[d]] = "range"
                PROVE  rec'[d] = ranges'[sessions'[d]] /\ idle'[d] <= quiet'[d]
    BY DEF HealthyInv
  <2>1. Healthy(d) /\ sender[sessions[d]] = "range"
    BY <1>1, <1>3 DEF Healthy
  <2>2. rec[d] = ranges[sessions[d]] /\ idle[d] <= quiet[d] /\ ~Lapsed(d)
    BY <2>1 DEF HealthyInv, Healthy
  <2>. QED  BY <1>1, <2>2 DEF TypeOK
<1>5. DeleteInv'
  <2>1. \A s \in Sid : sender[s] = "delete" => owner[s] \in Client
    BY DEF SenderInv, TypeOK, Sid
  <2>. QED  BY <1>1, <1>3, <2>1 DEF DeleteInv
<1>. QED  BY <1>2, <1>4, <1>5

-----------------------------------------------------------------------------
(***************************************************************************)
(* Every step keeps the invariant.                                         *)
(***************************************************************************)
LEMMA NextIndInv ==
    ASSUME IndInv, [Next]_vars
    PROVE  IndInv'
<1>. USE DEF IndInv
<1>1. CASE Loop
  <2>1. TypeOK'
    BY <1>1, LoopTypes DEF SessionInv
  <2>2. CASE Accept
    BY <2>1, <2>2, SessionAccept, ConnLoop
  <2>3. CASE Store
    BY <2>1, <2>3, SessionStore, ConnLoop
  <2>4. ASSUME NEW c \in Client, ReadInit(c) \/ ReadTransport(c)
        PROVE  IndInv'
    <3>1. UNCHANGED <<sessions, owner, senderVars, rec, idle, qclosed, quiet>>
      BY <2>4 DEF ReadInit, ReadTransport, senderVars, connVars, kcpVars
    <3>. QED  BY <2>1, <2>4, <3>1, SessionRead, ConnUnchanged
  <2>5. CASE DecryptMessage
    <3>1. UNCHANGED <<sessions, owner, senderVars, rec, idle, qclosed, quiet>>
      BY <2>5 DEF DecryptMessage, senderVars, connVars
    <3>2. loop.c \in Client
      BY <2>5 DEF DecryptMessage, TypeOK, Reading
    <3>. QED  BY <2>1, <2>5, <3>1, <3>2, SessionRead, ConnUnchanged
  <2>. QED  BY <1>1, <2>2, <2>3, <2>4, <2>5 DEF Loop
<1>2. ASSUME NEW s \in Sid, SenderSteps(s)
      PROVE  IndInv'
  <2>1. TypeOK'
    BY <1>2, SenderTypes DEF SessionInv
  <2>2. CASE SenderStart(s)
    BY <2>1, <2>2, SessionSender, ConnSenderStart
  <2>3. CASE SenderSend(s)
    <3>1. UNCHANGED <<sessions, owner, senderVars, rec, idle, qclosed, quiet>>
      BY <2>3 DEF SenderSend, loopVars, senderVars, kcpVars
    <3>. QED  BY <2>1, <2>3, <3>1, SessionSender, ConnUnchanged
  <2>4. CASE SenderFail(s) \/ SenderEnd(s)
    BY <2>1, <2>4, SessionSender, ConnSenderLeaves
  <2>5. CASE SenderDelete(s)
    BY <2>1, <2>5, SessionDelete, ConnSenderDelete
  <2>. QED  BY <1>2, <2>2, <2>3, <2>4, <2>5 DEF SenderSteps
<1>3. ASSUME NEW c \in Client,
             Dial(c) \/ FinishHandshake(c) \/ SendTransport(c) \/ Leave(c) \/ KcpClose(c)
      PROVE  IndInv'
  <2>1. TypeOK'
    BY <1>3, OtherTypes
  <2>2. UNCHANGED <<loopVars, senderVars, connVars, quiet>>
    BY <1>3 DEF Dial, FinishHandshake, SendTransport, Leave, KcpClose, kcpVars
  <2>. QED  BY <2>1, <2>2, SessionUnchanged, ConnUnchanged DEF loopVars, senderVars, connVars
<1>4. ASSUME NEW c \in Client, KcpWrite(c)
      PROVE  IndInv'
  <2>1. UNCHANGED <<loopVars, sender, ranges>>
    BY <1>4 DEF KcpWrite, senderVars
  <2>. QED  BY <1>4, <2>1, OtherTypes, SessionUnchanged, ConnKcpWrite
<1>5. CASE Sweep
  <2>1. UNCHANGED <<loopVars, sender, ranges>>
    BY <1>5 DEF Sweep, senderVars
  <2>. QED  BY <1>5, <2>1, OtherTypes, SessionUnchanged, ConnSweep
<1>6. CASE Tick
  <2>1. UNCHANGED <<loopVars, sender, ranges>>
    BY <1>6 DEF Tick, senderVars
  <2>. QED  BY <1>6, <2>1, OtherTypes, SessionUnchanged, ConnTick
<1>7. CASE UNCHANGED vars
  <2>1. TypeOK'
    BY <1>7 DEF vars, loopVars, senderVars, connVars, clientVars, kcpVars, TypeOK
  <2>2. UNCHANGED <<loopVars, senderVars, connVars, quiet>>
    BY <1>7 DEF vars, kcpVars
  <2>. QED  BY <2>1, <2>2, SessionUnchanged, ConnUnchanged DEF loopVars, senderVars, connVars
<1>. QED  BY <1>1, <1>2, <1>3, <1>4, <1>5, <1>6, <1>7 DEF Next

(***************************************************************************)
(* The invariant holds in every reachable state.                           *)
(***************************************************************************)
LEMMA IndInvAlways == Spec => []IndInv
BY InitIndInv, NextIndInv, PTL DEF Spec

-----------------------------------------------------------------------------
(* Theorems *)

(***************************************************************************)
(* The state of noiseLoop, its goroutines, its queues and the clients is   *)
(* well typed; in particular no handshake is accepted without a number.    *)
(***************************************************************************)
THEOREM TypeCorrect == Spec => []TypeOK
BY IndInvAlways, PTL DEF IndInv

(***************************************************************************)
(* noiseLoop has exactly one sending goroutine for every session in its    *)
(* map, and none for another.                                              *)
(***************************************************************************)
THEOREM SessionHasSenderTheorem == Spec => []SessionHasSender
BY IndInvAlways, PTL DEF IndInv, SessionInv

(***************************************************************************)
(* While a session is healthy its goroutine ranges over the queue that     *)
(* plainConn.WriteTo fills.                                                *)
(***************************************************************************)
THEOREM QueueIsReadTheorem == Spec => []QueueIsRead
<1>1. IndInv => QueueIsRead
  <2>. SUFFICES ASSUME IndInv, NEW c \in Client, Healthy(c), sender[sessions[c]] # "start"
                PROVE  ranges[sessions[c]] = rec[c]
    BY DEF QueueIsRead
  <2>1. sessions[c] \in Sid /\ owner[sessions[c]] = c /\ Active(sessions[c])
    BY DEF IndInv, SessionInv, SessionHasSender, TypeOK, Healthy
  <2>2. sender[sessions[c]] # "delete"
    BY <2>1 DEF IndInv, ConnInv, DeleteInv, Healthy
  <2>. QED  BY <2>1, <2>2 DEF Active, IndInv, ConnInv, HealthyInv
<1>. QED  BY <1>1, IndInvAlways, PTL

(***************************************************************************)
(* Nothing noiseLoop does takes a healthy session away.                    *)
(***************************************************************************)
THEOREM HealthySessionStaysTheorem == Spec => HealthySessionStays
<1>1. IndInv /\ [Next]_vars =>
        [\A c \in Client : Healthy(c) => sessions'[c] = sessions[c]]_vars
  <2>. SUFFICES ASSUME IndInv, Next, NEW c \in Client, Healthy(c)
                PROVE  sessions'[c] = sessions[c]
    OBVIOUS
  <2>. USE DEF IndInv
  <2>1. CASE Store
    <3>1. loop.c \in Client /\ sessions[loop.c] = None
      BY <2>1 DEF Store, TypeOK, SessionInv, LoopInv, Reading
    <3>2. loop.c # c
      BY <3>1 DEF Healthy
    <3>. QED  BY <2>1, <3>1, <3>2 DEF Store, TypeOK
  <2>2. ASSUME NEW s \in Sid, SenderDelete(s)
        PROVE  sessions'[c] = sessions[c]
    <3>1. sender[s] = "delete" /\ sessions' = [sessions EXCEPT ![owner[s]] = None]
      BY <2>2 DEF SenderDelete
    <3>2. owner[s] \in Client /\ sessions[owner[s]] = s
      BY <3>1 DEF SessionInv, SenderInv, SessionHasSender, Active, TypeOK, Sid
    <3>3. owner[s] # c
      BY <3>1, <3>2 DEF ConnInv, DeleteInv, Healthy
    <3>. QED  BY <3>1, <3>2, <3>3 DEF TypeOK
  <2>3. CASE UNCHANGED sessions
    BY <2>3
  <2>4. Store \/ (\E s \in Sid : SenderDelete(s)) \/ UNCHANGED sessions
    BY DEF Next, Loop, SenderSteps, ReadInit, ReadTransport, Accept, DecryptMessage, SenderStart, SenderSend,
           SenderFail, SenderEnd, Dial, FinishHandshake, SendTransport, Leave, KcpWrite, KcpClose,
           Sweep, Tick, loopVars
  <2>. QED  BY <2>1, <2>2, <2>3, <2>4
<1>. QED  BY <1>1, IndInvAlways, PTL DEF Spec, HealthySessionStays
=============================================================================
