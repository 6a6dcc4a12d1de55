---------------------------- MODULE NoiseSession ----------------------------
(***************************************************************************)
(* One direction of an established Noise session (noise/session.go):       *)
(* goroutines of one peer call Encrypt, goroutines of the other peer call  *)
(* Decrypt, and between them is a network that loses, duplicates,          *)
(* reorders, delays and corrupts messages.  Encrypt and Decrypt are broken *)
(* into the steps between which another goroutine may run; the two mutexes *)
(* are what makes the steps of one call belong together.                   *)
(***************************************************************************)
EXTENDS ReplayWindow

CONSTANTS
    Sender,      \* goroutines calling Encrypt
    Receiver,    \* goroutines calling Decrypt
    Nobody,        \* no goroutine: the owner of a free mutex
    MaxNonce     \* largest usable nonce of a CipherState (2^64 - 2 in the library)

ASSUME MaxNonceAssumption == MaxNonce \in Nat
ASSUME NobodyAssumption == Nobody \notin Sender \cup Receiver

VARIABLES
    sendLock,    \* owner of session.sendLock
    sendNonce,   \* session.send.n
    sealed,      \* history: how many plaintexts were sealed; numbers the plaintexts
    spc,         \* where each sender is in Encrypt
    header,      \* the nonce each sender has put in front of its message
    wire,        \* every message ever sent: any of them may still arrive
    recvLock,    \* owner of session.recvLock
    recvNonce,   \* session.recv.n
    replay,      \* session.replay
    rpc,         \* where each receiver is in Decrypt
    msg,         \* the message each receiver is decrypting
    returned,    \* history: nonces of the messages whose plaintext was returned
    verdict,     \* history: the last nonce check and its result
    delivered    \* history: how often each plaintext was returned

sendVars == <<sendLock, sendNonce, sealed, spc, header, wire>>
recvVars == <<recvLock, recvNonce, replay, rpc, msg, returned, verdict, delivered>>
sessionVars == <<sendVars, recvVars>>

Nonce == 0 .. MaxNonce

\* The nonce a corrupted or forged message was sealed with: no nonce at all.
BadSeal == -1

(***************************************************************************)
(* A transport message: the explicit nonce in front of it, the nonce the   *)
(* cipher really used, and the plaintext (named by its number).  A message *)
(* too short to hold a nonce has the header TooShort.                      *)
(***************************************************************************)
TooShort == -1

Message == [header : Nonce \cup {MaxNonce + 1, TooShort}, seal : Nonce \cup {BadSeal},
            body : Nonce]

\* What the network can make up or damage: any header, a seal that opens under no nonce.
Corrupt == [header : Nonce \cup {MaxNonce + 1, TooShort}, seal : {BadSeal}, body : {0}]

\* A sent message, its explicit nonce (which no tag covers) as sent or damaged.
Arriving == {[m EXCEPT !.header = h] : m \in wire, h \in Nonce}

\* The value of msg outside a call.
NoMsg == [header |-> TooShort, seal |-> BadSeal, body |-> 0]

SessionInit ==
    /\ sendLock = Nobody
    /\ sendNonce = 0
    /\ sealed = 0
    /\ spc = [s \in Sender |-> "idle"]
    /\ header = [s \in Sender |-> 0]
    /\ wire = {}
    /\ recvLock = Nobody
    /\ recvNonce = 0
    /\ replay = NewWindow
    /\ rpc = [r \in Receiver |-> "idle"]
    /\ msg = [r \in Receiver |-> NoMsg]
    /\ returned = {}
    /\ verdict = [nonce |-> 0, ok |-> FALSE]
    /\ delivered = [p \in Nonce |-> 0]

-----------------------------------------------------------------------------
(* Encrypt *)

StartEncrypt(s) ==
    /\ spc[s] = "idle"
    /\ spc' = [spc EXCEPT ![s] = "lock"]
    /\ UNCHANGED <<sendLock, sendNonce, sealed, header, wire, recvVars>>

\* Mutant of LockSend: the nonce is read without taking sendLock.
LockSendNoLock(s) ==
    /\ spc[s] = "lock"
    /\ sendLock' = s
    /\ spc' = [spc EXCEPT ![s] = "header"]
    /\ UNCHANGED <<sendNonce, sealed, header, wire, recvVars>>

LockSend(s) ==
    /\ spc[s] = "lock"
    /\ sendLock = Nobody
    /\ sendLock' = s
    /\ spc' = [spc EXCEPT ![s] = "header"]
    /\ UNCHANGED <<sendNonce, sealed, header, wire, recvVars>>

\* Prepend the nonce.
PrependNonce(s) ==
    /\ spc[s] = "header"
    /\ header' = [header EXCEPT ![s] = sendNonce]
    /\ spc' = [spc EXCEPT ![s] = "seal"]
    /\ UNCHANGED <<sendLock, sendNonce, sealed, wire, recvVars>>

\* CipherState.Encrypt refuses to work past MaxNonce, else it seals and counts.
CipherEncrypt(s) ==
    IF sendNonce > MaxNonce
    THEN UNCHANGED <<sendNonce, sealed, wire>>
    ELSE /\ wire' = wire \cup {[header |-> header[s], seal |-> sendNonce, body |-> sealed]}
         /\ sealed' = sealed + 1
         /\ sendNonce' = sendNonce + 1

\* Seal the plaintext, return (which releases the lock), and send the message.
Seal(s) ==
    /\ spc[s] = "seal"
    /\ CipherEncrypt(s)
    /\ sendLock' = Nobody
    /\ spc' = [spc EXCEPT ![s] = "idle"]
    /\ header' = [header EXCEPT ![s] = 0]
    /\ UNCHANGED recvVars

-----------------------------------------------------------------------------
(* Decrypt *)

\* A message arrives; one too short for a nonce is refused before any lock.
StartDecrypt(r) ==
    /\ rpc[r] = "idle"
    /\ \E m \in Arriving \cup Corrupt :
          IF m.header = TooShort
          THEN UNCHANGED <<msg, rpc>>
          ELSE /\ msg' = [msg EXCEPT ![r] = m]
               /\ rpc' = [rpc EXCEPT ![r] = "lock"]
    /\ UNCHANGED <<recvLock, recvNonce, replay, returned, verdict, delivered, sendVars>>

\* Mutant of LockRecv: Decrypt without recvLock.
LockRecvNoLock(r) ==
    /\ rpc[r] = "lock"
    /\ recvLock' = r
    /\ rpc' = [rpc EXCEPT ![r] = "set"]
    /\ UNCHANGED <<recvNonce, replay, msg, returned, verdict, delivered, sendVars>>

LockRecv(r) ==
    /\ rpc[r] = "lock"
    /\ recvLock = Nobody
    /\ recvLock' = r
    /\ rpc' = [rpc EXCEPT ![r] = "set"]
    /\ UNCHANGED <<recvNonce, replay, msg, returned, verdict, delivered, sendVars>>

SetNonce(r) ==
    /\ rpc[r] = "set"
    /\ recvNonce' = msg[r].header
    /\ rpc' = [rpc EXCEPT ![r] = "open"]
    /\ UNCHANGED <<recvLock, replay, msg, returned, verdict, delivered, sendVars>>

\* CipherState.Decrypt under the nonce n: the tag verifies only under the sealing nonce.
Opens(m, n) == n <= MaxNonce /\ m.seal = n

\* Mutant of Open: the window moves before the message is authenticated.
OpenMovesWindow(r) ==
    /\ rpc[r] = "open"
    /\ IF Opens(msg[r], recvNonce)
       THEN /\ recvNonce' = recvNonce + 1
            /\ rpc' = [rpc EXCEPT ![r] = "check"]
            /\ UNCHANGED <<recvLock, replay, msg>>
       ELSE /\ rpc' = [rpc EXCEPT ![r] = "idle"]
            /\ msg' = [msg EXCEPT ![r] = NoMsg]
            /\ recvLock' = Nobody
            /\ replay' = Update(replay, recvNonce)
            /\ UNCHANGED recvNonce
    /\ UNCHANGED <<returned, verdict, delivered, sendVars>>

\* Decrypt and authenticate; an error returns at once and leaves the window alone.
Open(r) ==
    /\ rpc[r] = "open"
    /\ IF Opens(msg[r], recvNonce)
       THEN /\ recvNonce' = recvNonce + 1
            /\ rpc' = [rpc EXCEPT ![r] = "check"]
            /\ UNCHANGED <<recvLock, msg>>
       ELSE /\ rpc' = [rpc EXCEPT ![r] = "idle"]
            /\ msg' = [msg EXCEPT ![r] = NoMsg]
            /\ recvLock' = Nobody
            /\ UNCHANGED recvNonce
    /\ UNCHANGED <<replay, returned, verdict, delivered, sendVars>>

\* Check the nonce against the window; return the plaintext or ErrInvalidNonce.
CheckNonce(r) ==
    LET nonce == msg[r].header
        ok    == Accepts(replay, nonce)
    IN  /\ rpc[r] = "check"
        /\ replay' = IF ok THEN Update(replay, nonce) ELSE replay
        /\ returned' = IF ok THEN returned \cup {nonce} ELSE returned
        /\ delivered' = IF ok THEN [delivered EXCEPT ![msg[r].body] = @ + 1] ELSE delivered
        /\ verdict' = [nonce |-> nonce, ok |-> ok]
        /\ recvLock' = Nobody
        /\ rpc' = [rpc EXCEPT ![r] = "idle"]
        /\ msg' = [msg EXCEPT ![r] = NoMsg]
        /\ UNCHANGED <<recvNonce, sendVars>>

-----------------------------------------------------------------------------
Encrypt(s) == StartEncrypt(s) \/ LockSend(s) \/ PrependNonce(s) \/ Seal(s)

Decrypt(r) == \/ StartDecrypt(r) \/ LockRecv(r) \/ SetNonce(r)
              \/ Open(r) \/ CheckNonce(r)

SessionNext == (\E s \in Sender : Encrypt(s)) \/ (\E r \in Receiver : Decrypt(r))

SessionSpec == SessionInit /\ [][SessionNext]_sessionVars

-----------------------------------------------------------------------------
(* Properties *)

\* Types: what the fields of a Session and the calls in progress can hold.
SessionTypeOK ==
    /\ sendLock \in Sender \cup {Nobody}
    /\ sendNonce \in 0 .. MaxNonce + 1
    /\ sealed \in Nat
    /\ spc \in [Sender -> {"idle", "lock", "header", "seal"}]
    /\ header \in [Sender -> 0 .. MaxNonce + 1]
    /\ wire \subseteq Message
    /\ recvLock \in Receiver \cup {Nobody}
    /\ recvNonce \in 0 .. MaxNonce + 1
    /\ replay \in [bitmap : SUBSET (0 .. WindowBits - 1), highest : Nonce]
    /\ rpc \in [Receiver -> {"idle", "lock", "set", "open", "check"}]
    /\ msg \in [Receiver -> Message]
    /\ returned \subseteq Nonce
    /\ verdict \in [nonce : Nonce, ok : BOOLEAN]
    /\ delivered \in [Nonce -> Nat]

(***************************************************************************)
(* Session.Decrypt hands out every plaintext at most once, however often   *)
(* the network repeats its message and however many goroutines decrypt.    *)
(***************************************************************************)
NoReplay == \A p \in Nonce : delivered[p] <= 1

(***************************************************************************)
(* Session.Encrypt never seals two plaintexts under one nonce, and the     *)
(* nonce it prepends is the one it sealed with.                            *)
(***************************************************************************)
NonceUsedOnce ==
    /\ \A m \in wire : m.header = m.seal
    /\ \A m1, m2 \in wire : m1.seal = m2.seal => m1 = m2

(***************************************************************************)
(* A message that does not authenticate never moves the replay window:     *)
(* the window only ever records nonces of messages the peer really sealed. *)
(***************************************************************************)
WindowTracksSent ==
    /\ replay.highest # 0 => \E m \in wire : m.seal = replay.highest
    /\ \A d \in replay.bitmap : \E m \in wire : m.seal = replay.highest - d

Filter == INSTANCE NonceFilter

(***************************************************************************)
(* Seen from outside, the session's bitmap window is the unbounded-memory  *)
(* filter of NonceFilter: Decrypt rejects a genuine message only when its  *)
(* nonce was accepted before or lies WindowBits or more behind an accepted *)
(* one, and it accepts every other one.                                    *)
(***************************************************************************)
ImplementsFilter == Filter!Spec
=============================================================================
