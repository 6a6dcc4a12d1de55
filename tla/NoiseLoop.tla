------------------------------ MODULE NoiseLoop ------------------------------
(***************************************************************************)
(* champa-server/main.go, noiseLoop: the goroutine that reads Noise        *)
(* messages, the map of sessions it keeps, the sending goroutine it starts *)
(* for every session, and the queues of plainConn between that goroutine   *)
(* and KCP, which expire.  Composed with the clients' side of the          *)
(* handshake (noiseDial in champa-client/main.go) over a network that      *)
(* loses, duplicates and delays messages.                                  *)
(***************************************************************************)
EXTENDS Naturals

CONSTANTS
    Client,      \* client IDs
    Chan,        \* identities of plainConn's send queues
    None,        \* no session, no queue
    QueueSize,   \* capacity of a send queue
    Timeout,     \* after which plainConn forgets a peer it has not looked up
    KeepAlive,   \* how often KCP writes to a client while smux's keep-alives flow
    MaxSess,     \* bound: handshakes accepted
    MaxFresh     \* bound: transport messages of a client under way

ASSUME NoiseLoopAssumption ==
    /\ QueueSize \in Nat \ {0} /\ Timeout \in Nat /\ KeepAlive \in Nat
    /\ MaxSess \in Nat /\ MaxFresh \in Nat
    /\ KeepAlive < Timeout
    /\ None \notin Chan \cup Nat

Sid == 1 .. MaxSess

VARIABLES
    sessions,    \* the map sessions: client -> session (None when absent)
    accepted,    \* number of handshakes accepted; numbers the sessions and their keys
    owner,       \* the client each session was accepted for
    sender,      \* where each session's sending goroutine is
    ranges,      \* the queue it ranges over
    failed,      \* sessions whose Encrypt has failed (nonces used up)
    loop,        \* what the main goroutine is doing
    rec, idle,   \* plainConn: each client's send queue, and the time since it was looked up
    qlen, qclosed, \* packets in each queue; queues closed by the sweeper
    client,      \* clients: "new", "waiting" for the handshake response, "up" or "gone"
    key,         \* the session a client has completed a handshake for
    responses,   \* handshake responses sent: any of them may still arrive
    fresh,       \* each client's transport messages not yet accepted by the server
    kcp,         \* clients KCP has a live connection with
    quiet        \* time since KCP wrote to each client, or its session began;
                 \* once it exceeds KeepAlive it stays there until a new session

loopVars == <<sessions, accepted, owner, loop>>
senderVars == <<sender, ranges, failed>>
connVars == <<rec, idle, qlen, qclosed>>
clientVars == <<client, key, responses, fresh>>
kcpVars == <<kcp, quiet>>
vars == <<loopVars, senderVars, connVars, clientVars, kcpVars>>

Reading == [do |-> "read"]

Init ==
    /\ sessions = [c \in Client |-> None]
    /\ accepted = 0
    /\ owner = [s \in Sid |-> None]
    /\ sender = [s \in Sid |-> "none"]
    /\ ranges = [s \in Sid |-> None]
    /\ failed = {}
    /\ loop = Reading
    /\ rec = [c \in Client |-> None]
    /\ idle = [c \in Client |-> 0]
    /\ qlen = [q \in Chan |-> 0]
    /\ qclosed = {}
    /\ client = [c \in Client |-> "new"]
    /\ key = [c \in Client |-> None]
    /\ responses = {}
    /\ fresh = [c \in Client |-> 0]
    /\ kcp = {}
    /\ quiet = [c \in Client |-> 0]

-----------------------------------------------------------------------------
(* plainConn *)

Unused == Chan \ ({rec[c] : c \in Client} \cup {ranges[s] : s \in Sid})

\* Mutant of SendQueue: finding a record does not count as seeing the peer.
SendQueueNoRefresh(c, q) ==
    IF rec[c] # None
    THEN q = rec[c] /\ UNCHANGED <<rec, idle, qclosed>>
    ELSE /\ q \in Unused
         /\ rec' = [rec EXCEPT ![c] = q]
         /\ idle' = [idle EXCEPT ![c] = 0]
         /\ qclosed' = qclosed \ {q}

\* remotes.SendQueue(addr): find or create the client's queue; it is q.
SendQueue(c, q) ==
    /\ idle' = [idle EXCEPT ![c] = 0]
    /\ IF rec[c] # None
       THEN q = rec[c] /\ UNCHANGED <<rec, qclosed>>
       ELSE /\ q \in Unused
            /\ rec' = [rec EXCEPT ![c] = q]
            /\ qclosed' = qclosed \ {q}

\* removeExpired: forget the peers not looked up for Timeout and close their queues.
Sweep ==
    LET expired == {c \in Client : rec[c] # None /\ idle[c] = Timeout}
    IN  /\ expired # {}
        /\ rec' = [c \in Client |-> IF c \in expired THEN None ELSE rec[c]]
        /\ idle' = [c \in Client |-> IF c \in expired THEN 0 ELSE idle[c]]
        /\ qclosed' = qclosed \cup {rec[c] : c \in expired}
        /\ UNCHANGED <<qlen, loopVars, senderVars, clientVars, kcpVars>>

Lapsed(c) == quiet[c] > KeepAlive

Tick ==
    /\ idle' = [c \in Client |-> IF rec[c] # None /\ idle[c] < Timeout THEN idle[c] + 1 ELSE idle[c]]
    /\ quiet' = [c \in Client |-> IF Lapsed(c) THEN quiet[c] ELSE quiet[c] + 1]
    /\ UNCHANGED <<rec, qlen, qclosed, loopVars, senderVars, clientVars, kcp>>

\* KCP writes a packet to a client it is connected with; a full queue drops it.
KcpWrite(c) ==
    /\ c \in kcp
    /\ \E q \in Chan :
          /\ SendQueue(c, q)
          /\ qlen' = [qlen EXCEPT ![q] =
                        IF rec[c] = None THEN 1 ELSE IF @ < QueueSize THEN @ + 1 ELSE @]
    /\ quiet' = [quiet EXCEPT ![c] = IF Lapsed(c) THEN @ ELSE 0]
    /\ UNCHANGED <<kcp, loopVars, senderVars, clientVars>>

\* smux gives up a client that has not been heard of; KCP closes the connection.
KcpClose(c) ==
    /\ c \in kcp
    /\ client[c] = "gone"
    /\ kcp' = kcp \ {c}
    /\ UNCHANGED <<quiet, loopVars, senderVars, connVars, clientVars>>

-----------------------------------------------------------------------------
(* The clients *)

\* noiseDial sends its handshake message, once.
Dial(c) ==
    /\ client[c] = "new"
    /\ client' = [client EXCEPT ![c] = "waiting"]
    /\ UNCHANGED <<key, responses, fresh, loopVars, senderVars, connVars, kcpVars>>

\* The first response that arrives completes the handshake.
FinishHandshake(c) ==
    /\ client[c] = "waiting"
    /\ \E s \in responses :
          /\ owner[s] = c
          /\ key' = [key EXCEPT ![c] = s]
    /\ client' = [client EXCEPT ![c] = "up"]
    /\ UNCHANGED <<responses, fresh, loopVars, senderVars, connVars, kcpVars>>

\* noisePacketConn.WriteTo: the client encrypts a packet of its KCP.
SendTransport(c) ==
    /\ client[c] = "up"
    /\ fresh[c] < MaxFresh
    /\ fresh' = [fresh EXCEPT ![c] = @ + 1]
    /\ UNCHANGED <<client, key, responses, loopVars, senderVars, connVars, kcpVars>>

\* A client goes away without a word.
Leave(c) ==
    /\ client[c] \in {"waiting", "up"}
    /\ client' = [client EXCEPT ![c] = "gone"]
    /\ UNCHANGED <<key, responses, fresh, loopVars, senderVars, connVars, kcpVars>>

-----------------------------------------------------------------------------
(* The main goroutine.  A temporary read error and a message of another    *)
(* type change nothing, and need no action.                                *)

\* Mutant of ReadInit: a repeated initiation starts another session.
ReadInitAgain(c) ==
    /\ loop = Reading
    /\ client[c] # "new"
    /\ accepted < MaxSess
    /\ loop' = [do |-> "accept", c |-> c]
    /\ UNCHANGED <<sessions, accepted, owner, senderVars, connVars, clientVars, kcpVars>>

\* Read a handshake initiation, new or repeated, and look its session up.
ReadInit(c) ==
    /\ loop = Reading
    /\ client[c] # "new"
    /\ accepted < MaxSess
    /\ loop' = IF sessions[c] # None THEN Reading ELSE [do |-> "accept", c |-> c]
    /\ UNCHANGED <<sessions, accepted, owner, senderVars, connVars, clientVars, kcpVars>>

\* Read a transport message and look its session up; without one it is dropped.
ReadTransport(c) ==
    /\ loop = Reading
    /\ key[c] # None
    /\ loop' = IF sessions[c] = None THEN Reading
               ELSE [do |-> "decrypt", c |-> c, sess |-> sessions[c]]
    /\ UNCHANGED <<sessions, accepted, owner, senderVars, connVars, clientVars, kcpVars>>

\* AcceptHandshake may fail on a damaged message; else the response is written.
Accept ==
    /\ loop.do = "accept"
    /\ \/ /\ loop' = Reading
          /\ UNCHANGED <<accepted, owner, responses>>
       \/ /\ accepted' = accepted + 1
          /\ owner' = [owner EXCEPT ![accepted + 1] = loop.c]
          /\ responses' = responses \cup {accepted + 1}
          /\ loop' = [do |-> "store", c |-> loop.c, sess |-> accepted + 1]
    /\ UNCHANGED <<sessions, senderVars, connVars, client, key, fresh, kcpVars>>

\* Store the session and start its sending goroutine.
Store ==
    /\ loop.do = "store"
    /\ sessions' = [sessions EXCEPT ![loop.c] = loop.sess]
    /\ sender' = [sender EXCEPT ![loop.sess] = "start"]
    /\ quiet' = [quiet EXCEPT ![loop.c] = 0]
    /\ loop' = Reading
    /\ UNCHANGED <<accepted, owner, ranges, failed, connVars, clientVars, kcp>>

(***************************************************************************)
(* Only a message sealed for this session, and not accepted before,        *)
(* decrypts (NoiseSession); its contents go to KCP, unless the receive     *)
(* queue is full.                                                          *)
(***************************************************************************)
DecryptMessage ==
    /\ loop.do = "decrypt"
    /\ LET c == loop.c
       IN  \/ /\ key[c] = loop.sess /\ fresh[c] > 0
              /\ fresh' = [fresh EXCEPT ![c] = @ - 1]
              /\ kcp' \in {kcp, kcp \cup {c}}
           \/ UNCHANGED <<fresh, kcp>>
    /\ loop' = Reading
    /\ UNCHANGED <<sessions, accepted, owner, quiet, senderVars, connVars, client, key, responses>>

-----------------------------------------------------------------------------
(* The sending goroutine of session s *)

SenderStart(s) ==
    /\ sender[s] = "start"
    /\ \E q \in Chan :
          /\ SendQueue(owner[s], q)
          /\ qlen' = [qlen EXCEPT ![q] = IF rec[owner[s]] = None THEN 0 ELSE @]
          /\ ranges' = [ranges EXCEPT ![s] = q]
    /\ sender' = [sender EXCEPT ![s] = "range"]
    /\ UNCHANGED <<failed, loopVars, clientVars, kcpVars>>

\* Encrypt a packet and write it to noiseConn.
SenderSend(s) ==
    /\ sender[s] = "range"
    /\ qlen[ranges[s]] > 0
    /\ qlen' = [qlen EXCEPT ![ranges[s]] = @ - 1]
    /\ UNCHANGED <<rec, idle, qclosed, loopVars, senderVars, clientVars, kcpVars>>

\* Encrypt fails: the packet is lost and the loop is left.
SenderFail(s) ==
    /\ sender[s] = "range"
    /\ qlen[ranges[s]] > 0
    /\ qlen' = [qlen EXCEPT ![ranges[s]] = @ - 1]
    /\ sender' = [sender EXCEPT ![s] = "delete"]
    /\ ranges' = [ranges EXCEPT ![s] = None]
    /\ failed' = failed \cup {s}
    /\ UNCHANGED <<rec, idle, qclosed, loopVars, clientVars, kcpVars>>

\* The queue is closed and empty: the range ends.
SenderEnd(s) ==
    /\ sender[s] = "range"
    /\ ranges[s] \in qclosed
    /\ qlen[ranges[s]] = 0
    /\ sender' = [sender EXCEPT ![s] = "delete"]
    /\ ranges' = [ranges EXCEPT ![s] = None]
    /\ UNCHANGED <<failed, loopVars, connVars, clientVars, kcpVars>>

\* Mutant of SenderDelete: the goroutine ends without cleaning up.
SenderDeleteMissing(s) ==
    /\ sender[s] = "delete"
    /\ sender' = [sender EXCEPT ![s] = "done"]
    /\ UNCHANGED <<sessions, ranges, failed, accepted, owner, loop, connVars, clientVars, kcpVars>>

\* The deferred delete(sessions, addr), whichever session is there.
SenderDelete(s) ==
    /\ sender[s] = "delete"
    /\ sessions' = [sessions EXCEPT ![owner[s]] = None]
    /\ sender' = [sender EXCEPT ![s] = "done"]
    /\ UNCHANGED <<ranges, failed, accepted, owner, loop, connVars, clientVars, kcpVars>>

SenderSteps(s) == SenderStart(s) \/ SenderSend(s) \/ SenderFail(s) \/ SenderEnd(s) \/ SenderDelete(s)

Loop == \/ \E c \in Client : ReadInit(c) \/ ReadTransport(c)
        \/ Accept \/ Store \/ DecryptMessage

Next ==
    \/ Loop
    \/ \E s \in Sid : SenderSteps(s)
    \/ \E c \in Client : Dial(c) \/ FinishHandshake(c) \/ SendTransport(c) \/ Leave(c)
    \/ \E c \in Client : KcpWrite(c) \/ KcpClose(c)
    \/ Sweep
    \/ Tick

Spec == Init /\ [][Next]_vars

(***************************************************************************)
(* Goroutines keep running, the sweeper keeps sweeping, time goes on, and  *)
(* KCP closes connections to clients that are gone.                        *)
(***************************************************************************)
Fairness ==
    /\ WF_vars(Accept \/ Store \/ DecryptMessage)
    /\ \A s \in Sid : WF_vars(SenderSteps(s))
    /\ \A c \in Client : WF_vars(KcpClose(c))
    /\ WF_vars(Sweep)
    /\ WF_vars(Tick)

FairSpec == Spec /\ Fairness

-----------------------------------------------------------------------------
(* Properties *)

\* Types: what noiseLoop's map, goroutines and queues can hold.
TypeOK ==
    /\ sessions \in [Client -> Sid \cup {None}]
    /\ accepted \in 0 .. MaxSess
    /\ owner \in [Sid -> Client \cup {None}]
    /\ sender \in [Sid -> {"none", "start", "range", "delete", "done"}]
    /\ ranges \in [Sid -> Chan \cup {None}]
    /\ loop \in {Reading} \cup [do : {"accept"}, c : Client]
                  \cup [do : {"store", "decrypt"}, c : Client, sess : Sid]
    /\ rec \in [Client -> Chan \cup {None}]
    /\ idle \in [Client -> 0 .. Timeout]
    /\ qlen \in [Chan -> 0 .. QueueSize]
    /\ qclosed \subseteq Chan
    /\ client \in [Client -> {"new", "waiting", "up", "gone"}]
    /\ key \in [Client -> Sid \cup {None}]
    /\ responses \subseteq Sid
    /\ failed \subseteq Sid
    /\ fresh \in [Client -> 0 .. MaxFresh]
    /\ kcp \subseteq Client
    /\ quiet \in [Client -> 0 .. KeepAlive + 1]

Active(s) == sender[s] \in {"start", "range", "delete"}

(***************************************************************************)
(* A session is in the map exactly as long as its sending goroutine runs,  *)
(* and a client never has two such goroutines: the delete at the end of    *)
(* one never removes the session of another.                               *)
(***************************************************************************)
SessionHasSender ==
    /\ \A c \in Client : sessions[c] # None =>
          owner[sessions[c]] = c /\ Active(sessions[c])
    /\ \A s \in Sid : Active(s) => sessions[owner[s]] = s

Healthy(c) == sessions[c] # None /\ sessions[c] \notin failed /\ ~Lapsed(c)

(***************************************************************************)
(* As long as KCP has written to a client at least every KeepAlive since   *)
(* its session began, the session stays: neither sweeper nor goroutine nor *)
(* a repeated handshake message takes it away or replaces it.              *)
(***************************************************************************)
HealthySessionStays ==
    [][\A c \in Client : Healthy(c) => sessions'[c] = sessions[c]]_vars

(***************************************************************************)
(* Packets for a client are not stranded: while its session is healthy,    *)
(* the queue KCP writes to is the one the session's goroutine reads from.  *)
(***************************************************************************)
QueueIsRead ==
    \A c \in Client :
        Healthy(c) /\ rec[c] # None /\ sender[sessions[c]] # "start"
        => ranges[sessions[c]] = rec[c]

(***************************************************************************)
(* Nothing leaks: when a client is gone its session is removed.            *)
(***************************************************************************)
GoneSessionRemoved == \A c \in Client : client[c] = "gone" ~> sessions[c] = None
=============================================================================
