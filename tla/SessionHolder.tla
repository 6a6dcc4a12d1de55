---------------------------- MODULE SessionHolder ----------------------------
(***************************************************************************)
(* champa-client/main.go: the session holder, which keeps a session with   *)
(* the server (keepAlive, dialSession, noiseDial) and hands it to the      *)
(* goroutines of local connections (run, get, handle).  A session object   *)
(* and its PollingPacketConn are named by the attempt that made them; a    *)
(* reference to a session that smux has closed becomes Closed, as it does  *)
(* not matter to which, and names nobody refers to are used again.         *)
(***************************************************************************)
EXTENDS FiniteSets

CONSTANTS
    Attempt,     \* names of sessions
    Conn,        \* local connections
    NoSession,        \* no session
    Closed       \* a session that has been closed

ASSUME HolderAssumption == NoSession \notin Attempt /\ Closed \notin Attempt /\ NoSession # Closed

VARIABLES
    keepAlive,   \* where the goroutine of keepAlive is
    dialled,     \* the session it is dialling or watching
    handshake,   \* the handshake's message: under way as "init", "answered", "damaged" or "lost"
    pconn,       \* attempts whose PollingPacketConn is open
    live,        \* sessions of smux that are not closed
    sess,        \* the holder's field sess
    conn,        \* where the goroutine of each local connection is
    uses         \* the session it got

dialVars == <<keepAlive, dialled, handshake, pconn>>
connVars == <<conn, uses>>
holderVars == <<dialVars, live, sess, connVars>>

HolderInit ==
    /\ keepAlive = "dial" /\ dialled = NoSession /\ handshake = "none"
    /\ pconn = {} /\ live = {} /\ sess = NoSession
    /\ conn = [c \in Conn |-> "idle"]
    /\ uses = [c \in Conn |-> NoSession]

-----------------------------------------------------------------------------
(* keepAlive *)

Unused == Attempt \ ({sess} \cup {uses[c] : c \in Conn} \cup pconn \cup live)

\* NewPollingPacketConn starts polling; noiseDial writes the handshake message.
Dial(a) ==
    /\ keepAlive = "dial" /\ a \in Unused
    /\ dialled' = a
    /\ pconn' = pconn \cup {a}
    /\ handshake' = "init"
    /\ keepAlive' = "handshake"
    /\ UNCHANGED <<live, sess, connVars>>

\* The server's response arrives, or something damaged of its type.
Answer ==
    /\ handshake = "init"
    /\ handshake' \in {"answered", "damaged"}
    /\ UNCHANGED <<keepAlive, dialled, pconn, live, sess, connVars>>

\* The poll with the message fails, or the response is lost: neither is sent again.
Lose ==
    /\ handshake = "init"
    /\ handshake' = "lost"
    /\ UNCHANGED <<keepAlive, dialled, pconn, live, sess, connVars>>

\* The handshake completes; KCP and smux begin a session.
Connect ==
    /\ keepAlive = "handshake" /\ handshake = "answered"
    /\ live' = live \cup {dialled}
    /\ keepAlive' = "publish"
    /\ handshake' = "none"
    /\ UNCHANGED <<dialled, pconn, sess, connVars>>

\* Mutant of DialFails: the connection is left open.
DialFailsLeaks ==
    /\ keepAlive = "handshake" /\ handshake = "damaged"
    /\ dialled' = NoSession
    /\ keepAlive' = "wait"
    /\ handshake' = "none"
    /\ UNCHANGED <<pconn, live, sess, connVars>>

\* Mutant of DialFails: keepAlive returns.
DialFailsReturns ==
    /\ keepAlive = "handshake" /\ handshake = "damaged"
    /\ pconn' = pconn \ {dialled}
    /\ dialled' = NoSession
    /\ keepAlive' = "returned"
    /\ handshake' = "none"
    /\ UNCHANGED <<live, sess, connVars>>

\* FinishHandshake fails: dialSession closes what it opened.
DialFails ==
    /\ keepAlive = "handshake" /\ handshake = "damaged"
    /\ pconn' = pconn \ {dialled}
    /\ dialled' = NoSession
    /\ keepAlive' = "wait"
    /\ handshake' = "none"
    /\ UNCHANGED <<live, sess, connVars>>

Publish ==
    /\ keepAlive = "publish"
    /\ sess' = IF dialled \in live THEN dialled ELSE Closed
    /\ keepAlive' = "watch"
    /\ UNCHANGED <<dialled, handshake, pconn, live, connVars>>

\* Mutant of SessionEnds: the session is not checked.
SessionEndsEarly ==
    /\ keepAlive = "watch"
    /\ pconn' = pconn \ {dialled}
    /\ dialled' = NoSession
    /\ keepAlive' = "wait"
    /\ UNCHANGED <<handshake, live, sess, connVars>>

\* The loop around IsClosed ends.
SessionEnds ==
    /\ keepAlive = "watch" /\ dialled \notin live
    /\ pconn' = pconn \ {dialled}
    /\ dialled' = NoSession
    /\ keepAlive' = "wait"
    /\ UNCHANGED <<handshake, live, sess, connVars>>

\* time.Sleep(reconnectDelay)
Wait ==
    /\ keepAlive = "wait"
    /\ keepAlive' = "dial"
    /\ UNCHANGED <<dialled, handshake, pconn, live, sess, connVars>>

KeepAlive == (\E a \in Attempt : Dial(a)) \/ Connect \/ DialFails \/ Publish \/ SessionEnds \/ Wait

\* smux closes a session: no keep-alive in time, or an error of KCP.
CloseSession(a) ==
    /\ a \in live
    /\ live' = live \ {a}
    /\ sess' = IF sess = a THEN Closed ELSE sess
    /\ uses' = [c \in Conn |-> IF uses[c] = a THEN Closed ELSE uses[c]]
    /\ UNCHANGED <<dialVars, conn>>

-----------------------------------------------------------------------------
(* The goroutine of a local connection *)

\* get(), and the check that there is a session; without one the connection is dropped.
Get(c) ==
    /\ conn[c] = "idle"
    /\ sess \in live
    /\ conn' = [conn EXCEPT ![c] = "open"]
    /\ uses' = [uses EXCEPT ![c] = sess]
    /\ UNCHANGED <<dialVars, live, sess>>

\* OpenStream, which fails when the session has been closed since.
OpenStream(c) ==
    /\ conn[c] = "open"
    /\ IF uses[c] \in live
       THEN conn' = [conn EXCEPT ![c] = "stream"] /\ UNCHANGED uses
       ELSE conn' = [conn EXCEPT ![c] = "idle"] /\ uses' = [uses EXCEPT ![c] = NoSession]
    /\ UNCHANGED <<dialVars, live, sess>>

\* Both copying goroutines end: the streams are closed, or the session is.
StreamEnds(c) ==
    /\ conn[c] = "stream"
    /\ conn' = [conn EXCEPT ![c] = "idle"]
    /\ uses' = [uses EXCEPT ![c] = NoSession]
    /\ UNCHANGED <<dialVars, live, sess>>

Handle(c) == Get(c) \/ OpenStream(c) \/ StreamEnds(c)

HolderNext ==
    \/ KeepAlive
    \/ Answer \/ Lose
    \/ \E a \in Attempt : CloseSession(a)
    \/ \E c \in Conn : Handle(c)

HolderSpec == HolderInit /\ [][HolderNext]_holderVars

(***************************************************************************)
(* The goroutine of keepAlive keeps running, and the network is as good as *)
(* can be asked: handshakes that can be answered again and again are.      *)
(***************************************************************************)
FairHolder ==
    /\ HolderSpec
    /\ WF_holderVars(KeepAlive)
    /\ SF_holderVars(handshake = "init" /\ handshake' = "answered" /\ Answer)
    /\ \A c \in Conn : WF_holderVars(OpenStream(c))

-----------------------------------------------------------------------------
(* Properties *)

\* Types: what keepAlive and the connections can be doing.
HolderTypeOK ==
    /\ keepAlive \in {"dial", "handshake", "publish", "watch", "wait"}
    /\ dialled \in Attempt \cup {NoSession}
    /\ handshake \in {"none", "init", "answered", "damaged", "lost"}
    /\ pconn \subseteq Attempt /\ live \subseteq Attempt
    /\ sess \in live \cup {NoSession, Closed}
    /\ conn \in [Conn -> {"idle", "open", "stream"}]
    /\ uses \in [Conn -> live \cup {NoSession, Closed}]
    /\ \A c \in Conn : uses[c] = NoSession <=> conn[c] = "idle"

(***************************************************************************)
(* Nothing leaks: only the connection of the attempt under way polls the   *)
(* server, whatever became of the attempts before, and there is none while *)
(* the client waits to reconnect.                                          *)
(***************************************************************************)
OnePollingConn == pconn = {dialled} \ {NoSession}

(***************************************************************************)
(* A live session always has its polling connection, and is the one being  *)
(* dialled or watched: a stream never runs over a session nobody watches.  *)
(***************************************************************************)
LiveSessionIsWatched ==
    /\ live \subseteq {dialled}
    /\ \A c \in Conn : conn[c] = "stream" /\ uses[c] \in live => keepAlive = "watch"

(***************************************************************************)
(* After a session has ended the client has a new one, or is waiting for   *)
(* the answer to a handshake message that was lost.                        *)
(***************************************************************************)
ReconnectsUnlessLost == keepAlive = "wait" ~> (keepAlive = "watch" \/ handshake = "lost")

(***************************************************************************)
(* "end session %08x -- reconnecting in %v": after a session has ended the *)
(* client has a new one in the end.                                        *)
(***************************************************************************)
Reconnects == keepAlive = "wait" ~> keepAlive = "watch"
=============================================================================
