------------------------------- MODULE Streams -------------------------------
(***************************************************************************)
(* The session holder composed with what runs over its sessions: handle    *)
(* (champa-client/main.go) copies between a local connection and a stream  *)
(* of smux, and handleStream (champa-server/main.go), which acceptSessions *)
(* and acceptStreams lead to, between the stream and a connection to the   *)
(* upstream.  Both copy in the same way, with a goroutine for each         *)
(* direction, so an end is a pair of a local connection and a side.  Data  *)
(* is counted.  TCP, KCP and smux are modelled from how the code uses      *)
(* them.  Each local connection is handled once.                           *)
(***************************************************************************)
EXTENDS SessionHolder, Integers

CONSTANTS
    StreamWindow, \* data that may wait in a stream: MaxStreamBuffer
    SocketBuffer  \* data that may wait in a socket

ASSUME StreamAssumption == StreamWindow \in Nat \ {0} /\ SocketBuffer \in Nat \ {0}

VARIABLES
    serving,  \* the server's goroutine of each stream: "none", "dial", "copy" or "returned"
    end       \* the ends of the connections, records as in Fresh

streamVars == <<serving, end>>
allVars == <<holderVars, streamVars>>

Side == {"client", "server"}
Client(c) == <<c, "client">>
Server(c) == <<c, "server">>
Peer(e) == IF e = Client(e[1]) THEN Server(e[1]) ELSE Client(e[1])

Fresh ==
    [app |-> "none",       \* the application: "none", "open", "shut" (sends no more) or "closed"
     unread |-> 0,         \* data it sent that has not been read here
     owed |-> 0,           \* history: data sent to it that it has not been given
     stream |-> "none",    \* "none", "open", "closed", or "broken": closed with its session
     buffered |-> 0,       \* data from the other end that has not been read here
     fromApp |-> "none",   \* the goroutine that copies to the stream: "none", "copy" or "done"
     toApp |-> "none"]     \* the goroutine that copies to the application

StreamsInit ==
    /\ HolderInit
    /\ serving = [c \in Conn |-> "none"]
    /\ end = [e \in Conn \X Side |-> Fresh]

\* The goroutines start to copy.
Copying(r) ==
    [r EXCEPT !.app = "open", !.fromApp = "copy", !.toApp = "copy",
              !.stream = IF @ = "none" THEN "open" ELSE @]

\* stream.Close drops what waits there; of a broken stream the other end does not hear.
CloseStream(r) == [r EXCEPT !.owed = 0, !.buffered = 0, !.stream = IF @ = "broken" THEN @ ELSE "closed"]

\* Mutant of EndFromApp: the stream is left to the other goroutine.
EndFromAppOpen(r) == [r EXCEPT !.fromApp = "done", !.unread = 0]

\* CloseRead and stream.Close, at the end of the copying to the stream.
EndFromApp(r) == [CloseStream(r) EXCEPT !.fromApp = "done", !.unread = 0]

\* Stream and connection are closed; nothing else of the end matters any more.
Returned(r) == [Fresh EXCEPT !.app = "closed", !.stream = CloseStream(r).stream]

-----------------------------------------------------------------------------
(* Sessions *)

\* Steps of the holder that concern no stream.
HolderStep ==
    /\ KeepAlive \/ Answer \/ Lose \/ \E c \in Conn : end[Client(c)].stream = "none" /\ Get(c)
    /\ UNCHANGED streamVars

Broken(r) == [r EXCEPT !.stream = IF @ \in {"none", "open"} THEN "broken" ELSE @]

\* smux closes a session of the client, and its streams with it.
CloseClientSession(a) ==
    /\ CloseSession(a)
    /\ end' = [e \in Conn \X Side |-> IF e[2] = "client" /\ conn[e[1]] = "stream" /\ uses[e[1]] = a
                                      THEN Broken(end[e]) ELSE end[e]]
    /\ UNCHANGED serving

\* The server's session of a stream is closed: acceptStreams returns.
CloseServerSession(c) ==
    /\ end[Client(c)].stream # "none" /\ end[Server(c)].stream \in {"none", "open"}
    /\ end' = [end EXCEPT ![Server(c)] = Broken(@)]
    /\ UNCHANGED <<holderVars, serving>>

-----------------------------------------------------------------------------
(* Streams *)

BeginStream(c) ==
    /\ OpenStream(c)
    /\ end' = IF uses[c] \in live THEN [end EXCEPT ![Client(c)] = Copying(@)] ELSE end
    /\ UNCHANGED serving

\* acceptSessions and acceptStreams: handleStream dials the upstream ...
AcceptStream(c) ==
    /\ end[Client(c)].stream # "none" /\ end[Server(c)].stream = "none"
    /\ serving' = [serving EXCEPT ![c] = "dial"]
    /\ end' = [end EXCEPT ![Server(c)].stream = "open"]
    /\ UNCHANGED holderVars

\* ... and copies, or closes the stream when the upstream cannot be reached.
DialUpstream(c) ==
    /\ serving[c] = "dial"
    /\ \/ /\ serving' = [serving EXCEPT ![c] = "copy"]
          /\ end' = [end EXCEPT ![Server(c)] = Copying(@)]
       \/ /\ serving' = [serving EXCEPT ![c] = "returned"]
          /\ end' = [end EXCEPT ![Server(c)] = CloseStream(@)]
    /\ UNCHANGED holderVars

-----------------------------------------------------------------------------
(* The applications: the one that connected to the client, and the upstream *)

\* The end of a stream that data can reach.
Reached(e) == end[e].stream \in {"none", "open"}

AppSends(e) ==
    /\ end[e].app = "open" /\ end[e].fromApp = "copy" /\ end[e].unread < SocketBuffer
    /\ end' = [end EXCEPT ![e].unread = @ + 1,
                          ![Peer(e)].owed = IF Reached(Peer(e)) THEN @ + 1 ELSE @]
    /\ UNCHANGED <<holderVars, serving>>

AppShuts(e) ==
    /\ end[e].app = "open"
    /\ end' = [end EXCEPT ![e].app = "shut"]
    /\ UNCHANGED <<holderVars, serving>>

AppCloses(e) ==
    /\ end[e].app \in {"open", "shut"}
    /\ end' = [end EXCEPT ![e].app = "closed"]
    /\ UNCHANGED <<holderVars, serving>>

-----------------------------------------------------------------------------
(* The goroutine that copies from the application to the stream *)

\* Data is read and written once there is room in the stream; a closed end drops it.
Forward(e) ==
    /\ end[e].fromApp = "copy" /\ end[e].unread > 0
    /\ end[e].stream = "open"
    /\ IF Reached(Peer(e))
       THEN /\ end[Peer(e)].buffered < StreamWindow
            /\ end' = [end EXCEPT ![e].unread = @ - 1, ![Peer(e)].buffered = @ + 1]
       ELSE end' = [end EXCEPT ![e].unread = @ - 1]
    /\ UNCHANGED <<holderVars, serving>>

\* Write fails: the session is closed, or "may return io.EOF" as the other end is.
ForwardFails(e) ==
    /\ end[e].fromApp = "copy" /\ end[e].unread > 0
    /\ end[e].stream = "broken" \/ end[Peer(e)].stream = "closed"
    /\ end' = [end EXCEPT ![e] = EndFromApp(@)]
    /\ UNCHANGED <<holderVars, serving>>

\* Read returns the end of the application's data.
AppEnded(e) ==
    /\ end[e].fromApp = "copy" /\ end[e].unread = 0
    /\ end[e].app \in {"shut", "closed"}
    /\ end' = [end EXCEPT ![e] = EndFromApp(@)]
    /\ UNCHANGED <<holderVars, serving>>

FromApp(e) == Forward(e) \/ ForwardFails(e) \/ AppEnded(e)

-----------------------------------------------------------------------------
(* The goroutine that copies from the stream to the application *)

Deliver(e) ==
    /\ end[e].toApp = "copy" /\ end[e].buffered > 0
    /\ end[e].app \in {"open", "shut"}
    /\ end' = [end EXCEPT ![e].buffered = @ - 1, ![e].owed = @ - 1]
    /\ UNCHANGED <<holderVars, serving>>

\* Reading ends, the data before the other end's closing having been read, or writing fails.
DeliverEnds(e) ==
    /\ end[e].toApp = "copy"
    /\ \/ end[e].stream \in {"closed", "broken"}
       \/ end[Peer(e)].stream = "closed" /\ end[e].buffered = 0
       \/ end[e].buffered > 0 /\ end[e].app = "closed"
    /\ end' = [end EXCEPT ![e].toApp = "done"]
    /\ UNCHANGED <<holderVars, serving>>

ToApp(e) == Deliver(e) \/ DeliverEnds(e)

\* Mutant of Done: one of the two goroutines is waited for.
DoneEither(e) == end[e].fromApp = "done" \/ end[e].toApp = "done"

\* wg.Wait returns, and then the goroutine of the connection.
Done(e) == end[e].fromApp = "done" /\ end[e].toApp = "done"

HandleReturns(c) ==
    /\ Done(Client(c))
    /\ StreamEnds(c)
    /\ end' = [end EXCEPT ![Client(c)] = Returned(@)]
    /\ UNCHANGED serving

HandleStreamReturns(c) ==
    /\ serving[c] = "copy" /\ Done(Server(c))
    /\ serving' = [serving EXCEPT ![c] = "returned"]
    /\ end' = [end EXCEPT ![Server(c)] = Returned(@)]
    /\ UNCHANGED holderVars

Handler(c) == BeginStream(c) \/ HandleReturns(c)
HandleStream(c) == DialUpstream(c) \/ HandleStreamReturns(c)

StreamsNext ==
    \/ HolderStep
    \/ \E a \in Attempt : CloseClientSession(a)
    \/ \E c \in Conn : Handler(c) \/ AcceptStream(c) \/ HandleStream(c) \/ CloseServerSession(c)
    \/ \E e \in Conn \X Side : FromApp(e) \/ ToApp(e) \/ AppSends(e) \/ AppShuts(e) \/ AppCloses(e)

StreamsSpec == StreamsInit /\ [][StreamsNext]_allVars

(***************************************************************************)
(* Goroutines keep running, TCP and KCP deliver, and smux closes a session *)
(* whose other side is closed, as no keep-alive comes any more.  That an   *)
(* application closes its connection some time after it has read the end   *)
(* of the data is an assumption about applications.                        *)
(***************************************************************************)
FairStreams ==
    /\ StreamsSpec
    /\ WF_allVars(HolderStep /\ KeepAlive)
    /\ SF_allVars(HolderStep /\ handshake = "init" /\ handshake' = "answered")
    /\ \A c \in Conn :
          /\ WF_allVars(Handler(c)) /\ WF_allVars(HandleStream(c))
          /\ WF_allVars(end[Client(c)].stream # "broken" /\ AcceptStream(c))
          /\ WF_allVars(end[Client(c)].stream = "broken" /\ CloseServerSession(c))
          /\ WF_allVars(end[Server(c)].stream = "broken" /\ CloseClientSession(uses[c]))
    /\ \A e \in Conn \X Side :
          /\ WF_allVars(FromApp(e)) /\ WF_allVars(ToApp(e))
          /\ WF_allVars(end[e].toApp = "done" /\ AppCloses(e))

-----------------------------------------------------------------------------
(* Properties *)

(***************************************************************************)
(* Nothing is cut off: when handle or handleStream has read the stream to  *)
(* its end while its own application is there, the goroutine that copies   *)
(* from it runs, and the sessions live, then that application has been     *)
(* given all that the other one sent.                                      *)
(***************************************************************************)
StreamComplete ==
    \A c \in Conn : \A e \in {Client(c), Server(c)} :
        /\ end[e].toApp = "done" /\ end[e].fromApp = "copy" /\ end[e].app = "open"
        /\ \A d \in {Client(c), Server(c)} : end[d].stream # "broken"
        => end[e].owed = 0

\* Something has ended: a session, an application, or the server's end of the stream.
Ended(c) ==
    /\ end[Client(c)].stream # "none"
    /\ \/ serving[c] = "returned"
       \/ \E e \in {Client(c), Server(c)} : end[e].stream = "broken" \/ end[e].app \in {"shut", "closed"}

\* Both goroutines write to a full stream, of which the other end is read no more.
Stuck(c) ==
    \A e \in {Client(c), Server(c)} :
        /\ end[e].fromApp = "copy" /\ end[e].unread > 0 /\ end[e].stream = "open"
        /\ end[e].toApp = "done" /\ end[e].buffered = StreamWindow

(***************************************************************************)
(* Nobody waits for ever: once one of the applications has ended, handle   *)
(* and handleStream return, since what one goroutine closes is what        *)
(* another one waits for.  The exception is a connection with both streams *)
(* full and both applications gone, where each end waits for the other to  *)
(* read; it lasts until the session is closed.  Then all return.           *)
(***************************************************************************)
HandlersReturn ==
    \A c \in Conn :
        LET returned == conn[c] = "idle" /\ serving[c] \in {"none", "returned"}
        IN  /\ Ended(c) ~> returned \/ Stuck(c)
            /\ end[Client(c)].stream = "broken" ~> returned
=============================================================================
