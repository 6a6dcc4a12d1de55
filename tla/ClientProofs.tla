---------------------------- MODULE ClientProofs ----------------------------
(***************************************************************************)
(* Proofs about the client: the session it keeps and its streams, what it  *)
(* does with the result of a poll, and its rate limiter, for any number of *)
(* connections and polls and any rates and thresholds.                     *)
(***************************************************************************)
EXTENDS Streams, PollResult, RateLimiter, FiniteSetTheorems, TLAPS

\* Most leaves are first-order: Zenon tries each one for two seconds before SMT does.
USE ZenonT(2), SMTT(20)

-----------------------------------------------------------------------------
(* The session and its streams *)

\* keepAlive has an attempt in hand except before a dial and between sessions.
DialledInv == keepAlive \in {"dial", "wait"} <=> dialled = NoSession

\* A session lives only once its handshake is complete.
LiveInv ==
    /\ live \subseteq {dialled}
    /\ keepAlive = "handshake" => live = {}

\* Until it is published nobody but keepAlive knows the new session.
PrivateInv ==
    keepAlive \in {"handshake", "publish"} =>
        sess # dialled /\ \A c \in Conn : uses[c] # dialled

\* Whoever holds a live session holds the one keepAlive watches.
WatchedInv ==
    /\ sess \in live => keepAlive = "watch"
    /\ \A c \in Conn : uses[c] \in live => keepAlive = "watch"

HolderIndInv ==
    /\ HolderTypeOK
    /\ OnePollingConn
    /\ DialledInv
    /\ LiveInv
    /\ PrivateInv
    /\ WatchedInv

-----------------------------------------------------------------------------

\* keepAlive starts by dialling, without any session: the invariant holds.
LEMMA InitHolderIndInv == HolderInit => HolderIndInv
BY HolderAssumption
   DEF HolderInit, HolderIndInv, HolderTypeOK, OnePollingConn, DialledInv, LiveInv, PrivateInv, WatchedInv

(***************************************************************************)
(* The steps of keepAlive: the name Dial chooses is one nobody refers to,  *)
(* and nothing is live while it is being chosen.                           *)
(***************************************************************************)
LEMMA KeepAliveIndInv ==
    ASSUME HolderIndInv, KeepAlive
    PROVE  HolderIndInv'
<1>. USE HolderAssumption
     DEF HolderIndInv, HolderTypeOK, OnePollingConn, DialledInv, LiveInv, PrivateInv, WatchedInv, connVars
<1>1. ASSUME NEW a \in Attempt, Dial(a)
      PROVE  HolderIndInv'
  BY <1>1 DEF Dial, Unused
<1>2. CASE Connect
  BY <1>2 DEF Connect
<1>3. CASE DialFails
  BY <1>3 DEF DialFails
<1>4. CASE Publish
  BY <1>4 DEF Publish
<1>5. CASE SessionEnds
  BY <1>5 DEF SessionEnds
<1>6. CASE Wait
  BY <1>6 DEF Wait
<1>. QED  BY <1>1, <1>2, <1>3, <1>4, <1>5, <1>6 DEF KeepAlive

(***************************************************************************)
(* The steps of the network, of smux and of the local connections.         *)
(***************************************************************************)
LEMMA OthersIndInv ==
    ASSUME HolderIndInv,
           Answer \/ Lose \/ (\E a \in Attempt : CloseSession(a)) \/ (\E c \in Conn : Handle(c))
    PROVE  HolderIndInv'
<1>. USE HolderAssumption
     DEF HolderIndInv, HolderTypeOK, OnePollingConn, DialledInv, LiveInv, PrivateInv, WatchedInv,
         dialVars, connVars
<1>1. CASE Answer \/ Lose
  BY <1>1 DEF Answer, Lose
<1>2. ASSUME NEW a \in Attempt, CloseSession(a)
      PROVE  HolderIndInv'
  BY <1>2 DEF CloseSession
<1>3. ASSUME NEW c \in Conn, Get(c)
      PROVE  HolderIndInv'
  BY <1>3 DEF Get
<1>4. ASSUME NEW c \in Conn, OpenStream(c)
      PROVE  HolderIndInv'
  BY <1>4 DEF OpenStream
<1>5. ASSUME NEW c \in Conn, StreamEnds(c)
      PROVE  HolderIndInv'
  BY <1>5 DEF StreamEnds
<1>. QED  BY <1>1, <1>2, <1>3, <1>4, <1>5 DEF Handle

(***************************************************************************)
(* The invariant holds in every reachable state.                           *)
(***************************************************************************)
LEMMA HolderIndInvAlways == HolderSpec => []HolderIndInv
<1>1. HolderIndInv /\ [HolderNext]_holderVars => HolderIndInv'
  <2>. SUFFICES ASSUME HolderIndInv, [HolderNext]_holderVars PROVE HolderIndInv'
    OBVIOUS
  <2>1. CASE HolderNext
    BY <2>1, KeepAliveIndInv, OthersIndInv DEF HolderNext
  <2>2. CASE UNCHANGED holderVars
    BY <2>2 DEF holderVars, dialVars, connVars, HolderIndInv, HolderTypeOK, OnePollingConn, DialledInv,
                LiveInv, PrivateInv, WatchedInv
  <2>. QED  BY <2>1, <2>2
<1>. QED  BY <1>1, InitHolderIndInv, PTL DEF HolderSpec

-----------------------------------------------------------------------------
(* Theorems *)

(***************************************************************************)
(* The variables of keepAlive, get and handle are well typed, and a        *)
(* goroutine holds a session exactly while it serves its connection.       *)
(***************************************************************************)
THEOREM HolderTypeCorrect == HolderSpec => []HolderTypeOK
BY HolderIndInvAlways, PTL DEF HolderIndInv

(***************************************************************************)
(* dialSession and keepAlive leave no PollingPacketConn behind.            *)
(***************************************************************************)
THEOREM OnePollingConnTheorem == HolderSpec => []OnePollingConn
BY HolderIndInvAlways, PTL DEF HolderIndInv

(***************************************************************************)
(* handle never copies over a session that keepAlive does not watch.       *)
(***************************************************************************)
THEOREM LiveSessionIsWatchedTheorem == HolderSpec => []LiveSessionIsWatched
<1>1. HolderIndInv => LiveSessionIsWatched
  BY DEF HolderIndInv, LiveInv, WatchedInv, LiveSessionIsWatched
<1>. QED  BY <1>1, HolderIndInvAlways, PTL

-----------------------------------------------------------------------------
(* Streams *)

End == Conn \X Side

EndRecord ==
    [app : {"none", "open", "shut", "closed"}, unread : Nat, owed : Int,
     stream : {"none", "open", "closed", "broken"}, buffered : Nat,
     fromApp : {"none", "copy", "done"}, toApp : {"none", "copy", "done"}]

\* The ends and the goroutines of the server have their types.
StreamsTypeOK ==
    /\ serving \in [Conn -> {"none", "dial", "copy", "returned"}]
    /\ end \in [End -> EndRecord]

\* Where the goroutine of a connection has no stream yet, and where that of a stream no upstream.
StartInv ==
    \A c \in Conn :
        /\ conn[c] = "open" => end[Client(c)].stream = "none"
        /\ serving[c] = "dial" =>
              end[Server(c)].stream \in {"open", "broken"} /\ end[Server(c)].fromApp # "copy"

\* Only a goroutine that copies keeps a stream open, or data in its hands.
Copies(r) ==
    /\ r.fromApp = "copy" => r.stream \in {"open", "broken"}
    /\ r.unread > 0 => r.fromApp = "copy"

\* What is owed at an end r is on its way from its peer q: before the stream or in it.
Flows(r, q) ==
    r.stream \in {"none", "open"} /\ q.stream # "broken" => r.owed = q.unread + r.buffered

\* Without a failure r reads the stream until q has closed it and nothing is left.
Reads(r, q) ==
    /\ r.toApp = "done" /\ r.fromApp = "copy" /\ r.app = "open"
    /\ r.stream # "broken" /\ q.stream # "broken"
    => q.stream = "closed" /\ r.buffered = 0

EndInv(e) == Copies(end[e]) /\ Flows(end[e], end[Peer(e)]) /\ Reads(end[e], end[Peer(e)])

StreamsInv == StreamsTypeOK /\ StartInv /\ \A e \in End : EndInv(e)

-----------------------------------------------------------------------------

\* The two ends of a connection, handle's and handleStream's, are each other's peers.
LEMMA PeerFacts ==
    /\ \A c \in Conn : /\ Client(c) \in End /\ Server(c) \in End
                      /\ Peer(Client(c)) = Server(c) /\ Peer(Server(c)) = Client(c)
                      /\ \A d \in Conn : Client(c) # Server(d) /\ (Client(c) = Client(d) => c = d)
                                         /\ (Server(c) = Server(d) => c = d)
    /\ \A e \in End : Peer(e) \in End /\ Peer(e) # e /\ Peer(Peer(e)) = e
    /\ \A e \in End : \E c \in Conn : e = Client(c) \/ e = Server(c)
BY DEF End, Side, Client, Server, Peer

\* Nothing has begun, and nobody is owed anything: the invariant holds.
LEMMA InitStreamsInv == StreamsInit => StreamsInv
BY PeerFacts
   DEF StreamsInit, HolderInit, StreamsInv, StreamsTypeOK, StartInv, EndInv, Copies, Flows, Reads,
       Fresh, End, EndRecord

\* The invariant gives an end e and its peer as records.
LEMMA EndFacts ==
    ASSUME StreamsInv, NEW e \in End
    PROVE  /\ Peer(e) \in End /\ Peer(e) # e /\ end \in [End -> EndRecord]
           /\ end[e] \in EndRecord /\ end[Peer(e)] \in EndRecord
           /\ Copies(end[e]) /\ Flows(end[e], end[Peer(e)]) /\ Reads(end[e], end[Peer(e)])
           /\ Copies(end[Peer(e)]) /\ Flows(end[Peer(e)], end[e]) /\ Reads(end[Peer(e)], end[e])
BY PeerFacts DEF StreamsInv, StreamsTypeOK, EndInv

\* What StartInv asks of a step: ends without a stream, and ends nobody copies to, stay so.
Starts(r, q) ==
    /\ r.stream = "none" => q.stream = "none"
    /\ r.stream \in {"open", "broken"} /\ r.fromApp # "copy" =>
          q.stream \in {"open", "broken"} /\ q.fromApp # "copy"

(***************************************************************************)
(* A step that changes the two ends of a connection preserves the          *)
(* invariant when the new records are consistent.                          *)
(***************************************************************************)
LEMMA TwoEnds ==
    ASSUME StreamsInv, NEW e \in End, NEW r \in EndRecord, NEW q \in EndRecord,
           end' = [end EXCEPT ![e] = r, ![Peer(e)] = q],
           Copies(r), Copies(q), Flows(r, q), Flows(q, r), Reads(r, q), Reads(q, r)
    PROVE  /\ end' \in [End -> EndRecord]
           /\ \A x \in End : EndInv(x)'
           /\ (/\ UNCHANGED <<conn, serving>>
               /\ Starts(end[e], r) /\ Starts(end[Peer(e)], q)) => StreamsInv'
<1>1. /\ end' \in [End -> EndRecord] /\ end'[e] = r /\ end'[Peer(e)] = q
      /\ \A x \in End : x # e /\ x # Peer(e) => end'[x] = end[x]
  BY PeerFacts DEF StreamsInv, StreamsTypeOK
<1>2. ASSUME NEW x \in End PROVE EndInv(x)'
  BY <1>1, PeerFacts DEF StreamsInv, EndInv
<1>3. ASSUME UNCHANGED <<conn, serving>>, Starts(end[e], r), Starts(end[Peer(e)], q)
      PROVE  StreamsInv'
  <2>1. \A x \in End : Starts(end[x], end'[x])
    BY <1>1, <1>3 DEF Starts
  <2>2. StartInv'
    BY <1>3, <2>1, PeerFacts DEF StreamsInv, StartInv, Starts
  <2>. QED  BY <1>1, <1>2, <1>3, <2>2 DEF StreamsInv, StreamsTypeOK
<1>. QED  BY <1>1, <1>2, <1>3

\* The same for a step that changes one end.
LEMMA OneEnd ==
    ASSUME StreamsInv, NEW e \in End, NEW r \in EndRecord,
           end' = [end EXCEPT ![e] = r],
           Copies(r), Flows(r, end[Peer(e)]), Flows(end[Peer(e)], r),
           Reads(r, end[Peer(e)]), Reads(end[Peer(e)], r)
    PROVE  /\ end' \in [End -> EndRecord]
           /\ \A x \in End : EndInv(x)'
           /\ UNCHANGED <<conn, serving>> /\ Starts(end[e], r) => StreamsInv'
<1>1. end' = [end EXCEPT ![e] = r, ![Peer(e)] = end[Peer(e)]]
  BY EndFacts
<1>2. Starts(end[Peer(e)], end[Peer(e)])
  BY DEF Starts
<1>. QED  BY <1>1, <1>2, EndFacts, TwoEnds

\* stream.Close leaves a record of its type, with the stream closed.
LEMMA CloseStreamFacts ==
    ASSUME NEW r \in EndRecord
    PROVE  /\ CloseStream(r) \in EndRecord
           /\ CloseStream(r).stream = IF r.stream = "broken" THEN "broken" ELSE "closed"
           /\ CloseStream(r).unread = r.unread /\ CloseStream(r).fromApp = r.fromApp
           /\ CloseStream(r).toApp = r.toApp
<1>. DEFINE t == IF r.stream = "broken" THEN "broken" ELSE "closed"
            q == [r EXCEPT !.owed = 0]
            p == [q EXCEPT !.buffered = 0]
<1>1. CloseStream(r) = [p EXCEPT !.stream = t]
  BY DEF CloseStream, EndRecord
<1>2. q \in EndRecord /\ q.unread = r.unread /\ q.fromApp = r.fromApp /\ q.toApp = r.toApp
  BY DEF EndRecord
<1>. HIDE DEF q
<1>3. p \in EndRecord /\ p.unread = r.unread /\ p.fromApp = r.fromApp /\ p.toApp = r.toApp
  BY <1>2 DEF EndRecord
<1>. HIDE DEF p
<1>. QED  BY <1>1, <1>3 DEF EndRecord

\* The same at the end of a goroutine that copies to the stream.
LEMMA EndFromAppFacts ==
    ASSUME NEW r \in EndRecord
    PROVE  /\ EndFromApp(r) \in EndRecord
           /\ EndFromApp(r).stream = IF r.stream = "broken" THEN "broken" ELSE "closed"
           /\ EndFromApp(r).unread = 0 /\ EndFromApp(r).fromApp = "done"
<1>. DEFINE q == CloseStream(r)
            p == [q EXCEPT !.fromApp = "done"]
<1>1. q \in EndRecord /\ q.stream = IF r.stream = "broken" THEN "broken" ELSE "closed"
  BY CloseStreamFacts
<1>2. EndFromApp(r) = [p EXCEPT !.unread = 0]
  BY <1>1 DEF EndFromApp, EndRecord
<1>. HIDE DEF q
<1>3. p \in EndRecord /\ p.stream = q.stream /\ p.fromApp = "done"
  BY <1>1 DEF EndRecord
<1>. HIDE DEF p
<1>. QED  BY <1>1, <1>2, <1>3 DEF EndRecord

\* The steps of an application: what it sends is owed to the other one.
LEMMA AppStreamsInv ==
    ASSUME StreamsInv, NEW e \in End, AppSends(e) \/ AppShuts(e) \/ AppCloses(e)
    PROVE  StreamsInv'
<1>0. UNCHANGED <<conn, serving>>
  BY DEF AppSends, AppShuts, AppCloses, holderVars, connVars
<1>1. CASE AppSends(e)
  <2>. DEFINE r == [end[e] EXCEPT !.unread = end[e].unread + 1]
              q == [end[Peer(e)] EXCEPT !.owed = IF Reached(Peer(e)) THEN end[Peer(e)].owed + 1
                                                                     ELSE end[Peer(e)].owed]
  <2>1. end' = [end EXCEPT ![e] = r, ![Peer(e)] = q]
    BY <1>1, EndFacts DEF AppSends
  <2>2. /\ r \in EndRecord /\ q \in EndRecord
        /\ r.unread = end[e].unread + 1 /\ q.unread = end[Peer(e)].unread
        /\ r.owed = end[e].owed
        /\ q.owed = IF Reached(Peer(e)) THEN end[Peer(e)].owed + 1 ELSE end[Peer(e)].owed
        /\ r.app = end[e].app /\ r.stream = end[e].stream /\ r.buffered = end[e].buffered
        /\ r.fromApp = end[e].fromApp /\ r.toApp = end[e].toApp
        /\ q.app = end[Peer(e)].app /\ q.stream = end[Peer(e)].stream
        /\ q.buffered = end[Peer(e)].buffered
        /\ q.fromApp = end[Peer(e)].fromApp /\ q.toApp = end[Peer(e)].toApp
    BY EndFacts DEF EndRecord
  <2>. HIDE DEF r, q
  <2>3. Copies(r) /\ Copies(q) /\ Starts(end[e], r) /\ Starts(end[Peer(e)], q)
    BY <1>1, <2>2, EndFacts DEF AppSends, Copies, Starts
  <2>4. Flows(r, q) /\ Flows(q, r)
    BY <2>2, EndFacts DEF EndRecord, Flows, Reached
  <2>5. Reads(r, q) /\ Reads(q, r)
    BY <2>2, EndFacts DEF Reads
  <2>. QED  BY <1>0, <2>1, <2>2, <2>3, <2>4, <2>5, TwoEnds
<1>2. CASE AppShuts(e) \/ AppCloses(e)
  <2>1. PICK a \in {"shut", "closed"} : end' = [end EXCEPT ![e] = [end[e] EXCEPT !.app = a]]
    BY <1>2 DEF AppShuts, AppCloses
  <2>. DEFINE r == [end[e] EXCEPT !.app = a]
  <2>2. r \in EndRecord
    BY EndFacts DEF EndRecord
  <2>3. /\ Copies(r) /\ Flows(r, end[Peer(e)]) /\ Flows(end[Peer(e)], r)
        /\ Reads(r, end[Peer(e)]) /\ Reads(end[Peer(e)], r) /\ Starts(end[e], r)
    BY EndFacts DEF EndRecord, Copies, Flows, Reads, Starts
  <2>. HIDE DEF r
  <2>. QED  BY <1>0, <2>1, <2>2, <2>3, OneEnd DEF r
<1>. QED  BY <1>1, <1>2

\* The goroutine that copies to the stream: data moves on, and what it cannot move is owed to nobody.
LEMMA FromAppStreamsInv ==
    ASSUME StreamsInv, NEW e \in End, FromApp(e)
    PROVE  StreamsInv'
<1>0. UNCHANGED <<conn, serving>> /\ end[e].fromApp = "copy"
  BY DEF FromApp, Forward, ForwardFails, AppEnded, holderVars, connVars
<1>1. CASE Forward(e) /\ Reached(Peer(e))
  <2>. DEFINE r == [end[e] EXCEPT !.unread = end[e].unread - 1]
              q == [end[Peer(e)] EXCEPT !.buffered = end[Peer(e)].buffered + 1]
  <2>1. end' = [end EXCEPT ![e] = r, ![Peer(e)] = q]
    BY <1>1, EndFacts DEF Forward
  <2>2. /\ r \in EndRecord /\ q \in EndRecord
        /\ r.unread = end[e].unread - 1 /\ q.unread = end[Peer(e)].unread
        /\ r.owed = end[e].owed /\ q.owed = end[Peer(e)].owed
        /\ r.app = end[e].app /\ r.stream = end[e].stream /\ r.buffered = end[e].buffered
        /\ r.fromApp = end[e].fromApp /\ r.toApp = end[e].toApp
        /\ q.app = end[Peer(e)].app /\ q.stream = end[Peer(e)].stream
        /\ q.buffered = end[Peer(e)].buffered + 1
        /\ q.fromApp = end[Peer(e)].fromApp /\ q.toApp = end[Peer(e)].toApp
    BY <1>1, EndFacts DEF Forward, EndRecord
  <2>. HIDE DEF r, q
  <2>3. Copies(r) /\ Copies(q) /\ Starts(end[e], r) /\ Starts(end[Peer(e)], q)
    BY <1>0, <2>2, EndFacts DEF Copies, Starts
  <2>4. Flows(r, q) /\ Flows(q, r)
    BY <2>2, EndFacts DEF EndRecord, Flows
  <2>5. Reads(r, q) /\ Reads(q, r)
    BY <1>1, <2>2, EndFacts DEF Reads, Forward, Reached
  <2>. QED  BY <1>0, <2>1, <2>2, <2>3, <2>4, <2>5, TwoEnds
<1>2. CASE Forward(e) /\ ~ Reached(Peer(e))
  <2>. DEFINE r == [end[e] EXCEPT !.unread = end[e].unread - 1]
  <2>1. end' = [end EXCEPT ![e] = r]
    BY <1>2, EndFacts DEF Forward
  <2>2. r \in EndRecord
    BY <1>2, EndFacts DEF Forward, EndRecord
  <2>3. /\ Copies(r) /\ Flows(r, end[Peer(e)]) /\ Flows(end[Peer(e)], r)
        /\ Reads(r, end[Peer(e)]) /\ Reads(end[Peer(e)], r) /\ Starts(end[e], r)
    BY <1>0, <1>2, EndFacts DEF EndRecord, Copies, Flows, Reads, Starts, Reached
  <2>. HIDE DEF r
  <2>. QED  BY <1>0, <2>1, <2>2, <2>3, OneEnd
<1>3. CASE ForwardFails(e) \/ AppEnded(e)
  <2>. DEFINE r == EndFromApp(end[e])
  <2>1. end' = [end EXCEPT ![e] = r]
    BY <1>3 DEF ForwardFails, AppEnded
  <2>2. /\ r \in EndRecord /\ r.unread = 0 /\ r.fromApp = "done"
        /\ r.stream = IF end[e].stream = "broken" THEN "broken" ELSE "closed"
    BY EndFacts, EndFromAppFacts
  <2>3. \/ end[e].stream = "broken" \/ end[Peer(e)].stream = "closed"
        \/ end[e].unread = 0
    BY <1>3 DEF ForwardFails, AppEnded
  <2>. HIDE DEF r
  <2>4. Copies(r) /\ Starts(end[e], r) /\ Reads(r, end[Peer(e)]) /\ Flows(r, end[Peer(e)])
    BY <1>0, <2>2, EndFacts DEF Copies, Starts, Reads, Flows
  <2>5. Flows(end[Peer(e)], r) /\ Reads(end[Peer(e)], r)
    BY <2>2, <2>3, EndFacts DEF Flows, Reads
  <2>. QED  BY <1>0, <2>1, <2>2, <2>4, <2>5, OneEnd
<1>. QED  BY <1>1, <1>2, <1>3 DEF FromApp

\* The goroutine that copies to the application ends only when all that came has been given.
LEMMA ToAppStreamsInv ==
    ASSUME StreamsInv, NEW e \in End, ToApp(e)
    PROVE  StreamsInv'
<1>0. UNCHANGED <<conn, serving>> /\ end[e].toApp = "copy"
  BY DEF ToApp, Deliver, DeliverEnds, holderVars, connVars
<1>1. CASE Deliver(e)
  <2>. DEFINE r == [end[e] EXCEPT !.buffered = end[e].buffered - 1, !.owed = end[e].owed - 1]
  <2>1. end' = [end EXCEPT ![e] = r]
    BY <1>1, EndFacts DEF Deliver
  <2>2. /\ r \in EndRecord /\ r.buffered = end[e].buffered - 1 /\ r.owed = end[e].owed - 1
        /\ r.unread = end[e].unread /\ r.stream = end[e].stream
        /\ r.fromApp = end[e].fromApp /\ r.toApp = "copy"
    BY <1>0, <1>1, EndFacts DEF Deliver, EndRecord
  <2>. HIDE DEF r
  <2>3. Copies(r) /\ Starts(end[e], r) /\ Reads(r, end[Peer(e)]) /\ Reads(end[Peer(e)], r)
    BY <2>2, EndFacts DEF Copies, Starts, Reads
  <2>4. Flows(r, end[Peer(e)]) /\ Flows(end[Peer(e)], r)
    BY <2>2, EndFacts DEF EndRecord, Flows
  <2>. QED  BY <1>0, <2>1, <2>2, <2>3, <2>4, OneEnd
<1>2. CASE DeliverEnds(e)
  <2>. DEFINE r == [end[e] EXCEPT !.toApp = "done"]
  <2>1. end' = [end EXCEPT ![e] = r]
    BY <1>2, EndFacts DEF DeliverEnds
  <2>2. /\ r \in EndRecord /\ r.buffered = end[e].buffered /\ r.owed = end[e].owed
        /\ r.unread = end[e].unread /\ r.stream = end[e].stream /\ r.app = end[e].app
        /\ r.fromApp = end[e].fromApp
    BY EndFacts DEF EndRecord
  <2>. HIDE DEF r
  <2>3. Copies(r) /\ Starts(end[e], r) /\ Reads(end[Peer(e)], r)
    BY <2>2, EndFacts DEF Copies, Starts, Reads
  <2>4. Flows(r, end[Peer(e)]) /\ Flows(end[Peer(e)], r)
    BY <2>2, EndFacts DEF Flows
  <2>5. \/ end[e].stream \in {"closed", "broken"}
        \/ end[Peer(e)].stream = "closed" /\ end[e].buffered = 0
        \/ end[e].app = "closed"
    BY <1>2 DEF DeliverEnds
  <2>6. Reads(r, end[Peer(e)])
    <3>1. end[e].fromApp = "copy" => end[e].stream \in {"open", "broken"}
      BY EndFacts DEF Copies
    <3>. QED  BY <2>2, <2>5, <3>1 DEF Reads
  <2>. QED  BY <1>0, <2>1, <2>2, <2>3, <2>4, <2>6, OneEnd
<1>. QED  BY <1>1, <1>2 DEF ToApp

\* Sessions of smux close, on either side, and the streams over them are broken.
LEMMA BreaksStreamsInv ==
    ASSUME StreamsInv, UNCHANGED <<conn, serving>>,
           end' \in [End -> EndRecord],
           \A x \in End : end'[x] = end[x] \/ end'[x] = Broken(end[x]),
           \A c \in Conn : conn[c] = "open" => end'[Client(c)] = end[Client(c)]
    PROVE  StreamsInv'
<1>1. ASSUME NEW r \in EndRecord
      PROVE  /\ Broken(r).stream = IF r.stream \in {"none", "open"} THEN "broken" ELSE r.stream
             /\ Broken(r).app = r.app /\ Broken(r).unread = r.unread
             /\ Broken(r).owed = r.owed /\ Broken(r).buffered = r.buffered
             /\ Broken(r).fromApp = r.fromApp /\ Broken(r).toApp = r.toApp
  BY DEF Broken, EndRecord
<1>2. \A x \in End :
         /\ end'[x].stream # end[x].stream => end'[x].stream = "broken" /\ Reached(x)
         /\ end'[x].app = end[x].app /\ end'[x].unread = end[x].unread
         /\ end'[x].owed = end[x].owed /\ end'[x].buffered = end[x].buffered
         /\ end'[x].fromApp = end[x].fromApp /\ end'[x].toApp = end[x].toApp
  BY <1>1, EndFacts DEF Reached
<1>3. ASSUME NEW x \in End PROVE EndInv(x)'
  <2>1. Copies(end[x])'
    BY <1>2, EndFacts DEF Copies
  <2>2. Flows(end[x], end[Peer(x)])'
    BY <1>2, EndFacts, PeerFacts DEF Flows
  <2>3. Reads(end[x], end[Peer(x)])'
    BY <1>2, EndFacts, PeerFacts DEF Reads
  <2>. QED  BY <2>1, <2>2, <2>3 DEF EndInv
<1>4. StartInv'
  BY <1>2, PeerFacts DEF StreamsInv, StartInv
<1>. QED  BY <1>3, <1>4 DEF StreamsInv, StreamsTypeOK

\* The steps in which a session is closed.
LEMMA SessionStreamsInv ==
    ASSUME StreamsInv,
           (\E a \in Attempt : CloseClientSession(a)) \/ (\E c \in Conn : CloseServerSession(c))
    PROVE  StreamsInv'
<1>0. \A r \in EndRecord : Broken(r) \in EndRecord
  BY DEF Broken, EndRecord
<1>1. ASSUME NEW a \in Attempt, CloseClientSession(a)
      PROVE  StreamsInv'
  <2>1. UNCHANGED <<conn, serving>>
    BY <1>1 DEF CloseClientSession, CloseSession
  <2>2. end' = [e \in End |-> IF e[2] = "client" /\ conn[e[1]] = "stream" /\ uses[e[1]] = a
                              THEN Broken(end[e]) ELSE end[e]]
    BY <1>1 DEF CloseClientSession, End
  <2>3. \A c \in Conn : Client(c)[1] = c
    BY DEF Client
  <2>4. end' \in [End -> EndRecord]
    BY <1>0, <2>2 DEF StreamsInv, StreamsTypeOK
  <2>5. \A c \in Conn : conn[c] = "open" => end'[Client(c)] = end[Client(c)]
    BY <2>2, <2>3, PeerFacts
  <2>. QED  BY <2>1, <2>2, <2>4, <2>5, BreaksStreamsInv
<1>2. ASSUME NEW c \in Conn, CloseServerSession(c)
      PROVE  StreamsInv'
  <2>1. UNCHANGED <<conn, serving>> /\ end' = [end EXCEPT ![Server(c)] = Broken(end[Server(c)])]
    BY <1>2 DEF CloseServerSession, holderVars, connVars
  <2>2. end' \in [End -> EndRecord]
    BY <1>0, <2>1, PeerFacts DEF StreamsInv, StreamsTypeOK
  <2>3. \A x \in End : end'[x] = end[x] \/ end'[x] = Broken(end[x])
    BY <2>1 DEF StreamsInv, StreamsTypeOK
  <2>4. \A d \in Conn : end'[Client(d)] = end[Client(d)]
    BY <1>2, <2>1, PeerFacts DEF StreamsInv, StreamsTypeOK
  <2>. QED  BY <2>1, <2>2, <2>3, <2>4, BreaksStreamsInv
<1>. QED  BY <1>1, <1>2

\* What remains of an end when its handler has returned.
LEMMA ReturnedFacts ==
    ASSUME NEW r \in EndRecord
    PROVE  /\ Returned(r) \in EndRecord
           /\ Returned(r).stream = IF r.stream = "broken" THEN "broken" ELSE "closed"
           /\ Returned(r).unread = 0 /\ Returned(r).fromApp = "none"
<1>. DEFINE t == CloseStream(r).stream
            q == [Fresh EXCEPT !.app = "closed"]
<1>1. Returned(r) = [q EXCEPT !.stream = t]
  BY DEF Returned, Fresh
<1>2. q \in EndRecord /\ q.unread = 0 /\ q.fromApp = "none"
  BY DEF Fresh, EndRecord
<1>3. t = IF r.stream = "broken" THEN "broken" ELSE "closed"
  BY CloseStreamFacts
<1>. HIDE DEF q, t
<1>. QED  BY <1>1, <1>2, <1>3 DEF EndRecord

\* An end that starts to copy over the stream it has, or a new one.
LEMMA CopyingFacts ==
    ASSUME NEW r \in EndRecord
    PROVE  /\ Copying(r) \in EndRecord
           /\ Copying(r).stream = IF r.stream = "none" THEN "open" ELSE r.stream
           /\ Copying(r).fromApp = "copy" /\ Copying(r).toApp = "copy"
           /\ Copying(r).unread = r.unread /\ Copying(r).owed = r.owed
           /\ Copying(r).buffered = r.buffered
<1>. DEFINE t == IF r.stream = "none" THEN "open" ELSE r.stream
            q == [r EXCEPT !.app = "open", !.fromApp = "copy"]
            p == [q EXCEPT !.toApp = "copy"]
<1>1. Copying(r) = [p EXCEPT !.stream = t]
  BY DEF Copying, EndRecord
<1>2. /\ q \in EndRecord /\ q.unread = r.unread /\ q.owed = r.owed
      /\ q.buffered = r.buffered /\ q.fromApp = "copy"
  BY DEF EndRecord
<1>. HIDE DEF q
<1>3. /\ p \in EndRecord /\ p.unread = r.unread /\ p.owed = r.owed
      /\ p.buffered = r.buffered /\ p.fromApp = "copy" /\ p.toApp = "copy"
  BY <1>2 DEF EndRecord
<1>4. t \in {"none", "open", "closed", "broken"}
  BY DEF EndRecord
<1>. HIDE DEF p, t
<1>5. /\ Copying(r) \in EndRecord /\ Copying(r).stream = t
      /\ Copying(r).fromApp = "copy" /\ Copying(r).toApp = "copy"
      /\ Copying(r).unread = r.unread /\ Copying(r).owed = r.owed
      /\ Copying(r).buffered = r.buffered
  BY <1>1, <1>3, <1>4 DEF EndRecord
<1>. QED  BY <1>5 DEF t

\* A step that starts the copying at an end with a stream that is not closed.
LEMMA CopyingStreamsInv ==
    ASSUME StreamsInv, NEW e \in End, end[e].stream # "closed",
           end' = [end EXCEPT ![e] = Copying(end[e])]
    PROVE  end' \in [End -> EndRecord] /\ \A x \in End : EndInv(x)'
<1>. DEFINE r == Copying(end[e])
<1>1. /\ r \in EndRecord /\ r.stream = IF end[e].stream = "none" THEN "open" ELSE end[e].stream
      /\ r.fromApp = "copy" /\ r.toApp = "copy" /\ r.unread = end[e].unread
      /\ r.owed = end[e].owed /\ r.buffered = end[e].buffered
  BY EndFacts, CopyingFacts
<1>2. end[e].stream \in {"none", "open", "broken"}
  BY EndFacts DEF EndRecord
<1>. HIDE DEF r
<1>3. Copies(r) /\ Reads(r, end[Peer(e)]) /\ Reads(end[Peer(e)], r)
  BY <1>1, <1>2, EndFacts DEF Copies, Reads
<1>4. Flows(r, end[Peer(e)]) /\ Flows(end[Peer(e)], r)
  BY <1>1, <1>2, EndFacts DEF Flows
<1>. QED  BY <1>1, <1>3, <1>4, OneEnd DEF r

\* A step that closes a stream which nobody copies to any more.
LEMMA ClosedStreamsInv ==
    ASSUME StreamsInv, NEW e \in End, end[e].fromApp # "copy",
           NEW r \in EndRecord, end' = [end EXCEPT ![e] = r],
           r.stream = IF end[e].stream = "broken" THEN "broken" ELSE "closed",
           r.unread = 0, r.fromApp # "copy"
    PROVE  end' \in [End -> EndRecord] /\ \A x \in End : EndInv(x)'
<1>1. end[e].unread = 0
  BY EndFacts DEF Copies, EndRecord
<1>2. Copies(r) /\ Reads(r, end[Peer(e)]) /\ Reads(end[Peer(e)], r)
  BY EndFacts DEF Copies, Reads
<1>3. Flows(r, end[Peer(e)]) /\ Flows(end[Peer(e)], r)
  BY <1>1, EndFacts DEF Flows
<1>. QED  BY <1>2, <1>3, OneEnd

\* Steps of the holder, of handle and of handleStream; get and OpenStream are the holder's.
LEMMA HandlersStreamsInv ==
    ASSUME StreamsInv, HolderTypeOK,
           HolderStep \/ (\E c \in Conn : Handler(c) \/ AcceptStream(c) \/ HandleStream(c))
    PROVE  StreamsInv'
<1>0. /\ serving \in [Conn -> {"none", "dial", "copy", "returned"}]
      /\ conn \in [Conn -> {"idle", "open", "stream"}]
      /\ end \in [End -> EndRecord] /\ StartInv
      /\ \A c \in Conn : Client(c) \in End /\ Server(c) \in End
      /\ \A c, d \in Conn : Client(c) # Server(d) /\ (Server(c) = Server(d) => c = d)
                                                  /\ (Client(c) = Client(d) => c = d)
  BY PeerFacts DEF StreamsInv, StreamsTypeOK, HolderTypeOK
<1>1. CASE HolderStep
  <2>1. UNCHANGED streamVars /\ \A c \in Conn : conn'[c] # conn[c] => end[Client(c)].stream = "none"
    BY <1>0, <1>1 DEF HolderStep, KeepAlive, Dial, Connect, DialFails, Publish, SessionEnds, Wait,
                      Answer, Lose, Get, connVars
  <2>. QED  BY <1>0, <2>1 DEF StreamsInv, StreamsTypeOK, StartInv, EndInv, streamVars
<1>2. ASSUME NEW c \in Conn, BeginStream(c)
      PROVE  StreamsInv'
  <2>1. /\ UNCHANGED serving /\ conn[c] = "open" /\ end[Client(c)].stream = "none"
        /\ conn' \in [Conn -> {"idle", "open", "stream"}]
        /\ \A d \in Conn : conn'[d] = "open" => conn[d] = "open" /\ d # c
    BY <1>0, <1>2 DEF BeginStream, OpenStream, StartInv
  <2>2. CASE end' = end
    BY <1>0, <2>1, <2>2 DEF StreamsInv, StreamsTypeOK, StartInv, EndInv
  <2>3. CASE end' = [end EXCEPT ![Client(c)] = Copying(end[Client(c)])]
    <3>1. end' \in [End -> EndRecord] /\ \A x \in End : EndInv(x)'
      BY <1>0, <2>1, <2>3, CopyingStreamsInv
    <3>2. StartInv'
      BY <1>0, <2>1, <2>3 DEF StartInv
    <3>. QED  BY <1>0, <2>1, <3>1, <3>2 DEF StreamsInv, StreamsTypeOK
  <2>. QED  BY <1>2, <2>2, <2>3 DEF BeginStream
<1>3. ASSUME NEW c \in Conn, HandleReturns(c)
      PROVE  StreamsInv'
  <2>. DEFINE r == Returned(end[Client(c)])
  <2>1. /\ UNCHANGED serving /\ end[Client(c)].fromApp = "done"
        /\ end' = [end EXCEPT ![Client(c)] = r]
        /\ \A d \in Conn : conn'[d] = "open" => conn[d] = "open" /\ d # c
    BY <1>0, <1>3 DEF HandleReturns, Done, StreamEnds
  <2>2. /\ r \in EndRecord /\ r.unread = 0 /\ r.fromApp = "none"
        /\ r.stream = IF end[Client(c)].stream = "broken" THEN "broken" ELSE "closed"
    BY <1>0, ReturnedFacts
  <2>. HIDE DEF r
  <2>3. end' \in [End -> EndRecord] /\ \A x \in End : EndInv(x)'
    BY <1>0, <2>1, <2>2, ClosedStreamsInv
  <2>4. StartInv'
    BY <1>0, <2>1 DEF StartInv
  <2>. QED  BY <1>0, <2>1, <2>3, <2>4 DEF StreamsInv, StreamsTypeOK
<1>4. ASSUME NEW c \in Conn, AcceptStream(c)
      PROVE  StreamsInv'
  <2>. DEFINE r == [end[Server(c)] EXCEPT !.stream = "open"]
  <2>1. /\ conn' = conn /\ serving' = [serving EXCEPT ![c] = "dial"]
        /\ end[Server(c)].stream = "none" /\ end' = [end EXCEPT ![Server(c)] = r]
    BY <1>0, <1>4 DEF AcceptStream, holderVars, connVars
  <2>2. /\ r \in EndRecord /\ r.stream = "open" /\ r.fromApp # "copy"
        /\ Copies(r) /\ Flows(r, end[Peer(Server(c))]) /\ Flows(end[Peer(Server(c))], r)
        /\ Reads(r, end[Peer(Server(c))]) /\ Reads(end[Peer(Server(c))], r)
    BY <1>0, <2>1, EndFacts DEF EndRecord, Copies, Flows, Reads
  <2>. HIDE DEF r
  <2>3. end' \in [End -> EndRecord] /\ \A x \in End : EndInv(x)'
    BY <1>0, <2>1, <2>2, OneEnd
  <2>4. StartInv'
    BY <1>0, <2>1, <2>2 DEF StartInv
  <2>. QED  BY <1>0, <2>1, <2>3, <2>4 DEF StreamsInv, StreamsTypeOK
<1>5. ASSUME NEW c \in Conn, DialUpstream(c)
      PROVE  StreamsInv'
  <2>1. /\ conn' = conn /\ serving[c] = "dial"
        /\ end[Server(c)].stream # "closed" /\ end[Server(c)].fromApp # "copy"
    BY <1>0, <1>5 DEF DialUpstream, StartInv, holderVars, connVars
  <2>2. CASE /\ serving' = [serving EXCEPT ![c] = "copy"]
             /\ end' = [end EXCEPT ![Server(c)] = Copying(end[Server(c)])]
    <3>1. end' \in [End -> EndRecord] /\ \A x \in End : EndInv(x)'
      BY <1>0, <2>1, <2>2, CopyingStreamsInv
    <3>2. StartInv'
      BY <1>0, <2>1, <2>2 DEF StartInv
    <3>. QED  BY <1>0, <2>2, <3>1, <3>2 DEF StreamsInv, StreamsTypeOK
  <2>3. CASE /\ serving' = [serving EXCEPT ![c] = "returned"]
             /\ end' = [end EXCEPT ![Server(c)] = CloseStream(end[Server(c)])]
    <3>1. end[Server(c)].unread = 0
      <4>1. end[Server(c)] \in EndRecord /\ Copies(end[Server(c)])
        BY <1>0, EndFacts
      <4>. QED  BY <2>1, <4>1 DEF Copies, EndRecord
    <3>2. end' \in [End -> EndRecord] /\ \A x \in End : EndInv(x)'
      BY <1>0, <2>1, <2>3, <3>1, CloseStreamFacts, ClosedStreamsInv
    <3>3. StartInv'
      BY <1>0, <2>1, <2>3 DEF StartInv
    <3>. QED  BY <1>0, <2>3, <3>2, <3>3 DEF StreamsInv, StreamsTypeOK
  <2>. QED  BY <1>5, <2>2, <2>3 DEF DialUpstream
<1>6. ASSUME NEW c \in Conn, HandleStreamReturns(c)
      PROVE  StreamsInv'
  <2>. DEFINE r == Returned(end[Server(c)])
  <2>1. /\ conn' = conn /\ serving' = [serving EXCEPT ![c] = "returned"]
        /\ end[Server(c)].fromApp = "done" /\ end' = [end EXCEPT ![Server(c)] = r]
    BY <1>0, <1>6 DEF HandleStreamReturns, Done, holderVars, connVars
  <2>2. /\ r \in EndRecord /\ r.unread = 0 /\ r.fromApp = "none"
        /\ r.stream = IF end[Server(c)].stream = "broken" THEN "broken" ELSE "closed"
    BY <1>0, ReturnedFacts
  <2>. HIDE DEF r
  <2>3. end' \in [End -> EndRecord] /\ \A x \in End : EndInv(x)'
    BY <1>0, <2>1, <2>2, ClosedStreamsInv
  <2>4. StartInv'
    BY <1>0, <2>1 DEF StartInv
  <2>. QED  BY <1>0, <2>1, <2>3, <2>4 DEF StreamsInv, StreamsTypeOK
<1>. QED  BY <1>1, <1>2, <1>3, <1>4, <1>5, <1>6 DEF Handler, HandleStream

(***************************************************************************)
(* With what runs over its sessions the holder does what it does alone.    *)
(***************************************************************************)
LEMMA StreamsStep == [StreamsNext]_allVars => [HolderNext]_holderVars
<1>1. ASSUME HolderStep PROVE [HolderNext]_holderVars
  BY <1>1 DEF HolderStep, HolderNext, Handle
<1>2. ASSUME NEW a \in Attempt, CloseClientSession(a) PROVE [HolderNext]_holderVars
  BY <1>2 DEF CloseClientSession, HolderNext
<1>3. ASSUME NEW c \in Conn,
             Handler(c) \/ AcceptStream(c) \/ HandleStream(c) \/ CloseServerSession(c)
      PROVE  [HolderNext]_holderVars
  BY <1>3 DEF Handler, BeginStream, HandleReturns, AcceptStream, HandleStream, DialUpstream,
              HandleStreamReturns, CloseServerSession, HolderNext, Handle
<1>4. ASSUME NEW e \in Conn \X Side,
             FromApp(e) \/ ToApp(e) \/ AppSends(e) \/ AppShuts(e) \/ AppCloses(e)
      PROVE  [HolderNext]_holderVars
  BY <1>4 DEF FromApp, Forward, ForwardFails, AppEnded, ToApp, Deliver, DeliverEnds,
              AppSends, AppShuts, AppCloses
<1>. QED  BY <1>1, <1>2, <1>3, <1>4 DEF StreamsNext, allVars

(***************************************************************************)
(* The composition implements the session holder: what handle and          *)
(* handleStream do over a session are steps of SessionHolder or none, so   *)
(* what is proved of the holder holds while streams run over its sessions. *)
(***************************************************************************)
THEOREM StreamsImplementHolder == StreamsSpec => HolderSpec
<1>1. StreamsInit => HolderInit
  BY DEF StreamsInit
<1>. QED  BY <1>1, StreamsStep, PTL DEF StreamsSpec, HolderSpec

\* The invariant of the streams holds in every reachable state.
LEMMA StreamsInvAlways == StreamsSpec => []StreamsInv
<1>1. StreamsInv /\ HolderIndInv /\ [StreamsNext]_allVars => StreamsInv'
  <2>. SUFFICES ASSUME StreamsInv, HolderIndInv, [StreamsNext]_allVars PROVE StreamsInv'
    OBVIOUS
  <2>1. CASE StreamsNext
    <3>1. \A e \in Conn \X Side :
             FromApp(e) \/ ToApp(e) \/ AppSends(e) \/ AppShuts(e) \/ AppCloses(e) => StreamsInv'
      BY FromAppStreamsInv, ToAppStreamsInv, AppStreamsInv DEF End
    <3>. QED  BY <2>1, <3>1, HandlersStreamsInv, SessionStreamsInv DEF StreamsNext, HolderIndInv
  <2>2. CASE UNCHANGED allVars
    BY <2>2 DEF allVars, streamVars, holderVars, connVars, StreamsInv, StreamsTypeOK, StartInv, EndInv
  <2>. QED  BY <2>1, <2>2
<1>. QED  BY <1>1, InitStreamsInv, HolderIndInvAlways, StreamsImplementHolder, PTL DEF StreamsSpec

(***************************************************************************)
(* io.Copy, CloseWrite and stream.Close cut nothing off: an application    *)
(* that is still there when its stream ends was given everything, for      *)
(* buffers of any size and any number of connections.                      *)
(***************************************************************************)
THEOREM StreamCompleteTheorem == StreamsSpec => []StreamComplete
<1>1. StreamsInv => StreamComplete
  <2>. SUFFICES ASSUME StreamsInv, NEW c \in Conn, NEW e \in {Client(c), Server(c)},
                       end[e].toApp = "done", end[e].fromApp = "copy", end[e].app = "open",
                       \A d \in {Client(c), Server(c)} : end[d].stream # "broken"
                PROVE  end[e].owed = 0
    BY DEF StreamComplete
  <2>1. e \in End /\ Peer(e) \in {Client(c), Server(c)}
    BY PeerFacts
  <2>2. end[Peer(e)].stream = "closed" /\ end[e].buffered = 0 /\ end[e].stream = "open"
    BY <2>1, EndFacts DEF Reads, Copies
  <2>3. end[Peer(e)].unread = 0
    BY <2>1, <2>2, EndFacts DEF Copies, EndRecord
  <2>. QED  BY <2>1, <2>2, <2>3, EndFacts DEF Flows
<1>. QED  BY <1>1, StreamsInvAlways, PTL

-----------------------------------------------------------------------------
(* The result of a poll *)

\* The streak RecordSuccess counts is made of polls that succeeded since the last quota error.
StreakInv == consecSuccesses <= okPolls

QuotaInv == TypeOK /\ StreakInv /\ BackoffDoubles

RotorInv == Rotor!TypeOK /\ CurrentBelowThreshold

\* Polls in flight that did not go through the current cache.
OtherPolls == {g \in Poll : poll[g] # None /\ poll[g] # curCache}

(***************************************************************************)
(* The errors of other caches' polls that are counted against the current  *)
(* cache, and those that can still come, are fewer than the polls that can *)
(* be in flight: one poll ended for the rotation that made the cache       *)
(* current.                                                                *)
(***************************************************************************)
ForeignInv ==
    Poll # {} => errCount[curCache] - own + Cardinality(OtherPolls) <= Cardinality(Poll) - 1

IndInv ==
    /\ QuotaInv
    /\ RotorInv
    /\ ForeignInv
    /\ told \in [Poll -> {"nothing", "error", "success"}]

-----------------------------------------------------------------------------
(* QuotaManager *)

\* A new QuotaManager satisfies its invariant.
LEMMA QuotaInitInv == Init => QuotaInv
BY QuotaAssumption DEF Init, QuotaInv, TypeOK, StreakInv, BackoffDoubles

(***************************************************************************)
(* Entering slow mode keeps the durations a chain of doublings.            *)
(***************************************************************************)
LEMMA ActivateDoubles ==
    ASSUME TypeOK, BackoffDoubles, Activate
    PROVE  BackoffDoubles' /\ backoffDur' \in BackoffInit .. BackoffMax
<1>. USE QuotaAssumption
<1>1. backoffDur' = AtMost(2 * backoffDur, BackoffMax) /\ activations' = activations \cup {backoffDur}
  BY DEF Activate
<1>2. backoffDur' \in BackoffInit .. BackoffMax /\ backoffDur <= backoffDur'
  BY <1>1 DEF TypeOK, AtMost
<1>3. ASSUME NEW d \in activations'
      PROVE  AtMost(2 * d, BackoffMax) \in activations' \cup {backoffDur'} /\ d <= backoffDur'
  <2>1. CASE d = backoffDur
    BY <2>1, <1>1, <1>2
  <2>2. CASE d \in activations
    <3>1. AtMost(2 * d, BackoffMax) \in activations \cup {backoffDur} /\ d <= backoffDur
      BY <2>2 DEF BackoffDoubles
    <3>. QED  BY <3>1, <2>2, <1>1, <1>2 DEF TypeOK
  <2>. QED  BY <2>1, <2>2, <1>1
<1>. QED  BY <1>1, <1>2, <1>3 DEF BackoffDoubles

(***************************************************************************)
(* Every method of the quota manager, and time, keep the invariant.        *)
(***************************************************************************)
LEMMA QuotaStepInv ==
    ASSUME QuotaInv, [Next]_vars
    PROVE  QuotaInv'
<1>. USE QuotaAssumption DEF QuotaInv
<1>1. CASE RecordQuotaError
  <2>1. CASE Activate
    <3>1. BackoffDoubles' /\ backoffDur' \in BackoffInit .. BackoffMax
      BY <2>1, ActivateDoubles
    <3>2. TypeOK'
      BY <1>1, <2>1, <3>1 DEF RecordQuotaError, Activate, TypeOK
    <3>3. StreakInv'
      BY <1>1 DEF RecordQuotaError, StreakInv
    <3>. QED  BY <3>1, <3>2, <3>3
  <2>2. CASE UNCHANGED <<backoffDur, slowLeft, sinceActivate, activations>>
                /\ consecErrors' \in 0 .. ErrThreshold - 1
    BY <1>1, <2>2 DEF RecordQuotaError, TypeOK, StreakInv, BackoffDoubles
  <2>. QED  BY <1>1, <2>1, <2>2 DEF RecordQuotaError, TypeOK
<1>2. CASE RecordSuccess
  <2>1. TypeOK'
    <3>1. consecErrors' \in 0 .. ErrThreshold - 1 /\ consecSuccesses' \in 0 .. ExitSuccesses - 1
      BY <1>2 DEF RecordSuccess, TypeOK
    <3>2. backoffDur' \in BackoffInit .. BackoffMax /\ slowLeft' \in -1 .. BackoffMax \cup {None}
      BY <1>2 DEF RecordSuccess, TypeOK
    <3>3. activations' \subseteq BackoffInit .. BackoffMax /\ sinceActivate' \in 0 .. CoolBetween
      BY <1>2 DEF RecordSuccess, TypeOK
    <3>4. okPolls' \in 0 .. ExitSuccesses
      BY <1>2 DEF RecordSuccess, TypeOK, UpTo
    <3>. QED  BY <3>1, <3>2, <3>3, <3>4 DEF TypeOK
  <2>2. StreakInv'
    BY <1>2 DEF RecordSuccess, TypeOK, StreakInv, UpTo
  <2>3. BackoffDoubles'
    BY <1>2 DEF RecordSuccess, BackoffDoubles
  <2>. QED  BY <2>1, <2>2, <2>3
<1>3. CASE IsSlowMode
  BY <1>3 DEF IsSlowMode, TypeOK, StreakInv, BackoffDoubles, histVars
<1>4. CASE Tick
  BY <1>4 DEF Tick, TypeOK, StreakInv, BackoffDoubles, histVars, UpTo, Elapsed
<1>5. CASE UNCHANGED vars
  BY <1>5 DEF vars, histVars, TypeOK, StreakInv, BackoffDoubles
<1>. QED  BY <1>1, <1>2, <1>3, <1>4, <1>5 DEF Next

(***************************************************************************)
(* Slow mode ends early only in RecordSuccess, at the end of a streak.     *)
(***************************************************************************)
LEMMA EarlyExitStep ==
    ASSUME QuotaInv, [Next]_vars, EarlyExit
    PROVE  okPolls' = ExitSuccesses
<1>. USE QuotaAssumption DEF QuotaInv, EarlyExit, SlowMode
<1>1. CASE RecordQuotaError
  BY <1>1 DEF RecordQuotaError, Activate, TypeOK
<1>2. CASE RecordSuccess
  BY <1>2 DEF RecordSuccess, TypeOK, StreakInv, UpTo
<1>3. CASE IsSlowMode \/ Tick \/ UNCHANGED vars
  BY <1>3 DEF IsSlowMode, Tick, vars, Elapsed, TypeOK
<1>. QED  BY <1>1, <1>2, <1>3 DEF Next

(***************************************************************************)
(* While slow mode lasts no step gives it more time.                       *)
(***************************************************************************)
LEMMA NotProlongedStep ==
    ASSUME QuotaInv, [Next]_vars, SlowMode, slowLeft > 0
    PROVE  slowLeft' = None \/ slowLeft' <= slowLeft
<1>. USE QuotaAssumption DEF QuotaInv, SlowMode
<1>1. CASE RecordQuotaError
  BY <1>1 DEF RecordQuotaError, Before, TypeOK
<1>2. CASE RecordSuccess
  BY <1>2 DEF RecordSuccess, TypeOK
<1>3. CASE IsSlowMode \/ Tick \/ UNCHANGED vars
  BY <1>3 DEF IsSlowMode, Tick, vars, TypeOK
<1>. QED  BY <1>1, <1>2, <1>3 DEF Next

-----------------------------------------------------------------------------
(* CacheRotor *)

\* A new CacheRotor satisfies its invariant.
LEMMA RotorInitInv == Rotor!Init => RotorInv
BY QuotaAssumption, RotorAssumption
   DEF Rotor!Init, RotorInv, Rotor!TypeOK, Rotor!Cache, CurrentBelowThreshold,
       Rotor!CurrentBelowThreshold

\* The rotation goes to a cache of the list, from the last one to the first.
LEMMA NextCache == ASSUME curCache \in Rotor!Cache PROVE (curCache + 1) % Caches \in Rotor!Cache
BY RotorAssumption DEF Rotor!Cache

(***************************************************************************)
(* Every method of the rotor, and time, keep the invariant.                *)
(***************************************************************************)
LEMMA RotorStepInv ==
    ASSUME RotorInv, [Rotor!Next]_rotorVars
    PROVE  RotorInv'
<1>. USE QuotaAssumption, RotorAssumption
     DEF RotorInv, Rotor!TypeOK, Rotor!CurrentBelowThreshold, CurrentBelowThreshold
<1>1. ASSUME NEW g \in Poll, Rotor!RecordQuotaError(g)
      PROVE  RotorInv'
  <2>1. Rotor!Counted \in Nat \ {0} /\ Rotor!ownNow(g) \in 0 .. Rotor!Counted
    BY DEF Rotor!Counted, Rotor!ownNow, Rotor!Stale
  <2>2. Caches > 1 => Rotor!Counted <= Threshold
    BY DEF Rotor!Counted, Rotor!Stale
  <2>3. poll' \in [Poll -> Rotor!Cache \cup {None}]
        /\ sinceErr' \in [Rotor!Cache -> 0 .. Window + 1 \cup {None}]
    BY <1>1 DEF Rotor!RecordQuotaError
  <2>4. CASE Rotor!Rotates
    BY <1>1, <2>1, <2>2, <2>3, <2>4, NextCache DEF Rotor!RecordQuotaError
  <2>5. CASE ~Rotor!Rotates
    BY <1>1, <2>1, <2>2, <2>3, <2>5 DEF Rotor!RecordQuotaError, Rotor!Rotates
  <2>. QED  BY <2>4, <2>5
<1>2. ASSUME NEW g \in Poll, Rotor!Current(g) \/ Rotor!RecordSuccess(g) \/ Rotor!OtherError(g)
      PROVE  RotorInv'
  BY <1>2 DEF Rotor!Current, Rotor!RecordSuccess, Rotor!OtherError
<1>3. CASE Rotor!Tick
  BY <1>3 DEF Rotor!Tick
<1>4. CASE UNCHANGED rotorVars
  BY <1>4 DEF rotorVars
<1>. QED  BY <1>1, <1>2, <1>3, <1>4 DEF Rotor!Next

\* How many polls there are in a part of Poll, and in one without g.
LEMMA Polls ==
    /\ Cardinality(Poll) \in Nat
    /\ \A S \in SUBSET Poll : Cardinality(S) \in Nat /\ Cardinality(S) <= Cardinality(Poll)
    /\ \A S \in SUBSET Poll : \A T \in SUBSET S : Cardinality(T) <= Cardinality(S)
    /\ \A S \in SUBSET Poll : \A g \in S : Cardinality(S \ {g}) = Cardinality(S) - 1
<1>1. IsFiniteSet(Poll)
  BY RotorAssumption
<1>2. ASSUME NEW S \in SUBSET Poll
      PROVE  IsFiniteSet(S) /\ Cardinality(S) \in Nat /\ Cardinality(S) <= Cardinality(Poll)
  BY <1>1, FS_Subset, FS_CardinalityType
<1>3. ASSUME NEW S \in SUBSET Poll, NEW T \in SUBSET S PROVE Cardinality(T) <= Cardinality(S)
  BY <1>2, FS_Subset
<1>4. ASSUME NEW S \in SUBSET Poll, NEW g \in S PROVE Cardinality(S \ {g}) = Cardinality(S) - 1
  BY <1>2, FS_RemoveElement
<1>. QED  BY <1>1, <1>2, <1>3, <1>4, FS_CardinalityType

\* A new CacheRotor has counted no errors, and no poll is in flight.
LEMMA RotorInitForeign == Rotor!Init => ForeignInv
<1>. SUFFICES ASSUME Rotor!Init, Poll # {} PROVE ForeignInv
  BY DEF ForeignInv
<1>1. OtherPolls = {} /\ errCount[curCache] = 0 /\ own = 0
  BY RotorAssumption DEF Rotor!Init, Rotor!Cache, OtherPolls
<1>2. Cardinality(Poll) \in Nat \ {0} /\ Cardinality(OtherPolls) = 0
  BY <1>1, RotorAssumption, Polls, FS_EmptySet
<1>. QED  BY <1>1, <1>2 DEF ForeignInv

(***************************************************************************)
(* An error that is recorded is one of the current cache's own polls, or   *)
(* one that could still come; a rotation leaves all other polls to come.   *)
(***************************************************************************)
LEMMA RecordErrorForeign ==
    ASSUME RotorInv, ForeignInv, NEW g \in Poll, Rotor!RecordQuotaError(g)
    PROVE  /\ ForeignInv'
           /\ Rotor!Rotates => Rotor!ownNow(g) >= Threshold - (Cardinality(Poll) - 1)
<1>. DEFINE N == Cardinality(Poll)
            K == Cardinality(OtherPolls)
            F == errCount[curCache] - own
            counted == Rotor!Counted
            owned == Rotor!ownNow(g)
<1>1. /\ curCache \in Rotor!Cache /\ errCount \in [Rotor!Cache -> Nat] /\ own \in 0 .. errCount[curCache]
      /\ poll \in [Poll -> Rotor!Cache \cup {None}] /\ poll[g] # None
      /\ poll' = [poll EXCEPT ![g] = None]
  BY DEF RotorInv, Rotor!TypeOK, Rotor!RecordQuotaError
<1>2. OtherPolls \in SUBSET Poll /\ OtherPolls' \in SUBSET Poll
  BY DEF OtherPolls
<1>3. N \in Nat /\ K \in Nat /\ F \in Nat /\ F + K <= N - 1
  BY <1>1, <1>2, Polls DEF ForeignInv
<1>4. counted \in Nat /\ owned \in Int
      /\ counted - owned <= F + (IF poll[g] = curCache THEN 0 ELSE 1)
  BY <1>1 DEF Rotor!Counted, Rotor!ownNow, Rotor!Stale
<1>5. poll[g] # curCache => K >= 1 /\ Cardinality(OtherPolls \ {g}) = K - 1
  <2>. SUFFICES ASSUME poll[g] # curCache PROVE K >= 1 /\ Cardinality(OtherPolls \ {g}) = K - 1
    OBVIOUS
  <2>1. g \in OtherPolls
    BY <1>1 DEF OtherPolls
  <2>2. Cardinality(OtherPolls \ {g}) = K - 1 /\ Cardinality(OtherPolls \ {g}) \in Nat
    BY <1>2, <2>1, Polls
  <2>. QED  BY <1>3, <2>2
<1>6. counted - owned <= N - 1
  BY <1>3, <1>4, <1>5
<1>7. CASE Rotor!Rotates
  <2>1. counted >= Threshold
    BY <1>7 DEF Rotor!Rotates
  <2>2. owned >= Threshold - (N - 1)
    BY <1>3, <1>4, <1>6, <2>1, RotorAssumption
  <2>3. errCount'[curCache'] = 0 /\ own' = 0
    BY <1>1, <1>7, NextCache DEF Rotor!RecordQuotaError
  <2>4. OtherPolls' \in SUBSET (Poll \ {g})
    BY <1>1, <1>2 DEF OtherPolls
  <2>5. Cardinality(OtherPolls') <= N - 1
    <3>1. Poll \ {g} \in SUBSET Poll /\ Cardinality(Poll \ {g}) = N - 1
      BY Polls
    <3>. QED  BY <2>4, <3>1, Polls
  <2>. QED  BY <1>2, <1>3, <2>2, <2>3, <2>5, Polls DEF ForeignInv
<1>8. CASE ~ Rotor!Rotates
  <2>1. curCache' = curCache /\ errCount'[curCache] = counted /\ own' = owned
    BY <1>1, <1>8 DEF Rotor!RecordQuotaError
  <2>2. OtherPolls' = OtherPolls \ {g}
    BY <1>1, <2>1 DEF OtherPolls
  <2>3. (poll[g] = curCache => OtherPolls \ {g} = OtherPolls) /\ Cardinality(OtherPolls') \in Nat
    BY <1>2, Polls DEF OtherPolls
  <2>4. counted - owned + Cardinality(OtherPolls') <= N - 1
    BY <1>3, <1>4, <1>5, <2>2, <2>3
  <2>. QED  BY <1>8, <2>1, <2>4 DEF ForeignInv
<1>. QED  BY <1>7, <1>8

\* The other methods of the rotor, and time, let no error of another cache's poll in.
LEMMA RotorStepForeign ==
    ASSUME RotorInv, ForeignInv, [Rotor!Next]_rotorVars
    PROVE  ForeignInv'
<1>1. /\ curCache \in Rotor!Cache /\ errCount \in [Rotor!Cache -> Nat] /\ own \in 0 .. errCount[curCache]
      /\ poll \in [Poll -> Rotor!Cache \cup {None}]
  BY DEF RotorInv, Rotor!TypeOK
<1>2. OtherPolls \in SUBSET Poll /\ OtherPolls' \in SUBSET Poll
  BY DEF OtherPolls
<1>3. ASSUME OtherPolls' \in SUBSET OtherPolls, errCount'[curCache'] - own' \in Nat,
             errCount'[curCache'] - own' <= errCount[curCache] - own
      PROVE  ForeignInv'
  <2>1. /\ Cardinality(OtherPolls') <= Cardinality(OtherPolls)
        /\ Cardinality(OtherPolls') \in Nat /\ Cardinality(OtherPolls) \in Nat /\ Cardinality(Poll) \in Nat
    BY <1>2, <1>3, Polls
  <2>. QED  BY <1>1, <1>3, <2>1 DEF ForeignInv
<1>4. ASSUME NEW g \in Poll, Rotor!Current(g) \/ Rotor!RecordSuccess(g) \/ Rotor!OtherError(g)
      PROVE  ForeignInv'
  <2>1. OtherPolls' \in SUBSET OtherPolls
    BY <1>1, <1>4 DEF OtherPolls, Rotor!Current, Rotor!RecordSuccess, Rotor!OtherError
  <2>2. errCount'[curCache'] - own' \in Nat /\ errCount'[curCache'] - own' <= errCount[curCache] - own
    BY <1>1, <1>4 DEF Rotor!Current, Rotor!RecordSuccess, Rotor!OtherError
  <2>. QED  BY <1>3, <2>1, <2>2
<1>5. CASE Rotor!Tick \/ UNCHANGED rotorVars
  <2>1. UNCHANGED <<curCache, errCount, poll, own>>
    BY <1>5 DEF Rotor!Tick, rotorVars
  <2>. QED  BY <2>1 DEF ForeignInv, OtherPolls
<1>. QED  BY <1>4, <1>5, RecordErrorForeign DEF Rotor!Next

-----------------------------------------------------------------------------
(* The composition *)

(***************************************************************************)
(* Every step of the polls is a step of each manager, or leaves it alone.  *)
(***************************************************************************)
LEMMA PollStep ==
    ASSUME [PollNext]_pollVars, told \in [Poll -> {"nothing", "error", "success"}]
    PROVE  /\ [Next]_vars
           /\ [Rotor!Next]_rotorVars
           /\ told' \in [Poll -> {"nothing", "error", "success"}]
<1>1. ASSUME NEW g \in Poll, StartPoll(g) \/ PollEnds(g)
      PROVE  /\ [Next]_vars
             /\ [Rotor!Next]_rotorVars
             /\ told' \in [Poll -> {"nothing", "error", "success"}]
  <2>. USE <1>1
  <2>1. CASE StartPoll(g)
    BY <2>1 DEF StartPoll, Rotor!Next
  <2>2. CASE QuotaErrorFirst(g)
    BY <2>2 DEF QuotaErrorFirst, Next
  <2>3. CASE QuotaErrorThen(g)
    BY <2>3 DEF QuotaErrorThen, Rotor!Next
  <2>4. CASE SuccessFirst(g)
    BY <2>4 DEF SuccessFirst, Next
  <2>5. CASE SuccessThen(g)
    BY <2>5 DEF SuccessThen, Rotor!Next
  <2>6. CASE OtherError(g)
    BY <2>6 DEF OtherError, Rotor!Next
  <2>. QED  BY <2>1, <2>2, <2>3, <2>4, <2>5, <2>6 DEF PollEnds
<1>2. CASE AskSlowMode
  BY <1>2 DEF AskSlowMode, Next
<1>3. CASE PollTick
  BY <1>3 DEF PollTick, Next, Rotor!Next
<1>4. CASE UNCHANGED pollVars
  BY <1>4 DEF pollVars
<1>. QED  BY <1>1, <1>2, <1>3, <1>4 DEF PollNext

(***************************************************************************)
(* The invariant holds in every reachable state.                           *)
(***************************************************************************)
LEMMA IndInvAlways == PollSpec => []IndInv
<1>1. PollInit => IndInv
  BY QuotaInitInv, RotorInitInv, RotorInitForeign DEF PollInit, IndInv
<1>2. IndInv /\ [PollNext]_pollVars => IndInv'
  BY PollStep, QuotaStepInv, RotorStepInv, RotorStepForeign DEF IndInv
<1>. QED  BY <1>1, <1>2, PTL DEF PollSpec

-----------------------------------------------------------------------------
(* Theorems *)

(***************************************************************************)
(* The fields of QuotaManager and CacheRotor stay in range: no count goes  *)
(* beyond its threshold, no back-off beyond its maximum.                   *)
(***************************************************************************)
THEOREM TypeCorrect == PollSpec => []PollTypeOK
<1>1. IndInv => PollTypeOK
  BY DEF IndInv, QuotaInv, RotorInv, PollTypeOK
<1>. QED  BY <1>1, IndInvAlways, PTL

(***************************************************************************)
(* The durations of slow mode form a chain of doublings (RecordQuotaError  *)
(* and RecordSuccess, called in any order by any number of polls).         *)
(***************************************************************************)
THEOREM BackoffDoublesTheorem == PollSpec => []BackoffDoubles
<1>1. IndInv => BackoffDoubles
  BY DEF IndInv, QuotaInv
<1>. QED  BY <1>1, IndInvAlways, PTL

(***************************************************************************)
(* RecordSuccess cuts slow mode short only after ExitSuccesses successes   *)
(* without a quota error among them.                                       *)
(***************************************************************************)
THEOREM EarlyExitEarnedTheorem == PollSpec => EarlyExitEarned
<1>1. IndInv /\ [PollNext]_pollVars => [EarlyExit => okPolls' = ExitSuccesses]_vars
  BY PollStep, EarlyExitStep DEF IndInv
<1>. QED  BY <1>1, IndInvAlways, PTL DEF PollSpec, EarlyExitEarned

(***************************************************************************)
(* Quota errors that RecordQuotaError hears of in slow mode do not prolong *)
(* it.                                                                     *)
(***************************************************************************)
THEOREM SlowModeNotProlongedTheorem == PollSpec => SlowModeNotProlonged
<1>1. IndInv /\ [PollNext]_pollVars
      => [SlowMode /\ slowLeft > 0 => slowLeft' = None \/ slowLeft' <= slowLeft]_vars
  BY PollStep, NotProlongedStep DEF IndInv
<1>. QED  BY <1>1, IndInvAlways, PTL DEF PollSpec, SlowModeNotProlonged

(***************************************************************************)
(* CacheRotor.RecordQuotaError leaves no cache current that has reached    *)
(* the threshold, whatever the order in which polls report.                *)
(***************************************************************************)
THEOREM CurrentBelowThresholdTheorem == PollSpec => []CurrentBelowThreshold
<1>1. IndInv => CurrentBelowThreshold
  BY DEF IndInv, RotorInv
<1>. QED  BY <1>1, IndInvAlways, PTL

(***************************************************************************)
(* CacheRotor.RecordQuotaError leaves a cache for errors of its own polls: *)
(* of the Threshold errors fewer than there can be polls in flight are of  *)
(* late answers to polls through another cache.                            *)
(***************************************************************************)
THEOREM RotationMostlyEarnedTheorem == PollSpec => RotationMostlyEarned
<1>1. ASSUME RotorInv, ForeignInv, [Rotor!Next]_rotorVars, Rotor!Rotation
      PROVE  Rotor!OwnErrors >= Threshold - (Cardinality(Poll) - 1)
  <2>1. PICK g \in Poll : Rotor!RecordQuotaError(g) /\ Rotor!Rotates
    BY <1>1 DEF Rotor!Next, Rotor!Rotation, Rotor!Current, Rotor!RecordSuccess, Rotor!OtherError,
                Rotor!Tick, rotorVars, Rotor!RecordQuotaError
  <2>2. Rotor!ownNow(g) >= Threshold - (Cardinality(Poll) - 1)
    BY <1>1, <2>1, RecordErrorForeign
  <2>3. poll \in [Poll -> Rotor!Cache \cup {None}] /\ poll[g] # None /\ poll' = [poll EXCEPT ![g] = None]
    BY <1>1, <2>1 DEF RotorInv, Rotor!TypeOK, Rotor!RecordQuotaError
  <2>4. g = CHOOSE h \in Poll : poll[h] # None /\ poll'[h] = None
    BY <2>3
  <2>. QED  BY <2>2, <2>4 DEF Rotor!OwnErrors
<1>2. IndInv /\ [PollNext]_pollVars
      => [Rotor!Rotation => Rotor!OwnErrors >= Threshold - (Cardinality(Poll) - 1)]_rotorVars
  BY <1>1, PollStep DEF IndInv
<1>. QED  BY <1>2, IndInvAlways, PTL DEF PollSpec, RotationMostlyEarned

(***************************************************************************)
(* The composition implements both managers as they are specified alone:   *)
(* what is shown of QuotaManager or CacheRotor holds in the poll loop.     *)
(***************************************************************************)
THEOREM PollImplementsManagers == PollSpec => Spec /\ Rotor!Spec
<1>1. PollInit => Init /\ Rotor!Init
  BY DEF PollInit
<1>2. IndInv /\ [PollNext]_pollVars => [Next]_vars /\ [Rotor!Next]_Rotor!vars
  BY PollStep DEF IndInv, rotorVars, Rotor!vars
<1>. QED  BY <1>1, <1>2, IndInvAlways, PTL DEF PollSpec, Spec, Rotor!Spec

-----------------------------------------------------------------------------
(* The rate limiter *)

\* A register that is about to become the rate holds no negative number.
RegInv == \A t \in Thread : pc[t] \in {"storeRate", "decreased"} => reg[t] \in Nat

\* update returns to a method.
OpInv ==
    \A t \in Thread :
        pc[t] \in {"update", "last", "loadCur", "storeCur", "cutCur",
                   "loadRate", "storeRate", "cutRate"} => op[t] # "none"

LimiterIndInv == LimiterTypeOK /\ RegInv /\ OpInv

-----------------------------------------------------------------------------

\* Rate times elapsed time, the refill of update, is a natural number.
LEMMA NatProduct == \A a, b \in Nat : a * b \in Nat
OBVIOUS

\* A new RateLimiter satisfies the invariant.
LEMMA InitLimiterIndInv == LimiterInit => LimiterIndInv
<1>. SUFFICES ASSUME LimiterInit PROVE LimiterIndInv
  OBVIOUS
<1>1. /\ clock \in 0 .. MaxTime /\ rate \in Nat /\ cur \in Int /\ lastUpdate \in 0 .. MaxTime
      /\ currentRate \in Nat /\ errors \in 0 .. MaxErrors
      /\ now \in [Thread -> 0 .. MaxTime] /\ elapsed \in [Thread -> 0 .. MaxTime]
      /\ reg \in [Thread -> Int]
  BY RateAssumption DEF LimiterInit
<1>2. slow \in BOOLEAN
  BY DEF LimiterInit
<1>3. RegInv /\ OpInv
  BY DEF LimiterInit, RegInv, OpInv
<1>. QED  BY <1>1, <1>2, <1>3, Zenon DEF LimiterInit, LimiterIndInv, LimiterTypeOK

(***************************************************************************)
(* The loads and stores of update.                                         *)
(***************************************************************************)
LEMMA UpdateIndInv ==
    ASSUME LimiterIndInv, NEW t \in Thread, Update(t)
    PROVE  LimiterIndInv'
<1>. USE RateAssumption DEF LimiterIndInv, LimiterTypeOK, RegInv, OpInv, fields, Go, Load
<1>1. CASE UpdateElapsed(t)
  BY <1>1 DEF UpdateElapsed
<1>2. CASE UpdateLast(t)
  BY <1>2 DEF UpdateLast
<1>3. CASE LoadCur(t)
  <2>1. cur + rate * elapsed[t] \in Int
    BY NatProduct
  <2>. QED  BY <1>3, <2>1 DEF LoadCur
<1>4. CASE StoreCur(t)
  BY <1>4 DEF StoreCur
<1>5. CASE CutCur(t)
  BY <1>5 DEF CutCur
<1>6. CASE LoadRate(t)
  <2>1. rate + RoI * elapsed[t] \in Nat
    BY NatProduct
  <2>. QED  BY <1>6, <2>1 DEF LoadRate
<1>7. CASE StoreRate(t)
  BY <1>7 DEF StoreRate
<1>8. CASE CutRate(t)
  BY <1>8 DEF CutRate
<1>. QED  BY <1>1, <1>2, <1>3, <1>4, <1>5, <1>6, <1>7, <1>8 DEF Update

(***************************************************************************)
(* The other steps.                                                        *)
(***************************************************************************)
LEMMA ControlIndInv ==
    ASSUME LimiterIndInv, Control
    PROVE  LimiterIndInv'
<1>. USE RateAssumption DEF LimiterIndInv, LimiterTypeOK, RegInv, OpInv, fields, Go, Load
<1>1. PICK s \in BOOLEAN, target \in MinRate .. MaxRate :
          /\ slow' = s
          /\ IF IF s THEN rate > SlowRate ELSE rate < target
             THEN /\ reg' = [reg EXCEPT ![Loop] = IF s THEN SlowRate ELSE target]
                  /\ pc' = [pc EXCEPT ![Loop] = "setRate"]
             ELSE /\ pc' = [pc EXCEPT ![Loop] = "floor"]
                  /\ UNCHANGED reg
  BY DEF Control
<1>2. UNCHANGED <<clock, rate, cur, lastUpdate, currentRate, op, now, elapsed, errors>>
  BY DEF Control
<1>3. \E label \in {"setRate", "floor"} : pc' = [pc EXCEPT ![Loop] = label]
  BY <1>1
<1>4. reg' = reg \/ reg' = [reg EXCEPT ![Loop] = SlowRate] \/ reg' = [reg EXCEPT ![Loop] = target]
  BY <1>1
<1>5. Loop \in Thread /\ SlowRate \in Int /\ target \in Int
  BY DEF Thread
<1>6. reg' \in [Thread -> Int]
  BY <1>4, <1>5
<1>7. \A t \in Thread : pc'[t] \in {"storeRate", "decreased"} => reg'[t] \in Nat
  BY <1>3, <1>4, <1>5
<1>. QED  BY <1>1, <1>2, <1>3, <1>5, <1>6, <1>7

\* The loop's own steps keep the types of fields and registers.
LEMMA LoopIndInv ==
    ASSUME LimiterIndInv, SetRate \/ Floor \/ IsLimited \/ TakeLoad \/ TakeStore
    PROVE  LimiterIndInv'
<1>. USE RateAssumption DEF LimiterIndInv, LimiterTypeOK, RegInv, OpInv, fields, Go, Load, Call
<1>0. Loop \in Thread
  BY DEF Thread
<1>1. CASE SetRate
  <2>1. clampFloat(reg[Loop], MinRate, MaxRate) \in Nat
    BY <1>0 DEF clampFloat
  <2>. QED  BY <1>0, <1>1, <2>1 DEF SetRate
<1>2. CASE Floor
  <2>1. clampFloat(SlowRate, MinRate, MaxRate) \in Nat
    BY DEF clampFloat
  <2>. QED  BY <1>0, <1>2, <2>1 DEF Floor
<1>3. CASE IsLimited
  BY <1>0, <1>3 DEF IsLimited
<1>4. CASE TakeLoad
  BY <1>0, <1>4 DEF TakeLoad
<1>5. CASE TakeStore
  BY <1>0, <1>5 DEF TakeStore
<1>. QED  BY <1>1, <1>2, <1>3, <1>4, <1>5

\* The steps of a failing poll keep the types of fields and registers.
LEMMA PollIndInv ==
    ASSUME LimiterIndInv, NEW t \in Poller,
           PollError(t) \/ DecreaseLoad(t) \/ DecreaseStore(t) \/ DecreaseRaise(t) \/ DecreaseReset(t)
    PROVE  LimiterIndInv'
<1>. USE RateAssumption DEF LimiterIndInv, LimiterTypeOK, RegInv, OpInv, fields, Go, Load, Call
<1>0. t \in Thread
  BY DEF Thread
<1>1. CASE PollError(t)
  BY <1>0, <1>1 DEF PollError
<1>2. CASE DecreaseLoad(t)
  <2>1. Decreased(rate) \in Nat
    BY DEF Decreased
  <2>. QED  BY <1>0, <1>2, <2>1 DEF DecreaseLoad
<1>3. CASE DecreaseStore(t)
  BY <1>0, <1>3 DEF DecreaseStore
<1>4. CASE DecreaseRaise(t)
  BY <1>0, <1>4 DEF DecreaseRaise
<1>5. CASE DecreaseReset(t)
  BY <1>0, <1>5 DEF DecreaseReset
<1>. QED  BY <1>1, <1>2, <1>3, <1>4, <1>5

\* Every step keeps the types of fields and registers.
LEMMA NextLimiterIndInv ==
    ASSUME LimiterIndInv, [LimiterNext]_limiterVars
    PROVE  LimiterIndInv'
<1>1. CASE LimiterTick
  BY <1>1, RateAssumption DEF LimiterTick, LimiterIndInv, LimiterTypeOK, RegInv, OpInv, fields
<1>2. CASE UNCHANGED limiterVars
  BY <1>2 DEF limiterVars, LimiterIndInv, LimiterTypeOK, RegInv, OpInv, fields
<1>3. CASE pollLoop
  BY <1>3, UpdateIndInv, ControlIndInv, LoopIndInv DEF pollLoop, Thread
<1>4. ASSUME NEW t \in Poller, PollError(t) \/ MultiplicativeDecrease(t)
      PROVE  LimiterIndInv'
  BY <1>4, UpdateIndInv, PollIndInv DEF MultiplicativeDecrease, Thread
<1>. QED  BY <1>1, <1>2, <1>3, <1>4 DEF LimiterNext

-----------------------------------------------------------------------------
(* The overdraft *)

\* Poll goroutines that may still store a level of the bucket they have read before.
PreStore == {t \in Poller : pc[t] \in {"update", "last", "loadCur", "storeCur"}}

\* Failed polls beyond that point.
Stored == errors - Cardinality(PreStore)

InUpdate == {"update", "last", "loadCur", "storeCur", "cutCur", "loadRate", "storeRate", "cutRate"}

\* The loop was not limited and has not taken its token yet.
Taking == op[Loop] = "take" /\ pc[Loop] \in InUpdate \cup {"take"}

(***************************************************************************)
(* When IsLimited lets the loop pass the bucket is not overdrawn, so that  *)
(* only levels stored by poll goroutines since then can be below zero at   *)
(* the Take: one token for each of them.                                   *)
(***************************************************************************)
DebtInv ==
    /\ Stored >= 0
    /\ cur >= -1 - Stored
    /\ pc[Loop] = "take" => op[Loop] = "take"
    /\ Taking => cur >= -Stored
    /\ \A t \in Thread : pc[t] = "storeCur" => reg[t] >= -1 - Stored
    /\ pc[Loop] = "storeCur" /\ op[Loop] = "take" => reg[Loop] >= -Stored
    /\ pc[Loop] = "taken" => reg[Loop] >= -1 - Stored

\* Only finitely many failed polls have yet to store their bucket.
LEMMA PreStoreFinite == IsFiniteSet(PreStore) /\ Cardinality(PreStore) \in Nat
<1>1. PreStore \subseteq Poller
  BY DEF PreStore
<1>2. IsFiniteSet(PreStore)
  BY <1>1, RateAssumption, FS_Subset
<1>. QED  BY <1>2, FS_CardinalityType

\* The stores of failed polls that have happened are at most the errors.
LEMMA StoredInt == ASSUME errors \in Nat PROVE Stored \in Int /\ Stored <= errors
BY PreStoreFinite DEF Stored

\* That number changes only with an error or with a store.
LEMMA StoredSame ==
    ASSUME UNCHANGED errors, PreStore' = PreStore
    PROVE  Stored' = Stored
BY DEF Stored

\* A poll goroutine leaves the part of update in which it can store an old level.
LEMMA StoredMore ==
    ASSUME LimiterTypeOK, NEW t \in PreStore, UNCHANGED errors, PreStore' = PreStore \ {t}
    PROVE  Stored' = Stored + 1
<1>1. Cardinality(PreStore)' = Cardinality(PreStore) - 1
  BY PreStoreFinite, FS_RemoveElement
<1>. QED  BY <1>1, PreStoreFinite DEF Stored, LimiterTypeOK

\* A poll fails.
LEMMA StoredError ==
    ASSUME LimiterTypeOK, NEW t \in Poller, PollError(t)
    PROVE  Stored' = Stored
<1>1. PreStore' = PreStore \cup {t} /\ t \notin PreStore
  BY DEF PollError, Call, Go, PreStore, LimiterTypeOK, Thread
<1>2. Cardinality(PreStore)' = Cardinality(PreStore) + 1
  BY <1>1, PreStoreFinite, FS_AddElement
<1>3. errors' = errors + 1
  BY DEF PollError
<1>. QED  BY <1>2, <1>3, PreStoreFinite DEF Stored, LimiterTypeOK

(***************************************************************************)
(* The loop's own loads and stores.                                        *)
(***************************************************************************)
LEMMA LoopDebtInv ==
    ASSUME LimiterIndInv, DebtInv, pollLoop
    PROVE  DebtInv'
<1>0. Loop \in Thread /\ Loop \notin Poller /\ Burst \in Nat
  BY RateAssumption DEF Thread
<1>1. Stored' = Stored /\ Stored \in Int
  <2>1. UNCHANGED errors
    BY DEF pollLoop, Control, SetRate, Floor, IsLimited, TakeLoad, TakeStore, Update, UpdateElapsed,
           UpdateLast, LoadCur, StoreCur, CutCur, LoadRate, StoreRate, CutRate
  <2>2. \A t \in Poller : pc'[t] = pc[t]
    <3>1. \E label : pc' = [pc EXCEPT ![Loop] = label]
      <4>1. CASE Control \/ SetRate \/ Floor \/ IsLimited \/ TakeLoad \/ TakeStore
        BY <4>1 DEF Control, SetRate, Floor, IsLimited, TakeLoad, TakeStore, Go, Call
      <4>2. CASE Update(Loop)
        BY <4>2 DEF Update, UpdateElapsed, UpdateLast, LoadCur, StoreCur, CutCur, LoadRate, StoreRate,
                    CutRate, Go
      <4>. QED  BY <4>1, <4>2 DEF pollLoop
    <3>. QED  BY <1>0, <3>1 DEF LimiterIndInv, LimiterTypeOK, Thread
  <2>3. PreStore' = PreStore
    BY <2>2 DEF PreStore
  <2>. QED  BY <2>1, <2>3, StoredSame, StoredInt DEF LimiterIndInv, LimiterTypeOK
<1>. USE DEF DebtInv, Taking, InUpdate, Go, Load, Call, fields
<1>2. CASE Control \/ SetRate \/ Floor
  BY <1>0, <1>1, <1>2 DEF Control, SetRate, Floor, LimiterIndInv, LimiterTypeOK
<1>3. CASE IsLimited
  BY <1>0, <1>1, <1>3 DEF IsLimited, LimiterIndInv, LimiterTypeOK
<1>4. CASE TakeLoad
  BY <1>0, <1>1, <1>4 DEF TakeLoad, LimiterIndInv, LimiterTypeOK
<1>5. CASE TakeStore
  BY <1>0, <1>1, <1>5 DEF TakeStore, LimiterIndInv, LimiterTypeOK
<1>6. CASE UpdateElapsed(Loop) \/ UpdateLast(Loop)
  BY <1>0, <1>1, <1>6 DEF UpdateElapsed, UpdateLast, LimiterIndInv, LimiterTypeOK
<1>7. CASE LoadCur(Loop)
  <2>1. rate * elapsed[Loop] \in Nat
    BY <1>0, NatProduct DEF LimiterIndInv, LimiterTypeOK
  <2>. QED  BY <1>0, <1>1, <1>7, <2>1 DEF LoadCur, LimiterIndInv, LimiterTypeOK
<1>8. CASE StoreCur(Loop) \/ CutCur(Loop)
  BY <1>0, <1>1, <1>8 DEF StoreCur, CutCur, LimiterIndInv, LimiterTypeOK
<1>9. CASE LoadRate(Loop) \/ StoreRate(Loop) \/ CutRate(Loop)
  BY <1>0, <1>1, <1>9 DEF LoadRate, StoreRate, CutRate, LimiterIndInv, LimiterTypeOK
<1>. QED  BY <1>2, <1>3, <1>4, <1>5, <1>6, <1>7, <1>8, <1>9 DEF pollLoop, Update

(***************************************************************************)
(* Those of a poll goroutine: it stores a level it has read once at most.  *)
(***************************************************************************)
LEMMA PollDebtInv ==
    ASSUME LimiterIndInv, DebtInv, NEW t \in Poller, PollError(t) \/ MultiplicativeDecrease(t)
    PROVE  DebtInv'
<1>0. Loop \in Thread /\ t \in Thread /\ t # Loop /\ Burst \in Nat
  BY RateAssumption DEF Thread
<1>1. Stored \in Int
  BY StoredInt DEF LimiterIndInv, LimiterTypeOK
<1>. USE DEF DebtInv, Taking, InUpdate, Go, Load, Call, fields
<1>2. CASE PollError(t)
  <2>1. Stored' = Stored
    BY <1>2, StoredError DEF LimiterIndInv
  <2>. QED  BY <1>0, <1>1, <1>2, <2>1 DEF PollError, LimiterIndInv, LimiterTypeOK
<1>3. CASE StoreCur(t)
  <2>1. t \in PreStore /\ PreStore' = PreStore \ {t} /\ UNCHANGED errors
    BY <1>0, <1>3 DEF StoreCur, PreStore, LimiterIndInv, LimiterTypeOK, Thread
  <2>2. Stored' = Stored + 1
    BY <2>1, StoredMore DEF LimiterIndInv
  <2>. QED  BY <1>0, <1>1, <1>3, <2>2 DEF StoreCur, LimiterIndInv, LimiterTypeOK
<1>4. CASE UpdateElapsed(t) /\ now[t] < lastUpdate
  <2>1. pc' = [pc EXCEPT ![t] = op[t]] /\ op[t] \in {"isLimited", "take", "decrease"}
    BY <1>0, <1>4 DEF UpdateElapsed, LimiterIndInv, LimiterTypeOK, OpInv
  <2>2. t \in PreStore /\ PreStore' = PreStore \ {t} /\ UNCHANGED errors
    BY <1>0, <1>4, <2>1 DEF UpdateElapsed, PreStore, LimiterIndInv, LimiterTypeOK, Thread
  <2>3. Stored' = Stored + 1
    BY <2>2, StoredMore DEF LimiterIndInv
  <2>. QED  BY <1>0, <1>1, <1>4, <2>1, <2>3 DEF UpdateElapsed, LimiterIndInv, LimiterTypeOK
<1>5. CASE (UpdateElapsed(t) /\ ~(now[t] < lastUpdate)) \/ UpdateLast(t) \/ LoadCur(t)
  <2>1. UNCHANGED errors /\ PreStore' = PreStore
    BY <1>0, <1>5 DEF UpdateElapsed, UpdateLast, LoadCur, PreStore, LimiterIndInv, LimiterTypeOK, Thread
  <2>2. Stored' = Stored
    BY <2>1, StoredSame
  <2>3. rate * elapsed[t] \in Nat
    BY <1>0, NatProduct DEF LimiterIndInv, LimiterTypeOK
  <2>4. CASE LoadCur(t)
    BY <1>0, <1>1, <2>2, <2>3, <2>4 DEF LoadCur, LimiterIndInv, LimiterTypeOK
  <2>5. CASE (UpdateElapsed(t) /\ ~(now[t] < lastUpdate)) \/ UpdateLast(t)
    BY <1>0, <1>1, <2>2, <2>5 DEF UpdateElapsed, UpdateLast, LimiterIndInv, LimiterTypeOK
  <2>. QED  BY <1>5, <2>4, <2>5
<1>6. CASE \/ CutCur(t) \/ LoadRate(t) \/ StoreRate(t) \/ CutRate(t)
           \/ DecreaseLoad(t) \/ DecreaseStore(t) \/ DecreaseRaise(t) \/ DecreaseReset(t)
  <2>1. \E label : /\ pc' = [pc EXCEPT ![t] = label]
                   /\ label \notin {"update", "last", "loadCur", "storeCur"}
    BY <1>0, <1>6 DEF CutCur, LoadRate, StoreRate, CutRate, DecreaseLoad, DecreaseStore, DecreaseRaise,
                DecreaseReset, LimiterIndInv, LimiterTypeOK
  <2>2. pc[t] \notin {"update", "last", "loadCur", "storeCur"} /\ UNCHANGED errors
    BY <1>6 DEF CutCur, LoadRate, StoreRate, CutRate, DecreaseLoad, DecreaseStore, DecreaseRaise,
                DecreaseReset
  <2>3. PreStore' = PreStore
    BY <1>0, <2>1, <2>2 DEF PreStore, LimiterIndInv, LimiterTypeOK, Thread
  <2>4. Stored' = Stored
    BY <2>2, <2>3, StoredSame
  <2>5. CASE CutCur(t) \/ DecreaseReset(t)
    BY <1>0, <1>1, <2>1, <2>4, <2>5 DEF CutCur, DecreaseReset, LimiterIndInv, LimiterTypeOK
  <2>6. CASE LoadRate(t) \/ StoreRate(t) \/ CutRate(t)
    BY <1>0, <1>1, <2>1, <2>4, <2>6 DEF LoadRate, StoreRate, CutRate, LimiterIndInv, LimiterTypeOK
  <2>7. CASE DecreaseLoad(t) \/ DecreaseStore(t) \/ DecreaseRaise(t)
    BY <1>0, <1>1, <2>1, <2>4, <2>7 DEF DecreaseLoad, DecreaseStore, DecreaseRaise, LimiterIndInv, LimiterTypeOK
  <2>. QED  BY <1>6, <2>5, <2>6, <2>7
<1>. QED  BY <1>2, <1>3, <1>4, <1>5, <1>6 DEF MultiplicativeDecrease, Update

-----------------------------------------------------------------------------
(* The overfull bucket *)

(***************************************************************************)
(* Once the loop has cut its own sum the bucket is not overfull, unless a  *)
(* poll goroutine is inside the limiter, which resets the bucket when it   *)
(* leaves.  update gives up only if such a goroutine came after the loop   *)
(* looked at the clock.                                                    *)
(***************************************************************************)
CutInv ==
    /\ lastUpdate <= clock /\ \A t \in Thread : now[t] <= clock
    /\ pc[Loop] = "isLimited" => op[Loop] = "isLimited"
    /\ Quiet /\ op[Loop] = "isLimited" =>
          /\ pc[Loop] \in {"loadRate", "storeRate", "cutRate", "isLimited"} => cur <= Burst
          /\ pc[Loop] = "update" /\ now[Loop] < lastUpdate => cur <= Burst

\* The loop's steps keep the bucket cut off at Burst when IsLimited decides.
LEMMA LoopCutInv ==
    ASSUME LimiterIndInv, CutInv, pollLoop
    PROVE  CutInv'
<1>0. Loop \in Thread /\ Loop \notin Poller /\ Burst \in Nat
  BY RateAssumption DEF Thread
<1>1. \E label : pc' = [pc EXCEPT ![Loop] = label]
  <2>1. CASE Control \/ SetRate \/ Floor \/ IsLimited \/ TakeLoad \/ TakeStore
    BY <2>1 DEF Control, SetRate, Floor, IsLimited, TakeLoad, TakeStore, Go, Call
  <2>2. CASE Update(Loop)
    BY <2>2 DEF Update, UpdateElapsed, UpdateLast, LoadCur, StoreCur, CutCur, LoadRate, StoreRate,
                CutRate, Go
  <2>. QED  BY <2>1, <2>2 DEF pollLoop
<1>2. Quiet' <=> Quiet
  BY <1>0, <1>1 DEF Quiet, LimiterIndInv, LimiterTypeOK, Thread
<1>. USE DEF CutInv, Go, Load, Call, fields
<1>3. CASE Control \/ SetRate \/ Floor
  BY <1>0, <1>2, <1>3 DEF Control, SetRate, Floor, LimiterIndInv, LimiterTypeOK
<1>4. CASE IsLimited \/ TakeLoad \/ TakeStore
  BY <1>0, <1>2, <1>4 DEF IsLimited, TakeLoad, TakeStore, LimiterIndInv, LimiterTypeOK
<1>5. CASE UpdateElapsed(Loop) \/ UpdateLast(Loop)
  BY <1>0, <1>2, <1>5 DEF UpdateElapsed, UpdateLast, LimiterIndInv, LimiterTypeOK, OpInv
<1>6. CASE LoadCur(Loop) \/ StoreCur(Loop) \/ CutCur(Loop)
  BY <1>0, <1>2, <1>6 DEF LoadCur, StoreCur, CutCur, LimiterIndInv, LimiterTypeOK
<1>7. CASE LoadRate(Loop) \/ StoreRate(Loop) \/ CutRate(Loop)
  BY <1>0, <1>2, <1>7 DEF LoadRate, StoreRate, CutRate, LimiterIndInv, LimiterTypeOK
<1>. QED  BY <1>3, <1>4, <1>5, <1>6, <1>7 DEF pollLoop, Update

\* The steps of a failing poll keep it too.
LEMMA PollCutInv ==
    ASSUME LimiterIndInv, CutInv, NEW t \in Poller, PollError(t) \/ MultiplicativeDecrease(t)
    PROVE  CutInv'
<1>0. Loop \in Thread /\ t \in Thread /\ t # Loop /\ Burst \in Nat
  BY RateAssumption DEF Thread
<1>. USE DEF CutInv, Go, Load, Call, fields
<1>1. /\ pc'[Loop] = pc[Loop] /\ op'[Loop] = op[Loop]
      /\ lastUpdate' <= clock' /\ \A u \in Thread : now'[u] <= clock'
  <2>1. CASE PollError(t)
    BY <1>0, <2>1 DEF PollError, LimiterIndInv, LimiterTypeOK
  <2>2. CASE Update(t)
    BY <1>0, <2>2 DEF Update, UpdateElapsed, UpdateLast, LoadCur, StoreCur, CutCur, LoadRate,
                      StoreRate, CutRate, LimiterIndInv, LimiterTypeOK
  <2>3. CASE DecreaseLoad(t) \/ DecreaseStore(t) \/ DecreaseRaise(t) \/ DecreaseReset(t)
    BY <1>0, <2>3 DEF DecreaseLoad, DecreaseStore, DecreaseRaise, DecreaseReset, LimiterIndInv, LimiterTypeOK
  <2>. QED  BY <2>1, <2>2, <2>3 DEF MultiplicativeDecrease
<1>2. CASE DecreaseReset(t)
  <2>1. cur' = 0
    BY <1>2 DEF DecreaseReset
  <2>. QED  BY <1>0, <1>1, <2>1
<1>3. ASSUME ~DecreaseReset(t)
      PROVE  ~Quiet'
  <2>1. pc'[t] # "idle"
    <3>1. CASE PollError(t)
      BY <1>0, <3>1 DEF PollError, LimiterIndInv, LimiterTypeOK
    <3>2. CASE Update(t)
      BY <1>0, <3>2 DEF Update, UpdateElapsed, UpdateLast, LoadCur, StoreCur, CutCur, LoadRate,
                        StoreRate, CutRate, LimiterIndInv, LimiterTypeOK
    <3>3. CASE DecreaseLoad(t) \/ DecreaseStore(t) \/ DecreaseRaise(t)
      BY <1>0, <3>3 DEF DecreaseLoad, DecreaseStore, DecreaseRaise, LimiterIndInv, LimiterTypeOK
    <3>. QED  BY <1>3, <3>1, <3>2, <3>3 DEF MultiplicativeDecrease
  <2>. QED  BY <2>1 DEF Quiet
<1>. QED  BY <1>1, <1>2, <1>3

-----------------------------------------------------------------------------
(* Theorems *)

\* All parts of the invariant hold throughout every behaviour.
LEMMA InvAlways == LimiterSpec => [](LimiterIndInv /\ DebtInv /\ CutInv)
<1>1. LimiterInit => LimiterIndInv /\ DebtInv /\ CutInv
  <2>. SUFFICES ASSUME LimiterInit PROVE DebtInv /\ CutInv
    BY InitLimiterIndInv
  <2>0. Loop \in Thread /\ Burst \in Nat
    BY RateAssumption DEF Thread
  <2>1. PreStore = {} /\ errors = 0
    BY DEF LimiterInit, PreStore, Thread
  <2>2. Stored = 0
    BY <2>1, FS_EmptySet DEF Stored
  <2>3. DebtInv
    BY <2>0, <2>2 DEF LimiterInit, DebtInv, Taking, InUpdate
  <2>4. CutInv
    BY <2>0 DEF LimiterInit, CutInv
  <2>. QED  BY <2>3, <2>4
<1>2. LimiterIndInv /\ DebtInv /\ CutInv /\ [LimiterNext]_limiterVars => (LimiterIndInv /\ DebtInv /\ CutInv)'
  <2>. SUFFICES ASSUME LimiterIndInv, DebtInv, CutInv, [LimiterNext]_limiterVars PROVE DebtInv' /\ CutInv'
    BY NextLimiterIndInv
  <2>1. CASE LimiterTick \/ UNCHANGED limiterVars
    <3>1. UNCHANGED <<fields, pc, op, now, reg, errors>> /\ clock <= clock'
      BY <2>1 DEF LimiterTick, limiterVars, fields, LimiterIndInv, LimiterTypeOK
    <3>2. PreStore' = PreStore
      BY <3>1 DEF PreStore
    <3>3. Stored' = Stored
      BY <3>1, <3>2, StoredSame
    <3>4. DebtInv'
      BY <3>1, <3>3 DEF DebtInv, Taking, fields
    <3>5. clock \in Nat /\ clock' \in Nat
      BY <2>1, RateAssumption DEF LimiterTick, limiterVars, LimiterIndInv, LimiterTypeOK
    <3>6. CutInv'
      BY <3>1, <3>5 DEF CutInv, Quiet, fields, LimiterIndInv, LimiterTypeOK
    <3>. QED  BY <3>4, <3>6
  <2>2. CASE pollLoop
    BY <2>2, LoopDebtInv, LoopCutInv
  <2>3. ASSUME NEW t \in Poller, PollError(t) \/ MultiplicativeDecrease(t)
        PROVE  DebtInv' /\ CutInv'
    BY <2>3, PollDebtInv, PollCutInv
  <2>. QED  BY <2>1, <2>2, <2>3 DEF LimiterNext
<1>. QED  BY <1>1, <1>2, PTL DEF LimiterSpec

(***************************************************************************)
(* Whatever the order of their loads and stores, the goroutines never see  *)
(* a negative rate or compute with a negative elapsed time.                *)
(***************************************************************************)
THEOREM LimiterTypeCorrect == LimiterSpec => []LimiterTypeOK
BY InvAlways, PTL DEF LimiterIndInv

(***************************************************************************)
(* Unsynchronised as IsLimited, Take and MultiplicativeDecrease are, the   *)
(* bucket is overdrawn by one token, and one more for each failed poll, at *)
(* most, and it is not overfull when IsLimited decides.                    *)
(***************************************************************************)
THEOREM LimiterInBoundsTheorem == LimiterSpec => []LimiterInBounds
<1>1. LimiterIndInv /\ DebtInv /\ CutInv => LimiterInBounds
  <2>. SUFFICES ASSUME LimiterIndInv, DebtInv, CutInv PROVE LimiterInBounds
    OBVIOUS
  <2>1. errors \in Nat /\ cur \in Int
    BY DEF LimiterIndInv, LimiterTypeOK
  <2>2. cur >= -1 - errors
    BY <2>1, StoredInt DEF DebtInv
  <2>. QED  BY <2>2 DEF CutInv, LimiterInBounds
<1>. QED  BY <1>1, InvAlways, PTL
=============================================================================
