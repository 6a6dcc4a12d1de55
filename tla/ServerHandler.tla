---------------------------- MODULE ServerHandler ----------------------------
(***************************************************************************)
(* champa-server/main.go, Handler.ServeHTTP: HTTP requests of one client,  *)
(* each served by a goroutine of its own, hand the packets in their        *)
(* payload to noiseConn and bundle packets of the client's outgoing queue  *)
(* into their responses.  The client keeps several polls in flight, so     *)
(* handlers share the queue and the one-element stash.                     *)
(***************************************************************************)
EXTENDS Integers, Sequences, Loops

CONSTANTS
    Handler,      \* goroutines serving requests of this client
    None,         \* no packet
    Size,         \* Size[n]: length of the n-th packet written for the client
    MaxPayload,   \* maxPayloadLength: 5000 in the code
    QueueSize,    \* capacity of the outgoing and the receive queue: 256 in the code
    MaxIn,        \* bound: packets in one request
    MaxPackets    \* bound: packets written for the client

ASSUME HandlerAssumption ==
    /\ MaxPayload \in Nat /\ QueueSize \in Nat /\ MaxIn \in Nat /\ MaxPackets \in Nat
    /\ Size \in [1 .. MaxPackets -> Nat \ {0}]
    /\ None \notin 1 .. MaxPackets

VARIABLES
    queue,      \* the client's outgoing queue in noiseConn
    stash,      \* its stash: a channel of capacity 1
    recvLen,    \* packets in noiseConn's receive queue
    written,    \* how many packets were written for the client; numbers them
    pc,         \* where each handler is
    incoming,   \* packets of the request not yet handed to QueueIncoming
    p,          \* the packet a handler has taken and not yet disposed of
    limit,      \* what is left of maxPayloadLength: negative once it is exceeded
    response,   \* packets written to the response so far
    sent,       \* history: the packets of finished responses, in the order they finished
    alone,      \* history: no request came while another was being served
    lost        \* history: packets that Stash did not take

vars == <<queue, stash, recvLen, written, pc, incoming, p, limit, response, sent, alone, lost>>

Init ==
    /\ queue = <<>>
    /\ stash = <<>>
    /\ recvLen = 0
    /\ written = 0
    /\ pc = [h \in Handler |-> "idle"]
    /\ incoming = [h \in Handler |-> 0]
    /\ p = [h \in Handler |-> None]
    /\ limit = [h \in Handler |-> 0]
    /\ response = [h \in Handler |-> <<>>]
    /\ sent = <<>>
    /\ alone = TRUE
    /\ lost = {}

-----------------------------------------------------------------------------
(* The other users of noiseConn *)

\* noiseLoop writes a packet for the client; a full queue drops it.
WriteTo ==
    /\ written < MaxPackets
    /\ written' = written + 1
    /\ queue' = IF Len(queue) < QueueSize THEN Append(queue, written + 1) ELSE queue
    /\ UNCHANGED <<stash, recvLen, pc, incoming, p, limit, response, sent, alone, lost>>

\* noiseLoop reads a packet that came in.
ReadFrom ==
    /\ recvLen > 0
    /\ recvLen' = recvLen - 1
    /\ UNCHANGED <<queue, stash, written, pc, incoming, p, limit, response, sent, alone, lost>>

-----------------------------------------------------------------------------
(* ServeHTTP *)

\* A request that cannot be decoded, or is no GET, gets an empty response at once.
BadRequest(h) ==
    /\ pc[h] = "idle"
    /\ UNCHANGED vars

Request(h) ==
    /\ pc[h] = "idle"
    /\ \E n \in 0 .. MaxIn : incoming' = [incoming EXCEPT ![h] = n]
    /\ pc' = [pc EXCEPT ![h] = "incoming"]
    /\ alone' = (alone /\ \A g \in Handler : pc[g] = "idle")
    /\ UNCHANGED <<queue, stash, recvLen, written, p, limit, response, sent, lost>>

\* One round of the loop around ReadData: the next packet, or the end of the payload.
QueueIncoming(h) ==
    /\ pc[h] = "incoming"
    /\ IF incoming[h] > 0
       THEN /\ recvLen' = IF recvLen < QueueSize THEN recvLen + 1 ELSE recvLen
            /\ incoming' = [incoming EXCEPT ![h] = @ - 1]
            /\ UNCHANGED <<pc, limit>>
       ELSE /\ limit' = [limit EXCEPT ![h] = MaxPayload]
            /\ pc' = [pc EXCEPT ![h] = "select1"]
            /\ UNCHANGED <<recvLen, incoming>>
    /\ UNCHANGED <<queue, stash, written, p, response, sent, alone, lost>>

TakeStash(h) ==
    /\ stash # <<>>
    /\ p' = [p EXCEPT ![h] = Head(stash)]
    /\ stash' = <<>>
    /\ pc' = [pc EXCEPT ![h] = "got"]
    /\ UNCHANGED queue

TakeOutgoing(h) ==
    /\ queue # <<>>
    /\ p' = [p EXCEPT ![h] = Head(queue)]
    /\ queue' = Tail(queue)
    /\ pc' = [pc EXCEPT ![h] = "got"]
    /\ UNCHANGED stash

GoTo(h, label) ==
    /\ pc' = [pc EXCEPT ![h] = label]
    /\ UNCHANGED <<queue, stash, p>>

\* Mutant of Select1: the outgoing queue is as good as the stash.
Select1Unordered(h) ==
    /\ pc[h] = "select1"
    /\ \/ TakeStash(h)
       \/ TakeOutgoing(h)
       \/ stash = <<>> /\ queue = <<>> /\ GoTo(h, "select2")
    /\ UNCHANGED <<recvLen, written, incoming, limit, response, sent, alone, lost>>

\* The outer select: only the stash.
Select1(h) ==
    /\ pc[h] = "select1"
    /\ IF stash # <<>> THEN TakeStash(h) ELSE GoTo(h, "select2")
    /\ UNCHANGED <<recvLen, written, incoming, limit, response, sent, alone, lost>>

\* The middle one: the stash or the outgoing queue, whichever is ready.
Select2(h) ==
    /\ pc[h] = "select2"
    /\ \/ TakeStash(h)
       \/ TakeOutgoing(h)
       \/ stash = <<>> /\ queue = <<>> /\ GoTo(h, "select3")
    /\ UNCHANGED <<recvLen, written, incoming, limit, response, sent, alone, lost>>

\* The inner one blocks until a packet is ready or the timer (100 ms, later 0) has fired.
Select3(h) ==
    /\ pc[h] = "select3"
    /\ TakeStash(h) \/ TakeOutgoing(h) \/ GoTo(h, "done")
    /\ UNCHANGED <<recvLen, written, incoming, limit, response, sent, alone, lost>>

(***************************************************************************)
(* Charge the packet against the limit.  One that does not fit and is not  *)
(* the first is stashed; Stash reports false when the stash is occupied,   *)
(* and nobody looks at what it reports.                                    *)
(***************************************************************************)
Fits(h) == response[h] = <<>> \/ limit[h] - Size[p[h]] >= 0

\* Mutant of Bundle: the limit is checked before the packet is charged.
BundleLate(h) ==
    /\ pc[h] = "got"
    /\ limit' = [limit EXCEPT ![h] = @ - Size[p[h]]]
    /\ p' = [p EXCEPT ![h] = None]
    /\ IF response[h] = <<>> \/ limit[h] >= 0
       THEN /\ response' = [response EXCEPT ![h] = Append(@, p[h])]
            /\ pc' = [pc EXCEPT ![h] = "select1"]
            /\ UNCHANGED <<stash, lost>>
       ELSE /\ stash' = IF stash = <<>> THEN <<p[h]>> ELSE stash
            /\ lost' = IF stash = <<>> THEN lost ELSE lost \cup {p[h]}
            /\ pc' = [pc EXCEPT ![h] = "done"]
            /\ UNCHANGED response
    /\ UNCHANGED <<queue, recvLen, written, incoming, sent, alone>>

\* Mutant of Bundle: the packet is put in the stash and in the response.
BundleTwice(h) ==
    /\ pc[h] = "got"
    /\ limit' = [limit EXCEPT ![h] = @ - Size[p[h]]]
    /\ p' = [p EXCEPT ![h] = None]
    /\ response' = [response EXCEPT ![h] = Append(@, p[h])]
    /\ IF Fits(h)
       THEN /\ pc' = [pc EXCEPT ![h] = "select1"]
            /\ UNCHANGED <<stash, lost>>
       ELSE /\ stash' = IF stash = <<>> THEN <<p[h]>> ELSE stash
            /\ lost' = IF stash = <<>> THEN lost ELSE lost \cup {p[h]}
            /\ pc' = [pc EXCEPT ![h] = "done"]
    /\ UNCHANGED <<queue, recvLen, written, incoming, sent, alone>>

\* Mutant of Bundle: stashing the packet does not end the loop.
BundleNoBreak(h) ==
    /\ pc[h] = "got"
    /\ limit' = [limit EXCEPT ![h] = IF Fits(h) THEN @ - Size[p[h]] ELSE 0]
    /\ p' = [p EXCEPT ![h] = None]
    /\ pc' = [pc EXCEPT ![h] = "select1"]
    /\ IF Fits(h)
       THEN /\ response' = [response EXCEPT ![h] = Append(@, p[h])]
            /\ UNCHANGED <<stash, lost>>
       ELSE /\ stash' = IF stash = <<>> THEN <<p[h]>> ELSE stash
            /\ lost' = IF stash = <<>> THEN lost ELSE lost \cup {p[h]}
            /\ UNCHANGED response
    /\ UNCHANGED <<queue, recvLen, written, incoming, sent, alone>>

Bundle(h) ==
    /\ pc[h] = "got"
    /\ limit' = [limit EXCEPT ![h] = @ - Size[p[h]]]
    /\ p' = [p EXCEPT ![h] = None]
    /\ IF Fits(h)
       THEN /\ response' = [response EXCEPT ![h] = Append(@, p[h])]
            /\ pc' = [pc EXCEPT ![h] = "select1"]
            /\ UNCHANGED <<stash, lost>>
       ELSE /\ stash' = IF stash = <<>> THEN <<p[h]>> ELSE stash
            /\ lost' = IF stash = <<>> THEN lost ELSE lost \cup {p[h]}
            /\ pc' = [pc EXCEPT ![h] = "done"]
            /\ UNCHANGED response
    /\ UNCHANGED <<queue, recvLen, written, incoming, sent, alone>>

\* The requester is gone: writing to the response fails and the response goes nowhere.
WriteFails(h) ==
    /\ pc[h] = "got"
    /\ Fits(h)
    /\ p' = [p EXCEPT ![h] = None]
    /\ limit' = [limit EXCEPT ![h] = 0]
    /\ response' = [response EXCEPT ![h] = <<>>]
    /\ pc' = [pc EXCEPT ![h] = "idle"]
    /\ UNCHANGED <<queue, stash, recvLen, written, incoming, sent, alone, lost>>

\* The handler returns and the response is complete.
Respond(h) ==
    /\ pc[h] = "done"
    /\ sent' = sent \o response[h]
    /\ response' = [response EXCEPT ![h] = <<>>]
    /\ limit' = [limit EXCEPT ![h] = 0]
    /\ pc' = [pc EXCEPT ![h] = "idle"]
    /\ UNCHANGED <<queue, stash, recvLen, written, incoming, p, alone, lost>>

ServeHTTP(h) ==
    \/ QueueIncoming(h) \/ Select1(h) \/ Select2(h) \/ Select3(h)
    \/ Bundle(h) \/ WriteFails(h) \/ Respond(h)

Next ==
    \/ WriteTo
    \/ ReadFrom
    \/ \E h \in Handler : BadRequest(h) \/ Request(h) \/ ServeHTTP(h)

Spec == Init /\ [][Next]_vars

\* A handler goroutine keeps running; its timer fires, so it can always go on.
FairSpec == Spec /\ \A h \in Handler : WF_vars(ServeHTTP(h))

-----------------------------------------------------------------------------
(* Properties *)

Packet == 1 .. MaxPackets

\* Types: what queue, stash and handlers can hold.
TypeOK ==
    /\ queue \in Seq(Packet) /\ Len(queue) <= QueueSize
    /\ stash \in Seq(Packet) /\ Len(stash) <= 1
    /\ recvLen \in 0 .. QueueSize
    /\ written \in 0 .. MaxPackets
    /\ pc \in [Handler -> {"idle", "incoming", "select1", "select2", "select3", "got", "done"}]
    /\ incoming \in [Handler -> 0 .. MaxIn]
    /\ p \in [Handler -> Packet \cup {None}]
    /\ limit \in [Handler -> Int]
    /\ response \in [Handler -> Seq(Packet)]
    /\ sent \in Seq(Packet)
    /\ alone \in BOOLEAN
    /\ lost \subseteq Packet

\* Where packets are, as sequences: queue, stash, finished responses, and in every
\* handler the packet in hand and the response.
Location == ({"queue", "stash", "sent"} \X {None}) \cup ({"hand", "response"} \X Handler)

Hand(h) == IF p[h] = None THEN <<>> ELSE <<p[h]>>

At ==
    [l \in Location |->
        CASE l[1] = "queue" -> queue
          [] l[1] = "stash" -> stash
          [] l[1] = "sent" -> sent
          [] l[1] = "hand" -> Hand(l[2])
          [] OTHER -> response[l[2]]]

(***************************************************************************)
(* A packet written once is never in two places: however handlers share    *)
(* queue and stash, it is answered to the client at most once.             *)
(***************************************************************************)
AtMostOnce ==
    \A l, m \in Location : \A i \in DOMAIN At[l], j \in DOMAIN At[m] :
        At[l][i] = At[m][j] => l = m /\ i = j

(***************************************************************************)
(* "bundle as many outgoing packets as will fit, up to maxPayloadLength":  *)
(* a response of more than one packet never exceeds maxPayloadLength.      *)
(***************************************************************************)
ResponseBounded ==
    \A h \in Handler :
        Len(response[h]) > 1 => SumOver(Size, response[h]) <= MaxPayload

(***************************************************************************)
(* For a client whose polls have never overlapped the stash works as meant:*)
(* nothing is thrown away, and the responses carry the packets in the      *)
(* order in which they were written, whatever did not fit in between.      *)
(***************************************************************************)
InOrderWhileAlone ==
    alone => /\ lost = {}
             /\ \A i, j \in DOMAIN sent : i < j => sent[i] < sent[j]

(***************************************************************************)
(* Every request is answered, even while packets keep coming in.           *)
(***************************************************************************)
RequestsAnswered == \A h \in Handler : pc[h] # "idle" ~> pc[h] = "idle"
=============================================================================
