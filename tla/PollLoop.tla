------------------------------- MODULE PollLoop -------------------------------
(***************************************************************************)
(* champa-client/pollingpacketconn.go: PollingPacketConn.pollLoop, the     *)
(* poll goroutines it starts, processIncoming and Close.  KCP writes       *)
(* packets to the outgoing queue; the loop bundles them into the payload   *)
(* of a poll, and starts it unless the rate limiter or the semaphore says  *)
(* no.  What the quota manager and the adaptive controller answer changes  *)
(* at any time; the rate limiter is reduced to its bucket (PollResult and  *)
(* RateLimiter model them).                                                *)
(***************************************************************************)
EXTENDS Integers, Sequences, FiniteSets, Loops

CONSTANTS
    Poll,         \* poll goroutines: as many as adpMaxConcurrency allows
    None,         \* no packet
    Size,         \* Size[n]: length of the n-th packet KCP writes
    IdLen,        \* length of the client ID in front of the payload: 8 in the code
    Prefix,       \* length of the prefix encapsulation adds to a packet
    MaxPayload,   \* the adaptive controller's MaxPayload
    MaxConc,      \* adpMaxConcurrency: 4 in the code
    Burst,        \* requestsPerSecondBurst: capacity of the bucket
    QueueSize,    \* capacity of outgoing and receive queue: 256 in the code
    MaxPackets    \* bound: packets KCP writes

ASSUME PollLoopAssumption ==
    /\ IdLen \in Nat /\ Prefix \in Nat
    /\ MaxPayload \in Nat /\ MaxConc \in Nat \ {0} /\ Burst \in Nat \ {0}
    /\ QueueSize \in Nat /\ MaxPackets \in Nat
    /\ Size \in [1 .. MaxPackets -> Nat \ {0}]
    /\ IsFiniteSet(Poll)
    /\ None \notin 1 .. MaxPackets

VARIABLES
    queue, stash, \* QueuePacketConn: outgoing queue and stash for the server
    recvLen,      \* packets in the receive queue
    written,      \* how many packets KCP wrote; numbers them
    closed,       \* the context is cancelled
    timer,        \* pollTimer: "running", or "fired" with a value in its channel
    pc,           \* where pollLoop is
    p,            \* the packet it has taken
    payload,      \* packets in the payload
    semCur,       \* the semaphore's count
    tokens,       \* cur of the rate limiter
    slow, conc,   \* what quota.IsSlowMode and adaptive.GetParams answer
    poll,         \* the poll goroutines: "idle", "polling" or "release"
    sent,         \* history: packets in the payloads of polls, in order
    dropped,      \* history: packets of payloads that were given up
    lost          \* history: packets that did not fit into the stash

connVars == <<queue, stash, recvLen, written>>
ctlVars == <<tokens, slow, conc>>
histVars == <<sent, dropped, lost>>
vars == <<connVars, closed, timer, pc, p, payload, semCur, ctlVars, poll, histVars>>

Init ==
    /\ queue = <<>> /\ stash = <<>> /\ recvLen = 0 /\ written = 0
    /\ closed = FALSE
    /\ timer = "running"
    /\ pc = "select1" /\ p = None /\ payload = <<>>
    /\ semCur = 0
    /\ tokens = 1 /\ slow = FALSE /\ conc \in 1 .. MaxConc
    /\ poll = [g \in Poll |-> "idle"]
    /\ sent = <<>> /\ dropped = <<>> /\ lost = {}

-----------------------------------------------------------------------------
(* What happens around the loop *)

\* KCP writes a packet; a full queue drops it.
WriteTo ==
    /\ written < MaxPackets
    /\ ~closed
    /\ written' = written + 1
    /\ queue' = IF Len(queue) < QueueSize THEN Append(queue, written + 1) ELSE queue
    /\ UNCHANGED <<stash, recvLen, closed, timer, pc, p, payload, semCur, ctlVars, poll, histVars>>

ReadFrom ==
    /\ recvLen > 0
    /\ recvLen' = recvLen - 1
    /\ UNCHANGED <<queue, stash, written, closed, timer, pc, p, payload, semCur, ctlVars, poll, histVars>>

\* Cancels the context and closes the queues; a packet written in between is not modelled.
Close ==
    /\ ~closed
    /\ closed' = TRUE
    /\ UNCHANGED <<connVars, timer, pc, p, payload, semCur, ctlVars, poll, histVars>>

TimerFires ==
    /\ timer = "running"
    /\ timer' = "fired"
    /\ UNCHANGED <<connVars, closed, pc, p, payload, semCur, ctlVars, poll, histVars>>

\* RateLimiter.update: the bucket fills with time.
Refill ==
    /\ tokens < Burst
    /\ tokens' = tokens + 1
    /\ UNCHANGED <<connVars, closed, timer, pc, p, payload, semCur, slow, conc, poll, histVars>>

\* Slow mode begins and ends, the adaptive controller changes the concurrency.
Adapt ==
    /\ slow' \in BOOLEAN
    /\ conc' \in 1 .. MaxConc
    /\ UNCHANGED <<connVars, closed, timer, pc, p, payload, semCur, tokens, poll, histVars>>

-----------------------------------------------------------------------------
(* pollLoop: the nested selects.  Each level has the cases of the one      *)
(* before and another; only the last one waits.                            *)

loopRest == <<recvLen, written, closed, payload, semCur, ctlVars, poll, histVars>>

\* Mutant of Return: a break, which only leaves the select.
ReturnBreaks ==
    /\ closed
    /\ pc' = "build"
    /\ UNCHANGED <<queue, stash, timer, p>>

Return ==
    /\ closed
    /\ pc' = "returned"
    /\ UNCHANGED <<queue, stash, timer, p>>

\* A case of a packet: the timer is stopped, its channel drained, and it is reset.
TakeStash ==
    /\ stash # <<>>
    /\ p' = Head(stash)
    /\ stash' = <<>>
    /\ pc' = "build"
    /\ timer' = "running"
    /\ UNCHANGED queue

TakeOutgoing ==
    /\ queue # <<>>
    /\ p' = Head(queue)
    /\ queue' = Tail(queue)
    /\ pc' = "build"
    /\ timer' = "running"
    /\ UNCHANGED stash

\* The timer's case: an empty poll.
TakeTimer ==
    /\ timer = "fired"
    /\ timer' = "running"
    /\ pc' = "build"
    /\ UNCHANGED <<queue, stash, p>>

Default(label) == pc' = label /\ UNCHANGED <<queue, stash, timer, p>>

Select1 ==
    /\ pc = "select1"
    /\ IF closed THEN Return ELSE Default("select2")
    /\ UNCHANGED loopRest

\* Mutant of Select2: the stash has no precedence over the queue.
Select2Skipped ==
    /\ pc = "select2"
    /\ Default("select3")
    /\ UNCHANGED loopRest

Select2 ==
    /\ pc = "select2"
    /\ \/ Return
       \/ TakeStash
       \/ ~closed /\ stash = <<>> /\ Default("select3")
    /\ UNCHANGED loopRest

Select3 ==
    /\ pc = "select3"
    /\ \/ Return
       \/ TakeStash
       \/ TakeOutgoing
       \/ ~closed /\ stash = <<>> /\ queue = <<>> /\ Default("select4")
    /\ UNCHANGED loopRest

Select4 ==
    /\ pc = "select4"
    /\ Return \/ TakeStash \/ TakeOutgoing \/ TakeTimer
    /\ UNCHANGED loopRest

-----------------------------------------------------------------------------
(* pollLoop: the payload *)

\* encapsulation.WriteData: every packet with its length prefix.
WireLen == [n \in 1 .. MaxPackets |-> Prefix + Size[n]]

\* payload.Len(): the client ID and the packets.
PayloadLen == IdLen + SumOver(WireLen, payload)

\* The first packet always fits; the length prefix of the others is not counted in advance.
Fits == p # None /\ (payload = <<>> \/ PayloadLen + Size[p] <= MaxPayload)

\* Mutant of Build: only what is already in the payload is compared with the limit.
BuildLate ==
    /\ pc = "build"
    /\ p # None
    /\ payload = <<>> \/ PayloadLen <= MaxPayload
    /\ payload' = Append(payload, p)
    /\ IF queue # <<>>
       THEN p' = Head(queue) /\ queue' = Tail(queue)
       ELSE p' = None /\ UNCHANGED queue
    /\ UNCHANGED <<stash, recvLen, written, closed, timer, pc, semCur, ctlVars, poll, histVars>>

\* One round: add the packet, and take the next if one is waiting.
Build ==
    /\ pc = "build"
    /\ Fits
    /\ payload' = Append(payload, p)
    /\ IF queue # <<>>
       THEN p' = Head(queue) /\ queue' = Tail(queue)
       ELSE p' = None /\ UNCHANGED queue
    /\ UNCHANGED <<stash, recvLen, written, closed, timer, pc, semCur, ctlVars, poll, histVars>>

\* The payload is complete; a packet that does not fit is stashed, if the stash is free.
Stash ==
    /\ pc = "build"
    /\ ~Fits
    /\ stash' = IF p # None /\ stash = <<>> THEN <<p>> ELSE stash
    /\ lost' = IF p # None /\ stash # <<>> THEN lost \cup {p} ELSE lost
    /\ p' = None
    /\ pc' = "limit"
    /\ UNCHANGED <<queue, recvLen, written, closed, timer, payload, semCur, ctlVars, poll, sent, dropped>>

-----------------------------------------------------------------------------
(* pollLoop: rate limit, semaphore, start of a poll *)

GiveUp ==
    /\ dropped' = dropped \o payload
    /\ payload' = <<>>
    /\ pc' = "select1"
    /\ UNCHANGED <<sent, lost>>

Limit ==
    /\ pc = "limit"
    /\ IF tokens < 0
       THEN GiveUp
       ELSE pc' = "acquire" /\ UNCHANGED <<payload, histVars>>
    /\ UNCHANGED <<connVars, closed, timer, p, semCur, ctlVars, poll>>

effectiveCap == IF slow THEN 1 ELSE conc

\* Mutant of SemAcquire: slow mode does not matter.
SemAcquireFast ==
    /\ pc = "acquire"
    /\ IF semCur >= conc
       THEN GiveUp /\ UNCHANGED semCur
       ELSE semCur' = semCur + 1 /\ pc' = "start" /\ UNCHANGED <<payload, histVars>>
    /\ UNCHANGED <<connVars, closed, timer, p, ctlVars, poll>>

SemAcquire ==
    /\ pc = "acquire"
    /\ IF semCur >= effectiveCap
       THEN GiveUp /\ UNCHANGED semCur
       ELSE semCur' = semCur + 1 /\ pc' = "start" /\ UNCHANGED <<payload, histVars>>
    /\ UNCHANGED <<connVars, closed, timer, p, ctlVars, poll>>

\* Take a token and start the goroutine.
StartPoll ==
    /\ pc = "start"
    /\ tokens' = tokens - 1
    /\ \E g \in Poll :
          /\ poll[g] = "idle"
          /\ poll' = [poll EXCEPT ![g] = "polling"]
    /\ sent' = sent \o payload
    /\ payload' = <<>>
    /\ pc' = "select1"
    /\ UNCHANGED <<connVars, closed, timer, p, semCur, slow, conc, dropped, lost>>

pollLoop ==
    \/ Select1 \/ Select2 \/ Select3 \/ Select4
    \/ Build \/ Stash \/ Limit \/ SemAcquire \/ StartPoll

-----------------------------------------------------------------------------
(* A poll goroutine *)

Done(g) == poll' = [poll EXCEPT ![g] = "release"]

\* processIncoming hands over a packet of the response; a full or closed queue drops it.
Incoming(g) ==
    /\ poll[g] = "polling"
    /\ ~closed
    /\ recvLen < QueueSize
    /\ recvLen' = recvLen + 1
    /\ UNCHANGED <<queue, stash, written, closed, timer, pc, p, payload, semCur, ctlVars, poll, histVars>>

\* The response is complete, or damaged, or a quota error: the managers are told.
Answered(g) ==
    /\ poll[g] = "polling"
    /\ Done(g)
    /\ UNCHANGED <<connVars, closed, timer, pc, p, payload, semCur, ctlVars, histVars>>

\* Any other error, the timeout and Close included: the limiter slows down, its bucket is reset.
Failed(g) ==
    /\ poll[g] = "polling"
    /\ Done(g)
    /\ tokens' = 0
    /\ UNCHANGED <<connVars, closed, timer, pc, p, payload, semCur, slow, conc, histVars>>

\* Mutant of SemRelease: it never happens.
SemReleaseMissing(g) ==
    /\ poll[g] = "release"
    /\ poll' = [poll EXCEPT ![g] = "idle"]
    /\ UNCHANGED <<connVars, closed, timer, pc, p, payload, semCur, ctlVars, histVars>>

\* The deferred semRelease.
SemRelease(g) ==
    /\ poll[g] = "release"
    /\ poll' = [poll EXCEPT ![g] = "idle"]
    /\ semCur' = semCur - 1
    /\ UNCHANGED <<connVars, closed, timer, pc, p, payload, ctlVars, histVars>>

pollEnds(g) == Answered(g) \/ Failed(g) \/ SemRelease(g)

Next ==
    \/ WriteTo \/ ReadFrom \/ Close \/ TimerFires \/ Refill \/ Adapt
    \/ pollLoop
    \/ \E g \in Poll : Incoming(g) \/ pollEnds(g)

Spec == Init /\ [][Next]_vars

(***************************************************************************)
(* pollLoop keeps running, its timer fires, the bucket fills, and a poll   *)
(* ends, at the latest after pollTimeout.                                  *)
(***************************************************************************)
Fairness ==
    /\ WF_vars(pollLoop)
    /\ WF_vars(TimerFires)
    /\ WF_vars(Refill)
    /\ \A g \in Poll : WF_vars(pollEnds(g))

FairSpec == Spec /\ Fairness

-----------------------------------------------------------------------------
(* Properties *)

Packet == 1 .. MaxPackets

\* Types: what the connection, the loop and its goroutines can hold.
TypeOK ==
    /\ queue \in Seq(Packet) /\ Len(queue) <= QueueSize
    /\ stash \in Seq(Packet) /\ Len(stash) <= 1
    /\ recvLen \in 0 .. QueueSize
    /\ written \in 0 .. MaxPackets
    /\ closed \in BOOLEAN
    /\ timer \in {"running", "fired"}
    /\ pc \in {"select1", "select2", "select3", "select4", "build", "limit",
               "acquire", "start", "returned"}
    /\ p \in Packet \cup {None}
    /\ payload \in Seq(Packet)
    /\ semCur \in 0 .. MaxConc
    /\ tokens \in -1 .. Burst
    /\ slow \in BOOLEAN
    /\ conc \in 1 .. MaxConc
    /\ poll \in [Poll -> {"idle", "polling", "release"}]
    /\ sent \in Seq(Packet) /\ dropped \in Seq(Packet) /\ lost \subseteq Packet

Running == {g \in Poll : poll[g] # "idle"}

(***************************************************************************)
(* The semaphore counts the polls: exactly the goroutines that have not    *)
(* released it and the one about to start, so that no permit is lost and   *)
(* none is given back twice.                                               *)
(***************************************************************************)
SemaphoreCounts ==
    semCur = Cardinality(Running) + (IF pc = "start" THEN 1 ELSE 0)

(***************************************************************************)
(* In slow mode a poll is started only when no other one is under way: a   *)
(* poll that acquires the semaphore in slow mode is alone.                 *)
(***************************************************************************)
SlowModeAlone ==
    [][pc = "acquire" /\ pc' = "start" /\ slow => Running = {}]_vars

\* The stages of a packet on its way to the server, the last one first.
Hand == IF p = None THEN <<>> ELSE <<p>>

Way == <<sent, payload, Hand, stash, queue>>

(***************************************************************************)
(* Packets leave in the order KCP wrote them, each in one payload at most, *)
(* whether they went through the stash or not, those given up with a       *)
(* payload do not come back, and the stash, unlike the one the server's    *)
(* handlers share, is always free for the packet that did not fit.         *)
(***************************************************************************)
SentInOrder ==
    /\ \A l, m \in DOMAIN Way : \A i \in DOMAIN Way[l], j \in DOMAIN Way[m] :
          l < m \/ (l = m /\ i < j) => Way[l][i] < Way[m][j]
    /\ \A i \in DOMAIN sent, j \in DOMAIN dropped : sent[i] # dropped[j]
    /\ lost = {}

(***************************************************************************)
(* A payload of more than one packet, client ID and prefixes included,     *)
(* exceeds MaxPayload by no more than the prefix of its last packet.       *)
(***************************************************************************)
PayloadBounded == Len(payload) > 1 => PayloadLen <= MaxPayload + Prefix

(***************************************************************************)
(* The client keeps polling until it is closed: polls are started again    *)
(* and again, whatever errors, slow mode, semaphore and rate limiter do.   *)
(***************************************************************************)
KeepsPolling == []<>(closed \/ pc = "start")

\* After Close the loop returns and the polls under way end.
CloseStops == closed ~> (pc = "returned" /\ Running = {})
=============================================================================
