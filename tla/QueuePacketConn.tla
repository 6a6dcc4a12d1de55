--------------------------- MODULE QueuePacketConn ---------------------------
(***************************************************************************)
(* turbotunnel/queuepacketconn.go: a packet connection made of queues.     *)
(* Goroutines call WriteTo, ReadFrom, QueueIncoming and Close at the same  *)
(* time, and the sweeper of the RemoteMap closes the send queues of peers  *)
(* that have expired.  The map itself is the PeerTable that RemoteMap is   *)
(* shown to implement; what a packet contains plays no part, so a queue is *)
(* its length.                                                             *)
(***************************************************************************)
EXTENDS Turbotunnel, FiniteSets

CONSTANTS
    Chan,        \* identities of send queues; a bound on how many are in use at once
    Writer,      \* goroutines calling WriteTo
    Reader,      \* goroutines calling ReadFrom
    Feeder,      \* goroutines calling QueueIncoming
    Closer,      \* goroutines calling Close
    None,        \* no channel
    QueueSize,   \* capacity of the queues: 256 in the code
    MaxHold      \* bound: time between a lookup in WriteTo and the send that follows it

ASSUME QueueAssumption ==
    /\ QueueSize \in Nat \ {0}
    /\ MaxHold \in Nat
    /\ Timeout > 0 => MaxHold < Timeout
    /\ None \notin Chan

ASSUME GoroutineAssumption ==
    /\ Writer \cap Reader = {}
    /\ Writer \cap Feeder = {}
    /\ Reader \cap Feeder = {}

VARIABLES
    lastSeen,    \* the PeerTable
    chan,        \* the SendQueue of each live peer
    qlen,        \* packets in each send queue
    qclosed,     \* send queues that removeExpired has closed
    recvLen,     \* packets in recvQueue
    once,        \* c.closeOnce: "new", "running" or "done"
    err,         \* c.err: "none" until stored
    closed,      \* whether c.closed is closed
    wpc, held, since,   \* WriteTo: where it is, its channel, when it looked it up
    rpc,         \* ReadFrom: where it is
    fpc,         \* QueueIncoming: where it is
    cpc,         \* Close: where it is
    late         \* history: calls that began after c.closed was closed

peerVars == <<clock, lastSeen, chan, qlen, qclosed>>
closeVars == <<once, err, closed, cpc>>
writeVars == <<wpc, held, since>>
readVars == <<recvLen, rpc, fpc>>
vars == <<peerVars, closeVars, writeVars, readVars, late>>

Peers == INSTANCE PeerTable

Init ==
    /\ Peers!Init
    /\ chan = [a \in {} |-> None]
    /\ qlen = [ch \in Chan |-> 0]
    /\ qclosed = {}
    /\ recvLen = 0
    /\ once = "new"
    /\ err = "none"
    /\ closed = FALSE
    /\ wpc = [w \in Writer |-> "idle"]
    /\ held = [w \in Writer |-> None]
    /\ since = [w \in Writer |-> 0]
    /\ rpc = [r \in Reader |-> "idle"]
    /\ fpc = [f \in Feeder |-> "idle"]
    /\ cpc = [c \in Closer |-> "idle"]
    /\ late = {}

-----------------------------------------------------------------------------
(* The RemoteMap *)

\* Channels nobody refers to any more can be the next ones to be made.
Unused == Chan \ ({chan[a] : a \in DOMAIN chan} \cup {held[w] : w \in Writer})

\* Mutant of SendQueue: a record that is found does not count as seen.
SendQueueNoRefresh(addr, ch) ==
    IF addr \in DOMAIN chan
    THEN ch = chan[addr] /\ UNCHANGED <<clock, lastSeen, chan, qlen, qclosed>>
    ELSE /\ Peers!Lookup(addr)
         /\ ch \in Unused
         /\ chan' = [a \in DOMAIN chan \cup {addr} |-> IF a = addr THEN ch ELSE chan[a]]
         /\ qlen' = [qlen EXCEPT ![ch] = 0]
         /\ qclosed' = qclosed \ {ch}

\* remotes.SendQueue(addr): find or create addr's queue; it is ch.
SendQueue(addr, ch) ==
    /\ Peers!Lookup(addr)
    /\ IF addr \in DOMAIN chan
       THEN ch = chan[addr] /\ UNCHANGED <<chan, qlen, qclosed>>
       ELSE /\ ch \in Unused
            /\ chan' = [a \in DOMAIN chan \cup {addr} |-> IF a = addr THEN ch ELSE chan[a]]
            /\ qlen' = [qlen EXCEPT ![ch] = 0]
            /\ qclosed' = qclosed \ {ch}

\* The sweeper removes the expired peers and closes their queues.
RemoveExpired(now) ==
    /\ Timeout > 0
    /\ Peers!Forget(now)
    /\ chan' = [a \in DOMAIN chan \ Peers!Expired(now) |-> chan[a]]
    /\ qclosed' = qclosed \cup {chan[a] : a \in Peers!Expired(now)}
    /\ UNCHANGED <<qlen, closeVars, writeVars, readVars, late>>

\* Time passes; WriteTo does not pause for longer than MaxHold before its send.
Tick ==
    /\ clock < MaxTime
    /\ \A w \in Writer : wpc[w] = "send" => clock < since[w] + MaxHold
    /\ Peers!Tick
    /\ UNCHANGED <<chan, qlen, qclosed, closeVars, writeVars, readVars, late>>

\* OutgoingQueue(addr): the consumer of the send queue looks it up ...
OutgoingQueue(addr) ==
    /\ \E ch \in Chan : SendQueue(addr, ch)
    /\ UNCHANGED <<closeVars, writeVars, readVars, late>>

\* ... and takes a packet from it; a closed queue can still be emptied.
TakeOutgoing(ch) ==
    /\ qlen[ch] > 0
    /\ qlen' = [qlen EXCEPT ![ch] = @ - 1]
    /\ UNCHANGED <<clock, lastSeen, chan, qclosed, closeVars, writeVars, readVars, late>>

-----------------------------------------------------------------------------
(* WriteTo *)

\* A call that finds c.closed closed goes on to load the error.
StartWrite(w) ==
    /\ wpc[w] = "idle"
    /\ wpc' = [wpc EXCEPT ![w] = IF closed THEN "error" ELSE "lookup"]
    /\ late' = IF closed THEN late \cup {w} ELSE late \ {w}
    /\ UNCHANGED <<held, since, peerVars, closeVars, readVars>>

LookupQueue(w) ==
    /\ wpc[w] = "lookup"
    /\ \E addr \in Addr, ch \in Chan :
          /\ SendQueue(addr, ch)
          /\ held' = [held EXCEPT ![w] = ch]
    /\ since' = [since EXCEPT ![w] = clock]
    /\ wpc' = [wpc EXCEPT ![w] = "send"]
    /\ UNCHANGED <<closeVars, readVars, late>>

\* Send without blocking: a full queue drops the packet, a closed one panics.
Send(w) ==
    /\ wpc[w] = "send"
    /\ IF held[w] \in qclosed
       THEN wpc' = [wpc EXCEPT ![w] = "panic"] /\ UNCHANGED <<qlen, held, since>>
       ELSE /\ qlen' = [qlen EXCEPT ![held[w]] = IF @ < QueueSize THEN @ + 1 ELSE @]
            /\ wpc' = [wpc EXCEPT ![w] = "idle"]
            /\ held' = [held EXCEPT ![w] = None]
            /\ since' = [since EXCEPT ![w] = 0]
    /\ UNCHANGED <<clock, lastSeen, chan, qclosed, closeVars, readVars, late>>

\* c.err.Load().(error) panics on an atomic.Value that was never stored to.
AfterLoad == IF err = "none" THEN "panic" ELSE "idle"

WriteError(w) ==
    /\ wpc[w] = "error"
    /\ wpc' = [wpc EXCEPT ![w] = AfterLoad]
    /\ UNCHANGED <<held, since, peerVars, closeVars, readVars, late>>

-----------------------------------------------------------------------------
(* ReadFrom *)

\* Mutant of StartRead: without the first select a closed connection is not noticed first.
StartReadNoCheck(r) ==
    /\ rpc[r] = "idle"
    /\ rpc' = [rpc EXCEPT ![r] = "select"]
    /\ late' = IF closed THEN late \cup {r} ELSE late \ {r}
    /\ UNCHANGED <<recvLen, fpc, peerVars, closeVars, writeVars>>

StartRead(r) ==
    /\ rpc[r] = "idle"
    /\ rpc' = [rpc EXCEPT ![r] = IF closed THEN "error" ELSE "select"]
    /\ late' = IF closed THEN late \cup {r} ELSE late \ {r}
    /\ UNCHANGED <<recvLen, fpc, peerVars, closeVars, writeVars>>

\* The blocking select, when a packet is there ...
ReadPacket(r) ==
    /\ rpc[r] = "select"
    /\ recvLen > 0
    /\ recvLen' = recvLen - 1
    /\ rpc' = [rpc EXCEPT ![r] = "idle"]
    /\ UNCHANGED <<fpc, peerVars, closeVars, writeVars, late>>

\* Mutant of ReadClosed: the second select does not watch c.closed.
ReadClosedUnnoticed(r) ==
    /\ rpc[r] = "select"
    /\ closed
    /\ UNCHANGED vars

\* ... and when the connection is closed.
ReadClosed(r) ==
    /\ rpc[r] = "select"
    /\ closed
    /\ rpc' = [rpc EXCEPT ![r] = "error"]
    /\ UNCHANGED <<recvLen, fpc, peerVars, closeVars, writeVars, late>>

ReadError(r) ==
    /\ rpc[r] = "error"
    /\ rpc' = [rpc EXCEPT ![r] = AfterLoad]
    /\ UNCHANGED <<recvLen, fpc, peerVars, closeVars, writeVars, late>>

-----------------------------------------------------------------------------
(* QueueIncoming *)

\* After the connection is closed the packet is silently dropped.
StartQueue(f) ==
    /\ fpc[f] = "idle"
    /\ fpc' = [fpc EXCEPT ![f] = IF closed THEN "idle" ELSE "send"]
    /\ late' = IF closed THEN late \cup {f} ELSE late \ {f}
    /\ UNCHANGED <<recvLen, rpc, peerVars, closeVars, writeVars>>

\* The packet is dropped when recvQueue is full.
Enqueue(f) ==
    /\ fpc[f] = "send"
    /\ recvLen' = IF recvLen < QueueSize THEN recvLen + 1 ELSE recvLen
    /\ fpc' = [fpc EXCEPT ![f] = "idle"]
    /\ UNCHANGED <<rpc, peerVars, closeVars, writeVars, late>>

-----------------------------------------------------------------------------
(* Close: closeWithError(nil) *)

StartClose(c) ==
    /\ cpc[c] = "idle"
    /\ cpc' = [cpc EXCEPT ![c] = "once"]
    /\ UNCHANGED <<once, err, closed, peerVars, writeVars, readVars, late>>

\* sync.Once: the first caller runs the function, the others wait until it has returned.
OnceDo(c) ==
    /\ cpc[c] = "once"
    /\ \/ /\ once = "new"
          /\ once' = "running"
          /\ cpc' = [cpc EXCEPT ![c] = "store"]
       \/ /\ once = "done"
          /\ cpc' = [cpc EXCEPT ![c] = "error"]
          /\ UNCHANGED once
    /\ UNCHANGED <<err, closed, peerVars, writeVars, readVars, late>>

\* Mutant of StoreErr: the error is not stored.
StoreErrMissing(c) ==
    /\ cpc[c] = "store"
    /\ cpc' = [cpc EXCEPT ![c] = "close"]
    /\ UNCHANGED <<once, err, closed, peerVars, writeVars, readVars, late>>

StoreErr(c) ==
    /\ cpc[c] = "store"
    /\ err' = "closed"
    /\ cpc' = [cpc EXCEPT ![c] = "close"]
    /\ UNCHANGED <<once, closed, peerVars, writeVars, readVars, late>>

CloseClosed(c) ==
    /\ cpc[c] = "close"
    /\ closed' = TRUE
    /\ once' = "done"
    /\ cpc' = [cpc EXCEPT ![c] = "first"]
    /\ UNCHANGED <<err, peerVars, writeVars, readVars, late>>

\* A later Close returns the stored error.
CloseError(c) ==
    /\ cpc[c] = "error"
    /\ cpc' = [cpc EXCEPT ![c] = IF err = "none" THEN "panic" ELSE "again"]
    /\ UNCHANGED <<once, err, closed, peerVars, writeVars, readVars, late>>

-----------------------------------------------------------------------------
Write(w) == StartWrite(w) \/ LookupQueue(w) \/ Send(w) \/ WriteError(w)
Read(r)  == StartRead(r) \/ ReadPacket(r) \/ ReadClosed(r) \/ ReadError(r)
Feed(f)  == StartQueue(f) \/ Enqueue(f)
Close(c) == StartClose(c) \/ OnceDo(c) \/ StoreErr(c) \/ CloseClosed(c) \/ CloseError(c)

Next ==
    \/ \E w \in Writer : Write(w)
    \/ \E r \in Reader : Read(r)
    \/ \E f \in Feeder : Feed(f)
    \/ \E c \in Closer : Close(c)
    \/ \E a \in Addr : OutgoingQueue(a)
    \/ \E ch \in Chan : TakeOutgoing(ch)
    \/ \E now \in 0 .. clock : RemoveExpired(now)
    \/ Tick

Spec == Init /\ [][Next]_vars

\* A goroutine that is inside a call and can go on does so.
Fairness ==
    /\ \A r \in Reader : WF_vars(ReadPacket(r) \/ ReadClosed(r) \/ ReadError(r))
    /\ \A c \in Closer : WF_vars(OnceDo(c) \/ StoreErr(c) \/ CloseClosed(c) \/ CloseError(c))

FairSpec == Spec /\ Fairness

-----------------------------------------------------------------------------
(* Properties *)

\* Types: what the connection and the calls in progress can hold.
TypeOK ==
    /\ clock \in Nat
    /\ DOMAIN lastSeen \subseteq Addr
    /\ lastSeen \in [DOMAIN lastSeen -> Nat]
    /\ chan \in [DOMAIN lastSeen -> Chan]
    /\ qlen \in [Chan -> 0 .. QueueSize]
    /\ qclosed \subseteq Chan
    /\ recvLen \in 0 .. QueueSize
    /\ once \in {"new", "running", "done"}
    /\ err \in {"none", "closed"}
    /\ closed \in BOOLEAN
    /\ wpc \in [Writer -> {"idle", "lookup", "send", "error", "panic"}]
    /\ held \in [Writer -> Chan \cup {None}]
    /\ since \in [Writer -> Nat]
    /\ rpc \in [Reader -> {"idle", "select", "error", "panic"}]
    /\ fpc \in [Feeder -> {"idle", "send"}]
    /\ cpc \in [Closer -> {"idle", "once", "store", "close", "error", "first", "again", "panic"}]
    /\ late \subseteq Writer \cup Reader \cup Feeder

(***************************************************************************)
(* No call panics: whoever finds the connection closed finds the error     *)
(* stored (ReadFrom, WriteTo and Close load it without a check), and       *)
(* WriteTo never sends on a send queue that the sweeper has closed in the  *)
(* meantime, as long as it pauses for less than the timeout.               *)
(***************************************************************************)
NoPanic ==
    /\ \A w \in Writer : wpc[w] # "panic"
    /\ \A r \in Reader : rpc[r] # "panic"
    /\ \A c \in Closer : cpc[c] # "panic"

(***************************************************************************)
(* The queue WriteTo is about to send to is still its peer's live queue:   *)
(* the sweeper takes no queue away between lookup and send.                *)
(***************************************************************************)
HeldQueueIsLive ==
    \A w \in Writer : wpc[w] = "send" => \E a \in DOMAIN chan : chan[a] = held[w]

(***************************************************************************)
(* Close "makes future operations fail": a ReadFrom or QueueIncoming that  *)
(* begins after the connection was closed neither takes a packet from the  *)
(* receive queue nor adds one, also when packets are waiting there.        *)
(***************************************************************************)
FailsAfterClose ==
    [][ /\ \A r \in Reader : ReadPacket(r) => r \notin late
        /\ \A f \in Feeder : Enqueue(f) => f \notin late ]_vars

(***************************************************************************)
(* Exactly one Close is the first one; the others report the stored error. *)
(***************************************************************************)
OneFirstClose ==
    /\ \A c, d \in Closer : cpc[c] = "first" /\ cpc[d] = "first" => c = d
    /\ \A c \in Closer : cpc[c] = "again" => closed

(***************************************************************************)
(* Close "unblocks pending operations": once closed, every ReadFrom that   *)
(* waits returns, and every Close returns.                                 *)
(***************************************************************************)
CloseUnblocks ==
    /\ \A r \in Reader : closed /\ rpc[r] # "idle" ~> rpc[r] = "idle"
    /\ \A c \in Closer : cpc[c] # "idle" ~> cpc[c] \in {"first", "again"}
=============================================================================
