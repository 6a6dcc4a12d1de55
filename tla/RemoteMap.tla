------------------------------ MODULE RemoteMap ------------------------------
(***************************************************************************)
(* turbotunnel/remotemap.go: the table of live peers, kept as a heap of    *)
(* records ordered by LastSeen (byAge) and an index from addresses to heap *)
(* positions (byAddr), and the goroutine that sweeps out expired records.  *)
(* Heap positions count from 1 here and from 0 in the code.                *)
(***************************************************************************)
EXTENDS Turbotunnel, Integers, Sequences, Loops

CONSTANT MaxLag  \* bound: how late the sweeper may finish after its sleep is over

ASSUME LagAssumption == MaxLag \in Nat

VARIABLES
    inner,      \* the remoteMapInner: byAge and byAddr
    sweeper,    \* "asleep", or "locking" between time.Now() and m.lock.Lock()
    wake,       \* when the sweeper's present sleep is over
    now         \* the time the sweeper sampled before taking the lock

mapVars == <<inner, clock, sweeper, wake, now>>

-----------------------------------------------------------------------------
(* heap.Interface for remoteMapInner *)

Less(h, i, j) == h.byAge[i].lastSeen < h.byAge[j].lastSeen

\* Mutant of Swap: the index is updated for one of the two records only.
SwapHalfIndexed(h, i, j) ==
    LET age == [h.byAge EXCEPT ![i] = h.byAge[j], ![j] = h.byAge[i]]
    IN  [byAge |-> age, byAddr |-> [h.byAddr EXCEPT ![age[i].addr] = i]]

Swap(h, i, j) ==
    LET age == [h.byAge EXCEPT ![i] = h.byAge[j], ![j] = h.byAge[i]]
    IN  [byAge  |-> age,
         byAddr |-> [h.byAddr EXCEPT ![age[i].addr] = i, ![age[j].addr] = j]]

Push(h, record) ==
    [byAge  |-> Append(h.byAge, record),
     byAddr |-> [a \in DOMAIN h.byAddr \cup {record.addr} |->
                    IF a = record.addr THEN Len(h.byAge) + 1 ELSE h.byAddr[a]]]

Pop(h) ==
    LET n == Len(h.byAge)
    IN  [byAge  |-> SubSeq(h.byAge, 1, n - 1),
         byAddr |-> [a \in DOMAIN h.byAddr \ {h.byAge[n].addr} |-> h.byAddr[a]]]

-----------------------------------------------------------------------------
(* container/heap *)

\* The loop of up moves record s.at to the place of its parent.
UpRound(s) ==
    IF s.at = 1 \/ ~ Less(s.heap, s.at, s.at \div 2) THEN s
    ELSE [heap |-> Swap(s.heap, s.at \div 2, s.at), at |-> s.at \div 2]

Up(h, j) == Rounds(UpRound, [heap |-> h, at |-> j], j).heap

\* The smaller of the children of i among the first n records.
Child(h, i, n) ==
    IF 2 * i + 1 <= n /\ Less(h, 2 * i + 1, 2 * i) THEN 2 * i + 1 ELSE 2 * i

\* The loop of down moves record s.at to the place of a child among the first n.
DownRound(s, n) ==
    LET j == Child(s.heap, s.at, n)
    IN  IF 2 * s.at > n \/ ~ Less(s.heap, j, s.at) THEN s
        ELSE [heap |-> Swap(s.heap, s.at, j), at |-> j]

Down(h, i, n) == Rounds(LAMBDA s : DownRound(s, n), [heap |-> h, at |-> i], n).heap

HeapPush(h, record) == LET g == Push(h, record) IN Up(g, Len(g.byAge))

HeapPop(h) ==
    LET n == Len(h.byAge) IN Pop(Down(Swap(h, 1, n), 1, n - 1))

\* Fix moves record i down, and up only if it did not move down.
HeapFix(h, i) ==
    LET g == Down(h, i, Len(h.byAge)) IN IF g = h THEN Up(h, i) ELSE g

-----------------------------------------------------------------------------
(* remoteMapInner *)

EmptyInner == [byAge |-> <<>>, byAddr |-> [a \in {} |-> 0]]

\* Mutant of LookupInner: a record that is already there keeps its old place.
LookupInnerNoFix(h, addr, t) ==
    IF addr \in DOMAIN h.byAddr
    THEN [h EXCEPT !.byAge[h.byAddr[addr]].lastSeen = t]
    ELSE HeapPush(h, [addr |-> addr, lastSeen |-> t])

LookupInner(h, addr, t) ==
    IF addr \in DOMAIN h.byAddr
    THEN HeapFix([h EXCEPT !.byAge[h.byAddr[addr]].lastSeen = t], h.byAddr[addr])
    ELSE HeapPush(h, [addr |-> addr, lastSeen |-> t])

\* The loop of removeExpired removes the oldest record.
ExpireRound(h, t) ==
    IF h.byAge # <<>> /\ t - h.byAge[1].lastSeen >= Timeout THEN HeapPop(h) ELSE h

\* Mutant of removeExpired: one record per sweep.
removeOneExpired(h, t) == ExpireRound(h, t)

removeExpired(h, t) == Rounds(LAMBDA g : ExpireRound(g, t), h, Len(h.byAge))

-----------------------------------------------------------------------------
(* RemoteMap *)

MapInit ==
    /\ inner = EmptyInner
    /\ clock = 0
    /\ sweeper = "asleep"
    /\ wake = Timeout \div 2
    /\ now = 0

\* SendQueue, Stash and Unstash: each looks its address up at the current time.
Lookup(addr) ==
    /\ inner' = LookupInner(inner, addr, clock)
    /\ UNCHANGED <<clock, sweeper, wake, now>>

\* The sweeper wakes up and reads the clock.
SweepWake ==
    /\ Timeout > 0
    /\ sweeper = "asleep"
    /\ clock >= wake
    /\ now' = clock
    /\ sweeper' = "locking"
    /\ UNCHANGED <<inner, clock, wake>>

\* It gets the lock, removes what had expired, and sleeps again.
Sweep ==
    /\ sweeper = "locking"
    /\ inner' = removeExpired(inner, now)
    /\ sweeper' = "asleep"
    /\ wake' = clock + Timeout \div 2
    /\ now' = 0
    /\ UNCHANGED clock

MapTick ==
    /\ clock < MaxTime
    /\ Timeout > 0 => clock < wake + MaxLag
    /\ clock' = clock + 1
    /\ UNCHANGED <<inner, sweeper, wake, now>>

MapNext == (\E addr \in Addr : Lookup(addr)) \/ SweepWake \/ Sweep \/ MapTick

MapSpec == MapInit /\ [][MapNext]_mapVars

-----------------------------------------------------------------------------
(* Properties *)

(***************************************************************************)
(* Heap and index describe the same records after every operation, so that *)
(* neither panic of remotemap.go ("inconsistent remoteMap", "duplicate     *)
(* address in remoteMap") can happen and Lookup finds its own record.      *)
(***************************************************************************)
IndexConsistent ==
    /\ DOMAIN inner.byAddr = {inner.byAge[i].addr : i \in DOMAIN inner.byAge}
    /\ \A i \in DOMAIN inner.byAge : inner.byAddr[inner.byAge[i].addr] = i

(***************************************************************************)
(* With a sweeper at most MaxLag late, no record survives its last lookup  *)
(* by one and a half timeouts plus the two delays: the "duration of       *)
(* timeout" of NewQueuePacketConn really ends.                             *)
(***************************************************************************)
RecordsExpire ==
    Timeout > 0 =>
        \A i \in DOMAIN inner.byAge :
            clock - inner.byAge[i].lastSeen < Timeout + Timeout \div 2 + 2 * MaxLag

\* The peers of a heap and the times of their last lookups.
PositionOf(h, a) == CHOOSE i \in DOMAIN h.byAge : h.byAge[i].addr = a

PeersOf(h) ==
    [a \in {h.byAge[i].addr : i \in DOMAIN h.byAge} |-> h.byAge[PositionOf(h, a)].lastSeen]

Table == INSTANCE PeerTable WITH lastSeen <- PeersOf(inner)

(***************************************************************************)
(* Heap, index and sweeper together are the PeerTable: a sweep forgets     *)
(* exactly the peers whose last lookup is Timeout or more before one       *)
(* instant that has passed, although the heap shows it one record at a     *)
(* time, and a lookup changes its own peer only.                           *)
(***************************************************************************)
ImplementsPeerTable == Table!Spec
=============================================================================
