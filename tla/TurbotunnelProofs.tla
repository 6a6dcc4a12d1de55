------------------------- MODULE TurbotunnelProofs --------------------------
(***************************************************************************)
(* Proofs about the package turbotunnel.  RemoteMap, for any addresses and *)
(* any timeout: the heap operations keep heap and index consistent and the *)
(* heap ordered, and heap, index and sweeper implement the PeerTable.      *)
(* QueuePacketConn, on top of a PeerTable, for any number of goroutines,   *)
(* peers and queues, any capacity and any timeout longer than a WriteTo    *)
(* may pause.                                                              *)
(***************************************************************************)
EXTENDS RemoteMap, QueuePacketConn, DataTheorems

\* Most leaves are first-order: Zenon tries each one for two seconds before SMT does.
USE ZenonT(2), SMTT(20)

-----------------------------------------------------------------------------
(* The map of peers *)

Record == [addr : Addr, lastSeen : Nat]

\* The heap and the index describe the same records.
Consistent(h) ==
    /\ DOMAIN h.byAddr = {h.byAge[i].addr : i \in DOMAIN h.byAge}
    /\ \A i \in DOMAIN h.byAge : h.byAddr[h.byAge[i].addr] = i

\* A remoteMapInner as Lookup and removeExpired leave it, but for the order of the heap.
Heap == {h \in [byAge : Seq(Record), byAddr : UNION {[D -> Nat] : D \in SUBSET Addr}] : Consistent(h)}

\* What a heap consists of.
LEMMA HeapFacts ==
    ASSUME NEW h \in Heap
    PROVE  /\ h = [byAge |-> h.byAge, byAddr |-> h.byAddr]
           /\ h.byAge \in Seq(Record) /\ Len(h.byAge) \in Nat /\ DOMAIN h.byAge = 1 .. Len(h.byAge)
           /\ h.byAge \in [1 .. Len(h.byAge) -> Record]
           /\ h.byAddr \in [DOMAIN h.byAddr -> Nat]
           /\ Consistent(h)
<1>1. h.byAge \in Seq(Record) /\ h = [byAge |-> h.byAge, byAddr |-> h.byAddr]
  BY DEF Heap
<1>2. h.byAddr \in [DOMAIN h.byAddr -> Nat] /\ Consistent(h)
  BY DEF Heap
<1>. QED  BY <1>1, <1>2

\* Distinct positions hold distinct addresses.
LEMMA HeapDistinct ==
    ASSUME NEW h \in Heap, NEW i \in DOMAIN h.byAge, NEW j \in DOMAIN h.byAge,
           h.byAge[i].addr = h.byAge[j].addr
    PROVE  i = j
BY HeapFacts DEF Consistent

\* A sequence of records with an index for it is a heap.
LEMMA HeapMade ==
    ASSUME NEW n \in Nat, NEW age \in [1 .. n -> Record], NEW index,
           index \in [{age[i].addr : i \in 1 .. n} -> Nat],
           \A i \in 1 .. n : index[age[i].addr] = i
    PROVE  [byAge |-> age, byAddr |-> index] \in Heap
<1>1. age \in Seq(Record) /\ DOMAIN age = 1 .. n
  OBVIOUS
<1>2. {age[i].addr : i \in 1 .. n} \in SUBSET Addr
  BY DEF Record
<1>3. index \in UNION {[D -> Nat] : D \in SUBSET Addr}
  BY <1>2
<1>. DEFINE h == [byAge |-> age, byAddr |-> index]
<1>4. h.byAge = age /\ h.byAddr = index
  OBVIOUS
<1>5. Consistent(h)
  BY <1>1, <1>4 DEF Consistent
<1>. QED  BY <1>1, <1>3, <1>5 DEF Heap

\* The table of peers that a heap stands for.
Seen(h) == [a \in DOMAIN h.byAddr |-> h.byAge[h.byAddr[a]].lastSeen]

\* A heap with the same records in other places.
SameRecords(g, h) ==
    /\ g \in Heap
    /\ Len(g.byAge) = Len(h.byAge)
    /\ Seen(g) = Seen(h)

\* Two assignments to a map, the second of which wins when they meet.
LEMMA TwoUpdates ==
    ASSUME NEW D, NEW f \in [D -> Nat], NEW x \in D, NEW y \in D, NEW i \in Nat, NEW j \in Nat
    PROVE  LET g == [f EXCEPT ![x] = i, ![y] = j]
           IN  /\ g \in [D -> Nat] /\ g[y] = j /\ (x # y => g[x] = i)
               /\ \A a \in D \ {x, y} : g[a] = f[a]
OBVIOUS

\* Swap exchanges two records.
LEMMA SwapHeap ==
    ASSUME NEW h \in Heap, NEW i \in DOMAIN h.byAge, NEW j \in DOMAIN h.byAge
    PROVE  /\ SameRecords(Swap(h, i, j), h)
           /\ Swap(h, i, j).byAge = [h.byAge EXCEPT ![i] = h.byAge[j], ![j] = h.byAge[i]]
<1>. DEFINE n == Len(h.byAge)
            age == [h.byAge EXCEPT ![i] = h.byAge[j], ![j] = h.byAge[i]]
            index == [h.byAddr EXCEPT ![age[i].addr] = i, ![age[j].addr] = j]
            g == [byAge |-> age, byAddr |-> index]
<1>1. Swap(h, i, j) = g
  BY DEF Swap
<1>2. /\ n \in Nat /\ DOMAIN h.byAge = 1 .. n /\ h.byAge \in [1 .. n -> Record]
      /\ h.byAddr \in [DOMAIN h.byAddr -> Nat]
      /\ DOMAIN h.byAddr = {h.byAge[k].addr : k \in 1 .. n}
      /\ \A k \in 1 .. n : h.byAddr[h.byAge[k].addr] = k
  BY HeapFacts DEF Consistent
<1>3. /\ age \in [1 .. n -> Record] /\ age[i] = h.byAge[j] /\ age[j] = h.byAge[i]
      /\ \A k \in 1 .. n \ {i, j} : age[k] = h.byAge[k]
  BY <1>2
<1>. HIDE DEF n, age
<1>4. /\ age[i].addr \in DOMAIN h.byAddr /\ age[j].addr \in DOMAIN h.byAddr
      /\ index \in [DOMAIN h.byAddr -> Nat]
      /\ index[age[j].addr] = j
      /\ age[i].addr # age[j].addr => index[age[i].addr] = i
      /\ \A a \in DOMAIN h.byAddr \ {age[i].addr, age[j].addr} : index[a] = h.byAddr[a]
  <2>1. i \in 1 .. n /\ j \in 1 .. n
    BY <1>2
  <2>2. age[i].addr \in DOMAIN h.byAddr /\ age[j].addr \in DOMAIN h.byAddr
    BY <1>2, <1>3, <2>1
  <2>3. h.byAddr \in [DOMAIN h.byAddr -> Nat] /\ i \in Nat /\ j \in Nat
    BY <1>2, <2>1
  <2>. QED  BY <2>2, <2>3, TwoUpdates
<1>5. \A k \in 1 .. n : index[age[k].addr] = k
  <2>. SUFFICES ASSUME NEW k \in 1 .. n PROVE index[age[k].addr] = k
    OBVIOUS
  <2>1. CASE k = j
    BY <1>4, <2>1
  <2>2. CASE k = i /\ i # j
    <3>1. age[i].addr # age[j].addr
      BY <1>2, <1>3, <2>2
    <3>. QED  BY <1>4, <2>2, <3>1
  <2>3. CASE k # i /\ k # j
    <3>1. age[k].addr # age[i].addr /\ age[k].addr # age[j].addr /\ age[k] = h.byAge[k]
      BY <1>2, <1>3, <2>3
    <3>2. age[k].addr \in DOMAIN h.byAddr
      BY <1>2, <3>1
    <3>. QED  BY <1>2, <1>4, <3>1, <3>2
  <2>. QED  BY <2>1, <2>2, <2>3
<1>6. {age[k].addr : k \in 1 .. n} = DOMAIN h.byAddr
  <2>1. \A k \in 1 .. n : \E l \in 1 .. n : age[k] = h.byAge[l]
    BY <1>2, <1>3
  <2>2. \A k \in 1 .. n : \E l \in 1 .. n : h.byAge[k] = age[l]
    BY <1>2, <1>3
  <2>3. ASSUME NEW a \in DOMAIN h.byAddr PROVE a \in {age[k].addr : k \in 1 .. n}
    <3>1. PICK k \in 1 .. n : h.byAge[k].addr = a
      BY <1>2
    <3>2. PICK l \in 1 .. n : h.byAge[k] = age[l]
      BY <2>2
    <3>. QED  BY <3>1, <3>2
  <2>4. ASSUME NEW k \in 1 .. n PROVE age[k].addr \in DOMAIN h.byAddr
    <3>1. PICK l \in 1 .. n : age[k] = h.byAge[l]
      BY <2>1
    <3>. QED  BY <1>2, <3>1
  <2>. QED  BY <2>3, <2>4
<1>. HIDE DEF index
<1>7. g \in Heap
  BY <1>2, <1>3, <1>4, <1>5, <1>6, HeapMade
<1>8. g.byAge = age /\ g.byAddr = index
  OBVIOUS
<1>9. Len(g.byAge) = n
  BY <1>2, <1>3, <1>8
<1>10. Seen(g) = Seen(h)
  <2>1. ASSUME NEW a \in DOMAIN h.byAddr PROVE age[index[a]] = h.byAge[h.byAddr[a]]
    <3>1. PICK k \in 1 .. n : age[k].addr = a
      BY <1>6
    <3>2. PICK l \in 1 .. n : h.byAge[l].addr = a
      BY <1>2
    <3>3. index[a] = k /\ h.byAddr[a] = l
      BY <1>2, <1>5, <3>1, <3>2
    <3>4. PICK m \in 1 .. n : age[k] = h.byAge[m]
      BY <1>2, <1>3
    <3>5. m = l
      BY <1>2, <3>1, <3>2, <3>4
    <3>. QED  BY <3>3, <3>4, <3>5
  <2>2. DOMAIN index = DOMAIN h.byAddr
    BY <1>4
  <2>. QED  BY <1>8, <2>1, <2>2 DEF Seen
<1>. QED  BY <1>1, <1>7, <1>8, <1>9, <1>10 DEF SameRecords, n, age

\* Push adds a record at the end.
LEMMA PushHeap ==
    ASSUME NEW h \in Heap, NEW r \in Record, r.addr \notin DOMAIN h.byAddr
    PROVE  /\ Push(h, r) \in Heap
           /\ Push(h, r).byAge = Append(h.byAge, r)
           /\ Len(Push(h, r).byAge) = Len(h.byAge) + 1
           /\ Seen(Push(h, r)) = [a \in DOMAIN h.byAddr \cup {r.addr} |->
                                    IF a = r.addr THEN r.lastSeen ELSE Seen(h)[a]]
<1>. DEFINE n == Len(h.byAge)
            age == Append(h.byAge, r)
            index == [a \in DOMAIN h.byAddr \cup {r.addr} |->
                        IF a = r.addr THEN n + 1 ELSE h.byAddr[a]]
            g == [byAge |-> age, byAddr |-> index]
<1>1. Push(h, r) = g
  BY DEF Push
<1>2. /\ n \in Nat /\ DOMAIN h.byAge = 1 .. n /\ h.byAge \in [1 .. n -> Record]
      /\ h.byAge \in Seq(Record)
      /\ h.byAddr \in [DOMAIN h.byAddr -> Nat]
      /\ DOMAIN h.byAddr = {h.byAge[k].addr : k \in 1 .. n}
      /\ \A k \in 1 .. n : h.byAddr[h.byAge[k].addr] = k
  BY HeapFacts DEF Consistent
<1>3. /\ age \in [1 .. n + 1 -> Record] /\ Len(age) = n + 1 /\ age[n + 1] = r
      /\ \A k \in 1 .. n : age[k] = h.byAge[k]
  <2>1. age \in Seq(Record) /\ Len(age) = n + 1
    BY <1>2
  <2>2. age[n + 1] = r /\ \A k \in 1 .. n : age[k] = h.byAge[k]
    BY <1>2
  <2>. HIDE DEF age, n
  <2>3. age \in [1 .. Len(age) -> Record]
    BY <2>1
  <2>. QED  BY <2>1, <2>2, <2>3
<1>4. n + 1 \in Nat /\ n + 1 \in 1 .. n + 1 /\ 1 .. n + 1 = 1 .. n \cup {n + 1}
  BY <1>2
<1>. HIDE DEF n, age
<1>5. {age[k].addr : k \in 1 .. n + 1} = DOMAIN h.byAddr \cup {r.addr}
  <2>1. ASSUME NEW k \in 1 .. n + 1 PROVE age[k].addr \in DOMAIN h.byAddr \cup {r.addr}
    BY <1>2, <1>3, <1>4
  <2>2. ASSUME NEW a \in DOMAIN h.byAddr PROVE a \in {age[k].addr : k \in 1 .. n + 1}
    <3>1. PICK k \in 1 .. n : h.byAge[k].addr = a
      BY <1>2
    <3>. QED  BY <1>3, <1>4, <3>1
  <2>3. r.addr \in {age[k].addr : k \in 1 .. n + 1}
    BY <1>3, <1>4
  <2>. QED  BY <2>1, <2>2, <2>3
<1>6. /\ index \in [DOMAIN h.byAddr \cup {r.addr} -> Nat]
      /\ index[r.addr] = n + 1
      /\ \A a \in DOMAIN h.byAddr : index[a] = h.byAddr[a]
  BY <1>2, <1>4
<1>. HIDE DEF index
<1>7. \A k \in 1 .. n + 1 : index[age[k].addr] = k
  BY <1>2, <1>3, <1>4, <1>6
<1>8. g \in Heap
  BY <1>3, <1>4, <1>5, <1>6, <1>7, HeapMade
<1>9. g.byAge = age /\ g.byAddr = index
  OBVIOUS
<1>10. Seen(g) = [a \in DOMAIN h.byAddr \cup {r.addr} |->
                    IF a = r.addr THEN r.lastSeen ELSE Seen(h)[a]]
  <2>1. DOMAIN index = DOMAIN h.byAddr \cup {r.addr}
    BY <1>6
  <2>2. age[index[r.addr]] = r
    BY <1>3, <1>6
  <2>3. \A a \in DOMAIN h.byAddr : age[index[a]].lastSeen = Seen(h)[a]
    BY <1>2, <1>3, <1>6 DEF Seen
  <2>. HIDE DEF g
  <2>4. Seen(g) = [a \in DOMAIN index |-> age[index[a]].lastSeen]
    BY <1>9 DEF Seen
  <2>. QED  BY <2>1, <2>2, <2>3, <2>4
<1>. QED  BY <1>1, <1>3, <1>8, <1>9, <1>10 DEF n, age

\* Pop removes the last record.
LEMMA PopHeap ==
    ASSUME NEW h \in Heap, Len(h.byAge) > 0
    PROVE  /\ Pop(h) \in Heap
           /\ Pop(h).byAge = SubSeq(h.byAge, 1, Len(h.byAge) - 1)
           /\ Len(Pop(h).byAge) = Len(h.byAge) - 1
           /\ Seen(Pop(h)) = [a \in DOMAIN h.byAddr \ {h.byAge[Len(h.byAge)].addr} |-> Seen(h)[a]]
<1>. DEFINE n == Len(h.byAge)
            r == h.byAge[n]
            age == SubSeq(h.byAge, 1, n - 1)
            index == [a \in DOMAIN h.byAddr \ {r.addr} |-> h.byAddr[a]]
            g == [byAge |-> age, byAddr |-> index]
<1>1. Pop(h) = g
  BY DEF Pop
<1>2. /\ n \in Nat /\ DOMAIN h.byAge = 1 .. n /\ h.byAge \in [1 .. n -> Record]
      /\ h.byAge \in Seq(Record)
      /\ h.byAddr \in [DOMAIN h.byAddr -> Nat]
      /\ DOMAIN h.byAddr = {h.byAge[k].addr : k \in 1 .. n}
      /\ \A k \in 1 .. n : h.byAddr[h.byAge[k].addr] = k
  BY HeapFacts DEF Consistent
<1>3. /\ age \in [1 .. n - 1 -> Record] /\ Len(age) = n - 1
      /\ \A k \in 1 .. n - 1 : age[k] = h.byAge[k]
  <2>1. age \in Seq(Record) /\ Len(age) = n - 1
    BY <1>2
  <2>2. \A k \in 1 .. n - 1 : age[k] = h.byAge[k]
    BY <1>2
  <2>. HIDE DEF age, n
  <2>3. age \in [1 .. Len(age) -> Record]
    BY <2>1
  <2>. QED  BY <2>1, <2>2, <2>3
<1>4. n - 1 \in Nat /\ n \in 1 .. n /\ n \notin 1 .. n - 1 /\ 1 .. n = 1 .. n - 1 \cup {n}
  BY <1>2
<1>. HIDE DEF n, age
<1>5. {age[k].addr : k \in 1 .. n - 1} = DOMAIN h.byAddr \ {r.addr}
  <2>1. ASSUME NEW k \in 1 .. n - 1 PROVE age[k].addr \in DOMAIN h.byAddr \ {r.addr}
    <3>1. k \in 1 .. n /\ k # n /\ age[k] = h.byAge[k]
      BY <1>3, <1>4
    <3>2. h.byAddr[h.byAge[k].addr] = k /\ h.byAddr[r.addr] = n
      BY <1>2, <1>4, <3>1
    <3>. QED  BY <1>2, <3>1, <3>2
  <2>2. ASSUME NEW a \in DOMAIN h.byAddr \ {r.addr} PROVE a \in {age[k].addr : k \in 1 .. n - 1}
    <3>1. PICK k \in 1 .. n : h.byAge[k].addr = a
      BY <1>2
    <3>. QED  BY <1>3, <1>4, <3>1
  <2>. QED  BY <2>1, <2>2
<1>6. /\ index \in [DOMAIN h.byAddr \ {r.addr} -> Nat]
      /\ \A a \in DOMAIN h.byAddr \ {r.addr} : index[a] = h.byAddr[a]
  BY <1>2
<1>. HIDE DEF index, r
<1>7. \A k \in 1 .. n - 1 : index[age[k].addr] = k
  <2>1. ASSUME NEW k \in 1 .. n - 1 PROVE age[k].addr \in DOMAIN h.byAddr \ {r.addr}
    BY <1>5
  <2>. QED  BY <1>2, <1>3, <1>4, <1>6, <2>1
<1>8. g \in Heap
  BY <1>3, <1>4, <1>5, <1>6, <1>7, HeapMade
<1>9. g.byAge = age /\ g.byAddr = index
  OBVIOUS
<1>10. Seen(g) = [a \in DOMAIN h.byAddr \ {r.addr} |-> Seen(h)[a]]
  <2>1. DOMAIN index = DOMAIN h.byAddr \ {r.addr}
    BY <1>6
  <2>2. ASSUME NEW a \in DOMAIN h.byAddr \ {r.addr} PROVE age[index[a]].lastSeen = Seen(h)[a]
    <3>1. PICK k \in 1 .. n - 1 : age[k].addr = a
      BY <1>5
    <3>2. index[a] = k /\ h.byAddr[a] = k /\ age[k] = h.byAge[k]
      BY <1>2, <1>3, <1>4, <1>7, <3>1
    <3>. QED  BY <3>2 DEF Seen
  <2>. HIDE DEF g
  <2>4. Seen(g) = [a \in DOMAIN index |-> age[index[a]].lastSeen]
    BY <1>9 DEF Seen
  <2>. QED  BY <2>1, <2>2, <2>4
<1>. QED  BY <1>1, <1>3, <1>8, <1>9, <1>10 DEF n, age, r

\* A new time for the record at position i.
Stamp(h, i, t) == [h EXCEPT !.byAge[i].lastSeen = t]

\* Stamp changes nothing else.
LEMMA StampHeap ==
    ASSUME NEW h \in Heap, NEW i \in DOMAIN h.byAge, NEW t \in Nat
    PROVE  LET g == Stamp(h, i, t)
           IN  /\ g \in Heap
               /\ g.byAge = [h.byAge EXCEPT ![i].lastSeen = t]
               /\ Len(g.byAge) = Len(h.byAge)
               /\ DOMAIN g.byAddr = DOMAIN h.byAddr
               /\ Seen(g) = [Seen(h) EXCEPT ![h.byAge[i].addr] = t]
<1>. DEFINE n == Len(h.byAge)
            age == [h.byAge EXCEPT ![i].lastSeen = t]
            g == [byAge |-> age, byAddr |-> h.byAddr]
<1>1. Stamp(h, i, t) = g
  <2>1. h = [byAge |-> h.byAge, byAddr |-> h.byAddr]
    BY HeapFacts
  <2>2. \A x : [h EXCEPT !.byAge = x] = [byAge |-> x, byAddr |-> h.byAddr]
    BY <2>1
  <2>. QED  BY <2>2, Zenon DEF Stamp
<1>2. /\ n \in Nat /\ DOMAIN h.byAge = 1 .. n /\ h.byAge \in [1 .. n -> Record]
      /\ h.byAddr \in [DOMAIN h.byAddr -> Nat]
      /\ DOMAIN h.byAddr = {h.byAge[k].addr : k \in 1 .. n}
      /\ \A k \in 1 .. n : h.byAddr[h.byAge[k].addr] = k
  BY HeapFacts DEF Consistent
<1>3. /\ age \in [1 .. n -> Record]
      /\ \A k \in 1 .. n : age[k].addr = h.byAge[k].addr
      /\ \A k \in 1 .. n \ {i} : age[k] = h.byAge[k]
      /\ age[i].lastSeen = t
  BY <1>2 DEF Record
<1>. HIDE DEF n, age
<1>4. {age[k].addr : k \in 1 .. n} = DOMAIN h.byAddr
  BY <1>2, <1>3
<1>5. g \in Heap
  BY <1>2, <1>3, <1>4, HeapMade
<1>6. g.byAge = age /\ g.byAddr = h.byAddr
  OBVIOUS
<1>7. Len(g.byAge) = n
  BY <1>2, <1>3, <1>6
<1>8. Seen(g) = [Seen(h) EXCEPT ![h.byAge[i].addr] = t]
  <2>1. ASSUME NEW a \in DOMAIN h.byAddr
        PROVE  age[h.byAddr[a]].lastSeen = IF a = h.byAge[i].addr THEN t ELSE Seen(h)[a]
    <3>1. PICK k \in 1 .. n : h.byAge[k].addr = a
      BY <1>2
    <3>2. h.byAddr[a] = k /\ h.byAddr[h.byAge[i].addr] = i
      BY <1>2, <3>1
    <3>. QED  BY <1>2, <1>3, <3>1, <3>2 DEF Seen
  <2>. HIDE DEF g
  <2>2. Seen(g) = [a \in DOMAIN h.byAddr |-> age[h.byAddr[a]].lastSeen]
    BY <1>6 DEF Seen
  <2>3. h.byAge[i].addr \in DOMAIN h.byAddr
    BY <1>2
  <2>4. DOMAIN Seen(h) = DOMAIN h.byAddr
    BY DEF Seen
  <2>. QED  BY <2>1, <2>2, <2>3, <2>4
<1>. QED  BY <1>1, <1>5, <1>6, <1>7, <1>8 DEF n, age

\* A heap and the position that a loop of up or down is at.
Place == {s \in [heap : Heap, at : Nat] : s.at \in DOMAIN s.heap.byAge}

\* What a place consists of.
LEMMA PlaceFacts ==
    ASSUME NEW s \in Place
    PROVE  /\ s = [heap |-> s.heap, at |-> s.at]
           /\ s.heap \in Heap /\ s.at \in Nat /\ s.at \in 1 .. Len(s.heap.byAge)
BY HeapFacts DEF Place

\* A round of up stays in the heap.
LEMMA UpRoundHeap ==
    ASSUME NEW s \in Place
    PROVE  UpRound(s) \in Place /\ SameRecords(UpRound(s).heap, s.heap)
<1>1. CASE s.at = 1 \/ ~ Less(s.heap, s.at, s.at \div 2)
  BY <1>1, PlaceFacts DEF UpRound, SameRecords
<1>2. CASE ~ (s.at = 1 \/ ~ Less(s.heap, s.at, s.at \div 2))
  <2>1. UpRound(s) = [heap |-> Swap(s.heap, s.at \div 2, s.at), at |-> s.at \div 2]
    BY <1>2 DEF UpRound
  <2>2. s.at \div 2 \in 1 .. Len(s.heap.byAge) /\ s.at \in 1 .. Len(s.heap.byAge) /\ s.heap \in Heap
    BY <1>2, PlaceFacts
  <2>3. SameRecords(Swap(s.heap, s.at \div 2, s.at), s.heap)
    <3>1. s.at \div 2 \in DOMAIN s.heap.byAge /\ s.at \in DOMAIN s.heap.byAge
      BY <2>2, HeapFacts
    <3>. QED  BY <2>2, <3>1, SwapHeap
  <2>. QED  BY <2>1, <2>2, <2>3, HeapFacts DEF Place, SameRecords
<1>. QED  BY <1>1, <1>2

\* A run of the loop of up.
UpRun(g, h, j) ==
    /\ g \in [Nat -> Place]
    /\ g[0] = [heap |-> h, at |-> j]
    /\ \A k \in Nat : g[k + 1] = UpRound(g[k])

\* up is a sequence of its rounds.
LEMMA UpUnfolds ==
    ASSUME NEW h \in Heap, NEW j \in DOMAIN h.byAge
    PROVE  \E g : UpRun(g, h, j) /\ Up(h, j) = g[j].heap
<1>. DEFINE start == [heap |-> h, at |-> j]
            IsLoop(f) == f = [k \in Nat |-> IF k = 0 THEN start ELSE UpRound(f[k - 1])]
            F == [s \in Place |-> UpRound(s)]
<1>1. start \in Place /\ F \in [Place -> Place] /\ j \in Nat
  BY HeapFacts, UpRoundHeap DEF Place
<1>2. PICK e \in [Nat -> Place] : e[0] = start /\ \A k \in Nat : e[k + 1] = F[e[k]]
  <2>. HIDE DEF F, start
  <2>1. PICK e : IsIteration(e, Place, F, start)
    BY <1>1, IterationExists
  <2>. QED  BY <2>1 DEF IsIteration
<1>3. IsLoop(e)
  <2>1. ASSUME NEW k \in Nat PROVE e[k] = IF k = 0 THEN start ELSE UpRound(e[k - 1])
    <3>1. CASE k = 0
      BY <1>2, <3>1
    <3>2. CASE k # 0
      <4>1. k - 1 \in Nat /\ (k - 1) + 1 = k
        BY <3>2
      <4>. QED  BY <1>2, <3>2, <4>1
    <3>. QED  BY <3>1, <3>2
  <2>. HIDE DEF start
  <2>. QED  BY <2>1, <1>2
<1>4. PICK g : IsLoop(g) /\ Up(h, j) = g[j].heap
  BY <1>3, Zenon DEF Up, Rounds
<1>5. g[0] = start /\ \A k \in Nat : g[k + 1] = UpRound(g[k])
  <2>1. \A k \in Nat : g[k] = IF k = 0 THEN start ELSE UpRound(g[k - 1])
    BY <1>4, Zenon
  <2>2. \A k \in Nat : k + 1 \in Nat /\ k + 1 # 0 /\ (k + 1) - 1 = k
    OBVIOUS
  <2>. HIDE DEF start
  <2>. QED  BY <2>1, <2>2, Zenon
<1>6. \A k \in Nat : g[k] \in Place
  <2>. DEFINE T == {k \in Nat : g[k] \in Place}
  <2>1. 0 \in T /\ \A k \in T : k + 1 \in T
    BY <1>1, <1>5, UpRoundHeap
  <2>. HIDE DEF T
  <2>2. Nat \subseteq T
    BY <2>1, NatAll
  <2>. QED  BY <2>2 DEF T
<1>7. g \in [Nat -> Place]
  <2>1. g = [k \in Nat |-> IF k = 0 THEN start ELSE UpRound(g[k - 1])]
    BY <1>4
  <2>. HIDE DEF start
  <2>2. DOMAIN g = Nat /\ g = [k \in Nat |-> g[k]]
    BY <2>1, Zenon
  <2>. QED  BY <1>6, <2>2
<1>. QED  BY <1>4, <1>5, <1>7 DEF UpRun

-----------------------------------------------------------------------------
(* The order of the heap, on the times alone. *)

\* No record is older than its parent.
Order(K, n) == \A i \in 2 .. n : K[i \div 2] <= K[i]

\* up: only the record it moves may be older than its parent.
UpOrder(K, n, at) ==
    /\ \A i \in 2 .. n : i # at => K[i \div 2] <= K[i]
    /\ \A i \in 2 .. n : i \div 2 = at /\ at > 1 => K[at \div 2] <= K[i]

\* down: only the record it moves may be younger than its children.
DownOrder(K, n, at) ==
    /\ \A i \in 2 .. n : i \div 2 # at => K[i \div 2] <= K[i]
    /\ \A i \in 2 .. n : i \div 2 = at /\ at > 1 => K[at \div 2] <= K[i]

\* In an ordered heap the first record is the oldest.
LEMMA FirstIsOldest ==
    ASSUME NEW n \in Nat, NEW K \in [1 .. n -> Nat], Order(K, n)
    PROVE  \A i \in 1 .. n : K[1] <= K[i]
<1>. DEFINE T == {i \in 1 .. n : ~ (K[1] <= K[i])}
<1>. SUFFICES ASSUME T # {} PROVE FALSE
  OBVIOUS
<1>1. T \subseteq Nat
  OBVIOUS
<1>2. PICK x \in T : \A y \in T : x <= y
  BY <1>1, LeastNat
<1>3. x \in 2 .. n /\ K[1] \in Nat
  BY <1>2
<1>4. x \div 2 \in 1 .. n /\ x \div 2 < x
  BY <1>3
<1>5. x \div 2 \notin T
  BY <1>2, <1>4
<1>6. K[1] <= K[x \div 2] /\ K[x \div 2] <= K[x]
  BY <1>3, <1>4, <1>5 DEF Order
<1>7. K[x] \in Nat /\ K[x \div 2] \in Nat
  BY <1>3, <1>4
<1>. QED  BY <1>2, <1>3, <1>6, <1>7

\* A round of up that moves its record.
LEMMA UpRoundOrder ==
    ASSUME NEW n \in Nat, NEW K \in [1 .. n -> Nat], NEW at \in 2 .. n, UpOrder(K, n, at),
           K[at] < K[at \div 2], NEW L \in [1 .. n -> Nat],
           L = [K EXCEPT ![at \div 2] = K[at], ![at] = K[at \div 2]]
    PROVE  UpOrder(L, n, at \div 2)
<1>. DEFINE p == at \div 2
<1>1. p \in 1 .. n /\ p < at
  OBVIOUS
<1>2. L[at] = K[p] /\ L[p] = K[at] /\ \A i \in 1 .. n \ {at, p} : L[i] = K[i]
  BY <1>1
<1>3. \A i \in 1 .. n : K[i] \in Nat
  OBVIOUS
<1>4. \A i \in 2 .. n : i # at => K[i \div 2] <= K[i]
  BY DEF UpOrder
<1>5. \A i \in 2 .. n : i \div 2 = at => K[p] <= K[i]
  BY DEF UpOrder
<1>. HIDE DEF p
<1>6. ASSUME NEW i \in 2 .. n, i # p PROVE L[i \div 2] <= L[i]
  <2>0. i \div 2 \in 1 .. n /\ i \div 2 < i /\ i \in 1 .. n
    OBVIOUS
  <2>1. CASE i = at
    BY <1>2, <2>1 DEF p
  <2>2. CASE i \div 2 = at
    BY <1>1, <1>2, <1>5, <1>6, <2>0, <2>2
  <2>3. CASE i \div 2 = p /\ i # at
    <3>1. L[i \div 2] = K[at] /\ L[i] = K[i] /\ K[p] <= K[i]
      BY <1>2, <1>4, <1>6, <2>0, <2>3
    <3>2. K[at] \in Nat /\ K[i] \in Nat /\ K[p] \in Nat /\ K[at] < K[p]
      BY <1>1, <1>3, <2>0 DEF p
    <3>. QED  BY <3>1, <3>2
  <2>4. CASE i # at /\ i \div 2 # at /\ i \div 2 # p
    BY <1>2, <1>4, <1>6, <2>0, <2>4
  <2>. QED  BY <2>1, <2>2, <2>3, <2>4
<1>7. ASSUME NEW i \in 2 .. n, i \div 2 = p, p > 1 PROVE L[p \div 2] <= L[i]
  <2>1. p \div 2 \in 1 .. n /\ p \div 2 # p /\ p \div 2 # at /\ p \in 2 .. n /\ p # at
    BY <1>1, <1>7
  <2>2. L[p \div 2] = K[p \div 2] /\ K[p \div 2] <= K[p] /\ K[p] \in Nat /\ K[p \div 2] \in Nat
    BY <1>2, <1>3, <1>4, <2>1
  <2>3. CASE i = at
    BY <1>2, <2>2, <2>3
  <2>4. CASE i # at
    <3>1. i # p /\ i \in 1 .. n
      BY <1>7
    <3>2. K[p] <= K[i] /\ L[i] = K[i] /\ K[i] \in Nat
      BY <1>2, <1>3, <1>4, <1>7, <2>4, <3>1
    <3>. QED  BY <2>2, <3>2
  <2>. QED  BY <2>3, <2>4
<1>. QED  BY <1>6, <1>7 DEF UpOrder, p

\* When up stops the heap is in order.
LEMMA UpStopsOrdered ==
    ASSUME NEW n \in Nat, NEW K \in [1 .. n -> Nat], NEW at \in 1 .. n, UpOrder(K, n, at),
           at = 1 \/ ~ (K[at] < K[at \div 2])
    PROVE  Order(K, n)
<1>. SUFFICES ASSUME NEW i \in 2 .. n PROVE K[i \div 2] <= K[i]
  BY DEF Order
<1>1. i \div 2 \in 1 .. n /\ i \in 1 .. n
  OBVIOUS
<1>2. K[i] \in Nat /\ K[i \div 2] \in Nat
  BY <1>1
<1>. QED  BY <1>2 DEF UpOrder

\* A round of down that moves its record to the place of its older child j.
LEMMA DownRoundOrder ==
    ASSUME NEW n \in Nat, NEW m \in 0 .. n, NEW K \in [1 .. n -> Nat], NEW at \in 1 .. n, DownOrder(K, m, at),
           NEW j \in 2 .. m, j \div 2 = at, K[j] < K[at],
           \A i \in 2 .. m : i \div 2 = at => K[j] <= K[i], NEW L \in [1 .. n -> Nat],
           L = [K EXCEPT ![at] = K[j], ![j] = K[at]]
    PROVE  DownOrder(L, m, j)
<1>1. at < j /\ at \in 1 .. n /\ j \in 1 .. n
  OBVIOUS
<1>2. L[at] = K[j] /\ L[j] = K[at] /\ \A i \in 1 .. n \ {at, j} : L[i] = K[i]
  BY <1>1
<1>3. \A i \in 1 .. n : K[i] \in Nat
  OBVIOUS
<1>4. \A i \in 2 .. m : i \div 2 # at => K[i \div 2] <= K[i]
  BY DEF DownOrder
<1>5. \A i \in 2 .. m : i \div 2 = at /\ at > 1 => K[at \div 2] <= K[i]
  BY DEF DownOrder
<1>6. ASSUME NEW i \in 2 .. m, i \div 2 # j PROVE L[i \div 2] <= L[i]
  <2>0. i \div 2 \in 1 .. n /\ i \div 2 < i /\ i \in 1 .. n
    OBVIOUS
  <2>1. CASE i = j
    BY <1>2, <2>1
  <2>2. CASE i \div 2 = at /\ i # j
    <3>1. i # at
      BY <2>0, <2>2
    <3>. QED  BY <1>2, <2>0, <2>2, <3>1
  <2>3. CASE i = at
    <3>1. at > 1 /\ i \div 2 # at /\ i \div 2 # j
      BY <1>6, <2>0, <2>3
    <3>. QED  BY <1>2, <1>5, <2>0, <2>3, <3>1
  <2>4. CASE i # at /\ i # j /\ i \div 2 # at
    BY <1>2, <1>4, <1>6, <2>0, <2>4
  <2>. QED  BY <2>1, <2>2, <2>3, <2>4
<1>7. ASSUME NEW i \in 2 .. m, i \div 2 = j PROVE L[j \div 2] <= L[i]
  <2>1. i # at /\ i # j /\ i \in 1 .. n /\ i \div 2 # at
    BY <1>1, <1>7
  <2>. QED  BY <1>2, <1>4, <1>7, <2>1
<1>. QED  BY <1>6, <1>7 DEF DownOrder

\* When down stops the heap is in order.
LEMMA DownStopsOrdered ==
    ASSUME NEW n \in Nat, NEW m \in 0 .. n, NEW K \in [1 .. n -> Nat], NEW at \in 1 .. n, DownOrder(K, m, at),
           \A i \in 2 .. m : i \div 2 = at => K[at] <= K[i]
    PROVE  Order(K, m)
BY DEF Order, DownOrder

-----------------------------------------------------------------------------
(* up and down leave the heap in order *)

\* The times of the records of a heap, by position.
Keys(h) == [i \in DOMAIN h.byAge |-> h.byAge[i].lastSeen]

\* Times are natural numbers, and Less compares them.
LEMMA KeysType ==
    ASSUME NEW h \in Heap
    PROVE  /\ Keys(h) \in [1 .. Len(h.byAge) -> Nat]
           /\ \A i, j \in 1 .. Len(h.byAge) : Less(h, i, j) <=> Keys(h)[i] < Keys(h)[j]
BY HeapFacts DEF Keys, Record, Less

\* Swap exchanges two times.
LEMMA KeysSwap ==
    ASSUME NEW h \in Heap, NEW i \in DOMAIN h.byAge, NEW j \in DOMAIN h.byAge
    PROVE  Keys(Swap(h, i, j)) = [Keys(h) EXCEPT ![i] = Keys(h)[j], ![j] = Keys(h)[i]]
<1>1. Swap(h, i, j).byAge = [h.byAge EXCEPT ![i] = h.byAge[j], ![j] = h.byAge[i]]
  BY SwapHeap
<1>. QED  BY <1>1 DEF Keys

\* The loop of up stops here.
UpDone(s) == s.at = 1 \/ ~ Less(s.heap, s.at, s.at \div 2)

\* A round of up stops, or moves on towards the root.
LEMMA UpRoundStep ==
    ASSUME NEW s \in Place, UpOrder(Keys(s.heap), Len(s.heap.byAge), s.at)
    PROVE  /\ UpOrder(Keys(UpRound(s).heap), Len(UpRound(s).heap.byAge), UpRound(s).at)
           /\ IF UpDone(s) THEN UpRound(s) = s ELSE UpRound(s).at < s.at
<1>. DEFINE n == Len(s.heap.byAge)
            p == s.at \div 2
<1>1. CASE UpDone(s)
  BY <1>1 DEF UpDone, UpRound
<1>2. CASE ~ UpDone(s)
  <2>1. UpRound(s) = [heap |-> Swap(s.heap, p, s.at), at |-> p]
    BY <1>2 DEF UpRound, UpDone
  <2>2. /\ s.heap \in Heap /\ n \in Nat /\ DOMAIN s.heap.byAge = 1 .. n
        /\ s.at \in 2 .. n /\ p \in 1 .. n /\ p < s.at
    BY <1>2, PlaceFacts, HeapFacts DEF UpDone
  <2>3. Swap(s.heap, p, s.at) \in Heap /\ Len(Swap(s.heap, p, s.at).byAge) = n
    <3>1. s.heap \in Heap /\ p \in DOMAIN s.heap.byAge /\ s.at \in DOMAIN s.heap.byAge
      BY <2>2
    <3>2. SameRecords(Swap(s.heap, p, s.at), s.heap)
      BY <3>1, SwapHeap, Zenon
    <3>. QED  BY <3>2 DEF SameRecords
  <2>4. Keys(Swap(s.heap, p, s.at)) = [Keys(s.heap) EXCEPT ![p] = Keys(s.heap)[s.at], ![s.at] = Keys(s.heap)[p]]
    BY <2>2, KeysSwap
  <2>5. /\ Keys(s.heap) \in [1 .. n -> Nat] /\ Keys(Swap(s.heap, p, s.at)) \in [1 .. n -> Nat]
        /\ Keys(s.heap)[s.at] < Keys(s.heap)[p]
    BY <1>2, <2>2, <2>3, KeysType DEF UpDone
  <2>. HIDE DEF n
  <2>6. UpOrder(Keys(Swap(s.heap, p, s.at)), n, p)
    BY <2>2, <2>4, <2>5, UpRoundOrder DEF n
  <2>. HIDE DEF p
  <2>. QED  BY <1>2, <2>1, <2>2, <2>3, <2>6
<1>. QED  BY <1>1, <1>2

\* up puts the heap in order when its record was the only one out of place.
LEMMA UpOrdered ==
    ASSUME NEW h \in Heap, NEW j \in DOMAIN h.byAge, UpOrder(Keys(h), Len(h.byAge), j)
    PROVE  SameRecords(Up(h, j), h) /\ Order(Keys(Up(h, j)), Len(h.byAge))
<1>. DEFINE n == Len(h.byAge)
            Good(s, k) == /\ SameRecords(s.heap, h)
                          /\ UpOrder(Keys(s.heap), n, s.at)
                          /\ UpDone(s) \/ s.at <= j - k
            T == [k \in Nat |-> {s \in Place : Good(s, k)}]
<1>0. PICK g : UpRun(g, h, j) /\ Up(h, j) = g[j].heap
  BY UpUnfolds
<1>1. /\ \A k \in Nat : g[k] \in Place
      /\ g[0] = [heap |-> h, at |-> j]
      /\ \A k \in Nat : g[k + 1] = UpRound(g[k])
  BY <1>0 DEF UpRun
<1>2. j \in Nat /\ j \in 1 .. n /\ n \in Nat
  BY HeapFacts
<1>3. g[0] \in T[0]
  <2>1. Good([heap |-> h, at |-> j], 0)
    BY <1>2 DEF SameRecords
  <2>. HIDE DEF Good
  <2>. QED  BY <1>1, <2>1
<1>4. ASSUME NEW k \in Nat, g[k] \in T[k] PROVE g[k + 1] \in T[k + 1]
  <2>. DEFINE s == g[k]
              r == g[k + 1]
  <2>0. k + 1 \in Nat
    OBVIOUS
  <2>1. s \in Place /\ r \in Place /\ r = UpRound(s)
    BY <1>1, <2>0, Zenon
  <2>2. Good(s, k)
    BY <1>4
  <2>. HIDE DEF s, r
  <2>3. Len(s.heap.byAge) = n /\ s.at \in Nat /\ r.at \in Nat
    BY <2>1, <2>2, PlaceFacts DEF SameRecords
  <2>4. /\ UpOrder(Keys(r.heap), Len(r.heap.byAge), r.at)
        /\ IF UpDone(s) THEN r = s ELSE r.at < s.at
    BY <2>1, <2>2, <2>3, UpRoundStep
  <2>5. SameRecords(r.heap, h)
    BY <2>1, <2>2, UpRoundHeap DEF SameRecords
  <2>6. UpOrder(Keys(r.heap), n, r.at)
    BY <2>4, <2>5 DEF SameRecords
  <2>7. UpDone(r) \/ r.at <= j - (k + 1)
    BY <1>2, <2>2, <2>3, <2>4
  <2>8. Good(r, k + 1)
    BY <2>5, <2>6, <2>7
  <2>. HIDE DEF Good
  <2>. QED  BY <2>0, <2>1, <2>8 DEF r
<1>. HIDE DEF T
<1>5. \A k \in Nat : g[k] \in T[k]
  BY <1>3, <1>4, IterationInvariant
<1>6. g[j] \in Place /\ Good(g[j], j)
  BY <1>2, <1>5 DEF T
<1>7. UpDone(g[j])
  BY <1>2, <1>6, PlaceFacts
<1>8. Order(Keys(g[j].heap), n)
  <2>. DEFINE s == g[j]
  <2>1. s.heap \in Heap /\ Len(s.heap.byAge) = n /\ s.at \in 1 .. n
    BY <1>6, PlaceFacts DEF SameRecords
  <2>2. Keys(s.heap) \in [1 .. n -> Nat] /\ UpOrder(Keys(s.heap), n, s.at)
    BY <1>6, <2>1, KeysType
  <2>. HIDE DEF s, n
  <2>3. s.at = 1 \/ ~ (Keys(s.heap)[s.at] < Keys(s.heap)[s.at \div 2])
    <3>1. CASE s.at = 1
      BY <3>1
    <3>2. CASE s.at # 1
      <4>1. s.at \div 2 \in 1 .. n
        BY <1>2, <2>1, <3>2
      <4>. QED  BY <1>7, <2>1, <3>2, <4>1, KeysType DEF UpDone, s
    <3>. QED  BY <3>1, <3>2
  <2>4. Order(Keys(s.heap), n)
    BY <1>2, <2>1, <2>2, <2>3, UpStopsOrdered
  <2>. QED  BY <2>4 DEF s
<1>. QED  BY <1>0, <1>6, <1>8

\* The places in a heap of n records.
PlaceIn(n) == {s \in Place : Len(s.heap.byAge) = n}

\* Child finds the older child.
LEMMA ChildIsOlder ==
    ASSUME NEW h \in Heap, NEW m \in 0 .. Len(h.byAge), NEW at \in Nat \ {0}, 2 * at <= m
    PROVE  /\ Child(h, at, m) \in 2 .. m /\ Child(h, at, m) \div 2 = at
           /\ Child(h, at, m) \in 1 .. Len(h.byAge)
           /\ \A i \in 2 .. m : i \div 2 = at => Keys(h)[Child(h, at, m)] <= Keys(h)[i]
<1>. DEFINE n == Len(h.byAge)
<1>1. n \in Nat /\ Keys(h) \in [1 .. n -> Nat] /\ m \in Nat
  BY HeapFacts, KeysType
<1>2. 2 * at \in 1 .. n /\ 2 * at \in 2 .. m /\ (2 * at) \div 2 = at
  BY <1>1
<1>3. ASSUME 2 * at + 1 <= m
      PROVE  2 * at + 1 \in 1 .. n /\ 2 * at + 1 \in 2 .. m /\ (2 * at + 1) \div 2 = at
  BY <1>1, <1>3
<1>4. ASSUME NEW i \in 2 .. m, i \div 2 = at PROVE i = 2 * at \/ i = 2 * at + 1
  BY <1>1, <1>4
<1>5. ASSUME 2 * at + 1 <= m
      PROVE  Less(h, 2 * at + 1, 2 * at) <=> Keys(h)[2 * at + 1] < Keys(h)[2 * at]
  BY <1>2, <1>3, <1>5, KeysType
<1>. HIDE DEF n
<1>6. CASE 2 * at + 1 <= m /\ Less(h, 2 * at + 1, 2 * at)
  <2>1. Child(h, at, m) = 2 * at + 1
    BY <1>6 DEF Child
  <2>2. Keys(h)[2 * at + 1] \in Nat /\ Keys(h)[2 * at] \in Nat /\ Keys(h)[2 * at + 1] <= Keys(h)[2 * at]
    BY <1>1, <1>2, <1>3, <1>5, <1>6
  <2>. QED  BY <1>3, <1>4, <1>6, <2>1, <2>2 DEF n
<1>7. CASE ~ (2 * at + 1 <= m /\ Less(h, 2 * at + 1, 2 * at))
  <2>1. Child(h, at, m) = 2 * at
    BY <1>7 DEF Child
  <2>2. Keys(h)[2 * at] \in Nat
    BY <1>1, <1>2
  <2>3. ASSUME 2 * at + 1 <= m
        PROVE  Keys(h)[2 * at + 1] \in Nat /\ Keys(h)[2 * at] <= Keys(h)[2 * at + 1]
    BY <1>1, <1>3, <1>5, <1>7, <2>2, <2>3
  <2>4. ASSUME NEW i \in 2 .. m, i \div 2 = at PROVE Keys(h)[2 * at] <= Keys(h)[i]
    <3>1. CASE i = 2 * at
      BY <2>2, <3>1
    <3>2. CASE i = 2 * at + 1
      BY <1>1, <2>3, <3>2
    <3>. QED  BY <1>4, <2>4, <3>1, <3>2
  <2>. QED  BY <1>2, <2>1, <2>4 DEF n
<1>. QED  BY <1>6, <1>7

\* The loop of down stops here.
DownDone(s, m) == 2 * s.at > m \/ ~ Less(s.heap, Child(s.heap, s.at, m), s.at)

\* A round of down stops, or exchanges its record and the older child.
LEMMA DownRoundHeap ==
    ASSUME NEW n \in Nat, NEW m \in 0 .. n, NEW s \in PlaceIn(n)
    PROVE  /\ DownRound(s, m) \in PlaceIn(n)
           /\ SameRecords(DownRound(s, m).heap, s.heap)
           /\ DownDone(s, m) => DownRound(s, m) = s
           /\ ~ DownDone(s, m) =>
                 LET j == Child(s.heap, s.at, m)
                 IN  /\ j \in 2 .. m /\ j \div 2 = s.at /\ Keys(s.heap)[j] < Keys(s.heap)[s.at]
                     /\ DownRound(s, m) = [heap |-> Swap(s.heap, s.at, j), at |-> j]
<1>. DEFINE j == Child(s.heap, s.at, m)
<1>1. s \in Place /\ Len(s.heap.byAge) = n
  BY DEF PlaceIn
<1>2. s.heap \in Heap /\ s.at \in 1 .. n /\ DOMAIN s.heap.byAge = 1 .. n
  BY <1>1, PlaceFacts, HeapFacts
<1>3. CASE DownDone(s, m)
  BY <1>1, <1>2, <1>3 DEF DownDone, DownRound, SameRecords
<1>4. CASE ~ DownDone(s, m)
  <2>1. DownRound(s, m) = [heap |-> Swap(s.heap, s.at, j), at |-> j]
    BY <1>4 DEF DownDone, DownRound
  <2>2. 2 * s.at <= m /\ Less(s.heap, j, s.at) /\ s.at \in Nat \ {0}
    BY <1>2, <1>4 DEF DownDone
  <2>3. j \in 2 .. m /\ j \div 2 = s.at /\ j \in 1 .. n
    BY <1>1, <1>2, <2>2, ChildIsOlder
  <2>. HIDE DEF j
  <2>4. Keys(s.heap)[j] < Keys(s.heap)[s.at]
    BY <1>1, <1>2, <2>2, <2>3, KeysType
  <2>5. SameRecords(Swap(s.heap, s.at, j), s.heap)
    <3>1. s.at \in DOMAIN s.heap.byAge /\ j \in DOMAIN s.heap.byAge
      BY <1>2, <2>3
    <3>. QED  BY <1>2, <3>1, SwapHeap, Zenon
  <2>6. DownRound(s, m) \in PlaceIn(n)
    <3>1. Swap(s.heap, s.at, j) \in Heap /\ Len(Swap(s.heap, s.at, j).byAge) = n
      BY <1>1, <2>5 DEF SameRecords
    <3>2. j \in DOMAIN Swap(s.heap, s.at, j).byAge
      BY <2>3, <3>1, HeapFacts
    <3>. QED  BY <2>1, <2>3, <3>1, <3>2 DEF PlaceIn, Place
  <2>. QED  BY <1>4, <2>1, <2>3, <2>4, <2>5, <2>6 DEF j
<1>. QED  BY <1>3, <1>4

\* A run of the loop of down among the first m records.
DownRun(g, h, i, m) ==
    /\ \A k \in Nat : g[k] \in PlaceIn(Len(h.byAge))
    /\ g[0] = [heap |-> h, at |-> i]
    /\ \A k \in Nat : g[k + 1] = DownRound(g[k], m)

\* down is a sequence of its rounds.
LEMMA DownUnfolds ==
    ASSUME NEW h \in Heap, NEW i \in DOMAIN h.byAge, NEW m \in 0 .. Len(h.byAge)
    PROVE  \E g : DownRun(g, h, i, m) /\ Down(h, i, m) = g[m].heap
<1>. DEFINE S == PlaceIn(Len(h.byAge))
            start == [heap |-> h, at |-> i]
            IsLoop(f) == f = [k \in Nat |-> IF k = 0 THEN start ELSE DownRound(f[k - 1], m)]
            F == [s \in S |-> DownRound(s, m)]
<1>1. start \in S /\ F \in [S -> S]
  <2>1. Len(h.byAge) \in Nat /\ start \in S
    BY HeapFacts DEF Place, PlaceIn
  <2>2. \A s \in S : DownRound(s, m) \in S
    BY <2>1, DownRoundHeap
  <2>. HIDE DEF S, start
  <2>. QED  BY <2>1, <2>2
<1>2. PICK e : e \in [Nat -> S] /\ e[0] = start /\ \A k \in Nat : e[k + 1] = F[e[k]]
  <2>. HIDE DEF F, S, start
  <2>1. PICK e : IsIteration(e, S, F, start)
    BY <1>1, IterationExists
  <2>. QED  BY <2>1 DEF IsIteration
<1>. HIDE DEF S
<1>3. IsLoop(e)
  <2>1. ASSUME NEW k \in Nat PROVE e[k] = IF k = 0 THEN start ELSE DownRound(e[k - 1], m)
    <3>1. CASE k = 0
      BY <1>2, <3>1
    <3>2. CASE k # 0
      <4>1. k - 1 \in Nat /\ (k - 1) + 1 = k
        BY <3>2
      <4>. QED  BY <1>2, <3>2, <4>1
    <3>. QED  BY <3>1, <3>2
  <2>. HIDE DEF start
  <2>. QED  BY <2>1, <1>2
<1>4. PICK g : IsLoop(g) /\ Down(h, i, m) = g[m].heap
  BY <1>3, Zenon DEF Down, Rounds
<1>5. g[0] = start /\ \A k \in Nat : g[k + 1] = DownRound(g[k], m)
  <2>1. \A k \in Nat : g[k] = IF k = 0 THEN start ELSE DownRound(g[k - 1], m)
    BY <1>4, Zenon
  <2>2. \A k \in Nat : k + 1 \in Nat /\ k + 1 # 0 /\ (k + 1) - 1 = k
    OBVIOUS
  <2>. HIDE DEF start
  <2>. QED  BY <2>1, <2>2, Zenon
<1>6. \A k \in Nat : g[k] \in S
  <2>. DEFINE T == {k \in Nat : g[k] \in S}
  <2>1. 0 \in T /\ \A k \in T : k + 1 \in T
    <3>. HIDE DEF start
    <3>1. \A s \in S : DownRound(s, m) \in S
      BY DownRoundHeap, HeapFacts DEF S
    <3>2. g[0] \in S /\ \A k \in Nat : g[k] \in S => g[k + 1] \in S
      BY <1>1, <1>5, <3>1, Zenon
    <3>. QED  BY <3>2
  <2>. HIDE DEF T
  <2>2. Nat \subseteq T
    BY <2>1, NatAll
  <2>. QED  BY <2>2 DEF T
<1>7. DownRun(g, h, i, m)
  BY <1>5, <1>6 DEF DownRun, S
<1>. QED  BY <1>4, <1>7

\* A round of down stops, or moves on; it keeps the order and the records above m.
LEMMA DownRoundStep ==
    ASSUME NEW n \in Nat, NEW m \in 0 .. n, NEW s \in PlaceIn(n), DownOrder(Keys(s.heap), m, s.at)
    PROVE  /\ DownOrder(Keys(DownRound(s, m).heap), m, DownRound(s, m).at)
           /\ \A i \in m + 1 .. n : DownRound(s, m).heap.byAge[i] = s.heap.byAge[i]
           /\ IF DownDone(s, m) THEN DownRound(s, m) = s ELSE DownRound(s, m).at > s.at
<1>. DEFINE j == Child(s.heap, s.at, m)
            r == DownRound(s, m)
<1>1. CASE DownDone(s, m)
  <2>1. r = s
    BY <1>1, DownRoundHeap
  <2>. QED  BY <1>1, <2>1
<1>2. CASE ~ DownDone(s, m)
  <2>1. /\ j \in 2 .. m /\ j \div 2 = s.at /\ Keys(s.heap)[j] < Keys(s.heap)[s.at]
        /\ r = [heap |-> Swap(s.heap, s.at, j), at |-> j]
        /\ r \in PlaceIn(n)
    BY <1>2, DownRoundHeap
  <2>2. /\ s.heap \in Heap /\ Len(s.heap.byAge) = n /\ DOMAIN s.heap.byAge = 1 .. n
        /\ s.at \in 1 .. n /\ s.at \in Nat \ {0}
        /\ r.heap \in Heap /\ Len(r.heap.byAge) = n
    BY <2>1, PlaceFacts, HeapFacts DEF PlaceIn
  <2>3. \A i \in 2 .. m : i \div 2 = s.at => Keys(s.heap)[j] <= Keys(s.heap)[i]
    <3>1. 2 * s.at <= m
      BY <1>2, <2>2 DEF DownDone
    <3>. QED  BY <2>2, <3>1, ChildIsOlder
  <2>. HIDE DEF j, r
  <2>4. s.at \in DOMAIN s.heap.byAge /\ j \in DOMAIN s.heap.byAge /\ j > s.at /\ s.at <= m
    BY <2>1, <2>2
  <2>5. Keys(s.heap) \in [1 .. n -> Nat] /\ Keys(r.heap) \in [1 .. n -> Nat]
    BY <2>2, KeysType
  <2>6. Keys(r.heap) = [Keys(s.heap) EXCEPT ![s.at] = Keys(s.heap)[j], ![j] = Keys(s.heap)[s.at]]
    BY <2>1, <2>2, <2>4, KeysSwap
  <2>7. DownOrder(Keys(r.heap), m, j)
    <3>. DEFINE K == Keys(s.heap)
                L == Keys(r.heap)
    <3>1. /\ K \in [1 .. n -> Nat] /\ L \in [1 .. n -> Nat]
          /\ L = [K EXCEPT ![s.at] = K[j], ![j] = K[s.at]]
          /\ \A i \in 2 .. m : i \div 2 = s.at => K[j] <= K[i]
          /\ DownOrder(K, m, s.at) /\ K[j] < K[s.at]
      BY <2>1, <2>3, <2>5, <2>6
    <3>2. s.at \in 1 .. n /\ j \in 2 .. m /\ j \div 2 = s.at
      BY <2>1, <2>2
    <3>. HIDE DEF K, L
    <3>3. DownOrder(L, m, j)
      BY <3>1, <3>2, DownRoundOrder
    <3>. QED  BY <3>3 DEF L
  <2>8. r.heap.byAge = [s.heap.byAge EXCEPT ![s.at] = s.heap.byAge[j], ![j] = s.heap.byAge[s.at]]
    BY <2>1, <2>2, <2>4, SwapHeap
  <2>9. \A i \in m + 1 .. n : r.heap.byAge[i] = s.heap.byAge[i]
    BY <2>1, <2>2, <2>4, <2>8
  <2>. QED  BY <1>2, <2>1, <2>4, <2>7, <2>9 DEF r
<1>. QED  BY <1>1, <1>2

\* down puts the first m records in order when its record was the only one out of place.
LEMMA DownOrdered ==
    ASSUME NEW h \in Heap, NEW i \in DOMAIN h.byAge, NEW m \in 0 .. Len(h.byAge), DownOrder(Keys(h), m, i)
    PROVE  /\ SameRecords(Down(h, i, m), h)
           /\ Order(Keys(Down(h, i, m)), m)
           /\ \A l \in m + 1 .. Len(h.byAge) : Down(h, i, m).byAge[l] = h.byAge[l]
<1>. DEFINE n == Len(h.byAge)
            Good(s, k) == /\ SameRecords(s.heap, h)
                          /\ DownOrder(Keys(s.heap), m, s.at)
                          /\ \A l \in m + 1 .. n : s.heap.byAge[l] = h.byAge[l]
                          /\ DownDone(s, m) \/ s.at >= i + k
            T == [k \in Nat |-> {s \in PlaceIn(n) : Good(s, k)}]
<1>0. PICK g : DownRun(g, h, i, m) /\ Down(h, i, m) = g[m].heap
  BY DownUnfolds
<1>1. /\ \A k \in Nat : g[k] \in PlaceIn(n)
      /\ g[0] = [heap |-> h, at |-> i]
      /\ \A k \in Nat : g[k + 1] = DownRound(g[k], m)
  BY <1>0 DEF DownRun
<1>2. i \in Nat /\ i \in 1 .. n /\ n \in Nat /\ m \in Nat
  BY HeapFacts
<1>3. g[0] \in T[0]
  <2>1. Good([heap |-> h, at |-> i], 0)
    BY <1>2 DEF SameRecords
  <2>. HIDE DEF Good
  <2>. QED  BY <1>1, <2>1
<1>4. ASSUME NEW k \in Nat, g[k] \in T[k] PROVE g[k + 1] \in T[k + 1]
  <2>. DEFINE s == g[k]
              r == g[k + 1]
  <2>0. k + 1 \in Nat
    OBVIOUS
  <2>1. s \in PlaceIn(n) /\ r \in PlaceIn(n) /\ r = DownRound(s, m)
    BY <1>1, <2>0, Zenon
  <2>2. Good(s, k)
    BY <1>4
  <2>. HIDE DEF s, r
  <2>3. s.at \in Nat /\ r.at \in Nat
    BY <2>1, PlaceFacts DEF PlaceIn
  <2>. HIDE DEF n
  <2>4. /\ DownOrder(Keys(r.heap), m, r.at)
        /\ \A l \in m + 1 .. n : r.heap.byAge[l] = s.heap.byAge[l]
        /\ IF DownDone(s, m) THEN r = s ELSE r.at > s.at
    <3>1. m \in 0 .. n
      BY DEF n
    <3>. QED  BY <1>2, <2>1, <2>2, <3>1, DownRoundStep
  <2>5. SameRecords(r.heap, h)
    <3>1. m \in 0 .. n
      BY DEF n
    <3>2. SameRecords(r.heap, s.heap)
      BY <1>2, <2>1, <3>1, DownRoundHeap
    <3>. QED  BY <2>2, <3>2 DEF SameRecords
  <2>6. \A l \in m + 1 .. n : r.heap.byAge[l] = h.byAge[l]
    BY <2>2, <2>4
  <2>7. DownDone(r, m) \/ r.at >= i + (k + 1)
    BY <1>2, <2>2, <2>3, <2>4
  <2>8. Good(r, k + 1)
    BY <2>4, <2>5, <2>6, <2>7
  <2>. HIDE DEF Good
  <2>. QED  BY <2>0, <2>1, <2>8 DEF r
<1>. HIDE DEF T
<1>5. \A k \in Nat : g[k] \in T[k]
  BY <1>3, <1>4, IterationInvariant
<1>6. g[m] \in PlaceIn(n) /\ Good(g[m], m)
  BY <1>2, <1>5 DEF T
<1>. DEFINE s == g[m]
<1>7. s.heap \in Heap /\ Len(s.heap.byAge) = n /\ s.at \in 1 .. n /\ s.at \in Nat \ {0}
  BY <1>2, <1>6, PlaceFacts DEF PlaceIn
<1>8. DownDone(s, m)
  <2>. HIDE DEF n, s
  <2>1. DownDone(s, m) \/ s.at >= i + m
    BY <1>6 DEF s
  <2>. QED  BY <1>2, <1>7, <2>1 DEF DownDone
<1>9. \A l \in 2 .. m : l \div 2 = s.at => Keys(s.heap)[s.at] <= Keys(s.heap)[l]
  <2>. SUFFICES ASSUME NEW l \in 2 .. m, l \div 2 = s.at PROVE Keys(s.heap)[s.at] <= Keys(s.heap)[l]
    OBVIOUS
  <2>. DEFINE j == Child(s.heap, s.at, m)
  <2>. HIDE DEF s
  <2>1. 2 * s.at <= m /\ l \in 1 .. n
    BY <1>2, <1>7
  <2>2. j \in 1 .. n /\ Keys(s.heap)[j] <= Keys(s.heap)[l]
    BY <1>7, <2>1, ChildIsOlder
  <2>. HIDE DEF j
  <2>3. ~ Less(s.heap, j, s.at)
    BY <1>2, <1>7, <1>8, <2>1 DEF DownDone, j
  <2>4. ~ (Keys(s.heap)[j] < Keys(s.heap)[s.at]) /\ Keys(s.heap) \in [1 .. n -> Nat]
    BY <1>7, <2>2, <2>3, KeysType
  <2>5. Keys(s.heap)[j] \in Nat /\ Keys(s.heap)[l] \in Nat /\ Keys(s.heap)[s.at] \in Nat
    BY <1>7, <2>1, <2>2, <2>4
  <2>. QED  BY <2>2, <2>4, <2>5
<1>10. Order(Keys(s.heap), m)
  <2>1. Keys(s.heap) \in [1 .. n -> Nat] /\ DownOrder(Keys(s.heap), m, s.at)
    BY <1>6, <1>7, KeysType
  <2>. HIDE DEF s
  <2>. QED  BY <1>2, <1>7, <1>9, <2>1, DownStopsOrdered
<1>. QED  BY <1>0, <1>6, <1>10

-----------------------------------------------------------------------------
(* The operations of remoteMapInner *)

\* A remoteMapInner between two operations.
OrderedHeap == {h \in Heap : Order(Keys(h), Len(h.byAge))}

\* An order by position gives the order that up and down start from.
LEMMA OrderStarts ==
    ASSUME NEW n \in Nat, NEW K \in [1 .. n -> Nat], Order(K, n), NEW i \in 1 .. n
    PROVE  /\ UpOrder(K, n, i)
           /\ \A t \in Nat : t >= K[i] => DownOrder([K EXCEPT ![i] = t], n, i)
<1>1. ASSUME NEW c \in 2 .. n, c \div 2 = i, i > 1 PROVE K[i \div 2] <= K[i] /\ K[i] <= K[c] /\ K[i \div 2] <= K[c]
  <2>1. i \in 2 .. n /\ i \div 2 \in 1 .. n /\ c \in 1 .. n
    BY <1>1
  <2>2. K[i \div 2] <= K[i] /\ K[i] <= K[c]
    BY <1>1, <2>1 DEF Order
  <2>3. K[i \div 2] \in Nat /\ K[i] \in Nat /\ K[c] \in Nat
    BY <1>1, <2>1
  <2>. QED  BY <2>2, <2>3
<1>2. UpOrder(K, n, i)
  BY <1>1 DEF UpOrder, Order
<1>3. ASSUME NEW t \in Nat, t >= K[i] PROVE DownOrder([K EXCEPT ![i] = t], n, i)
  <2>. DEFINE L == [K EXCEPT ![i] = t]
  <2>1. \A c \in 1 .. n : L[c] = IF c = i THEN t ELSE K[c]
    OBVIOUS
  <2>. HIDE DEF L
  <2>2. ASSUME NEW c \in 2 .. n, c \div 2 # i PROVE L[c \div 2] <= L[c]
    <3>1. c \in 1 .. n /\ c \div 2 \in 1 .. n
      OBVIOUS
    <3>2. K[c \div 2] <= K[c] /\ K[c] \in Nat /\ K[c \div 2] \in Nat
      BY <3>1 DEF Order
    <3>3. L[c \div 2] = K[c \div 2] /\ (L[c] = K[c] \/ (c = i /\ L[c] = t))
      BY <2>1, <2>2, <3>1
    <3>. QED  BY <1>3, <3>2, <3>3
  <2>3. ASSUME NEW c \in 2 .. n, c \div 2 = i, i > 1 PROVE L[i \div 2] <= L[c]
    <3>1. c \in 1 .. n /\ c # i /\ i \div 2 \in 1 .. n /\ i \div 2 # i
      BY <2>3
    <3>2. L[c] = K[c] /\ L[i \div 2] = K[i \div 2]
      BY <2>1, <3>1
    <3>. QED  BY <1>1, <2>3, <3>2
  <2>4. DownOrder(L, n, i)
    BY <2>2, <2>3 DEF DownOrder
  <2>. QED  BY <2>4 DEF L
<1>. QED  BY <1>2, <1>3

\* Fix restores the order after a record has been stamped with a later time.
LEMMA HeapFixOrdered ==
    ASSUME NEW h \in OrderedHeap, NEW i \in DOMAIN h.byAge, NEW t \in Nat, h.byAge[i].lastSeen <= t
    PROVE  LET g == HeapFix(Stamp(h, i, t), i)
           IN  g \in OrderedHeap /\ Seen(g) = [Seen(h) EXCEPT ![h.byAge[i].addr] = t]
<1>. DEFINE n == Len(h.byAge)
            f == Stamp(h, i, t)
            d == Down(f, i, n)
<1>1. /\ h \in Heap /\ n \in Nat /\ i \in 1 .. n /\ DOMAIN h.byAge = 1 .. n
      /\ Order(Keys(h), n) /\ Keys(h) \in [1 .. n -> Nat]
  BY HeapFacts, KeysType DEF OrderedHeap
<1>2. /\ f \in Heap /\ f.byAge = [h.byAge EXCEPT ![i].lastSeen = t] /\ Len(f.byAge) = n
      /\ Seen(f) = [Seen(h) EXCEPT ![h.byAge[i].addr] = t]
  BY <1>1, StampHeap
<1>. HIDE DEF f
<1>3. i \in DOMAIN f.byAge /\ n \in 0 .. Len(f.byAge)
  BY <1>1, <1>2, HeapFacts
<1>4. Keys(f) = [Keys(h) EXCEPT ![i] = t]
  <2>1. \A k \in 1 .. n : h.byAge[k] \in Record
    BY <1>1, HeapFacts
  <2>. QED  BY <1>1, <1>2, <2>1 DEF Keys, Record
<1>5. DownOrder(Keys(f), n, i)
  <2>1. t >= Keys(h)[i]
    BY <1>1 DEF Keys
  <2>. HIDE DEF n
  <2>2. DownOrder([Keys(h) EXCEPT ![i] = t], n, i)
    BY <1>1, <2>1, OrderStarts, Zenon
  <2>. QED  BY <1>4, <2>2
<1>6. SameRecords(d, f) /\ Order(Keys(d), n)
  BY <1>2, <1>3, <1>5, DownOrdered
<1>7. CASE d = f
  <2>1. UpOrder(Keys(f), n, i)
    <3>1. Keys(f) \in [1 .. n -> Nat]
      BY <1>2, KeysType
    <3>. QED  BY <1>1, <1>6, <1>7, <3>1, OrderStarts
  <2>2. SameRecords(Up(f, i), f) /\ Order(Keys(Up(f, i)), n)
    BY <1>2, <1>3, <2>1, UpOrdered
  <2>3. HeapFix(f, i) = Up(f, i)
    BY <1>2, <1>7 DEF HeapFix
  <2>. QED  BY <1>2, <2>2, <2>3 DEF SameRecords, OrderedHeap, f
<1>8. CASE d # f
  <2>1. HeapFix(f, i) = d
    BY <1>2, <1>8 DEF HeapFix
  <2>. QED  BY <1>2, <1>6, <2>1 DEF SameRecords, OrderedHeap, f
<1>. QED  BY <1>7, <1>8

\* heap.Push adds a record and keeps the order.
LEMMA HeapPushOrdered ==
    ASSUME NEW h \in OrderedHeap, NEW r \in Record, r.addr \notin DOMAIN h.byAddr
    PROVE  /\ HeapPush(h, r) \in OrderedHeap
           /\ Seen(HeapPush(h, r)) = [a \in DOMAIN h.byAddr \cup {r.addr} |->
                                        IF a = r.addr THEN r.lastSeen ELSE Seen(h)[a]]
<1>. DEFINE n == Len(h.byAge)
            g == Push(h, r)
<1>1. /\ h \in Heap /\ n \in Nat /\ h.byAge \in Seq(Record) /\ DOMAIN h.byAge = 1 .. n
      /\ Order(Keys(h), n) /\ Keys(h) \in [1 .. n -> Nat]
  BY HeapFacts, KeysType DEF OrderedHeap
<1>2. /\ g \in Heap /\ g.byAge = Append(h.byAge, r) /\ Len(g.byAge) = n + 1
      /\ Seen(g) = [a \in DOMAIN h.byAddr \cup {r.addr} |->
                        IF a = r.addr THEN r.lastSeen ELSE Seen(h)[a]]
  BY <1>1, PushHeap
<1>. HIDE DEF g
<1>3. DOMAIN g.byAge = 1 .. n + 1 /\ n + 1 \in DOMAIN g.byAge
  BY <1>1, <1>2, HeapFacts
<1>4. \A k \in 1 .. n : Keys(g)[k] = Keys(h)[k]
  BY <1>1, <1>2, <1>3 DEF Keys
<1>. HIDE DEF n
<1>5. UpOrder(Keys(g), n + 1, n + 1)
  <2>1. ASSUME NEW i \in 2 .. n + 1, i # n + 1 PROVE Keys(g)[i \div 2] <= Keys(g)[i]
    <3>1. i \in 2 .. n /\ i \in 1 .. n /\ i \div 2 \in 1 .. n
      BY <1>1, <2>1
    <3>. QED  BY <1>1, <1>4, <3>1 DEF Order
  <2>2. \A i \in 2 .. n + 1 : i \div 2 # n + 1
    BY <1>1
  <2>. QED  BY <2>1, <2>2 DEF UpOrder
<1>6. SameRecords(Up(g, n + 1), g) /\ Order(Keys(Up(g, n + 1)), n + 1)
  BY <1>2, <1>3, <1>5, UpOrdered
<1>7. HeapPush(h, r) = Up(g, n + 1)
  BY <1>2 DEF HeapPush, g
<1>. QED  BY <1>2, <1>6, <1>7 DEF SameRecords, OrderedHeap

\* The table has the records of the heap.
LEMMA SeenFacts ==
    ASSUME NEW h \in Heap
    PROVE  /\ DOMAIN Seen(h) = DOMAIN h.byAddr /\ DOMAIN Seen(h) \subseteq Addr
           /\ \A i \in 1 .. Len(h.byAge) : /\ h.byAge[i].addr \in DOMAIN Seen(h)
                                           /\ Seen(h)[h.byAge[i].addr] = Keys(h)[i]
           /\ \A a \in DOMAIN Seen(h) : \E i \in 1 .. Len(h.byAge) : /\ h.byAge[i].addr = a
                                                                   /\ Seen(h)[a] = Keys(h)[i]
           /\ Seen(h) \in [DOMAIN Seen(h) -> Nat]
<1>. DEFINE n == Len(h.byAge)
<1>1. /\ n \in Nat /\ DOMAIN h.byAge = 1 .. n /\ h.byAge \in [1 .. n -> Record]
      /\ DOMAIN h.byAddr = {h.byAge[k].addr : k \in 1 .. n}
      /\ \A k \in 1 .. n : h.byAddr[h.byAge[k].addr] = k
      /\ Keys(h) \in [1 .. n -> Nat]
  BY HeapFacts, KeysType DEF Consistent
<1>. HIDE DEF n
<1>2. DOMAIN Seen(h) = DOMAIN h.byAddr
  BY DEF Seen
<1>3. DOMAIN h.byAddr \subseteq Addr
  BY <1>1 DEF Record
<1>4. \A i \in 1 .. n : h.byAge[i].addr \in DOMAIN Seen(h) /\ Seen(h)[h.byAge[i].addr] = Keys(h)[i]
  BY <1>1 DEF Seen, Keys
<1>5. \A a \in DOMAIN Seen(h) : \E i \in 1 .. n : h.byAge[i].addr = a /\ Seen(h)[a] = Keys(h)[i]
  <2>. SUFFICES ASSUME NEW a \in DOMAIN Seen(h)
                PROVE  \E i \in 1 .. n : h.byAge[i].addr = a /\ Seen(h)[a] = Keys(h)[i]
    OBVIOUS
  <2>1. PICK i \in 1 .. n : h.byAge[i].addr = a
    BY <1>1, <1>2
  <2>. QED  BY <1>4, <2>1
<1>6. Seen(h) \in [DOMAIN Seen(h) -> Nat]
  <2>1. \A a \in DOMAIN Seen(h) : Seen(h)[a] \in Nat
    BY <1>1, <1>5
  <2>2. Seen(h) = [a \in DOMAIN Seen(h) |-> Seen(h)[a]]
    BY DEF Seen
  <2>. QED  BY <2>1, <2>2
<1>. QED  BY <1>2, <1>3, <1>4, <1>5, <1>6 DEF n

\* heap.Pop removes the first record and keeps the order.
LEMMA HeapPopOrdered ==
    ASSUME NEW h \in OrderedHeap, Len(h.byAge) > 0
    PROVE  /\ HeapPop(h) \in OrderedHeap
           /\ Len(HeapPop(h).byAge) = Len(h.byAge) - 1
           /\ Seen(HeapPop(h)) = [a \in DOMAIN Seen(h) \ {h.byAge[1].addr} |-> Seen(h)[a]]
<1>. DEFINE n == Len(h.byAge)
            w == Swap(h, 1, n)
            d == Down(w, 1, n - 1)
<1>1. /\ h \in Heap /\ n \in Nat /\ n - 1 \in Nat /\ DOMAIN h.byAge = 1 .. n
      /\ 1 \in 1 .. n /\ n \in 1 .. n
      /\ Order(Keys(h), n) /\ Keys(h) \in [1 .. n -> Nat]
  BY HeapFacts, KeysType DEF OrderedHeap
<1>2. /\ SameRecords(w, h)
      /\ w.byAge = [h.byAge EXCEPT ![1] = h.byAge[n], ![n] = h.byAge[1]]
  BY <1>1, SwapHeap
<1>3. Keys(w) = [Keys(h) EXCEPT ![1] = Keys(h)[n], ![n] = Keys(h)[1]]
  BY <1>1, KeysSwap
<1>. HIDE DEF w
<1>4. w.byAge[n] = h.byAge[1] /\ \A i \in 2 .. n - 1 : Keys(w)[i] = Keys(h)[i]
  BY <1>1, <1>2, <1>3
<1>5. w \in Heap /\ Len(w.byAge) = n /\ Seen(w) = Seen(h) /\ DOMAIN w.byAge = 1 .. n
  BY <1>2, HeapFacts DEF SameRecords
<1>. HIDE DEF n
<1>6. DownOrder(Keys(w), n - 1, 1)
  <2>1. ASSUME NEW i \in 2 .. n - 1, i \div 2 # 1 PROVE Keys(w)[i \div 2] <= Keys(w)[i]
    <3>1. i \div 2 \in 2 .. n - 1 /\ i \in 2 .. n
      BY <1>1, <2>1
    <3>. QED  BY <1>1, <1>4, <3>1 DEF Order
  <2>. QED  BY <2>1 DEF DownOrder
<1>7. /\ SameRecords(d, w) /\ Order(Keys(d), n - 1)
      /\ d.byAge[n] = w.byAge[n]
  <2>1. n - 1 \in 0 .. Len(w.byAge) /\ 1 \in DOMAIN w.byAge /\ n \in (n - 1) + 1 .. Len(w.byAge)
    BY <1>1, <1>5
  <2>. QED  BY <1>5, <1>6, <2>1, DownOrdered
<1>. HIDE DEF d
<1>8. /\ d \in Heap /\ Len(d.byAge) = n /\ Seen(d) = Seen(h) /\ d.byAge[n] = h.byAge[1]
      /\ d.byAge \in Seq(Record) /\ DOMAIN d.byAge = 1 .. n
  BY <1>4, <1>5, <1>7, HeapFacts DEF SameRecords
<1>9. /\ Pop(d) \in Heap /\ Pop(d).byAge = SubSeq(d.byAge, 1, n - 1)
      /\ Len(Pop(d).byAge) = n - 1
      /\ Seen(Pop(d)) = [a \in DOMAIN d.byAddr \ {d.byAge[n].addr} |-> Seen(d)[a]]
  <2>1. Len(d.byAge) > 0
    BY <1>1, <1>8
  <2>. QED  BY <1>8, <2>1, PopHeap
<1>10. DOMAIN d.byAddr = DOMAIN Seen(h)
  BY <1>8, SeenFacts
<1>11. Order(Keys(Pop(d)), n - 1)
  <2>1. DOMAIN Pop(d).byAge = 1 .. n - 1
    BY <1>9, HeapFacts
  <2>2. \A i \in 1 .. n - 1 : Pop(d).byAge[i] = d.byAge[i]
    <3>1. \A i \in 1 .. n - 1 : SubSeq(d.byAge, 1, n - 1)[i] = d.byAge[i]
      BY <1>1, <1>8
    <3>. QED  BY <1>9, <3>1
  <2>3. \A i \in 1 .. n - 1 : Keys(Pop(d))[i] = Keys(d)[i]
    BY <1>1, <1>8, <2>1, <2>2 DEF Keys
  <2>4. \A i \in 2 .. n - 1 : i \in 1 .. n - 1 /\ i \div 2 \in 1 .. n - 1
    BY <1>1
  <2>. QED  BY <1>7, <2>3, <2>4 DEF Order
<1>12. HeapPop(h) = Pop(d)
  BY DEF HeapPop, n, w, d
<1>. QED  BY <1>8, <1>9, <1>10, <1>11, <1>12 DEF OrderedHeap, n

\* Lookup of an address at a time no record is younger than.
LEMMA LookupInnerTable ==
    ASSUME NEW h \in OrderedHeap, NEW addr \in Addr, NEW t \in Nat,
           \A i \in DOMAIN h.byAge : h.byAge[i].lastSeen <= t
    PROVE  /\ LookupInner(h, addr, t) \in OrderedHeap
           /\ Seen(LookupInner(h, addr, t)) =
                  [a \in DOMAIN Seen(h) \cup {addr} |-> IF a = addr THEN t ELSE Seen(h)[a]]
<1>1. h \in Heap /\ DOMAIN Seen(h) = DOMAIN h.byAddr
  BY SeenFacts DEF OrderedHeap
<1>2. CASE addr \in DOMAIN h.byAddr
  <2>. DEFINE i == h.byAddr[addr]
  <2>1. i \in DOMAIN h.byAge /\ h.byAge[i].addr = addr
    <3>1. PICK k \in DOMAIN h.byAge : h.byAge[k].addr = addr
      BY <1>1, <1>2, HeapFacts DEF Consistent
    <3>2. h.byAddr[h.byAge[k].addr] = k
      BY <1>1, HeapFacts DEF Consistent
    <3>. QED  BY <3>1, <3>2
  <2>2. LookupInner(h, addr, t) = HeapFix(Stamp(h, i, t), i)
    BY <1>2, Zenon DEF LookupInner, Stamp
  <2>. HIDE DEF i
  <2>3. /\ HeapFix(Stamp(h, i, t), i) \in OrderedHeap
        /\ Seen(HeapFix(Stamp(h, i, t), i)) = [Seen(h) EXCEPT ![addr] = t]
    BY <2>1, HeapFixOrdered
  <2>4. DOMAIN Seen(h) \cup {addr} = DOMAIN Seen(h)
    BY <1>1, <1>2
  <2>. QED  BY <2>2, <2>3, <2>4
<1>3. CASE addr \notin DOMAIN h.byAddr
  <2>. DEFINE r == [addr |-> addr, lastSeen |-> t]
  <2>1. r \in Record /\ r.addr = addr /\ r.lastSeen = t
    BY DEF Record
  <2>2. LookupInner(h, addr, t) = HeapPush(h, r)
    BY <1>3 DEF LookupInner
  <2>. HIDE DEF r
  <2>. QED  BY <1>1, <1>3, <2>1, <2>2, HeapPushOrdered
<1>. QED  BY <1>2, <1>3

\* The loop of removeExpired stops here.
ExpireDone(h, t) == h.byAge = <<>> \/ ~ (t - h.byAge[1].lastSeen >= Timeout)

\* A round of removeExpired.
LEMMA ExpireRoundStep ==
    ASSUME NEW h \in OrderedHeap, NEW t
    PROVE  /\ ExpireRound(h, t) \in OrderedHeap
           /\ ExpireDone(h, t) => ExpireRound(h, t) = h
           /\ ~ ExpireDone(h, t) =>
                 /\ Len(h.byAge) > 0 /\ Len(ExpireRound(h, t).byAge) = Len(h.byAge) - 1
                 /\ t - h.byAge[1].lastSeen >= Timeout
                 /\ Seen(ExpireRound(h, t)) = [a \in DOMAIN Seen(h) \ {h.byAge[1].addr} |-> Seen(h)[a]]
<1>1. CASE ExpireDone(h, t)
  BY <1>1 DEF ExpireRound, ExpireDone
<1>2. CASE ~ ExpireDone(h, t)
  <2>1. ExpireRound(h, t) = HeapPop(h) /\ t - h.byAge[1].lastSeen >= Timeout /\ h.byAge # <<>>
    BY <1>2 DEF ExpireRound, ExpireDone
  <2>2. Len(h.byAge) > 0
    <3>1. h.byAge \in Seq(Record)
      BY HeapFacts DEF OrderedHeap
    <3>. QED  BY <2>1, <3>1
  <2>. QED  BY <1>2, <2>1, <2>2, HeapPopOrdered
<1>. QED  BY <1>1, <1>2

\* A run of the loop of removeExpired.
ExpireRun(g, h, t) ==
    /\ \A k \in Nat : g[k] \in OrderedHeap
    /\ g[0] = h
    /\ \A k \in Nat : g[k + 1] = ExpireRound(g[k], t)

\* removeExpired is a sequence of its rounds.
LEMMA ExpireUnfolds ==
    ASSUME NEW h \in OrderedHeap, NEW t
    PROVE  \E g : ExpireRun(g, h, t) /\ removeExpired(h, t) = g[Len(h.byAge)]
<1>. DEFINE IsLoop(f) == f = [k \in Nat |-> IF k = 0 THEN h ELSE ExpireRound(f[k - 1], t)]
            F == [s \in OrderedHeap |-> ExpireRound(s, t)]
<1>1. F \in [OrderedHeap -> OrderedHeap]
  BY ExpireRoundStep
<1>2. PICK e : e \in [Nat -> OrderedHeap] /\ e[0] = h /\ \A k \in Nat : e[k + 1] = F[e[k]]
  <2>. HIDE DEF F
  <2>1. PICK e : IsIteration(e, OrderedHeap, F, h)
    BY <1>1, IterationExists
  <2>. QED  BY <2>1 DEF IsIteration
<1>3. IsLoop(e)
  <2>1. ASSUME NEW k \in Nat PROVE e[k] = IF k = 0 THEN h ELSE ExpireRound(e[k - 1], t)
    <3>1. CASE k = 0
      BY <1>2, <3>1
    <3>2. CASE k # 0
      <4>1. k - 1 \in Nat /\ (k - 1) + 1 = k
        BY <3>2
      <4>. QED  BY <1>2, <3>2, <4>1
    <3>. QED  BY <3>1, <3>2
  <2>. QED  BY <2>1, <1>2
<1>4. PICK g : IsLoop(g) /\ removeExpired(h, t) = g[Len(h.byAge)]
  BY <1>3, Zenon DEF removeExpired, Rounds
<1>5. g[0] = h /\ \A k \in Nat : g[k + 1] = ExpireRound(g[k], t)
  <2>1. \A k \in Nat : g[k] = IF k = 0 THEN h ELSE ExpireRound(g[k - 1], t)
    BY <1>4, Zenon
  <2>2. \A k \in Nat : k + 1 \in Nat /\ k + 1 # 0 /\ (k + 1) - 1 = k
    OBVIOUS
  <2>. QED  BY <2>1, <2>2, Zenon
<1>6. \A k \in Nat : g[k] \in OrderedHeap
  <2>. DEFINE T == {k \in Nat : g[k] \in OrderedHeap}
  <2>1. g[0] \in OrderedHeap /\ \A k \in Nat : g[k] \in OrderedHeap => g[k + 1] \in OrderedHeap
    BY <1>5, ExpireRoundStep
  <2>2. 0 \in T /\ \A k \in T : k + 1 \in T
    BY <2>1
  <2>. HIDE DEF T
  <2>3. Nat \subseteq T
    BY <2>2, NatAll
  <2>. QED  BY <2>3 DEF T
<1>7. ExpireRun(g, h, t)
  BY <1>5, <1>6 DEF ExpireRun
<1>. QED  BY <1>4, <1>7

\* removeExpired removes exactly what had expired at t.
LEMMA removeExpiredTable ==
    ASSUME NEW h \in OrderedHeap, NEW t \in Nat
    PROVE  /\ removeExpired(h, t) \in OrderedHeap
           /\ Seen(removeExpired(h, t)) =
                  [a \in {b \in DOMAIN Seen(h) : ~ (Seen(h)[b] + Timeout <= t)} |-> Seen(h)[a]]
<1>. DEFINE n == Len(h.byAge)
            Good(g, k) == /\ DOMAIN Seen(g) \subseteq DOMAIN Seen(h)
                          /\ \A a \in DOMAIN Seen(g) : Seen(g)[a] = Seen(h)[a]
                          /\ \A a \in DOMAIN Seen(h) \ DOMAIN Seen(g) : Seen(h)[a] + Timeout <= t
                          /\ ExpireDone(g, t) \/ Len(g.byAge) <= n - k
            T == [k \in Nat |-> {g \in OrderedHeap : Good(g, k)}]
<1>0. PICK g : ExpireRun(g, h, t) /\ removeExpired(h, t) = g[n]
  BY ExpireUnfolds
<1>1. /\ \A k \in Nat : g[k] \in OrderedHeap
      /\ g[0] = h
      /\ \A k \in Nat : g[k + 1] = ExpireRound(g[k], t)
  BY <1>0 DEF ExpireRun
<1>2. n \in Nat /\ h \in Heap /\ Timeout \in Nat /\ \A a \in DOMAIN Seen(h) : Seen(h)[a] \in Nat
  BY HeapFacts, SeenFacts, TimeAssumption, LagAssumption DEF OrderedHeap
<1>. HIDE DEF n
<1>3. g[0] \in T[0]
  <2>1. Good(h, 0)
    BY <1>2 DEF n
  <2>. HIDE DEF Good
  <2>. QED  BY <1>1, <2>1
<1>4. ASSUME NEW k \in Nat, g[k] \in T[k] PROVE g[k + 1] \in T[k + 1]
  <2>. DEFINE s == g[k]
              r == g[k + 1]
  <2>0. k + 1 \in Nat
    OBVIOUS
  <2>1. s \in OrderedHeap /\ r \in OrderedHeap /\ r = ExpireRound(s, t)
    BY <1>1, <2>0, Zenon
  <2>2. Good(s, k)
    BY <1>4
  <2>. HIDE DEF s, r
  <2>3. Len(s.byAge) \in Nat /\ s \in Heap
    BY <2>1, HeapFacts DEF OrderedHeap
  <2>4. CASE ExpireDone(s, t)
    <3>1. r = s
      BY <2>1, <2>4, ExpireRoundStep
    <3>2. Good(r, k + 1)
      BY <2>2, <2>4, <3>1
    <3>. HIDE DEF Good
    <3>. QED  BY <2>0, <2>1, <3>2 DEF r
  <2>5. CASE ~ ExpireDone(s, t)
    <3>. DEFINE a1 == s.byAge[1].addr
    <3>1. /\ Len(s.byAge) > 0 /\ Len(r.byAge) = Len(s.byAge) - 1
          /\ t - s.byAge[1].lastSeen >= Timeout
          /\ Seen(r) = [a \in DOMAIN Seen(s) \ {a1} |-> Seen(s)[a]]
      BY <2>1, <2>5, ExpireRoundStep
    <3>2. a1 \in DOMAIN Seen(s) /\ Seen(s)[a1] = s.byAge[1].lastSeen
      <4>1. 1 \in 1 .. Len(s.byAge) /\ 1 \in DOMAIN s.byAge
        BY <2>3, <3>1, HeapFacts
      <4>. QED  BY <2>3, <4>1, SeenFacts DEF Keys
    <3>. HIDE DEF a1
    <3>3. Seen(h)[a1] = s.byAge[1].lastSeen /\ Seen(h)[a1] \in Nat
      BY <1>2, <2>2, <3>2
    <3>4. Seen(h)[a1] + Timeout <= t
      BY <1>2, <3>1, <3>3
    <3>5. DOMAIN Seen(r) = DOMAIN Seen(s) \ {a1} /\ \A a \in DOMAIN Seen(r) : Seen(r)[a] = Seen(s)[a]
      BY <3>1
    <3>6. Len(r.byAge) <= n - (k + 1)
      BY <1>2, <2>2, <2>3, <2>5, <3>1
    <3>7. Good(r, k + 1)
      BY <2>2, <3>4, <3>5, <3>6
    <3>. HIDE DEF Good
    <3>. QED  BY <2>0, <2>1, <3>7 DEF r
  <2>. QED  BY <2>4, <2>5
<1>. HIDE DEF T
<1>5. \A k \in Nat : g[k] \in T[k]
  BY <1>3, <1>4, IterationInvariant
<1>. DEFINE r == g[n]
<1>6. r \in OrderedHeap /\ Good(r, n)
  BY <1>2, <1>5 DEF T
<1>. HIDE DEF r
<1>7. r \in Heap /\ Len(r.byAge) \in Nat /\ Order(Keys(r), Len(r.byAge))
  BY <1>6, HeapFacts DEF OrderedHeap
<1>8. \A a \in DOMAIN Seen(r) : ~ (Seen(r)[a] + Timeout <= t)
  <2>. SUFFICES ASSUME NEW a \in DOMAIN Seen(r) PROVE ~ (Seen(r)[a] + Timeout <= t)
    OBVIOUS
  <2>1. PICK i \in 1 .. Len(r.byAge) : Seen(r)[a] = Keys(r)[i]
    BY <1>7, SeenFacts
  <2>2. /\ 1 \in 1 .. Len(r.byAge) /\ 1 \in DOMAIN r.byAge /\ r.byAge # <<>>
        /\ ~ (Len(r.byAge) <= n - n)
    BY <1>2, <1>7, <2>1, HeapFacts
  <2>3. ExpireDone(r, t)
    BY <1>6, <2>2
  <2>4. ~ (t - Keys(r)[1] >= Timeout)
    BY <2>2, <2>3 DEF ExpireDone, Keys
  <2>5. Keys(r) \in [1 .. Len(r.byAge) -> Nat]
    BY <1>7, KeysType
  <2>6. Keys(r)[1] <= Keys(r)[i]
    BY <1>7, <2>5, FirstIsOldest
  <2>7. Keys(r)[1] \in Nat /\ Keys(r)[i] \in Nat
    BY <2>2, <2>5
  <2>. QED  BY <1>2, <2>1, <2>4, <2>6, <2>7
<1>9. DOMAIN Seen(r) = {b \in DOMAIN Seen(h) : ~ (Seen(h)[b] + Timeout <= t)}
  BY <1>6, <1>8
<1>10. Seen(r) = [a \in DOMAIN Seen(r) |-> Seen(r)[a]]
  BY DEF Seen
<1>11. Seen(r) = [a \in {b \in DOMAIN Seen(h) : ~ (Seen(h)[b] + Timeout <= t)} |-> Seen(h)[a]]
  BY <1>6, <1>9, <1>10
<1>. QED  BY <1>0, <1>6, <1>11 DEF r

\* The table of the refinement mapping is the table of the index.
LEMMA PeersOfIsSeen ==
    ASSUME NEW h \in Heap
    PROVE  PeersOf(h) = Seen(h)
<1>1. /\ DOMAIN h.byAddr = {h.byAge[i].addr : i \in DOMAIN h.byAge}
      /\ \A i \in DOMAIN h.byAge : h.byAddr[h.byAge[i].addr] = i
  BY HeapFacts DEF Consistent
<1>2. ASSUME NEW a \in DOMAIN h.byAddr PROVE PositionOf(h, a) = h.byAddr[a]
  <2>1. \E i \in DOMAIN h.byAge : h.byAge[i].addr = a
    BY <1>1
  <2>2. PositionOf(h, a) \in DOMAIN h.byAge /\ h.byAge[PositionOf(h, a)].addr = a
    BY <2>1, Zenon DEF PositionOf
  <2>. QED  BY <1>1, <2>2
<1>. QED  BY <1>1, <1>2 DEF PeersOf, Seen

-----------------------------------------------------------------------------
(* The map and its sweeper *)

(***************************************************************************)
(* The inductive invariant: the heap is consistent and ordered, no lookup  *)
(* is in the future, the time the sweeper works with lies between the end  *)
(* of its sleep and the present, and a record is at most one and a half    *)
(* timeouts and one delay older than the end of the sweeper's sleep.       *)
(***************************************************************************)
MapInv ==
    /\ inner \in OrderedHeap
    /\ clock \in Nat /\ wake \in Nat /\ now \in Nat /\ sweeper \in {"asleep", "locking"}
    /\ \A a \in DOMAIN Seen(inner) : Seen(inner)[a] <= clock
    /\ sweeper = "locking" => Timeout > 0 /\ wake <= now /\ now <= clock
    /\ Timeout > 0 => clock <= wake + MaxLag
    /\ wake <= clock + Timeout \div 2
    /\ Timeout > 0 => \A a \in DOMAIN Seen(inner) :
                          wake < Seen(inner)[a] + Timeout + Timeout \div 2 + MaxLag

\* The empty map.
LEMMA EmptyInnerTable ==
    EmptyInner \in OrderedHeap /\ Seen(EmptyInner) = [a \in {} |-> 0] /\ DOMAIN Seen(EmptyInner) = {}
<1>. DEFINE index == [a \in {} |-> 0]
<1>1. <<>> \in [1 .. 0 -> Record] /\ 0 \in Nat /\ 1 .. 0 = {} /\ Len(<<>>) = 0 /\ 2 .. 0 = {}
  OBVIOUS
<1>2. index \in [{<<>>[i].addr : i \in 1 .. 0} -> Nat] /\ \A i \in 1 .. 0 : index[<<>>[i].addr] = i
  BY <1>1
<1>3. EmptyInner \in Heap
  <2>. HIDE DEF index
  <2>1. [byAge |-> <<>>, byAddr |-> index] \in Heap
    BY <1>1, <1>2, HeapMade
  <2>. QED  BY <2>1 DEF EmptyInner, index
<1>4. EmptyInner.byAge = <<>> /\ EmptyInner.byAddr = index
  BY DEF EmptyInner
<1>5. Order(Keys(EmptyInner), 0)
  BY <1>1 DEF Order
<1>6. Seen(EmptyInner) = [a \in {} |-> 0] /\ DOMAIN Seen(EmptyInner) = {}
  BY <1>4 DEF Seen
<1>. QED  BY <1>1, <1>3, <1>4, <1>5, <1>6 DEF OrderedHeap

\* No record is younger than the table says.
LEMMA NoneYounger ==
    ASSUME NEW h \in Heap, NEW t, \A a \in DOMAIN Seen(h) : Seen(h)[a] <= t
    PROVE  \A i \in DOMAIN h.byAge : h.byAge[i].lastSeen <= t
<1>. SUFFICES ASSUME NEW i \in DOMAIN h.byAge PROVE h.byAge[i].lastSeen <= t
  OBVIOUS
<1>1. i \in 1 .. Len(h.byAge)
  BY HeapFacts
<1>2. Keys(h)[i] <= t
  BY <1>1, SeenFacts
<1>. QED  BY <1>2 DEF Keys

\* The map starts with the invariant.
LEMMA MapInvInit == MapInit => MapInv
<1>. SUFFICES ASSUME MapInit PROVE MapInv
  OBVIOUS
<1>1. inner \in OrderedHeap /\ DOMAIN Seen(inner) = {}
  BY EmptyInnerTable DEF MapInit
<1>. QED  BY <1>1, TimeAssumption, LagAssumption DEF MapInit, MapInv

\* Every step keeps the invariant.
LEMMA MapInvNext == MapInv /\ [MapNext]_mapVars => MapInv'
<1>. SUFFICES ASSUME MapInv, [MapNext]_mapVars PROVE MapInv'
  OBVIOUS
<1>0. /\ Timeout \in Nat /\ MaxLag \in Nat /\ Timeout \div 2 \in Nat
      /\ inner \in OrderedHeap /\ inner \in Heap
      /\ \A a \in DOMAIN Seen(inner) : Seen(inner)[a] \in Nat
      /\ clock \in Nat /\ wake \in Nat /\ now \in Nat
  BY TimeAssumption, LagAssumption, SeenFacts DEF MapInv, OrderedHeap
<1>1. ASSUME NEW addr \in Addr, Lookup(addr) PROVE MapInv'
  <2>1. \A i \in DOMAIN inner.byAge : inner.byAge[i].lastSeen <= clock
    BY <1>0, NoneYounger DEF MapInv
  <2>2. /\ inner' \in OrderedHeap
        /\ Seen(inner') = [a \in DOMAIN Seen(inner) \cup {addr} |->
                                IF a = addr THEN clock ELSE Seen(inner)[a]]
    BY <1>0, <1>1, <2>1, LookupInnerTable DEF Lookup
  <2>3. UNCHANGED <<clock, sweeper, wake, now>>
    BY <1>1 DEF Lookup
  <2>4. \A a \in DOMAIN Seen(inner') : Seen(inner')[a] = clock \/ (a \in DOMAIN Seen(inner) /\ Seen(inner')[a] = Seen(inner)[a])
    BY <2>2
  <2>5. \A a \in DOMAIN Seen(inner') : Seen(inner')[a] <= clock
    BY <1>0, <2>4 DEF MapInv
  <2>6. ASSUME Timeout > 0, NEW a \in DOMAIN Seen(inner')
        PROVE  wake < Seen(inner')[a] + Timeout + Timeout \div 2 + MaxLag
    <3>1. CASE Seen(inner')[a] = clock
      BY <1>0, <2>6, <3>1 DEF MapInv
    <3>2. CASE a \in DOMAIN Seen(inner) /\ Seen(inner')[a] = Seen(inner)[a]
      BY <2>6, <3>2 DEF MapInv
    <3>. QED  BY <2>4, <3>1, <3>2
  <2>. QED  BY <2>2, <2>3, <2>5, <2>6 DEF MapInv
<1>2. CASE SweepWake
  BY <1>2 DEF SweepWake, MapInv
<1>3. CASE Sweep
  <2>1. Timeout > 0 /\ wake <= now /\ now <= clock /\ clock <= wake + MaxLag
    BY <1>3 DEF Sweep, MapInv
  <2>2. /\ inner' \in OrderedHeap
        /\ Seen(inner') = [a \in {b \in DOMAIN Seen(inner) : ~ (Seen(inner)[b] + Timeout <= now)} |-> Seen(inner)[a]]
    BY <1>0, <1>3, removeExpiredTable DEF Sweep
  <2>3. \A a \in DOMAIN Seen(inner') : /\ a \in DOMAIN Seen(inner) /\ Seen(inner')[a] = Seen(inner)[a]
                                      /\ ~ (Seen(inner)[a] + Timeout <= now)
    BY <2>2
  <2>4. sweeper' = "asleep" /\ wake' = clock + Timeout \div 2 /\ now' = 0 /\ clock' = clock
    BY <1>3 DEF Sweep
  <2>5. \A a \in DOMAIN Seen(inner') : Seen(inner')[a] <= clock
    BY <2>3 DEF MapInv
  <2>6. ASSUME NEW a \in DOMAIN Seen(inner')
        PROVE  wake' < Seen(inner')[a] + Timeout + Timeout \div 2 + MaxLag
    <3>1. Seen(inner')[a] = Seen(inner)[a] /\ Seen(inner)[a] \in Nat /\ ~ (Seen(inner)[a] + Timeout <= now)
      BY <1>0, <2>3
    <3>. QED  BY <1>0, <2>1, <2>4, <3>1
  <2>7. wake' \in Nat /\ wake' <= clock' + Timeout \div 2 /\ clock' <= wake' + MaxLag
    BY <1>0, <2>4
  <2>. QED  BY <1>0, <2>2, <2>4, <2>5, <2>6, <2>7 DEF MapInv
<1>4. CASE MapTick
  <2>1. clock' = clock + 1 /\ UNCHANGED <<inner, sweeper, wake, now>> /\ (Timeout > 0 => clock < wake + MaxLag)
    BY <1>4 DEF MapTick
  <2>2. clock' \in Nat /\ (Timeout > 0 => clock' <= wake' + MaxLag) /\ wake' <= clock' + Timeout \div 2
    BY <1>0, <2>1 DEF MapInv
  <2>3. \A a \in DOMAIN Seen(inner') : Seen(inner')[a] <= clock'
    BY <1>0, <2>1 DEF MapInv
  <2>4. sweeper' = "locking" => Timeout > 0 /\ wake' <= now' /\ now' <= clock'
    BY <1>0, <2>1 DEF MapInv
  <2>. QED  BY <2>1, <2>2, <2>3, <2>4 DEF MapInv
<1>5. CASE UNCHANGED mapVars
  BY <1>5 DEF mapVars, MapInv
<1>. QED  BY <1>1, <1>2, <1>3, <1>4, <1>5 DEF MapNext

\* The inductive invariant holds throughout.
THEOREM MapInvariant == MapSpec => []MapInv
BY MapInvInit, MapInvNext, PTL DEF MapSpec

(***************************************************************************)
(* The heap and the index agree after every lookup and every sweep, for    *)
(* any number of peers: no lookup reaches a panic of remotemap.go, and     *)
(* every lookup finds its own record.                                      *)
(***************************************************************************)
THEOREM IndexConsistency == MapSpec => []IndexConsistent
<1>1. MapInv => IndexConsistent
  <2>. SUFFICES ASSUME MapInv PROVE IndexConsistent
    OBVIOUS
  <2>1. Consistent(inner)
    BY HeapFacts DEF MapInv, OrderedHeap
  <2>. QED  BY <2>1 DEF Consistent, IndexConsistent
<1>. QED  BY <1>1, MapInvariant, PTL

(***************************************************************************)
(* For any timeout and any delay of the sweeper no record outlives its     *)
(* last lookup by one and a half timeouts and two delays.                  *)
(***************************************************************************)
THEOREM RecordsExpiry == MapSpec => []RecordsExpire
<1>1. MapInv => RecordsExpire
  <2>. SUFFICES ASSUME MapInv, Timeout > 0, NEW i \in DOMAIN inner.byAge
                PROVE  clock - inner.byAge[i].lastSeen < Timeout + Timeout \div 2 + 2 * MaxLag
    BY DEF RecordsExpire
  <2>1. inner \in Heap /\ i \in 1 .. Len(inner.byAge)
    BY HeapFacts DEF MapInv, OrderedHeap
  <2>2. PICK a \in DOMAIN Seen(inner) : Seen(inner)[a] = inner.byAge[i].lastSeen
    BY <2>1, SeenFacts DEF Keys
  <2>3. Seen(inner)[a] \in Nat
    BY <2>1, SeenFacts
  <2>4. wake < Seen(inner)[a] + Timeout + Timeout \div 2 + MaxLag /\ clock <= wake + MaxLag
    BY DEF MapInv
  <2>5. clock \in Nat /\ wake \in Nat /\ Timeout \in Nat /\ MaxLag \in Nat /\ Timeout \div 2 \in Nat
    BY TimeAssumption, LagAssumption DEF MapInv
  <2>. QED  BY <2>2, <2>3, <2>4, <2>5
<1>. QED  BY <1>1, MapInvariant, PTL

(***************************************************************************)
(* Heap, index and sweeper implement the PeerTable: lookups stamp one      *)
(* peer, a sweep forgets exactly the peers that had expired at one instant *)
(* that has passed, and nothing else changes the table.                    *)
(***************************************************************************)
THEOREM PeerTableImplemented == MapSpec => ImplementsPeerTable
<1>1. MapInit => Table!Init
  <2>. SUFFICES ASSUME MapInit PROVE Table!Init
    OBVIOUS
  <2>1. PeersOf(inner) = [a \in {} |-> 0]
    BY EmptyInnerTable, PeersOfIsSeen DEF MapInit, OrderedHeap
  <2>. QED  BY <2>1 DEF MapInit, Table!Init
<1>2. MapInv /\ MapInv' /\ [MapNext]_mapVars => [Table!Next]_(Table!vars)
  <2>. SUFFICES ASSUME MapInv, MapInv', [MapNext]_mapVars PROVE [Table!Next]_(Table!vars)
    OBVIOUS
  <2>1. PeersOf(inner) = Seen(inner) /\ PeersOf(inner') = Seen(inner')
    BY PeersOfIsSeen DEF MapInv, OrderedHeap
  <2>2. inner \in OrderedHeap /\ inner \in Heap /\ clock \in Nat /\ now \in Nat
    BY DEF MapInv, OrderedHeap
  <2>3. ASSUME NEW addr \in Addr, Lookup(addr) PROVE Table!Next
    <3>1. \A i \in DOMAIN inner.byAge : inner.byAge[i].lastSeen <= clock
      BY <2>2, NoneYounger DEF MapInv
    <3>2. Seen(inner') = [a \in DOMAIN Seen(inner) \cup {addr} |->
                                IF a = addr THEN clock ELSE Seen(inner)[a]]
      BY <2>2, <2>3, <3>1, LookupInnerTable DEF Lookup
    <3>3. Table!Lookup(addr)
      BY <2>1, <2>3, <3>2 DEF Lookup, Table!Lookup
    <3>. QED  BY <3>3 DEF Table!Next
  <2>4. CASE SweepWake
    BY <2>4 DEF SweepWake, Table!vars
  <2>5. CASE Sweep
    <3>1. Seen(inner') = [a \in {b \in DOMAIN Seen(inner) : ~ (Seen(inner)[b] + Timeout <= now)} |-> Seen(inner)[a]]
      BY <2>2, <2>5, removeExpiredTable DEF Sweep
    <3>2. {b \in DOMAIN Seen(inner) : ~ (Seen(inner)[b] + Timeout <= now)} =
              DOMAIN Seen(inner) \ {b \in DOMAIN Seen(inner) : Seen(inner)[b] + Timeout <= now}
      OBVIOUS
    <3>3. Table!Forget(now)
      BY <2>1, <2>5, <3>1, <3>2 DEF Sweep, Table!Forget, Table!Expired
    <3>4. now \in 0 .. clock /\ Timeout > 0
      BY <2>2, <2>5 DEF Sweep, MapInv
    <3>. QED  BY <3>3, <3>4 DEF Table!Next
  <2>6. CASE MapTick
    BY <2>6 DEF MapTick, Table!Next, Table!Tick
  <2>7. CASE UNCHANGED mapVars
    BY <2>7 DEF mapVars, Table!vars
  <2>. QED  BY <2>3, <2>4, <2>5, <2>6, <2>7 DEF MapNext
<1>. QED  BY <1>1, <1>2, MapInvariant, PTL DEF MapSpec, ImplementsPeerTable, Table!Spec

-----------------------------------------------------------------------------
(* The connection *)

\* Live peers have separate, open queues.
ChanInv ==
    /\ \A a, b \in DOMAIN chan : chan[a] = chan[b] => a = b
    /\ \A a \in DOMAIN chan : chan[a] \notin qclosed

\* A queue about to be sent to belongs to a peer seen since the lookup, not long ago.
HeldInv ==
    \A w \in Writer : wpc[w] = "send" =>
        /\ \E a \in DOMAIN chan : chan[a] = held[w] /\ since[w] <= lastSeen[a]
        /\ since[w] <= clock
        /\ clock <= since[w] + MaxHold

\* The error is stored before anything can send a goroutine to look for it.
CloseInv ==
    /\ closed => err # "none"
    /\ once = "done" => closed
    /\ \A c, d \in Closer : /\ cpc[c] \in {"store", "close", "first"}
                            /\ cpc[d] \in {"store", "close", "first"}
                            => c = d
    /\ \A c \in Closer : /\ cpc[c] \in {"store", "close"} => once = "running"
                         /\ cpc[c] \in {"first", "again"} => once = "done"
                         /\ cpc[c] = "close" => err # "none"
                         /\ cpc[c] = "error" => once = "done"
                         /\ cpc[c] # "panic"
    /\ \A w \in Writer : wpc[w] = "error" => closed
    /\ \A r \in Reader : rpc[r] = "error" => closed

\* A call that began after the close never gets past its first check.
LateInv ==
    /\ \A r \in Reader : r \in late => closed /\ rpc[r] # "select"
    /\ \A f \in Feeder : f \in late => closed /\ fpc[f] # "send"

IndInv == TypeOK /\ ChanInv /\ HeldInv /\ CloseInv /\ LateInv /\ NoPanic

\* A new QueuePacketConn satisfies the invariant.
LEMMA InitIndInv == Init => IndInv
<1>. SUFFICES ASSUME Init PROVE IndInv
  OBVIOUS
<1>. USE QueueAssumption, TimeAssumption DEF Init
<1>1. TypeOK
  <2>1. DOMAIN lastSeen = {} /\ lastSeen \in [DOMAIN lastSeen -> Nat] /\ clock \in Nat
    BY DEF Peers!Init
  <2>2. chan \in [DOMAIN lastSeen -> Chan]
    BY <2>1
  <2>3. /\ qlen \in [Chan -> 0 .. QueueSize]
        /\ recvLen \in 0 .. QueueSize
        /\ held \in [Writer -> Chan \cup {None}]
        /\ since \in [Writer -> Nat]
    OBVIOUS
  <2>4. /\ wpc \in [Writer -> {"idle", "lookup", "send", "error", "panic"}]
        /\ rpc \in [Reader -> {"idle", "select", "error", "panic"}]
        /\ fpc \in [Feeder -> {"idle", "send"}]
        /\ cpc \in [Closer -> {"idle", "once", "store", "close", "error", "first", "again",
                               "panic"}]
    OBVIOUS
  <2>. QED  BY <2>1, <2>2, <2>3, <2>4, Zenon DEF TypeOK
<1>2. ChanInv /\ HeldInv /\ CloseInv /\ LateInv /\ NoPanic
  BY DEF ChanInv, HeldInv, CloseInv, LateInv, NoPanic
<1>. QED  BY <1>1, <1>2 DEF IndInv

(***************************************************************************)
(* What SendQueue returns is the queue of a peer seen this very moment, it *)
(* disturbs no other peer, and no queue held by a WriteTo is made anew.    *)
(***************************************************************************)
LEMMA SendQueueResult ==
    ASSUME TypeOK, ChanInv, HeldInv, NEW addr \in Addr, NEW ch \in Chan, SendQueue(addr, ch)
    PROVE  /\ clock' = clock
           /\ DOMAIN lastSeen' = DOMAIN lastSeen \cup {addr}
           /\ lastSeen' \in [DOMAIN lastSeen' -> Nat]
           /\ chan' \in [DOMAIN lastSeen' -> Chan]
           /\ qlen' \in [Chan -> 0 .. QueueSize]
           /\ qclosed' \subseteq Chan
           /\ chan'[addr] = ch
           /\ lastSeen'[addr] = clock
           /\ \A a \in DOMAIN chan : a # addr => chan'[a] = chan[a] /\ lastSeen'[a] = lastSeen[a]
           /\ addr \in DOMAIN chan => chan'[addr] = chan[addr]
           /\ ChanInv'
<1>. USE QueueAssumption, TimeAssumption
<1>1. /\ clock' = clock
      /\ lastSeen' = [b \in DOMAIN lastSeen \cup {addr} |->
                         IF b = addr THEN clock ELSE lastSeen[b]]
  BY DEF SendQueue, Peers!Lookup
<1>2. DOMAIN chan = DOMAIN lastSeen
  BY DEF TypeOK
<1>3. CASE addr \in DOMAIN chan
  <2>1. ch = chan[addr] /\ UNCHANGED <<chan, qlen, qclosed>>
    BY <1>3 DEF SendQueue
  <2>2. ChanInv'
    BY <2>1 DEF ChanInv
  <2>. QED  BY <1>1, <1>2, <1>3, <2>1, <2>2 DEF TypeOK
<1>4. CASE addr \notin DOMAIN chan
  <2>1. /\ ch \in Unused
        /\ chan' = [a \in DOMAIN chan \cup {addr} |-> IF a = addr THEN ch ELSE chan[a]]
        /\ qlen' = [qlen EXCEPT ![ch] = 0]
        /\ qclosed' = qclosed \ {ch}
    BY <1>4 DEF SendQueue
  <2>2. \A a \in DOMAIN chan : chan[a] # ch
    BY <2>1 DEF Unused
  <2>3. ChanInv'
    BY <1>4, <2>1, <2>2 DEF ChanInv
  <2>. QED  BY <1>1, <1>2, <1>4, <2>1, <2>3 DEF TypeOK
<1>. QED  BY <1>3, <1>4

\* Peers that WriteTo calls hold queues of keep them through a lookup.
LEMMA SendQueueHeld ==
    ASSUME TypeOK, ChanInv, HeldInv, NEW addr \in Addr, NEW ch \in Chan, SendQueue(addr, ch),
           NEW w \in Writer, wpc[w] = "send"
    PROVE  \E a \in DOMAIN chan' : chan'[a] = held[w] /\ since[w] <= lastSeen'[a]
<1>1. PICK a \in DOMAIN chan : chan[a] = held[w] /\ since[w] <= lastSeen[a]
  BY DEF HeldInv
<1>2. a \in DOMAIN chan'
  BY SendQueueResult DEF TypeOK
<1>3. chan'[a] = held[w] /\ since[w] <= lastSeen'[a]
  <2>1. CASE a = addr
    BY <1>1, <2>1, SendQueueResult DEF HeldInv
  <2>2. CASE a # addr
    BY <1>1, <2>2, SendQueueResult
  <2>. QED  BY <2>1, <2>2
<1>. QED  BY <1>2, <1>3

(***************************************************************************)
(* The map's own steps.  Forgetting the peers that have expired cannot     *)
(* take a queue away from a WriteTo, because its lookup is too recent.     *)
(***************************************************************************)
LEMMA MapIndInv ==
    ASSUME IndInv,
           \/ \E a \in Addr : OutgoingQueue(a)
           \/ \E ch \in Chan : TakeOutgoing(ch)
           \/ \E t \in 0 .. clock : RemoveExpired(t)
           \/ Tick
    PROVE  IndInv'
<1>. USE QueueAssumption, TimeAssumption DEF IndInv
<1>0. UNCHANGED <<closeVars, writeVars, readVars, late>>
  BY DEF OutgoingQueue, TakeOutgoing, RemoveExpired, Tick
<1>a. (CloseInv /\ LateInv /\ NoPanic)'
  BY <1>0 DEF CloseInv, LateInv, NoPanic, closeVars, writeVars, readVars
<1>1. ASSUME NEW a \in Addr, OutgoingQueue(a)
      PROVE  IndInv'
  <2>1. PICK ch \in Chan : SendQueue(a, ch)
    BY <1>1 DEF OutgoingQueue
  <2>2. TypeOK'
    <3>1. /\ clock' = clock
          /\ DOMAIN lastSeen' = DOMAIN lastSeen \cup {a}
          /\ lastSeen' \in [DOMAIN lastSeen' -> Nat]
          /\ chan' \in [DOMAIN lastSeen' -> Chan]
          /\ qlen' \in [Chan -> 0 .. QueueSize]
          /\ qclosed' \subseteq Chan
      BY <2>1, SendQueueResult
    <3>. QED  BY <1>0, <3>1 DEF TypeOK, closeVars, writeVars, readVars
  <2>3. ChanInv'
    BY <2>1, SendQueueResult
  <2>4. HeldInv'
    <3>1. clock' = clock /\ UNCHANGED <<wpc, held, since>>
      BY <1>0, <2>1, SendQueueResult DEF writeVars
    <3>2. ASSUME NEW w \in Writer, wpc[w] = "send"
          PROVE  \E b \in DOMAIN chan' : chan'[b] = held[w] /\ since[w] <= lastSeen'[b]
      BY <2>1, <3>2, SendQueueHeld
    <3>. QED  BY <3>1, <3>2 DEF HeldInv
  <2>. QED  BY <1>a, <2>2, <2>3, <2>4
<1>2. ASSUME NEW ch \in Chan, TakeOutgoing(ch)
      PROVE  IndInv'
  <2>1. TypeOK'
    BY <1>0, <1>2 DEF TypeOK, TakeOutgoing, closeVars, writeVars, readVars
  <2>2. (ChanInv /\ HeldInv)'
    BY <1>0, <1>2 DEF TakeOutgoing, ChanInv, HeldInv, writeVars
  <2>. QED  BY <1>a, <2>1, <2>2
<1>3. ASSUME NEW t \in 0 .. clock, RemoveExpired(t)
      PROVE  IndInv'
  <2>1. /\ clock' = clock
        /\ lastSeen' = [a \in DOMAIN lastSeen \ Peers!Expired(t) |-> lastSeen[a]]
        /\ chan' = [a \in DOMAIN chan \ Peers!Expired(t) |-> chan[a]]
        /\ qclosed' = qclosed \cup {chan[a] : a \in Peers!Expired(t)}
        /\ qlen' = qlen
        /\ Timeout > 0
    BY <1>3 DEF RemoveExpired, Peers!Forget
  <2>2. Peers!Expired(t) \subseteq DOMAIN chan
    BY DEF Peers!Expired, TypeOK
  <2>3. TypeOK'
    <3>1. DOMAIN lastSeen' \subseteq Addr /\ lastSeen' \in [DOMAIN lastSeen' -> Nat]
      BY <2>1 DEF TypeOK
    <3>2. chan' \in [DOMAIN lastSeen' -> Chan]
      BY <2>1 DEF TypeOK
    <3>3. qclosed' \subseteq Chan
      BY <2>1, <2>2 DEF TypeOK
    <3>. QED  BY <1>0, <2>1, <3>1, <3>2, <3>3 DEF TypeOK, closeVars, writeVars, readVars
  <2>4. ChanInv'
    BY <2>1, <2>2 DEF ChanInv
  <2>5. HeldInv'
    <3>. SUFFICES ASSUME NEW w \in Writer, wpc[w] = "send"
                  PROVE  \E a \in DOMAIN chan' : chan'[a] = held[w] /\ since[w] <= lastSeen'[a]
      BY <1>0, <2>1 DEF HeldInv, writeVars
    <3>1. PICK a \in DOMAIN chan : chan[a] = held[w] /\ since[w] <= lastSeen[a]
      BY DEF HeldInv
    <3>2. /\ clock \in Nat /\ t \in Nat /\ since[w] \in Nat /\ lastSeen[a] \in Nat
          /\ t <= clock
      BY DEF TypeOK
    <3>3. clock <= since[w] + MaxHold
      BY DEF HeldInv
    <3>4. a \notin Peers!Expired(t)
      BY <2>1, <3>1, <3>2, <3>3 DEF Peers!Expired
    <3>5. a \in DOMAIN lastSeen
      BY DEF TypeOK
    <3>. QED  BY <2>1, <3>1, <3>4, <3>5
  <2>. QED  BY <1>a, <2>3, <2>4, <2>5
<1>4. CASE Tick
  <2>1. TypeOK'
    BY <1>0, <1>4 DEF TypeOK, Tick, Peers!Tick, closeVars, writeVars, readVars
  <2>2. ChanInv'
    BY <1>4 DEF Tick, ChanInv
  <2>3. HeldInv'
    BY <1>0, <1>4 DEF Tick, Peers!Tick, HeldInv, writeVars, TypeOK
  <2>. QED  BY <1>a, <2>1, <2>2, <2>3
<1>. QED  BY <1>1, <1>2, <1>3, <1>4

(***************************************************************************)
(* The steps of WriteTo.                                                   *)
(***************************************************************************)
LEMMA WriteIndInv ==
    ASSUME IndInv, NEW w \in Writer, Write(w)
    PROVE  IndInv'
<1>. USE QueueAssumption, TimeAssumption, GoroutineAssumption DEF IndInv
<1>1. CASE StartWrite(w)
  <2>1. TypeOK'
    BY <1>1 DEF TypeOK, StartWrite, peerVars, closeVars, readVars
  <2>2. (ChanInv /\ HeldInv)'
    BY <1>1 DEF StartWrite, ChanInv, HeldInv, peerVars, TypeOK
  <2>3. (CloseInv /\ LateInv /\ NoPanic)'
    BY <1>1 DEF StartWrite, CloseInv, LateInv, NoPanic, closeVars, readVars, TypeOK
  <2>. QED  BY <2>1, <2>2, <2>3
<1>2. CASE LookupQueue(w)
  <2>1. PICK addr \in Addr, ch \in Chan :
           SendQueue(addr, ch) /\ held' = [held EXCEPT ![w] = ch]
    BY <1>2 DEF LookupQueue
  <2>2. TypeOK'
    <3>1. /\ clock' = clock
          /\ DOMAIN lastSeen' = DOMAIN lastSeen \cup {addr}
          /\ lastSeen' \in [DOMAIN lastSeen' -> Nat]
          /\ chan' \in [DOMAIN lastSeen' -> Chan]
          /\ qlen' \in [Chan -> 0 .. QueueSize]
          /\ qclosed' \subseteq Chan
      BY <2>1, SendQueueResult
    <3>. QED  BY <1>2, <2>1, <3>1 DEF TypeOK, LookupQueue, closeVars, readVars
  <2>3. ChanInv'
    BY <2>1, SendQueueResult
  <2>4. HeldInv'
    <3>. SUFFICES ASSUME NEW v \in Writer, wpc'[v] = "send"
                  PROVE  /\ \E a \in DOMAIN chan' :
                               chan'[a] = held'[v] /\ since'[v] <= lastSeen'[a]
                         /\ since'[v] <= clock'
                         /\ clock' <= since'[v] + MaxHold
      BY DEF HeldInv
    <3>1. clock' = clock /\ clock \in Nat
      BY <2>1, SendQueueResult DEF TypeOK
    <3>2. CASE v = w
      <4>1. held'[v] = ch /\ since'[v] = clock
        BY <1>2, <2>1, <3>2 DEF LookupQueue, TypeOK
      <4>2. addr \in DOMAIN chan' /\ chan'[addr] = ch /\ lastSeen'[addr] = clock
        BY <2>1, SendQueueResult
      <4>. QED  BY <3>1, <4>1, <4>2
    <3>3. CASE v # w
      <4>1. held'[v] = held[v] /\ since'[v] = since[v] /\ wpc[v] = "send"
        BY <1>2, <2>1, <3>3 DEF LookupQueue, TypeOK
      <4>. QED  BY <2>1, <3>1, <4>1, SendQueueHeld DEF HeldInv
    <3>. QED  BY <3>2, <3>3
  <2>5. (CloseInv /\ LateInv /\ NoPanic)'
    BY <1>2 DEF LookupQueue, CloseInv, LateInv, NoPanic, closeVars, readVars, TypeOK
  <2>. QED  BY <2>2, <2>3, <2>4, <2>5
<1>3. CASE Send(w)
  <2>1. held[w] \in Chan /\ held[w] \notin qclosed
    BY <1>3 DEF Send, HeldInv, ChanInv, TypeOK
  <2>2. TypeOK'
    BY <1>3, <2>1 DEF TypeOK, Send, closeVars, readVars
  <2>3. (ChanInv /\ HeldInv)'
    BY <1>3, <2>1 DEF Send, ChanInv, HeldInv, TypeOK
  <2>4. (CloseInv /\ LateInv /\ NoPanic)'
    BY <1>3, <2>1 DEF Send, CloseInv, LateInv, NoPanic, closeVars, readVars, TypeOK
  <2>. QED  BY <2>2, <2>3, <2>4
<1>4. CASE WriteError(w)
  <2>1. err # "none"
    BY <1>4 DEF WriteError, CloseInv
  <2>2. TypeOK'
    BY <1>4, <2>1 DEF TypeOK, WriteError, AfterLoad, peerVars, closeVars, readVars
  <2>3. (ChanInv /\ HeldInv)'
    BY <1>4, <2>1 DEF WriteError, AfterLoad, ChanInv, HeldInv, peerVars, TypeOK
  <2>4. (CloseInv /\ LateInv /\ NoPanic)'
    BY <1>4, <2>1 DEF WriteError, AfterLoad, CloseInv, LateInv, NoPanic, closeVars, readVars,
                      TypeOK
  <2>. QED  BY <2>2, <2>3, <2>4
<1>. QED  BY <1>1, <1>2, <1>3, <1>4 DEF Write

(***************************************************************************)
(* The steps of ReadFrom, QueueIncoming and Close leave the map alone.     *)
(***************************************************************************)
LEMMA OtherIndInv ==
    ASSUME IndInv,
           \/ \E r \in Reader : Read(r)
           \/ \E f \in Feeder : Feed(f)
           \/ \E c \in Closer : Close(c)
    PROVE  IndInv'
<1>. USE QueueAssumption, TimeAssumption, GoroutineAssumption DEF IndInv
<1>0. UNCHANGED <<peerVars, writeVars>>
  BY DEF Read, StartRead, ReadPacket, ReadClosed, ReadError, Feed, StartQueue, Enqueue,
         Close, StartClose, OnceDo, StoreErr, CloseClosed, CloseError
<1>a. (ChanInv /\ HeldInv)'
  BY <1>0 DEF ChanInv, HeldInv, peerVars, writeVars
<1>1. ASSUME NEW r \in Reader, Read(r)
      PROVE  (TypeOK /\ CloseInv /\ LateInv /\ NoPanic)'
  <2>1. CASE StartRead(r)
    BY <1>0, <2>1 DEF StartRead, TypeOK, CloseInv, LateInv, NoPanic, peerVars, writeVars, closeVars
  <2>2. CASE ReadPacket(r)
    BY <1>0, <2>2 DEF ReadPacket, TypeOK, CloseInv, LateInv, NoPanic, peerVars, writeVars, closeVars
  <2>3. CASE ReadClosed(r)
    BY <1>0, <2>3 DEF ReadClosed, TypeOK, CloseInv, LateInv, NoPanic, peerVars, writeVars, closeVars
  <2>4. CASE ReadError(r)
    <3>1. err # "none"
      BY <2>4 DEF ReadError, CloseInv
    <3>. QED  BY <1>0, <2>4, <3>1 DEF ReadError, AfterLoad, TypeOK, CloseInv, LateInv, NoPanic,
                                    peerVars, writeVars, closeVars
  <2>. QED  BY <1>1, <2>1, <2>2, <2>3, <2>4 DEF Read
<1>2. ASSUME NEW f \in Feeder, Feed(f)
      PROVE  (TypeOK /\ CloseInv /\ LateInv /\ NoPanic)'
  <2>1. CASE StartQueue(f)
    BY <1>0, <2>1 DEF StartQueue, TypeOK, CloseInv, LateInv, NoPanic, peerVars, writeVars, closeVars
  <2>2. CASE Enqueue(f)
    BY <1>0, <2>2 DEF Enqueue, TypeOK, CloseInv, LateInv, NoPanic, peerVars, writeVars, closeVars
  <2>. QED  BY <1>2, <2>1, <2>2 DEF Feed
<1>3. ASSUME NEW c \in Closer, Close(c)
      PROVE  (TypeOK /\ CloseInv /\ LateInv /\ NoPanic)'
  <2>1. CASE StartClose(c)
    BY <1>0, <2>1 DEF StartClose, TypeOK, CloseInv, LateInv, NoPanic, peerVars, writeVars, readVars
  <2>2. CASE OnceDo(c)
    BY <1>0, <2>2 DEF OnceDo, TypeOK, CloseInv, LateInv, NoPanic, peerVars, writeVars, readVars
  <2>3. CASE StoreErr(c)
    BY <1>0, <2>3 DEF StoreErr, TypeOK, CloseInv, LateInv, NoPanic, peerVars, writeVars, readVars
  <2>4. CASE CloseClosed(c)
    BY <1>0, <2>4 DEF CloseClosed, TypeOK, CloseInv, LateInv, NoPanic, peerVars, writeVars, readVars
  <2>5. CASE CloseError(c)
    BY <1>0, <2>5 DEF CloseError, TypeOK, CloseInv, LateInv, NoPanic, peerVars, writeVars, readVars
  <2>. QED  BY <1>3, <2>1, <2>2, <2>3, <2>4, <2>5 DEF Close
<1>. QED  BY <1>a, <1>1, <1>2, <1>3

(***************************************************************************)
(* The invariant holds in every reachable state.                           *)
(***************************************************************************)
LEMMA IndInvAlways == Spec => []IndInv
<1>1. IndInv /\ [Next]_vars => IndInv'
  <2>. SUFFICES ASSUME IndInv, [Next]_vars PROVE IndInv'
    OBVIOUS
  <2>1. CASE Next
    BY <2>1, MapIndInv, WriteIndInv, OtherIndInv DEF Next
  <2>2. CASE UNCHANGED vars
    BY <2>2 DEF vars, peerVars, closeVars, writeVars, readVars, IndInv, TypeOK, ChanInv, HeldInv,
                CloseInv, LateInv, NoPanic
  <2>. QED  BY <2>1, <2>2
<1>. QED  BY <1>1, InitIndInv, PTL DEF Spec

-----------------------------------------------------------------------------
(* Theorems *)

(***************************************************************************)
(* No operation of a QueuePacketConn panics: the error is there for those  *)
(* who find the connection closed, and WriteTo's queue is open.            *)
(***************************************************************************)
THEOREM NoPanicTheorem == Spec => []NoPanic
BY IndInvAlways, PTL DEF IndInv

(***************************************************************************)
(* WriteTo always sends to a queue that is still its peer's.               *)
(***************************************************************************)
THEOREM HeldQueueIsLiveTheorem == Spec => []HeldQueueIsLive
<1>1. IndInv => HeldQueueIsLive
  BY DEF IndInv, HeldInv, HeldQueueIsLive
<1>. QED  BY <1>1, IndInvAlways, PTL

(***************************************************************************)
(* At most one Close is told that it closed the connection.                *)
(***************************************************************************)
THEOREM OneFirstCloseTheorem == Spec => []OneFirstClose
<1>1. IndInv => OneFirstClose
  BY DEF IndInv, CloseInv, OneFirstClose
<1>. QED  BY <1>1, IndInvAlways, PTL

(***************************************************************************)
(* Operations that begin after the close find the connection closed.       *)
(***************************************************************************)
THEOREM FailsAfterCloseTheorem == Spec => FailsAfterClose
<1>. DEFINE A == /\ \A r \in Reader : ReadPacket(r) => r \notin late
                 /\ \A f \in Feeder : Enqueue(f) => f \notin late
<1>1. IndInv => A
  BY DEF IndInv, LateInv, ReadPacket, Enqueue
<1>. HIDE DEF A
<1>2. Spec => [][A]_vars
  BY <1>1, IndInvAlways, PTL DEF Spec
<1>. QED  BY <1>2 DEF A, FailsAfterClose
=============================================================================
