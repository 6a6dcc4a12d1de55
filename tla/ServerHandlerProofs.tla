------------------------- MODULE ServerHandlerProofs -------------------------
(***************************************************************************)
(* Proofs about ServerHandler for any number of handlers, any sizes and    *)
(* any limits.                                                             *)
(***************************************************************************)
EXTENDS ServerHandler, DataTheorems

\* Most leaves are first-order: Zenon tries each one for two seconds before SMT does.
USE ZenonT(2), SMTT(20)

\* A handler that is about to bundle has a packet in hand.
GotInv == \A h \in Handler : pc[h] = "got" => p[h] \in Packet

IndInv == TypeOK /\ GotInv

-----------------------------------------------------------------------------

\* Before the first request all handlers are idle and the invariant holds.
LEMMA InitIndInv == Init => IndInv
<1>. SUFFICES ASSUME Init PROVE IndInv
  OBVIOUS
<1>. USE HandlerAssumption DEF Init
<1>1. <<>> \in Seq(Packet) /\ Len(<<>>) <= QueueSize /\ Len(<<>>) <= 1
  OBVIOUS
<1>2. /\ recvLen \in 0 .. QueueSize /\ written \in 0 .. MaxPackets
      /\ incoming \in [Handler -> 0 .. MaxIn] /\ limit \in [Handler -> Int]
  OBVIOUS
<1>3. /\ pc \in [Handler -> {"idle", "incoming", "select1", "select2", "select3", "got", "done"}]
      /\ p \in [Handler -> Packet \cup {None}]
  OBVIOUS
<1>4. response \in [Handler -> Seq(Packet)]
  BY <1>1
<1>5. alone \in BOOLEAN /\ lost \subseteq Packet
  OBVIOUS
<1>6. GotInv
  BY DEF GotInv
<1>. QED  BY <1>1, <1>2, <1>3, <1>4, <1>5, <1>6, Zenon DEF TypeOK, IndInv

(***************************************************************************)
(* noiseLoop at the other end of the queues, and the arrival of a request. *)
(***************************************************************************)
LEMMA AroundIndInv ==
    ASSUME IndInv, WriteTo \/ ReadFrom \/ \E h \in Handler : Request(h)
    PROVE  IndInv'
<1>. USE HandlerAssumption DEF IndInv
<1>1. CASE WriteTo
  <2>1. written + 1 \in Packet
    BY <1>1 DEF WriteTo, TypeOK, Packet
  <2>2. queue' \in Seq(Packet) /\ Len(queue') <= QueueSize
    <3>1. CASE Len(queue) < QueueSize /\ queue' = Append(queue, written + 1)
      BY <2>1, <3>1 DEF TypeOK
    <3>2. CASE queue' = queue
      BY <3>2 DEF TypeOK
    <3>. QED  BY <1>1, <3>1, <3>2 DEF WriteTo
  <2>. QED  BY <1>1, <2>1, <2>2 DEF WriteTo, TypeOK, GotInv, Packet
<1>2. CASE ReadFrom
  BY <1>2 DEF ReadFrom, TypeOK, GotInv
<1>3. ASSUME NEW h \in Handler, Request(h)
      PROVE  IndInv'
  <2>1. incoming' \in [Handler -> 0 .. MaxIn]
    BY <1>3 DEF Request, TypeOK
  <2>2. pc' \in [Handler -> {"idle", "incoming", "select1", "select2", "select3", "got", "done"}]
    BY <1>3 DEF Request, TypeOK
  <2>3. alone' \in BOOLEAN
    BY <1>3, Zenon DEF Request
  <2>4. UNCHANGED <<queue, stash, recvLen, written, p, limit, response, sent, lost>>
    BY <1>3 DEF Request
  <2>5. GotInv'
    BY <1>3, <2>4 DEF Request, GotInv, TypeOK
  <2>. QED  BY <2>1, <2>2, <2>3, <2>4, <2>5, Zenon DEF TypeOK
<1>. QED  BY <1>1, <1>2, <1>3

(***************************************************************************)
(* A handler takes a packet, or goes on to the next select.                *)
(***************************************************************************)
LEMMA SelectIndInv ==
    ASSUME IndInv, NEW h \in Handler, Select1(h) \/ Select2(h) \/ Select3(h)
    PROVE  IndInv'
<1>. USE HandlerAssumption DEF IndInv
<1>1. UNCHANGED <<recvLen, written, incoming, limit, response, sent, alone, lost>>
  BY DEF Select1, Select2, Select3
<1>2. TakeStash(h) \/ TakeOutgoing(h)
      \/ \E label \in {"select2", "select3", "done"} : GoTo(h, label)
  BY DEF Select1, Select2, Select3
<1>3. CASE TakeStash(h)
  <2>1. Head(stash) \in Packet
    BY <1>3 DEF TakeStash, TypeOK
  <2>. QED  BY <1>1, <1>3, <2>1 DEF TakeStash, TypeOK, GotInv
<1>4. CASE TakeOutgoing(h)
  <2>1. Head(queue) \in Packet /\ Tail(queue) \in Seq(Packet) /\ Len(Tail(queue)) = Len(queue) - 1
    BY <1>4 DEF TakeOutgoing, TypeOK
  <2>. QED  BY <1>1, <1>4, <2>1 DEF TakeOutgoing, TypeOK, GotInv
<1>5. ASSUME NEW label \in {"select2", "select3", "done"}, GoTo(h, label)
      PROVE  IndInv'
  BY <1>1, <1>5 DEF GoTo, TypeOK, GotInv
<1>. QED  BY <1>2, <1>3, <1>4, <1>5

(***************************************************************************)
(* A handler reads its request, bundles packets and responds.              *)
(***************************************************************************)
LEMMA HandlerIndInv ==
    ASSUME IndInv, NEW h \in Handler,
           QueueIncoming(h) \/ Bundle(h) \/ WriteFails(h) \/ Respond(h)
    PROVE  IndInv'
<1>. USE HandlerAssumption DEF IndInv
<1>1. CASE QueueIncoming(h)
  <2>1. /\ recvLen' \in 0 .. QueueSize
        /\ incoming' \in [Handler -> 0 .. MaxIn]
        /\ limit' \in [Handler -> Int]
    <3>1. CASE incoming[h] > 0
      <4>1. recvLen' \in 0 .. QueueSize /\ limit' = limit
        BY <1>1, <3>1 DEF QueueIncoming, TypeOK
      <4>2. incoming' = [incoming EXCEPT ![h] = incoming[h] - 1]
        BY <1>1, <3>1 DEF QueueIncoming
      <4>3. incoming \in [Handler -> 0 .. MaxIn] /\ incoming[h] - 1 \in 0 .. MaxIn
        BY <3>1 DEF TypeOK
      <4>4. incoming' \in [Handler -> 0 .. MaxIn]
        BY <4>2, <4>3
      <4>. QED  BY <4>1, <4>4 DEF TypeOK
    <3>2. CASE ~(incoming[h] > 0)
      BY <1>1, <3>2 DEF QueueIncoming, TypeOK
    <3>. QED  BY <3>1, <3>2
  <2>2. pc' \in [Handler -> {"idle", "incoming", "select1", "select2", "select3", "got", "done"}]
    BY <1>1 DEF QueueIncoming, TypeOK
  <2>3. UNCHANGED <<queue, stash, written, p, response, sent, alone, lost>>
    BY <1>1 DEF QueueIncoming
  <2>4. GotInv'
    BY <1>1, <2>3 DEF QueueIncoming, GotInv, TypeOK
  <2>. QED  BY <2>1, <2>2, <2>3, <2>4, Zenon DEF TypeOK
<1>2. CASE Bundle(h)
  <2>1. p[h] \in Packet
    BY <1>2 DEF Bundle, GotInv
  <2>2. Size[p[h]] \in Nat
    BY <2>1 DEF Packet
  <2>3. limit' \in [Handler -> Int] /\ p' \in [Handler -> Packet \cup {None}]
    <3>1. limit \in [Handler -> Int] /\ p \in [Handler -> Packet \cup {None}]
      BY DEF TypeOK
    <3>2. limit' = [limit EXCEPT ![h] = limit[h] - Size[p[h]]] /\ p' = [p EXCEPT ![h] = None]
      BY <1>2 DEF Bundle
    <3>3. limit[h] - Size[p[h]] \in Int
      BY <2>2, <3>1
    <3>. QED  BY <3>1, <3>2, <3>3
  <2>4. response' \in [Handler -> Seq(Packet)]
    <3>1. response \in [Handler -> Seq(Packet)] /\ response[h] \in Seq(Packet)
      BY DEF TypeOK
    <3>2. Append(response[h], p[h]) \in Seq(Packet)
      BY <2>1, <3>1
    <3>3. response' = response \/ response' = [response EXCEPT ![h] = Append(response[h], p[h])]
      BY <1>2 DEF Bundle
    <3>. QED  BY <3>1, <3>2, <3>3
  <2>5. stash' \in Seq(Packet) /\ Len(stash') <= 1 /\ lost' \subseteq Packet
    <3>1. stash' = stash \/ stash' = <<p[h]>>
      BY <1>2 DEF Bundle
    <3>2. lost' = lost \/ lost' = lost \cup {p[h]}
      BY <1>2 DEF Bundle
    <3>3. <<p[h]>> \in Seq(Packet) /\ Len(<<p[h]>>) = 1
      BY <2>1
    <3>4. stash \in Seq(Packet) /\ Len(stash) <= 1 /\ lost \subseteq Packet
      BY DEF TypeOK
    <3>5. stash' \in Seq(Packet) /\ Len(stash') <= 1
      <4>1. CASE stash' = stash
        BY <3>4, <4>1
      <4>2. CASE stash' = <<p[h]>>
        <5>1. Len(stash') = 1
          BY <4>2
        <5>. QED  BY <3>3, <4>2, <5>1
      <4>. QED  BY <3>1, <4>1, <4>2
    <3>6. lost' \subseteq Packet
      BY <2>1, <3>2, <3>4
    <3>. QED  BY <3>5, <3>6
  <2>6. pc' \in [Handler -> {"idle", "incoming", "select1", "select2", "select3", "got", "done"}]
    BY <1>2 DEF Bundle, TypeOK
  <2>7. UNCHANGED <<queue, recvLen, written, incoming, sent, alone>>
    BY <1>2 DEF Bundle
  <2>8. GotInv'
    BY <1>2 DEF Bundle, GotInv, TypeOK
  <2>. QED  BY <2>3, <2>4, <2>5, <2>6, <2>7, <2>8, Zenon DEF TypeOK
<1>3. CASE WriteFails(h)
  BY <1>3 DEF WriteFails, TypeOK, GotInv
<1>4. CASE Respond(h)
  <2>1. sent' \in Seq(Packet)
    BY <1>4 DEF Respond, TypeOK
  <2>. QED  BY <1>4, <2>1 DEF Respond, TypeOK, GotInv
<1>. QED  BY <1>1, <1>2, <1>3, <1>4

-----------------------------------------------------------------------------
(* Packets in sequences *)

\* The packets in the sequences F[l] are all different.
Separate(F) ==
    \A l, m \in DOMAIN F : \A i \in DOMAIN F[l], j \in DOMAIN F[m] :
        F[l][i] = F[m][j] => l = m /\ i = j

\* G is F after the first k packets of F[b] went to the end of F[a], which had n.
Moved(F, G, a, b, n, k) ==
    /\ \A i \in DOMAIN G[a] :
          /\ i \in Nat
          /\ i <= n => i \in DOMAIN F[a] /\ F[a][i] = G[a][i]
          /\ i > n => i - n \in DOMAIN F[b] /\ F[b][i - n] = G[a][i] /\ i - n <= k
    /\ \A i \in DOMAIN G[b] :
          i \in Nat \ {0} /\ i + k \in DOMAIN F[b] /\ F[b][i + k] = G[b][i]
    /\ \A l \in DOMAIN F \ {a, b} : G[l] = F[l]

\* The same in terms of the operators on sequences: F[b] is s followed by t.
Shift(F, G, a, b, s, t) ==
    /\ F[b] = s \o t
    /\ G[a] = F[a] \o s
    /\ G[b] = t
    /\ \A l \in DOMAIN F \ {a, b} : G[l] = F[l]

\* G is F with x, which was nowhere, added to F[a].
Added(F, G, a, x) ==
    /\ \A l \in DOMAIN F : \A i \in DOMAIN F[l] : F[l][i] # x
    /\ G[a] = Append(F[a], x)
    /\ \A l \in DOMAIN F \ {a} : G[l] = F[l]

(* Moving packets keeps them apart. *)
LEMMA SeparateBy ==
    ASSUME NEW L, NEW F, NEW G, DOMAIN F = L, DOMAIN G = L, Separate(F),
           NEW a \in L, NEW b \in L, a # b, NEW n \in Nat, NEW k \in Nat,
           Moved(F, G, a, b, n, k)
    PROVE  Separate(G)
<1>. USE DEF Moved
<1>1. SUFFICES ASSUME NEW l \in L, NEW m \in L, NEW i \in DOMAIN G[l], NEW j \in DOMAIN G[m],
                      G[l][i] = G[m][j]
               PROVE  l = m /\ i = j
  BY DEF Separate
<1>2. \A x, y \in L : \A u \in DOMAIN F[x], v \in DOMAIN F[y] : F[x][u] = F[y][v] => x = y /\ u = v
  BY DEF Separate
<1>3. CASE l = a
  <2>1. CASE m = a
    BY <1>1, <1>2, <1>3, <2>1
  <2>2. CASE m = b
    BY <1>1, <1>2, <1>3, <2>2
  <2>3. CASE m \notin {a, b}
    BY <1>1, <1>2, <1>3, <2>3
  <2>. QED  BY <2>1, <2>2, <2>3
<1>4. CASE l = b
  <2>1. CASE m = a
    BY <1>1, <1>2, <1>4, <2>1
  <2>2. CASE m = b
    BY <1>1, <1>2, <1>4, <2>2
  <2>3. CASE m \notin {a, b}
    BY <1>1, <1>2, <1>4, <2>3
  <2>. QED  BY <2>1, <2>2, <2>3
<1>5. CASE l \notin {a, b}
  <2>1. CASE m = a
    BY <1>1, <1>2, <1>5, <2>1
  <2>2. CASE m = b
    BY <1>1, <1>2, <1>5, <2>2
  <2>3. CASE m \notin {a, b}
    BY <1>1, <1>2, <1>5, <2>3
  <2>. QED  BY <2>1, <2>2, <2>3
<1>. QED  BY <1>3, <1>4, <1>5

(* Domain and elements of a concatenation. *)
LEMMA Concatenation ==
    ASSUME NEW S, NEW s \in Seq(S), NEW t \in Seq(S)
    PROVE  /\ Len(s) \in Nat /\ Len(t) \in Nat
           /\ DOMAIN s = 1 .. Len(s) /\ DOMAIN t = 1 .. Len(t)
           /\ DOMAIN (s \o t) = 1 .. Len(s) + Len(t)
           /\ \A i \in 1 .. Len(s) : (s \o t)[i] = s[i]
           /\ \A i \in 1 .. Len(t) : (s \o t)[Len(s) + i] = t[i]
<1>1. Len(s) \in Nat /\ Len(t) \in Nat /\ DOMAIN s = 1 .. Len(s) /\ DOMAIN t = 1 .. Len(t)
  OBVIOUS
<1>2. DOMAIN (s \o t) = 1 .. Len(s) + Len(t)
  OBVIOUS
<1>3. ASSUME NEW i \in 1 .. Len(s) PROVE (s \o t)[i] = s[i]
  OBVIOUS
<1>4. ASSUME NEW i \in 1 .. Len(t) PROVE (s \o t)[Len(s) + i] = t[i]
  OBVIOUS
<1>. QED  BY <1>1, <1>2, <1>3, <1>4

(* Moving, in terms of the operators on sequences. *)
LEMMA ConcatMoved ==
    ASSUME NEW S, NEW L, NEW F \in [L -> Seq(S)], NEW G \in [L -> Seq(S)],
           NEW a \in L, NEW b \in L, a # b, NEW s \in Seq(S), NEW t \in Seq(S),
           Shift(F, G, a, b, s, t)
    PROVE  /\ Len(F[a]) \in Nat /\ Len(s) \in Nat
           /\ Moved(F, G, a, b, Len(F[a]), Len(s))
<1>0. /\ F[b] = s \o t /\ G[a] = F[a] \o s /\ G[b] = t
      /\ \A l \in L \ {a, b} : G[l] = F[l]
  BY DEF Shift
<1>. DEFINE n == Len(F[a])  k == Len(s)
<1>1. F[a] \in Seq(S) /\ DOMAIN F = L /\ DOMAIN G = L
  OBVIOUS
<1>2. /\ n \in Nat /\ k \in Nat
      /\ DOMAIN F[a] = 1 .. n /\ DOMAIN G[a] = 1 .. n + k
      /\ \A i \in 1 .. n : G[a][i] = F[a][i]
      /\ \A i \in 1 .. k : G[a][n + i] = s[i]
  BY <1>0, <1>1, Concatenation
<1>3. /\ Len(t) \in Nat /\ DOMAIN G[b] = 1 .. Len(t) /\ DOMAIN F[b] = 1 .. k + Len(t)
      /\ \A i \in 1 .. k : F[b][i] = s[i]
      /\ \A i \in 1 .. Len(t) : F[b][k + i] = G[b][i]
  <2>1. /\ Len(t) \in Nat /\ DOMAIN t = 1 .. Len(t) /\ DOMAIN (s \o t) = 1 .. k + Len(t)
        /\ \A i \in 1 .. k : (s \o t)[i] = s[i]
        /\ \A i \in 1 .. Len(t) : (s \o t)[k + i] = t[i]
    BY Concatenation
  <2>. QED  BY <1>0, <2>1, Zenon
<1>. HIDE DEF n, k
<1>4. ASSUME NEW i \in DOMAIN G[a]
      PROVE  /\ i \in Nat
             /\ i <= n => i \in DOMAIN F[a] /\ F[a][i] = G[a][i]
             /\ i > n => i - n \in DOMAIN F[b] /\ F[b][i - n] = G[a][i] /\ i - n <= k
  <2>1. i \in Nat /\ (i > n => i - n \in 1 .. k /\ n + (i - n) = i)
    BY <1>2
  <2>. QED  BY <1>2, <1>3, <2>1
<1>5. ASSUME NEW i \in DOMAIN G[b]
      PROVE  i \in Nat \ {0} /\ i + k \in DOMAIN F[b] /\ F[b][i + k] = G[b][i]
  <2>1. i \in 1 .. Len(t)
    BY <1>3
  <2>2. F[b][k + i] = G[b][i]
    BY <1>3, <2>1
  <2>. k \in Nat /\ Len(t) \in Nat
    BY <1>2, <1>3
  <2>3. i \in Nat \ {0} /\ i + k \in 1 .. k + Len(t) /\ k + i = i + k
    BY <2>1
  <2>. QED  BY <1>3, <2>2, <2>3, Zenon
<1>6. Moved(F, G, a, b, n, k)
  BY <1>0, <1>1, <1>4, <1>5 DEF Moved
<1>. QED  BY <1>2, <1>6 DEF n, k

(* So does dropping a sequence ... *)
LEMMA SeparateDrop ==
    ASSUME NEW S, NEW L, NEW F \in [L -> Seq(S)], NEW G \in [L -> Seq(S)], Separate(F),
           \A l \in L : G[l] \in {F[l], <<>>}
    PROVE  Separate(G)
  BY DEF Separate

(* ... and adding a new packet. *)
LEMMA SeparateNew ==
    ASSUME NEW S, NEW L, NEW F \in [L -> Seq(S)], NEW G \in [L -> Seq(S)],
           NEW a \in L, NEW x \in S, Separate(F), Added(F, G, a, x)
    PROVE  Separate(G)
<1>0. /\ \A l \in L : \A i \in DOMAIN F[l] : F[l][i] # x
      /\ G[a] = Append(F[a], x) /\ \A l \in L \ {a} : G[l] = F[l]
  BY DEF Added
<1>. DEFINE n == Len(F[a])
<1>1. /\ n \in Nat /\ DOMAIN F[a] = 1 .. n /\ DOMAIN G[a] = 1 .. n + 1
      /\ \A i \in 1 .. n : G[a][i] = F[a][i]
      /\ G[a][n + 1] = x
  <2>1. F[a] \in Seq(S)
    OBVIOUS
  <2>. QED  BY <1>0, <2>1
<1>. HIDE DEF n
<1>2. \A i \in DOMAIN G[a] : IF i = n + 1 THEN G[a][i] = x ELSE i \in DOMAIN F[a] /\ G[a][i] = F[a][i]
  BY <1>1
<1>3. SUFFICES ASSUME NEW l \in L, NEW m \in L, NEW i \in DOMAIN G[l], NEW j \in DOMAIN G[m],
                      G[l][i] = G[m][j]
               PROVE  l = m /\ i = j
  BY DEF Separate
<1>4. \A c, d \in L : \A u \in DOMAIN F[c], v \in DOMAIN F[d] : F[c][u] = F[d][v] => c = d /\ u = v
  BY DEF Separate
<1>5. CASE l # a /\ m # a
  BY <1>0, <1>3, <1>4, <1>5
<1>6. CASE l = a /\ m # a
  <2>1. j \in DOMAIN F[m] /\ F[m][j] = G[m][j]
    BY <1>0, <1>6
  <2>2. CASE i = n + 1
    BY <1>0, <1>2, <1>3, <1>6, <2>1, <2>2
  <2>3. CASE i # n + 1
    BY <1>2, <1>3, <1>4, <1>6, <2>1, <2>3
  <2>. QED  BY <2>2, <2>3
<1>7. CASE l # a /\ m = a
  <2>1. i \in DOMAIN F[l] /\ F[l][i] = G[l][i]
    BY <1>0, <1>7
  <2>2. CASE j = n + 1
    BY <1>0, <1>2, <1>3, <1>7, <2>1, <2>2
  <2>3. CASE j # n + 1
    BY <1>2, <1>3, <1>4, <1>7, <2>1, <2>3
  <2>. QED  BY <2>2, <2>3
<1>8. CASE l = a /\ m = a
  <2>1. CASE i = n + 1 /\ j = n + 1
    BY <1>8, <2>1
  <2>2. CASE i = n + 1 /\ j # n + 1
    BY <1>0, <1>2, <1>3, <1>8, <2>2
  <2>3. CASE i # n + 1 /\ j = n + 1
    BY <1>0, <1>2, <1>3, <1>8, <2>3
  <2>4. CASE i # n + 1 /\ j # n + 1
    BY <1>2, <1>3, <1>4, <1>8, <2>4
  <2>. QED  BY <2>1, <2>2, <2>3, <2>4
<1>. QED  BY <1>5, <1>6, <1>7, <1>8

-----------------------------------------------------------------------------
(* Where packets are *)

\* A handler has a packet in hand while it is about to bundle, and only then.
HandInv == \A h \in Handler : pc[h] # "got" => p[h] = None

\* The locations.
AtQueue == <<"queue", None>>
AtStash == <<"stash", None>>
AtSent == <<"sent", None>>
AtHand(h) == <<"hand", h>>
AtResponse(h) == <<"response", h>>

\* What they hold.
Places ==
    /\ At[AtQueue] = queue /\ At[AtStash] = stash /\ At[AtSent] = sent
    /\ \A h \in Handler : At[AtHand(h)] = Hand(h) /\ At[AtResponse(h)] = response[h]

\* All packets are different, and none is newer than the last one written.
PlaceInv ==
    /\ Separate(At)
    /\ \A l \in Location : \A i \in DOMAIN At[l] : At[l][i] <= written

\* There is no other location, and they are all different.
LEMMA Locations ==
    /\ AtQueue \in Location /\ AtStash \in Location /\ AtSent \in Location
    /\ \A h \in Handler : AtHand(h) \in Location /\ AtResponse(h) \in Location
    /\ \A l \in Location : \/ l \in {AtQueue, AtStash, AtSent}
                           \/ \E h \in Handler : l = AtHand(h) \/ l = AtResponse(h)
    /\ AtQueue # AtStash /\ AtQueue # AtSent /\ AtStash # AtSent
    /\ \A h \in Handler : /\ AtHand(h) \notin {AtQueue, AtStash, AtSent}
                          /\ AtResponse(h) \notin {AtQueue, AtStash, AtSent}
    /\ \A g, h \in Handler : /\ AtHand(g) # AtResponse(h)
                             /\ g # h => AtHand(g) # AtHand(h) /\ AtResponse(g) # AtResponse(h)
  BY DEF Location, AtQueue, AtStash, AtSent, AtHand, AtResponse

\* At is what it is meant to be, before and after every step.
LEMMA AtFacts == Places /\ Places'
<1>1. Places
  BY DEF Places, At, Location, AtQueue, AtStash, AtSent, AtHand, AtResponse
<1>2. Places'
  BY DEF Places, At, Location, AtQueue, AtStash, AtSent, AtHand, AtResponse
<1>. QED  BY <1>1, <1>2

\* Every location holds a sequence of packets.
LEMMA AtType ==
    ASSUME TypeOK
    PROVE  At \in [Location -> Seq(Packet)]
<1>1. ASSUME NEW h \in Handler PROVE Hand(h) \in Seq(Packet) /\ response[h] \in Seq(Packet)
  <2>1. response[h] \in Seq(Packet) /\ p[h] \in Packet \cup {None}
    BY DEF TypeOK
  <2>2. CASE p[h] = None
    BY <2>1, <2>2 DEF Hand
  <2>3. CASE p[h] # None
    BY <2>1, <2>3 DEF Hand
  <2>. QED  BY <2>2, <2>3
<1>2. queue \in Seq(Packet) /\ stash \in Seq(Packet) /\ sent \in Seq(Packet)
  BY DEF TypeOK
<1>3. ASSUME NEW l \in Location PROVE At[l] \in Seq(Packet)
  <2>1. CASE l \in {AtQueue, AtStash, AtSent}
    BY <1>2, <2>1, AtFacts DEF Places
  <2>2. CASE \E h \in Handler : l = AtHand(h) \/ l = AtResponse(h)
    BY <1>1, <2>2, AtFacts DEF Places
  <2>. QED  BY <2>1, <2>2, Locations
<1>4. At = [l \in Location |-> At[l]]
  BY DEF At
<1>. QED  BY <1>3, <1>4

\* A location keeps its packets when the variable behind it is unchanged.
LEMMA Elsewhere ==
    ASSUME NEW X,
           queue' = queue \/ AtQueue \in X, stash' = stash \/ AtStash \in X, sent' = sent \/ AtSent \in X,
           \A g \in Handler : /\ Hand(g)' = Hand(g) \/ AtHand(g) \in X
                              /\ response'[g] = response[g] \/ AtResponse(g) \in X
    PROVE  \A l \in Location \ X : At'[l] = At[l]
<1>. SUFFICES ASSUME NEW l \in Location, l \notin X PROVE At'[l] = At[l]
  OBVIOUS
<1>1. CASE l \in {AtQueue, AtStash, AtSent}
  BY <1>1, AtFacts DEF Places
<1>2. CASE \E h \in Handler : l = AtHand(h) \/ l = AtResponse(h)
  BY <1>2, AtFacts DEF Places
<1>. QED  BY <1>1, <1>2, Locations

\* The same after a step.
LEMMA AtTypes ==
    ASSUME TypeOK, TypeOK'
    PROVE  At \in [Location -> Seq(Packet)] /\ At' \in [Location -> Seq(Packet)]
<1>1. At \in [Location -> Seq(Packet)]
  BY AtType
<1>2. (At \in [Location -> Seq(Packet)])'
  BY AtType, PTL
<1>. QED  BY <1>1, <1>2

\* The step moves packets from b to the end of a.
Transfer(a, b) == \E k \in Nat : Moved(At, At', a, b, Len(At[a]), k)

\* The step throws packets away.
Dropped == \A l \in Location : At'[l] \in {At[l], <<>>}

\* Transfers are what steps do with the operators on sequences.
LEMMA ShiftTransfer ==
    ASSUME TypeOK, TypeOK', NEW a \in Location, NEW b \in Location, a # b,
           NEW s \in Seq(Packet), NEW t \in Seq(Packet), Shift(At, At', a, b, s, t)
    PROVE  Transfer(a, b)
  BY AtTypes, ConcatMoved DEF Transfer

\* Packets thrown away leave the others apart.
LEMMA PlaceDrop ==
    ASSUME TypeOK, TypeOK', PlaceInv, written' = written, Dropped
    PROVE  PlaceInv'
<1>. USE DEF Dropped
<1>1. At \in [Location -> Seq(Packet)] /\ At' \in [Location -> Seq(Packet)]
  BY AtTypes
<1>2. Separate(At')
  BY <1>1, SeparateDrop DEF PlaceInv
<1>3. ASSUME NEW l \in Location, NEW i \in DOMAIN At'[l] PROVE At'[l][i] <= written'
  <2>1. CASE At'[l] = At[l]
    BY <1>3, <2>1 DEF PlaceInv
  <2>2. CASE At'[l] = <<>>
    BY <1>3, <2>2
  <2>. QED  BY <2>1, <2>2
<1>. QED  BY <1>2, <1>3 DEF PlaceInv

\* Packets moved to the end of another sequence stay apart from all others.
LEMMA PlaceMove ==
    ASSUME TypeOK, TypeOK', PlaceInv, written' = written,
           NEW a \in Location, NEW b \in Location, a # b, Transfer(a, b)
    PROVE  PlaceInv'
<1>1. At \in [Location -> Seq(Packet)] /\ At' \in [Location -> Seq(Packet)]
  BY AtTypes
<1>2. PICK n \in Nat, k \in Nat : Moved(At, At', a, b, n, k)
  BY <1>1 DEF Transfer
<1>3. Separate(At')
  <2>1. DOMAIN At = Location /\ DOMAIN At' = Location
    BY <1>1
  <2>. QED  BY <1>2, <2>1, SeparateBy DEF PlaceInv
<1>4. ASSUME NEW l \in Location, NEW i \in DOMAIN At'[l]
      PROVE  \E m \in Location : \E j \in DOMAIN At[m] : At'[l][i] = At[m][j]
  <2>1. CASE l = a
    BY <1>2, <1>4, <2>1 DEF Moved
  <2>2. CASE l = b
    BY <1>2, <1>4, <2>2 DEF Moved
  <2>3. CASE l \notin {a, b}
    BY <1>1, <1>2, <1>4, <2>3 DEF Moved
  <2>. QED  BY <2>1, <2>2, <2>3
<1>5. \A l \in Location : \A i \in DOMAIN At'[l] : At'[l][i] <= written'
  <2>. SUFFICES ASSUME NEW l \in Location, NEW i \in DOMAIN At'[l] PROVE At'[l][i] <= written'
    OBVIOUS
  <2>1. PICK m \in Location : \E j \in DOMAIN At[m] : At'[l][i] = At[m][j]
    BY <1>4
  <2>2. PICK j \in DOMAIN At[m] : At'[l][i] = At[m][j]
    BY <2>1
  <2>3. At[m][j] <= written
    BY DEF PlaceInv
  <2>. QED  BY <2>2, <2>3
<1>. QED  BY <1>3, <1>5 DEF PlaceInv

\* The head of a sequence and what is left, and a sequence of one element.
LEMMA HeadTail ==
    ASSUME NEW S, NEW s \in Seq(S), s # <<>>
    PROVE  /\ Head(s) \in S /\ Tail(s) \in Seq(S) /\ s = <<Head(s)>> \o Tail(s)
           /\ Len(s) <= 1 => Tail(s) = <<>>
<1>1. Head(s) \in S /\ Tail(s) \in Seq(S) /\ <<Head(s)>> \in Seq(S) /\ Len(s) \in Nat \ {0}
  OBVIOUS
<1>2. s = <<Head(s)>> \o Tail(s)
  BY <1>1
<1>3. ASSUME Len(s) <= 1 PROVE Tail(s) = <<>>
  BY <1>1, <1>3
<1>. QED  BY <1>1, <1>2, <1>3

-----------------------------------------------------------------------------
(* What the steps do with packets *)

\* A handler takes a packet from the stash ...
LEMMA TakeStashTransfer ==
    ASSUME TypeOK, TypeOK', HandInv, NEW h \in Handler, pc[h] # "got", TakeStash(h),
           UNCHANGED <<response, sent>>
    PROVE  Transfer(AtHand(h), AtStash)
<1>1. p[h] = None /\ p'[h] = Head(stash) /\ Head(stash) \in Packet
  BY DEF HandInv, TakeStash, TypeOK
<1>2. Head(stash) # None
  BY <1>1, HandlerAssumption DEF Packet
<1>3. stash = <<Head(stash)>> \o <<>> /\ <<Head(stash)>> \in Seq(Packet) /\ <<>> \in Seq(Packet)
  <2>1. stash \in Seq(Packet) /\ stash # <<>> /\ Len(stash) <= 1
    BY DEF TypeOK, TakeStash
  <2>2. stash = <<Head(stash)>> \o <<>>
    BY <2>1, HeadTail
  <2>. QED  BY <1>1, <2>2
<1>4. Hand(h) = <<>> /\ Hand(h)' = <<Head(stash)>> /\ <<Head(stash)>> = <<>> \o <<Head(stash)>>
  BY <1>1, <1>2 DEF Hand
<1>5. \A g \in Handler \ {h} : Hand(g)' = Hand(g)
  BY DEF TakeStash, TypeOK, Hand
<1>6. AtHand(h) \in Location /\ AtStash \in Location /\ AtHand(h) # AtStash
  BY Locations
<1>7. /\ At[AtStash] = <<Head(stash)>> \o <<>> /\ At'[AtStash] = <<>>
      /\ At'[AtHand(h)] = At[AtHand(h)] \o <<Head(stash)>>
  BY <1>3, <1>4, AtFacts, Zenon DEF Places, TakeStash
<1>8. \A l \in Location \ {AtHand(h), AtStash} : At'[l] = At[l]
  BY <1>5, Elsewhere DEF TakeStash
<1>9. Shift(At, At', AtHand(h), AtStash, <<Head(stash)>>, <<>>)
  BY <1>7, <1>8, AtTypes DEF Shift
<1>. QED  BY <1>3, <1>6, <1>9, ShiftTransfer

\* ... from the outgoing queue ...
LEMMA TakeOutgoingTransfer ==
    ASSUME TypeOK, TypeOK', HandInv, NEW h \in Handler, pc[h] # "got", TakeOutgoing(h),
           UNCHANGED <<response, sent>>
    PROVE  Transfer(AtHand(h), AtQueue)
<1>1. queue \in Seq(Packet) /\ queue # <<>>
  BY DEF TypeOK, TakeOutgoing
<1>2. Head(queue) \in Packet /\ Tail(queue) \in Seq(Packet) /\ queue = <<Head(queue)>> \o Tail(queue)
  BY <1>1, HeadTail
<1>3. p[h] = None /\ p'[h] = Head(queue) /\ Head(queue) # None /\ <<Head(queue)>> \in Seq(Packet)
  <2>1. Head(queue) # None
    BY <1>2, HandlerAssumption DEF Packet
  <2>. QED  BY <1>2, <2>1 DEF HandInv, TakeOutgoing, TypeOK
<1>4. Hand(h) = <<>> /\ Hand(h)' = <<Head(queue)>> /\ <<Head(queue)>> = <<>> \o <<Head(queue)>>
  BY <1>3 DEF Hand
<1>5. \A g \in Handler \ {h} : Hand(g)' = Hand(g)
  BY DEF TakeOutgoing, TypeOK, Hand
<1>6. AtHand(h) \in Location /\ AtQueue \in Location /\ AtHand(h) # AtQueue
  BY Locations
<1>7. /\ At[AtQueue] = <<Head(queue)>> \o Tail(queue) /\ At'[AtQueue] = Tail(queue)
      /\ At'[AtHand(h)] = At[AtHand(h)] \o <<Head(queue)>>
  BY <1>2, <1>4, AtFacts, Zenon DEF Places, TakeOutgoing
<1>8. \A l \in Location \ {AtHand(h), AtQueue} : At'[l] = At[l]
  BY <1>5, Elsewhere DEF TakeOutgoing
<1>9. Shift(At, At', AtHand(h), AtQueue, <<Head(queue)>>, Tail(queue))
  BY <1>7, <1>8, AtTypes DEF Shift
<1>. QED  BY <1>2, <1>3, <1>6, <1>9, ShiftTransfer

\* ... from the hand to the response or the stash, unless the stash is full ...
LEMMA BundleTransfer ==
    ASSUME TypeOK, TypeOK', GotInv, NEW h \in Handler, Bundle(h)
    PROVE  /\ Fits(h) => Transfer(AtResponse(h), AtHand(h))
           /\ ~Fits(h) /\ stash = <<>> => Transfer(AtStash, AtHand(h)) /\ At'[AtHand(h)] = <<>>
           /\ ~Fits(h) /\ stash # <<>> => Dropped
<1>1. p[h] \in Packet /\ p[h] # None /\ p'[h] = None /\ UNCHANGED <<queue, sent>>
  <2>1. p[h] \in Packet
    BY DEF GotInv, Bundle
  <2>. QED  BY <2>1, HandlerAssumption DEF Bundle, TypeOK, Packet
<1>2. Hand(h) = <<p[h]>> /\ Hand(h)' = <<>> /\ <<p[h]>> \in Seq(Packet) /\ <<>> \in Seq(Packet)
  BY <1>1 DEF Hand
<1>7. <<p[h]>> = <<p[h]>> \o <<>> /\ <<p[h]>> = <<>> \o <<p[h]>>
  OBVIOUS
<1>3. \A g \in Handler \ {h} : Hand(g)' = Hand(g)
  BY DEF Bundle, TypeOK, Hand
<1>4. ASSUME Fits(h) PROVE Transfer(AtResponse(h), AtHand(h))
  <2>1. response' = [response EXCEPT ![h] = Append(@, p[h])]
    BY <1>4 DEF Bundle
  <2>6. stash' = stash
    BY <1>4 DEF Bundle
  <2>2. /\ response'[h] = response[h] \o <<p[h]>>
        /\ \A g \in Handler \ {h} : response'[g] = response[g]
    <3>1. response \in [Handler -> Seq(Packet)] /\ response[h] \in Seq(Packet)
      BY DEF TypeOK
    <3>2. Append(response[h], p[h]) = response[h] \o <<p[h]>>
      BY <1>1, <3>1
    <3>. QED  BY <2>1, <3>1, <3>2
  <2>3. /\ AtResponse(h) \in Location /\ AtHand(h) \in Location /\ AtResponse(h) # AtHand(h)
    BY Locations
  <2>4. /\ At[AtHand(h)] = <<p[h]>> \o <<>> /\ At'[AtHand(h)] = <<>>
        /\ At'[AtResponse(h)] = At[AtResponse(h)] \o <<p[h]>>
    BY <1>2, <1>7, <2>2, AtFacts, Zenon DEF Places
  <2>5. \A l \in Location \ {AtResponse(h), AtHand(h)} : At'[l] = At[l]
    BY <1>1, <1>3, <2>2, <2>6, Elsewhere
  <2>7. <<p[h]>> \in Seq(Packet) /\ <<>> \in Seq(Packet)
    BY <1>2
  <2>8. Shift(At, At', AtResponse(h), AtHand(h), <<p[h]>>, <<>>)
    BY <2>4, <2>5, AtTypes DEF Shift
  <2>. QED  BY <2>3, <2>7, <2>8, ShiftTransfer
<1>5. ASSUME ~Fits(h), stash = <<>> PROVE Transfer(AtStash, AtHand(h)) /\ At'[AtHand(h)] = <<>>
  <2>1. stash' = <<p[h]>> /\ response' = response
    BY <1>5 DEF Bundle
  <2>2. AtStash \in Location /\ AtHand(h) \in Location /\ AtStash # AtHand(h)
    BY Locations
  <2>3. /\ At[AtHand(h)] = <<p[h]>> \o <<>> /\ At'[AtHand(h)] = <<>>
        /\ At'[AtStash] = At[AtStash] \o <<p[h]>>
    BY <1>2, <1>5, <1>7, <2>1, AtFacts, Zenon DEF Places
  <2>4. \A l \in Location \ {AtStash, AtHand(h)} : At'[l] = At[l]
    BY <1>1, <1>3, <2>1, Elsewhere
  <2>5. Shift(At, At', AtStash, AtHand(h), <<p[h]>>, <<>>)
    BY <2>3, <2>4, AtTypes DEF Shift
  <2>. QED  BY <1>2, <2>2, <2>3, <2>5, ShiftTransfer
<1>6. ASSUME ~Fits(h), stash # <<>> PROVE Dropped
  <2>1. stash' = stash /\ response' = response
    BY <1>6 DEF Bundle
  <2>2. At'[AtHand(h)] = <<>>
    BY <1>2, AtFacts, Zenon DEF Places
  <2>3. \A l \in Location \ {AtHand(h)} : At'[l] = At[l]
    BY <1>1, <1>3, <2>1, Elsewhere
  <2>. QED  BY <2>2, <2>3, Zenon DEF Dropped
<1>. QED  BY <1>4, <1>5, <1>6

\* ... from the response to what is sent, or nowhere ...
LEMMA EndTransfer ==
    ASSUME TypeOK, TypeOK', NEW h \in Handler
    PROVE  /\ WriteFails(h) => Dropped
           /\ Respond(h) => Transfer(AtSent, AtResponse(h))
<1>1. ASSUME WriteFails(h) PROVE Dropped
  <2>1. Hand(h)' = <<>> /\ response'[h] = <<>> /\ UNCHANGED <<queue, stash, sent>>
    BY <1>1 DEF WriteFails, TypeOK, Hand
  <2>2. \A g \in Handler \ {h} : Hand(g)' = Hand(g) /\ response'[g] = response[g]
    BY <1>1 DEF WriteFails, TypeOK, Hand
  <2>3. At'[AtHand(h)] = <<>> /\ At'[AtResponse(h)] = <<>>
    BY <2>1, AtFacts, Zenon DEF Places
  <2>4. \A l \in Location \ {AtHand(h), AtResponse(h)} : At'[l] = At[l]
    BY <2>1, <2>2, Elsewhere
  <2>. QED  BY <2>3, <2>4, Zenon DEF Dropped
<1>2. ASSUME Respond(h) PROVE Transfer(AtSent, AtResponse(h))
  <2>1. /\ response[h] \in Seq(Packet) /\ response'[h] = <<>> /\ sent' = sent \o response[h]
        /\ UNCHANGED <<queue, stash, p>>
    BY <1>2 DEF Respond, TypeOK
  <2>2. \A g \in Handler \ {h} : response'[g] = response[g]
    BY <1>2 DEF Respond, TypeOK
  <2>3. \A g \in Handler : Hand(g)' = Hand(g)
    BY <2>1 DEF Hand
  <2>4. AtSent \in Location /\ AtResponse(h) \in Location /\ AtSent # AtResponse(h)
    BY Locations
  <2>5. response[h] = response[h] \o <<>> /\ <<>> \in Seq(Packet)
    BY <2>1
  <2>6. /\ At[AtResponse(h)] = response[h] \o <<>> /\ At'[AtResponse(h)] = <<>>
        /\ At'[AtSent] = At[AtSent] \o response[h]
    BY <2>1, <2>5, AtFacts, Zenon DEF Places
  <2>7. \A l \in Location \ {AtSent, AtResponse(h)} : At'[l] = At[l]
    BY <2>1, <2>2, <2>3, Elsewhere
  <2>8. Shift(At, At', AtSent, AtResponse(h), response[h], <<>>)
    BY <2>6, <2>7, AtTypes DEF Shift
  <2>. QED  BY <2>1, <2>4, <2>5, <2>8, ShiftTransfer
<1>. QED  BY <1>1, <1>2

\* ... and WriteTo adds one that is newer than all others, unless the queue is full.
LEMMA WriteToAdds ==
    ASSUME TypeOK, TypeOK', PlaceInv, WriteTo
    PROVE  /\ written + 1 \in Packet
           /\ \A l \in Location : \A i \in DOMAIN At[l] : At[l][i] < written + 1 /\ At[l][i] <= written'
           /\ At' = At \/ Added(At, At', AtQueue, written + 1)
<1>1. /\ written \in Nat /\ written' = written + 1 /\ written + 1 \in Packet
      /\ UNCHANGED <<stash, sent, p, response>>
  BY HandlerAssumption DEF WriteTo, TypeOK, Packet
<1>2. \A g \in Handler : Hand(g)' = Hand(g)
  BY <1>1 DEF Hand
<1>3. \A l \in Location \ {AtQueue} : At'[l] = At[l]
  BY <1>1, <1>2, Elsewhere
<1>4. At \in [Location -> Seq(Packet)] /\ At' \in [Location -> Seq(Packet)] /\ AtQueue \in Location
  BY AtTypes, Locations
<1>5. ASSUME NEW l \in Location, NEW i \in DOMAIN At[l]
      PROVE  At[l][i] < written + 1 /\ At[l][i] # written + 1 /\ At[l][i] <= written'
  <2>1. Packet \subseteq Nat
    BY HandlerAssumption DEF Packet
  <2>2. At[l][i] \in Packet /\ At[l][i] <= written
    BY <1>4 DEF PlaceInv
  <2>3. At[l][i] \in Nat
    BY <2>1, <2>2
  <2>. QED  BY <1>1, <2>2, <2>3
<1>6. CASE queue' = Append(queue, written + 1)
  <2>1. At'[AtQueue] = Append(At[AtQueue], written + 1)
    BY <1>6, AtFacts, Zenon DEF Places
  <2>2. Added(At, At', AtQueue, written + 1)
    BY <1>3, <1>4, <1>5, <2>1 DEF Added
  <2>. QED  BY <1>1, <1>5, <2>2
<1>7. CASE queue' = queue
  <2>1. At'[AtQueue] = At[AtQueue]
    BY <1>7, AtFacts, Zenon DEF Places
  <2>2. \A l \in Location : At'[l] = At[l]
    BY <1>3, <2>1, Zenon
  <2>3. At' = At
    BY <1>4, <2>2
  <2>. QED  BY <1>1, <1>5, <2>3
<1>. QED  BY <1>6, <1>7 DEF WriteTo

\* Only the selects take a packet, and Bundle and WriteFails dispose of it.
LEMMA HandStep ==
    ASSUME TypeOK, HandInv, [Next]_vars
    PROVE  HandInv'
<1>. USE DEF TypeOK, HandInv
<1>1. CASE UNCHANGED <<pc, p>>
  BY <1>1
<1>2. ASSUME NEW h \in Handler, Request(h) PROVE HandInv'
  BY <1>2 DEF Request
<1>3. ASSUME NEW h \in Handler, QueueIncoming(h) PROVE HandInv'
  BY <1>3 DEF QueueIncoming
<1>4. ASSUME NEW h \in Handler, Select1(h) \/ Select2(h) \/ Select3(h) PROVE HandInv'
  BY <1>4 DEF Select1, Select2, Select3, TakeStash, TakeOutgoing, GoTo
<1>5. ASSUME NEW h \in Handler, Bundle(h) PROVE HandInv'
  <2>1. p' = [p EXCEPT ![h] = None] /\ \A g \in Handler \ {h} : pc'[g] = pc[g]
    BY <1>5 DEF Bundle
  <2>. QED  BY <2>1
<1>6. ASSUME NEW h \in Handler, WriteFails(h) PROVE HandInv'
  BY <1>6 DEF WriteFails
<1>7. ASSUME NEW h \in Handler, Respond(h) PROVE HandInv'
  BY <1>7 DEF Respond
<1>. HIDE DEF TypeOK, HandInv
<1>. QED
  BY <1>1, <1>2, <1>3, <1>4, <1>5, <1>6, <1>7 DEF Next, ServeHTTP, vars, BadRequest, WriteTo, ReadFrom

\* Steps that leave all packets where they are.
LEMMA PlaceSame ==
    ASSUME PlaceInv, UNCHANGED <<queue, stash, sent, p, response, written>>
    PROVE  PlaceInv'
<1>1. At' = At
  BY DEF At, Hand
<1>. QED  BY <1>1 DEF PlaceInv

\* A new packet is apart from all others.
LEMMA PlaceNew ==
    ASSUME TypeOK, TypeOK', PlaceInv, WriteTo
    PROVE  PlaceInv'
<1>1. \A l \in Location : \A i \in DOMAIN At[l] : At[l][i] <= written'
  BY WriteToAdds
<1>2. At \in [Location -> Seq(Packet)] /\ At' \in [Location -> Seq(Packet)] /\ AtQueue \in Location
  BY AtTypes, Locations
<1>3. CASE At' = At
  <2>1. Separate(At') /\ \A l \in Location : \A i \in DOMAIN At'[l] : At'[l][i] <= written'
    BY <1>1, <1>3 DEF PlaceInv
  <2>. QED  BY <2>1 DEF PlaceInv
<1>4. CASE Added(At, At', AtQueue, written + 1)
  <2>1. Separate(At')
    BY <1>2, <1>4, WriteToAdds, SeparateNew DEF PlaceInv
  <2>2. ASSUME NEW l \in Location, NEW i \in DOMAIN At'[l] PROVE At'[l][i] <= written'
    <3>1. CASE l # AtQueue
      <4>1. At'[l] = At[l]
        BY <1>2, <1>4, <3>1 DEF Added
      <4>. QED  BY <1>1, <4>1
    <3>2. CASE l = AtQueue
      <4>1. At[AtQueue] \in Seq(Packet) /\ At'[AtQueue] = Append(At[AtQueue], written + 1)
        BY <1>2, <1>4 DEF Added
      <4>2. At'[l][i] = written + 1 \/ (i \in DOMAIN At[l] /\ At'[l][i] = At[l][i])
        BY <3>2, <4>1
      <4>3. written' = written + 1 /\ written \in Nat
        BY HandlerAssumption DEF WriteTo, TypeOK
      <4>. QED  BY <1>1, <4>2, <4>3
    <3>. QED  BY <3>1, <3>2
  <2>. QED  BY <2>1, <2>2 DEF PlaceInv
<1>. QED  BY <1>3, <1>4, WriteToAdds

\* Every step keeps the packets apart.
LEMMA PlaceStep ==
    ASSUME IndInv, IndInv', HandInv, PlaceInv, [Next]_vars
    PROVE  PlaceInv'
<1>. TypeOK /\ TypeOK' /\ GotInv
  BY DEF IndInv
<1>1. CASE UNCHANGED <<queue, stash, sent, p, response, written>>
  BY <1>1, PlaceSame
<1>2. CASE WriteTo
  BY <1>2, PlaceNew
<1>3. ASSUME NEW h \in Handler, Select1(h) \/ Select2(h) \/ Select3(h) PROVE PlaceInv'
  <2>1. pc[h] # "got" /\ UNCHANGED <<written, response, sent>>
    BY <1>3 DEF Select1, Select2, Select3
  <2>2. CASE TakeStash(h)
    <3>1. Transfer(AtHand(h), AtStash)
      BY <2>1, <2>2, TakeStashTransfer
    <3>. QED  BY <2>1, <3>1, PlaceMove, Locations
  <2>3. CASE TakeOutgoing(h)
    <3>1. Transfer(AtHand(h), AtQueue)
      BY <2>1, <2>3, TakeOutgoingTransfer
    <3>. QED  BY <2>1, <3>1, PlaceMove, Locations
  <2>4. CASE UNCHANGED <<queue, stash, p>>
    BY <2>1, <2>4, <1>1
  <2>. QED  BY <1>3, <2>2, <2>3, <2>4 DEF Select1, Select2, Select3, GoTo
<1>4. ASSUME NEW h \in Handler, Bundle(h) PROVE PlaceInv'
  <2>1. \/ Transfer(AtResponse(h), AtHand(h)) \/ Transfer(AtStash, AtHand(h)) \/ Dropped
    BY <1>4, BundleTransfer
  <2>2. written' = written
    BY <1>4 DEF Bundle
  <2>. QED  BY <2>1, <2>2, PlaceMove, PlaceDrop, Locations
<1>5. ASSUME NEW h \in Handler, WriteFails(h) \/ Respond(h) PROVE PlaceInv'
  <2>1. Transfer(AtSent, AtResponse(h)) \/ Dropped
    BY <1>5, EndTransfer
  <2>2. written' = written
    BY <1>5 DEF WriteFails, Respond
  <2>. QED  BY <2>1, <2>2, PlaceMove, PlaceDrop, Locations
<1>6. ASSUME NEW h \in Handler, Request(h) \/ QueueIncoming(h) PROVE PlaceInv'
  BY <1>1, <1>6 DEF Request, QueueIncoming
<1>. QED
  BY <1>1, <1>2, <1>3, <1>4, <1>5, <1>6 DEF Next, ServeHTTP, vars, BadRequest, ReadFrom

-----------------------------------------------------------------------------
(* The order of packets *)

\* How far a location is from the client.
Rank(l) ==
    CASE l[1] = "sent" -> 1
      [] l[1] = "response" -> 2
      [] l[1] = "hand" -> 3
      [] l[1] = "stash" -> 4
      [] OTHER -> 5

\* Older packets are nearer to the client.
InOrder(F) ==
    \A l, m \in Location : \A i \in DOMAIN F[l], j \in DOMAIN F[m] :
        Rank(l) < Rank(m) \/ (l = m /\ i < j) => F[l][i] < F[m][j]

\* Moving packets towards the client keeps the order if there is nothing in between.
LEMMA OrderForward ==
    ASSUME NEW F, NEW G, DOMAIN F = Location, InOrder(F), NEW a \in Location, NEW b \in Location,
           NEW n \in Nat, NEW k \in Nat, Moved(F, G, a, b, n, k), Rank(a) < Rank(b),
           \A m \in Location \ {b} : Rank(a) < Rank(m) /\ Rank(m) <= Rank(b) => F[m] = <<>>
    PROVE  InOrder(G)
<1>1. SUFFICES ASSUME NEW l \in Location, NEW m \in Location, NEW i \in DOMAIN G[l], NEW j \in DOMAIN G[m],
                      Rank(l) < Rank(m) \/ (l = m /\ i < j)
               PROVE  G[l][i] < G[m][j]
  BY DEF InOrder
<1>2. \A x, y \in Location : \A u \in DOMAIN F[x], v \in DOMAIN F[y] :
         Rank(x) < Rank(y) \/ (x = y /\ u < v) => F[x][u] < F[y][v]
  BY DEF InOrder
<1>3. \A x \in Location : Rank(x) \in 1 .. 5
  BY DEF Rank
<1>. USE DEF Moved
<1>4. CASE l = a
  <2>1. CASE m = a
    BY <1>1, <1>2, <1>3, <1>4, <2>1
  <2>2. CASE m = b
    BY <1>1, <1>2, <1>3, <1>4, <2>2
  <2>3. CASE m \notin {a, b}
    BY <1>1, <1>2, <1>3, <1>4, <2>3
  <2>. QED  BY <2>1, <2>2, <2>3
<1>5. CASE l = b
  <2>1. CASE m = a
    BY <1>1, <1>3, <1>5, <2>1
  <2>2. CASE m = b
    BY <1>1, <1>2, <1>3, <1>5, <2>2
  <2>3. CASE m \notin {a, b}
    BY <1>1, <1>2, <1>3, <1>5, <2>3
  <2>. QED  BY <2>1, <2>2, <2>3
<1>6. CASE l \notin {a, b}
  <2>1. CASE m = a
    BY <1>1, <1>2, <1>3, <1>6, <2>1
  <2>2. CASE m = b
    BY <1>1, <1>2, <1>3, <1>6, <2>2
  <2>3. CASE m \notin {a, b}
    BY <1>1, <1>2, <1>6, <2>3
  <2>. QED  BY <2>1, <2>2, <2>3
<1>. QED  BY <1>4, <1>5, <1>6

\* So does putting the packets of b back to a, if there is nothing in between either.
LEMMA OrderBack ==
    ASSUME NEW F, NEW G, DOMAIN F = Location, InOrder(F), NEW a \in Location, NEW b \in Location,
           NEW k \in Nat, Moved(F, G, a, b, 0, k), Rank(b) < Rank(a), F[a] = <<>>, G[b] = <<>>,
           \A m \in Location \ {b} : Rank(b) <= Rank(m) /\ Rank(m) < Rank(a) => F[m] = <<>>
    PROVE  InOrder(G)
<1>1. SUFFICES ASSUME NEW l \in Location, NEW m \in Location, NEW i \in DOMAIN G[l], NEW j \in DOMAIN G[m],
                      Rank(l) < Rank(m) \/ (l = m /\ i < j)
               PROVE  G[l][i] < G[m][j]
  BY DEF InOrder
<1>2. \A x, y \in Location : \A u \in DOMAIN F[x], v \in DOMAIN F[y] :
         Rank(x) < Rank(y) \/ (x = y /\ u < v) => F[x][u] < F[y][v]
  BY DEF InOrder
<1>3. \A x \in Location : Rank(x) \in 1 .. 5
  BY DEF Rank
<1>4. l # b /\ m # b
  OBVIOUS
<1>5. \A u \in DOMAIN G[a] : u \in DOMAIN F[b] /\ F[b][u] = G[a][u]
  BY DEF Moved
<1>6. \A x \in Location \ {a, b} : G[x] = F[x]
  BY DEF Moved
<1>7. CASE l = a /\ m = a
  <2>1. Rank(a) \in Nat /\ i < j
    BY <1>1, <1>3, <1>7
  <2>. QED  BY <1>2, <1>5, <1>7, <2>1
<1>8. CASE l = a /\ m # a
  BY <1>1, <1>2, <1>3, <1>4, <1>5, <1>6, <1>8
<1>9. CASE l # a /\ m = a
  BY <1>1, <1>2, <1>3, <1>4, <1>5, <1>6, <1>9
<1>10. CASE l # a /\ m # a
  BY <1>1, <1>2, <1>4, <1>6, <1>10
<1>. QED  BY <1>7, <1>8, <1>9, <1>10

\* Dropping packets keeps the order ...
LEMMA OrderDrop ==
    ASSUME NEW F \in [Location -> Seq(Packet)], NEW G \in [Location -> Seq(Packet)], InOrder(F),
           \A l \in Location : G[l] \in {F[l], <<>>}
    PROVE  InOrder(G)
  BY DEF InOrder

\* ... and so does a new packet behind all others.
LEMMA OrderNew ==
    ASSUME NEW F \in [Location -> Seq(Packet)], NEW G \in [Location -> Seq(Packet)], InOrder(F),
           NEW a \in Location, NEW x \in Packet, Added(F, G, a, x),
           \A l \in Location : Rank(l) <= Rank(a),
           \A l \in Location : \A i \in DOMAIN F[l] : F[l][i] < x
    PROVE  InOrder(G)
<1>1. /\ G[a] = Append(F[a], x) /\ \A l \in Location \ {a} : G[l] = F[l]
  BY DEF Added
<1>. DEFINE n == Len(F[a])
<1>2. /\ n \in Nat /\ DOMAIN F[a] = 1 .. n /\ DOMAIN G[a] = 1 .. n + 1
      /\ \A i \in 1 .. n : G[a][i] = F[a][i]
      /\ G[a][n + 1] = x
  <2>1. F[a] \in Seq(Packet)
    OBVIOUS
  <2>. QED  BY <1>1, <2>1
<1>. HIDE DEF n
<1>3. SUFFICES ASSUME NEW l \in Location, NEW m \in Location, NEW i \in DOMAIN G[l], NEW j \in DOMAIN G[m],
                      Rank(l) < Rank(m) \/ (l = m /\ i < j)
               PROVE  G[l][i] < G[m][j]
  BY DEF InOrder
<1>4. \A c, d \in Location : \A u \in DOMAIN F[c], v \in DOMAIN F[d] :
         Rank(c) < Rank(d) \/ (c = d /\ u < v) => F[c][u] < F[d][v]
  BY DEF InOrder
<1>5. \A c \in Location : Rank(c) \in 1 .. 5
  BY DEF Rank
<1>6. l = a => m = a /\ i < j
  <2>1. Rank(a) \in 1 .. 5 /\ Rank(m) \in 1 .. 5
    BY <1>5
  <2>2. Rank(m) <= Rank(a)
    BY Zenon
  <2>. QED  BY <1>3, <2>1, <2>2
<1>7. CASE l # a /\ m # a
  BY <1>1, <1>3, <1>4, <1>7
<1>8. CASE l # a /\ m = a
  <2>1. i \in DOMAIN F[l] /\ F[l][i] = G[l][i]
    BY <1>1, <1>8
  <2>2. CASE j = n + 1
    BY <1>2, <1>8, <2>1, <2>2
  <2>3. CASE j # n + 1
    <3>1. j \in DOMAIN F[a] /\ G[a][j] = F[a][j]
      BY <1>2, <1>8, <2>3
    <3>. QED  BY <1>3, <1>4, <1>8, <2>1, <3>1
  <2>. QED  BY <2>2, <2>3
<1>9. CASE l = a /\ m = a
  <2>1. i \in DOMAIN F[a] /\ G[a][i] = F[a][i] /\ i < j
    BY <1>2, <1>6, <1>9
  <2>2. CASE j = n + 1
    BY <1>2, <1>9, <2>1, <2>2
  <2>3. CASE j # n + 1
    <3>1. j \in DOMAIN F[a] /\ G[a][j] = F[a][j]
      BY <1>2, <1>9, <2>3
    <3>. QED  BY <1>4, <1>9, <2>1, <3>1
  <2>. QED  BY <2>2, <2>3
<1>. QED  BY <1>6, <1>7, <1>8, <1>9

\* The ranks, and who has them.
LEMMA Ranks ==
    /\ Rank(AtSent) = 1 /\ Rank(AtStash) = 4 /\ Rank(AtQueue) = 5
    /\ \A h \in Handler : Rank(AtResponse(h)) = 2 /\ Rank(AtHand(h)) = 3
    /\ \A l \in Location : \/ l \in {AtSent, AtStash, AtQueue}
                           \/ \E h \in Handler : l = AtResponse(h) \/ l = AtHand(h)
<1>1. /\ Rank(AtSent) = 1 /\ Rank(AtStash) = 4 /\ Rank(AtQueue) = 5
      /\ \A h \in Handler : Rank(AtResponse(h)) = 2 /\ Rank(AtHand(h)) = 3
  BY DEF Rank, AtSent, AtStash, AtQueue, AtResponse, AtHand
<1>. QED  BY <1>1, Locations

(***************************************************************************)
(* While requests do not overlap: one handler is busy at most; it finds    *)
(* the stash empty by the time it turns to the queue, and nobody fills it  *)
(* behind its back, so there is room when a packet has to be put back.     *)
(***************************************************************************)
ControlInv ==
    /\ \A h \in Handler : pc[h] \in {"idle", "incoming"} => response[h] = <<>>
    /\ alone => /\ lost = {}
                /\ \A g, h \in Handler : pc[g] # "idle" /\ pc[h] # "idle" => g = h
                /\ \A h \in Handler : pc[h] \in {"select2", "select3", "got"} => stash = <<>>

\* Every step keeps that.
LEMMA ControlStep ==
    ASSUME TypeOK, ControlInv, [Next]_vars
    PROVE  ControlInv'
<1>. USE DEF TypeOK, ControlInv
<1>1. CASE UNCHANGED <<pc, response, alone, lost, stash>>
  BY <1>1
<1>2. ASSUME NEW h \in Handler, Request(h) PROVE ControlInv'
  BY <1>2 DEF Request
<1>3. ASSUME NEW h \in Handler, QueueIncoming(h) PROVE ControlInv'
  BY <1>3 DEF QueueIncoming
<1>4. ASSUME NEW h \in Handler, Select1(h) PROVE ControlInv'
  <2>1. CASE stash # <<>>
    BY <1>4, <2>1 DEF Select1, TakeStash
  <2>2. CASE stash = <<>>
    BY <1>4, <2>2 DEF Select1, GoTo
  <2>. QED  BY <2>1, <2>2
<1>5. ASSUME NEW h \in Handler, Select2(h) PROVE ControlInv'
  BY <1>5 DEF Select2, TakeStash, TakeOutgoing, GoTo
<1>6. ASSUME NEW h \in Handler, Select3(h) PROVE ControlInv'
  BY <1>6 DEF Select3, TakeStash, TakeOutgoing, GoTo
<1>7. ASSUME NEW h \in Handler, Bundle(h) PROVE ControlInv'
  <2>1. CASE Fits(h)
    BY <1>7, <2>1 DEF Bundle
  <2>2. CASE ~Fits(h)
    BY <1>7, <2>2 DEF Bundle
  <2>. QED  BY <2>1, <2>2
<1>8. ASSUME NEW h \in Handler, WriteFails(h) PROVE ControlInv'
  BY <1>8 DEF WriteFails
<1>9. ASSUME NEW h \in Handler, Respond(h) PROVE ControlInv'
  BY <1>9 DEF Respond
<1>. HIDE DEF TypeOK, ControlInv
<1>. QED
  BY <1>1, <1>2, <1>3, <1>4, <1>5, <1>6, <1>7, <1>8, <1>9
     DEF Next, ServeHTTP, vars, BadRequest, WriteTo, ReadFrom

\* Transfers towards the client, and back.
LEMMA OrderTransfer ==
    ASSUME TypeOK, TypeOK', InOrder(At), NEW a \in Location, NEW b \in Location, Transfer(a, b)
    PROVE  /\ /\ Rank(a) < Rank(b)
              /\ \A m \in Location \ {b} : Rank(a) < Rank(m) /\ Rank(m) <= Rank(b) => At[m] = <<>>
              => InOrder(At')
           /\ /\ Rank(b) < Rank(a) /\ At[a] = <<>> /\ At'[b] = <<>>
              /\ \A m \in Location \ {b} : Rank(b) <= Rank(m) /\ Rank(m) < Rank(a) => At[m] = <<>>
              => InOrder(At')
<1>1. DOMAIN At = Location /\ Len(At[a]) \in Nat
  BY AtTypes
<1>2. PICK k \in Nat : Moved(At, At', a, b, Len(At[a]), k)
  BY DEF Transfer
<1>3. ASSUME Rank(a) < Rank(b),
             \A m \in Location \ {b} : Rank(a) < Rank(m) /\ Rank(m) <= Rank(b) => At[m] = <<>>
      PROVE  InOrder(At')
  BY <1>1, <1>2, <1>3, OrderForward
<1>4. ASSUME Rank(b) < Rank(a), At[a] = <<>>, At'[b] = <<>>,
             \A m \in Location \ {b} : Rank(b) <= Rank(m) /\ Rank(m) < Rank(a) => At[m] = <<>>
      PROVE  InOrder(At')
  <2>1. Len(At[a]) = 0
    BY <1>4
  <2>2. Moved(At, At', a, b, 0, k)
    BY <1>2, <2>1
  <2>. QED  BY <1>1, <1>4, <2>2, OrderBack
<1>. QED  BY <1>3, <1>4

\* While requests do not overlap, only the handler that is busy has packets.
LEMMA OthersEmpty ==
    ASSUME TypeOK, HandInv, ControlInv, alone, NEW h \in Handler, pc[h] # "idle"
    PROVE  \A g \in Handler \ {h} : At[AtHand(g)] = <<>> /\ At[AtResponse(g)] = <<>>
<1>. SUFFICES ASSUME NEW g \in Handler \ {h} PROVE At[AtHand(g)] = <<>> /\ At[AtResponse(g)] = <<>>
  OBVIOUS
<1>1. pc[g] = "idle"
  BY DEF ControlInv
<1>2. Hand(g) = <<>> /\ response[g] = <<>>
  BY <1>1 DEF ControlInv, HandInv, Hand
<1>. QED  BY <1>2, AtFacts DEF Places

\* What the responses carry, and what is waiting, is in order.
OrderInv == alone => InOrder(At)

\* Every step keeps the order while requests do not overlap.
LEMMA OrderStep ==
    ASSUME IndInv, IndInv', HandInv, PlaceInv, ControlInv, OrderInv, [Next]_vars
    PROVE  OrderInv'
<1>. TypeOK /\ TypeOK' /\ GotInv
  BY DEF IndInv
<1>. SUFFICES ASSUME alone' PROVE InOrder(At')
  BY DEF OrderInv
<1>0. alone /\ InOrder(At)
  <2>1. alone
    BY DEF Next, ServeHTTP, vars, BadRequest, WriteTo, ReadFrom, Request, QueueIncoming,
           Select1, Select2, Select3, Bundle, WriteFails, Respond
  <2>. QED  BY <2>1 DEF OrderInv
<1>1. CASE UNCHANGED <<queue, stash, sent, p, response>>
  <2>1. At' = At
    BY <1>1 DEF At, Hand
  <2>. QED  BY <1>0, <2>1
<1>2. CASE WriteTo
  <2>1. At \in [Location -> Seq(Packet)] /\ At' \in [Location -> Seq(Packet)] /\ AtQueue \in Location
    BY AtTypes, Locations
  <2>2. \A l \in Location : Rank(l) <= Rank(AtQueue)
    BY Ranks
  <2>3. CASE At' = At
    BY <1>0, <2>3
  <2>4. CASE Added(At, At', AtQueue, written + 1)
    <3>1. /\ written + 1 \in Packet
          /\ \A l \in Location : \A i \in DOMAIN At[l] : At[l][i] < written + 1
      BY <1>2, WriteToAdds
    <3>. QED  BY <1>0, <2>1, <2>2, <2>4, <3>1, OrderNew
  <2>. QED  BY <1>2, <2>3, <2>4, WriteToAdds
<1>3. ASSUME NEW h \in Handler, Select1(h) \/ Select2(h) \/ Select3(h) PROVE InOrder(At')
  <2>1. pc[h] # "got" /\ UNCHANGED <<response, sent>>
    BY <1>3 DEF Select1, Select2, Select3
  <2>2. CASE TakeStash(h)
    <3>1. Transfer(AtHand(h), AtStash)
      BY <2>1, <2>2, TakeStashTransfer
    <3>2. \A m \in Location \ {AtStash} : ~(3 < Rank(m) /\ Rank(m) <= 4)
      BY Ranks
    <3>3. Rank(AtHand(h)) = 3 /\ Rank(AtStash) = 4 /\ 3 < 4
      BY Ranks, SMTT(20)
    <3>. QED  BY <1>0, <3>1, <3>2, <3>3, OrderTransfer, Locations
  <2>3. CASE TakeOutgoing(h) /\ pc[h] \in {"select2", "select3"}
    <3>1. Transfer(AtHand(h), AtQueue)
      BY <2>1, <2>3, TakeOutgoingTransfer
    <3>2. At[AtStash] = <<>>
      BY <1>0, <2>3, AtFacts DEF ControlInv, Places
    <3>3. \A m \in Location \ {AtQueue} : 3 < Rank(m) /\ Rank(m) <= 5 => At[m] = <<>>
      BY <3>2, Ranks
    <3>4. Rank(AtHand(h)) = 3 /\ Rank(AtQueue) = 5 /\ 3 < 5
      BY Ranks
    <3>. QED  BY <1>0, <3>1, <3>3, <3>4, OrderTransfer, Locations
  <2>4. CASE UNCHANGED <<queue, stash, p>>
    BY <2>1, <2>4, <1>1
  <2>. QED  BY <1>3, <2>2, <2>3, <2>4 DEF Select1, Select2, Select3, GoTo
<1>4. ASSUME NEW h \in Handler, Bundle(h) PROVE InOrder(At')
  <2>1. \A g \in Handler \ {h} : At[AtHand(g)] = <<>>
    BY <1>0, <1>4, OthersEmpty DEF Bundle
  <2>2. Rank(AtResponse(h)) = 2 /\ Rank(AtHand(h)) = 3 /\ Rank(AtStash) = 4 /\ 2 < 3 /\ 3 < 4
    BY Ranks, SMTT(20)
  <2>3. stash = <<>> /\ At[AtStash] = <<>>
    BY <1>0, <1>4, AtFacts DEF ControlInv, Bundle, Places
  <2>4. \A m \in Location \ {AtHand(h)} : Rank(m) = 3 => At[m] = <<>>
    BY <2>1, Ranks, SMTT(20)
  <2>5. CASE Fits(h)
    <3>1. Transfer(AtResponse(h), AtHand(h))
      BY <1>4, <2>5, BundleTransfer
    <3>2. \A m \in Location \ {AtHand(h)} : 2 < Rank(m) /\ Rank(m) <= 3 => At[m] = <<>>
      BY <2>4, Ranks, SMTT(20)
    <3>. QED  BY <1>0, <2>2, <3>1, <3>2, OrderTransfer, Locations, SMTT(20)
  <2>6. CASE ~Fits(h)
    <3>1. Transfer(AtStash, AtHand(h)) /\ At'[AtHand(h)] = <<>>
      BY <1>4, <2>3, <2>6, BundleTransfer
    <3>2. \A m \in Location \ {AtHand(h)} : 3 <= Rank(m) /\ Rank(m) < 4 => At[m] = <<>>
      BY <2>4, Ranks
    <3>. QED  BY <1>0, <2>2, <2>3, <3>1, <3>2, OrderTransfer, Locations, SMTT(20)
  <2>. QED  BY <2>5, <2>6
<1>5. ASSUME NEW h \in Handler, WriteFails(h) PROVE InOrder(At')
  BY <1>0, <1>5, EndTransfer, AtTypes, OrderDrop DEF Dropped
<1>6. ASSUME NEW h \in Handler, Respond(h) PROVE InOrder(At')
  <2>1. \A g \in Handler \ {h} : At[AtResponse(g)] = <<>>
    BY <1>0, <1>6, OthersEmpty DEF Respond
  <2>2. Rank(AtSent) = 1 /\ Rank(AtResponse(h)) = 2 /\ 1 < 2
    BY Ranks
  <2>3. Transfer(AtSent, AtResponse(h))
    BY <1>6, EndTransfer
  <2>4. \A m \in Location \ {AtResponse(h)} : 1 < Rank(m) /\ Rank(m) <= 2 => At[m] = <<>>
    BY <2>1, Ranks
  <2>. QED  BY <1>0, <2>2, <2>3, <2>4, OrderTransfer, Locations, SMTT(20)
<1>7. ASSUME NEW h \in Handler, Request(h) \/ QueueIncoming(h) PROVE InOrder(At')
  BY <1>1, <1>7 DEF Request, QueueIncoming
<1>. QED
  BY <1>1, <1>2, <1>3, <1>4, <1>5, <1>6, <1>7 DEF Next, ServeHTTP, vars, BadRequest, ReadFrom


-----------------------------------------------------------------------------
(* The size of a response *)

\* While a handler bundles, the limit is what the response has left of maxPayloadLength.
BoundInv ==
    \A h \in Handler :
        /\ pc[h] \in {"idle", "incoming"} => response[h] = <<>>
        /\ pc[h] \in {"select1", "select2", "select3", "got"} =>
               limit[h] + SumOver(Size, response[h]) = MaxPayload
        /\ Len(response[h]) > 1 => SumOver(Size, response[h]) <= MaxPayload

\* A packet in a response counts with its size.
LEMMA ResponseGrows ==
    ASSUME NEW s \in Seq(Packet), NEW x \in Packet
    PROVE  /\ SumOver(Size, s) \in Int /\ Size[x] \in Int
           /\ SumOver(Size, Append(s, x)) = SumOver(Size, s) + Size[x]
<1>1. Size \in [Packet -> Int] /\ Size[x] \in Int
  BY HandlerAssumption DEF Packet
<1>. QED  BY <1>1, SumOverAppend

\* A step that leaves limits and responses alone and does not start or reset a handler.
LEMMA BoundKept ==
    ASSUME TypeOK, BoundInv, UNCHANGED <<limit, response>>,
           \A h \in Handler : \/ pc'[h] = pc[h]
                              \/ pc[h] \in {"select1", "select2", "select3", "got"}
                                 /\ pc'[h] \in {"select2", "select3", "got", "done"}
                              \/ pc[h] = "idle" /\ pc'[h] = "incoming"
    PROVE  BoundInv'
BY DEF BoundInv

\* Every step keeps the sums.
LEMMA BoundStep ==
    ASSUME IndInv, BoundInv, [Next]_vars
    PROVE  BoundInv'
<1>. USE DEF IndInv
<1>1. CASE UNCHANGED <<pc, limit, response>>
  BY <1>1, BoundKept
<1>2. ASSUME NEW h \in Handler, Request(h) PROVE BoundInv'
  <2>1. pc' = [pc EXCEPT ![h] = "incoming"] /\ pc[h] = "idle" /\ UNCHANGED <<limit, response>>
    BY <1>2 DEF Request
  <2>. QED  BY <2>1, BoundKept DEF TypeOK
<1>3. ASSUME NEW h \in Handler, QueueIncoming(h) PROVE BoundInv'
  <2>1. CASE incoming[h] > 0
    BY <1>1, <1>3, <2>1 DEF QueueIncoming
  <2>2. CASE ~ (incoming[h] > 0)
    <3>1. /\ pc' = [pc EXCEPT ![h] = "select1"] /\ limit' = [limit EXCEPT ![h] = MaxPayload]
          /\ response' = response /\ pc[h] = "incoming"
      BY <1>3, <2>2 DEF QueueIncoming
    <3>2. pc'[h] = "select1" /\ limit'[h] = MaxPayload /\ response'[h] = <<>>
      BY <3>1 DEF BoundInv, TypeOK
    <3>3. \A g \in Handler \ {h} : pc'[g] = pc[g] /\ limit'[g] = limit[g] /\ response'[g] = response[g]
      BY <3>1 DEF TypeOK
    <3>4. SumOver(Size, <<>>) = 0 /\ MaxPayload \in Nat /\ Len(<<>>) = 0
      BY SumOverEmpty, HandlerAssumption
    <3>5. /\ pc'[h] \in {"idle", "incoming"} => response'[h] = <<>>
          /\ limit'[h] + SumOver(Size, response'[h]) = MaxPayload
          /\ Len(response'[h]) > 1 => SumOver(Size, response'[h]) <= MaxPayload
      BY <3>2, <3>4
    <3>. QED  BY <3>3, <3>5 DEF BoundInv
  <2>. QED  BY <2>1, <2>2
<1>4. ASSUME NEW h \in Handler, Select1(h) \/ Select2(h) \/ Select3(h) PROVE BoundInv'
  <2>1. UNCHANGED <<limit, response>> /\ pc[h] \in {"select1", "select2", "select3"}
    BY <1>4 DEF Select1, Select2, Select3
  <2>2. \E label \in {"select2", "select3", "got", "done"} : pc' = [pc EXCEPT ![h] = label]
    BY <1>4 DEF Select1, Select2, Select3, TakeStash, TakeOutgoing, GoTo
  <2>. QED  BY <2>1, <2>2, BoundKept DEF TypeOK
<1>5. ASSUME NEW h \in Handler, Bundle(h) PROVE BoundInv'
  <2>. DEFINE s == response[h]
              x == p[h]
  <2>1. /\ x \in Packet /\ s \in Seq(Packet) /\ limit[h] \in Int /\ MaxPayload \in Nat
        /\ limit[h] + SumOver(Size, s) = MaxPayload
    BY <1>5, HandlerAssumption DEF Bundle, GotInv, TypeOK, BoundInv
  <2>2. /\ SumOver(Size, s) \in Int /\ Size[x] \in Int
        /\ SumOver(Size, Append(s, x)) = SumOver(Size, s) + Size[x]
    BY <2>1, ResponseGrows
  <2>3. CASE Fits(h)
    <3>1. /\ pc' = [pc EXCEPT ![h] = "select1"] /\ limit' = [limit EXCEPT ![h] = limit[h] - Size[x]]
          /\ response' = [response EXCEPT ![h] = Append(s, x)]
      BY <1>5, <2>3 DEF Bundle
    <3>2. pc'[h] = "select1" /\ limit'[h] = limit[h] - Size[x] /\ response'[h] = Append(s, x)
      BY <3>1 DEF TypeOK
    <3>3. \A g \in Handler \ {h} : pc'[g] = pc[g] /\ limit'[g] = limit[g] /\ response'[g] = response[g]
      BY <3>1 DEF TypeOK
    <3>4. limit'[h] + SumOver(Size, response'[h]) = MaxPayload
      BY <2>1, <2>2, <3>2
    <3>5. Len(response'[h]) > 1 => limit[h] - Size[x] >= 0
      BY <2>1, <2>3, <3>2 DEF Fits
    <3>6. Len(response'[h]) > 1 => SumOver(Size, response'[h]) <= MaxPayload
      BY <2>1, <2>2, <3>2, <3>5
    <3>. QED  BY <3>2, <3>3, <3>4, <3>6 DEF BoundInv
  <2>4. CASE ~ Fits(h)
    <3>1. /\ pc' = [pc EXCEPT ![h] = "done"] /\ limit' = [limit EXCEPT ![h] = limit[h] - Size[x]]
          /\ response' = response
      BY <1>5, <2>4 DEF Bundle
    <3>. QED  BY <3>1 DEF BoundInv, TypeOK
  <2>. QED  BY <2>3, <2>4
<1>6. ASSUME NEW h \in Handler, WriteFails(h) \/ Respond(h) PROVE BoundInv'
  <2>1. /\ pc' = [pc EXCEPT ![h] = "idle"] /\ limit' = [limit EXCEPT ![h] = 0]
        /\ response' = [response EXCEPT ![h] = <<>>]
    BY <1>6 DEF WriteFails, Respond
  <2>. QED  BY <2>1 DEF BoundInv, TypeOK
<1>. QED
  BY <1>1, <1>2, <1>3, <1>4, <1>5, <1>6 DEF Next, ServeHTTP, vars, BadRequest, WriteTo, ReadFrom

-----------------------------------------------------------------------------
(* The whole invariant *)

\* The inductive invariant of the types.
LEMMA IndInvStep == IndInv /\ [Next]_vars => IndInv'
<1>. SUFFICES ASSUME IndInv, [Next]_vars PROVE IndInv'
  OBVIOUS
<1>1. CASE UNCHANGED vars
  BY <1>1 DEF vars, IndInv, TypeOK, GotInv
<1>2. CASE Next
  BY <1>1, <1>2, AroundIndInv, SelectIndInv, HandlerIndInv DEF Next, ServeHTTP, BadRequest
<1>. QED  BY <1>1, <1>2

\* Before the first request there are no packets anywhere.
LEMMA InitPlaces == Init => HandInv /\ PlaceInv /\ ControlInv /\ OrderInv
<1>. SUFFICES ASSUME Init PROVE HandInv /\ PlaceInv /\ ControlInv /\ OrderInv
  OBVIOUS
<1>1. HandInv /\ ControlInv
  BY DEF Init, HandInv, ControlInv
<1>2. \A h \in Handler : Hand(h) = <<>> /\ response[h] = <<>>
  BY DEF Init, Hand
<1>3. queue = <<>> /\ stash = <<>> /\ sent = <<>>
  BY DEF Init
<1>4. ASSUME NEW l \in Location PROVE At[l] = <<>>
  <2>1. CASE l \in {AtQueue, AtStash, AtSent}
    BY <1>3, <2>1, AtFacts DEF Places
  <2>2. CASE \E h \in Handler : l = AtHand(h) \/ l = AtResponse(h)
    BY <1>2, <2>2, AtFacts DEF Places
  <2>. QED  BY <2>1, <2>2, Locations
<1>5. \A l \in Location : DOMAIN At[l] = {}
  BY <1>4
<1>6. DOMAIN At = Location
  BY DEF At
<1>7. PlaceInv
  BY <1>5, <1>6 DEF PlaceInv, Separate
<1>8. OrderInv
  BY <1>5 DEF OrderInv, InOrder
<1>. QED  BY <1>1, <1>7, <1>8

\* Every step keeps the whole invariant.
LEMMA PacketsStep ==
    IndInv /\ HandInv /\ PlaceInv /\ ControlInv /\ OrderInv /\ [Next]_vars
    => (IndInv /\ HandInv /\ PlaceInv /\ ControlInv /\ OrderInv)'
<1>. SUFFICES ASSUME IndInv, HandInv, PlaceInv, ControlInv, OrderInv, [Next]_vars
              PROVE  (IndInv /\ HandInv /\ PlaceInv /\ ControlInv /\ OrderInv)'
  OBVIOUS
<1>1. IndInv'
  BY IndInvStep
<1>2. HandInv' /\ ControlInv'
  BY HandStep, ControlStep DEF IndInv
<1>3. PlaceInv'
  BY <1>1, PlaceStep
<1>4. OrderInv'
  BY <1>1, OrderStep
<1>. QED  BY <1>1, <1>2, <1>3, <1>4

-----------------------------------------------------------------------------
(* Theorems *)

(***************************************************************************)
(* The state of the handlers is well typed: in particular the stash, a     *)
(* channel of capacity 1, never holds two packets, and Bundle always has a *)
(* packet to charge.                                                       *)
(***************************************************************************)
THEOREM TypeCorrect == Spec => []TypeOK
  BY InitIndInv, IndInvStep, PTL DEF Spec, IndInv

(***************************************************************************)
(* The packets of a client are bundled into its responses at most once:    *)
(* whatever handlers serve its requests, and however they share the queue  *)
(* and the stash, no packet is ever in two places, or twice in one.  The   *)
(* induction needs the bound on the numbers of the packets in use, so that *)
(* the packet WriteTo adds is a new one, and that a handler at a select    *)
(* has no packet in hand, so that none is overwritten there.               *)
(***************************************************************************)
THEOREM AtMostOnceTheorem == Spec => []AtMostOnce
<1>1. PlaceInv => AtMostOnce
  <2>1. DOMAIN At = Location
    BY DEF At
  <2>. QED  BY <2>1 DEF PlaceInv, Separate, AtMostOnce
<1>. QED  BY <1>1, InitIndInv, InitPlaces, PacketsStep, PTL DEF Spec

(***************************************************************************)
(* For a client whose requests have never overlapped no packet is thrown   *)
(* away by Stash, and the responses carry the packets in the order in      *)
(* which they were written.  The induction orders all packets on their way *)
(* through queue, stash, hand and response: a packet that does not fit is  *)
(* put back between the queue and whatever the next request asks for.      *)
(***************************************************************************)
THEOREM InOrderTheorem == Spec => []InOrderWhileAlone
<1>1. TypeOK /\ ControlInv /\ OrderInv => InOrderWhileAlone
  <2>. SUFFICES ASSUME TypeOK, ControlInv, OrderInv, alone
                PROVE  lost = {} /\ \A i, j \in DOMAIN sent : i < j => sent[i] < sent[j]
    BY DEF InOrderWhileAlone
  <2>1. lost = {}
    BY DEF ControlInv
  <2>2. At[AtSent] = sent /\ AtSent \in Location
    BY AtFacts, Locations DEF Places
  <2>3. \A i, j \in DOMAIN At[AtSent] : i < j => At[AtSent][i] < At[AtSent][j]
    BY <2>2 DEF OrderInv, InOrder
  <2>. QED  BY <2>1, <2>2, <2>3
<1>2. IndInv => TypeOK
  BY DEF IndInv
<1>. QED  BY <1>1, <1>2, InitIndInv, InitPlaces, PacketsStep, PTL DEF Spec

(***************************************************************************)
(* A response of more than one packet never exceeds maxPayloadLength,      *)
(* whatever the sizes of the packets: the limit a handler counts down and  *)
(* the packets it has written always add up to maxPayloadLength, and only  *)
(* a first packet may take the limit below zero.                           *)
(***************************************************************************)
THEOREM ResponseBoundedTheorem == Spec => []ResponseBounded
<1>1. Init => BoundInv
  BY DEF Init, BoundInv
<1>2. BoundInv => ResponseBounded
  BY DEF BoundInv, ResponseBounded
<1>. QED  BY <1>1, <1>2, InitIndInv, IndInvStep, BoundStep, PTL DEF Spec
=============================================================================
