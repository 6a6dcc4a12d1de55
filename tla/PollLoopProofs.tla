---------------------------- MODULE PollLoopProofs ----------------------------
(***************************************************************************)
(* Proofs about PollLoop for any set of poll goroutines, any sizes and any *)
(* limits.                                                                 *)
(***************************************************************************)
EXTENDS PollLoop, FiniteSetTheorems, DataTheorems

\* Most leaves are first-order: Zenon tries each one for two seconds before SMT does.
USE ZenonT(2), SMTT(20)

\* Between the check of the bucket and the Take only other goroutines touch it, and
\* they leave it at 0 or more.
TokensInv == pc \in {"acquire", "start"} => tokens >= 0

IndInv == TypeOK /\ TokensInv /\ SemaphoreCounts

-----------------------------------------------------------------------------
(* Types *)

\* The state in which pollLoop starts is well typed.
LEMMA InitTypes == Init => TypeOK /\ TokensInv
<1>. SUFFICES ASSUME Init PROVE TypeOK /\ TokensInv
  OBVIOUS
<1>. USE PollLoopAssumption DEF Init
<1>1. <<>> \in Seq(Packet) /\ Len(<<>>) <= QueueSize /\ Len(<<>>) <= 1
  OBVIOUS
<1>2. /\ recvLen \in 0 .. QueueSize /\ written \in 0 .. MaxPackets /\ semCur \in 0 .. MaxConc
      /\ tokens \in -1 .. Burst /\ conc \in 1 .. MaxConc
  OBVIOUS
<1>3. poll \in [Poll -> {"idle", "polling", "release"}]
  OBVIOUS
<1>4. closed \in BOOLEAN /\ slow \in BOOLEAN /\ p \in Packet \cup {None} /\ lost \subseteq Packet
  OBVIOUS
<1>5. timer \in {"running", "fired"} /\ TokensInv
  BY DEF TokensInv
<1>. QED  BY <1>1, <1>2, <1>3, <1>4, <1>5, Zenon DEF TypeOK

(***************************************************************************)
(* What happens around the loop.                                           *)
(***************************************************************************)
LEMMA AroundTypes ==
    ASSUME TypeOK, TokensInv, WriteTo \/ ReadFrom \/ Close \/ TimerFires \/ Refill \/ Adapt
    PROVE  TypeOK' /\ TokensInv'
<1>. USE PollLoopAssumption DEF TypeOK, TokensInv, connVars, ctlVars, histVars, Packet
<1>1. CASE WriteTo
  <2>1. written + 1 \in Packet
    BY <1>1 DEF WriteTo
  <2>2. queue' \in Seq(Packet) /\ Len(queue') <= QueueSize
    <3>1. CASE Len(queue) < QueueSize /\ queue' = Append(queue, written + 1)
      BY <2>1, <3>1
    <3>2. CASE queue' = queue
      BY <3>2
    <3>. QED  BY <1>1, <3>1, <3>2 DEF WriteTo
  <2>. QED  BY <1>1, <2>1, <2>2 DEF WriteTo
<1>2. CASE ReadFrom
  BY <1>2 DEF ReadFrom
<1>3. CASE Close
  BY <1>3, Zenon DEF Close
<1>4. CASE TimerFires
  BY <1>4 DEF TimerFires
<1>5. CASE Refill
  BY <1>5 DEF Refill
<1>6. CASE Adapt
  BY <1>6, Zenon DEF Adapt
<1>. QED  BY <1>1, <1>2, <1>3, <1>4, <1>5, <1>6

(***************************************************************************)
(* The selects.                                                            *)
(***************************************************************************)
LEMMA SelectTypes ==
    ASSUME TypeOK, Select1 \/ Select2 \/ Select3 \/ Select4
    PROVE  TypeOK' /\ TokensInv'
<1>. USE PollLoopAssumption DEF TypeOK, TokensInv, loopRest, ctlVars, histVars
<1>1. UNCHANGED loopRest
  BY DEF Select1, Select2, Select3, Select4
<1>2. Return \/ TakeStash \/ TakeOutgoing \/ TakeTimer
      \/ \E label \in {"select2", "select3", "select4"} : Default(label)
  BY DEF Select1, Select2, Select3, Select4
<1>3. CASE Return
  BY <1>1, <1>3 DEF Return
<1>4. CASE TakeStash
  <2>1. p' \in Packet /\ stash' \in Seq(Packet) /\ Len(stash') <= 1
    BY <1>4 DEF TakeStash
  <2>. QED  BY <1>1, <1>4, <2>1 DEF TakeStash
<1>5. CASE TakeOutgoing
  <2>1. p' \in Packet /\ queue' \in Seq(Packet) /\ Len(queue') <= QueueSize
    BY <1>5 DEF TakeOutgoing
  <2>. QED  BY <1>1, <1>5, <2>1 DEF TakeOutgoing
<1>6. CASE TakeTimer
  BY <1>1, <1>6 DEF TakeTimer
<1>7. CASE \E label \in {"select2", "select3", "select4"} : Default(label)
  BY <1>1, <1>7 DEF Default
<1>. QED  BY <1>2, <1>3, <1>4, <1>5, <1>6, <1>7

(***************************************************************************)
(* The payload, the limits and the start of a poll.                        *)
(***************************************************************************)
LEMMA PayloadTypes ==
    ASSUME TypeOK, TokensInv, Build \/ Stash \/ Limit \/ SemAcquire \/ StartPoll
    PROVE  TypeOK' /\ TokensInv'
<1>. USE PollLoopAssumption DEF TypeOK, TokensInv, connVars, ctlVars, histVars
<1>1. CASE Build
  <2>1. p \in Packet /\ payload' \in Seq(Packet)
    BY <1>1 DEF Build, Fits
  <2>2. p' \in Packet \cup {None} /\ queue' \in Seq(Packet) /\ Len(queue') <= QueueSize
    <3>1. CASE queue # <<>> /\ p' = Head(queue) /\ queue' = Tail(queue)
      <4>1. Head(queue) \in Packet /\ Tail(queue) \in Seq(Packet) /\ Len(Tail(queue)) = Len(queue) - 1
        BY <3>1
      <4>. QED  BY <3>1, <4>1
    <3>2. CASE p' = None /\ queue' = queue
      BY <3>2
    <3>. QED  BY <1>1, <3>1, <3>2 DEF Build
  <2>. QED  BY <1>1, <2>1, <2>2 DEF Build
<1>2. CASE Stash
  <2>1. stash' \in Seq(Packet) /\ Len(stash') <= 1 /\ lost' \subseteq Packet
    BY <1>2 DEF Stash
  <2>. QED  BY <1>2, <2>1 DEF Stash
<1>3. GiveUp => /\ dropped' \in Seq(Packet) /\ payload' \in Seq(Packet)
                /\ pc' = "select1" /\ UNCHANGED <<sent, lost>>
  BY DEF GiveUp
<1>4. CASE Limit
  BY <1>3, <1>4 DEF Limit
<1>5. CASE SemAcquire
  <2>1. semCur' \in 0 .. MaxConc
    BY <1>5 DEF SemAcquire, effectiveCap
  <2>. QED  BY <1>3, <1>5, <2>1 DEF SemAcquire
<1>6. CASE StartPoll
  <2>1. sent' \in Seq(Packet) /\ payload' \in Seq(Packet)
    BY <1>6 DEF StartPoll
  <2>2. tokens' \in -1 .. Burst /\ poll' \in [Poll -> {"idle", "polling", "release"}]
    BY <1>6 DEF StartPoll
  <2>. QED  BY <1>6, <2>1, <2>2 DEF StartPoll
<1>. QED  BY <1>1, <1>2, <1>4, <1>5, <1>6

(***************************************************************************)
(* The polls.  The semaphore is released no more often than it was         *)
(* acquired, or its count would go below zero.                             *)
(***************************************************************************)
LEMMA PollTypes ==
    ASSUME TypeOK, TokensInv, NEW g \in Poll, Incoming(g) \/ pollEnds(g),
           SemRelease(g) => semCur > 0
    PROVE  TypeOK' /\ TokensInv'
<1>. USE PollLoopAssumption DEF TypeOK, TokensInv, connVars, ctlVars, histVars
<1>1. CASE Incoming(g)
  BY <1>1 DEF Incoming
<1>2. CASE Answered(g)
  BY <1>2 DEF Answered, Done
<1>3. CASE Failed(g)
  BY <1>3 DEF Failed, Done
<1>4. CASE SemRelease(g)
  BY <1>4 DEF SemRelease
<1>. QED  BY <1>1, <1>2, <1>3, <1>4 DEF pollEnds

-----------------------------------------------------------------------------
(* The semaphore *)

\* Goroutines are started and released one at a time.
LEMMA RunningFinite == IsFiniteSet(Running) /\ Cardinality(Running) \in Nat
<1>1. Running \subseteq Poll
  BY DEF Running
<1>2. IsFiniteSet(Running)
  BY <1>1, PollLoopAssumption, FS_Subset
<1>. QED  BY <1>2, FS_CardinalityType

\* The go statement of pollLoop adds one running poll.
LEMMA RunningMore ==
    ASSUME NEW g \in Poll, poll \in [Poll -> {"idle", "polling", "release"}],
           poll[g] = "idle", poll' = [poll EXCEPT ![g] = "polling"]
    PROVE  Cardinality(Running)' = Cardinality(Running) + 1
<1>1. Running' = Running \cup {g} /\ g \notin Running
  BY DEF Running
<1>. QED  BY <1>1, RunningFinite, FS_AddElement

\* A goroutine that has released the semaphore and ends is one running poll less.
LEMMA RunningLess ==
    ASSUME NEW g \in Poll, poll \in [Poll -> {"idle", "polling", "release"}],
           poll[g] = "release", poll' = [poll EXCEPT ![g] = "idle"]
    PROVE  Cardinality(Running)' = Cardinality(Running) - 1 /\ Cardinality(Running) > 0
<1>1. Running' = Running \ {g} /\ g \in Running
  BY DEF Running
<1>2. Cardinality(Running)' = Cardinality(Running) - 1
  BY <1>1, RunningFinite, FS_RemoveElement
<1>3. Cardinality(Running) # 0
  BY <1>1, RunningFinite, FS_EmptySet
<1>. QED  BY <1>2, <1>3, RunningFinite

(***************************************************************************)
(* The steps of pollLoop that touch the semaphore: it is acquired for a    *)
(* poll that starts in the next step.                                      *)
(***************************************************************************)
LEMMA SemaphoreLoop ==
    ASSUME TypeOK, SemaphoreCounts, pollLoop
    PROVE  SemaphoreCounts'
<1>. USE DEF SemaphoreCounts
<1>1. CASE UNCHANGED <<poll, semCur>> /\ pc # "start" /\ pc' # "start"
  <2>1. Running' = Running
    BY <1>1 DEF Running
  <2>. QED  BY <1>1, <2>1
<1>2. CASE SemAcquire /\ pc' = "start"
  <2>1. Running' = Running
    BY <1>2 DEF Running, SemAcquire
  <2>2. pc = "acquire" /\ semCur' = semCur + 1
    BY <1>2 DEF SemAcquire, GiveUp
  <2>. QED  BY <1>2, <2>1, <2>2, RunningFinite
<1>3. CASE StartPoll
  <2>1. Cardinality(Running)' = Cardinality(Running) + 1
    BY <1>3, RunningMore DEF StartPoll, TypeOK
  <2>2. pc = "start" /\ pc' = "select1" /\ semCur' = semCur
    BY <1>3 DEF StartPoll
  <2>. QED  BY <2>1, <2>2, RunningFinite
<1>4. ASSUME ~StartPoll, ~(SemAcquire /\ pc' = "start")
      PROVE  UNCHANGED <<poll, semCur>> /\ pc # "start" /\ pc' # "start"
  <2>1. CASE Select1 \/ Select2 \/ Select3 \/ Select4
    BY <2>1 DEF Select1, Select2, Select3, Select4, loopRest, Return, TakeStash, TakeOutgoing,
                TakeTimer, Default
  <2>2. CASE Build \/ Stash \/ Limit
    BY <2>2 DEF Build, Stash, Limit, GiveUp
  <2>3. CASE SemAcquire
    BY <1>4, <2>3 DEF SemAcquire, GiveUp
  <2>. QED  BY <1>4, <2>1, <2>2, <2>3 DEF pollLoop
<1>. QED  BY <1>1, <1>2, <1>3, <1>4

\* Around the loop only the deferred semRelease touches the semaphore.
LEMMA SemaphoreOthers ==
    ASSUME TypeOK, SemaphoreCounts,
           \/ WriteTo \/ ReadFrom \/ Close \/ TimerFires \/ Refill \/ Adapt
           \/ \E g \in Poll : Incoming(g) \/ pollEnds(g)
    PROVE  SemaphoreCounts'
<1>. USE DEF SemaphoreCounts
<1>1. ASSUME NEW g \in Poll, SemRelease(g)
      PROVE  SemaphoreCounts'
  <2>1. Cardinality(Running)' = Cardinality(Running) - 1 /\ Cardinality(Running) > 0
    BY <1>1, RunningLess DEF SemRelease, TypeOK
  <2>2. semCur' = semCur - 1 /\ pc' = pc
    BY <1>1 DEF SemRelease
  <2>. QED  BY <2>1, <2>2, RunningFinite
<1>2. ASSUME NEW g \in Poll, Answered(g) \/ Failed(g)
      PROVE  SemaphoreCounts'
  <2>1. Running' = Running
    BY <1>2 DEF Running, Answered, Failed, Done, TypeOK
  <2>2. semCur' = semCur /\ pc' = pc
    BY <1>2 DEF Answered, Failed
  <2>. QED  BY <2>1, <2>2
<1>3. CASE \/ WriteTo \/ ReadFrom \/ Close \/ TimerFires \/ Refill \/ Adapt
           \/ \E g \in Poll : Incoming(g)
  <2>1. UNCHANGED <<semCur, pc, poll>>
    BY <1>3 DEF WriteTo, ReadFrom, Close, TimerFires, Refill, Adapt, Incoming
  <2>2. Running' = Running
    BY <2>1 DEF Running
  <2>. QED  BY <2>1, <2>2
<1>. QED  BY <1>1, <1>2, <1>3 DEF pollEnds

(***************************************************************************)
(* The invariant holds in every reachable state.                           *)
(***************************************************************************)
LEMMA IndInvAlways == Spec => []IndInv
<1>1. Init => IndInv
  <2>. SUFFICES ASSUME Init PROVE SemaphoreCounts
    BY InitTypes DEF IndInv
  <2>1. Running = {} /\ semCur = 0 /\ pc = "select1"
    BY DEF Init, Running
  <2>. QED  BY <2>1, FS_EmptySet DEF SemaphoreCounts
<1>2. IndInv /\ [Next]_vars => IndInv'
  <2>. SUFFICES ASSUME IndInv, [Next]_vars PROVE IndInv'
    OBVIOUS
  <2>. USE DEF IndInv
  <2>1. CASE pollLoop
    BY <2>1, SelectTypes, PayloadTypes, SemaphoreLoop DEF pollLoop
  <2>2. CASE WriteTo \/ ReadFrom \/ Close \/ TimerFires \/ Refill \/ Adapt
    BY <2>2, AroundTypes, SemaphoreOthers
  <2>3. ASSUME NEW g \in Poll, Incoming(g) \/ pollEnds(g)
        PROVE  IndInv'
    <3>1. SemRelease(g) => semCur > 0
      <4>. SUFFICES ASSUME SemRelease(g) PROVE semCur > 0
        OBVIOUS
      <4>1. Cardinality(Running) > 0
        BY RunningLess DEF SemRelease, TypeOK
      <4>. QED  BY <4>1, RunningFinite DEF SemaphoreCounts
    <3>. QED  BY <2>3, <3>1, PollTypes, SemaphoreOthers
  <2>4. CASE UNCHANGED vars
    <3>1. TypeOK' /\ TokensInv'
      BY <2>4 DEF vars, connVars, ctlVars, histVars, TypeOK, TokensInv
    <3>2. Running' = Running /\ semCur' = semCur /\ pc' = pc
      BY <2>4 DEF vars, Running
    <3>. QED  BY <3>1, <3>2 DEF SemaphoreCounts
  <2>. QED  BY <2>1, <2>2, <2>3, <2>4 DEF Next
<1>. QED  BY <1>1, <1>2, PTL DEF Spec

-----------------------------------------------------------------------------
(* Packets in sequences *)

Stage == 1 .. 5

\* Older packets are nearer to the server.
InOrder(F) ==
    \A l, m \in Stage : \A i \in DOMAIN F[l], j \in DOMAIN F[m] :
        l < m \/ (l = m /\ i < j) => F[l][i] < F[m][j]

\* The packets in the sequences F[l].
All(F) == {x \in Packet : \E l \in Stage : \E i \in DOMAIN F[l] : F[l][i] = x}

\* G is F after the first k packets of F[b] went to the end of F[a], which had n.
Moved(F, G, a, b, n, k) ==
    /\ \A i \in DOMAIN G[a] :
          /\ i \in Nat
          /\ i <= n => i \in DOMAIN F[a] /\ F[a][i] = G[a][i]
          /\ i > n => i - n \in DOMAIN F[b] /\ F[b][i - n] = G[a][i] /\ i - n <= k
    /\ \A i \in DOMAIN G[b] :
          i \in Nat \ {0} /\ i + k \in DOMAIN F[b] /\ F[b][i + k] = G[b][i]
    /\ \A l \in DOMAIN F \ {a, b} : G[l] = F[l]

\* The same in terms of the operators on sequences: F[b] is s followed by t.
Shift(F, G, a, b, s, t) ==
    /\ F[b] = s \o t
    /\ G[a] = F[a] \o s
    /\ G[b] = t
    /\ \A l \in DOMAIN F \ {a, b} : G[l] = F[l]

(* Domain and elements of a concatenation. *)
LEMMA Concatenation ==
    ASSUME NEW S, NEW s \in Seq(S), NEW t \in Seq(S)
    PROVE  /\ Len(s) \in Nat /\ Len(t) \in Nat
           /\ DOMAIN s = 1 .. Len(s) /\ DOMAIN t = 1 .. Len(t)
           /\ DOMAIN (s \o t) = 1 .. Len(s) + Len(t)
           /\ \A i \in 1 .. Len(s) : (s \o t)[i] = s[i]
           /\ \A i \in 1 .. Len(t) : (s \o t)[Len(s) + i] = t[i]
<1>1. Len(s) \in Nat /\ Len(t) \in Nat /\ DOMAIN s = 1 .. Len(s) /\ DOMAIN t = 1 .. Len(t)
  OBVIOUS
<1>2. DOMAIN (s \o t) = 1 .. Len(s) + Len(t)
  OBVIOUS
<1>3. ASSUME NEW i \in 1 .. Len(s) PROVE (s \o t)[i] = s[i]
  OBVIOUS
<1>4. ASSUME NEW i \in 1 .. Len(t) PROVE (s \o t)[Len(s) + i] = t[i]
  OBVIOUS
<1>. QED  BY <1>1, <1>2, <1>3, <1>4

(* Moving, in terms of the operators on sequences. *)
LEMMA ConcatMoved ==
    ASSUME NEW S, NEW L, NEW F \in [L -> Seq(S)], NEW G \in [L -> Seq(S)],
           NEW a \in L, NEW b \in L, a # b, NEW s \in Seq(S), NEW t \in Seq(S),
           Shift(F, G, a, b, s, t)
    PROVE  /\ Len(F[a]) \in Nat /\ Len(s) \in Nat
           /\ Moved(F, G, a, b, Len(F[a]), Len(s))
<1>0. /\ F[b] = s \o t /\ G[a] = F[a] \o s /\ G[b] = t
      /\ \A l \in L \ {a, b} : G[l] = F[l]
  BY DEF Shift
<1>. DEFINE n == Len(F[a])  k == Len(s)
<1>1. F[a] \in Seq(S) /\ DOMAIN F = L /\ DOMAIN G = L
  OBVIOUS
<1>2. /\ n \in Nat /\ k \in Nat
      /\ DOMAIN F[a] = 1 .. n /\ DOMAIN G[a] = 1 .. n + k
      /\ \A i \in 1 .. n : G[a][i] = F[a][i]
      /\ \A i \in 1 .. k : G[a][n + i] = s[i]
  BY <1>0, <1>1, Concatenation
<1>3. /\ Len(t) \in Nat /\ DOMAIN G[b] = 1 .. Len(t) /\ DOMAIN F[b] = 1 .. k + Len(t)
      /\ \A i \in 1 .. k : F[b][i] = s[i]
      /\ \A i \in 1 .. Len(t) : F[b][k + i] = G[b][i]
  <2>1. /\ Len(t) \in Nat /\ DOMAIN t = 1 .. Len(t) /\ DOMAIN (s \o t) = 1 .. k + Len(t)
        /\ \A i \in 1 .. k : (s \o t)[i] = s[i]
        /\ \A i \in 1 .. Len(t) : (s \o t)[k + i] = t[i]
    BY Concatenation
  <2>. QED  BY <1>0, <2>1, Zenon
<1>. HIDE DEF n, k
<1>4. ASSUME NEW i \in DOMAIN G[a]
      PROVE  /\ i \in Nat
             /\ i <= n => i \in DOMAIN F[a] /\ F[a][i] = G[a][i]
             /\ i > n => i - n \in DOMAIN F[b] /\ F[b][i - n] = G[a][i] /\ i - n <= k
  <2>1. i \in Nat /\ (i > n => i - n \in 1 .. k /\ n + (i - n) = i)
    BY <1>2
  <2>. QED  BY <1>2, <1>3, <2>1
<1>5. ASSUME NEW i \in DOMAIN G[b]
      PROVE  i \in Nat \ {0} /\ i + k \in DOMAIN F[b] /\ F[b][i + k] = G[b][i]
  <2>1. i \in 1 .. Len(t)
    BY <1>3
  <2>2. F[b][k + i] = G[b][i]
    BY <1>3, <2>1
  <2>. k \in Nat /\ Len(t) \in Nat
    BY <1>2, <1>3
  <2>3. i \in Nat \ {0} /\ i + k \in 1 .. k + Len(t) /\ k + i = i + k
    BY <2>1
  <2>. QED  BY <1>3, <2>2, <2>3, Zenon
<1>6. Moved(F, G, a, b, n, k)
  BY <1>0, <1>1, <1>4, <1>5 DEF Moved
<1>. QED  BY <1>2, <1>6 DEF n, k

\* Moving packets towards the server keeps the order if there is nothing in between.
LEMMA OrderForward ==
    ASSUME NEW F, NEW G, DOMAIN F = Stage, InOrder(F), NEW a \in Stage, NEW b \in Stage,
           NEW n \in Nat, NEW k \in Nat, Moved(F, G, a, b, n, k), a < b,
           \A m \in Stage : a < m /\ m < b => F[m] = <<>>
    PROVE  InOrder(G)
<1>1. SUFFICES ASSUME NEW l \in Stage, NEW m \in Stage, NEW i \in DOMAIN G[l], NEW j \in DOMAIN G[m],
                      l < m \/ (l = m /\ i < j)
               PROVE  G[l][i] < G[m][j]
  BY DEF InOrder
<1>2. \A x, y \in Stage : \A u \in DOMAIN F[x], v \in DOMAIN F[y] :
         x < y \/ (x = y /\ u < v) => F[x][u] < F[y][v]
  BY DEF InOrder
<1>3. \A x \in Stage : x \in Nat
  BY DEF Stage
<1>. USE DEF Moved
<1>4. CASE l = a
  <2>1. CASE m = a
    BY <1>1, <1>2, <1>3, <1>4, <2>1
  <2>2. CASE m = b
    BY <1>1, <1>2, <1>3, <1>4, <2>2
  <2>3. CASE m \notin {a, b}
    BY <1>1, <1>2, <1>3, <1>4, <2>3
  <2>. QED  BY <2>1, <2>2, <2>3
<1>5. CASE l = b
  <2>1. CASE m = a
    BY <1>1, <1>3, <1>5, <2>1
  <2>2. CASE m = b
    BY <1>1, <1>2, <1>3, <1>5, <2>2
  <2>3. CASE m \notin {a, b}
    BY <1>1, <1>2, <1>3, <1>5, <2>3
  <2>. QED  BY <2>1, <2>2, <2>3
<1>6. CASE l \notin {a, b}
  <2>1. CASE m = a
    BY <1>1, <1>2, <1>3, <1>6, <2>1
  <2>2. CASE m = b
    BY <1>1, <1>2, <1>3, <1>6, <2>2
  <2>3. CASE m \notin {a, b}
    BY <1>1, <1>2, <1>6, <2>3
  <2>. QED  BY <2>1, <2>2, <2>3
<1>. QED  BY <1>4, <1>5, <1>6

\* So does putting the packets of b back to a.
LEMMA OrderBack ==
    ASSUME NEW F, NEW G, DOMAIN F = Stage, InOrder(F), NEW a \in Stage, NEW b \in Stage,
           NEW k \in Nat, Moved(F, G, a, b, 0, k), b < a, F[a] = <<>>, G[b] = <<>>,
           \A m \in Stage : b < m /\ m < a => F[m] = <<>>
    PROVE  InOrder(G)
<1>1. SUFFICES ASSUME NEW l \in Stage, NEW m \in Stage, NEW i \in DOMAIN G[l], NEW j \in DOMAIN G[m],
                      l < m \/ (l = m /\ i < j)
               PROVE  G[l][i] < G[m][j]
  BY DEF InOrder
<1>2. \A x, y \in Stage : \A u \in DOMAIN F[x], v \in DOMAIN F[y] :
         x < y \/ (x = y /\ u < v) => F[x][u] < F[y][v]
  BY DEF InOrder
<1>3. \A x \in Stage : x \in Nat
  BY DEF Stage
<1>4. l # b /\ m # b
  OBVIOUS
<1>5. \A u \in DOMAIN G[a] : u \in DOMAIN F[b] /\ F[b][u] = G[a][u]
  BY DEF Moved
<1>6. \A x \in Stage \ {a, b} : G[x] = F[x]
  BY DEF Moved
<1>7. CASE l = a /\ m = a
  <2>1. a \in Nat /\ i < j
    BY <1>1, <1>3, <1>7
  <2>. QED  BY <1>2, <1>5, <1>7, <2>1
<1>8. CASE l = a /\ m # a
  BY <1>1, <1>2, <1>3, <1>4, <1>5, <1>6, <1>8
<1>9. CASE l # a /\ m = a
  BY <1>1, <1>2, <1>3, <1>4, <1>5, <1>6, <1>9
<1>10. CASE l # a /\ m # a
  BY <1>1, <1>2, <1>4, <1>6, <1>10
<1>. QED  BY <1>7, <1>8, <1>9, <1>10

\* Both in terms of the operators on sequences; no packet comes from elsewhere.
LEMMA OrderShift ==
    ASSUME NEW F \in [Stage -> Seq(Packet)], NEW G \in [Stage -> Seq(Packet)], InOrder(F),
           NEW a \in Stage, NEW b \in Stage, a # b, NEW s \in Seq(Packet), NEW t \in Seq(Packet),
           Shift(F, G, a, b, s, t), b < a => F[a] = <<>> /\ G[b] = <<>>,
           \A m \in Stage : (a < m /\ m < b) \/ (b < m /\ m < a) => F[m] = <<>>
    PROVE  InOrder(G) /\ All(G) \subseteq All(F)
<1>1. PICK n \in Nat, k \in Nat : Moved(F, G, a, b, n, k) /\ n = Len(F[a])
  BY ConcatMoved
<1>2. DOMAIN F = Stage
  OBVIOUS
<1>3. ASSUME a < b PROVE InOrder(G)
  BY <1>1, <1>2, <1>3, OrderForward
<1>4. ASSUME b < a PROVE InOrder(G)
  <2>1. n = 0
    BY <1>1, <1>4
  <2>2. Moved(F, G, a, b, 0, k)
    BY <1>1, <2>1
  <2>3. \A m \in Stage : b < m /\ m < a => F[m] = <<>>
    OBVIOUS
  <2>. QED  BY <1>2, <1>4, <2>2, <2>3, OrderBack
<1>5. All(G) \subseteq All(F)
  <2>. SUFFICES ASSUME NEW x \in Packet, NEW l \in Stage, NEW i \in DOMAIN G[l], G[l][i] = x
                PROVE  \E m \in Stage : \E j \in DOMAIN F[m] : F[m][j] = x
    BY DEF All
  <2>1. CASE l = a
    <3>1. CASE i <= n
      BY <1>1, <2>1, <3>1 DEF Moved
    <3>2. CASE i > n
      BY <1>1, <2>1, <3>2 DEF Moved
    <3>3. i \in Nat
      BY <1>1, <2>1 DEF Moved
    <3>. QED  BY <3>1, <3>2, <3>3
  <2>2. CASE l = b
    BY <1>1, <2>2 DEF Moved
  <2>3. CASE l \notin {a, b}
    BY <1>1, <1>2, <2>3 DEF Moved
  <2>. QED  BY <2>1, <2>2, <2>3
<1>6. a < b \/ b < a
  BY DEF Stage
<1>. QED  BY <1>3, <1>4, <1>5, <1>6

\* Dropping a sequence.
LEMMA OrderDrop ==
    ASSUME NEW F \in [Stage -> Seq(Packet)], NEW G \in [Stage -> Seq(Packet)], InOrder(F),
           \A l \in Stage : G[l] \in {F[l], <<>>}
    PROVE  InOrder(G) /\ All(G) \subseteq All(F)
<1>1. InOrder(G)
  BY DEF InOrder
<1>2. All(G) \subseteq All(F)
  BY DEF All
<1>. QED  BY <1>1, <1>2

\* A new packet behind all others.
LEMMA OrderNew ==
    ASSUME NEW F \in [Stage -> Seq(Packet)], NEW G \in [Stage -> Seq(Packet)], InOrder(F),
           NEW x \in Packet, \A l \in Stage : \A i \in DOMAIN F[l] : F[l][i] < x,
           G[5] = Append(F[5], x), \A l \in Stage \ {5} : G[l] = F[l]
    PROVE  InOrder(G) /\ All(G) \subseteq All(F) \cup {x}
<1>1. \A i \in DOMAIN G[5] : /\ i \in Nat
                             /\ \/ i \in DOMAIN F[5] /\ G[5][i] = F[5][i]
                                \/ G[5][i] = x /\ \A j \in DOMAIN G[5] : j <= i
  <2>. 5 \in Stage /\ F[5] \in Seq(Packet)
    BY DEF Stage
  <2>. QED  OBVIOUS
<1>2. \A c, d \in Stage : \A u \in DOMAIN F[c], v \in DOMAIN F[d] :
         c < d \/ (c = d /\ u < v) => F[c][u] < F[d][v]
  BY DEF InOrder
<1>3. ASSUME NEW l \in Stage, NEW m \in Stage, NEW i \in DOMAIN G[l], NEW j \in DOMAIN G[m],
             l < m \/ (l = m /\ i < j)
      PROVE  G[l][i] < G[m][j]
  <2>1. l \in Nat /\ m \in Nat /\ l <= 5 /\ m <= 5
    BY DEF Stage
  <2>2. CASE m # 5
    BY <1>2, <1>3, <2>1, <2>2
  <2>3. CASE m = 5 /\ l # 5
    BY <1>1, <1>2, <1>3, <2>1, <2>3
  <2>4. CASE m = 5 /\ l = 5
    BY <1>1, <1>2, <1>3, <2>1, <2>4
  <2>. QED  BY <2>2, <2>3, <2>4
<1>4. InOrder(G)
  BY <1>3 DEF InOrder
<1>5. All(G) \subseteq All(F) \cup {x}
  BY <1>1 DEF All
<1>. QED  BY <1>4, <1>5

\* Where the elements of a concatenation come from.
LEMMA Appended ==
    ASSUME NEW S, NEW s \in Seq(S), NEW t \in Seq(S), NEW i \in DOMAIN (s \o t)
    PROVE  \/ i \in DOMAIN s /\ (s \o t)[i] = s[i]
           \/ \E j \in DOMAIN t : (s \o t)[i] = t[j]
<1>1. CASE i <= Len(s)
  BY <1>1, Concatenation
<1>2. CASE i > Len(s)
  <2>1. i - Len(s) \in 1 .. Len(t) /\ i = Len(s) + (i - Len(s))
    BY <1>2, Concatenation
  <2>. QED  BY <2>1, Concatenation
<1>3. i \in Nat /\ Len(s) \in Nat
  BY Concatenation
<1>. QED  BY <1>1, <1>2, <1>3

\* The head of a sequence and what is left, and a sequence of one element.
LEMMA HeadTail ==
    ASSUME NEW S, NEW s \in Seq(S), s # <<>>
    PROVE  /\ Head(s) \in S /\ Tail(s) \in Seq(S) /\ s = <<Head(s)>> \o Tail(s)
           /\ Len(s) <= 1 => Tail(s) = <<>>
<1>1. Head(s) \in S /\ Tail(s) \in Seq(S) /\ <<Head(s)>> \in Seq(S) /\ Len(s) \in Nat \ {0}
  OBVIOUS
<1>2. s = <<Head(s)>> \o Tail(s)
  BY <1>1
<1>3. ASSUME Len(s) <= 1 PROVE Tail(s) = <<>>
  BY <1>1, <1>3
<1>. QED  BY <1>1, <1>2, <1>3

-----------------------------------------------------------------------------
(* The order of packets *)

(***************************************************************************)
(* The loop has a packet in hand only while it builds the payload, and has *)
(* emptied the stash before it takes anything from the queue, so that the  *)
(* stash is free for a packet that does not fit.                           *)
(***************************************************************************)
LoopInv ==
    /\ pc # "build" => p = None
    /\ pc \in {"select3", "select4", "build"} => stash = <<>>
    /\ lost = {}

\* Packets on their way are in order, were written, and were not given up.
OrderInv ==
    /\ InOrder(Way)
    /\ All(Way) \subseteq 1 .. written
    /\ \A j \in DOMAIN dropped : dropped[j] \in 1 .. written /\ dropped[j] \notin All(Way)

\* What is where.
Stages == Way[1] = sent /\ Way[2] = payload /\ Way[3] = Hand /\ Way[4] = stash /\ Way[5] = queue

\* Before and after every step.
LEMMA WayFacts ==
    /\ Stages /\ Stages'
    /\ TypeOK => Way \in [Stage -> Seq(Packet)]
    /\ TypeOK' => Way' \in [Stage -> Seq(Packet)]
<1>1. Stages
  BY DEF Stages, Way
<1>2. Stages'
  BY DEF Stages, Way
<1>3. TypeOK => Hand \in Seq(Packet)
  BY DEF TypeOK, Hand
<1>4. TypeOK' => Hand' \in Seq(Packet)
  BY DEF TypeOK, Hand
<1>5. TypeOK => Way \in [Stage -> Seq(Packet)]
  BY <1>3 DEF TypeOK, Way, Stage
<1>6. TypeOK' => Way' \in [Stage -> Seq(Packet)]
  BY <1>4 DEF TypeOK, Way, Stage
<1>. QED  BY <1>1, <1>2, <1>5, <1>6

\* The stages.
LEMMA AllStages ==
    /\ 1 \in Stage /\ 2 \in Stage /\ 3 \in Stage /\ 4 \in Stage /\ 5 \in Stage
    /\ \A l \in Stage : l = 1 \/ l = 2 \/ l = 3 \/ l = 4 \/ l = 5
  BY DEF Stage

\* Two functions on the stages are the same if they agree on each.
LEMMA SameStages ==
    ASSUME NEW F \in [Stage -> Seq(Packet)], NEW G \in [Stage -> Seq(Packet)],
           F[1] = G[1], F[2] = G[2], F[3] = G[3], F[4] = G[4], F[5] = G[5]
    PROVE  F = G
<1>1. ASSUME NEW l \in Stage PROVE F[l] = G[l]
  BY AllStages, Zenon
<1>. QED  BY <1>1

\* A step that keeps the order and brings nothing in keeps the invariant.
LEMMA OrderKept ==
    ASSUME OrderInv, UNCHANGED <<written, dropped>>, InOrder(Way'), All(Way') \subseteq All(Way)
    PROVE  OrderInv'
<1>1. All(Way)' = All(Way')
  BY DEF All
<1>2. /\ All(Way') \subseteq 1 .. written'
      /\ \A j \in DOMAIN dropped' : dropped'[j] \in 1 .. written' /\ dropped'[j] \notin All(Way')
  BY DEF OrderInv
<1>. QED  BY <1>1, <1>2 DEF OrderInv

\* Taking from the stash ...
LEMMA TakeStashOrder ==
    ASSUME TypeOK, TypeOK', OrderInv, TakeStash, p = None, UNCHANGED <<written, dropped, sent, payload>>
    PROVE  OrderInv'
<1>1. stash \in Seq(Packet) /\ stash # <<>> /\ Len(stash) <= 1 /\ stash' = <<>> /\ p' = Head(stash)
      /\ queue' = queue
  BY DEF TypeOK, TakeStash
<1>2. Head(stash) \in Packet /\ stash = <<Head(stash)>> \o <<>>
  BY <1>1, HeadTail
<1>3. <<Head(stash)>> \in Seq(Packet) /\ <<>> \in Seq(Packet) /\ <<Head(stash)>> = <<>> \o <<Head(stash)>>
  BY <1>2
<1>4. Hand = <<>> /\ Hand' = <<Head(stash)>>
  BY <1>1, <1>2, PollLoopAssumption DEF Hand, Packet
<1>5. Way \in [Stage -> Seq(Packet)] /\ Way' \in [Stage -> Seq(Packet)]
  BY WayFacts
<1>6. Way[4] = <<Head(stash)>> \o <<>> /\ Way'[3] = Way[3] \o <<Head(stash)>> /\ Way'[4] = <<>>
  BY <1>1, <1>2, <1>3, <1>4, WayFacts, Zenon DEF Stages
<1>7. Way'[1] = Way[1] /\ Way'[2] = Way[2] /\ Way'[5] = Way[5]
  BY <1>1, WayFacts, Zenon DEF Stages
<1>8. Shift(Way, Way', 3, 4, <<Head(stash)>>, <<>>)
  BY <1>5, <1>6, <1>7, AllStages, Zenon DEF Shift
<1>9. \A m \in Stage : ~((3 < m /\ m < 4) \/ (4 < m /\ m < 3))
  BY AllStages
<1>10. 3 # 4 /\ ~(4 < 3)
  OBVIOUS
<1>. QED  BY <1>3, <1>5, <1>8, <1>9, <1>10, AllStages, OrderShift, OrderKept, Zenon DEF OrderInv

\* ... from the queue, once the stash is empty ...
LEMMA TakeOutgoingOrder ==
    ASSUME TypeOK, TypeOK', OrderInv, TakeOutgoing, p = None, stash = <<>>,
           UNCHANGED <<written, dropped, sent, payload>>
    PROVE  OrderInv'
<1>1. queue \in Seq(Packet) /\ queue # <<>> /\ queue' = Tail(queue) /\ p' = Head(queue) /\ stash' = stash
  BY DEF TypeOK, TakeOutgoing
<1>2. Head(queue) \in Packet /\ Tail(queue) \in Seq(Packet) /\ queue = <<Head(queue)>> \o Tail(queue)
  BY <1>1, HeadTail
<1>3. <<Head(queue)>> \in Seq(Packet) /\ <<Head(queue)>> = <<>> \o <<Head(queue)>>
  BY <1>2
<1>4. Hand = <<>> /\ Hand' = <<Head(queue)>>
  BY <1>1, <1>2, PollLoopAssumption DEF Hand, Packet
<1>5. Way \in [Stage -> Seq(Packet)] /\ Way' \in [Stage -> Seq(Packet)]
  BY WayFacts
<1>6. Way[5] = <<Head(queue)>> \o Tail(queue) /\ Way'[3] = Way[3] \o <<Head(queue)>> /\ Way'[5] = Tail(queue)
  BY <1>1, <1>2, <1>3, <1>4, WayFacts, Zenon DEF Stages
<1>7. Way'[1] = Way[1] /\ Way'[2] = Way[2] /\ Way'[4] = Way[4] /\ Way[4] = <<>>
  BY <1>1, WayFacts, Zenon DEF Stages
<1>8. Shift(Way, Way', 3, 5, <<Head(queue)>>, Tail(queue))
  BY <1>5, <1>6, <1>7, AllStages, Zenon DEF Shift
<1>9. \A m \in Stage : (3 < m /\ m < 5) \/ (5 < m /\ m < 3) => Way[m] = <<>>
  BY <1>7, AllStages
<1>10. 3 # 5 /\ ~(5 < 3)
  OBVIOUS
<1>. QED  BY <1>2, <1>3, <1>5, <1>8, <1>9, <1>10, AllStages, OrderShift, OrderKept DEF OrderInv

\* ... adding to the payload and taking the next packet, in one step ...
LEMMA BuildOrder ==
    ASSUME TypeOK, TypeOK', OrderInv, Build, stash = <<>>
    PROVE  OrderInv'
<1>1. /\ p \in Packet /\ p # None /\ payload \in Seq(Packet) /\ payload' = Append(payload, p)
      /\ UNCHANGED <<stash, written, sent, dropped>>
  BY DEF TypeOK, Build, Fits, histVars
<1>2. <<p>> \in Seq(Packet) /\ <<>> \in Seq(Packet) /\ Hand = <<p>> /\ <<p>> = <<p>> \o <<>>
      /\ payload' = payload \o <<p>>
  BY <1>1 DEF Hand
<1>3. Way \in [Stage -> Seq(Packet)] /\ Way' \in [Stage -> Seq(Packet)] /\ payload' \in Seq(Packet)
  BY WayFacts DEF TypeOK
<1>. DEFINE F == [l \in Stage |-> IF l = 2 THEN payload' ELSE IF l = 3 THEN <<>> ELSE Way[l]]
<1>4. /\ F \in [Stage -> Seq(Packet)] /\ F[2] = payload' /\ F[3] = <<>>
      /\ F[1] = Way[1] /\ F[4] = Way[4] /\ F[5] = Way[5]
  <2>1. \A l \in Stage : F[l] \in Seq(Packet)
    BY <1>2, <1>3
  <2>2. F \in [Stage -> Seq(Packet)]
    BY <2>1
  <2>. QED  BY <2>2, AllStages
<1>. HIDE DEF F
<1>5. Way[3] = <<p>> \o <<>> /\ F[2] = Way[2] \o <<p>> /\ Way[4] = <<>>
  BY <1>2, <1>4, WayFacts, Zenon DEF Stages
<1>6. InOrder(F) /\ All(F) \subseteq All(Way)
  <2>1. Shift(Way, F, 2, 3, <<p>>, <<>>)
    BY <1>3, <1>4, <1>5, AllStages DEF Shift
  <2>2. \A m \in Stage : ~((2 < m /\ m < 3) \/ (3 < m /\ m < 2))
    BY AllStages
  <2>3. 2 # 3 /\ ~(3 < 2)
    OBVIOUS
  <2>. QED  BY <1>2, <1>3, <1>4, <2>1, <2>2, <2>3, AllStages, OrderShift, Zenon DEF OrderInv
<1>7. Way'[1] = F[1] /\ Way'[2] = F[2] /\ Way'[4] = F[4] /\ F[4] = <<>> /\ F[5] = queue
  BY <1>1, <1>4, <1>5, WayFacts, Zenon DEF Stages
<1>8. CASE queue # <<>>
  <2>1. queue \in Seq(Packet) /\ p' = Head(queue) /\ queue' = Tail(queue)
    BY <1>8 DEF TypeOK, Build
  <2>2. Head(queue) \in Packet /\ Tail(queue) \in Seq(Packet) /\ queue = <<Head(queue)>> \o Tail(queue)
    BY <1>8, <2>1, HeadTail
  <2>3. <<Head(queue)>> \in Seq(Packet) /\ <<Head(queue)>> = <<>> \o <<Head(queue)>>
    BY <2>2
  <2>4. Hand' = <<Head(queue)>>
    BY <2>1, <2>2, PollLoopAssumption DEF Hand, Packet
  <2>5. F[5] = <<Head(queue)>> \o Tail(queue) /\ Way'[3] = F[3] \o <<Head(queue)>> /\ Way'[5] = Tail(queue)
    BY <1>4, <1>7, <2>1, <2>2, <2>3, <2>4, WayFacts, Zenon DEF Stages
  <2>6. Shift(F, Way', 3, 5, <<Head(queue)>>, Tail(queue))
    BY <1>4, <1>7, <2>5, AllStages, Zenon DEF Shift
  <2>7. \A m \in Stage : (3 < m /\ m < 5) \/ (5 < m /\ m < 3) => F[m] = <<>>
    BY <1>7, AllStages
  <2>8. 3 # 5 /\ ~(5 < 3)
    OBVIOUS
  <2>9. InOrder(Way') /\ All(Way') \subseteq All(F)
    BY <1>3, <1>4, <1>6, <2>2, <2>3, <2>6, <2>7, <2>8, AllStages, OrderShift
  <2>. QED  BY <1>1, <1>6, <2>9, OrderKept
<1>9. CASE queue = <<>>
  <2>1. p' = None /\ queue' = queue
    BY <1>9 DEF Build
  <2>2. Way'[3] = F[3] /\ Way'[5] = F[5]
    BY <1>4, <1>7, <2>1, WayFacts, Zenon DEF Stages, Hand
  <2>3. Way' = F
    BY <1>3, <1>4, <1>7, <2>2, SameStages
  <2>. QED  BY <1>1, <1>6, <2>3, OrderKept
<1>. QED  BY <1>8, <1>9

\* ... putting back the packet that did not fit ...
LEMMA StashOrder ==
    ASSUME TypeOK, TypeOK', OrderInv, Stash, stash = <<>>
    PROVE  OrderInv'
<1>1. p' = None /\ UNCHANGED <<queue, written, payload, sent, dropped>>
  BY DEF Stash
<1>2. Way \in [Stage -> Seq(Packet)] /\ Way' \in [Stage -> Seq(Packet)]
  BY WayFacts
<1>3. Way'[1] = Way[1] /\ Way'[2] = Way[2] /\ Way'[3] = <<>> /\ Way'[5] = Way[5] /\ Way[4] = <<>>
  BY <1>1, WayFacts, Zenon DEF Stages, Hand
<1>4. CASE p = None
  <2>1. Way'[3] = Way[3] /\ Way'[4] = Way[4]
    BY <1>1, <1>4, WayFacts DEF Stages, Hand, Stash
  <2>2. Way' = Way
    BY <1>2, <1>3, <2>1, SameStages, Zenon
  <2>. QED  BY <1>1, <2>2, OrderKept DEF OrderInv
<1>5. CASE p # None
  <2>1. p \in Packet /\ stash' = <<p>>
    BY <1>5 DEF TypeOK, Stash
  <2>2. <<p>> \in Seq(Packet) /\ <<>> \in Seq(Packet) /\ <<p>> = <<p>> \o <<>> /\ <<p>> = <<>> \o <<p>>
    BY <2>1
  <2>3. Way[3] = <<p>> \o <<>> /\ Way'[4] = Way[4] \o <<p>>
    BY <1>3, <1>5, <2>1, <2>2, WayFacts, Zenon DEF Stages, Hand
  <2>4. Shift(Way, Way', 4, 3, <<p>>, <<>>)
    BY <1>2, <1>3, <2>3, AllStages, Zenon DEF Shift
  <2>5. \A m \in Stage : ~((4 < m /\ m < 3) \/ (3 < m /\ m < 4))
    BY AllStages
  <2>6. 4 # 3 /\ (3 < 4 => Way[4] = <<>> /\ Way'[3] = <<>>)
    BY <1>3
  <2>. QED  BY <1>1, <1>2, <2>2, <2>4, <2>5, <2>6, AllStages, OrderShift, OrderKept, Zenon DEF OrderInv
<1>. QED  BY <1>4, <1>5

\* ... starting a poll ...
LEMMA StartOrder ==
    ASSUME TypeOK, TypeOK', OrderInv, StartPoll
    PROVE  OrderInv'
<1>1. /\ payload \in Seq(Packet) /\ sent' = sent \o payload /\ payload' = <<>>
      /\ UNCHANGED <<queue, stash, written, p, dropped>>
  BY DEF StartPoll, TypeOK, connVars
<1>2. Way \in [Stage -> Seq(Packet)] /\ Way' \in [Stage -> Seq(Packet)]
  BY WayFacts
<1>3. payload = payload \o <<>> /\ <<>> \in Seq(Packet)
  BY <1>1
<1>4. Way[2] = payload \o <<>> /\ Way'[1] = Way[1] \o payload /\ Way'[2] = <<>>
  BY <1>1, <1>3, WayFacts, Zenon DEF Stages
<1>5. Way'[3] = Way[3] /\ Way'[4] = Way[4] /\ Way'[5] = Way[5]
  <2>1. Hand' = Hand
    BY <1>1 DEF Hand
  <2>. QED  BY <1>1, <2>1, WayFacts, Zenon DEF Stages
<1>6. Shift(Way, Way', 1, 2, payload, <<>>)
  BY <1>2, <1>4, <1>5, AllStages DEF Shift
<1>7. \A m \in Stage : ~((1 < m /\ m < 2) \/ (2 < m /\ m < 1))
  BY AllStages
<1>8. 1 # 2 /\ ~(2 < 1)
  OBVIOUS
<1>. QED  BY <1>1, <1>2, <1>3, <1>6, <1>7, <1>8, AllStages, OrderShift, OrderKept DEF OrderInv

\* ... giving the payload up ...
LEMMA GiveUpOrder ==
    ASSUME TypeOK, TypeOK', OrderInv, GiveUp, UNCHANGED <<queue, stash, written, p>>
    PROVE  OrderInv'
<1>1. /\ payload \in Seq(Packet) /\ dropped \in Seq(Packet) /\ written \in Nat
      /\ dropped' = dropped \o payload /\ payload' = <<>> /\ sent' = sent
  BY PollLoopAssumption DEF TypeOK, GiveUp
<1>2. Way \in [Stage -> Seq(Packet)] /\ Way' \in [Stage -> Seq(Packet)]
  BY WayFacts
<1>3. Way'[1] = Way[1] /\ Way'[2] = <<>> /\ Way'[3] = Way[3] /\ Way'[4] = Way[4] /\ Way'[5] = Way[5]
      /\ Way[2] = payload
  <2>1. Hand' = Hand
    BY <1>1 DEF Hand
  <2>. QED  BY <1>1, <2>1, WayFacts, Zenon DEF Stages
<1>4. \A l \in Stage : Way'[l] \in {Way[l], <<>>}
  BY <1>3, AllStages
<1>5. InOrder(Way') /\ All(Way') \subseteq All(Way)
  BY <1>2, <1>4, OrderDrop DEF OrderInv
<1>6. ASSUME NEW i \in DOMAIN payload PROVE payload[i] \in All(Way) /\ payload[i] \notin All(Way')
  <2>1. payload[i] \in Packet /\ payload[i] \in Nat
    BY <1>1, PollLoopAssumption DEF Packet
  <2>2. payload[i] \in All(Way)
    BY <1>3, <2>1, AllStages DEF All
  <2>3. ASSUME NEW l \in Stage, NEW j \in DOMAIN Way'[l] PROVE Way'[l][j] # payload[i]
    <3>1. l # 2 /\ Way'[l] = Way[l]
      BY <1>3, <2>3, AllStages
    <3>2. Way[l][j] \in Packet /\ Way[l][j] \in Nat
      BY <1>2, <3>1, PollLoopAssumption DEF Packet
    <3>3. l < 2 \/ 2 < l
      BY <3>1 DEF Stage
    <3>4. Way[l][j] < payload[i] \/ payload[i] < Way[l][j]
      BY <1>3, <3>1, <3>3, AllStages DEF OrderInv, InOrder
    <3>. QED  BY <2>1, <3>1, <3>2, <3>4
  <2>4. payload[i] \notin All(Way')
    BY <2>3 DEF All
  <2>. QED  BY <2>2, <2>4
<1>7. ASSUME NEW j \in DOMAIN dropped' PROVE dropped'[j] \in 1 .. written' /\ dropped'[j] \notin All(Way')
  <2>1. \/ j \in DOMAIN dropped /\ dropped'[j] = dropped[j]
        \/ \E i \in DOMAIN payload : dropped'[j] = payload[i]
    BY <1>1, Appended
  <2>2. CASE j \in DOMAIN dropped /\ dropped'[j] = dropped[j]
    BY <1>1, <1>5, <2>2 DEF OrderInv
  <2>3. CASE \E i \in DOMAIN payload : dropped'[j] = payload[i]
    BY <1>1, <1>6, <2>3 DEF OrderInv
  <2>. QED  BY <2>1, <2>2, <2>3
<1>8. All(Way)' = All(Way')
  BY DEF All
<1>9. All(Way') \subseteq 1 .. written'
  BY <1>5 DEF OrderInv
<1>. QED  BY <1>5, <1>7, <1>8, <1>9 DEF OrderInv

\* ... and a new packet at the end of the queue.
LEMMA WriteToOrder ==
    ASSUME TypeOK, TypeOK', OrderInv, WriteTo
    PROVE  OrderInv'
<1>1. /\ written \in Nat /\ written' = written + 1 /\ written + 1 \in Packet
      /\ UNCHANGED <<stash, p, payload, sent, dropped>>
  BY PollLoopAssumption DEF TypeOK, WriteTo, Packet, histVars
<1>2. Way \in [Stage -> Seq(Packet)] /\ Way' \in [Stage -> Seq(Packet)]
  BY WayFacts
<1>3. Way'[1] = Way[1] /\ Way'[2] = Way[2] /\ Way'[3] = Way[3] /\ Way'[4] = Way[4]
  <2>1. Hand' = Hand
    BY <1>1 DEF Hand
  <2>. QED  BY <1>1, <2>1, WayFacts, Zenon DEF Stages
<1>4. CASE queue' = queue
  <2>1. Way'[5] = Way[5]
    BY <1>4, WayFacts, Zenon DEF Stages
  <2>2. Way' = Way
    BY <1>2, <1>3, <2>1, SameStages
  <2>3. /\ InOrder(Way') /\ All(Way') \subseteq 1 .. written'
        /\ \A j \in DOMAIN dropped' : dropped'[j] \in 1 .. written' /\ dropped'[j] \notin All(Way')
    BY <1>1, <2>2 DEF OrderInv
  <2>4. All(Way)' = All(Way')
    BY DEF All
  <2>. QED  BY <2>3, <2>4 DEF OrderInv
<1>5. CASE queue' = Append(queue, written + 1)
  <2>1. Way'[5] = Append(Way[5], written + 1)
    BY <1>5, WayFacts, Zenon DEF Stages
  <2>2. \A l \in Stage : \A i \in DOMAIN Way[l] : Way[l][i] < written + 1
    <3>1. ASSUME NEW l \in Stage, NEW i \in DOMAIN Way[l] PROVE Way[l][i] < written + 1
      <4>1. Way[l][i] \in Packet
        BY <1>2
      <4>2. Way[l][i] \in All(Way)
        BY <4>1 DEF All
      <4>3. Way[l][i] \in 1 .. written
        BY <4>2 DEF OrderInv
      <4>. QED  BY <1>1, <4>3
    <3>. QED  BY <3>1
  <2>3. \A l \in Stage \ {5} : Way'[l] = Way[l]
    BY <1>3, AllStages
  <2>4. InOrder(Way') /\ All(Way') \subseteq All(Way) \cup {written + 1}
    BY <1>1, <1>2, <2>1, <2>2, <2>3, OrderNew DEF OrderInv
  <2>5. All(Way)' = All(Way')
    BY DEF All
  <2>6. All(Way') \subseteq 1 .. written'
    BY <1>1, <2>4 DEF OrderInv
  <2>7. ASSUME NEW j \in DOMAIN dropped' PROVE dropped'[j] \in 1 .. written' /\ dropped'[j] \notin All(Way')
    <3>1. dropped'[j] \in 1 .. written /\ dropped'[j] \notin All(Way)
      BY <1>1 DEF OrderInv
    <3>. QED  BY <1>1, <2>4, <3>1
  <2>. QED  BY <2>4, <2>5, <2>6, <2>7 DEF OrderInv
<1>. QED  BY <1>4, <1>5 DEF WriteTo

\* The steps that leave packets where they are.
LEMMA SameOrder ==
    ASSUME OrderInv, UNCHANGED <<queue, stash, p, payload, sent, written, dropped>>
    PROVE  OrderInv'
<1>1. Way' = Way
  BY DEF Way, Hand
<1>. QED  BY <1>1, OrderKept DEF OrderInv

\* Every step keeps the order.
LEMMA OrderStep ==
    ASSUME TypeOK, TypeOK', LoopInv, OrderInv, [Next]_vars
    PROVE  OrderInv'
<1>1. CASE UNCHANGED <<queue, stash, p, payload, sent, written, dropped>>
  BY <1>1, SameOrder
<1>2. CASE WriteTo
  BY <1>2, WriteToOrder
<1>3. CASE Select1 \/ Select2 \/ Select3 \/ Select4
  <2>1. p = None /\ UNCHANGED <<written, dropped, sent, payload>>
    BY <1>3 DEF Select1, Select2, Select3, Select4, loopRest, histVars, LoopInv
  <2>2. CASE TakeStash
    BY <2>1, <2>2, TakeStashOrder
  <2>3. CASE TakeOutgoing /\ pc \in {"select3", "select4"}
    BY <2>1, <2>3, TakeOutgoingOrder DEF LoopInv
  <2>4. CASE UNCHANGED <<queue, stash, p>>
    BY <2>1, <2>4, <1>1
  <2>. QED
    BY <1>3, <2>2, <2>3, <2>4
       DEF Select1, Select2, Select3, Select4, Return, TakeTimer, Default
<1>4. CASE Build
  <2>1. stash = <<>>
    BY <1>4 DEF Build, LoopInv
  <2>. QED  BY <1>4, <2>1, BuildOrder
<1>5. CASE Stash
  <2>1. stash = <<>>
    BY <1>5 DEF Stash, LoopInv
  <2>. QED  BY <1>5, <2>1, StashOrder
<1>6. CASE Limit \/ SemAcquire
  <2>1. UNCHANGED <<queue, stash, written, p>>
    BY <1>6 DEF Limit, SemAcquire, connVars
  <2>2. GiveUp \/ UNCHANGED <<payload, sent, dropped>>
    BY <1>6 DEF Limit, SemAcquire, histVars
  <2>. QED  BY <1>1, <2>1, <2>2, GiveUpOrder
<1>7. CASE StartPoll
  BY <1>7, StartOrder
<1>8. CASE \/ ReadFrom \/ Close \/ TimerFires \/ Refill \/ Adapt
           \/ \E g \in Poll : Incoming(g) \/ pollEnds(g)
  BY <1>1, <1>8 DEF ReadFrom, Close, TimerFires, Refill, Adapt, Incoming, pollEnds, Answered, Failed,
                    SemRelease, connVars, histVars
<1>9. CASE UNCHANGED vars
  BY <1>1, <1>9 DEF vars, connVars, histVars
<1>. QED  BY <1>2, <1>3, <1>4, <1>5, <1>6, <1>7, <1>8, <1>9 DEF Next, pollLoop

\* Every step of the loop keeps what it knows of hand and stash.
LEMMA LoopStep ==
    ASSUME TypeOK, LoopInv, [Next]_vars
    PROVE  LoopInv'
<1>. USE DEF LoopInv
<1>1. CASE UNCHANGED <<pc, p, stash, lost>>
  BY <1>1
<1>2. CASE Select1 \/ Select2
  BY <1>2 DEF Select1, Select2, Return, TakeStash, Default, loopRest, histVars
<1>3. CASE Select3 \/ Select4
  BY <1>3 DEF Select3, Select4, Return, TakeStash, TakeOutgoing, TakeTimer, Default, loopRest, histVars
<1>4. CASE Build
  BY <1>4 DEF Build, histVars
<1>5. CASE Stash
  BY <1>5 DEF Stash
<1>6. CASE Limit \/ SemAcquire \/ StartPoll
  BY <1>6 DEF Limit, SemAcquire, StartPoll, GiveUp, connVars, histVars
<1>7. CASE \/ WriteTo \/ ReadFrom \/ Close \/ TimerFires \/ Refill \/ Adapt
           \/ \E g \in Poll : Incoming(g) \/ pollEnds(g)
  BY <1>1, <1>7 DEF WriteTo, ReadFrom, Close, TimerFires, Refill, Adapt, Incoming, pollEnds, Answered,
                    Failed, SemRelease, connVars, histVars
<1>8. CASE UNCHANGED vars
  BY <1>1, <1>8 DEF vars, connVars, histVars
<1>. QED  BY <1>2, <1>3, <1>4, <1>5, <1>6, <1>7, <1>8 DEF Next, pollLoop

-----------------------------------------------------------------------------
(* Theorems *)

(***************************************************************************)
(* The state of pollLoop is well typed: the semaphore's count is never     *)
(* negative nor above the largest concurrency, the stash never holds two   *)
(* packets, and the bucket is never overdrawn by more than one poll.       *)
(***************************************************************************)
THEOREM TypeCorrect == Spec => []TypeOK
BY IndInvAlways, PTL DEF IndInv

(***************************************************************************)
(* semAcquire and the deferred semRelease count the polls in flight.       *)
(***************************************************************************)
THEOREM SemaphoreCountsTheorem == Spec => []SemaphoreCounts
BY IndInvAlways, PTL DEF IndInv

(***************************************************************************)
(* A poll that acquires the semaphore in slow mode is the only one.        *)
(***************************************************************************)
THEOREM SlowModeAloneTheorem == Spec => SlowModeAlone
<1>1. IndInv /\ [Next]_vars => [pc = "acquire" /\ pc' = "start" /\ slow => Running = {}]_vars
  <2>. SUFFICES ASSUME IndInv, Next, pc = "acquire", pc' = "start", slow
                PROVE  Running = {}
    BY Zenon
  <2>1. SemAcquire
    BY DEF Next, pollLoop, Select1, Select2, Select3, Select4, Build, Stash, Limit, StartPoll,
           pollEnds, Incoming, Answered, Failed, SemRelease, WriteTo, ReadFrom, Close, TimerFires,
           Refill, Adapt
  <2>2. semCur < 1
    BY <2>1 DEF SemAcquire, GiveUp, effectiveCap, IndInv, TypeOK
  <2>3. Cardinality(Running) = 0
    BY <2>2, RunningFinite DEF IndInv, TypeOK, SemaphoreCounts
  <2>. QED  BY <2>3, RunningFinite, FS_EmptySet
<1>. QED  BY <1>1, IndInvAlways, PTL DEF Spec, SlowModeAlone

(***************************************************************************)
(* Packets leave in the order KCP wrote them, each in one payload at most; *)
(* a payload given up does not come back, and Stash always finds the stash *)
(* free.  The induction orders all packets between the queue and the polls *)
(* and needs that the selects empty the stash before they turn to the      *)
(* queue.                                                                  *)
(***************************************************************************)
THEOREM SentInOrderTheorem == Spec => []SentInOrder
<1>1. Init => LoopInv /\ OrderInv
  <2>. SUFFICES ASSUME Init PROVE LoopInv /\ OrderInv
    OBVIOUS
  <2>1. LoopInv
    BY DEF Init, LoopInv
  <2>2. sent = <<>> /\ payload = <<>> /\ Hand = <<>> /\ stash = <<>> /\ queue = <<>> /\ dropped = <<>>
    BY DEF Init, Hand
  <2>3. \A l \in Stage : Way[l] = <<>>
    BY <2>2, WayFacts, AllStages DEF Stages
  <2>4. \A l \in Stage : DOMAIN Way[l] = {}
    BY <2>3
  <2>5. InOrder(Way) /\ All(Way) = {} /\ DOMAIN dropped = {}
    BY <2>2, <2>4 DEF InOrder, All
  <2>. QED  BY <2>1, <2>5 DEF OrderInv
<1>2. IndInv /\ IndInv' /\ LoopInv /\ OrderInv /\ [Next]_vars => (LoopInv /\ OrderInv)'
  BY LoopStep, OrderStep DEF IndInv
<1>3. IndInv /\ LoopInv /\ OrderInv => SentInOrder
  <2>. SUFFICES ASSUME IndInv, LoopInv, OrderInv PROVE SentInOrder
    OBVIOUS
  <2>1. Way \in [Stage -> Seq(Packet)] /\ Way[1] = sent
    BY WayFacts DEF IndInv, Stages
  <2>2. \A l, m \in DOMAIN Way : \A i \in DOMAIN Way[l], j \in DOMAIN Way[m] :
           l < m \/ (l = m /\ i < j) => Way[l][i] < Way[m][j]
    BY <2>1 DEF OrderInv, InOrder
  <2>3. \A i \in DOMAIN sent : sent[i] \in All(Way)
    BY <2>1, AllStages DEF All
  <2>4. \A i \in DOMAIN sent, j \in DOMAIN dropped : sent[i] # dropped[j]
    BY <2>3 DEF OrderInv
  <2>. QED  BY <2>2, <2>4 DEF LoopInv, SentInOrder
<1>. QED  BY <1>1, <1>2, <1>3, IndInvAlways, PTL DEF Spec

(***************************************************************************)
(* A payload of more than one packet exceeds MaxPayload by no more than    *)
(* the length prefix of its last packet, whatever the packets' sizes: the  *)
(* loop compares the payload and the bare packet with the limit.           *)
(***************************************************************************)
THEOREM PayloadBoundedTheorem == Spec => []PayloadBounded
<1>1. Init => PayloadBounded
  BY DEF Init, PayloadBounded
<1>2. ASSUME IndInv, PayloadBounded, [Next]_vars PROVE PayloadBounded'
  <2>1. CASE payload' = payload
    BY <1>2, <2>1 DEF PayloadBounded, PayloadLen
  <2>2. CASE payload' = <<>>
    BY <2>2 DEF PayloadBounded
  <2>3. CASE Build
    <3>1. /\ payload \in Seq(Packet) /\ p \in Packet /\ payload' = Append(payload, p)
          /\ payload = <<>> \/ PayloadLen + Size[p] <= MaxPayload
      BY <1>2, <2>3 DEF Build, Fits, IndInv, TypeOK
    <3>2. /\ IdLen \in Nat /\ Prefix \in Nat /\ MaxPayload \in Nat /\ Size[p] \in Nat
          /\ WireLen \in [Packet -> Int] /\ WireLen[p] = Prefix + Size[p]
      BY <3>1, PollLoopAssumption DEF WireLen, Packet
    <3>3. /\ SumOver(WireLen, payload) \in Int
          /\ SumOver(WireLen, payload') = SumOver(WireLen, payload) + WireLen[p]
      BY <3>1, <3>2, SumOverAppend
    <3>4. Len(payload') > 1 => PayloadLen + Size[p] <= MaxPayload
      BY <3>1
    <3>5. PayloadLen' = IdLen + SumOver(WireLen, payload')
      BY DEF PayloadLen, WireLen
    <3>. QED  BY <3>2, <3>3, <3>4, <3>5 DEF PayloadLen, PayloadBounded
  <2>4. Build \/ payload' \in {payload, <<>>}
    <3>1. CASE Select1 \/ Select2 \/ Select3 \/ Select4
      BY <3>1 DEF Select1, Select2, Select3, Select4, loopRest
    <3>2. CASE Stash \/ Limit \/ SemAcquire \/ StartPoll
      BY <3>2 DEF Stash, Limit, SemAcquire, StartPoll, GiveUp
    <3>3. CASE \/ WriteTo \/ ReadFrom \/ Close \/ TimerFires \/ Refill \/ Adapt
               \/ \E g \in Poll : Incoming(g) \/ pollEnds(g)
      BY <3>3 DEF WriteTo, ReadFrom, Close, TimerFires, Refill, Adapt, Incoming, pollEnds, Answered,
                  Failed, SemRelease
    <3>4. CASE UNCHANGED vars
      BY <3>4 DEF vars
    <3>. QED  BY <1>2, <3>1, <3>2, <3>3, <3>4 DEF Next, pollLoop
  <2>. QED  BY <2>1, <2>2, <2>3, <2>4
<1>. QED  BY <1>1, <1>2, IndInvAlways, PTL DEF Spec
=============================================================================
