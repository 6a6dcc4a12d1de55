----------------------------- MODULE RateLimiter -----------------------------
(***************************************************************************)
(* champa-client/ratelimit.go, RateLimiter, and its use in pollLoop        *)
(* (champa-client/pollingpacketconn.go): the loop sets the rate, asks      *)
(* whether it is limited and takes tokens, while poll goroutines that end  *)
(* with an error call MultiplicativeDecrease.  Nothing synchronises them.  *)
(* The fields are words of the machine, so a method is the sequence of its *)
(* loads and stores, and those of the goroutines interleave.               *)
(*                                                                         *)
(* Rates and tokens are integers; the order of the constants is the code's.*)
(***************************************************************************)
EXTENDS Integers, FiniteSets

CONSTANTS
    Loop,         \* the goroutine of pollLoop
    Poller,       \* poll goroutines
    SlowRate,     \* quotaSlowRate and minAlwaysRate: 0.07 in the code
    MinRate,      \* adpMinRate: 2
    MaxRate,      \* adpMaxRate and requestsPerSecondMax: 8
    Burst,        \* requestsPerSecondBurst: 12; the field max
    RoI,          \* requestsPerSecondRoI: what a unit of time adds to the rate
    MaxTime,      \* bound: the clock
    MaxErrors     \* bound: polls that end with an error

ASSUME RateAssumption ==
    /\ {SlowRate, MinRate, MaxRate, Burst, RoI, MaxTime, MaxErrors} \subseteq Nat
    /\ 0 < SlowRate /\ SlowRate < MinRate /\ MinRate < MaxRate /\ MaxRate < Burst
    /\ Loop \notin Poller /\ IsFiniteSet(Poller)

Thread == {Loop} \cup Poller

VARIABLES
    clock,
    rate, cur, lastUpdate,   \* the fields
    currentRate,             \* currentRateBits of the connection
    pc, op,                  \* where each thread is, and the method it executes
    now, elapsed, reg,       \* its parameter now, its variable elapsed, a register
    slow,                    \* what IsSlowMode answered the loop
    errors                   \* history: polls that ended with an error

fields == <<rate, cur, lastUpdate>>
limiterVars == <<clock, fields, currentRate, pc, op, now, elapsed, reg, slow, errors>>

clampFloat(v, lo, hi) == IF v < lo THEN lo ELSE IF v > hi THEN hi ELSE v

\* requestsPerSecondMulDec is 0.70.
Decreased(r) == (7 * r) \div 10

LimiterInit ==
    /\ clock = 0
    /\ rate = MaxRate /\ cur = 1 /\ lastUpdate = 0
    /\ currentRate = 0
    /\ pc = [t \in Thread |-> "idle"]
    /\ op = [t \in Thread |-> "none"]
    /\ now = [t \in Thread |-> 0]
    /\ elapsed = [t \in Thread |-> 0]
    /\ reg = [t \in Thread |-> 0]
    /\ slow = FALSE
    /\ errors = 0

LimiterTick ==
    /\ clock < MaxTime
    /\ clock' = clock + 1
    /\ UNCHANGED <<fields, currentRate, pc, op, now, elapsed, reg, slow, errors>>

Go(t, label) == pc' = [pc EXCEPT ![t] = label]
Load(t, v) == reg' = [reg EXCEPT ![t] = v]

\* The call of a method that begins with update(now).
Call(t, method, time) ==
    /\ op' = [op EXCEPT ![t] = method]
    /\ now' = [now EXCEPT ![t] = time]
    /\ Go(t, "update")

-----------------------------------------------------------------------------
(* update *)

\* The field lastUpdate is read, and nothing done if it is in the future.
UpdateElapsed(t) ==
    /\ pc[t] = "update"
    /\ IF now[t] < lastUpdate
       THEN Go(t, op[t]) /\ UNCHANGED elapsed
       ELSE Go(t, "last") /\ elapsed' = [elapsed EXCEPT ![t] = now[t] - lastUpdate]
    /\ UNCHANGED <<clock, fields, currentRate, op, now, reg, slow, errors>>

UpdateLast(t) ==
    /\ pc[t] = "last"
    /\ lastUpdate' = now[t]
    /\ Go(t, "loadCur")
    /\ UNCHANGED <<clock, rate, cur, currentRate, op, now, elapsed, reg, slow, errors>>

LoadCur(t) ==
    /\ pc[t] = "loadCur"
    /\ Load(t, cur + rate * elapsed[t])
    /\ Go(t, "storeCur")
    /\ UNCHANGED <<clock, fields, currentRate, op, now, elapsed, slow, errors>>

\* The sum is stored, and may be seen before it is cut to the field max.
StoreCur(t) ==
    /\ pc[t] = "storeCur"
    /\ cur' = reg[t]
    /\ Go(t, IF reg[t] > Burst THEN "cutCur" ELSE "loadRate")
    /\ UNCHANGED <<clock, rate, lastUpdate, currentRate, op, now, elapsed, reg, slow, errors>>

CutCur(t) ==
    /\ pc[t] = "cutCur"
    /\ cur' = Burst
    /\ Go(t, "loadRate")
    /\ UNCHANGED <<clock, rate, lastUpdate, currentRate, op, now, elapsed, reg, slow, errors>>

LoadRate(t) ==
    /\ pc[t] = "loadRate"
    /\ Load(t, rate + RoI * elapsed[t])
    /\ Go(t, "storeRate")
    /\ UNCHANGED <<clock, fields, currentRate, op, now, elapsed, slow, errors>>

StoreRate(t) ==
    /\ pc[t] = "storeRate"
    /\ rate' = reg[t]
    /\ Go(t, IF reg[t] > Burst THEN "cutRate" ELSE op[t])
    /\ elapsed' = [elapsed EXCEPT ![t] = 0]
    /\ UNCHANGED <<clock, cur, lastUpdate, currentRate, op, now, reg, slow, errors>>

CutRate(t) ==
    /\ pc[t] = "cutRate"
    /\ rate' = Burst
    /\ Go(t, op[t])
    /\ UNCHANGED <<clock, cur, lastUpdate, currentRate, op, now, elapsed, reg, slow, errors>>

Update(t) ==
    \/ UpdateElapsed(t) \/ UpdateLast(t)
    \/ LoadCur(t) \/ StoreCur(t) \/ CutCur(t)
    \/ LoadRate(t) \/ StoreRate(t) \/ CutRate(t)

-----------------------------------------------------------------------------
(* pollLoop *)

(***************************************************************************)
(* Rate control: GetRate is compared with the slow rate, or with the       *)
(* adaptive controller's target; then SetRate, if it is needed.            *)
(***************************************************************************)
Control ==
    /\ pc[Loop] = "idle"
    /\ \E s \in BOOLEAN, target \in MinRate .. MaxRate :
          /\ slow' = s
          /\ IF IF s THEN rate > SlowRate ELSE rate < target
             THEN /\ Load(Loop, IF s THEN SlowRate ELSE target)
                  /\ Go(Loop, "setRate")
             ELSE /\ Go(Loop, "floor")
                  /\ UNCHANGED reg
    /\ UNCHANGED <<clock, fields, currentRate, op, now, elapsed, errors>>

\* The store of SetRate.  The field max, Burst, is never below MaxRate and stays.
SetRate ==
    /\ pc[Loop] = "setRate"
    /\ rate' = clampFloat(reg[Loop], MinRate, MaxRate)
    /\ Go(Loop, "floor")
    /\ UNCHANGED <<clock, cur, lastUpdate, currentRate, op, now, elapsed, reg, slow, errors>>

\* The hard floor, storeRate, and the call of IsLimited.
Floor ==
    /\ pc[Loop] = "floor"
    /\ rate' = IF rate < SlowRate THEN clampFloat(SlowRate, MinRate, MaxRate) ELSE rate
    /\ currentRate' = rate'
    /\ Call(Loop, "isLimited", clock)
    /\ UNCHANGED <<clock, cur, lastUpdate, elapsed, reg, slow, errors>>

\* Mutant of IsLimited: an empty bucket does not limit.
IsLimitedLate ==
    /\ pc[Loop] = "isLimited"
    /\ \/ Go(Loop, "idle") /\ UNCHANGED <<op, now>>
       \/ cur >= -1 /\ Call(Loop, "take", now[Loop])
    /\ UNCHANGED <<clock, fields, currentRate, elapsed, reg, slow, errors>>

\* Limited, or no semaphore: the next round.  Else Take, with the same time.
IsLimited ==
    /\ pc[Loop] = "isLimited"
    /\ \/ Go(Loop, "idle") /\ UNCHANGED <<op, now>>
       \/ cur >= 0 /\ Call(Loop, "take", now[Loop])
    /\ UNCHANGED <<clock, fields, currentRate, elapsed, reg, slow, errors>>

TakeLoad ==
    /\ pc[Loop] = "take"
    /\ Load(Loop, cur - 1)
    /\ Go(Loop, "taken")
    /\ UNCHANGED <<clock, fields, currentRate, op, now, elapsed, slow, errors>>

TakeStore ==
    /\ pc[Loop] = "taken"
    /\ cur' = reg[Loop]
    /\ Go(Loop, "idle")
    /\ UNCHANGED <<clock, rate, lastUpdate, currentRate, op, now, elapsed, reg, slow, errors>>

pollLoop ==
    Control \/ SetRate \/ Floor \/ IsLimited \/ TakeLoad \/ TakeStore \/ Update(Loop)

-----------------------------------------------------------------------------
(* A poll ends with an error: MultiplicativeDecrease *)

PollError(t) ==
    /\ pc[t] = "idle"
    /\ errors < MaxErrors
    /\ errors' = errors + 1
    /\ Call(t, "decrease", clock)
    /\ UNCHANGED <<clock, fields, currentRate, elapsed, reg, slow>>

DecreaseLoad(t) ==
    /\ pc[t] = "decrease"
    /\ Load(t, Decreased(rate))
    /\ Go(t, "decreased")
    /\ UNCHANGED <<clock, fields, currentRate, op, now, elapsed, slow, errors>>

\* The product is stored, and may be seen before it is raised to adpMinRate.
DecreaseStore(t) ==
    /\ pc[t] = "decreased"
    /\ rate' = reg[t]
    /\ Go(t, "raise")
    /\ UNCHANGED <<clock, cur, lastUpdate, currentRate, op, now, elapsed, reg, slow, errors>>

DecreaseRaise(t) ==
    /\ pc[t] = "raise"
    /\ rate' = IF rate < MinRate THEN MinRate ELSE rate
    /\ Go(t, "resetCur")
    /\ UNCHANGED <<clock, cur, lastUpdate, currentRate, op, now, elapsed, reg, slow, errors>>

DecreaseReset(t) ==
    /\ pc[t] = "resetCur"
    /\ cur' = 0
    /\ Go(t, "idle")
    /\ UNCHANGED <<clock, rate, lastUpdate, currentRate, op, now, elapsed, reg, slow, errors>>

MultiplicativeDecrease(t) ==
    Update(t) \/ DecreaseLoad(t) \/ DecreaseStore(t) \/ DecreaseRaise(t) \/ DecreaseReset(t)

LimiterNext ==
    \/ LimiterTick
    \/ pollLoop
    \/ \E t \in Poller : PollError(t) \/ MultiplicativeDecrease(t)

LimiterSpec == LimiterInit /\ [][LimiterNext]_limiterVars

-----------------------------------------------------------------------------
(* Properties *)

\* Types: fields of the limiter and registers of the goroutines.
LimiterTypeOK ==
    /\ clock \in 0 .. MaxTime
    /\ rate \in Nat /\ cur \in Int /\ lastUpdate \in 0 .. MaxTime
    /\ currentRate \in Nat
    /\ pc \in [Thread -> {"idle", "update", "last", "loadCur", "storeCur", "cutCur",
                          "loadRate", "storeRate", "cutRate",
                          "setRate", "floor", "isLimited", "take", "taken",
                          "decrease", "decreased", "raise", "resetCur"}]
    /\ op \in [Thread -> {"none", "isLimited", "take", "decrease"}]
    /\ now \in [Thread -> 0 .. MaxTime]
    /\ elapsed \in [Thread -> 0 .. MaxTime]
    /\ reg \in [Thread -> Int]
    /\ slow \in BOOLEAN
    /\ errors \in 0 .. MaxErrors

\* No poll goroutine is inside the limiter.
Quiet == \A t \in Poller : pc[t] = "idle"

(***************************************************************************)
(* However loads and stores interleave, the bucket is overdrawn by the one *)
(* token of a Take and one more for every poll that failed (its goroutine  *)
(* may store an old value between IsLimited and Take), never further.  An  *)
(* overfull bucket is seen only for a moment: when IsLimited decides, and  *)
(* no poll goroutine is inside the limiter, it holds Burst at most.        *)
(***************************************************************************)
LimiterInBounds ==
    /\ cur >= -1 - errors
    /\ Quiet /\ pc[Loop] = "isLimited" => cur <= Burst

(***************************************************************************)
(* "Poll rate in slow mode: ~1 req/15s" (quotaSlowRate): when slow mode    *)
(* was on at the rate control, the loop goes on with the slow rate.        *)
(***************************************************************************)
SlowModeIsSlow == slow /\ pc[Loop] = "isLimited" => currentRate <= SlowRate
=============================================================================
