------------------------------ MODULE CacheRotor ------------------------------
(***************************************************************************)
(* champa-client/cacherotor.go, CacheRotor, driven by the polls that use   *)
(* it: a poll asks for the current cache when it starts (exchangeAMP) and  *)
(* reports its result when it ends, to whichever cache is current then.    *)
(* Every method holds the mutex, so each is one action.                    *)
(***************************************************************************)
EXTENDS Integers

CONSTANTS
    Caches,      \* number of caches
    Poll,        \* polls that can be in flight at a time
    None,        \* not in flight; never
    Threshold,   \* cacheRotateThreshold: 15 in the code
    Window       \* cacheErrorWindow: 15 min

Cache == 0 .. Caches - 1

VARIABLES
    cur, errCount,
    sinceErr,    \* time since lastErr, at most Window + 1; None for the zero time
    poll,        \* the cache each poll in flight was sent through
    own          \* history: how many of the errors in errCount[cur] are of polls through cur

vars == <<cur, errCount, sinceErr, poll, own>>

Init ==
    /\ cur = 0
    /\ errCount = [i \in Cache |-> 0]
    /\ sinceErr = [i \in Cache |-> None]
    /\ poll = [g \in Poll |-> None]
    /\ own = 0

\* A poll starts: Current().
Current(g) ==
    /\ poll[g] = None
    /\ poll' = [poll EXCEPT ![g] = cur]
    /\ UNCHANGED <<cur, errCount, sinceErr, own>>

\* The errors counted against the current cache once one more is recorded.
Stale == sinceErr[cur] # None /\ sinceErr[cur] > Window

Counted == IF Stale THEN 1 ELSE errCount[cur] + 1

Rotates == Counted >= Threshold /\ Caches > 1

\* How many of the errors counted are of polls through the current cache.
ownNow(g) == (IF Stale THEN 0 ELSE own) + (IF poll[g] = cur THEN 1 ELSE 0)

\* Mutant of RecordQuotaError: the next cache keeps the count it had.
RecordQuotaErrorNoReset(g) ==
    /\ poll[g] # None
    /\ poll' = [poll EXCEPT ![g] = None]
    /\ sinceErr' = [sinceErr EXCEPT ![cur] = 0]
    /\ IF Rotates
       THEN /\ errCount' = [errCount EXCEPT ![cur] = Counted]
            /\ cur' = (cur + 1) % Caches
            /\ own' = 0
       ELSE /\ errCount' = [errCount EXCEPT ![cur] = Counted]
            /\ own' = ownNow(g)
            /\ UNCHANGED cur

\* A poll ends with a quota error.
RecordQuotaError(g) ==
    /\ poll[g] # None
    /\ poll' = [poll EXCEPT ![g] = None]
    /\ sinceErr' = [sinceErr EXCEPT ![cur] = 0]
    /\ IF Rotates
       THEN LET next == (cur + 1) % Caches
            IN  /\ errCount' = [errCount EXCEPT ![cur] = Counted, ![next] = 0]
                /\ cur' = next
                /\ own' = 0
       ELSE /\ errCount' = [errCount EXCEPT ![cur] = Counted]
            /\ own' = ownNow(g)
            /\ UNCHANGED cur

\* A poll succeeds.
RecordSuccess(g) ==
    /\ poll[g] # None
    /\ poll' = [poll EXCEPT ![g] = None]
    /\ errCount' = [errCount EXCEPT ![cur] = 0]
    /\ own' = 0
    /\ UNCHANGED <<cur, sinceErr>>

\* A poll fails for another reason: the rotor is not told.
OtherError(g) ==
    /\ poll[g] # None
    /\ poll' = [poll EXCEPT ![g] = None]
    /\ UNCHANGED <<cur, errCount, sinceErr, own>>

Tick ==
    /\ sinceErr' = [i \in Cache |-> IF sinceErr[i] # None /\ sinceErr[i] <= Window
                                    THEN sinceErr[i] + 1 ELSE sinceErr[i]]
    /\ UNCHANGED <<cur, errCount, poll, own>>

Next ==
    \/ \E g \in Poll : Current(g) \/ RecordQuotaError(g) \/ RecordSuccess(g) \/ OtherError(g)
    \/ Tick

Spec == Init /\ [][Next]_vars

-----------------------------------------------------------------------------
(* Properties *)

\* Types: the error counts stay within the threshold when there are several caches.
TypeOK ==
    /\ cur \in Cache
    /\ errCount \in [Cache -> Nat]
    /\ Caches > 1 => \A i \in Cache : errCount[i] <= Threshold
    /\ sinceErr \in [Cache -> 0 .. Window + 1 \cup {None}]
    /\ poll \in [Poll -> Cache \cup {None}]
    /\ own \in 0 .. errCount[cur]

\* Rotation away from the current cache.
Rotation == cur' # cur

\* The quota errors of the current cache's own polls, the one that is being recorded included.
OwnErrors == LET g == CHOOSE g \in Poll : poll[g] # None /\ poll'[g] = None IN ownNow(g)

(***************************************************************************)
(* With several caches the current one is always below the threshold: it   *)
(* never stays current with its quota used up.                             *)
(***************************************************************************)
CurrentBelowThreshold == Caches > 1 => errCount[cur] < Threshold
=============================================================================
