------------------------------ MODULE PollResult ------------------------------
(***************************************************************************)
(* champa-client/pollingpacketconn.go, the end of a poll goroutine of      *)
(* pollLoop: QuotaManager and CacheRotor composed with the polls in flight *)
(* that report to them.  The quota manager is told first and the rotor     *)
(* after it, each under its own mutex, so that the reports of several      *)
(* polls interleave between the two.                                       *)
(***************************************************************************)
EXTENDS QuotaManager, FiniteSets

CONSTANTS
    Caches,      \* number of caches
    Poll,        \* polls that can be in flight at a time
    Threshold,   \* cacheRotateThreshold: 15 in the code
    Window       \* cacheErrorWindow: 15 min

ASSUME RotorAssumption ==
    /\ Caches \in Nat \ {0} /\ Threshold \in Nat \ {0} /\ Window \in Nat
    /\ IsFiniteSet(Poll)

VARIABLES
    curCache, errCount, sinceErr, poll, own,   \* the CacheRotor
    told         \* what each poll in flight has told the quota manager

Rotor == INSTANCE CacheRotor WITH cur <- curCache

rotorVars == <<curCache, errCount, sinceErr, poll, own>>
pollVars == <<vars, rotorVars, told>>

PollInit ==
    /\ Init
    /\ Rotor!Init
    /\ told = [g \in Poll |-> "nothing"]

\* exchangeAMP sends the poll through the current cache.
StartPoll(g) ==
    /\ Rotor!Current(g)
    /\ UNCHANGED <<vars, told>>

\* The poll ends with ErrCacheQuota: the manager hears of it ...
QuotaErrorFirst(g) ==
    /\ poll[g] # None /\ told[g] = "nothing"
    /\ RecordQuotaError
    /\ told' = [told EXCEPT ![g] = "error"]
    /\ UNCHANGED rotorVars

\* ... and then the rotor.
QuotaErrorThen(g) ==
    /\ told[g] = "error"
    /\ Rotor!RecordQuotaError(g)
    /\ told' = [told EXCEPT ![g] = "nothing"]
    /\ UNCHANGED vars

\* The response was read to its end: the manager hears of it ...
SuccessFirst(g) ==
    /\ poll[g] # None /\ told[g] = "nothing"
    /\ RecordSuccess
    /\ told' = [told EXCEPT ![g] = "success"]
    /\ UNCHANGED rotorVars

\* ... and then the rotor.
SuccessThen(g) ==
    /\ told[g] = "success"
    /\ Rotor!RecordSuccess(g)
    /\ told' = [told EXCEPT ![g] = "nothing"]
    /\ UNCHANGED vars

\* Another error, or a damaged response: neither is told.
OtherError(g) ==
    /\ told[g] = "nothing"
    /\ Rotor!OtherError(g)
    /\ UNCHANGED <<vars, told>>

\* pollLoop, keepAlive or the status page asks whether slow mode is on.
AskSlowMode ==
    /\ IsSlowMode
    /\ UNCHANGED <<rotorVars, told>>

PollTick ==
    /\ Tick
    /\ Rotor!Tick
    /\ UNCHANGED told

PollEnds(g) ==
    \/ QuotaErrorFirst(g) \/ QuotaErrorThen(g)
    \/ SuccessFirst(g) \/ SuccessThen(g)
    \/ OtherError(g)

PollNext ==
    \/ \E g \in Poll : StartPoll(g) \/ PollEnds(g)
    \/ AskSlowMode
    \/ PollTick

PollSpec == PollInit /\ [][PollNext]_pollVars

-----------------------------------------------------------------------------
(* Properties, beside those of QuotaManager *)

\* The type invariant of the composition.
PollTypeOK ==
    /\ TypeOK
    /\ Rotor!TypeOK
    /\ told \in [Poll -> {"nothing", "error", "success"}]

(***************************************************************************)
(* With several caches the current one is always below the threshold: it   *)
(* never stays current with its quota used up.                             *)
(***************************************************************************)
CurrentBelowThreshold == Rotor!CurrentBelowThreshold

(***************************************************************************)
(* A rotation is mostly earned by the cache that is left: all but          *)
(* Cardinality(Poll) - 1 of the Threshold errors are of polls that went    *)
(* through it.  Late answers to polls through another cache are no more    *)
(* than were in flight with the poll that caused the rotation before.      *)
(***************************************************************************)
RotationMostlyEarned ==
    [][Rotor!Rotation => Rotor!OwnErrors >= Threshold - (Cardinality(Poll) - 1)]_rotorVars
=============================================================================
