----------------------------- MODULE QuotaManager -----------------------------
(***************************************************************************)
(* champa-client/pollingpacketconn.go, QuotaManager: slow mode with        *)
(* exponential back-off, driven by the results of polls, several of which  *)
(* are in flight.  Every method holds the mutex, so each is one action.    *)
(* Times are relative to now: slowLeft is slowUntil - now, negative once   *)
(* slow mode has elapsed, and None for the zero time.                      *)
(***************************************************************************)
EXTENDS Integers

CONSTANTS
    None,            \* the zero time
    ErrThreshold,    \* quotaErrThreshold: 20 in the code
    CoolBetween,     \* quotaCoolBetween: 45 s
    BackoffInit,     \* quotaBackoffInit: 2 min
    BackoffMax,      \* quotaBackoffMax: 20 min
    ExitSuccesses    \* slowModeExitSuccesses: 5

ASSUME QuotaAssumption ==
    /\ ErrThreshold \in Nat \ {0} /\ ExitSuccesses \in Nat \ {0}
    /\ CoolBetween \in Nat /\ BackoffInit \in Nat \ {0} /\ BackoffMax \in Nat
    /\ CoolBetween < BackoffInit /\ BackoffInit <= BackoffMax
    /\ None \notin Int

VARIABLES
    consecErrors, consecSuccesses, backoffDur,
    slowLeft,        \* time until slowUntil, at least -1
    sinceActivate,   \* time since lastActivate, at most CoolBetween
    okPolls,         \* history: polls that succeeded since the last quota error
    activations      \* history: durations of the slow modes since the last early exit

histVars == <<okPolls, activations>>
vars == <<consecErrors, consecSuccesses, backoffDur, slowLeft, sinceActivate, histVars>>

Init ==
    /\ consecErrors = 0 /\ consecSuccesses = 0
    /\ backoffDur = BackoffInit
    /\ slowLeft = None
    /\ sinceActivate = CoolBetween
    /\ okPolls = 0 /\ activations = {}

\* Histories are counted no further than the properties look.
UpTo(n, limit) == IF n < limit THEN n + 1 ELSE n

AtMost(n, limit) == IF n > limit THEN limit ELSE n

Before == slowLeft # None /\ slowLeft > 0      \* time.Now().Before(slowUntil)
Elapsed == slowLeft # None /\ slowLeft < 0     \* time.Now().After(slowUntil)

\* Slow mode is entered for backoffDur, which doubles for the next time.
Activate ==
    /\ consecErrors' = 0
    /\ slowLeft' = backoffDur
    /\ sinceActivate' = 0
    /\ backoffDur' = AtMost(2 * backoffDur, BackoffMax)
    /\ activations' = activations \cup {backoffDur}

\* Mutant of RecordQuotaError: an error does not end a streak of successes.
RecordQuotaErrorKeepsStreak ==
    /\ UNCHANGED consecSuccesses
    /\ IF consecErrors + 1 < ErrThreshold
       THEN /\ consecErrors' = consecErrors + 1
            /\ UNCHANGED <<backoffDur, slowLeft, sinceActivate, activations>>
       ELSE IF sinceActivate < CoolBetween \/ Before
       THEN /\ consecErrors' = 0
            /\ UNCHANGED <<backoffDur, slowLeft, sinceActivate, activations>>
       ELSE Activate
    /\ okPolls' = 0

\* Mutant of RecordQuotaError: slow mode is entered again while it lasts.
RecordQuotaErrorStacks ==
    /\ consecSuccesses' = 0
    /\ IF consecErrors + 1 < ErrThreshold
       THEN /\ consecErrors' = consecErrors + 1
            /\ UNCHANGED <<backoffDur, slowLeft, sinceActivate, activations>>
       ELSE IF sinceActivate < CoolBetween
       THEN /\ consecErrors' = 0
            /\ UNCHANGED <<backoffDur, slowLeft, sinceActivate, activations>>
       ELSE Activate
    /\ okPolls' = 0

RecordQuotaError ==
    /\ consecSuccesses' = 0
    /\ IF consecErrors + 1 < ErrThreshold
       THEN /\ consecErrors' = consecErrors + 1
            /\ UNCHANGED <<backoffDur, slowLeft, sinceActivate, activations>>
       ELSE IF sinceActivate < CoolBetween \/ Before
       THEN /\ consecErrors' = 0
            /\ UNCHANGED <<backoffDur, slowLeft, sinceActivate, activations>>
       ELSE Activate
    /\ okPolls' = 0

\* Mutant of RecordSuccess: leaving early does not reset the back-off.
RecordSuccessKeepsBackoff ==
    /\ consecErrors' = 0
    /\ IF slowLeft = None \/ Elapsed
       THEN UNCHANGED <<consecSuccesses, slowLeft, backoffDur, activations>>
       ELSE IF consecSuccesses + 1 < ExitSuccesses
       THEN /\ consecSuccesses' = consecSuccesses + 1
            /\ UNCHANGED <<slowLeft, backoffDur, activations>>
       ELSE /\ consecSuccesses' = 0
            /\ slowLeft' = None
            /\ activations' = {}
            /\ UNCHANGED backoffDur
    /\ okPolls' = UpTo(okPolls, ExitSuccesses)
    /\ UNCHANGED sinceActivate

RecordSuccess ==
    /\ consecErrors' = 0
    /\ IF slowLeft = None \/ Elapsed
       THEN UNCHANGED <<consecSuccesses, slowLeft, backoffDur, activations>>
       ELSE IF consecSuccesses + 1 < ExitSuccesses
       THEN /\ consecSuccesses' = consecSuccesses + 1
            /\ UNCHANGED <<slowLeft, backoffDur, activations>>
       ELSE /\ consecSuccesses' = 0
            /\ slowLeft' = None
            /\ backoffDur' = BackoffInit
            /\ activations' = {}
    /\ okPolls' = UpTo(okPolls, ExitSuccesses)
    /\ UNCHANGED sinceActivate

\* IsSlowMode also clears a slow mode that has elapsed.
IsSlowMode ==
    /\ Elapsed
    /\ slowLeft' = None
    /\ consecSuccesses' = 0
    /\ UNCHANGED <<consecErrors, backoffDur, sinceActivate, histVars>>

Tick ==
    /\ slowLeft' = IF slowLeft = None \/ Elapsed THEN slowLeft ELSE slowLeft - 1
    /\ sinceActivate' = UpTo(sinceActivate, CoolBetween)
    /\ UNCHANGED <<consecErrors, consecSuccesses, backoffDur, histVars>>

Next == RecordQuotaError \/ RecordSuccess \/ IsSlowMode \/ Tick

Spec == Init /\ [][Next]_vars

-----------------------------------------------------------------------------
(* Properties *)

\* Slow mode is on: what IsSlowMode answers.
SlowMode == slowLeft # None /\ ~Elapsed

\* Types: the counters stay below the values at which they are reset.
TypeOK ==
    /\ consecErrors \in 0 .. ErrThreshold - 1
    /\ consecSuccesses \in 0 .. ExitSuccesses - 1
    /\ backoffDur \in BackoffInit .. BackoffMax
    /\ slowLeft \in -1 .. BackoffMax \cup {None}
    /\ sinceActivate \in 0 .. CoolBetween
    /\ okPolls \in 0 .. ExitSuccesses
    /\ activations \subseteq BackoffInit .. BackoffMax

\* Slow mode is cut short: it was on with time left, and is off.
EarlyExit == SlowMode /\ slowLeft' = None

(***************************************************************************)
(* Slow mode is cut short only by ExitSuccesses successes with no quota    *)
(* error among them: successes of an earlier slow mode do not count.       *)
(***************************************************************************)
EarlyExitEarned == [][EarlyExit => okPolls' = ExitSuccesses]_vars

(***************************************************************************)
(* The back-off doubles: since the last early exit each slow mode was      *)
(* twice as long as the one before, up to BackoffMax, and the next is      *)
(* longer than all of them unless the maximum is reached.                  *)
(***************************************************************************)
BackoffDoubles ==
    /\ activations = {} => backoffDur = BackoffInit
    /\ \A d \in activations :
          AtMost(2 * d, BackoffMax) \in activations \cup {backoffDur} /\ d <= backoffDur

(***************************************************************************)
(* "do not stack timers": errors during slow mode do not prolong it.       *)
(***************************************************************************)
SlowModeNotProlonged ==
    [][SlowMode /\ slowLeft > 0 => slowLeft' = None \/ slowLeft' <= slowLeft]_vars
=============================================================================
