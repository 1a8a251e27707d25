----------------------------- MODULE Readiness ------------------------------
(***************************************************************************)
(* The readiness state file and the verdict on it (readiness.py), as       *)
(* operators.  The state keeps what the verdict looks at: when the backend *)
(* was last checked and last reached, the failures since, and whether the  *)
(* last failure is a terminal authentication failure.                      *)
(***************************************************************************)
EXTENDS Integers

CONSTANTS
    StaleAfter,         \* state_stale_after_seconds
    FailureThreshold,   \* failure_threshold
    ClockTolerance      \* READINESS_CLOCK_ANOMALY_TOLERANCE

ASSUME ReadinessAssumption ==
    /\ StaleAfter \in Nat
    /\ FailureThreshold \in Nat \ {0}
    /\ ClockTolerance \in Nat

Never == -1
Moment == Nat \cup {Never}

State ==
    [checked : Moment, success : Moment, failures : 0 .. FailureThreshold, bypass : BOOLEAN]

(* consecutive_failures + 1; the verdict does not tell counts at or above  *)
(* the threshold apart.                                                    *)
CountFailure(n) == IF n < FailureThreshold THEN n + 1 ELSE n

(* No state file.                                                          *)
MissingState == [checked |-> Never, success |-> Never, failures |-> 0, bypass |-> FALSE]

StartingState(now) ==
    [checked |-> now, success |-> Never, failures |-> 0, bypass |-> FALSE]

ReachedState(now) ==
    [checked |-> now, success |-> now, failures |-> 0, bypass |-> FALSE]

FailedStateUncounted(previous, now, terminal) ==
    [checked |-> now, success |-> previous.success, failures |-> previous.failures,
     bypass |-> terminal]

FailedState(previous, now, terminal) ==
    [checked |-> now, success |-> previous.success, failures |-> CountFailure(previous.failures),
     bypass |-> terminal]

(* readiness_verdict of a reader whose clock shows `clock'.                *)
Ready(state, clock) ==
    /\ state # MissingState
    /\ state.checked <= clock + ClockTolerance
    /\ clock - state.checked <= StaleAfter
    /\ ~state.bypass
    /\ state.success # Never
    /\ state.failures < FailureThreshold
=============================================================================
