---------------------------- MODULE RefreshPolicy ----------------------------
(***************************************************************************)
(* The durable refresh journal and the recovery budget it carries.         *)
(*                                                                         *)
(* This is the pure part of auth_session: the attempt ledger that          *)
(* coordinator.py reads and writes with every journal record, the          *)
(* authorisation of a recovery dispatch (state_machine.py), and the        *)
(* validation store.py applies when a journal is read back.                *)
(***************************************************************************)
EXTENDS Naturals

CONSTANTS
  TotalDispatchCap,       \* 6 in state_machine.py
  SafeRetryLimit,         \* 4
  ValidationRetryLimit,   \* 1
  AmbiguityReplayLimit,   \* 1
  RecoveryWindow,         \* 10 minutes
  SafeRetryDelay,         \* 10 seconds
  ValidationRetryDelay,   \* 30 seconds
  AmbiguityReplayDelay    \* 30 seconds

ASSUME PolicyAssumption ==
  /\ TotalDispatchCap \in Nat \ {0}
  /\ SafeRetryLimit \in Nat
  /\ ValidationRetryLimit \in Nat
  /\ AmbiguityReplayLimit \in Nat
  /\ RecoveryWindow \in Nat
  /\ SafeRetryDelay \in Nat
  /\ ValidationRetryDelay \in Nat
  /\ AmbiguityReplayDelay \in Nat

-----------------------------------------------------------------------------
(* The lanes of recovery, how often each may be used, and its cooldown.     *)

Lanes == {"safe_retry", "validation_recovery", "ambiguity_replay"}

LaneLimit == [lane \in Lanes |->
                CASE lane = "safe_retry"          -> SafeRetryLimit
                  [] lane = "validation_recovery" -> ValidationRetryLimit
                  [] lane = "ambiguity_replay"    -> AmbiguityReplayLimit]

LaneDelay == [lane \in Lanes |->
                CASE lane = "safe_retry"          -> SafeRetryDelay
                  [] lane = "validation_recovery" -> ValidationRetryDelay
                  [] lane = "ambiguity_replay"    -> AmbiguityReplayDelay]

\* The clock starts at 1, revisions and process identities too: 0 is Python's
\* None for a timestamp, a revision and an owner.
NoTime     == 0
NoRevision == 0
NoOwner    == 0

(***************************************************************************)
(* RotationAttempt.  "used" holds the three lane counters; stop_reason is  *)
(* left out because the code sets it exactly when it sets the continuation *)
(* to "stop"; rotation_id, attempt_kind and response_class are labels.     *)
(***************************************************************************)
Attempt ==
  [count    : Nat,                            \* dispatch_count
   used     : [Lanes -> Nat],
   deadline : Nat,                            \* recovery_deadline
   cont     : Lanes \cup {"none", "stop"},    \* continuation
   notBefore: Nat,                            \* next_attempt_at
   owner    : Nat,                            \* boot id, pid and start ticks
   cap      : Nat]                            \* total_dispatch_cap

Unused == [lane \in Lanes |-> 0]

Retries(a) ==
  a.used["safe_retry"] + a.used["validation_recovery"] + a.used["ambiguity_replay"]

\* RotationAttempt(source, "normal", 1): what _attempt_for_source falls back to.
UnbudgetedAttempt ==
  [count |-> 1, used |-> Unused, deadline |-> NoTime, cont |-> "none",
   notBefore |-> NoTime, owner |-> NoOwner, cap |-> TotalDispatchCap]

\* The first dispatch of a revision, as _prepare builds it.
NormalAttempt(now) == [UnbudgetedAttempt EXCEPT !.deadline = now + RecoveryWindow]

DeadlinePassed(a, now) == a.deadline = NoTime \/ now >= a.deadline

CoolingDown(a, now) == a.notBefore # NoTime /\ now < a.notBefore

ContinuationAvailable(a, lane) ==
  /\ a.count < a.cap
  /\ a.used[lane] < LaneLimit[lane]

\* _with_continuation: schedule the lane, or stop when its budget or the
\* absolute deadline leaves no room for it.
WithContinuation(a, lane, now) ==
  LET deadline == IF a.deadline = NoTime THEN now + RecoveryWindow ELSE a.deadline
      retryAt  == now + LaneDelay[lane]
      open     == /\ ContinuationAvailable(a, lane)
                  /\ now < deadline
                  /\ retryAt <= deadline
  IN  [a EXCEPT !.deadline  = deadline,
                !.owner     = NoOwner,
                !.cont      = IF open THEN lane ELSE "stop",
                !.notBefore = IF open THEN retryAt ELSE NoTime]

\* _next_recovery_attempt returns an attempt at all.
HasNextAttempt(a, now) ==
  /\ a.cont \in Lanes
  /\ ContinuationAvailable(a, a.cont)
  /\ ~DeadlinePassed(a, now)

\* The attempt it returns: one more dispatch, charged to the scheduled lane.
NextRecoveryAttempt(a) ==
  [a EXCEPT !.count = @ + 1, !.used[a.cont] = @ + 1, !.owner = NoOwner]

\* _recovery_dispatch_is_authorized, the state machine's own check of the attempt.
RecoveryDispatchIsAuthorized(a, now) ==
  /\ ~DeadlinePassed(a, now)
  /\ ~CoolingDown(a, now)
  /\ a.cap = TotalDispatchCap
  /\ a.count <= a.cap
  /\ a.count = 1 + Retries(a)
  /\ a.used[a.cont] \in 1 .. LaneLimit[a.cont]

\* Mutant of OwnedBy: a recovery dispatch starts with unused lanes.
OwnedByWithFreshLanes(a, owner) ==
  [a EXCEPT !.cont = "none", !.notBefore = NoTime, !.owner = owner, !.used = Unused]

\* _prepare_dispatch: the attempt as the dispatching process owns it.
OwnedBy(a, owner) ==
  [a EXCEPT !.cont = "none", !.notBefore = NoTime, !.owner = owner]

WithoutOwner(a) == [a EXCEPT !.owner = NoOwner]

\* _recover_unknown's exhausted attempt: the not-before time is kept.
StoppedAttempt(a) == [a EXCEPT !.cont = "stop", !.owner = NoOwner]

-----------------------------------------------------------------------------
(* The journal file: one record or none, in schema version 3 or, left over  *)
(* from an earlier release, version 2.                                      *)

Terminal == {"ROTATED", "REJECTED", "OUTCOME_UNKNOWN"}

Phases == {"RESERVED", "REQUESTED"} \cup Terminal

Journal ==
  [version : {2, 3},
   state   : Phases \cup {"ABSENT"},
   source  : Nat,                      \* source_revision
   succ    : Nat,                      \* successor_revision
   enqueued: BOOLEAN,                  \* outbox_enqueued
   attempt : Attempt]

NoJournal ==
  [version |-> 3, state |-> "ABSENT", source |-> NoRevision, succ |-> NoRevision,
   enqueued |-> FALSE, attempt |-> UnbudgetedAttempt]

JournalOf(state, source, succ, attempt) ==
  [version |-> 3, state |-> state, source |-> source, succ |-> succ,
   enqueued |-> FALSE, attempt |-> attempt]

\* rotation_event_key: the outcome's idempotency key.
EventKey(j) == <<j.source, j.state>>

\* _rotation_attempt_is_valid
AttemptIsValid(a) ==
  /\ \A lane \in Lanes : a.used[lane] <= LaneLimit[lane]
  /\ a.cap = TotalDispatchCap
  /\ a.count <= a.cap
  /\ a.count \in {Retries(a), 1 + Retries(a)}

\* _attempt_state_error is None
AttemptFitsState(a, state) ==
  /\ a.owner # NoOwner => state \in {"RESERVED", "REQUESTED"}
  /\ a.cont \in Lanes => /\ state = "OUTCOME_UNKNOWN"
                         /\ a.notBefore # NoTime
                         /\ a.deadline # NoTime
                         /\ a.notBefore <= a.deadline
  /\ a.cont = "stop" => /\ state \in {"OUTCOME_UNKNOWN", "REJECTED"}
                        /\ a.notBefore = NoTime
                        /\ a.owner = NoOwner
  /\ a.cont = "none" => a.notBefore = NoTime

\* load_journal gives JournalLoaded rather than JournalCorrupt (or absent).
Readable(j) ==
  /\ j.state # "ABSENT"
  /\ \/ j.version = 2
     \/ /\ AttemptIsValid(j.attempt)
        /\ AttemptFitsState(j.attempt, j.state)
        /\ j.enqueued => j.state \in Terminal

Corrupt(j) == j.state # "ABSENT" /\ ~Readable(j)

\* Mutant of MigratedAttempt: every version 2 journal is migrated as stopped.
MigratedAttemptStopped(state) == [UnbudgetedAttempt EXCEPT !.count = 0, !.cont = "stop"]

\* The attempt _parse_v2_journal gives a version 2 record.
MigratedAttempt(state) ==
  [UnbudgetedAttempt EXCEPT
     !.count = IF state = "REQUESTED" THEN 1 ELSE 0,
     !.cap   = IF state = "REQUESTED" THEN 1 ELSE TotalDispatchCap,
     !.cont  = IF state \in {"REQUESTED", "OUTCOME_UNKNOWN"} THEN "stop" ELSE "none"]

\* The record as it is in memory once read.
Loaded(j) ==
  IF j.version = 3 THEN j
  ELSE [j EXCEPT !.version = 3,
                 !.state   = IF @ = "REQUESTED" THEN "OUTCOME_UNKNOWN" ELSE @,
                 !.attempt = MigratedAttempt(j.state)]
=============================================================================
