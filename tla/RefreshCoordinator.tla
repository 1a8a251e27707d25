------------------------- MODULE RefreshCoordinator -------------------------
(***************************************************************************)
(* Cookie rotation: service processes that run the auto-refresh loop       *)
(* (auto_refresh.py) over the RefreshCoordinator (coordinator.py) and the  *)
(* files it shares with "auth import" (store.py, atomic_json.py).          *)
(*                                                                         *)
(* A step is one durable write, one exclusive entry into the file lock     *)
(* with the reads made there, or one event of the network or the clock.    *)
(* Between two steps a process may be killed; each durable write may fail  *)
(* before or after it becomes visible.                                     *)
(***************************************************************************)
EXTENDS AuthProjection

CONSTANTS
  Service,       \* slots in which an "enji-guard run" process may run
  InitialKinds,  \* the credential the first process may find on disk
  ImportKinds,   \* the credential types imported
  Legacy,        \* whether a version 2 journal is found on disk
  FaultKinds,    \* the storage faults considered, a subset of AllFaults
  MaxRevision,   \* bound on the credential revisions ever created
  MaxTime,       \* bound on the clock
  MaxStarts,     \* bound on process starts
  MaxCrashes,    \* bound on kills
  MaxFaults      \* bound on storage faults

(***************************************************************************)
(* "unseen": OSError before the rename or unlink; "visible": OSError after *)
(* it (directory fsync); "group": write and clean-up both fail, which      *)
(* raises an ExceptionGroup; "unread": a read that fails.                  *)
(***************************************************************************)
AllFaults == {"unseen", "visible", "group", "unread"}

ASSUME BoundsAssumption ==
  /\ InitialKinds \subseteq {"absent", "cookie", "bearer"}
  /\ ImportKinds \subseteq {"cookie", "bearer"}
  /\ Legacy \in BOOLEAN
  /\ FaultKinds \subseteq AllFaults
  /\ MaxRevision \in Nat
  /\ MaxTime \in Nat
  /\ MaxStarts \in Nat
  /\ MaxCrashes \in Nat
  /\ MaxFaults \in Nat

VARIABLES
  \* the files
  auth,          \* credential file: its revision and credential type
  journal,       \* refresh journal
  outbox,        \* event keys of the outcome outbox
  \* a service process
  pc,            \* where it is
  call,          \* the coordinator call in progress
  rev,           \* the scheduled, dispatched or parked-on revision
  hand,          \* the journal record the call has in memory
  todo,          \* records left in this outbox pass
  sent,          \* record accepted by the sink, not yet acknowledged
  retained,      \* successor kept in memory after a storage failure
  life,          \* process identity (boot id, pid, start ticks)
  got,           \* the successor it received last; read by properties only
  \* the importing command
  cli,
  \* clock, uuid source and bounded counters
  now, nextRevision, starts, crashes, faults,
  \* history, read by properties only
  posts,         \* refresh POSTs of the revision now in the credential file
  spent,         \* revisions whose rotation has been journaled
  owed           \* outcomes journaled and not accepted by the sink since

disk    == <<auth, journal, outbox>>
process == <<pc, call, rev, hand, todo, sent, retained, life, got>>
counter == <<now, nextRevision, starts, crashes, faults>>
history == <<posts, spent, owed>>
vars    == <<disk, process, cli, counter, history>>

-----------------------------------------------------------------------------
Keys == Nat \X Terminal

NoKey == <<NoRevision, "ROTATED">>

Credential == [revision : Nat, kind : {"absent", "cookie", "bearer"}]

Successor == [source : Nat, succ : Nat]

Nothing == [source |-> NoRevision, succ |-> NoRevision]

Calls == {"none", "startup", "prepare", "success", "rejected", "unknown",
          "transport", "cancel", "project"}

\* Control points inside "with auth_file_lock".
InLock == {"write", "replace", "discard", "forget", "enqueue", "mark", "drain",
           "ack", "finish", "recover", "authorize", "reserve", "request", "stop"}

ControlPoints == InLock \cup
  {"down", "startup", "idle", "due", "dispatch", "exchange", "commit", "parked"}

\* A version 2 journal an earlier release may have left for revision 1, which
\* is still current or has been replaced by revision 2 since.
LegacyJournal(st, enq) ==
  [NoJournal EXCEPT !.version = 2, !.state = st, !.source = 1,
                    !.succ = IF st = "ROTATED" THEN 2 ELSE NoRevision, !.enqueued = enq]

LegacyJournals ==
  {LegacyJournal(st, FALSE) : st \in Phases} \cup {LegacyJournal(st, TRUE) : st \in Terminal}

Init ==
  /\ auth \in {[revision |-> IF k = "absent" THEN NoRevision ELSE r, kind |-> k] :
                 k \in InitialKinds, r \in IF Legacy THEN {1, 2} ELSE {1}}
  /\ journal \in {NoJournal} \cup IF Legacy THEN LegacyJournals ELSE {}
  /\ outbox = {}
  /\ pc = [p \in Service |-> "down"]
  /\ call = [p \in Service |-> "none"]
  /\ rev = [p \in Service |-> NoRevision]
  /\ hand = [p \in Service |-> NoJournal]
  /\ todo = [p \in Service |-> {}]
  /\ sent = [p \in Service |-> NoKey]
  /\ retained = [p \in Service |-> Nothing]
  /\ life = [p \in Service |-> NoOwner]
  /\ cli = "idle"
  /\ now = 1
  /\ nextRevision = 3
  /\ starts = 0
  /\ crashes = 0
  /\ faults = 0
  /\ posts = 0
  /\ got = [p \in Service |-> Nothing]
  /\ spent = IF journal.state = "ROTATED" THEN {journal.source} ELSE {}
  /\ owed = IF journal.state \in Terminal /\ ~journal.enqueued THEN {EventKey(journal)} ELSE {}

-----------------------------------------------------------------------------
(* Locking, process life and storage outcomes.                              *)

\* flock is exclusive, and the kernel drops it when its holder dies.
LockFree == cli = "idle" /\ \A q \in Service : pc[q] \notin InLock

\* _owner_is_alive
Alive(owner) == owner # NoOwner /\ \E q \in Service : life[q] = owner

\* Leave the lock, or the process, and forget what the call had in memory.
Return(p, l, kept) ==
  /\ pc' = [pc EXCEPT ![p] = l]
  /\ call' = [call EXCEPT ![p] = "none"]
  /\ rev' = [rev EXCEPT ![p] = IF l \in {"dispatch", "parked"}
                               THEN hand[p].source ELSE NoRevision]
  /\ hand' = [hand EXCEPT ![p] = NoJournal]
  /\ todo' = [todo EXCEPT ![p] = {}]
  /\ sent' = [sent EXCEPT ![p] = NoKey]
  /\ retained' = [retained EXCEPT ![p] = kept]
  /\ life' = [life EXCEPT ![p] = IF l = "down" THEN NoOwner ELSE @]
  /\ got' = [got EXCEPT ![p] = IF l = "down" THEN Nothing ELSE @]

Exit(p) == Return(p, "down", Nothing)

\* Go on inside the call with record j in memory; a drain starts from the
\* outbox as it is on disk.
Goto(p, l, j) ==
  /\ pc' = [pc EXCEPT ![p] = l]
  /\ hand' = [hand EXCEPT ![p] = j]
  /\ todo' = [todo EXCEPT ![p] = IF l = "drain" THEN outbox' ELSE {}]
  /\ UNCHANGED <<call, rev, sent, retained, life, got>>

\* What the loop makes of an OSError raised by the call in progress.
AfterOSError(c) ==
  CASE c \in {"prepare", "success", "project"}  -> "idle"
    [] c \in {"rejected", "unknown"}            -> "parked"
    [] OTHER                                    -> "down"

\* Mutants of Raise: the successor is not retained; a failed projection drops it.
RaiseWithoutRetaining(p) == Return(p, AfterOSError(call[p]), retained[p])

RaiseDroppingRetained(p) ==
  Return(p, AfterOSError(call[p]),
         IF call[p] = "success"
         THEN [source |-> hand[p].source, succ |-> hand[p].succ]
         ELSE Nothing)

Raise(p) ==
  Return(p, AfterOSError(call[p]),
         IF call[p] = "success"
         THEN [source |-> hand[p].source, succ |-> hand[p].succ]
         ELSE retained[p])

MayFail(kind) == kind \in FaultKinds /\ faults < MaxFaults

WriteOutcomes == {"done"} \cup {k \in {"unseen", "visible", "group"} : MayFail(k)}

UnlinkOutcomes == WriteOutcomes \ {"group"}

Visible(o) == o \in {"done", "visible"}

\* End a durable write with outcome o; Ok is what follows when it succeeds.
Ends(p, o, Ok) ==
  \/ o = "done" /\ Ok /\ UNCHANGED faults
  \/ o \in {"unseen", "visible"} /\ Raise(p) /\ faults' = faults + 1
  \/ o = "group" /\ Exit(p) /\ faults' = faults + 1

-----------------------------------------------------------------------------
(* Durable writes made inside the lock.                                     *)

\* write_journal of the record in memory.
WriteJournal(p, Ok) ==
  \E o \in WriteOutcomes :
    /\ journal' = IF Visible(o) THEN hand[p] ELSE journal
    /\ spent' = IF Visible(o) /\ hand[p].state = "ROTATED"
                THEN spent \cup {hand[p].source} ELSE spent
    /\ owed' = IF Visible(o) /\ pc[p] = "write"
               THEN owed \cup {EventKey(hand[p])} ELSE owed
    /\ UNCHANGED <<auth, outbox, cli, now, nextRevision, starts, crashes, posts>>
    /\ Ends(p, o, Ok)

\* A terminal state: ROTATED is then projected, the others recorded.
WriteOutcome(p) ==
  /\ pc[p] = "write"
  /\ WriteJournal(p, Goto(p, IF hand[p].state = "ROTATED" THEN "replace" ELSE "enqueue",
                          hand[p]))

\* cas_replace_cookie; an unreadable credential counts as superseded.
Replace(p) ==
  /\ pc[p] = "replace"
  /\ \/ /\ auth.revision = hand[p].source
        /\ auth.kind = "cookie"
        /\ \E o \in WriteOutcomes :
             /\ auth' = IF Visible(o) THEN [revision |-> hand[p].succ, kind |-> "cookie"]
                        ELSE auth
             /\ posts' = IF Visible(o) THEN 0 ELSE posts
             /\ UNCHANGED <<journal, outbox>>
             /\ Ends(p, o, Goto(p, IF hand[p].enqueued THEN "drain" ELSE "enqueue", hand[p]))
     \/ /\ MayFail("unread")
        /\ faults' = faults + 1
        /\ Return(p, "idle", Nothing)
        /\ UNCHANGED <<disk, posts>>
  /\ UNCHANGED <<cli, now, nextRevision, starts, crashes, spent, owed>>

\* enqueue_outcome: a record already there is not written again.
EnqueueOutcome(p) ==
  /\ pc[p] \in {"enqueue", "discard"}
  /\ \E o \in IF EventKey(hand[p]) \in outbox THEN {"done"} ELSE WriteOutcomes :
       /\ outbox' = IF Visible(o) THEN outbox \cup {EventKey(hand[p])} ELSE outbox
       /\ UNCHANGED <<auth, journal, cli, now, nextRevision, starts, crashes, history>>
       /\ Ends(p, o, IF pc[p] = "discard" THEN Goto(p, "forget", hand[p])
                     ELSE Goto(p, "mark", [hand[p] EXCEPT !.enqueued = TRUE]))

\* _record_terminal_outcome's second write: the journal says "enqueued".
MarkEnqueued(p) ==
  /\ pc[p] = "mark"
  /\ WriteJournal(p, Goto(p, "drain", hand[p]))

\* delete_journal of a reservation or of superseded state.
ForgetJournal(p) ==
  /\ pc[p] = "forget"
  /\ \E o \in UnlinkOutcomes :
       /\ journal' = IF Visible(o) THEN NoJournal ELSE journal
       /\ UNCHANGED <<auth, outbox, cli, now, nextRevision, starts, crashes, history>>
       /\ Ends(p, o, IF call[p] = "prepare" THEN Goto(p, "drain", NoJournal)
                     ELSE Return(p, "idle", Nothing))

\* The record a pass of _drain_outbox hands to the sink next, in a fixed order
\* that no property looks at.
NextRecord(p) == CHOOSE k \in todo[p] : TRUE

DeliverRefused(p) ==
  /\ pc[p] = "drain" /\ todo[p] # {}
  /\ todo' = [todo EXCEPT ![p] = @ \ {NextRecord(p)}]
  /\ UNCHANGED <<disk, pc, call, rev, hand, sent, retained, life, got, cli, counter, history>>

\* The loop projects a retained successor with a coordinator that has no sink.
DeliverAccepted(p) ==
  /\ pc[p] = "drain" /\ todo[p] # {}
  /\ call[p] # "project"
  /\ pc' = [pc EXCEPT ![p] = "ack"]
  /\ todo' = [todo EXCEPT ![p] = @ \ {NextRecord(p)}]
  /\ sent' = [sent EXCEPT ![p] = NextRecord(p)]
  /\ owed' = owed \ {NextRecord(p)}
  /\ UNCHANGED <<disk, call, rev, hand, retained, life, got, cli, counter, posts, spent>>

\* The pass goes on with the next record.
Acknowledged(p) ==
  /\ pc' = [pc EXCEPT ![p] = "drain"]
  /\ sent' = [sent EXCEPT ![p] = NoKey]
  /\ UNCHANGED <<call, rev, hand, todo, retained, life, got>>

\* acknowledge_outcome: a rewrite, or an unlink of the last record.
Acknowledge(p) ==
  /\ pc[p] = "ack"
  /\ \E o \in IF outbox = {sent[p]} THEN UnlinkOutcomes ELSE WriteOutcomes :
       /\ outbox' = IF Visible(o) THEN outbox \ {sent[p]} ELSE outbox
       /\ UNCHANGED <<auth, journal, cli, now, nextRevision, starts, crashes, history>>
       /\ Ends(p, o, Acknowledged(p))

\* Mutant of Recorded: a scheduled recovery is treated like a rejection.
RecordedAsTerminal(p) ==
  CASE call[p] = "cancel" -> Exit(p)
    [] call[p] # "cancel" /\ hand[p].state = "ROTATED" -> Return(p, "idle", Nothing)
    [] OTHER -> Return(p, "parked", Nothing)

\* Where the call goes once its terminal outcome is recorded.
Recorded(p) ==
  CASE call[p] = "cancel" -> Exit(p)
    [] call[p] = "prepare" /\ hand[p].state = "OUTCOME_UNKNOWN" ->
         Goto(p, "recover", hand[p])
    [] \/ call[p] \in {"prepare", "rejected"} /\ hand[p].state = "REJECTED"
       \/ call[p] \in {"unknown", "transport"} /\ hand[p].attempt.cont = "stop" ->
         Return(p, "parked", Nothing)
    [] OTHER -> Return(p, "idle", Nothing)

\* Mutant of EndRecord: the ROTATED journal is never deleted.
EndRecordKeepingJournal(p) ==
  /\ pc[p] = "drain"
  /\ todo[p] = {}
  /\ hand[p].state \in Terminal
  /\ UNCHANGED <<disk, cli, counter, history>>
  /\ Recorded(p)

\* The pass is over: only a delivered ROTATED journal is deleted.
EndRecord(p) ==
  /\ pc[p] = "drain"
  /\ todo[p] = {}
  /\ hand[p].state \in Terminal
  /\ UNCHANGED <<disk, cli, counter, history>>
  /\ IF hand[p].state = "ROTATED" /\ EventKey(hand[p]) \notin outbox
     THEN Goto(p, "finish", hand[p])
     ELSE Recorded(p)

DeleteRotated(p) ==
  /\ pc[p] = "finish"
  /\ \E o \in UnlinkOutcomes :
       /\ journal' = IF Visible(o) THEN NoJournal ELSE journal
       /\ UNCHANGED <<auth, outbox, cli, now, nextRevision, starts, crashes, history>>
       /\ Ends(p, o, Recorded(p))

-----------------------------------------------------------------------------
(* Reconciliation of what is found in the journal, shared by startup and    *)
(* the preparation of a refresh.                                            *)

RecordFrom(j) == IF j.enqueued THEN "drain" ELSE "enqueue"

AttemptForSource(source) ==
  LET j == Loaded(journal)
  IN  IF Readable(journal) /\ j.source = source THEN j.attempt ELSE UnbudgetedAttempt

\* Mutants of RecoveryPoint: a journaled rotation, or an unknown outcome, of the
\* current revision is dropped like a reservation.
RecoveryPointDroppingRotated(j) ==
  IF j.state = "ROTATED" /\ j.succ = auth.revision THEN RecordFrom(j)
  ELSE IF j.state \in {"RESERVED", "ROTATED"} \/ j.source # auth.revision THEN "forget"
  ELSE IF j.state = "REQUESTED" THEN "write" ELSE RecordFrom(j)

RecoveryPointDroppingUnknown(j) ==
  IF j.state = "ROTATED" /\ j.succ = auth.revision THEN RecordFrom(j)
  ELSE IF j.source # auth.revision \/ j.state \in {"RESERVED", "OUTCOME_UNKNOWN"} THEN "forget"
  ELSE CASE j.state = "ROTATED"   -> "replace"
         [] j.state = "REQUESTED" -> "write"
         [] OTHER                 -> RecordFrom(j)

\* Where the reconciliation of record j begins: a projected rotation is
\* recorded, another revision's record discarded, the rest taken up by state.
RecoveryPoint(j) ==
  IF j.state = "ROTATED" /\ j.succ = auth.revision THEN RecordFrom(j)
  ELSE IF j.source # auth.revision
  THEN IF j.state \in Terminal /\ ~j.enqueued THEN "discard" ELSE "forget"
  ELSE CASE j.state = "ROTATED"   -> "replace"
         [] j.state = "RESERVED"  -> "forget"
         [] j.state = "REQUESTED" -> "write"
         [] OTHER                 -> RecordFrom(j)

\* The dispatch of a process that is gone becomes an unknown outcome.
RecoveryRecord(j) ==
  IF j.state = "REQUESTED" /\ j.source = auth.revision
  THEN JournalOf("OUTCOME_UNKNOWN", j.source, NoRevision,
                 WithContinuation(j.attempt, "ambiguity_replay", now))
  ELSE j

\* Mutants of RequestInFlight: the owner is not looked at, or never found dead.
NothingInFlight(j) == FALSE

AlwaysInFlight(j) == j.state = "REQUESTED" /\ j.source = auth.revision

RequestInFlight(j) ==
  /\ j.state = "REQUESTED"
  /\ j.source = auth.revision
  /\ Alive(j.attempt.owner)

Reconcile(p, j) == Goto(p, RecoveryPoint(j), RecoveryRecord(j))

\* The supervisor (or the container runtime) starts a service process.
Start(p) ==
  /\ pc[p] = "down"
  /\ starts < MaxStarts
  /\ starts' = starts + 1
  /\ life' = [life EXCEPT ![p] = starts + 1]
  /\ pc' = [pc EXCEPT ![p] = "startup"]
  /\ call' = [call EXCEPT ![p] = "startup"]
  /\ UNCHANGED <<disk, rev, hand, todo, sent, retained, got, cli, now, nextRevision,
                 crashes, faults, history>>

\* _recover_startup takes the lock and drains the outbox first.
RecoverStartup(p) ==
  /\ pc[p] = "startup"
  /\ LockFree
  /\ UNCHANGED <<disk, cli, counter, history>>
  /\ IF auth.kind = "absent" THEN Return(p, "idle", Nothing)
                             ELSE Goto(p, "drain", NoJournal)

\* _recover_startup_journal: an unreadable journal is passed over.
RecoverStartupJournal(p) ==
  /\ pc[p] = "drain" /\ todo[p] = {}
  /\ call[p] = "startup" /\ hand[p] = NoJournal
  /\ UNCHANGED <<disk, cli, counter, history>>
  /\ IF ~Readable(journal) \/ RequestInFlight(Loaded(journal))
     THEN Return(p, "idle", Nothing)
     ELSE Reconcile(p, Loaded(journal))

\* _scheduled_cookie_auth: the refresh time of the current credential came.
Schedule(p) ==
  /\ pc[p] = "idle"
  /\ retained[p] = Nothing
  /\ auth.kind = "cookie"
  /\ pc' = [pc EXCEPT ![p] = "due"]
  /\ call' = [call EXCEPT ![p] = "prepare"]
  /\ rev' = [rev EXCEPT ![p] = auth.revision]
  /\ UNCHANGED <<disk, hand, todo, sent, retained, life, got, cli, counter, history>>

\* _prepare up to the end of _recover_or_wait.  An EnjiHttpError raised here
\* (credential no longer a cookie, corrupt journal) is not caught by the loop.
Prepare(p) ==
  /\ pc[p] = "due"
  /\ LockFree
  /\ UNCHANGED <<disk, cli, counter, history>>
  /\ LET j == Loaded(journal)
     IN  CASE auth.kind # "cookie" \/ Corrupt(journal) -> Exit(p)
           [] auth.kind = "cookie" /\ journal.state = "ABSENT" -> Goto(p, "drain", NoJournal)
           [] auth.kind = "cookie" /\ Readable(journal) ->
                IF RequestInFlight(j)
                THEN /\ pc' = [pc EXCEPT ![p] = "parked"]
                     /\ call' = [call EXCEPT ![p] = "none"]
                     /\ rev' = [rev EXCEPT ![p] = j.source]
                     /\ UNCHANGED <<hand, todo, sent, retained, life, got>>
                ELSE Reconcile(p, j)

\* The rest of _prepare: nothing to recover, so dispatch the expected revision.
BeginDispatch(p) ==
  /\ pc[p] = "drain" /\ todo[p] = {}
  /\ call[p] = "prepare" /\ hand[p] = NoJournal
  /\ UNCHANGED <<disk, cli, counter, history>>
  /\ IF auth.revision # rev[p]
     THEN Return(p, "idle", Nothing)
     ELSE Goto(p, "reserve", JournalOf("RESERVED", auth.revision, NoRevision,
                                       OwnedBy(NormalAttempt(now), life[p])))

\* _recover_unknown: stop, wait for the cooldown, or go on to a dispatch.
RecoverUnknown(p) ==
  /\ pc[p] = "recover"
  /\ UNCHANGED <<disk, cli, counter, history>>
  /\ LET a == hand[p].attempt
     IN  CASE ~HasNextAttempt(a, now) ->
                Goto(p, "stop", [hand[p] EXCEPT !.enqueued = FALSE,
                                                !.attempt  = StoppedAttempt(a)])
           [] HasNextAttempt(a, now) /\ CoolingDown(a, now) -> Return(p, "idle", Nothing)
           [] HasNextAttempt(a, now) /\ ~CoolingDown(a, now) ->
                Goto(p, "authorize", [hand[p] EXCEPT !.attempt = NextRecoveryAttempt(a)])

\* The state machine's own check, which reads the clock again.
AuthorizeRecoveryDispatch(p) ==
  /\ pc[p] = "authorize"
  /\ UNCHANGED <<disk, cli, counter, history>>
  /\ IF RecoveryDispatchIsAuthorized(hand[p].attempt, now)
     THEN Goto(p, "reserve", JournalOf("RESERVED", hand[p].source, NoRevision,
                                       OwnedBy(hand[p].attempt, life[p])))
     ELSE Exit(p)

StopRecovery(p) ==
  /\ pc[p] = "stop"
  /\ WriteJournal(p, Return(p, "parked", Nothing))

Reserve(p) ==
  /\ pc[p] = "reserve"
  /\ WriteJournal(p, Goto(p, "request", [hand[p] EXCEPT !.state = "REQUESTED"]))

\* Mutant of Request: the POST goes out on the reservation alone.
RequestUnjournaled(p) ==
  /\ pc[p] = "request"
  /\ Return(p, "dispatch", Nothing)
  /\ UNCHANGED <<disk, cli, counter, history>>

Request(p) ==
  /\ pc[p] = "request"
  /\ WriteJournal(p, Return(p, "dispatch", Nothing))

-----------------------------------------------------------------------------
(* The exchange and its commit.                                             *)

\* exchange_once sends the one POST of this dispatch.
Post(p) ==
  /\ pc[p] = "dispatch"
  /\ pc' = [pc EXCEPT ![p] = "exchange"]
  /\ posts' = IF auth.revision = rev[p] THEN posts + 1 ELSE posts
  /\ UNCHANGED <<disk, call, rev, hand, todo, sent, retained, life, got, cli, counter,
                 spent, owed>>

Answered(p, c, j) ==
  /\ pc' = [pc EXCEPT ![p] = "commit"]
  /\ call' = [call EXCEPT ![p] = c]
  /\ hand' = [hand EXCEPT ![p] = j]
  /\ UNCHANGED <<disk, rev, todo, sent, retained, life, cli, now, starts, crashes,
                 faults, posts, spent, owed>>

\* A complete successor: 200 with both cookies.
ExchangeSucceeded(p) ==
  /\ pc[p] = "exchange"
  /\ nextRevision <= MaxRevision
  /\ Answered(p, "success", JournalOf("ROTATED", rev[p], nextRevision, UnbudgetedAttempt))
  /\ nextRevision' = nextRevision + 1
  /\ got' = [got EXCEPT ![p] = [source |-> rev[p], succ |-> nextRevision]]

ExchangeRejected(p) ==
  /\ pc[p] = "exchange"
  /\ Answered(p, "rejected", JournalOf("REJECTED", rev[p], NoRevision, UnbudgetedAttempt))
  /\ UNCHANGED <<nextRevision, got>>

\* Any other answer selects a lane; a transport failure and a cancellation
\* (the service is shutting down) select the ambiguity lane.
ExchangeOutcomeUnknown(p) ==
  /\ pc[p] = "exchange"
  /\ \E c \in {"unknown", "transport", "cancel"}, lane \in Lanes :
       /\ c # "unknown" => lane = "ambiguity_replay"
       /\ Answered(p, c, JournalOf("OUTCOME_UNKNOWN", rev[p], NoRevision,
                                   [UnbudgetedAttempt EXCEPT !.cont = lane]))
  /\ UNCHANGED <<nextRevision, got>>

\* The commit takes the lock; work on a superseded revision is dropped.
CommitSuperseded(p) ==
  Return(p, IF call[p] = "cancel" THEN "down" ELSE "idle", Nothing)

\* Mutant of CommitWith: the credential is replaced before the journal is written.
CommitUnjournaled(p, a) ==
  Goto(p, IF hand[p].state = "ROTATED" THEN "replace" ELSE "write",
       [hand[p] EXCEPT !.attempt = IF hand[p].state = "OUTCOME_UNKNOWN"
                                   THEN WithContinuation(a, hand[p].attempt.cont, now)
                                   ELSE WithoutOwner(a)])

CommitWith(p, a) ==
  Goto(p, "write",
       [hand[p] EXCEPT !.attempt = IF hand[p].state = "OUTCOME_UNKNOWN"
                                   THEN WithContinuation(a, hand[p].attempt.cont, now)
                                   ELSE WithoutOwner(a)])

Commit(p) ==
  /\ pc[p] = "commit"
  /\ LockFree
  /\ IF auth.revision = rev[p] THEN CommitWith(p, AttemptForSource(rev[p]))
                               ELSE CommitSuperseded(p)
  /\ UNCHANGED <<disk, cli, counter, history>>

\* One of the two reads of a commit fails: an unreadable credential counts as
\* superseded, an unreadable journal as one without a budget.
CommitUnread(p) ==
  /\ pc[p] = "commit"
  /\ LockFree
  /\ MayFail("unread")
  /\ faults' = faults + 1
  /\ \/ CommitSuperseded(p)
     \/ auth.revision = rev[p] /\ CommitWith(p, UnbudgetedAttempt)
  /\ UNCHANGED <<disk, cli, now, nextRevision, starts, crashes, history>>

\* project_retained_successor, which the loop runs before anything else.
ProjectRetained(p) ==
  /\ pc[p] = "idle"
  /\ retained[p] # Nothing
  /\ LockFree
  /\ LET r == retained[p]
         j == JournalOf("ROTATED", r.source, r.succ, WithoutOwner(AttemptForSource(r.source)))
     IN  IF auth.revision \in {r.source, r.succ}
         THEN /\ pc' = [pc EXCEPT ![p] = IF auth.revision = r.succ THEN "enqueue" ELSE "write"]
              /\ call' = [call EXCEPT ![p] = "project"]
              /\ hand' = [hand EXCEPT ![p] = j]
              /\ UNCHANGED <<rev, todo, sent, retained, life, got>>
         ELSE Return(p, "idle", Nothing)
  /\ UNCHANGED <<disk, cli, counter, history>>

\* The credential cannot be read: the retained successor is called superseded.
ProjectUnread(p) ==
  /\ pc[p] = "idle"
  /\ retained[p] # Nothing
  /\ LockFree
  /\ MayFail("unread")
  /\ faults' = faults + 1
  /\ Return(p, "idle", Nothing)
  /\ UNCHANGED <<disk, cli, now, nextRevision, starts, crashes, history>>

\* Another read fails.  Startup passes over a credential or a journal it cannot
\* read; a preparation, and a pass over the outbox, raise an EnjiHttpError that the
\* loop does not catch; enqueue_outcome and acknowledge_outcome raise an OSError; to
\* a parked loop a credential that cannot be read is another revision.
ReadFails(p) ==
  /\ MayFail("unread")
  /\ faults' = faults + 1
  /\ \/ pc[p] = "startup" /\ LockFree /\ Return(p, "idle", Nothing)
     \/ /\ pc[p] = "drain" /\ todo[p] = {} /\ call[p] = "startup" /\ hand[p] = NoJournal
        /\ Return(p, "idle", Nothing)
     \/ pc[p] = "due" /\ LockFree /\ Exit(p)
     \/ pc[p] = "drain" /\ Exit(p)
     \/ pc[p] \in {"enqueue", "discard", "ack"} /\ Raise(p)
     \/ pc[p] = "parked" /\ Return(p, "idle", Nothing)
  /\ UNCHANGED <<disk, cli, now, nextRevision, starts, crashes, history>>

\* auth_file_lock itself raises.
LockFails(p) ==
  /\ pc[p] \in {"startup", "due", "commit"}
  /\ MayFail("unseen")
  /\ faults' = faults + 1
  /\ Raise(p)
  /\ UNCHANGED <<disk, cli, now, nextRevision, starts, crashes, history>>

\* _wait_until_revision_changes
Unpark(p) ==
  /\ pc[p] = "parked"
  /\ auth.revision # rev[p]
  /\ Return(p, "idle", Nothing)
  /\ UNCHANGED <<disk, cli, counter, history>>

Crash(p) ==
  /\ pc[p] # "down"
  /\ crashes < MaxCrashes
  /\ crashes' = crashes + 1
  /\ Exit(p)
  /\ UNCHANGED <<disk, cli, now, nextRevision, starts, faults, history>>

-----------------------------------------------------------------------------
(* import_credential, run by the import commands.  A failed write ends the  *)
(* command with what is already on disk.                                    *)

\* Mutants of UnrecordedOutcome: any journal counts, or none.
AnyUnrecorded(j) == Readable(j) /\ ~j.enqueued

NoneUnrecorded(j) == FALSE

UnrecordedOutcome(j) ==
  Readable(j) /\ Loaded(j).state \in Terminal /\ ~j.enqueued

CliEnds(o, next) ==
  \/ o = "done" /\ cli' = next /\ UNCHANGED faults
  \/ o # "done" /\ cli' = "idle" /\ faults' = faults + 1

\* Mutants of ImportCredential: the revision is derived from the content, so that
\* importing old content again brings its revision back; or it is kept.
ImportRevision(r) ==
  /\ LockFree
  /\ \E kind \in ImportKinds : auth' = [revision |-> r, kind |-> kind]
  /\ posts' = 0
  /\ cli' = IF UnrecordedOutcome(journal) THEN "enqueue" ELSE "forget"
  /\ UNCHANGED <<journal, outbox, process, counter, spent, owed>>

ImportByContent == \E r \in 1 .. nextRevision - 1 : ImportRevision(r)

ImportInPlace == ImportRevision(auth.revision)

\* The new credential is written first; every import is a fresh revision.
ImportCredential ==
  /\ LockFree
  /\ nextRevision <= MaxRevision
  /\ nextRevision' = nextRevision + 1
  /\ \E kind \in ImportKinds :
       \/ \E o \in WriteOutcomes :
            /\ auth' = IF Visible(o) THEN [revision |-> nextRevision, kind |-> kind] ELSE auth
            /\ posts' = IF Visible(o) THEN 0 ELSE posts
            /\ CliEnds(o, IF UnrecordedOutcome(journal) THEN "enqueue" ELSE "forget")
       \/ /\ MayFail("unread")                \* the journal cannot be read
          /\ auth' = [revision |-> nextRevision, kind |-> kind]
          /\ posts' = 0
          /\ cli' = "forget"
          /\ faults' = faults + 1
  /\ UNCHANGED <<journal, outbox, process, now, starts, crashes, spent, owed>>

\* The outcome of the superseded rotation is kept for delivery.
ImportEnqueue ==
  /\ cli = "enqueue"
  /\ LET key == EventKey(Loaded(journal))
     IN  \E o \in IF key \in outbox THEN {"done"} ELSE WriteOutcomes :
           /\ outbox' = IF Visible(o) THEN outbox \cup {key} ELSE outbox
           /\ CliEnds(o, "forget")
  /\ UNCHANGED <<auth, journal, process, now, nextRevision, starts, crashes, history>>

ImportForget ==
  /\ cli = "forget"
  /\ \E o \in UnlinkOutcomes :
       /\ journal' = IF Visible(o) THEN NoJournal ELSE journal
       /\ CliEnds(o, "idle")
  /\ UNCHANGED <<auth, outbox, process, now, nextRevision, starts, crashes, history>>

ImportCrash ==
  /\ cli # "idle"
  /\ crashes < MaxCrashes
  /\ crashes' = crashes + 1
  /\ cli' = "idle"
  /\ UNCHANGED <<disk, process, now, nextRevision, starts, faults, history>>

Import == ImportCredential \/ ImportEnqueue \/ ImportForget \/ ImportCrash

-----------------------------------------------------------------------------
Tick ==
  /\ now < MaxTime
  /\ now' = now + 1
  /\ UNCHANGED <<disk, process, cli, nextRevision, starts, crashes, faults, history>>

\* Steps inside the lock, and the entries into it.
Transaction(p) ==
  \/ WriteOutcome(p) \/ Replace(p) \/ EnqueueOutcome(p) \/ MarkEnqueued(p)
  \/ ForgetJournal(p) \/ DeliverRefused(p) \/ DeliverAccepted(p) \/ Acknowledge(p) \/ EndRecord(p)
  \/ DeleteRotated(p) \/ RecoverStartupJournal(p) \/ BeginDispatch(p)
  \/ RecoverUnknown(p) \/ AuthorizeRecoveryDispatch(p) \/ StopRecovery(p)
  \/ Reserve(p) \/ Request(p)

Entry(p) ==
  \/ RecoverStartup(p) \/ Prepare(p) \/ Commit(p) \/ CommitUnread(p)
  \/ ProjectRetained(p) \/ ProjectUnread(p) \/ LockFails(p)

Exchange(p) ==
  \/ Post(p) \/ ExchangeSucceeded(p) \/ ExchangeRejected(p) \/ ExchangeOutcomeUnknown(p)

Next ==
  \/ \E p \in Service :
       \/ Transaction(p) \/ Entry(p) \/ Exchange(p)
       \/ Start(p) \/ Schedule(p) \/ Unpark(p) \/ ReadFails(p) \/ Crash(p)
  \/ Import
  \/ Tick

Spec == Init /\ [][Next]_vars

(***************************************************************************)
(* Fairness.  A running process keeps running (event loop and worker       *)
(* threads), a token's refresh time comes, an exchange ends (the client    *)
(* has a timeout), an import that began goes on, a stopped service is      *)
(* started again (restart: unless-stopped), and time passes.  Kills,       *)
(* faults and new imports are never required.                              *)
(***************************************************************************)
Fairness ==
  /\ WF_vars(Tick)
  /\ WF_vars(ImportEnqueue \/ ImportForget)
  /\ \A p \in Service : /\ WF_vars(Transaction(p)) /\ WF_vars(Entry(p))
                        /\ WF_vars(Exchange(p)) /\ WF_vars(Start(p))
                        /\ WF_vars(Schedule(p)) /\ WF_vars(Unpark(p))

FairSpec == Spec /\ Fairness

\* The telemetry sink accepts again and again.
FairSinkSpec == FairSpec /\ \A p \in Service : SF_vars(DeliverAccepted(p))

-----------------------------------------------------------------------------
(* Properties.                                                              *)

(* What the processes hold, journal and write keeps its shape, whatever     *)
(* fails; a file that is written only in part is never seen.                *)
TypeOK ==
  /\ auth \in Credential
  /\ journal \in Journal
  /\ outbox \subseteq Keys
  /\ pc \in [Service -> ControlPoints]
  /\ call \in [Service -> Calls]
  /\ rev \in [Service -> Nat]
  /\ hand \in [Service -> Journal]
  /\ todo \in [Service -> SUBSET Keys]
  /\ sent \in [Service -> Keys]
  /\ retained \in [Service -> Successor]
  /\ life \in [Service -> Nat]
  /\ cli \in {"idle", "enqueue", "forget"}
  /\ now \in Nat
  /\ nextRevision \in Nat
  /\ starts \in Nat
  /\ crashes \in Nat
  /\ faults \in Nat
  /\ posts \in Nat
  /\ got \in [Service -> Successor]
  /\ spent \subseteq Nat
  /\ owed \subseteq Keys

Posting(p) == pc[p] \in {"dispatch", "exchange"}

\* A refresh POST is covered by the journal: as long as the dispatched revision
\* is still the credential on disk, the journal holds REQUESTED for it, owned by
\* this very process (_prepare_dispatch, _recover_requested).
WriteAhead ==
  \A p \in Service :
    Posting(p) /\ auth.revision = rev[p] =>
      /\ journal.state = "REQUESTED"
      /\ journal.source = rev[p]
      /\ journal.attempt.owner = life[p]

\* No two processes exchange the same revision at the same time, whatever
\* imports, restarts and recoveries happen between their preparations
\* (_recover_requested waits for a live owner).
SingleFlight ==
  \A p, q \in Service : p # q /\ Posting(p) /\ Posting(q) => rev[p] # rev[q]

\* The credential file changes only to a freshly imported revision, or to the
\* successor that a durable ROTATED journal names for the revision it replaces
\* (_commit_success, _recover_rotated and project_retained_successor journal
\* before they compare-and-swap).
RotatedBeforeReplace ==
  [][auth' # auth =>
       \/ cli = "idle" /\ auth'.revision = nextRevision /\ LockFree
       \/ /\ journal.state = "ROTATED"
          /\ journal.source = auth.revision
          /\ journal.succ = auth'.revision
          /\ auth'.kind = "cookie"]_vars

\* A terminal outcome once journaled is never lost: it is still in the journal,
\* or in the outbox, or the sink has accepted it (enqueue before mark, before
\* discard, before the import's delete).
NoOutcomeLost ==
  \A k \in owed :
    \/ k \in outbox
    \/ Loaded(journal).state \in Terminal /\ EventKey(Loaded(journal)) = k

\* The durable budget accounts for itself: one normal dispatch plus the lanes
\* used, within every lane's limit and the total cap, in each journal version 3
\* record of a dispatch (what _recovery_dispatch_is_authorized relies on).
BudgetAccounting ==
  journal.version = 3 /\ journal.state # "ABSENT" /\ journal.attempt.count > 0 =>
    LET a == journal.attempt
    IN  /\ a.count = 1 + Retries(a)
        /\ a.count <= TotalDispatchCap
        /\ \A lane \in Lanes : a.used[lane] <= LaneLimit[lane]

\* docs/decisions.md: "one total dispatch cap apply across every process and
\* restart": no revision is POSTed more often than the cap.
PostsWithinCap == posts <= TotalDispatchCap

\* The same up to the first kill, over two processes, graceful restarts and
\* imports: what the cap does keep.
CapKeptUntilKill == crashes = 0 => posts <= TotalDispatchCap

\* docs/decisions.md: the exhausted generation stays a readable journal.  It
\* does not hold: CorruptOnlyWhenStopped names the journals that break it.
JournalReadable == ~Corrupt(journal)

\* The only journals the code writes and then refuses to read are the stopped
\* unknown outcomes: stopped past the deadline with a not-before time, or
\* migrated from a version 2 in-flight request.
CorruptOnlyWhenStopped ==
  Corrupt(journal) =>
    /\ journal.state = "OUTCOME_UNKNOWN"
    /\ journal.attempt.cont = "stop"
    /\ journal.attempt.notBefore # NoTime \/ journal.attempt.cap # TotalDispatchCap

\* auto_refresh.py: a successor received from the server is never discarded by
\* the process that received it while its source is still the credential: it is
\* in a ROTATED journal or retained in memory once the process left the lock.
SuccessorKept ==
  \A p \in Service :
    /\ got[p] # Nothing
    /\ auth.revision = got[p].source
    /\ pc[p] \notin InLock \cup {"commit", "down"}
    => \/ retained[p] = got[p]
       \/ /\ journal.state = "ROTATED"
          /\ journal.source = got[p].source
          /\ journal.succ = got[p].succ

\* "A newer imported revision always wins over stale work" (coordinator.py): the
\* credential file never goes back to an older revision, whatever stale commit,
\* recovery or projection is still under way.
NewerWins == [][auth'.revision >= auth.revision]_vars

\* Once a rotation is journaled its source is spent: no process POSTs it again.
NoPostAfterRotated ==
  [][\A p \in Service : pc[p] = "dispatch" /\ pc'[p] = "exchange" => rev[p] \notin spent]_vars

\* What `auth status' and the readiness probe say while the access token is
\* still good: the credential has to be imported again.
ImportDemanded ==
  LET projection == ProjectAuth(auth, journal)
  IN  AuthStatus(projection, "ok").reauth /\ ReadinessProbe(projection, "ok").reauth

\* The successor that the ROTATED journal of the current credential names takes
\* its place.
SuccessorAdopted ==
  /\ journal.state = "ROTATED" /\ journal.source = auth.revision
  /\ auth'.revision = journal.succ

\* A demand to import again is final but in one case (projection.py and api.py
\* against what the coordinator still does): until an import writes a new
\* revision, no process POSTs the credential, changes it or takes the demand back.
\* The case is a journal that is ROTATED for the current credential: status and
\* probe demand an import (AuthProjectionError, recovery_available), and a start or
\* a projection then adopts the journaled successor and withdraws the demand.
ReauthFinal ==
  [][ImportDemanded /\ cli = "idle" =>
       \/ auth'.revision = nextRevision
       \/ SuccessorAdopted
       \/ auth' = auth /\ posts' = posts /\ ImportDemanded']_vars

-----------------------------------------------------------------------------
(* What the component promises, as an abstract specification.               *)

RotationsIn(j) ==
  IF j.state = "ROTATED" THEN {[source |-> j.source, succ |-> j.succ]} ELSE {}

\* The successors the system still knows: journaled, in a call or retained.
KnownSuccessors ==
  RotationsIn(journal) \cup (UNION {RotationsIn(hand[p]) : p \in Service})
    \cup ({retained[p] : p \in Service} \ {Nothing})

Lifecycle == INSTANCE CredentialLifecycle
               WITH credential <- auth, successors <- KnownSuccessors, fresh <- nextRevision

\* Rotation with its journal, recoveries, kills and faults implements the
\* credential lifecycle: adopt a fresh import, or the successor granted to the
\* current revision, and nothing else.
LifecycleSpec == Lifecycle!Spec

-----------------------------------------------------------------------------
(* Liveness.                                                                *)

\* The dispatch of a process that died does not stay in flight: some later
\* start or refresh settles it (unless the bound on starts is used up).
AbandonedRequestSettled ==
  (journal.state = "REQUESTED" /\ ~Alive(journal.attempt.owner))
    ~> (journal.state # "REQUESTED" \/ Alive(journal.attempt.owner) \/ starts = MaxStarts)

\* A retained successor reaches the credential file, unless an import
\* supersedes it or its process dies.
RetainedProjected ==
  \A p \in Service :
    (retained[p] # Nothing)
      ~> (retained[p] = Nothing /\ (got[p] = Nothing \/ auth.revision # got[p].source))

\* A scheduled recovery whose cooldown ends is dispatched, stopped or
\* superseded; it is not left scheduled.
RecoveryProceeds ==
  /\ journal.attempt.cont \in Lanes
  /\ journal.attempt.notBefore <= MaxTime
  /\ journal.source = auth.revision
  ~> (journal.attempt.cont \notin Lanes \/ starts = MaxStarts)

\* A finished rotation does not hold up the next one: the ROTATED journal of the
\* current credential goes away (state_machine.py: "Durable outbox delivery is
\* separate from rotation progress").
RotationResumes ==
  (journal.state = "ROTATED" /\ journal.succ = auth.revision)
    ~> (journal.state # "ROTATED" \/ journal.succ # auth.revision \/ starts = MaxStarts)

-----------------------------------------------------------------------------
(* The inductive invariant behind the theorems of RefreshCoordinatorProofs. *)

\* The file lock excludes: one transaction at a time, import included.
LockExcludes ==
  /\ \A p, q \in Service : pc[p] \in InLock /\ pc[q] \in InLock => p = q
  /\ \A p \in Service : pc[p] \in InLock => cli = "idle"

\* The record in memory suits the point the call has reached.
HandFits(l, j) ==
  /\ l \in {"write", "enqueue", "mark", "discard", "commit"} => j.state \in Terminal
  /\ l \in {"replace", "finish"} => j.state = "ROTATED"
  /\ l = "commit" /\ j.state = "OUTCOME_UNKNOWN" => j.attempt.cont \in Lanes

HandsFit == \A p \in Service : HandFits(pc[p], hand[p])

\* The call in progress suits the point and the record: only a preparation
\* dispatches, and only a ROTATED record is committed as a success.
CallFits(l, c, j) ==
  /\ l \in {"due", "recover", "authorize", "reserve", "request", "stop"} => c = "prepare"
  /\ l = "startup" => c = "startup"
  /\ c = "success" => j.state = "ROTATED"

CallsFit == \A p \in Service : CallFits(pc[p], call[p], hand[p])

\* An import about to enqueue has a terminal journal before it.
ImportFits == cli = "enqueue" => Loaded(journal).state \in Terminal

\* Before the compare-and-swap the journal names the rotation.
JournalAhead ==
  \A p \in Service :
    pc[p] = "replace" => /\ journal.state = "ROTATED"
                         /\ journal.source = hand[p].source
                         /\ journal.succ = hand[p].succ

\* Revisions come from the uuid source, a successor after its source.
Created(j) ==
  /\ j.source < nextRevision
  /\ j.state = "ROTATED" => j.source < j.succ /\ j.succ < nextRevision

Pending(s) == s = Nothing \/ (s.source < s.succ /\ s.succ < nextRevision)

RevisionsCreated ==
  /\ auth.revision < nextRevision
  /\ Created(journal)
  /\ \A p \in Service : /\ Created(hand[p])
                        /\ rev[p] < nextRevision
                        /\ Pending(retained[p])

IInv ==
  /\ TypeOK
  /\ LockExcludes
  /\ HandsFit
  /\ CallsFit
  /\ ImportFits
  /\ JournalAhead
  /\ RevisionsCreated
=============================================================================
