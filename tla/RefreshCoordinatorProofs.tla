---------------------- MODULE RefreshCoordinatorProofs ----------------------
(***************************************************************************)
(* Theorems about cookie rotation, for any number of service processes,    *)
(* any budget and any number of imports, kills and storage faults.         *)
(*                                                                         *)
(* Every step of a process either leaves the lock (Return) or goes on      *)
(* inside it (Goto).  The two shape lemmas ReturnKeeps and GotoKeeps say   *)
(* what such a step owes to the inductive invariant IInv; the proof that   *)
(* Next preserves IInv then has one step per action.  The facts about the  *)
(* recovery budget (RefreshPolicy) that all of this rests on come first.   *)
(***************************************************************************)
EXTENDS RefreshCoordinator, TLAPS

-----------------------------------------------------------------------------
(* The recovery budget, for every limit, window and delay: types.          *)

\* The limits and cooldowns of the lanes are natural numbers.
LEMMA LaneTypes == LaneLimit \in [Lanes -> Nat] /\ LaneDelay \in [Lanes -> Nat]
BY PolicyAssumption DEF LaneLimit, LaneDelay, Lanes

\* The attempts _attempt_for_source and _prepare start from are attempts.
LEMMA FreshAttemptTypes ==
  /\ UnbudgetedAttempt \in Attempt
  /\ \A t \in Nat : NormalAttempt(t) \in Attempt
<1>1. Unused \in [Lanes -> Nat]
  BY DEF Unused
<1>2. UnbudgetedAttempt \in Attempt
  BY <1>1, PolicyAssumption DEF UnbudgetedAttempt, Attempt, NoTime, NoOwner
<1>3. ASSUME NEW t \in Nat PROVE NormalAttempt(t) \in Attempt
  <2>1. t + RecoveryWindow \in Nat
    BY PolicyAssumption
  <2> QED BY <1>2, <2>1 DEF NormalAttempt, Attempt
<1> QED BY <1>2, <1>3

\* Every change of an attempt in coordinator.py gives an attempt.
LEMMA AttemptTypes ==
  ASSUME NEW a \in Attempt, NEW t \in Nat
  PROVE  /\ \A lane \in Lanes : WithContinuation(a, lane, t) \in Attempt
         /\ a.cont \in Lanes => NextRecoveryAttempt(a) \in Attempt
         /\ OwnedBy(a, t) \in Attempt
         /\ WithoutOwner(a) \in Attempt
         /\ StoppedAttempt(a) \in Attempt
<1>1. \A lane \in Lanes : WithContinuation(a, lane, t) \in Attempt
  <2>1. TAKE lane \in Lanes
  <2>2. t + LaneDelay[lane] \in Nat /\ t + RecoveryWindow \in Nat
    BY LaneTypes, PolicyAssumption
  <2> QED BY <2>2 DEF WithContinuation, Attempt, NoTime, NoOwner
<1>2. a.cont \in Lanes => NextRecoveryAttempt(a) \in Attempt
  <2>1. HAVE a.cont \in Lanes
  <2>2. a.count + 1 \in Nat /\ [a.used EXCEPT ![a.cont] = @ + 1] \in [Lanes -> Nat]
    BY <2>1 DEF Attempt
  <2> QED BY <2>1, <2>2 DEF NextRecoveryAttempt, Attempt, NoOwner
<1> QED BY <1>1, <1>2 DEF OwnedBy, WithoutOwner, StoppedAttempt, Attempt, NoTime, NoOwner

\* A migrated attempt is an attempt, and a journal read back is a journal.
LEMMA LoadedType ==
  ASSUME NEW j \in Journal
  PROVE  /\ Loaded(j) \in Journal
         /\ Loaded(j).source = j.source
         /\ Loaded(j).succ = j.succ
         /\ Loaded(j).state = "ROTATED" <=> j.state = "ROTATED"
         /\ Loaded(j).state = "ABSENT" <=> j.state = "ABSENT"
<1>1. MigratedAttempt(j.state) \in Attempt
  BY FreshAttemptTypes, PolicyAssumption DEF MigratedAttempt, Attempt
<1> QED BY <1>1 DEF Loaded, Journal, Phases, Terminal

\* A journal built from its parts is a journal.
LEMMA JournalTypes ==
  /\ NoJournal \in Journal
  /\ \A st \in Phases, source \in Nat, succ \in Nat, a \in Attempt :
       JournalOf(st, source, succ, a) \in Journal
BY FreshAttemptTypes DEF NoJournal, JournalOf, Journal, NoRevision

-----------------------------------------------------------------------------
(* The budget.                                                              *)

\* A budget in order: one normal dispatch plus the lanes used, within limits.
Accounted(a) ==
  /\ a.count = 1 + Retries(a)
  /\ a.cap = TotalDispatchCap
  /\ a.count <= a.cap
  /\ \A lane \in Lanes : a.used[lane] <= LaneLimit[lane]

\* The two checks of a recovery dispatch agree: what _next_recovery_attempt
\* hands out once the cooldown is over, the state machine authorises at the same
\* instant, so the assertion in _prepare_dispatch cannot fail on the budget.
THEOREM NextAttemptIsAuthorized ==
  ASSUME NEW a \in Attempt, NEW t \in Nat,
         Accounted(a), HasNextAttempt(a, t), ~CoolingDown(a, t)
  PROVE  /\ RecoveryDispatchIsAuthorized(NextRecoveryAttempt(a), t)
         /\ Accounted(NextRecoveryAttempt(a))
<1> DEFINE b == NextRecoveryAttempt(a)
<1>1. /\ a.used \in [Lanes -> Nat] /\ a.count \in Nat /\ a.cap \in Nat
      /\ a.cont \in Lanes
      /\ a.used[a.cont] < LaneLimit[a.cont] /\ a.count < a.cap
  BY DEF Attempt, HasNextAttempt, ContinuationAvailable
<1>2. /\ b.count = a.count + 1 /\ b.cap = a.cap /\ b.cont = a.cont
      /\ b.deadline = a.deadline /\ b.notBefore = a.notBefore
      /\ b.used = [a.used EXCEPT ![a.cont] = @ + 1]
  BY DEF NextRecoveryAttempt, Attempt
<1>3. Retries(b) = Retries(a) + 1
  BY <1>1, <1>2 DEF Retries, Lanes
<1>4. Accounted(b)
  <2>1. \A lane \in Lanes : b.used[lane] <= LaneLimit[lane]
    BY <1>1, <1>2, LaneTypes DEF Accounted
  <2>2. Retries(a) \in Nat
    BY <1>1 DEF Retries, Lanes
  <2> QED BY <1>1, <1>2, <1>3, <2>1, <2>2 DEF Accounted
<1>5. b.used[b.cont] \in 1 .. LaneLimit[b.cont]
  BY <1>1, <1>2, LaneTypes
<1> QED BY <1>2, <1>4, <1>5
        DEF RecoveryDispatchIsAuthorized, HasNextAttempt, DeadlinePassed, CoolingDown, Accounted

\* What commit_unknown and the recovery of an abandoned request journal can be
\* read back: a scheduled lane has a not-before time within its deadline, a
\* stopped one has none, so a budget in order is never reported corrupt.
THEOREM ScheduledJournalIsReadable ==
  ASSUME NEW a \in Attempt, NEW t \in Nat \ {0}, NEW lane \in Lanes, NEW source \in Nat,
         Accounted(a)
  PROVE  Readable(JournalOf("OUTCOME_UNKNOWN", source, NoRevision, WithContinuation(a, lane, t)))
<1> DEFINE b == WithContinuation(a, lane, t)
           j == JournalOf("OUTCOME_UNKNOWN", source, NoRevision, b)
<1>1. t + LaneDelay[lane] \in Nat \ {0} /\ t + RecoveryWindow \in Nat \ {0}
  BY LaneTypes, PolicyAssumption
<1>2. /\ b.count = a.count /\ b.cap = a.cap /\ b.used = a.used /\ b.owner = NoOwner
      /\ b.deadline \in Nat \ {0}
      /\ \/ b.cont = "stop" /\ b.notBefore = NoTime
         \/ b.cont \in Lanes /\ b.notBefore # NoTime /\ b.notBefore <= b.deadline
  BY <1>1 DEF WithContinuation, Attempt, NoTime, NoOwner
<1>3. AttemptIsValid(b)
  BY <1>2 DEF Accounted, AttemptIsValid, Retries
<1>4. AttemptFitsState(b, "OUTCOME_UNKNOWN")
  BY <1>2 DEF AttemptFitsState, NoTime, Lanes, NoOwner
<1> QED BY <1>3, <1>4 DEF Readable, JournalOf

-----------------------------------------------------------------------------
(* The invariant in two parts: the files and counters, and one process.     *)

FilesOK ==
  /\ auth \in Credential
  /\ journal \in Journal
  /\ outbox \subseteq Keys
  /\ cli \in {"idle", "enqueue", "forget"}
  /\ now \in Nat
  /\ nextRevision \in Nat
  /\ starts \in Nat
  /\ crashes \in Nat
  /\ faults \in Nat
  /\ posts \in Nat
  /\ spent \subseteq Nat
  /\ owed \subseteq Keys
  /\ auth.revision < nextRevision
  /\ Created(journal)
  /\ ImportFits

\* The variables of a process are functions on Service.
Shapes ==
  /\ pc \in [Service -> ControlPoints]
  /\ call \in [Service -> Calls]
  /\ rev \in [Service -> Nat]
  /\ hand \in [Service -> Journal]
  /\ todo \in [Service -> SUBSET Keys]
  /\ sent \in [Service -> Keys]
  /\ retained \in [Service -> Successor]
  /\ life \in [Service -> Nat]
  /\ got \in [Service -> Successor]

ProcessOK(p) ==
  /\ HandFits(pc[p], hand[p])
  /\ CallFits(pc[p], call[p], hand[p])
  /\ Created(hand[p])
  /\ rev[p] < nextRevision
  /\ Pending(retained[p])
  /\ pc[p] = "replace" => /\ journal.state = "ROTATED"
                          /\ journal.source = hand[p].source
                          /\ journal.succ = hand[p].succ

\* Process p is the only one that may be inside the lock.
Alone(p) == cli = "idle" /\ \A q \in Service : q # p => pc[q] \notin InLock

\* IInv is these parts and the exclusion of the lock.
LEMMA IInvParts ==
  IInv <=> FilesOK /\ Shapes /\ LockExcludes /\ \A p \in Service : ProcessOK(p)
BY DEF IInv, TypeOK, FilesOK, Shapes, HandsFit, CallsFit, JournalAhead, RevisionsCreated,
       ProcessOK

\* The same of the next state.
LEMMA IInvPartsNext ==
  ASSUME FilesOK', Shapes', LockExcludes', \A p \in Service : ProcessOK(p)'
  PROVE  IInv'
BY DEF IInv, TypeOK, FilesOK, Shapes, HandsFit, CallsFit, JournalAhead, RevisionsCreated,
       ProcessOK

\* A process inside the lock, or one that takes it, is alone there.
LEMMA Entering ==
  ASSUME IInv, NEW p \in Service, pc[p] \in InLock \/ LockFree
  PROVE  Alone(p)
BY DEF IInv, LockExcludes, LockFree, Alone

-----------------------------------------------------------------------------
(* Steps of a process that end in Return or Goto.                           *)

\* What a step of process p leaves alone or keeps in order besides the process.
Around(p) ==
  /\ FilesOK'
  /\ cli' = cli
  /\ nextRevision' = nextRevision
  /\ journal' = journal \/ Alone(p)

Outside == ControlPoints \ (InLock \cup {"commit", "due", "startup"})

\* Leaving the lock, or the process, keeps IInv.
LEMMA ReturnKeeps ==
  ASSUME IInv, NEW p \in Service, NEW l \in Outside, NEW kept \in Successor,
         Pending(kept), Return(p, l, kept), Around(p)
  PROVE  IInv'
<1> USE IInvParts
<1>1. Shapes'
  <2>1. NoJournal \in Journal
    BY JournalTypes
  <2>2. NoKey \in Keys /\ Nothing \in Successor /\ NoOwner \in Nat /\ NoRevision \in Nat
    BY DEF NoKey, Keys, Nothing, Successor, NoOwner, NoRevision, Terminal
  <2>3. hand[p].source \in Nat
    BY DEF Shapes, Journal
  <2>4. "none" \in Calls
    BY DEF Calls
  <2> QED BY <2>1, <2>2, <2>3, <2>4 DEF Return, Shapes, Outside
<1>2. LockExcludes'
  BY DEF LockExcludes, Shapes, Return, Around, Outside
<1>3. ASSUME NEW q \in Service PROVE ProcessOK(q)'
  <2>1. CASE q = p
    <3>1. /\ pc'[p] = l /\ call'[p] = "none" /\ hand'[p] = NoJournal /\ retained'[p] = kept
          /\ rev'[p] \in {hand[p].source, NoRevision}
      BY DEF Shapes, Return
    <3>2. hand[p].source < nextRevision /\ NoRevision < nextRevision
      BY DEF ProcessOK, Created, FilesOK, NoRevision, Journal, Shapes, Credential
    <3> QED BY <2>1, <3>1, <3>2
            DEF ProcessOK, HandFits, CallFits, Created, Pending, Outside, Around, NoJournal,
                NoRevision, InLock, FilesOK
  <2>2. CASE q # p
    <3>1. /\ pc'[q] = pc[q] /\ call'[q] = call[q] /\ hand'[q] = hand[q]
          /\ retained'[q] = retained[q] /\ rev'[q] = rev[q]
      BY <2>2 DEF Shapes, Return
    <3>2. pc[q] = "replace" => journal' = journal
      BY <2>2 DEF Around, Alone, InLock
    <3> QED BY <3>1, <3>2 DEF ProcessOK, Around, Created, Pending, HandFits, CallFits
  <2> QED BY <2>1, <2>2
<1> QED BY <1>1, <1>2, <1>3, IInvPartsNext DEF Around

\* Going on inside the lock keeps IInv.
LEMMA GotoKeeps ==
  ASSUME IInv, NEW p \in Service, NEW l \in InLock, NEW j \in Journal,
         Goto(p, l, j), Around(p), Alone(p),
         HandFits(l, j), CallFits(l, call[p], j), Created(j),
         l = "replace" => /\ journal'.state = "ROTATED"
                          /\ journal'.source = j.source
                          /\ journal'.succ = j.succ
  PROVE  IInv'
<1> USE IInvParts
<1>1. Shapes'
  BY DEF Goto, Shapes, Around, FilesOK, ControlPoints
<1>2. LockExcludes'
  BY DEF LockExcludes, Shapes, Goto, Around, Alone
<1>3. ASSUME NEW q \in Service PROVE ProcessOK(q)'
  <2>1. CASE q = p
    <3>1. pc'[p] = l /\ call'[p] = call[p] /\ hand'[p] = j /\ retained'[p] = retained[p]
          /\ rev'[p] = rev[p]
      BY DEF Shapes, Goto
    <3> QED BY <2>1, <3>1 DEF ProcessOK, HandFits, CallFits, Created, Pending, Around
  <2>2. CASE q # p
    <3>1. /\ pc'[q] = pc[q] /\ call'[q] = call[q] /\ hand'[q] = hand[q]
          /\ retained'[q] = retained[q] /\ rev'[q] = rev[q]
      BY <2>2 DEF Shapes, Goto
    <3>2. pc[q] = "replace" => journal' = journal
      BY <2>2 DEF Around, Alone, InLock
    <3> QED BY <3>1, <3>2 DEF ProcessOK, Around, Created, Pending, HandFits, CallFits
  <2> QED BY <2>1, <2>2
<1> QED BY <1>1, <1>2, <1>3, IInvPartsNext DEF Around

\* A killed or exiting process, and one whose call raised OSError, keep IInv.
LEMMA ExitKeeps ==
  ASSUME IInv, NEW p \in Service, Exit(p), Around(p)
  PROVE  IInv'
<1>1. "down" \in Outside /\ Nothing \in Successor /\ Pending(Nothing)
  BY DEF Outside, ControlPoints, InLock, Nothing, Successor, Pending, NoRevision
<1> QED BY <1>1, ReturnKeeps DEF Exit

\* Leaving with nothing retained keeps IInv.
LEMMA LeaveKeeps ==
  ASSUME IInv, NEW p \in Service, Around(p),
         NEW l \in {"down", "idle", "parked", "dispatch"}, Return(p, l, Nothing)
  PROVE  IInv'
<1>1. l \in Outside /\ Nothing \in Successor /\ Pending(Nothing)
  BY DEF Outside, ControlPoints, InLock, Nothing, Successor, Pending, NoRevision
<1> QED BY <1>1, ReturnKeeps

\* An OSError raised by the call in progress keeps IInv.
LEMMA RaiseKeeps ==
  ASSUME IInv, NEW p \in Service, Raise(p), Around(p)
  PROVE  IInv'
<1> DEFINE s == [source |-> hand[p].source, succ |-> hand[p].succ]
<1>1. AfterOSError(call[p]) \in Outside
  BY DEF AfterOSError, Outside, ControlPoints, InLock
<1>2. /\ s \in Successor
      /\ call[p] = "success" => Pending(s)
      /\ retained[p] \in Successor
      /\ Pending(retained[p])
  BY IInvParts DEF Shapes, Journal, Successor, ProcessOK, CallFits, Created, Pending
<1> QED BY <1>1, <1>2, ReturnKeeps DEF Raise

\* A durable write keeps IInv when what follows its success does.
LEMMA EndsKeeps ==
  ASSUME IInv, NEW p \in Service, NEW o, NEW ACTION Ok, Ends(p, o, Ok), Around(p),
         o = "done" /\ Ok => IInv'
  PROVE  IInv'
BY ExitKeeps, RaiseKeeps DEF Ends

\* The fault counter stays a number.
LEMMA EndsFaults ==
  ASSUME IInv, NEW p \in Service, NEW o, NEW ACTION Ok, Ends(p, o, Ok)
  PROVE  faults' \in Nat
BY IInvParts DEF Ends, FilesOK

\* write_journal of the record in memory leaves the files in order.
LEMMA WriteJournalAround ==
  ASSUME IInv, NEW p \in Service, pc[p] \in InLock, NEW ACTION Ok, WriteJournal(p, Ok)
  PROVE  /\ Around(p)
         /\ Alone(p)
         /\ \E o : /\ Ends(p, o, Ok)
                   /\ o = "done" => journal' = hand[p]
<1>1. Alone(p)
  BY Entering
<1>2. faults' \in Nat
  BY EndsFaults DEF WriteJournal
<1>3. PICK o : /\ journal' = IF Visible(o) THEN hand[p] ELSE journal
               /\ Ends(p, o, Ok)
               /\ owed' = IF Visible(o) /\ pc[p] = "write"
                          THEN owed \cup {EventKey(hand[p])} ELSE owed
               /\ spent' \in {spent, spent \cup {hand[p].source}}
  BY DEF WriteJournal
<1>4. hand[p] \in Journal /\ Created(hand[p]) /\ (pc[p] = "write" => EventKey(hand[p]) \in Keys)
  BY IInvParts DEF Shapes, ProcessOK, HandFits, EventKey, Keys, Journal
<1>5. spent' \subseteq Nat
  BY <1>3, <1>4, IInvParts DEF FilesOK, Journal
<1>6. owed' \subseteq Keys
  BY <1>3, <1>4, IInvParts DEF FilesOK
<1>7. /\ UNCHANGED <<auth, outbox, cli, now, nextRevision, starts, crashes, posts>>
      /\ cli = "idle"
  BY <1>1 DEF WriteJournal, Alone
<1>8. FilesOK'
  BY <1>2, <1>3, <1>4, <1>5, <1>6, <1>7, IInvParts DEF FilesOK, Created, ImportFits
<1> QED BY <1>1, <1>3, <1>7, <1>8 DEF Around, Visible

-----------------------------------------------------------------------------
(* One lemma per action: each preserves IInv.                               *)

\* A step that changes no file and no counter.
LEMMA QuietAround ==
  ASSUME IInv, NEW p \in Service, UNCHANGED <<disk, cli, counter, history>>
  PROVE  Around(p)
BY IInvParts DEF disk, counter, history, Around, FilesOK, Created, ImportFits

\* The record process p has in memory.
LEMMA HandType ==
  ASSUME IInv, NEW p \in Service
  PROVE  /\ hand[p] \in Journal
         /\ Created(hand[p])
         /\ HandFits(pc[p], hand[p])
         /\ CallFits(pc[p], call[p], hand[p])
         /\ pc[p] = "replace" => /\ journal.state = "ROTATED"
                                 /\ journal.source = hand[p].source
                                 /\ journal.succ = hand[p].succ
         /\ hand[p].state \in Terminal => EventKey(hand[p]) \in Keys
         /\ hand[p].source \in Nat /\ hand[p].succ \in Nat /\ hand[p].attempt \in Attempt
BY IInvParts DEF Shapes, ProcessOK, EventKey, Keys, Journal

\* A terminal journal write keeps IInv.
LEMMA WriteOutcomeKeeps ==
  ASSUME IInv, NEW p \in Service, WriteOutcome(p)
  PROVE  IInv'
<1> DEFINE l == IF hand[p].state = "ROTATED" THEN "replace" ELSE "enqueue"
<1>1. pc[p] = "write" /\ pc[p] \in InLock /\ WriteJournal(p, Goto(p, l, hand[p]))
  BY DEF WriteOutcome, InLock
<1> HIDE DEF l
<1>2. PICK o : /\ Ends(p, o, Goto(p, l, hand[p]))
               /\ o = "done" => journal' = hand[p]
  BY <1>1, WriteJournalAround
<1>3. Around(p) /\ Alone(p)
  BY <1>1, WriteJournalAround
<1>4. l \in InLock /\ HandFits(l, hand[p]) /\ CallFits(l, call[p], hand[p])
  BY <1>1, HandType DEF l, InLock, HandFits, CallFits
<1>5. ASSUME o = "done", Goto(p, l, hand[p]) PROVE IInv'
  <2>1. l = "replace" => hand[p].state = "ROTATED"
    BY DEF l
  <2> QED BY <1>2, <1>3, <1>4, <1>5, <2>1, HandType, GotoKeeps
<1> QED BY <1>2, <1>3, <1>5, EndsKeeps

\* The compare-and-swap of the credential keeps IInv.
LEMMA ReplaceKeeps ==
  ASSUME IInv, NEW p \in Service, Replace(p)
  PROVE  IInv'
<1>1. pc[p] = "replace" /\ Alone(p)
  BY Entering DEF Replace, InLock
<1>2. CASE /\ MayFail("unread")
           /\ faults' = faults + 1
           /\ Return(p, "idle", Nothing)
           /\ UNCHANGED <<disk, posts>>
  <2>1. Around(p)
    BY <1>2, <1>1, IInvParts DEF Replace, disk, Around, FilesOK, Created, ImportFits, Alone
  <2> QED BY <1>2, <2>1, LeaveKeeps
<1> DEFINE l == IF hand[p].enqueued THEN "drain" ELSE "enqueue"
<1>3. CASE \E o \in WriteOutcomes :
             /\ auth' = IF Visible(o) THEN [revision |-> hand[p].succ, kind |-> "cookie"]
                        ELSE auth
             /\ posts' = IF Visible(o) THEN 0 ELSE posts
             /\ UNCHANGED <<journal, outbox>>
             /\ Ends(p, o, Goto(p, l, hand[p]))
  <2> HIDE DEF l
  <2>1. PICK o \in WriteOutcomes :
             /\ auth' \in {auth, [revision |-> hand[p].succ, kind |-> "cookie"]}
             /\ posts' \in {posts, 0}
             /\ UNCHANGED <<journal, outbox>>
             /\ Ends(p, o, Goto(p, l, hand[p]))
    BY <1>3
  <2>2. faults' \in Nat
    BY <2>1, EndsFaults
  <2>3. auth' \in Credential /\ auth'.revision < nextRevision
    BY <2>1, <1>1, HandType, IInvParts DEF Credential, FilesOK, HandFits, Created
  <2>4. UNCHANGED <<cli, now, nextRevision, starts, crashes, spent, owed>>
    BY DEF Replace
  <2>5. Around(p)
    BY <2>1, <2>2, <2>3, <2>4, <1>1, IInvParts DEF Around, FilesOK, Created, ImportFits, Alone
  <2>6. l \in InLock /\ HandFits(l, hand[p]) /\ CallFits(l, call[p], hand[p]) /\ l # "replace"
    BY <1>1, HandType DEF l, InLock, HandFits, CallFits, Terminal
  <2>7. ASSUME Goto(p, l, hand[p]) PROVE IInv'
    BY <1>1, <2>5, <2>6, <2>7, HandType, GotoKeeps
  <2> QED BY <2>1, <2>5, <2>7, EndsKeeps
<1> QED BY <1>2, <1>3 DEF Replace

\* A write to the outbox inside the lock leaves the files in order.
LEMMA OutboxAround ==
  ASSUME IInv, NEW p \in Service, Alone(p), faults' \in Nat, outbox' \subseteq Keys,
         UNCHANGED <<auth, journal, cli, now, nextRevision, starts, crashes, history>>
  PROVE  Around(p)
BY IInvParts DEF Around, FilesOK, Created, ImportFits, Alone, history

\* So does an unlink of the journal.
LEMMA UnlinkAround ==
  ASSUME IInv, NEW p \in Service, Alone(p), faults' \in Nat, journal' \in {journal, NoJournal},
         UNCHANGED <<auth, outbox, cli, now, nextRevision, starts, crashes, history>>
  PROVE  Around(p)
<1>1. NoJournal \in Journal /\ NoJournal.source < nextRevision /\ NoJournal.state # "ROTATED"
  BY JournalTypes, IInvParts DEF NoJournal, FilesOK, NoRevision, Credential
<1> QED BY <1>1, IInvParts DEF Around, FilesOK, Created, ImportFits, Alone, history

\* Enqueueing an outcome keeps IInv.
LEMMA EnqueueOutcomeKeeps ==
  ASSUME IInv, NEW p \in Service, EnqueueOutcome(p)
  PROVE  IInv'
<1> DEFINE marked == [hand[p] EXCEPT !.enqueued = TRUE]
           Ok == IF pc[p] = "discard" THEN Goto(p, "forget", hand[p])
                                      ELSE Goto(p, "mark", marked)
<1>1. pc[p] \in {"enqueue", "discard"} /\ Alone(p)
  BY Entering DEF EnqueueOutcome, InLock
<1>2. hand[p].state \in Terminal
  BY <1>1, HandType DEF HandFits
<1>3. PICK o : /\ outbox' \in {outbox, outbox \cup {EventKey(hand[p])}}
               /\ UNCHANGED <<auth, journal, cli, now, nextRevision, starts, crashes, history>>
               /\ Ends(p, o, Ok)
  BY DEF EnqueueOutcome
<1>4. faults' \in Nat
  BY <1>3, EndsFaults
<1>5. outbox' \subseteq Keys
  BY <1>2, <1>3, HandType, IInvParts DEF FilesOK
<1>6. Around(p)
  BY <1>1, <1>3, <1>4, <1>5, OutboxAround
<1>7. /\ marked \in Journal /\ marked.state = hand[p].state /\ Created(marked)
      /\ HandFits("mark", marked) /\ CallFits("mark", call[p], marked)
      /\ HandFits("forget", hand[p]) /\ CallFits("forget", call[p], hand[p])
      /\ "mark" \in InLock /\ "forget" \in InLock
  BY <1>2, HandType DEF Journal, HandFits, CallFits, Created, InLock
<1>8. ASSUME Ok PROVE IInv'
  <2>1. CASE pc[p] = "discard"
    BY <1>1, <1>6, <1>7, <1>8, <2>1, HandType, GotoKeeps
  <2>2. CASE pc[p] # "discard"
    <3> HIDE DEF marked
    <3> QED BY <1>1, <1>6, <1>7, <1>8, <2>2, GotoKeeps
  <2> QED BY <2>1, <2>2
<1> QED BY <1>3, <1>6, <1>8, EndsKeeps

\* Marking the journal as enqueued keeps IInv.
LEMMA MarkEnqueuedKeeps ==
  ASSUME IInv, NEW p \in Service, MarkEnqueued(p)
  PROVE  IInv'
<1>1. pc[p] = "mark" /\ pc[p] \in InLock /\ WriteJournal(p, Goto(p, "drain", hand[p]))
  BY DEF MarkEnqueued, InLock
<1>2. PICK o : Ends(p, o, Goto(p, "drain", hand[p]))
  BY <1>1, WriteJournalAround
<1>3. Around(p) /\ Alone(p)
  BY <1>1, WriteJournalAround
<1>4. "drain" \in InLock /\ HandFits("drain", hand[p]) /\ CallFits("drain", call[p], hand[p])
  BY HandType DEF InLock, HandFits, CallFits
<1>5. ASSUME Goto(p, "drain", hand[p]) PROVE IInv'
  BY <1>3, <1>4, <1>5, HandType, GotoKeeps
<1> QED BY <1>2, <1>3, <1>5, EndsKeeps

\* Nothing in memory suits a drain.
LEMMA NoJournalFits ==
  ASSUME IInv
  PROVE  /\ NoJournal \in Journal
         /\ Created(NoJournal)
         /\ HandFits("drain", NoJournal)
         /\ \A c \in Calls \ {"success"} : CallFits("drain", c, NoJournal)
         /\ "drain" \in InLock
BY JournalTypes, IInvParts
   DEF NoJournal, Created, HandFits, CallFits, FilesOK, NoRevision, Credential, InLock

\* Deleting superseded or reserved state keeps IInv.
LEMMA ForgetJournalKeeps ==
  ASSUME IInv, NEW p \in Service, ForgetJournal(p)
  PROVE  IInv'
<1> DEFINE Ok == IF call[p] = "prepare" THEN Goto(p, "drain", NoJournal)
                                        ELSE Return(p, "idle", Nothing)
<1>1. pc[p] = "forget" /\ Alone(p)
  BY Entering DEF ForgetJournal, InLock
<1>2. PICK o : /\ journal' \in {journal, NoJournal}
               /\ UNCHANGED <<auth, outbox, cli, now, nextRevision, starts, crashes, history>>
               /\ Ends(p, o, Ok)
  BY DEF ForgetJournal
<1>3. faults' \in Nat
  BY <1>2, EndsFaults
<1>4. Around(p)
  BY <1>1, <1>2, <1>3, UnlinkAround
<1>5. ASSUME Ok PROVE IInv'
  <2>1. CASE call[p] = "prepare"
    <3>1. CallFits("drain", call[p], NoJournal)
      BY <2>1, NoJournalFits DEF Calls
    <3> QED BY <1>1, <1>4, <1>5, <2>1, <3>1, NoJournalFits, GotoKeeps
  <2>2. CASE call[p] # "prepare"
    BY <1>4, <1>5, <2>2, LeaveKeeps
  <2> QED BY <2>1, <2>2
<1> QED BY <1>2, <1>4, <1>5, EndsKeeps

\* A step inside the lock that keeps the record in memory and the call.
LEMMA StayKeeps ==
  ASSUME IInv, NEW p \in Service, Around(p), Alone(p), NEW l \in {"drain", "ack"},
         Shapes', pc' = [pc EXCEPT ![p] = l],
         UNCHANGED <<call, rev, hand, retained, life, got>>
  PROVE  IInv'
<1> USE IInvParts
<1>1. LockExcludes'
  BY DEF LockExcludes, Shapes, Around, Alone
<1>2. ASSUME NEW q \in Service PROVE ProcessOK(q)'
  <2>1. CASE q = p
    <3>1. pc'[p] = l
      BY DEF Shapes
    <3> QED BY <2>1, <3>1 DEF ProcessOK, HandFits, CallFits, Created, Pending, Around
  <2>2. CASE q # p
    <3>1. pc'[q] = pc[q]
      BY <2>2 DEF Shapes
    <3>2. pc[q] = "replace" => journal' = journal
      BY <2>2 DEF Around, Alone, InLock
    <3> QED BY <3>1, <3>2 DEF ProcessOK, Around, Created, Pending, HandFits, CallFits
  <2> QED BY <2>1, <2>2
<1> QED BY <1>1, <1>2, IInvPartsNext DEF Around

\* The record delivered next is one of this pass.
LEMMA NextRecordType ==
  ASSUME IInv, NEW p \in Service, todo[p] # {}
  PROVE  NextRecord(p) \in Keys
<1>1. NextRecord(p) \in todo[p]
  BY DEF NextRecord
<1> QED BY <1>1, IInvParts DEF Shapes

\* A delivery the sink refuses keeps IInv.
LEMMA DeliverRefusedKeeps ==
  ASSUME IInv, NEW p \in Service, DeliverRefused(p)
  PROVE  IInv'
<1>1. pc[p] = "drain" /\ Alone(p) /\ Around(p)
  BY Entering, QuietAround DEF DeliverRefused, InLock
<1>2. Shapes'
  BY IInvParts DEF Shapes, DeliverRefused
<1>3. pc' = [pc EXCEPT ![p] = "drain"]
  BY <1>1, IInvParts DEF Shapes, DeliverRefused
<1> QED BY <1>1, <1>2, <1>3, StayKeeps DEF DeliverRefused

\* A delivery the sink accepts keeps IInv.
LEMMA DeliverAcceptedKeeps ==
  ASSUME IInv, NEW p \in Service, DeliverAccepted(p)
  PROVE  IInv'
<1>1. pc[p] = "drain" /\ Alone(p)
  BY Entering DEF DeliverAccepted, InLock
<1>2. Around(p)
  BY <1>1, IInvParts
     DEF DeliverAccepted, Around, FilesOK, Created, ImportFits, Alone, disk, counter
<1>3. NextRecord(p) \in Keys
  BY NextRecordType DEF DeliverAccepted
<1>4. Shapes'
  BY <1>3, IInvParts DEF Shapes, DeliverAccepted, ControlPoints, InLock
<1> QED BY <1>1, <1>2, <1>4, StayKeeps DEF DeliverAccepted

\* Removing a delivered record from the outbox keeps IInv.
LEMMA AcknowledgeKeeps ==
  ASSUME IInv, NEW p \in Service, Acknowledge(p)
  PROVE  IInv'
<1>1. pc[p] = "ack" /\ Alone(p)
  BY Entering DEF Acknowledge, InLock
<1>2. PICK o : /\ outbox' \in {outbox, outbox \ {sent[p]}}
               /\ UNCHANGED <<auth, journal, cli, now, nextRevision, starts, crashes, history>>
               /\ Ends(p, o, Acknowledged(p))
  BY DEF Acknowledge
<1>3. faults' \in Nat
  BY <1>2, EndsFaults
<1>4. outbox' \subseteq Keys
  BY <1>2, IInvParts DEF FilesOK
<1>5. Around(p)
  BY <1>1, <1>2, <1>3, <1>4, OutboxAround
<1>6. ASSUME Acknowledged(p) PROVE IInv'
  <2>1. Shapes'
    BY <1>6, IInvParts DEF Acknowledged, Shapes, ControlPoints, InLock, NoKey, Keys, NoRevision, Terminal
  <2> QED BY <1>1, <1>5, <1>6, <2>1, StayKeeps DEF Acknowledged
<1> QED BY <1>2, <1>5, <1>6, EndsKeeps

\* Where a call goes once its outcome is recorded is in order.
LEMMA RecordedKeeps ==
  ASSUME IInv, NEW p \in Service, Alone(p), Around(p), Recorded(p)
  PROVE  IInv'
<1>1. \/ Exit(p)
      \/ call[p] = "prepare" /\ Goto(p, "recover", hand[p])
      \/ Return(p, "parked", Nothing)
      \/ Return(p, "idle", Nothing)
  BY DEF Recorded
<1>2. CASE call[p] = "prepare" /\ Goto(p, "recover", hand[p])
  <2>1. /\ "recover" \in InLock
        /\ HandFits("recover", hand[p])
        /\ CallFits("recover", call[p], hand[p])
    BY <1>2 DEF InLock, HandFits, CallFits
  <2> QED BY <1>2, <2>1, HandType, GotoKeeps
<1> QED BY <1>1, <1>2, ExitKeeps, LeaveKeeps

\* The end of an outbox pass keeps IInv.
LEMMA EndRecordKeeps ==
  ASSUME IInv, NEW p \in Service, EndRecord(p)
  PROVE  IInv'
<1>1. pc[p] = "drain" /\ Alone(p) /\ Around(p)
  BY Entering, QuietAround DEF EndRecord, InLock
<1>2. CASE hand[p].state = "ROTATED" /\ Goto(p, "finish", hand[p])
  <2>1. /\ "finish" \in InLock
        /\ HandFits("finish", hand[p])
        /\ CallFits("finish", call[p], hand[p])
    BY <1>2 DEF InLock, HandFits, CallFits
  <2> QED BY <1>1, <1>2, <2>1, HandType, GotoKeeps
<1>3. CASE Recorded(p)
  BY <1>1, <1>3, RecordedKeeps
<1> QED BY <1>2, <1>3 DEF EndRecord

\* Deleting a delivered ROTATED journal keeps IInv.
LEMMA DeleteRotatedKeeps ==
  ASSUME IInv, NEW p \in Service, DeleteRotated(p)
  PROVE  IInv'
<1>1. pc[p] = "finish" /\ Alone(p)
  BY Entering DEF DeleteRotated, InLock
<1>2. PICK o : /\ journal' \in {journal, NoJournal}
               /\ UNCHANGED <<auth, outbox, cli, now, nextRevision, starts, crashes, history>>
               /\ Ends(p, o, Recorded(p))
  BY DEF DeleteRotated
<1>3. faults' \in Nat
  BY <1>2, EndsFaults
<1>4. Around(p)
  BY <1>1, <1>2, <1>3, UnlinkAround
<1>5. ASSUME Recorded(p) PROVE IInv'
  BY <1>1, <1>4, <1>5, RecordedKeeps
<1> QED BY <1>2, <1>4, <1>5, EndsKeeps

-----------------------------------------------------------------------------
(* Reconciliation, entries and dispatch.                                    *)

\* The journal as read is in order.
LEMMA LoadedFits ==
  ASSUME IInv
  PROVE  /\ Loaded(journal) \in Journal
         /\ Created(Loaded(journal))
         /\ Loaded(journal).state = "ROTATED" =>
              /\ journal.state = "ROTATED"
              /\ journal.source = Loaded(journal).source
              /\ journal.succ = Loaded(journal).succ
         /\ Readable(journal) => Loaded(journal).state \in Phases
BY LoadedType, IInvParts DEF FilesOK, Created, Readable, Journal

\* What a recovery goes on with suits the point it goes to.
LEMMA ReconcileFits ==
  ASSUME IInv, NEW j \in Journal, Created(j), j.state \in Phases
  PROVE  /\ RecoveryPoint(j) \in {"drain", "enqueue", "discard", "forget", "replace", "write"}
         /\ RecoveryRecord(j) \in Journal
         /\ Created(RecoveryRecord(j))
         /\ HandFits(RecoveryPoint(j), RecoveryRecord(j))
         /\ RecoveryPoint(j) = "replace" => j.state = "ROTATED" /\ RecoveryRecord(j) = j
<1> DEFINE a == WithContinuation(j.attempt, "ambiguity_replay", now)
           u == JournalOf("OUTCOME_UNKNOWN", j.source, NoRevision, a)
<1>1. /\ RecoveryPoint(j) \in {"drain", "enqueue", "discard", "forget", "replace", "write"}
      /\ RecoveryPoint(j) \in {"enqueue", "discard"} => j.state \in Terminal
      /\ RecoveryPoint(j) = "replace" => j.state = "ROTATED"
      /\ RecoveryPoint(j) = "write" => j.state = "REQUESTED" /\ j.source = auth.revision
      /\ RecoveryPoint(j) \in {"drain", "enqueue"} =>
           ~(j.state = "REQUESTED" /\ j.source = auth.revision)
      /\ RecoveryPoint(j) = "discard" => j.source # auth.revision
  BY DEF RecoveryPoint, RecordFrom, Phases, Terminal
<1>2. u \in Journal /\ u.state = "OUTCOME_UNKNOWN" /\ u.source = j.source
  <2>1. a \in Attempt
    BY AttemptTypes, IInvParts DEF Journal, FilesOK, Lanes
  <2> HIDE DEF a
  <2> QED BY <2>1, JournalTypes DEF JournalOf, Journal, Phases, Terminal, NoRevision
<1>3. RecoveryRecord(j) = IF j.state = "REQUESTED" /\ j.source = auth.revision THEN u ELSE j
  BY DEF RecoveryRecord
<1> HIDE DEF u
<1>4. RecoveryRecord(j) \in Journal /\ Created(RecoveryRecord(j))
  BY <1>2, <1>3 DEF Created
<1>5. HandFits(RecoveryPoint(j), RecoveryRecord(j))
  BY <1>1, <1>2, <1>3 DEF HandFits, Terminal
<1> QED BY <1>1, <1>3, <1>4, <1>5

\* Taking up the journal found on disk keeps IInv.
LEMMA ReconcileKeeps ==
  ASSUME IInv, NEW p \in Service, Around(p), Alone(p), journal' = journal,
         call[p] \in {"startup", "prepare"}, Readable(journal), Reconcile(p, Loaded(journal))
  PROVE  IInv'
<1> DEFINE l == RecoveryPoint(Loaded(journal))
           j == RecoveryRecord(Loaded(journal))
<1>1. /\ l \in {"drain", "enqueue", "discard", "forget", "replace", "write"}
      /\ j \in Journal /\ Created(j) /\ HandFits(l, j)
      /\ l = "replace" => /\ journal.state = "ROTATED"
                          /\ journal.source = j.source
                          /\ journal.succ = j.succ
  BY LoadedFits, ReconcileFits
<1>2. Goto(p, l, j)
  BY DEF Reconcile
<1> HIDE DEF l, j
<1>3. l \in InLock /\ CallFits(l, call[p], j)
  BY <1>1 DEF InLock, CallFits
<1> QED BY <1>1, <1>2, <1>3, GotoKeeps

\* Entering the startup reconciliation keeps IInv.
LEMMA RecoverStartupKeeps ==
  ASSUME IInv, NEW p \in Service, RecoverStartup(p)
  PROVE  IInv'
<1>1. pc[p] = "startup" /\ Alone(p) /\ Around(p) /\ call[p] = "startup"
  BY Entering, QuietAround, HandType DEF RecoverStartup, CallFits
<1>2. CASE Goto(p, "drain", NoJournal)
  <2>1. CallFits("drain", call[p], NoJournal)
    BY <1>1, NoJournalFits DEF Calls
  <2> QED BY <1>1, <1>2, <2>1, NoJournalFits, GotoKeeps
<1> QED BY <1>1, <1>2, LeaveKeeps DEF RecoverStartup

\* The startup reconciliation of the journal keeps IInv.
LEMMA RecoverStartupJournalKeeps ==
  ASSUME IInv, NEW p \in Service, RecoverStartupJournal(p)
  PROVE  IInv'
<1>1. pc[p] = "drain" /\ Alone(p) /\ Around(p) /\ call[p] = "startup" /\ journal' = journal
  BY Entering, QuietAround DEF RecoverStartupJournal, InLock, disk
<1>2. CASE Readable(journal) /\ Reconcile(p, Loaded(journal))
  BY <1>1, <1>2, ReconcileKeeps
<1> QED BY <1>1, <1>2, LeaveKeeps DEF RecoverStartupJournal

\* The preparation of a refresh keeps IInv.
LEMMA PrepareKeeps ==
  ASSUME IInv, NEW p \in Service, Prepare(p)
  PROVE  IInv'
<1> DEFINE Park == /\ pc' = [pc EXCEPT ![p] = "parked"]
                   /\ call' = [call EXCEPT ![p] = "none"]
                   /\ rev' = [rev EXCEPT ![p] = Loaded(journal).source]
                   /\ UNCHANGED <<hand, todo, sent, retained, life, got>>
<1>1. pc[p] = "due" /\ Alone(p) /\ Around(p) /\ call[p] = "prepare" /\ journal' = journal
  BY Entering, QuietAround, HandType DEF Prepare, CallFits, disk
<1>2. \/ Exit(p)
      \/ Goto(p, "drain", NoJournal)
      \/ Readable(journal) /\ Park
      \/ Readable(journal) /\ Reconcile(p, Loaded(journal))
  BY DEF Prepare, Readable, Corrupt
<1>3. CASE Goto(p, "drain", NoJournal)
  <2>1. CallFits("drain", call[p], NoJournal)
    BY <1>1, NoJournalFits DEF Calls
  <2> QED BY <1>1, <1>3, <2>1, NoJournalFits, GotoKeeps
<1>4. CASE Readable(journal) /\ Reconcile(p, Loaded(journal))
  BY <1>1, <1>4, ReconcileKeeps
<1>5. CASE Park
  <2>1. Shapes'
    BY <1>5, LoadedFits, IInvParts DEF Shapes, Journal, ControlPoints, Calls
  <2>2. LockExcludes'
    BY <1>5, IInvParts DEF LockExcludes, Shapes, Around, InLock, Prepare
  <2>3. ASSUME NEW q \in Service PROVE ProcessOK(q)'
    <3>1. CASE q = p
      <4>1. pc'[p] = "parked" /\ call'[p] = "none" /\ rev'[p] = Loaded(journal).source
        BY <1>5, IInvParts DEF Shapes
      <4>2. Loaded(journal).source < nextRevision
        BY LoadedFits DEF Created
      <4> QED BY <1>1, <1>5, <3>1, <4>1, <4>2, IInvParts
              DEF ProcessOK, HandFits, CallFits, Created, Pending, Around
    <3>2. CASE q # p
      <4>1. pc'[q] = pc[q] /\ call'[q] = call[q] /\ rev'[q] = rev[q]
        BY <1>5, <3>2, IInvParts DEF Shapes
      <4> QED BY <1>1, <1>5, <4>1, IInvParts
              DEF ProcessOK, Around, Created, Pending, HandFits, CallFits
    <3> QED BY <3>1, <3>2
  <2> QED BY <1>1, <2>1, <2>2, <2>3, IInvPartsNext DEF Around
<1> QED BY <1>1, <1>2, <1>3, <1>4, <1>5, ExitKeeps

\* The first dispatch of a revision keeps IInv.
LEMMA BeginDispatchKeeps ==
  ASSUME IInv, NEW p \in Service, BeginDispatch(p)
  PROVE  IInv'
<1> DEFINE a == OwnedBy(NormalAttempt(now), life[p])
           j == JournalOf("RESERVED", auth.revision, NoRevision, a)
<1>1. pc[p] = "drain" /\ Alone(p) /\ Around(p) /\ call[p] = "prepare"
  BY Entering, QuietAround DEF BeginDispatch, InLock
<1>2. CASE Goto(p, "reserve", j)
  <2>1. a \in Attempt
    BY FreshAttemptTypes, AttemptTypes, IInvParts DEF FilesOK, Shapes
  <2> HIDE DEF a
  <2>2. j \in Journal /\ j.state = "RESERVED" /\ j.source = auth.revision
    BY <2>1, JournalTypes, IInvParts DEF JournalOf, FilesOK, Credential, Phases, NoRevision
  <2> HIDE DEF j
  <2>3. /\ Created(j) /\ HandFits("reserve", j) /\ CallFits("reserve", call[p], j)
        /\ "reserve" \in InLock
    BY <1>1, <2>2, IInvParts DEF Created, HandFits, CallFits, FilesOK, InLock
  <2> QED BY <1>1, <1>2, <2>2, <2>3, GotoKeeps
<1> QED BY <1>1, <1>2, LeaveKeeps DEF BeginDispatch

\* Choosing what to do with an unknown outcome keeps IInv.
LEMMA RecoverUnknownKeeps ==
  ASSUME IInv, NEW p \in Service, RecoverUnknown(p)
  PROVE  IInv'
<1> DEFINE a == hand[p].attempt
           stopped == [hand[p] EXCEPT !.enqueued = FALSE, !.attempt = StoppedAttempt(a)]
           next == [hand[p] EXCEPT !.attempt = NextRecoveryAttempt(a)]
<1>1. pc[p] = "recover" /\ Alone(p) /\ Around(p) /\ call[p] = "prepare"
  BY Entering, QuietAround, HandType DEF RecoverUnknown, InLock, CallFits
<1>2. \/ Goto(p, "stop", stopped)
      \/ Return(p, "idle", Nothing)
      \/ a.cont \in Lanes /\ Goto(p, "authorize", next)
  BY DEF RecoverUnknown, HasNextAttempt
<1>3. a \in Attempt /\ now \in Nat
  BY HandType, IInvParts DEF FilesOK
<1>4. CASE Goto(p, "stop", stopped)
  <2>1. StoppedAttempt(a) \in Attempt
    BY <1>3, AttemptTypes
  <2>2. stopped \in Journal /\ Created(stopped)
    BY <2>1, HandType DEF Journal, Created
  <2>3. HandFits("stop", stopped) /\ CallFits("stop", call[p], stopped) /\ "stop" \in InLock
    BY <1>1 DEF HandFits, CallFits, InLock
  <2> HIDE DEF stopped
  <2> QED BY <1>1, <1>4, <2>2, <2>3, GotoKeeps
<1>5. CASE a.cont \in Lanes /\ Goto(p, "authorize", next)
  <2>1. NextRecoveryAttempt(a) \in Attempt
    BY <1>3, <1>5, AttemptTypes
  <2>2. next \in Journal /\ Created(next)
    BY <2>1, HandType DEF Journal, Created
  <2>3. /\ HandFits("authorize", next) /\ CallFits("authorize", call[p], next)
        /\ "authorize" \in InLock
    BY <1>1 DEF HandFits, CallFits, InLock
  <2> HIDE DEF next
  <2> QED BY <1>1, <1>5, <2>2, <2>3, GotoKeeps
<1> QED BY <1>1, <1>2, <1>4, <1>5, LeaveKeeps

\* The state machine's authorisation keeps IInv.
LEMMA AuthorizeRecoveryDispatchKeeps ==
  ASSUME IInv, NEW p \in Service, AuthorizeRecoveryDispatch(p)
  PROVE  IInv'
<1> DEFINE a == OwnedBy(hand[p].attempt, life[p])
           j == JournalOf("RESERVED", hand[p].source, NoRevision, a)
<1>1. pc[p] = "authorize" /\ Alone(p) /\ Around(p) /\ call[p] = "prepare"
  BY Entering, QuietAround, HandType DEF AuthorizeRecoveryDispatch, InLock, CallFits
<1>2. CASE Goto(p, "reserve", j)
  <2>1. a \in Attempt
    BY HandType, AttemptTypes, IInvParts DEF Shapes
  <2> HIDE DEF a
  <2>2. j \in Journal /\ j.state = "RESERVED" /\ j.source = hand[p].source
    BY <2>1, JournalTypes, HandType DEF JournalOf, Phases, NoRevision
  <2> HIDE DEF j
  <2>3. /\ Created(j) /\ HandFits("reserve", j) /\ CallFits("reserve", call[p], j)
        /\ "reserve" \in InLock
    BY <1>1, <2>2, HandType DEF Created, HandFits, CallFits, InLock
  <2> QED BY <1>1, <1>2, <2>2, <2>3, GotoKeeps
<1> QED BY <1>1, <1>2, ExitKeeps DEF AuthorizeRecoveryDispatch

\* Journaling an exhausted recovery keeps IInv.
LEMMA StopRecoveryKeeps ==
  ASSUME IInv, NEW p \in Service, StopRecovery(p)
  PROVE  IInv'
<1>1. pc[p] \in InLock /\ WriteJournal(p, Return(p, "parked", Nothing))
  BY DEF StopRecovery, InLock
<1>2. PICK o : Ends(p, o, Return(p, "parked", Nothing))
  BY <1>1, WriteJournalAround
<1>3. Around(p)
  BY <1>1, WriteJournalAround
<1> QED BY <1>2, <1>3, LeaveKeeps, EndsKeeps

\* Journaling the reservation keeps IInv.
LEMMA ReserveKeeps ==
  ASSUME IInv, NEW p \in Service, Reserve(p)
  PROVE  IInv'
<1> DEFINE j == [hand[p] EXCEPT !.state = "REQUESTED"]
<1>1. j \in Journal /\ Created(j) /\ j.state = "REQUESTED"
  BY HandType DEF Journal, Created, Phases
<1>2. /\ pc[p] = "reserve" /\ pc[p] \in InLock /\ call[p] = "prepare"
      /\ WriteJournal(p, Goto(p, "request", j))
  BY HandType DEF Reserve, InLock, CallFits
<1> HIDE DEF j
<1>3. PICK o : Ends(p, o, Goto(p, "request", j))
  BY <1>2, WriteJournalAround
<1>4. Around(p) /\ Alone(p)
  BY <1>2, WriteJournalAround
<1>5. HandFits("request", j) /\ CallFits("request", call[p], j) /\ "request" \in InLock
  BY <1>2 DEF HandFits, CallFits, InLock
<1>6. ASSUME Goto(p, "request", j) PROVE IInv'
  BY <1>1, <1>4, <1>5, <1>6, GotoKeeps
<1> QED BY <1>3, <1>4, <1>6, EndsKeeps

\* Journaling the request keeps IInv.
LEMMA RequestKeeps ==
  ASSUME IInv, NEW p \in Service, Request(p)
  PROVE  IInv'
<1>1. pc[p] \in InLock /\ WriteJournal(p, Return(p, "dispatch", Nothing))
  BY DEF Request, InLock
<1>2. PICK o : Ends(p, o, Return(p, "dispatch", Nothing))
  BY <1>1, WriteJournalAround
<1>3. Around(p)
  BY <1>1, WriteJournalAround
<1> QED BY <1>2, <1>3, LeaveKeeps, EndsKeeps

\* A step that moves process p alone, to a point outside the lock or from one.
LEMMA MoveKeeps ==
  ASSUME IInv, NEW p \in Service, NEW l \in ControlPoints,
         FilesOK', Shapes', ProcessOK(p)',
         cli' = cli, journal' = journal, nextRevision' >= nextRevision,
         pc' = [pc EXCEPT ![p] = l], l \in InLock => Alone(p),
         \A q \in Service : q # p => /\ call'[q] = call[q] /\ rev'[q] = rev[q]
                                     /\ hand'[q] = hand[q] /\ retained'[q] = retained[q]
  PROVE  IInv'
<1>1. LockExcludes'
  BY IInvParts DEF LockExcludes, Shapes, Alone
<1>2. ASSUME NEW q \in Service PROVE ProcessOK(q)'
  <2>1. CASE q # p
    <3>1. /\ pc'[q] = pc[q] /\ call'[q] = call[q] /\ rev'[q] = rev[q]
          /\ hand'[q] = hand[q] /\ retained'[q] = retained[q]
      BY <2>1, IInvParts DEF Shapes
    <3>2. /\ nextRevision \in Nat /\ nextRevision' \in Nat
          /\ rev[q] \in Nat /\ hand[q] \in Journal /\ retained[q] \in Successor
      BY IInvParts DEF FilesOK, Shapes
    <3> QED BY <3>1, <3>2, IInvParts
            DEF ProcessOK, Created, Pending, HandFits, CallFits, Journal, Successor
  <2> QED BY <2>1
<1> QED BY <1>1, <1>2, IInvPartsNext

\* A process start keeps IInv.
LEMMA StartKeeps ==
  ASSUME IInv, NEW p \in Service, Start(p)
  PROVE  IInv'
<1>1. /\ UNCHANGED <<auth, journal, outbox, cli, now, nextRevision, crashes, faults, history>>
      /\ starts' = starts + 1
  BY DEF Start, disk
<1>2. FilesOK'
  BY <1>1, IInvParts DEF FilesOK, Created, ImportFits, history
<1>3. Shapes'
  BY IInvParts DEF Start, Shapes, FilesOK, ControlPoints, Calls
<1>4. ProcessOK(p)'
  <2>1. pc'[p] = "startup" /\ call'[p] = "startup" /\ UNCHANGED <<rev, hand, retained>>
    BY IInvParts DEF Start, Shapes
  <2> QED BY <1>1, <2>1, IInvParts DEF ProcessOK, HandFits, CallFits, Created, Pending
<1>5. "startup" \in ControlPoints \ InLock
  BY DEF ControlPoints, InLock
<1>6. nextRevision' >= nextRevision
  BY <1>1, IInvParts DEF FilesOK
<1>7. ASSUME NEW q \in Service, q # p
      PROVE  /\ call'[q] = call[q] /\ rev'[q] = rev[q]
             /\ hand'[q] = hand[q] /\ retained'[q] = retained[q]
  BY <1>7, IInvParts DEF Start, Shapes
<1> QED BY <1>1, <1>2, <1>3, <1>4, <1>5, <1>6, <1>7, MoveKeeps DEF Start

\* A refresh that becomes due keeps IInv.
LEMMA ScheduleKeeps ==
  ASSUME IInv, NEW p \in Service, Schedule(p)
  PROVE  IInv'
<1>1. Around(p) /\ nextRevision' = nextRevision /\ journal' = journal /\ cli' = cli
  BY QuietAround DEF Schedule, counter, disk
<1>2. Shapes'
  BY IInvParts DEF Schedule, Shapes, FilesOK, ControlPoints, Calls, Credential
<1>3. ProcessOK(p)'
  <2>1. /\ pc'[p] = "due" /\ call'[p] = "prepare" /\ rev'[p] = auth.revision
        /\ UNCHANGED <<hand, retained>>
    BY IInvParts DEF Schedule, Shapes
  <2> QED BY <1>1, <2>1, IInvParts DEF ProcessOK, HandFits, CallFits, Created, Pending, FilesOK
<1>4. "due" \in ControlPoints \ InLock
  BY DEF ControlPoints, InLock
<1>5. nextRevision' >= nextRevision
  BY <1>1, IInvParts DEF FilesOK
<1>6. ASSUME NEW q \in Service, q # p
      PROVE  /\ call'[q] = call[q] /\ rev'[q] = rev[q]
             /\ hand'[q] = hand[q] /\ retained'[q] = retained[q]
  BY <1>6, IInvParts DEF Schedule, Shapes
<1> QED BY <1>1, <1>2, <1>3, <1>4, <1>5, <1>6, MoveKeeps DEF Schedule, Around

\* The refresh POST keeps IInv.
LEMMA PostKeeps ==
  ASSUME IInv, NEW p \in Service, Post(p)
  PROVE  IInv'
<1>1. /\ UNCHANGED <<auth, journal, outbox, cli, now, nextRevision, starts, crashes, faults,
                     spent, owed>>
      /\ posts' \in {posts, posts + 1}
  BY DEF Post, disk, counter
<1>2. FilesOK'
  BY <1>1, IInvParts DEF FilesOK, Created, ImportFits
<1>3. Shapes'
  BY IInvParts DEF Post, Shapes, ControlPoints
<1>4. ProcessOK(p)'
  <2>1. pc'[p] = "exchange" /\ UNCHANGED <<call, rev, hand, retained>>
    BY IInvParts DEF Post, Shapes
  <2> QED BY <1>1, <2>1, IInvParts DEF ProcessOK, HandFits, CallFits, Created, Pending
<1>5. "exchange" \in ControlPoints \ InLock
  BY DEF ControlPoints, InLock
<1>6. nextRevision' >= nextRevision
  BY <1>1, IInvParts DEF FilesOK
<1> QED BY <1>1, <1>2, <1>3, <1>4, <1>5, <1>6, MoveKeeps DEF Post

\* An answer to the POST, as the exchange hands it to the commit.
LEMMA AnsweredKeeps ==
  ASSUME IInv, NEW p \in Service, NEW c \in Calls \ {"startup", "prepare"}, NEW j \in Journal,
         Answered(p, c, j), HandFits("commit", j), CallFits("commit", c, j),
         nextRevision' \in Nat, nextRevision' >= nextRevision, got' \in [Service -> Successor],
         j.source < nextRevision',
         j.state = "ROTATED" => j.source < j.succ /\ j.succ < nextRevision'
  PROVE  IInv'
<1>1. UNCHANGED <<auth, journal, outbox, cli, now, starts, crashes, faults, posts, spent, owed>>
  BY DEF Answered, disk
<1>2. FilesOK'
  BY <1>1, IInvParts DEF FilesOK, Created, ImportFits, Journal, Credential
<1>3. Shapes'
  BY IInvParts DEF Answered, Shapes, ControlPoints
<1>4. ProcessOK(p)'
  <2>1. pc'[p] = "commit" /\ call'[p] = c /\ hand'[p] = j /\ UNCHANGED <<rev, retained>>
    BY IInvParts DEF Answered, Shapes
  <2>2. rev[p] < nextRevision' /\ (Pending(retained[p]))'
    <3>1. /\ rev[p] \in Nat /\ retained[p] \in Successor /\ nextRevision \in Nat
          /\ rev[p] < nextRevision /\ Pending(retained[p])
      BY IInvParts DEF Shapes, ProcessOK, FilesOK
    <3> QED BY <2>1, <3>1 DEF Pending, Successor
  <2> QED BY <2>1, <2>2 DEF ProcessOK, Created
<1>5. "commit" \in ControlPoints \ InLock
  BY DEF ControlPoints, InLock
<1>6. ASSUME NEW q \in Service, q # p
      PROVE  /\ call'[q] = call[q] /\ rev'[q] = rev[q]
             /\ hand'[q] = hand[q] /\ retained'[q] = retained[q]
  BY <1>6, IInvParts DEF Answered, Shapes
<1> QED BY <1>1, <1>2, <1>3, <1>4, <1>5, <1>6, MoveKeeps DEF Answered

\* A complete successor, a revision newer than its source, keeps IInv.
LEMMA ExchangeSucceededKeeps ==
  ASSUME IInv, NEW p \in Service, ExchangeSucceeded(p)
  PROVE  IInv'
<1> DEFINE j == JournalOf("ROTATED", rev[p], nextRevision, UnbudgetedAttempt)
<1>1. rev[p] \in Nat /\ nextRevision \in Nat /\ rev[p] < nextRevision
  BY IInvParts DEF Shapes, FilesOK, ProcessOK
<1>2. /\ j \in Journal /\ j.state = "ROTATED" /\ j.source = rev[p] /\ j.succ = nextRevision
  BY <1>1, JournalTypes, FreshAttemptTypes DEF JournalOf, Phases, Terminal
<1>3. Answered(p, "success", j) /\ nextRevision' = nextRevision + 1
  BY DEF ExchangeSucceeded
<1>4. got' \in [Service -> Successor]
  BY <1>1, IInvParts DEF ExchangeSucceeded, Shapes, Successor
<1> HIDE DEF j
<1>5. HandFits("commit", j) /\ CallFits("commit", "success", j) /\ "success" \in Calls
  BY <1>2 DEF HandFits, CallFits, Terminal, Calls
<1> QED BY <1>1, <1>2, <1>3, <1>4, <1>5, AnsweredKeeps

\* A rejected exchange keeps IInv.
LEMMA ExchangeRejectedKeeps ==
  ASSUME IInv, NEW p \in Service, ExchangeRejected(p)
  PROVE  IInv'
<1> DEFINE j == JournalOf("REJECTED", rev[p], NoRevision, UnbudgetedAttempt)
<1>1. rev[p] \in Nat /\ nextRevision \in Nat /\ rev[p] < nextRevision
  BY IInvParts DEF Shapes, FilesOK, ProcessOK
<1>2. j \in Journal /\ j.state = "REJECTED" /\ j.source = rev[p]
  BY <1>1, JournalTypes, FreshAttemptTypes DEF JournalOf, Phases, Terminal, NoRevision
<1>3. Answered(p, "rejected", j) /\ nextRevision' = nextRevision
  BY DEF ExchangeRejected
<1>4. got' \in [Service -> Successor]
  BY IInvParts DEF ExchangeRejected, Shapes
<1> HIDE DEF j
<1>5. HandFits("commit", j) /\ CallFits("commit", "rejected", j) /\ "rejected" \in Calls
  BY <1>2 DEF HandFits, CallFits, Terminal, Calls
<1> QED BY <1>1, <1>2, <1>3, <1>4, <1>5, AnsweredKeeps

\* An exchange with an unknown outcome keeps IInv.
LEMMA ExchangeOutcomeUnknownKeeps ==
  ASSUME IInv, NEW p \in Service, ExchangeOutcomeUnknown(p)
  PROVE  IInv'
<1>1. rev[p] \in Nat /\ nextRevision \in Nat /\ rev[p] < nextRevision
  BY IInvParts DEF Shapes, FilesOK, ProcessOK
<1>2. PICK c \in {"unknown", "transport", "cancel"}, lane \in Lanes :
        Answered(p, c, JournalOf("OUTCOME_UNKNOWN", rev[p], NoRevision,
                                 [UnbudgetedAttempt EXCEPT !.cont = lane]))
  BY DEF ExchangeOutcomeUnknown
<1> DEFINE a == [UnbudgetedAttempt EXCEPT !.cont = lane]
           j == JournalOf("OUTCOME_UNKNOWN", rev[p], NoRevision, a)
<1>3. a \in Attempt /\ a.cont = lane
  BY FreshAttemptTypes DEF Attempt
<1>4. Answered(p, c, j)
  BY <1>2
<1> HIDE DEF a
<1>5. j \in Journal /\ j.state = "OUTCOME_UNKNOWN" /\ j.source = rev[p] /\ j.attempt = a
  BY <1>1, <1>3, JournalTypes DEF JournalOf, Phases, Terminal, NoRevision
<1> HIDE DEF j
<1>6. got' \in [Service -> Successor] /\ nextRevision' = nextRevision
  BY IInvParts DEF ExchangeOutcomeUnknown, Shapes
<1>7. HandFits("commit", j) /\ CallFits("commit", c, j) /\ c \in Calls \ {"startup", "prepare"}
  BY <1>3, <1>5 DEF HandFits, CallFits, Terminal, Calls
<1> QED BY <1>1, <1>4, <1>5, <1>6, <1>7, AnsweredKeeps

\* A step that counts a fault and changes no file.
LEMMA FaultAround ==
  ASSUME IInv, NEW p \in Service, faults' = faults + 1,
         UNCHANGED <<disk, cli, now, nextRevision, starts, crashes, history>>
  PROVE  Around(p)
BY IInvParts DEF disk, history, Around, FilesOK, Created, ImportFits

\* The budget a commit starts from is an attempt.
LEMMA AttemptForSourceType ==
  ASSUME IInv, NEW source \in Nat
  PROVE  AttemptForSource(source) \in Attempt
BY LoadedFits, FreshAttemptTypes DEF AttemptForSource, Journal

\* Beginning to commit with budget a keeps IInv.
LEMMA CommitWithKeeps ==
  ASSUME IInv, NEW p \in Service, NEW a \in Attempt, pc[p] = "commit",
         Alone(p), Around(p), CommitWith(p, a)
  PROVE  IInv'
<1> DEFINE b == IF hand[p].state = "OUTCOME_UNKNOWN"
                THEN WithContinuation(a, hand[p].attempt.cont, now)
                ELSE WithoutOwner(a)
           j == [hand[p] EXCEPT !.attempt = b]
<1>1. b \in Attempt
  BY HandType, AttemptTypes, IInvParts DEF HandFits, FilesOK
<1>2. Goto(p, "write", j)
  BY DEF CommitWith
<1> HIDE DEF b
<1>3. /\ j \in Journal /\ j.state = hand[p].state /\ j.source = hand[p].source
      /\ j.succ = hand[p].succ
  BY <1>1, HandType DEF Journal
<1> HIDE DEF j
<1>4. /\ Created(j) /\ HandFits("write", j) /\ CallFits("write", call[p], j)
      /\ "write" \in InLock
  BY <1>3, HandType DEF Created, HandFits, CallFits, InLock
<1> QED BY <1>2, <1>3, <1>4, GotoKeeps

\* The entry into a commit keeps IInv.
LEMMA CommitKeeps ==
  ASSUME IInv, NEW p \in Service, Commit(p)
  PROVE  IInv'
<1>1. pc[p] = "commit" /\ Alone(p) /\ Around(p)
  BY Entering, QuietAround DEF Commit
<1>2. AttemptForSource(rev[p]) \in Attempt
  BY AttemptForSourceType, IInvParts DEF Shapes
<1>3. CASE CommitSuperseded(p)
  BY <1>1, <1>3, LeaveKeeps DEF CommitSuperseded
<1> QED BY <1>1, <1>2, <1>3, CommitWithKeeps DEF Commit

\* A commit one of whose reads fails keeps IInv.
LEMMA CommitUnreadKeeps ==
  ASSUME IInv, NEW p \in Service, CommitUnread(p)
  PROVE  IInv'
<1>1. pc[p] = "commit" /\ Alone(p) /\ Around(p)
  BY Entering, FaultAround DEF CommitUnread
<1>2. UnbudgetedAttempt \in Attempt
  BY FreshAttemptTypes
<1>3. CASE CommitSuperseded(p)
  BY <1>1, <1>3, LeaveKeeps DEF CommitSuperseded
<1> QED BY <1>1, <1>2, <1>3, CommitWithKeeps DEF CommitUnread

\* Beginning to project a retained successor keeps IInv.
LEMMA ProjectRetainedKeeps ==
  ASSUME IInv, NEW p \in Service, ProjectRetained(p)
  PROVE  IInv'
<1> DEFINE r == retained[p]
           a == WithoutOwner(AttemptForSource(r.source))
           j == JournalOf("ROTATED", r.source, r.succ, a)
           l == IF auth.revision = r.succ THEN "enqueue" ELSE "write"
<1>1. /\ pc[p] = "idle" /\ Alone(p) /\ Around(p)
      /\ nextRevision' = nextRevision /\ journal' = journal /\ cli' = cli
  BY Entering, QuietAround DEF ProjectRetained, counter, disk
<1>2. CASE Return(p, "idle", Nothing)
  BY <1>1, <1>2, LeaveKeeps
<1>3. CASE /\ pc' = [pc EXCEPT ![p] = l]
           /\ call' = [call EXCEPT ![p] = "project"]
           /\ hand' = [hand EXCEPT ![p] = j]
           /\ UNCHANGED <<rev, todo, sent, retained, life, got>>
  <2>1. /\ r.source \in Nat /\ r.succ \in Nat /\ nextRevision \in Nat
        /\ r.source < r.succ /\ r.succ < nextRevision
    BY IInvParts DEF ProjectRetained, Shapes, Successor, ProcessOK, Pending, FilesOK
  <2>2. a \in Attempt
    BY <2>1, AttemptForSourceType, AttemptTypes, IInvParts DEF FilesOK
  <2> HIDE DEF a
  <2>3. j \in Journal /\ j.state = "ROTATED" /\ j.source = r.source /\ j.succ = r.succ
    BY <2>1, <2>2, JournalTypes DEF JournalOf, Phases, Terminal
  <2> HIDE DEF j
  <2>4. Shapes'
    BY <1>3, <2>3, IInvParts DEF Shapes, ControlPoints, InLock, Calls
  <2>5. ProcessOK(p)'
    <3>1. pc'[p] = l /\ call'[p] = "project" /\ hand'[p] = j /\ UNCHANGED <<rev, retained>>
      BY <1>3, IInvParts DEF Shapes
    <3> QED BY <1>1, <2>1, <2>3, <3>1, IInvParts
            DEF ProcessOK, HandFits, CallFits, Created, Pending, Terminal
  <2>6. l \in ControlPoints /\ nextRevision' >= nextRevision
    BY <1>1, <2>1 DEF ControlPoints, InLock
  <2>7. ASSUME NEW q \in Service, q # p
        PROVE  /\ call'[q] = call[q] /\ rev'[q] = rev[q]
               /\ hand'[q] = hand[q] /\ retained'[q] = retained[q]
    BY <1>3, <2>7, IInvParts DEF Shapes
  <2> HIDE DEF l
  <2> QED BY <1>1, <1>3, <2>4, <2>5, <2>6, <2>7, MoveKeeps DEF Around
<1> QED BY <1>2, <1>3 DEF ProjectRetained

\* A failing read or lock, unparking and a kill keep IInv.
LEMMA OtherProcessSteps ==
  ASSUME IInv, NEW p \in Service,
         ProjectUnread(p) \/ ReadFails(p) \/ LockFails(p) \/ Unpark(p) \/ Crash(p)
  PROVE  IInv'
<1>1. CASE ProjectUnread(p)
  <2>1. Around(p)
    BY <1>1, FaultAround DEF ProjectUnread
  <2> QED BY <1>1, <2>1, LeaveKeeps DEF ProjectUnread
<1>2. CASE LockFails(p)
  <2>1. Around(p)
    BY <1>2, FaultAround DEF LockFails
  <2> QED BY <1>2, <2>1, RaiseKeeps DEF LockFails
<1>3. CASE Unpark(p)
  <2>1. Around(p)
    BY <1>3, QuietAround DEF Unpark
  <2> QED BY <1>3, <2>1, LeaveKeeps DEF Unpark
<1>4. CASE Crash(p)
  <2>1. Around(p)
    BY <1>4, IInvParts DEF Crash, disk, history, Around, FilesOK, Created, ImportFits
  <2> QED BY <1>4, <2>1, ExitKeeps DEF Crash
<1>5. CASE ReadFails(p)
  <2>1. Around(p)
    BY <1>5, FaultAround DEF ReadFails
  <2> QED BY <1>5, <2>1, LeaveKeeps, ExitKeeps, RaiseKeeps DEF ReadFails
<1> QED BY <1>1, <1>2, <1>3, <1>4, <1>5

\* A step that changes no process: the importing command, or the clock.
LEMMA QuietProcessKeeps ==
  ASSUME IInv, UNCHANGED process, FilesOK', nextRevision' >= nextRevision,
         cli' = cli \/ (\A q \in Service : pc[q] \notin InLock),
         journal' = journal \/ (\A q \in Service : pc[q] \notin InLock)
  PROVE  IInv'
<1>1. Shapes'
  BY IInvParts DEF Shapes, process
<1>2. LockExcludes'
  BY IInvParts DEF LockExcludes, process
<1>3. ASSUME NEW q \in Service PROVE ProcessOK(q)'
  <2>1. /\ nextRevision \in Nat /\ nextRevision' \in Nat
        /\ rev[q] \in Nat /\ hand[q] \in Journal /\ retained[q] \in Successor
    BY IInvParts DEF FilesOK, Shapes
  <2> QED BY <2>1, IInvParts
          DEF process, ProcessOK, Created, Pending, HandFits, CallFits, Journal, Successor, InLock
<1> QED BY <1>1, <1>2, <1>3, IInvPartsNext

\* The importing command holds the lock between its first and its last step.
LEMMA ImportHoldsLock ==
  ASSUME IInv, cli # "idle" \/ LockFree
  PROVE  \A q \in Service : pc[q] \notin InLock
BY IInvParts DEF LockExcludes, LockFree

\* Every step of an import keeps IInv.
LEMMA ImportKeeps ==
  ASSUME IInv, Import
  PROVE  IInv'
<1>1. CASE ImportCredential
  <2>1. /\ \A q \in Service : pc[q] \notin InLock
        /\ nextRevision' = nextRevision + 1
        /\ UNCHANGED <<journal, outbox, process, now, starts, crashes, spent, owed>>
    BY <1>1, ImportHoldsLock DEF ImportCredential
  <2>2. PICK kind \in ImportKinds :
          /\ auth' \in {auth, [revision |-> nextRevision, kind |-> kind]}
          /\ posts' \in {posts, 0}
          /\ faults' \in {faults, faults + 1}
          /\ \/ cli' \in {"idle", "forget"}
             \/ cli' = "enqueue" /\ UnrecordedOutcome(journal)
    BY <1>1 DEF ImportCredential, CliEnds
  <2>3. auth' \in Credential /\ auth'.revision < nextRevision'
    BY <2>1, <2>2, IInvParts, BoundsAssumption DEF FilesOK, Credential
  <2>4. ImportFits'
    BY <2>1, <2>2 DEF ImportFits, UnrecordedOutcome
  <2>5. Created(journal)'
    BY <2>1, IInvParts DEF FilesOK, Created, Journal
  <2>6. FilesOK'
    BY <2>1, <2>2, <2>3, <2>4, <2>5, IInvParts DEF FilesOK
  <2> QED BY <2>1, <2>6, IInvParts, QuietProcessKeeps DEF FilesOK
<1>2. CASE ImportEnqueue
  <2> DEFINE key == EventKey(Loaded(journal))
  <2>1. /\ \A q \in Service : pc[q] \notin InLock
        /\ UNCHANGED <<auth, journal, process, now, nextRevision, starts, crashes, history>>
        /\ cli = "enqueue"
    BY <1>2, ImportHoldsLock DEF ImportEnqueue
  <2>2. /\ outbox' \in {outbox, outbox \cup {key}}
        /\ cli' \in {"idle", "forget"}
        /\ faults' \in {faults, faults + 1}
    BY <1>2 DEF ImportEnqueue, CliEnds
  <2>3. key \in Keys
    BY <2>1, LoadedFits, IInvParts DEF FilesOK, ImportFits, EventKey, Keys, Journal
  <2> HIDE DEF key
  <2>4. FilesOK'
    BY <2>1, <2>2, <2>3, IInvParts DEF FilesOK, Created, ImportFits, history
  <2> QED BY <2>1, <2>4, IInvParts, QuietProcessKeeps DEF FilesOK
<1>3. CASE ImportForget
  <2>1. /\ \A q \in Service : pc[q] \notin InLock
        /\ UNCHANGED <<auth, outbox, process, now, nextRevision, starts, crashes, history>>
        /\ journal' \in {journal, NoJournal}
        /\ cli' = "idle"
        /\ faults' \in {faults, faults + 1}
    BY <1>3, ImportHoldsLock DEF ImportForget, CliEnds
  <2>2. NoJournal \in Journal /\ Created(NoJournal)
    BY NoJournalFits
  <2>3. FilesOK'
    BY <2>1, <2>2, IInvParts DEF FilesOK, Created, ImportFits, history
  <2> QED BY <2>1, <2>3, IInvParts, QuietProcessKeeps DEF FilesOK
<1>4. CASE ImportCrash
  <2>1. /\ \A q \in Service : pc[q] \notin InLock
        /\ UNCHANGED <<auth, journal, outbox, process, now, nextRevision, starts, faults, history>>
        /\ crashes' = crashes + 1 /\ cli' = "idle"
    BY <1>4, ImportHoldsLock DEF ImportCrash, disk
  <2>2. FilesOK'
    BY <2>1, IInvParts DEF FilesOK, Created, ImportFits, history
  <2> QED BY <2>1, <2>2, IInvParts, QuietProcessKeeps DEF FilesOK
<1> QED BY <1>1, <1>2, <1>3, <1>4 DEF Import

\* The clock keeps IInv.
LEMMA TickKeeps ==
  ASSUME IInv, Tick
  PROVE  IInv'
<1>1. FilesOK'
  BY IInvParts DEF Tick, disk, history, FilesOK, Created, ImportFits
<1> QED BY <1>1, IInvParts, QuietProcessKeeps DEF Tick, FilesOK, disk

-----------------------------------------------------------------------------
(* The inductive invariant, and type correctness.                           *)

\* A journal an earlier release left is one, for a revision that exists.
LEMMA LegacyJournalTypes ==
  \A j \in LegacyJournals :
    /\ j \in Journal
    /\ j.source = 1
    /\ j.state = "ROTATED" => j.succ = 2
<1>1. NoJournal \in Journal
  BY JournalTypes
<1>2. TAKE j \in LegacyJournals
<1>3. PICK st \in Phases, enq \in BOOLEAN : j = LegacyJournal(st, enq)
  BY DEF LegacyJournals, Phases
<1>4. enq \in BOOLEAN
  OBVIOUS
<1> QED BY <1>1, <1>3, <1>4 DEF LegacyJournal, Journal, NoRevision

\* The initial states satisfy IInv.
LEMMA InitIInv == Init => IInv
<1> SUFFICES ASSUME Init PROVE IInv
  OBVIOUS
<1>1. auth \in Credential /\ auth.revision < nextRevision
  <2>1. PICK k \in InitialKinds, r \in {1, 2} :
          auth = [revision |-> IF k = "absent" THEN NoRevision ELSE r, kind |-> k]
    BY DEF Init
  <2> QED BY <2>1, BoundsAssumption DEF Init, Credential, NoRevision
<1>2. journal \in Journal /\ Created(journal)
  <2>1. CASE journal \in LegacyJournals
    BY <2>1, LegacyJournalTypes DEF Init, Created
  <2>2. CASE journal = NoJournal
    <3>1. NoJournal \in Journal /\ NoJournal.source = 0 /\ NoJournal.state = "ABSENT"
      BY JournalTypes DEF NoJournal, NoRevision
    <3> QED BY <2>2, <3>1 DEF Init, Created
  <2> QED BY <2>1, <2>2 DEF Init
<1>3. owed \subseteq Keys /\ spent \subseteq Nat
  BY <1>2 DEF Init, EventKey, Keys, Journal
<1>4. FilesOK
  BY <1>1, <1>2, <1>3 DEF Init, FilesOK, ImportFits
<1>5. Shapes
  <2>1. NoJournal \in Journal
    BY JournalTypes
  <2> QED BY <2>1 DEF Init, Shapes, ControlPoints, Calls, Keys, NoKey, Terminal, NoRevision,
                      Nothing, Successor, NoOwner
<1>6. LockExcludes
  BY DEF Init, LockExcludes, InLock
<1>7. ASSUME NEW p \in Service PROVE ProcessOK(p)
  <2>1. /\ pc[p] = "down" /\ call[p] = "none" /\ hand[p] = NoJournal /\ rev[p] = 0
        /\ retained[p] = Nothing /\ nextRevision = 3
    BY DEF Init, NoRevision
  <2> QED BY <2>1 DEF ProcessOK, HandFits, CallFits, Created, Pending, NoJournal, NoRevision
<1> QED BY <1>4, <1>5, <1>6, <1>7, IInvParts

\* Every step, or stutter, keeps IInv.
LEMMA NextIInv == IInv /\ [Next]_vars => IInv'
<1> SUFFICES ASSUME IInv, [Next]_vars PROVE IInv'
  OBVIOUS
<1>1. CASE UNCHANGED vars
  <2>1. /\ UNCHANGED <<auth, journal, outbox, cli, now, nextRevision, starts, crashes, faults>>
        /\ UNCHANGED process /\ UNCHANGED history
    BY <1>1 DEF vars, disk, counter
  <2>2. FilesOK'
    BY <2>1, IInvParts DEF FilesOK, Created, ImportFits, history
  <2> QED BY <2>1, <2>2, IInvParts, QuietProcessKeeps DEF FilesOK
<1>2. ASSUME NEW p \in Service, Transaction(p) PROVE IInv'
  BY <1>2, WriteOutcomeKeeps, ReplaceKeeps, EnqueueOutcomeKeeps, MarkEnqueuedKeeps,
     ForgetJournalKeeps, DeliverRefusedKeeps, DeliverAcceptedKeeps, AcknowledgeKeeps,
     EndRecordKeeps, DeleteRotatedKeeps, RecoverStartupJournalKeeps, BeginDispatchKeeps,
     RecoverUnknownKeeps, AuthorizeRecoveryDispatchKeeps, StopRecoveryKeeps, ReserveKeeps,
     RequestKeeps
     DEF Transaction
<1>3. ASSUME NEW p \in Service, Entry(p) PROVE IInv'
  BY <1>3, RecoverStartupKeeps, PrepareKeeps, CommitKeeps, CommitUnreadKeeps,
     ProjectRetainedKeeps, OtherProcessSteps DEF Entry
<1>4. ASSUME NEW p \in Service, Exchange(p) PROVE IInv'
  BY <1>4, PostKeeps, ExchangeSucceededKeeps, ExchangeRejectedKeeps,
     ExchangeOutcomeUnknownKeeps DEF Exchange
<1> QED BY <1>1, <1>2, <1>3, <1>4, StartKeeps, ScheduleKeeps, OtherProcessSteps, ImportKeeps,
           TickKeeps DEF Next

\* IInv holds in every reachable state: the lock excludes, the record in memory
\* suits the point of the call, the journal names a rotation before the
\* credential is replaced, and revisions are created before they are used.
THEOREM InductiveInvariant == Spec => []IInv
BY InitIInv, NextIInv, PTL DEF Spec

\* Every variable keeps its type, and with it every journal the coordinator
\* writes and every record it carries from one write to the next.
THEOREM TypeCorrect == Spec => []TypeOK
<1>1. IInv => TypeOK
  BY DEF IInv
<1> QED BY <1>1, InductiveInvariant, PTL

-----------------------------------------------------------------------------
(* The stored credential.                                                   *)

\* No other action writes the credential file.
LEMMA WritersOfCredential ==
  ASSUME IInv, [Next]_vars, auth' # auth
  PROVE  (\E p \in Service : Replace(p)) \/ ImportCredential
<1>1. ASSUME NEW p \in Service, Transaction(p) PROVE Replace(p)
  BY <1>1 DEF Transaction, WriteOutcome, EnqueueOutcome, MarkEnqueued, ForgetJournal,
              DeliverRefused, DeliverAccepted, Acknowledge, EndRecord, DeleteRotated,
              RecoverStartupJournal, BeginDispatch, RecoverUnknown,
              AuthorizeRecoveryDispatch, StopRecovery, Reserve, Request, WriteJournal, disk
<1>2. ASSUME NEW p \in Service, Entry(p) PROVE FALSE
  BY <1>2 DEF Entry, RecoverStartup, Prepare, Commit, CommitUnread, ProjectRetained,
              ProjectUnread, LockFails, disk
<1>3. ASSUME NEW p \in Service, Exchange(p) PROVE FALSE
  BY <1>3 DEF Exchange, Post, ExchangeSucceeded, ExchangeRejected, ExchangeOutcomeUnknown,
              Answered, disk
<1>4. ASSUME NEW p \in Service,
             Start(p) \/ Schedule(p) \/ Unpark(p) \/ ReadFails(p) \/ Crash(p)
      PROVE  FALSE
  BY <1>4 DEF ReadFails, Start, Schedule, Unpark, Crash, disk
<1> QED BY <1>1, <1>2, <1>3, <1>4
        DEF Next, Import, ImportEnqueue, ImportForget, ImportCrash, Tick, vars, disk

\* What one step may do to the credential file.
LEMMA StepOfCredential ==
  ASSUME IInv, [Next]_vars, auth' # auth
  PROVE  \/ cli = "idle" /\ auth'.revision = nextRevision /\ LockFree
         \/ /\ journal.state = "ROTATED"
            /\ journal.source = auth.revision
            /\ journal.succ = auth'.revision
            /\ auth'.kind = "cookie"
<1>1. CASE ImportCredential
  BY <1>1 DEF ImportCredential, LockFree
<1>2. ASSUME NEW p \in Service, Replace(p)
      PROVE  /\ journal.state = "ROTATED"
             /\ journal.source = auth.revision
             /\ journal.succ = auth'.revision
             /\ auth'.kind = "cookie"
  <2>1. /\ pc[p] = "replace" /\ auth.revision = hand[p].source
        /\ auth' = [revision |-> hand[p].succ, kind |-> "cookie"]
    BY <1>2 DEF Replace, disk
  <2> QED BY <2>1, HandType
<1> QED BY <1>1, <1>2, WritersOfCredential

\* The credential file changes only to a fresh import or to the successor that a
\* durable ROTATED journal names for the replaced revision, whatever kills and
\* storage faults happen in between.
THEOREM JournaledBeforeReplaced == Spec => RotatedBeforeReplace
<1>1. IInv /\ [Next]_vars =>
        [auth' # auth =>
           \/ cli = "idle" /\ auth'.revision = nextRevision /\ LockFree
           \/ /\ journal.state = "ROTATED"
              /\ journal.source = auth.revision
              /\ journal.succ = auth'.revision
              /\ auth'.kind = "cookie"]_vars
  BY StepOfCredential
<1> QED BY <1>1, InductiveInvariant, PTL DEF Spec, RotatedBeforeReplace

\* The credential never goes back to an older revision: a stale commit, recovery
\* or projection cannot overwrite a newer import.
THEOREM NewerRevisionWins == Spec => NewerWins
<1>1. IInv /\ [Next]_vars => [auth'.revision >= auth.revision]_vars
  <2> SUFFICES ASSUME IInv, [Next]_vars PROVE auth'.revision >= auth.revision
    OBVIOUS
  <2>1. /\ auth.revision \in Nat /\ nextRevision \in Nat /\ auth.revision < nextRevision
        /\ journal \in Journal /\ Created(journal)
    BY IInvParts DEF FilesOK, Credential
  <2>2. CASE auth' = auth
    BY <2>1, <2>2
  <2>3. CASE auth' # auth
    BY <2>1, <2>3, StepOfCredential DEF Created, Journal
  <2> QED BY <2>2, <2>3
<1> QED BY <1>1, InductiveInvariant, PTL DEF Spec, NewerWins

=============================================================================
