------------------------ MODULE RefreshStorageProofs ------------------------
(***************************************************************************)
(* Theorems about cookie rotation on sound storage, for any number of      *)
(* service processes, kills, restarts, imports and failed dispatches: a    *)
(* durable write is done, or ends its process with an ExceptionGroup and   *)
(* leaves the file as it was.                                              *)
(*                                                                         *)
(* With two processes the hypothesis is needed.  After a write that is     *)
(* visible and still raises, its process retains the successor; another    *)
(* process may recover that rotation from the journal, finish it and       *)
(* journal its own dispatch, which the projection of the retained          *)
(* successor then overwrites (coordinator.py, project_retained_successor). *)
(* One process with every fault is checked by TLC; the budget and the      *)
(* theorems of RefreshCoordinatorProofs need no hypothesis.                *)
(*                                                                         *)
(* SInv relates the files, the record each call carries and the history:   *)
(* what is in the journal is readable or a stopped outcome; a dispatched   *)
(* revision that is still current is the journaled request of a live       *)
(* owner, so nobody inside the lock touches its journal; an outcome leaves *)
(* the journal only when it is in the outbox or delivered; and the POSTs   *)
(* of the current revision are counted by the journaled attempt.           *)
(***************************************************************************)
EXTENDS RefreshCoordinatorProofs

\* A failing write leaves the file as it was and ends its process.
SoundStorage == FaultKinds \subseteq {"group"}

-----------------------------------------------------------------------------
(* Records.                                                                 *)

\* The lanes are within their limits.
Within(a) == \A lane \in Lanes : a.used[lane] <= LaneLimit[lane]

\* A migrated attempt without a dispatch, or one normal dispatch and its retries.
Counted(a) ==
  \/ a.count = 0 /\ Retries(a) = 0
  \/ a.count = 1 + Retries(a) /\ a.count <= TotalDispatchCap

\* Validated when it is read back.
Fits(j) == j.attempt.cap = TotalDispatchCap /\ AttemptFitsState(j.attempt, j.state)

\* The one kind of record the code writes and may not read back.
StoppedUnknown(j) ==
  j.state = "OUTCOME_UNKNOWN" /\ j.attempt.cont = "stop" /\ j.attempt.owner = NoOwner

\* A record the code may write: within its budget, and read back unless stopped.
Sound(j) ==
  /\ j.version = 3
  /\ Within(j.attempt)
  /\ Counted(j.attempt)
  /\ j.enqueued => j.state \in Terminal
  /\ Fits(j) \/ StoppedUnknown(j)


\* The fields of an attempt after each change coordinator.py makes to it.
LEMMA AttemptFields ==
  ASSUME NEW a \in Attempt, NEW lane \in Lanes, NEW t \in Nat \ {0}
  PROVE  LET b == WithContinuation(a, lane, t)
         IN  /\ b.count = a.count /\ b.used = a.used /\ b.cap = a.cap /\ b.owner = NoOwner
             /\ b.deadline # NoTime
             /\ \/ b.cont = "stop" /\ b.notBefore = NoTime
                \/ b.cont \in Lanes /\ b.notBefore # NoTime /\ b.notBefore <= b.deadline
<1>1. t + LaneDelay[lane] \in Nat \ {0} /\ t + RecoveryWindow \in Nat \ {0}
  BY LaneTypes, PolicyAssumption
<1> QED BY <1>1 DEF WithContinuation, Attempt, NoTime, NoOwner

\* The counters decide whether an attempt is within its budget.
LEMMA SameCounters ==
  ASSUME NEW a, NEW b, b.count = a.count, b.used = a.used
  PROVE  (Within(b) <=> Within(a)) /\ (Counted(b) <=> Counted(a))
BY DEF Within, Counted, Retries

\* An attempt with no lane used yet is within its budget.
LEMMA FreshSound ==
  /\ Within(UnbudgetedAttempt) /\ Counted(UnbudgetedAttempt)
  /\ UnbudgetedAttempt.cap = TotalDispatchCap /\ UnbudgetedAttempt.cont = "none"
  /\ UnbudgetedAttempt.notBefore = NoTime /\ UnbudgetedAttempt.owner = NoOwner
<1>1. /\ UnbudgetedAttempt.used = Unused /\ UnbudgetedAttempt.count = 1
      /\ UnbudgetedAttempt.cap = TotalDispatchCap /\ UnbudgetedAttempt.cont = "none"
      /\ UnbudgetedAttempt.notBefore = NoTime /\ UnbudgetedAttempt.owner = NoOwner
  BY DEF UnbudgetedAttempt
<1>2. Within(UnbudgetedAttempt)
  BY <1>1, LaneTypes DEF Within, Unused
<1>3. Retries(UnbudgetedAttempt) = 0
  BY <1>1 DEF Retries, Unused, Lanes
<1> QED BY <1>1, <1>2, <1>3, PolicyAssumption DEF Counted

\* No journal is a sound record.
LEMMA NoJournalSound == Sound(NoJournal)
<1>1. /\ NoJournal.version = 3 /\ NoJournal.attempt = UnbudgetedAttempt
      /\ ~NoJournal.enqueued /\ NoJournal.state = "ABSENT"
  BY DEF NoJournal
<1>2. Fits(NoJournal)
  BY <1>1, FreshSound DEF Fits, AttemptFitsState, Lanes
<1> QED BY <1>1, <1>2, FreshSound DEF Sound

\* A scheduled or stopped continuation makes a record that is read back.
LEMMA ContinuationSound ==
  ASSUME NEW j \in Journal, NEW a \in Attempt, NEW lane \in Lanes, NEW t \in Nat \ {0},
         Within(a), Counted(a), a.cap = TotalDispatchCap,
         j.version = 3, j.state = "OUTCOME_UNKNOWN", ~j.enqueued,
         j.attempt = WithContinuation(a, lane, t)
  PROVE  Sound(j) /\ Fits(j)
<1>1. Within(j.attempt) /\ Counted(j.attempt)
  BY AttemptFields, SameCounters
<1>2. Fits(j)
  BY AttemptFields DEF Fits, AttemptFitsState, NoOwner, Lanes
<1> QED BY <1>1, <1>2 DEF Sound

\* So does an outcome that ends the attempt.
LEMMA OutcomeSound ==
  ASSUME NEW j \in Journal, NEW a \in Attempt,
         Within(a), Counted(a), a.cap = TotalDispatchCap, a.cont = "none", a.notBefore = NoTime,
         j.version = 3, j.state \in {"ROTATED", "REJECTED"}, ~j.enqueued,
         j.attempt = WithoutOwner(a)
  PROVE  Sound(j) /\ Fits(j)
<1>1. /\ j.attempt.count = a.count /\ j.attempt.used = a.used /\ j.attempt.cap = a.cap
      /\ j.attempt.cont = "none" /\ j.attempt.notBefore = NoTime /\ j.attempt.owner = NoOwner
  BY DEF WithoutOwner, Attempt
<1>2. Within(j.attempt) /\ Counted(j.attempt)
  BY <1>1, SameCounters
<1>3. Fits(j)
  BY <1>1 DEF Fits, AttemptFitsState, Lanes
<1> QED BY <1>2, <1>3 DEF Sound

\* A dispatch that a process owns is a sound reservation.
LEMMA OwnedSound ==
  ASSUME NEW a \in Attempt, NEW owner \in Nat, NEW source \in Nat,
         Within(a), Counted(a), a.cap = TotalDispatchCap
  PROVE  LET j == JournalOf("RESERVED", source, NoRevision, OwnedBy(a, owner))
         IN  /\ j \in Journal /\ Sound(j) /\ j.state = "RESERVED" /\ j.source = source
             /\ j.attempt.owner = owner /\ j.attempt.count = a.count
<1> DEFINE b == OwnedBy(a, owner)
           j == JournalOf("RESERVED", source, NoRevision, b)
<1>1. /\ b \in Attempt /\ b.count = a.count /\ b.used = a.used /\ b.cap = a.cap
      /\ b.cont = "none" /\ b.notBefore = NoTime /\ b.owner = owner
  BY AttemptTypes DEF OwnedBy, Attempt
<1> HIDE DEF b
<1>2. /\ j \in Journal /\ j.version = 3 /\ ~j.enqueued /\ j.state = "RESERVED"
      /\ j.source = source /\ j.attempt = b
  BY <1>1, JournalTypes DEF JournalOf, Phases, NoRevision
<1> HIDE DEF j
<1>3. Within(b) /\ Counted(b)
  BY <1>1, SameCounters
<1>4. Fits(j)
  BY <1>1, <1>2 DEF Fits, AttemptFitsState, Lanes
<1>5. Sound(j)
  BY <1>2, <1>3, <1>4 DEF Sound
<1> QED BY <1>1, <1>2, <1>5 DEF b, j

\* What a sound record that is neither stopped nor scheduled looks like.
LEMMA RequestSound ==
  ASSUME NEW j \in Journal, Sound(j), j.state \in {"RESERVED", "REQUESTED"}
  PROVE  /\ Fits(j) /\ ~j.enqueued
         /\ j.attempt.cap = TotalDispatchCap
         /\ j.attempt.cont = "none" /\ j.attempt.notBefore = NoTime
         /\ Within(j.attempt) /\ Counted(j.attempt)
<1>1. Fits(j) /\ ~j.enqueued
  BY DEF Sound, StoppedUnknown, Terminal
<1>2. j.attempt.cont \in Lanes \cup {"none", "stop"}
  BY DEF Journal, Attempt
<1> QED BY <1>1, <1>2 DEF Fits, AttemptFitsState, Sound

\* A reservation that becomes a request stays sound.
LEMMA RequestedSound ==
  ASSUME NEW j \in Journal, Sound(j), j.state = "RESERVED"
  PROVE  LET k == [j EXCEPT !.state = "REQUESTED"]
         IN  /\ k \in Journal /\ Sound(k) /\ k.state = "REQUESTED"
             /\ k.source = j.source /\ k.attempt = j.attempt
<1> DEFINE k == [j EXCEPT !.state = "REQUESTED"]
<1>1. /\ k \in Journal /\ k.version = j.version /\ k.enqueued = j.enqueued
      /\ k.attempt = j.attempt /\ k.source = j.source /\ k.state = "REQUESTED"
  BY DEF Journal, Phases
<1> HIDE DEF k
<1>2. Fits(k)
  BY <1>1, RequestSound DEF Fits, AttemptFitsState, Lanes
<1>3. Sound(k)
  BY <1>1, <1>2, RequestSound DEF Sound
<1> QED BY <1>1, <1>3 DEF k

\* Marking a terminal record as enqueued keeps it sound.
LEMMA MarkedSound ==
  ASSUME NEW j \in Journal, Sound(j), j.state \in Terminal
  PROVE  LET k == [j EXCEPT !.enqueued = TRUE]
         IN  /\ k \in Journal /\ Sound(k) /\ k.enqueued /\ k.state = j.state
             /\ k.source = j.source /\ k.succ = j.succ /\ k.attempt = j.attempt
<1> DEFINE k == [j EXCEPT !.enqueued = TRUE]
<1>1. /\ k \in Journal /\ k.version = j.version /\ k.enqueued /\ k.state = j.state
      /\ k.attempt = j.attempt /\ k.source = j.source /\ k.succ = j.succ
  BY DEF Journal
<1> HIDE DEF k
<1>2. Sound(k)
  BY <1>1 DEF Sound, Fits, StoppedUnknown
<1> QED BY <1>1, <1>2 DEF k

\* Stopping the recovery of an unknown outcome gives a stopped record.
LEMMA StoppedSound ==
  ASSUME NEW j \in Journal, Sound(j), j.state = "OUTCOME_UNKNOWN"
  PROVE  LET k == [j EXCEPT !.enqueued = FALSE, !.attempt = StoppedAttempt(j.attempt)]
         IN  /\ k \in Journal /\ Sound(k) /\ k.state = j.state
             /\ k.source = j.source /\ k.succ = j.succ
             /\ k.attempt.count = j.attempt.count
<1> DEFINE b == StoppedAttempt(j.attempt)
           k == [j EXCEPT !.enqueued = FALSE, !.attempt = b]
<1>1. /\ b \in Attempt /\ b.count = j.attempt.count /\ b.used = j.attempt.used
      /\ b.cont = "stop" /\ b.owner = NoOwner
  BY AttemptTypes DEF StoppedAttempt, Journal, Attempt
<1> HIDE DEF b
<1>2. /\ k \in Journal /\ k.version = j.version /\ ~k.enqueued /\ k.state = j.state
      /\ k.attempt = b /\ k.source = j.source /\ k.succ = j.succ
  BY <1>1 DEF Journal
<1> HIDE DEF k
<1>3. Sound(k)
  BY <1>1, <1>2, SameCounters DEF Sound, StoppedUnknown
<1> QED BY <1>1, <1>2, <1>3 DEF k, b

\* A sound record is read back, unless it is the stopped kind.
LEMMA SoundReadable ==
  ASSUME NEW j \in Journal, Sound(j), j.state # "ABSENT"
  PROVE  /\ Fits(j) => Readable(j)
         /\ Corrupt(j) => /\ j.state = "OUTCOME_UNKNOWN"
                          /\ j.attempt.cont = "stop"
                          /\ j.attempt.notBefore # NoTime \/ j.attempt.cap # TotalDispatchCap
<1>1. j.attempt.used \in [Lanes -> Nat] /\ j.attempt.count \in Nat
  BY DEF Journal, Attempt
<1>2. Retries(j.attempt) \in Nat
  BY <1>1 DEF Retries, Lanes
<1>3. j.attempt.cap = TotalDispatchCap => AttemptIsValid(j.attempt)
  BY <1>1, <1>2, PolicyAssumption DEF Sound, Within, Counted, AttemptIsValid
<1>4. Fits(j) => Readable(j)
  BY <1>3 DEF Fits, Readable, Sound
<1>5. StoppedUnknown(j) /\ j.attempt.notBefore = NoTime /\ j.attempt.cap = TotalDispatchCap
        => Fits(j)
  BY DEF StoppedUnknown, Fits, AttemptFitsState, Lanes, NoOwner
<1> QED BY <1>4, <1>5 DEF Corrupt, Sound, StoppedUnknown

\* What an earlier release left is migrated to a sound record.
LEMMA MigratedSound ==
  ASSUME NEW st \in Phases, NEW enq \in BOOLEAN, enq => st \in Terminal
  PROVE  Sound(Loaded(LegacyJournal(st, enq)))
<1> DEFINE j == LegacyJournal(st, enq)
           a == MigratedAttempt(st)
           k == Loaded(j)
<1>1. j.version = 2 /\ j.state = st /\ j.enqueued = enq /\ j \in Journal
  <2>1. NoJournal \in Journal
    BY JournalTypes
  <2> QED BY <2>1 DEF LegacyJournal, Journal, NoRevision, Phases, Terminal
<1>2. /\ k.version = 3 /\ k.enqueued = enq /\ k.attempt = a
      /\ k.state = IF st = "REQUESTED" THEN "OUTCOME_UNKNOWN" ELSE st
  <2> HIDE DEF j, a
  <2> QED BY <1>1 DEF Loaded, Journal, a
<1>3. /\ a.used = UnbudgetedAttempt.used /\ a.count \in {0, 1}
      /\ a.owner = NoOwner /\ a.notBefore = NoTime
      /\ a.cap = IF st = "REQUESTED" THEN 1 ELSE TotalDispatchCap
      /\ a.cont = IF st \in {"REQUESTED", "OUTCOME_UNKNOWN"} THEN "stop" ELSE "none"
  BY FreshSound DEF MigratedAttempt, UnbudgetedAttempt
<1> HIDE DEF j, a, k
<1>4. Within(a)
  BY <1>3, FreshSound DEF Within
<1>5. Retries(a) = 0
  BY <1>3 DEF Retries, UnbudgetedAttempt, Unused, Lanes
<1>6. Counted(a)
  BY <1>3, <1>5, PolicyAssumption DEF Counted
<1>7. Fits(k) \/ StoppedUnknown(k)
  BY <1>2, <1>3 DEF Fits, StoppedUnknown, AttemptFitsState, Lanes, NoOwner
<1>8. Sound(k)
  BY <1>2, <1>4, <1>6, <1>7 DEF Sound, Terminal
<1> QED BY <1>8 DEF k, j

-----------------------------------------------------------------------------
(* The invariant.                                                           *)

\* The journal as load_journal returns it.
Found == Loaded(journal)

\* The process holds a dispatched revision, outside the lock.
Dispatched(p) == pc[p] \in {"dispatch", "exchange", "commit"}

\* No dispatch of the current revision is under way.
Quiet == \A q \in Service : Dispatched(q) => rev[q] # auth.revision

\* The outcome in the journal is in the outbox, or the sink has it.
Settled == Found.state \in Terminal /\ EventKey(Found) \in owed => EventKey(Found) \in outbox

\* The files among themselves and with the history.
FilesSound ==
  /\ now # 0
  /\ Sound(Found)
  /\ auth.kind # "absent" => journal.source <= auth.revision
  /\ \A r \in spent : r < nextRevision /\ (auth.kind # "absent" => r <= auth.revision)
  /\ journal.state = "ROTATED" => journal.source \in spent
  /\ auth.revision \in spent => journal.state = "ROTATED" /\ journal.source = auth.revision
  /\ NoOutcomeLost
  /\ journal.enqueued \/ Corrupt(journal) => Settled
  /\ cli # "idle" => Quiet /\ journal.source # auth.revision
  /\ cli = "forget" => Settled

\* The record in memory and the journal say the same.
Same(j) == Found.state = j.state /\ Found.source = j.source /\ Found.succ = j.succ

\* Of a recorded outcome: a rotation has been projected, the others are current.
Placed(j) == IF j.state = "ROTATED" THEN j.source < auth.revision ELSE j.source = auth.revision

\* What the record in memory is to the journal, by the point the call has reached.
Facing(l, c, j) ==
  /\ l = "write"   => /\ j.source = auth.revision /\ ~j.enqueued /\ Fits(j)
                      /\ Found.state \notin Terminal
  /\ l = "replace" => j.source = auth.revision /\ (j.enqueued => Settled)
  /\ l = "enqueue" => Same(j) /\ Placed(j)
  /\ l = "mark"    => Same(j) /\ Placed(j) /\ j.enqueued /\ Settled
  /\ l = "discard" => Same(j) /\ j.source # auth.revision
  /\ l = "forget"  => /\ j # NoJournal /\ Settled
                      /\ journal.source # auth.revision \/ journal.state = "RESERVED"
  /\ l \in {"drain", "ack"} =>
       \/ j = NoJournal /\ (c = "prepare" => journal.state = "ABSENT")
       \/ j.state \in Terminal /\ Same(j) /\ Placed(j) /\ Settled
  /\ l = "finish"  => Same(j) /\ Placed(j) /\ Settled /\ EventKey(j) \notin outbox
  /\ l \in {"recover", "authorize", "stop"} =>
       Same(j) /\ j.source = auth.revision /\ j.state = "OUTCOME_UNKNOWN" /\ Settled
  /\ l = "reserve" => /\ j.state = "RESERVED" /\ j.source = auth.revision /\ Settled
                      /\ journal.state # "ROTATED"
  /\ l = "request" => /\ j.state = "REQUESTED" /\ j.source = auth.revision
                      /\ journal.state = "RESERVED"

\* One process and the files.
ProcessSound(p) ==
  /\ retained[p] = Nothing
  /\ life[p] <= starts
  /\ life[p] = NoOwner <=> pc[p] = "down"
  /\ rev[p] <= auth.revision
  /\ hand[p].source <= auth.revision
  /\ pc[p] \in InLock \/ Dispatched(p) => auth.kind # "absent"
  /\ Dispatched(p) =>
       /\ rev[p] \notin spent
       /\ auth.revision = rev[p] => /\ journal.version = 3
                                    /\ journal.state = "REQUESTED"
                                    /\ journal.source = rev[p]
                                    /\ journal.attempt.owner = life[p]
  /\ pc[p] \notin {"commit", "authorize"} => Sound(hand[p])
  /\ pc[p] = "authorize" => Within(hand[p].attempt)
  /\ pc[p] = "commit" => hand[p].source = rev[p] /\ ~hand[p].enqueued /\ hand[p].version = 3
  /\ pc[p] \in InLock /\ ~(call[p] = "startup" /\ hand[p] = NoJournal) => Quiet
  /\ Facing(pc[p], call[p], hand[p])
  /\ pc[p] \in {"reserve", "request"} => hand[p].attempt.owner = life[p]
  /\ pc[p] = "ack" => sent[p] \notin owed

\* Two processes: distinct identities, and distinct revisions under way.
PairSound ==
  \A p, q \in Service : p # q =>
    /\ life[p] = life[q] => life[p] = NoOwner
    /\ Dispatched(p) /\ Dispatched(q) => rev[p] # rev[q]

\* The received successor.
GotPlaced(p) ==
  got[p] # Nothing =>
    \/ got[p].source < auth.revision
    \/ /\ pc[p] \in {"commit", "write", "replace"}
       /\ hand[p].state = "ROTATED"
       /\ hand[p].source = got[p].source

\* The POSTs of the current revision are covered by the journal.
PostsCovered ==
  posts > 0 =>
    /\ journal.version = 3
    /\ journal.source = auth.revision
    /\ journal.state # "ABSENT"
    /\ journal.state = "RESERVED" => \E p \in Service : pc[p] = "request"
    /\ posts <= journal.attempt.count

\* The attempt a call carries counts the POST it is about to send, or has sent.
CountCovered(p) ==
  /\ pc[p] = "dispatch" /\ rev[p] = auth.revision => posts < journal.attempt.count
  /\ pc[p] \in {"write", "enqueue", "mark", "drain", "ack", "recover", "stop"}
     /\ hand[p].state \in Terminal /\ hand[p].source = auth.revision => posts <= hand[p].attempt.count
  /\ pc[p] \in {"authorize", "reserve", "request"} => posts < hand[p].attempt.count

\* Up to the first kill or fault no dispatch is lost from the count.
Covered == crashes = 0 /\ faults = 0 => PostsCovered /\ \A p \in Service : CountCovered(p)

\* The inductive invariant on sound storage.
SInv ==
  /\ FilesSound
  /\ \A p \in Service : ProcessSound(p)
  /\ PairSound
  /\ \A p \in Service : GotPlaced(p)
  /\ Covered

-----------------------------------------------------------------------------
(* Steps of one process.                                                    *)

\* The other processes do nothing.
Elsewhere(p) ==
  \A q \in Service : q # p =>
    /\ pc'[q] = pc[q] /\ call'[q] = call[q] /\ rev'[q] = rev[q] /\ hand'[q] = hand[q]
    /\ sent'[q] = sent[q] /\ retained'[q] = retained[q] /\ life'[q] = life[q]
    /\ got'[q] = got[q]

\* Process q does nothing.
Untouched(q) ==
  /\ pc'[q] = pc[q] /\ call'[q] = call[q] /\ rev'[q] = rev[q] /\ hand'[q] = hand[q]
  /\ sent'[q] = sent[q] /\ retained'[q] = retained[q] /\ life'[q] = life[q]
  /\ got'[q] = got[q]

\* What Return does to its own process and to the others.
LEMMA ReturnAt ==
  ASSUME IInv, NEW p \in Service, NEW l, NEW kept, Return(p, l, kept)
  PROVE  /\ Elsewhere(p)
         /\ pc'[p] = l /\ call'[p] = "none" /\ hand'[p] = NoJournal /\ retained'[p] = kept
         /\ rev'[p] = IF l \in {"dispatch", "parked"} THEN hand[p].source ELSE NoRevision
         /\ life'[p] = IF l = "down" THEN NoOwner ELSE life[p]
         /\ got'[p] = IF l = "down" THEN Nothing ELSE got[p]
BY IInvParts DEF Return, Elsewhere, Shapes

\* What Goto does to its own process and to the others.
LEMMA GotoAt ==
  ASSUME IInv, NEW p \in Service, NEW l, NEW j, Goto(p, l, j)
  PROVE  /\ Elsewhere(p)
         /\ pc'[p] = l /\ hand'[p] = j
         /\ UNCHANGED <<call, rev, sent, retained, life, got>>
BY IInvParts DEF Goto, Elsewhere, Shapes

\* A durable write on sound storage is done, or ends the process.
LEMMA WriteEnds ==
  ASSUME SoundStorage, NEW p, NEW o \in WriteOutcomes, NEW ACTION Ok, Ends(p, o, Ok)
  PROVE  \/ o = "done" /\ Visible(o) /\ Ok /\ faults' = faults
         \/ o = "group" /\ ~Visible(o) /\ Exit(p) /\ faults' = faults + 1
BY DEF SoundStorage, WriteOutcomes, MayFail, Ends, Visible

\* An unlink is done.
LEMMA UnlinkEnds ==
  ASSUME SoundStorage, NEW p, NEW o \in UnlinkOutcomes, NEW ACTION Ok, Ends(p, o, Ok)
  PROVE  Visible(o) /\ Ok /\ faults' = faults
BY DEF SoundStorage, UnlinkOutcomes, WriteOutcomes, MayFail, Ends, Visible

\* What the types give to the arithmetic below.
LEMMA Numbers ==
  ASSUME IInv
  PROVE  /\ auth.revision \in Nat /\ nextRevision \in Nat /\ journal.source \in Nat
         /\ starts \in Nat /\ now \in Nat /\ posts \in Nat /\ crashes \in Nat /\ faults \in Nat
         /\ spent \subseteq Nat /\ journal \in Journal /\ journal.attempt.count \in Nat
         /\ \A p \in Service : /\ rev[p] \in Nat /\ life[p] \in Nat /\ hand[p] \in Journal
                               /\ hand[p].source \in Nat /\ hand[p].attempt.count \in Nat
                               /\ hand[p].attempt \in Attempt
                               /\ got[p] \in Successor /\ got[p].source \in Nat
BY IInvParts DEF FilesOK, Shapes, Credential, Journal, Attempt, Successor

\* The same after a step.
LEMMA NumbersNext ==
  ASSUME IInv'
  PROVE  /\ auth'.revision \in Nat /\ nextRevision' \in Nat /\ journal'.source \in Nat
         /\ starts' \in Nat /\ now' \in Nat /\ posts' \in Nat
         /\ crashes' \in Nat /\ faults' \in Nat
         /\ spent' \subseteq Nat /\ journal' \in Journal
BY DEF IInv, TypeOK, Credential, Journal

\* Process q, outside the lock, is not disturbed by a step of another process.
LEMMA OthersSound ==
  ASSUME IInv, IInv', SInv, NEW q \in Service, Untouched(q),
         pc[q] \notin InLock, starts' >= starts, auth'.revision >= auth.revision,
         auth.kind # "absent" => auth'.kind # "absent",
         (auth' = auth /\ journal' = journal) \/ (Dispatched(q) => rev[q] # auth'.revision),
         Dispatched(q) => rev[q] \notin spent'
  PROVE  ProcessSound(q)' /\ GotPlaced(q)'
<1>1. /\ pc'[q] = pc[q] /\ call'[q] = call[q] /\ rev'[q] = rev[q] /\ hand'[q] = hand[q]
      /\ sent'[q] = sent[q] /\ retained'[q] = retained[q] /\ life'[q] = life[q]
      /\ got'[q] = got[q]
  BY DEF Untouched
<1>2. ProcessSound(q) /\ GotPlaced(q)
  BY DEF SInv
<1>3. /\ auth.revision \in Nat /\ auth'.revision \in Nat /\ rev[q] \in Nat
      /\ hand[q].source \in Nat /\ starts \in Nat /\ starts' \in Nat /\ life[q] \in Nat
      /\ got[q].source \in Nat
  BY Numbers, NumbersNext
<1>4. (Dispatched(q) => /\ rev[q] \notin spent
                        /\ auth.revision = rev[q] => /\ journal.version = 3
                                                     /\ journal.state = "REQUESTED"
                                                     /\ journal.source = rev[q]
                                                     /\ journal.attempt.owner = life[q])'
  BY <1>1, <1>2, <1>3 DEF ProcessSound, Dispatched
<1>5. Facing(pc[q], call[q], hand[q])'
  BY <1>1 DEF Facing, InLock
<1>6. (life[q] <= starts /\ rev[q] <= auth.revision /\ hand[q].source <= auth.revision)'
  BY <1>1, <1>2, <1>3 DEF ProcessSound
<1>7. GotPlaced(q)'
  BY <1>1, <1>2, <1>3 DEF GotPlaced, InLock
<1>8. /\ (pc[q] \notin {"commit", "authorize"} => Sound(hand[q]))'
      /\ (pc[q] = "authorize" => Within(hand[q].attempt))'
      /\ (pc[q] = "commit" => hand[q].source = rev[q] /\ ~hand[q].enqueued /\ hand[q].version = 3)'
  BY <1>1, <1>2 DEF ProcessSound
<1> QED BY <1>1, <1>2, <1>4, <1>5, <1>6, <1>7, <1>8 DEF ProcessSound, InLock, Dispatched

\* What a step of process p inside the lock does to the files, for the others.
Steady(p) ==
  /\ auth'.revision >= auth.revision
  /\ auth.kind # "absent" => auth'.kind # "absent"
  /\ \/ auth' = auth /\ journal' = journal /\ posts' = posts
     \/ \A q \in Service : q # p /\ Dispatched(q) => rev[q] # auth.revision
  /\ \A q \in Service : q # p /\ Dispatched(q) => rev[q] \notin spent'
  /\ UNCHANGED <<cli, starts>>

\* No kill and no fault so far: the posts are covered after the step.
CoveredNext(p) ==
  crashes' = 0 /\ faults' = 0 =>
    crashes = 0 /\ faults = 0 /\ PostsCovered' /\ CountCovered(p)'

\* A step inside the lock keeps SInv when it keeps the parts it touches.
LEMMA LockStep ==
  ASSUME IInv, IInv', SInv, NEW p \in Service, Alone(p), Elsewhere(p), Steady(p),
         FilesSound', ProcessSound(p)', GotPlaced(p)', CoveredNext(p),
         life'[p] \in {life[p], NoOwner},
         \A q \in Service : q # p /\ Dispatched(q) /\ Dispatched(p)' => rev[q] # rev'[p]
  PROVE  SInv'
<1>1. ASSUME NEW q \in Service, q # p PROVE ProcessSound(q)' /\ GotPlaced(q)'
  <2>1. pc[q] \notin InLock /\ starts' >= starts
    BY <1>1, Numbers DEF Alone, Steady
  <2>2. (auth' = auth /\ journal' = journal) \/ (Dispatched(q) => rev[q] # auth'.revision)
    <3>1. rev[q] <= auth.revision /\ auth'.revision >= auth.revision
      BY DEF SInv, ProcessSound, Steady
    <3> QED BY <1>1, <3>1, Numbers, NumbersNext DEF Steady
  <2>3. /\ auth'.revision >= auth.revision /\ (Dispatched(q) => rev[q] \notin spent')
        /\ auth.kind # "absent" => auth'.kind # "absent"
    BY <1>1 DEF Steady
  <2>4. Untouched(q)
    BY <1>1 DEF Elsewhere, Untouched
  <2> QED BY <2>1, <2>2, <2>3, <2>4, OthersSound
<1>2. PairSound'
  <2>1. SUFFICES ASSUME NEW a \in Service, NEW b \in Service, a # b
                 PROVE  /\ life'[a] = life'[b] => life'[a] = NoOwner
                        /\ Dispatched(a)' /\ Dispatched(b)' => rev'[a] # rev'[b]
    BY DEF PairSound
  <2>2. /\ life[a] = life[b] => life[a] = NoOwner
        /\ Dispatched(a) /\ Dispatched(b) => rev[a] # rev[b]
    BY <2>1 DEF SInv, PairSound
  <2>3. \A q \in Service : q # p =>
          life'[q] = life[q] /\ rev'[q] = rev[q] /\ (Dispatched(q)' <=> Dispatched(q))
    BY DEF Elsewhere, Dispatched
  <2>4. CASE a # p /\ b # p
    BY <2>2, <2>3, <2>4
  <2>5. CASE a = p
    BY <2>1, <2>2, <2>3, <2>5
  <2>6. CASE b = p
    BY <2>1, <2>2, <2>3, <2>6
  <2> QED BY <2>4, <2>5, <2>6
<1>3. Covered'
  <2>1. SUFFICES ASSUME crashes' = 0, faults' = 0
                 PROVE  PostsCovered' /\ \A q \in Service : CountCovered(q)'
    BY DEF Covered
  <2>2. crashes = 0 /\ faults = 0 /\ PostsCovered' /\ CountCovered(p)'
    BY <2>1 DEF CoveredNext
  <2>3. ASSUME NEW q \in Service, q # p PROVE CountCovered(q)'
    <3>1. pc'[q] = pc[q] /\ rev'[q] = rev[q] /\ pc[q] \notin InLock
      BY <2>3 DEF Elsewhere, Alone
    <3>2. SUFFICES ASSUME pc[q] = "dispatch", rev[q] = auth'.revision
                   PROVE  posts' < journal'.attempt.count
      BY <3>1 DEF CountCovered, InLock
    <3>3. rev[q] \in Nat /\ rev[q] <= auth.revision /\ auth.revision \in Nat
          /\ auth'.revision \in Nat
      BY Numbers, NumbersNext DEF SInv, ProcessSound
    <3>4. auth.revision = rev[q]
      BY <3>2, <3>3 DEF Steady
    <3>5. auth' = auth /\ journal' = journal /\ posts' = posts
      BY <2>3, <3>2, <3>4 DEF Steady, Dispatched
    <3>6. CountCovered(q)
      BY <2>2 DEF SInv, Covered
    <3> QED BY <3>2, <3>4, <3>5, <3>6 DEF CountCovered
  <2> QED BY <2>2, <2>3
<1> QED BY <1>1, <1>2, <1>3 DEF SInv

\* Files that a step inside the lock does not touch stay sound.
LEMMA FilesUntouched ==
  ASSUME IInv, SInv, cli = "idle",
         UNCHANGED <<auth, journal, outbox, owed, spent, cli, now, nextRevision>>
  PROVE  FilesSound'
BY DEF SInv, FilesSound, Found, Settled, NoOutcomeLost, Quiet

\* A step inside the lock that touches no file is steady.
LEMMA SteadyUntouched ==
  ASSUME IInv, SInv, NEW p \in Service,
         UNCHANGED <<auth, journal, spent, cli, starts, posts>>
  PROVE  Steady(p)
<1>1. auth.revision \in Nat
  BY Numbers
<1>2. \A q \in Service : Dispatched(q) => rev[q] \notin spent
  BY DEF SInv, ProcessSound
<1> QED BY <1>1, <1>2 DEF Steady

\* Leaving the lock, or the process, keeps SInv.
LEMMA LeaveSound ==
  ASSUME IInv, IInv', SInv, NEW p \in Service, Alone(p), Steady(p), FilesSound',
         NEW l \in {"idle", "parked", "down"}, Return(p, l, Nothing), pc[p] # "down",
         \/ l = "down" \/ pc[p] \notin {"commit", "write", "replace"}
         \/ hand[p].source < auth.revision,
         crashes' = 0 /\ faults' = 0 => crashes = 0 /\ faults = 0 /\ PostsCovered'
  PROVE  SInv'
<1>1. /\ Elsewhere(p)
      /\ pc'[p] = l /\ call'[p] = "none" /\ hand'[p] = NoJournal /\ retained'[p] = Nothing
      /\ rev'[p] \in {hand[p].source, NoRevision}
      /\ life'[p] = IF l = "down" THEN NoOwner ELSE life[p]
      /\ got'[p] = IF l = "down" THEN Nothing ELSE got[p]
  BY ReturnAt
<1>2. ProcessSound(p) /\ GotPlaced(p)
  BY DEF SInv
<1>3. /\ auth.revision \in Nat /\ auth'.revision \in Nat /\ hand[p].source \in Nat
      /\ starts \in Nat /\ life[p] \in Nat /\ got[p].source \in Nat
  BY Numbers, NumbersNext
<1>4. auth'.revision >= auth.revision /\ starts' = starts
  BY DEF Steady
<1>5. NoJournal.source = 0 /\ NoRevision = 0 /\ NoOwner = 0
  BY DEF NoJournal, NoRevision, NoOwner
<1>6. (life[p] <= starts /\ rev[p] <= auth.revision /\ hand[p].source <= auth.revision)'
  BY <1>1, <1>2, <1>3, <1>4, <1>5 DEF ProcessSound
<1>7. l \notin InLock /\ ~Dispatched(p)' /\ l \notin {"commit", "authorize"}
  BY <1>1 DEF InLock, Dispatched
<1>8. Facing(pc[p], call[p], hand[p])'
  BY <1>1, <1>7 DEF Facing, InLock
<1>9. ProcessSound(p)'
  BY <1>1, <1>2, <1>6, <1>7, <1>8, NoJournalSound DEF ProcessSound, InLock
<1>10. GotPlaced(p)'
  BY <1>1, <1>2, <1>3, <1>4 DEF GotPlaced
<1>11. CoveredNext(p)
  BY <1>1, <1>7 DEF CoveredNext, CountCovered, Dispatched, InLock
<1> QED BY <1>1, <1>7, <1>9, <1>10, <1>11, LockStep

\* Going on inside the lock keeps SInv.
LEMMA StaySound ==
  ASSUME IInv, IInv', SInv, NEW p \in Service, Alone(p), Elsewhere(p), Steady(p), FilesSound',
         pc'[p] \in InLock, UNCHANGED <<call, rev, retained, life, got>>,
         pc[p] # "down", auth'.kind # "absent", hand'[p].source <= auth'.revision,
         pc'[p] # "authorize" => Sound(hand'[p]),
         pc'[p] = "authorize" => Within(hand'[p].attempt),
         ~(call[p] = "startup" /\ hand'[p] = NoJournal) => Quiet',
         Facing(pc[p], call[p], hand[p])',
         pc'[p] \in {"reserve", "request"} => hand'[p].attempt.owner = life[p],
         pc'[p] = "ack" => sent'[p] \notin owed',
         \/ pc[p] \notin {"commit", "write", "replace"}
         \/ hand[p].state # "ROTATED"
         \/ hand[p].source < auth'.revision
         \/ /\ pc'[p] \in {"write", "replace"}
            /\ hand'[p].state = "ROTATED" /\ hand'[p].source = hand[p].source,
         CoveredNext(p)
  PROVE  SInv'
<1>2. ProcessSound(p) /\ GotPlaced(p)
  BY DEF SInv
<1>3. /\ auth.revision \in Nat /\ auth'.revision \in Nat /\ rev[p] \in Nat
      /\ got[p].source \in Nat /\ hand[p].source \in Nat
  BY Numbers, NumbersNext
<1>4. auth'.revision >= auth.revision /\ starts' = starts
  BY DEF Steady
<1>5. (rev[p] <= auth.revision)'
  BY <1>2, <1>3, <1>4 DEF ProcessSound
<1>6. ~Dispatched(p)' /\ pc'[p] # "commit" /\ pc'[p] # "down" /\ pc'[p] # "dispatch"
  BY DEF InLock, Dispatched
<1>8. ProcessSound(p)'
  BY <1>2, <1>4, <1>5, <1>6 DEF ProcessSound
<1>9. GotPlaced(p)'
  BY <1>2, <1>3, <1>4 DEF GotPlaced
<1> QED BY <1>6, <1>8, <1>9, LockStep

\* Goto, seen from the invariant: the files and the record are in order, and what
\* the record is to the journal is left to show.
LEMMA GotoSound ==
  ASSUME IInv, IInv', SInv, NEW p \in Service, Alone(p), Steady(p), FilesSound',
         NEW l \in InLock, l # "ack", NEW j \in Journal, Goto(p, l, j),
         pc[p] # "down", auth'.kind # "absent", j.source <= auth'.revision,
         l # "authorize" => Sound(j), l = "authorize" => Within(j.attempt),
         ~(call[p] = "startup" /\ j = NoJournal) => Quiet',
         l \in {"reserve", "request"} => j.attempt.owner = life[p],
         Facing(pc[p], call[p], hand[p])',
         \/ pc[p] \notin {"commit", "write", "replace"}
         \/ hand[p].state # "ROTATED"
         \/ hand[p].source < auth'.revision
         \/ l \in {"write", "replace"} /\ j.state = "ROTATED" /\ j.source = hand[p].source,
         CoveredNext(p)
  PROVE  SInv'
<1>1. /\ Elsewhere(p) /\ pc'[p] = l /\ hand'[p] = j
      /\ UNCHANGED <<call, rev, sent, retained, life, got>>
  BY GotoAt
<1> QED BY <1>1, StaySound

\* Without a kill or a fault, a step that touches neither the files nor a
\* request in preparation leaves the posts covered.
LEMMA PostsUntouched ==
  ASSUME SInv, NEW p \in Service, Alone(p), pc[p] # "request",
         UNCHANGED <<auth, journal, posts>>, crashes = 0, faults = 0
  PROVE  PostsCovered'
<1>1. PostsCovered
  BY DEF SInv, Covered
<1>2. ~(\E q \in Service : pc[q] = "request")
  BY DEF Alone, InLock
<1> QED BY <1>1, <1>2 DEF PostsCovered

\* Leaving the lock with the files as they are keeps SInv.
LEMMA LeaveQuiet ==
  ASSUME IInv, IInv', SInv, NEW p \in Service, Alone(p), pc[p] \notin {"down", "request"},
         NEW l \in {"idle", "parked", "down"}, Return(p, l, Nothing),
         \/ l = "down" \/ pc[p] \notin {"commit", "write", "replace"}
         \/ hand[p].source < auth.revision,
         UNCHANGED <<disk, cli, counter, history>>
  PROVE  SInv'
<1>1. /\ UNCHANGED <<auth, journal, outbox, owed, spent, cli, now, nextRevision, starts, posts>>
      /\ crashes' = crashes /\ faults' = faults /\ cli = "idle"
  BY DEF disk, counter, history, Alone
<1>2. FilesSound' /\ Steady(p)
  BY <1>1, FilesUntouched, SteadyUntouched
<1>3. crashes' = 0 /\ faults' = 0 => crashes = 0 /\ faults = 0 /\ PostsCovered'
  BY <1>1, PostsUntouched
<1> QED BY <1>2, <1>3, LeaveSound

\* A process that exits between two writes keeps SInv, whatever it was doing.
LEMMA ExitFault ==
  ASSUME IInv, IInv', SInv, NEW p \in Service, Alone(p), pc[p] # "down", Exit(p),
         UNCHANGED <<auth, journal, outbox, owed, spent, cli, now, nextRevision, starts, posts>>,
         faults' = faults + 1
  PROVE  SInv'
<1>1. FilesSound' /\ Steady(p)
  BY FilesUntouched, SteadyUntouched DEF Alone
<1>2. faults' # 0
  BY Numbers
<1> QED BY <1>1, <1>2, LeaveSound DEF Exit

\* Going on inside the lock with the files as they are keeps SInv.
LEMMA GotoQuiet ==
  ASSUME IInv, IInv', SInv, NEW p \in Service, Alone(p), pc[p] \notin {"down", "request"},
         NEW l \in InLock \ {"ack"}, NEW j \in Journal, NEW c, c = call[p], Goto(p, l, j),
         UNCHANGED <<disk, cli, counter, history>>,
         auth.kind # "absent", j.source <= auth.revision,
         l # "authorize" => Sound(j), l = "authorize" => Within(j.attempt),
         ~(c = "startup" /\ j = NoJournal) =>
           \A q \in Service : q # p /\ Dispatched(q) => rev[q] # auth.revision,
         Facing(l, c, j),
         l \in {"reserve", "request"} => j.attempt.owner = life[p],
         \/ pc[p] \notin {"commit", "write", "replace"}
         \/ hand[p].state # "ROTATED"
         \/ l \in {"write", "replace"} /\ j.state = "ROTATED" /\ j.source = hand[p].source,
         crashes = 0 /\ faults = 0 =>
           /\ l \in {"write", "enqueue", "mark", "drain", "recover", "stop"}
              /\ j.state \in Terminal /\ j.source = auth.revision => posts <= j.attempt.count
           /\ l \in {"authorize", "reserve", "request"} => posts < j.attempt.count
  PROVE  SInv'
<1>1. /\ UNCHANGED <<auth, journal, outbox, owed, spent, cli, now, nextRevision, starts, posts>>
      /\ crashes' = crashes /\ faults' = faults /\ cli = "idle"
  BY DEF disk, counter, history, Alone
<1>2. FilesSound' /\ Steady(p)
  BY <1>1, FilesUntouched, SteadyUntouched
<1>3. crashes' = 0 /\ faults' = 0 => crashes = 0 /\ faults = 0 /\ PostsCovered'
  BY <1>1, PostsUntouched
<1>4. /\ Elsewhere(p) /\ pc'[p] = l /\ hand'[p] = j
      /\ UNCHANGED <<call, rev, sent, retained, life, got>>
  BY GotoAt
<1>5. ~(c = "startup" /\ j = NoJournal) => Quiet'
  <2>1. ~Dispatched(p)' /\ \A q \in Service : q # p => (Dispatched(q)' <=> Dispatched(q))
    BY <1>4 DEF Dispatched, Elsewhere, InLock
  <2> QED BY <1>1, <1>4, <2>1 DEF Quiet, Elsewhere
<1>6. Facing(l, c, j)'
  BY <1>1 DEF Facing, Found, Settled, Same, Placed
<1>7. Facing(pc[p], call[p], hand[p])'
  BY <1>4, <1>6
<1>8. CoveredNext(p)
  BY <1>1, <1>3, <1>4 DEF CoveredNext, CountCovered, InLock
<1> QED BY <1>1, <1>2, <1>4, <1>5, <1>7, <1>8, GotoSound

\* The journal as the code reads it.
LEMMA FoundFacts ==
  ASSUME IInv
  PROVE  /\ Found \in Journal /\ Found.source = journal.source /\ Found.succ = journal.succ
         /\ Found.state = "ROTATED" <=> journal.state = "ROTATED"
         /\ Found.state = "ABSENT" <=> journal.state = "ABSENT"
         /\ Found.enqueued = journal.enqueued
         /\ journal.version = 3 => Found = journal
BY Numbers, LoadedType DEF Found, Loaded, Journal

\* A record of version 3 is read as it is.
LEMMA LoadedSame ==
  ASSUME NEW j \in Journal, j.version = 3
  PROVE  Loaded(j) = j
BY DEF Loaded

\* What holds of a process inside the lock.
LEMMA InLockFacts ==
  ASSUME IInv, SInv, NEW p \in Service, pc[p] \in InLock
  PROVE  /\ Alone(p) /\ pc[p] # "down"
         /\ auth.kind # "absent"
         /\ hand[p].source <= auth.revision
         /\ pc[p] # "authorize" => Sound(hand[p])
         /\ Facing(pc[p], call[p], hand[p])
         /\ ~(call[p] = "startup" /\ hand[p] = NoJournal) => Quiet
<1>1. ProcessSound(p) /\ Alone(p)
  BY Entering DEF SInv
<1> QED BY <1>1 DEF ProcessSound, InLock

-----------------------------------------------------------------------------
(* Durable writes: each keeps SInv.                                         *)

\* write_journal on sound storage: the record is the journal now, or the
\* process is gone and the files are as they were.
LEMMA WriteJournalSound ==
  ASSUME SoundStorage, IInv, NEW p \in Service, pc[p] \in InLock, NEW ACTION Ok,
         WriteJournal(p, Ok)
  PROVE  \/ /\ Ok
            /\ journal' = hand[p]
            /\ spent' = IF hand[p].state = "ROTATED" THEN spent \cup {hand[p].source} ELSE spent
            /\ owed' = IF pc[p] = "write" THEN owed \cup {EventKey(hand[p])} ELSE owed
            /\ UNCHANGED <<auth, outbox, cli, now, nextRevision, starts, crashes, faults, posts>>
         \/ /\ Exit(p)
            /\ faults' = faults + 1
            /\ UNCHANGED <<auth, journal, outbox, owed, spent, cli, now, nextRevision, starts,
                           posts>>
<1>1. PICK o \in WriteOutcomes :
        /\ journal' = IF Visible(o) THEN hand[p] ELSE journal
        /\ spent' = IF Visible(o) /\ hand[p].state = "ROTATED"
                    THEN spent \cup {hand[p].source} ELSE spent
        /\ owed' = IF Visible(o) /\ pc[p] = "write"
                   THEN owed \cup {EventKey(hand[p])} ELSE owed
        /\ UNCHANGED <<auth, outbox, cli, now, nextRevision, starts, crashes, posts>>
        /\ Ends(p, o, Ok)
  BY DEF WriteJournal
<1>2. \/ o = "done" /\ Visible(o) /\ Ok /\ faults' = faults
      \/ o = "group" /\ ~Visible(o) /\ Exit(p) /\ faults' = faults + 1
  BY <1>1, WriteEnds
<1> QED BY <1>1, <1>2

\* When no dispatch of the current revision is under way, the journal may be
\* replaced; a rotation journaled is one of the current revision, or known.
LEMMA SteadyQuiet ==
  ASSUME IInv, SInv, NEW p \in Service, Quiet, auth'.revision >= auth.revision,
         auth.kind # "absent" => auth'.kind # "absent",
         UNCHANGED <<cli, starts>>,
         \A r \in spent' : r \in spent \/ r = auth.revision
  PROVE  Steady(p)
<1>1. \A q \in Service : Dispatched(q) => rev[q] \notin spent
  BY DEF SInv, ProcessSound
<1> QED BY <1>1 DEF Steady, Quiet

\* Quiet outlives a step of a process that is inside the lock and stays there.
LEMMA QuietNext ==
  ASSUME NEW p \in Service, Quiet, Elsewhere(p), pc'[p] \in InLock,
         auth'.revision = auth.revision
  PROVE  Quiet'
BY DEF Quiet, Elsewhere, Dispatched, InLock

\* A terminal outcome is journaled.
LEMMA WriteOutcomeSound ==
  ASSUME SoundStorage, IInv, IInv', SInv, NEW p \in Service, WriteOutcome(p)
  PROVE  SInv'
<1> DEFINE l == IF hand[p].state = "ROTATED" THEN "replace" ELSE "enqueue"
<1>1. pc[p] = "write" /\ pc[p] \in InLock /\ WriteJournal(p, Goto(p, l, hand[p]))
  BY DEF WriteOutcome, InLock
<1>2. /\ hand[p].source = auth.revision /\ ~hand[p].enqueued /\ Fits(hand[p])
      /\ Found.state \notin Terminal /\ hand[p].state \in Terminal
      /\ Sound(hand[p]) /\ Alone(p) /\ auth.kind # "absent" /\ Quiet
  <2>1. hand[p].state \in Terminal
    BY <1>1, HandType DEF HandFits
  <2>2. hand[p] # NoJournal
    BY <2>1 DEF NoJournal, Terminal
  <2> QED BY <1>1, <2>1, <2>2, InLockFacts DEF Facing
<1>3. CASE /\ Goto(p, l, hand[p])
           /\ journal' = hand[p]
           /\ spent' = IF hand[p].state = "ROTATED" THEN spent \cup {hand[p].source} ELSE spent
           /\ owed' = IF pc[p] = "write" THEN owed \cup {EventKey(hand[p])} ELSE owed
           /\ UNCHANGED <<auth, outbox, cli, now, nextRevision, starts, crashes, faults, posts>>
  <2>1. hand[p] \in Journal /\ hand[p].version = 3 /\ Found' = hand[p]
    BY <1>2, <1>3, Numbers, LoadedSame DEF Sound, Found
  <2>2. FilesSound'
    <3>1. FilesSound
      BY DEF SInv
    <3>2. Readable(hand[p]) /\ ~Corrupt(hand[p])
      BY <1>2, <2>1, SoundReadable DEF Corrupt, Terminal
    <3>3. NoOutcomeLost'
      <4>1. owed' = owed \cup {EventKey(hand[p])}
        BY <1>1, <1>3
      <4>2. \A k \in owed : k \in outbox
        BY <1>2, <3>1 DEF FilesSound, NoOutcomeLost, Found
      <4> QED BY <1>2, <1>3, <2>1, <4>1, <4>2 DEF NoOutcomeLost, Found
    <3>4. \A r \in spent' : r < nextRevision' /\ (auth'.kind # "absent" => r <= auth'.revision)
      BY <1>2, <1>3, <3>1, Numbers, IInvParts DEF FilesSound, FilesOK
    <3>5. (auth.revision \in spent => journal.state = "ROTATED" /\ journal.source = auth.revision)'
      BY <1>2, <1>3, <3>1, FoundFacts DEF FilesSound, Terminal
    <3>6. (journal.state = "ROTATED" => journal.source \in spent)'
      BY <1>3
    <3>7. (now # 0)' /\ (auth.kind # "absent" => journal.source <= auth.revision)'
      BY <1>2, <1>3, <3>1, Numbers DEF FilesSound
    <3>8. cli' = "idle" /\ ~journal'.enqueued /\ ~Corrupt(journal')
      BY <1>2, <1>3, <3>2 DEF Alone
    <3> QED BY <1>2, <2>1, <3>3, <3>4, <3>5, <3>6, <3>7, <3>8 DEF FilesSound
  <2>3. Steady(p)
    BY <1>2, <1>3, Numbers, SteadyQuiet
  <2>4. /\ Elsewhere(p) /\ pc'[p] = l /\ l \in InLock /\ hand'[p] = hand[p]
        /\ call' = call /\ auth' = auth
    BY <1>3, GotoAt DEF InLock
  <2>5. Quiet'
    BY <1>2, <2>4, QuietNext
  <2>6. Facing(pc[p], call[p], hand[p])'
    BY <1>2, <2>1, <2>4 DEF Facing, Same, Placed
  <2>7. CoveredNext(p)
    <3>1. SUFFICES ASSUME crashes = 0, faults = 0
                   PROVE  PostsCovered' /\ CountCovered(p)'
      BY <1>3 DEF CoveredNext
    <3>2. posts <= hand[p].attempt.count
      BY <1>1, <1>2, <3>1 DEF SInv, Covered, CountCovered
    <3>3. PostsCovered'
      BY <1>2, <1>3, <2>1, <3>2 DEF PostsCovered, Terminal
    <3> QED BY <1>3, <2>4, <3>2, <3>3 DEF CountCovered
  <2>8. hand[p].source <= auth'.revision /\ l # "ack" /\ l \notin {"authorize", "reserve", "request"}
        /\ pc[p] # "down"
    BY <1>1, <1>2, <2>4, Numbers
  <2> QED BY <1>2, <1>3, <2>1, <2>2, <2>3, <2>4, <2>5, <2>6, <2>7, <2>8, GotoSound
<1>4. CASE /\ Exit(p)
           /\ faults' = faults + 1
           /\ UNCHANGED <<auth, journal, outbox, owed, spent, cli, now, nextRevision, starts,
                          posts>>
  BY <1>1, <1>2, <1>4, ExitFault
<1> QED BY <1>1, <1>3, <1>4, WriteJournalSound
\* A write to the outbox, or a delivery, that loses nothing owed.
LEMMA FilesRecorded ==
  ASSUME IInv, SInv, cli = "idle",
         UNCHANGED <<auth, journal, spent, cli, now, nextRevision>>,
         owed' \subseteq owed, \A k \in owed' : k \in outbox => k \in outbox'
  PROVE  FilesSound' /\ (Settled => Settled')
<1>1. FilesSound
  BY DEF SInv
<1>2. Found' = Found
  BY DEF Found
<1>3. Settled => Settled'
  BY <1>2 DEF Settled
<1>4. NoOutcomeLost'
  BY <1>1 DEF FilesSound, NoOutcomeLost
<1> QED BY <1>1, <1>2, <1>3, <1>4 DEF FilesSound

\* The compare-and-swap of the credential.
LEMMA ReplaceSound ==
  ASSUME SoundStorage, IInv, IInv', SInv, NEW p \in Service, Replace(p)
  PROVE  SInv'
<1> DEFINE l == IF hand[p].enqueued THEN "drain" ELSE "enqueue"
<1>1. /\ pc[p] = "replace" /\ pc[p] \in InLock
      /\ UNCHANGED <<cli, now, nextRevision, starts, crashes, spent, owed>>
  BY DEF Replace, InLock
<1>2. /\ hand[p].source = auth.revision /\ hand[p].state = "ROTATED"
      /\ journal.state = "ROTATED" /\ journal.source = hand[p].source
      /\ journal.succ = hand[p].succ /\ hand[p].source < hand[p].succ
      /\ hand[p] \in Journal /\ hand[p].succ \in Nat
  BY <1>1, HandType, InLockFacts DEF HandFits, Created, Facing
<1>3. hand[p] # NoJournal
  BY <1>2 DEF NoJournal
<1>4. /\ Alone(p) /\ auth.kind # "absent" /\ Quiet /\ Sound(hand[p])
      /\ hand[p].enqueued => Settled
  BY <1>1, <1>3, InLockFacts DEF Facing
<1>5. PICK o \in WriteOutcomes :
        /\ auth' = IF Visible(o) THEN [revision |-> hand[p].succ, kind |-> "cookie"] ELSE auth
        /\ posts' = IF Visible(o) THEN 0 ELSE posts
        /\ UNCHANGED <<journal, outbox>>
        /\ Ends(p, o, Goto(p, l, hand[p]))
  BY DEF Replace, SoundStorage, MayFail
<1>6. \/ o = "done" /\ Visible(o) /\ Goto(p, l, hand[p]) /\ faults' = faults
      \/ o = "group" /\ ~Visible(o) /\ Exit(p) /\ faults' = faults + 1
  BY <1>5, WriteEnds
<1>7. CASE o = "done" /\ Visible(o) /\ Goto(p, l, hand[p]) /\ faults' = faults
  <2>1. /\ auth'.revision = hand[p].succ /\ auth'.kind = "cookie" /\ posts' = 0
        /\ UNCHANGED <<journal, outbox>>
    BY <1>5, <1>7
  <2>2. /\ Elsewhere(p) /\ pc'[p] = l /\ hand'[p] = hand[p] /\ call' = call
        /\ l \in InLock /\ l # "ack" /\ l \notin {"authorize", "reserve", "request"}
    BY <1>7, GotoAt DEF InLock
  <2>3. FilesSound
    BY DEF SInv
  <2>4. Found' = Found /\ Found.state = "ROTATED" /\ Found.source = hand[p].source
        /\ Found.succ = hand[p].succ /\ (Settled => Settled')
    BY <1>1, <1>2, <2>1, FoundFacts DEF Found, Settled
  <2>5. \A r \in spent : r <= auth.revision /\ r \in Nat
    BY <1>4, <2>3, Numbers DEF FilesSound
  <2>6. auth'.revision > auth.revision /\ auth.revision \in Nat /\ auth'.revision \in Nat
    BY <1>2, <2>1, Numbers
  <2>7. FilesSound'
    <3>1. \A r \in spent' : r < nextRevision' /\ r <= auth'.revision /\ r # auth'.revision
      BY <1>1, <2>3, <2>5, <2>6 DEF FilesSound
    <3>2. (auth.kind # "absent" => journal.source <= auth.revision)'
      BY <1>2, <2>1, <2>6
    <3>3. cli' = "idle" /\ NoOutcomeLost'
      BY <1>1, <1>4, <2>1, <2>3 DEF Alone, FilesSound, NoOutcomeLost
    <3> QED BY <1>1, <2>1, <2>3, <2>4, <3>1, <3>2, <3>3 DEF FilesSound
  <2>8. Steady(p)
    BY <1>1, <1>4, <2>1, <2>6, SteadyQuiet
  <2>9. Quiet'
    <3>1. \A q \in Service : rev[q] \in Nat /\ rev[q] <= auth.revision
      BY Numbers DEF SInv, ProcessSound
    <3>2. \A q \in Service : q # p => rev'[q] = rev[q]
      BY <2>2 DEF Elsewhere
    <3>3. ~Dispatched(p)'
      BY <2>2 DEF Dispatched, InLock
    <3> QED BY <2>6, <3>1, <3>2, <3>3 DEF Quiet
  <2>10. Facing(pc[p], call[p], hand[p])'
    BY <1>2, <1>4, <2>1, <2>2, <2>4, <2>6 DEF Facing, Same, Placed, Terminal
  <2>11. CoveredNext(p)
    BY <1>1, <1>2, <1>7, <2>1, <2>2, <2>6 DEF CoveredNext, PostsCovered, CountCovered
  <2>12. hand[p].source <= auth'.revision /\ hand[p].source < auth'.revision
         /\ auth'.kind # "absent" /\ pc[p] # "down"
    BY <1>1, <1>2, <2>1, <2>6
  <2> QED BY <1>2, <1>4, <1>7, <2>2, <2>7, <2>8, <2>9, <2>10, <2>11, <2>12, GotoSound
<1>8. CASE o = "group" /\ ~Visible(o) /\ Exit(p) /\ faults' = faults + 1
  BY <1>1, <1>4, <1>5, <1>8, ExitFault
<1> QED BY <1>6, <1>7, <1>8

\* The outcome is put into the outbox.
LEMMA EnqueueOutcomeSound ==
  ASSUME SoundStorage, IInv, IInv', SInv, NEW p \in Service, EnqueueOutcome(p)
  PROVE  SInv'
<1> DEFINE key == EventKey(hand[p])
           j == IF pc[p] = "discard" THEN hand[p] ELSE [hand[p] EXCEPT !.enqueued = TRUE]
           l == IF pc[p] = "discard" THEN "forget" ELSE "mark"
<1>1. pc[p] \in {"enqueue", "discard"} /\ pc[p] \in InLock
  BY DEF EnqueueOutcome, InLock
<1>2. hand[p].state \in Terminal /\ hand[p] \in Journal /\ hand[p] # NoJournal
  BY <1>1, HandType DEF HandFits, NoJournal, Terminal
<1>3. /\ Alone(p) /\ auth.kind # "absent" /\ Quiet /\ Sound(hand[p])
      /\ hand[p].source <= auth.revision
      /\ Same(hand[p])
      /\ pc[p] = "enqueue" => Placed(hand[p])
      /\ pc[p] = "discard" => hand[p].source # auth.revision
  BY <1>1, <1>2, InLockFacts DEF Facing
<1>4. PICK o \in WriteOutcomes :
        /\ outbox' = IF Visible(o) THEN outbox \cup {key} ELSE outbox
        /\ UNCHANGED <<auth, journal, cli, now, nextRevision, starts, crashes, history>>
        /\ Ends(p, o, Goto(p, l, j))
  <2>1. "done" \in WriteOutcomes
    BY DEF WriteOutcomes
  <2>2. PICK o \in IF key \in outbox THEN {"done"} ELSE WriteOutcomes :
          /\ outbox' = IF Visible(o) THEN outbox \cup {key} ELSE outbox
          /\ UNCHANGED <<auth, journal, cli, now, nextRevision, starts, crashes, history>>
          /\ Ends(p, o, IF pc[p] = "discard" THEN Goto(p, "forget", hand[p])
                        ELSE Goto(p, "mark", [hand[p] EXCEPT !.enqueued = TRUE]))
    BY DEF EnqueueOutcome
  <2>3. Ends(p, o, Goto(p, l, j))
    BY <2>2 DEF Ends
  <2> QED BY <2>1, <2>2, <2>3
<1>5. \/ o = "done" /\ Visible(o) /\ Goto(p, l, j) /\ faults' = faults
      \/ o = "group" /\ ~Visible(o) /\ Exit(p) /\ faults' = faults + 1
  BY <1>4, WriteEnds
<1>6. UNCHANGED <<auth, journal, cli, now, nextRevision, starts, crashes, owed, spent, posts>>
  BY <1>4 DEF history
<1>7. CASE o = "done" /\ Visible(o) /\ Goto(p, l, j) /\ faults' = faults
  <2>1. /\ j \in Journal /\ Sound(j) /\ j.state = hand[p].state /\ j.source = hand[p].source
        /\ j.succ = hand[p].succ /\ j.attempt = hand[p].attempt
        /\ pc[p] # "discard" => j.enqueued
    BY <1>2, <1>3, MarkedSound
  <2> HIDE DEF j
  <2>2. /\ Elsewhere(p) /\ pc'[p] = l /\ hand'[p] = j /\ call' = call
        /\ l \in InLock /\ l # "ack" /\ l \notin {"authorize", "reserve", "request"}
    BY <1>7, GotoAt DEF InLock
  <2>3. outbox' = outbox \cup {key} /\ cli = "idle"
    BY <1>3, <1>4, <1>7 DEF Alone
  <2>4. FilesSound'
    BY <1>6, <2>3, FilesRecorded
  <2>5. Found' = Found /\ EventKey(Found) = key /\ Settled'
    <3>1. Found' = Found
      BY <1>6 DEF Found
    <3>2. EventKey(Found) = key
      BY <1>3 DEF Same, EventKey
    <3> QED BY <1>6, <2>3, <3>1, <3>2 DEF Settled
  <2>6. Steady(p)
    BY <1>6, SteadyUntouched
  <2>7. Quiet'
    BY <1>3, <1>6, <2>2, QuietNext
  <2>8. Found.source = journal.source
    BY FoundFacts
  <2>9. Facing(pc[p], call[p], hand[p])'
    <3>1. j # NoJournal
      BY <1>2, <2>1 DEF NoJournal, Terminal
    <3> QED BY <1>1, <1>3, <1>6, <2>1, <2>2, <2>5, <2>8, <3>1 DEF Facing, Same, Placed
  <2>10. CoveredNext(p)
    <3>1. SUFFICES ASSUME crashes = 0, faults = 0
                   PROVE  PostsCovered' /\ CountCovered(p)'
      BY <1>6, <1>7 DEF CoveredNext
    <3>2. CountCovered(p)
      BY <3>1 DEF SInv, Covered
    <3>3. PostsCovered'
      BY <1>1, <1>3, <1>6, <3>1, PostsUntouched
    <3> QED BY <1>1, <1>2, <1>6, <2>1, <2>2, <3>2, <3>3 DEF CountCovered
  <2>11. j.source <= auth'.revision /\ auth'.kind # "absent" /\ pc[p] # "down"
         /\ pc[p] \notin {"commit", "write", "replace"}
    BY <1>1, <1>3, <1>6, <2>1
  <2> QED BY <1>3, <1>7, <2>1, <2>2, <2>4, <2>6, <2>7, <2>9, <2>10, <2>11, GotoSound
<1>8. CASE o = "group" /\ ~Visible(o) /\ Exit(p) /\ faults' = faults + 1
  BY <1>1, <1>3, <1>4, <1>6, <1>8, ExitFault
<1> QED BY <1>5, <1>7, <1>8

\* A record of the outcome the journal already names replaces it.
LEMMA RewriteFiles ==
  ASSUME IInv, SInv, NEW j \in Journal, j.state \in Terminal, Sound(j), Same(j), Placed(j),
         Settled, cli = "idle", journal' = j,
         spent' = IF j.state = "ROTATED" THEN spent \cup {j.source} ELSE spent,
         UNCHANGED <<auth, outbox, owed, cli, now, nextRevision>>
  PROVE  FilesSound' /\ Found' = j /\ Settled' /\ spent' = spent
<1>1. j.version = 3 /\ Found' = j
  BY LoadedSame DEF Sound, Found
<1>2. FilesSound
  BY DEF SInv
<1>3. spent' = spent
  BY <1>2, FoundFacts DEF Same, FilesSound
<1>4. auth.revision \notin spent /\ j.source = journal.source
  BY <1>2, FoundFacts, Numbers DEF Same, Placed, FilesSound
<1>5. EventKey(Found) = EventKey(j) /\ EventKey(Found)' = EventKey(j)
  BY <1>1 DEF Same, EventKey
<1>6. Settled'
  BY <1>1, <1>3, <1>5 DEF Settled, Same
<1>7. NoOutcomeLost'
  BY <1>1, <1>2, <1>5 DEF NoOutcomeLost, FilesSound, Found, Same
<1>8. (journal.state = "ROTATED" => journal.source \in spent)'
  OBVIOUS
<1>9. Sound(Found)' /\ (auth.kind # "absent" => journal.source <= auth.revision)'
  BY <1>1, <1>2, <1>4 DEF FilesSound
<1> QED BY <1>1, <1>2, <1>3, <1>4, <1>6, <1>7, <1>8, <1>9 DEF FilesSound

\* The journal says that the outcome is in the outbox.
LEMMA MarkEnqueuedSound ==
  ASSUME SoundStorage, IInv, IInv', SInv, NEW p \in Service, MarkEnqueued(p)
  PROVE  SInv'
<1>1. pc[p] = "mark" /\ pc[p] \in InLock /\ WriteJournal(p, Goto(p, "drain", hand[p]))
  BY DEF MarkEnqueued, InLock
<1>2. hand[p].state \in Terminal /\ hand[p] \in Journal /\ hand[p] # NoJournal
  BY <1>1, HandType DEF HandFits, NoJournal, Terminal
<1>3. /\ Alone(p) /\ auth.kind # "absent" /\ Quiet /\ Sound(hand[p])
      /\ hand[p].source <= auth.revision
      /\ Same(hand[p]) /\ Placed(hand[p]) /\ hand[p].enqueued /\ Settled
  BY <1>1, <1>2, InLockFacts DEF Facing
<1>4. CASE /\ Goto(p, "drain", hand[p])
           /\ journal' = hand[p]
           /\ spent' = IF hand[p].state = "ROTATED" THEN spent \cup {hand[p].source} ELSE spent
           /\ owed' = IF pc[p] = "write" THEN owed \cup {EventKey(hand[p])} ELSE owed
           /\ UNCHANGED <<auth, outbox, cli, now, nextRevision, starts, crashes, faults, posts>>
  <2>1. hand[p].version = 3 /\ owed' = owed /\ cli = "idle"
    BY <1>1, <1>3, <1>4 DEF Sound, Alone
  <2>2. FilesSound' /\ Found' = hand[p] /\ Settled' /\ spent' = spent
    BY <1>2, <1>3, <1>4, <2>1, RewriteFiles
  <2>3. Steady(p)
    BY <1>3, <1>4, <2>2, Numbers, SteadyQuiet
  <2>4. /\ Elsewhere(p) /\ pc'[p] = "drain" /\ hand'[p] = hand[p] /\ call' = call
        /\ "drain" \in InLock /\ auth' = auth
    BY <1>4, GotoAt DEF InLock
  <2>5. Quiet'
    BY <1>3, <2>4, QuietNext
  <2>6. Facing(pc[p], call[p], hand[p])'
    BY <1>2, <1>3, <2>2, <2>4 DEF Facing, Same, Placed
  <2>7. CoveredNext(p)
    <3>1. SUFFICES ASSUME crashes = 0, faults = 0
                   PROVE  PostsCovered' /\ CountCovered(p)'
      BY <1>4 DEF CoveredNext
    <3>2. CountCovered(p) /\ PostsCovered
      BY <3>1 DEF SInv, Covered
    <3>3. Found.source = journal.source
      BY FoundFacts
    <3>4. PostsCovered'
      BY <1>1, <1>2, <1>3, <1>4, <2>1, <3>2, <3>3
         DEF PostsCovered, CountCovered, Same, Terminal
    <3> QED BY <1>1, <1>4, <2>4, <3>2, <3>4 DEF CountCovered
  <2>8. hand[p].source <= auth'.revision /\ auth'.kind # "absent" /\ pc[p] # "down"
         /\ pc[p] \notin {"commit", "write", "replace"}
    BY <1>1, <1>3, <2>4
  <2> QED BY <1>2, <1>3, <1>4, <2>2, <2>3, <2>4, <2>5, <2>6, <2>7, <2>8, GotoSound
<1>5. CASE /\ Exit(p)
           /\ faults' = faults + 1
           /\ UNCHANGED <<auth, journal, outbox, owed, spent, cli, now, nextRevision, starts,
                          posts>>
  BY <1>1, <1>3, <1>5, ExitFault
<1> QED BY <1>1, <1>4, <1>5, WriteJournalSound

\* Deleting a journal whose outcome is settled, and which is not the rotation of
\* the current revision, leaves the files sound.
LEMMA UnlinkFiles ==
  ASSUME IInv, SInv, Settled, journal' = NoJournal, cli' = "idle",
         UNCHANGED <<auth, outbox, owed, spent, now, nextRevision>>,
         ~(journal.state = "ROTATED" /\ journal.source = auth.revision)
  PROVE  FilesSound' /\ Found' = NoJournal /\ Settled'
<1>1. NoJournal.state = "ABSENT" /\ NoJournal.source = 0 /\ NoJournal.version = 3
      /\ ~NoJournal.enqueued /\ NoJournal \in Journal
  BY JournalTypes DEF NoJournal, NoRevision
<1>2. Found' = NoJournal
  BY <1>1, LoadedSame DEF Found
<1>3. FilesSound
  BY DEF SInv
<1>4. Settled'
  BY <1>1, <1>2 DEF Settled, Terminal
<1>5. NoOutcomeLost'
  BY <1>3 DEF FilesSound, NoOutcomeLost, Settled, Found
<1>6. (auth.kind # "absent" => journal.source <= auth.revision)'
  BY <1>1, Numbers
<1>7. auth.revision \notin spent
  BY <1>3 DEF FilesSound
<1> QED BY <1>1, <1>2, <1>3, <1>4, <1>5, <1>6, <1>7, NoJournalSound DEF FilesSound

\* A reservation or superseded state is deleted.
LEMMA ForgetJournalSound ==
  ASSUME SoundStorage, IInv, IInv', SInv, NEW p \in Service, ForgetJournal(p)
  PROVE  SInv'
<1> DEFINE Ok == IF call[p] = "prepare" THEN Goto(p, "drain", NoJournal)
                                        ELSE Return(p, "idle", Nothing)
<1>1. pc[p] = "forget" /\ pc[p] \in InLock
  BY DEF ForgetJournal, InLock
<1>2. /\ Alone(p) /\ auth.kind # "absent" /\ Quiet /\ Settled
      /\ journal.source # auth.revision \/ journal.state = "RESERVED"
  BY <1>1, InLockFacts DEF Facing
<1>3. PICK o \in UnlinkOutcomes :
        /\ journal' = IF Visible(o) THEN NoJournal ELSE journal
        /\ UNCHANGED <<auth, outbox, cli, now, nextRevision, starts, crashes, history>>
        /\ Ends(p, o, Ok)
  BY DEF ForgetJournal
<1>4. Visible(o) /\ Ok /\ faults' = faults
  BY <1>3, UnlinkEnds
<1>5. /\ journal' = NoJournal /\ cli = "idle"
      /\ UNCHANGED <<auth, outbox, owed, spent, posts, cli, now, nextRevision, starts, crashes>>
  BY <1>2, <1>3, <1>4 DEF history, Alone
<1>6. FilesSound' /\ Found' = NoJournal /\ NoJournal.state = "ABSENT"
  BY <1>2, <1>5, UnlinkFiles DEF NoJournal
<1>7. Steady(p)
  BY <1>2, <1>5, Numbers, SteadyQuiet
<1>8. crashes' = 0 /\ faults' = 0 => crashes = 0 /\ faults = 0 /\ PostsCovered'
  <2>1. SUFFICES ASSUME crashes = 0, faults = 0 PROVE PostsCovered'
    BY <1>4, <1>5
  <2>2. PostsCovered /\ ~(\E q \in Service : pc[q] = "request")
    BY <1>1, <1>2, <2>1 DEF SInv, Covered, Alone, InLock
  <2> QED BY <1>2, <1>5, <2>2 DEF PostsCovered
<1>9. CASE call[p] = "prepare"
  <2>1. Goto(p, "drain", NoJournal) /\ NoJournal \in Journal
    BY <1>4, <1>9, JournalTypes
  <2>2. /\ Elsewhere(p) /\ pc'[p] = "drain" /\ hand'[p] = NoJournal /\ call' = call
        /\ "drain" \in InLock
    BY <2>1, GotoAt DEF InLock
  <2>3. Quiet'
    BY <1>2, <1>5, <2>2, QuietNext
  <2>4. Facing(pc[p], call[p], hand[p])'
    BY <1>5, <1>6, <2>2 DEF Facing
  <2>5. CoveredNext(p)
    BY <1>6, <1>8, <2>2 DEF CoveredNext, CountCovered, Terminal
  <2>6. NoJournal.source <= auth'.revision
    BY <1>5, Numbers DEF NoJournal, NoRevision
  <2> QED BY <1>1, <1>2, <1>5, <1>6, <1>7, <2>1, <2>2, <2>3, <2>4, <2>5, <2>6, NoJournalSound,
             GotoSound
<1>10. CASE call[p] # "prepare"
  BY <1>1, <1>2, <1>4, <1>6, <1>7, <1>8, <1>10, LeaveSound
<1> QED BY <1>9, <1>10

\* A step of an outbox pass that keeps what the call has in memory.
LEMMA PassSound ==
  ASSUME IInv, IInv', SInv, NEW p \in Service, pc[p] \in {"drain", "ack"},
         pc'[p] \in {"drain", "ack"}, Elsewhere(p), Alone(p),
         UNCHANGED <<call, rev, hand, retained, life, got, auth, journal, posts, spent, cli, now,
                     nextRevision, starts, crashes, faults>>,
         owed' \subseteq owed, \A k \in owed' : k \in outbox => k \in outbox',
         pc'[p] = "ack" => sent'[p] \notin owed'
  PROVE  SInv'
<1>1. pc[p] \in InLock /\ pc'[p] \in InLock /\ pc[p] # "down" /\ pc[p] # "request"
      /\ pc[p] \notin {"commit", "write", "replace"} /\ pc'[p] \notin {"authorize", "reserve", "request"}
  BY DEF InLock
<1>2. /\ auth.kind # "absent" /\ hand[p].source <= auth.revision /\ Sound(hand[p])
      /\ Facing(pc[p], call[p], hand[p])
      /\ ~(call[p] = "startup" /\ hand[p] = NoJournal) => Quiet
  BY <1>1, InLockFacts
<1>3. FilesSound' /\ (Settled => Settled') /\ Steady(p)
  BY FilesRecorded, SteadyUntouched DEF Alone
<1>4. ~(call[p] = "startup" /\ hand[p] = NoJournal) => Quiet'
  BY <1>1, <1>2, QuietNext
<1>5. Facing(pc[p], call[p], hand[p])'
  <2>1. Found' = Found
    BY DEF Found
  <2> QED BY <1>2, <1>3, <2>1 DEF Facing, Same, Placed
<1>6. CoveredNext(p)
  <2>1. SUFFICES ASSUME crashes = 0, faults = 0 PROVE PostsCovered' /\ CountCovered(p)'
    BY DEF CoveredNext
  <2>2. PostsCovered' /\ CountCovered(p)
    BY <1>1, <2>1, PostsUntouched DEF SInv, Covered
  <2> QED BY <2>2 DEF CountCovered
<1> QED BY <1>1, <1>2, <1>3, <1>4, <1>5, <1>6, StaySound

\* The sink refuses a record.
LEMMA DeliverRefusedSound ==
  ASSUME IInv, IInv', SInv, NEW p \in Service, DeliverRefused(p)
  PROVE  SInv'
<1>1. pc[p] = "drain" /\ Alone(p) /\ pc' = pc
  BY Entering DEF DeliverRefused, InLock
<1>2. UNCHANGED <<call, rev, hand, sent, retained, life, got, auth, journal, outbox, posts, spent,
                  owed, cli, now, nextRevision, starts, crashes, faults>>
  BY DEF DeliverRefused, disk, counter, history
<1>3. Elsewhere(p)
  BY <1>1, <1>2 DEF Elsewhere
<1> QED BY <1>1, <1>2, <1>3, PassSound

\* The sink accepts a record.
LEMMA DeliverAcceptedSound ==
  ASSUME IInv, IInv', SInv, NEW p \in Service, DeliverAccepted(p)
  PROVE  SInv'
<1>1. pc[p] = "drain" /\ Alone(p)
  BY Entering DEF DeliverAccepted, InLock
<1>2. UNCHANGED <<call, rev, hand, retained, life, got, auth, journal, outbox, posts, spent,
                  cli, now, nextRevision, starts, crashes, faults>>
  BY DEF DeliverAccepted, disk, counter
<1>3. pc'[p] = "ack" /\ sent'[p] = NextRecord(p) /\ owed' = owed \ {NextRecord(p)}
  BY IInvParts DEF DeliverAccepted, Shapes
<1>4. Elsewhere(p)
  BY <1>2, IInvParts DEF DeliverAccepted, Shapes, Elsewhere
<1> QED BY <1>1, <1>2, <1>3, <1>4, PassSound

\* A delivered record leaves the outbox.
LEMMA AcknowledgeSound ==
  ASSUME SoundStorage, IInv, IInv', SInv, NEW p \in Service, Acknowledge(p)
  PROVE  SInv'
<1>1. pc[p] = "ack" /\ Alone(p) /\ sent[p] \notin owed
  BY Entering DEF Acknowledge, InLock, SInv, ProcessSound
<1>2. PICK o \in WriteOutcomes :
        /\ outbox' = IF Visible(o) THEN outbox \ {sent[p]} ELSE outbox
        /\ UNCHANGED <<auth, journal, cli, now, nextRevision, starts, crashes, history>>
        /\ Ends(p, o, Acknowledged(p))
  BY DEF Acknowledge, UnlinkOutcomes
<1>3. \/ o = "done" /\ Visible(o) /\ Acknowledged(p) /\ faults' = faults
      \/ o = "group" /\ ~Visible(o) /\ Exit(p) /\ faults' = faults + 1
  BY <1>2, WriteEnds
<1>4. UNCHANGED <<auth, journal, cli, now, nextRevision, starts, crashes, owed, spent, posts>>
  BY <1>2 DEF history
<1>5. CASE o = "done" /\ Visible(o) /\ Acknowledged(p) /\ faults' = faults
  <2>1. pc'[p] = "drain" /\ UNCHANGED <<call, rev, hand, retained, life, got>>
    BY <1>5, IInvParts DEF Acknowledged, Shapes
  <2>2. Elsewhere(p)
    BY <1>5, IInvParts DEF Acknowledged, Shapes, Elsewhere
  <2>3. outbox' = outbox \ {sent[p]}
    BY <1>2, <1>5
  <2> QED BY <1>1, <1>4, <1>5, <2>1, <2>2, <2>3, PassSound
<1>6. CASE o = "group" /\ ~Visible(o) /\ Exit(p) /\ faults' = faults + 1
  BY <1>1, <1>2, <1>4, <1>6, ExitFault
<1> QED BY <1>3, <1>5, <1>6

\* An outbox pass that follows an outcome ends.
LEMMA EndRecordSound ==
  ASSUME IInv, IInv', SInv, NEW p \in Service, EndRecord(p)
  PROVE  SInv'
<1>1. /\ pc[p] = "drain" /\ pc[p] \in InLock /\ hand[p].state \in Terminal
      /\ UNCHANGED <<disk, cli, counter, history>>
  BY DEF EndRecord, InLock
<1>2. hand[p] # NoJournal /\ hand[p] \in Journal
  BY <1>1, HandType DEF NoJournal, Terminal
<1>3. /\ Alone(p) /\ auth.kind # "absent" /\ Quiet /\ Sound(hand[p])
      /\ hand[p].source <= auth.revision
      /\ Same(hand[p]) /\ Placed(hand[p]) /\ Settled
  BY <1>1, <1>2, InLockFacts DEF Facing
<1>4. \/ hand[p].state = "ROTATED" /\ EventKey(hand[p]) \notin outbox /\ Goto(p, "finish", hand[p])
      \/ call[p] = "prepare" /\ hand[p].state = "OUTCOME_UNKNOWN" /\ Goto(p, "recover", hand[p])
      \/ \E l \in {"idle", "parked", "down"} : Return(p, l, Nothing)
  BY DEF EndRecord, Recorded, Exit
<1>5. \A q \in Service : q # p /\ Dispatched(q) => rev[q] # auth.revision
  BY <1>3 DEF Quiet
<1>6. CASE hand[p].state = "ROTATED" /\ EventKey(hand[p]) \notin outbox
           /\ Goto(p, "finish", hand[p])
  <2>1. "finish" \in InLock \ {"ack"} /\ Facing("finish", call[p], hand[p])
    BY <1>3, <1>6 DEF InLock, Facing
  <2> QED BY <1>1, <1>2, <1>3, <1>5, <1>6, <2>1, GotoQuiet
<1>7. CASE call[p] = "prepare" /\ hand[p].state = "OUTCOME_UNKNOWN"
           /\ Goto(p, "recover", hand[p])
  <2>1. "recover" \in InLock \ {"ack"} /\ Facing("recover", call[p], hand[p])
    BY <1>3, <1>7 DEF InLock, Facing, Placed
  <2>2. crashes = 0 /\ faults = 0 /\ hand[p].source = auth.revision
          => posts <= hand[p].attempt.count
    BY <1>1 DEF SInv, Covered, CountCovered
  <2> QED BY <1>1, <1>2, <1>3, <1>5, <1>7, <2>1, <2>2, GotoQuiet
<1>8. CASE \E l \in {"idle", "parked", "down"} : Return(p, l, Nothing)
  BY <1>1, <1>3, <1>8, LeaveQuiet
<1> QED BY <1>4, <1>6, <1>7, <1>8

\* A delivered rotation leaves the journal.
LEMMA DeleteRotatedSound ==
  ASSUME SoundStorage, IInv, IInv', SInv, NEW p \in Service, DeleteRotated(p)
  PROVE  SInv'
<1>1. pc[p] = "finish" /\ pc[p] \in InLock
  BY DEF DeleteRotated, InLock
<1>2. hand[p].state = "ROTATED" /\ hand[p] # NoJournal
  BY <1>1, HandType DEF HandFits, NoJournal
<1>3. /\ Alone(p) /\ auth.kind # "absent" /\ Quiet
      /\ Same(hand[p]) /\ Placed(hand[p]) /\ Settled
  BY <1>1, <1>2, InLockFacts DEF Facing
<1>4. PICK o \in UnlinkOutcomes :
        /\ journal' = IF Visible(o) THEN NoJournal ELSE journal
        /\ UNCHANGED <<auth, outbox, cli, now, nextRevision, starts, crashes, history>>
        /\ Ends(p, o, Recorded(p))
  BY DEF DeleteRotated
<1>5. Visible(o) /\ Recorded(p) /\ faults' = faults
  BY <1>4, UnlinkEnds
<1>6. /\ journal' = NoJournal /\ cli = "idle"
      /\ UNCHANGED <<auth, outbox, owed, spent, posts, cli, now, nextRevision, starts, crashes>>
  BY <1>3, <1>4, <1>5 DEF history, Alone
<1>7. journal.source < auth.revision /\ journal.source # auth.revision
  BY <1>2, <1>3, FoundFacts, Numbers DEF Same, Placed
<1>8. FilesSound'
  BY <1>3, <1>6, <1>7, UnlinkFiles
<1>9. Steady(p)
  BY <1>3, <1>6, Numbers, SteadyQuiet
<1>10. crashes' = 0 /\ faults' = 0 => crashes = 0 /\ faults = 0 /\ PostsCovered'
  BY <1>5, <1>6, <1>7 DEF SInv, Covered, PostsCovered
<1>11. \E l \in {"idle", "parked", "down"} : Return(p, l, Nothing)
  BY <1>2, <1>5 DEF Recorded, Exit
<1> QED BY <1>1, <1>3, <1>8, <1>9, <1>10, <1>11, LeaveSound

-----------------------------------------------------------------------------
(* Reconciliation, entries and dispatch: each keeps SInv.                   *)

\* A journal that is not the request of a live process covers no dispatch.
LEMMA NothingUnderWay ==
  ASSUME IInv, SInv, ~RequestInFlight(Found)
  PROVE  Quiet
<1>1. SUFFICES ASSUME NEW q \in Service, Dispatched(q), rev[q] = auth.revision PROVE FALSE
  BY DEF Quiet
<1>2. /\ journal.version = 3 /\ journal.state = "REQUESTED" /\ journal.source = auth.revision
      /\ journal.attempt.owner = life[q]
      /\ life[q] = NoOwner <=> pc[q] = "down"
  BY <1>1 DEF SInv, ProcessSound
<1>3. life[q] # NoOwner
  BY <1>1, <1>2 DEF Dispatched
<1> QED BY <1>2, <1>3, FoundFacts DEF RequestInFlight, Alive

\* The posts are within the count of the journal as it is read.
LEMMA FoundCovers ==
  ASSUME IInv, SInv, crashes = 0, faults = 0
  PROVE  posts <= Found.attempt.count
<1>1. PostsCovered /\ posts \in Nat /\ Found \in Journal
  BY Numbers, FoundFacts DEF SInv, Covered
<1>2. Found.attempt.count \in Nat
  BY <1>1 DEF Journal, Attempt
<1> QED BY <1>1, <1>2, FoundFacts DEF PostsCovered

\* What a recovery goes on with faces the journal it found.
LEMMA ReconcileFaces ==
  ASSUME IInv, SInv, Readable(journal), auth.kind # "absent", NEW c \in {"startup", "prepare"}
  PROVE  LET l == RecoveryPoint(Found)
             j == RecoveryRecord(Found)
         IN  /\ j \in Journal /\ Sound(j) /\ Facing(l, c, j) /\ j # NoJournal
             /\ l \in {"drain", "enqueue", "discard", "forget", "replace", "write"}
             /\ j.source <= auth.revision /\ j.attempt.count = Found.attempt.count
<1> DEFINE F == Found
           a == WithContinuation(F.attempt, "ambiguity_replay", now)
           u == JournalOf("OUTCOME_UNKNOWN", F.source, NoRevision, a)
<1>1. /\ F \in Journal /\ Created(F) /\ F.state \in Phases
      /\ F.source = journal.source /\ F.enqueued = journal.enqueued
      /\ F.state = "RESERVED" => journal.state = "RESERVED"
  BY LoadedFits, FoundFacts, Numbers DEF Found, Loaded, Journal, Phases, Terminal
<1>2. /\ FilesSound /\ Sound(F) /\ F.source <= auth.revision
      /\ F.enqueued => Settled /\ F.state \in Terminal
  BY <1>1 DEF SInv, FilesSound, Sound
<1>3. F # NoJournal /\ F.source \in Nat /\ F.succ \in Nat /\ auth.revision \in Nat
  BY <1>1, Numbers DEF NoJournal, Phases, Terminal, Journal
<1>4. F.state \notin Terminal => Settled
  BY DEF Settled
<1>5. F.state = "ROTATED" => F.source < F.succ
  BY <1>1 DEF Created
<1>6. CASE F.state = "REQUESTED" /\ F.source = auth.revision
  <2>1. F.attempt \in Attempt /\ now \in Nat \ {0} /\ "ambiguity_replay" \in Lanes
    BY <1>1, <1>2, Numbers DEF Journal, FilesSound, Lanes
  <2>2. a \in Attempt /\ a.count = F.attempt.count
    BY <2>1, AttemptTypes, AttemptFields
  <2>3. /\ u \in Journal /\ u.version = 3 /\ u.state = "OUTCOME_UNKNOWN" /\ ~u.enqueued
        /\ u.source = F.source /\ u.attempt = a
    <3> HIDE DEF a
    <3> QED BY <1>3, <2>2, JournalTypes DEF JournalOf, Journal, Phases, Terminal, NoRevision
  <2>4. /\ Within(F.attempt) /\ Counted(F.attempt) /\ F.attempt.cap = TotalDispatchCap
    BY <1>1, <1>2, <1>6, RequestSound
  <2>5. Sound(u) /\ Fits(u)
    <3> HIDE DEF u
    <3> QED BY <2>1, <2>3, <2>4, ContinuationSound
  <2>6. RecoveryPoint(F) = "write" /\ RecoveryRecord(F) = u
    BY <1>6 DEF RecoveryPoint, RecoveryRecord, Terminal
  <2> HIDE DEF u, a
  <2>7. u # NoJournal
    BY <2>3 DEF NoJournal
  <2>8. Facing("write", c, u)
    BY <1>6, <2>3, <2>5 DEF Facing, Terminal
  <2> QED BY <1>2, <2>2, <2>3, <2>5, <2>6, <2>7, <2>8
<1>7. CASE ~(F.state = "REQUESTED" /\ F.source = auth.revision)
  <2> DEFINE l == RecoveryPoint(F)
  <2>1. RecoveryRecord(F) = F
    BY <1>7 DEF RecoveryRecord
  <2>2. Same(F)
    BY DEF Same
  <2>3. /\ l \in {"drain", "enqueue", "discard", "forget", "replace"}
        /\ l \in {"drain", "enqueue"} => F.state \in Terminal /\ Placed(F)
        /\ l = "drain" => F.enqueued
        /\ l = "discard" => F.source # auth.revision
        /\ l = "replace" => F.source = auth.revision
        /\ l = "forget" => /\ F.state \notin Terminal \/ F.enqueued
                           /\ F.source # auth.revision \/ F.state = "RESERVED"
    <3> HIDE DEF F
    <3>1. CASE F.state = "ROTATED" /\ F.succ = auth.revision
      BY <1>5, <3>1 DEF RecoveryPoint, RecordFrom, Placed, Terminal
    <3>2. CASE ~(F.state = "ROTATED" /\ F.succ = auth.revision) /\ F.source # auth.revision
      BY <3>2 DEF RecoveryPoint
    <3>3. CASE ~(F.state = "ROTATED" /\ F.succ = auth.revision) /\ F.source = auth.revision
      BY <1>1, <1>7, <3>3 DEF RecoveryPoint, RecordFrom, Placed, Phases, Terminal
    <3> QED BY <3>1, <3>2, <3>3
  <2> HIDE DEF l
  <2>4. Facing(l, c, F)
    <3> HIDE DEF F
    <3> QED BY <1>1, <1>2, <1>3, <1>4, <2>2, <2>3 DEF Facing
  <2> QED BY <1>1, <1>2, <1>3, <2>1, <2>3, <2>4 DEF l
<1> QED BY <1>6, <1>7

\* Taking up the journal found on disk.
LEMMA ReconcileSound ==
  ASSUME IInv, IInv', SInv, NEW p \in Service, Alone(p), pc[p] \in {"drain", "due"},
         UNCHANGED <<disk, cli, counter, history>>,
         call[p] \in {"startup", "prepare"}, auth.kind # "absent",
         Readable(journal), ~RequestInFlight(Found), Reconcile(p, Found)
  PROVE  SInv'
<1> DEFINE l == RecoveryPoint(Found)
           j == RecoveryRecord(Found)
<1>1. Goto(p, l, j)
  BY DEF Reconcile
<1>2. /\ j \in Journal /\ Sound(j) /\ Facing(l, call[p], j)
      /\ l \in {"drain", "enqueue", "discard", "forget", "replace", "write"}
      /\ j.source <= auth.revision /\ j.attempt.count = Found.attempt.count
  BY ReconcileFaces
<1> HIDE DEF l, j
<1>3. \A q \in Service : q # p /\ Dispatched(q) => rev[q] # auth.revision
  BY NothingUnderWay DEF Quiet
<1>4. crashes = 0 /\ faults = 0 => posts <= j.attempt.count
  BY <1>2, FoundCovers
<1>5. l \in InLock \ {"ack"} /\ l \notin {"authorize", "reserve", "request"}
  BY <1>2 DEF InLock
<1> QED BY <1>1, <1>2, <1>3, <1>4, <1>5, GotoQuiet

\* The startup reconciliation takes the lock.
LEMMA RecoverStartupSound ==
  ASSUME IInv, IInv', SInv, NEW p \in Service, RecoverStartup(p)
  PROVE  SInv'
<1>1. /\ pc[p] = "startup" /\ Alone(p) /\ call[p] = "startup"
      /\ UNCHANGED <<disk, cli, counter, history>>
  BY Entering, HandType DEF RecoverStartup, CallFits
<1>2. CASE auth.kind = "absent" /\ Return(p, "idle", Nothing)
  BY <1>1, <1>2, LeaveQuiet
<1>3. CASE auth.kind # "absent" /\ Goto(p, "drain", NoJournal)
  <2>1. /\ "drain" \in InLock \ {"ack"} /\ NoJournal \in Journal /\ NoJournal.state = "ABSENT"
        /\ NoJournal.source <= auth.revision
    BY JournalTypes, Numbers DEF InLock, NoJournal, NoRevision
  <2>2. Facing("drain", call[p], NoJournal)
    BY <1>1 DEF Facing
  <2> QED BY <1>1, <1>3, <2>1, <2>2, NoJournalSound, GotoQuiet DEF Terminal
<1> QED BY <1>2, <1>3 DEF RecoverStartup

\* The startup reconciliation of the journal.
LEMMA RecoverStartupJournalSound ==
  ASSUME IInv, IInv', SInv, NEW p \in Service, RecoverStartupJournal(p)
  PROVE  SInv'
<1>1. /\ pc[p] = "drain" /\ pc[p] \in InLock /\ call[p] = "startup"
      /\ UNCHANGED <<disk, cli, counter, history>>
  BY DEF RecoverStartupJournal, InLock
<1>2. Alone(p) /\ auth.kind # "absent"
  BY <1>1, InLockFacts
<1>3. CASE Return(p, "idle", Nothing)
  BY <1>1, <1>2, <1>3, LeaveQuiet
<1>4. CASE Readable(journal) /\ ~RequestInFlight(Found) /\ Reconcile(p, Found)
  BY <1>1, <1>2, <1>4, ReconcileSound
<1> QED BY <1>3, <1>4 DEF RecoverStartupJournal, Found

\* The preparation of a refresh.
LEMMA PrepareSound ==
  ASSUME IInv, IInv', SInv, NEW p \in Service, Prepare(p)
  PROVE  SInv'
<1> DEFINE Park == /\ pc' = [pc EXCEPT ![p] = "parked"]
                   /\ call' = [call EXCEPT ![p] = "none"]
                   /\ rev' = [rev EXCEPT ![p] = Found.source]
                   /\ UNCHANGED <<hand, todo, sent, retained, life, got>>
<1>1. /\ pc[p] = "due" /\ Alone(p) /\ call[p] = "prepare"
      /\ UNCHANGED <<disk, cli, counter, history>>
  BY Entering, HandType DEF Prepare, CallFits
<1>2. \/ Exit(p)
      \/ auth.kind = "cookie" /\ journal.state = "ABSENT" /\ Goto(p, "drain", NoJournal)
      \/ auth.kind = "cookie" /\ Readable(journal) /\ Park
      \/ auth.kind = "cookie" /\ Readable(journal) /\ ~RequestInFlight(Found)
         /\ Reconcile(p, Found)
  BY DEF Prepare, Readable, Corrupt, Found
<1>3. CASE Exit(p)
  BY <1>1, <1>3, LeaveQuiet DEF Exit
<1>4. CASE auth.kind = "cookie" /\ journal.state = "ABSENT" /\ Goto(p, "drain", NoJournal)
  <2>1. /\ "drain" \in InLock \ {"ack"} /\ NoJournal \in Journal /\ NoJournal.state = "ABSENT"
        /\ NoJournal.source <= auth.revision
    BY JournalTypes, Numbers DEF InLock, NoJournal, NoRevision
  <2>2. Facing("drain", call[p], NoJournal)
    BY <1>4 DEF Facing
  <2>3. Quiet
    BY <1>4, NothingUnderWay, FoundFacts DEF RequestInFlight
  <2>4. \A q \in Service : q # p /\ Dispatched(q) => rev[q] # auth.revision
    BY <2>3 DEF Quiet
  <2> QED BY <1>1, <1>4, <2>1, <2>2, <2>4, NoJournalSound, GotoQuiet DEF Terminal
<1>5. CASE auth.kind = "cookie" /\ Readable(journal) /\ ~RequestInFlight(Found)
           /\ Reconcile(p, Found)
  BY <1>1, <1>5, ReconcileSound
<1>6. CASE auth.kind = "cookie" /\ Readable(journal) /\ Park
  <2>1. /\ UNCHANGED <<auth, journal, outbox, owed, spent, cli, now, nextRevision, starts, posts>>
        /\ crashes' = crashes /\ faults' = faults /\ cli = "idle"
    BY <1>1 DEF disk, counter, history, Alone
  <2>2. FilesSound' /\ Steady(p)
    BY <2>1, FilesUntouched, SteadyUntouched
  <2>3. pc'[p] = "parked" /\ rev'[p] = Found.source /\ UNCHANGED <<hand, sent, retained, life, got>>
    BY <1>6, IInvParts DEF Shapes
  <2>4. Elsewhere(p)
    BY <1>6, IInvParts DEF Shapes, Elsewhere
  <2>5. ~Dispatched(p)' /\ pc'[p] \notin InLock
    BY <2>3 DEF Dispatched, InLock
  <2>6. Found.source <= auth.revision
    BY <1>6, FoundFacts DEF SInv, FilesSound
  <2>7. Facing(pc[p], call[p], hand[p])'
    BY <2>3 DEF Facing
  <2>8. ProcessSound(p) /\ GotPlaced(p)
    BY DEF SInv
  <2>9. ProcessSound(p)'
    BY <1>1, <2>1, <2>3, <2>5, <2>6, <2>7, <2>8 DEF ProcessSound
  <2>10. GotPlaced(p)'
    BY <1>1, <2>1, <2>3, <2>8 DEF GotPlaced
  <2>11. CoveredNext(p)
    BY <1>1, <2>1, <2>3, PostsUntouched DEF CoveredNext, CountCovered
  <2> QED BY <1>1, <2>2, <2>3, <2>4, <2>5, <2>9, <2>10, <2>11, LockStep
<1> QED BY <1>2, <1>3, <1>4, <1>5, <1>6

\* One more dispatch, charged to its lane, stays within the lanes.
LEMMA NextWithin ==
  ASSUME NEW a \in Attempt, NEW t, Within(a), HasNextAttempt(a, t)
  PROVE  /\ NextRecoveryAttempt(a) \in Attempt
         /\ Within(NextRecoveryAttempt(a))
         /\ NextRecoveryAttempt(a).count = a.count + 1
<1> DEFINE b == NextRecoveryAttempt(a)
<1>1. a.cont \in Lanes /\ a.used[a.cont] < LaneLimit[a.cont] /\ b \in Attempt
  BY AttemptTypes DEF HasNextAttempt, ContinuationAvailable
<1>2. b.used = [a.used EXCEPT ![a.cont] = @ + 1] /\ b.count = a.count + 1
  BY <1>1 DEF NextRecoveryAttempt, Attempt
<1>3. \A lane \in Lanes : a.used[lane] \in Nat /\ LaneLimit[lane] \in Nat
  BY LaneTypes DEF Attempt
<1>4. Within(b)
  <2>1. SUFFICES ASSUME NEW lane \in Lanes PROVE b.used[lane] <= LaneLimit[lane]
    BY DEF Within
  <2>2. b.used[lane] = IF lane = a.cont THEN a.used[lane] + 1 ELSE a.used[lane]
    BY <1>1, <1>2 DEF Attempt
  <2> QED BY <1>1, <1>3, <2>2 DEF Within
<1> QED BY <1>1, <1>2, <1>4

\* An authorised attempt is within its budget.
LEMMA AuthorizedCounted ==
  ASSUME NEW a \in Attempt, NEW t, RecoveryDispatchIsAuthorized(a, t)
  PROVE  Counted(a) /\ a.cap = TotalDispatchCap
BY DEF RecoveryDispatchIsAuthorized, Counted

\* The first dispatch of a revision is reserved.
LEMMA BeginDispatchSound ==
  ASSUME IInv, IInv', SInv, NEW p \in Service, BeginDispatch(p)
  PROVE  SInv'
<1> DEFINE a == NormalAttempt(now)
           j == JournalOf("RESERVED", auth.revision, NoRevision, OwnedBy(a, life[p]))
<1>1. /\ pc[p] = "drain" /\ pc[p] \in InLock /\ call[p] = "prepare" /\ hand[p] = NoJournal
      /\ UNCHANGED <<disk, cli, counter, history>>
  BY DEF BeginDispatch, InLock
<1>2. NoJournal.state \notin Terminal
  BY DEF NoJournal, Terminal
<1>3. Alone(p) /\ auth.kind # "absent" /\ Quiet /\ journal.state = "ABSENT"
  BY <1>1, <1>2, InLockFacts DEF Facing
<1>4. CASE Goto(p, "reserve", j)
  <2>1. /\ a \in Attempt /\ a.count = UnbudgetedAttempt.count /\ a.used = UnbudgetedAttempt.used
        /\ a.cap = UnbudgetedAttempt.cap /\ a.count = 1
    BY FreshAttemptTypes, Numbers DEF NormalAttempt, UnbudgetedAttempt
  <2>2. Within(a) /\ Counted(a) /\ a.cap = TotalDispatchCap
    BY <2>1, FreshSound, SameCounters
  <2> HIDE DEF a
  <2>3. /\ j \in Journal /\ Sound(j) /\ j.state = "RESERVED" /\ j.source = auth.revision
        /\ j.attempt.owner = life[p] /\ j.attempt.count = 1
    BY <2>1, <2>2, Numbers, OwnedSound
  <2> HIDE DEF j
  <2>4. Settled
    BY <1>3, FoundFacts DEF Settled, Terminal
  <2>5. Facing("reserve", call[p], j) /\ "reserve" \in InLock \ {"ack"}
    BY <1>3, <2>3, <2>4 DEF Facing, InLock
  <2>6. crashes = 0 /\ faults = 0 => posts < j.attempt.count
    BY <1>3, <2>3, Numbers DEF SInv, Covered, PostsCovered
  <2>7. \A q \in Service : q # p /\ Dispatched(q) => rev[q] # auth.revision
    BY <1>3 DEF Quiet
  <2>8. j.source <= auth.revision
    BY <2>3, Numbers
  <2> QED BY <1>1, <1>3, <1>4, <2>3, <2>5, <2>6, <2>7, <2>8, GotoQuiet
<1>5. CASE Return(p, "idle", Nothing)
  BY <1>1, <1>3, <1>5, LeaveQuiet
<1> QED BY <1>4, <1>5 DEF BeginDispatch

\* What is to be done with an unknown outcome is chosen.
LEMMA RecoverUnknownSound ==
  ASSUME IInv, IInv', SInv, NEW p \in Service, RecoverUnknown(p)
  PROVE  SInv'
<1> DEFINE a == hand[p].attempt
           stopped == [hand[p] EXCEPT !.enqueued = FALSE, !.attempt = StoppedAttempt(a)]
           next == [hand[p] EXCEPT !.attempt = NextRecoveryAttempt(a)]
<1>1. /\ pc[p] = "recover" /\ pc[p] \in InLock /\ call[p] = "prepare"
      /\ UNCHANGED <<disk, cli, counter, history>>
  BY HandType DEF RecoverUnknown, InLock, CallFits
<1>2. /\ Alone(p) /\ auth.kind # "absent" /\ Quiet /\ Sound(hand[p])
      /\ Same(hand[p]) /\ hand[p].source = auth.revision
      /\ hand[p].state = "OUTCOME_UNKNOWN" /\ Settled
  BY <1>1, InLockFacts DEF Facing
<1>3. hand[p] \in Journal /\ a \in Attempt /\ a.count \in Nat /\ posts \in Nat
      /\ auth.revision \in Nat
  BY Numbers
<1>4. \/ Goto(p, "stop", stopped)
      \/ Return(p, "idle", Nothing)
      \/ HasNextAttempt(a, now) /\ Goto(p, "authorize", next)
  BY DEF RecoverUnknown
<1>5. \A q \in Service : q # p /\ Dispatched(q) => rev[q] # auth.revision
  BY <1>2 DEF Quiet
<1>6. crashes = 0 /\ faults = 0 => posts <= a.count
  BY <1>1, <1>2 DEF SInv, Covered, CountCovered, Terminal
<1>7. CASE Goto(p, "stop", stopped)
  <2>1. /\ stopped \in Journal /\ Sound(stopped) /\ stopped.state = hand[p].state
        /\ stopped.source = hand[p].source /\ stopped.succ = hand[p].succ
        /\ stopped.attempt.count = a.count
    BY <1>2, <1>3, StoppedSound
  <2> HIDE DEF stopped
  <2>2. Facing("stop", call[p], stopped) /\ "stop" \in InLock \ {"ack"}
    BY <1>2, <2>1 DEF Facing, InLock, Same
  <2>3. stopped.source <= auth.revision
    BY <1>2, <1>3, <2>1
  <2> QED BY <1>1, <1>2, <1>5, <1>6, <1>7, <2>1, <2>2, <2>3, GotoQuiet
<1>8. CASE HasNextAttempt(a, now) /\ Goto(p, "authorize", next)
  <2>1. /\ NextRecoveryAttempt(a) \in Attempt /\ Within(NextRecoveryAttempt(a))
        /\ NextRecoveryAttempt(a).count = a.count + 1
    BY <1>2, <1>3, <1>8, NextWithin DEF Sound
  <2>2. /\ next \in Journal /\ next.attempt = NextRecoveryAttempt(a)
        /\ next.state = hand[p].state /\ next.source = hand[p].source
        /\ next.succ = hand[p].succ
    BY <1>3, <2>1 DEF Journal
  <2> HIDE DEF next
  <2>3. Facing("authorize", call[p], next) /\ "authorize" \in InLock \ {"ack"}
    BY <1>2, <2>2 DEF Facing, InLock, Same
  <2>4. next.source <= auth.revision
    BY <1>2, <1>3, <2>2
  <2>5. crashes = 0 /\ faults = 0 => posts < next.attempt.count
    BY <1>3, <1>6, <2>1, <2>2
  <2> QED BY <1>1, <1>2, <1>5, <1>8, <2>1, <2>2, <2>3, <2>4, <2>5, GotoQuiet
<1>9. CASE Return(p, "idle", Nothing)
  BY <1>1, <1>2, <1>9, LeaveQuiet
<1> QED BY <1>4, <1>7, <1>8, <1>9

\* The state machine authorises a recovery dispatch, or the process ends.
LEMMA AuthorizeRecoveryDispatchSound ==
  ASSUME IInv, IInv', SInv, NEW p \in Service, AuthorizeRecoveryDispatch(p)
  PROVE  SInv'
<1> DEFINE a == hand[p].attempt
           j == JournalOf("RESERVED", hand[p].source, NoRevision, OwnedBy(a, life[p]))
<1>1. /\ pc[p] = "authorize" /\ pc[p] \in InLock /\ call[p] = "prepare"
      /\ UNCHANGED <<disk, cli, counter, history>>
  BY HandType DEF AuthorizeRecoveryDispatch, InLock, CallFits
<1>2. /\ Alone(p) /\ auth.kind # "absent" /\ Quiet
      /\ Same(hand[p]) /\ hand[p].source = auth.revision
      /\ hand[p].state = "OUTCOME_UNKNOWN" /\ Settled
  BY <1>1, InLockFacts DEF Facing
<1>3. a \in Attempt /\ Within(a) /\ life[p] \in Nat /\ auth.revision \in Nat
  BY <1>1, Numbers DEF SInv, ProcessSound
<1>4. CASE RecoveryDispatchIsAuthorized(a, now) /\ Goto(p, "reserve", j)
  <2>1. Counted(a) /\ a.cap = TotalDispatchCap
    BY <1>3, <1>4, AuthorizedCounted
  <2>2. /\ j \in Journal /\ Sound(j) /\ j.state = "RESERVED" /\ j.source = auth.revision
        /\ j.attempt.owner = life[p] /\ j.attempt.count = a.count
    BY <1>2, <1>3, <2>1, OwnedSound
  <2> HIDE DEF j
  <2>3. journal.state # "ROTATED"
    BY <1>2, FoundFacts DEF Same
  <2>4. Facing("reserve", call[p], j) /\ "reserve" \in InLock \ {"ack"}
    BY <1>2, <2>2, <2>3 DEF Facing, InLock
  <2>5. crashes = 0 /\ faults = 0 => posts < j.attempt.count
    BY <1>1, <2>2 DEF SInv, Covered, CountCovered
  <2>6. \A q \in Service : q # p /\ Dispatched(q) => rev[q] # auth.revision
    BY <1>2 DEF Quiet
  <2>7. j.source <= auth.revision
    BY <1>3, <2>2
  <2> QED BY <1>1, <1>2, <1>4, <2>2, <2>4, <2>5, <2>6, <2>7, GotoQuiet
<1>5. CASE Exit(p)
  BY <1>1, <1>2, <1>5, LeaveQuiet DEF Exit
<1> QED BY <1>4, <1>5 DEF AuthorizeRecoveryDispatch

\* An exhausted recovery is journaled.
LEMMA StopRecoverySound ==
  ASSUME SoundStorage, IInv, IInv', SInv, NEW p \in Service, StopRecovery(p)
  PROVE  SInv'
<1>1. /\ pc[p] = "stop" /\ pc[p] \in InLock /\ call[p] = "prepare"
      /\ WriteJournal(p, Return(p, "parked", Nothing))
  BY HandType DEF StopRecovery, InLock, CallFits
<1>2. /\ Alone(p) /\ auth.kind # "absent" /\ Quiet /\ Sound(hand[p])
      /\ Same(hand[p]) /\ hand[p].source = auth.revision
      /\ hand[p].state = "OUTCOME_UNKNOWN" /\ Settled
  BY <1>1, InLockFacts DEF Facing
<1>3. CASE /\ Return(p, "parked", Nothing)
           /\ journal' = hand[p]
           /\ spent' = IF hand[p].state = "ROTATED" THEN spent \cup {hand[p].source} ELSE spent
           /\ owed' = IF pc[p] = "write" THEN owed \cup {EventKey(hand[p])} ELSE owed
           /\ UNCHANGED <<auth, outbox, cli, now, nextRevision, starts, crashes, faults, posts>>
  <2>1. /\ hand[p] \in Journal /\ hand[p].version = 3 /\ owed' = owed /\ cli = "idle"
        /\ hand[p].state \in Terminal /\ Placed(hand[p])
    BY <1>1, <1>2, <1>3, Numbers DEF Sound, Alone, Terminal, Placed
  <2>2. FilesSound' /\ spent' = spent
    BY <1>2, <1>3, <2>1, RewriteFiles
  <2>3. Steady(p)
    BY <1>2, <1>3, <2>2, Numbers, SteadyQuiet
  <2>4. crashes' = 0 /\ faults' = 0 => crashes = 0 /\ faults = 0 /\ PostsCovered'
    <3>1. SUFFICES ASSUME crashes = 0, faults = 0 PROVE PostsCovered'
      BY <1>3
    <3>2. CountCovered(p)
      BY <3>1 DEF SInv, Covered
    <3> QED BY <1>1, <1>2, <1>3, <2>1, <3>2 DEF PostsCovered, CountCovered
  <2> QED BY <1>1, <1>2, <1>3, <2>2, <2>3, <2>4, LeaveSound
<1>4. CASE /\ Exit(p)
           /\ faults' = faults + 1
           /\ UNCHANGED <<auth, journal, outbox, owed, spent, cli, now, nextRevision, starts,
                          posts>>
  BY <1>1, <1>2, <1>4, ExitFault
<1> QED BY <1>1, <1>3, <1>4, WriteJournalSound

\* The record of a dispatch of the current revision replaces a settled journal.
LEMMA DispatchFiles ==
  ASSUME IInv, SInv, NEW j \in Journal, j.state \in {"RESERVED", "REQUESTED"}, Sound(j),
         j.source = auth.revision, Settled, journal.state # "ROTATED", cli = "idle",
         journal' = j, UNCHANGED <<auth, outbox, owed, spent, cli, now, nextRevision>>
  PROVE  FilesSound'
<1>1. j.version = 3 /\ Found' = j /\ j.state \notin Terminal
  BY LoadedSame DEF Sound, Found, Terminal
<1>2. FilesSound /\ auth.revision \notin spent
  BY DEF SInv, FilesSound
<1>3. Settled'
  BY <1>1 DEF Settled
<1>4. NoOutcomeLost'
  BY <1>2 DEF FilesSound, NoOutcomeLost, Settled, Found
<1>5. (auth.kind # "absent" => journal.source <= auth.revision)'
  BY Numbers
<1> QED BY <1>1, <1>2, <1>3, <1>4, <1>5 DEF FilesSound, Terminal

\* The reservation is journaled.
LEMMA ReserveSound ==
  ASSUME SoundStorage, IInv, IInv', SInv, NEW p \in Service, Reserve(p)
  PROVE  SInv'
<1> DEFINE j == [hand[p] EXCEPT !.state = "REQUESTED"]
<1>1. /\ pc[p] = "reserve" /\ pc[p] \in InLock /\ call[p] = "prepare"
      /\ WriteJournal(p, Goto(p, "request", j))
  BY HandType DEF Reserve, InLock, CallFits
<1>2. /\ Alone(p) /\ auth.kind # "absent" /\ Quiet /\ Sound(hand[p]) /\ hand[p].state = "RESERVED"
      /\ hand[p].source = auth.revision /\ Settled /\ journal.state # "ROTATED"
  BY <1>1, InLockFacts DEF Facing
<1>3. /\ j \in Journal /\ Sound(j) /\ j.state = "REQUESTED" /\ j.source = hand[p].source
      /\ j.attempt = hand[p].attempt /\ hand[p] \in Journal
      /\ hand[p].attempt.owner = life[p]
  BY <1>1, <1>2, Numbers, RequestedSound DEF SInv, ProcessSound
<1> HIDE DEF j
<1>4. CASE /\ Goto(p, "request", j)
           /\ journal' = hand[p]
           /\ spent' = IF hand[p].state = "ROTATED" THEN spent \cup {hand[p].source} ELSE spent
           /\ owed' = IF pc[p] = "write" THEN owed \cup {EventKey(hand[p])} ELSE owed
           /\ UNCHANGED <<auth, outbox, cli, now, nextRevision, starts, crashes, faults, posts>>
  <2>1. spent' = spent /\ owed' = owed /\ cli = "idle" /\ hand[p].version = 3
    BY <1>1, <1>2, <1>4 DEF Alone, Sound
  <2>2. FilesSound'
    BY <1>2, <1>3, <1>4, <2>1, DispatchFiles
  <2>3. Steady(p)
    BY <1>2, <1>4, <2>1, Numbers, SteadyQuiet
  <2>4. /\ Elsewhere(p) /\ pc'[p] = "request" /\ hand'[p] = j /\ call' = call
        /\ "request" \in InLock /\ auth' = auth
    BY <1>4, GotoAt DEF InLock
  <2>5. Quiet'
    BY <1>2, <2>4, QuietNext
  <2>6. Facing(pc[p], call[p], hand[p])'
    BY <1>2, <1>3, <1>4, <2>4 DEF Facing
  <2>7. CoveredNext(p)
    <3>1. SUFFICES ASSUME crashes = 0, faults = 0
                   PROVE  PostsCovered' /\ CountCovered(p)'
      BY <1>4 DEF CoveredNext
    <3>2. posts < hand[p].attempt.count /\ posts \in Nat /\ hand[p].attempt.count \in Nat
      BY <1>1, <3>1, Numbers DEF SInv, Covered, CountCovered
    <3>3. PostsCovered'
      BY <1>2, <1>4, <2>1, <2>4, <3>2 DEF PostsCovered
    <3> QED BY <1>3, <1>4, <2>4, <3>2, <3>3 DEF CountCovered
  <2>8. j.source <= auth'.revision
    BY <1>2, <1>3, <1>4, Numbers
  <2> QED BY <1>1, <1>2, <1>3, <1>4, <2>2, <2>3, <2>4, <2>5, <2>6, <2>7, <2>8, GotoSound
<1>5. CASE /\ Exit(p)
           /\ faults' = faults + 1
           /\ UNCHANGED <<auth, journal, outbox, owed, spent, cli, now, nextRevision, starts,
                          posts>>
  BY <1>1, <1>2, <1>5, ExitFault
<1> QED BY <1>1, <1>4, <1>5, WriteJournalSound

\* The request is journaled before the POST.
LEMMA RequestSent ==
  ASSUME SoundStorage, IInv, IInv', SInv, NEW p \in Service, Request(p)
  PROVE  SInv'
<1>1. /\ pc[p] = "request" /\ pc[p] \in InLock /\ call[p] = "prepare"
      /\ WriteJournal(p, Return(p, "dispatch", Nothing))
  BY HandType DEF Request, InLock, CallFits
<1>2. /\ Alone(p) /\ auth.kind # "absent" /\ Quiet /\ Sound(hand[p]) /\ hand[p].state = "REQUESTED"
      /\ hand[p].source = auth.revision /\ journal.state = "RESERVED"
      /\ hand[p] \in Journal
  BY <1>1, InLockFacts, Numbers DEF Facing
<1>3. ProcessSound(p) /\ GotPlaced(p) /\ hand[p].attempt.owner = life[p]
  BY <1>1 DEF SInv, ProcessSound
<1>4. CASE /\ Return(p, "dispatch", Nothing)
           /\ journal' = hand[p]
           /\ spent' = IF hand[p].state = "ROTATED" THEN spent \cup {hand[p].source} ELSE spent
           /\ owed' = IF pc[p] = "write" THEN owed \cup {EventKey(hand[p])} ELSE owed
           /\ UNCHANGED <<auth, outbox, cli, now, nextRevision, starts, crashes, faults, posts>>
  <2>1. spent' = spent /\ owed' = owed /\ cli = "idle" /\ hand[p].version = 3
    BY <1>1, <1>2, <1>4 DEF Alone, Sound
  <2>2. Settled
    BY <1>2, Numbers DEF Settled, Found, Loaded, Journal, Terminal
  <2>3. FilesSound'
    BY <1>2, <1>4, <2>1, <2>2, DispatchFiles
  <2>4. Steady(p)
    BY <1>2, <1>4, <2>1, Numbers, SteadyQuiet
  <2>5. /\ Elsewhere(p)
        /\ pc'[p] = "dispatch" /\ hand'[p] = NoJournal /\ retained'[p] = Nothing
        /\ rev'[p] = auth.revision /\ life'[p] = life[p] /\ got'[p] = got[p]
    BY <1>2, <1>4, ReturnAt
  <2>6. auth.revision \notin spent
    BY <1>2 DEF SInv, FilesSound
  <2>7. Facing(pc[p], call[p], hand[p])'
    BY <2>5 DEF Facing
  <2>8. (life[p] <= starts /\ rev[p] <= auth.revision /\ hand[p].source <= auth.revision)'
    BY <1>3, <1>4, <2>5, Numbers DEF ProcessSound, NoJournal, NoRevision
  <2>9. ProcessSound(p)'
    BY <1>1, <1>2, <1>3, <1>4, <2>1, <2>5, <2>6, <2>7, <2>8, NoJournalSound
       DEF ProcessSound, InLock, Dispatched
  <2>10. GotPlaced(p)'
    BY <1>1, <1>3, <1>4, <2>5 DEF GotPlaced
  <2>11. CoveredNext(p)
    <3>1. SUFFICES ASSUME crashes = 0, faults = 0
                   PROVE  PostsCovered' /\ CountCovered(p)'
      BY <1>4 DEF CoveredNext
    <3>2. posts < hand[p].attempt.count /\ posts \in Nat /\ hand[p].attempt.count \in Nat
      BY <1>1, <3>1, Numbers DEF SInv, Covered, CountCovered
    <3> QED BY <1>2, <1>4, <2>1, <2>5, <3>2 DEF PostsCovered, CountCovered
  <2>12. \A q \in Service : q # p /\ Dispatched(q) => rev[q] # rev'[p]
    BY <1>2, <2>5 DEF Quiet
  <2> QED BY <1>2, <2>3, <2>4, <2>5, <2>9, <2>10, <2>11, <2>12, LockStep
<1>5. CASE /\ Exit(p)
           /\ faults' = faults + 1
           /\ UNCHANGED <<auth, journal, outbox, owed, spent, cli, now, nextRevision, starts,
                          posts>>
  BY <1>1, <1>2, <1>5, ExitFault
<1> QED BY <1>1, <1>4, <1>5, WriteJournalSound

\* The commit takes the lock: its outcome is for the request in the journal.
LEMMA CommitSound ==
  ASSUME IInv, IInv', SInv, NEW p \in Service, Commit(p)
  PROVE  SInv'
<1>1. /\ pc[p] = "commit" /\ Alone(p) /\ UNCHANGED <<disk, cli, counter, history>>
  BY Entering DEF Commit
<1>2. /\ hand[p] \in Journal /\ hand[p].state \in Terminal
      /\ hand[p].state = "OUTCOME_UNKNOWN" => hand[p].attempt.cont \in Lanes
      /\ hand[p].source = rev[p] /\ ~hand[p].enqueued /\ hand[p].version = 3
      /\ rev[p] <= auth.revision /\ rev[p] \in Nat /\ auth.revision \in Nat
      /\ auth.kind # "absent"
  BY <1>1, HandType, Numbers DEF HandFits, SInv, ProcessSound, Dispatched
<1>3. CASE auth.revision # rev[p] /\ CommitSuperseded(p)
  <2>1. hand[p].source < auth.revision
    BY <1>2, <1>3
  <2> QED BY <1>1, <1>3, <2>1, LeaveQuiet DEF CommitSuperseded
<1>4. CASE auth.revision = rev[p] /\ CommitWith(p, AttemptForSource(rev[p]))
  <2>1. /\ journal.version = 3 /\ journal.state = "REQUESTED" /\ journal.source = rev[p]
        /\ Found = journal /\ journal \in Journal
    BY <1>1, <1>4, FoundFacts, Numbers DEF SInv, ProcessSound, Dispatched
  <2>2. Sound(journal)
    BY <2>1 DEF SInv, FilesSound
  <2> DEFINE a == journal.attempt
  <2>3. /\ Fits(journal) /\ a.cap = TotalDispatchCap /\ a.cont = "none"
        /\ a.notBefore = NoTime /\ Within(a) /\ Counted(a) /\ a \in Attempt
    BY <2>1, <2>2, RequestSound DEF Journal
  <2>4. AttemptForSource(rev[p]) = a
    BY <2>1, <2>2, <2>3, SoundReadable DEF AttemptForSource, Found
  <2> DEFINE b == IF hand[p].state = "OUTCOME_UNKNOWN"
                  THEN WithContinuation(a, hand[p].attempt.cont, now) ELSE WithoutOwner(a)
             j == [hand[p] EXCEPT !.attempt = b]
  <2>5. Goto(p, "write", j)
    BY <1>4, <2>4 DEF CommitWith
  <2>6. now \in Nat \ {0}
    BY Numbers DEF SInv, FilesSound
  <2>7. b \in Attempt /\ b.count = a.count
    <3>1. WithoutOwner(a) \in Attempt /\ WithoutOwner(a).count = a.count
      BY <2>3, <2>6, AttemptTypes DEF WithoutOwner, Attempt
    <3> HIDE DEF a
    <3> QED BY <1>2, <2>3, <2>6, <3>1, AttemptTypes, AttemptFields
  <2> HIDE DEF a
  <2>8. /\ j \in Journal /\ j.attempt = b /\ j.state = hand[p].state /\ j.source = rev[p]
        /\ ~j.enqueued /\ j.version = 3
    <3> HIDE DEF b
    <3> QED BY <1>2, <2>7 DEF Journal
  <2> HIDE DEF j
  <2>9. Sound(j) /\ Fits(j)
    BY <1>2, <2>3, <2>6, <2>8, ContinuationSound, OutcomeSound DEF Terminal
  <2> HIDE DEF b
  <2>10. Facing("write", call[p], j) /\ "write" \in InLock \ {"ack"}
    BY <1>4, <2>1, <2>8, <2>9 DEF Facing, InLock, Terminal
  <2>11. \A q \in Service : q # p /\ Dispatched(q) => rev[q] # auth.revision
    BY <1>1, <1>4 DEF SInv, PairSound, Dispatched
  <2>12. crashes = 0 /\ faults = 0 => posts <= j.attempt.count
    BY <2>1, <2>7, <2>8, FoundCovers DEF a
  <2>13. j.source <= auth.revision
    BY <1>2, <2>8
  <2>14. hand[p].state # "ROTATED" \/ (j.state = "ROTATED" /\ j.source = hand[p].source)
    BY <1>2, <2>8
  <2> QED BY <1>1, <1>2, <2>5, <2>8, <2>9, <2>10, <2>11, <2>12, <2>13, <2>14, GotoQuiet
<1> QED BY <1>3, <1>4 DEF Commit

-----------------------------------------------------------------------------
(* Steps outside the lock, of which another process may be inside.          *)

\* A process is not disturbed by a step that leaves the files alone.
LEMMA UntouchedSound ==
  ASSUME IInv, IInv', SInv, NEW q \in Service, Untouched(q), starts' >= starts,
         UNCHANGED <<auth, journal, outbox, spent, owed>>, Quiet => Quiet'
  PROVE  ProcessSound(q)' /\ GotPlaced(q)'
<1>1. /\ pc'[q] = pc[q] /\ call'[q] = call[q] /\ rev'[q] = rev[q] /\ hand'[q] = hand[q]
      /\ sent'[q] = sent[q] /\ retained'[q] = retained[q] /\ life'[q] = life[q]
      /\ got'[q] = got[q]
  BY DEF Untouched
<1>2. ProcessSound(q) /\ GotPlaced(q)
  BY DEF SInv
<1>3. starts \in Nat /\ starts' \in Nat /\ life[q] \in Nat
  BY Numbers, NumbersNext
<1>4. (life[q] <= starts)'
  BY <1>1, <1>2, <1>3 DEF ProcessSound
<1>5. Facing(pc[q], call[q], hand[q])'
  <2>1. Found' = Found /\ Settled' = Settled
    BY DEF Found, Settled
  <2> QED BY <1>1, <1>2, <2>1 DEF ProcessSound, Facing, Same, Placed
<1>6. GotPlaced(q)'
  BY <1>1, <1>2 DEF GotPlaced
<1>7. Dispatched(q)' <=> Dispatched(q)
  BY <1>1 DEF Dispatched
<1> QED BY <1>1, <1>2, <1>4, <1>5, <1>6, <1>7 DEF ProcessSound

\* Nor are the files.
LEMMA FilesAside ==
  ASSUME IInv, SInv, UNCHANGED <<auth, journal, outbox, spent, owed>>,
         cli' \in {cli, "idle"}, now' \in {now, now + 1}, nextRevision' >= nextRevision,
         nextRevision' \in Nat, Quiet => Quiet'
  PROVE  FilesSound'
<1>1. FilesSound
  BY DEF SInv
<1>2. Found' = Found /\ Settled' = Settled
  BY DEF Found, Settled
<1>3. NoOutcomeLost' = NoOutcomeLost
  BY DEF NoOutcomeLost
<1>4. now' # 0
  BY <1>1, Numbers DEF FilesSound
<1>5. \A r \in spent' : r < nextRevision'
  BY <1>1, Numbers DEF FilesSound
<1> QED BY <1>1, <1>2, <1>3, <1>4, <1>5 DEF FilesSound

\* A step of process p outside the lock keeps SInv when it keeps its own parts.
LEMMA OuterStep ==
  ASSUME IInv, IInv', SInv, NEW p \in Service, Elsewhere(p), pc[p] \notin InLock,
         pc'[p] \notin InLock,
         UNCHANGED <<auth, journal, outbox, spent, owed, cli, now>>,
         nextRevision' >= nextRevision, starts' >= starts,
         Dispatched(p)' => Dispatched(p) /\ rev'[p] = rev[p],
         \/ life'[p] \in {life[p], NoOwner}
         \/ \A q \in Service : life[q] # life'[p],
         ProcessSound(p)', GotPlaced(p)', Covered'
  PROVE  SInv'
<1>1. \A q \in Service : q # p => Untouched(q)
  BY DEF Elsewhere, Untouched
<1>2. \A q \in Service : Dispatched(q)' => Dispatched(q) /\ rev'[q] = rev[q]
  BY <1>1 DEF Untouched, Dispatched
<1>3. Quiet => Quiet'
  BY <1>2 DEF Quiet
<1>4. FilesSound'
  BY <1>3, FilesAside, NumbersNext
<1>5. \A q \in Service : ProcessSound(q)' /\ GotPlaced(q)'
  BY <1>1, <1>3, UntouchedSound
<1>6. PairSound'
  <2>1. SUFFICES ASSUME NEW a \in Service, NEW b \in Service, a # b
                 PROVE  /\ life'[a] = life'[b] => life'[a] = NoOwner
                        /\ Dispatched(a)' /\ Dispatched(b)' => rev'[a] # rev'[b]
    BY DEF PairSound
  <2>2. /\ life[a] = life[b] => life[a] = NoOwner
        /\ Dispatched(a) /\ Dispatched(b) => rev[a] # rev[b]
    BY <2>1 DEF SInv, PairSound
  <2>3. \A q \in Service : q # p => life'[q] = life[q]
    BY <1>1 DEF Untouched
  <2> QED BY <1>2, <2>1, <2>2, <2>3
<1> QED BY <1>4, <1>5, <1>6 DEF SInv

\* The posts stay covered when neither they nor the files change, and no dispatch
\* begins.
LEMMA CoveredAside ==
  ASSUME IInv, SInv, NEW p \in Service, Elsewhere(p), pc[p] \notin InLock, pc'[p] \notin InLock,
         pc'[p] # "dispatch", UNCHANGED <<auth, journal, posts>>,
         crashes' = 0 /\ faults' = 0 => crashes = 0 /\ faults = 0
  PROVE  Covered'
<1>1. SUFFICES ASSUME crashes = 0, faults = 0
               PROVE  PostsCovered' /\ \A q \in Service : CountCovered(q)'
  BY DEF Covered
<1>2. PostsCovered /\ \A q \in Service : CountCovered(q)
  BY <1>1 DEF SInv, Covered
<1>3. (\E q \in Service : pc[q] = "request") => (\E q \in Service : pc'[q] = "request")
  BY DEF Elsewhere, InLock
<1>4. PostsCovered'
  BY <1>2, <1>3 DEF PostsCovered
<1>5. ASSUME NEW q \in Service PROVE CountCovered(q)'
  <2>1. CASE q = p
    BY <2>1 DEF CountCovered, InLock
  <2>2. CASE q # p
    BY <1>2, <2>2 DEF CountCovered, Elsewhere
  <2> QED BY <2>1, <2>2
<1> QED BY <1>4, <1>5

\* Leaving the process, or a waiting point, outside the lock.
LEMMA LeaveOuter ==
  ASSUME IInv, IInv', SInv, NEW p \in Service, NEW l \in {"idle", "down"}, Return(p, l, Nothing),
         pc[p] \notin InLock, pc[p] # "down", l = "down" \/ pc[p] # "commit",
         UNCHANGED <<disk, cli, now, nextRevision, starts, history>>,
         crashes' = 0 /\ faults' = 0 => crashes = 0 /\ faults = 0
  PROVE  SInv'
<1>1. /\ Elsewhere(p)
      /\ pc'[p] = l /\ call'[p] = "none" /\ hand'[p] = NoJournal /\ retained'[p] = Nothing
      /\ rev'[p] = NoRevision
      /\ life'[p] = IF l = "down" THEN NoOwner ELSE life[p]
      /\ got'[p] = IF l = "down" THEN Nothing ELSE got[p]
  BY ReturnAt
<1>2. ProcessSound(p) /\ GotPlaced(p)
  BY DEF SInv
<1>3. UNCHANGED <<auth, journal, outbox, spent, owed, posts, cli, now, nextRevision, starts>>
  BY DEF disk, history
<1>4. l \notin InLock /\ ~Dispatched(p)' /\ l \notin {"commit", "authorize", "dispatch"}
  BY <1>1 DEF InLock, Dispatched
<1>5. (life[p] <= starts /\ rev[p] <= auth.revision /\ hand[p].source <= auth.revision)'
  BY <1>1, <1>2, <1>3, Numbers DEF ProcessSound, NoJournal, NoRevision, NoOwner
<1>6. Facing(pc[p], call[p], hand[p])'
  BY <1>1, <1>4 DEF Facing, InLock
<1>7. ProcessSound(p)'
  BY <1>1, <1>2, <1>4, <1>5, <1>6, NoJournalSound DEF ProcessSound, InLock
<1>8. GotPlaced(p)'
  BY <1>1, <1>2, <1>3 DEF GotPlaced, InLock
<1>9. Covered'
  BY <1>1, <1>3, <1>4, CoveredAside
<1>10. nextRevision' >= nextRevision /\ starts' >= starts
  BY <1>3, Numbers
<1> QED BY <1>1, <1>3, <1>4, <1>7, <1>8, <1>9, <1>10, OuterStep

\* A service process starts.
LEMMA StartSound ==
  ASSUME IInv, IInv', SInv, NEW p \in Service, Start(p)
  PROVE  SInv'
<1>1. /\ pc[p] = "down" /\ starts' = starts + 1
      /\ UNCHANGED <<auth, journal, outbox, spent, owed, posts, cli, now, nextRevision,
                     crashes, faults, rev, hand, sent, retained, got>>
  BY DEF Start, disk, history
<1>2. pc'[p] = "startup" /\ call'[p] = "startup" /\ life'[p] = starts + 1
  BY IInvParts DEF Start, Shapes
<1>3. Elsewhere(p)
  BY <1>1, IInvParts DEF Start, Shapes, Elsewhere
<1>4. ProcessSound(p) /\ GotPlaced(p)
  BY DEF SInv
<1>5. \A q \in Service : life[q] # life'[p]
  BY <1>2, Numbers DEF SInv, ProcessSound
<1>6. life'[p] <= starts' /\ life'[p] # NoOwner /\ starts' >= starts /\ nextRevision' >= nextRevision
  BY <1>1, <1>2, Numbers DEF NoOwner
<1>7. pc[p] \notin InLock /\ pc'[p] \notin InLock /\ ~Dispatched(p)'
  BY <1>1, <1>2 DEF InLock, Dispatched
<1>8. Facing(pc[p], call[p], hand[p])'
  BY <1>2 DEF Facing
<1>9. ProcessSound(p)'
  BY <1>1, <1>2, <1>4, <1>6, <1>7, <1>8 DEF ProcessSound
<1>10. GotPlaced(p)'
  BY <1>1, <1>2, <1>4 DEF GotPlaced
<1>11. Covered'
  BY <1>1, <1>2, <1>3, <1>7, CoveredAside
<1> QED BY <1>1, <1>3, <1>5, <1>6, <1>7, <1>9, <1>10, <1>11, OuterStep

\* The refresh time of the current credential comes.
LEMMA ScheduleSound ==
  ASSUME IInv, IInv', SInv, NEW p \in Service, Schedule(p)
  PROVE  SInv'
<1>1. /\ pc[p] = "idle"
      /\ UNCHANGED <<auth, journal, outbox, spent, owed, posts, cli, now, nextRevision, starts,
                     crashes, faults, hand, sent, retained, life, got>>
  BY DEF Schedule, disk, counter, history
<1>2. pc'[p] = "due" /\ call'[p] = "prepare" /\ rev'[p] = auth.revision
  BY IInvParts DEF Schedule, Shapes
<1>3. Elsewhere(p)
  BY <1>1, IInvParts DEF Schedule, Shapes, Elsewhere
<1>4. ProcessSound(p) /\ GotPlaced(p)
  BY DEF SInv
<1>5. rev'[p] <= auth'.revision /\ starts' >= starts /\ nextRevision' >= nextRevision
  BY <1>1, <1>2, Numbers
<1>6. pc[p] \notin InLock /\ pc'[p] \notin InLock /\ ~Dispatched(p)'
  BY <1>1, <1>2 DEF InLock, Dispatched
<1>7. Facing(pc[p], call[p], hand[p])'
  BY <1>2 DEF Facing
<1>8. ProcessSound(p)'
  BY <1>1, <1>2, <1>4, <1>5, <1>6, <1>7 DEF ProcessSound
<1>9. GotPlaced(p)'
  BY <1>1, <1>2, <1>4 DEF GotPlaced
<1>10. Covered'
  BY <1>1, <1>2, <1>3, <1>6, CoveredAside
<1> QED BY <1>1, <1>3, <1>5, <1>6, <1>8, <1>9, <1>10, OuterStep

\* The one POST of a dispatch goes out: its journal counts it already.
LEMMA PostSound ==
  ASSUME IInv, IInv', SInv, NEW p \in Service, Post(p)
  PROVE  SInv'
<1>1. /\ pc[p] = "dispatch"
      /\ posts' = IF auth.revision = rev[p] THEN posts + 1 ELSE posts
      /\ UNCHANGED <<auth, journal, outbox, spent, owed, cli, now, nextRevision, starts,
                     crashes, faults, call, rev, hand, sent, retained, life, got>>
  BY DEF Post, disk, counter
<1>2. pc'[p] = "exchange"
  BY IInvParts DEF Post, Shapes
<1>3. Elsewhere(p)
  BY <1>1, IInvParts DEF Post, Shapes, Elsewhere
<1>4. ProcessSound(p) /\ GotPlaced(p)
  BY DEF SInv
<1>5. starts' >= starts /\ nextRevision' >= nextRevision
  BY <1>1, Numbers
<1>6. pc[p] \notin InLock /\ pc'[p] \notin InLock /\ Dispatched(p)' /\ Dispatched(p)
  BY <1>1, <1>2 DEF InLock, Dispatched
<1>7. Facing(pc[p], call[p], hand[p])'
  BY <1>2 DEF Facing
<1>8. ProcessSound(p)'
  BY <1>1, <1>2, <1>4, <1>6, <1>7 DEF ProcessSound
<1>9. GotPlaced(p)'
  BY <1>1, <1>2, <1>4 DEF GotPlaced
<1>10. Covered'
  <2>1. CASE auth.revision # rev[p]
    BY <1>1, <1>2, <1>3, <1>6, <2>1, CoveredAside
  <2>2. CASE auth.revision = rev[p]
    <3>1. SUFFICES ASSUME crashes = 0, faults = 0
                   PROVE  PostsCovered' /\ \A q \in Service : CountCovered(q)'
      BY <1>1 DEF Covered
    <3>2. /\ journal.version = 3 /\ journal.state = "REQUESTED"
          /\ journal.source = auth.revision
      BY <1>4, <1>6, <2>2 DEF ProcessSound
    <3>3. posts + 1 <= journal.attempt.count
      BY <1>1, <2>2, <3>1, Numbers DEF SInv, Covered, CountCovered
    <3>4. PostsCovered'
      BY <1>1, <2>2, <3>2, <3>3 DEF PostsCovered
    <3>5. ASSUME NEW q \in Service PROVE CountCovered(q)'
      <4>1. CASE q = p
        BY <1>2, <4>1 DEF CountCovered
      <4>2. CASE q # p
        <5>1. pc'[q] = pc[q] /\ rev'[q] = rev[q] /\ hand'[q] = hand[q]
          BY <1>3, <4>2 DEF Elsewhere
        <5>2. ~(Dispatched(q) /\ rev[q] = auth.revision)
          BY <1>6, <2>2, <4>2 DEF SInv, PairSound
        <5>3. pc[q] \in InLock => call[q] = "startup" /\ hand[q] = NoJournal
          BY <1>6, <2>2 DEF SInv, ProcessSound, Quiet
        <5>4. pc[q] \in InLock => hand[q].state \notin Terminal
                                 /\ pc[q] \notin {"authorize", "reserve", "request"}
          BY <5>3, HandType DEF NoJournal, Terminal, CallFits
        <5> QED BY <1>1, <5>1, <5>2, <5>4 DEF CountCovered, Dispatched, InLock
      <4> QED BY <4>1, <4>2
    <3> QED BY <3>4, <3>5
  <2> QED BY <2>1, <2>2
<1> QED BY <1>1, <1>3, <1>5, <1>6, <1>8, <1>9, <1>10, OuterStep

\* The exchange is answered, or fails: the outcome names the dispatched revision.
LEMMA AnsweredSound ==
  ASSUME IInv, IInv', SInv, NEW p \in Service, pc[p] = "exchange", NEW c, NEW j \in Journal,
         Answered(p, c, j), j.source = rev[p], ~j.enqueued, j.version = 3,
         nextRevision' >= nextRevision,
         \/ got' = got
         \/ /\ j.state = "ROTATED" /\ got'[p].source = rev[p]
            /\ \A q \in Service : q # p => got'[q] = got[q]
  PROVE  SInv'
<1>1. UNCHANGED <<auth, journal, outbox, spent, owed, posts, cli, now, starts, crashes, faults,
                  rev, sent, retained, life>>
  BY DEF Answered, disk
<1>2. pc'[p] = "commit" /\ call'[p] = c /\ hand'[p] = j
  BY IInvParts DEF Answered, Shapes
<1>3. Elsewhere(p)
  BY <1>1, IInvParts DEF Answered, Shapes, Elsewhere
<1>4. ProcessSound(p) /\ GotPlaced(p)
  BY DEF SInv
<1>5. starts' >= starts
  BY <1>1, Numbers
<1>6. pc[p] \notin InLock /\ pc'[p] \notin InLock /\ Dispatched(p)' /\ Dispatched(p)
  BY <1>2 DEF InLock, Dispatched
<1>7. Facing(pc[p], call[p], hand[p])'
  BY <1>2 DEF Facing
<1>8. hand'[p].source <= auth'.revision /\ hand'[p].source = rev'[p]
  BY <1>1, <1>2, <1>4 DEF ProcessSound
<1>9. ProcessSound(p)'
  BY <1>1, <1>2, <1>4, <1>6, <1>7, <1>8 DEF ProcessSound
<1>10. GotPlaced(p)'
  BY <1>1, <1>2, <1>4 DEF GotPlaced
<1>11. Covered'
  BY <1>1, <1>2, <1>3, <1>6, CoveredAside
<1> QED BY <1>1, <1>3, <1>5, <1>6, <1>9, <1>10, <1>11, OuterStep

\* A successor is received.
LEMMA ExchangeSucceededSound ==
  ASSUME IInv, IInv', SInv, NEW p \in Service, ExchangeSucceeded(p)
  PROVE  SInv'
<1> DEFINE j == JournalOf("ROTATED", rev[p], nextRevision, UnbudgetedAttempt)
<1>1. /\ j \in Journal /\ j.source = rev[p] /\ ~j.enqueued /\ j.version = 3
      /\ j.state = "ROTATED"
  BY FreshAttemptTypes, JournalTypes, Numbers DEF JournalOf, Journal, Phases, Terminal
<1>2. pc[p] = "exchange" /\ Answered(p, "success", j) /\ nextRevision' >= nextRevision
  BY Numbers DEF ExchangeSucceeded
<1>3. got'[p].source = rev[p] /\ \A q \in Service : q # p => got'[q] = got[q]
  BY IInvParts DEF ExchangeSucceeded, Shapes
<1> HIDE DEF j
<1> QED BY <1>1, <1>2, <1>3, AnsweredSound

\* A rejection is received.
LEMMA ExchangeRejectedSound ==
  ASSUME IInv, IInv', SInv, NEW p \in Service, ExchangeRejected(p)
  PROVE  SInv'
<1> DEFINE j == JournalOf("REJECTED", rev[p], NoRevision, UnbudgetedAttempt)
<1>1. j \in Journal /\ j.source = rev[p] /\ ~j.enqueued /\ j.version = 3
  BY FreshAttemptTypes, JournalTypes, Numbers DEF JournalOf, Journal, Phases, Terminal, NoRevision
<1>2. /\ pc[p] = "exchange" /\ Answered(p, "rejected", j) /\ nextRevision' >= nextRevision
      /\ got' = got
  BY Numbers DEF ExchangeRejected
<1> HIDE DEF j
<1> QED BY <1>1, <1>2, AnsweredSound

\* Any other answer, or none.
LEMMA ExchangeOutcomeUnknownSound ==
  ASSUME IInv, IInv', SInv, NEW p \in Service, ExchangeOutcomeUnknown(p)
  PROVE  SInv'
<1>1. PICK c \in {"unknown", "transport", "cancel"}, lane \in Lanes :
        Answered(p, c, JournalOf("OUTCOME_UNKNOWN", rev[p], NoRevision,
                                 [UnbudgetedAttempt EXCEPT !.cont = lane]))
  BY DEF ExchangeOutcomeUnknown
<1> DEFINE a == [UnbudgetedAttempt EXCEPT !.cont = lane]
           j == JournalOf("OUTCOME_UNKNOWN", rev[p], NoRevision, a)
<1>2. a \in Attempt
  BY FreshAttemptTypes DEF Attempt
<1> HIDE DEF a
<1>3. j \in Journal /\ j.source = rev[p] /\ ~j.enqueued /\ j.version = 3
  BY <1>2, JournalTypes, Numbers DEF JournalOf, Journal, Phases, Terminal, NoRevision
<1>4. pc[p] = "exchange" /\ nextRevision' >= nextRevision /\ got' = got /\ Answered(p, c, j)
  BY <1>1, Numbers DEF ExchangeOutcomeUnknown, a
<1> HIDE DEF j
<1> QED BY <1>3, <1>4, AnsweredSound

\* The revision a parked process waits on has changed.
LEMMA UnparkSound ==
  ASSUME IInv, IInv', SInv, NEW p \in Service, Unpark(p)
  PROVE  SInv'
<1>1. /\ pc[p] = "parked" /\ Return(p, "idle", Nothing)
      /\ UNCHANGED <<disk, cli, now, nextRevision, starts, crashes, faults, history>>
  BY DEF Unpark, counter
<1> QED BY <1>1, LeaveOuter DEF InLock

\* A kill, inside the lock or outside.
LEMMA CrashSound ==
  ASSUME IInv, IInv', SInv, NEW p \in Service, Crash(p)
  PROVE  SInv'
<1>1. /\ pc[p] # "down" /\ Return(p, "down", Nothing) /\ crashes' # 0
      /\ UNCHANGED <<disk, cli, now, nextRevision, starts, faults, history>>
  BY Numbers DEF Crash, Exit
<1>2. CASE pc[p] \in InLock
  <2>1. Alone(p) /\ cli = "idle"
    BY <1>2, Entering DEF Alone
  <2>2. UNCHANGED <<auth, journal, outbox, owed, spent, cli, now, nextRevision, starts, posts>>
    BY <1>1 DEF disk, history
  <2>3. FilesSound' /\ Steady(p)
    BY <2>1, <2>2, FilesUntouched, SteadyUntouched
  <2> QED BY <1>1, <2>1, <2>3, LeaveSound
<1>3. CASE pc[p] \notin InLock
  BY <1>1, <1>3, LeaveOuter
<1> QED BY <1>2, <1>3

\* On sound storage no read fails, and no successor waits in memory.
LEMMA NoReadFails ==
  ASSUME SoundStorage, SInv, NEW p \in Service
  PROVE  /\ ~CommitUnread(p) /\ ~ProjectRetained(p) /\ ~ProjectUnread(p)
         /\ ~LockFails(p) /\ ~ReadFails(p)
<1>1. ~MayFail("unread") /\ ~MayFail("unseen")
  BY DEF SoundStorage, MayFail
<1>2. retained[p] = Nothing
  BY DEF SInv, ProcessSound
<1> QED BY <1>1, <1>2 DEF CommitUnread, ProjectRetained, ProjectUnread, LockFails, ReadFails

-----------------------------------------------------------------------------
(* The importing command and the clock.                                     *)

\* A step that changes no process and at most the clock, the import's point and
\* the fault counters.
LEMMA AsideSound ==
  ASSUME IInv, IInv', SInv, UNCHANGED process,
         UNCHANGED <<auth, journal, outbox, spent, owed, posts, starts>>,
         cli' \in {cli, "idle"}, now' \in {now, now + 1}, nextRevision' >= nextRevision,
         crashes' = 0 /\ faults' = 0 => crashes = 0 /\ faults = 0
  PROVE  SInv'
<1>1. UNCHANGED <<pc, call, rev, hand, sent, retained, life, got>>
  BY DEF process
<1>2. Quiet => Quiet'
  BY <1>1 DEF Quiet, Dispatched
<1>3. FilesSound'
  BY <1>2, FilesAside, NumbersNext
<1>4. ASSUME NEW q \in Service PROVE ProcessSound(q)' /\ GotPlaced(q)'
  <2>1. Untouched(q) /\ starts' >= starts
    BY <1>1, Numbers DEF Untouched
  <2> QED BY <1>2, <2>1, UntouchedSound
<1>5. PairSound'
  BY <1>1 DEF SInv, PairSound, Dispatched
<1>6. Covered'
  BY <1>1 DEF SInv, Covered, PostsCovered, CountCovered
<1> QED BY <1>3, <1>4, <1>5, <1>6 DEF SInv

\* A step of the import, which holds the lock and leaves the processes alone.
LEMMA ImportStep ==
  ASSUME IInv, IInv', SInv, UNCHANGED process, \A q \in Service : pc[q] \notin InLock,
         FilesSound', UNCHANGED <<spent, starts, crashes, faults>>,
         auth'.revision >= auth.revision, auth.kind # "absent" => auth'.kind # "absent",
         \A q \in Service : Dispatched(q) => rev[q] # auth'.revision,
         crashes = 0 /\ faults = 0 => PostsCovered'
  PROVE  SInv'
<1>1. UNCHANGED <<pc, call, rev, hand, sent, retained, life, got>>
  BY DEF process
<1>2. ASSUME NEW q \in Service PROVE ProcessSound(q)' /\ GotPlaced(q)'
  <2>1. Untouched(q) /\ starts' >= starts /\ (Dispatched(q) => rev[q] \notin spent')
    BY <1>1, Numbers DEF Untouched, SInv, ProcessSound
  <2> QED BY <2>1, OthersSound
<1>3. PairSound'
  BY <1>1 DEF SInv, PairSound, Dispatched
<1>4. Covered'
  BY <1>1 DEF Covered, CountCovered, InLock, Dispatched
<1> QED BY <1>2, <1>3, <1>4 DEF SInv

\* The import writes the new credential; an outcome that the journal does not
\* hold, cannot be read or is already enqueued needs no record.
LEMMA ImportCredentialSound ==
  ASSUME SoundStorage, IInv, IInv', SInv, ImportCredential
  PROVE  SInv'
<1>1. /\ cli = "idle" /\ (\A q \in Service : pc[q] \notin InLock)
      /\ nextRevision' = nextRevision + 1
      /\ UNCHANGED process
      /\ UNCHANGED <<journal, outbox, spent, owed, now, starts, crashes>>
  BY DEF ImportCredential, LockFree
<1>2. PICK kind \in ImportKinds : \E o \in WriteOutcomes :
        /\ auth' = IF Visible(o) THEN [revision |-> nextRevision, kind |-> kind] ELSE auth
        /\ posts' = IF Visible(o) THEN 0 ELSE posts
        /\ CliEnds(o, IF UnrecordedOutcome(journal) THEN "enqueue" ELSE "forget")
  BY DEF ImportCredential, SoundStorage, MayFail
<1>3. PICK o \in WriteOutcomes :
        /\ auth' = IF Visible(o) THEN [revision |-> nextRevision, kind |-> kind] ELSE auth
        /\ posts' = IF Visible(o) THEN 0 ELSE posts
        /\ CliEnds(o, IF UnrecordedOutcome(journal) THEN "enqueue" ELSE "forget")
  BY <1>2
<1>4. o \in {"done", "group"}
  BY DEF SoundStorage, WriteOutcomes, MayFail
<1>5. CASE o = "group"
  <2>1. auth' = auth /\ posts' = posts /\ cli' = "idle" /\ faults' = faults + 1
    BY <1>3, <1>5 DEF Visible, CliEnds
  <2> QED BY <1>1, <2>1, AsideSound, Numbers
<1>6. CASE o = "done"
  <2>1. /\ auth' = [revision |-> nextRevision, kind |-> kind] /\ posts' = 0
        /\ faults' = faults /\ kind # "absent"
        /\ cli' = IF UnrecordedOutcome(journal) THEN "enqueue" ELSE "forget"
    BY <1>3, <1>6, BoundsAssumption DEF Visible, CliEnds
  <2>2. FilesSound /\ RevisionsCreated /\ \A q \in Service : ProcessSound(q)
    BY DEF SInv, IInv
  <2>3. auth'.revision = nextRevision /\ auth'.kind = kind
    BY <2>1
  <2>4. /\ auth'.revision > auth.revision /\ journal.source < auth'.revision
        /\ \A r \in spent : r < auth'.revision
        /\ \A q \in Service : rev[q] < auth'.revision
    BY <2>2, <2>3, Numbers DEF FilesSound, RevisionsCreated, Created
  <2>5. \A q \in Service : rev[q] # auth'.revision
    BY <2>4, <2>3, Numbers
  <2>6. Quiet'
    BY <1>1, <2>5 DEF Quiet, process
  <2>7. Settled' = Settled /\ Found' = Found
    BY <1>1 DEF Settled, Found
  <2>8. ~UnrecordedOutcome(journal) => Settled
    <3>1. SUFFICES ASSUME ~UnrecordedOutcome(journal), Found.state \in Terminal
                   PROVE  Settled
      BY DEF Settled
    <3>2. ~Readable(journal) \/ journal.enqueued
      BY <3>1 DEF UnrecordedOutcome, Found
    <3>3. journal.state # "ABSENT"
      BY <3>1 DEF Found, Loaded, Terminal
    <3> QED BY <2>2, <3>2, <3>3 DEF FilesSound, Corrupt
  <2>9. NoOutcomeLost'
    BY <1>1, <2>2 DEF FilesSound, NoOutcomeLost
  <2>10. (\A r \in spent : r < nextRevision /\ (auth.kind # "absent" => r <= auth.revision))'
    BY <1>1, <2>3, <2>4, Numbers
  <2>11. (auth.revision \notin spent /\ journal.source <= auth.revision
          /\ journal.source # auth.revision)'
    BY <1>1, <2>3, <2>4, Numbers
  <2>12. (journal.state = "ROTATED" => journal.source \in spent)'
    BY <1>1, <2>2 DEF FilesSound
  <2>13. (now # 0 /\ Sound(Found) /\ (journal.enqueued \/ Corrupt(journal) => Settled))'
    BY <1>1, <2>2, <2>7 DEF FilesSound
  <2>14. (cli = "forget" => Settled)'
    BY <2>1, <2>7, <2>8
  <2>15. FilesSound'
    BY <2>6, <2>9, <2>10, <2>11, <2>12, <2>13, <2>14 DEF FilesSound
  <2>16. PostsCovered'
    BY <2>1 DEF PostsCovered
  <2>17. auth'.revision >= auth.revision
    BY <2>3, <2>4, Numbers
  <2> QED BY <1>1, <2>1, <2>3, <2>5, <2>15, <2>16, <2>17, ImportStep
<1> QED BY <1>4, <1>5, <1>6

\* While the import runs, every process is outside the lock.
LEMMA ImportAlone ==
  ASSUME IInv, cli # "idle"
  PROVE  \A q \in Service : pc[q] \notin InLock
BY IInvParts DEF IInv, LockExcludes

\* The import hands the outcome of the superseded rotation to the outbox.
LEMMA ImportEnqueueSound ==
  ASSUME SoundStorage, IInv, IInv', SInv, ImportEnqueue
  PROVE  SInv'
<1> DEFINE key == EventKey(Found)
<1>1. /\ cli = "enqueue" /\ UNCHANGED process
      /\ UNCHANGED <<auth, journal, spent, owed, posts, now, nextRevision, starts, crashes>>
  BY DEF ImportEnqueue, history
<1>2. PICK o \in WriteOutcomes :
        /\ outbox' = IF Visible(o) THEN outbox \cup {key} ELSE outbox
        /\ CliEnds(o, "forget")
  BY DEF ImportEnqueue, Found, WriteOutcomes
<1>3. o \in {"done", "group"}
  BY DEF SoundStorage, WriteOutcomes, MayFail
<1>4. CASE o = "group"
  <2>1. outbox' = outbox /\ cli' = "idle" /\ faults' = faults + 1
    BY <1>2, <1>4 DEF Visible, CliEnds
  <2> QED BY <1>1, <2>1, AsideSound, Numbers
<1>5. CASE o = "done"
  <2>1. outbox' = outbox \cup {key} /\ cli' = "forget" /\ faults' = faults
    BY <1>2, <1>5 DEF Visible, CliEnds
  <2>2. FilesSound /\ Quiet /\ journal.source # auth.revision
    BY <1>1 DEF SInv, FilesSound
  <2>3. Found' = Found
    BY <1>1 DEF Found
  <2>4. Settled'
    BY <2>1, <2>3 DEF Settled
  <2>5. NoOutcomeLost'
    BY <1>1, <2>1, <2>2 DEF FilesSound, NoOutcomeLost
  <2>6. Quiet'
    BY <1>1, <2>2 DEF Quiet, Dispatched, process
  <2>7. FilesSound'
    BY <1>1, <2>2, <2>3, <2>4, <2>5, <2>6 DEF FilesSound
  <2>8. crashes = 0 /\ faults = 0 => PostsCovered'
    BY <1>1, <2>2, Numbers DEF SInv, Covered, PostsCovered
  <2>9. auth'.revision >= auth.revision /\ (\A q \in Service : Dispatched(q) => rev[q] # auth'.revision)
    BY <1>1, <2>2, Numbers DEF Quiet
  <2> QED BY <1>1, <2>1, <2>7, <2>8, <2>9, ImportAlone, ImportStep
<1> QED BY <1>3, <1>4, <1>5

\* The import deletes the journal of the superseded revision.
LEMMA ImportForgetSound ==
  ASSUME SoundStorage, IInv, IInv', SInv, ImportForget
  PROVE  SInv'
<1>1. /\ cli = "forget" /\ UNCHANGED process
      /\ UNCHANGED <<auth, outbox, spent, owed, posts, now, nextRevision, starts, crashes>>
  BY DEF ImportForget, history
<1>2. PICK o \in UnlinkOutcomes :
        journal' = (IF Visible(o) THEN NoJournal ELSE journal) /\ CliEnds(o, "idle")
  BY DEF ImportForget
<1>3. o = "done"
  BY DEF SoundStorage, UnlinkOutcomes, WriteOutcomes, MayFail
<1>4. journal' = NoJournal /\ cli' = "idle" /\ faults' = faults
  BY <1>2, <1>3 DEF Visible, CliEnds
<1>5. Settled /\ Quiet /\ journal.source # auth.revision
  BY <1>1 DEF SInv, FilesSound
<1>6. FilesSound'
  BY <1>1, <1>4, <1>5, UnlinkFiles
<1>7. crashes = 0 /\ faults = 0 => PostsCovered'
  BY <1>1, <1>5, Numbers DEF SInv, Covered, PostsCovered
<1>8. auth'.revision >= auth.revision /\ (\A q \in Service : Dispatched(q) => rev[q] # auth'.revision)
  BY <1>1, <1>5, Numbers DEF Quiet
<1> QED BY <1>1, <1>4, <1>6, <1>7, <1>8, ImportAlone, ImportStep

\* A killed import leaves the files as they are, and so does the clock.
LEMMA AsideStepsSound ==
  ASSUME IInv, IInv', SInv, ImportCrash \/ Tick \/ UNCHANGED vars
  PROVE  SInv'
<1>1. /\ UNCHANGED process
      /\ UNCHANGED <<auth, journal, outbox, spent, owed, posts, starts, nextRevision>>
      /\ cli' \in {cli, "idle"} /\ now' \in {now, now + 1}
  BY DEF ImportCrash, Tick, vars, disk, history, counter
<1>2. crashes' = 0 /\ faults' = 0 => crashes = 0 /\ faults = 0
  BY Numbers DEF ImportCrash, Tick, vars, counter
<1> QED BY <1>1, <1>2, Numbers, AsideSound

-----------------------------------------------------------------------------
(* The invariant holds.                                                     *)

\* What is found at the first start is sound: no journal, or a migrated one.
LEMMA InitFiles ==
  ASSUME Init
  PROVE  /\ Sound(Found) /\ ~Corrupt(journal)
         /\ journal.state \in Terminal =>
              Found.state = journal.state /\ Found.source = journal.source
         /\ journal.source \in {0, 1}
<1>1. CASE journal = NoJournal
  <2>1. NoJournal.state = "ABSENT" /\ NoJournal.version = 3 /\ NoJournal.source = 0
    BY DEF NoJournal, NoRevision
  <2> QED BY <1>1, <2>1, NoJournalSound DEF Found, Loaded, Corrupt, Terminal
<1>2. CASE journal \in LegacyJournals
  <2>1. PICK st \in Phases, enq \in BOOLEAN :
          journal = LegacyJournal(st, enq) /\ (enq => st \in Terminal)
    BY <1>2 DEF LegacyJournals, Phases
  <2>2. journal.version = 2 /\ journal.state = st /\ journal.source = 1 /\ journal \in Journal
    BY <1>2, <2>1, LegacyJournalTypes DEF LegacyJournal, NoJournal
  <2>3. Sound(Found)
    BY <2>1, MigratedSound DEF Found
  <2>4. ~Corrupt(journal)
    BY <2>2 DEF Corrupt, Readable
  <2>5. journal.state \in Terminal =>
          Found.state = journal.state /\ Found.source = journal.source
    BY <2>2 DEF Found, Loaded, Terminal, Journal
  <2> QED BY <2>2, <2>3, <2>4, <2>5
<1> QED BY <1>1, <1>2 DEF Init

\* The initial states satisfy SInv.
LEMMA InitSInv == Init => SInv
<1> SUFFICES ASSUME Init PROVE SInv
  OBVIOUS
<1>1. IInv
  BY InitIInv
<1>2. /\ outbox = {} /\ cli = "idle" /\ now = 1 /\ nextRevision = 3 /\ starts = 0 /\ posts = 0
      /\ spent = (IF journal.state = "ROTATED" THEN {journal.source} ELSE {})
      /\ owed = (IF journal.state \in Terminal /\ ~journal.enqueued
                 THEN {EventKey(journal)} ELSE {})
  BY DEF Init
<1>3. auth.kind # "absent" => auth.revision \in {1, 2}
  <2>1. PICK k \in InitialKinds, r \in {1, 2} :
          auth = [revision |-> IF k = "absent" THEN NoRevision ELSE r, kind |-> k]
    BY DEF Init
  <2> QED BY <2>1
<1>4. ASSUME NEW p \in Service
      PROVE  /\ pc[p] = "down" /\ call[p] = "none" /\ rev[p] = 0 /\ hand[p] = NoJournal
             /\ sent[p] = NoKey /\ retained[p] = Nothing /\ life[p] = NoOwner /\ got[p] = Nothing
  BY DEF Init, NoRevision
<1>5. FilesSound
  <2>1. NoOutcomeLost
    BY <1>2, InitFiles DEF NoOutcomeLost, EventKey, Found
  <2>2. journal.enqueued \/ Corrupt(journal) => Settled
    BY <1>2, InitFiles DEF Settled
  <2>3. journal.source \in {0, 1} /\ Sound(Found)
    BY InitFiles
  <2>4. auth.kind # "absent" => journal.source <= auth.revision
    BY <1>3, <2>3
  <2> QED BY <1>2, <1>3, <2>1, <2>2, <2>3, <2>4 DEF FilesSound
<1>6. ASSUME NEW p \in Service PROVE ProcessSound(p) /\ GotPlaced(p)
  <2>1. NoJournal.source = 0 /\ NoOwner = 0
    BY DEF NoJournal, NoRevision, NoOwner
  <2>2. Facing(pc[p], call[p], hand[p])
    BY <1>4, <1>6 DEF Facing
  <2>3. pc[p] \notin InLock /\ ~Dispatched(p)
    BY <1>4, <1>6 DEF InLock, Dispatched
  <2> QED BY <1>1, <1>2, <1>4, <1>6, <2>1, <2>2, <2>3, Numbers, NoJournalSound
          DEF ProcessSound, GotPlaced
<1>7. PairSound
  BY <1>4 DEF PairSound, Dispatched
<1>8. Covered
  BY <1>2, <1>4 DEF Covered, PostsCovered, CountCovered
<1> QED BY <1>5, <1>6, <1>7, <1>8 DEF SInv

\* Every step, or stutter, keeps SInv.
LEMMA NextSInv ==
  ASSUME SoundStorage, IInv, IInv', SInv, [Next]_vars
  PROVE  SInv'
<1>1. ASSUME NEW p \in Service, Transaction(p) PROVE SInv'
  BY <1>1, WriteOutcomeSound, ReplaceSound, EnqueueOutcomeSound, MarkEnqueuedSound,
     ForgetJournalSound, DeliverRefusedSound, DeliverAcceptedSound, AcknowledgeSound,
     EndRecordSound, DeleteRotatedSound, RecoverStartupJournalSound, BeginDispatchSound,
     RecoverUnknownSound, AuthorizeRecoveryDispatchSound, StopRecoverySound, ReserveSound,
     RequestSent
     DEF Transaction
<1>2. ASSUME NEW p \in Service, Entry(p) PROVE SInv'
  BY <1>2, RecoverStartupSound, PrepareSound, CommitSound, NoReadFails DEF Entry
<1>3. ASSUME NEW p \in Service, Exchange(p) PROVE SInv'
  BY <1>3, PostSound, ExchangeSucceededSound, ExchangeRejectedSound,
     ExchangeOutcomeUnknownSound DEF Exchange
<1>4. ASSUME Import PROVE SInv'
  BY <1>4, ImportCredentialSound, ImportEnqueueSound, ImportForgetSound, AsideStepsSound
     DEF Import
<1> QED BY <1>1, <1>2, <1>3, <1>4, StartSound, ScheduleSound, UnparkSound, CrashSound,
           NoReadFails, AsideStepsSound DEF Next

\* On sound storage SInv holds in every reachable state, with any number of
\* processes, kills, restarts and imports.
THEOREM SoundStorageInvariant ==
  ASSUME SoundStorage
  PROVE  Spec => []SInv
<1>1. IInv /\ SInv /\ [Next]_vars => (IInv' => SInv')
  BY NextSInv
<1> QED BY <1>1, InitSInv, InductiveInvariant, PTL DEF Spec

\* A refresh POST is journaled before it is sent: as long as the dispatched
\* revision is the one on disk, the journal holds REQUESTED for it, owned by
\* the dispatching process.
THEOREM PostsAreJournaledAhead ==
  ASSUME SoundStorage
  PROVE  Spec => []WriteAhead
<1>1. SInv => WriteAhead
  BY DEF SInv, ProcessSound, WriteAhead, Posting, Dispatched
<1> QED BY <1>1, SoundStorageInvariant, PTL

\* No two processes exchange the same revision at the same time.
THEOREM ExchangesAreSingleFlight ==
  ASSUME SoundStorage
  PROVE  Spec => []SingleFlight
<1>1. SInv => SingleFlight
  BY DEF SInv, PairSound, SingleFlight, Posting, Dispatched
<1> QED BY <1>1, SoundStorageInvariant, PTL

\* An outcome once journaled stays in the journal or in the outbox until the
\* sink has accepted it, whatever kills and imports come in between.
THEOREM OutcomesAreKept ==
  ASSUME SoundStorage
  PROVE  Spec => []NoOutcomeLost
<1>1. SInv => NoOutcomeLost
  BY DEF SInv, FilesSound
<1> QED BY <1>1, SoundStorageInvariant, PTL

\* A received successor is not dropped while its source is the credential.
THEOREM SuccessorsAreKept ==
  ASSUME SoundStorage
  PROVE  Spec => []SuccessorKept
<1>1. IInv /\ SInv => SuccessorKept
  BY Numbers DEF SInv, GotPlaced, SuccessorKept, InLock
<1> QED BY <1>1, InductiveInvariant, SoundStorageInvariant, PTL

\* A revision whose rotation is journaled is not POSTed again by any process.
THEOREM RotatedRevisionsAreSpent ==
  ASSUME SoundStorage
  PROVE  Spec => NoPostAfterRotated
<1>1. SInv =>
        [\A p \in Service : pc[p] = "dispatch" /\ pc'[p] = "exchange" => rev[p] \notin spent]_vars
  BY DEF SInv, ProcessSound, Dispatched
<1> QED BY <1>1, SoundStorageInvariant, PTL DEF NoPostAfterRotated

\* The journal can be read back, unless it is a stopped unknown outcome.
THEOREM OnlyStoppedJournalsAreCorrupt ==
  ASSUME SoundStorage
  PROVE  Spec => []CorruptOnlyWhenStopped
<1>1. IInv /\ SInv => CorruptOnlyWhenStopped
  <2> SUFFICES ASSUME IInv, SInv, Corrupt(journal)
               PROVE  /\ journal.state = "OUTCOME_UNKNOWN"
                      /\ journal.attempt.cont = "stop"
                      /\ \/ journal.attempt.notBefore # NoTime
                         \/ journal.attempt.cap # TotalDispatchCap
    BY DEF CorruptOnlyWhenStopped
  <2>1. journal.state # "ABSENT" /\ journal.version = 3 /\ journal \in Journal
    BY Numbers DEF Corrupt, Readable, Journal
  <2>2. Sound(journal)
    BY <2>1 DEF SInv, FilesSound, Found, Loaded
  <2> QED BY <2>1, <2>2, SoundReadable
<1> QED BY <1>1, InductiveInvariant, SoundStorageInvariant, PTL

\* Without a fault to consider, no step counts one.
LEMMA NoFaultCounted ==
  ASSUME FaultKinds = {}, [Next]_vars
  PROVE  faults' = faults
<1>1. (\A k : ~MayFail(k)) /\ WriteOutcomes = {"done"} /\ UnlinkOutcomes = {"done"}
  BY DEF MayFail, WriteOutcomes, UnlinkOutcomes
<1>2. ASSUME NEW p, NEW ACTION Ok, WriteJournal(p, Ok) PROVE faults' = faults
  BY <1>1, <1>2 DEF WriteJournal, Ends
<1>3. ASSUME NEW p \in Service, Transaction(p) PROVE faults' = faults
  <2>1. CASE WriteOutcome(p) \/ MarkEnqueued(p) \/ StopRecovery(p) \/ Reserve(p) \/ Request(p)
    BY <1>2, <2>1 DEF WriteOutcome, MarkEnqueued, StopRecovery, Reserve, Request
  <2>2. CASE Replace(p)
    BY <1>1, <2>2 DEF Replace, Ends
  <2>3. CASE EnqueueOutcome(p)
    BY <1>1, <2>3 DEF EnqueueOutcome, Ends
  <2>4. CASE ForgetJournal(p)
    BY <1>1, <2>4 DEF ForgetJournal, Ends
  <2>5. CASE Acknowledge(p)
    BY <1>1, <2>5 DEF Acknowledge, Ends
  <2>6. CASE DeleteRotated(p)
    BY <1>1, <2>6 DEF DeleteRotated, Ends
  <2>7. CASE \/ DeliverRefused(p) \/ DeliverAccepted(p) \/ EndRecord(p)
             \/ RecoverStartupJournal(p) \/ BeginDispatch(p) \/ RecoverUnknown(p)
             \/ AuthorizeRecoveryDispatch(p)
    BY <2>7 DEF DeliverRefused, DeliverAccepted, EndRecord, RecoverStartupJournal, BeginDispatch,
                RecoverUnknown, AuthorizeRecoveryDispatch, counter
  <2> QED BY <1>3, <2>1, <2>2, <2>3, <2>4, <2>5, <2>6, <2>7 DEF Transaction
<1>4. ASSUME NEW p \in Service, Entry(p) PROVE faults' = faults
  BY <1>1, <1>4 DEF Entry, RecoverStartup, Prepare, Commit, CommitUnread, ProjectRetained,
                    ProjectUnread, LockFails, counter
<1>5. ASSUME NEW p \in Service, Exchange(p) PROVE faults' = faults
  BY <1>5 DEF Exchange, Post, ExchangeSucceeded, ExchangeRejected, ExchangeOutcomeUnknown,
              Answered, counter
<1>6. ASSUME NEW p \in Service,
             Start(p) \/ Schedule(p) \/ Unpark(p) \/ ReadFails(p) \/ Crash(p)
      PROVE  faults' = faults
  BY <1>1, <1>6 DEF Start, Schedule, Unpark, ReadFails, Crash, counter
<1>7. ASSUME Import PROVE faults' = faults
  BY <1>1, <1>7 DEF Import, ImportCredential, ImportEnqueue, ImportForget, ImportCrash, CliEnds
<1> QED BY <1>3, <1>4, <1>5, <1>6, <1>7 DEF Next, Tick, vars, counter

\* No kill and no fault: the POSTs of a revision stay within the cap, over any
\* number of processes, graceful restarts, recoveries and imports.
THEOREM CapIsKeptUntilKill ==
  ASSUME FaultKinds = {}
  PROVE  Spec => []CapKeptUntilKill
<1>1. SoundStorage
  BY DEF SoundStorage
<1>2. Init => faults = 0
  BY DEF Init
<1>3. faults = 0 /\ [Next]_vars => (faults = 0)'
  BY NoFaultCounted
<1>4. IInv /\ SInv /\ faults = 0 => CapKeptUntilKill
  <2> SUFFICES ASSUME IInv, SInv, faults = 0, crashes = 0, posts > 0
               PROVE  posts <= TotalDispatchCap
    BY Numbers, PolicyAssumption DEF CapKeptUntilKill
  <2>1. journal.version = 3 /\ posts <= journal.attempt.count
    BY DEF SInv, Covered, PostsCovered
  <2>2. Counted(journal.attempt)
    BY <2>1 DEF SInv, FilesSound, Found, Loaded, Sound
  <2> QED BY <2>1, <2>2, Numbers, PolicyAssumption DEF Counted
<1>5. Spec => [](faults = 0)
  BY <1>2, <1>3, PTL DEF Spec
<1> QED BY <1>1, <1>4, <1>5, InductiveInvariant, SoundStorageInvariant, PTL

-----------------------------------------------------------------------------
(* The budget, whatever the storage does.                                   *)

\* The counters of an attempt account for themselves.
Budgeted(a) == Within(a) /\ Counted(a)

\* The attempt a call holds; before its authorization a recovery attempt is only
\* known to be within its lanes.
HandBudgeted(p) ==
  Within(hand[p].attempt) /\ (pc[p] # "authorize" => Counted(hand[p].attempt))

\* The inductive invariant of the budget.
BInv == Budgeted(journal.attempt) /\ \A p \in Service : HandBudgeted(p)

\* The budget depends on the counters alone.
LEMMA SameBudget ==
  ASSUME NEW a, NEW b, b.count = a.count, b.used = a.used, Budgeted(a)
  PROVE  Budgeted(b)
BY SameCounters DEF Budgeted

\* A record read back accounts for itself, a migrated one too.
LEMMA LoadedBudgeted ==
  ASSUME NEW j \in Journal, Budgeted(j.attempt)
  PROVE  Budgeted(Loaded(j).attempt)
<1>1. CASE j.version = 3
  BY <1>1 DEF Loaded
<1>2. CASE j.version # 3
  <2> DEFINE a == MigratedAttempt(j.state)
  <2>1. a.used = UnbudgetedAttempt.used /\ a.count \in {0, 1}
    BY DEF MigratedAttempt, UnbudgetedAttempt
  <2>2. Loaded(j).attempt = a
    BY <1>2 DEF Loaded, Journal
  <2> HIDE DEF a
  <2>3. Within(a)
    BY <2>1, FreshSound DEF Within
  <2>4. Retries(a) = 0
    BY <2>1 DEF Retries, UnbudgetedAttempt, Unused, Lanes
  <2> QED BY <2>1, <2>2, <2>3, <2>4, PolicyAssumption DEF Counted, Budgeted
<1> QED BY <1>1, <1>2

\* The attempt a call takes up for its revision.
LEMMA AttemptForSourceBudgeted ==
  ASSUME IInv, BInv, NEW source
  PROVE  AttemptForSource(source) \in Attempt /\ Budgeted(AttemptForSource(source))
<1>1. journal \in Journal
  BY Numbers
<1>2. Loaded(journal) \in Journal
  BY <1>1, LoadedType
<1>3. Loaded(journal).attempt \in Attempt
  BY <1>2 DEF Journal
<1> QED BY <1>1, <1>3, LoadedBudgeted, FreshSound, FreshAttemptTypes
        DEF AttemptForSource, BInv, Budgeted

\* What a step of process p leaves in memory and on disk.
LEMMA BudgetStep ==
  ASSUME IInv, BInv, NEW p \in Service, Budgeted(journal'.attempt), HandBudgeted(p)',
         \A q \in Service : q # p => hand'[q] = hand[q] /\ pc'[q] = pc[q]
  PROVE  BInv'
BY DEF BInv, HandBudgeted

\* Leaving the call, whatever it wrote.
LEMMA ReturnBudgeted ==
  ASSUME IInv, BInv, NEW p \in Service, NEW l, NEW kept, Return(p, l, kept),
         Budgeted(journal'.attempt)
  PROVE  BInv'
<1>1. Elsewhere(p) /\ hand'[p] = NoJournal
  BY ReturnAt
<1>2. NoJournal.attempt = UnbudgetedAttempt
  BY DEF NoJournal
<1>3. HandBudgeted(p)'
  BY <1>1, <1>2, FreshSound DEF HandBudgeted
<1> QED BY <1>1, <1>3, BudgetStep DEF Elsewhere

\* Going on with a record whose attempt accounts for itself.
LEMMA GotoBudgeted ==
  ASSUME IInv, BInv, NEW p \in Service, NEW l, NEW j, Goto(p, l, j),
         Budgeted(journal'.attempt), Within(j.attempt), l # "authorize" => Counted(j.attempt)
  PROVE  BInv'
<1>1. Elsewhere(p) /\ hand'[p] = j /\ pc'[p] = l
  BY GotoAt
<1>2. HandBudgeted(p)'
  BY <1>1 DEF HandBudgeted
<1> QED BY <1>1, <1>2, BudgetStep DEF Elsewhere

\* A durable write ends in what follows it, or leaves the call.
LEMMA EndsBudgeted ==
  ASSUME IInv, BInv, NEW p \in Service, NEW o, NEW ACTION Ok, Ends(p, o, Ok),
         Budgeted(journal'.attempt), Ok => BInv'
  PROVE  BInv'
BY ReturnBudgeted DEF Ends, Raise, Exit

\* What is in memory accounts for itself, except before the authorization.
LEMMA HandAccounts ==
  ASSUME IInv, BInv, NEW p \in Service, pc[p] # "authorize"
  PROVE  Budgeted(hand[p].attempt)
BY DEF BInv, HandBudgeted, Budgeted

\* The record in memory is written to the journal.
LEMMA WriteJournalBudgeted ==
  ASSUME IInv, BInv, NEW p \in Service, pc[p] # "authorize", NEW ACTION Ok,
         WriteJournal(p, Ok), Budgeted(journal'.attempt) /\ Ok => BInv'
  PROVE  BInv'
<1>1. PICK o \in WriteOutcomes :
        journal' = (IF Visible(o) THEN hand[p] ELSE journal) /\ Ends(p, o, Ok)
  BY DEF WriteJournal
<1>2. Budgeted(journal'.attempt)
  BY <1>1, HandAccounts DEF BInv
<1> QED BY <1>1, <1>2, EndsBudgeted

\* Writes of the record in memory.
LEMMA WritesBudgeted ==
  ASSUME IInv, BInv, NEW p \in Service,
         \/ WriteOutcome(p) \/ MarkEnqueued(p) \/ StopRecovery(p) \/ Reserve(p) \/ Request(p)
  PROVE  BInv'
<1>1. pc[p] # "authorize" => Budgeted(hand[p].attempt)
  BY HandAccounts
<1>2. CASE WriteOutcome(p)
  <2> DEFINE l == IF hand[p].state = "ROTATED" THEN "replace" ELSE "enqueue"
  <2>1. pc[p] = "write" /\ WriteJournal(p, Goto(p, l, hand[p]))
    BY <1>2 DEF WriteOutcome
  <2>2. Budgeted(journal'.attempt) /\ Goto(p, l, hand[p]) => BInv'
    BY <1>1, <2>1, GotoBudgeted DEF Budgeted
  <2> HIDE DEF l
  <2> QED BY <2>1, <2>2, WriteJournalBudgeted
<1>3. CASE MarkEnqueued(p)
  <2>1. pc[p] = "mark" /\ WriteJournal(p, Goto(p, "drain", hand[p]))
    BY <1>3 DEF MarkEnqueued
  <2>2. Budgeted(journal'.attempt) /\ Goto(p, "drain", hand[p]) => BInv'
    BY <1>1, <2>1, GotoBudgeted DEF Budgeted
  <2> QED BY <2>1, <2>2, WriteJournalBudgeted
<1>4. CASE StopRecovery(p)
  <2>1. pc[p] = "stop" /\ WriteJournal(p, Return(p, "parked", Nothing))
    BY <1>4 DEF StopRecovery
  <2>2. Budgeted(journal'.attempt) /\ Return(p, "parked", Nothing) => BInv'
    BY ReturnBudgeted
  <2> QED BY <2>1, <2>2, WriteJournalBudgeted
<1>5. CASE Reserve(p)
  <2> DEFINE j == [hand[p] EXCEPT !.state = "REQUESTED"]
  <2>1. pc[p] = "reserve" /\ WriteJournal(p, Goto(p, "request", j))
    BY <1>5 DEF Reserve
  <2>2. j.attempt = hand[p].attempt
    BY Numbers DEF Journal
  <2> HIDE DEF j
  <2>3. Budgeted(journal'.attempt) /\ Goto(p, "request", j) => BInv'
    BY <1>1, <2>1, <2>2, GotoBudgeted DEF Budgeted
  <2> QED BY <2>1, <2>3, WriteJournalBudgeted
<1>6. CASE Request(p)
  <2>1. pc[p] = "request" /\ WriteJournal(p, Return(p, "dispatch", Nothing))
    BY <1>6 DEF Request
  <2>2. Budgeted(journal'.attempt) /\ Return(p, "dispatch", Nothing) => BInv'
    BY ReturnBudgeted
  <2> QED BY <2>1, <2>2, WriteJournalBudgeted
<1> QED BY <1>2, <1>3, <1>4, <1>5, <1>6

\* Once a terminal outcome is recorded the call ends, or recovers with it.
LEMMA RecordedBudgeted ==
  ASSUME IInv, BInv, NEW p \in Service, pc[p] # "authorize", Budgeted(journal'.attempt),
         Recorded(p)
  PROVE  BInv'
<1>1. Budgeted(hand[p].attempt)
  BY HandAccounts
<1>2. \/ Goto(p, "recover", hand[p])
      \/ Exit(p) \/ Return(p, "parked", Nothing) \/ Return(p, "idle", Nothing)
  BY DEF Recorded
<1> QED BY <1>1, <1>2, GotoBudgeted, ReturnBudgeted DEF Budgeted, Exit

\* Writes of the other files, and the deletion of the journal.
LEMMA OtherWritesBudgeted ==
  ASSUME IInv, BInv, NEW p \in Service,
         \/ Replace(p) \/ EnqueueOutcome(p) \/ ForgetJournal(p) \/ DeleteRotated(p)
         \/ Acknowledge(p)
  PROVE  BInv'
<1>1. pc[p] # "authorize" => Budgeted(hand[p].attempt)
  BY HandAccounts
<1>2. NoJournal.attempt = UnbudgetedAttempt /\ Budgeted(NoJournal.attempt)
  BY FreshSound DEF NoJournal, Budgeted
<1>3. Budgeted(journal.attempt)
  BY DEF BInv
<1>4. CASE Replace(p)
  <2> DEFINE l == IF hand[p].enqueued THEN "drain" ELSE "enqueue"
  <2>1. pc[p] = "replace" /\ journal' = journal
    BY <1>4 DEF Replace, disk
  <2>2. (\E o : Ends(p, o, Goto(p, l, hand[p]))) \/ Return(p, "idle", Nothing)
    BY <1>4 DEF Replace
  <2>3. Goto(p, l, hand[p]) => BInv'
    BY <1>1, <1>3, <2>1, GotoBudgeted DEF Budgeted
  <2> HIDE DEF l
  <2> QED BY <1>3, <2>1, <2>2, <2>3, EndsBudgeted, ReturnBudgeted
<1>5. CASE EnqueueOutcome(p)
  <2> DEFINE k  == [hand[p] EXCEPT !.enqueued = TRUE]
             Ok == IF pc[p] = "discard" THEN Goto(p, "forget", hand[p]) ELSE Goto(p, "mark", k)
  <2>1. pc[p] \in {"enqueue", "discard"} /\ journal' = journal /\ \E o : Ends(p, o, Ok)
    BY <1>5 DEF EnqueueOutcome
  <2>2. k.attempt = hand[p].attempt
    BY Numbers DEF Journal
  <2> HIDE DEF k
  <2>3. Ok => BInv'
    BY <1>1, <1>3, <2>1, <2>2, GotoBudgeted DEF Budgeted
  <2> HIDE DEF Ok
  <2> QED BY <1>3, <2>1, <2>3, EndsBudgeted
<1>6. CASE ForgetJournal(p)
  <2> DEFINE Ok == IF call[p] = "prepare" THEN Goto(p, "drain", NoJournal)
                   ELSE Return(p, "idle", Nothing)
  <2>1. journal' \in {NoJournal, journal} /\ \E o : Ends(p, o, Ok)
    BY <1>6 DEF ForgetJournal
  <2>2. Budgeted(journal'.attempt)
    BY <1>2, <1>3, <2>1
  <2>3. Ok => BInv'
    BY <1>2, <2>2, GotoBudgeted, ReturnBudgeted DEF Budgeted
  <2> HIDE DEF Ok
  <2> QED BY <2>1, <2>2, <2>3, EndsBudgeted
<1>7. CASE DeleteRotated(p)
  <2>1. pc[p] = "finish" /\ journal' \in {NoJournal, journal} /\ \E o : Ends(p, o, Recorded(p))
    BY <1>7 DEF DeleteRotated
  <2>2. Budgeted(journal'.attempt)
    BY <1>2, <1>3, <2>1
  <2>3. Recorded(p) => BInv'
    BY <2>1, <2>2, RecordedBudgeted
  <2> QED BY <2>1, <2>2, <2>3, EndsBudgeted
<1>8. CASE Acknowledge(p)
  <2>1. pc[p] = "ack" /\ journal' = journal /\ \E o : Ends(p, o, Acknowledged(p))
    BY <1>8 DEF Acknowledge
  <2>2. Acknowledged(p) => BInv'
    <3>1. SUFFICES ASSUME Acknowledged(p) PROVE BInv'
      OBVIOUS
    <3>2. hand' = hand /\ \A q \in Service : q # p => pc'[q] = pc[q]
      BY <3>1, IInvParts DEF Acknowledged, Shapes
    <3>3. HandBudgeted(p)'
      BY <1>1, <2>1, <3>2 DEF HandBudgeted, Budgeted
    <3> QED BY <1>3, <2>1, <3>2, <3>3, BudgetStep
  <2> QED BY <1>3, <2>1, <2>2, EndsBudgeted
<1> QED BY <1>4, <1>5, <1>6, <1>7, <1>8

\* The record a reconciliation takes up accounts for itself.
LEMMA ReconcileBudgeted ==
  ASSUME IInv, BInv, NEW p \in Service, journal' = journal, Reconcile(p, Loaded(journal))
  PROVE  BInv'
<1> DEFINE j == Loaded(journal)
           k == RecoveryRecord(j)
           l == RecoveryPoint(j)
<1>1. j \in Journal /\ Budgeted(j.attempt) /\ now \in Nat
  BY LoadedType, LoadedBudgeted, Numbers DEF BInv
<1>2. j.attempt \in Attempt
  BY <1>1 DEF Journal
<1>3. l # "authorize"
  BY DEF RecoveryPoint, RecordFrom
<1>4. k.attempt.count = j.attempt.count /\ k.attempt.used = j.attempt.used
  <2> HIDE DEF j
  <2> QED BY <1>1, <1>2 DEF RecoveryRecord, JournalOf, WithContinuation, Attempt
<1>5. Goto(p, l, k)
  BY DEF Reconcile
<1> HIDE DEF j, k, l
<1>6. Budgeted(k.attempt)
  BY <1>1, <1>4, SameBudget
<1> QED BY <1>3, <1>5, <1>6, GotoBudgeted DEF Budgeted, BInv

\* Steps inside the lock that write no file.
LEMMA LockedStepsBudgeted ==
  ASSUME IInv, BInv, NEW p \in Service,
         \/ DeliverRefused(p) \/ DeliverAccepted(p) \/ EndRecord(p)
         \/ RecoverStartupJournal(p) \/ BeginDispatch(p)
  PROVE  BInv'
<1>1. pc[p] = "drain" /\ journal' = journal /\ Budgeted(hand[p].attempt)
  BY HandAccounts
     DEF DeliverRefused, DeliverAccepted, EndRecord, RecoverStartupJournal, BeginDispatch, disk
<1>2. Budgeted(journal'.attempt)
  BY <1>1 DEF BInv
<1>3. CASE DeliverRefused(p) \/ DeliverAccepted(p)
  <2>1. hand' = hand /\ (\A q \in Service : q # p => pc'[q] = pc[q]) /\ pc'[p] # "authorize"
    BY <1>1, <1>3, IInvParts DEF DeliverRefused, DeliverAccepted, Shapes
  <2>2. HandBudgeted(p)'
    BY <1>1, <2>1 DEF HandBudgeted, Budgeted
  <2> QED BY <1>2, <2>1, <2>2, BudgetStep
<1>4. CASE EndRecord(p)
  <2>1. Goto(p, "finish", hand[p]) \/ Recorded(p)
    BY <1>4 DEF EndRecord
  <2> QED BY <1>1, <1>2, <2>1, GotoBudgeted, RecordedBudgeted DEF Budgeted
<1>5. CASE RecoverStartupJournal(p)
  <2>1. Return(p, "idle", Nothing) \/ Reconcile(p, Loaded(journal))
    BY <1>5 DEF RecoverStartupJournal
  <2> QED BY <1>1, <1>2, <2>1, ReturnBudgeted, ReconcileBudgeted
<1>6. CASE BeginDispatch(p)
  <2> DEFINE a == OwnedBy(NormalAttempt(now), life[p])
             j == JournalOf("RESERVED", auth.revision, NoRevision, a)
  <2>1. Return(p, "idle", Nothing) \/ Goto(p, "reserve", j)
    BY <1>6 DEF BeginDispatch
  <2>2. j.attempt = a /\ a.count = UnbudgetedAttempt.count /\ a.used = UnbudgetedAttempt.used
    BY DEF JournalOf, OwnedBy, NormalAttempt, UnbudgetedAttempt
  <2> HIDE DEF a, j
  <2>3. Budgeted(j.attempt)
    BY <2>2, SameBudget, FreshSound DEF Budgeted
  <2> QED BY <1>2, <2>1, <2>3, ReturnBudgeted, GotoBudgeted DEF Budgeted
<1> QED BY <1>3, <1>4, <1>5, <1>6

\* One more dispatch, charged to an available lane, stays within the lanes.
LEMMA NextAttemptWithin ==
  ASSUME NEW a \in Attempt, NEW t, HasNextAttempt(a, t), Within(a)
  PROVE  Within(NextRecoveryAttempt(a))
<1>1. a.cont \in Lanes /\ a.used[a.cont] < LaneLimit[a.cont] /\ a.used \in [Lanes -> Nat]
  BY DEF HasNextAttempt, ContinuationAvailable, Attempt
<1>2. NextRecoveryAttempt(a).used = [a.used EXCEPT ![a.cont] = @ + 1]
  BY DEF NextRecoveryAttempt, Attempt
<1> QED BY <1>1, <1>2, LaneTypes DEF Within

\* The steps of a recovery; the authorization checks the counters again.
LEMMA RecoveryBudgeted ==
  ASSUME IInv, BInv, NEW p \in Service,
         RecoverUnknown(p) \/ AuthorizeRecoveryDispatch(p)
  PROVE  BInv'
<1> DEFINE a == hand[p].attempt
<1>1. journal' = journal /\ Budgeted(journal'.attempt)
  BY DEF RecoverUnknown, AuthorizeRecoveryDispatch, disk, BInv
<1>2. hand[p] \in Journal /\ a \in Attempt
  BY Numbers
<1>3. CASE RecoverUnknown(p)
  <2> DEFINE k == [hand[p] EXCEPT !.enqueued = FALSE, !.attempt = StoppedAttempt(a)]
             n == [hand[p] EXCEPT !.attempt = NextRecoveryAttempt(a)]
  <2>1. Budgeted(a) /\ pc[p] = "recover"
    BY <1>3, HandAccounts DEF RecoverUnknown
  <2>2. \/ Goto(p, "stop", k)
        \/ Return(p, "idle", Nothing)
        \/ HasNextAttempt(a, now) /\ Goto(p, "authorize", n)
    BY <1>3 DEF RecoverUnknown
  <2>3. k.attempt.count = a.count /\ k.attempt.used = a.used
    BY <1>2 DEF StoppedAttempt, Journal, Attempt
  <2>4. n.attempt = NextRecoveryAttempt(a)
    BY <1>2 DEF Journal
  <2> HIDE DEF a, k, n
  <2>5. CASE Goto(p, "stop", k)
    BY <1>1, <2>1, <2>3, <2>5, SameBudget, GotoBudgeted DEF Budgeted
  <2>6. CASE Return(p, "idle", Nothing)
    BY <1>1, <2>6, ReturnBudgeted
  <2>7. CASE HasNextAttempt(a, now) /\ Goto(p, "authorize", n)
    BY <1>1, <1>2, <2>1, <2>4, <2>7, NextAttemptWithin, GotoBudgeted DEF Budgeted
  <2> QED BY <2>2, <2>5, <2>6, <2>7
<1>4. CASE AuthorizeRecoveryDispatch(p)
  <2> DEFINE b == OwnedBy(a, life[p])
             j == JournalOf("RESERVED", hand[p].source, NoRevision, b)
  <2>1. \/ RecoveryDispatchIsAuthorized(a, now) /\ Goto(p, "reserve", j)
        \/ Return(p, "down", Nothing)
    BY <1>4 DEF AuthorizeRecoveryDispatch, Exit
  <2>2. Within(a)
    BY DEF BInv, HandBudgeted
  <2>3. j.attempt = b /\ b.count = a.count /\ b.used = a.used
    BY <1>2 DEF JournalOf, OwnedBy, Attempt
  <2> HIDE DEF a, b, j
  <2>4. RecoveryDispatchIsAuthorized(a, now) => Counted(a)
    BY DEF RecoveryDispatchIsAuthorized, Counted
  <2>5. RecoveryDispatchIsAuthorized(a, now) => Budgeted(j.attempt)
    BY <2>2, <2>3, <2>4, SameBudget DEF Budgeted
  <2> QED BY <1>1, <2>1, <2>5, ReturnBudgeted, GotoBudgeted DEF Budgeted
<1> QED BY <1>3, <1>4

\* A commit writes an outcome with the attempt it found, or a fresh one.
LEMMA CommitWithBudgeted ==
  ASSUME IInv, BInv, NEW p \in Service, pc[p] = "commit", journal' = journal,
         NEW a \in Attempt, Budgeted(a), CommitWith(p, a)
  PROVE  BInv'
<1> DEFINE b == IF hand[p].state = "OUTCOME_UNKNOWN"
                THEN WithContinuation(a, hand[p].attempt.cont, now) ELSE WithoutOwner(a)
           j == [hand[p] EXCEPT !.attempt = b]
<1>1. Goto(p, "write", j)
  BY DEF CommitWith
<1>2. b.count = a.count /\ b.used = a.used
  BY DEF WithContinuation, WithoutOwner, Attempt
<1> HIDE DEF b
<1>3. j.attempt = b
  BY Numbers DEF Journal
<1> HIDE DEF j
<1>4. Budgeted(j.attempt)
  BY <1>2, <1>3, SameBudget
<1> QED BY <1>1, <1>4, GotoBudgeted DEF Budgeted, BInv

\* The entries into the lock.
LEMMA EntryBudgeted ==
  ASSUME IInv, BInv, NEW p \in Service, Entry(p)
  PROVE  BInv'
<1>1. journal' = journal
  BY DEF Entry, RecoverStartup, Prepare, Commit, CommitUnread, ProjectRetained, ProjectUnread,
         LockFails, disk
<1>2. Budgeted(journal'.attempt)
  BY <1>1 DEF BInv
<1>3. NoJournal.attempt = UnbudgetedAttempt /\ Budgeted(NoJournal.attempt)
  BY FreshSound DEF NoJournal, Budgeted
<1>4. CASE RecoverStartup(p)
  <2>1. Return(p, "idle", Nothing) \/ Goto(p, "drain", NoJournal)
    BY <1>4 DEF RecoverStartup
  <2> QED BY <1>2, <1>3, <2>1, ReturnBudgeted, GotoBudgeted DEF Budgeted
<1>5. CASE Prepare(p)
  <2>1. \/ Exit(p) \/ Goto(p, "drain", NoJournal) \/ Reconcile(p, Loaded(journal))
        \/ pc' = [pc EXCEPT ![p] = "parked"] /\ hand' = hand
    BY <1>5 DEF Prepare, Readable, Corrupt
  <2>2. CASE pc' = [pc EXCEPT ![p] = "parked"] /\ hand' = hand
    <3>1. pc'[p] = "parked" /\ \A q \in Service : q # p => pc'[q] = pc[q]
      BY <2>2, IInvParts DEF Shapes
    <3>2. pc[p] = "due"
      BY <1>5 DEF Prepare
    <3>3. HandBudgeted(p)'
      BY <2>2, <3>1, <3>2, HandAccounts DEF HandBudgeted, Budgeted
    <3> QED BY <1>2, <2>2, <3>1, <3>3, BudgetStep
  <2>3. CASE Exit(p) \/ Goto(p, "drain", NoJournal) \/ Reconcile(p, Loaded(journal))
    BY <1>1, <1>2, <1>3, <2>3, ReturnBudgeted, GotoBudgeted, ReconcileBudgeted
       DEF Budgeted, Exit
  <2> QED BY <2>1, <2>2, <2>3
<1>6. CASE Commit(p) \/ CommitUnread(p)
  <2>1. /\ pc[p] = "commit"
        /\ \/ CommitWith(p, AttemptForSource(rev[p]))
           \/ CommitWith(p, UnbudgetedAttempt)
           \/ CommitSuperseded(p)
    BY <1>6 DEF Commit, CommitUnread
  <2>2. CASE CommitSuperseded(p)
    BY <1>2, <2>2, ReturnBudgeted DEF CommitSuperseded
  <2>3. CASE CommitWith(p, AttemptForSource(rev[p]))
    BY <1>1, <2>1, <2>3, AttemptForSourceBudgeted, CommitWithBudgeted
  <2>4. CASE CommitWith(p, UnbudgetedAttempt)
    BY <1>1, <2>1, <2>4, FreshAttemptTypes, FreshSound, CommitWithBudgeted DEF Budgeted
  <2> QED BY <2>1, <2>2, <2>3, <2>4
<1>7. CASE ProjectRetained(p)
  <2> DEFINE r == retained[p]
             a == WithoutOwner(AttemptForSource(r.source))
             j == JournalOf("ROTATED", r.source, r.succ, a)
  <2>1. \/ /\ pc' = [pc EXCEPT ![p] = IF auth.revision = r.succ THEN "enqueue" ELSE "write"]
           /\ hand' = [hand EXCEPT ![p] = j]
        \/ Return(p, "idle", Nothing)
    BY <1>7 DEF ProjectRetained
  <2>2. j.attempt = a /\ Budgeted(a)
    <3>1. a.count = AttemptForSource(r.source).count /\ a.used = AttemptForSource(r.source).used
      BY AttemptForSourceBudgeted DEF WithoutOwner, Attempt
    <3>2. j.attempt = a
      BY DEF JournalOf
    <3> HIDE DEF a
    <3> QED BY <3>1, <3>2, AttemptForSourceBudgeted, SameBudget
  <2> HIDE DEF j, a
  <2>3. CASE Return(p, "idle", Nothing)
    BY <1>2, <2>3, ReturnBudgeted
  <2>4. CASE /\ pc' = [pc EXCEPT ![p] = IF auth.revision = r.succ THEN "enqueue" ELSE "write"]
             /\ hand' = [hand EXCEPT ![p] = j]
    <3>1. /\ hand'[p] = j
          /\ \A q \in Service : q # p => hand'[q] = hand[q] /\ pc'[q] = pc[q]
      BY <2>4, IInvParts DEF Shapes
    <3>2. HandBudgeted(p)'
      BY <2>2, <3>1 DEF HandBudgeted, Budgeted
    <3> QED BY <1>2, <3>1, <3>2, BudgetStep
  <2> QED BY <2>1, <2>3, <2>4
<1>8. CASE ProjectUnread(p) \/ LockFails(p)
  BY <1>2, <1>8, ReturnBudgeted DEF ProjectUnread, LockFails, Raise
<1> QED BY <1>4, <1>5, <1>6, <1>7, <1>8 DEF Entry

\* The exchange and its answers.
LEMMA ExchangeBudgeted ==
  ASSUME IInv, BInv, NEW p \in Service, Exchange(p)
  PROVE  BInv'
<1>1. journal' = journal /\ Budgeted(journal'.attempt)
  BY DEF Exchange, Post, ExchangeSucceeded, ExchangeRejected, ExchangeOutcomeUnknown, Answered,
         disk, BInv
<1>2. ASSUME NEW c, NEW j, Answered(p, c, j), Budgeted(j.attempt) PROVE BInv'
  <2>1. /\ hand'[p] = j
        /\ \A q \in Service : q # p => hand'[q] = hand[q] /\ pc'[q] = pc[q]
    BY <1>2, IInvParts DEF Answered, Shapes
  <2>2. HandBudgeted(p)'
    BY <1>2, <2>1 DEF HandBudgeted, Budgeted
  <2> QED BY <1>1, <2>1, <2>2, BudgetStep
<1>3. CASE Post(p)
  <2>1. pc[p] = "dispatch" /\ hand' = hand /\ \A q \in Service : q # p => pc'[q] = pc[q]
    BY <1>3, IInvParts DEF Post, Shapes
  <2>2. HandBudgeted(p)'
    BY <2>1, HandAccounts DEF HandBudgeted, Budgeted
  <2> QED BY <1>1, <2>1, <2>2, BudgetStep
<1>4. ASSUME NEW st, NEW succ PROVE Budgeted(JournalOf(st, rev[p], succ, UnbudgetedAttempt).attempt)
  BY FreshSound DEF JournalOf, Budgeted
<1>5. CASE ExchangeSucceeded(p)
  BY <1>2, <1>4, <1>5 DEF ExchangeSucceeded
<1>6. CASE ExchangeRejected(p)
  BY <1>2, <1>4, <1>6 DEF ExchangeRejected
<1>7. CASE ExchangeOutcomeUnknown(p)
  <2>1. PICK c \in {"unknown", "transport", "cancel"}, lane \in Lanes :
          Answered(p, c, JournalOf("OUTCOME_UNKNOWN", rev[p], NoRevision,
                                   [UnbudgetedAttempt EXCEPT !.cont = lane]))
    BY <1>7 DEF ExchangeOutcomeUnknown
  <2> DEFINE a == [UnbudgetedAttempt EXCEPT !.cont = lane]
             j == JournalOf("OUTCOME_UNKNOWN", rev[p], NoRevision, a)
  <2>2. j.attempt = a /\ a.count = UnbudgetedAttempt.count /\ a.used = UnbudgetedAttempt.used
    BY DEF JournalOf, UnbudgetedAttempt
  <2>3. Answered(p, c, j)
    BY <2>1
  <2> HIDE DEF a, j
  <2>4. Budgeted(j.attempt)
    BY <2>2, SameBudget, FreshSound DEF Budgeted
  <2> QED BY <1>2, <2>3, <2>4
<1> QED BY <1>3, <1>5, <1>6, <1>7 DEF Exchange

\* A start, a schedule, a wake-up, a failing read or a kill.
LEMMA LifeBudgeted ==
  ASSUME IInv, BInv, NEW p \in Service,
         Start(p) \/ Schedule(p) \/ Unpark(p) \/ ReadFails(p) \/ Crash(p)
  PROVE  BInv'
<1>1. journal' = journal /\ Budgeted(journal'.attempt)
  BY DEF Start, Schedule, Unpark, ReadFails, Crash, disk, BInv
<1>2. CASE Start(p) \/ Schedule(p)
  <2>1. /\ pc[p] # "authorize" /\ hand' = hand
        /\ \A q \in Service : q # p => pc'[q] = pc[q]
    BY <1>2, IInvParts DEF Start, Schedule, Shapes
  <2>2. HandBudgeted(p)'
    BY <2>1, HandAccounts DEF HandBudgeted, Budgeted
  <2> QED BY <1>1, <2>1, <2>2, BudgetStep
<1>3. CASE Unpark(p) \/ ReadFails(p) \/ Crash(p)
  BY <1>1, <1>3, ReturnBudgeted DEF Unpark, ReadFails, Crash, Exit, Raise
<1> QED BY <1>2, <1>3

\* Every step, or stutter, keeps the accounts.
LEMMA NextBudgeted ==
  ASSUME IInv, BInv, [Next]_vars
  PROVE  BInv'
<1>1. CASE Import \/ Tick \/ UNCHANGED vars
  <2>1. UNCHANGED <<pc, hand>> /\ journal' \in {journal, NoJournal}
    BY <1>1 DEF Import, ImportCredential, ImportEnqueue, ImportForget, ImportCrash, Tick, vars,
                disk, process
  <2>2. Budgeted(journal'.attempt)
    BY <2>1, FreshSound DEF BInv, NoJournal, Budgeted
  <2> QED BY <2>1, <2>2 DEF BInv, HandBudgeted
<1>2. ASSUME NEW p \in Service, Transaction(p) PROVE BInv'
  BY <1>2, WritesBudgeted, OtherWritesBudgeted, LockedStepsBudgeted, RecoveryBudgeted
     DEF Transaction
<1> QED BY <1>1, <1>2, EntryBudgeted, ExchangeBudgeted, LifeBudgeted DEF Next

\* What an earlier release left has a fresh attempt.
LEMMA InitBudgeted == Init => BInv
<1> SUFFICES ASSUME Init PROVE BInv
  OBVIOUS
<1>1. NoJournal.attempt = UnbudgetedAttempt /\ Budgeted(UnbudgetedAttempt)
  BY FreshSound DEF NoJournal, Budgeted
<1>2. journal.attempt = UnbudgetedAttempt
  <2>1. \A st, enq : LegacyJournal(st, enq).attempt = UnbudgetedAttempt
    BY DEF LegacyJournal, NoJournal
  <2>2. CASE journal \in LegacyJournals
    <3>1. PICK st \in Phases, enq \in BOOLEAN : journal = LegacyJournal(st, enq)
      BY <2>2 DEF LegacyJournals, Phases
    <3> QED BY <2>1, <3>1
  <2> QED BY <1>1, <2>2 DEF Init
<1>3. \A p \in Service : hand[p] = NoJournal
  BY DEF Init
<1> QED BY <1>1, <1>2, <1>3 DEF BInv, HandBudgeted, Budgeted

\* The durable budget accounts for itself, whatever the storage does, with any
\* number of processes, kills and imports: one normal dispatch and the lanes used,
\* within every limit and the total cap.
THEOREM BudgetsAreAccounted == Spec => []BudgetAccounting
<1>1. IInv /\ BInv /\ [Next]_vars => BInv'
  BY NextBudgeted
<1>2. BInv => BudgetAccounting
  BY DEF BInv, Budgeted, Within, Counted, BudgetAccounting
<1> QED BY <1>1, <1>2, InitBudgeted, InductiveInvariant, PTL DEF Spec

-----------------------------------------------------------------------------
(* A demand to import again is final.                                       *)

\* A recovery is scheduled in the journal.
Scheduled == Found.state = "OUTCOME_UNKNOWN" /\ Found.attempt.cont \in Lanes

\* What a call inside the lock knows of the journal besides Facing.
RecordKept(p) ==
  /\ /\ pc[p] \in {"enqueue", "mark", "drain", "ack", "recover"}
     /\ hand[p].state = "OUTCOME_UNKNOWN"
     => Found.attempt.cont = hand[p].attempt.cont
  /\ pc[p] = "authorize" => Scheduled
  /\ pc[p] = "reserve" => journal.state = "ABSENT" \/ Scheduled
  /\ pc[p] \in {"discard", "forget"} => ~Corrupt(journal)
  /\ pc[p] = "stop" => hand[p].attempt.cont = "stop"

\* Inductive together with SInv.
RInv == \A p \in Service : RecordKept(p)

\* A step of process p disturbs only what p knows.
LEMMA KeptStep ==
  ASSUME IInv, RInv, NEW p \in Service, journal' = journal \/ Alone(p), RecordKept(p)',
         \A q \in Service : q # p => pc'[q] = pc[q] /\ hand'[q] = hand[q]
  PROVE  RInv'
<1>1. ASSUME NEW q \in Service, q # p PROVE RecordKept(q)'
  <2>1. CASE journal' = journal
    BY <1>1, <2>1 DEF RInv, RecordKept, Found, Scheduled
  <2>2. CASE Alone(p)
    BY <1>1, <2>2 DEF Alone, RecordKept, InLock
  <2> QED BY <2>1, <2>2
<1> QED BY <1>1 DEF RInv

\* A call that leaves the lock knows nothing any more.
LEMMA KeptReturn ==
  ASSUME IInv, RInv, NEW p \in Service, NEW l, l \notin InLock, NEW kept, Return(p, l, kept),
         journal' = journal \/ Alone(p)
  PROVE  RInv'
<1>1. Elsewhere(p) /\ pc'[p] = l
  BY ReturnAt
<1>2. RecordKept(p)'
  BY <1>1 DEF RecordKept, InLock
<1> QED BY <1>1, <1>2, KeptStep DEF Elsewhere

\* Going on with record j.
LEMMA KeptGoto ==
  ASSUME IInv, RInv, NEW p \in Service, NEW l, NEW j, Goto(p, l, j),
         journal' = journal \/ Alone(p),
         l \in {"enqueue", "mark", "drain", "ack", "recover"} /\ j.state = "OUTCOME_UNKNOWN"
           => Found'.attempt.cont = j.attempt.cont,
         l = "authorize" => Scheduled',
         l = "reserve" => journal'.state = "ABSENT" \/ Scheduled',
         l \in {"discard", "forget"} => ~Corrupt(journal'),
         l = "stop" => j.attempt.cont = "stop"
  PROVE  RInv'
<1>1. Elsewhere(p) /\ pc'[p] = l /\ hand'[p] = j
  BY GotoAt
<1>2. RecordKept(p)'
  BY <1>1 DEF RecordKept
<1> QED BY <1>1, <1>2, KeptStep DEF Elsewhere

\* No control point outside the lock is inside it.
LEMMA OutsidePoints ==
  /\ "down" \notin InLock /\ "idle" \notin InLock /\ "parked" \notin InLock
  /\ "dispatch" \notin InLock
BY DEF InLock

\* The writes of the journal.
LEMMA WritesKept ==
  ASSUME SoundStorage, IInv, SInv, RInv, NEW p \in Service,
         \/ WriteOutcome(p) \/ MarkEnqueued(p) \/ StopRecovery(p) \/ Reserve(p) \/ Request(p)
  PROVE  RInv'
<1> DEFINE l == IF hand[p].state = "ROTATED" THEN "replace" ELSE "enqueue"
           r == [hand[p] EXCEPT !.state = "REQUESTED"]
<1>1. pc[p] \in {"write", "mark", "stop", "reserve", "request"}
  BY DEF WriteOutcome, MarkEnqueued, StopRecovery, Reserve, Request
<1>2. Alone(p) /\ Sound(hand[p])
  BY <1>1, InLockFacts DEF InLock
<1>3. CASE Exit(p)
  BY <1>2, <1>3, KeptReturn, OutsidePoints DEF Exit
<1>4. journal' = hand[p] => Found' = hand[p]
  BY <1>2, Numbers, LoadedSame DEF Sound, Found
<1>5. CASE WriteOutcome(p)
  <2>1. \/ Exit(p)
        \/ Goto(p, l, hand[p]) /\ journal' = hand[p]
    BY <1>1, <1>5, WriteJournalSound DEF WriteOutcome, InLock
  <2>2. l \notin {"authorize", "reserve", "discard", "forget", "stop"}
    OBVIOUS
  <2> HIDE DEF l
  <2> QED BY <1>2, <1>3, <1>4, <2>1, <2>2, KeptGoto
<1>6. CASE MarkEnqueued(p)
  <2>1. \/ Exit(p)
        \/ Goto(p, "drain", hand[p]) /\ journal' = hand[p]
    BY <1>1, <1>6, WriteJournalSound DEF MarkEnqueued, InLock
  <2> QED BY <1>2, <1>3, <1>4, <2>1, KeptGoto
<1>7. CASE StopRecovery(p)
  <2>1. Exit(p) \/ Return(p, "parked", Nothing)
    BY <1>1, <1>7, WriteJournalSound DEF StopRecovery, InLock
  <2> QED BY <1>2, <1>3, <2>1, KeptReturn, OutsidePoints
<1>8. CASE Reserve(p)
  <2>1. Exit(p) \/ Goto(p, "request", r)
    BY <1>1, <1>8, WriteJournalSound DEF Reserve, InLock
  <2> HIDE DEF r
  <2> QED BY <1>2, <1>3, <2>1, KeptGoto
<1>9. CASE Request(p)
  <2>1. Exit(p) \/ Return(p, "dispatch", Nothing)
    BY <1>1, <1>9, WriteJournalSound DEF Request, InLock
  <2> QED BY <1>2, <1>3, <2>1, KeptReturn, OutsidePoints
<1> QED BY <1>5, <1>6, <1>7, <1>8, <1>9

\* Where a recorded outcome leads.
LEMMA RecordedKept ==
  ASSUME IInv, RInv, NEW p \in Service, pc[p] \in {"drain", "finish"}, Alone(p), Recorded(p),
         journal' = journal \/ hand[p].state = "ROTATED"
  PROVE  RInv'
<1>1. \/ hand[p].state = "OUTCOME_UNKNOWN" /\ Goto(p, "recover", hand[p])
      \/ Exit(p) \/ Return(p, "parked", Nothing) \/ Return(p, "idle", Nothing)
  BY DEF Recorded
<1>2. CASE hand[p].state = "OUTCOME_UNKNOWN" /\ Goto(p, "recover", hand[p])
  <2>1. journal' = journal /\ Found' = Found
    BY <1>2 DEF Found
  <2>2. pc[p] = "drain"
    BY <1>2, HandType DEF HandFits
  <2>3. Found.attempt.cont = hand[p].attempt.cont
    BY <1>2, <2>2 DEF RInv, RecordKept
  <2> QED BY <1>2, <2>1, <2>3, KeptGoto
<1> QED BY <1>1, <1>2, KeptReturn, OutsidePoints DEF Exit

\* The writes of the other files, and the deletions.
LEMMA OtherWritesKept ==
  ASSUME SoundStorage, IInv, SInv, RInv, NEW p \in Service,
         \/ Replace(p) \/ EnqueueOutcome(p) \/ ForgetJournal(p) \/ DeleteRotated(p)
         \/ Acknowledge(p)
  PROVE  RInv'
<1>1. pc[p] \in {"replace", "enqueue", "discard", "forget", "finish", "ack"}
  BY DEF Replace, EnqueueOutcome, ForgetJournal, DeleteRotated, Acknowledge
<1>2. Alone(p)
  BY <1>1, InLockFacts DEF InLock
<1>3. CASE Exit(p)
  BY <1>2, <1>3, KeptReturn, OutsidePoints DEF Exit
<1>4. RecordKept(p) /\ hand[p] \in Journal
  BY Numbers DEF RInv
<1>5. CASE Replace(p)
  <2> DEFINE l == IF hand[p].enqueued THEN "drain" ELSE "enqueue"
  <2>1. hand[p].state = "ROTATED"
    BY <1>5, HandType DEF Replace, HandFits
  <2>2. ~MayFail("unread")
    BY DEF SoundStorage, MayFail
  <2>3. PICK o \in WriteOutcomes : Ends(p, o, Goto(p, l, hand[p]))
    BY <1>5, <2>2 DEF Replace
  <2>4. Goto(p, l, hand[p]) \/ Exit(p)
    BY <2>3, WriteEnds
  <2>5. l \notin {"authorize", "reserve", "discard", "forget", "stop"}
    OBVIOUS
  <2> HIDE DEF l
  <2> QED BY <1>2, <1>3, <2>1, <2>4, <2>5, KeptGoto
<1>6. CASE EnqueueOutcome(p)
  <2> DEFINE k  == [hand[p] EXCEPT !.enqueued = TRUE]
             Ok == IF pc[p] = "discard" THEN Goto(p, "forget", hand[p]) ELSE Goto(p, "mark", k)
  <2>1. PICK o \in WriteOutcomes : Ends(p, o, Ok)
    BY <1>6 DEF EnqueueOutcome, WriteOutcomes
  <2>2. Ok \/ Exit(p)
    BY <2>1, WriteEnds
  <2>3. pc[p] \in {"enqueue", "discard"} /\ journal' = journal /\ Found' = Found
    BY <1>6 DEF EnqueueOutcome, Found
  <2>4. k.attempt = hand[p].attempt /\ k.state = hand[p].state
    BY <1>4 DEF Journal
  <2> HIDE DEF k
  <2>5. CASE pc[p] = "discard" /\ Goto(p, "forget", hand[p])
    BY <1>4, <2>3, <2>5, KeptGoto DEF RecordKept
  <2>6. CASE pc[p] = "enqueue" /\ Goto(p, "mark", k)
    BY <1>4, <2>3, <2>4, <2>6, KeptGoto DEF RecordKept
  <2> QED BY <1>3, <2>2, <2>3, <2>5, <2>6
<1>7. CASE ForgetJournal(p)
  <2> DEFINE Ok == IF call[p] = "prepare" THEN Goto(p, "drain", NoJournal)
                   ELSE Return(p, "idle", Nothing)
  <2>1. PICK o \in UnlinkOutcomes : Ends(p, o, Ok)
    BY <1>7 DEF ForgetJournal
  <2>2. Ok
    BY <2>1, UnlinkEnds
  <2>3. NoJournal.state = "ABSENT"
    BY DEF NoJournal
  <2> QED BY <1>2, <2>2, <2>3, KeptGoto, KeptReturn, OutsidePoints
<1>8. CASE DeleteRotated(p)
  <2>1. PICK o \in UnlinkOutcomes : Ends(p, o, Recorded(p))
    BY <1>8 DEF DeleteRotated
  <2>2. Recorded(p) /\ pc[p] = "finish"
    BY <1>8, <2>1, UnlinkEnds DEF DeleteRotated
  <2>3. hand[p].state = "ROTATED"
    BY <2>2, HandType DEF HandFits
  <2> QED BY <1>2, <2>2, <2>3, RecordedKept
<1>9. CASE Acknowledge(p)
  <2>1. PICK o \in WriteOutcomes : Ends(p, o, Acknowledged(p))
    BY <1>9 DEF Acknowledge, UnlinkOutcomes
  <2>2. Acknowledged(p) \/ Exit(p)
    BY <2>1, WriteEnds
  <2>3. pc[p] = "ack" /\ journal' = journal /\ Found' = Found
    BY <1>9 DEF Acknowledge, Found
  <2>4. CASE Acknowledged(p)
    <3>1. /\ hand' = hand /\ pc'[p] = "drain"
          /\ \A q \in Service : q # p => pc'[q] = pc[q] /\ hand'[q] = hand[q]
      BY <2>4, IInvParts DEF Acknowledged, Shapes
    <3>2. RecordKept(p)'
      BY <1>4, <2>3, <3>1 DEF RecordKept
    <3> QED BY <2>3, <3>1, <3>2, KeptStep
  <2> QED BY <1>3, <2>2, <2>4
<1> QED BY <1>5, <1>6, <1>7, <1>8, <1>9

\* The reconciliation of a journal that could be read.
LEMMA ReconcileKept ==
  ASSUME IInv, RInv, NEW p \in Service, journal' = journal, Readable(journal),
         Reconcile(p, Loaded(journal))
  PROVE  RInv'
<1> DEFINE l == RecoveryPoint(Found)
           k == RecoveryRecord(Found)
<1>1. Goto(p, l, k) /\ Found' = Found /\ ~Corrupt(journal) /\ Found \in Journal
  BY FoundFacts DEF Reconcile, Found, Corrupt
<1>2. l \in {"drain", "enqueue", "discard", "forget", "replace", "write"}
  BY DEF RecoveryPoint, RecordFrom
<1>3. l \in {"drain", "enqueue"} /\ k.state = "OUTCOME_UNKNOWN" => k = Found
  BY DEF RecoveryPoint, RecoveryRecord, RecordFrom, JournalOf
<1> HIDE DEF l, k
<1> QED BY <1>1, <1>2, <1>3, KeptGoto

\* Steps inside the lock that write no file.
LEMMA LockedStepsKept ==
  ASSUME IInv, SInv, RInv, NEW p \in Service,
         \/ DeliverRefused(p) \/ DeliverAccepted(p) \/ EndRecord(p)
         \/ RecoverStartupJournal(p) \/ BeginDispatch(p)
  PROVE  RInv'
<1>1. pc[p] = "drain" /\ journal' = journal /\ Found' = Found
  BY DEF DeliverRefused, DeliverAccepted, EndRecord, RecoverStartupJournal, BeginDispatch, disk,
         Found
<1>2. RecordKept(p) /\ Alone(p) /\ Facing(pc[p], call[p], hand[p])
  BY <1>1, InLockFacts DEF RInv, InLock
<1>3. CASE DeliverRefused(p) \/ DeliverAccepted(p)
  <2>1. /\ hand' = hand /\ pc'[p] \in {"drain", "ack"}
        /\ \A q \in Service : q # p => pc'[q] = pc[q] /\ hand'[q] = hand[q]
    BY <1>1, <1>3, IInvParts DEF DeliverRefused, DeliverAccepted, Shapes
  <2>2. RecordKept(p)'
    BY <1>1, <1>2, <2>1 DEF RecordKept
  <2> QED BY <1>1, <2>1, <2>2, KeptStep
<1>4. CASE EndRecord(p)
  <2>1. Goto(p, "finish", hand[p]) \/ Recorded(p)
    BY <1>4 DEF EndRecord
  <2> QED BY <1>1, <1>2, <2>1, KeptGoto, RecordedKept
<1>5. CASE RecoverStartupJournal(p)
  <2>1. Return(p, "idle", Nothing) \/ (Readable(journal) /\ Reconcile(p, Loaded(journal)))
    BY <1>5 DEF RecoverStartupJournal
  <2> QED BY <1>1, <2>1, KeptReturn, ReconcileKept, OutsidePoints
<1>6. CASE BeginDispatch(p)
  <2> DEFINE j == JournalOf("RESERVED", auth.revision, NoRevision,
                            OwnedBy(NormalAttempt(now), life[p]))
  <2>1. /\ Return(p, "idle", Nothing) \/ Goto(p, "reserve", j)
        /\ call[p] = "prepare" /\ hand[p] = NoJournal
    BY <1>6 DEF BeginDispatch
  <2>2. NoJournal.state \notin Terminal
    BY DEF NoJournal, Terminal
  <2>3. journal.state = "ABSENT"
    BY <1>1, <1>2, <2>1, <2>2 DEF Facing
  <2> HIDE DEF j
  <2> QED BY <1>1, <2>1, <2>3, KeptReturn, KeptGoto, OutsidePoints
<1> QED BY <1>3, <1>4, <1>5, <1>6

\* The steps of a recovery.
LEMMA RecoveryKept ==
  ASSUME IInv, SInv, RInv, NEW p \in Service,
         RecoverUnknown(p) \/ AuthorizeRecoveryDispatch(p)
  PROVE  RInv'
<1>1. pc[p] \in {"recover", "authorize"} /\ journal' = journal /\ Found' = Found
  BY DEF RecoverUnknown, AuthorizeRecoveryDispatch, disk, Found
<1>2. RecordKept(p) /\ Facing(pc[p], call[p], hand[p])
  BY <1>1, InLockFacts DEF RInv, InLock
<1>3. CASE RecoverUnknown(p)
  <2> DEFINE a == hand[p].attempt
             k == [hand[p] EXCEPT !.enqueued = FALSE, !.attempt = StoppedAttempt(a)]
             n == [hand[p] EXCEPT !.attempt = NextRecoveryAttempt(a)]
  <2>1. \/ Goto(p, "stop", k)
        \/ Return(p, "idle", Nothing)
        \/ a.cont \in Lanes /\ Goto(p, "authorize", n)
    BY <1>3 DEF RecoverUnknown, HasNextAttempt
  <2>2. Found.attempt.cont = a.cont /\ Found.state = "OUTCOME_UNKNOWN"
    BY <1>2, <1>3 DEF RecoverUnknown, RecordKept, Facing, Same
  <2>4. k.attempt.cont = "stop"
    BY Numbers DEF StoppedAttempt, Journal, Attempt
  <2> HIDE DEF a, k, n
  <2>3. a.cont \in Lanes => Scheduled'
    BY <1>1, <2>2 DEF Scheduled
  <2> QED BY <1>1, <2>1, <2>3, <2>4, KeptReturn, KeptGoto, OutsidePoints
<1>4. CASE AuthorizeRecoveryDispatch(p)
  <2> DEFINE j == JournalOf("RESERVED", hand[p].source, NoRevision,
                            OwnedBy(hand[p].attempt, life[p]))
  <2>1. Goto(p, "reserve", j) \/ Return(p, "down", Nothing)
    BY <1>4 DEF AuthorizeRecoveryDispatch, Exit
  <2>2. Scheduled'
    BY <1>1, <1>2, <1>4 DEF AuthorizeRecoveryDispatch, RecordKept, Scheduled
  <2> HIDE DEF j
  <2> QED BY <1>1, <2>1, <2>2, KeptReturn, KeptGoto, OutsidePoints
<1> QED BY <1>3, <1>4

\* The entries into the lock, on sound storage.
LEMMA EntryKept ==
  ASSUME SoundStorage, IInv, SInv, RInv, NEW p \in Service, Entry(p)
  PROVE  RInv'
<1>1. RecoverStartup(p) \/ Prepare(p) \/ Commit(p)
  BY NoReadFails DEF Entry
<1>2. journal' = journal
  BY <1>1 DEF RecoverStartup, Prepare, Commit, disk
<1>3. NoJournal.state = "ABSENT"
  BY DEF NoJournal
<1>4. CASE RecoverStartup(p)
  <2>1. Return(p, "idle", Nothing) \/ Goto(p, "drain", NoJournal)
    BY <1>4 DEF RecoverStartup
  <2> QED BY <1>2, <1>3, <2>1, KeptReturn, KeptGoto, OutsidePoints
<1>5. CASE Prepare(p)
  <2>1. \/ Exit(p) \/ Goto(p, "drain", NoJournal)
        \/ Readable(journal) /\ Reconcile(p, Loaded(journal))
        \/ pc' = [pc EXCEPT ![p] = "parked"] /\ hand' = hand
    BY <1>5 DEF Prepare, Readable, Corrupt
  <2>2. CASE pc' = [pc EXCEPT ![p] = "parked"] /\ hand' = hand
    <3>1. pc'[p] = "parked" /\ \A q \in Service : q # p => pc'[q] = pc[q] /\ hand'[q] = hand[q]
      BY <2>2, IInvParts DEF Shapes
    <3>2. RecordKept(p)'
      BY <3>1 DEF RecordKept
    <3> QED BY <1>2, <3>1, <3>2, KeptStep
  <2> QED BY <1>2, <1>3, <2>1, <2>2, KeptReturn, KeptGoto, ReconcileKept, OutsidePoints DEF Exit
<1>6. CASE Commit(p)
  <2>1. (\E j : Goto(p, "write", j)) \/ CommitSuperseded(p)
    BY <1>6 DEF Commit, CommitWith
  <2>2. CASE CommitSuperseded(p)
    BY <1>2, <2>2, KeptReturn, OutsidePoints DEF CommitSuperseded
  <2>3. ASSUME NEW j, Goto(p, "write", j) PROVE RInv'
    BY <1>2, <2>3, KeptGoto
  <2> QED BY <2>1, <2>2, <2>3
<1> QED BY <1>1, <1>4, <1>5, <1>6

\* Steps of a process outside the lock, and kills.
LEMMA OuterStepsKept ==
  ASSUME SoundStorage, IInv, SInv, RInv, NEW p \in Service,
         Exchange(p) \/ Start(p) \/ Schedule(p) \/ Unpark(p) \/ ReadFails(p) \/ Crash(p)
  PROVE  RInv'
<1>1. journal' = journal
  BY DEF Exchange, Post, ExchangeSucceeded, ExchangeRejected, ExchangeOutcomeUnknown, Answered,
         Start, Schedule, Unpark, ReadFails, Crash, disk
<1>2. CASE Unpark(p) \/ Crash(p)
  BY <1>1, <1>2, KeptReturn, OutsidePoints DEF Unpark, Crash, Exit
<1>3. CASE Exchange(p) \/ Start(p) \/ Schedule(p)
  <2>1. /\ pc'[p] \in {"exchange", "commit", "startup", "due"}
        /\ \A q \in Service : q # p => pc'[q] = pc[q] /\ hand'[q] = hand[q]
    BY <1>3, IInvParts DEF Exchange, Post, ExchangeSucceeded, ExchangeRejected,
       ExchangeOutcomeUnknown, Answered, Start, Schedule, Shapes
  <2>2. RecordKept(p)'
    BY <2>1 DEF RecordKept
  <2> QED BY <1>1, <2>1, <2>2, KeptStep
<1> QED BY <1>2, <1>3, NoReadFails

\* Every step, or stutter, keeps RInv.
LEMMA NextRInv ==
  ASSUME SoundStorage, IInv, SInv, RInv, [Next]_vars
  PROVE  RInv'
<1>1. ASSUME NEW p \in Service, Transaction(p) PROVE RInv'
  BY <1>1, WritesKept, OtherWritesKept, LockedStepsKept, RecoveryKept DEF Transaction
<1>2. CASE Import
  <2>1. UNCHANGED <<pc, hand>> /\ (journal' = journal \/ cli # "idle")
    BY <1>2 DEF Import, ImportCredential, ImportEnqueue, ImportForget, ImportCrash, disk, process
  <2>2. CASE journal' = journal
    BY <2>1, <2>2 DEF RInv, RecordKept, Found, Scheduled
  <2>3. CASE cli # "idle"
    BY <2>1, <2>3, ImportAlone DEF RInv, RecordKept, InLock
  <2> QED BY <2>1, <2>2, <2>3
<1>3. CASE Tick \/ UNCHANGED vars
  <2>1. UNCHANGED <<pc, hand, journal>>
    BY <1>3 DEF Tick, vars, disk, process
  <2> QED BY <2>1 DEF RInv, RecordKept, Found, Scheduled
<1> QED BY <1>1, <1>2, <1>3, EntryKept, OuterStepsKept DEF Next

\* What the demand says of the files.
Demanded ==
  \/ auth.kind = "absent"
  \/ Corrupt(journal)
  \/ /\ journal.state # "ABSENT" /\ journal.source = auth.revision
     /\ Found.state \in Terminal /\ ~Scheduled

\* The status and the probe demand an import in exactly these cases.
LEMMA DemandMeans ==
  ASSUME journal \in Journal
  PROVE  ImportDemanded <=> Demanded
<1> DEFINE x == ProjectAuth(auth, journal)
<1>1. Found.state \in Phases \cup {"ABSENT"} /\ (Found.state = "ABSENT" <=> journal.state = "ABSENT")
  BY LoadedType DEF Found, Journal
<1>2. /\ Found.state \in Phases => ProjectMatching(Found) \in Projections
      /\ Found.state \in Phases =>
           (ProjectMatching(Found) \in {"recovery_available", "exhausted", "reimport"}
              <=> Found.state \in Terminal /\ ~Scheduled)
      /\ ProjectMatching(Found) \notin {"absent", "journal_corrupt"}
  <2>1. CASE Found.state = "RESERVED"
    BY <2>1 DEF ProjectMatching, Projections, Terminal
  <2>2. CASE Found.state = "REQUESTED"
    BY <2>2 DEF ProjectMatching, Projections, Terminal
  <2>3. CASE Found.state = "ROTATED"
    BY <2>3 DEF ProjectMatching, Projections, Terminal, Scheduled
  <2>4. CASE Found.state = "OUTCOME_UNKNOWN" /\ Found.attempt.cont \in Lanes
    BY <2>4 DEF ProjectMatching, Projections, Terminal, Scheduled, Lanes
  <2>5. CASE Found.state = "OUTCOME_UNKNOWN" /\ Found.attempt.cont = "stop"
    BY <2>5 DEF ProjectMatching, Projections, Terminal, Scheduled, Lanes
  <2>6. CASE /\ Found.state \in {"REJECTED", "OUTCOME_UNKNOWN", "ABSENT"}
             /\ Found.state = "OUTCOME_UNKNOWN" => Found.attempt.cont \notin Lanes \cup {"stop"}
    BY <2>6 DEF ProjectMatching, Projections, Terminal, Scheduled, Phases
  <2> QED BY <1>1, <2>1, <2>2, <2>3, <2>4, <2>5, <2>6 DEF Phases, Terminal
<1>3. /\ x \in Projections
      /\ x \in {"recovery_available", "absent", "journal_corrupt", "exhausted", "reimport"}
           <=> Demanded
  <2>1. CASE auth.kind = "absent"
    BY <2>1 DEF ProjectAuth, Projections, Demanded
  <2>2. CASE auth.kind # "absent" /\ Corrupt(journal)
    BY <2>2 DEF ProjectAuth, ProjectLoaded, Projections, Demanded, Corrupt
  <2>3. CASE /\ auth.kind # "absent" /\ ~Corrupt(journal)
             /\ journal.state = "ABSENT" \/ journal.source # auth.revision
    BY <2>3 DEF ProjectAuth, ProjectLoaded, Projections, Demanded
  <2>4. CASE /\ auth.kind # "absent" /\ ~Corrupt(journal)
             /\ journal.state # "ABSENT" /\ journal.source = auth.revision
    <3>1. x = ProjectMatching(Found)
      BY <2>4 DEF ProjectAuth, ProjectLoaded, Found
    <3> QED BY <1>1, <1>2, <2>4, <3>1 DEF Demanded
  <2> QED BY <2>1, <2>2, <2>3, <2>4
<1> HIDE DEF x
<1>4. ImportDemanded <=> AuthStatus(x, "ok").reauth /\ ReadinessProbe(x, "ok").reauth
  BY DEF ImportDemanded, x
<1> QED BY <1>3, <1>4 DEF AuthStatus, ReadinessProbe, NetworkCredential, ReauthRequired,
        Projections

\* A journal that cannot be read is a stopped unknown outcome.
LEMMA CorruptFound ==
  ASSUME IInv, SInv, Corrupt(journal)
  PROVE  Found = journal /\ Found.state = "OUTCOME_UNKNOWN" /\ Found.attempt.cont = "stop"
<1>1. journal.state # "ABSENT" /\ journal.version = 3 /\ journal \in Journal
  BY Numbers DEF Corrupt, Readable, Journal
<1>2. Found = journal /\ Sound(journal)
  BY <1>1 DEF SInv, FilesSound, Found, Loaded
<1> QED BY <1>1, <1>2, SoundReadable

\* What the demand excludes, once there is a credential.
LEMMA NotDemanded ==
  ASSUME IInv, SInv, auth.kind # "absent",
         \/ Found.state \notin Terminal
         \/ Scheduled
         \/ ~Corrupt(journal) /\ journal.source # auth.revision
  PROVE  ~Demanded
<1>1. Corrupt(journal) => Found.state \in Terminal /\ ~Scheduled
  BY CorruptFound DEF Terminal, Scheduled, Lanes
<1> QED BY <1>1 DEF Demanded

\* The files as they are, or an unscheduled outcome of the current revision.
LEMMA DemandStays ==
  ASSUME Demanded, auth' = auth,
         \/ journal' = journal
         \/ /\ journal'.state \in Terminal /\ journal'.source = auth.revision
            /\ journal'.version = 3
            /\ journal'.state = "OUTCOME_UNKNOWN" => journal'.attempt.cont \notin Lanes
  PROVE  Demanded'
<1>1. CASE journal' = journal
  BY <1>1 DEF Demanded, Scheduled, Found
<1>2. CASE journal' # journal
  <2>1. Found' = journal'
    BY <1>2 DEF Found, Loaded
  <2> QED BY <1>2, <2>1 DEF Demanded, Scheduled, Terminal
<1> QED BY <1>1, <1>2

\* The writes of the journal do not take a demand back.
LEMMA WritesDemanded ==
  ASSUME SoundStorage, IInv, SInv, RInv, Demanded, auth' = auth, NEW p \in Service,
         \/ WriteOutcome(p) \/ MarkEnqueued(p) \/ StopRecovery(p) \/ Reserve(p) \/ Request(p)
  PROVE  posts' = posts /\ Demanded'
<1>1. /\ pc[p] \in {"write", "mark", "stop", "reserve", "request"}
      /\ posts' = posts /\ journal' \in {journal, hand[p]}
  BY DEF WriteOutcome, MarkEnqueued, StopRecovery, Reserve, Request, WriteJournal
<1>2. /\ auth.kind # "absent" /\ Facing(pc[p], call[p], hand[p]) /\ Sound(hand[p])
      /\ RecordKept(p) /\ HandFits(pc[p], hand[p])
  BY <1>1, InLockFacts, HandType DEF InLock, RInv
<1>3. pc[p] # "write"
  BY <1>2, NotDemanded DEF Facing
<1>4. pc[p] # "reserve"
  <2>1. journal.state = "ABSENT" => Found.state \notin Terminal
    BY FoundFacts DEF Terminal
  <2> QED BY <1>2, <2>1, NotDemanded DEF RecordKept
<1>5. pc[p] # "request"
  <2>1. journal.state = "RESERVED" => Found.state \notin Terminal
    BY Numbers DEF Found, Loaded, Terminal, Journal
  <2> QED BY <1>2, <2>1, NotDemanded DEF Facing
<1>6. CASE pc[p] = "mark"
  <2>1. Same(hand[p]) /\ Placed(hand[p]) /\ hand[p].state \in Terminal /\ hand[p].version = 3
    BY <1>2, <1>6 DEF Facing, HandFits, Sound
  <2>2. hand[p].state # "ROTATED"
    <3>1. SUFFICES ASSUME hand[p].state = "ROTATED" PROVE FALSE
      OBVIOUS
    <3>2. ~Corrupt(journal) /\ journal.source # auth.revision
      BY <2>1, <3>1, CorruptFound, FoundFacts, Numbers DEF Same, Placed
    <3> QED BY <1>2, <3>2, NotDemanded
  <2>3. hand[p].source = auth.revision
    BY <2>1, <2>2 DEF Placed
  <2>4. hand[p].state = "OUTCOME_UNKNOWN" => hand[p].attempt.cont \notin Lanes
    <3>1. ~Scheduled
      BY <1>2, NotDemanded
    <3> QED BY <1>2, <1>6, <2>1, <3>1 DEF RecordKept, Same, Scheduled
  <2> QED BY <1>1, <2>1, <2>3, <2>4, DemandStays
<1>7. CASE pc[p] = "stop"
  <2>1. /\ hand[p].state = "OUTCOME_UNKNOWN" /\ hand[p].source = auth.revision
        /\ hand[p].version = 3 /\ hand[p].attempt.cont = "stop"
    BY <1>2, <1>7 DEF Facing, Sound, RecordKept
  <2> QED BY <1>1, <2>1, DemandStays DEF Terminal, Lanes
<1> QED BY <1>1, <1>3, <1>4, <1>5, <1>6, <1>7

\* Neither do the deletions: what they delete demands nothing.
LEMMA DeletionsDemanded ==
  ASSUME IInv, SInv, RInv, Demanded, NEW p \in Service
  PROVE  ~ForgetJournal(p) /\ ~DeleteRotated(p)
<1>1. ASSUME pc[p] \in {"forget", "finish"} PROVE FALSE
  <2>1. auth.kind # "absent" /\ Facing(pc[p], call[p], hand[p]) /\ RecordKept(p)
        /\ HandFits(pc[p], hand[p])
    BY <1>1, InLockFacts, HandType DEF InLock, RInv
  <2>2. CASE pc[p] = "forget"
    <3>1. journal.state = "RESERVED" => Found.state \notin Terminal
      BY Numbers DEF Found, Loaded, Terminal, Journal
    <3> QED BY <2>1, <2>2, <3>1, NotDemanded DEF Facing, RecordKept
  <2>3. CASE pc[p] = "finish"
    <3>1. Found.state = "ROTATED" /\ Found.source < auth.revision
      BY <2>1, <2>3 DEF Facing, HandFits, Same, Placed
    <3>2. ~Corrupt(journal) /\ journal.source # auth.revision
      BY <3>1, CorruptFound, FoundFacts, Numbers
    <3> QED BY <2>1, <3>2, NotDemanded
  <2> QED BY <1>1, <2>2, <2>3
<1> QED BY <1>1 DEF ForgetJournal, DeleteRotated

\* A credential that is written is another one, with a later revision.
LEMMA ReplacedIsOther ==
  ASSUME SoundStorage, IInv, NEW p \in Service, Replace(p), auth' = auth
  PROVE  posts' = posts /\ journal' = journal
<1>1. /\ pc[p] = "replace" /\ hand[p].state = "ROTATED" /\ Created(hand[p])
      /\ hand[p] \in Journal
  BY HandType, IInvParts, Numbers DEF Replace, HandFits, ProcessOK
<1>2. hand[p].source < hand[p].succ /\ hand[p].source \in Nat /\ hand[p].succ \in Nat
  BY <1>1 DEF Created, Journal
<1>3. ~MayFail("unread")
  BY DEF SoundStorage, MayFail
<1>4. PICK o \in WriteOutcomes :
        /\ auth.revision = hand[p].source
        /\ auth' = IF Visible(o) THEN [revision |-> hand[p].succ, kind |-> "cookie"] ELSE auth
        /\ posts' = IF Visible(o) THEN 0 ELSE posts
        /\ journal' = journal
  BY <1>3 DEF Replace
<1>5. ~Visible(o)
  BY <1>2, <1>4
<1> QED BY <1>4, <1>5

\* So is an imported one.
LEMMA ImportedIsOther ==
  ASSUME SoundStorage, IInv, ImportCredential, auth' = auth
  PROVE  posts' = posts /\ journal' = journal
<1>1. auth.revision < nextRevision /\ auth.revision \in Nat /\ nextRevision \in Nat
  BY Numbers DEF IInv, RevisionsCreated
<1>2. PICK kind \in ImportKinds : \E o \in WriteOutcomes :
        /\ auth' = IF Visible(o) THEN [revision |-> nextRevision, kind |-> kind] ELSE auth
        /\ posts' = IF Visible(o) THEN 0 ELSE posts
  BY DEF ImportCredential, SoundStorage, MayFail
<1>3. PICK o \in WriteOutcomes :
        /\ auth' = IF Visible(o) THEN [revision |-> nextRevision, kind |-> kind] ELSE auth
        /\ posts' = IF Visible(o) THEN 0 ELSE posts
  BY <1>2
<1>4. ~Visible(o)
  BY <1>1, <1>3
<1> QED BY <1>3, <1>4 DEF ImportCredential

\* A POST of the current revision has its request in the journal.
LEMMA PostDemandsNothing ==
  ASSUME IInv, SInv, Demanded, NEW p \in Service, Post(p)
  PROVE  posts' = posts
<1>1. pc[p] = "dispatch" /\ posts' = (IF auth.revision = rev[p] THEN posts + 1 ELSE posts)
  BY DEF Post
<1>2. SUFFICES ASSUME auth.revision = rev[p] PROVE FALSE
  BY <1>1
<1>3. auth.kind # "absent" /\ journal.version = 3 /\ journal.state = "REQUESTED"
  BY <1>1, <1>2 DEF SInv, ProcessSound, Dispatched
<1>4. Found.state \notin Terminal
  BY <1>3 DEF Found, Loaded, Terminal
<1> QED BY <1>3, <1>4, NotDemanded

\* One step: nothing is POSTed for the credential, and the demand stays.
LEMMA DemandStep ==
  ASSUME SoundStorage, IInv, SInv, RInv, [Next]_vars, Demanded, cli = "idle", auth' = auth
  PROVE  posts' = posts /\ Demanded'
<1>1. ASSUME posts' = posts, journal' = journal PROVE posts' = posts /\ Demanded'
  BY <1>1, DemandStays
<1>2. ASSUME NEW p \in Service, Transaction(p) PROVE posts' = posts /\ Demanded'
  <2>1. CASE WriteOutcome(p) \/ MarkEnqueued(p) \/ StopRecovery(p) \/ Reserve(p) \/ Request(p)
    BY <2>1, WritesDemanded
  <2>2. CASE Replace(p)
    BY <1>1, <2>2, ReplacedIsOther
  <2>3. CASE \/ EnqueueOutcome(p) \/ DeliverRefused(p) \/ DeliverAccepted(p) \/ Acknowledge(p)
             \/ EndRecord(p) \/ RecoverStartupJournal(p) \/ BeginDispatch(p)
             \/ RecoverUnknown(p) \/ AuthorizeRecoveryDispatch(p)
    <3>1. posts' = posts /\ journal' = journal
      BY <2>3 DEF EnqueueOutcome, DeliverRefused, DeliverAccepted, Acknowledge, EndRecord,
         RecoverStartupJournal, BeginDispatch, RecoverUnknown, AuthorizeRecoveryDispatch, disk,
         history
    <3> QED BY <1>1, <3>1
  <2> QED BY <1>2, <2>1, <2>2, <2>3, DeletionsDemanded DEF Transaction
<1>3. ASSUME NEW p \in Service, Entry(p) PROVE posts' = posts /\ Demanded'
  BY <1>1, <1>3 DEF Entry, RecoverStartup, Prepare, Commit, CommitUnread, ProjectRetained,
                    ProjectUnread, LockFails, disk, history
<1>4. ASSUME NEW p \in Service, Exchange(p) PROVE posts' = posts /\ Demanded'
  <2>1. journal' = journal
    BY <1>4 DEF Exchange, Post, ExchangeSucceeded, ExchangeRejected, ExchangeOutcomeUnknown,
                Answered, disk
  <2>2. posts' = posts
    BY <1>4, PostDemandsNothing
       DEF Exchange, ExchangeSucceeded, ExchangeRejected, ExchangeOutcomeUnknown, Answered
  <2> QED BY <1>1, <2>1, <2>2
<1>5. ASSUME NEW p \in Service,
             Start(p) \/ Schedule(p) \/ Unpark(p) \/ ReadFails(p) \/ Crash(p)
      PROVE  posts' = posts /\ Demanded'
  BY <1>1, <1>5 DEF Start, Schedule, Unpark, ReadFails, Crash, disk, history
<1>6. CASE Import
  <2>1. ImportCredential
    BY <1>6 DEF Import, ImportEnqueue, ImportForget, ImportCrash
  <2> QED BY <1>1, <2>1, ImportedIsOther
<1>7. CASE Tick \/ UNCHANGED vars
  BY <1>1, <1>7 DEF Tick, vars, disk, history
<1> QED BY <1>2, <1>3, <1>4, <1>5, <1>6, <1>7 DEF Next

\* A demand to import again is final: until an import writes a new revision, no
\* process POSTs the credential, changes it or takes the demand back, but for the
\* adoption of the successor that a ROTATED journal names for it.
THEOREM DemandsAreFinal ==
  ASSUME SoundStorage
  PROVE  Spec => ReauthFinal
<1> DEFINE Final == \/ auth'.revision = nextRevision
                    \/ SuccessorAdopted
                    \/ auth' = auth /\ posts' = posts /\ ImportDemanded'
<1>1. Init => RInv
  BY DEF Init, RInv, RecordKept
<1>2. IInv /\ SInv /\ RInv /\ [Next]_vars => RInv'
  BY NextRInv
<1>3. Spec => []RInv
  BY <1>1, <1>2, InductiveInvariant, SoundStorageInvariant, PTL DEF Spec
<1>4. IInv => (ImportDemanded <=> Demanded)
  BY Numbers, DemandMeans
<1>5. IInv /\ SInv /\ RInv /\ [Next]_vars =>
        (Demanded /\ cli = "idle" /\ auth' = auth => posts' = posts /\ Demanded')
  BY DemandStep
<1>6. IInv /\ IInv' /\ SInv /\ RInv /\ [Next]_vars =>
        (ImportDemanded /\ cli = "idle" /\ auth' = auth => posts' = posts /\ ImportDemanded')
  BY <1>4, <1>5, PTL
<1>7. IInv /\ [Next]_vars /\ auth' # auth => auth'.revision = nextRevision \/ SuccessorAdopted
  BY StepOfCredential DEF SuccessorAdopted
<1>8. IInv /\ IInv' /\ SInv /\ RInv /\ [Next]_vars => [ImportDemanded /\ cli = "idle" => Final]_vars
  BY <1>6, <1>7
<1> QED BY <1>3, <1>8, InductiveInvariant, SoundStorageInvariant, PTL DEF Spec, ReauthFinal
====
