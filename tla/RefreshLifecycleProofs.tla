----------------------- MODULE RefreshLifecycleProofs -----------------------
(***************************************************************************)
(* Cookie rotation implements CredentialLifecycle.                         *)
(*                                                                         *)
(* The refinement mapping gives the abstract specification the credential  *)
(* file, the successors the system still knows (in the journal, in a       *)
(* record a call holds, or retained) and the source of revisions.  Every   *)
(* step but an answered exchange only forgets successors.                  *)
(***************************************************************************)
EXTENDS RefreshCoordinatorProofs

-----------------------------------------------------------------------------
(* The known successors.                                                    *)

\* Where a known successor is.
LEMMA KnownWhere ==
  ASSUME NEW s
  PROVE  s \in KnownSuccessors <=>
           \/ s \in RotationsIn(journal)
           \/ \E p \in Service : s \in RotationsIn(hand[p])
           \/ \E p \in Service : s = retained[p] /\ s # Nothing
<1> DEFINE A == UNION {RotationsIn(hand[p]) : p \in Service}
           B == {retained[p] : p \in Service} \ {Nothing}
<1>1. s \in A <=> \E p \in Service : s \in RotationsIn(hand[p])
  BY Zenon
<1>2. s \in B <=> \E p \in Service : s = retained[p] /\ s # Nothing
  BY Zenon
<1>3. KnownSuccessors = RotationsIn(journal) \cup A \cup B
  BY DEF KnownSuccessors
<1> HIDE DEF A, B
<1> QED BY <1>1, <1>2, <1>3

\* Where it is in the next state.
LEMMA KnownWhereNext ==
  ASSUME NEW s \in KnownSuccessors'
  PROVE  \/ s \in RotationsIn(journal')
         \/ \E p \in Service : s \in RotationsIn(hand'[p])
         \/ \E p \in Service : s = retained'[p] /\ s # Nothing
<1> DEFINE A == UNION {RotationsIn(hand'[p]) : p \in Service}
           B == {retained'[p] : p \in Service} \ {Nothing}
<1>1. s \in A <=> \E p \in Service : s \in RotationsIn(hand'[p])
  BY Zenon
<1>2. s \in B <=> \E p \in Service : s = retained'[p] /\ s # Nothing
  BY Zenon
<1>3. KnownSuccessors' = RotationsIn(journal') \cup A \cup B
  BY DEF KnownSuccessors, RotationsIn, Nothing
<1> HIDE DEF A, B
<1> QED BY <1>1, <1>2, <1>3

\* Known successors exist and are newer than their sources.
LEMMA KnownAreNewer ==
  ASSUME IInv, NEW s \in KnownSuccessors
  PROVE  s \in Successor /\ s.source < s.succ /\ s.succ < nextRevision
<1>1. ASSUME NEW j \in Journal, Created(j), s \in RotationsIn(j)
      PROVE  s \in Successor /\ s.source < s.succ /\ s.succ < nextRevision
  BY <1>1 DEF RotationsIn, Created, Journal, Successor
<1>2. CASE s \in RotationsIn(journal)
  BY <1>1, <1>2, IInvParts DEF FilesOK
<1>3. ASSUME NEW p \in Service, s \in RotationsIn(hand[p])
      PROVE  s \in Successor /\ s.source < s.succ /\ s.succ < nextRevision
  BY <1>1, <1>3, HandType
<1>4. ASSUME NEW p \in Service, s = retained[p], s # Nothing
      PROVE  s \in Successor /\ s.source < s.succ /\ s.succ < nextRevision
  BY <1>4, IInvParts DEF Shapes, ProcessOK, Pending
<1> QED BY <1>2, <1>3, <1>4, KnownWhere

\* A step of process p that puts only known successors anywhere.
LEMMA MoveForgets ==
  ASSUME NEW p \in Service,
         RotationsIn(journal') \subseteq KnownSuccessors,
         RotationsIn(hand'[p]) \subseteq KnownSuccessors,
         retained'[p] \in KnownSuccessors \cup {Nothing},
         \A q \in Service : q # p => hand'[q] = hand[q] /\ retained'[q] = retained[q]
  PROVE  KnownSuccessors' \subseteq KnownSuccessors
<1> SUFFICES ASSUME NEW s \in KnownSuccessors' PROVE s \in KnownSuccessors
  OBVIOUS
<1>1. ASSUME NEW q \in Service, s \in RotationsIn(hand'[q]) PROVE s \in KnownSuccessors
  BY <1>1, KnownWhere
<1>2. ASSUME NEW q \in Service, s = retained'[q], s # Nothing PROVE s \in KnownSuccessors
  BY <1>2, KnownWhere
<1> QED BY <1>1, <1>2, KnownWhereNext

\* What a process holds is known.
LEMMA HeldIsKnown ==
  ASSUME NEW p \in Service
  PROVE  /\ RotationsIn(journal) \subseteq KnownSuccessors
         /\ RotationsIn(hand[p]) \subseteq KnownSuccessors
         /\ retained[p] \in KnownSuccessors \cup {Nothing}
         /\ RotationsIn(NoJournal) = {}
BY KnownWhere DEF RotationsIn, NoJournal

\* Leaving a call adds no successor besides the one retained.
LEMMA ReturnForgets ==
  ASSUME IInv, NEW p \in Service, NEW l, NEW kept \in KnownSuccessors \cup {Nothing},
         Return(p, l, kept), RotationsIn(journal') \subseteq KnownSuccessors
  PROVE  KnownSuccessors' \subseteq KnownSuccessors
<1>1. /\ hand'[p] = NoJournal /\ retained'[p] = kept
      /\ \A q \in Service : q # p => hand'[q] = hand[q] /\ retained'[q] = retained[q]
  BY IInvParts DEF Return, Shapes
<1>2. RotationsIn(hand'[p]) \subseteq KnownSuccessors
  BY <1>1, HeldIsKnown
<1> QED BY <1>1, <1>2, MoveForgets

\* Going on with a record adds no successor besides that record's.
LEMMA GotoForgets ==
  ASSUME IInv, NEW p \in Service, NEW l, NEW j, Goto(p, l, j),
         RotationsIn(j) \subseteq KnownSuccessors,
         RotationsIn(journal') \subseteq KnownSuccessors
  PROVE  KnownSuccessors' \subseteq KnownSuccessors
<1>1. /\ hand'[p] = j /\ retained'[p] = retained[p]
      /\ \A q \in Service : q # p => hand'[q] = hand[q] /\ retained'[q] = retained[q]
  BY IInvParts DEF Goto, Shapes
<1>2. RotationsIn(hand'[p]) \subseteq KnownSuccessors
  BY <1>1
<1> QED BY <1>1, <1>2, HeldIsKnown, MoveForgets

\* An OSError keeps at most the successor already in the call.
LEMMA RaiseForgets ==
  ASSUME IInv, NEW p \in Service, Raise(p), RotationsIn(journal') \subseteq KnownSuccessors
  PROVE  KnownSuccessors' \subseteq KnownSuccessors
<1> DEFINE s == [source |-> hand[p].source, succ |-> hand[p].succ]
<1>1. call[p] = "success" => s \in RotationsIn(hand[p])
  BY HandType DEF CallFits, RotationsIn
<1>2. call[p] = "success" => s \in KnownSuccessors
  BY <1>1, HeldIsKnown
<1> HIDE DEF s
<1>3. Return(p, AfterOSError(call[p]), IF call[p] = "success" THEN s ELSE retained[p])
  BY DEF Raise, s
<1> QED BY <1>2, <1>3, HeldIsKnown, ReturnForgets

\* However a durable write ends, it adds no successor.
LEMMA EndsForgets ==
  ASSUME IInv, NEW p \in Service, NEW o, NEW ACTION Ok, Ends(p, o, Ok),
         RotationsIn(journal') \subseteq KnownSuccessors,
         Ok => KnownSuccessors' \subseteq KnownSuccessors
  PROVE  KnownSuccessors' \subseteq KnownSuccessors
<1>1. CASE Raise(p)
  BY <1>1, RaiseForgets
<1>2. CASE Exit(p)
  BY <1>2, ReturnForgets DEF Exit
<1> QED BY <1>1, <1>2 DEF Ends

\* A journal write only repeats the successor the call has in memory.
LEMMA WriteForgets ==
  ASSUME IInv, NEW p \in Service, NEW ACTION Ok, WriteJournal(p, Ok),
         Ok /\ RotationsIn(journal') \subseteq KnownSuccessors
            => KnownSuccessors' \subseteq KnownSuccessors
  PROVE  KnownSuccessors' \subseteq KnownSuccessors
<1>1. PICK o : journal' \in {journal, hand[p]} /\ Ends(p, o, Ok)
  BY DEF WriteJournal
<1>2. RotationsIn(journal') \subseteq KnownSuccessors
  BY <1>1, HeldIsKnown
<1> QED BY <1>1, <1>2, EndsForgets

\* A record that differs in nothing but its budget and mark names the same rotation.
LEMMA SameRotations ==
  ASSUME NEW j, NEW k, k.state = j.state, k.source = j.source, k.succ = j.succ
  PROVE  RotationsIn(k) = RotationsIn(j)
BY DEF RotationsIn

-----------------------------------------------------------------------------
(* Every step but an answered exchange only forgets successors.             *)

\* A step that leaves the journal alone, or deletes it.
LEMMA JournalForgets ==
  ASSUME journal' \in {journal, NoJournal}
  PROVE  RotationsIn(journal') \subseteq KnownSuccessors
BY KnownWhere DEF RotationsIn, NoJournal

\* The end of a recorded outcome adds no successor.
LEMMA RecordedForgets ==
  ASSUME IInv, NEW p \in Service, Recorded(p), RotationsIn(journal') \subseteq KnownSuccessors
  PROVE  KnownSuccessors' \subseteq KnownSuccessors
<1>1. \/ Return(p, "down", Nothing)
      \/ Goto(p, "recover", hand[p])
      \/ Return(p, "parked", Nothing)
      \/ Return(p, "idle", Nothing)
  BY DEF Recorded, Exit
<1> QED BY <1>1, HeldIsKnown, ReturnForgets, GotoForgets

\* Recording, delivery and deletion.
LEMMA RecordingForgets ==
  ASSUME IInv, NEW p \in Service,
         \/ WriteOutcome(p) \/ Replace(p) \/ EnqueueOutcome(p) \/ MarkEnqueued(p)
         \/ ForgetJournal(p) \/ DeliverRefused(p) \/ DeliverAccepted(p) \/ Acknowledge(p)
         \/ EndRecord(p) \/ DeleteRotated(p)
  PROVE  KnownSuccessors' \subseteq KnownSuccessors
<1>1. CASE WriteOutcome(p)
  <2> DEFINE l == IF hand[p].state = "ROTATED" THEN "replace" ELSE "enqueue"
  <2>1. WriteJournal(p, Goto(p, l, hand[p]))
    BY <1>1 DEF WriteOutcome
  <2> HIDE DEF l
  <2> QED BY <2>1, HeldIsKnown, GotoForgets, WriteForgets
<1>2. CASE Replace(p)
  <2> DEFINE l == IF hand[p].enqueued THEN "drain" ELSE "enqueue"
  <2>1. \/ UNCHANGED disk /\ Return(p, "idle", Nothing)
        \/ UNCHANGED journal /\ \E o : Ends(p, o, Goto(p, l, hand[p]))
    BY <1>2 DEF Replace
  <2> HIDE DEF l
  <2>2. RotationsIn(journal') \subseteq KnownSuccessors
    BY <2>1, JournalForgets DEF disk
  <2> QED BY <2>1, <2>2, HeldIsKnown, GotoForgets, ReturnForgets, EndsForgets
<1>3. CASE EnqueueOutcome(p)
  <2> DEFINE marked == [hand[p] EXCEPT !.enqueued = TRUE]
             Ok == IF pc[p] = "discard" THEN Goto(p, "forget", hand[p])
                                        ELSE Goto(p, "mark", marked)
  <2>1. PICK o : UNCHANGED journal /\ Ends(p, o, Ok)
    BY <1>3 DEF EnqueueOutcome
  <2>2. RotationsIn(journal') \subseteq KnownSuccessors
    BY <2>1, JournalForgets
  <2>3. marked.state = hand[p].state /\ marked.source = hand[p].source
        /\ marked.succ = hand[p].succ
    BY HandType DEF Journal
  <2> HIDE DEF marked
  <2>4. RotationsIn(marked) \subseteq KnownSuccessors
    BY <2>3, SameRotations, HeldIsKnown
  <2>5. ASSUME Ok PROVE KnownSuccessors' \subseteq KnownSuccessors
    BY <2>2, <2>4, <2>5, HeldIsKnown, GotoForgets
  <2> QED BY <2>1, <2>2, <2>5, EndsForgets
<1>4. CASE MarkEnqueued(p)
  <2>1. WriteJournal(p, Goto(p, "drain", hand[p]))
    BY <1>4 DEF MarkEnqueued
  <2> QED BY <2>1, HeldIsKnown, GotoForgets, WriteForgets
<1>5. CASE ForgetJournal(p)
  <2> DEFINE Ok == IF call[p] = "prepare" THEN Goto(p, "drain", NoJournal)
                                          ELSE Return(p, "idle", Nothing)
  <2>1. PICK o : journal' \in {journal, NoJournal} /\ Ends(p, o, Ok)
    BY <1>5 DEF ForgetJournal
  <2>2. RotationsIn(journal') \subseteq KnownSuccessors
    BY <2>1, JournalForgets
  <2>3. ASSUME Ok PROVE KnownSuccessors' \subseteq KnownSuccessors
    BY <2>2, <2>3, HeldIsKnown, GotoForgets, ReturnForgets
  <2> QED BY <2>1, <2>2, <2>3, EndsForgets
<1>6. CASE DeliverRefused(p) \/ DeliverAccepted(p)
  <2>1. UNCHANGED <<journal, hand, retained>>
    BY <1>6 DEF DeliverRefused, DeliverAccepted, disk
  <2> QED BY <2>1 DEF KnownSuccessors, RotationsIn
<1>7. CASE Acknowledge(p)
  <2>1. PICK o : UNCHANGED journal /\ Ends(p, o, Acknowledged(p))
    BY <1>7 DEF Acknowledge
  <2>2. RotationsIn(journal') \subseteq KnownSuccessors
    BY <2>1, JournalForgets
  <2>3. ASSUME Acknowledged(p) PROVE KnownSuccessors' \subseteq KnownSuccessors
    BY <2>1, <2>3 DEF Acknowledged, KnownSuccessors, RotationsIn
  <2> QED BY <2>1, <2>2, <2>3, EndsForgets
<1>8. CASE EndRecord(p)
  <2>1. UNCHANGED journal /\ (Goto(p, "finish", hand[p]) \/ Recorded(p))
    BY <1>8 DEF EndRecord, disk
  <2>2. RotationsIn(journal') \subseteq KnownSuccessors
    BY <2>1, JournalForgets
  <2> QED BY <2>1, <2>2, HeldIsKnown, GotoForgets, RecordedForgets
<1>9. CASE DeleteRotated(p)
  <2>1. PICK o : journal' \in {journal, NoJournal} /\ Ends(p, o, Recorded(p))
    BY <1>9 DEF DeleteRotated
  <2>2. RotationsIn(journal') \subseteq KnownSuccessors
    BY <2>1, JournalForgets
  <2> QED BY <2>1, <2>2, RecordedForgets, EndsForgets
<1> QED BY <1>1, <1>2, <1>3, <1>4, <1>5, <1>6, <1>7, <1>8, <1>9

\* The record a reconciliation goes on with names a rotation the journal names.
LEMMA ReconcileForgets ==
  ASSUME IInv, NEW p \in Service, UNCHANGED journal, Reconcile(p, Loaded(journal))
  PROVE  KnownSuccessors' \subseteq KnownSuccessors
<1> DEFINE j == Loaded(journal)
<1>1. RotationsIn(j) \subseteq RotationsIn(journal)
  BY LoadedFits DEF RotationsIn
<1>2. RotationsIn(RecoveryRecord(j)) \subseteq RotationsIn(j)
  BY DEF RecoveryRecord, RotationsIn, JournalOf
<1>3. RotationsIn(RecoveryRecord(j)) \subseteq KnownSuccessors
  BY <1>1, <1>2, HeldIsKnown
<1>4. RotationsIn(journal') \subseteq KnownSuccessors
  BY JournalForgets
<1> HIDE DEF j
<1>5. Goto(p, RecoveryPoint(j), RecoveryRecord(j))
  BY DEF Reconcile, j
<1> QED BY <1>3, <1>4, <1>5, GotoForgets

\* Reconciliation and the preparation of a dispatch.
LEMMA PreparationForgets ==
  ASSUME IInv, NEW p \in Service,
         \/ RecoverStartupJournal(p) \/ BeginDispatch(p) \/ RecoverUnknown(p)
         \/ AuthorizeRecoveryDispatch(p) \/ StopRecovery(p) \/ Reserve(p) \/ Request(p)
  PROVE  KnownSuccessors' \subseteq KnownSuccessors
<1>1. CASE RecoverStartupJournal(p)
  <2>1. UNCHANGED journal /\ (Return(p, "idle", Nothing) \/ Reconcile(p, Loaded(journal)))
    BY <1>1 DEF RecoverStartupJournal, disk
  <2> QED BY <2>1, JournalForgets, ReconcileForgets, ReturnForgets
<1>2. CASE BeginDispatch(p)
  <2> DEFINE j == JournalOf("RESERVED", auth.revision, NoRevision,
                            OwnedBy(NormalAttempt(now), life[p]))
  <2>1. RotationsIn(j) = {}
    BY DEF RotationsIn, JournalOf
  <2>2. UNCHANGED journal /\ (Return(p, "idle", Nothing) \/ Goto(p, "reserve", j))
    BY <1>2 DEF BeginDispatch, disk
  <2> HIDE DEF j
  <2> QED BY <2>1, <2>2, JournalForgets, ReturnForgets, GotoForgets
<1>3. CASE RecoverUnknown(p)
  <2> DEFINE a == hand[p].attempt
             stopped == [hand[p] EXCEPT !.enqueued = FALSE, !.attempt = StoppedAttempt(a)]
             next == [hand[p] EXCEPT !.attempt = NextRecoveryAttempt(a)]
  <2>1. /\ UNCHANGED journal
        /\ \/ Goto(p, "stop", stopped)
           \/ Return(p, "idle", Nothing)
           \/ Goto(p, "authorize", next)
    BY <1>3 DEF RecoverUnknown, disk
  <2>2. /\ stopped.state = hand[p].state /\ stopped.source = hand[p].source
        /\ stopped.succ = hand[p].succ
        /\ next.state = hand[p].state /\ next.source = hand[p].source
        /\ next.succ = hand[p].succ
    BY HandType DEF Journal
  <2> HIDE DEF stopped, next
  <2>3. /\ RotationsIn(stopped) \subseteq KnownSuccessors
        /\ RotationsIn(next) \subseteq KnownSuccessors
    BY <2>2, SameRotations, HeldIsKnown
  <2> QED BY <2>1, <2>3, JournalForgets, ReturnForgets, GotoForgets
<1>4. CASE AuthorizeRecoveryDispatch(p)
  <2> DEFINE j == JournalOf("RESERVED", hand[p].source, NoRevision,
                            OwnedBy(hand[p].attempt, life[p]))
  <2>1. RotationsIn(j) = {}
    BY DEF RotationsIn, JournalOf
  <2>2. UNCHANGED journal /\ (Return(p, "down", Nothing) \/ Goto(p, "reserve", j))
    BY <1>4 DEF AuthorizeRecoveryDispatch, Exit, disk
  <2> HIDE DEF j
  <2> QED BY <2>1, <2>2, JournalForgets, ReturnForgets, GotoForgets
<1>5. CASE StopRecovery(p)
  <2>1. WriteJournal(p, Return(p, "parked", Nothing))
    BY <1>5 DEF StopRecovery
  <2> QED BY <2>1, ReturnForgets, WriteForgets
<1>6. CASE Reserve(p)
  <2> DEFINE j == [hand[p] EXCEPT !.state = "REQUESTED"]
  <2>1. RotationsIn(j) = {}
    BY HandType DEF RotationsIn, Journal
  <2>2. WriteJournal(p, Goto(p, "request", j))
    BY <1>6 DEF Reserve
  <2> HIDE DEF j
  <2> QED BY <2>1, <2>2, GotoForgets, WriteForgets
<1>7. CASE Request(p)
  <2>1. WriteJournal(p, Return(p, "dispatch", Nothing))
    BY <1>7 DEF Request
  <2> QED BY <2>1, ReturnForgets, WriteForgets
<1> QED BY <1>1, <1>2, <1>3, <1>4, <1>5, <1>6, <1>7

\* A commit journals the rotation the exchange was answered with.
LEMMA CommitWithForgets ==
  ASSUME IInv, NEW p \in Service, NEW a, UNCHANGED journal, CommitWith(p, a)
  PROVE  KnownSuccessors' \subseteq KnownSuccessors
<1> DEFINE b == IF hand[p].state = "OUTCOME_UNKNOWN"
                THEN WithContinuation(a, hand[p].attempt.cont, now)
                ELSE WithoutOwner(a)
           j == [hand[p] EXCEPT !.attempt = b]
<1>1. Goto(p, "write", j)
  BY DEF CommitWith
<1> HIDE DEF b
<1>2. j.state = hand[p].state /\ j.source = hand[p].source /\ j.succ = hand[p].succ
  BY HandType DEF Journal
<1> HIDE DEF j
<1>3. RotationsIn(j) \subseteq KnownSuccessors
  BY <1>2, SameRotations, HeldIsKnown
<1> QED BY <1>1, <1>3, JournalForgets, GotoForgets

\* Entries into the lock.
LEMMA EntryForgets ==
  ASSUME IInv, NEW p \in Service, Entry(p)
  PROVE  KnownSuccessors' \subseteq KnownSuccessors
<1>0. UNCHANGED journal /\ RotationsIn(journal') \subseteq KnownSuccessors
  <2>1. UNCHANGED journal
    BY DEF Entry, RecoverStartup, Prepare, Commit, CommitUnread, ProjectRetained,
           ProjectUnread, LockFails, disk
  <2> QED BY <2>1, JournalForgets
<1>1. CASE RecoverStartup(p)
  <2>1. Return(p, "idle", Nothing) \/ Goto(p, "drain", NoJournal)
    BY <1>1 DEF RecoverStartup
  <2> QED BY <1>0, <2>1, HeldIsKnown, ReturnForgets, GotoForgets
<1>2. CASE Prepare(p)
  <2>1. \/ Return(p, "down", Nothing)
        \/ Goto(p, "drain", NoJournal)
        \/ UNCHANGED <<hand, retained>>
        \/ Reconcile(p, Loaded(journal))
    BY <1>2 DEF Prepare, Exit, Readable, Corrupt
  <2>2. CASE UNCHANGED <<hand, retained>>
    BY <1>0, <2>2 DEF KnownSuccessors, RotationsIn
  <2> QED BY <1>0, <2>1, <2>2, HeldIsKnown, ReturnForgets, GotoForgets, ReconcileForgets
<1>3. CASE Commit(p) \/ CommitUnread(p)
  <2>1. \/ \E a : CommitWith(p, a)
        \/ \E l : Return(p, l, Nothing)
    BY <1>3 DEF Commit, CommitUnread, CommitSuperseded
  <2> QED BY <1>0, <2>1, ReturnForgets, CommitWithForgets
<1>4. CASE ProjectRetained(p)
  <2> DEFINE r == retained[p]
             j == JournalOf("ROTATED", r.source, r.succ, WithoutOwner(AttemptForSource(r.source)))
  <2>1. CASE Return(p, "idle", Nothing)
    BY <1>0, <2>1, ReturnForgets
  <2>2. CASE hand' = [hand EXCEPT ![p] = j] /\ UNCHANGED retained
    <3>1. r \in Successor /\ r # Nothing
      BY <1>4, IInvParts DEF Shapes, ProjectRetained
    <3>2. RotationsIn(j) = {[source |-> r.source, succ |-> r.succ]}
      BY DEF RotationsIn, JournalOf
    <3>3. r = [source |-> r.source, succ |-> r.succ]
      BY <3>1 DEF Successor
    <3>4. hand'[p] = j /\ \A q \in Service : q # p => hand'[q] = hand[q]
      BY <2>2, IInvParts DEF Shapes
    <3> HIDE DEF j
    <3>5. RotationsIn(hand'[p]) \subseteq KnownSuccessors
      BY <3>1, <3>2, <3>3, <3>4, HeldIsKnown
    <3> QED BY <1>0, <2>2, <3>4, <3>5, HeldIsKnown, MoveForgets
  <2> QED BY <1>4, <2>1, <2>2 DEF ProjectRetained
<1>5. CASE ProjectUnread(p)
  BY <1>0, <1>5, ReturnForgets DEF ProjectUnread
<1>6. CASE LockFails(p)
  BY <1>0, <1>6, RaiseForgets DEF LockFails
<1> QED BY <1>1, <1>2, <1>3, <1>4, <1>5, <1>6 DEF Entry

\* The other steps of a process, but for a successful exchange.
LEMMA OtherForgets ==
  ASSUME IInv, NEW p \in Service,
         \/ Post(p) \/ ExchangeRejected(p) \/ ExchangeOutcomeUnknown(p)
         \/ Start(p) \/ Schedule(p) \/ Unpark(p) \/ ReadFails(p) \/ Crash(p)
  PROVE  KnownSuccessors' \subseteq KnownSuccessors
<1>0. UNCHANGED journal /\ RotationsIn(journal') \subseteq KnownSuccessors
  <2>1. UNCHANGED journal
    BY DEF Post, ExchangeRejected, ExchangeOutcomeUnknown, Answered, Start, Schedule, Unpark,
           ReadFails, Crash, disk
  <2> QED BY <2>1, JournalForgets
<1>1. CASE Post(p) \/ Start(p) \/ Schedule(p)
  <2>1. UNCHANGED <<hand, retained>>
    BY <1>1 DEF Post, Start, Schedule
  <2> QED BY <1>0, <2>1 DEF KnownSuccessors, RotationsIn
<1>2. CASE ExchangeRejected(p) \/ ExchangeOutcomeUnknown(p)
  <2>1. PICK j : j.state # "ROTATED" /\ hand' = [hand EXCEPT ![p] = j] /\ UNCHANGED retained
    BY <1>2 DEF ExchangeRejected, ExchangeOutcomeUnknown, Answered, JournalOf
  <2>2. hand'[p] = j /\ \A q \in Service : q # p => hand'[q] = hand[q]
    BY <2>1, IInvParts DEF Shapes
  <2>3. RotationsIn(hand'[p]) = {}
    BY <2>1, <2>2 DEF RotationsIn
  <2> QED BY <1>0, <2>1, <2>2, <2>3, HeldIsKnown, MoveForgets
<1>3. CASE Unpark(p) \/ Crash(p)
  BY <1>0, <1>3, ReturnForgets DEF Unpark, Crash, Exit
<1>4. CASE ReadFails(p)
  BY <1>0, <1>4, ReturnForgets, RaiseForgets DEF ReadFails, Exit
<1> QED BY <1>1, <1>2, <1>3, <1>4

\* The importing command and the clock.
LEMMA ImportForgets ==
  ASSUME IInv, Import \/ Tick
  PROVE  KnownSuccessors' \subseteq KnownSuccessors
<1>1. journal' \in {journal, NoJournal} /\ UNCHANGED <<hand, retained>>
  BY DEF Import, ImportCredential, ImportEnqueue, ImportForget, ImportCrash, Tick, disk, process
<1>2. RotationsIn(journal') \subseteq KnownSuccessors
  BY <1>1, JournalForgets
<1> SUFFICES ASSUME NEW s \in KnownSuccessors' PROVE s \in KnownSuccessors
  OBVIOUS
<1> QED BY <1>1, <1>2, KnownWhere, KnownWhereNext

-----------------------------------------------------------------------------
(* The refinement.                                                          *)

\* A successful exchange adds the successor it creates, and nothing else.
LEMMA ExchangeGrants ==
  ASSUME IInv, NEW p \in Service, ExchangeSucceeded(p)
  PROVE  Lifecycle!Grant
<1> DEFINE s == [source |-> rev[p], succ |-> nextRevision]
           j == JournalOf("ROTATED", rev[p], nextRevision, UnbudgetedAttempt)
<1>1. RotationsIn(j) = {s}
  BY DEF RotationsIn, JournalOf
<1> HIDE DEF j
<1>2. /\ hand' = [hand EXCEPT ![p] = j] /\ UNCHANGED <<auth, journal, retained>>
      /\ nextRevision' = nextRevision + 1
  BY DEF ExchangeSucceeded, Answered, disk, j
<1>3. hand'[p] = j /\ \A q \in Service : q # p => hand'[q] = hand[q]
  BY <1>2, IInvParts DEF Shapes
<1>4. ASSUME NEW t \in KnownSuccessors' PROVE t \in KnownSuccessors \cup {s}
  <2>1. ASSUME NEW q \in Service, t \in RotationsIn(hand'[q]) PROVE t \in KnownSuccessors \cup {s}
    <3>1. CASE q = p
      BY <1>1, <1>3, <2>1, <3>1
    <3>2. CASE q # p
      BY <1>3, <2>1, <3>2, KnownWhere
    <3> QED BY <3>1, <3>2
  <2> QED BY <1>2, <2>1, KnownWhere, KnownWhereNext
<1>5. rev[p] \in 0 .. nextRevision - 1
  BY IInvParts DEF Shapes, FilesOK, ProcessOK
<1> QED BY <1>2, <1>4, <1>5 DEF Lifecycle!Grant

\* Every step is a step of the abstract specification, or leaves it unchanged.
LEMMA StepRefines ==
  ASSUME IInv, [Next]_vars
  PROVE  [Lifecycle!Next]_(Lifecycle!vars)
<1>1. CASE UNCHANGED vars
  <2>1. UNCHANGED <<auth, nextRevision, journal, hand, retained>>
    BY <1>1 DEF vars, disk, process, counter
  <2> QED BY <2>1 DEF Lifecycle!vars, KnownSuccessors, RotationsIn
<1>2. ASSUME NEW p \in Service, ExchangeSucceeded(p) PROVE Lifecycle!Next
  BY <1>2, ExchangeGrants DEF Lifecycle!Next
<1>3. ASSUME NEW p \in Service, Replace(p) PROVE Lifecycle!Next
  <2> DEFINE s == [source |-> hand[p].source, succ |-> hand[p].succ]
  <2>1. KnownSuccessors' \subseteq KnownSuccessors
    BY <1>3, RecordingForgets
  <2>2. s \in KnownSuccessors
    <3>1. s \in RotationsIn(hand[p])
      BY <1>3, HandType DEF Replace, HandFits, RotationsIn
    <3> QED BY <3>1, HeldIsKnown
  <2>3. /\ nextRevision' = nextRevision
        /\ \/ auth' = auth
           \/ auth.revision = s.source /\ auth' = [revision |-> s.succ, kind |-> "cookie"]
    BY <1>3 DEF Replace, disk
  <2> HIDE DEF s
  <2> QED BY <2>1, <2>2, <2>3
          DEF Lifecycle!Next, Lifecycle!Adopt, Lifecycle!Lose, Lifecycle!Forget
<1>4. CASE ImportCredential
  <2>1. KnownSuccessors' \subseteq KnownSuccessors
    BY <1>4, ImportForgets DEF Import
  <2>2. /\ nextRevision' = nextRevision + 1
        /\ \/ auth' = auth
           \/ \E kind \in ImportKinds : auth' = [revision |-> nextRevision, kind |-> kind]
    BY <1>4 DEF ImportCredential
  <2>3. ImportKinds \subseteq Lifecycle!Kinds
    BY BoundsAssumption DEF Lifecycle!Kinds
  <2> QED BY <2>1, <2>2, <2>3 DEF Lifecycle!Next, Lifecycle!Import, Lifecycle!Forget
<1>5. ASSUME UNCHANGED <<auth, nextRevision>>, KnownSuccessors' \subseteq KnownSuccessors
      PROVE  Lifecycle!Next
  BY <1>5 DEF Lifecycle!Next, Lifecycle!Lose, Lifecycle!Forget
<1>6. ASSUME NEW p \in Service, Transaction(p), ~Replace(p) PROVE Lifecycle!Next
  <2>1. UNCHANGED <<auth, nextRevision>>
    BY <1>6 DEF Transaction, WriteOutcome, EnqueueOutcome, MarkEnqueued, ForgetJournal,
                DeliverRefused, DeliverAccepted, Acknowledge, EndRecord, DeleteRotated,
                RecoverStartupJournal, BeginDispatch, RecoverUnknown,
                AuthorizeRecoveryDispatch, StopRecovery, Reserve, Request, WriteJournal,
                disk, counter
  <2>2. KnownSuccessors' \subseteq KnownSuccessors
    BY <1>6, RecordingForgets, PreparationForgets DEF Transaction
  <2> QED BY <1>5, <2>1, <2>2
<1>7. ASSUME NEW p \in Service, Entry(p) PROVE Lifecycle!Next
  <2>1. UNCHANGED <<auth, nextRevision>>
    BY <1>7 DEF Entry, RecoverStartup, Prepare, Commit, CommitUnread, ProjectRetained,
                ProjectUnread, LockFails, disk, counter
  <2> QED BY <1>5, <1>7, <2>1, EntryForgets
<1>8. ASSUME NEW p \in Service,
             \/ Post(p) \/ ExchangeRejected(p) \/ ExchangeOutcomeUnknown(p)
             \/ Start(p) \/ Schedule(p) \/ Unpark(p) \/ ReadFails(p) \/ Crash(p)
      PROVE  Lifecycle!Next
  <2>1. UNCHANGED <<auth, nextRevision>>
    BY <1>8 DEF Post, ExchangeRejected, ExchangeOutcomeUnknown, Answered, Start, Schedule,
                Unpark, ReadFails, Crash, disk, counter
  <2> QED BY <1>5, <1>8, <2>1, OtherForgets
<1>9. CASE ImportEnqueue \/ ImportForget \/ ImportCrash \/ Tick
  <2>1. UNCHANGED <<auth, nextRevision>>
    BY <1>9 DEF ImportEnqueue, ImportForget, ImportCrash, Tick, disk
  <2> QED BY <1>5, <1>9, <2>1, ImportForgets DEF Import
<1> QED BY <1>1, <1>2, <1>3, <1>4, <1>6, <1>7, <1>8, <1>9 DEF Next, Exchange, Import

\* The initial states are initial states of the abstract specification.
LEMMA InitRefines == Init => Lifecycle!Init
<1> SUFFICES ASSUME Init PROVE Lifecycle!Init
  OBVIOUS
<1>1. IInv
  BY InitIInv
<1>2. /\ auth \in [revision : Nat, kind : Lifecycle!Kinds]
      /\ nextRevision \in Nat /\ auth.revision < nextRevision
  BY <1>1, IInvParts DEF FilesOK, Credential, Lifecycle!Kinds
<1>3. \A s \in KnownSuccessors : s \in Successor /\ s.source < s.succ /\ s.succ < nextRevision
  BY <1>1, KnownAreNewer
<1> QED BY <1>2, <1>3 DEF Lifecycle!Init, Successor

\* Rotation with its journal, its recoveries, kills and storage faults implements
\* the credential lifecycle: the credential file only ever changes to a fresh
\* import or to a successor granted to the very revision it replaces.
THEOREM RotationImplementsLifecycle == Spec => LifecycleSpec
<1>1. IInv /\ [Next]_vars => [Lifecycle!Next]_(Lifecycle!vars)
  BY StepRefines
<1> QED BY <1>1, InitRefines, InductiveInvariant, PTL DEF Spec, LifecycleSpec, Lifecycle!Spec

=============================================================================
