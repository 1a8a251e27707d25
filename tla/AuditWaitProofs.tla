--------------------------- MODULE AuditWaitProofs ---------------------------
(***************************************************************************)
(* Proofs about `wait' and `audit read'.                                   *)
(*                                                                         *)
(* The properties speak of two past instants, the answer to the list (the  *)
(* ghost over) and the commit of the reconciliation (the ghost guarded),   *)
(* while the service and the other commands go on.  The inductive          *)
(* invariant therefore says, of a reconciliation under way, what its       *)
(* lookups learnt and what of that stays true, and of the observation it   *)
(* ends in (cmd.runs), how it relates to the ghosts and to the fields of a *)
(* task that never change: its audit and its commit.  The central lemma,   *)
(* ReconciledSound, leads from the first to the second, whatever the       *)
(* service lists.  The heartbeats need the exact relation of the next one  *)
(* to the number sent and to the last poll.                                *)
(***************************************************************************)
EXTENDS AuditWait, SequenceTheorems, WellFoundedInduction, TLAPS

(* The states of a task, and a task as the service keeps it.               *)
TaskStates == {"queued", "completed", "failed"}

Task == [action : Audit, sha : 1 .. MaxHeads, state : TaskStates, ended : Nat,
         origin : {"past", "started", "recorded"}]

(* The types of the service's state and of the clock.                      *)
WorldOK ==
    /\ now \in 0 .. MaxTime /\ head \in 1 .. MaxHeads
    /\ tasks \in Seq(Task)
    /\ audited \in [Audit -> 0 .. MaxHeads]

(* An entry of the ledger is of a task, its audit and its commit.          *)
EntryOK(e) ==
    /\ e.repo = Repo /\ e.task \in DOMAIN tasks /\ e.status = "queued"
    /\ e.action = tasks[e.task].action /\ e.sha = tasks[e.task].sha
    /\ e.observed \in 0 .. now /\ e.expires = e.observed + Ttl

(* A task has one entry at most.                                           *)
LedgerOK ==
    /\ \A e \in ledger : EntryOK(e)
    /\ \A e, f \in ledger : e.task = f.task => e = f

(* What a lookup answered still says something: a task it found at work    *)
(* was so after the list, and one it found over still is.                  *)
AnswerOK(t, answer) ==
    \/ answer = Detail("queued") /\ t \notin over
    \/ answer \in {Detail("completed"), Detail("failed")} /\ ~Active(t)
    \/ answer = NotFound
    \/ answer = LookupError

(* The reconciliation under way.  A task is looked up for an entry that    *)
(* was within its lifetime at the reading point, and its entry still is.   *)
CacheOK ==
    /\ cmd.point \in 0 .. now /\ cmd.listed \in 0 .. Len(tasks)
    /\ cmd.pending \subseteq DOMAIN tasks /\ DOMAIN cmd.cache \subseteq DOMAIN tasks
    /\ (cmd.step = "list" => cmd.cache = <<>>) /\ (cmd.step # "lookup" => cmd.pending = {})
    /\ \A t \in DOMAIN cmd.cache : AnswerOK(t, cmd.cache[t])
    /\ \A e \in ledger : e.task \in DOMAIN cmd.cache \cup cmd.pending => ~Expired(e, cmd.point)

(* The tasks counted as over are, and the ghosts name tasks.               *)
GhostsOK ==
    /\ over \subseteq DOMAIN tasks /\ guarded \subseteq DOMAIN tasks
    /\ \A t \in over : ~Active(t)

(* What an observed run may be: of a task, its audit and, if it names one, *)
(* its commit; never of a task the ledger's lookup found to be over.       *)
Listed(r) ==
    /\ r.task \in DOMAIN tasks /\ r.task \notin over
    /\ r.action = tasks[r.task].action /\ r.sha \in {NoSha, tasks[r.task].sha}
    /\ Lifecycle(r) \in {"queued", "running"} /\ r.stamp \in 0 .. (MaxTime + Len(tasks))

(* The observed runs are sound and miss no task that had to be guarded.    *)
RunsSound ==
    /\ \A r \in cmd.runs : Listed(r)
    /\ \A t \in guarded : \E r \in cmd.runs : r.task = t

(* The fields of a command.                                                *)
Fields == {"pc", "kind", "got", "step", "point", "round", "listed", "pending", "cache", "links",
           "runs", "cur", "audited", "started", "polled", "next", "wake", "reason", "audit",
           "ref", "newer"}

(* The command's own fields; got and step are as the program counter says. *)
CommandOK ==
    /\ Fields \subseteq DOMAIN cmd
    /\ cmd.pc \in {"idle", "read", "sleep", "done"} /\ cmd.got \subseteq Reads
    /\ cmd.step \in {"list", "round", "lookup", "commit"}
    /\ cmd.reason \in {"none", "complete", "waiting", "failed", "missing", "timeout", "error"}
    /\ cmd.wake \in Nat /\ cmd.next \in Nat /\ cmd.started \in 0 .. now
    /\ cmd.pc \in {"idle", "sleep"} => cmd.got = {}
    /\ cmd.pc # "read" \/ "runs" \in cmd.got => cmd.step = "list"

(* The next heartbeat is as many intervals after the start as there were   *)
(* heartbeats.  The last one was due by the last poll, and unless a poll   *)
(* came late the next one was not.                                         *)
Paced ==
    /\ beats \in Nat /\ late \in BOOLEAN
    /\ cmd.pc = "idle" => beats = 0
    /\ cmd.pc \in {"read", "sleep"} =>
         /\ cmd.polled \in cmd.started .. now
         /\ cmd.next = cmd.started + beats * HeartbeatSeconds
         /\ beats = 0 => cmd.pc = "read" /\ cmd.polled = cmd.started
         /\ beats > 0 => cmd.next - HeartbeatSeconds <= cmd.polled
         /\ late \/ beats = 0 \/ cmd.polled < cmd.next

(* Once the active runs were read they are sound.                          *)
Observed == "runs" \in cmd.got => RunsSound

(* The inductive invariant.                                                *)
IInv ==
    /\ WorldOK /\ LedgerOK /\ CommandOK /\ CacheOK /\ GhostsOK /\ Paced /\ Observed
    /\ CompleteHonest /\ NewerRunNamed

----------------------------------------------------------------------------
(* Runs                                                                    *)

(* A nonempty set of numbers has a least one.                              *)
LEMMA LeastNumber ==
    ASSUME NEW N \in SUBSET Nat, N # {}
    PROVE  \E m \in N : \A n \in N : m <= n
  <1> DEFINE R == OpToRel(<, Nat)
  <1>1. IsWellFoundedOn(R, Nat)
    BY NatLessThanWellFounded
  <1>2. \A m, n \in Nat : <<n, m>> \in R <=> n < m
    BY DEF OpToRel
  <1> HIDE DEF R
  <1>3. PICK m \in N : \A n \in N : ~(<<n, m>> \in R)
    BY <1>1, WFMin
  <1>4. \A n \in N : ~(n < m)
    BY <1>2, <1>3
  <1> QED BY <1>4

(* The representative of active runs exists: the newest of those running,  *)
(* or of those that wait.                                                  *)
LEMMA Represented ==
    ASSUME NEW B \in Nat, NEW runs, runs # {},
           \A r \in runs : Lifecycle(r) \in {"queued", "running"} /\ r.stamp \in 0 .. B
    PROVE  RepresentativeProjection(runs) \in runs
  <1> DEFINE key(r) == IF Lifecycle(r) = "running" THEN B - r.stamp ELSE B + B + 1 - r.stamp
             S == {key(r) : r \in runs}
  <1>1. \A r \in runs : key(r) \in Nat
    OBVIOUS
  <1>2. S \in SUBSET Nat /\ S # {}
    BY <1>1
  <1>3. PICK m \in S : \A n \in S : m <= n
    BY <1>2, LeastNumber
  <1>4. PICK run \in runs : m = key(run)
    OBVIOUS
  <1>5. ASSUME NEW other \in runs PROVE ~RanksBelow(run, other)
    <2>1. key(run) <= key(other)
      BY <1>3, <1>4
    <2> QED BY <2>1 DEF RanksBelow, LifecyclePriority
  <1> QED BY <1>5 DEF RepresentativeProjection

(* What the projections of an entry say.                                   *)
LEMMA ProjectedFields ==
    ASSUME NEW e, e.status = "queued"
    PROVE  /\ ProjectLedger(e).task = e.task /\ ProjectLedger(e).action = e.action
           /\ ProjectLedger(e).sha = e.sha /\ ProjectLedger(e).stamp = e.observed
           /\ Lifecycle(ProjectLedger(e)) = "queued"
           /\ \A d : /\ ProjectDetail(e, d).task = e.task /\ ProjectDetail(e, d).action = e.action
                     /\ ProjectDetail(e, d).sha = e.sha /\ ProjectDetail(e, d).stamp = e.observed
                     /\ ProjectDetail(e, d).status = d.status
                     /\ ProjectDetail(e, d).started = d.started
                     /\ ProjectDetail(e, d).completed = d.completed
  <1>1. /\ ProjectLedger(e).task = e.task /\ ProjectLedger(e).action = e.action
        /\ ProjectLedger(e).sha = e.sha /\ ProjectLedger(e).stamp = e.observed
        /\ ProjectLedger(e).status = "queued" /\ ProjectLedger(e).completed = FALSE
    BY DEF ProjectLedger
  <1>2. Lifecycle(ProjectLedger(e)) = "queued"
    BY <1>1 DEF Lifecycle, TaskLifecycle
  <1> QED BY <1>1, <1>2 DEF ProjectDetail

(* The kinds of the answers of a lookup.                                   *)
LEMMA AnswerKinds ==
    /\ Detail("queued").kind = "detail" /\ Detail("completed").kind = "detail"
    /\ Detail("failed").kind = "detail"
    /\ NotFound.kind = "notfound" /\ LookupError.kind = "error"
  BY DEF Detail, NotFound, LookupError

(* Only the detail of a queued task shows an active run.                   *)
LEMMA DetailFields ==
    ASSUME NEW e, e.status = "queued"
    PROVE  /\ Lifecycle(ProjectDetail(e, Detail("queued"))) = "queued"
           /\ IsActiveRun(ProjectDetail(e, Detail("queued")))
           /\ ~IsActiveRun(ProjectDetail(e, Detail("completed")))
           /\ ~IsActiveRun(ProjectDetail(e, Detail("failed")))
  <1>1. \A s : Detail(s).status = s /\ Detail(s).completed = IsTerminalStatus(s)
    BY DEF Detail
  <1>2. ~IsTerminalStatus("queued") /\ IsTerminalStatus("completed")
    BY DEF IsTerminalStatus
  <1>3. Lifecycle(ProjectDetail(e, Detail("queued"))) = "queued"
    BY <1>1, <1>2, ProjectedFields DEF Lifecycle, TaskLifecycle
  <1>4. Lifecycle(ProjectDetail(e, Detail("completed"))) = "completed"
    BY <1>1, <1>2, ProjectedFields DEF Lifecycle, TaskLifecycle
  <1>5. Lifecycle(ProjectDetail(e, Detail("failed"))) = "failed"
    BY <1>1, <1>2, ProjectedFields DEF Lifecycle, TaskLifecycle
  <1> QED BY <1>3, <1>4, <1>5 DEF IsActiveRun

(* The types of an accepted task and of its id.                            *)
LEMMA TaskTypes ==
    ASSUME WorldOK, NEW t \in DOMAIN tasks
    PROVE  /\ tasks[t] \in Task /\ tasks[t].state \in TaskStates
           /\ tasks[t].sha \in 1 .. MaxHeads /\ tasks[t].action \in Audit
           /\ t \in 1 .. Len(tasks) /\ Len(tasks) \in Nat /\ t # NoTask
  <1>1. DOMAIN tasks = 1 .. Len(tasks) /\ Len(tasks) \in Nat
    BY DEF WorldOK
  <1>2. tasks[t] \in Task
    BY <1>1 DEF WorldOK
  <1> QED BY <1>1, <1>2 DEF Task, NoTask

----------------------------------------------------------------------------
(* The reconciliation                                                      *)

(* The verdict on an entry: kept on the ledger's own word, kept on that of *)
(* a lookup after the list, dropped since its task is over, or dropped     *)
(* since the service does not know the task after the grace period.        *)
LEMMA Verdicts ==
    ASSUME WorldOK, CacheOK, NEW e, EntryOK(e), NEW upstream
    PROVE  LET v == Verdict(e, cmd.cache, cmd.point, upstream)
           IN  \/ /\ v.projected = {ProjectLedger(e)} /\ v.suppresses
                  /\ e.task \notin Answered("detail")
               \/ /\ v.projected = {ProjectDetail(e, Detail("queued"))} /\ v.suppresses
                  /\ e.task \notin over
               \/ v.projected = {} /\ v.suppresses /\ ~Active(e.task)
               \/ /\ v.projected = {} /\ e.task \in Answered("notfound")
                  /\ cmd.point - e.observed > Grace
  <1> DEFINE v == Verdict(e, cmd.cache, cmd.point, upstream)
             t == e.task
             d == cmd.cache[t]
  <1>1. t # NoTask /\ t \in DOMAIN tasks /\ e.status = "queued"
    BY TaskTypes DEF EntryOK
  <1>2. \A x, b : Keep(x, b).projected = x /\ Keep(x, b).suppresses = b
    BY DEF Keep
  <1>3. \A b : Drop(b).projected = {} /\ Drop(b).suppresses = b
    BY DEF Drop
  <1>4. CASE t \notin DOMAIN cmd.cache
    <2>1. v = Keep({ProjectLedger(e)}, TRUE)
      BY <1>1, <1>4 DEF Verdict, ReconcileEntry
    <2> QED BY <1>2, <1>4, <2>1 DEF Answered
  <1>5. CASE t \in DOMAIN cmd.cache
    <2>1. AnswerOK(t, d)
      BY <1>5 DEF CacheOK
    <2>2. CASE d = Detail("queued") /\ t \notin over
      <3>1. v = Keep({ProjectDetail(e, d)}, TRUE)
        BY <1>1, <1>5, <2>2, AnswerKinds, DetailFields DEF Verdict, ReconcileEntry
      <3> QED BY <1>2, <2>2, <3>1
    <2>3. CASE d \in {Detail("completed"), Detail("failed")} /\ ~Active(t)
      <3>1. d.kind = "detail" /\ ~IsActiveRun(ProjectDetail(e, d))
        BY <1>1, <2>3, AnswerKinds, DetailFields
      <3>2. v = Drop(TRUE)
        BY <1>1, <1>5, <3>1 DEF Verdict, ReconcileEntry
      <3> QED BY <1>3, <2>3, <3>2
    <2>4. CASE d.kind = "notfound" /\ cmd.point - e.observed > Grace
      <3>1. v = Drop(FALSE)
        BY <1>1, <1>5, <2>4 DEF Verdict, ReconcileEntry
      <3> QED BY <1>3, <1>5, <2>4, <3>1 DEF Answered
    <2>5. CASE \/ d = LookupError
               \/ d = NotFound /\ ~(cmd.point - e.observed > Grace)
      <3>1. d.kind # "detail" /\ ~(d.kind = "notfound" /\ cmd.point - e.observed > Grace)
        BY <2>5, AnswerKinds
      <3>2. v = Keep({ProjectLedger(e)}, TRUE)
        BY <1>1, <1>5, <3>1 DEF Verdict, ReconcileEntry
      <3> QED BY <1>2, <3>1, <3>2 DEF Answered
    <2> QED BY <2>1, <2>2, <2>3, <2>4, <2>5, AnswerKinds DEF AnswerOK
  <1> QED BY <1>4, <1>5

(* What the commit still counts as over.                                   *)
StillOver(entries) == {t \in over \cap Answered("detail") : \E e \in entries : e.task = t}

(* What a run of the reconciliation may be.                                *)
Fit(r, entries) ==
    /\ r.task \in DOMAIN tasks /\ r.task \notin StillOver(entries)
    /\ r.action = tasks[r.task].action /\ r.sha \in {NoSha, tasks[r.task].sha}
    /\ Lifecycle(r) \in {"queued", "running"} /\ r.stamp \in 0 .. (MaxTime + Len(tasks))

(* A run projected from an entry fits.                                     *)
LEMMA ProjectedFits ==
    ASSUME WorldOK, CacheOK, NEW entries, NEW e \in entries, EntryOK(e), NEW upstream,
           NEW x \in Verdict(e, cmd.cache, cmd.point, upstream).projected
    PROVE  Fit(x, entries) /\ x.task = e.task
  <1> DEFINE v == Verdict(e, cmd.cache, cmd.point, upstream)
             t == e.task
  <1>1. /\ e.status = "queued" /\ t \in DOMAIN tasks /\ e.action = tasks[t].action
        /\ e.sha = tasks[t].sha /\ e.observed \in 0 .. MaxTime + Len(tasks)
    <2>1. Len(tasks) \in Nat /\ now \in 0 .. MaxTime /\ MaxTime \in Nat
      BY WaitAssumption DEF WorldOK
    <2> QED BY <2>1 DEF EntryOK
  <1>2. \/ x = ProjectLedger(e) /\ t \notin Answered("detail")
        \/ x = ProjectDetail(e, Detail("queued")) /\ t \notin over
    BY Verdicts
  <1>3. /\ x.task = t /\ x.action = e.action /\ x.sha = e.sha /\ x.stamp = e.observed
        /\ Lifecycle(x) = "queued"
    BY <1>1, <1>2, ProjectedFields, DetailFields
  <1>4. t \notin StillOver(entries)
    BY <1>2 DEF StillOver
  <1> QED BY <1>1, <1>3, <1>4 DEF Fit

(* The fields of a row the service lists.                                  *)
LEMMA RowFields ==
    ASSUME NEW t, NEW sha
    PROVE  /\ UpstreamRow(t, sha).task = t /\ UpstreamRow(t, sha).action = tasks[t].action
           /\ UpstreamRow(t, sha).sha = sha /\ UpstreamRow(t, sha).stamp = t
           /\ Lifecycle(UpstreamRow(t, sha)) = "running"
  <1>1. /\ UpstreamRow(t, sha).task = t /\ UpstreamRow(t, sha).action = tasks[t].action
        /\ UpstreamRow(t, sha).sha = sha /\ UpstreamRow(t, sha).stamp = t
        /\ UpstreamRow(t, sha).status = "running" /\ UpstreamRow(t, sha).completed = FALSE
    BY DEF UpstreamRow
  <1> QED BY <1>1 DEF Lifecycle, TaskLifecycle

(* The entries a commit reads are in order.                                *)
LEMMA EntriesRead ==
    ASSUME LedgerOK, NEW entries \in ReadLedger
    PROVE  entries \subseteq ledger /\ \A e \in entries : EntryOK(e)
  BY DEF LedgerOK, ReadLedger

(* A task that was over and that a lookup found keeps its rows out.        *)
LEMMA OverSuppressed ==
    ASSUME WorldOK, LedgerOK, CacheOK, NEW entries \in ReadLedger, NEW upstream,
           NEW t \in StillOver(entries)
    PROVE  t \in Suppressed(entries, Repo, cmd.cache, cmd.point, upstream)
  <1>1. PICK e \in entries : e.task = t
    BY DEF StillOver
  <1>2. t \in over /\ t \in DOMAIN cmd.cache /\ t \in Answered("detail") /\ cmd.cache[t].kind = "detail"
    BY DEF StillOver, Answered
  <1>3. EntryOK(e) /\ e \in ledger
    BY EntriesRead
  <1>4. ~Expired(e, cmd.point) /\ e.repo = Repo /\ ~IsTerminalStatus(e.status)
    BY <1>1, <1>2, <1>3 DEF CacheOK, EntryOK, IsTerminalStatus
  <1>5. e \in Live(entries, Repo, cmd.point)
    BY <1>4 DEF Live
  <1>6. t \notin Answered("notfound")
    BY <1>2 DEF Answered
  <1>7. Verdict(e, cmd.cache, cmd.point, upstream).suppresses
    BY <1>1, <1>3, <1>6, Verdicts
  <1> QED BY <1>1, <1>5, <1>7 DEF Suppressed

(* A task that had to be guarded is projected by its entry.                *)
LEMMA GuardProjected ==
    ASSUME WorldOK, LedgerOK, CacheOK, NEW t \in MustGuard, NEW upstream
    PROVE  \E e \in Live(ledger, Repo, cmd.point) :
             e.task = t /\ Verdict(e, cmd.cache, cmd.point, upstream).projected # {}
  <1>1. t \in DOMAIN tasks /\ Active(t)
    BY DEF MustGuard
  <1>2. PICK e \in ledger : /\ e.task = t /\ ~Expired(e, now)
                            /\ t \in Answered("notfound") => now <= e.observed + Grace
    BY DEF MustGuard
  <1>3. /\ EntryOK(e) /\ e.observed \in Nat /\ e.expires = e.observed + Ttl /\ e.status = "queued"
        /\ e.repo = Repo /\ now \in Nat /\ cmd.point \in Nat /\ cmd.point <= now
    BY WaitAssumption DEF LedgerOK, EntryOK, WorldOK, CacheOK
  <1>4. ~Expired(e, cmd.point)
    BY <1>2, <1>3, LedgerAssumption DEF Expired
  <1>5. e \in Live(ledger, Repo, cmd.point)
    BY <1>3, <1>4 DEF Live, IsTerminalStatus
  <1>6. t \in Answered("notfound") => ~(cmd.point - e.observed > Grace)
    BY <1>2, <1>3, LedgerAssumption
  <1>7. Verdict(e, cmd.cache, cmd.point, upstream).projected # {}
    BY <1>1, <1>2, <1>3, <1>6, Verdicts
  <1> QED BY <1>2, <1>5, <1>7

(* The projections of the entries a commit reads.                          *)
Projected(entries, upstream) ==
    UNION {Verdict(e, cmd.cache, cmd.point, upstream).projected :
             e \in Live(entries, Repo, cmd.point)}

(* The rows the commit lets through.                                       *)
Unreplaced(entries, upstream) ==
    {r \in upstream : r.task = NoTask
                      \/ r.task \notin Suppressed(entries, Repo, cmd.cache, cmd.point, upstream)}

(* One run for each task: dedupe chooses among runs and misses no task.    *)
LEMMA Deduped ==
    ASSUME NEW B \in Nat, NEW rows,
           \A r \in rows : Lifecycle(r) \in {"queued", "running"} /\ r.stamp \in 0 .. B
    PROVE  /\ DedupeRuns(rows) \subseteq rows
           /\ \A r \in rows : \E q \in DedupeRuns(rows) : q.task = r.task
  <1> DEFINE group(run) == {other \in rows :
                              /\ other.task = run.task
                              /\ run.task = NoTask => other.action = run.action}
  <1>1. ASSUME NEW run \in rows
        PROVE  /\ RepresentativeProjection(group(run)) \in rows
               /\ RepresentativeProjection(group(run)).task = run.task
    <2>1. run \in group(run)
      OBVIOUS
    <2>2. \A r \in group(run) : Lifecycle(r) \in {"queued", "running"} /\ r.stamp \in 0 .. B
      OBVIOUS
    <2> HIDE DEF group
    <2>3. RepresentativeProjection(group(run)) \in group(run)
      BY <2>1, <2>2, Represented
    <2> QED BY <2>3 DEF group
  <1>2. DedupeRuns(rows) = {RepresentativeProjection(group(run)) : run \in rows}
    BY DEF DedupeRuns
  <1> HIDE DEF group
  <1> QED BY <1>1, <1>2

(* The reconciled runs fit, whatever the service lists, and miss no task   *)
(* that had to be guarded if the ledger could be read.                     *)
LEMMA ReconciledSound ==
    ASSUME WorldOK, LedgerOK, CacheOK, NEW entries \in ReadLedger,
           NEW headed \in SUBSET (1 .. cmd.listed), NEW headless \in SUBSET (1 .. cmd.listed)
    PROVE  LET R == ReconciledRuns(entries, Repo, cmd.cache, cmd.point, Upstream(headed, headless))
           IN  /\ \A r \in R : Fit(r, entries)
               /\ entries = ledger => \A t \in MustGuard : \E r \in R : r.task = t
  <1> DEFINE U == Upstream(headed, headless)
             rows == Projected(entries, U) \cup Unreplaced(entries, U)
             B == MaxTime + Len(tasks)
  <1>1. B \in Nat /\ Len(tasks) \in Nat /\ DOMAIN tasks = 1 .. Len(tasks) /\ MaxTime \in Nat
    BY WaitAssumption DEF WorldOK
  <1>2. ReconciledRuns(entries, Repo, cmd.cache, cmd.point, U) = DedupeRuns(rows)
    BY DEF ReconciledRuns, Projected, Unreplaced
  <1>3. ASSUME NEW r \in Projected(entries, U) PROVE Fit(r, entries)
    <2>1. PICK e \in Live(entries, Repo, cmd.point) :
            r \in Verdict(e, cmd.cache, cmd.point, U).projected
      BY DEF Projected
    <2>2. e \in entries /\ EntryOK(e)
      BY EntriesRead DEF Live
    <2> HIDE DEF U
    <2> QED BY <2>1, <2>2, ProjectedFits
  <1>4. ASSUME NEW r \in Unreplaced(entries, U) PROVE Fit(r, entries)
    <2>1. r \in U /\ (r.task = NoTask
                      \/ r.task \notin Suppressed(entries, Repo, cmd.cache, cmd.point, U))
      BY DEF Unreplaced
    <2>2. \E t \in 1 .. cmd.listed : r = UpstreamRow(t, tasks[t].sha) \/ r = UpstreamRow(t, NoSha)
      BY <2>1 DEF Upstream
    <2>3. PICK t \in 1 .. cmd.listed : r = UpstreamRow(t, tasks[t].sha) \/ r = UpstreamRow(t, NoSha)
      BY <2>2
    <2>4. cmd.listed \in 0 .. Len(tasks)
      BY DEF CacheOK
    <2>5. t \in DOMAIN tasks /\ t # NoTask /\ t \in 0 .. B
      BY <1>1, <2>4 DEF NoTask
    <2> HIDE DEF U, B
    <2>6. /\ r.task = t /\ r.action = tasks[t].action /\ r.sha \in {NoSha, tasks[t].sha}
          /\ r.stamp = t /\ Lifecycle(r) = "running"
      BY <2>3, RowFields
    <2>7. t \notin StillOver(entries)
      BY <2>1, <2>5, <2>6, OverSuppressed
    <2> QED BY <2>5, <2>6, <2>7 DEF Fit, B
  <1>5. ASSUME NEW t \in MustGuard, entries = ledger PROVE \E r \in rows : r.task = t
    <2>1. PICK e \in Live(entries, Repo, cmd.point) :
            e.task = t /\ Verdict(e, cmd.cache, cmd.point, U).projected # {}
      BY <1>5, GuardProjected
    <2>2. PICK x : x \in Verdict(e, cmd.cache, cmd.point, U).projected
      BY <2>1
    <2>3. e \in entries /\ EntryOK(e)
      BY EntriesRead DEF Live
    <2> HIDE DEF U
    <2>4. x \in Projected(entries, U)
      BY <2>2 DEF Projected
    <2>5. x.task = t
      BY <2>1, <2>2, <2>3, ProjectedFits
    <2> QED BY <2>4, <2>5
  <1>6. \A r \in rows : Fit(r, entries)
    BY <1>3, <1>4
  <1> HIDE DEF rows, U, B
  <1>7. /\ DedupeRuns(rows) \subseteq rows
        /\ \A r \in rows : \E q \in DedupeRuns(rows) : q.task = r.task
    BY <1>1, <1>6, Deduped DEF Fit, B
  <1>8. \A r \in DedupeRuns(rows) : Fit(r, entries)
    BY <1>6, <1>7
  <1>9. entries = ledger => \A t \in MustGuard : \E r \in DedupeRuns(rows) : r.task = t
    BY <1>5, <1>7
  <1> QED BY <1>2, <1>8, <1>9 DEF U

----------------------------------------------------------------------------
(* What a sound observation says of the status                             *)

(* Runs that are active, with stamps under a bound.                        *)
ActiveRuns(runs, B) ==
    \A r \in runs : Lifecycle(r) \in {"queued", "running"} /\ r.stamp \in 0 .. B

(* The run that stands for an audit is one of the observed runs of it.     *)
LEMMA Chosen ==
    ASSUME NEW B \in Nat, NEW runs, NEW a, NEW current, ActiveRuns(runs, B),
           \E r \in runs : r.action = a
    PROVE  \E r \in runs : r.action = a /\ RunsByAction(runs, a, current) = {r}
  <1> DEFINE matching == ActiveRunsForAction(runs, a)
             rank(r) == HeadEvidencePriority(r, current)
             best == {run \in matching : \A other \in matching : rank(other) <= rank(run)}
             S == {2 - rank(r) : r \in matching}
  <1>1. matching = {r \in runs : r.action = a}
    BY DEF ActiveRunsForAction, ActiveRuns, IsActiveRun
  <1>2. matching # {}
    BY <1>1
  <1>3. \A r : rank(r) \in 0 .. 2
    BY DEF HeadEvidencePriority
  <1> HIDE DEF matching, rank
  <1>4. S \in SUBSET Nat /\ S # {}
    BY <1>2, <1>3
  <1>5. PICK m \in S : \A n \in S : m <= n
    BY <1>4, LeastNumber
  <1>6. PICK run \in matching : m = 2 - rank(run)
    OBVIOUS
  <1>7. ASSUME NEW other \in matching PROVE rank(other) <= rank(run)
    <2>1. 2 - rank(other) \in S
      OBVIOUS
    <2>2. m <= 2 - rank(other)
      BY <1>5, <2>1
    <2> QED BY <1>3, <1>6, <2>2
  <1>8. run \in best
    BY <1>7
  <1>9. \A r \in best : r \in runs /\ r.action = a
    BY <1>1
  <1> HIDE DEF best
  <1>10. RepresentativeProjection(best) \in best
    BY <1>8, <1>9, Represented DEF ActiveRuns
  <1>11. RunsByAction(runs, a, current) = {RepresentativeProjection(best)}
    BY <1>2 DEF RunsByAction, best, matching, rank
  <1> QED BY <1>9, <1>10, <1>11

(* What RunsSound gives the lemmas above.                                  *)
LEMMA Runs ==
    ASSUME WorldOK, RunsSound
    PROVE  /\ MaxTime + Len(tasks) \in Nat /\ ActiveRuns(cmd.runs, MaxTime + Len(tasks))
           /\ \A r \in cmd.runs :
                /\ Lifecycle(r) \in {"queued", "running"} /\ IsActiveRun(r)
                /\ r.stamp \in 0 .. (MaxTime + Len(tasks))
                /\ r.task \in DOMAIN tasks /\ r.task # NoTask /\ r.task \notin over
                /\ r.action = tasks[r.task].action /\ r.sha \in {NoSha, tasks[r.task].sha}
  <1>1. MaxTime + Len(tasks) \in Nat
    BY WaitAssumption DEF WorldOK
  <1>2. \A r \in cmd.runs : Listed(r)
    BY DEF RunsSound
  <1>3. \A r \in cmd.runs : r.task \in DOMAIN tasks /\ r.task # NoTask
    BY <1>2, TaskTypes DEF Listed
  <1> QED BY <1>1, <1>2, <1>3 DEF Listed, ActiveRuns, IsActiveRun

(* A task that had to be guarded makes its audit active.                   *)
LEMMA GuardedIsActive ==
    ASSUME WorldOK, RunsSound, GhostsOK, NEW t \in guarded
    PROVE  tasks[t].action \in StatusActive
  <1> DEFINE a == tasks[t].action
  <1>1. PICK r \in cmd.runs : r.task = t
    BY DEF RunsSound
  <1>2. r.action = a
    BY <1>1, Runs
  <1>3. PICK q \in cmd.runs : q.action = a /\ RunsByAction(cmd.runs, a, cmd.cur) = {q}
    BY <1>2, Runs, Chosen
  <1>4. Lifecycle(q) \in {"queued", "running"}
    BY Runs
  <1>5. (CHOOSE r0 \in {q} : TRUE) = q
    OBVIOUS
  <1>6. ItemLifecycle(a) = Lifecycle(q)
    BY <1>3, <1>5 DEF ItemLifecycle
  <1>7. a \in Audit
    BY TaskTypes DEF GhostsOK
  <1> QED BY <1>4, <1>6, <1>7 DEF StatusActive

(* Advice to wait is about a task of the current commit, one that no       *)
(* lookup of the ledger found to be over.                                  *)
LEMMA AdviceFollows ==
    ASSUME WorldOK, RunsSound, NEW a, CurrentHeadAction(a) = "wait_for_current_head_run"
    PROVE  \E t \in DOMAIN tasks : tasks[t].action = a /\ tasks[t].sha = cmd.cur /\ t \notin over
  <1> DEFINE runs == RunsByAction(cmd.runs, a, cmd.cur)
             stale == CompareHeads(cmd.cur, cmd.audited[a])
  <1>1. /\ stale # "fresh" /\ stale # "unknown" /\ runs # {}
        /\ ActiveHeadStatus(CHOOSE r \in runs : TRUE, cmd.cur) = "wait_for_current_head_run"
    BY DEF CurrentHeadAction
  <1>2. cmd.cur # NoSha
    BY <1>1 DEF CompareHeads
  <1>3. \E r \in cmd.runs : r.action = a
    BY <1>1 DEF RunsByAction, ActiveRunsForAction
  <1>4. PICK q \in cmd.runs : q.action = a /\ runs = {q}
    BY <1>3, Runs, Chosen
  <1>5. (CHOOSE r \in runs : TRUE) = q
    BY <1>4
  <1>6. q.sha = cmd.cur
    BY <1>1, <1>2, <1>5 DEF ActiveHeadStatus
  <1> QED BY <1>2, <1>4, <1>6, Runs

(* A stale report names a run when a task of its audit had to be guarded.  *)
LEMMA NewerFound ==
    ASSUME WorldOK, RunsSound, NEW t \in guarded, NEW ref
    PROVE  NewerRunForReport(ref, tasks[t].action, TRUE) # NoTask
  <1> DEFINE a == tasks[t].action
             runs == NewerRuns(ref, a, TRUE)
  <1>1. PICK r \in cmd.runs : r.task = t
    BY DEF RunsSound
  <1>2. r \in runs
    BY <1>1, Runs DEF NewerRuns, ActiveRunsForAction
  <1>3. \A q \in runs : q \in cmd.runs
    BY DEF NewerRuns, ActiveRunsForAction
  <1> HIDE DEF runs
  <1>4. RepresentativeProjection(runs) \in runs
    BY <1>2, <1>3, Runs, Represented
  <1>5. RepresentativeProjection(runs).task # NoTask
    BY <1>3, <1>4, Runs
  <1> QED BY <1>2, <1>5 DEF NewerRunForReport, runs

----------------------------------------------------------------------------
(* The steps of the service and of its other users                         *)

(* What they leave alone: the command, of each accepted task its audit and *)
(* commit, and that it is over; and a new entry outlives any reading       *)
(* point.                                                                  *)
Frozen ==
    /\ cmd' = cmd /\ beats' = beats /\ late' = late /\ over' = over /\ guarded' = guarded
    /\ now' \in Nat /\ now <= now' /\ Len(tasks) <= Len(tasks')
    /\ \A t \in DOMAIN tasks :
         /\ t \in DOMAIN tasks' /\ tasks'[t].action = tasks[t].action
         /\ tasks'[t].sha = tasks[t].sha
         /\ tasks[t].state # "queued" => tasks'[t].state # "queued"
    /\ \A e \in ledger' : e \in ledger \/ now < e.expires

(* A step that freezes the command keeps what it learnt and observed.      *)
LEMMA FrozenKeeps ==
    ASSUME IInv, Frozen, WorldOK', LedgerOK'
    PROVE  IInv'
  <1> USE DEF IInv
  <1>1. /\ now \in Nat /\ now' \in Nat /\ now <= now' /\ Len(tasks) \in Nat /\ Len(tasks') \in Nat
        /\ Len(tasks) <= Len(tasks') /\ MaxTime \in Nat
    BY WaitAssumption DEF WorldOK, Frozen
  <1>2. CommandOK'
    BY <1>1 DEF CommandOK, Frozen
  <1>3. Paced'
    BY <1>1, WaitAssumption DEF Paced, CommandOK, Frozen
  <1>4. \A t \in DOMAIN tasks :
          /\ t \in DOMAIN tasks' /\ tasks'[t].action = tasks[t].action
          /\ tasks'[t].sha = tasks[t].sha /\ (~Active(t) => ~Active(t)')
    BY DEF Frozen, Active
  <1>5. GhostsOK'
    BY <1>4 DEF GhostsOK, Frozen
  <1>6. CacheOK'
    <2>1. \A t \in DOMAIN cmd.cache : AnswerOK(t, cmd.cache[t])'
      BY <1>4 DEF CacheOK, AnswerOK, Frozen
    <2>2. ASSUME NEW e \in ledger', e.task \in DOMAIN cmd.cache \cup cmd.pending
          PROVE  ~Expired(e, cmd.point)
      <3>1. CASE e \in ledger
        BY <2>2, <3>1 DEF CacheOK
      <3>2. CASE now < e.expires
        <4>1. e.expires \in Int /\ cmd.point \in 0 .. now
          BY LedgerAssumption DEF LedgerOK, EntryOK, CacheOK
        <4> QED BY <1>1, <3>2, <4>1 DEF Expired
      <3> QED BY <3>1, <3>2 DEF Frozen
    <2>3. /\ cmd'.point \in 0 .. now' /\ cmd'.listed \in 0 .. Len(tasks')
          /\ cmd'.pending \subseteq DOMAIN tasks' /\ DOMAIN cmd'.cache \subseteq DOMAIN tasks'
      BY <1>1, <1>4 DEF CacheOK, Frozen
    <2>4. cmd' = cmd
      BY DEF Frozen
    <2> QED BY <2>1, <2>2, <2>3, <2>4 DEF CacheOK
  <1>7. \A r : Listed(r) => Listed(r)'
    BY <1>1, <1>4 DEF Listed, Frozen
  <1>8. RunsSound => RunsSound'
    BY <1>7 DEF RunsSound, Frozen
  <1>9. Observed'
    BY <1>8 DEF Observed, Frozen
  <1>10. CompleteHonest'
    BY DEF CompleteHonest, Returned, Frozen
  <1>11. NewerRunNamed'
    BY <1>4 DEF NewerRunNamed, CompareHeads, Frozen, GhostsOK
  <1> QED BY <1>2, <1>3, <1>5, <1>6, <1>9, <1>10, <1>11

(* The entries stay in order while tasks keep their audit and commit.      *)
LEMMA LedgerStays ==
    ASSUME IInv, now' \in Nat, now <= now', ledger' \subseteq ledger,
           \A t \in DOMAIN tasks : /\ t \in DOMAIN tasks' /\ tasks'[t].action = tasks[t].action
                                   /\ tasks'[t].sha = tasks[t].sha
    PROVE  LedgerOK'
  <1>1. now \in Nat
    BY WaitAssumption DEF IInv, WorldOK
  <1>2. \A e : EntryOK(e) => EntryOK(e)'
    BY <1>1 DEF EntryOK
  <1> QED BY <1>2 DEF IInv, LedgerOK

(* The service accepts a task.                                             *)
LEMMA AcceptKeeps ==
    ASSUME IInv, NEW a \in Audit, Accept(a)
    PROVE  IInv'
  <1> DEFINE task == [action |-> a, sha |-> head, state |-> "queued", ended |-> 0,
                      origin |-> "started"]
  <1>1. task \in Task /\ tasks \in Seq(Task) /\ Len(tasks) \in Nat
    BY DEF IInv, WorldOK, Accept, Task, TaskStates
  <1>2. tasks' = Append(tasks, task) /\ now' = now /\ now \in Nat /\ ledger' = ledger
    BY WaitAssumption DEF Accept, IInv, WorldOK
  <1> HIDE DEF task
  <1>3. tasks' \in Seq(Task) /\ Len(tasks') = Len(tasks) + 1
    BY <1>1, <1>2
  <1>4. \A t \in DOMAIN tasks : t \in DOMAIN tasks' /\ tasks'[t] = tasks[t]
    BY <1>1, <1>2
  <1>5. WorldOK'
    BY <1>3 DEF IInv, WorldOK, Accept
  <1>6. LedgerOK'
    BY <1>2, <1>4, LedgerStays
  <1>7. Frozen
    BY <1>1, <1>2, <1>3, <1>4 DEF Frozen, Accept, pace, ghosts
  <1> QED BY <1>5, <1>6, <1>7, FrozenKeeps

(* One field or two of a task change.                                      *)
LEMMA TaskChanged ==
    ASSUME WorldOK, NEW t \in DOMAIN tasks, NEW task \in Task, tasks' = [tasks EXCEPT ![t] = task],
           task.action = tasks[t].action, task.sha = tasks[t].sha
    PROVE  /\ tasks' \in Seq(Task) /\ Len(tasks') = Len(tasks) /\ Len(tasks) \in Nat
           /\ \A u \in DOMAIN tasks :
                /\ u \in DOMAIN tasks' /\ tasks'[u].action = tasks[u].action
                /\ tasks'[u].sha = tasks[u].sha /\ (u # t => tasks'[u] = tasks[u])
           /\ tasks'[t] = task
  <1>1. tasks \in Seq(Task) /\ Len(tasks) \in Nat /\ DOMAIN tasks = 1 .. Len(tasks)
    BY DEF WorldOK
  <1>2. t \in 1 .. Len(tasks)
    BY <1>1
  <1>3. [tasks EXCEPT ![t] = task] \in Seq(Task) /\ Len([tasks EXCEPT ![t] = task]) = Len(tasks)
    BY <1>1, <1>2, ExceptSeq, Zenon
  <1>4. tasks' \in Seq(Task) /\ Len(tasks') = Len(tasks)
    BY <1>3, Zenon
  <1>5. DOMAIN tasks' = DOMAIN tasks
    BY <1>1, <1>4
  <1> QED BY <1>1, <1>4, <1>5

(* The end of a task, with whatever verdict.                               *)
LEMMA EndKeeps ==
    ASSUME IInv, NEW t \in DOMAIN tasks, NEW state \in {"completed", "failed"},
           tasks' = Ended(t, state), audited' \in [Audit -> 0 .. MaxHeads],
           UNCHANGED <<now, head, ledger, cmd, pace, ghosts>>
    PROVE  IInv'
  <1> DEFINE task == [tasks[t] EXCEPT !.state = state, !.ended = Len(tasks)]
  <1>1. WorldOK /\ tasks[t] \in Task /\ Len(tasks) \in Nat
    BY TaskTypes DEF IInv
  <1>2. tasks' = [tasks EXCEPT ![t] = task]
    BY <1>1 DEF Task, Ended
  <1>3. /\ task \in Task /\ task.action = tasks[t].action /\ task.sha = tasks[t].sha
        /\ task.state # "queued"
    BY <1>1 DEF Task, TaskStates
  <1> HIDE DEF task
  <1>4. /\ tasks' \in Seq(Task) /\ Len(tasks') = Len(tasks)
        /\ \A u \in DOMAIN tasks :
             /\ u \in DOMAIN tasks' /\ tasks'[u].action = tasks[u].action
             /\ tasks'[u].sha = tasks[u].sha /\ (u # t => tasks'[u] = tasks[u])
        /\ tasks'[t] = task
    BY <1>1, <1>2, <1>3, TaskChanged
  <1>5. WorldOK'
    BY <1>1, <1>4 DEF WorldOK
  <1>6. now' = now /\ now \in Nat /\ ledger' = ledger
    BY <1>1, WaitAssumption DEF WorldOK
  <1>7. LedgerOK'
    BY <1>4, <1>6, LedgerStays
  <1>8. Frozen
    BY <1>1, <1>3, <1>4, <1>6 DEF Frozen, pace, ghosts
  <1> QED BY <1>5, <1>7, <1>8, FrozenKeeps

(* The service completes a task.                                           *)
LEMMA CompleteKeeps ==
    ASSUME IInv, NEW t \in DOMAIN tasks, Complete(t)
    PROVE  IInv'
  <1>1. tasks[t].sha \in 0 .. MaxHeads /\ audited \in [Audit -> 0 .. MaxHeads]
    BY TaskTypes, WaitAssumption DEF IInv, WorldOK
  <1>2. audited' \in [Audit -> 0 .. MaxHeads]
    BY <1>1 DEF Complete
  <1> QED BY <1>2, EndKeeps DEF Complete

(* A task fails.                                                           *)
LEMMA FailKeeps ==
    ASSUME IInv, NEW t \in DOMAIN tasks, Fail(t)
    PROVE  IInv'
  <1>1. audited' \in [Audit -> 0 .. MaxHeads]
    BY DEF Fail, IInv, WorldOK
  <1> QED BY <1>1, EndKeeps DEF Fail

(* The start of a task is recorded; its entry outlives any reading point.  *)
LEMMA RecordKeeps ==
    ASSUME IInv, NEW t \in DOMAIN tasks, Record(t)
    PROVE  IInv'
  <1> DEFINE task == [tasks[t] EXCEPT !.origin = "recorded"]
  <1>0. PICK new : new = NewEntry(Repo, tasks[t].action, t, "queued", tasks[t].sha, now)
    OBVIOUS
  <1>1. WorldOK /\ LedgerOK /\ tasks[t] \in Task
    BY TaskTypes DEF IInv
  <1>2. tasks' = [tasks EXCEPT ![t] = task]
    BY <1>1 DEF Task, Record
  <1>3. /\ task \in Task /\ task.action = tasks[t].action /\ task.sha = tasks[t].sha
        /\ task.state = tasks[t].state
    BY <1>1 DEF Task
  <1> HIDE DEF task
  <1>4. /\ tasks' \in Seq(Task) /\ Len(tasks') = Len(tasks) /\ Len(tasks) \in Nat
        /\ \A u \in DOMAIN tasks :
             /\ u \in DOMAIN tasks' /\ tasks'[u].action = tasks[u].action
             /\ tasks'[u].sha = tasks[u].sha /\ (u # t => tasks'[u] = tasks[u])
        /\ tasks'[t] = task
    BY <1>1, <1>2, <1>3, TaskChanged
  <1>5. WorldOK'
    BY <1>1, <1>4 DEF WorldOK, Record
  <1>6. now' = now /\ now \in Nat
    BY <1>1, WaitAssumption DEF WorldOK, Record
  <1>7. /\ new.repo = Repo /\ new.action = tasks[t].action /\ new.task = t /\ new.status = "queued"
        /\ new.sha = tasks[t].sha /\ new.observed = now /\ new.expires = now + Ttl
    BY <1>0 DEF NewEntry
  <1>8. PICK entries \in ReadLedger : ledger' = RecordStarted(entries, new)
    BY <1>0 DEF Record
  <1>9. entries \subseteq ledger /\ \A e \in entries : EntryOK(e)
    BY <1>1, EntriesRead
  <1>10. \A e \in ledger' : e = new \/ (e \in entries /\ e.task # t)
    <2>1. ASSUME NEW e \in entries, e.task = t PROVE SameIdentity(e, new)
      BY <1>7, <1>9, <2>1 DEF EntryOK, SameIdentity
    <2> QED BY <1>8, <2>1 DEF RecordStarted
  <1>11. LedgerOK'
    <2>1. \A e : EntryOK(e) => EntryOK(e)'
      BY <1>4, <1>6 DEF EntryOK
    <2>2. EntryOK(new)'
      BY <1>4, <1>6, <1>7 DEF EntryOK
    <2>3. \A e \in ledger' : EntryOK(e)'
      BY <1>9, <1>10, <2>1, <2>2
    <2>4. \A e, f \in ledger' : e.task = f.task => e = f
      BY <1>1, <1>7, <1>9, <1>10 DEF LedgerOK
    <2> QED BY <2>3, <2>4 DEF LedgerOK
  <1>12. Frozen
    <2>1. \A e \in ledger' : e \in ledger \/ now < e.expires
      BY <1>6, <1>7, <1>9, <1>10, LedgerAssumption
    <2> QED BY <1>3, <1>4, <1>6, <2>1 DEF Frozen, Record, pace, ghosts
  <1> QED BY <1>5, <1>11, <1>12, FrozenKeeps

(* A push, the clock, or another command's reconciliation.                 *)
LEMMA WorldKeeps ==
    ASSUME IInv, Push \/ Tick \/ (\E e \in ledger : Reconciled(e))
    PROVE  IInv'
  <1>1. /\ tasks' = tasks /\ ledger' \subseteq ledger /\ now' \in Nat /\ now <= now'
        /\ UNCHANGED <<cmd, beats, late, over, guarded>>
    BY WaitAssumption DEF IInv, WorldOK, Push, Tick, Reconciled, service, pace, ghosts
  <1>2. WorldOK'
    BY WaitAssumption DEF IInv, WorldOK, Push, Tick, Reconciled, service
  <1>3. LedgerOK'
    BY <1>1, LedgerStays
  <1>4. Len(tasks) \in Nat
    BY DEF IInv, WorldOK
  <1>5. Frozen
    BY <1>1, <1>4 DEF Frozen
  <1> QED BY <1>2, <1>3, <1>5, FrozenKeeps

----------------------------------------------------------------------------
(* The steps of the command                                                *)

(* What a step of the command leaves alone.                                *)
Still == now' = now /\ head' = head /\ tasks' = tasks /\ audited' = audited

(* Such a step keeps the world's types, and the order of the ledger if it  *)
(* adds no entry.                                                          *)
LEMMA StillWorld ==
    ASSUME IInv, Still, ledger' \subseteq ledger
    PROVE  WorldOK' /\ LedgerOK' /\ now \in Nat /\ now' = now /\ Len(tasks) \in Nat
  <1>1. now \in Nat /\ Len(tasks) \in Nat /\ now' = now /\ tasks' = tasks
    BY WaitAssumption DEF IInv, WorldOK, Still
  <1>2. LedgerOK'
    BY <1>1, LedgerStays
  <1> QED BY <1>1, <1>2 DEF IInv, WorldOK, Still

(* Two commands agree on some fields.                                      *)
Same(c, d, names) == \A n \in names : c[n] = d[n]

(* The fields of the reconciliation under way.                             *)
Reconciling == {"step", "point", "listed", "pending", "cache"}

(* A step that touches none of them, nor adds an entry, keeps what they    *)
(* say, and so does one that clears them.                                  *)
LEMMA CacheStays ==
    ASSUME CacheOK, Still, ledger' \subseteq ledger, over' = over, Same(cmd', cmd, Reconciling)
    PROVE  CacheOK'
  <1>1. \A t, d : AnswerOK(t, d) => AnswerOK(t, d)'
    BY DEF AnswerOK, Active, Still
  <1>2. /\ cmd'.step = cmd.step /\ cmd'.point = cmd.point /\ cmd'.listed = cmd.listed
        /\ cmd'.pending = cmd.pending /\ cmd'.cache = cmd.cache
    BY DEF Same, Reconciling
  <1> QED BY <1>1, <1>2 DEF CacheOK, Still

(* Nothing learnt is nothing wrong.                                        *)
LEMMA CacheCleared ==
    ASSUME WorldOK', cmd'.step = "list", cmd'.point = 0, cmd'.listed = 0, cmd'.pending = {},
           cmd'.cache = <<>>
    PROVE  CacheOK'
  <1>1. now' \in Nat /\ Len(tasks') \in Nat /\ DOMAIN <<>> = {}
    BY WaitAssumption DEF WorldOK
  <1> QED BY <1>1 DEF CacheOK

(* The links, and the rerun state with the commits the advice compares,    *)
(* only add to what the command has got.                                   *)
LEMMA ReadsKeep ==
    ASSUME IInv, ReadLinks \/ ReadRerunState
    PROVE  IInv'
  <1> USE DEF IInv
  <1>1. /\ Still /\ ledger' = ledger /\ beats' = beats /\ late' = late
        /\ over' = over /\ guarded' = guarded
    BY DEF ReadLinks, ReadRerunState, Still, service, pace, ghosts
  <1>2. WorldOK' /\ LedgerOK' /\ now \in Nat /\ now' = now
    BY <1>1, StillWorld
  <1>3. PICK what \in {"links", "rerun"} :
          /\ Fields \subseteq DOMAIN cmd' /\ cmd'.got = cmd.got \cup {what}
          /\ Same(cmd', cmd, Fields \ {"got", "links", "cur", "audited"})
    BY DEF ReadLinks, ReadRerunState, CommandOK, Same, Fields
  <1>4. cmd.pc = "read" /\ cmd'.pc = "read" /\ what \in Reads /\ what # "runs"
    BY <1>3 DEF ReadLinks, ReadRerunState, Reading, Same, Fields, Reads
  <1>5. CommandOK'
    BY <1>2, <1>3, <1>4 DEF CommandOK, Same, Fields
  <1>6. Paced'
    BY <1>1, <1>2, <1>3 DEF Paced, Same, Fields
  <1>7. CacheOK'
    BY <1>1, <1>3, CacheStays DEF Same, Fields, Reconciling
  <1>8. GhostsOK'
    BY <1>1 DEF GhostsOK, Active, Still
  <1>9. RunsSound => RunsSound'
    BY <1>1, <1>3 DEF RunsSound, Listed, Same, Fields, Still
  <1>10. Observed'
    BY <1>3, <1>4, <1>9 DEF Observed
  <1> QED BY <1>2, <1>4, <1>5, <1>6, <1>7, <1>8, <1>10 DEF CompleteHonest, Returned, NewerRunNamed

(* What the steps of a reconciliation before its commit have in common.    *)
LEMMA ReconcilingKeeps ==
    ASSUME IInv, Still, ledger' = ledger, beats' = beats, late' = late, guarded' = guarded,
           GhostsOK', Reading("runs"), Fields \subseteq DOMAIN cmd',
           Same(cmd', cmd, Fields \ (Reconciling \cup {"round"})),
           cmd'.step \in {"list", "round", "lookup", "commit"}, CacheOK'
    PROVE  IInv'
  <1> USE DEF IInv
  <1>1. WorldOK' /\ LedgerOK' /\ now \in Nat /\ now' = now
    BY StillWorld
  <1>2. /\ cmd'.pc = "read" /\ "runs" \notin cmd'.got /\ cmd'.got = cmd.got
        /\ cmd'.reason = cmd.reason /\ cmd'.wake = cmd.wake /\ cmd'.next = cmd.next
        /\ cmd'.started = cmd.started /\ cmd'.polled = cmd.polled /\ cmd.pc = "read"
    BY DEF Same, Fields, Reconciling, Reading
  <1>3. CommandOK'
    BY <1>1, <1>2 DEF CommandOK
  <1>4. Paced'
    BY <1>1, <1>2 DEF Paced
  <1>5. Observed'
    BY <1>2 DEF Observed
  <1> QED BY <1>1, <1>2, <1>3, <1>4, <1>5 DEF CompleteHonest, Returned, NewerRunNamed

(* The list is answered: the tasks that are over are noted.                *)
LEMMA ListRunsKeeps ==
    ASSUME IInv, ListRuns
    PROVE  IInv'
  <1> USE DEF IInv
  <1>1. /\ Still /\ ledger' = ledger /\ beats' = beats /\ late' = late /\ guarded' = guarded
        /\ over' = {t \in DOMAIN tasks : ~Active(t)} /\ Reading("runs") /\ cmd.step = "list"
    BY DEF ListRuns, Still, service, pace
  <1>2. /\ Fields \subseteq DOMAIN cmd' /\ cmd'.step = "round" /\ cmd'.point = now
        /\ cmd'.listed = Len(tasks)
        /\ Same(cmd', cmd, Fields \ {"step", "point", "listed"})
    BY DEF ListRuns, CommandOK, Same, Fields
  <1>3. now \in Nat /\ now' = now /\ Len(tasks) \in Nat /\ tasks' = tasks
    BY <1>1, StillWorld DEF Still
  <1>4. cmd'.cache = <<>> /\ cmd'.pending = {} /\ DOMAIN <<>> = {}
    BY <1>1, <1>2 DEF CacheOK, Same, Fields
  <1>5. CacheOK'
    BY <1>2, <1>3, <1>4 DEF CacheOK
  <1>6. GhostsOK'
    BY <1>1 DEF GhostsOK, Active, Still
  <1>7. Same(cmd', cmd, Fields \ (Reconciling \cup {"round"}))
    BY <1>2 DEF Same, Reconciling
  <1> QED BY <1>1, <1>2, <1>5, <1>6, <1>7, ReconcilingKeeps

(* A round finds tasks to look up: each has one entry, and that is live.   *)
LEMMA NextRoundKeeps ==
    ASSUME IInv, NextRound
    PROVE  IInv'
  <1> USE DEF IInv
  <1>1. /\ Still /\ ledger' = ledger /\ beats' = beats /\ late' = late
        /\ guarded' = guarded /\ over' = over /\ Reading("runs") /\ cmd.step = "round"
    BY DEF NextRound, Still, service, pace, ghosts
  <1>2. PICK entries \in ReadLedger :
          LET pending == PendingLookups(entries, Repo, cmd.point, cmd.cache)
          IN  cmd' = [cmd EXCEPT !.step = IF pending = {} THEN "commit" ELSE "lookup",
                                 !.pending = pending, !.round = @ + 1]
    BY DEF NextRound
  <1> DEFINE pending == PendingLookups(entries, Repo, cmd.point, cmd.cache)
  <1>3. /\ Fields \subseteq DOMAIN cmd' /\ cmd'.pending = pending
        /\ cmd'.step = IF pending = {} THEN "commit" ELSE "lookup"
        /\ Same(cmd', cmd, Fields \ {"step", "pending", "round"})
    BY <1>2 DEF CommandOK, Same, Fields
  <1>4. entries \subseteq ledger /\ \A e \in entries : EntryOK(e)
    BY EntriesRead
  <1>5. \A t \in pending : \E e \in entries : e.task = t /\ ~Expired(e, cmd.point)
    BY DEF PendingLookups, Live
  <1> HIDE DEF pending
  <1>6. pending \subseteq DOMAIN tasks
    BY <1>4, <1>5 DEF EntryOK
  <1>7. \A e \in ledger : e.task \in pending => ~Expired(e, cmd.point)
    BY <1>4, <1>5 DEF LedgerOK
  <1>8. cmd'.point = cmd.point /\ cmd'.listed = cmd.listed /\ cmd'.cache = cmd.cache
    BY <1>3 DEF Same, Fields
  <1>9. \A t, d : AnswerOK(t, d) => AnswerOK(t, d)'
    BY <1>1 DEF AnswerOK, Active, Still
  <1>10. CacheOK'
    BY <1>1, <1>3, <1>6, <1>7, <1>8, <1>9 DEF CacheOK, Still
  <1>11. GhostsOK'
    BY <1>1 DEF GhostsOK, Active, Still
  <1>12. Same(cmd', cmd, Fields \ (Reconciling \cup {"round"}))
    BY <1>3 DEF Same, Reconciling
  <1>13. cmd'.step \in {"list", "round", "lookup", "commit"}
    BY <1>3
  <1> QED BY <1>1, <1>3, <1>10, <1>11, <1>12, <1>13, ReconcilingKeeps

(* A lookup is answered: a task at work now was not over at the list.      *)
LEMMA LookupKeeps ==
    ASSUME IInv, NEW t \in cmd.pending, Lookup(t)
    PROVE  IInv'
  <1> USE DEF IInv
  <1>1. /\ Still /\ ledger' = ledger /\ beats' = beats /\ late' = late
        /\ guarded' = guarded /\ over' = over /\ Reading("runs") /\ cmd.step = "lookup"
    BY DEF Lookup, Still, service, pace, ghosts
  <1>2. PICK answer \in {Detail(tasks[t].state), NotFound, LookupError} :
          LET left == cmd.pending \ {t}
          IN  cmd' = [cmd EXCEPT
                !.step = IF left # {} THEN "lookup"
                         ELSE IF cmd.round < MaxLookupRounds THEN "round" ELSE "commit",
                !.pending = left,
                !.cache = [u \in DOMAIN @ \cup {t} |-> IF u = t THEN answer ELSE @[u]]]
    BY DEF Lookup
  <1> DEFINE left == cmd.pending \ {t}
  <1> PICK cache : cache = [u \in DOMAIN cmd.cache \cup {t} |->
                               IF u = t THEN answer ELSE cmd.cache[u]]
    OBVIOUS
  <1>3. /\ Fields \subseteq DOMAIN cmd' /\ cmd'.pending = left /\ cmd'.cache = cache
        /\ cmd'.step = IF left # {} THEN "lookup"
                       ELSE IF cmd.round < MaxLookupRounds THEN "round" ELSE "commit"
        /\ Same(cmd', cmd, Fields \ {"step", "pending", "cache"})
    BY <1>2 DEF CommandOK, Same, Fields
  <1>4. t \in DOMAIN tasks /\ tasks[t].state \in TaskStates
    BY TaskTypes DEF CacheOK
  <1>5. AnswerOK(t, answer)
    BY <1>4 DEF AnswerOK, Active, GhostsOK, TaskStates
  <1>6. DOMAIN cache = DOMAIN cmd.cache \cup {t} /\ cache[t] = answer
        /\ \A u \in DOMAIN cmd.cache : u # t => cache[u] = cmd.cache[u]
    OBVIOUS
  <1>7. \A u \in DOMAIN cache : AnswerOK(u, cache[u])
    BY <1>5, <1>6 DEF CacheOK
  <1>8. \A u, d : AnswerOK(u, d) => AnswerOK(u, d)'
    BY <1>1 DEF AnswerOK, Active, Still
  <1>9. cmd'.point = cmd.point /\ cmd'.listed = cmd.listed
    BY <1>3 DEF Same, Fields
  <1>10. DOMAIN cache \cup left = DOMAIN cmd.cache \cup cmd.pending
    BY <1>6
  <1>11. cmd'.step # "list" /\ (cmd'.step # "lookup" => left = {})
    BY <1>3
  <1>12. CacheOK'
    <2>1. cmd'.point \in 0 .. now' /\ cmd'.listed \in 0 .. Len(tasks')
      BY <1>1, <1>9 DEF CacheOK, Still
    <2>2. cmd'.pending \subseteq DOMAIN tasks' /\ DOMAIN cmd'.cache \subseteq DOMAIN tasks'
      BY <1>1, <1>3, <1>4, <1>6 DEF CacheOK, Still
    <2>3. \A u \in DOMAIN cache : AnswerOK(u, cache[u])'
      BY <1>7, <1>8
    <2>4. \A e \in ledger' : e.task \in DOMAIN cmd'.cache \cup cmd'.pending
                               => ~Expired(e, cmd'.point)
      BY <1>1, <1>3, <1>9, <1>10 DEF CacheOK
    <2> QED BY <1>3, <1>11, <2>1, <2>2, <2>3, <2>4 DEF CacheOK
  <1>13. GhostsOK'
    BY <1>1 DEF GhostsOK, Active, Still
  <1>14. Same(cmd', cmd, Fields \ (Reconciling \cup {"round"}))
    BY <1>3 DEF Same, Reconciling
  <1>15. cmd'.step \in {"list", "round", "lookup", "commit"}
    BY <1>3
  <1> QED BY <1>1, <1>3, <1>12, <1>13, <1>14, <1>15, ReconcilingKeeps

(* The commit only takes entries away, and makes the observation sound.    *)
LEMMA CommitKeeps ==
    ASSUME IInv, Commit
    PROVE  IInv'
  <1> USE DEF IInv
  <1>1. PICK entries \in ReadLedger, headed \in SUBSET (1 .. cmd.listed) :
          \E headless \in SUBSET ((1 .. cmd.listed) \ headed) :
            CommitReconciliation(entries, Upstream(headed, headless))
    BY Zenon DEF Commit
  <1>2. PICK headless \in SUBSET ((1 .. cmd.listed) \ headed) :
            CommitReconciliation(entries, Upstream(headed, headless))
    BY <1>1, Zenon
  <1> DEFINE U == Upstream(headed, headless)
             R == ReconciledRuns(entries, Repo, cmd.cache, cmd.point, U)
  <1>3. /\ Reading("runs") /\ cmd.step = "commit" /\ headless \in SUBSET (1 .. cmd.listed)
    BY DEF Commit
  <1>4. /\ \A r \in R : Fit(r, entries)
        /\ entries = ledger => \A t \in MustGuard : \E r \in R : r.task = t
    BY <1>3, ReconciledSound
  <1>5. /\ Still /\ beats' = beats /\ late' = late
        /\ over' = StillOver(entries)
        /\ guarded' = IF entries = ledger THEN MustGuard ELSE {}
        /\ ledger' = IF CommitOn(entries, U) = entries THEN ledger ELSE CommitOn(entries, U)
    BY <1>2 DEF CommitReconciliation, Still, service, pace, StillOver
  <1>6. /\ Fields \subseteq DOMAIN cmd' /\ cmd'.got = cmd.got \cup {"runs"} /\ cmd'.step = "list"
        /\ cmd'.point = 0 /\ cmd'.listed = 0 /\ cmd'.cache = <<>> /\ cmd'.runs = R
        /\ Same(cmd', cmd, Fields \ {"got", "step", "point", "round", "listed", "cache", "runs"})
    BY <1>2 DEF CommitReconciliation, CommandOK, Same, Fields
  <1> HIDE DEF R
  <1>7. CommitOn(entries, U) \subseteq entries /\ entries \subseteq ledger
    BY EntriesRead DEF CommitOn, Retained, Live
  <1>8. ledger' \subseteq ledger
    BY <1>5, <1>7
  <1> HIDE DEF U
  <1>9. WorldOK' /\ LedgerOK' /\ now \in Nat /\ now' = now
    BY <1>5, <1>8, StillWorld
  <1>10. /\ cmd'.pc = "read" /\ cmd.pc = "read" /\ cmd'.pending = {} /\ "runs" \in Reads
         /\ cmd'.reason = cmd.reason /\ cmd'.wake = cmd.wake /\ cmd'.next = cmd.next
         /\ cmd'.started = cmd.started /\ cmd'.polled = cmd.polled
    BY <1>3, <1>6 DEF Same, Fields, Reading, CacheOK, Reads
  <1>11. CommandOK'
    BY <1>6, <1>9, <1>10 DEF CommandOK
  <1>12. Paced'
    BY <1>5, <1>9, <1>10 DEF Paced
  <1>13. CacheOK'
    BY <1>6, <1>9, <1>10, CacheCleared
  <1>14. GhostsOK'
    BY <1>5 DEF GhostsOK, Active, Still, StillOver, MustGuard
  <1>15. RunsSound'
    <2>1. \A r \in R : Listed(r)'
      BY <1>4, <1>5 DEF Fit, Listed, Still
    <2>2. \A t \in guarded' : \E r \in R : r.task = t
      BY <1>4, <1>5
    <2> QED BY <1>6, <2>1, <2>2 DEF RunsSound
  <1>16. Observed'
    BY <1>15 DEF Observed
  <1> QED BY <1>9, <1>10, <1>11, <1>12, <1>13, <1>14, <1>16
          DEF CompleteHonest, Returned, NewerRunNamed

(* A failing read forgets the observation; at most it takes entries away.  *)
LEMMA ReadFailsKeeps ==
    ASSUME IInv, ReadFails
    PROVE  IInv'
  <1> USE DEF IInv
  <1>1. Still /\ beats' = beats /\ late' = late /\ over' = {} /\ guarded' = {}
    BY DEF ReadFails, Still, service, pace
  <1>2. ledger' \subseteq ledger
    BY DEF ReadFails, CommitOn, Retained, Live
  <1>3. WorldOK' /\ LedgerOK' /\ now \in Nat /\ now' = now
    BY <1>1, <1>2, StillWorld
  <1>4. cmd' = [Idle EXCEPT !.pc = "done", !.reason = "error"]
    BY DEF ReadFails
  <1>5. /\ Fields \subseteq DOMAIN cmd' /\ cmd'.pc = "done" /\ cmd'.got = {}
        /\ cmd'.reason = "error" /\ cmd'.kind = "none" /\ cmd'.step = "list"
        /\ cmd'.point = 0 /\ cmd'.listed = 0 /\ cmd'.pending = {} /\ cmd'.cache = <<>>
        /\ cmd'.wake = 0 /\ cmd'.next = 0 /\ cmd'.started = 0
    BY <1>4 DEF Idle, Fields
  <1>6. CommandOK'
    BY <1>3, <1>5 DEF CommandOK
  <1>7. Paced'
    BY <1>1, <1>5 DEF Paced
  <1>8. CacheOK'
    BY <1>3, <1>5, CacheCleared
  <1>9. GhostsOK'
    BY <1>1 DEF GhostsOK
  <1>10. Observed'
    BY <1>5 DEF Observed
  <1> QED BY <1>3, <1>5, <1>6, <1>7, <1>8, <1>9, <1>10 DEF CompleteHonest, Returned, NewerRunNamed

(* A command starts with nothing observed and its first heartbeat due.     *)
LEMMA BeginKeeps ==
    ASSUME IInv, Begin
    PROVE  IInv'
  <1> USE DEF IInv
  <1>1. /\ Still /\ ledger' = ledger /\ beats' = beats /\ late' = late
        /\ over' = over /\ guarded' = guarded /\ cmd.pc = "idle"
    BY DEF Begin, Still, service, pace, ghosts
  <1>2. WorldOK' /\ LedgerOK' /\ now \in Nat /\ now' = now
    BY <1>1, StillWorld
  <1>3. cmd' = [Idle EXCEPT !.pc = "read", !.started = now, !.polled = now, !.next = now]
    BY DEF Begin
  <1>4. /\ Fields \subseteq DOMAIN cmd' /\ cmd'.pc = "read" /\ cmd'.got = {}
        /\ cmd'.reason = "none" /\ cmd'.step = "list"
        /\ cmd'.point = 0 /\ cmd'.listed = 0 /\ cmd'.pending = {} /\ cmd'.cache = <<>>
        /\ cmd'.wake = 0 /\ cmd'.next = now /\ cmd'.started = now /\ cmd'.polled = now
    BY <1>3 DEF Idle, Fields
  <1>5. CommandOK'
    BY <1>2, <1>4 DEF CommandOK
  <1>6. beats = 0 /\ beats' * HeartbeatSeconds = 0 /\ late' \in BOOLEAN
    BY <1>1, WaitAssumption DEF Paced
  <1>7. Paced'
    BY <1>1, <1>2, <1>4, <1>6, WaitAssumption DEF Paced
  <1>8. CacheOK'
    BY <1>2, <1>4, CacheCleared
  <1>9. GhostsOK'
    BY <1>1 DEF GhostsOK, Active, Still
  <1>10. Observed'
    BY <1>4 DEF Observed
  <1> QED BY <1>2, <1>4, <1>5, <1>7, <1>8, <1>9, <1>10 DEF CompleteHonest, Returned, NewerRunNamed

(* A verdict: completion is impossible while a task had to be guarded,     *)
(* since its audit would be active.                                        *)
LEMMA ReturnKeeps ==
    ASSUME IInv, Return
    PROVE  IInv'
  <1> USE DEF IInv
  <1>1. /\ Still /\ ledger' = ledger /\ beats' = beats /\ late' = late
        /\ over' = over /\ guarded' = guarded
    BY DEF Return, Still, service, pace, ghosts
  <1>2. WorldOK' /\ LedgerOK' /\ now \in Nat /\ now' = now
    BY <1>1, StillWorld
  <1>3. cmd' = [Idle EXCEPT !.pc = "done", !.kind = "wait", !.reason = Reason]
    BY DEF Return
  <1>4. Reason \in {"complete", "waiting", "failed", "missing", "timeout"}
    BY DEF Reason
  <1>5. /\ Fields \subseteq DOMAIN cmd' /\ cmd'.pc = "done" /\ cmd'.got = {}
        /\ cmd'.reason = Reason /\ cmd'.kind = "wait" /\ cmd'.step = "list"
        /\ cmd'.point = 0 /\ cmd'.listed = 0 /\ cmd'.pending = {} /\ cmd'.cache = <<>>
        /\ cmd'.wake = 0 /\ cmd'.next = 0 /\ cmd'.started = 0
    BY <1>3 DEF Idle, Fields
  <1>6. CommandOK'
    BY <1>2, <1>4, <1>5 DEF CommandOK
  <1>7. Paced'
    BY <1>1, <1>5 DEF Paced
  <1>8. CacheOK'
    BY <1>2, <1>5, CacheCleared
  <1>9. GhostsOK'
    BY <1>1 DEF GhostsOK, Active, Still
  <1>10. Observed'
    BY <1>5 DEF Observed
  <1>11. CompleteHonest'
    <2> SUFFICES ASSUME Reason = "complete", NEW t \in guarded
                 PROVE  FALSE
      BY <1>1, <1>5 DEF CompleteHonest, Returned
    <2>1. StatusActive = {}
      BY DEF Reason
    <2>2. RunsSound
      BY DEF Return, Observed, Reads
    <2> QED BY <2>1, <2>2, GuardedIsActive
  <1>12. NewerRunNamed'
    BY <1>5 DEF NewerRunNamed
  <1> QED BY <1>2, <1>6, <1>7, <1>8, <1>9, <1>10, <1>11, <1>12

(* A heartbeat that is due moves the next one by one interval.             *)
LEMMA OneMoreBeat ==
    ASSUME NEW n \in Nat, NEW h \in Nat
    PROVE  (n + 1) * h = n * h + h /\ n * h \in Nat
  OBVIOUS

(* A sleep ends by the deadline and keeps the heartbeats on schedule.      *)
LEMMA SleepKeeps ==
    ASSUME IInv, Sleep
    PROVE  IInv'
  <1> USE DEF IInv
  <1>1. Still /\ ledger' = ledger /\ over' = {} /\ guarded' = {}
    BY DEF Sleep, Still, service
  <1>2. WorldOK' /\ LedgerOK' /\ now \in Nat /\ now' = now
    BY <1>1, StillWorld
  <1> DEFINE wake == now + Minimum(PollSeconds, Deadline - now)
  <1>3. cmd' = [Idle EXCEPT !.pc = "sleep", !.kind = "wait", !.started = cmd.started,
                            !.polled = now, !.next = Beat(cmd.next), !.wake = wake]
    BY DEF Sleep
  <1>4. /\ cmd.pc = "read" /\ cmd.started \in 0 .. now /\ cmd.next \in Nat
        /\ beats \in Nat /\ late \in BOOLEAN
        /\ cmd.polled \in cmd.started .. now
        /\ cmd.next = cmd.started + beats * HeartbeatSeconds
        /\ beats = 0 => cmd.polled = cmd.started
        /\ beats > 0 => cmd.next - HeartbeatSeconds <= cmd.polled
        /\ late \/ beats = 0 \/ cmd.polled < cmd.next
    BY DEF Sleep, CommandOK, Paced
  <1>5. wake \in Nat
    <2>1. Deadline \in Nat /\ now < Deadline
      BY <1>2, <1>4, WaitAssumption DEF Sleep, Settled, TimedOut, Deadline
    <2> QED BY <1>2, <2>1, WaitAssumption DEF Minimum
  <1> HIDE DEF wake
  <1>6. /\ Fields \subseteq DOMAIN cmd' /\ cmd'.pc = "sleep" /\ cmd'.got = {}
        /\ cmd'.reason = "none" /\ cmd'.step = "list"
        /\ cmd'.point = 0 /\ cmd'.listed = 0 /\ cmd'.pending = {} /\ cmd'.cache = <<>>
        /\ cmd'.wake = wake /\ cmd'.next = Beat(cmd.next) /\ cmd'.started = cmd.started
        /\ cmd'.polled = now
    BY <1>3 DEF Idle, Fields
  <1>7. Beat(cmd.next) \in Nat
    BY <1>4, WaitAssumption DEF Beat
  <1>8. CommandOK'
    BY <1>2, <1>4, <1>5, <1>6, <1>7 DEF CommandOK
  <1>9. beats = 0 => cmd.next = cmd.started
    BY <1>4, WaitAssumption
  <1>10. /\ late' = (late \/ now - cmd.polled >= HeartbeatSeconds)
         /\ beats' = IF now >= cmd.next THEN beats + 1 ELSE beats
    BY DEF Sleep
  <1>11. late' \in BOOLEAN /\ (~late' => ~late /\ now - cmd.polled < HeartbeatSeconds)
    <2>1. (now - cmd.polled >= HeartbeatSeconds) = ~(now - cmd.polled < HeartbeatSeconds)
      BY <1>2, <1>4, WaitAssumption
    <2>2. (now - cmd.polled >= HeartbeatSeconds) \in BOOLEAN
      BY <1>2, <1>4, WaitAssumption
    <2> QED BY <1>4, <1>10, <2>1, <2>2, Zenon
  <1>12. Paced'
    <2>1. CASE now >= cmd.next
      <3>1. beats' = beats + 1 /\ cmd'.next = cmd.next + HeartbeatSeconds
        BY <1>6, <1>10, <2>1 DEF Beat
      <3>2. cmd'.next = cmd'.started + beats' * HeartbeatSeconds
        BY <1>2, <1>4, <1>6, <3>1, OneMoreBeat, WaitAssumption
      <3>3. cmd'.next - HeartbeatSeconds <= cmd'.polled
        BY <1>2, <1>4, <1>6, <2>1, <3>1, WaitAssumption
      <3>4. late' \/ cmd'.polled < cmd'.next
        BY <1>2, <1>4, <1>6, <1>9, <1>11, <3>1, WaitAssumption
      <3> QED BY <1>2, <1>4, <1>6, <1>11, <3>1, <3>2, <3>3, <3>4 DEF Paced
    <2>2. CASE ~(now >= cmd.next)
      <3>1. beats' = beats /\ cmd'.next = cmd.next
        BY <1>6, <1>10, <2>2 DEF Beat
      <3>2. beats # 0
        BY <1>2, <1>4, <1>9, <2>2
      <3>3. cmd'.next - HeartbeatSeconds <= cmd'.polled /\ cmd'.polled < cmd'.next
        BY <1>2, <1>4, <1>6, <2>2, <3>1, <3>2, WaitAssumption
      <3> QED BY <1>2, <1>4, <1>6, <1>11, <3>1, <3>2, <3>3 DEF Paced
    <2> QED BY <2>1, <2>2
  <1>13. CacheOK'
    BY <1>2, <1>6, CacheCleared
  <1>14. GhostsOK'
    BY <1>1 DEF GhostsOK
  <1>15. Observed'
    BY <1>6 DEF Observed
  <1> QED BY <1>2, <1>6, <1>8, <1>12, <1>13, <1>14, <1>15 DEF CompleteHonest, Returned, NewerRunNamed

(* The next round of reads begins.                                         *)
LEMMA WakeKeeps ==
    ASSUME IInv, Wake
    PROVE  IInv'
  <1> USE DEF IInv
  <1>1. /\ Still /\ ledger' = ledger /\ beats' = beats /\ late' = late
        /\ over' = over /\ guarded' = guarded
    BY DEF Wake, Still, service, pace, ghosts
  <1>2. WorldOK' /\ LedgerOK' /\ now \in Nat /\ now' = now
    BY <1>1, StillWorld
  <1>3. /\ Fields \subseteq DOMAIN cmd' /\ cmd'.pc = "read" /\ cmd'.wake = 0 /\ cmd.pc = "sleep"
        /\ Same(cmd', cmd, Fields \ {"pc", "wake"})
    BY DEF Wake, CommandOK, Same, Fields
  <1>4. cmd'.got = {}
    BY <1>3 DEF CommandOK, Same, Fields
  <1>5. CommandOK'
    BY <1>2, <1>3, <1>4 DEF CommandOK, Same, Fields
  <1>6. Paced'
    BY <1>1, <1>2, <1>3 DEF Paced, Same, Fields
  <1>7. CacheOK'
    BY <1>1, <1>3, CacheStays DEF Same, Fields, Reconciling
  <1>8. GhostsOK'
    BY <1>1 DEF GhostsOK, Active, Still
  <1>9. Observed'
    BY <1>4 DEF Observed
  <1> QED BY <1>2, <1>3, <1>5, <1>6, <1>7, <1>8, <1>9 DEF CompleteHonest, Returned, NewerRunNamed

(* A report is chosen, with the newer run if there is one.                 *)
LEMMA ReadReportKeeps ==
    ASSUME IInv, NEW a \in Audit, ReadReport(a)
    PROVE  IInv'
  <1> USE DEF IInv
  <1>1. /\ Still /\ ledger' = ledger /\ beats' = beats /\ late' = late
        /\ over' = over /\ guarded' = guarded
    BY DEF ReadReport, Still, service, pace, ghosts
  <1>2. WorldOK' /\ LedgerOK' /\ now \in Nat /\ now' = now
    BY <1>1, StillWorld
  <1> DEFINE ref == ChooseReportRef(a)
             stale == CompareHeads(cmd.cur, cmd.audited[a]) = "stale"
             newer == IF ref = NoTask THEN NoTask ELSE NewerRunForReport(ref, a, stale)
  <1>3. cmd' = [cmd EXCEPT !.pc = "done", !.kind = "read", !.audit = a, !.ref = ref,
                           !.newer = newer]
    BY DEF ReadReport
  <1>4. cmd.pc = "read" /\ cmd.got = Reads
    BY DEF ReadReport
  <1> HIDE DEF newer, ref
  <1>5. /\ Fields \subseteq DOMAIN cmd' /\ cmd'.pc = "done" /\ cmd'.kind = "read"
        /\ cmd'.audit = a /\ cmd'.ref = ref /\ cmd'.newer = newer
        /\ Same(cmd', cmd, Fields \ {"pc", "kind", "audit", "ref", "newer"})
    BY <1>3 DEF CommandOK, Same, Fields
  <1>6. cmd.step = "list"
    BY <1>4 DEF CommandOK, Reads
  <1>7. CommandOK'
    BY <1>2, <1>5, <1>6 DEF CommandOK, Same, Fields
  <1>8. Paced'
    BY <1>1, <1>5 DEF Paced
  <1>9. CacheOK'
    BY <1>1, <1>5, CacheStays DEF Same, Fields, Reconciling
  <1>10. GhostsOK'
    BY <1>1 DEF GhostsOK, Active, Still
  <1>11. RunsSound
    BY <1>4 DEF Observed, Reads
  <1>12. RunsSound'
    BY <1>1, <1>5, <1>11 DEF RunsSound, Listed, Same, Fields, Still
  <1>13. Observed'
    BY <1>12 DEF Observed
  <1>14. CompleteHonest'
    BY <1>5 DEF CompleteHonest, Returned
  <1>15. NewerRunNamed'
    <2>1. cmd'.cur = cmd.cur /\ cmd'.audited = cmd.audited
      BY <1>5 DEF Same, Fields
    <2> SUFFICES ASSUME ref # NoTask, stale, NEW t \in guarded, tasks[t].action = a
                 PROVE  newer # NoTask
      BY <1>1, <1>5, <2>1 DEF NewerRunNamed, CompareHeads, Still
    <2>2. newer = NewerRunForReport(ref, tasks[t].action, TRUE)
      BY DEF newer
    <2> QED BY <1>11, <2>2, NewerFound
  <1> QED BY <1>2, <1>7, <1>8, <1>9, <1>10, <1>13, <1>14, <1>15

----------------------------------------------------------------------------
(* The theorems                                                            *)

(* The invariant holds initially.                                          *)
LEMMA InitOK ==
    ASSUME Init
    PROVE  IInv
  <1>1. /\ cmd = Idle /\ over = {} /\ guarded = {} /\ beats = 0 /\ late = FALSE
        /\ now = 0 /\ head = 1 /\ ledger = {}
    BY DEF Init
  <1>2. /\ Fields \subseteq DOMAIN cmd /\ cmd.pc = "idle" /\ cmd.got = {} /\ cmd.reason = "none"
        /\ cmd.step = "list" /\ cmd.point = 0 /\ cmd.listed = 0 /\ cmd.pending = {}
        /\ cmd.cache = <<>> /\ cmd.wake = 0 /\ cmd.next = 0 /\ cmd.started = 0
    BY <1>1 DEF Idle, Fields
  <1>3. tasks \in Seq(Task) /\ audited \in [Audit -> 0 .. MaxHeads]
    <2>1. CASE tasks = <<>> /\ audited = [a \in Audit |-> NoSha]
      BY <2>1, WaitAssumption DEF NoSha
    <2>2. CASE \E past \in Audit :
                 /\ tasks = <<[action |-> past, sha |-> 1, state |-> "completed", ended |-> 1,
                               origin |-> "past"]>>
                 /\ audited = [a \in Audit |-> IF a = past THEN 1 ELSE NoSha]
      <3>1. PICK past \in Audit :
                 /\ tasks = <<[action |-> past, sha |-> 1, state |-> "completed", ended |-> 1,
                               origin |-> "past"]>>
                 /\ audited = [a \in Audit |-> IF a = past THEN 1 ELSE NoSha]
        BY <2>2
      <3> DEFINE task == [action |-> past, sha |-> 1, state |-> "completed", ended |-> 1,
                          origin |-> "past"]
      <3>2. task \in Task
        BY WaitAssumption DEF Task, TaskStates
      <3>3. tasks = <<task>>
        BY <3>1
      <3> HIDE DEF task
      <3>4. tasks \in Seq(Task)
        BY <3>2, <3>3
      <3>5. audited \in [Audit -> 0 .. MaxHeads]
        BY <3>1, WaitAssumption DEF NoSha
      <3> QED BY <3>4, <3>5
    <2> QED BY <2>1, <2>2 DEF Init
  <1>4. WorldOK
    BY <1>1, <1>3, WaitAssumption DEF WorldOK
  <1>5. CommandOK
    BY <1>1, <1>2 DEF CommandOK
  <1>6. Paced
    BY <1>1, <1>2 DEF Paced
  <1>7. CacheOK
    <2>1. Len(tasks) \in Nat /\ DOMAIN <<>> = {}
      BY <1>3
    <2> QED BY <1>1, <1>2, <2>1 DEF CacheOK
  <1>8. LedgerOK /\ GhostsOK /\ Observed
    BY <1>1, <1>2 DEF LedgerOK, GhostsOK, Observed
  <1> QED BY <1>2, <1>4, <1>5, <1>6, <1>7, <1>8 DEF IInv, CompleteHonest, Returned, NewerRunNamed

(* Nothing moves.                                                          *)
LEMMA StutterKeeps ==
    ASSUME IInv, UNCHANGED vars
    PROVE  IInv'
  <1>1. WorldOK' /\ now \in Nat /\ Len(tasks) \in Nat
    BY WaitAssumption DEF IInv, WorldOK, vars
  <1>2. LedgerOK'
    BY <1>1, LedgerStays DEF vars
  <1>3. Frozen
    BY <1>1 DEF Frozen, vars
  <1> QED BY <1>1, <1>2, <1>3, FrozenKeeps

(* Every step keeps the invariant.                                         *)
LEMMA NextKeeps ==
    ASSUME IInv, [Next]_vars
    PROVE  IInv'
  <1>1. CASE ReadLinks \/ ReadRerunState BY <1>1, ReadsKeep
  <1>2. CASE ListRuns BY <1>2, ListRunsKeeps
  <1>3. CASE NextRound BY <1>3, NextRoundKeeps
  <1>4. CASE \E t \in cmd.pending : Lookup(t) BY <1>4, LookupKeeps
  <1>5. CASE Commit BY <1>5, CommitKeeps
  <1>6. CASE Return BY <1>6, ReturnKeeps
  <1>7. CASE Sleep BY <1>7, SleepKeeps
  <1>8. CASE Wake BY <1>8, WakeKeeps
  <1>9. CASE \E a \in Audit : ReadReport(a) BY <1>9, ReadReportKeeps
  <1>10. CASE ReadFails BY <1>10, ReadFailsKeeps
  <1>11. CASE Begin BY <1>11, BeginKeeps
  <1>12. CASE Tick \/ Push \/ (\E e \in ledger : Reconciled(e)) BY <1>12, WorldKeeps
  <1>13. CASE \E a \in Audit : Accept(a) BY <1>13, AcceptKeeps
  <1>14. CASE \E t \in DOMAIN tasks : Record(t) \/ Complete(t) \/ Fail(t)
    BY <1>14, RecordKeeps, CompleteKeeps, FailKeeps
  <1>15. CASE UNCHANGED vars BY <1>15, StutterKeeps
  <1> QED BY <1>1, <1>2, <1>3, <1>4, <1>5, <1>6, <1>7, <1>8, <1>9, <1>10, <1>11, <1>12, <1>13,
             <1>14, <1>15 DEF Next, Command, World

(* Whatever the service, the other commands and the clock do between the   *)
(* list, the lookups and the commit of the reconciliation (ledger.py), and *)
(* between the three reads of the status (observation.py), each run the    *)
(* command then holds is of a task with that audit and commit, none is of  *)
(* a task its lookups found to be over, and no task that the ledger had to *)
(* guard is missing.                                                       *)
THEOREM Invariance == Spec => []IInv
  <1>1. Init => IInv
    BY InitOK
  <1>2. IInv /\ [Next]_vars => IInv'
    BY NextKeeps
  <1> QED BY <1>1, <1>2, PTL DEF Spec

(* The command, its reads and the clock keep their types: in particular    *)
(* wait.py never sleeps a negative time nor sets a heartbeat before the    *)
(* clock's start, and the ledger's entries are of tasks the service has.   *)
THEOREM TypeCorrect == Spec => []TypeOK
  <1>1. IInv => TypeOK
    BY DEF IInv, WorldOK, LedgerOK, EntryOK, CommandOK, GhostsOK, Paced, TypeOK
  <1> QED BY <1>1, Invariance, PTL

(* `wait' (wait.py) reports completion only if at its last commit to the   *)
(* ledger no recorded task had to be guarded, whatever the service's list  *)
(* left out and whatever other commands did since the lookups.             *)
THEOREM CompletionIsHonest == Spec => []CompleteHonest
  <1>1. IInv => CompleteHonest
    BY DEF IInv
  <1> QED BY <1>1, Invariance, PTL

(* status.py advises to wait for a run of the current commit only on       *)
(* account of a task of that audit and commit, and never on account of one *)
(* that was over at the list and that a lookup for the ledger found so.    *)
THEOREM AdviceIsSound == Spec => []AdviceSound
  <1>1. IInv => AdviceSound
    <2> SUFFICES ASSUME IInv, cmd.got = Reads,
                        NEW a \in Audit, CurrentHeadAction(a) = "wait_for_current_head_run"
                 PROVE  \E t \in DOMAIN tasks :
                          tasks[t].action = a /\ tasks[t].sha = cmd.cur /\ t \notin over
      BY DEF AdviceSound
    <2>1. RunsSound
      BY DEF IInv, Observed, Reads
    <2> QED BY <2>1, AdviceFollows DEF IInv
  <1> QED BY <1>1, Invariance, PTL

(* The heartbeats of wait.py follow the schedule that began with the wait, *)
(* for every poll and heartbeat interval and every timeout: none is ahead  *)
(* of it, and unless a poll came an interval or more after the one before, *)
(* none is behind.                                                         *)
THEOREM BeatsKeepSchedule == Spec => []BeatsOnSchedule
  <1>1. IInv => BeatsOnSchedule
    <2> SUFFICES ASSUME IInv, cmd.pc = "sleep"
                 PROVE  /\ (beats - 1) * HeartbeatSeconds <= cmd.polled - cmd.started
                        /\ late \/ cmd.polled - cmd.started < beats * HeartbeatSeconds
      BY DEF BeatsOnSchedule
    <2>1. /\ beats \in Nat /\ beats > 0 /\ cmd.polled \in Nat /\ cmd.started \in Nat
          /\ cmd.next = cmd.started + beats * HeartbeatSeconds
          /\ cmd.next - HeartbeatSeconds <= cmd.polled
          /\ late \/ cmd.polled < cmd.next
      BY WaitAssumption DEF IInv, Paced, CommandOK, WorldOK
    <2>2. (beats - 1) * HeartbeatSeconds + HeartbeatSeconds = beats * HeartbeatSeconds
          /\ (beats - 1) * HeartbeatSeconds \in Nat
      <3>1. beats - 1 \in Nat /\ (beats - 1) + 1 = beats
        BY <2>1
      <3> QED BY <3>1, OneMoreBeat, WaitAssumption
    <2> QED BY <2>1, <2>2, WaitAssumption
  <1> QED BY <1>1, Invariance, PTL

(* `audit read' (workflows.py) of a report for a stale commit names a run  *)
(* whenever a recorded task of the audit had to be guarded.                *)
THEOREM NewerRunIsNamed == Spec => []NewerRunNamed
  <1>1. IInv => NewerRunNamed
    BY DEF IInv
  <1> QED BY <1>1, Invariance, PTL
=============================================================================
