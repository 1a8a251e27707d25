-------------------------- MODULE AuditStartProofs --------------------------
(***************************************************************************)
(* Proofs about `audit start' and the ledger, for any number of commands,  *)
(* repositories, audits and faults, whatever lifetime and grace period.    *)
(*                                                                         *)
(* NoDuplicateStart is about one step, but the decision it is about was    *)
(* prepared long before: a task was recorded, other commands reconciled    *)
(* the ledger meanwhile, this command looked tasks up, committed, and kept *)
(* the runs while other commands went on.  The inductive invariant follows *)
(* that path: the ledger holds an entry of every recorded task that is     *)
(* still guarded (Guards); what was looked up stays true, since tasks only *)
(* end and the clock only advances (CacheOK); so the commit neither drops  *)
(* such an entry nor hides it behind a row of the service (GuardedRetained,*)
(* GuardedRun); so the runs a command decides on show it (Seen).  Being    *)
(* guarded can only be lost, which is why no other command disturbs this   *)
(* (GuardedBefore).                                                        *)
(***************************************************************************)
EXTENDS AuditStart, SequenceTheorems, WellFoundedInduction, TLAPS

(* The states of a task, and a task as the service keeps it.               *)
TaskStates == {"queued", "completed", "failed"}

Task == [repo : Repo, action : Action, sha : Sha, state : TaskStates, posted : Nat,
         known : BOOLEAN, idless : BOOLEAN]

(* The types of the service's state, the clock, the counters and ghosts.   *)
World ==
    /\ now \in 0 .. MaxTime
    /\ tasks \in Seq(Task)
    /\ \A t \in DOMAIN tasks : tasks[t].posted <= now
    /\ head \in [Repo -> 1 .. MaxHeads]
    /\ audited \in [Repo -> [Action -> Sha]]
    /\ faults \in 0 .. MaxFaults /\ commands \in 0 .. MaxCommands
    /\ recorded \subseteq DOMAIN tasks /\ unknown \subseteq DOMAIN tasks
    /\ misread \in BOOLEAN

(* An entry with a task id says of the task what the service knows.        *)
Backed(e) ==
    e.task # NoTask =>
        /\ e.repo = tasks[e.task].repo /\ e.action = tasks[e.task].action
        /\ e.sha = tasks[e.task].sha /\ tasks[e.task].posted <= e.observed

(* The ledger holds entries of accepted tasks only, made by new_entry.     *)
LedgerOK ==
    \A e \in ledger :
        /\ e \in EntryType /\ e.status = "queued"
        /\ e.observed <= now /\ e.expires = e.observed + Ttl
        /\ e.task \in {NoTask} \cup DOMAIN tasks
        /\ Backed(e)

(* A task the ledger must still guard, whoever asks.                       *)
Guarded(t) ==
    /\ Active(t) /\ ~tasks[t].idless
    /\ now < tasks[t].posted + Ttl
    /\ t \notin unknown
    /\ ~misread

(* The ledger guards every recorded task it must.                          *)
Guards == \A t \in recorded : Guarded(t) => \E e \in ledger : e.task = t

(* The fields of a command, and the points it may be at.                   *)
Fields == {"pc", "repo", "todo", "cur", "last", "point", "upstream", "round", "pending",
           "cache", "runs", "task", "seen"}

Points == {"idle", "upstream", "round", "lookup", "commit", "start", "record"}

(* What a lookup answered still says something: a task that had ended has, *)
(* and one not found was too young to be known or counts as unknown.       *)
Answered(t, answer, point) ==
    \/ answer = Detail("queued")
    \/ answer \in {Detail("completed"), Detail("failed")} /\ ~Active(t)
    \/ answer = NotFound /\ (t \in unknown \/ point <= tasks[t].posted + Grace)
    \/ answer = LookupError

(* Every answer a command has collected.                                   *)
CacheOK(c) ==
    /\ DOMAIN c.cache \subseteq DOMAIN tasks
    /\ \A t \in DOMAIN c.cache : Answered(t, c.cache[t], c.point)

(* The runs a command decides on show each task that it must see.          *)
Seen(c) ==
    \A t \in c.seen : Guarded(t) /\ tasks[t].repo = c.repo =>
        \E run \in c.runs : /\ run.action = tasks[t].action /\ IsActiveRun(run)
                            /\ run.sha = tasks[t].sha

(* The locals of a command suit the point it is at.                        *)
CommandOK(p) ==
    /\ Fields \subseteq DOMAIN proc[p]
    /\ proc[p].pc \in Points
    /\ proc[p].pc # "idle" => proc[p].repo \in Repo
    /\ proc[p].cur \in Sha /\ proc[p].todo \subseteq Action
    /\ proc[p].point \in 0 .. now
    /\ proc[p].pending \subseteq DOMAIN tasks
    /\ proc[p].seen \subseteq recorded
    /\ proc[p].pc \in {"idle", "upstream"} => proc[p].cache = <<>>
    /\ proc[p].pc = "record" => proc[p].task \in DOMAIN tasks
    /\ CacheOK(proc[p])
    /\ proc[p].pc \in {"start", "record"} => Seen(proc[p])

(* The inductive invariant.                                                *)
IInv ==
    /\ World /\ LedgerOK /\ Guards
    /\ DOMAIN proc = Process
    /\ \A p \in Process : CommandOK(p)

----------------------------------------------------------------------------
(* Runs                                                                    *)

(* A nonempty set of numbers has a least one.                              *)
LEMMA LeastNumber ==
    ASSUME NEW N \in SUBSET Nat, N # {}
    PROVE  \E m \in N : \A n \in N : m <= n
  <1> DEFINE R == OpToRel(<, Nat)
  <1>1. IsWellFoundedOn(R, Nat)
    BY NatLessThanWellFounded
  <1>2. \A m, n \in Nat : <<n, m>> \in R <=> n < m
    BY DEF OpToRel
  <1> HIDE DEF R
  <1>3. PICK m \in N : \A n \in N : ~(<<n, m>> \in R)
    BY <1>1, WFMin
  <1>4. \A n \in N : ~(n < m)
    BY <1>2, <1>3
  <1> QED BY <1>4

(* Among runs that all wait for a worker the representative is one of      *)
(* them: the newest.                                                       *)
LEMMA Represented ==
    ASSUME NEW runs, runs # {},
           \A r \in runs : Lifecycle(r) = "queued" /\ r.stamp \in 0 .. MaxTime
    PROVE  RepresentativeProjection(runs) \in runs
  <1> DEFINE S == {MaxTime - r.stamp : r \in runs}
  <1>1. S \in SUBSET Nat /\ S # {}
    BY StartAssumption
  <1>2. PICK m \in S : \A n \in S : m <= n
    BY <1>1, LeastNumber
  <1>3. PICK run \in runs : m = MaxTime - run.stamp
    OBVIOUS
  <1>4. ASSUME NEW other \in runs PROVE other.stamp <= run.stamp
    <2>1. MaxTime - other.stamp \in S
      OBVIOUS
    <2>2. m <= MaxTime - other.stamp
      BY <1>2, <2>1
    <2> QED BY <1>3, <2>2, StartAssumption
  <1>5. \A other \in runs : ~RanksBelow(run, other)
    BY <1>4, StartAssumption DEF RanksBelow, LifecyclePriority
  <1> QED BY <1>5 DEF RepresentativeProjection

(* What the projections of an entry say.                                   *)
LEMMA ProjectedFields ==
    ASSUME NEW e, e.status = "queued"
    PROVE  /\ ProjectLedger(e).task = e.task /\ ProjectLedger(e).action = e.action
           /\ ProjectLedger(e).sha = e.sha /\ ProjectLedger(e).stamp = e.observed
           /\ Lifecycle(ProjectLedger(e)) = "queued"
           /\ \A d : /\ ProjectDetail(e, d).task = e.task /\ ProjectDetail(e, d).action = e.action
                     /\ ProjectDetail(e, d).sha = e.sha /\ ProjectDetail(e, d).stamp = e.observed
                     /\ ProjectDetail(e, d).status = d.status
                     /\ ProjectDetail(e, d).started = d.started
                     /\ ProjectDetail(e, d).completed = d.completed
  <1>1. /\ ProjectLedger(e).task = e.task /\ ProjectLedger(e).action = e.action
        /\ ProjectLedger(e).sha = e.sha /\ ProjectLedger(e).stamp = e.observed
        /\ ProjectLedger(e).status = "queued" /\ ProjectLedger(e).completed = FALSE
    BY DEF ProjectLedger
  <1>2. Lifecycle(ProjectLedger(e)) = "queued"
    BY <1>1 DEF Lifecycle, TaskLifecycle
  <1> QED BY <1>1, <1>2 DEF ProjectDetail

(* What the answers of a lookup say: only the detail of a queued task      *)
(* shows an active run.                                                    *)
LEMMA DetailFields ==
    ASSUME NEW e, e.status = "queued"
    PROVE  /\ Detail("queued").kind = "detail" /\ Detail("completed").kind = "detail"
           /\ Detail("failed").kind = "detail" /\ NotFound.kind = "notfound"
           /\ LookupError.kind = "error"
           /\ Lifecycle(ProjectDetail(e, Detail("queued"))) = "queued"
           /\ ~IsActiveRun(ProjectDetail(e, Detail("completed")))
           /\ ~IsActiveRun(ProjectDetail(e, Detail("failed")))
  <1>1. \A s : /\ Detail(s).kind = "detail" /\ Detail(s).status = s
               /\ Detail(s).completed = IsTerminalStatus(s)
    BY DEF Detail
  <1>2. ~IsTerminalStatus("queued") /\ IsTerminalStatus("completed")
    BY DEF IsTerminalStatus
  <1>3. Lifecycle(ProjectDetail(e, Detail("queued"))) = "queued"
    BY <1>1, <1>2, ProjectedFields DEF Lifecycle, TaskLifecycle
  <1>4. Lifecycle(ProjectDetail(e, Detail("completed"))) = "completed"
    BY <1>1, <1>2, ProjectedFields DEF Lifecycle, TaskLifecycle
  <1>5. Lifecycle(ProjectDetail(e, Detail("failed"))) = "failed"
    BY <1>1, <1>2, ProjectedFields DEF Lifecycle, TaskLifecycle
  <1> QED BY <1>1, <1>3, <1>4, <1>5 DEF IsActiveRun, NotFound, LookupError

(* The types of an accepted task and of its id.                            *)
LEMMA TaskTypes ==
    ASSUME World, NEW t \in DOMAIN tasks
    PROVE  /\ tasks[t] \in Task /\ tasks[t].state \in TaskStates
           /\ tasks[t].repo \in Repo /\ tasks[t].sha \in Sha /\ tasks[t].action \in Action
           /\ tasks[t].posted \in Nat /\ tasks[t].posted <= now /\ now \in Nat
           /\ t \in Nat /\ t # NoTask
  <1>1. DOMAIN tasks = 1 .. Len(tasks) /\ Len(tasks) \in Nat
    BY DEF World
  <1>2. tasks[t] \in Task
    BY <1>1 DEF World
  <1> QED BY <1>1, <1>2, StartAssumption DEF Task, NoTask, World

----------------------------------------------------------------------------
(* The verdict on an entry                                                 *)

(* An entry of a ledger in order: what LedgerOK says of it.                *)
EntryOK(e) ==
    /\ e \in EntryType /\ e.status = "queued"
    /\ e.observed <= now /\ e.expires = e.observed + Ttl
    /\ e.task \in {NoTask} \cup DOMAIN tasks
    /\ Backed(e)

(* The entry of a guarded task is kept, stands in for the service's rows   *)
(* of the task, and projects it as a run that waits.                       *)
LEMMA GuardedVerdict ==
    ASSUME World, NEW e, EntryOK(e), NEW t \in DOMAIN tasks, e.task = t, Guarded(t),
           NEW c, CacheOK(c), c.point \in 0 .. now, NEW upstream
    PROVE  LET v == Verdict(e, c.cache, c.point, upstream)
           IN  /\ v.retained /\ v.suppresses
               /\ \E x : /\ v.projected = {x} /\ x.task = t /\ x.action = tasks[t].action
                         /\ x.sha = tasks[t].sha /\ x.stamp = e.observed
                         /\ Lifecycle(x) = "queued"
  <1> DEFINE v == Verdict(e, c.cache, c.point, upstream)
             d == c.cache[t]
  <1>1. e.status = "queued" /\ e.action = tasks[t].action /\ e.sha = tasks[t].sha
        /\ e.observed \in Nat /\ tasks[t].posted \in Nat /\ tasks[t].posted <= e.observed
        /\ t # NoTask
    BY TaskTypes DEF EntryOK, Backed, EntryType
  <1>2. CASE v = Keep({ProjectLedger(e)}, TRUE)
    BY <1>1, <1>2, ProjectedFields DEF Keep
  <1>3. CASE v = Keep({ProjectDetail(e, Detail("queued"))}, TRUE)
    BY <1>1, <1>3, ProjectedFields, DetailFields DEF Keep
  <1>4. CASE t \notin DOMAIN c.cache
    BY <1>1, <1>2, <1>4 DEF Verdict, ReconcileEntry
  <1>5. CASE t \in DOMAIN c.cache
    <2>1. Answered(t, d, c.point)
      BY <1>5 DEF CacheOK
    <2>2. CASE d = Detail("queued")
      <3>1. IsActiveRun(ProjectDetail(e, d)) /\ d.kind = "detail"
        BY <1>1, <2>2, DetailFields DEF IsActiveRun
      <3>2. v = Keep({ProjectDetail(e, d)}, TRUE)
        BY <1>1, <1>5, <3>1 DEF Verdict, ReconcileEntry
      <3> QED BY <1>3, <2>2, <3>2
    <2>3. CASE d = NotFound
      <3>1. c.point <= tasks[t].posted + Grace
        BY <2>1, <2>3, <1>1, DetailFields DEF Answered, Guarded
      <3>2. ~(c.point - e.observed > Grace)
        BY <1>1, <3>1, LedgerAssumption, TaskTypes
      <3>3. v = Keep({ProjectLedger(e)}, TRUE)
        BY <1>1, <1>5, <2>3, <3>2, DetailFields DEF Verdict, ReconcileEntry
      <3> QED BY <1>2, <3>3
    <2>4. CASE d = LookupError
      <3>1. v = Keep({ProjectLedger(e)}, TRUE)
        BY <1>1, <1>5, <2>4, DetailFields DEF Verdict, ReconcileEntry
      <3> QED BY <1>2, <3>1
    <2> QED BY <2>1, <2>2, <2>3, <2>4 DEF Answered, Guarded
  <1> QED BY <1>4, <1>5

(* An entry that is dropped had lost its task.                             *)
LEMMA DroppedVerdict ==
    ASSUME World, NEW e, EntryOK(e), NEW c, CacheOK(c), c.point \in 0 .. now, NEW upstream,
           ~Verdict(e, c.cache, c.point, upstream).retained
    PROVE  e.task # NoTask /\ (~Active(e.task) \/ e.task \in unknown)
  <1> DEFINE v == Verdict(e, c.cache, c.point, upstream)
             t == e.task
             d == c.cache[t]
  <1>0. \A x, b : Keep(x, b).retained
    BY DEF Keep
  <1>1. t # NoTask
    BY <1>0 DEF Verdict, ReconcileEntry
  <1>2. t \in DOMAIN c.cache
    BY <1>0, <1>1 DEF Verdict, ReconcileEntry
  <1>3. Answered(t, d, c.point) /\ t \in DOMAIN tasks
    BY <1>2 DEF CacheOK
  <1>4. /\ e.status = "queued" /\ e.observed \in Nat /\ tasks[t].posted \in Nat
        /\ tasks[t].posted <= e.observed /\ now \in Nat
    BY <1>1, <1>3, TaskTypes DEF EntryOK, Backed, EntryType
  <1>5. CASE d = Detail("queued")
    <2>1. IsActiveRun(ProjectDetail(e, d)) /\ d.kind = "detail"
      BY <1>4, <1>5, DetailFields DEF IsActiveRun
    <2> QED BY <1>0, <1>1, <1>2, <2>1 DEF Verdict, ReconcileEntry
  <1>6. CASE d = NotFound
    <2>1. c.point - e.observed > Grace
      BY <1>0, <1>1, <1>2, <1>4, <1>6, DetailFields DEF Verdict, ReconcileEntry
    <2>2. ~(c.point <= tasks[t].posted + Grace)
      BY <1>4, <2>1, LedgerAssumption
    <2>3. t \in unknown \/ c.point <= tasks[t].posted + Grace
      BY <1>3, <1>4, <1>6, DetailFields DEF Answered
    <2> QED BY <1>1, <2>2, <2>3
  <1>7. CASE d = LookupError
    BY <1>0, <1>1, <1>2, <1>4, <1>7, DetailFields DEF Verdict, ReconcileEntry
  <1> QED BY <1>1, <1>3, <1>5, <1>6, <1>7 DEF Answered

(* The entry of a guarded task has not expired at any reading point.       *)
LEMMA GuardedLive ==
    ASSUME World, LedgerOK, NEW e \in ledger, NEW t \in DOMAIN tasks, e.task = t, Guarded(t),
           NEW point \in 0 .. now
    PROVE  e \in Live(ledger, tasks[t].repo, point) /\ EntryOK(e) /\ e.repo = tasks[t].repo
  <1>1. EntryOK(e)
    BY DEF LedgerOK, EntryOK
  <1>2. t # NoTask /\ tasks[t].posted \in Nat /\ now \in Nat
    BY TaskTypes
  <1>3. /\ e.repo = tasks[t].repo /\ tasks[t].posted <= e.observed /\ e.status = "queued"
        /\ e.expires = e.observed + Ttl /\ e.observed \in Nat
    BY <1>1, <1>2 DEF EntryOK, Backed, EntryType
  <1>4. ~(e.expires <= point)
    BY <1>2, <1>3, LedgerAssumption DEF Guarded
  <1>5. ~Expired(e, point) /\ ~IsTerminalStatus(e.status)
    BY <1>3, <1>4 DEF Expired, IsTerminalStatus
  <1> QED BY <1>1, <1>3, <1>5 DEF Live

(* A commit keeps the entry of a guarded task, whatever the repository.    *)
LEMMA GuardedRetained ==
    ASSUME World, LedgerOK, NEW e \in ledger, NEW t \in DOMAIN tasks, e.task = t, Guarded(t),
           NEW c, CacheOK(c), c.point \in 0 .. now, NEW repo, NEW upstream
    PROVE  e \in Retained(ledger, repo, c.cache, c.point, upstream)
  <1>1. e \in Live(ledger, tasks[t].repo, c.point) /\ EntryOK(e) /\ e.repo = tasks[t].repo
    BY GuardedLive
  <1>2. Verdict(e, c.cache, c.point, upstream).retained
    BY <1>1, GuardedVerdict
  <1> QED BY <1>1, <1>2 DEF Retained

(* Reconciliation shows a guarded task as an active run of its audit and   *)
(* its commit.                                                             *)
LEMMA GuardedRun ==
    ASSUME World, LedgerOK, NEW e \in ledger, NEW t \in DOMAIN tasks, e.task = t, Guarded(t),
           NEW c, CacheOK(c), c.point \in 0 .. now, NEW upstream
    PROVE  \E run \in ReconciledRuns(ledger, tasks[t].repo, c.cache, c.point, upstream) :
             run.action = tasks[t].action /\ IsActiveRun(run) /\ run.sha = tasks[t].sha
  <1> DEFINE repo == tasks[t].repo
             live == Live(ledger, repo, c.point)
             v(x) == Verdict(x, c.cache, c.point, upstream)
             projected == UNION {v(x).projected : x \in live}
             replaced == Suppressed(ledger, repo, c.cache, c.point, upstream)
             others == {r \in upstream : r.task = NoTask \/ r.task \notin replaced}
             rows == projected \cup others
             group(run) == {other \in rows :
                              /\ other.task = run.task
                              /\ run.task = NoTask => other.action = run.action}
  <1>1. e \in live /\ EntryOK(e)
    BY GuardedLive
  <1>2. PICK x : v(e).projected = {x} /\ x.task = t
    BY <1>1, GuardedVerdict
  <1>3. x \in rows
    BY <1>1, <1>2
  <1>4. t \in replaced
    <2>1. v(e).suppresses
      BY <1>1, GuardedVerdict
    <2> QED BY <1>1, <2>1 DEF Suppressed
  <1>5. t # NoTask /\ now \in 0 .. MaxTime
    BY TaskTypes DEF World
  (* Rows of the task come from its entries, never from the service.       *)
  <1>6. ASSUME NEW r \in rows, r.task = t
        PROVE  /\ r.action = tasks[t].action /\ r.sha = tasks[t].sha
               /\ Lifecycle(r) = "queued" /\ r.stamp \in 0 .. MaxTime
    <2>1. r \in projected
      BY <1>4, <1>5, <1>6
    <2>2. PICK f \in live : r \in v(f).projected
      BY <2>1
    <2>3. f \in ledger /\ EntryOK(f)
      BY <2>2 DEF Live, LedgerOK, EntryOK
    <2>4. f.task = t
      <3>1. \A y \in v(f).projected : y.task = f.task
        <4>1. f.status = "queued"
          BY <2>3 DEF EntryOK
        <4>2. \A y, b : Keep(y, b).projected = y /\ Drop(b).projected = {}
          BY DEF Keep, Drop
        <4>3. ProjectLedger(f).task = f.task /\ \A d : ProjectDetail(f, d).task = f.task
          BY <4>1, ProjectedFields
        <4>4. v(f) \in {Keep({}, FALSE), Keep({ProjectLedger(f)}, FALSE),
                         Keep({ProjectLedger(f)}, TRUE), Drop(TRUE), Drop(FALSE),
                         Keep({ProjectDetail(f, c.cache[f.task])}, TRUE)}
          BY DEF Verdict, ReconcileEntry
        <4>5. v(f).projected \in {{}, {ProjectLedger(f)}, {ProjectDetail(f, c.cache[f.task])}}
          BY <4>2, <4>4
        <4> QED BY <4>3, <4>5
      <3> QED BY <1>6, <2>2, <3>1
    <2>5. PICK y : /\ v(f).projected = {y} /\ y.action = tasks[t].action /\ y.sha = tasks[t].sha
                   /\ y.stamp = f.observed /\ Lifecycle(y) = "queued"
      BY <2>3, <2>4, GuardedVerdict
    <2>6. f.observed \in Nat /\ f.observed <= now
      BY <2>3 DEF EntryOK, EntryType
    <2>7. r = y
      BY <2>2, <2>5
    <2> QED BY <1>5, <2>5, <2>6, <2>7, StartAssumption
  <1>7. ReconciledRuns(ledger, repo, c.cache, c.point, upstream) = DedupeRuns(rows)
    BY DEF ReconciledRuns
  <1> HIDE DEF rows
  <1>8. DedupeRuns(rows) = {RepresentativeProjection(group(run)) : run \in rows}
    BY DEF DedupeRuns
  <1>9. x \in group(x) /\ \A r \in group(x) : r \in rows /\ r.task = t
    BY <1>2, <1>3
  <1> HIDE DEF group
  <1>10. RepresentativeProjection(group(x)) \in group(x)
    BY <1>6, <1>9, Represented
  <1> DEFINE run == RepresentativeProjection(group(x))
  <1>11. run \in DedupeRuns(rows)
    BY <1>3, <1>8
  <1> HIDE DEF run
  <1>12. run.action = tasks[t].action /\ run.sha = tasks[t].sha /\ Lifecycle(run) = "queued"
    BY <1>6, <1>9, <1>10 DEF run
  <1> QED BY <1>7, <1>11, <1>12 DEF IsActiveRun

----------------------------------------------------------------------------
(* What every step leaves true                                             *)

(* Accepted tasks keep what identifies them, and an ended one stays ended. *)
TasksKept ==
    \A t \in DOMAIN tasks :
        /\ t \in DOMAIN tasks' /\ tasks'[t].repo = tasks[t].repo
        /\ tasks'[t].action = tasks[t].action /\ tasks'[t].sha = tasks[t].sha
        /\ tasks'[t].posted = tasks[t].posted /\ tasks'[t].idless = tasks[t].idless
        /\ tasks'[t].state = "queued" => tasks[t].state = "queued"

(* The clock and the ghosts only grow.                                     *)
Grows ==
    /\ now \in Nat /\ now' \in Nat /\ now <= now'
    /\ recorded \subseteq recorded' /\ unknown \subseteq unknown'
    /\ misread => misread'
    /\ TasksKept

(* A task that is guarded after a step was guarded before it.              *)
LEMMA GuardedBefore ==
    ASSUME World, Grows, NEW t \in DOMAIN tasks, Guarded(t)'
    PROVE  Guarded(t)
  <1>1. tasks[t].posted \in Nat
    BY TaskTypes
  <1> QED BY <1>1, LedgerAssumption DEF Guarded, Active, Grows, TasksKept

(* What was looked up stays true.                                          *)
LEMMA CacheStays ==
    ASSUME Grows, NEW p, CacheOK(proc[p]),
           proc'[p].cache = proc[p].cache, proc'[p].point = proc[p].point
    PROVE  CacheOK(proc[p])'
  <1> DEFINE c == proc[p]
  <1>1. DOMAIN tasks \subseteq DOMAIN tasks'
    BY DEF Grows, TasksKept
  <1>2. ASSUME NEW t \in DOMAIN c.cache PROVE Answered(t, c.cache[t], c.point)'
    <2>1. t \in DOMAIN tasks /\ Answered(t, c.cache[t], c.point)
      BY DEF CacheOK
    <2>2. /\ tasks'[t].posted = tasks[t].posted /\ (Active(t)' => Active(t))
          /\ t \in unknown => t \in unknown'
      BY <2>1 DEF Grows, TasksKept, Active
    <2>3. CASE c.cache[t] = Detail("queued")
      BY <2>3 DEF Answered
    <2>4. CASE c.cache[t] \in {Detail("completed"), Detail("failed")} /\ ~Active(t)
      BY <2>2, <2>4 DEF Answered
    <2>5. CASE c.cache[t] = NotFound /\ (t \in unknown \/ c.point <= tasks[t].posted + Grace)
      BY <2>2, <2>5 DEF Answered
    <2>6. CASE c.cache[t] = LookupError
      BY <2>6 DEF Answered
    <2> QED BY <2>1, <2>3, <2>4, <2>5, <2>6 DEF Answered
  <1> QED BY <1>1, <1>2 DEF CacheOK

(* Runs that showed every task they must still do: no task becomes guarded *)
(* that was not.                                                           *)
LEMMA SeenStays ==
    ASSUME World, Grows, NEW p, Seen(proc[p]), proc[p].seen \subseteq recorded,
           proc'[p].seen = proc[p].seen, proc'[p].repo = proc[p].repo,
           proc'[p].runs = proc[p].runs
    PROVE  Seen(proc[p])'
  <1> DEFINE c == proc[p]
  <1> SUFFICES ASSUME NEW t \in c.seen, Guarded(t)', tasks'[t].repo = c.repo
               PROVE  \E run \in c.runs : /\ run.action = tasks'[t].action /\ IsActiveRun(run)
                                          /\ run.sha = tasks'[t].sha
    BY DEF Seen, IsActiveRun, Lifecycle, TaskLifecycle
  <1>1. t \in DOMAIN tasks
    BY DEF World
  <1>2. /\ tasks'[t].repo = tasks[t].repo /\ tasks'[t].action = tasks[t].action
        /\ tasks'[t].sha = tasks[t].sha
    BY <1>1 DEF Grows, TasksKept
  <1>3. Guarded(t)
    BY <1>1, GuardedBefore
  <1> QED BY <1>2, <1>3 DEF Seen

(* A command that does not move stays in order.                            *)
LEMMA CommandStays ==
    ASSUME World, Grows, NEW p, CommandOK(p), proc'[p] = proc[p]
    PROVE  CommandOK(p)'
  <1> DEFINE c == proc[p]
  <1>1. DOMAIN tasks \subseteq DOMAIN tasks'
    BY DEF Grows, TasksKept
  <1>2. CacheOK(proc[p])'
    BY CacheStays DEF CommandOK
  <1>3. Seen(proc[p]) => Seen(proc[p])'
    BY SeenStays DEF CommandOK
  <1>4. c.point \in 0 .. now' /\ c.pending \subseteq DOMAIN tasks' /\ c.seen \subseteq recorded'
    BY <1>1 DEF CommandOK, Grows
  <1> QED BY <1>1, <1>2, <1>3, <1>4 DEF CommandOK

(* Entries stay in order while their tasks do.                             *)
LEMMA LedgerStays ==
    ASSUME World, LedgerOK, Grows, ledger' \subseteq ledger
    PROVE  LedgerOK'
  <1> SUFFICES ASSUME NEW e \in ledger'
               PROVE  /\ e \in EntryType /\ e.status = "queued"
                      /\ e.observed <= now' /\ e.expires = e.observed + Ttl
                      /\ e.task \in {NoTask} \cup DOMAIN tasks'
                      /\ Backed(e)'
    BY DEF LedgerOK, EntryType, Statuses, Sha
  <1>1. /\ e \in EntryType /\ e.status = "queued"
        /\ e.observed <= now /\ e.expires = e.observed + Ttl
        /\ e.task \in {NoTask} \cup DOMAIN tasks /\ Backed(e)
    BY DEF LedgerOK
  <1>2. e.observed \in Nat
    BY <1>1 DEF EntryType
  <1>3. Backed(e)'
    BY <1>1 DEF Backed, Grows, TasksKept
  <1> QED BY <1>1, <1>2, <1>3 DEF Grows, TasksKept

(* Guards stay while the ledger and the recorded tasks do.                 *)
LEMMA GuardsStay ==
    ASSUME World, Guards, Grows, ledger' = ledger, recorded' = recorded
    PROVE  Guards'
  <1>1. recorded \subseteq DOMAIN tasks
    BY DEF World
  <1> QED BY <1>1, GuardedBefore DEF Guards

(* One command moves.                                                      *)
Moves(p) == DOMAIN proc' = Process /\ \A q \in Process \ {p} : proc'[q] = proc[q]

(* A step of one command keeps the invariant if it keeps what it touches.  *)
LEMMA OneMoves ==
    ASSUME IInv, Grows, NEW p \in Process, Moves(p), World', LedgerOK', Guards', CommandOK(p)'
    PROVE  IInv'
  <1>1. \A q \in Process \ {p} : CommandOK(q)'
    BY CommandStays DEF IInv, Moves
  <1> QED BY <1>1 DEF IInv, Moves

(* No command moves.                                                       *)
LEMMA NoneMoves ==
    ASSUME IInv, Grows, proc' = proc, World', ledger' = ledger, recorded' = recorded
    PROVE  IInv'
  <1>1. \A q \in Process : CommandOK(q)'
    BY CommandStays DEF IInv
  <1>2. LedgerOK' /\ Guards'
    BY LedgerStays, GuardsStay DEF IInv
  <1> QED BY <1>1, <1>2 DEF IInv

(* A command that is over is in order.                                     *)
LEMMA IdleOK ==
    ASSUME World', NEW p, proc'[p] = Idle
    PROVE  CommandOK(p)'
  <1>1. /\ Fields \subseteq DOMAIN proc'[p] /\ proc'[p].pc = "idle" /\ proc'[p].cur = NoSha
        /\ proc'[p].todo = {} /\ proc'[p].point = 0 /\ proc'[p].pending = {}
        /\ proc'[p].seen = {} /\ proc'[p].cache = <<>>
    BY DEF Idle, Fields
  <1>2. CacheOK(proc[p])'
    BY <1>1 DEF CacheOK
  <1>3. now' \in Nat /\ NoSha \in Sha
    BY StartAssumption DEF World, Sha, NoSha
  <1> QED BY <1>1, <1>2, <1>3 DEF CommandOK, Points

----------------------------------------------------------------------------
(* The steps, one lemma each                                               *)

(* Two commands agree on some fields.                                      *)
Same(c, d, names) == \A n \in names : c[n] = d[n]

(* Nothing moved but what a command step names.                            *)
Still == now' = now /\ tasks' = tasks /\ unknown' = unknown /\ recorded' = recorded

(* Such a step only lets things grow.                                      *)
LEMMA StillGrows ==
    ASSUME World, Still, misread => misread'
    PROVE  Grows
  BY StartAssumption DEF World, Still, Grows, TasksKept

(* A fault is counted within its bound.                                    *)
LEMMA FaultCounted ==
    ASSUME World, Fault
    PROVE  faults' \in 0 .. MaxFaults
  BY StartAssumption DEF World, Fault

(* A read of the ledger gives the ledger, or nothing and a mark.           *)
LEMMA ReadResult ==
    ASSUME World, NEW entries, Read(entries)
    PROVE  /\ faults' \in 0 .. MaxFaults /\ misread' \in BOOLEAN /\ (misread => misread')
           /\ entries = ledger \/ (entries = {} /\ misread' = TRUE)
  <1>1. CASE entries = ledger /\ UNCHANGED <<faults, misread>>
    BY <1>1 DEF World
  <1>2. CASE entries = {} /\ ledger # {} /\ Fault /\ misread' = TRUE
    BY <1>2, FaultCounted
  <1> QED BY <1>1, <1>2 DEF Read

(* A command begins: nothing read, and it must see what is recorded.       *)
LEMMA BeginKeeps ==
    ASSUME IInv, NEW p \in Process, NEW r \in Repo, NEW todo \in SUBSET Action, Begin(p, r, todo)
    PROVE  IInv'
  <1>1. World /\ LedgerOK /\ Guards /\ DOMAIN proc = Process
    BY DEF IInv
  <1>2. PICK cur \in {NoSha} \cup head[r] .. MaxHeads :
          /\ head' = IF cur = NoSha THEN head ELSE [head EXCEPT ![r] = cur]
          /\ proc' = [proc EXCEPT ![p] = [Idle EXCEPT !.pc = "upstream", !.repo = r,
                        !.todo = todo, !.cur = cur, !.last = audited[r], !.seen = recorded]]
          /\ IF cur = NoSha THEN Fault ELSE UNCHANGED faults
    BY DEF Begin
  <1>3. /\ Still /\ audited' = audited /\ ledger' = ledger /\ misread' = misread
        /\ commands' \in 0 .. MaxCommands
    BY <1>1, StartAssumption DEF Begin, Still, ghosts, World
  <1>4. head[r] \in 1 .. MaxHeads /\ cur \in Sha
    BY <1>1, <1>2, StartAssumption DEF World, Sha, NoSha
  <1>5. head' \in [Repo -> 1 .. MaxHeads]
    BY <1>1, <1>2, <1>4, StartAssumption DEF World, NoSha
  <1>6. faults' \in 0 .. MaxFaults
    BY <1>1, <1>2, FaultCounted DEF World
  <1>7. World'
    BY <1>1, <1>3, <1>5, <1>6 DEF World, Still
  <1>8. Grows
    BY <1>1, <1>3, StillGrows
  <1>9. LedgerOK' /\ Guards'
    BY <1>1, <1>3, <1>8, LedgerStays, GuardsStay DEF Still
  <1>10. Moves(p) /\ proc'[p] = [Idle EXCEPT !.pc = "upstream", !.repo = r,
                        !.todo = todo, !.cur = cur, !.last = audited[r], !.seen = recorded]
    BY <1>1, <1>2 DEF Moves
  <1>11. /\ Fields \subseteq DOMAIN proc'[p] /\ proc'[p].pc = "upstream" /\ proc'[p].cur = cur
         /\ proc'[p].repo = r /\ proc'[p].todo = todo /\ proc'[p].point = 0
         /\ proc'[p].pending = {} /\ proc'[p].seen = recorded /\ proc'[p].cache = <<>>
    BY <1>10 DEF Idle, Fields
  <1>12. CacheOK(proc[p])'
    BY <1>11 DEF CacheOK
  <1>13. CommandOK(p)'
    BY <1>3, <1>4, <1>7, <1>11, <1>12, StartAssumption DEF CommandOK, Points, Still, World
  <1> QED BY <1>7, <1>8, <1>9, <1>10, <1>13, OneMoves

(* The point of the reading is the present.                                *)
LEMMA ReadUpstreamKeeps ==
    ASSUME IInv, NEW p \in Process, ReadUpstream(p)
    PROVE  IInv'
  <1>1. World /\ LedgerOK /\ Guards /\ DOMAIN proc = Process /\ CommandOK(p)
    BY DEF IInv
  <1>2. /\ Still /\ head' = head /\ audited' = audited /\ ledger' = ledger /\ misread' = misread
        /\ faults' = faults /\ commands' = commands
    BY DEF ReadUpstream, Still, ghosts, service
  <1>3. World'
    BY <1>1, <1>2 DEF World, Still
  <1>4. Grows
    BY <1>1, <1>2, StillGrows
  <1>5. LedgerOK' /\ Guards'
    BY <1>1, <1>2, <1>4, LedgerStays, GuardsStay DEF Still
  <1>6. PICK listed : proc' = [proc EXCEPT ![p].pc = "round", ![p].point = now,
                                         ![p].upstream = {UpstreamRow(t) : t \in listed}]
    BY DEF ReadUpstream
  <1>7. Moves(p)
    BY <1>1, <1>6 DEF Moves
  <1>8. /\ Fields \subseteq DOMAIN proc'[p] /\ proc'[p].pc = "round" /\ proc'[p].point = now
        /\ Same(proc'[p], proc[p], Fields \ {"pc", "point", "upstream"})
    BY <1>1, <1>6 DEF CommandOK, Same, Fields
  <1>9. proc[p].pc = "upstream" /\ proc[p].cache = <<>> /\ proc'[p].cache = <<>>
    BY <1>1, <1>8 DEF ReadUpstream, CommandOK, Same, Fields
  <1>10. CacheOK(proc[p])'
    BY <1>9 DEF CacheOK
  <1>11. CommandOK(p)'
    BY <1>1, <1>2, <1>3, <1>8, <1>9, <1>10 DEF CommandOK, Points, Same, Fields, Still, World
  <1> QED BY <1>3, <1>4, <1>5, <1>7, <1>11, OneMoves

(* A round looks up tasks of the ledger.                                   *)
LEMMA NextRoundKeeps ==
    ASSUME IInv, NEW p \in Process, NextRound(p)
    PROVE  IInv'
  <1>1. World /\ LedgerOK /\ Guards /\ DOMAIN proc = Process /\ CommandOK(p)
    BY DEF IInv
  <1>2. PICK entries \in {ledger, {}} :
          /\ Read(entries)
          /\ LET pending == PendingLookups(entries, proc[p].repo, proc[p].point, proc[p].cache)
             IN  proc' = [proc EXCEPT
                    ![p].pc = IF pending = {} THEN "commit" ELSE "lookup",
                    ![p].pending = pending,
                    ![p].round = @ + 1]
    BY DEF NextRound
  <1>3. /\ Still /\ head' = head /\ audited' = audited /\ ledger' = ledger
        /\ commands' = commands /\ proc[p].pc = "round"
    BY DEF NextRound, Still, service
  <1>4. faults' \in 0 .. MaxFaults /\ misread' \in BOOLEAN /\ (misread => misread')
    BY <1>1, <1>2, ReadResult
  <1>5. World'
    BY <1>1, <1>3, <1>4 DEF World, Still
  <1>6. Grows
    BY <1>1, <1>3, <1>4, StillGrows
  <1>7. LedgerOK' /\ Guards'
    BY <1>1, <1>3, <1>6, LedgerStays, GuardsStay DEF Still
  <1> DEFINE pending == PendingLookups(entries, proc[p].repo, proc[p].point, proc[p].cache)
  <1>8. pending \subseteq DOMAIN tasks
    BY <1>1, <1>2 DEF PendingLookups, Live, LedgerOK
  <1> HIDE DEF pending
  <1>9. proc' = [proc EXCEPT ![p].pc = IF pending = {} THEN "commit" ELSE "lookup",
                             ![p].pending = pending, ![p].round = @ + 1]
    BY <1>2 DEF pending
  <1>10. Moves(p)
    BY <1>1, <1>9 DEF Moves
  <1>11. /\ Fields \subseteq DOMAIN proc'[p] /\ proc'[p].pc \in {"commit", "lookup"}
         /\ proc'[p].pending = pending
         /\ Same(proc'[p], proc[p], Fields \ {"pc", "pending", "round"})
    BY <1>1, <1>9 DEF CommandOK, Same, Fields
  <1>12. CacheOK(proc[p])'
    BY <1>1, <1>3, <1>11 DEF CommandOK, CacheOK, Answered, Active, Same, Fields, Still
  <1>13. CommandOK(p)'
    BY <1>1, <1>3, <1>5, <1>8, <1>11, <1>12 DEF CommandOK, Points, Same, Fields, Still
  <1> QED BY <1>5, <1>6, <1>7, <1>10, <1>13, OneMoves

(* A task is replaced by another version of itself.                        *)
LEMMA TaskSet ==
    ASSUME World, NEW t \in DOMAIN tasks, NEW task \in Task, tasks' = [tasks EXCEPT ![t] = task],
           task.repo = tasks[t].repo, task.action = tasks[t].action, task.sha = tasks[t].sha,
           task.posted = tasks[t].posted, task.idless = tasks[t].idless,
           task.state = "queued" => tasks[t].state = "queued"
    PROVE  /\ tasks' \in Seq(Task) /\ Len(tasks') = Len(tasks) /\ DOMAIN tasks' = DOMAIN tasks
           /\ TasksKept
  <1>1. tasks \in Seq(Task) /\ DOMAIN tasks = 1 .. Len(tasks) /\ t \in 1 .. Len(tasks)
    BY DEF World
  <1>2. [tasks EXCEPT ![t] = task] \in Seq(Task) /\ Len([tasks EXCEPT ![t] = task]) = Len(tasks)
    BY <1>1, ExceptSeq, Zenon
  <1>3. tasks' \in Seq(Task) /\ Len(tasks') = Len(tasks)
    BY <1>2, Zenon
  <1>4. DOMAIN tasks' = DOMAIN tasks
    BY <1>1
  <1> QED BY <1>1, <1>3, <1>4 DEF TasksKept

(* The answers of lookups stay true when one more is added.                *)
LEMMA LookupKeeps ==
    ASSUME IInv, NEW p \in Process, NEW t \in TaskId, Lookup(p, t)
    PROVE  IInv'
  <1>1. World /\ LedgerOK /\ Guards /\ DOMAIN proc = Process /\ CommandOK(p)
    BY DEF IInv
  <1>2. PICK answer \in {Detail(tasks[t].state), NotFound, LookupError} :
          /\ Answer(t, answer)
          /\ LET left == proc[p].pending \ {t} IN
             proc' = [proc EXCEPT
                ![p].pc = IF left # {} THEN "lookup"
                          ELSE IF proc[p].round < MaxLookupRounds THEN "round" ELSE "commit",
                ![p].pending = left,
                ![p].cache = [u \in DOMAIN @ \cup {t} |-> IF u = t THEN answer ELSE @[u]]]
          /\ unknown' = unknown \cup
                {u \in {t} : answer = NotFound /\ now > tasks[t].posted + Grace}
    BY DEF Lookup
  <1>3. /\ now' = now /\ head' = head /\ audited' = audited /\ ledger' = ledger
        /\ commands' = commands /\ recorded' = recorded /\ misread' = misread
        /\ proc[p].pc = "lookup" /\ t \in proc[p].pending
    BY DEF Lookup
  <1>4. t \in DOMAIN tasks
    BY <1>1, <1>3 DEF CommandOK
  <1>5. /\ tasks[t] \in Task /\ tasks[t].state \in TaskStates /\ tasks[t].posted \in Nat
        /\ now \in Nat
    BY <1>1, <1>4, TaskTypes
  <1>6. /\ tasks' \in Seq(Task) /\ Len(tasks') = Len(tasks) /\ DOMAIN tasks' = DOMAIN tasks
        /\ TasksKept
    <2>1. CASE tasks' = tasks
      BY <1>1, <2>1 DEF World, TasksKept
    <2>2. CASE tasks' = [tasks EXCEPT ![t].known = TRUE]
      <3> DEFINE task == [tasks[t] EXCEPT !.known = TRUE]
      <3>1. task \in Task /\ task.repo = tasks[t].repo /\ task.action = tasks[t].action
            /\ task.sha = tasks[t].sha /\ task.posted = tasks[t].posted
            /\ task.idless = tasks[t].idless /\ task.state = tasks[t].state
        BY <1>5 DEF Task
      <3>2. tasks' = [tasks EXCEPT ![t] = task]
        BY <2>2
      <3> HIDE DEF task
      <3> QED BY <1>1, <1>4, <3>1, <3>2, TaskSet
    <2> QED BY <1>2, <2>1, <2>2 DEF Answer
  <1>7. faults' \in 0 .. MaxFaults
    BY <1>1, <1>2, FaultCounted DEF Answer, World
  <1>8. unknown \subseteq unknown' /\ unknown' \subseteq DOMAIN tasks
    BY <1>1, <1>2, <1>4 DEF World
  <1>9. Grows
    BY <1>3, <1>5, <1>6, <1>8 DEF Grows
  <1>10. World'
    BY <1>1, <1>3, <1>6, <1>7, <1>8 DEF World, TasksKept
  <1>11. LedgerOK' /\ Guards'
    BY <1>1, <1>3, <1>9, LedgerStays, GuardsStay
  <1> DEFINE c == proc[p]
             cache == [u \in DOMAIN c.cache \cup {t} |-> IF u = t THEN answer ELSE c.cache[u]]
             left == c.pending \ {t}
             next == IF left # {} THEN "lookup"
                     ELSE IF c.round < MaxLookupRounds THEN "round" ELSE "commit"
  <1>12. proc' = [proc EXCEPT ![p].pc = next, ![p].pending = left, ![p].cache = cache]
    BY <1>2
  <1>13. next \in {"lookup", "round", "commit"}
    OBVIOUS
  <1>14. DOMAIN cache = DOMAIN c.cache \cup {t} /\ cache[t] = answer
         /\ \A u \in DOMAIN c.cache : u # t => cache[u] = c.cache[u]
    OBVIOUS
  <1>15. left \subseteq DOMAIN tasks
    BY <1>1 DEF CommandOK
  <1> HIDE DEF cache, next, left
  <1>16. Moves(p)
    BY <1>1, <1>12 DEF Moves
  <1>17. /\ Fields \subseteq DOMAIN proc'[p] /\ proc'[p].pc = next /\ proc'[p].pending = left
         /\ proc'[p].cache = cache
         /\ Same(proc'[p], proc[p], Fields \ {"pc", "pending", "cache"})
    BY <1>1, <1>12 DEF CommandOK, Same, Fields
  <1>18. proc'[p].point = c.point /\ c.point \in 0 .. now
    BY <1>1, <1>17 DEF Same, Fields, CommandOK
  <1>19. Answered(t, answer, c.point)'
    <2>1. CASE answer = Detail(tasks[t].state)
      <3>1. CASE tasks[t].state = "queued"
        BY <2>1, <3>1 DEF Answered
      <3>2. CASE tasks[t].state \in {"completed", "failed"}
        <4>1. ~Active(t)'
          BY <1>4, <1>6, <3>2 DEF TasksKept, Active
        <4> QED BY <2>1, <3>2, <4>1 DEF Answered
      <3> QED BY <1>5, <3>1, <3>2 DEF TaskStates
    <2>2. CASE answer = NotFound
      <3>1. tasks'[t].posted = tasks[t].posted
        BY <1>4, <1>6 DEF TasksKept
      <3>2. CASE now > tasks[t].posted + Grace
        <4>1. t \in unknown'
          BY <1>2, <2>2, <3>2
        <4> QED BY <2>2, <4>1 DEF Answered
      <3>3. CASE ~(now > tasks[t].posted + Grace)
        <4>1. c.point <= tasks'[t].posted + Grace
          BY <1>5, <1>18, <3>1, <3>3, LedgerAssumption
        <4> QED BY <2>2, <4>1, <1>18 DEF Answered
      <3> QED BY <3>2, <3>3
    <2>3. CASE answer = LookupError
      BY <2>3 DEF Answered
    <2> QED BY <1>2, <2>1, <2>2, <2>3
  <1>20. ASSUME NEW u \in DOMAIN c.cache, u # t
         PROVE  Answered(u, proc[p].cache[u], proc[p].point)'
    <2>1. u \in DOMAIN tasks /\ Answered(u, c.cache[u], c.point)
      BY <1>1 DEF CommandOK, CacheOK
    <2>2. /\ tasks'[u].posted = tasks[u].posted /\ (Active(u)' => Active(u))
          /\ u \in unknown => u \in unknown'
      BY <1>6, <1>8, <2>1 DEF TasksKept, Active
    <2>3. proc'[p].cache[u] = c.cache[u]
      BY <1>14, <1>17, <1>20
    <2>4. CASE c.cache[u] = NotFound /\ (u \in unknown \/ c.point <= tasks[u].posted + Grace)
      BY <1>18, <2>2, <2>3, <2>4 DEF Answered
    <2>5. CASE c.cache[u] \in {Detail("completed"), Detail("failed")} /\ ~Active(u)
      BY <2>2, <2>3, <2>5 DEF Answered
    <2>6. CASE c.cache[u] \in {Detail("queued"), LookupError}
      BY <2>3, <2>6 DEF Answered
    <2> QED BY <2>1, <2>4, <2>5, <2>6 DEF Answered
  <1>21. CacheOK(proc[p])'
    <2>1. DOMAIN cache \subseteq DOMAIN tasks'
      BY <1>1, <1>4, <1>6, <1>14 DEF CommandOK, CacheOK
    <2> QED BY <2>1, <1>14, <1>17, <1>18, <1>19, <1>20 DEF CacheOK
  <1>22. CommandOK(p)'
    BY <1>1, <1>3, <1>6, <1>13, <1>15, <1>17, <1>18, <1>21 DEF CommandOK, Points, Same, Fields
  <1> QED BY <1>9, <1>10, <1>11, <1>16, <1>22, OneMoves

(* The commit keeps every guarded entry and shows it in the runs.          *)
LEMMA CommitKeeps ==
    ASSUME IInv, NEW p \in Process, CommitReconciliation(p)
    PROVE  IInv'
  <1>1. World /\ LedgerOK /\ Guards /\ DOMAIN proc = Process /\ CommandOK(p)
    BY DEF IInv
  <1>2. PICK entries \in {ledger, {}} :
          /\ Read(entries)
          /\ ledger' = IF CommitOn(p, entries) = entries THEN ledger ELSE CommitOn(p, entries)
          /\ proc' = [proc EXCEPT
                ![p] = IF @.todo = {} THEN Idle ELSE
                    [@ EXCEPT !.pc = "start", !.cache = <<>>, !.upstream = {}, !.round = 0,
                        !.point = 0, !.runs = RunsFor(p, entries)]]
    BY DEF CommitReconciliation
  <1>3. /\ Still /\ head' = head /\ audited' = audited /\ commands' = commands
        /\ proc[p].pc = "commit"
    BY DEF CommitReconciliation, Still, service
  <1>4. /\ faults' \in 0 .. MaxFaults /\ misread' \in BOOLEAN /\ (misread => misread')
        /\ entries = ledger \/ (entries = {} /\ misread' = TRUE)
    BY <1>1, <1>2, ReadResult
  <1>5. World'
    BY <1>1, <1>3, <1>4 DEF World, Still
  <1>6. Grows
    BY <1>1, <1>3, <1>4, StillGrows
  <1>7. ledger' \subseteq ledger
    BY <1>2 DEF CommitOn, Retained, Live
  <1>8. LedgerOK'
    BY <1>1, <1>6, <1>7, LedgerStays
  <1> DEFINE c == proc[p]
  <1>9. CacheOK(c) /\ c.point \in 0 .. now /\ c.seen \subseteq recorded
    BY <1>1 DEF CommandOK
  <1>10. ASSUME NEW t \in recorded, Guarded(t)'
         PROVE  /\ t \in DOMAIN tasks /\ Guarded(t) /\ entries = ledger
                /\ \E e \in ledger : e.task = t
    <2>1. t \in DOMAIN tasks
      BY <1>1 DEF World
    <2>2. Guarded(t)
      BY <1>1, <1>6, <1>10, <2>1, GuardedBefore
    <2>3. entries = ledger
      BY <1>4, <1>10 DEF Guarded
    <2> QED BY <1>1, <2>1, <2>2, <2>3 DEF Guards
  <1>11. Guards'
    <2> SUFFICES ASSUME NEW t \in recorded, Guarded(t)' PROVE \E e \in ledger' : e.task = t
      BY <1>3 DEF Guards, Still
    <2>1. PICK e \in ledger : e.task = t
      BY <1>10
    <2>2. e \in Retained(ledger, c.repo, c.cache, c.point, c.upstream)
      BY <1>1, <1>9, <1>10, <2>1, GuardedRetained
    <2>3. e \in CommitOn(p, entries)
      BY <1>10, <2>2 DEF CommitOn
    <2> QED BY <1>2, <2>1, <2>3
  <1>12. Moves(p)
    BY <1>1, <1>2 DEF Moves
  <1>13. CommandOK(p)'
    <2>1. CASE c.todo = {}
      <3>1. proc'[p] = Idle
        BY <1>1, <1>2, <2>1
      <3> QED BY <1>5, <3>1, IdleOK
    <2>2. CASE c.todo # {}
      <3> DEFINE runs == RunsFor(p, entries)
      <3>1. proc'[p] = [c EXCEPT !.pc = "start", !.cache = <<>>, !.upstream = {}, !.round = 0,
                                 !.point = 0, !.runs = runs]
        BY <1>1, <1>2, <2>2
      <3> HIDE DEF runs
      <3>2. /\ Fields \subseteq DOMAIN proc'[p] /\ proc'[p].pc = "start" /\ proc'[p].cache = <<>>
            /\ proc'[p].point = 0 /\ proc'[p].runs = runs
            /\ Same(proc'[p], c, Fields \ {"pc", "cache", "upstream", "round", "point", "runs"})
        BY <1>1, <3>1 DEF CommandOK, Same, Fields
      <3>3. CacheOK(proc[p])'
        BY <3>2 DEF CacheOK
      <3>4. proc'[p].seen = c.seen /\ proc'[p].repo = c.repo
        BY <3>2 DEF Same, Fields
      <3>5. Seen(proc[p])'
        <4> SUFFICES ASSUME NEW t \in c.seen, Guarded(t)', tasks[t].repo = c.repo
                     PROVE  \E run \in runs : /\ run.action = tasks[t].action /\ IsActiveRun(run)
                                              /\ run.sha = tasks[t].sha
          BY <1>3, <3>2, <3>4 DEF Seen, Still, IsActiveRun, Lifecycle, TaskLifecycle
        <4>1. PICK e \in ledger : e.task = t
          BY <1>9, <1>10
        <4>2. t \in DOMAIN tasks /\ Guarded(t) /\ entries = ledger
          BY <1>9, <1>10
        <4>3. runs = ReconciledRuns(ledger, tasks[t].repo, c.cache, c.point, c.upstream)
          BY <4>2 DEF runs, RunsFor
        <4> QED BY <1>1, <1>9, <4>1, <4>2, <4>3, GuardedRun
      <3>6. now' \in Nat
        BY <1>6 DEF Grows
      <3> QED BY <1>1, <1>3, <3>2, <3>3, <3>5, <3>6 DEF CommandOK, Points, Same, Fields, Still
    <2> QED BY <2>1, <2>2
  <1> QED BY <1>5, <1>6, <1>8, <1>11, <1>12, <1>13, OneMoves

(* The end of an audit's turn: the next audit, or the end of the command.  *)
LEMMA FinishedOK ==
    ASSUME World, World', Grows, DOMAIN proc = Process, NEW p \in Process, CommandOK(p),
           proc[p].pc \in {"start", "record"}, NEW a, Finished(p, a)
    PROVE  Moves(p) /\ CommandOK(p)'
  <1> DEFINE c == proc[p]
  <1>1. Moves(p)
    BY DEF Finished, Moves
  <1>2. CASE c.todo = {a}
    <2>1. proc'[p] = Idle
      BY <1>2 DEF Finished
    <2> QED BY <1>1, <2>1, IdleOK
  <1>3. CASE c.todo # {a}
    <2>1. proc'[p] = [c EXCEPT !.pc = "start", !.todo = c.todo \ {a}, !.task = NoTask]
      BY <1>3 DEF Finished
    <2>2. /\ Fields \subseteq DOMAIN proc'[p] /\ proc'[p].pc = "start"
          /\ proc'[p].todo = c.todo \ {a}
          /\ Same(proc'[p], c, Fields \ {"pc", "todo", "task"})
      BY <2>1 DEF CommandOK, Same, Fields
    <2>3. /\ proc'[p].cache = c.cache /\ proc'[p].point = c.point /\ proc'[p].seen = c.seen
          /\ proc'[p].repo = c.repo /\ proc'[p].runs = c.runs
      BY <2>2 DEF Same, Fields
    <2>4. CacheOK(proc[p])'
      BY <2>3, CacheStays DEF CommandOK
    <2>5. Seen(proc[p])'
      BY <2>3, SeenStays DEF CommandOK
    <2>6. /\ c.point \in 0 .. now' /\ c.pending \subseteq DOMAIN tasks'
          /\ c.seen \subseteq recorded'
      BY DEF CommandOK, Grows, TasksKept
    <2>7. CommandOK(p)'
      BY <2>2, <2>4, <2>5, <2>6 DEF CommandOK, Points, Same, Fields
    <2> QED BY <1>1, <2>7
  <1> QED BY <1>2, <1>3

(* An audit that is at work or up to date is left alone.                   *)
LEMMA SkipKeeps ==
    ASSUME IInv, NEW p \in Process, NEW a \in Action, Skip(p, a)
    PROVE  IInv'
  <1>1. World /\ LedgerOK /\ Guards /\ DOMAIN proc = Process /\ CommandOK(p)
    BY DEF IInv
  <1>2. /\ Still /\ head' = head /\ audited' = audited /\ ledger' = ledger /\ misread' = misread
        /\ faults' = faults /\ commands' = commands /\ proc[p].pc = "start" /\ Finished(p, a)
    BY DEF Skip, Still, ghosts, service
  <1>3. World'
    BY <1>1, <1>2 DEF World, Still
  <1>4. Grows
    BY <1>1, <1>2, StillGrows
  <1>5. LedgerOK' /\ Guards'
    BY <1>1, <1>2, <1>4, LedgerStays, GuardsStay DEF Still
  <1>6. Moves(p) /\ CommandOK(p)'
    BY <1>1, <1>2, <1>3, <1>4, FinishedOK
  <1> QED BY <1>3, <1>4, <1>5, <1>6, OneMoves

(* The service accepts a start: the tasks there were are as before.        *)
LEMMA AcceptKeeps ==
    ASSUME World, NEW p, proc[p].repo \in Repo, proc[p].cur \in Sha, NEW a \in Action,
           NEW idless \in BOOLEAN, Accept(p, a, idless)
    PROVE  /\ tasks' \in Seq(Task) /\ Len(tasks') = Len(tasks) + 1
           /\ head' = head /\ audited' = audited /\ TasksKept
           /\ tasks'[Len(tasks')].repo = proc[p].repo /\ tasks'[Len(tasks')].action = a
           /\ tasks'[Len(tasks')].sha = proc[p].cur
           /\ \A t \in DOMAIN tasks' : tasks'[t].posted <= now
  <1> DEFINE task == [repo |-> proc[p].repo, action |-> a, sha |-> proc[p].cur,
                      state |-> "queued", posted |-> now, known |-> FALSE, idless |-> idless]
  <1>1. now \in Nat /\ tasks \in Seq(Task) /\ Len(tasks) \in Nat /\ Len(tasks) < MaxTasks
        /\ DOMAIN tasks = 1 .. Len(tasks)
    BY StartAssumption DEF World, Accept
  <1>2. task \in Task /\ task.repo = proc[p].repo /\ task.action = a /\ task.sha = proc[p].cur
        /\ task.posted = now
    BY <1>1 DEF Task, TaskStates
  <1>3. tasks' = Append(tasks, task) /\ head' = head /\ audited' = audited
    BY DEF Accept
  <1> HIDE DEF task
  <1>4. tasks' \in Seq(Task) /\ Len(tasks') = Len(tasks) + 1 /\ tasks'[Len(tasks) + 1] = task
    BY <1>1, <1>2, <1>3
  <1>5. \A t \in DOMAIN tasks : t \in DOMAIN tasks' /\ tasks'[t] = tasks[t]
    BY <1>1, <1>3
  <1>6. \A t \in DOMAIN tasks' : t \in DOMAIN tasks \/ t = Len(tasks) + 1
    BY <1>1, <1>4
  <1>7. TasksKept
    BY <1>5 DEF TasksKept
  <1>8. \A t \in DOMAIN tasks' : tasks'[t].posted <= now
    BY <1>1, <1>2, <1>4, <1>5, <1>6 DEF World
  <1> QED BY <1>1, <1>2, <1>3, <1>4, <1>7, <1>8, StartAssumption

(* A start is accepted and its task is about to be recorded.               *)
LEMMA StartAuditRunKeeps ==
    ASSUME IInv, NEW p \in Process, NEW a \in Action, StartAuditRun(p, a)
    PROVE  IInv'
  <1>1. World /\ LedgerOK /\ Guards /\ DOMAIN proc = Process /\ CommandOK(p)
    BY DEF IInv
  <1>2. PICK idless \in {FALSE, Idless} :
          Accept(p, a, idless) /\ proc' = [proc EXCEPT ![p].pc = "record", ![p].task = Len(tasks) + 1]
    BY DEF StartAuditRun
  <1>3. /\ now' = now /\ commands' = commands /\ ledger' = ledger /\ faults' = faults
        /\ recorded' = recorded /\ unknown' = unknown /\ misread' = misread
        /\ proc[p].pc = "start"
    BY DEF StartAuditRun, Startable, ghosts
  <1>4. proc[p].repo \in Repo /\ proc[p].cur \in Sha /\ idless \in BOOLEAN
    BY <1>1, <1>3, StartAssumption DEF CommandOK
  <1>5. /\ tasks' \in Seq(Task) /\ Len(tasks') = Len(tasks) + 1
        /\ head' = head /\ audited' = audited /\ TasksKept
        /\ \A t \in DOMAIN tasks' : tasks'[t].posted <= now
    BY <1>1, <1>2, <1>4, AcceptKeeps
  <1>6. DOMAIN tasks \subseteq DOMAIN tasks' /\ Len(tasks) + 1 \in DOMAIN tasks'
    <2>1. Len(tasks) \in Nat /\ DOMAIN tasks' = 1 .. Len(tasks')
      BY <1>1, <1>5 DEF World
    <2> QED BY <1>5, <2>1 DEF TasksKept
  <1>7. World'
    BY <1>1, <1>3, <1>5, <1>6 DEF World
  <1>8. Grows
    BY <1>1, <1>3, <1>5, StartAssumption DEF Grows, World
  <1>9. LedgerOK' /\ Guards'
    BY <1>1, <1>3, <1>8, LedgerStays, GuardsStay
  <1>10. Moves(p)
    BY <1>1, <1>2 DEF Moves
  <1>11. /\ Fields \subseteq DOMAIN proc'[p] /\ proc'[p].pc = "record"
         /\ proc'[p].task = Len(tasks) + 1
         /\ Same(proc'[p], proc[p], Fields \ {"pc", "task"})
    BY <1>1, <1>2 DEF CommandOK, Same, Fields
  <1>12. /\ proc'[p].cache = proc[p].cache /\ proc'[p].point = proc[p].point
         /\ proc'[p].seen = proc[p].seen
         /\ proc'[p].repo = proc[p].repo /\ proc'[p].runs = proc[p].runs
    BY <1>11 DEF Same, Fields
  <1>13. CacheOK(proc[p])'
    BY <1>1, <1>8, <1>12, CacheStays DEF CommandOK
  <1>14. Seen(proc[p])'
    BY <1>1, <1>3, <1>8, <1>12, SeenStays DEF CommandOK
  <1>15. CommandOK(p)'
    BY <1>1, <1>3, <1>6, <1>11, <1>13, <1>14 DEF CommandOK, Points, Same, Fields
  <1> QED BY <1>7, <1>8, <1>9, <1>10, <1>15, OneMoves

(* A start that is answered with an error, whether or not it was accepted. *)
LEMMA StartFailsKeeps ==
    ASSUME IInv, NEW p \in Process, NEW a \in Action, StartFails(p, a)
    PROVE  IInv'
  <1>1. World /\ LedgerOK /\ Guards /\ DOMAIN proc = Process /\ CommandOK(p)
    BY DEF IInv
  <1>2. /\ now' = now /\ commands' = commands /\ ledger' = ledger /\ faults' \in 0 .. MaxFaults
        /\ recorded' = recorded /\ unknown' = unknown /\ misread' = misread
        /\ proc[p].pc = "start" /\ Finished(p, a)
    BY <1>1, FaultCounted DEF StartFails, Startable, ghosts
  <1>3. proc[p].repo \in Repo /\ proc[p].cur \in Sha
    BY <1>1, <1>2 DEF CommandOK
  <1>4. /\ tasks' \in Seq(Task)
        /\ head' = head /\ audited' = audited /\ TasksKept
        /\ \A t \in DOMAIN tasks' : tasks'[t].posted <= now
    <2>1. CASE Accept(p, a, FALSE)
      BY <1>1, <1>3, <2>1, AcceptKeeps
    <2>2. CASE UNCHANGED service
      BY <1>1, <2>2 DEF service, World, TasksKept
    <2> QED BY <2>1, <2>2 DEF StartFails
  <1>5. World'
    BY <1>1, <1>2, <1>4 DEF World, TasksKept
  <1>6. Grows
    BY <1>1, <1>2, <1>4, StartAssumption DEF Grows, World
  <1>7. LedgerOK' /\ Guards'
    BY <1>1, <1>2, <1>6, LedgerStays, GuardsStay
  <1>8. Moves(p) /\ CommandOK(p)'
    BY <1>1, <1>2, <1>5, <1>6, FinishedOK
  <1> QED BY <1>5, <1>6, <1>7, <1>8, OneMoves

(* The entry of an accepted task is in order.                              *)
LEMMA NewEntryOK ==
    ASSUME World, NEW t \in DOMAIN tasks
    PROVE  /\ EntryOK(EntryOf(t))
           /\ EntryOf(t).task = IF tasks[t].idless THEN NoTask ELSE t
  <1> DEFINE id == IF tasks[t].idless THEN NoTask ELSE t
             e == EntryOf(t)
  <1>1. /\ tasks[t].repo \in Repo /\ tasks[t].sha \in Sha /\ tasks[t].action \in Action
        /\ tasks[t].posted \in Nat /\ tasks[t].posted <= now /\ now \in Nat
        /\ t \in Nat /\ t # NoTask
    BY TaskTypes
  <1>2. id \in Nat /\ id \in {NoTask} \cup DOMAIN tasks /\ (id # NoTask => id = t)
    BY <1>1 DEF NoTask
  <1>3. EntryOf(t) = NewEntry(tasks[t].repo, tasks[t].action, id, "queued", tasks[t].sha, now)
    BY DEF EntryOf
  <1> HIDE DEF id
  <1>4. /\ e.repo = tasks[t].repo /\ e.action = tasks[t].action /\ e.task = id
        /\ e.status = "queued" /\ e.sha = tasks[t].sha /\ e.observed = now
        /\ e.expires = now + Ttl
    BY <1>3 DEF NewEntry
  <1>5. e \in EntryType
    BY <1>1, <1>2, <1>3, LedgerAssumption DEF NewEntry, EntryType, Statuses
  <1> HIDE DEF e
  <1>6. Backed(e)
    BY <1>1, <1>2, <1>4 DEF Backed
  <1>7. EntryOK(e)
    BY <1>1, <1>2, <1>4, <1>5, <1>6 DEF EntryOK
  <1> QED BY <1>4, <1>7 DEF e, id

(* A start is recorded: its entry takes the place of one of its identity.  *)
LEMMA RecordStartKeeps ==
    ASSUME IInv, NEW p \in Process, RecordStart(p)
    PROVE  IInv'
  <1>1. World /\ LedgerOK /\ Guards /\ DOMAIN proc = Process /\ CommandOK(p)
    BY DEF IInv
  <1> DEFINE task == proc[p].task
             entry == EntryOf(task)
  <1>2. PICK entries \in {ledger, {}} : Read(entries) /\ ledger' = RecordStarted(entries, entry)
    BY DEF RecordStart
  <1>3. /\ now' = now /\ commands' = commands /\ tasks' = tasks /\ head' = head
        /\ audited' = audited /\ unknown' = unknown /\ recorded' = recorded \cup {task}
        /\ proc[p].pc = "record" /\ Finished(p, tasks[task].action)
    BY DEF RecordStart, service
  <1>4. /\ faults' \in 0 .. MaxFaults /\ misread' \in BOOLEAN /\ (misread => misread')
        /\ entries = ledger \/ (entries = {} /\ misread' = TRUE)
    BY <1>1, <1>2, ReadResult
  <1>5. task \in DOMAIN tasks
    BY <1>1, <1>3 DEF CommandOK
  <1>6. World'
    BY <1>1, <1>3, <1>4, <1>5 DEF World
  <1>7. Grows
    BY <1>1, <1>3, <1>4, StartAssumption DEF Grows, World, TasksKept
  <1>8. EntryOK(entry) /\ entry.task = IF tasks[task].idless THEN NoTask ELSE task
    BY <1>1, <1>5, NewEntryOK
  <1> HIDE DEF entry
  <1>9. \A e \in ledger' : e \in ledger \/ e = entry
    BY <1>2 DEF RecordStarted
  <1>10. LedgerOK'
    <2>1. \A e \in ledger' : EntryOK(e)
      BY <1>1, <1>8, <1>9 DEF LedgerOK, EntryOK
    <2> QED BY <1>3, <2>1 DEF LedgerOK, EntryOK, Backed, EntryType, Sha, Statuses
  <1>11. Guards'
    <2> SUFFICES ASSUME NEW t \in recorded', Guarded(t)' PROVE \E e \in ledger' : e.task = t
      BY DEF Guards
    <2>1. entry \in ledger'
      BY <1>2 DEF RecordStarted
    <2>2. CASE t = task
      <3>1. ~tasks[t].idless
        BY <1>3 DEF Guarded
      <3> QED BY <1>8, <2>1, <2>2, <3>1
    <2>3. CASE t \in recorded
      <3>1. Guarded(t)
        BY <1>1, <1>7, <2>3, GuardedBefore DEF World
      <3>2. PICK e \in ledger : e.task = t
        BY <1>1, <2>3, <3>1 DEF Guards
      <3>3. entries = ledger
        BY <1>4 DEF Guarded
      <3>4. CASE SameIdentity(e, entry)
        BY <2>1, <3>2, <3>4 DEF SameIdentity
      <3>5. CASE ~SameIdentity(e, entry)
        BY <1>2, <3>2, <3>3, <3>5 DEF RecordStarted
      <3> QED BY <3>4, <3>5
    <2> QED BY <1>3, <2>2, <2>3
  <1>12. Moves(p) /\ CommandOK(p)'
    BY <1>1, <1>3, <1>6, <1>7, FinishedOK
  <1> QED BY <1>6, <1>7, <1>10, <1>11, <1>12, OneMoves

(* A command ends early.                                                   *)
LEMMA AbortKeeps ==
    ASSUME IInv, NEW p \in Process, Abort(p)
    PROVE  IInv'
  <1>1. World /\ LedgerOK /\ Guards /\ DOMAIN proc = Process
    BY DEF IInv
  <1>2. /\ Still /\ head' = head /\ audited' = audited /\ ledger' = ledger /\ misread' = misread
        /\ faults' \in 0 .. MaxFaults /\ commands' = commands
    BY <1>1, FaultCounted DEF Abort, Still, ghosts, service
  <1>3. World'
    BY <1>1, <1>2 DEF World, Still
  <1>4. Grows
    BY <1>1, <1>2, StillGrows
  <1>5. LedgerOK' /\ Guards'
    BY <1>1, <1>2, <1>4, LedgerStays, GuardsStay DEF Still
  <1>6. Moves(p) /\ proc'[p] = Idle
    BY <1>1 DEF Abort, Stop, Moves
  <1>7. CommandOK(p)'
    BY <1>3, <1>6, IdleOK
  <1> QED BY <1>3, <1>4, <1>5, <1>6, <1>7, OneMoves

(* A task ends.                                                            *)
LEMMA FinishKeeps ==
    ASSUME IInv, NEW t \in DOMAIN tasks, Finish(t)
    PROVE  IInv'
  <1>1. World
    BY DEF IInv
  <1>2. PICK state \in {"completed", "failed"} :
          /\ tasks' = [tasks EXCEPT ![t].state = state]
          /\ audited' = IF state = "completed"
                        THEN [audited EXCEPT ![tasks[t].repo][tasks[t].action] = tasks[t].sha]
                        ELSE audited
    BY DEF Finish
  <1>3. /\ now' = now /\ commands' = commands /\ head' = head /\ ledger' = ledger /\ proc' = proc
        /\ faults' = faults /\ recorded' = recorded /\ unknown' = unknown /\ misread' = misread
    BY DEF Finish, ghosts
  <1>4. /\ tasks[t] \in Task /\ tasks[t].repo \in Repo /\ tasks[t].action \in Action
        /\ tasks[t].sha \in Sha
    BY <1>1, TaskTypes
  <1> DEFINE task == [tasks[t] EXCEPT !.state = state]
  <1>5. task \in Task /\ task.repo = tasks[t].repo /\ task.action = tasks[t].action
        /\ task.sha = tasks[t].sha /\ task.posted = tasks[t].posted
        /\ task.idless = tasks[t].idless /\ task.state # "queued"
    BY <1>4 DEF Task, TaskStates
  <1>6. tasks' = [tasks EXCEPT ![t] = task]
    BY <1>2
  <1> HIDE DEF task
  <1>7. /\ tasks' \in Seq(Task) /\ Len(tasks') = Len(tasks) /\ DOMAIN tasks' = DOMAIN tasks
        /\ TasksKept
    BY <1>1, <1>5, <1>6, TaskSet
  <1>8. audited' \in [Repo -> [Action -> Sha]]
    <2>1. audited \in [Repo -> [Action -> Sha]]
      BY <1>1 DEF World
    <2>2. [audited[tasks[t].repo] EXCEPT ![tasks[t].action] = tasks[t].sha] \in [Action -> Sha]
      BY <1>4, <2>1
    <2> QED BY <1>2, <1>4, <2>1, <2>2
  <1>9. World'
    BY <1>1, <1>3, <1>7, <1>8 DEF World, TasksKept
  <1>10. Grows
    BY <1>1, <1>3, <1>7, StartAssumption DEF Grows, World
  <1> QED BY <1>3, <1>9, <1>10, NoneMoves

(* The clock.                                                              *)
LEMMA TickKeeps ==
    ASSUME IInv, Tick
    PROVE  IInv'
  <1>1. World
    BY DEF IInv
  <1>2. now \in Nat /\ now' = now + 1 /\ now' \in 0 .. MaxTime /\ tasks' = tasks
    BY <1>1, StartAssumption DEF World, Tick, service
  <1>3. \A t \in DOMAIN tasks : tasks[t].posted <= now'
    BY <1>1, <1>2, TaskTypes
  <1>4. World'
    BY <1>1, <1>2, <1>3 DEF World, Tick, service, ghosts
  <1>5. Grows
    BY <1>2 DEF Grows, TasksKept, Tick, ghosts
  <1> QED BY <1>4, <1>5, NoneMoves DEF Tick, ghosts

(* Nothing moves.                                                          *)
LEMMA StutterKeeps ==
    ASSUME IInv, UNCHANGED vars
    PROVE  IInv'
  <1>1. World
    BY DEF IInv
  <1>2. Still /\ misread' = misread
    BY DEF vars, Still
  <1>3. Grows
    BY <1>1, <1>2, StillGrows
  <1>4. World'
    BY <1>1 DEF World, vars
  <1> QED BY <1>3, <1>4, NoneMoves DEF vars

(* The invariant holds initially, with or without an earlier audit.        *)
LEMMA InitOK ==
    ASSUME Init
    PROVE  IInv
  <1>1. /\ now = 0 /\ head = [r \in Repo |-> 1]
        /\ audited = [r \in Repo |-> [a \in Action |-> NoSha]]
        /\ ledger = {EntryOf(t) : t \in DOMAIN tasks} /\ proc = [p \in Process |-> Idle]
        /\ faults = 0 /\ commands = 0 /\ recorded = DOMAIN tasks /\ unknown = {}
        /\ misread = FALSE
    BY DEF Init
  <1>2. tasks \in Seq(Task) /\ \A t \in DOMAIN tasks : tasks[t].posted = 0
    <2>1. CASE tasks = <<>>
      BY <2>1
    <2>2. CASE tasks # <<>>
      <3>1. PICK r \in Repo, a \in Action, idless \in {FALSE, Idless} :
              tasks = <<[repo |-> r, action |-> a, sha |-> 1, state |-> "queued", posted |-> 0,
                         known |-> FALSE, idless |-> idless]>>
        BY <2>2 DEF Init
      <3> DEFINE task == [repo |-> r, action |-> a, sha |-> 1, state |-> "queued", posted |-> 0,
                          known |-> FALSE, idless |-> idless]
      <3>2. task \in Task /\ task.posted = 0
        <4>1. Idless \in BOOLEAN
          BY StartAssumption
        <4>2. idless \in BOOLEAN
          BY <4>1, Zenon
        <4>3. 1 \in Sha
          BY StartAssumption DEF Sha
        <4> QED BY <4>2, <4>3 DEF Task, TaskStates
      <3> HIDE DEF task
      <3>3. tasks = <<task>>
        BY <3>1 DEF task
      <3> QED BY <3>2, <3>3
    <2> QED BY <2>1, <2>2
  <1>3. World
    <2>1. now \in 0 .. MaxTime /\ faults \in 0 .. MaxFaults /\ commands \in 0 .. MaxCommands
      BY <1>1, StartAssumption
    <2>2. head \in [Repo -> 1 .. MaxHeads]
      BY <1>1, StartAssumption
    <2>3. audited \in [Repo -> [Action -> Sha]]
      BY <1>1, StartAssumption DEF Sha, NoSha
    <2>4. \A t \in DOMAIN tasks : tasks[t].posted <= now
      BY <1>1, <1>2
    <2>5. misread \in BOOLEAN /\ recorded \subseteq DOMAIN tasks /\ unknown \subseteq DOMAIN tasks
      BY <1>1
    <2> QED BY <1>2, <2>1, <2>2, <2>3, <2>4, <2>5 DEF World
  <1>4. \A e \in ledger : EntryOK(e)
    BY <1>1, <1>3, NewEntryOK
  <1>5. LedgerOK
    BY <1>4 DEF LedgerOK, EntryOK
  <1>6. Guards
    <2> SUFFICES ASSUME NEW t \in DOMAIN tasks, Guarded(t) PROVE \E e \in ledger : e.task = t
      BY <1>1 DEF Guards
    <2>1. EntryOf(t) \in ledger
      BY <1>1
    <2>2. EntryOf(t).task = t
      BY <1>3, NewEntryOK DEF Guarded
    <2> QED BY <2>1, <2>2
  <1>7. ASSUME NEW p \in Process PROVE CommandOK(p)
    <2>1. proc[p] = Idle
      BY <1>1
    <2>2. /\ Fields \subseteq DOMAIN proc[p] /\ proc[p].pc = "idle" /\ proc[p].cur = NoSha
          /\ proc[p].todo = {} /\ proc[p].point = 0 /\ proc[p].pending = {}
          /\ proc[p].seen = {} /\ proc[p].cache = <<>>
      BY <2>1 DEF Idle, Fields
    <2>3. CacheOK(proc[p])
      BY <2>2 DEF CacheOK
    <2>4. now \in Nat /\ NoSha \in Sha
      BY <1>1, StartAssumption DEF Sha, NoSha
    <2> QED BY <2>2, <2>3, <2>4 DEF CommandOK, Points
  <1> QED BY <1>1, <1>3, <1>5, <1>6, <1>7 DEF IInv

----------------------------------------------------------------------------
(* The theorems                                                            *)

(* Every step keeps the invariant.                                         *)
LEMMA NextKeeps ==
    ASSUME IInv, [Next]_vars
    PROVE  IInv'
  <1>1. ASSUME NEW p \in Process, Step(p) PROVE IInv'
    <2>1. CASE ReadUpstream(p) BY <2>1, ReadUpstreamKeeps
    <2>2. CASE NextRound(p) BY <2>2, NextRoundKeeps
    <2>3. CASE CommitReconciliation(p) BY <2>3, CommitKeeps
    <2>4. CASE RecordStart(p) BY <2>4, RecordStartKeeps
    <2>5. CASE \E t \in TaskId : Lookup(p, t) BY <2>5, LookupKeeps
    <2>6. CASE \E a \in Action : Skip(p, a) BY <2>6, SkipKeeps
    <2>7. CASE \E a \in Action : StartAuditRun(p, a) BY <2>7, StartAuditRunKeeps
    <2>8. CASE \E a \in Action : StartFails(p, a) BY <2>8, StartFailsKeeps
    <2> QED BY <1>1, <2>1, <2>2, <2>3, <2>4, <2>5, <2>6, <2>7, <2>8 DEF Step
  <1>2. ASSUME NEW p \in Process, Abort(p) PROVE IInv'
    BY <1>2, AbortKeeps
  <1>3. ASSUME NEW p \in Process, NEW r \in Repo, NEW todo \in SUBSET Action, Begin(p, r, todo)
        PROVE  IInv'
    BY <1>3, BeginKeeps
  <1>4. ASSUME NEW t \in DOMAIN tasks, Finish(t) PROVE IInv'
    BY <1>4, FinishKeeps
  <1>5. CASE Tick BY <1>5, TickKeeps
  <1>6. CASE UNCHANGED vars BY <1>6, StutterKeeps
  <1> QED BY <1>1, <1>2, <1>3, <1>4, <1>5, <1>6 DEF Next

(* Whatever the commands, the service and the faults do, the ledger guards *)
(* every recorded task that is still at work, known and within its         *)
(* lifetime, and the runs a command decides on show the ones recorded      *)
(* before it began (ledger.py, runs.py).                                   *)
THEOREM Invariance == Spec => []IInv
  <1>1. Init => IInv
    BY InitOK
  <1>2. IInv /\ [Next]_vars => IInv'
    BY NextKeeps
  <1> QED BY <1>1, <1>2, PTL DEF Spec

(* Every variable keeps its type; each entry that ledger.py writes is of a *)
(* task the service accepted, or of none, and expires at a time of the     *)
(* clock.                                                                  *)
THEOREM TypeCorrect == Spec => []TypeOK
  <1>1. IInv => TypeOK
    BY DEF IInv, World, LedgerOK, CommandOK, Points, TypeOK
  <1> QED BY <1>1, Invariance, PTL

(* Only the commit of a reconciliation and the record of a start write the *)
(* ledger.                                                                 *)
LEMMA LedgerWriters ==
    ASSUME [Next]_vars, ledger' # ledger
    PROVE  \E p \in Process : CommitReconciliation(p) \/ RecordStart(p)
  BY DEF Next, Step, vars, ReadUpstream, NextRound, Lookup, Skip, StartAuditRun, StartFails, Abort,
         Begin, Finish, Tick

(* What a step may remove from the ledger.                                 *)
LEMMA RemovedForAReason ==
    ASSUME IInv, [Next]_vars, NEW e \in ledger \ ledger'
    PROVE  \/ Expired(e, now)
           \/ e.task # NoTask /\ (~Active(e.task) \/ e.task \in unknown)
           \/ \E other \in ledger' : SameIdentity(e, other)
           \/ misread'
  <1>1. PICK p \in Process : CommitReconciliation(p) \/ RecordStart(p)
    BY LedgerWriters
  <1>2. World /\ LedgerOK /\ CommandOK(p) /\ EntryOK(e)
    BY DEF IInv, LedgerOK, EntryOK
  <1>3. CASE RecordStart(p)
    <2> DEFINE entry == EntryOf(proc[p].task)
    <2>1. PICK entries \in {ledger, {}} : Read(entries) /\ ledger' = RecordStarted(entries, entry)
      BY <1>3 DEF RecordStart
    <2> HIDE DEF entry
    <2>2. CASE entries = ledger
      <3>1. SameIdentity(e, entry) /\ entry \in ledger'
        BY <2>1, <2>2 DEF RecordStarted
      <3> QED BY <3>1
    <2>3. CASE entries # ledger
      BY <1>2, <2>1, <2>3, ReadResult
    <2> QED BY <2>2, <2>3
  <1>4. CASE CommitReconciliation(p)
    <2> DEFINE c == proc[p]
    <2>1. PICK entries \in {ledger, {}} :
            /\ Read(entries)
            /\ ledger' = IF CommitOn(p, entries) = entries THEN ledger ELSE CommitOn(p, entries)
      BY <1>4 DEF CommitReconciliation
    <2>2. CASE entries # ledger
      BY <1>2, <2>1, <2>2, ReadResult
    <2>3. CASE entries = ledger
      <3>1. e \notin Retained(ledger, c.repo, c.cache, c.point, c.upstream)
        BY <2>1, <2>3 DEF CommitOn
      <3>2. /\ e.repo = c.repo
            /\ e \in Live(ledger, c.repo, c.point) =>
                 ~Verdict(e, c.cache, c.point, c.upstream).retained
        BY <3>1 DEF Retained
      <3>3. CacheOK(c) /\ c.point \in 0 .. now /\ now \in Nat
        BY <1>2, StartAssumption DEF CommandOK, World
      <3>4. CASE e \in Live(ledger, c.repo, c.point)
        BY <1>2, <3>2, <3>3, <3>4, DroppedVerdict
      <3>5. CASE e \notin Live(ledger, c.repo, c.point)
        <4>1. Expired(e, c.point)
          BY <1>2, <3>2, <3>5 DEF Live, EntryOK, IsTerminalStatus
        <4>2. e.expires \in Nat
          BY <1>2 DEF EntryOK, EntryType
        <4> QED BY <3>3, <4>1, <4>2 DEF Expired
      <3> QED BY <3>4, <3>5
    <2> QED BY <2>2, <2>3
  <1> QED BY <1>1, <1>3, <1>4

(* An entry leaves the ledger only when it expired, its task ended, the    *)
(* service did not know the task after the grace period, an entry of the   *)
(* same identity took its place, or the file could not be read: the locked *)
(* commit of ledger.py never undoes what another command wrote.            *)
THEOREM GuardsAreKept == Spec => GuardKept
  <1>1. IInv /\ [Next]_vars =>
          [\A e \in ledger \ ledger' :
             \/ Expired(e, now)
             \/ e.task # NoTask /\ (~Active(e.task) \/ e.task \in unknown)
             \/ \E other \in ledger' : SameIdentity(e, other)
             \/ misread']_vars
    BY RemovedForAReason
  <1> QED BY <1>1, Invariance, PTL DEF Spec, GuardKept

(* Only a start that the service accepts adds a task.                      *)
LEMMA Starters ==
    ASSUME IInv, [Next]_vars, Len(tasks') > Len(tasks)
    PROVE  \E p \in Process, a \in Action, idless \in BOOLEAN :
             /\ Startable(p, a) /\ Accept(p, a, idless)
             /\ \A q \in Process \ {p} : proc'[q] = proc[q]
  <1>1. World /\ DOMAIN proc = Process
    BY DEF IInv
  <1>2. tasks' # tasks /\ Len(tasks') # Len(tasks)
    <2>1. Len(tasks) \in Nat
      BY <1>1 DEF World
    <2>2. Len(tasks') # Len(tasks)
      BY <2>1
    <2> QED BY <2>2
  <1>3. ASSUME NEW t \in DOMAIN tasks, NEW task, tasks' = [tasks EXCEPT ![t] = task]
        PROVE  FALSE
    <2>1. tasks \in Seq(Task) /\ DOMAIN tasks = 1 .. Len(tasks)
      BY <1>1 DEF World
    <2> DEFINE S == Task \cup {task}
    <2>2. [tasks EXCEPT ![t] = task] \in Seq(S) /\ Len([tasks EXCEPT ![t] = task]) = Len(tasks)
      <3>1. tasks \in Seq(S) /\ t \in 1 .. Len(tasks) /\ task \in S
        BY <2>1
      <3> HIDE DEF S
      <3> QED BY <3>1, ExceptSeq, Zenon
    <2> QED BY <1>2, <1>3, <2>2
  <1>4. ASSUME NEW t \in DOMAIN tasks, Finish(t) PROVE FALSE
    <2>1. PICK state : tasks' = [tasks EXCEPT ![t].state = state]
      BY <1>4 DEF Finish
    <2>2. tasks' = [tasks EXCEPT ![t] = [tasks[t] EXCEPT !.state = state]]
      BY <2>1
    <2> QED BY <1>3, <2>2
  <1>5. ASSUME NEW p \in Process, NEW t \in TaskId, Lookup(p, t) PROVE FALSE
    <2>1. t \in DOMAIN tasks
      BY <1>5 DEF Lookup, IInv, CommandOK
    <2>2. tasks' = [tasks EXCEPT ![t].known = TRUE]
      BY <1>2, <1>5 DEF Lookup, Answer
    <2>3. tasks' = [tasks EXCEPT ![t] = [tasks[t] EXCEPT !.known = TRUE]]
      BY <2>2
    <2> QED BY <1>3, <2>1, <2>3
  <1>6. ASSUME NEW p \in Process, NEW a \in Action, StartAuditRun(p, a) \/ StartFails(p, a)
        PROVE  /\ Startable(p, a) /\ \E idless \in BOOLEAN : Accept(p, a, idless)
               /\ \A q \in Process \ {p} : proc'[q] = proc[q]
    <2>1. CASE StartAuditRun(p, a)
      <3>1. PICK idless \in {FALSE, Idless} : /\ Accept(p, a, idless)
              /\ proc' = [proc EXCEPT ![p].pc = "record", ![p].task = Len(tasks) + 1]
        BY <2>1 DEF StartAuditRun
      <3>2. Idless \in BOOLEAN
        BY StartAssumption
      <3>3. idless \in BOOLEAN
        BY <3>2, Zenon
      <3>4. \A q \in Process \ {p} : proc'[q] = proc[q]
        BY <1>1, <3>1
      <3> QED BY <2>1, <3>1, <3>3, <3>4 DEF StartAuditRun
    <2>2. CASE StartFails(p, a)
      <3>1. Accept(p, a, FALSE)
        BY <1>2, <2>2 DEF StartFails, service
      <3>2. \A q \in Process \ {p} : proc'[q] = proc[q]
        BY <1>1, <2>2 DEF StartFails, Finished
      <3> QED BY <2>2, <3>1, <3>2 DEF StartFails
    <2> QED BY <1>6, <2>1, <2>2
  <1>7. ASSUME NEW p \in Process,
               \/ ReadUpstream(p) \/ NextRound(p) \/ CommitReconciliation(p) \/ RecordStart(p)
               \/ Abort(p) \/ (\E a \in Action : Skip(p, a))
               \/ \E r \in Repo, todo \in SUBSET Action : Begin(p, r, todo)
        PROVE  FALSE
    BY <1>2, <1>7 DEF ReadUpstream, NextRound, CommitReconciliation, RecordStart, Abort, Skip, Begin,
       service
  <1>8. ~Tick /\ ~UNCHANGED vars
    BY <1>2 DEF Tick, service, vars
  <1>9. PICK p \in Process, a \in Action : StartAuditRun(p, a) \/ StartFails(p, a)
    BY <1>4, <1>5, <1>7, <1>8 DEF Next, Step
  <1> QED BY <1>6, <1>9

(* A start that the service accepts repeats no guarded work: had a guarded *)
(* task of the command's repository done the work, the runs would show it  *)
(* and the command would have skipped the audit.                           *)
LEMMA StartIsNew ==
    ASSUME IInv, [Next]_vars, NEW p \in Process, NEW t \in DOMAIN tasks,
           StillGuarded(p, t), ~tasks[t].idless
    PROVE  ~Repeats(p, t)
  <1> SUFFICES ASSUME Repeats(p, t) PROVE FALSE
    OBVIOUS
  <1> DEFINE c == proc[p]
             new == tasks'[Len(tasks')]
  <1>1. /\ c.pc = "start" /\ proc'[p] # proc[p] /\ Len(tasks') > Len(tasks)
        /\ SameWork(new, tasks[t])
    BY DEF Repeats
  <1>2. PICK q \in Process, a \in Action, idless \in BOOLEAN :
          /\ Startable(q, a) /\ Accept(q, a, idless)
          /\ \A o \in Process \ {q} : proc'[o] = proc[o]
    BY <1>1, Starters
  <1>3. q = p
    BY <1>1, <1>2
  <1>4. World /\ CommandOK(p)
    BY DEF IInv
  <1>5. c.repo \in Repo /\ c.cur \in Sha /\ Seen(c)
    BY <1>1, <1>4 DEF CommandOK
  <1>6. new.repo = c.repo /\ new.action = a /\ new.sha = c.cur
    BY <1>2, <1>3, <1>4, <1>5, AcceptKeeps
  <1> HIDE DEF new
  <1>7. Guarded(t) /\ t \in c.seen
    BY DEF StillGuarded, Guarded
  <1>8. /\ tasks[t].repo = c.repo /\ tasks[t].action = a
        /\ c.cur = tasks[t].sha \/ NoSha \in {c.cur, tasks[t].sha}
    BY <1>1, <1>6 DEF SameWork
  <1>9. PICK run \in c.runs : run.action = a /\ IsActiveRun(run) /\ run.sha = tasks[t].sha
    BY <1>5, <1>7, <1>8 DEF Seen
  <1>10. run \in Matching(p, a)
    BY <1>8, <1>9 DEF Matching, CurrentHeadActiveRuns, ActiveRunsForAction
  <1> QED BY <1>2, <1>3, <1>10 DEF Startable

(* No command starts work that a recorded task already does, as long as    *)
(* that task is at work, its entry has not expired, no lookup missed it    *)
(* after its grace period and no read of the ledger failed: for every      *)
(* number of commands, however late the service's lists are and whatever   *)
(* is written between the lookups and the commit (start.py, ledger.py).    *)
THEOREM StartsAreNew == Spec => NoDuplicateStart
  <1>1. IInv /\ [Next]_vars =>
          [\A p \in Process : \A t \in DOMAIN tasks :
             StillGuarded(p, t) /\ ~tasks[t].idless => ~Repeats(p, t)]_vars
    BY StartIsNew
  <1> QED BY <1>1, Invariance, PTL DEF Spec, NoDuplicateStart
=============================================================================
