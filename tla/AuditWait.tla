----------------------------- MODULE AuditWait ------------------------------
(***************************************************************************)
(* `wait' (wait.py) and `audit read' (workflows.py, artifacts.py) over the *)
(* status of one repository (observation.py, status.py).  The status is    *)
(* built from three reads that run concurrently: the task links, the       *)
(* active runs reconciled with the ledger, and the rerun state.  The       *)
(* second is itself a list request, lookups without the lock and a locked  *)
(* commit.  Between any two requests or locked sections the service may    *)
(* finish a task or accept another, and other commands of this machine may *)
(* record a start in the ledger or reconcile it.                           *)
(*                                                                         *)
(* The service is external.  It keeps tasks; a task's id is its index.  It *)
(* lists them late, as running, with or without their head, and need not   *)
(* know a task it is asked about.  What other commands do to the ledger is *)
(* AuditStart's; here it is external, with the reasons AuditStart gives.   *)
(***************************************************************************)
EXTENDS AuditLedger, Sequences

CONSTANTS
    Audit,          \* published audits of the catalog
    PollSeconds, TimeoutSeconds, HeartbeatSeconds,
    MaxTasks,       \* bound: tasks the service accepts, but for an earlier one
    MaxHeads,       \* bound: commits
    MaxTime         \* bound: clock

ASSUME WaitAssumption ==
    /\ PollSeconds \in Nat \ {0}
    /\ TimeoutSeconds \in Nat
    /\ HeartbeatSeconds \in Nat \ {0}
    /\ MaxTasks \in Nat /\ MaxHeads \in Nat \ {0} /\ MaxTime \in Nat

Repo == "repo"
Reads == {"links", "runs", "rerun"}
MaxLookupRounds == 3

VARIABLES
    now,
    head,       \* the repository's current commit
    tasks,      \* [action, sha, state, ended, origin]; ended: how many tasks were
                \* accepted when the task ended, which orders ends and starts;
                \* origin: over before the command began, started since, or recorded
                \* in this machine's ledger too
    audited,    \* audited[a]: head of the last completed audit, as the service reports it
    ledger,     \* entries in the ledger file
    cmd,        \* the command: wait or read
    beats,      \* heartbeats of this wait so far
    over,       \* ghost: until the commit, the tasks that were over when the list was
                \* answered; from then on, those the commit had an entry and a detail of
    guarded,    \* ghost: tasks the ledger had to guard at the commit
    late        \* ghost: a poll came a heartbeat interval or more after the one before

vars == <<now, head, tasks, audited, ledger, cmd, beats, over, guarded, late>>
service == <<head, tasks, audited>>
ghosts == <<over, guarded>>
pace == <<beats, late>>

Active(t) == tasks[t].state = "queued"

Idle ==
    [pc |-> "idle", kind |-> "none", got |-> {}, step |-> "list", point |-> 0, round |-> 0,
     listed |-> 0, pending |-> {}, cache |-> <<>>, links |-> {}, runs |-> {}, cur |-> NoSha,
     audited |-> [a \in Audit |-> NoSha], started |-> 0, polled |-> 0, next |-> 0, wake |-> 0,
     reason |-> "none", audit |-> "none", ref |-> NoTask, newer |-> NoTask]

(* Earlier commands may have left a completed audit behind.                *)
Init ==
    /\ now = 0
    /\ head = 1
    /\ \/ tasks = <<>> /\ audited = [a \in Audit |-> NoSha]
       \/ \E past \in Audit :
            /\ tasks = <<[action |-> past, sha |-> 1, state |-> "completed", ended |-> 1,
                          origin |-> "past"]>>
            /\ audited = [a \in Audit |-> IF a = past THEN 1 ELSE NoSha]
    /\ ledger = {}
    /\ cmd = Idle
    /\ beats = 0
    /\ over = {} /\ guarded = {}
    /\ late = FALSE

Reading(what) == cmd.pc = "read" /\ what \notin cmd.got

----------------------------------------------------------------------------
(* Task links                                                              *)

(* A task that is over, as its link shows it.                              *)
Link(t) ==
    [task |-> t, action |-> tasks[t].action, status |-> tasks[t].state, started |-> TRUE,
     completed |-> TRUE, stamp |-> tasks[t].ended, sha |-> NoSha]

(* Links of tasks at work are never looked at, so they are left out.       *)
ReadLinks ==
    /\ Reading("links")
    /\ cmd' = [cmd EXCEPT !.got = @ \cup {"links"},
                          !.links = {Link(t) : t \in {u \in DOMAIN tasks : ~Active(u)}}]
    /\ UNCHANGED <<now, service, ledger, pace, ghosts>>

----------------------------------------------------------------------------
(* Active runs                                                             *)

(* The answer to the list request shows tasks accepted by now.  Which of   *)
(* them it shows matters first at the commit, and is chosen there.         *)
ListRuns ==
    /\ Reading("runs") /\ cmd.step = "list"
    /\ cmd' = [cmd EXCEPT !.step = "round", !.point = now, !.listed = Len(tasks)]
    /\ over' = {t \in DOMAIN tasks : ~Active(t)}
    /\ UNCHANGED <<now, service, ledger, pace, guarded>>

(* The active-runs list is a late projection: it may miss an active task,  *)
(* or still show a finished one as running, with or without its head.  A   *)
(* row's stamp orders rows only: a run of the ledger is queued, ranks below*)
(* a running one, and is never compared with it by time.                   *)
UpstreamRow(t, sha) ==
    [task |-> t, action |-> tasks[t].action, status |-> "running", started |-> TRUE,
     completed |-> FALSE, stamp |-> t, sha |-> sha]

Upstream(headed, headless) ==
    {UpstreamRow(t, tasks[t].sha) : t \in headed} \cup {UpstreamRow(t, NoSha) : t \in headless}

(* `_read': a file that cannot be read or decoded is an empty ledger.      *)
ReadLedger == {ledger, {}}

(* One locked read per round, for the task ids still to be looked up.      *)
NextRound ==
    /\ Reading("runs") /\ cmd.step = "round"
    /\ \E entries \in ReadLedger :
         LET pending == PendingLookups(entries, Repo, cmd.point, cmd.cache)
         IN  cmd' = [cmd EXCEPT !.step = IF pending = {} THEN "commit" ELSE "lookup",
                                !.pending = pending, !.round = @ + 1]
    /\ UNCHANGED <<now, service, ledger, pace, ghosts>>

(* A lookup finds the task, does not find it (yet), or fails.              *)
Lookup(t) ==
    /\ Reading("runs") /\ cmd.step = "lookup" /\ t \in cmd.pending
    /\ \E answer \in {Detail(tasks[t].state), NotFound, LookupError} :
         LET left == cmd.pending \ {t}
         IN  cmd' = [cmd EXCEPT
                !.step = IF left # {} THEN "lookup"
                         ELSE IF cmd.round < MaxLookupRounds THEN "round" ELSE "commit",
                !.pending = left,
                !.cache = [u \in DOMAIN @ \cup {t} |-> IF u = t THEN answer ELSE @[u]]]
    /\ UNCHANGED <<now, service, ledger, pace, ghosts>>

Answered(kind) == {t \in DOMAIN cmd.cache : cmd.cache[t].kind = kind}

(* The tasks whose guard must outlive a commit that reads the ledger: at   *)
(* work, with an entry within its lifetime, and not unknown to the service *)
(* after the grace period.                                                 *)
MustGuard ==
    {t \in DOMAIN tasks :
        Active(t) /\ \E e \in ledger :
            /\ e.task = t /\ ~Expired(e, now)
            /\ t \in Answered("notfound") => now <= e.observed + Grace}

CommitOn(entries, upstream) == Retained(entries, Repo, cmd.cache, cmd.point, upstream)

(* The commit decides on entries read in the same locked section, and      *)
(* writes only if an entry goes.                                           *)
CommitReconciliation(entries, upstream) ==
    /\ LET kept == CommitOn(entries, upstream)
       IN  ledger' = IF kept = entries THEN ledger ELSE kept
    /\ cmd' = [cmd EXCEPT !.got = @ \cup {"runs"}, !.step = "list", !.point = 0, !.round = 0,
                  !.listed = 0, !.cache = <<>>,
                  !.runs = ReconciledRuns(entries, Repo, cmd.cache, cmd.point, upstream)]
    /\ guarded' = IF entries = ledger THEN MustGuard ELSE {}
    /\ over' = {t \in over \cap Answered("detail") : \E e \in entries : e.task = t}
    /\ UNCHANGED <<now, service, pace>>

Commit ==
    /\ Reading("runs") /\ cmd.step = "commit"
    /\ \E entries \in ReadLedger, headed \in SUBSET (1 .. cmd.listed) :
         \E headless \in SUBSET ((1 .. cmd.listed) \ headed) :
            CommitReconciliation(entries, Upstream(headed, headless))

----------------------------------------------------------------------------
(* Rerun state, and reads that fail                                        *)

(* The head of the repository is missing when the service does not know it.*)
ReadRerunState ==
    /\ Reading("rerun")
    /\ \E cur \in {NoSha, head} :
         cmd' = [cmd EXCEPT !.got = @ \cup {"rerun"}, !.cur = cur, !.audited = audited]
    /\ UNCHANGED <<now, service, ledger, pace, ghosts>>

(* A read that raises ends the command, as do the errors of a lookup that  *)
(* reconcile does not catch.  A commit may raise after its write is seen.  *)
ReadFails ==
    /\ cmd.pc = "read" /\ cmd.got # Reads
    /\ cmd' = [Idle EXCEPT !.pc = "done", !.reason = "error"]
    /\ \/ ledger' = ledger
       \/ Reading("runs") /\ cmd.step = "commit" /\ ledger' = CommitOn(ledger, {})
    /\ over' = {} /\ guarded' = {}
    /\ UNCHANGED <<now, service, pace>>

----------------------------------------------------------------------------
(* Status                                                                  *)

CompareHeads(current, last) ==
    IF NoSha \in {current, last} THEN "unknown"
    ELSE IF current = last THEN "fresh" ELSE "stale"

HeadEvidencePriority(run, current) ==
    IF current # NoSha /\ run.sha = current THEN 2
    ELSE IF run.sha # NoSha THEN 1 ELSE 0

(* The run that stands for an audit: best head evidence first.             *)
RunsByAction(runs, a, current) ==
    LET matching == ActiveRunsForAction(runs, a)
        best == {run \in matching : \A other \in matching :
                    HeadEvidencePriority(other, current) <= HeadEvidencePriority(run, current)}
    IN  IF matching = {} THEN {} ELSE {RepresentativeProjection(best)}

(* A completed link before a failed one; links of live tasks do not count. *)
RepresentativeLink(links, a) ==
    LET terminal == {l \in links : l.action = a /\ Lifecycle(l) \in {"completed", "failed"}}
        readable == {l \in terminal : Lifecycle(l) = "completed"}
    IN  IF terminal = {} THEN {}
        ELSE {RepresentativeProjection(IF readable # {} THEN readable ELSE terminal)}

ItemLifecycleLinkFirst(a) ==
    LET run == RunsByAction(cmd.runs, a, cmd.cur)
        link == RepresentativeLink(cmd.links, a)
    IN  IF link # {} THEN Lifecycle(CHOOSE l \in link : TRUE)
        ELSE IF run # {} THEN Lifecycle(CHOOSE r \in run : TRUE)
        ELSE "none"

ItemLifecycle(a) ==
    LET run == RunsByAction(cmd.runs, a, cmd.cur)
        link == RepresentativeLink(cmd.links, a)
    IN  IF run # {} THEN Lifecycle(CHOOSE r \in run : TRUE)
        ELSE IF link # {} THEN Lifecycle(CHOOSE l \in link : TRUE)
        ELSE "none"

CanRead(a) == cmd.audited[a] # NoSha \/ ItemLifecycle(a) = "completed"

StatusActive == {a \in Audit : ItemLifecycle(a) \in {"queued", "running"}}
StatusMissing == {a \in Audit : ~CanRead(a)}
StatusFailed == {a \in Audit : ItemLifecycle(a) = "failed"}

ActiveHeadStatusUnverified(run, current) ==
    IF current # NoSha /\ run.sha \notin {NoSha, current} THEN "start_current_head_run"
    ELSE "wait_for_current_head_run"

(* current_head: what the operator should do about the current commit.     *)
ActiveHeadStatus(run, current) ==
    IF current # NoSha /\ run.sha \notin {NoSha, current} THEN "start_current_head_run"
    ELSE IF run.sha = NoSha THEN "inspect_unverified_run"
    ELSE "wait_for_current_head_run"

CurrentHeadAction(a) ==
    LET freshness == CompareHeads(cmd.cur, cmd.audited[a])
        run == RunsByAction(cmd.runs, a, cmd.cur)
    IN  IF freshness = "fresh" THEN "none"
        ELSE IF freshness = "unknown" THEN "resolve_unknown_head"
        ELSE IF run = {} THEN "start_current_head_run"
        ELSE ActiveHeadStatus(CHOOSE r \in run : TRUE, cmd.cur)

----------------------------------------------------------------------------
(* wait                                                                    *)

DeadlineFromNow == now + TimeoutSeconds

Deadline == cmd.started + TimeoutSeconds

TimedOut == now >= Deadline

Reason ==
    IF StatusFailed # {} THEN "failed"
    ELSE IF TimedOut THEN "timeout"
    ELSE IF StatusActive # {} THEN "waiting"
    ELSE IF StatusMissing # {} THEN "missing" ELSE "complete"

Settled == TimedOut \/ Reason # "waiting"

(* Both commands begin with the status; which one it is shows in what it   *)
(* does with it, and is left open until then.                              *)
Begin ==
    /\ cmd.pc = "idle"
    /\ now + TimeoutSeconds <= MaxTime
    /\ cmd' = [Idle EXCEPT !.pc = "read", !.started = now, !.polled = now, !.next = now]
    /\ UNCHANGED <<now, service, ledger, pace, ghosts>>

Return ==
    /\ cmd.pc = "read" /\ cmd.got = Reads
    /\ Settled
    /\ cmd' = [Idle EXCEPT !.pc = "done", !.kind = "wait", !.reason = Reason]
    /\ UNCHANGED <<now, service, ledger, pace, ghosts>>

Minimum(m, n) == IF m < n THEN m ELSE n

BeatRebased(next) == IF now >= next THEN now + HeartbeatSeconds ELSE next
BeatBackwards(next) == IF now >= next THEN next - HeartbeatSeconds ELSE next

(* A heartbeat when it is due, then a sleep that ends by the deadline.     *)
Beat(next) == IF now >= next THEN next + HeartbeatSeconds ELSE next

Sleep ==
    /\ cmd.pc = "read" /\ cmd.got = Reads
    /\ ~Settled
    /\ beats' = IF now >= cmd.next THEN beats + 1 ELSE beats
    /\ late' = (late \/ now - cmd.polled >= HeartbeatSeconds)
    /\ cmd' = [Idle EXCEPT !.pc = "sleep", !.kind = "wait", !.started = cmd.started, !.polled = now,
                           !.next = Beat(cmd.next),
                           !.wake = now + Minimum(PollSeconds, Deadline - now)]
    /\ over' = {} /\ guarded' = {}
    /\ UNCHANGED <<now, service, ledger>>

Wake ==
    /\ cmd.pc = "sleep"
    /\ now >= cmd.wake
    /\ cmd' = [cmd EXCEPT !.pc = "read", !.wake = 0]
    /\ UNCHANGED <<now, service, ledger, pace, ghosts>>

----------------------------------------------------------------------------
(* audit read                                                              *)

(* The report history, newest first; the first usable one is shown.        *)
ChooseReportRef(a) ==
    LET usable == {t \in DOMAIN tasks : tasks[t].action = a /\ tasks[t].state = "completed"}
    IN  IF usable = {} THEN NoTask
        ELSE CHOOSE t \in usable : \A u \in usable : tasks[u].ended <= tasks[t].ended

NewerRuns(ref, a, reportIsStale) ==
    {run \in ActiveRunsForAction(cmd.runs, a) :
        /\ run.task # NoTask
        /\ reportIsStale \/ (run.task # ref /\ run.task > tasks[ref].ended)}

NewerRunOfOthers(ref, a, reportIsStale) ==
    LET runs == NewerRuns(ref, a, FALSE)
    IN  IF runs = {} THEN NoTask ELSE RepresentativeProjection(runs).task

NewerRunForReport(ref, a, reportIsStale) ==
    LET runs == NewerRuns(ref, a, reportIsStale)
    IN  IF runs = {} THEN NoTask ELSE RepresentativeProjection(runs).task

ReadReport(a) ==
    /\ cmd.pc = "read" /\ cmd.got = Reads /\ cmd.kind = "none"
    /\ LET ref == ChooseReportRef(a)
           stale == CompareHeads(cmd.cur, cmd.audited[a]) = "stale"
       IN  cmd' = [cmd EXCEPT !.pc = "done", !.kind = "read", !.audit = a, !.ref = ref,
                    !.newer = IF ref = NoTask THEN NoTask
                              ELSE NewerRunForReport(ref, a, stale)]
    /\ UNCHANGED <<now, service, ledger, pace, ghosts>>

----------------------------------------------------------------------------
(* The service and the other commands that use it, external               *)

(* An audit is started, by another command of this machine or elsewhere.   *)
Accept(a) ==
    /\ Cardinality({t \in DOMAIN tasks : tasks[t].origin # "past"}) < MaxTasks
    /\ tasks' = Append(tasks, [action |-> a, sha |-> head, state |-> "queued",
                               ended |-> 0, origin |-> "started"])
    /\ UNCHANGED <<now, head, audited, ledger, cmd, pace, ghosts>>

(* The command that started it records it, over the entries it reads.      *)
Record(t) ==
    /\ tasks[t].origin = "started"
    /\ tasks' = [tasks EXCEPT ![t].origin = "recorded"]
    /\ \E entries \in ReadLedger :
         ledger' = RecordStarted(entries, NewEntry(Repo, tasks[t].action, t, "queued",
                                                   tasks[t].sha, now))
    /\ UNCHANGED <<now, head, audited, cmd, pace, ghosts>>

(* Another command reconciles: an entry goes that expired, whose task is   *)
(* over, or which the service does not know after the grace period.        *)
Reconciled(e) ==
    /\ Expired(e, now) \/ ~Active(e.task) \/ now > e.observed + Grace
    /\ ledger' = ledger \ {e}
    /\ UNCHANGED <<now, service, cmd, pace, ghosts>>

Ended(t, state) == [tasks EXCEPT ![t].state = state, ![t].ended = Len(tasks)]

Complete(t) ==
    /\ Active(t)
    /\ tasks' = Ended(t, "completed")
    /\ audited' = [audited EXCEPT ![tasks[t].action] = tasks[t].sha]
    /\ UNCHANGED <<now, head, ledger, cmd, pace, ghosts>>

Fail(t) ==
    /\ Active(t)
    /\ tasks' = Ended(t, "failed")
    /\ UNCHANGED <<now, head, audited, ledger, cmd, pace, ghosts>>

Push ==
    /\ head < MaxHeads
    /\ head' = head + 1
    /\ UNCHANGED <<now, tasks, audited, ledger, cmd, pace, ghosts>>

Tick ==
    /\ now < MaxTime
    /\ now' = now + 1
    /\ UNCHANGED <<service, ledger, cmd, pace, ghosts>>

Command ==
    \/ ReadLinks \/ ListRuns \/ NextRound \/ Commit \/ ReadRerunState
    \/ \E t \in cmd.pending : Lookup(t)
    \/ Return \/ Sleep \/ Wake \/ (\E a \in Audit : ReadReport(a))

World ==
    \/ Tick \/ Push
    \/ \E a \in Audit : Accept(a)
    \/ \E t \in DOMAIN tasks : Record(t) \/ Complete(t) \/ Fail(t)
    \/ \E e \in ledger : Reconciled(e)

Next ==
    \/ Begin \/ Command \/ ReadFails
    \/ cmd.pc # "done" /\ World

Spec == Init /\ [][Next]_vars

(* The process that waits is scheduled, its requests are answered or time  *)
(* out, and the clock advances.                                            *)
FairSpec == Spec /\ WF_cmd(Command) /\ WF_now(Tick)

----------------------------------------------------------------------------
(* Properties                                                              *)

(* The command, its reads, the ledger and the clock keep their types; the *)
(* next heartbeat is a time of the clock, never before its start.          *)
TypeOK ==
    /\ now \in 0 .. MaxTime
    /\ head \in 1 .. MaxHeads
    /\ audited \in [Audit -> 0 .. MaxHeads]
    /\ \A e \in ledger : e.task \in DOMAIN tasks /\ e.observed \in 0 .. now
    /\ beats \in Nat /\ late \in BOOLEAN
    /\ over \subseteq DOMAIN tasks /\ guarded \subseteq DOMAIN tasks
    /\ cmd.pc \in {"idle", "read", "sleep", "done"} /\ cmd.got \subseteq Reads
    /\ cmd.step \in {"list", "round", "lookup", "commit"}
    /\ cmd.reason \in {"none", "complete", "waiting", "failed", "missing", "timeout", "error"}
    /\ cmd.wake \in Nat /\ cmd.next \in Nat

Returned(reason) == cmd.pc = "done" /\ cmd.kind = "wait" /\ cmd.reason = reason

(* A wait reports completion only if at its last look at the ledger no     *)
(* recorded task had to be guarded: none was at work under an entry within *)
(* its lifetime, but those the service did not know after the grace period *)
(* and those of a file that could not be read (ledger.py).  The service's  *)
(* lists, links of earlier runs, and what other commands write between the *)
(* lookups and the commit make no difference.                              *)
CompleteHonest == Returned("complete") => guarded = {}

(* Advice to wait for a run of the current commit is about a task of       *)
(* exactly that audit and commit.  Either it was at work when the service  *)
(* answered the list or was accepted since, or nothing contradicted the    *)
(* service: the commit met no entry of it or had no detail (a task started *)
(* elsewhere, a guard already gone, a failing lookup).  A listed task that *)
(* the ledger's lookup found to be over is never waited for.               *)
AdviceSound ==
    cmd.pc \in {"read", "done"} /\ cmd.got = Reads =>
        \A a \in Audit : CurrentHeadAction(a) = "wait_for_current_head_run" =>
            \E t \in DOMAIN tasks :
                /\ tasks[t].action = a /\ tasks[t].sha = cmd.cur
                /\ t \notin over

(* The heartbeats follow the schedule that began with the wait, whatever   *)
(* the poll interval and however the reads delay the polls: none is ahead  *)
(* of it, and after a poll exactly those due by then have been sent, unless*)
(* a poll ever came an interval or more after the one before.  After such  *)
(* a poll they are behind and come one per poll until they have caught up. *)
BeatsOnSchedule ==
    cmd.pc = "sleep" =>
        /\ (beats - 1) * HeartbeatSeconds <= cmd.polled - cmd.started
        /\ late \/ cmd.polled - cmd.started < beats * HeartbeatSeconds

(* A report shown for a stale commit names a run if at the last look at    *)
(* the ledger there was one of the audit that had to be guarded.           *)
NewerRunNamed ==
    cmd.pc = "done" /\ cmd.kind = "read" /\ cmd.ref # NoTask
    /\ CompareHeads(cmd.cur, cmd.audited[cmd.audit]) = "stale"
    /\ (\E t \in guarded : tasks[t].action = cmd.audit)
        => cmd.newer # NoTask

(* `wait' reports an audit as missing only if, while it looked, there was  *)
(* one that was neither at work nor had a result.  It does not hold: links *)
(* read before and runs read after the end of a task show neither.         *)
MissingHonest ==
    Returned("missing") =>
        \E a \in Audit : \A t \in DOMAIN tasks :
            tasks[t].action = a => tasks[t].state # "completed"

(* A wait comes to an end: with a verdict, by its deadline or by an error. *)
WaitReturns == []<>(cmd.pc \notin {"read", "sleep"})
=============================================================================
