----------------------------- MODULE AuditStart -----------------------------
(***************************************************************************)
(* Commands that share one started-task ledger: `audit start' (start.py,   *)
(* runs.py), which reads, reconciles and POSTs billable audits, and the    *)
(* status readers (observation.py), which only reconcile.  Each process    *)
(* runs the code of start_audits_for_target; a process with nothing to     *)
(* start is a status reader.  Requests and locked sections are the atomic  *)
(* steps; anything may happen between two of them, a kill included.        *)
(*                                                                         *)
(* The Enji service is external: it accepts starts, works on tasks, and    *)
(* shows them late or not at all in its active-runs list.                  *)
(***************************************************************************)
EXTENDS AuditLedger, Sequences

CONSTANTS
    Process,    \* commands running at the same time
    Repo, Action,
    MaxTasks,   \* bound: starts the service accepts
    MaxHeads,   \* bound: commits pushed per repository
    MaxTime,    \* bound: clock
    MaxFaults,  \* bound: failing requests, storage errors, kills
    MaxCommands, \* bound: commands that are run
    RowHeads,   \* TRUE: rows of the active-runs list name their head
    Idless      \* TRUE: start responses may lack the task id

ASSUME StartAssumption ==
    /\ MaxTasks \in Nat /\ MaxHeads \in Nat \ {0} /\ MaxTime \in Nat
    /\ MaxFaults \in Nat /\ MaxCommands \in Nat
    /\ Idless \in BOOLEAN /\ RowHeads \in BOOLEAN

MaxLookupRounds == 3

VARIABLES
    now,
    tasks,      \* tasks the service accepted, in order; an id is an index
    head,       \* head[r]: the repository's commit when it was last read
    audited,    \* audited[r][a]: the head of the last completed audit
    ledger,     \* entries in the ledger file
    proc,       \* proc[p]: the local variables of a running command
    faults,     \* faults so far
    commands,   \* commands begun so far
    recorded,   \* ghost: tasks whose start was recorded in the ledger
    unknown,    \* ghost: tasks a lookup did not find after their grace period
    misread     \* ghost: a read of the ledger file failed

vars == <<now, tasks, head, audited, ledger, proc, faults, commands, recorded, unknown, misread>>
service == <<tasks, head, audited>>
ghosts == <<recorded, unknown, misread>>

NoRepo == "none"
TaskId == 1 .. MaxTasks
Sha == 0 .. MaxHeads

Active(t) == tasks[t].state = "queued"

(* new_entry, for the task a start response names.                         *)
EntryOf(t) ==
    NewEntry(tasks[t].repo, tasks[t].action, IF tasks[t].idless THEN NoTask ELSE t,
             "queued", tasks[t].sha, now)

Idle ==
    [pc |-> "idle", repo |-> NoRepo, todo |-> {}, cur |-> NoSha,
     last |-> [a \in Action |-> NoSha], point |-> 0, upstream |-> {}, round |-> 0,
     pending |-> {}, cache |-> <<>>, runs |-> {}, task |-> NoTask,
     seen |-> {}]

(* Earlier commands may have left a started and recorded audit behind.     *)
Init ==
    /\ now = 0
    /\ \/ tasks = <<>>
       \/ \E r \in Repo, a \in Action, idless \in {FALSE, Idless} :
            tasks = <<[repo |-> r, action |-> a, sha |-> 1, state |-> "queued", posted |-> 0,
                       known |-> FALSE, idless |-> idless]>>
    /\ head = [r \in Repo |-> 1]
    /\ audited = [r \in Repo |-> [a \in Action |-> NoSha]]
    /\ ledger = {EntryOf(t) : t \in DOMAIN tasks}
    /\ proc = [p \in Process |-> Idle]
    /\ faults = 0
    /\ commands = 0
    /\ recorded = DOMAIN tasks
    /\ unknown = {}
    /\ misread = FALSE

Stop(p) == proc' = [proc EXCEPT ![p] = Idle]
Fault == faults < MaxFaults /\ faults' = faults + 1

(* `_read': a file that cannot be read or decoded is an empty ledger.      *)
Read(entries) ==
    \/ entries = ledger /\ UNCHANGED <<faults, misread>>
    \/ entries = {} /\ ledger # {} /\ Fault /\ misread' = TRUE

----------------------------------------------------------------------------
(* Reading                                                                 *)

(* start_audits_for_target begins with the rerun state: the current head,  *)
(* if the service knows it, and the last audited one of every action.      *)
(* Commits pushed since the previous read show only here.                  *)
Begin(p, r, todo) ==
    /\ proc[p].pc = "idle"
    /\ commands < MaxCommands
    /\ commands' = commands + 1
    /\ \E cur \in {NoSha} \cup head[r] .. MaxHeads :
         /\ head' = IF cur = NoSha THEN head ELSE [head EXCEPT ![r] = cur]
         /\ proc' = [proc EXCEPT ![p] = [Idle EXCEPT !.pc = "upstream", !.repo = r,
                        !.todo = todo, !.cur = cur, !.last = audited[r], !.seen = recorded]]
         /\ IF cur = NoSha THEN Fault ELSE UNCHANGED faults
    /\ UNCHANGED <<now, tasks, audited, ledger, ghosts>>

(* The active-runs list is a late projection: it may miss an active task,  *)
(* or still show a finished one as running, with or without its head.      *)
UpstreamRow(t) ==
    [task |-> t, action |-> tasks[t].action, status |-> "running", started |-> TRUE,
     completed |-> FALSE, stamp |-> tasks[t].posted, sha |-> IF RowHeads THEN tasks[t].sha ELSE NoSha]

ReadUpstream(p) ==
    /\ proc[p].pc = "upstream"
    /\ \E listed \in SUBSET {t \in DOMAIN tasks : tasks[t].repo = proc[p].repo} :
         proc' = [proc EXCEPT
            ![p].pc = "round",
            ![p].point = now,
            ![p].upstream = {UpstreamRow(t) : t \in listed}]
    /\ UNCHANGED <<now, commands, service, ledger, faults, ghosts>>

(* One locked read per round, for the task ids still to be looked up.      *)
NextRound(p) ==
    /\ proc[p].pc = "round"
    /\ \E entries \in {ledger, {}} :
         /\ Read(entries)
         /\ LET pending == PendingLookups(entries, proc[p].repo, proc[p].point, proc[p].cache)
            IN  proc' = [proc EXCEPT
                    ![p].pc = IF pending = {} THEN "commit" ELSE "lookup",
                    ![p].pending = pending,
                    ![p].round = @ + 1]
    /\ UNCHANGED <<now, commands, service, ledger, recorded, unknown>>

(* A lookup finds the task, does not find it yet, or fails.                *)
Answer(t, answer) ==
    \/ answer = Detail(tasks[t].state) /\ tasks' = [tasks EXCEPT ![t].known = TRUE]
       /\ UNCHANGED faults
    \/ answer = NotFound /\ ~tasks[t].known /\ UNCHANGED <<tasks, faults>>
    \/ answer = LookupError /\ Fault /\ UNCHANGED tasks

Lookup(p, t) ==
    /\ proc[p].pc = "lookup"
    /\ t \in proc[p].pending
    /\ \E answer \in {Detail(tasks[t].state), NotFound, LookupError} :
         /\ Answer(t, answer)
         /\ LET left == proc[p].pending \ {t} IN
            proc' = [proc EXCEPT
                ![p].pc = IF left # {} THEN "lookup"
                          ELSE IF proc[p].round < MaxLookupRounds THEN "round" ELSE "commit",
                ![p].pending = left,
                ![p].cache = [u \in DOMAIN @ \cup {t} |-> IF u = t THEN answer ELSE @[u]]]
         /\ unknown' = unknown \cup
                {u \in {t} : answer = NotFound /\ now > tasks[t].posted + Grace}
    /\ UNCHANGED <<now, commands, head, audited, ledger, recorded, misread>>

(* The commit decides on entries read in the same locked section, and      *)
(* writes only if an entry goes.                                           *)
CommitOn(p, entries) ==
    Retained(entries, proc[p].repo, proc[p].cache, proc[p].point, proc[p].upstream)

RunsFor(p, entries) ==
    ReconciledRuns(entries, proc[p].repo, proc[p].cache, proc[p].point, proc[p].upstream)

CommitReconciliation(p) ==
    /\ proc[p].pc = "commit"
    /\ \E entries \in {ledger, {}} :
         /\ Read(entries)
         /\ ledger' = IF CommitOn(p, entries) = entries THEN ledger ELSE CommitOn(p, entries)
         /\ proc' = [proc EXCEPT
                ![p] = IF @.todo = {} THEN Idle ELSE
                    [@ EXCEPT !.pc = "start", !.cache = <<>>, !.upstream = {}, !.round = 0,
                        !.point = 0, !.runs = RunsFor(p, entries)]]
    /\ UNCHANGED <<now, commands, service, recorded, unknown>>

----------------------------------------------------------------------------
(* Starting                                                                *)

OutOfDate(current, last) == current = NoSha \/ last = NoSha \/ current # last

ExactHeadActiveRuns(runs, current) == {run \in runs : run.sha = current}

CurrentHeadActiveRuns(runs, current) ==
    {run \in runs : current = NoSha \/ run.sha \in {NoSha, current}}

(* The active runs that stand for the audit: the duplicate guard.          *)
Matching(p, a) ==
    CurrentHeadActiveRuns(ActiveRunsForAction(proc[p].runs, a), proc[p].cur)

(* The audit is over for this command; the next one, or the end.           *)
Finished(p, a) ==
    proc' = [proc EXCEPT ![p] =
        IF @.todo = {a} THEN Idle
        ELSE [@ EXCEPT !.pc = "start", !.todo = proc[p].todo \ {a}, !.task = NoTask]]

(* already_running, already_queued or up_to_date: no POST.                 *)
Skip(p, a) ==
    /\ proc[p].pc = "start" /\ a \in proc[p].todo
    /\ Matching(p, a) # {} \/ ~OutOfDate(proc[p].cur, proc[p].last[a])
    /\ Finished(p, a)
    /\ UNCHANGED <<now, commands, service, ledger, faults, ghosts>>

Startable(p, a) ==
    /\ proc[p].pc = "start" /\ a \in proc[p].todo
    /\ Matching(p, a) = {}
    /\ OutOfDate(proc[p].cur, proc[p].last[a])

(* The service takes a start: a new task, which nobody can look up yet.    *)
Accept(p, a, idless) ==
    /\ Len(tasks) < MaxTasks
    /\ tasks' = Append(tasks, [repo |-> proc[p].repo, action |-> a, sha |-> proc[p].cur,
                               state |-> "queued", posted |-> now, known |-> FALSE,
                               idless |-> idless])
    /\ UNCHANGED <<head, audited>>

StartAuditRun(p, a) ==
    /\ Startable(p, a)
    /\ \E idless \in {FALSE, Idless} :
         /\ Accept(p, a, idless)
         /\ proc' = [proc EXCEPT ![p].pc = "record", ![p].task = Len(tasks) + 1]
    /\ UNCHANGED <<now, commands, ledger, faults, ghosts>>

(* The action is unusable, or the answer to the start is an error: the     *)
(* service refused it, or took it and the answer was lost.  The audit is   *)
(* reported as failed and nothing is recorded.                             *)
StartFails(p, a) ==
    /\ Startable(p, a)
    /\ Fault
    /\ Accept(p, a, FALSE) \/ UNCHANGED service
    /\ Finished(p, a)
    /\ UNCHANGED <<now, commands, ledger, ghosts>>

(* _record_started: a new entry in place of the one of the same identity.  *)
RecordStart(p) ==
    /\ proc[p].pc = "record"
    /\ \E entries \in {ledger, {}} :
         Read(entries) /\ ledger' = RecordStarted(entries, EntryOf(proc[p].task))
    /\ recorded' = recorded \cup {proc[p].task}
    /\ Finished(p, tasks[proc[p].task].action)
    /\ UNCHANGED <<now, commands, service, unknown>>

(* A read or a write that raises ends the command, as does an unusable     *)
(* repository, an authentication error or a kill.                          *)
Abort(p) ==
    /\ proc[p].pc # "idle"
    /\ Fault
    /\ Stop(p)
    /\ UNCHANGED <<now, commands, service, ledger, ghosts>>

----------------------------------------------------------------------------
(* The service, external                                                   *)

Finish(t) ==
    /\ Active(t)
    /\ \E state \in {"completed", "failed"} :
         /\ tasks' = [tasks EXCEPT ![t].state = state]
         /\ audited' = IF state = "completed"
                       THEN [audited EXCEPT ![tasks[t].repo][tasks[t].action] = tasks[t].sha]
                       ELSE audited
    /\ UNCHANGED <<now, commands, head, ledger, proc, faults, ghosts>>

Tick ==
    /\ now < MaxTime
    /\ now' = now + 1
    /\ UNCHANGED <<commands, service, ledger, proc, faults, ghosts>>

Step(p) ==
    \/ ReadUpstream(p) \/ NextRound(p) \/ CommitReconciliation(p) \/ RecordStart(p)
    \/ \E t \in TaskId : Lookup(p, t)
    \/ \E a \in Action : Skip(p, a) \/ StartAuditRun(p, a) \/ StartFails(p, a)

Next ==
    \/ \E p \in Process :
         \/ Step(p)
         \/ Abort(p)
         \/ \E r \in Repo, todo \in SUBSET Action : Begin(p, r, todo)
    \/ \E t \in DOMAIN tasks : Finish(t)
    \/ Tick

Spec == Init /\ [][Next]_vars

----------------------------------------------------------------------------
(* Properties                                                              *)

EntryType == [repo : Repo, action : Action, task : Nat, status : Statuses,
              sha : Sha, observed : Nat, expires : Nat]

(* Every variable keeps its type; each entry of the ledger file is of a    *)
(* task the service accepted, or of none, and expires at a time of the     *)
(* clock (new_entry, _reconcile_entry).                                    *)
TypeOK ==
    /\ now \in 0 .. MaxTime
    /\ head \in [Repo -> 1 .. MaxHeads]
    /\ audited \in [Repo -> [Action -> Sha]]
    /\ ledger \subseteq EntryType
    /\ \A e \in ledger : e.task \in {NoTask} \cup DOMAIN tasks
    /\ faults \in 0 .. MaxFaults /\ commands \in 0 .. MaxCommands
    /\ recorded \subseteq DOMAIN tasks /\ unknown \subseteq DOMAIN tasks
    /\ misread \in BOOLEAN
    /\ \A p \in Process : proc[p].pc \in {"idle", "upstream", "round", "lookup", "commit", "start", "record"}

(* Where the code reads `the entry still guards its task': the start was    *)
(* recorded before command p began, the task is still active, its entry is *)
(* within its lifetime, no lookup missed the task after its grace period   *)
(* and no read of the ledger failed.                                       *)
StillGuarded(p, t) ==
    /\ t \in proc[p].seen
    /\ Active(t)
    /\ now < tasks[t].posted + Ttl
    /\ t \notin unknown
    /\ ~misread

SameWork(left, right) ==
    /\ left.repo = right.repo /\ left.action = right.action
    /\ left.sha = right.sha \/ NoSha \in {left.sha, right.sha}

(* The start p sends in this step repeats the work of task t.              *)
Repeats(p, t) ==
    /\ proc[p].pc = "start" /\ proc'[p] # proc[p]
    /\ Len(tasks') > Len(tasks)
    /\ SameWork(tasks'[Len(tasks')], tasks[t])

(* No command starts work that a recorded, still active task already does, *)
(* however late the service's lists are and whatever other commands write  *)
(* to the ledger between this command's lookups and its commit.            *)
NoDuplicateStart ==
    [][\A p \in Process : \A t \in DOMAIN tasks :
        StillGuarded(p, t) /\ ~tasks[t].idless => ~Repeats(p, t)]_vars

(* The same for tasks whose start response had no id, the legacy shape     *)
(* _reconcile_entry says it keeps an action-level guard for.  It does not  *)
(* hold with Idless: a listed run of an older head hides the guard.        *)
NoIdlessDuplicate ==
    [][\A p \in Process : \A t \in DOMAIN tasks :
        StillGuarded(p, t) /\ tasks[t].idless => ~Repeats(p, t)]_vars

(* An entry leaves the ledger only when it expired, its task ended, the    *)
(* service still did not know the task after the grace period, an entry of *)
(* the same identity took its place, or the file could not be read.  No    *)
(* reconciliation undoes what another command wrote meanwhile.             *)
GuardKept ==
    [][\A e \in ledger \ ledger' :
        \/ Expired(e, now)
        \/ e.task # NoTask /\ (~Active(e.task) \/ e.task \in unknown)
        \/ \E other \in ledger' : SameIdentity(e, other)
        \/ misread']_vars
============================================================================
