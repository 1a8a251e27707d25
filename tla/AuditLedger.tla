---------------------------- MODULE AuditLedger ----------------------------
(***************************************************************************)
(* The started-task ledger (audit/ledger.py) and the task lifecycle rules  *)
(* (audit/lifecycle.py) as operators: what one locked section reads and    *)
(* writes.  The interleaving of the locked sections and of the unlocked    *)
(* task lookups between them is AuditStart's.                              *)
(*                                                                         *)
(* A ledger is a set of entries.  The order of the file's list matters     *)
(* only for the order of the lookups, which are independent requests.      *)
(* Statuses are abstracted to the classes the code tells apart: the        *)
(* failure aliases, the other terminal ones, the running and the queued    *)
(* aliases, and a status the code does not know.                           *)
(***************************************************************************)
EXTENDS Integers, FiniteSets

CONSTANTS
    Ttl,        \* ttl_seconds
    Grace       \* lookup_grace_seconds

ASSUME LedgerAssumption ==
    /\ Ttl \in Nat \ {0}
    /\ Grace \in Nat

NoTask == 0     \* a missing task id
NoSha == 0      \* a missing head sha

Statuses == {"failed", "completed", "running", "queued", "other"}

----------------------------------------------------------------------------
(* Lifecycle                                                               *)

IsTerminalStatus(status) == status \in {"failed", "completed"}

(* A failure alias outranks a completion time, which outranks a running or *)
(* queued status; an unknown status is judged by its start time.           *)
TaskLifecycle(status, started, completed) ==
    IF status = "failed" THEN "failed"
    ELSE IF completed \/ status = "completed" THEN "completed"
    ELSE IF status \in {"running", "queued"} THEN status
    ELSE IF started THEN "running" ELSE "queued"

Lifecycle(run) == TaskLifecycle(run.status, run.started, run.completed)

IsActiveRun(run) == Lifecycle(run) \in {"queued", "running"}

ActiveRunsForAction(runs, action) ==
    {run \in runs : run.action = action /\ IsActiveRun(run)}

LifecyclePriority(lifecycle) ==
    CASE lifecycle = "running"   -> 4
      [] lifecycle = "queued"    -> 3
      [] lifecycle = "failed"    -> 2
      [] lifecycle = "completed" -> 1
      [] OTHER                   -> 0

(* projection_sort_key compares the lifecycle, then the newest timestamp;  *)
(* the text fields after them only make the choice deterministic.          *)
RanksBelow(left, right) ==
    LET l == LifecyclePriority(Lifecycle(left))
        r == LifecyclePriority(Lifecycle(right))
    IN  l < r \/ (l = r /\ left.stamp < right.stamp)

RepresentativeProjection(runs) ==
    CHOOSE run \in runs : \A other \in runs : ~RanksBelow(run, other)

----------------------------------------------------------------------------
(* Entries                                                                 *)

BackdatedEntry(repo, action, task, status, sha, observed) ==
    [repo |-> repo, action |-> action, task |-> task, status |-> status,
     sha |-> sha, observed |-> observed, expires |-> observed - Ttl]

NewEntry(repo, action, task, status, sha, observed) ==
    [repo |-> repo, action |-> action, task |-> task, status |-> status,
     sha |-> sha, observed |-> observed, expires |-> observed + Ttl]

Expired(entry, now) == entry.expires <= now

(* Task ids are the identity; entries without one replace each other per   *)
(* repository and action.                                                  *)
SameIdentity(left, right) ==
    /\ left.repo = right.repo
    /\ left.action = right.action
    /\ left.task = right.task

RecordStarted(entries, entry) ==
    {e \in entries : ~SameIdentity(e, entry)} \cup {entry}

(* What a lookup of a task answered; only a detail says how the task is.   *)
Detail(status) ==
    [kind |-> "detail", status |-> status,
     started |-> status # "queued", completed |-> IsTerminalStatus(status)]
NotFound ==
    [kind |-> "notfound", status |-> "other", started |-> FALSE, completed |-> FALSE]
LookupError ==
    [kind |-> "error", status |-> "other", started |-> FALSE, completed |-> FALSE]

ProjectLedger(entry) ==
    [task |-> entry.task, action |-> entry.action, status |-> entry.status,
     started |-> FALSE, completed |-> FALSE, stamp |-> entry.observed, sha |-> entry.sha]

ProjectDetail(entry, detail) ==
    [task |-> entry.task, action |-> entry.action, status |-> detail.status,
     started |-> detail.started, completed |-> detail.completed,
     stamp |-> entry.observed, sha |-> entry.sha]

----------------------------------------------------------------------------
(* Reconciliation                                                          *)

(* The entries of a repository that still guard something at `now'.        *)
Live(entries, repo, now) ==
    {e \in entries : e.repo = repo /\ ~Expired(e, now) /\ ~IsTerminalStatus(e.status)}

(* Task ids that need a fresh detail: live, and not looked up before.      *)
PendingLookups(entries, repo, now, cache) ==
    {e.task : e \in Live(entries, repo, now)} \ ({NoTask} \cup DOMAIN cache)

(* The verdict on one live entry: is it kept, does it replace the upstream *)
(* rows of its task, and which run does it project.                        *)
Keep(projected, suppresses) ==
    [retained |-> TRUE, suppresses |-> suppresses, projected |-> projected]
Drop(suppresses) ==
    [retained |-> FALSE, suppresses |-> suppresses, projected |-> {}]

ReconcileEntry(entry, cache, now, hasUpstream) ==
    IF entry.task = NoTask
    THEN Keep(IF hasUpstream THEN {} ELSE {ProjectLedger(entry)}, FALSE)
    ELSE IF entry.task \notin DOMAIN cache
    THEN Keep({ProjectLedger(entry)}, TRUE)
    ELSE LET result == cache[entry.task] IN
         IF result.kind = "detail"
         THEN IF IsActiveRun(ProjectDetail(entry, result))
              THEN Keep({ProjectDetail(entry, result)}, TRUE)
              ELSE Drop(TRUE)
         ELSE IF result.kind = "notfound" /\ now - entry.observed > Grace
              THEN Drop(FALSE)
              ELSE Keep({ProjectLedger(entry)}, TRUE)

VerdictWithoutGrace(entry, cache, now, upstream) ==
    IF entry.task \in DOMAIN cache /\ cache[entry.task].kind = "notfound"
    THEN Drop(FALSE)
    ELSE ReconcileEntry(entry, cache, now, ActiveRunsForAction(upstream, entry.action) # {})

Verdict(entry, cache, now, upstream) ==
    ReconcileEntry(entry, cache, now, ActiveRunsForAction(upstream, entry.action) # {})

(* The ledger _commit_reconciliation leaves behind: the entries of other   *)
(* repositories and the live ones its verdict retains.                     *)
Retained(entries, repo, cache, now, upstream) ==
    {e \in entries : e.repo # repo}
    \cup {e \in Live(entries, repo, now) :
            Verdict(e, cache, now, upstream).retained}

Suppressed(entries, repo, cache, now, upstream) ==
    {e.task : e \in {e \in Live(entries, repo, now) :
                       Verdict(e, cache, now, upstream).suppresses}}

(* One run per task, or per action where a run has no task id.             *)
DedupeRuns(runs) ==
    {RepresentativeProjection({other \in runs :
        /\ other.task = run.task
        /\ run.task = NoTask => other.action = run.action}) : run \in runs}

(* The active runs reconcile returns: the projections of the kept entries  *)
(* and the upstream rows they do not replace.                              *)
ReconciledRuns(entries, repo, cache, now, upstream) ==
    LET projected == UNION {Verdict(e, cache, now, upstream).projected :
                              e \in Live(entries, repo, now)}
        replaced == Suppressed(entries, repo, cache, now, upstream)
    IN  DedupeRuns(projected \cup {r \in upstream : r.task = NoTask \/ r.task \notin replaced})
============================================================================
