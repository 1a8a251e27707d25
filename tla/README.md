# Verification of enji-guard-cli

TLA+ models of `enji-guard-cli`, checked with TLC on small instances and proved
with TLAPS where a proof is in reach. Paths below are relative to
`src/src/enji_guard_cli/` unless they start with `src/`.

## 1. The system

`enji-guard-cli` is a client of the Enji Guard service: a CLI, an MCP server and
a long-running service process (`enji-guard run`) that keeps a browser session
alive by rotating its cookies. Rotation is a one-time exchange: the server may
consume the refresh token of a POST whose answer never arrives, so a lost
successor means a new sign-in by hand. The commands start billable audits, wait
for them, and change projects, repositories and schedules on a service whose
answers may be lost or late.

### Inventory

| Part | State it keeps | Operations | What is hard, and what makes it correct | Module |
|---|---|---|---|---|
| refresh coordinator (`auth_session/coordinator.py`) | nothing between calls but the files below | `refresh`, `recover_startup`, `project_retained_successor`, `import_credential` | several durable writes per call, a POST between two lock periods, kills and faults between any two steps; journal before POST, journal before credential, newer import wins, no outcome lost | `RefreshCoordinator` |
| store (`auth_session/store.py`, `atomic_json.py`) | credential, journal and outbox files, a lock file | load, atomic write, delete, compare-and-swap | a rename may be visible and yet reported as failed; what is written must be readable | `RefreshPolicy`, `RefreshCoordinator` |
| recovery policy (`auth_session/state_machine.py`, parts of the coordinator) | the attempt ledger in the journal | schedule a lane, authorise a dispatch, stop | lane limits, total cap, absolute deadline and cooldown at their boundaries, across processes | `RefreshPolicy` |
| auto-refresh loop (`auth_session/auto_refresh.py`) | retained successor, retry counters | schedule, retry, park, project | every exception class leads somewhere; nothing waits for ever for what will not come | `RefreshCoordinator` |
| auth status (`auth_session/projection.py`, `api.py`) | none | status, readiness probe | a demand to import again is not made during a scheduled recovery and stands until something is adopted | `AuthProjection` |
| started-audit ledger (`audit/ledger.py`, `lifecycle.py`) | ledger file | `record_started`, `reconcile` | network lookups outside the lock, then a locked commit; no guard of a live run is dropped | `AuditLedger`, `AuditStart` |
| audit start (`audit/start.py`, `runs.py`) | none | check, POST, record | check-then-act on a billable operation | `AuditStart` |
| audit status, wait, read (`audit/observation.py`, `status.py`, `wait.py`, `workflows.py`) | none | poll until done or timeout; pick a report | three concurrent reads of a changing service; the deadline and the last answer coincide | `AuditWait` |
| supervisor, readiness (`runtime_observability/`) | tasks, readiness file | start, supervise, shut down, probe | a failure and a shutdown in one wake-up; thresholds and staleness | `Supervisor`, `Readiness` |
| transport (`transport.py`, `enji_gateway/client.py`, `contract.py`) | HTTP client | request with retries | a mutation that is not idempotent is never sent twice; waits are bounded | `Transport` |
| portfolio, recon (`portfolio/`, `enji_gateway/http.py`) | none | create, rename, delete, add, remove, move, recon | one request of several fails, another command runs in between | `Commands` |
| schedules, jobs, emails (`audit/schedules.py`, `improvement_jobs.py`, `application/subscriptions.py`, `mutations.py`) | none | plan, write one after the other | defaults meet kept fields; a batch fails half-way and must report truly | `Subscriptions`, `Commands` |
| audit catalog (`audit/catalog_observation.py`) | baseline file | read, compare, save | the baseline is stored before the command has ended | `Commands` |
| GitLab discovery (`enji_gateway/gitlab_gateway.py`) | none | page through credentials and projects | the service names the next page | `GitLab`, `Commands` |
| views, CLI output, settings, composition | none | reshaping, parsing, wiring | - | - |

Interaction: the supervisor runs startup reconciliation, then the loop, the MCP
server and the readiness probe as sibling tasks; a failing sibling ends the
process and the container runtime starts it again
(`src/deploy/docker-compose.service.yml`: `restart: unless-stopped`). The loop
calls the coordinator; the import commands, in processes of their own, share the
files with it under a `flock`. Audit commands share the ledger file under a lock of
its own. Everything else only reads the credential and talks to the service.

`PROJECT.json` lists every part with its status and the hazards with their lines.

## 2. Modules

| Module | Models |
|---|---|
| `RefreshPolicy` | the attempt ledger, lanes, authorisation, validation of a journal when it is loaded, migration of version 2 journals (operators) |
| `AuthProjection` | what an observer makes of credential and journal, and what status and probe say (operators; extends `RefreshPolicy`) |
| `RefreshCoordinator` | service processes running loop and coordinator over shared files, the import command, kills, storage faults and the clock (extends `AuthProjection`) |
| `CredentialLifecycle` | the abstract promise: a credential changes only by a fresh import or to a successor granted to the stored revision; `RefreshCoordinator` implements it (`Lifecycle == INSTANCE ...`) |
| `AuditLedger` | entries, lifecycle rules, reconciliation of one locked section (operators) |
| `AuditStart` | several audit commands over one ledger and one service (extends `AuditLedger`) |
| `AuditWait` | status, `wait` and `audit read` over three concurrent reads (extends `AuditLedger`) |
| `Readiness` | the readiness state and the verdict on it (operators) |
| `Supervisor` | the service process: tasks, shutdown, readiness loop, restarts (extends `Readiness`) |
| `Transport` | endpoints, retry profiles, delays, acceptance of an answer (operators) |
| `Subscriptions` | what an update makes of a stored schedule, job or email preference (operators) |
| `GitLab` | the checks on credential and project pages (operators) |
| `Commands` | the commands that change something on the service, request by request (extends `Transport`, `Subscriptions`, `GitLab`) |
| `MCRefreshCoordinator`, `MCAuditStart`, `MCCommands` | symmetry sets and the argument sets of instances |
| `RefreshCoordinatorProofs`, `RefreshStorageProofs`, `CredentialLifecycleProofs`, `RefreshLifecycleProofs` | theorems about rotation and the recovery policy |
| `SupervisorProofs`, `AuditStartProofs`, `AuditWaitProofs`, `CommandsProofs` | theorems about the module each is named after |

Operators whose name adds a word to another's and that stand directly before it
(`VerdictWithoutGrace`, `CanRetryAny`, ...) are faulty variants of it: `PROJECT.json`
names, for every property, a variant under which it is violated.

### How `RefreshCoordinator` corresponds to the code

A step is one durable write, one entry into the file lock with the reads made
there, or one event of network or clock. The lock is held from an entry to a
`Return`; a process at a point in `InLock` holds it. What a call would do next
after a durable write is its next control point, so a kill (`Crash`) can fall
between any two writes. Code that changes nothing on disk, nothing in memory that
outlives the call and nothing another process can see is part of the step it
belongs to.

* `auth`, `journal`, `outbox` are the three files. Cookie contents are left out;
  a revision is a number from one counter, which stands for the fresh uuids of
  `stored_auth` and `Rotated` and gives "newer" a meaning.
* `pc`, `call`, `hand`, `rev` are the stack of a coordinator call: where it is,
  which call (it decides what an exception becomes), the journal record in memory,
  and the revision scheduled, dispatched or waited for. `retained` is the loop's
  `RetainedSuccessorBuffer`, `life` the owner identity (boot id, pid, start ticks).
* `posts`, `spent`, `owed`, `got` are history, read by properties only.

| Points | Code |
|---|---|
| `Start`, `RecoverStartup`, `RecoverStartupJournal` | `run_service_async`, `recover_startup` |
| `Schedule`, `Prepare`, `BeginDispatch`, `RecoverUnknown`, `AuthorizeRecoveryDispatch`, `StopRecovery`, `Reserve`, `Request` | `_scheduled_cookie_auth`, `_prepare` with everything it calls |
| `Post`, `ExchangeSucceeded`, `ExchangeRejected`, `ExchangeOutcomeUnknown` | `exchange_once` and the classification of its answer; a transport error and a cancellation at shutdown are unknown outcomes |
| `Commit`, `CommitUnread`, `WriteOutcome`, `Replace` | `_commit_success`, `_commit_rejected`, `_commit_unknown` |
| `EnqueueOutcome`, `MarkEnqueued`, `DeliverRefused`, `DeliverAccepted`, `Acknowledge`, `EndRecord`, `DeleteRotated`, `ForgetJournal` | `_record_terminal_outcome`, `_drain_outbox`, `_discard_rotation_state` |
| `ProjectRetained`, `ProjectUnread` | `project_retained_successor` as the loop calls it (without a sink) |
| `Unpark`, `ReadFails` at `parked` | `_wait_until_revision_changes` |
| `ImportCredential`, `ImportEnqueue`, `ImportForget`, `ImportCrash` | `import_credential` |

Storage faults (`FaultKinds`): `unseen`, an `OSError` before the rename or unlink;
`visible`, an `OSError` after it; `group`, write and clean-up both fail, which
raises an `ExceptionGroup`; `unread`, a read that fails. `AfterOSError` and `Ends`
say what each does to the call in progress. A failing journal read in
`project_retained_successor` only changes the labels of a ROTATED attempt and is
left out; a failing outbox read in an import acts like `unseen`.

### How the other modules correspond to the code

**`AuditStart`.** A process runs `start_audits_for_target` for one repository; with
nothing to start it is a status reader. Steps: the rerun state (`Begin`), the
active-runs list (`ReadUpstream`), up to three rounds of a locked read of the ledger
and unlocked task lookups (`NextRound`, `Lookup`), the locked commit
(`CommitReconciliation`), then per audit the guard and the POST (`Skip`,
`StartAuditRun`, `StartFails`) and the locked record (`RecordStart`). `Abort` is a
kill or anything that raises. The service is external: it may show a task late, show
a finished one as running, not find a task yet, and take a start whose answer is
lost. `Read` returns an empty ledger for an unreadable file, as `_read` does.

**`AuditWait`.** `Begin` starts the status; whether it belongs to a wait or a read shows
in what is done with it. Three reads run in any order: `ReadLinks`, `ReadRerunState`, and the
active runs, which are `ListRuns` (the list request), up to three rounds of
`NextRound` and `Lookup` without the lock, and the locked `Commit`, on the operators
`AuditLedger` shares with `AuditStart`. Between any two of these steps the service
accepts, completes and fails tasks (`Accept`, `Complete`, `Fail`, `Push`), the clock
advances, and other commands of the machine record their starts and reconcile
(`Record`, `Reconciled`: external here, and for the reasons `AuditStart` has). The list
misses tasks and shows finished ones as running, with or without their head; which it
shows matters first at the commit and is chosen there (`Upstream`). A lookup answers the
state of the task, finds nothing or fails. A ledger that cannot be read is empty
(`ReadLedger`). `ReadFails` is an error that ends the command. `Return`, `Sleep`, `Wake` are
the loop of `wait`; `ReadReport` is `audit read`. `over`, `guarded` and `late` are history:
what was over at the list, which guards the commit met, whether a poll came late. Entries
without a task id are `AuditStart`'s, and not modelled here.

**`Supervisor`.** `phase` is where `supervise_tasks` and its caller are, `task` what
became of each task. One step lasts until the next await of the event loop. Which
siblings exist is chosen at the start: none in API key mode. `FirstCompleted` is the
return of `asyncio.wait`, `SiblingsStopped` to `Leave` the two forms of
`_cancel_tasks` and `_await_mcp_shutdown`, `CloseClient` the code after
`asyncio.run`. The readiness loop is `ProbeReached`, `ProbeFails`, `ProbeCrashes`
and `NextProbe`; a failing write of the state is logged and ignored.

**`Commands`.** A step is one attempt of one HTTP request together with what the code
does with its answer; `Request` gives the service's effect, the answer (accepted,
refused, lost, retryable with a long `Retry-After`, not JSON), and the retry loop. A
lost answer may or may not have had its effect. `cl[c]` holds a command's locals.
`fleet` and `ux` are the two services behind a project. The details of several
projects are read one by one in any order, which is the fan-out. A batch reads its
settings, plans (`Decision`), and writes in the order of the plan (`Write`).
Recon is seen from outside: `ReconStatus` is the whole status the code reads before (links,
list, lookups, rerun state), of which only the active recon runs are used, so that it is
one read that may fail; `ReconStart` is the start of `AuditStart`, whose second look at the
active runs is taken together with the POST, and which reports "failed" or raises.
`creates`, `failures`, `written`, `settled`, `taken` and `told` are history, read by
properties only; `taken[c]` holds the repositories other commands removed or moved since
`c` began.

## 3. Runs

`CHECK_DEADLOCK FALSE` throughout, because the bounds on commands, starts, revisions
and the clock end every behaviour.

| Run | Shows |
|---|---|
| `RotationOneService` | a kill, a failing write, imports of both kinds, a start before the first import: types, no successor lost (`SuccessorKept`), no outcome lost (`NoOutcomeLost`), `NewerWins`, refinement of `CredentialLifecycle` (`LifecycleSpec`) |
| `RotationTwoServices` | two processes, a kill, sound storage: `WriteAhead`, `SingleFlight`, `NoPostAfterRotated`, and the cap across processes and graceful restarts (`CapKeptUntilKill`) |
| `RotationAnyFault` | two faults of any kind, failing reads and ExceptionGroups included, from a new or a version 2 journal: `WriteAhead`, `BudgetAccounting`, `RotatedBeforeReplace`, `CorruptOnlyWhenStopped`; a demand to import again stands until an import or the adoption of a journaled successor (`ReauthFinal`) |
| `LivenessRecovery` | a kill, sound storage, a sink that accepts again and again: abandoned dispatches are settled (`AbandonedRequestSettled`), lanes taken (`RecoveryProceeds`), finished rotations make room (`RotationResumes`) |
| `LivenessRetained` | two failing writes: retained successors are projected (`RetainedProjected`) |
| `AuditStart` | two commands, late lists, failing lookups, lost answers, unreadable files, kills: an entry leaves the ledger only for a reason (`GuardKept`), work recorded before a command began is not started again by it (`NoDuplicateStart`) |
| `AuditWait` | late lists, failing lookups, an unreadable ledger and other commands on it: "complete" respects every guard the commit met (`CompleteHonest`), `audit read` names a run for it (`NewerRunNamed`), nobody is told to wait for a run the lookup found over, or of another commit (`AdviceSound`), heartbeats follow their schedule through polls that come late (`BeatsOnSchedule`), a wait ends (`WaitReturns`) |
| `Supervisor` | a ready verdict is backed by a recent success (`ReadyBounded`), the HTTP client is closed last (`ClientClosedLast`), the MCP server gets its grace (`McpGrace`), the service comes down (`ServiceStops`) |
| `Commands` | a create is sent once (`NoDoubleCreate`), waits are bounded (`WaitBounded`), half-made projects are reported (`OrphanReported`), an add ends with a recon (`ReconEnsured`), batches report what they wrote (`BatchHonest`), a repeated update changes nothing (`RepeatUnchanged`), discovery ends and has read as many credentials as were counted, whatever pages the service names (`DiscoverySound`) |

### Disagreements between code and documentation

Each of these runs checks one sentence of the repository and finds it violated;
`PROJECT.json` quotes the sentence and the code.

| Run | What happens |
|---|---|
| `CapResetByKill` | a kill between RESERVED and REQUESTED of a recovery dispatch gives the revision a new budget |
| `RepeatDuplicates` | a create repeated after its second request failed makes a second Fleet project of the same name |
| `ChangeNoticed` | a command that observes a changed catalog and then raises has stored the new baseline: nobody is ever told |

The models have the following behaviours too, or the code has them by reading; no run
is kept for them.

Rotation:

* A recovery stopped past its deadline keeps its not-before time and is unreadable: the
  journal is "corrupt" and every later refresh fails (`coordinator.py:523`,
  `store.py:746`, against `src/docs/decisions.md:148`). `JournalReadable` states it and
  does not hold; `CorruptOnlyWhenStopped` is what does.
* Recording a retained successor whose credential write was visible overwrites another
  process's live REQUESTED (`coordinator.py:719,844`); `SingleFlight` is therefore
  checked on sound storage.
* An unreadable credential counts as superseded and the successor is dropped
  (`coordinator.py:975`); `SuccessorKept` is therefore checked with failing writes.
* A refusing telemetry sink stops rotation (`coordinator.py:852`); `RotationResumes` is
  therefore checked with a sink that accepts again and again.
* A migrated version 2 in-flight request is written back with a cap that validation
  refuses (`store.py:579`, `CorruptOnlyWhenStopped` names the case).
* The directory fsync fails after REQUESTED is visible: the process then waits for its
  own dispatch, which it never made (`coordinator.py:446,510`).
* A write whose clean-up fails as well raises an `ExceptionGroup` that no caller
  catches and ends the process, with a successor not yet journaled
  (`atomic_json.py:65`, `Ends`).
* `src/README.md:441` ("never automatically replayed") predates the recovery lanes.
* A bearer import between scheduling and preparation ends the service process
  (`coordinator.py:378`, `Prepare`).
* An import whose read of the old journal fails deletes that journal with an outcome
  that was never enqueued (`coordinator.py:935`, `ImportCredential`);
  `NoOutcomeLost` is therefore checked with failing writes, not failing reads.
* A parked loop does not offer a refused outcome to the sink again
  (`auto_refresh.py:411`).
* A storage failure after a recovery lane is journaled parks the loop until the next
  import (`coordinator.py:345`); `RecoveryProceeds` is therefore checked on sound
  storage.
* Over a ROTATED journal of the current credential `auth status` and the probe report
  `reauth_required=true` (`recovery_available`: `projection.py`, `api.py:212,243`), although
  the next start or projection adopts the journaled successor and takes the demand back
  without an import. `src/docs/decisions.md:149-152` gives only a rejected or exhausted
  generation as the reason for that report. `ReauthFinal` has this case, and no other, as
  its exception (`SuccessorAdopted`).
* `auth status` reads credential and journal one after the other (`api.py:526`); a
  rotation in between gives a status of two instants, until the next one.

Audits:

* Two starters that read the active runs before either POSTs both start the audit
  (`audit/runs.py:84`); `NoDuplicateStart` is about work recorded before the command
  began.
* A start whose answer had no task id is guarded only while the service lists no run of
  the action, of whatever head (`audit/ledger.py:169`, `NoIdlessDuplicate` does not
  hold).
* Links read before and active runs read after the end of a task show neither: `wait`
  may report an audit with a result as missing (`audit/observation.py:33`,
  `MissingHonest` does not hold).
* A guard of a task at work goes when the service does not know the task after the grace
  period (`audit/ledger.py:180`), and is not seen in a file that cannot be read
  (`audit/ledger.py:240`): `wait` may then report completion, and `audit read` name no
  run, while the task is at work. `CompleteHonest` and `NewerRunNamed` are about guards
  that had to be kept (`MustGuard`).
* A task the ledger has no entry of, or whose lookup failed, is taken as the list or the
  entry shows it: `wait_for_current_head_run` may name a finished task. A finished task is
  also listed again when its entry was dropped by another command's reconciliation.
  `AdviceSound` excludes what a lookup found over, and only that.
* After a read that takes longer than a heartbeat interval the beats that are overdue come
  one per poll (`audit/wait.py:34-36`): the schedule is kept, as
  `src/tests/test_audit_wait_loop.py:144` wants it, but for a while the interval is that of
  the polls. `BeatsOnSchedule` says when (`late`).

Portfolio and settings:

* A retried DELETE of a project that the service had already applied is answered with
  404: a plain error instead of the partial-state error, with the Fleet project left
  behind; the repeated command then reports `already_absent`.
* `project delete` checks that the project is empty, then deletes
  (`portfolio/projects.py:35`, `src/README.md:62`): an add in between is not seen.
* `repo remove` reads the projects one after the other: during a move it may find the
  repository in none and report `already_absent`.
* Schedules and jobs are written whole: two batches that change different fields of one
  setting at once lose one of the changes.
* `improvement-jobs update` without `--time` sets an automatic time back to 09:00
  (`audit/scheduling.py`, `src/docs/development.md:82`).
* A repository added afresh is not connected by the same command
  (`portfolio/repositories.py:37`); one that was there already is.
* GitLab credentials are paged by offset: one removed between two pages hides another,
  when the total is stable.

### Bounds

Rotation. The policy is scaled down: cap 3 (6 in the code), lane limits 2, 1, 1 (4, 1,
1), delays of one tick, a window of two or three; `RotationOneService`, whose questions
are not about the budget, has cap 2 and limits of 1. Every boundary is still met: the
cap binds before the safe-retry limit does, a lane limit binds before the cap, the
deadline passes during a cooldown. Revisions start at 3 (1 is the first credential, 2
the successor a version 2 journal may name), so `MaxRevision = 4` allows two further
revisions: an import racing a success, or two successes in a row. Two starts cover
every restart after one kill; three are used where the restart itself must make
progress. One fault is enough for each path from a fault to be taken at each write;
`LivenessRetained` and `RotationAnyFault` use two, so that a projection fails as well.
Two processes suffice for the ownership questions, which are about pairs.

`AuditStart`. Two commands, one repository and action (entries of different
repositories and actions never meet), two tasks and two heads (the same work and work
of a newer head), an initial state with a recorded task, entry lifetime 2 and grace 0
with a clock up to 2, so that expiry, the end of the grace period and a lookup on
either side of both occur; one fault, which may be a lost answer, a failing lookup, an
unreadable file or a kill.

`AuditWait`. Poll 1, timeout 3, heartbeat 2: polls fall before, on and after the second
beat and on the deadline, and a read may take as long as an interval or the whole wait, so
that beats are overdue; a beat overdue by two intervals is left to the theorem. Entry lifetime 3, grace 0: an
entry recorded at the start expires at the last instant, and the grace period ends at the
next one. One audit, since entries, links and runs of different audits never meet; one
task besides one that an earlier command left completed, and two heads: a task can start,
be recorded, looked up, be dropped, end and be listed again at any step of the
reconciliation, and the commit it is of can be replaced. The theorems hold for any number
of tasks, audits and heads.

`Supervisor`. Two starts (what the first process left in the file), threshold 2 (one
failure that is excused), staleness, interval, probe and grace of 1, a clock up to 5,
which is longer than `ReadyWindow` (4), so that a stale verdict would be seen; one
fault.

`Commands`. Two processes and two commands in all, since the properties relate a command
to one other. `Sessions` lists the kinds of command that are run side by side, and how
many of each: those that race for the same project, repository or setting, in pairs, two
of a kind included; discovery, which is read-only and shares no state with another
command, by itself. Two projects and names (one
project exists, both or none), one repository, two audits (so a batch has two writes and
may fail at either), one retry with a delay cap below the `Retry-After` of the answers,
two credentials at one per page (up to symmetry), three pages of projects, so that a next
page can lie between two that were read. `MCUpdates` has updates that set,
keep and default fields and ones that are turned down.

### Fairness

`RefreshCoordinator!FairSpec` assumes weak fairness of: the clock; a running process's next step
(event loop and worker threads); the refresh time of a token coming; the end of an
exchange (the HTTP client has a timeout); an import that has begun; the restart of a
stopped service (`restart: unless-stopped`). It never requires a kill, a fault or an
import, and does not require the sink to accept. `FairSinkSpec` adds strong
fairness of acceptance: a sink offered records again and again accepts again and
again. The liveness properties excuse states in which the bound on starts is used
up (`starts = MaxStarts`), since a process that is down then stays down.

`AuditWait!FairSpec`: weak fairness of the command's steps other than its errors (the
process is scheduled and its requests have timeouts) and of the clock. `Supervisor!FairSpec`: weak fairness of the
supervising code and of the readiness loop (the event loop runs what is ready), of each
cancelled task's end (the tasks await, and none catches its cancellation for good) and of the clock. Neither
requires the service, a signal or a fault to happen.

## 4. Proofs

Every invariant and action property of a passing run is also a theorem (eight of those
about rotation for sound storage only, see below), for every value of the constants that
the assumptions allow: any number of processes, revisions, tasks,
projects, faults and restarts, every budget and every interval. What the theorems leave to
TLC is named at the end of this section.

### Rotation

**`RefreshCoordinatorProofs`**, any storage fault: `TypeCorrect`,
`JournaledBeforeReplaced`, `NewerRevisionWins`. None of the properties is inductive: that
a replacement is journaled depends on the record the call holds at that point, and that
it is newer on the revisions of every record in memory and on disk. The invariant `IInv`
adds: the lock excludes (`LockExcludes`); the record and the call suit the control point
(`HandsFit`, `CallsFit`); the journal names the rotation at the compare-and-swap
(`JournalAhead`); every record's revisions were created, a successor's after its
source's (`RevisionsCreated`). Every step ends in `Return` or `Goto`; two lemmas say
what these owe to `IInv`, and one lemma per action applies them. The module also proves
two facts about the policy itself: `NextAttemptIsAuthorized`, the two budget checks of a
recovery dispatch agree, and `ScheduledJournalIsReadable`, what a commit schedules can be
read back. The second does not extend to `StoppedAttempt` or to migrated attempts, which
the code may write and then refuse to read: `CorruptOnlyWhenStopped` names the cases.

**`RefreshLifecycleProofs`**, any storage fault: `RotationImplementsLifecycle`. The
refinement maps the successors in the journal, in calls and in memory to the abstract
`successors`: a successful exchange is `Grant`, `Replace` is `Adopt`, an import `Import`,
everything else forgets or stutters. **`CredentialLifecycleProofs`**:
`SuccessorsStayNewer`, `CredentialNeverOlder`, what the refinement is for.

**`RefreshStorageProofs`**, for any number of processes, kills and imports:

| Theorem | Property | Storage |
|---|---|---|
| `BudgetsAreAccounted` | `BudgetAccounting` | any fault |
| `PostsAreJournaledAhead` | `WriteAhead` | sound |
| `ExchangesAreSingleFlight` | `SingleFlight` | sound |
| `OutcomesAreKept` | `NoOutcomeLost` | sound |
| `SuccessorsAreKept` | `SuccessorKept` | sound |
| `RotatedRevisionsAreSpent` | `NoPostAfterRotated` | sound |
| `OnlyStoppedJournalsAreCorrupt` | `CorruptOnlyWhenStopped` | sound |
| `CapIsKeptUntilKill` | `CapKeptUntilKill` | sound |
| `DemandsAreFinal` | `ReauthFinal` | sound |

"Sound" is the hypothesis `SoundStorage`: the only failing write is the one that leaves
the file alone and ends its process (`group`). With two processes some hypothesis is
needed: a write that is visible and raises makes its process retain a successor which
another process finishes, and the projection then overwrites that process's dispatch
(section 3). `SInv` relates what `IInv` leaves apart: the contents of the files
(`FilesSound`), the record each call carries and what it knows of the journal
(`ProcessSound`: a dispatched revision that is still current is the journaled request of
a live owner, and whoever is in the lock knows that no such dispatch is under way), pairs
of processes (`PairSound`: distinct identities, distinct revisions under way), the place
of a received successor (`GotPlaced`), and the count of POSTs (`Covered`: up to the first
kill or fault the journaled attempt accounts for every POST of the current revision).
`BInv` (every attempt, in a file or in memory, is budgeted) and `RInv` (a recovery acts on
the journal it read) are separate invariants, the first without the hypothesis.

### Supervisor

**`SupervisorProofs`**: `SupervisorTypes`, `ReadyIsBounded`, `ClientIsClosedLast`,
`McpKeepsItsGrace`. `ReadyBounded` speaks of the file a probe reads; the invariant
relates file and memory to the instant the backend was reached (`Backed`) and to the
pace of the loop (`Paced`): `n` failures in a row lie within `n` cycles of the last
success, so a state below the threshold cannot be older than the window.

### Audits

**`AuditStartProofs`**: `TypeCorrect`, `GuardsAreKept`, `StartsAreNew`. A duplicate start
is one step, prepared long before it: a task was recorded, other commands reconciled the
ledger, this command looked tasks up and committed. `IInv` follows that path: the ledger
holds an entry of every recorded task that is still guarded (`Guards`); what was looked
up stays true, since tasks only end and the clock only advances (`CacheOK`); so the
commit neither drops such an entry nor hides it behind a row of the service, and the
runs a command decides on show it (`Seen`). Being guarded can only be lost
(`GuardedBefore`), which is why no other command disturbs this.

**`AuditWaitProofs`**: `Invariance`, `TypeCorrect`, `CompletionIsHonest`, `AdviceIsSound`,
`BeatsKeepSchedule`, `NewerRunIsNamed`. What a lookup answered has to mean something later,
at the commit: `AnswerOK` says that a task found over still is and one found at work was
not over at the list; `CacheOK` that an entry whose task is looked up was within its
lifetime at the reading point and is when the commit meets it. `LedgerOK` ties every entry
to its task, whatever other commands write. The central lemma, `ReconciledSound`, then
says what a commit makes of any list, late in whatever way: the runs it gives are of tasks no
lookup found over, with their own audit and commit, and none that had to be guarded is
missing (`RunsSound`); and this lasts while the service goes on. The heartbeats need the
exact place of the next beat on the schedule and of the last one before the last poll
(`Paced`).

### Commands

**`CommandsProofs`**: `TypeCorrect`, `CreatesOnce`, `WaitsBounded`, `OrphansReported`,
`ReconIsEnsured`, `BatchesAreHonest`, `RepeatsAreUnchanged`, `DiscoveryIsSound`. `IInv` is

* `Shared` and `Settings`: the service's state is typed, stored settings are complete,
  and the update written last to a setting would be decided "unchanged";
* `Coherent(c)` for each client: its record suits the point it has come to, its plan
  agrees with what the service stored for it (`Wrote`: a write under way may or may not
  have been), and whatever it was told of a recon is backed (`Backing`);
* `Counters`: each project issued, and each create still to come, was asked for
  (`Balanced`); each project only Fleet has was left by a command that raised, or has one
  at work on it (`Accounted`).

The transport enters through one lemma, `RequestStep`: a request succeeds, fails for good
with or without its effect, or is sent again if its profile allows it.

Two properties were found to be wrong as first written and were corrected. `ReconEnsured`
is false when another command takes the repository away after the add; it now excludes
what was taken since (`taken`). `DiscoverySound` is false as an equality: a page may hold
more credentials than its limit, which the code does not refuse, and discovery then has
more than were counted.

### Assumptions

`PolicyAssumption` (natural limits and delays, a positive cap), `BoundsAssumption` (types
of the bounds, known credential and fault kinds), `LedgerAssumption` and
`AuditStart`'s `StartAssumption` (natural lifetime, grace and bounds, a positive lifetime),
`WaitAssumption` (positive intervals, natural bounds),
`SupervisorAssumption` and `ReadinessAssumption` (natural times, a positive interval and
threshold), `TransportAssumption`, `GitLabAssumption`, `CommandsAssumption` and
`StartAssumption` of `Commands` (natural limits; finite sets of clients, projects, audits
and credentials; updates of the shape the CLI parses; complete initial settings). TLC
evaluates all of them.

### Only model-checked

* Liveness (`AbandonedRequestSettled`, `RecoveryProceeds`, `RotationResumes`,
  `RetainedProjected`, `WaitReturns`, `ServiceStops`): fairness and `ENABLED` are outside
  what the prover handles.
* The rotation properties marked "sound" above, where storage fails in other ways:
  `RotationOneService` checks two of them with failing writes, `RotationAnyFault` three of them
  with two faults of every kind, both with one process.

## 5. Not modelled

* Rotation: the diagnostic refresh observation (best effort, no state), backoff lengths
  and the file watcher (delays only: it ends a wait early, a parked loop's too, when the file
  is touched without a new revision), cookie parsing and merging, malformed JSON (a
  journal is readable or corrupt), network file systems and several hosts (out of the
  code's own contract), the worker thread that may outlive a cancelled request.
* Ledger: `prune`, which nothing in the program calls.
* Audits: the content of reports, runbooks and task bodies.
* Requests: decoding of JSON fields no property looks at, language preferences, access
  limits, API key lookup, the thread pool and the worker limit of the fan-out.
* Delivery: confirmation prompts, output, views, exit codes, MCP registration,
  telemetry formatting and rotation, settings and composition, the release scripts under
  `src/scripts/`.

The parts of the inventory without a module are listed with reasons in `PROJECT.json`.

## 6. Plan

1. The properties that one process keeps under every storage fault (`WriteAhead`,
   `ReauthFinal` and `CorruptOnlyWhenStopped`; `SuccessorKept` and `NoOutcomeLost` under
   failing writes), with an invariant for a successor that is retained after a write that
   is visible and raised.
2. Facts about the operators of `AuthProjection`: every pair of credential and journal is
   given one of the statuses, and a probe and a status of one instant agree.
