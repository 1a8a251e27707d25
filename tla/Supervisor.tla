----------------------------- MODULE Supervisor -----------------------------
(***************************************************************************)
(* The long-lived service: supervise_tasks over the MCP server, the        *)
(* refresh loop and the readiness loop (supervisor.py), and the readiness  *)
(* file a health check reads (readiness.py).  What the refresh loop does   *)
(* is RefreshCoordinator's; here it runs, ends or raises.                  *)
(*                                                                         *)
(* The tasks share one event loop, so a step lasts until the next await.   *)
(* The MCP server and asyncio.run are external: a task that is cancelled   *)
(* ends sooner or later, and asyncio.run waits for the tasks that are left *)
(* before it returns.                                                      *)
(***************************************************************************)
EXTENDS Readiness

CONSTANTS
    Interval,   \* heartbeat_interval_seconds of the readiness loop
    ProbeTime,  \* longest probe: the HTTP timeouts bound it
    GraceTime,  \* mcp_graceful_shutdown_timeout_seconds
    MaxStarts,  \* bound: starts of the service
    MaxFaults,  \* bound: failing writes, tasks that end by themselves or raise
    MaxTime     \* bound: clock

ASSUME SupervisorAssumption ==
    /\ Interval \in Nat \ {0} /\ ProbeTime \in Nat /\ GraceTime \in Nat
    /\ MaxStarts \in Nat /\ MaxFaults \in Nat /\ MaxTime \in Nat

Siblings == {"refresh", "readiness"}
Tasks == Siblings \cup {"mcp"}
Ended == {"returned", "raised", "cancelled"}

VARIABLES
    now,
    starts,     \* starts so far
    faults,     \* faults so far
    phase,      \* where supervise_tasks and its caller are
    task,       \* task[t]: what became of each task
    shutdown,   \* the shutdown event is set
    grace,      \* when the wait for the MCP server gives up
    file,       \* the readiness state file
    memory,     \* the readiness loop's own state
    probe,      \* the readiness loop: probing since, or waiting until
    reached     \* ghost: when a probe that succeeded was begun

vars == <<now, starts, faults, phase, task, shutdown, grace, file, memory, probe, reached>>
loop == <<file, memory, probe, reached>>

Off == [t \in Tasks |-> "none"]
NotProbing == [on |-> FALSE, at |-> 0]

Init ==
    /\ now = 0
    /\ starts = 0
    /\ faults = 0
    /\ phase = "down"
    /\ task = Off
    /\ shutdown = FALSE
    /\ grace = Never
    /\ file = MissingState
    /\ memory = MissingState
    /\ probe = NotProbing
    /\ reached = Never

Done(t) == task[t] \in Ended
Over(t) == Done(t) \/ task[t] = "none"
Fault == faults < MaxFaults /\ faults' = faults + 1

----------------------------------------------------------------------------
(* Start                                                                   *)

(* reconcile_startup comes first; nothing runs if it raises.               *)
Start ==
    /\ phase = "down" /\ starts < MaxStarts
    /\ starts' = starts + 1
    /\ phase' = "startup"
    /\ UNCHANGED <<now, faults, task, shutdown, grace, loop>>

StartupFails ==
    /\ phase = "startup"
    /\ phase' = "down"
    /\ UNCHANGED <<now, starts, faults, task, shutdown, grace, loop>>

(* _write_state logs an OSError and carries on; the file may be replaced   *)
(* all the same.                                                           *)
WriteState(state) ==
    \/ file' = state /\ UNCHANGED faults
    \/ Fault /\ UNCHANGED file

(* The tasks are created, the siblings that are switched on: none with an  *)
(* API key.  The starting state replaces what an earlier process left in  *)
(* the file, unless the write fails.                                       *)
CreateTasks ==
    /\ phase = "startup"
    /\ phase' = "supervise"
    /\ \E siblings \in SUBSET Siblings :
         /\ task' = [t \in Tasks |-> IF t \in siblings \cup {"mcp"} THEN "running" ELSE "none"]
         /\ IF "readiness" \in siblings
            THEN /\ memory' = StartingState(now)
                 /\ WriteState(StartingState(now))
                 /\ probe' = [on |-> TRUE, at |-> now]
            ELSE UNCHANGED <<memory, file, faults, probe>>
    /\ UNCHANGED <<now, starts, shutdown, grace, reached>>

----------------------------------------------------------------------------
(* The readiness loop                                                      *)

Probing == task["readiness"] = "running" /\ probe.on
Waiting == task["readiness"] = "running" /\ ~probe.on

AfterProbe(state) ==
    /\ memory' = state
    /\ WriteState(state)
    /\ probe' = [on |-> FALSE, at |-> now + Interval]
    /\ UNCHANGED <<now, starts, phase, task, shutdown, grace>>

(* checked_at is taken before the probe, so the state is as old as the     *)
(* request.                                                                *)
ProbeReached ==
    /\ Probing
    /\ reached' = probe.at
    /\ AfterProbe(ReachedState(probe.at))

ProbeFails(terminal) ==
    /\ Probing
    /\ AfterProbe(FailedState(memory, probe.at, terminal))
    /\ UNCHANGED reached

(* _state_after_crash stamps the state with the time of the crash.         *)
ProbeCrashes ==
    /\ Probing
    /\ AfterProbe(FailedState(memory, now, FALSE))
    /\ UNCHANGED reached

(* The interval is over, the credential changed, or its watcher failed.    *)
NextProbe ==
    /\ Waiting
    /\ probe' = [on |-> TRUE, at |-> now]
    /\ UNCHANGED <<now, starts, faults, phase, task, shutdown, grace, file, memory, reached>>

----------------------------------------------------------------------------
(* Supervision                                                             *)

(* The loop's own state goes with its task.                                *)
Ends(t, how) ==
    /\ task' = [task EXCEPT ![t] = how]
    /\ memory' = IF t = "readiness" THEN MissingState ELSE memory
    /\ probe' = IF t = "readiness" THEN NotProbing ELSE probe
    /\ UNCHANGED <<now, starts, phase, shutdown, grace, file, reached>>

(* A task ends by itself: it returns, or raises what it does not handle.   *)
TaskEnds(t) ==
    /\ task[t] = "running"
    /\ \E how \in {"returned", "raised"} : Ends(t, how)
    /\ Fault

(* A cancelled task ends at its next await; its clean-up may raise.        *)
TaskStops(t) ==
    /\ task[t] = "cancelling"
    /\ \/ Ends(t, "cancelled") /\ UNCHANGED faults
       \/ Ends(t, "raised") /\ Fault

Signal ==
    /\ phase \notin {"down", "startup"}
    /\ ~shutdown
    /\ shutdown' = TRUE
    /\ UNCHANGED <<now, starts, faults, phase, task, grace, loop>>

CancelTasksForgotten(ts) == UNCHANGED task

(* Task.cancel on the ones that are not done.                              *)
CancelTasks(ts) ==
    task' = [t \in Tasks |-> IF t \in ts /\ task[t] = "running" THEN "cancelling" ELSE task[t]]

(* The exception a done task holds is raised here; a failed MCP server is  *)
(* passed over when a shutdown was requested, and raises later.            *)
Raises == \E t \in Tasks : task[t] = "raised" /\ ~(shutdown /\ t = "mcp")

(* asyncio.wait returns: leave on an exception or a task that ended, stop  *)
(* the siblings first when a shutdown was requested.                       *)
FirstCompleted ==
    /\ phase = "supervise"
    /\ shutdown \/ \E t \in Tasks : Done(t)
    /\ IF shutdown /\ ~Raises
       THEN phase' = "siblings" /\ CancelTasks(Siblings)
       ELSE phase' = "cancel" /\ CancelTasks(Tasks)
    /\ UNCHANGED <<now, starts, faults, shutdown, grace, loop>>

(* _cancel_tasks awaits its tasks one by one; a task that raised passes    *)
(* its exception on and leaves the rest to asyncio.run.                    *)
AwaitFails(ts) == \E t \in ts : task[t] = "raised"
AwaitDone(ts) == \A t \in ts : Over(t) /\ task[t] # "raised"

GraceDeadlineDropped == Never

GraceDeadline == now + GraceTime

SiblingsStopped ==
    /\ phase = "siblings"
    /\ AwaitDone(Siblings)
    /\ phase' = "mcp"
    /\ grace' = GraceDeadline
    /\ UNCHANGED <<now, starts, faults, task, shutdown, loop>>

SiblingRaises ==
    /\ phase = "siblings"
    /\ AwaitFails(Siblings)
    /\ phase' = "cancel"
    /\ CancelTasks(Tasks)
    /\ UNCHANGED <<now, starts, faults, shutdown, grace, loop>>

(* _await_mcp_shutdown: the server ends in time, or is cancelled.          *)
McpEnds ==
    /\ phase = "mcp" /\ Done("mcp")
    /\ phase' = "cancel"
    /\ UNCHANGED <<now, starts, faults, task, shutdown, grace, loop>>

GraceIgnored == TRUE

GraceOver == now >= grace

McpTimesOut ==
    /\ phase = "mcp" /\ ~Done("mcp")
    /\ GraceOver
    /\ phase' = "cancel"
    /\ CancelTasks({"mcp"})
    /\ UNCHANGED <<now, starts, faults, shutdown, grace, loop>>

(* The final _cancel_tasks is over; asyncio.run cancels what is left.      *)
Leave ==
    /\ phase = "cancel"
    /\ AwaitFails(Tasks) \/ AwaitDone(Tasks)
    /\ phase' = "drain"
    /\ CancelTasks(Tasks)
    /\ UNCHANGED <<now, starts, faults, shutdown, grace, loop>>

EventLoopLeft == TRUE

EventLoopOver == \A t \in Tasks : Over(t)

(* asyncio.run returns, the HTTP client is closed and the process ends.    *)
CloseClient ==
    /\ phase = "drain"
    /\ EventLoopOver
    /\ phase' = "closed"
    /\ UNCHANGED <<now, starts, faults, task, shutdown, grace, loop>>

Exit ==
    /\ phase' = "down"
    /\ task' = Off /\ shutdown' = FALSE /\ grace' = Never
    /\ memory' = MissingState /\ probe' = NotProbing
    /\ UNCHANGED <<now, starts, faults, file, reached>>

ProcessEnds == phase = "closed" /\ Exit
Kill == phase # "down" /\ Exit

(* Time: a probe and a wait of the readiness loop end when they are due.   *)
(* A grace period that has begun is let run out.                           *)
Tick ==
    /\ now < MaxTime \/ (phase = "mcp" /\ ~GraceOver)
    /\ Probing => now < probe.at + ProbeTime
    /\ Waiting => now < probe.at
    /\ now' = now + 1
    /\ UNCHANGED <<starts, faults, phase, task, shutdown, grace, loop>>

Supervise ==
    \/ FirstCompleted \/ SiblingsStopped \/ SiblingRaises \/ McpEnds \/ McpTimesOut
    \/ Leave \/ CloseClient \/ ProcessEnds

ReadinessLoop ==
    \/ ProbeReached \/ ProbeCrashes \/ NextProbe
    \/ \E terminal \in BOOLEAN : ProbeFails(terminal)

Next ==
    \/ Start \/ StartupFails \/ CreateTasks
    \/ ReadinessLoop \/ Signal \/ Supervise \/ Kill \/ Tick
    \/ \E t \in Tasks : TaskEnds(t) \/ TaskStops(t)

Spec == Init /\ [][Next]_vars

(* The event loop runs what is ready, a cancelled task ends, the readiness *)
(* loop goes on and the clock advances.                                    *)
FairSpec ==
    /\ Spec
    /\ WF_vars(Supervise) /\ WF_vars(Tick) /\ WF_vars(ReadinessLoop)
    /\ \A t \in Tasks : WF_vars(TaskStops(t))

----------------------------------------------------------------------------
(* Properties                                                              *)

(* Every variable keeps its type; the failures counted stay within the     *)
(* threshold, and the wait for the MCP server always has an end            *)
(* (_await_mcp_shutdown).                                                  *)
TypeOK ==
    /\ now \in Nat /\ starts \in 0 .. MaxStarts /\ faults \in 0 .. MaxFaults
    /\ phase \in {"down", "startup", "supervise", "siblings", "mcp", "cancel", "drain", "closed"}
    /\ task \in [Tasks -> Ended \cup {"none", "running", "cancelling"}]
    /\ shutdown \in BOOLEAN
    /\ grace \in Moment /\ (phase = "mcp" => grace # Never)
    /\ file \in State /\ memory \in State
    /\ probe \in [on : BOOLEAN, at : Nat]
    /\ reached \in Moment

(* How long after the last successful probe a health check may still call  *)
(* the service ready: the failures below the threshold, then a state file  *)
(* that nobody writes any more.                                            *)
ReadyWindow == StaleAfter + (FailureThreshold - 1) * (Interval + ProbeTime) + ProbeTime

(* A ready verdict is backed by a backend reached within that window, over *)
(* failing writes of the state, kills, restarts and crashing probes.       *)
ReadyBounded == Ready(file, now) => reached # Never /\ now - reached <= ReadyWindow

(* After a shutdown request the MCP server is not cancelled before its     *)
(* grace period is over, unless a task ended or raised by itself.          *)
McpGrace ==
    [][task["mcp"] = "running" /\ task'["mcp"] = "cancelling" =>
        \/ grace # Never /\ now >= grace
        \/ \E t \in Tasks : task[t] \in {"raised", "returned"}]_vars

(* The HTTP client the tasks use is closed after the last of them ended.   *)
ClientClosedLast == phase = "closed" => \A t \in Tasks : Over(t)

(* A shutdown request, or a task that ends, brings the whole service down. *)
ServiceStops ==
    (phase = "supervise" /\ (shutdown \/ \E t \in Tasks : Done(t))) ~> phase = "down"
=============================================================================
