-------------------------- MODULE SupervisorProofs --------------------------
(***************************************************************************)
(* Theorems about the supervised service, for every heartbeat interval,    *)
(* probe time, failure threshold and grace period, and any number of       *)
(* restarts, kills and failing writes of the readiness state.              *)
(***************************************************************************)
EXTENDS Supervisor, TLAPS

-----------------------------------------------------------------------------
(* The inductive invariant.                                                 *)

\* Before a shutdown or the end of a task, supervise_tasks cancels nothing; the
\* client is closed over ended tasks only.
TasksFit ==
    /\ phase = "supervise" => \A t \in Tasks : task[t] \notin {"cancelling", "cancelled"}
    /\ ClientClosedLast

\* The longest time from the start of one probe to the start of the n-th after it.
Cycles(n) == n * (Interval + ProbeTime)

\* A readiness state that may still count as ready is backed by a probe that
\* reached the backend, and was checked within the cycles its failures stand for.
Backed(s) ==
    s.success # Never /\ s.failures < FailureThreshold =>
        /\ reached # Never
        /\ s.success <= reached
        /\ s.checked <= s.success + Cycles(s.failures) + ProbeTime

\* The readiness loop keeps its pace: a probe begins one cycle after the one
\* before it at the latest.
Paced ==
    task["readiness"] = "running" =>
        /\ probe.on => /\ probe.at <= now /\ now <= probe.at + ProbeTime
                       /\ reached <= probe.at
        /\ ~probe.on => now <= probe.at
        /\ memory.success # Never /\ memory.failures < FailureThreshold =>
             probe.at <= memory.success + Cycles(memory.failures + 1)

IInv ==
    /\ TypeOK
    /\ TasksFit
    /\ reached <= now
    /\ Backed(file)
    /\ Backed(memory)
    /\ Paced

\* What the readiness loop and its file owe to it.
LoopFits == reached <= now /\ Backed(file) /\ Backed(memory) /\ Paced

-----------------------------------------------------------------------------
(* Arithmetic of the cycles.                                                *)

\* One more failure is one more cycle; fewer failures take no longer.
LEMMA CyclesGrow ==
    ASSUME NEW m \in Nat, NEW n \in Nat
    PROVE  /\ Cycles(n) \in Nat
           /\ Cycles(n + 1) = Cycles(n) + Interval + ProbeTime
           /\ m <= n => Cycles(m) <= Cycles(n)
<1> DEFINE c == Interval + ProbeTime
<1>1. c \in Nat
  BY SupervisorAssumption
<1>2. n * c \in Nat /\ (n + 1) * c = n * c + c
  BY <1>1
<1>3. ASSUME m <= n PROVE m * c <= n * c
  <2>1. PICK d \in Nat : n = m + d
    <3>1. n - m \in Nat /\ n = m + (n - m)
      BY <1>3
    <3> QED BY <3>1
  <2>2. n * c = m * c + d * c /\ d * c \in Nat /\ m * c \in Nat
    BY <1>1, <2>1
  <2> HIDE DEF c
  <2> QED BY <2>2
<1> QED BY <1>2, <1>3, SupervisorAssumption DEF Cycles

-----------------------------------------------------------------------------
(* Types of the readiness states.                                           *)

\* The states readiness.py builds are states.
LEMMA StateTypes ==
    ASSUME NEW t \in Nat, NEW s \in State, NEW b \in BOOLEAN
    PROVE  /\ MissingState \in State
           /\ StartingState(t) \in State
           /\ ReachedState(t) \in State
           /\ FailedState(s, t, b) \in State
BY ReadinessAssumption
   DEF State, MissingState, StartingState, ReachedState, FailedState, CountFailure, Moment, Never

\* The file after a write of the readiness state: the new state, or the old one.
LEMMA WriteStateOutcome ==
    ASSUME TypeOK, NEW s \in State, WriteState(s)
    PROVE  file' \in {file, s} /\ file' \in State /\ faults' \in 0 .. MaxFaults
BY SupervisorAssumption DEF TypeOK, WriteState, Fault

-----------------------------------------------------------------------------
(* Steps that leave the readiness loop alone.                               *)

\* Supervision that starts no readiness task keeps what the loop owes.
LEMMA LoopUntouched ==
    ASSUME LoopFits, UNCHANGED <<now, loop>>,
           task'["readiness"] = "running" => task["readiness"] = "running"
    PROVE  LoopFits'
BY DEF LoopFits, loop, Backed, Paced

\* Cancelling tasks gives tasks, and starts none.
LEMMA CancelTypes ==
    ASSUME TypeOK, NEW ts, CancelTasks(ts)
    PROVE  /\ task' \in [Tasks -> Ended \cup {"none", "running", "cancelling"}]
           /\ \A t \in Tasks : /\ task'[t] = "running" => task[t] = "running"
                               /\ Over(t) => task'[t] = task[t]
                               /\ t \notin ts => task'[t] = task[t]
BY DEF TypeOK, CancelTasks, Over, Done, Ended

\* The names of the tasks.
LEMMA TaskNames == "readiness" \in Tasks /\ "refresh" \in Tasks /\ "mcp" \in Tasks
BY DEF Tasks, Siblings

-----------------------------------------------------------------------------
(* One lemma per group of actions: each preserves IInv.                     *)

\* The initial states satisfy IInv.
LEMMA InitIInv == Init => IInv
<1> SUFFICES ASSUME Init PROVE IInv
  OBVIOUS
<1>1. MissingState \in State
  BY ReadinessAssumption DEF MissingState, State, Moment, Never
<1>2. NotProbing \in [on : BOOLEAN, at : Nat] /\ Never \in Moment
  BY DEF NotProbing, Moment
<1>3. Off \in [Tasks -> Ended \cup {"none", "running", "cancelling"}]
  BY DEF Off
<1>4. TypeOK
  <2>1. shutdown \in BOOLEAN /\ phase # "mcp"
    BY DEF Init
  <2>2. now \in Nat /\ starts \in 0 .. MaxStarts /\ faults \in 0 .. MaxFaults
    BY SupervisorAssumption DEF Init
  <2> QED BY <1>1, <1>2, <1>3, <2>1, <2>2 DEF Init, TypeOK
<1> QED BY <1>4, TaskNames
        DEF Init, IInv, TasksFit, ClientClosedLast, Off, Backed, Paced, MissingState, Never

\* Starting, and a startup that fails, keep IInv.
LEMMA StartKeeps ==
    ASSUME IInv, Start \/ StartupFails
    PROVE  IInv'
<1>1. TypeOK'
  BY SupervisorAssumption DEF IInv, TypeOK, Start, StartupFails, loop
<1>2. TasksFit'
  BY DEF IInv, TasksFit, ClientClosedLast, Start, StartupFails
<1>3. LoopFits'
  BY LoopUntouched DEF IInv, LoopFits, Start, StartupFails
<1> QED BY <1>1, <1>2, <1>3 DEF IInv, LoopFits

\* Creating the tasks keeps IInv.
LEMMA CreateTasksKeeps ==
    ASSUME IInv, CreateTasks
    PROVE  IInv'
<1>1. PICK siblings \in SUBSET Siblings :
        /\ task' = [t \in Tasks |-> IF t \in siblings \cup {"mcp"} THEN "running" ELSE "none"]
        /\ IF "readiness" \in siblings
           THEN /\ memory' = StartingState(now)
                /\ WriteState(StartingState(now))
                /\ probe' = [on |-> TRUE, at |-> now]
           ELSE UNCHANGED <<memory, file, faults, probe>>
  BY DEF CreateTasks
<1>2. /\ phase' = "supervise" /\ UNCHANGED <<now, starts, shutdown, grace, reached>>
      /\ TypeOK
  BY DEF CreateTasks, IInv
<1>3. TasksFit'
  BY <1>1, <1>2 DEF TasksFit, ClientClosedLast
<1>4. task' \in [Tasks -> Ended \cup {"none", "running", "cancelling"}]
  BY <1>1
<1>5. CASE "readiness" \in siblings
  <2>1. now \in Nat /\ StartingState(now) \in State
    BY <1>2, StateTypes DEF TypeOK
  <2>2. file' \in {file, StartingState(now)} /\ file' \in State /\ faults' \in 0 .. MaxFaults
    BY <1>1, <1>2, <1>5, <2>1, WriteStateOutcome
  <2>3. TypeOK'
    <3>1. [on |-> TRUE, at |-> now] \in [on : BOOLEAN, at : Nat]
      BY <2>1
    <3> QED BY <1>1, <1>2, <1>4, <1>5, <2>1, <2>2, <3>1 DEF TypeOK
  <2>4. Backed(memory)' /\ Backed(file)'
    BY <1>1, <1>2, <1>5, <2>2 DEF IInv, Backed, StartingState
  <2>5. Paced'
    BY <1>1, <1>2, <1>5, <2>1, SupervisorAssumption
       DEF IInv, Paced, StartingState, TypeOK, Never, Moment
  <2> QED BY <1>2, <1>3, <2>3, <2>4, <2>5 DEF IInv
<1>6. CASE "readiness" \notin siblings
  <2>1. task'["readiness"] = "none"
    BY <1>1, <1>6, TaskNames
  <2>2. TypeOK'
    BY <1>1, <1>2, <1>4, <1>6 DEF TypeOK
  <2> QED BY <1>1, <1>2, <1>3, <1>6, <2>1, <2>2 DEF IInv, Backed, Paced
<1> QED BY <1>5, <1>6

\* A probe that ends with a state in order keeps IInv.
LEMMA AfterProbeKeeps ==
    ASSUME IInv, Probing, NEW s \in State, AfterProbe(s),
           reached' \in Moment, reached <= reached', reached' <= now,
           Backed(s)',
           s.success # Never /\ s.failures < FailureThreshold =>
             now + Interval <= s.success + Cycles(s.failures + 1)
    PROVE  IInv'
<1>1. /\ TypeOK /\ UNCHANGED <<now, starts, phase, task, shutdown, grace>>
      /\ memory' = s /\ probe' = [on |-> FALSE, at |-> now + Interval]
  BY DEF IInv, AfterProbe
<1>2. file' \in {file, s} /\ file' \in State /\ faults' \in 0 .. MaxFaults
  BY <1>1, WriteStateOutcome DEF AfterProbe
<1>3. now + Interval \in Nat /\ now <= now + Interval
  BY <1>1, SupervisorAssumption DEF TypeOK
<1>4. TypeOK'
  BY <1>1, <1>2, <1>3 DEF TypeOK
<1>5. TasksFit'
  BY <1>1 DEF IInv, TasksFit, ClientClosedLast, Over, Done
<1>6. Backed(file)'
  <2>1. CASE file' = s
    BY <2>1 DEF Backed
  <2>2. CASE file' = file
    BY <1>1, <2>2 DEF IInv, Backed, TypeOK, State, Moment, Never
  <2> QED BY <1>2, <2>1, <2>2
<1>7. Backed(memory)'
  BY <1>1 DEF Backed
<1>8. Paced'
  BY <1>1, <1>3 DEF Paced
<1> QED BY <1>1, <1>4, <1>5, <1>6, <1>7, <1>8 DEF IInv

\* A probe that reaches the backend keeps IInv.
LEMMA ProbeReachedKeeps ==
    ASSUME IInv, ProbeReached
    PROVE  IInv'
<1>1. /\ TypeOK /\ Probing /\ reached' = probe.at /\ AfterProbe(ReachedState(probe.at))
      /\ probe.at \in Nat /\ now \in Nat /\ probe.at <= now /\ now <= probe.at + ProbeTime
      /\ reached <= probe.at
  BY DEF IInv, ProbeReached, Probing, Paced, TypeOK
<1>2. PICK s \in State : /\ s = ReachedState(probe.at) /\ s.success = probe.at
                         /\ s.checked = probe.at /\ s.failures = 0
  <2>1. ReachedState(probe.at) \in State
    BY <1>1, ReadinessAssumption DEF ReachedState, State, Moment
  <2> QED BY <2>1 DEF ReachedState
<1>3. Cycles(0) \in Nat /\ Cycles(0 + 1) = Cycles(0) + Interval + ProbeTime
  BY CyclesGrow
<1>4. Backed(s)'
  BY <1>1, <1>2, <1>3, SupervisorAssumption DEF Backed, Never
<1>5. now + Interval <= s.success + Cycles(s.failures + 1)
  BY <1>1, <1>2, <1>3, SupervisorAssumption
<1>6. reached' \in Moment /\ reached <= reached' /\ reached' <= now
  BY <1>1 DEF Moment
<1> QED BY <1>1, <1>2, <1>4, <1>5, <1>6, AfterProbeKeeps

\* A failed probe counts: its state is checked one cycle later at most.
LEMMA FailedProbeKeeps ==
    ASSUME IInv, Probing, NEW t \in {probe.at, now}, NEW b \in BOOLEAN,
           AfterProbe(FailedState(memory, t, b)), UNCHANGED reached
    PROVE  IInv'
<1>1. /\ TypeOK /\ probe.at \in Nat /\ now \in Nat /\ reached \in Moment /\ memory \in State
      /\ probe.at <= now /\ now <= probe.at + ProbeTime /\ reached <= now
      /\ memory.success # Never /\ memory.failures < FailureThreshold =>
           probe.at <= memory.success + Cycles(memory.failures + 1)
  BY DEF IInv, Probing, Paced, TypeOK
<1>2. PICK s \in State :
        /\ s = FailedState(memory, t, b) /\ s.success = memory.success /\ s.checked = t
        /\ s.failures = CountFailure(memory.failures)
  BY <1>1, StateTypes DEF FailedState
<1>3. memory.failures \in Nat /\ memory.success \in Moment
  BY <1>1, ReadinessAssumption DEF State
<1>4. s.failures < FailureThreshold =>
        s.failures = memory.failures + 1 /\ memory.failures < FailureThreshold
  BY <1>2, <1>3, ReadinessAssumption DEF CountFailure
<1>5. ASSUME s.success # Never, s.failures < FailureThreshold
      PROVE  /\ probe.at <= s.success + Cycles(s.failures)
             /\ Cycles(s.failures) \in Nat
             /\ Cycles(s.failures + 1) = Cycles(s.failures) + Interval + ProbeTime
             /\ s.success \in Nat
  BY <1>1, <1>2, <1>3, <1>4, <1>5, CyclesGrow DEF Moment
<1>6. Backed(s)'
  <2>1. SUFFICES ASSUME s.success # Never, s.failures < FailureThreshold
                 PROVE  /\ reached # Never /\ s.success <= reached
                        /\ s.checked <= s.success + Cycles(s.failures) + ProbeTime
    BY DEF Backed
  <2>2. reached # Never /\ memory.success <= reached
    BY <2>1, <1>2, <1>4 DEF IInv, Backed
  <2>3. t <= probe.at + ProbeTime /\ t \in Nat
    BY <1>1, SupervisorAssumption
  <2>4. s.checked <= s.success + Cycles(s.failures) + ProbeTime
    BY <2>1, <2>3, <1>1, <1>2, <1>5, SupervisorAssumption
  <2> QED BY <2>2, <2>4, <1>2
<1>7. s.success # Never /\ s.failures < FailureThreshold =>
        now + Interval <= s.success + Cycles(s.failures + 1)
  BY <1>1, <1>5, SupervisorAssumption
<1>8. reached' \in Moment /\ reached <= reached' /\ reached' <= now
  BY <1>1 DEF Moment, Never
<1> QED BY <1>2, <1>6, <1>7, <1>8, AfterProbeKeeps

\* The next probe begins no later than the wait allows.
LEMMA NextProbeKeeps ==
    ASSUME IInv, NextProbe
    PROVE  IInv'
<1>1. /\ TypeOK /\ task["readiness"] = "running" /\ ~probe.on
      /\ probe' = [on |-> TRUE, at |-> now]
      /\ UNCHANGED <<now, starts, faults, phase, task, shutdown, grace, file, memory, reached>>
      /\ now \in Nat /\ probe.at \in Nat /\ now <= probe.at
  BY DEF IInv, NextProbe, Waiting, TypeOK, Paced
<1>2. TypeOK'
  BY <1>1 DEF TypeOK
<1>3. TasksFit' /\ (reached <= now)' /\ Backed(file)' /\ Backed(memory)'
  BY <1>1 DEF IInv, TasksFit, ClientClosedLast, Over, Done, Backed
<1>4. Paced'
  <2>1. memory.success \in Int /\ memory.failures \in Nat
    BY <1>1, ReadinessAssumption DEF TypeOK, State, Moment, Never
  <2>2. Cycles(memory.failures + 1) \in Nat
    BY <2>1, CyclesGrow
  <2> QED BY <1>1, <2>1, <2>2, SupervisorAssumption DEF IInv, Paced
<1> QED BY <1>2, <1>3, <1>4 DEF IInv

\* A task that ends keeps IInv.
LEMMA EndsKeeps ==
    ASSUME IInv, NEW t \in Tasks, NEW how \in Ended, Ends(t, how),
           task[t] \in {"running", "cancelling"}, faults' \in 0 .. MaxFaults,
           phase = "supervise" => how # "cancelled"
    PROVE  IInv'
<1>1. /\ TypeOK /\ task' = [task EXCEPT ![t] = how]
      /\ UNCHANGED <<now, starts, phase, shutdown, grace, file, reached>>
      /\ memory' \in {memory, MissingState} /\ probe' \in {probe, NotProbing}
      /\ t # "readiness" => memory' = memory /\ probe' = probe
  BY DEF IInv, Ends
<1>2. NotProbing \in [on : BOOLEAN, at : Nat] /\ MissingState \in State
  BY ReadinessAssumption DEF NotProbing, MissingState, State, Moment, Never
<1>3. TypeOK'
  BY <1>1, <1>2 DEF TypeOK
<1>4. TasksFit'
  BY <1>1 DEF IInv, TasksFit, ClientClosedLast, Over, Done, TypeOK, Ended
<1>5. Backed(file)' /\ Backed(memory)' /\ (reached <= now)'
  BY <1>1 DEF IInv, Backed, MissingState
<1>6. Paced'
  <2>1. CASE t = "readiness"
    BY <1>1, <2>1 DEF Paced, TypeOK, Ended
  <2>2. CASE t # "readiness"
    BY <1>1, <2>2 DEF IInv, Paced, TypeOK
  <2> QED BY <2>1, <2>2
<1> QED BY <1>3, <1>4, <1>5, <1>6 DEF IInv

\* A task that ends by itself, or after its cancellation, keeps IInv.
LEMMA TaskKeeps ==
    ASSUME IInv, NEW t \in Tasks, TaskEnds(t) \/ TaskStops(t)
    PROVE  IInv'
<1>1. faults' \in 0 .. MaxFaults
  BY SupervisorAssumption DEF IInv, TypeOK, TaskEnds, TaskStops, Fault
<1>2. CASE TaskEnds(t)
  <2>1. PICK how \in {"returned", "raised"} : Ends(t, how)
    BY <1>2 DEF TaskEnds
  <2> QED BY <1>1, <1>2, <2>1, EndsKeeps DEF TaskEnds, Ended
<1>3. CASE TaskStops(t)
  <2>1. phase # "supervise"
    BY <1>3 DEF IInv, TasksFit, TaskStops
  <2>2. PICK how \in Ended : Ends(t, how)
    BY <1>3 DEF TaskStops, Ended
  <2> QED BY <1>1, <1>3, <2>1, <2>2, EndsKeeps DEF TaskStops
<1> QED BY <1>2, <1>3

\* A supervisor step that touches neither the loop nor the clock keeps IInv when
\* it suits the phase it goes to.
LEMMA SupervisorKeeps ==
    ASSUME IInv, UNCHANGED <<now, starts, faults, loop>>,
           phase' \in {"supervise", "siblings", "mcp", "cancel", "drain", "closed"},
           shutdown' \in BOOLEAN,
           grace' \in Moment, phase' = "mcp" => grace' # Never,
           UNCHANGED task \/ \E ts : CancelTasks(ts),
           phase' = "supervise" => UNCHANGED task /\ phase = "supervise",
           phase' = "closed" => UNCHANGED task /\ \A t \in Tasks : Over(t)
    PROVE  IInv'
<1>1. /\ task' \in [Tasks -> Ended \cup {"none", "running", "cancelling"}]
      /\ task'["readiness"] = "running" => task["readiness"] = "running"
  BY CancelTypes, TaskNames DEF IInv, TypeOK
<1>2. TypeOK'
  BY <1>1 DEF IInv, TypeOK, loop
<1>3. TasksFit'
  BY DEF IInv, TasksFit, ClientClosedLast, Over, Done
<1>4. LoopFits'
  BY <1>1, LoopUntouched DEF IInv, LoopFits
<1> QED BY <1>2, <1>3, <1>4 DEF IInv, LoopFits

\* Signals and supervision keep IInv.
LEMMA SuperviseKeeps ==
    ASSUME IInv, Signal \/ FirstCompleted \/ SiblingsStopped \/ SiblingRaises \/ McpEnds
                 \/ McpTimesOut \/ Leave \/ CloseClient
    PROVE  IInv'
<1>1. TypeOK /\ TasksFit
  BY DEF IInv
<1>2. CASE Signal
  BY <1>1, <1>2, SupervisorKeeps
     DEF Signal, TypeOK, TasksFit, ClientClosedLast
<1>3. CASE FirstCompleted
  BY <1>1, <1>3, SupervisorKeeps DEF FirstCompleted, TypeOK
<1>4. CASE SiblingsStopped
  <2>1. grace' \in Nat
    BY <1>1, <1>4, SupervisorAssumption DEF SiblingsStopped, GraceDeadline, TypeOK
  <2> QED BY <1>1, <1>4, <2>1, SupervisorKeeps DEF SiblingsStopped, TypeOK, Moment, Never
<1>5. CASE SiblingRaises
  BY <1>1, <1>5, SupervisorKeeps DEF SiblingRaises, TypeOK
<1>6. CASE McpEnds
  BY <1>1, <1>6, SupervisorKeeps DEF McpEnds, TypeOK
<1>7. CASE McpTimesOut
  BY <1>1, <1>7, SupervisorKeeps DEF McpTimesOut, TypeOK
<1>8. CASE Leave
  BY <1>1, <1>8, SupervisorKeeps DEF Leave, TypeOK
<1>9. CASE CloseClient
  BY <1>1, <1>9, SupervisorKeeps DEF CloseClient, TypeOK, EventLoopOver
<1> QED BY <1>2, <1>3, <1>4, <1>5, <1>6, <1>7, <1>8, <1>9

\* The end of the process, killed or not, keeps IInv.
LEMMA ExitKeeps ==
    ASSUME IInv, Exit
    PROVE  IInv'
<1>1. NotProbing \in [on : BOOLEAN, at : Nat] /\ MissingState \in State
  BY ReadinessAssumption DEF NotProbing, MissingState, State, Moment, Never
<1>2. TypeOK'
  BY <1>1 DEF IInv, TypeOK, Exit, Off, Moment
<1>3. TasksFit' /\ Paced'
  BY TaskNames DEF Exit, TasksFit, ClientClosedLast, Paced, Off
<1>4. Backed(file)' /\ Backed(memory)' /\ (reached <= now)'
  BY DEF IInv, Exit, Backed, MissingState
<1> QED BY <1>2, <1>3, <1>4 DEF IInv

\* Time keeps IInv: a probe and a wait end when they are due.
LEMMA TickKeeps ==
    ASSUME IInv, Tick
    PROVE  IInv'
<1>1. /\ TypeOK /\ now' = now + 1 /\ now \in Nat /\ probe.at \in Nat /\ reached \in Int
      /\ UNCHANGED <<starts, faults, phase, task, shutdown, grace, file, memory, probe, reached>>
  BY DEF IInv, TypeOK, Tick, loop, Moment, Never
<1>2. TypeOK'
  BY <1>1 DEF TypeOK
<1>3. TasksFit' /\ Backed(file)' /\ Backed(memory)'
  BY <1>1 DEF IInv, TasksFit, ClientClosedLast, Over, Done, Backed
<1>4. (reached <= now)'
  BY <1>1 DEF IInv
<1>5. Paced'
  <2>1. /\ task["readiness"] = "running" /\ probe.on => now < probe.at + ProbeTime
        /\ task["readiness"] = "running" /\ ~probe.on => now < probe.at
    BY DEF Tick, Probing, Waiting
  <2> QED BY <1>1, <2>1, SupervisorAssumption DEF IInv, Paced
<1> QED BY <1>2, <1>3, <1>4, <1>5 DEF IInv

\* Every step, or stutter, keeps IInv.
LEMMA NextIInv == IInv /\ [Next]_vars => IInv'
<1> SUFFICES ASSUME IInv, [Next]_vars PROVE IInv'
  OBVIOUS
<1>1. CASE UNCHANGED vars
  BY <1>1 DEF vars, IInv, TypeOK, TasksFit, ClientClosedLast, Over, Done, Backed, Paced
<1>2. CASE Start \/ StartupFails
  BY <1>2, StartKeeps
<1>3. CASE CreateTasks
  BY <1>3, CreateTasksKeeps
<1>4. CASE ReadinessLoop
  <2>1. CASE ProbeReached
    BY <2>1, ProbeReachedKeeps
  <2>2. CASE ProbeCrashes
    BY <2>2, FailedProbeKeeps DEF ProbeCrashes
  <2>3. CASE NextProbe
    BY <2>3, NextProbeKeeps
  <2>4. ASSUME NEW terminal \in BOOLEAN, ProbeFails(terminal) PROVE IInv'
    BY <2>4, FailedProbeKeeps DEF ProbeFails
  <2> QED BY <1>4, <2>1, <2>2, <2>3, <2>4 DEF ReadinessLoop
<1>5. CASE Signal
  BY <1>5, SuperviseKeeps
<1>6. CASE Supervise
  BY <1>6, SuperviseKeeps, ExitKeeps DEF Supervise, ProcessEnds
<1>7. CASE Kill
  BY <1>7, ExitKeeps DEF Kill
<1>8. CASE Tick
  BY <1>8, TickKeeps
<1>9. CASE \E t \in Tasks : TaskEnds(t) \/ TaskStops(t)
  BY <1>9, TaskKeeps
<1> QED BY <1>1, <1>2, <1>3, <1>4, <1>5, <1>6, <1>7, <1>8, <1>9 DEF Next

-----------------------------------------------------------------------------
(* The theorems.                                                            *)

\* IInv holds in every reachable state of the service.
THEOREM SupervisorInvariant == Spec => []IInv
BY InitIInv, NextIInv, PTL DEF Spec

\* Every variable keeps its type, and the wait for the MCP server always has an
\* end (_await_mcp_shutdown).
THEOREM SupervisorTypes == Spec => []TypeOK
<1>1. IInv => TypeOK
  BY DEF IInv
<1> QED BY <1>1, SupervisorInvariant, PTL

\* A health check that says ready is backed by a backend reached within the
\* ready window, over failing writes, kills, restarts and crashing probes
\* (readiness_verdict over what the readiness loop left in the file).
THEOREM ReadyIsBounded == Spec => []ReadyBounded
<1>1. IInv => ReadyBounded
  <2> SUFFICES ASSUME IInv, Ready(file, now)
               PROVE  reached # Never /\ now - reached <= ReadyWindow
    BY DEF ReadyBounded
  <2>1. /\ now - file.checked <= StaleAfter
        /\ file.success # Never /\ file.failures < FailureThreshold
    BY DEF Ready
  <2>2. /\ reached # Never /\ file.success <= reached
        /\ file.checked <= file.success + Cycles(file.failures) + ProbeTime
    BY <2>1 DEF IInv, Backed
  <2>3. /\ now \in Nat /\ file.checked \in Int /\ file.success \in Int /\ reached \in Int
        /\ file.failures \in Nat /\ FailureThreshold - 1 \in Nat
        /\ file.failures <= FailureThreshold - 1
    BY <2>1, ReadinessAssumption DEF IInv, TypeOK, State, Moment, Never
  <2>4. /\ Cycles(file.failures) \in Nat /\ Cycles(FailureThreshold - 1) \in Nat
        /\ Cycles(file.failures) <= Cycles(FailureThreshold - 1)
    BY <2>3, CyclesGrow
  <2>5. ReadyWindow = StaleAfter + Cycles(FailureThreshold - 1) + ProbeTime
    BY DEF ReadyWindow, Cycles
  <2> QED BY <2>1, <2>2, <2>3, <2>4, <2>5, SupervisorAssumption, ReadinessAssumption
<1> QED BY <1>1, SupervisorInvariant, PTL

\* The HTTP client is closed after the last task that uses it has ended.
THEOREM ClientIsClosedLast == Spec => []ClientClosedLast
<1>1. IInv => ClientClosedLast
  BY DEF IInv, TasksFit
<1> QED BY <1>1, SupervisorInvariant, PTL

\* After a shutdown request the MCP server keeps its grace period, unless a task
\* ended or raised by itself (supervise_tasks, _await_mcp_shutdown).
THEOREM McpKeepsItsGrace == Spec => McpGrace
<1> DEFINE Graceful == task["mcp"] = "running" /\ task'["mcp"] = "cancelling" =>
                         \/ grace # Never /\ now >= grace
                         \/ \E t \in Tasks : task[t] \in {"raised", "returned"}
<1>1. IInv /\ [Next]_vars => [Graceful]_vars
  <2> SUFFICES ASSUME IInv, Next, task["mcp"] = "running", task'["mcp"] = "cancelling"
               PROVE  \/ grace # Never /\ now >= grace
                      \/ \E t \in Tasks : task[t] \in {"raised", "returned"}
    OBVIOUS
  <2>1. task # task'
    OBVIOUS
  <2>2. CASE FirstCompleted
    BY <2>2 DEF FirstCompleted, Raises, Done, Ended, IInv, TasksFit, CancelTasks, Siblings, Tasks
  <2>3. CASE SiblingRaises
    BY <2>3, TaskNames DEF SiblingRaises, AwaitFails, Tasks
  <2>4. CASE McpTimesOut
    BY <2>4 DEF McpTimesOut, GraceOver, IInv, TypeOK
  <2>5. CASE Leave
    BY <2>5, TaskNames DEF Leave, AwaitFails, AwaitDone, Over, Done, Ended
  <2>6. CASE Exit
    BY <2>6, TaskNames DEF Exit, Off
  <2>7. CASE CreateTasks
    <3>1. task'["mcp"] \in {"running", "none"}
      BY <2>7, TaskNames DEF CreateTasks
    <3> QED BY <3>1
  <2>8. ASSUME NEW t \in Tasks, TaskEnds(t) \/ TaskStops(t) PROVE FALSE
    <3>1. PICK how \in Ended : task' = [task EXCEPT ![t] = how]
      BY <2>8 DEF TaskEnds, TaskStops, Ends, Ended
    <3> QED BY <3>1, TaskNames DEF Ended, IInv, TypeOK
  <2> QED BY <2>1, <2>2, <2>3, <2>4, <2>5, <2>6, <2>7, <2>8
          DEF Next, Start, StartupFails, ReadinessLoop, ProbeReached, ProbeFails, ProbeCrashes,
              NextProbe, AfterProbe, Signal, Supervise, SiblingsStopped, McpEnds, CloseClient,
              ProcessEnds, Kill, Tick
<1> QED BY <1>1, SupervisorInvariant, PTL DEF Spec, McpGrace
=============================================================================
