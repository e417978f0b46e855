-------------------------- MODULE WorkflowExecution --------------------------
(***************************************************************************)
(* The execution core of the Khronos server: the workflows, workflow_steps *)
(* and activities tables, the gRPC handlers that write them (the native    *)
(* WorkflowService and WorkerService and their Temporal counterparts), the *)
(* broadcast channel to the engine and the engine's event handlers.        *)
(*                                                                         *)
(* Every gRPC handler holds the mutex of KhronosState.db from its first    *)
(* statement to its last and is one action here; so is every engine event  *)
(* handler.                                                                *)
(***************************************************************************)
EXTENDS Integers, Sequences, FiniteSets

CONSTANTS
    Workflows,        \* run ids that may be started
    Steps,            \* step ids of all those runs
    RunOf,            \* RunOf[s]: workflow_run_id of step s
    StepIndex,        \* StepIndex[s]: step_index of step s
    MaximumAttempts,  \* MaximumAttempts[s]: retry_policy.maximum_attempts of s
    Apis,             \* services through which runs are started and workers work
    ChannelCapacity,  \* capacity of the engine's broadcast channel
    MaxLostTasks,     \* bound: tasks that workers may lose
    MaxRestarts,      \* bound: server restarts
    MaxScheduleEdits  \* bound: ScheduleChange events from the ScheduleService

ASSUME StepsAssumption ==
    /\ RunOf \in [Steps -> Workflows]
    /\ StepIndex \in [Steps -> Nat]
    /\ MaximumAttempts \in [Steps -> Nat]

ASSUME BoundsAssumption ==
    /\ Apis \subseteq {"khronos", "temporal"}
    /\ ChannelCapacity \in Nat \ {0}
    /\ MaxLostTasks \in Nat
    /\ MaxRestarts \in Nat
    /\ MaxScheduleEdits \in Nat

VARIABLES
    workflows,   \* workflows[w]: the row of run w
    steps,       \* steps[s]: the row of step s
    activities,  \* activities[s]: the attempts of step s, oldest first
    tasks,       \* <<s, n>>: the n-th attempt of s is in a worker's hands
    queue,       \* events sent to the engine and not yet received
    eventsLost,  \* history: some event was overwritten or died with the server
    restarts,    \* server restarts so far
    edits        \* ScheduleChange events sent so far

vars == <<workflows, steps, activities, tasks, queue, eventsLost, restarts, edits>>

-----------------------------------------------------------------------------
(* The tables. A row that has not been inserted has state "none".          *)

Terminal == {"completed", "failed", "cancelled"}

WorkflowRow ==
    [state : {"none", "pending", "running"} \union Terminal,
     started : BOOLEAN,      \* started_at is not NULL
     completed : BOOLEAN]    \* completed_at is not NULL

\* retry abstracts next_retry_at: NULL, after now, or not after now.
StepRow ==
    [state : {"none", "pending", "running", "completed", "failed"},
     attempt : Nat,
     retry : {"null", "later", "due"}]

ActivityRow == [attempt : Nat, state : {"running", "completed", "failed"}]

Event ==
    [type : {"WorkflowCreated", "StepCompleted"}, run : Workflows]
      \union [type : {"ScheduleChange"}]

StepsOf(w) == {s \in Steps : RunOf[s] = w}

TypeOK ==
    /\ workflows \in [Workflows -> WorkflowRow]
    /\ steps \in [Steps -> StepRow]
    /\ activities \in [Steps -> Seq(ActivityRow)]
    /\ tasks \subseteq Steps \X Nat
    /\ queue \in Seq(Event)
    /\ Len(queue) <= ChannelCapacity
    /\ eventsLost \in BOOLEAN
    /\ restarts \in 0..MaxRestarts
    /\ edits \in 0..MaxScheduleEdits

Init ==
    /\ workflows = [w \in Workflows |->
                      [state |-> "none", started |-> FALSE, completed |-> FALSE]]
    /\ steps = [s \in Steps |-> [state |-> "none", attempt |-> 0, retry |-> "null"]]
    /\ activities = [s \in Steps |-> <<>>]
    /\ tasks = {}
    /\ queue = <<>>
    /\ eventsLost = FALSE
    /\ restarts = 0
    /\ edits = 0

-----------------------------------------------------------------------------
(* The broadcast channel (tokio::sync::broadcast): a send to a full channel *)
(* overwrites the oldest event; the engine's loop logs the resulting Lagged *)
(* error and goes on with the oldest event that is left.                    *)

\* Faulty variant: the channel is taken to be unbounded.
UnboundedEnqueue(e) == Append(queue, e)

Enqueue(e) == Append(IF Len(queue) < ChannelCapacity THEN queue ELSE Tail(queue), e)

\* Faulty variant: an event is dropped when another is already queued.
CoalescingNotify(e) ==
    /\ queue' = IF queue = <<>> THEN <<e>> ELSE queue
    /\ UNCHANGED eventsLost

Notify(e) ==
    /\ queue' = Enqueue(e)
    /\ eventsLost' = (eventsLost \/ Len(queue) = ChannelCapacity)

WorkflowCreated(w) == [type |-> "WorkflowCreated", run |-> w]
StepCompleted(w) == [type |-> "StepCompleted", run |-> w]
ScheduleChange == [type |-> "ScheduleChange"]

-----------------------------------------------------------------------------
(* WorkflowService.                                                        *)

\* insert_workflow and one insert_workflow_step per step of the definition.
InsertWorkflow(w) ==
    /\ workflows[w].state = "none"
    /\ workflows' = [workflows EXCEPT ![w] =
                       [state |-> "pending", started |-> FALSE, completed |-> FALSE]]
    /\ steps' = [s \in Steps |->
                   IF RunOf[s] = w
                   THEN [state |-> "pending", attempt |-> 0, retry |-> "null"]
                   ELSE steps[s]]

StartWorkflow(w) ==
    /\ "khronos" \in Apis
    /\ InsertWorkflow(w)
    /\ Notify(WorkflowCreated(w))
    /\ UNCHANGED <<activities, tasks, restarts, edits>>

\* The Temporal handler inserts the same rows and notifies nobody.
StartWorkflowExecution(w) ==
    /\ "temporal" \in Apis
    /\ InsertWorkflow(w)
    /\ UNCHANGED <<activities, tasks, queue, eventsLost, restarts, edits>>

CancelWorkflow(w) ==
    /\ workflows[w].state \in {"pending", "running"}
    /\ workflows' = [workflows EXCEPT ![w].state = "cancelled", ![w].completed = TRUE]
    /\ UNCHANGED <<steps, activities, tasks, queue, eventsLost, restarts, edits>>

-----------------------------------------------------------------------------
(* WorkerService: polling. get_pending_steps orders by created_at, whose   *)
(* granularity is a second, and a request names any activity types (or any *)
(* task queue), so a poll may be answered with any ready step.             *)

\* Faulty variants: the query does not exclude running steps, does not exclude
\* settled ones, or misses the steps whose retry has come due.
ReadyWhileRunning(s) ==
    steps[s].state \in {"pending", "running"} /\ steps[s].retry # "later"
ReadyAgain(s) ==
    steps[s].state \in {"pending", "completed"} /\ steps[s].retry # "later"
ReadyFirstTime(s) == steps[s].state = "pending" /\ steps[s].retry = "null"

Ready(s) == steps[s].state = "pending" /\ steps[s].retry # "later"

Dispatch(s) ==
    LET attempt == steps[s].attempt + 1 IN
    /\ Ready(s)
    /\ steps' = [steps EXCEPT ![s] =
                   [state |-> "running", attempt |-> attempt, retry |-> "null"]]
    /\ activities' = [activities EXCEPT ![s] =
                        Append(@, [attempt |-> attempt, state |-> "running"])]
    /\ workflows' = [workflows EXCEPT ![RunOf[s]].state = "running",
                                      ![RunOf[s]].completed = TRUE]
    /\ tasks' = tasks \union {<<s, Len(activities[s]) + 1>>}
    /\ UNCHANGED <<queue, eventsLost, restarts, edits>>

PollActivity(s) == "khronos" \in Apis /\ Dispatch(s)

PollActivityTaskQueue(s) == "temporal" \in Apis /\ Dispatch(s)

-----------------------------------------------------------------------------
(* WorkerService: reporting. A worker reports each task it holds once, as a *)
(* success or as a failure. t = <<s, n>> is the activity_id.               *)

\* Faulty variant: update_activity_state is forgotten.
KeepActivity(s, n, state) == UNCHANGED activities

SetActivity(s, n, state) ==
    activities' = [activities EXCEPT ![s] = [@ EXCEPT ![n] =
                     [attempt |-> activities[s][n].attempt, state |-> state]]]

CompleteAttempt(s, n) ==
    /\ <<s, n>> \in tasks
    /\ tasks' = tasks \ {<<s, n>>}
    /\ SetActivity(s, n, "completed")
    /\ steps' = [steps EXCEPT ![s] =
                   [state |-> "completed", attempt |-> steps[s].attempt, retry |-> "null"]]
    /\ Notify(StepCompleted(RunOf[s]))
    /\ UNCHANGED <<workflows, restarts, edits>>

ReportActivityResult(s, n) == "khronos" \in Apis /\ CompleteAttempt(s, n)

RespondActivityTaskCompleted(s, n) == "temporal" \in Apis /\ CompleteAttempt(s, n)

\* Faulty variant: the attempt of the activity's row is taken to be 0-based.
ZeroBasedAttempt(s, n) == activities[s][n].attempt - 1

\* current_attempt of the failure handlers: the attempt of the activity's row,
\* which the poll has already counted, plus one.
CurrentAttempt(s, n) == activities[s][n].attempt + 1

ShouldRetry(s, n) == CurrentAttempt(s, n) < MaximumAttempts[s]

FailAttempt(s, n) ==
    /\ <<s, n>> \in tasks
    /\ tasks' = tasks \ {<<s, n>>}
    /\ SetActivity(s, n, "failed")
    /\ steps' = [steps EXCEPT ![s] =
                   IF ShouldRetry(s, n)
                   THEN [state |-> "pending", attempt |-> CurrentAttempt(s, n),
                         retry |-> "later"]
                   ELSE [state |-> "failed", attempt |-> CurrentAttempt(s, n),
                         retry |-> "null"]]
    /\ UNCHANGED <<workflows, restarts, edits>>

\* The native handler does not notify the engine.
ReportActivityFailure(s, n) ==
    /\ "khronos" \in Apis
    /\ FailAttempt(s, n)
    /\ UNCHANGED <<queue, eventsLost>>

\* The Temporal handler notifies the engine of a permanent failure.
RespondActivityTaskFailed(s, n) ==
    /\ "temporal" \in Apis
    /\ FailAttempt(s, n)
    /\ IF ShouldRetry(s, n)
       THEN UNCHANGED <<queue, eventsLost>>
       ELSE Notify(StepCompleted(RunOf[s]))

\* next_retry_at of a step that waits for its retry comes to lie in the past.
RetryDelayElapses(s) ==
    /\ steps[s].retry = "later"
    /\ steps' = [steps EXCEPT ![s].retry = "due"]
    /\ UNCHANGED <<workflows, activities, tasks, queue, eventsLost, restarts, edits>>

-----------------------------------------------------------------------------
(* The engine. process_single_workflow moves a pending run to running and, *)
(* when none of its steps is pending, settles it.                          *)

HasStep(w, state) == \E s \in StepsOf(w) : steps[s].state = state

AllCompleted(w) ==
    StepsOf(w) # {} /\ \A s \in StepsOf(w) : steps[s].state = "completed"

Begun(w) ==
    IF workflows[w].state = "pending"
    THEN [state |-> "running", started |-> TRUE, completed |-> workflows[w].completed]
    ELSE workflows[w]

Settled(w, state) ==
    [state |-> state, started |-> Begun(w).started, completed |-> TRUE]

\* Faulty variant: a step that is running does not keep its run open.
ProcessIgnoringRunning(w) ==
    CASE HasStep(w, "pending") -> Begun(w)
      [] ~HasStep(w, "pending") /\ HasStep(w, "failed") -> Settled(w, "failed")
      [] OTHER -> Settled(w, "completed")

ProcessSingleWorkflow(w) ==
    CASE HasStep(w, "pending") -> Begun(w)
      [] ~HasStep(w, "pending") /\ HasStep(w, "failed") -> Settled(w, "failed")
      [] AllCompleted(w) -> Settled(w, "completed")
      [] OTHER -> Begun(w)

Receive(type) ==
    /\ queue # <<>>
    /\ Head(queue).type = type
    /\ queue' = Tail(queue)
    /\ UNCHANGED <<steps, activities, tasks, eventsLost, restarts, edits>>

\* The timers the handlers try to schedule afterwards never are: the engine
\* parses "%Y-%m-%d %H:%M:%S" as a time with an offset, which always fails, and
\* no code writes the state 'retried'.
HandleWorkflowCreated ==
    /\ Receive("WorkflowCreated")
    /\ workflows' = [workflows EXCEPT ![Head(queue).run] =
                       ProcessSingleWorkflow(Head(queue).run)]

\* Faulty variant: the event is received and the run not processed.
DropStepCompleted == Receive("StepCompleted") /\ UNCHANGED workflows

HandleStepCompleted ==
    /\ Receive("StepCompleted")
    /\ workflows' = [workflows EXCEPT ![Head(queue).run] =
                       ProcessSingleWorkflow(Head(queue).run)]

\* process_workflows: every run that is pending or running.
HandleScheduleChange ==
    /\ Receive("ScheduleChange")
    /\ workflows' = [w \in Workflows |->
                       IF workflows[w].state \in {"pending", "running"}
                       THEN ProcessSingleWorkflow(w)
                       ELSE workflows[w]]

-----------------------------------------------------------------------------
(* The environment.                                                        *)

\* create_schedule, update_schedule and delete_schedule of the ScheduleService.
EditSchedule ==
    /\ edits < MaxScheduleEdits
    /\ edits' = edits + 1
    /\ Notify(ScheduleChange)
    /\ UNCHANGED <<workflows, steps, activities, tasks, restarts>>

\* A running step whose attempt no worker holds any more.
Stalled(s) == steps[s].state = "running" /\ \A t \in tasks : t[1] # s

\* The worker dies, or the response of its poll or its report is lost: workers
\* log a failed report and never repeat it.
LoseTask(s, n) ==
    /\ <<s, n>> \in tasks
    /\ Cardinality({r \in Steps : Stalled(r)}) < MaxLostTasks
    /\ tasks' = tasks \ {<<s, n>>}
    /\ UNCHANGED <<workflows, steps, activities, queue, eventsLost, restarts, edits>>

\* The server process stops and starts again: the tables survive, the channel
\* does not, and nothing rescans the tables.
Restart ==
    /\ restarts < MaxRestarts
    /\ restarts' = restarts + 1
    /\ queue' = <<>>
    /\ eventsLost' = (eventsLost \/ queue # <<>>)
    /\ UNCHANGED <<workflows, steps, activities, tasks, edits>>

-----------------------------------------------------------------------------

Client == \E w \in Workflows :
    StartWorkflow(w) \/ StartWorkflowExecution(w) \/ CancelWorkflow(w)

Poll(s) == PollActivity(s) \/ PollActivityTaskQueue(s)

Report(s, n) ==
    \/ ReportActivityResult(s, n)
    \/ RespondActivityTaskCompleted(s, n)
    \/ ReportActivityFailure(s, n)
    \/ RespondActivityTaskFailed(s, n)

Engine == HandleWorkflowCreated \/ HandleStepCompleted \/ HandleScheduleChange

Next ==
    \/ Client
    \/ \E s \in Steps : Poll(s) \/ RetryDelayElapses(s)
    \/ \E t \in tasks : Report(t[1], t[2]) \/ LoseTask(t[1], t[2])
    \/ Engine
    \/ EditSchedule
    \/ Restart

Spec == Init /\ [][Next]_vars

\* The engine loop receives what is queued, time passes, workers registered for
\* every activity keep polling and report what they hold. Nothing obliges a
\* client to act, a worker to lose a task or the server to restart.
Fairness ==
    /\ WF_vars(Engine)
    /\ \A s \in Steps : WF_vars(RetryDelayElapses(s)) /\ WF_vars(Poll(s))
    /\ \A s \in Steps : WF_vars(\E t \in tasks : t[1] = s /\ Report(s, t[2]))

FairSpec == Spec /\ Fairness
-----------------------------------------------------------------------------
(* Safety.                                                                 *)

\* A task in a worker's hands is always the newest attempt of a step that is
\* still running: a report never lands on a step that has moved on, although
\* report_activity_result and report_activity_failure check nothing.
TasksAreCurrent ==
    \A t \in tasks :
        /\ steps[t[1]].state = "running"
        /\ t[2] = Len(activities[t[1]])

\* The activities table agrees with workflow_steps, although no transaction
\* spans them: every attempt but the newest has failed, and the newest is
\* running, completed or failed just as its step is running, completed, or
\* failed or pending again.
StepsMatchActivities ==
    \A s \in Steps :
        LET n == Len(activities[s]) IN
        /\ \A i \in 1..(n - 1) : activities[s][i].state = "failed"
        /\ steps[s].state \in {"running", "completed", "failed"} =>
              n > 0 /\ activities[s][n].state = steps[s].state
        /\ steps[s].state = "pending" /\ n > 0 => activities[s][n].state = "failed"
        /\ steps[s].state = "none" => n = 0

\* A step is executed at most maximum_attempts times, whatever mix of services
\* the failures are reported through ("including the first").
AttemptsWithinPolicy ==
    \A s \in Steps :
        Len(activities[s]) <= IF MaximumAttempts[s] = 0 THEN 1 ELSE MaximumAttempts[s]

\* A run the engine has settled is settled for a reason that still stands:
\* completed only if every step is, failed only if some step is.
OutcomeJustified ==
    \A w \in Workflows :
        /\ workflows[w].state = "completed" => AllCompleted(w)
        /\ workflows[w].state = "failed" => HasStep(w, "failed")

AllSettled(w) ==
    StepsOf(w) # {} /\ \A s \in StepsOf(w) : steps[s].state \in {"completed", "failed"}

Queued(e) == \E i \in 1..Len(queue) : queue[i] = e

\* No wakeup is lost while the channel loses none: once the last step of a run
\* has completed (or failed, when failures come through the Temporal service),
\* the run is completed or failed, or the event that will make it so is queued.
NoLostWakeup ==
    ~eventsLost =>
      \A w \in Workflows :
        AllCompleted(w) \/ (AllSettled(w) /\ "khronos" \notin Apis) =>
          \/ workflows[w].state \in {"completed", "failed"}
          \/ Queued(StepCompleted(w))

\* A completed or failed step is never written again, although
\* update_step_state has no condition on the state it overwrites.
SettledStepIsFinal ==
    [][\A s \in Steps :
         steps[s].state \in {"completed", "failed"} => steps'[s] = steps[s]]_vars

\* The activities table is a log: attempts are only appended, a finished one is
\* never rewritten, and attempt numbers strictly increase.
AttemptLogGrows ==
    [][\A s \in Steps :
         /\ Len(activities[s]) <= Len(activities'[s])
         /\ \A i \in 1..Len(activities[s]) :
              /\ activities'[s][i].attempt = activities[s][i].attempt
              /\ activities[s][i].state # "running" =>
                   activities'[s][i] = activities[s][i]
         /\ \A i \in 1..Len(activities[s]), j \in (Len(activities[s]) + 1)..Len(activities'[s]) :
              activities[s][i].attempt < activities'[s][j].attempt]_vars

-----------------------------------------------------------------------------
(* The inductive invariant behind these properties.                        *)

\* A run and its steps are inserted together.
RowsInserted ==
    \A s \in Steps : workflows[RunOf[s]].state = "none" <=> steps[s].state = "none"

\* The attempt counter of a step is never behind the attempts that were made,
\* only a pending step waits for a retry, and it has not used up its policy.
AttemptsCounted ==
    \A s \in Steps :
        LET n == Len(activities[s]) IN
        /\ n <= steps[s].attempt
        /\ \A i \in 1..n : activities[s][i].attempt <= steps[s].attempt
        /\ steps[s].state = "running" => activities[s][n].attempt = steps[s].attempt
        /\ steps[s].state = "pending" /\ n > 0 => steps[s].attempt < MaximumAttempts[s]
        /\ steps[s].retry # "null" => steps[s].state = "pending"

\* TasksAreCurrent, StepsMatchActivities and AttemptsWithinPolicy hold of every
\* step the handlers can make from here.
LeaseInvariant ==
    /\ RowsInserted
    /\ TasksAreCurrent
    /\ StepsMatchActivities
    /\ AttemptsCounted
    /\ AttemptsWithinPolicy

-----------------------------------------------------------------------------
(* Refinement: the tables implement the lease protocol of StepLease and    *)
(* the life of a run of RunLifecycle.                                      *)

Phase(s) ==
    CASE steps[s].state = "none" -> "absent"
      [] steps[s].state = "pending" -> "idle"
      [] steps[s].state = "running" -> "leased"
      [] steps[s].state = "completed" -> "done"
      [] steps[s].state = "failed" -> "dead"

Lease == INSTANCE StepLease WITH
    phase <- [s \in Steps |-> Phase(s)],
    leases <- [s \in Steps |-> Len(activities[s])]

\* Polling and reporting, through either service and across retries, restarts
\* and lost tasks, give each step to one worker at a time and no more often
\* than its retry policy allows.
ImplementsLease == Lease!LeaseSpec

LifeOf(w) ==
    CASE workflows[w].state = "none" -> "absent"
      [] workflows[w].state \in {"pending", "running"} -> "open"
      [] workflows[w].state \in {"failed", "cancelled"} -> "stopped"
      [] workflows[w].state = "completed" -> "completed"

Lifecycle == INSTANCE RunLifecycle WITH
    Runs <- Workflows,
    life <- [w \in Workflows |-> LifeOf(w)]

\* Whoever watches a run from outside, as the scheduler does, may rely on this
\* much: it never disappears, and once completed it is completed for good,
\* although polls and engine passes overwrite its state without a condition.
ImplementsLifecycle == Lifecycle!LifeSpec

-----------------------------------------------------------------------------
(* Statements of the repository's documentation, comments and tests that   *)
(* the code does not keep.                                                 *)

\* README: "Multi-step workflows with ordered activity execution". A step is
\* given to a worker only when the steps before it have completed.
OrderedExecution ==
    \A s, r \in Steps :
        /\ RunOf[r] = RunOf[s]
        /\ StepIndex[r] < StepIndex[s]
        /\ activities[s] # <<>>
        => steps[r].state = "completed"

\* RetryPolicy: "Maximum number of attempts (including the first)". A step that
\* failed for good has been attempted that often.
RetriesExhausted ==
    \A s \in Steps :
        steps[s].state = "failed" /\ MaximumAttempts[s] > 0 =>
            Len(activities[s]) = MaximumAttempts[s]

\* engine.rs: "Workflow should be marked failed". A run whose steps have all
\* completed or failed ends up completed, failed or cancelled and stays so.
SettledRunsFinish ==
    \A w \in Workflows : AllSettled(w) ~> [](workflows[w].state \in Terminal)
=============================================================================
