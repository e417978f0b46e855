# Khronos in TLA+

A specification of the Khronos workflow server, kept beside its code: TLA+
modules translated from `src/crates/`, TLC configurations that check them on
small instances, and proofs that TLAPS checks for instances of every size.

## 1. The system

Khronos is a server process with four gRPC services over one SQLite file, two
background tasks, and workers in other processes.

| Part | State it keeps | Operations | Source |
|---|---|---|---|
| Database layer | tables `workflows`, `workflow_steps`, `activities`, `schedules`, `namespaces` | inserts, updates, queries; one statement per call, no transaction spans two | `db/src/*.rs` |
| WorkflowService | none (mutex around the database) | `start_workflow`, `cancel_workflow`, `get`, `list` | `server/src/grpc.rs` |
| WorkerService | none | `poll_activity`, `report_activity_result`, `report_activity_failure`, `heartbeat` | `server/src/grpc.rs` |
| ScheduleService | none | create, update, delete, get, list | `server/src/grpc.rs` |
| Temporal-compatible service | none | start, poll, respond completed or failed, schedules; about sixty stubs | `server/src/grpc.rs` |
| Engine | a receiver of a broadcast channel of 256 events | one handler per event; settles runs | `server/src/engine.rs` |
| Scheduler | a min-heap of fire times, in memory | loads schedules at start, sleeps, fires | `server/src/scheduler.rs` |
| Rust worker | bounded task channel, semaphore, backoff | polls, executes, reports | `worker/src/*.rs` |
| Python client and worker | as above | as above | `python/khronos_client` |
| Core types | none | states, policies, triggers | `core/src/*.rs` |

How they interact:

* Every gRPC handler takes the mutex of `KhronosState.db` before its first
  statement and holds it to its last. Two handlers never interleave.
* The engine and the scheduler open connections of their own and take no lock.
* Handlers and the scheduler tell the engine about new runs and finished steps
  through the broadcast channel. A send to a full channel overwrites the oldest
  event; the channel is lost with the process.
* The scheduler hears of nobody: the channel made for schedule changes has no
  sender in the code.
* The workers of this repository poll for steps and report each attempt once. A
  failed report is logged and not repeated. Workers built on a Temporal SDK repeat
  a report until it is acknowledged.

What is hard here: reports and engine passes overwrite rows without a condition
on what is there; consistency of three tables without transactions; wakeups that
can be lost in the channel or with the process; retries with a delay; two APIs
for the same operations that differ in which events they send; a heap that is
never synchronised with the table it was built from; statements of the scheduler
interleaved with everything else; failed statements, lost answers and restarts at
any point; a worker whose poller, channel, main loop and spawned tasks wait on one
another. `PROJECT.json`
lists these hazards, each at its line with the properties aimed at it.

What makes the parts correct:

* polling and reporting: one holder per step, no more attempts than the policy,
  settled steps stay settled, the log of attempts tells the same story as the
  steps;
* engine: a run is settled only for a reason that stands, and every finished run
  is settled;
* scheduler: a schedule fires when due, not too early, not twice;
* overlap policies: what they promise of the open runs of a schedule;
* workers: a task that was taken is executed and reported once or is accounted for
  as lost, and no more is taken than can be held.

## 2. The modules

| Module | What it is |
|---|---|
| `WorkflowExecution` | the execution core: three tables, all handlers that write them, the channel, the engine, lost tasks and restarts; its properties |
| `WorkflowDefinitions` | the built-in workflow definitions of the gRPC service and of the scheduler |
| `StepLease` | abstract: what the tables promise a worker about a step |
| `RunLifecycle` | abstract: what an observer may assume about the life of a run |
| `StatementExecution` | the execution core one SQL statement at a time: Temporal handlers, engine, the scheduler's start of a run, repeated reports, faults |
| `EngineTimers` | extends `WorkflowExecution` by the engine's heartbeat and retry timers |
| `Deployment` | extends `WorkflowExecution` by the Python workers that call it |
| `RustWorker` | the Rust worker process |
| `WorkerContract` | abstract: what a worker process owes the server for its tasks |
| `Scheduler` | the scheduler task, the schedules table and the handlers that edit it; uses the moves of `RunLifecycle` for the runs |
| `WorkflowExecutionProofs`, `StatementExecutionProofs`, `EngineTimersProofs`, `DeploymentProofs`, `RustWorkerProofs`, `SchedulerProofs` | the proofs about the module of the name; `EngineTimersProofs` and `DeploymentProofs` extend `WorkflowExecutionProofs` as their modules extend `WorkflowExecution` |
| `MC...` | instances for TLC |

`StepLease` and `RunLifecycle` are each implemented twice, by the handlers as
atomic actions and by their statements.

### WorkflowExecution

Rows are records; a row that does not exist has state `"none"`. `activities[s]`
is the sequence of attempts of step `s`, so the activity id of the code is the
pair of a step and a position. `tasks` holds the activity ids that workers hold,
`queue` the events the engine has not received, `eventsLost` remembers whether an
event was overwritten or died with the server.

There is one action per handler: `StartWorkflow`, `StartWorkflowExecution`,
`CancelWorkflow`, `PollActivity`, `PollActivityTaskQueue`,
`ReportActivityResult`, `RespondActivityTaskCompleted`, `ReportActivityFailure`,
`RespondActivityTaskFailed`, `HandleWorkflowCreated`, `HandleStepCompleted`,
`HandleScheduleChange`. `EditSchedule` stands for the schedule handlers, of which
the engine only sees the event. `RetryDelayElapses` is time passing,
`LoseTask` a dead worker or a lost message, `Restart` a restart of the server.
What the two services share is one definition (`Dispatch`, `CompleteAttempt`,
`FailAttempt`); what they do not share is visible at a glance: the native start
notifies the engine and the Temporal one does not, the Temporal failure notifies
and the native one does not.

Abstractions:

* `next_retry_at` is `"null"`, `"later"` or `"due"`: polls only compare it with
  the clock.
* A poll may be answered with any ready step: requests name arbitrary activity
  types or task queues, and the order by `created_at` has a granularity of a
  second.
* Names, arguments, results and error messages are left out.
* The steps and policies of runs are constants; `WorkflowDefinitions` gives them
  the values of the code.
* The timers the engine tries to set never are: no code writes the state
  `retried`, and the timestamps in the table are parsed as times with an offset,
  which fails. So `RetryDue` and `HeartbeatTimeout` never occur here
  (`EngineTimers` has them), and the column that only they read
  (`last_heartbeat_at`) is left out.
* An engine handler is one action. Its reads and its final update are separate
  statements, and a cancel may come between them; the only effect, that the
  engine overwrites the cancelled state, also occurs in the model.
* Runs started by the scheduler are not started here: their steps are inserted
  one by one without the mutex (see `StatementExecution` and `Scheduler`).

### StatementExecution

Three threads of control have a program counter each: `grpc` is the handler that
holds the mutex, `engine` the event handler, `sched` the scheduler's start of a
run. A handler begins when `grpc` is idle (`StartWorkflowExecution`, `PollStep`,
`RespondUpdateActivity`, `CancelWorkflow`) and goes on statement by statement
(`StartNextStep`; `PollInsertActivity`, `PollAnswer`; `CompleteUpdateStep` or
`FailUpdateStep`, `RespondSend`). The engine reads and writes in between
(`EngineBegin`, `EngineNext`, `EngineCount`, `EngineSettle`), and so does the
scheduler (`StartScheduleWorkflow`, `ScheduleNextStep`, `ScheduleNotify`).

A task stays in `tasks` until its report was acknowledged, so a worker repeats a
report whose handler failed (`HandlerError`), whose answer was lost (`Answer`) or
during which the server stopped (`Restart`). The other faults are a statement of
the engine or of the scheduler that fails, which only logs an error, the update of
the run at the end of a poll, whose error is ignored, and a poll whose answer is
lost. `MaxFaults` bounds them all together.

`overtaken` records the one thing that breaks the protocol: a failure report that
is repeated after the step was handed out again. `respond_activity_task_failed`
has no condition on the attempt, so it puts a step back that another worker is
executing or has completed, and the step is executed twice at once. The safety
properties are stated up to that moment, and hold for every other combination of
faults.

### EngineTimers

After each event the engine sets a heartbeat timer for every running attempt of
the run (`EngineWithTimers`), a timer fires at any later time, and
`HandleHeartbeatTimeout` fails the attempt, retries the step or settles the run.
`HandleRetryDue` looks for the state `retried` and so does nothing. The constant
`StampsParse` is the outcome of the parse that decides whether a timer is set at
all; in the code it is `FALSE`. A timer that is set twice for one attempt is one
timer here: the second event finds the attempt no longer running.

### Deployment

Each Python worker is one loop (`worker[k]` is its position, its task and the
outcome to report): it polls with the names of its activities, executes, reports
once whatever becomes of the report, and sleeps when there was nothing or the poll
failed (`PollNothing`, `PollFails`). Answers and reports get lost, `stop` ends the loop after the current iteration,
cancellation ends it at once with the task in hand. A result that `json.dumps`
writes and the server's parser refuses (`NaN`) is the outcome `"invalid"`: the
server answers with an error before it writes anything, and the worker logs it.
The anonymous polls, reports and losses of `WorkflowExecution` happen only through
these workers. The growth of the sleep is left out: it is bounded.

### RustWorker

`poller`, `main` and `handlers` are the positions of the poller task, of the main
loop and of the spawned tasks; `channel` and `permits` lie between them. The server
is reduced to which tasks are ready, leased or reported. The poller sends what it
gets into the bounded channel and waits when it is full; the main loop takes a task
and waits for a permit, deaf to signals meanwhile; a spawned task runs the handler
(or finds none), reports once and gives the permit back. Leaving the main loop ends
the process with everything in it. Delays are integers in units of 10 ms; of the
range of the jitter the two ends are kept. `BackoffReference` compares the loop of
`compute` with its closed form.

The constant `Requested` is the set of tasks whose activity name is in the list of
types that the poller sends; the server offers nothing else. The poller of the code
sends an empty list, so that the worker has nothing to do (`V_EmptyTypes`). The run
`Rust` checks the rest of the worker with a list that names every activity, which is
what the list is for; the theorems hold for every list, the empty one included.

### Scheduler

The task works without a lock, so each statement that reads or writes what others
write is a step: `Reload`; then per due entry `ProcessSchedule` (load the row and
decide), `CheckOverlap`, one `CancelVictim` per run to terminate, `InsertRun`, and
one `InsertStep` for each of its steps; or `DismissSchedule`.
`phase` and `firing` are its program counter and its locals. The environment
edits the table (`CreateSchedule`, `UpdateSchedule`, `DeleteSchedule` and the
Temporal variants), moves runs (`RunMoves`), lets the clock tick and restarts the
server at any point.

* A cron expression is its period, `0` if it does not parse; what a Temporal
  client stores is not the JSON the scheduler expects and is `"opaque"`.
  `Upcoming` is the external `cron` crate: the first occurrence strictly after
  now. Times are whole seconds; the part of a second that `check_cron_match` cuts
  off is the choice of `frac`.
* `Matches` is the effect of the pattern `schedule:<id>-%`, which also matches
  runs of schedules with longer ids.
* `UpdateNextFire` returns the heap it is given: the query of
  `update_schedule_next_fire` holds backslashes, SQLite rejects it, and the code
  takes the error for a deleted schedule.
* A run some of whose steps have been inserted can already be worked on. `late`
  holds the runs that the engine completed on the steps they had and that have got
  another since: a poll for it opens them again. This is where `RunLifecycle` ends.
* Any statement may fail (the database is locked for longer than the busy timeout).
  What the code makes of it differs from place to place. The error is passed on and
  ends the firing with what it has done so far (`FiringFails`). A row that cannot be
  loaded counts as deleted (`DismissSchedule`). A row that cannot be read is left out,
  of the heap (`Reload`) or of the runs to terminate (`SelectVictims`). A failed query
  in `check_interval` counts as a schedule that has never run (`ShouldFire`).
  `firing.misread` remembers the reads that failed unnoticed, `firing.reopened` the
  runs that were opened after the overlap check; the properties speak of them.

## 3. What TLC checks

All runs set `CHECK_DEADLOCK FALSE`: an idle server, and a model whose bounds are
used up, may stop.

| Run | Instance | Shows |
|---|---|---|
| `Pair` | two runs, three steps (policies 2, 1, 3), both services, channel of 2, one lost task, one restart, one schedule edit; 249,892 states | `TypeOK`; `TasksAreCurrent`; `StepsMatchActivities`; `AttemptsWithinPolicy`; `LeaseInvariant` (the inductive invariant); `OutcomeJustified`; `NoLostWakeup`; `SettledStepIsFinal`; `AttemptLogGrows`; `ImplementsLease`; `ImplementsLifecycle` |
| `Statements` | one run of two steps (policies 3, 1) started by a client or by the scheduler, channel of 2, one fault anywhere; 72,163 states | `OneExecution`; `StatementWakeups`; `LeaseStatementwise` and `LifecycleStatementwise` (refinement of `StepLease` and `RunLifecycle`); `StartedRunsFinish` |
| `Python` | one run of two steps (policies 3, 1), two workers of which one knows both activities, one lost or refused report or reply, one restart, one schedule edit; 158,945 states | `OneWorkerPerStep`; `EveryStepServed`; `CompletedRunsClose` |
| `Rust` | six tasks, two without a handler, two permits, a channel of 1, two failed calls; 46,019 states | `SingleCustody`; `PermitsConserved`; `LossesAccounted`; `ImplementsContract` (refinement of `WorkerContract`); `OutageBacksOff`; `HeldTasksEnd`; `SignalsHonoured`; `OutagesEnd` |
| `Sched` | two schedules of which one matches the other's runs, two intervals, a list of cron expressions whose first does not parse, unreadable ones, all policies, runs of two steps, two server starts, two edits, one failed statement, clock to 1; 635,748 states | `StartsDistinct`; `OverlapDecided`; `IntervalRespected`; `DueEntriesServed` |

Each run also checks the type invariant of its module.

Bounds. A channel of 2 overflows, the one of 256 in the code would not in a model
of this size. Two runs are enough for an event of one to displace an event of the
other and for `process_workflows` to settle several. Policies 1, 2 and 3 give no
retry, none, and one. One restart can fall between any two actions. In
`Statements` one fault already loses an event, strands a step, leaves a run
without steps or makes a failure overtake its step; with `MaxFaults = 2` the same
properties hold on 845,568 states, which takes longer than is comfortable to keep.
Two steps let the engine complete a scheduled run between their inserts. In
`Python` both workers can want the same step while the other step waits. In `Rust`
six tasks are one more than the worker can hold (two permits, a place in the
channel, one at the poller and one at the main loop), so every queue fills up; the
unregistered tasks come early so that a leaked permit is missed later. In
`Sched` a schedule can be created, loaded, edited and served after a restart,
with its own or the other schedule's run open, stopped or completed; one second is
enough for a run before a restart and one after it, and for an interval of two to be
too long. `Runs` has one run per schedule and second, which is all that can be
started (`StartsDistinct`; section 4).
`MaxTime`, `MaxLoads`, `MaxEdits`, `MaxFailures`, `MaxLostTasks`, `MaxRestarts`,
`MaxScheduleEdits` and `MaxFaults` are the named bounds.

Fairness. `FairSpec` of `WorkflowExecution` assumes that the engine's loop receives
what is queued, that time passes, that some worker polls for every activity (`WF` of
`Poll(s)`) and that a worker that holds an attempt reports it (`WF` of the report,
success or failure). `Deployment` replaces the assumptions about steps by `WF` of
each worker's loop and `SF` of the poll that finds a step: a worker whose loop runs
polls again and again, and not every one of its polls fails. That a step is served
follows. `StatementExecution` assumes that
handler, engine and scheduler go on with what they have begun and that workers poll
and repeat. `RustWorker` assumes that poller, main loop and spawned tasks run.
`FairSchedulerSpec` assumes that the task's loop runs and the clock ticks. Nothing
obliges a client to act, a call or statement to fail, a task to be lost, a signal to
come or the server to restart. These are what tokio's scheduler, the clock,
running workers and a network that is not down for good give.

What `StartedRunsFinish` leaves out is as much a result as what it says. A run does
not finish if its event was lost (channel overflow, restart, or a failed statement
of the engine), if a repeated failure overtook its step, if a step was marked
running and its task reached nobody, or if the server stopped between the run's row
and its first step: the definition `BeyondRecovery` lists these, and nothing in the
server ever looks for them. A run that the engine completed on the steps the
scheduler had inserted so far is not among them: the next poll opens it again.

### Known disagreements

Seven runs are expected to fail: each states what the repository says of the
program and shows a behaviour of the code that contradicts it. `findings` quotes
the lines.

| Run | The repository says | The code |
|---|---|---|
| `V_Order` | "ordered activity execution" | hands out steps in any order |
| `V_Retries` | maximum attempts "including the first" | counts the first attempt twice and stops one short |
| `V_FailureSilent` | a run with a failed step "should be marked failed" | the native failure handler wakes nobody; the run stays running |
| `V_Stalled` | stalled activities are detected and failed | no heartbeat timer is ever set. Were the timestamps parsed (`StampsParse = TRUE`), the property would still fail: a poll does not wake the engine, so the last attempt to start gets no timer |
| `V_EmptyTypes` | an empty list of activity types "means that all types are accepted" | the server looks the name up in the empty list; the Rust worker gets nothing |
| `V_Rearm` | "maintains a min-heap" of fire times | a schedule that fired is never put back |
| `V_Cron` | "Cron expressions and fixed-interval triggers" | at the second it is due a cron trigger looks for the next occurrence and does not fire; only a wake that comes so late that the next occurrence is a second or two away would |

The same definitions show more of the kind, for which no run is kept:

* a poll moves a run to running from any state, also from cancelled, where the
  comment at `grpc.rs:407` says "if it's still PENDING", and sets its
  `completed_at` (`Dispatch`; `RunLifecycle` has the move from stopped to open for
  this reason);
* the engine completes or fails a run that was cancelled before or while it handled
  the event (`ProcessSingleWorkflow`, `EngineSettle`);
* a failure that a Temporal worker repeats after the step was handed out again puts
  the step back under the other worker's hands (`FailUpdateStep`);
* a result the server cannot parse is neither stored nor turned into a failure
  (`ReportRejected`);
* the Rust worker drops what it holds when it shuts down (`Exit`), where
  `docs/worker-architecture-zh.md:101` says it waits for all activities in progress;
* a restart with an event in the channel leaves the run open (`Restart`);
* a schedule created while the server runs is not armed until a restart (`Reload`);
* the buffer policy has no bound and the terminate policy can leave two runs open,
  because a cancelled run keeps pending steps and a poll opens it again
  (`OverlapDecided` says that there is no other way, if all runs could be read);
  terminating selects runs of another schedule (`Matches`);
* a failed query makes an interval schedule fire before its interval has passed, and
  lets a terminate schedule start beside runs that it did not see (`misread`).

## 4. What is proved

Every invariant, action property and refinement that a passing run checks is also a
theorem, for all values of the constants that satisfy the named assumptions. TLC
evaluates these assumptions in every run of the module; they are repeated below
where they say more than that a constant has its type.

### WorkflowExecution

For every set of runs and steps, every retry policy, every channel capacity and
every bound:

| Theorem | Statement |
|---|---|
| `TypeCorrect` | `Spec => []TypeOK` |
| `TasksCurrent` | `Spec => []TasksAreCurrent` |
| `TablesAgree` | `Spec => []StepsMatchActivities` |
| `PolicyKept` | `Spec => []AttemptsWithinPolicy` |
| `LeaseKept` | `Spec => []LeaseInvariant` |
| `OutcomesJustified` | `Spec => []OutcomeJustified` |
| `WakeupsKept` | `Spec => []NoLostWakeup` |
| `SettledStepsFinal` | `Spec => SettledStepIsFinal` |
| `AttemptsLogged` | `Spec => AttemptLogGrows` |
| `LeaseImplemented` | `Spec => ImplementsLease` |
| `LifecycleImplemented` | `Spec => ImplementsLifecycle` |

Assumptions are `StepsAssumption` (every step has a run, an index and a number of
attempts) and `BoundsAssumption` (the channel has room for one event; bounds are
natural numbers).

The argument. None of these properties is inductive. A report is harmless only
because it concerns the newest attempt of a running step (`TasksAreCurrent`);
that is kept by polls only because a running step is not ready; a poll stays
within the policy only because a pending step with attempts has a counter below
its maximum (`AttemptsCounted`), which in turn needs the counter of a running
step to equal the number of its newest attempt. `Invariant` is the conjunction
`TablesOK /\ ChannelOK /\ CountersOK`. The part of `TablesOK` about one step is a
predicate of its row and its log (`StepOK`); lemmas `DispatchStep` and
`ReportStep` show that a poll and a report keep it, and the lemmas that follow
lift this to the tables, one per action. `LeaseInvariant` is the same statement
in the form that `Pair` checks.

`OutcomeJustified` and `NoLostWakeup` are inductive relative to `Invariant`;
`ProcessRow` says what `process_single_workflow` leaves in a row and `EngineRows`
that an engine handler does nothing else. The action properties and the lease
refinement rest on `StepChange`, which lists the five things that can happen to a
step. `LifecycleImplemented` needs `OutcomeJustified`: a poll cannot open a
completed run because a completed run has no pending step.

### EngineTimers

| Theorem | Statement |
|---|---|
| `TimersNeverSet` | `StampsParse = FALSE`: `TimersSpec => []NoTimers` |
| `TimersImplementExecution` | `StampsParse = FALSE`: `TimersSpec => Spec` |

These justify that `WorkflowExecution` leaves the timers out: under the parse as it
is in the code, the server with timers is an implementation of the server without,
and the theorems above are true of it. The invariant is `Invariant` and that no
timer is set: the events of timers are then not in the channel and their handlers
have nothing to receive.

### StatementExecution

For every finite set of steps, every policy, and any number of faults:

| Theorem | Statement |
|---|---|
| `StatementTyped` | `Spec => []StatementTypeOK` |
| `AttemptsNotShared` | `Spec => []OneExecution` |
| `WakeupsSurvive` | `Spec => []StatementWakeups` |
| `LeaseKeptStatementwise` | `Spec => LeaseStatementwise` |
| `LifecycleKeptStatementwise` | `Spec => LifecycleStatementwise` |

`StatementAssumption` says that every run has a step and that the steps of a run
are numbered from 0 without a gap, as `enumerate` numbers them; the insertion of
steps one by one ends for this reason.

The argument. Between two statements the tables do not agree, and after a fault they
never do again, so the invariant of `WorkflowExecution` is of no use here. What
stands instead (`StatementInvariant`) is, in parts:

* `StartsOK`: a start that is under way has inserted the steps below its index and
  none from there on. Without it nothing says that the row a start writes is
  new.
* `Tracked`, as long as no failure has overtaken its step: each row against its log
  (`StepLog`: a row may be running without a record of the attempt, because the poll
  broke off), each task against the row and the log (`TaskLog`: a task whose outcome
  is still to come is the newest attempt of a running step, and so is one to be
  reported as completed until the report is applied; of one to be reported as failed,
  the row is still running, or is as the failure leaves it, or is past it and a
  repetition would overtake the step), and the poll that is under way against both
  (`PollTracked`).
* `VerdictsTracked`: what the engine has written about a run, or has decided from
  its counts and is about to write, still holds; for runs that clients started, whose
  steps are all there before the engine hears of them.
* `StatementWakeups` itself.

TLC checked `StatementInvariant` with two faults before it was proved. One lemma per
statement shows that it keeps each part. The lemmas about `Tracked` also establish
`LeaseMoves`, what a statement does to the steps, from which the lease refinement
follows. The lifecycle follows from `RowMoves`, what a statement does to the row of a
run, which needs `VerdictsTracked` (the run a poll opens is not completed) and
`PollTracked` (its step is still running when the poll writes the run last).

### Deployment

For every set of workers, and whatever each of them knows:

| Theorem | Statement |
|---|---|
| `DeploymentTyped` | `DeploymentSpec => []DeploymentTypeOK` |
| `StepsNotShared` | `DeploymentSpec => []OneWorkerPerStep` |
| `ServerSoundWithWorkers` | `DeploymentSpec => [](LeaseInvariant /\ OutcomeJustified /\ NoLostWakeup)` |
| `WorkersKeepLease` | `DeploymentSpec => ImplementsLease` |
| `WorkersKeepLifecycle` | `DeploymentSpec => ImplementsLifecycle` |

Every step of the deployment is a step of `WorkflowExecution` on the tables, with
one exception: a result that the server refuses (`ReportRejected`) takes the attempt
out of `tasks` outside the bound on lost tasks (`Forgets`). So the invariants carry
over, and what is new is about the workers: `WorkersOK` says that a worker's task is
one the server counts on. `OneWorkerPerStep` needs it together with
`TasksAreCurrent`: a poll answers with a new attempt, and the step was not running,
so nobody had it.

### RustWorker

For every finite set of tasks, every request, every concurrency, channel capacity, backoff and
number of failed calls:

| Theorem | Statement |
|---|---|
| `WorkerTyped` | `Spec => []WorkerTypeOK` |
| `CustodyKept` | `Spec => []SingleCustody` |
| `NoPermitLeaks` | `Spec => []PermitsConserved` |
| `LossesCounted` | `Spec => []LossesAccounted` |
| `BackoffGrows` | `BackoffMax <= 65536 * BackoffInitial`: `Spec => OutageBacksOff` |
| `ContractKept` | `Spec => ImplementsContract` |

The four places of a task (the poller's hand, the channel, the main loop, the spawned
tasks) must be disjoint for the counts to add up: a task that lay in two of them
would be reported once and counted as held and reported. `SingleCustody` states
that, and that what is held is leased; `LossesAccounted` and the contract rest on it.
The channel is a sequence without repetitions, so its length is the number of tasks
in it. `ExitedOK` says that nothing survives the exit. The hypothesis of
`BackoffGrows` is needed: `compute` caps the exponent at 16, so with a larger maximum
the delay stays where it is at 65536 times the initial one and never reaches the
maximum. The default configuration (100 ms and 30 s, a factor of 300) is far from it.

### Scheduler

For every finite set of schedules, every relation `Matches`, every number of steps
and every bound, that on failures included:

| Theorem | Statement |
|---|---|
| `SchedulerTyped` | `SchedulerSpec => []SchedulerTypeOK` |
| `StartsKeptApart` | `SchedulerSpec => []StartsDistinct` |
| `OverlapKept` | `SchedulerSpec => []OverlapDecided` |
| `IntervalKeptBetweenRuns` | `SchedulerSpec => IntervalRespected` |

What keeps the starts of a schedule apart is not `check_interval`, whose query may
fail, but the heap. `EntriesAhead`: the fire time of an entry lies after the starts
of all runs of its schedule (`OneNextFire`, from what `get_last_started` and
`upcoming` return). `HeapOK`: a schedule has one entry at most, and none while it is
served, for it is taken out first. An entry is served when its time has come, so the
clock is past those starts as well (`ServedAhead`) until the run is inserted. None of
this depends on whether a fired schedule is armed again, only on the fire time being
computed from the runs. The model's set of runs is finite; that a run is left whenever
one is to be inserted is a lemma (`RunLeft`: runs differ in schedule and second, and
the schedule being served has none in this second), so the bound never disables a
start.

For `OverlapDecided`, `VictimsKnown` says of every moment of the cancelling that an
open run of the schedule is still to be cancelled or was opened again since. For
`IntervalRespected` the check and the insertion are several statements apart:
`IntervalPassed` says that what `should_fire` found stays true until then, because
only this task adds runs of the schedule and time does not run backwards.

### Only model-checked

The liveness properties: `StartedRunsFinish`, `EveryStepServed`,
`CompletedRunsClose`, `HeldTasksEnd`, `SignalsHonoured`, `OutagesEnd` and
`DueEntriesServed`. Fairness and `ENABLED` are beyond the prover. Also
`BackoffReference`, which compares a recursive function with its closed form for all
exponents the code admits: the prover has no induction over data. The runs that are
expected to fail refute by a counterexample and have nothing to prove.

## 5. What is not modelled

* The native handlers statement by statement: they make the same statements as the
  Temporal ones, which `StatementExecution` has, for workers that do not repeat.
* `heartbeat`, and the worker's method that calls it: it moves the deadline of a
  timer that is never set. `register_namespace`, which names a column the table does
  not have and always fails. The read-only handlers and the Temporal stubs.
* `core/src/task_queue.rs`, which no crate uses; `worker/src/handlers.rs`, which is
  not part of the worker's crate; the engine's `check_retries` and
  `check_heartbeats`, which nothing calls.
* The Python client, one stub call per method; command lines, logging, generated
  protocol code, the migration script.
* Execution and scheduler in one specification: the scheduler sees runs as
  `RunLifecycle` describes them and the tables see its inserts
  (`StatementExecution`). Their product adds no shared state to these two views.

## 6. Plan

1. More about the operators the proofs rest on: that `Upcoming` and `Matches` are as
   weak as the code needs them, and what survives after a failure has overtaken its
   step (`StatementExecution` says nothing of that state but its types and starts).
2. The safety half of the liveness arguments: the measures by which a run gets
   nearer to its end, as action properties that are proved.
