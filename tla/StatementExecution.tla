-------------------------- MODULE StatementExecution --------------------------
(***************************************************************************)
(* The execution core again, one SQL statement at a time: the Temporal     *)
(* handlers, which hold the mutex of KhronosState.db, the engine and the   *)
(* scheduler's start of a run, which hold no lock, and workers that repeat *)
(* a report until it is acknowledged, as Temporal SDKs do. A statement may *)
(* fail, an answer may be lost and the server may stop between any two     *)
(* statements.                                                             *)
(*                                                                         *)
(* A statement that only reads is part of the step of the statement that   *)
(* uses what it read, unless somebody else may write in between.           *)
(***************************************************************************)
EXTENDS Integers, Sequences, FiniteSets

CONSTANTS
    Workflows,        \* run ids that may be started
    Steps,            \* step ids of all those runs
    RunOf,            \* RunOf[s]: workflow_run_id of step s
    StepIndex,        \* StepIndex[s]: step_index of step s, counted from 0
    MaximumAttempts,  \* MaximumAttempts[s]: retry_policy.maximum_attempts of s
    ChannelCapacity,  \* capacity of the engine's broadcast channel
    MaxFaults         \* bound: failed statements, lost answers and restarts

StepsOf(w) == {s \in Steps : RunOf[s] = w}

ASSUME StatementAssumption ==
    /\ IsFiniteSet(Steps)
    /\ RunOf \in [Steps -> Workflows]
    /\ StepIndex \in [Steps -> Nat]
    /\ \A w \in Workflows :
         /\ StepsOf(w) # {}
         /\ {StepIndex[s] : s \in StepsOf(w)} = 0..(Cardinality(StepsOf(w)) - 1)
    /\ MaximumAttempts \in [Steps -> Nat]
    /\ ChannelCapacity \in Nat \ {0}
    /\ MaxFaults \in Nat

VARIABLES
    workflows,   \* workflows[w]: the state column of run w
    scheduled,   \* runs whose workflow_id is "schedule:...": the scheduler's
    steps,       \* steps[s]: the row of step s
    activities,  \* activities[s]: the attempts of step s, oldest first
    tasks,       \* what workers hold, until its report is acknowledged
    grpc,        \* the handler that holds the mutex and its next statement
    engine,      \* the engine's event handler and its next statement
    sched,       \* the scheduler's start of a run and its next statement
    queue,       \* runs named by the events sent to the engine
    eventsLost,  \* history: an event was overwritten, failed or died
    overtaken,   \* history: a repeated failure was applied to a later attempt
    faults       \* failed statements, lost answers and restarts so far

tables == <<workflows, scheduled, steps, activities>>
vars == <<tables, tasks, grpc, engine, sched, queue, eventsLost, overtaken, faults>>

-----------------------------------------------------------------------------

Terminal == {"completed", "failed", "cancelled"}

StepRow ==
    [state : {"none", "pending", "running", "completed", "failed"},
     attempt : Nat,
     retry : {"null", "later", "due"}]

ActivityRow == [attempt : Nat, state : {"running", "completed", "failed"}]

\* n is the place of the attempt in activities[step]; outcome is what the worker
\* reports, "none" while it executes.
Task == [step : Steps, n : Nat, outcome : {"none", "completed", "failed"}]

Idle == [at |-> "idle"]

Start(w, i) == [at |-> "insert", run |-> w, index |-> i]
Poll(at, s) == [at |-> at, step |-> s]
Report(at, t) == [at |-> at, task |-> t]
Process(at, w, verdict) == [at |-> at, run |-> w, verdict |-> verdict]

StatementTypeOK ==
    /\ workflows \in [Workflows -> {"none", "pending", "running"} \union Terminal]
    /\ scheduled \subseteq Workflows
    /\ steps \in [Steps -> StepRow]
    /\ activities \in [Steps -> Seq(ActivityRow)]
    /\ tasks \subseteq Task
    /\ grpc \in {Idle}
         \union {Start(w, i) : w \in Workflows, i \in 0..Cardinality(Steps)}
         \union {Poll(at, s) : at \in {"insertActivity", "updateWorkflow"}, s \in Steps}
         \union {Report(at, t) : at \in {"updateStep", "send"}, t \in tasks}
    /\ engine \in {Idle}
         \union {Process(at, w, v) : at \in {"next", "count", "settle"}, w \in Workflows,
                                     v \in {"none", "completed", "failed"}}
    /\ sched \in {Idle}
         \union {Start(w, i) : w \in scheduled, i \in 0..Cardinality(Steps)}
    /\ queue \in Seq(Workflows) /\ Len(queue) <= ChannelCapacity
    /\ eventsLost \in BOOLEAN /\ overtaken \in BOOLEAN
    /\ faults \in 0..MaxFaults

Init ==
    /\ workflows = [w \in Workflows |-> "none"]
    /\ scheduled = {}
    /\ steps = [s \in Steps |-> [state |-> "none", attempt |-> 0, retry |-> "null"]]
    /\ activities = [s \in Steps |-> <<>>]
    /\ tasks = {}
    /\ grpc = Idle /\ engine = Idle /\ sched = Idle
    /\ queue = <<>>
    /\ eventsLost = FALSE /\ overtaken = FALSE
    /\ faults = 0

\* Faulty variant: the channel is taken to be unbounded.
UnboundedNotify(w) == queue' = Append(queue, w) /\ UNCHANGED eventsLost

\* WorkflowCreated and StepCompleted are handled alike: an event is its run.
Notify(w) ==
    /\ queue' = Append(IF Len(queue) < ChannelCapacity THEN queue ELSE Tail(queue), w)
    /\ eventsLost' = (eventsLost \/ Len(queue) = ChannelCapacity)

Fault == faults < MaxFaults /\ faults' = faults + 1

-----------------------------------------------------------------------------
(* Starting a run: the row, then one insert per step. The Temporal handler *)
(* does so under the mutex and sends no event; the scheduler does so       *)
(* without the mutex and sends one.                                        *)

InsertRow(w) ==
    /\ workflows[w] = "none"
    /\ workflows' = [workflows EXCEPT ![w] = "pending"]
    /\ UNCHANGED <<steps, activities>>

InsertStep(w, i) ==
    /\ steps' = [s \in Steps |-> IF RunOf[s] = w /\ StepIndex[s] = i
                                 THEN [state |-> "pending", attempt |-> 0, retry |-> "null"]
                                 ELSE steps[s]]
    /\ UNCHANGED <<workflows, scheduled, activities>>

LastStep(w, i) == i + 1 = Cardinality(StepsOf(w))

StartWorkflowExecution(w) ==
    /\ grpc = Idle
    /\ InsertRow(w)
    /\ UNCHANGED scheduled
    /\ grpc' = Start(w, 0)
    /\ UNCHANGED <<tasks, engine, sched, queue, eventsLost, overtaken, faults>>

StartNextStep ==
    /\ grpc.at = "insert"
    /\ InsertStep(grpc.run, grpc.index)
    /\ grpc' = IF LastStep(grpc.run, grpc.index)
               THEN Idle ELSE Start(grpc.run, grpc.index + 1)
    /\ UNCHANGED <<tasks, engine, sched, queue, eventsLost, overtaken, faults>>

StartScheduleWorkflow(w) ==
    /\ sched = Idle
    /\ InsertRow(w)
    /\ scheduled' = scheduled \union {w}
    /\ sched' = Start(w, 0)
    /\ UNCHANGED <<tasks, grpc, engine, queue, eventsLost, overtaken, faults>>

ScheduleNextStep ==
    /\ sched.at = "insert"
    /\ sched.index < Cardinality(StepsOf(sched.run))
    /\ InsertStep(sched.run, sched.index)
    /\ sched' = Start(sched.run, sched.index + 1)
    /\ UNCHANGED <<tasks, grpc, engine, queue, eventsLost, overtaken, faults>>

ScheduleNotify ==
    /\ sched.at = "insert"
    /\ sched.index = Cardinality(StepsOf(sched.run))
    /\ Notify(sched.run)
    /\ sched' = Idle
    /\ UNCHANGED <<tables, tasks, grpc, engine, overtaken, faults>>

CancelWorkflow(w) ==
    /\ grpc = Idle
    /\ workflows[w] \in {"pending", "running"}
    /\ workflows' = [workflows EXCEPT ![w] = "cancelled"]
    /\ UNCHANGED <<scheduled, steps, activities, tasks, grpc, engine, sched, queue, eventsLost,
                   overtaken, faults>>

-----------------------------------------------------------------------------
(* poll_activity_task_queue: the step, the attempt, the run, the answer.   *)

\* Faulty variant: the query does not exclude running steps.
ReadyWhileRunning(s) ==
    steps[s].state \in {"pending", "running"} /\ steps[s].retry # "later"

\* Faulty variant: it does not exclude steps that were out of retries.
ReadyAgain(s) == steps[s].state \in {"pending", "failed"} /\ steps[s].retry # "later"

\* Faulty variant: it misses the steps whose retry has come due.
ReadyFirstTime(s) == steps[s].state = "pending" /\ steps[s].retry = "null"

Ready(s) == steps[s].state = "pending" /\ steps[s].retry # "later"

PollStep(s) ==
    /\ grpc = Idle
    /\ Ready(s)
    /\ steps' = [steps EXCEPT ![s] =
                   [state |-> "running", attempt |-> steps[s].attempt + 1, retry |-> "null"]]
    /\ grpc' = Poll("insertActivity", s)
    /\ UNCHANGED <<workflows, scheduled, activities, tasks, engine, sched, queue, eventsLost,
                   overtaken, faults>>

PollInsertActivity ==
    /\ grpc.at = "insertActivity"
    /\ activities' = [activities EXCEPT ![grpc.step] =
                        Append(@, [attempt |-> steps[grpc.step].attempt,
                                   state |-> "running"])]
    /\ grpc' = Poll("updateWorkflow", grpc.step)
    /\ UNCHANGED <<workflows, scheduled, steps, tasks, engine, sched, queue, eventsLost,
                   overtaken, faults>>

\* The update of the run may fail, which the handler ignores; the answer may be
\* lost, which leaves the attempt running and in nobody's hands.
PollAnswer ==
    LET s == grpc.step
        task == [step |-> s, n |-> Len(activities[s]), outcome |-> "none"]
        running == [workflows EXCEPT ![RunOf[s]] = "running"]
    IN
    /\ grpc.at = "updateWorkflow"
    /\ \/ workflows' = running /\ tasks' = tasks \union {task} /\ UNCHANGED faults
       \/ UNCHANGED workflows /\ tasks' = tasks \union {task} /\ Fault
       \/ workflows' = running /\ UNCHANGED tasks /\ Fault
    /\ grpc' = Idle
    /\ UNCHANGED <<scheduled, steps, activities, engine, sched, queue, eventsLost, overtaken>>

\* next_retry_at of a step that waits for its retry comes to lie in the past.
RetryDelayElapses(s) ==
    /\ steps[s].retry = "later"
    /\ steps' = [steps EXCEPT ![s].retry = "due"]
    /\ UNCHANGED <<workflows, scheduled, activities, tasks, grpc, engine, sched, queue, eventsLost,
                   overtaken, faults>>

-----------------------------------------------------------------------------
(* respond_activity_task_completed and respond_activity_task_failed: the   *)
(* attempt, the step, the event, the answer. A worker that gets no answer  *)
(* or an error sends the same report again.                                *)

HandlerEnds(t) ==
    /\ t.outcome = "none"
    /\ \E outcome \in {"completed", "failed"} :
         tasks' = (tasks \ {t}) \union {[t EXCEPT !.outcome = outcome]}
    /\ UNCHANGED <<tables, grpc, engine, sched, queue, eventsLost, overtaken, faults>>

RespondUpdateActivity(t) ==
    /\ grpc = Idle
    /\ t.outcome # "none"
    /\ activities' = [activities EXCEPT ![t.step] =
                        [@ EXCEPT ![t.n] = [attempt |-> activities[t.step][t.n].attempt,
                                            state |-> t.outcome]]]
    /\ grpc' = Report("updateStep", t)
    /\ UNCHANGED <<workflows, scheduled, steps, tasks, engine, sched, queue, eventsLost, overtaken, faults>>

\* The acknowledgement reaches the worker, or is lost and the report repeated.
Answer(t) ==
    \/ tasks' = tasks \ {t} /\ UNCHANGED faults
    \/ UNCHANGED tasks /\ Fault

CurrentAttempt(t) == activities[t.step][t.n].attempt + 1

ShouldRetry(t) == CurrentAttempt(t) < MaximumAttempts[t.step]

CompleteUpdateStep ==
    LET t == grpc.task IN
    /\ grpc.at = "updateStep" /\ t.outcome = "completed"
    /\ steps' = [steps EXCEPT ![t.step] =
                   [state |-> "completed", attempt |-> steps[t.step].attempt,
                    retry |-> "null"]]
    /\ grpc' = Report("send", t)
    /\ UNCHANGED <<workflows, scheduled, activities, tasks, engine, sched, queue, eventsLost,
                   overtaken, faults>>

\* A failure that is reported again after the step went to another worker, or
\* was settled by it, puts the step back all the same.
FailUpdateStep ==
    LET t == grpc.task
        row(state, retry) ==
            [state |-> state, attempt |-> CurrentAttempt(t), retry |-> retry]
    IN
    /\ grpc.at = "updateStep" /\ t.outcome = "failed"
    /\ overtaken' = (overtaken \/ steps[t.step].attempt > CurrentAttempt(t))
    /\ \/ /\ ShouldRetry(t)
          /\ steps' = [steps EXCEPT ![t.step] = row("pending", "later")]
          /\ grpc' = Idle
          /\ Answer(t)
       \/ /\ ~ShouldRetry(t)
          /\ steps' = [steps EXCEPT ![t.step] = row("failed", "null")]
          /\ grpc' = Report("send", t)
          /\ UNCHANGED <<tasks, faults>>
    /\ UNCHANGED <<workflows, scheduled, activities, engine, sched, queue, eventsLost>>

\* Faulty variant: the acknowledgement is given without the event being sent.
RespondWithoutSend ==
    /\ grpc.at = "send"
    /\ grpc' = Idle
    /\ Answer(grpc.task)
    /\ UNCHANGED <<tables, engine, sched, queue, eventsLost, overtaken>>

RespondSend ==
    /\ grpc.at = "send"
    /\ Notify(RunOf[grpc.task.step])
    /\ grpc' = Idle
    /\ Answer(grpc.task)
    /\ UNCHANGED <<tables, engine, sched, overtaken>>

-----------------------------------------------------------------------------
(* The engine's process_single_workflow, without the mutex.                *)

HasStep(w, state) == \E s \in StepsOf(w) : steps[s].state = state

Inserted(w) == {s \in StepsOf(w) : steps[s].state # "none"}

AllCompleted(w) == Inserted(w) # {} /\ \A s \in Inserted(w) : steps[s].state = "completed"

EngineBegin ==
    /\ engine = Idle
    /\ queue # <<>>
    /\ queue' = Tail(queue)
    /\ workflows' = [workflows EXCEPT ![Head(queue)] =
                       IF workflows[Head(queue)] = "pending" THEN "running" ELSE @]
    /\ engine' = Process("next", Head(queue), "none")
    /\ UNCHANGED <<scheduled, steps, activities, tasks, grpc, sched, eventsLost, overtaken, faults>>

EngineNext ==
    /\ engine.at = "next"
    /\ engine' = IF HasStep(engine.run, "pending")
                 THEN Idle ELSE Process("count", engine.run, "none")
    /\ UNCHANGED <<tables, tasks, grpc, sched, queue, eventsLost, overtaken, faults>>

\* Faulty variant: a run is complete when no step is left to hand out.
CountOfPending(w) == IF HasStep(w, "failed") THEN "failed" ELSE "completed"

Verdict(w) ==
    CASE HasStep(w, "failed") -> "failed"
      [] ~HasStep(w, "failed") /\ AllCompleted(w) -> "completed"
      [] OTHER -> "none"

EngineCount ==
    LET verdict == Verdict(engine.run) IN
    /\ engine.at = "count"
    /\ engine' = IF verdict = "none" THEN Idle ELSE Process("settle", engine.run, verdict)
    /\ UNCHANGED <<tables, tasks, grpc, sched, queue, eventsLost, overtaken, faults>>

EngineSettle ==
    /\ engine.at = "settle"
    /\ workflows' = [workflows EXCEPT ![engine.run] = engine.verdict]
    /\ engine' = Idle
    /\ UNCHANGED <<scheduled, steps, activities, tasks, grpc, sched, queue, eventsLost, overtaken, faults>>

-----------------------------------------------------------------------------
(* Faults.                                                                 *)

\* A statement of a handler fails: the caller gets an error.
HandlerError ==
    /\ grpc # Idle /\ grpc.at # "updateWorkflow"
    /\ Fault
    /\ grpc' = Idle
    /\ UNCHANGED <<tables, tasks, engine, sched, queue, eventsLost, overtaken>>

\* A statement of the engine fails: the error is logged, the event is gone.
EngineError ==
    /\ engine # Idle
    /\ Fault
    /\ engine' = Idle
    /\ eventsLost' = TRUE
    /\ UNCHANGED <<tables, tasks, grpc, sched, queue, overtaken>>

\* A statement of the scheduler fails: the run keeps the steps it has.
SchedulerError ==
    /\ sched # Idle
    /\ sched.index < Cardinality(StepsOf(sched.run))
    /\ Fault
    /\ sched' = Idle
    /\ UNCHANGED <<tables, tasks, grpc, engine, queue, eventsLost, overtaken>>

\* The server stops between any two statements and starts again: the tables
\* and the workers go on, everything in its memory is gone.
Restart ==
    /\ Fault
    /\ grpc' = Idle /\ engine' = Idle /\ sched' = Idle
    /\ queue' = <<>>
    /\ eventsLost' = (eventsLost \/ queue # <<>> \/ engine # Idle)
    /\ UNCHANGED <<tables, tasks, overtaken>>

-----------------------------------------------------------------------------

Client == \E w \in Workflows : StartWorkflowExecution(w) \/ CancelWorkflow(w)

Mutex ==
    \/ StartNextStep \/ PollInsertActivity \/ PollAnswer
    \/ CompleteUpdateStep \/ FailUpdateStep \/ RespondSend

Engine == EngineBegin \/ EngineNext \/ EngineCount \/ EngineSettle

SchedulerTask == ScheduleNextStep \/ ScheduleNotify

Worker(s) ==
    \/ PollStep(s)
    \/ \E t \in tasks : t.step = s /\ (HandlerEnds(t) \/ RespondUpdateActivity(t))

Faults == HandlerError \/ EngineError \/ SchedulerError \/ Restart

Next ==
    \/ Client
    \/ \E w \in Workflows : StartScheduleWorkflow(w)
    \/ Mutex \/ Engine \/ SchedulerTask
    \/ \E s \in Steps : Worker(s) \/ RetryDelayElapses(s)
    \/ Faults

Spec == Init /\ [][Next]_vars

\* Handlers, the engine and the scheduler go on with what they have begun, time
\* passes, and workers poll and repeat what was not acknowledged. The mutex is
\* free for ever once there is nothing left to poll or to report, so no strong
\* fairness is needed for those who wait for it.
FairSpec ==
    /\ Spec
    /\ WF_vars(Mutex) /\ WF_vars(Engine) /\ WF_vars(SchedulerTask)
    /\ \A s \in Steps : WF_vars(Worker(s)) /\ WF_vars(RetryDelayElapses(s))

-----------------------------------------------------------------------------
(* Safety. A failure that is repeated after its step went to another worker *)
(* voids these properties, which is what overtaken is for; nothing else     *)
(* does, wherever statements fail, answers get lost or the server stops.    *)

\* Two workers never execute the same step at once, and what a worker executes
\* is the attempt that the step's row says is running: also after a poll that
\* was broken off between its three updates, and while completions are repeated.
OneExecution ==
    ~overtaken =>
      \A t \in tasks :
        t.outcome = "none" =>
          /\ steps[t.step].state = "running"
          /\ t.n = Len(activities[t.step])
          /\ steps[t.step].attempt = activities[t.step][t.n].attempt

AllSettled(w) ==
    Inserted(w) # {} /\ \A s \in Inserted(w) : steps[s].state \in {"completed", "failed"}

\* A run whose steps are all settled is completed or failed, or somebody still has
\* to act on it: the event is queued, the engine is at it, or a worker will repeat
\* the report whose handler did not get as far as sending the event.
StatementWakeups ==
    ~eventsLost /\ ~overtaken =>
      \A w \in Workflows : AllSettled(w) =>
        \/ workflows[w] \in {"completed", "failed"}
        \/ \E i \in 1..Len(queue) : queue[i] = w
        \/ engine # Idle /\ engine.run = w
        \/ \E t \in tasks : RunOf[t.step] = w /\ t.outcome # "none"

-----------------------------------------------------------------------------
(* Refinement, up to the first overtaken report.                           *)

Phase(s) ==
    CASE steps[s].state = "none" -> "absent"
      [] steps[s].state = "pending" -> "idle"
      [] steps[s].state = "running" -> "leased"
      [] steps[s].state = "completed" -> "done"
      [] steps[s].state = "failed" -> "dead"

\* The poll of s has updated its row and not (or never) inserted the attempt.
Unrecorded(s) ==
    LET n == Len(activities[s]) IN
    /\ steps[s].state = "running"
    /\ n = 0 \/ activities[s][n].attempt # steps[s].attempt

Lease == INSTANCE StepLease WITH
    phase <- [s \in Steps |-> Phase(s)],
    leases <- [s \in Steps |-> Len(activities[s]) + IF Unrecorded(s) THEN 1 ELSE 0]

\* Statement by statement, the tables implement the lease protocol: one holder
\* at a time, no more leases than the policy, settled is final, whether or not a
\* poll or a report got to its end.
LeaseStatementwise ==
    Lease!LeaseInit /\ [][overtaken' \/ Lease!LeaseNext]_(Lease!leaseVars)

\* The runs of the scheduler get their steps without the mutex and are opened again
\* when they were completed on the steps they had: they count as open throughout.
LifeOf(w) ==
    CASE workflows[w] = "none" -> "absent"
      [] workflows[w] # "none" /\ w \in scheduled -> "open"
      [] workflows[w] \in {"pending", "running"} /\ w \notin scheduled -> "open"
      [] workflows[w] \in {"failed", "cancelled"} /\ w \notin scheduled -> "stopped"
      [] workflows[w] = "completed" /\ w \notin scheduled -> "completed"

Lifecycle == INSTANCE RunLifecycle WITH
    Runs <- Workflows,
    life <- [w \in Workflows |-> LifeOf(w)]

\* A run that a client started and the engine completed is completed for good,
\* although the engine decides on counts that polls and reports change before it
\* writes the run, and a poll writes the run last.
LifecycleStatementwise ==
    Lifecycle!LifeInit /\ [][overtaken' \/ Lifecycle!LifeNext]_workflows

-----------------------------------------------------------------------------
(* Liveness.                                                               *)

\* A step whose poll was broken off or whose task never reached a worker.
Stranded(s) ==
    /\ steps[s].state = "running"
    /\ \A t \in tasks : t.step # s
    /\ ~(grpc.at \in {"insertActivity", "updateWorkflow"} /\ grpc.step = s)

\* What this server never recovers from: a lost event, an overtaken report, a
\* stranded step, a run whose steps were not inserted.
BeyondRecovery(w) ==
    \/ eventsLost \/ overtaken
    \/ \E s \in StepsOf(w) : Stranded(s)
    \/ Inserted(w) = {} /\ grpc = Idle /\ sched = Idle

\* Every run that was started ends with all its steps settled, unless one of these
\* has happened to it: also a run whose first steps were executed and which the
\* engine completed while the scheduler was still inserting the others.
StartedRunsFinish ==
    \A w \in Workflows :
        workflows[w] # "none" ~>
            []((workflows[w] \in Terminal /\ AllSettled(w)) \/ BeyondRecovery(w))
=============================================================================
