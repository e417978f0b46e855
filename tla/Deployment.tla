------------------------------ MODULE Deployment ------------------------------
(***************************************************************************)
(* The server of WorkflowExecution together with Python workers            *)
(* (python/khronos_client/worker.py) in place of its anonymous ones: each  *)
(* worker is one loop that polls for the activities it was given, executes *)
(* what it gets, reports once and sleeps when there is nothing to do.      *)
(***************************************************************************)
EXTENDS WorkflowExecution

CONSTANTS
    Workers,     \* KhronosWorker instances
    ActivityOf,  \* ActivityOf[s]: activity_name of step s
    Knows        \* Knows[k]: keys of the activities of worker k

ASSUME DeploymentAssumption ==
    /\ "khronos" \in Apis
    /\ DOMAIN ActivityOf = Steps
    /\ DOMAIN Knows = Workers

VARIABLES
    worker,    \* worker[k]: position of worker k, its task and the outcome of it
    stopping   \* workers whose _running has been reset

allVars == <<vars, worker, stopping>>

At(place) == [at |-> place]
Busy(place, t) == [at |-> place, task |-> t]
Reporting(t, outcome) == [at |-> "report", task |-> t, outcome |-> outcome]

\* What a handler leaves to report: a result, a failure (the handler or json.dumps
\* raised) or a result whose JSON the server does not parse, such as NaN.
Outcomes == {"result", "failure", "invalid"}

HasTask(k) == worker[k].at \in {"reply", "execute", "report"}

DeploymentTypeOK ==
    /\ TypeOK
    /\ worker \in [Workers ->
           {At("poll"), At("sleep"), At("stopped")}
             \union {Busy(place, t) : place \in {"reply", "execute"}, t \in tasks}
             \union {Reporting(t, outcome) : t \in tasks, outcome \in Outcomes}]
    /\ stopping \subseteq Workers

DeploymentInit ==
    /\ Init
    /\ worker = [k \in Workers |-> At("poll")]
    /\ stopping = {}

Goes(k, place) == worker' = [worker EXCEPT ![k] = place]

Alone == UNCHANGED <<vars, stopping>>

-----------------------------------------------------------------------------
(* _poll. The server picks among the ready steps with a name in the list.  *)

Matching(k) == {s \in Steps : Ready(s) /\ ActivityOf[s] \in Knows[k]}

PollTask(k) ==
    /\ worker[k] = At("poll") /\ k \notin stopping
    /\ \E s \in Matching(k) :
         /\ PollActivity(s)
         /\ Goes(k, Busy("reply", <<s, Len(activities'[s])>>))
    /\ UNCHANGED stopping

PollNothing(k) ==
    /\ worker[k] = At("poll") /\ k \notin stopping
    /\ Matching(k) = {}
    /\ Goes(k, At("sleep"))
    /\ Alone

\* The poll does not reach the server, or the server fails before it writes: the
\* exception is logged and taken for "no task".
PollFails(k) ==
    /\ worker[k] = At("poll") /\ k \notin stopping
    /\ Goes(k, At("sleep"))
    /\ Alone

Wake(k) ==
    /\ worker[k] = At("sleep")
    /\ Goes(k, At("poll"))
    /\ Alone

ReceiveTask(k) ==
    /\ worker[k].at = "reply"
    /\ Goes(k, Busy("execute", worker[k].task))
    /\ Alone

\* The answer to the poll is lost: the loop sleeps and knows of no task.
ReplyLost(k) ==
    /\ worker[k].at = "reply"
    /\ LoseTask(worker[k].task[1], worker[k].task[2])
    /\ Goes(k, At("sleep"))
    /\ UNCHANGED stopping

-----------------------------------------------------------------------------
(* _execute, _report_result and _report_failure. Whatever becomes of the   *)
(* report, the loop goes on.                                               *)

\* Invalid results count against the bound on lost tasks.
Execute(k) ==
    /\ worker[k].at = "execute"
    /\ \E outcome \in Outcomes :
         /\ outcome = "invalid" => Cardinality({s \in Steps : Stalled(s)}) < MaxLostTasks
         /\ Goes(k, Reporting(worker[k].task, outcome))
    /\ Alone

ReportResult(k) ==
    /\ worker[k].at = "report" /\ worker[k].outcome = "result"
    /\ ReportActivityResult(worker[k].task[1], worker[k].task[2])
    /\ Goes(k, At("poll"))
    /\ UNCHANGED stopping

\* Faulty variant: the worker tries again by itself after it reported the failure.
ReportFailureTwice(k) ==
    /\ worker[k].at = "report" /\ worker[k].outcome = "failure"
    /\ ReportActivityFailure(worker[k].task[1], worker[k].task[2])
    /\ Goes(k, Busy("execute", worker[k].task))
    /\ UNCHANGED stopping

ReportFailure(k) ==
    /\ worker[k].at = "report" /\ worker[k].outcome = "failure"
    /\ ReportActivityFailure(worker[k].task[1], worker[k].task[2])
    /\ Goes(k, At("poll"))
    /\ UNCHANGED stopping

\* The server rejects the result before it writes anything: the error is logged and
\* nothing is reported instead.
ReportRejected(k) ==
    /\ worker[k].at = "report" /\ worker[k].outcome = "invalid"
    /\ tasks' = tasks \ {worker[k].task}
    /\ Goes(k, At("poll"))
    /\ UNCHANGED <<workflows, steps, activities, queue, eventsLost, restarts, edits, stopping>>

\* The report is lost on its way, which is logged too.
ReportLost(k) ==
    /\ worker[k].at = "report"
    /\ LoseTask(worker[k].task[1], worker[k].task[2])
    /\ Goes(k, At("poll"))
    /\ UNCHANGED stopping

-----------------------------------------------------------------------------
(* stop() ends the loop after the current iteration, cancellation at once. *)

Stop(k) ==
    /\ worker[k] # At("stopped")
    /\ stopping' = stopping \union {k}
    /\ UNCHANGED <<vars, worker>>

LoopEnds(k) ==
    /\ k \in stopping
    /\ worker[k] = At("poll")
    /\ Goes(k, At("stopped"))
    /\ Alone

Cancelled(k) ==
    /\ HasTask(k)
    /\ LoseTask(worker[k].task[1], worker[k].task[2])
    /\ Goes(k, At("stopped"))
    /\ stopping' = stopping \union {k}

-----------------------------------------------------------------------------

Loop(k) ==
    \/ PollTask(k) \/ PollNothing(k) \/ Wake(k) \/ ReceiveTask(k)
    \/ Execute(k) \/ ReportResult(k) \/ ReportFailure(k) \/ ReportRejected(k) \/ LoopEnds(k)

Trouble(k) == PollFails(k) \/ ReplyLost(k) \/ ReportLost(k) \/ Cancelled(k)

Server ==
    /\ \/ Client \/ Engine \/ EditSchedule \/ Restart
       \/ \E s \in Steps : RetryDelayElapses(s)
    /\ UNCHANGED <<worker, stopping>>

DeploymentNext == Server \/ \E k \in Workers : Loop(k) \/ Trouble(k) \/ Stop(k)

DeploymentSpec == DeploymentInit /\ [][DeploymentNext]_allVars

\* As in WorkflowExecution, except that polls and reports happen because each
\* worker's loop runs: nothing is assumed of a step. Polls may fail any number of
\* times, but not for ever: a worker that keeps polling gets through (SF).
FairDeploymentSpec ==
    /\ DeploymentSpec
    /\ WF_allVars(Engine /\ UNCHANGED <<worker, stopping>>)
    /\ \A s \in Steps : WF_allVars(RetryDelayElapses(s) /\ UNCHANGED <<worker, stopping>>)
    /\ \A k \in Workers : WF_allVars(Loop(k)) /\ SF_allVars(PollTask(k))

-----------------------------------------------------------------------------
(* Properties.                                                             *)

\* Two workers never have the same step in hand, and the server and the workers
\* agree on who has what: every attempt the server counts on is with a worker.
OneWorkerPerStep ==
    /\ \A k, l \in Workers :
         HasTask(k) /\ HasTask(l) /\ worker[k].task[1] = worker[l].task[1] => k = l
    /\ tasks = {worker[k].task : k \in {l \in Workers : HasTask(l)}}

\* Some worker that knows s goes on polling.
Served(s) ==
    \E k \in Workers \ stopping : ActivityOf[s] \in Knows[k] /\ worker[k] # At("stopped")

\* Every step of a started run is eventually completed or out of retries, unless
\* its attempt was lost or nobody is left to poll for it. A worker that is busy or
\* asleep, or polls for other steps first, does not starve it.
EveryStepServed ==
    \A s \in Steps :
        steps[s].state # "none" ~>
            (steps[s].state \in {"completed", "failed"} \/ Stalled(s) \/ ~Served(s))

\* A run whose steps have all completed is closed for good, unless an event was
\* lost: also when polls of its later steps, a cancellation or a schedule event
\* came in between.
CompletedRunsClose ==
    \A w \in Workflows :
        AllCompleted(w) ~> [](workflows[w].state \in Terminal \/ eventsLost)
=============================================================================
