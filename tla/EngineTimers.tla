----------------------------- MODULE EngineTimers -----------------------------
(***************************************************************************)
(* The server of WorkflowExecution with the engine's timers: after it has  *)
(* processed a run, the engine sets a heartbeat timer for every running    *)
(* attempt of it, and the handler of the timer's event fails the attempt.  *)
(* Whether a timer is ever set depends on the parse of a stored timestamp, *)
(* which WorkflowExecution takes as it is (it fails) and this module as a  *)
(* parameter.                                                              *)
(***************************************************************************)
EXTENDS WorkflowExecution

CONSTANTS
    Monitored,    \* steps with a heartbeat_timeout_secs
    StampsParse   \* DateTime::parse_from_str accepts "%Y-%m-%d %H:%M:%S"

VARIABLES
    heartbeats,   \* <<s, n>>: a timer for the n-th attempt of s is set
    retries       \* s: a timer for the retry of s is set

timerVars == <<heartbeats, retries>>
allVars == <<vars, timerVars>>

TimersInit == Init /\ heartbeats = {} /\ retries = {}

HeartbeatTimeout(t) == [type |-> "HeartbeatTimeout", task |-> t]
RetryDue(s) == [type |-> "RetryDue", step |-> s]

-----------------------------------------------------------------------------
(* Setting timers.                                                         *)

Attempts(s) == {s} \X (1..Len(activities[s]))

\* schedule_heartbeat_timers_for_workflow. (Its sibling for retries looks for
\* steps in the state 'retried', which no code writes.)
HeartbeatTimers(w) ==
    IF StampsParse
    THEN {t \in UNION {Attempts(s) : s \in StepsOf(w) \intersect Monitored} :
            activities[t[1]][t[2]].state = "running"}
    ELSE {}

\* The runs an event makes the engine process.
Processed(e) ==
    IF e.type = "ScheduleChange"
    THEN {w \in Workflows : workflows[w].state \in {"pending", "running"}}
    ELSE {e.run}

EngineWithTimers ==
    /\ Engine
    /\ heartbeats' = heartbeats \union UNION {HeartbeatTimers(w) : w \in Processed(Head(queue))}
    /\ UNCHANGED retries

-----------------------------------------------------------------------------
(* Timers that fire, and the handlers of their events.                     *)

HeartbeatTimerFires(t) ==
    /\ t \in heartbeats
    /\ heartbeats' = heartbeats \ {t}
    /\ Notify(HeartbeatTimeout(t))
    /\ UNCHANGED <<workflows, steps, activities, tasks, restarts, edits, retries>>

RetryTimerFires(s) ==
    /\ s \in retries
    /\ retries' = retries \ {s}
    /\ Notify(RetryDue(s))
    /\ UNCHANGED <<workflows, steps, activities, tasks, restarts, edits, heartbeats>>

\* The run of a step that has just failed for good, as process_single_workflow
\* leaves it.
AfterFailure(s) ==
    IF \E r \in StepsOf(RunOf[s]) \ {s} : steps[r].state = "pending"
    THEN Begun(RunOf[s])
    ELSE Settled(RunOf[s], "failed")

TimeOut(s, n) ==
    LET attempt == activities[s][n].attempt
        row(state, retry) == [state |-> state, attempt |-> attempt, retry |-> retry]
    IN
    /\ activities[s][n].state = "running"
    /\ SetActivity(s, n, "failed")
    /\ \/ /\ attempt < MaximumAttempts[s]
          /\ steps' = [steps EXCEPT ![s] = row("pending", "later")]
          /\ retries' = retries \union {s}
          /\ UNCHANGED workflows
       \/ /\ attempt >= MaximumAttempts[s]
          /\ steps' = [steps EXCEPT ![s] = row("failed", "null")]
          /\ workflows' = [workflows EXCEPT ![RunOf[s]] = AfterFailure(s)]
          /\ UNCHANGED retries

HandleHeartbeatTimeout ==
    /\ queue # <<>> /\ Head(queue).type = "HeartbeatTimeout"
    /\ queue' = Tail(queue)
    /\ LET t == Head(queue).task IN
         \/ TimeOut(t[1], t[2])
         \/ /\ activities[t[1]][t[2]].state # "running"
            /\ UNCHANGED <<workflows, steps, activities, retries>>
    /\ UNCHANGED <<tasks, eventsLost, restarts, edits, heartbeats>>

\* handle_retry_due does nothing to a step that is not in the state 'retried'.
HandleRetryDue ==
    /\ Receive("RetryDue")
    /\ UNCHANGED <<workflows, timerVars>>

-----------------------------------------------------------------------------

Timers ==
    \/ \E t \in heartbeats : HeartbeatTimerFires(t)
    \/ \E s \in retries : RetryTimerFires(s)

EngineLoop == EngineWithTimers \/ HandleHeartbeatTimeout \/ HandleRetryDue

\* A timer is a task of the server process and ends with it.
RestartWithTimers == Restart /\ heartbeats' = {} /\ retries' = {}

Others ==
    /\ \/ Client
       \/ \E s \in Steps : Poll(s) \/ RetryDelayElapses(s)
       \/ \E t \in tasks : Report(t[1], t[2]) \/ LoseTask(t[1], t[2])
       \/ EditSchedule
    /\ UNCHANGED timerVars

TimersNext == EngineLoop \/ Timers \/ RestartWithTimers \/ Others

TimersSpec == TimersInit /\ [][TimersNext]_allVars

\* The fairness of WorkflowExecution, and timers fire.
FairTimersSpec ==
    /\ TimersSpec
    /\ WF_allVars(EngineLoop) /\ WF_allVars(Timers)
    /\ \A s \in Steps :
         /\ WF_allVars(RetryDelayElapses(s) /\ UNCHANGED timerVars)
         /\ WF_allVars(Poll(s) /\ UNCHANGED timerVars)
         /\ WF_allVars((\E t \in tasks : t[1] = s /\ Report(s, t[2])) /\ UNCHANGED timerVars)

-----------------------------------------------------------------------------

\* README: "Heartbeat Monitoring - Detect and fail long-running or stalled
\* activities automatically". A step with a heartbeat timeout does not stay with
\* a worker that is gone.
StalledStepsEnd == \A s \in Monitored : Stalled(s) ~> ~Stalled(s)
=============================================================================
