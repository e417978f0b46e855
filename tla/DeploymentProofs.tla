--------------------------- MODULE DeploymentProofs ---------------------------
(***************************************************************************)
(* Theorems about Deployment, for every set of workers and whatever they   *)
(* know: no two Python workers have a step in hand, and everything proved  *)
(* of the server with anonymous workers holds of the server with these.    *)
(***************************************************************************)
EXTENDS Deployment, WorkflowExecutionProofs

\* Where a worker may be when T are the attempts the server counts on.
Places(T) ==
    {At("poll"), At("sleep"), At("stopped")}
      \union {Busy(place, t) : place \in {"reply", "execute"}, t \in T}
      \union {Reporting(t, outcome) : t \in T, outcome \in Outcomes}

Holds(p) == p.at \in {"reply", "execute", "report"}

WorkersOK == worker \in [Workers -> Places(tasks)] /\ stopping \subseteq Workers

DeploymentInvariant ==
    /\ Invariant
    /\ OutcomeJustified
    /\ NoLostWakeup
    /\ WorkersOK
    /\ OneWorkerPerStep

-----------------------------------------------------------------------------
(* The positions of a worker.                                              *)

LEMMA IdlePlaces ==
    ASSUME NEW T
    PROVE  \A place \in {"poll", "sleep", "stopped"} :
             At(place) \in Places(T) /\ ~Holds(At(place))
BY DEF Places, At, Holds

LEMMA BusyPlaces ==
    ASSUME NEW T, NEW t \in T
    PROVE  /\ \A place \in {"reply", "execute"} :
                /\ Busy(place, t) \in Places(T)
                /\ Holds(Busy(place, t)) /\ Busy(place, t).task = t
           /\ \A outcome \in Outcomes :
                /\ Reporting(t, outcome) \in Places(T)
                /\ Holds(Reporting(t, outcome)) /\ Reporting(t, outcome).task = t
BY DEF Places, Busy, Reporting, Holds

LEMMA HeldTask ==
    ASSUME NEW T, NEW p \in Places(T), Holds(p)
    PROVE  p.task \in T
BY DEF Places, At, Busy, Reporting, Holds

\* A worker may stay where it is as long as the server counts on its task.
LEMMA SamePlace ==
    ASSUME NEW T, NEW U, NEW p \in Places(T), Holds(p) => p.task \in U
    PROVE  p \in Places(U)
<1>1. CASE p \in {At("poll"), At("sleep"), At("stopped")}
  BY <1>1 DEF Places
<1>2. CASE \E place \in {"reply", "execute"} : \E t \in T : p = Busy(place, t)
  <2>1. PICK place \in {"reply", "execute"}, t \in T : p = Busy(place, t)
    BY <1>2
  <2>2. t \in U
    BY <2>1 DEF Busy, Holds
  <2> QED
    BY <2>1, <2>2, BusyPlaces
<1>3. CASE \E t \in T : \E outcome \in Outcomes : p = Reporting(t, outcome)
  <2>1. PICK t \in T, outcome \in Outcomes : p = Reporting(t, outcome)
    BY <1>3
  <2>2. t \in U
    BY <2>1 DEF Reporting, Holds
  <2> QED
    BY <2>1, <2>2, BusyPlaces
<1> QED
  BY <1>1, <1>2, <1>3 DEF Places

\* The task of a worker is one the server counts on.
LEMMA TaskInHand ==
    ASSUME DeploymentInvariant, NEW k \in Workers, HasTask(k)
    PROVE  /\ worker[k].task \in tasks
           /\ worker[k].task[1] \in Steps /\ worker[k].task[2] \in Nat
           /\ worker[k].task = <<worker[k].task[1], worker[k].task[2]>>
<1>1. worker[k] \in Places(tasks) /\ Holds(worker[k])
  BY DEF DeploymentInvariant, WorkersOK, HasTask, Holds
<1>2. worker[k].task \in tasks
  BY <1>1, HeldTask
<1>3. tasks \subseteq Steps \X Nat
  BY DEF DeploymentInvariant, Invariant, TablesOK
<1> QED
  BY <1>2, <1>3

-----------------------------------------------------------------------------
(* The three ways in which a worker's position changes.                    *)

\* It keeps the task it has, or its lack of one.
LEMMA MoveWorker ==
    ASSUME DeploymentInvariant, NEW k \in Workers, NEW p \in Places(tasks),
           tasks' = tasks, Goes(k, p), stopping' \subseteq Workers,
           Holds(p) <=> HasTask(k),
           Holds(p) => p.task = worker[k].task
    PROVE  WorkersOK' /\ OneWorkerPerStep'
<1>1. worker \in [Workers -> Places(tasks)]
  BY DEF DeploymentInvariant, WorkersOK
<1>2. WorkersOK'
  BY <1>1 DEF WorkersOK, Goes
<1>3. \A l \in Workers : /\ HasTask(l)' <=> HasTask(l)
                         /\ HasTask(l) => worker'[l].task = worker[l].task
  BY <1>1 DEF Goes, HasTask, Holds
<1>4. OneWorkerPerStep'
  BY <1>3 DEF DeploymentInvariant, OneWorkerPerStep
<1> QED
  BY <1>2, <1>4

\* It gets a task of a step that nobody has in hand.
LEMMA GiveTask ==
    ASSUME DeploymentInvariant, NEW k \in Workers, ~HasTask(k), NEW t,
           tasks' = tasks \union {t}, Goes(k, Busy("reply", t)), stopping' \subseteq Workers,
           \A u \in tasks : u[1] # t[1]
    PROVE  WorkersOK' /\ OneWorkerPerStep'
<1>1. worker \in [Workers -> Places(tasks)]
  BY DEF DeploymentInvariant, WorkersOK
<1>2. /\ Busy("reply", t) \in Places(tasks') /\ Busy("reply", t).task = t
      /\ Holds(Busy("reply", t))
  BY BusyPlaces
<1>3. \A l \in Workers : worker[l] \in Places(tasks')
  <2>1. \A l \in Workers : Holds(worker[l]) => worker[l].task \in tasks'
    BY <1>1, HeldTask
  <2> QED
    BY <1>1, <2>1, SamePlace
<1>4. WorkersOK'
  BY <1>1, <1>2, <1>3 DEF WorkersOK, Goes
<1>5. /\ \A l \in Workers \ {k} : worker'[l] = worker[l]
      /\ worker'[k] = Busy("reply", t)
  BY <1>1 DEF Goes
<1>6. /\ \A l \in Workers \ {k} : /\ HasTask(l)' <=> HasTask(l)
                                  /\ HasTask(l) => worker'[l].task = worker[l].task
                                  /\ HasTask(l) => worker[l].task \in tasks
      /\ HasTask(k)' /\ worker'[k].task = t
  <2>1. \A l \in Workers : HasTask(l) => worker[l].task \in tasks
    BY TaskInHand
  <2> QED
    BY <1>2, <1>5, <2>1 DEF HasTask, Holds
<1>7. OneWorkerPerStep'
  <2>1. ASSUME NEW l \in Workers, NEW m \in Workers, HasTask(l)', HasTask(m)',
               worker'[l].task[1] = worker'[m].task[1]
        PROVE  l = m
    BY <1>6, <2>1 DEF DeploymentInvariant, OneWorkerPerStep
  <2>2. tasks' = {worker'[l].task : l \in {m \in Workers : HasTask(m)'}}
    BY <1>6 DEF DeploymentInvariant, OneWorkerPerStep
  <2> QED
    BY <2>1, <2>2 DEF OneWorkerPerStep
<1> QED
  BY <1>4, <1>7

\* It is rid of its task, and so is the server.
LEMMA EndTask ==
    ASSUME DeploymentInvariant, NEW k \in Workers, HasTask(k),
           NEW place \in {"poll", "sleep", "stopped"},
           tasks' = tasks \ {worker[k].task}, Goes(k, At(place)), stopping' \subseteq Workers
    PROVE  WorkersOK' /\ OneWorkerPerStep'
<1>1. worker \in [Workers -> Places(tasks)]
  BY DEF DeploymentInvariant, WorkersOK
<1>2. At(place) \in Places(tasks') /\ ~Holds(At(place))
  BY IdlePlaces
<1>3. \A l \in Workers \ {k} : HasTask(l) =>
        worker[l].task \in tasks /\ worker[l].task # worker[k].task
  BY TaskInHand DEF DeploymentInvariant, OneWorkerPerStep
<1>4. \A l \in Workers \ {k} : worker[l] \in Places(tasks')
  <2>1. \A l \in Workers \ {k} : Holds(worker[l]) => worker[l].task \in tasks'
    BY <1>3 DEF HasTask, Holds
  <2> QED
    BY <1>1, <2>1, SamePlace
<1>5. WorkersOK'
  BY <1>1, <1>2, <1>4 DEF WorkersOK, Goes
<1>6. /\ \A l \in Workers \ {k} : /\ HasTask(l)' <=> HasTask(l)
                                  /\ worker'[l] = worker[l]
      /\ ~HasTask(k)'
  <2>1. /\ \A l \in Workers \ {k} : worker'[l] = worker[l]
        /\ worker'[k] = At(place)
    BY <1>1 DEF Goes
  <2> QED
    BY <1>2, <2>1 DEF HasTask, Holds
<1>7. OneWorkerPerStep'
  <2>1. ASSUME NEW l \in Workers, NEW m \in Workers, HasTask(l)', HasTask(m)',
               worker'[l].task[1] = worker'[m].task[1]
        PROVE  l = m
    BY <1>6, <2>1 DEF DeploymentInvariant, OneWorkerPerStep
  <2>2. tasks' = {worker'[l].task : l \in {m \in Workers : HasTask(m)'}}
    BY <1>3, <1>6 DEF DeploymentInvariant, OneWorkerPerStep
  <2> QED
    BY <2>1, <2>2 DEF OneWorkerPerStep
<1> QED
  BY <1>5, <1>7

-----------------------------------------------------------------------------
(* The server's side. What the workers do to the tables is a step of       *)
(* WorkflowExecution, except that a rejected result ends a task without    *)
(* regard to the bound on lost ones.                                       *)

Forgets(t) ==
    /\ tasks' = tasks \ {t}
    /\ UNCHANGED <<workflows, steps, activities, queue, eventsLost, restarts, edits>>

LEMMA ForgetStep ==
    ASSUME DeploymentInvariant, NEW t, Forgets(t)
    PROVE  /\ Invariant' /\ OutcomeJustified' /\ NoLostWakeup'
           /\ Lease!LeaseNext \/ UNCHANGED Lease!leaseVars
           /\ UNCHANGED [w \in Workflows |-> LifeOf(w)]
<1> USE DEF Forgets
<1>1. TablesOK'
  BY DEF DeploymentInvariant, Invariant, TablesOK, TasksAreCurrent, RowsInserted
<1>2. ChannelOK' /\ CountersOK'
  BY DEF DeploymentInvariant, Invariant, ChannelOK, CountersOK
<1>3. OutcomeJustified'
  BY DEF DeploymentInvariant, OutcomeJustified, AllCompleted, HasStep
<1>4. NoLostWakeup'
  BY DEF DeploymentInvariant, NoLostWakeup, AllCompleted, AllSettled, Queued
<1>5. UNCHANGED Lease!leaseVars
  BY DEF Lease!leaseVars, Phase
<1>6. UNCHANGED [w \in Workflows |-> LifeOf(w)]
  BY DEF LifeOf
<1> QED
  BY <1>1, <1>2, <1>3, <1>4, <1>5, <1>6 DEF Invariant

\* What the server sees of a step of the deployment.
Seen == [Next]_vars \/ \E t \in tasks : Forgets(t)

-----------------------------------------------------------------------------
(* One lemma per group of actions.                                         *)

LEMMA ServerKeepsTasks ==
    ASSUME Server
    PROVE  tasks' = tasks /\ Next /\ UNCHANGED <<worker, stopping>>
<1>1. Next /\ UNCHANGED <<worker, stopping>>
  BY DEF Server, Next
<1>2. tasks' = tasks
  <2>1. CASE Client
    BY <2>1 DEF Client, StartWorkflow, StartWorkflowExecution, CancelWorkflow
  <2>2. CASE Engine
    BY <2>2 DEF Engine, HandleWorkflowCreated, HandleStepCompleted, HandleScheduleChange, Receive
  <2>3. CASE EditSchedule \/ Restart
    BY <2>3 DEF EditSchedule, Restart
  <2>4. CASE \E s \in Steps : RetryDelayElapses(s)
    BY <2>4 DEF RetryDelayElapses
  <2> QED
    BY <2>1, <2>2, <2>3, <2>4 DEF Server
<1> QED
  BY <1>1, <1>2

LEMMA StillStep ==
    ASSUME DeploymentInvariant, tasks' = tasks, worker' = worker, stopping' \subseteq Workers
    PROVE  WorkersOK' /\ OneWorkerPerStep'
<1>1. WorkersOK'
  BY DEF DeploymentInvariant, WorkersOK
<1>2. \A l \in Workers : HasTask(l)' <=> HasTask(l)
  BY DEF HasTask
<1>3. OneWorkerPerStep'
  BY <1>2 DEF DeploymentInvariant, OneWorkerPerStep
<1> QED
  BY <1>1, <1>3

\* A poll is answered with a pending step, whose attempts are all over.
LEMMA PollTaskStep ==
    ASSUME DeploymentInvariant, NEW k \in Workers, PollTask(k)
    PROVE  Seen /\ WorkersOK' /\ OneWorkerPerStep'
<1>1. PICK s \in Steps : /\ PollActivity(s)
                         /\ Goes(k, Busy("reply", <<s, Len(activities'[s])>>))
  BY DEF PollTask, Matching
<1>2. Dispatch(s)
  BY <1>1 DEF PollActivity
<1>3. Seen
  BY <1>1 DEF Seen, Next, Poll
<1> DEFINE t == <<s, Len(activities[s]) + 1>>
<1>4. tasks' = tasks \union {t} /\ Len(activities'[s]) = Len(activities[s]) + 1
  <2>1. activities \in [Steps -> Seq(ActivityRow)]
    BY DEF DeploymentInvariant, Invariant, TablesOK
  <2>2. activities'[s] = Append(activities[s], [attempt |-> steps[s].attempt + 1, state |-> "running"])
    BY <1>2, <2>1 DEF Dispatch
  <2>3. Len(activities'[s]) = Len(activities[s]) + 1
    BY <2>1, <2>2
  <2> QED
    BY <1>2, <2>3 DEF Dispatch
<1>5. \A u \in tasks : u[1] # t[1]
  BY <1>2 DEF Dispatch, Ready, DeploymentInvariant, Invariant, TablesOK, TasksAreCurrent
<1>6. ~HasTask(k)
  BY DEF PollTask, HasTask, At
<1>7. stopping' \subseteq Workers
  BY DEF PollTask, DeploymentInvariant, WorkersOK
<1>8. Goes(k, Busy("reply", t))
  BY <1>1, <1>4
<1> HIDE DEF t
<1> QED
  BY <1>3, <1>4, <1>5, <1>6, <1>7, <1>8, GiveTask

\* Steps of the loop that the server does not notice.
LEMMA LocalStep ==
    ASSUME DeploymentInvariant, NEW k \in Workers,
           PollNothing(k) \/ PollFails(k) \/ Wake(k) \/ ReceiveTask(k) \/ Execute(k) \/ LoopEnds(k)
    PROVE  Seen /\ WorkersOK' /\ OneWorkerPerStep'
<1>1. UNCHANGED <<vars, stopping>>
  BY DEF PollNothing, PollFails, Wake, ReceiveTask, Execute, LoopEnds, Alone
<1>2. Seen /\ tasks' = tasks /\ stopping' \subseteq Workers
  BY <1>1 DEF Seen, vars, DeploymentInvariant, WorkersOK
<1>3. CASE PollNothing(k) \/ PollFails(k) \/ Wake(k) \/ LoopEnds(k)
  <2>1. PICK place \in {"poll", "sleep", "stopped"} : Goes(k, At(place))
    BY <1>3 DEF PollNothing, PollFails, Wake, LoopEnds
  <2>2. ~HasTask(k)
    BY <1>3 DEF PollNothing, PollFails, Wake, LoopEnds, HasTask, At
  <2>3. At(place) \in Places(tasks) /\ ~Holds(At(place))
    BY IdlePlaces
  <2> QED
    BY <1>2, <2>1, <2>2, <2>3, MoveWorker
<1>4. CASE ReceiveTask(k)
  <2> DEFINE t == worker[k].task
  <2>1. HasTask(k) /\ Goes(k, Busy("execute", t))
    BY <1>4 DEF ReceiveTask, HasTask
  <2>2. t \in tasks
    BY <2>1, TaskInHand
  <2>3. /\ Busy("execute", t) \in Places(tasks)
        /\ Holds(Busy("execute", t)) /\ Busy("execute", t).task = t
    BY <2>2, BusyPlaces
  <2> QED
    BY <1>2, <2>1, <2>3, MoveWorker
<1>5. CASE Execute(k)
  <2> DEFINE t == worker[k].task
  <2>1. HasTask(k)
    BY <1>5 DEF Execute, HasTask
  <2>2. PICK outcome \in Outcomes : Goes(k, Reporting(t, outcome))
    BY <1>5 DEF Execute
  <2>3. t \in tasks
    BY <2>1, TaskInHand
  <2>4. /\ Reporting(t, outcome) \in Places(tasks)
        /\ Holds(Reporting(t, outcome)) /\ Reporting(t, outcome).task = t
    BY <2>3, BusyPlaces
  <2> QED
    BY <1>2, <2>1, <2>2, <2>4, MoveWorker
<1> QED
  BY <1>2, <1>3, <1>4, <1>5

\* Reports and losses end the task on both sides at once.
LEMMA TaskEndsStep ==
    ASSUME DeploymentInvariant, NEW k \in Workers,
           \/ ReportResult(k) \/ ReportFailure(k) \/ ReportRejected(k)
           \/ ReplyLost(k) \/ ReportLost(k) \/ Cancelled(k)
    PROVE  Seen /\ WorkersOK' /\ OneWorkerPerStep'
<1> DEFINE t == worker[k].task
<1>1. HasTask(k)
  BY DEF ReportResult, ReportFailure, ReportRejected, ReplyLost, ReportLost, Cancelled, HasTask
<1>2. t \in tasks /\ t[1] \in Steps /\ t[2] \in Nat /\ t = <<t[1], t[2]>>
  BY <1>1, TaskInHand
<1>3. \E place \in {"poll", "sleep", "stopped"} : Goes(k, At(place))
  BY DEF ReportResult, ReportFailure, ReportRejected, ReplyLost, ReportLost, Cancelled
<1>4. stopping' \subseteq Workers
  BY DEF ReportResult, ReportFailure, ReportRejected, ReplyLost, ReportLost, Cancelled,
     DeploymentInvariant, WorkersOK
<1>5. CASE ReportRejected(k)
  <2>1. Forgets(t)
    BY <1>5 DEF ReportRejected, Forgets
  <2> QED
    BY <1>1, <1>2, <1>3, <1>4, <2>1, EndTask DEF Seen, Forgets
<1>6. CASE \/ ReportResult(k) \/ ReportFailure(k)
           \/ ReplyLost(k) \/ ReportLost(k) \/ Cancelled(k)
  <2>1. Report(t[1], t[2]) \/ LoseTask(t[1], t[2])
    BY <1>6 DEF ReportResult, ReportFailure, ReplyLost, ReportLost, Cancelled, Report
  <2>2. Next
    BY <1>2, <2>1 DEF Next
  <2>3. tasks' = tasks \ {t}
    BY <1>2, <2>1 DEF Report, LoseTask, ReportActivityResult, RespondActivityTaskCompleted,
       ReportActivityFailure, RespondActivityTaskFailed, CompleteAttempt, FailAttempt
  <2> QED
    BY <1>1, <1>3, <1>4, <2>2, <2>3, EndTask DEF Seen
<1> QED
  BY <1>5, <1>6

LEMMA DeploymentStep ==
    ASSUME DeploymentInvariant, [DeploymentNext]_allVars
    PROVE  Seen /\ WorkersOK' /\ OneWorkerPerStep'
<1>1. CASE Server
  <2>1. stopping' \subseteq Workers
    BY <1>1, ServerKeepsTasks DEF DeploymentInvariant, WorkersOK
  <2> QED
    BY <1>1, <2>1, ServerKeepsTasks, StillStep DEF Seen
<1>2. ASSUME NEW k \in Workers, Loop(k) \/ Trouble(k)
      PROVE  Seen /\ WorkersOK' /\ OneWorkerPerStep'
  BY <1>2, PollTaskStep, LocalStep, TaskEndsStep DEF Loop, Trouble
<1>3. ASSUME NEW k \in Workers, Stop(k)
      PROVE  Seen /\ WorkersOK' /\ OneWorkerPerStep'
  <2>1. UNCHANGED <<vars, worker>> /\ tasks' = tasks /\ stopping' \subseteq Workers
    BY <1>3 DEF Stop, vars, DeploymentInvariant, WorkersOK
  <2> QED
    BY <2>1, StillStep DEF Seen
<1>4. CASE UNCHANGED allVars
  <2>1. UNCHANGED <<vars, worker>> /\ tasks' = tasks /\ stopping' \subseteq Workers
    BY <1>4 DEF allVars, vars, DeploymentInvariant, WorkersOK
  <2> QED
    BY <2>1, StillStep DEF Seen
<1> QED
  BY <1>1, <1>2, <1>3, <1>4 DEF DeploymentNext

-----------------------------------------------------------------------------
(* The theorems.                                                           *)

LEMMA DeploymentInitInvariant == DeploymentInit => DeploymentInvariant
<1> SUFFICES ASSUME DeploymentInit
             PROVE  DeploymentInvariant
  OBVIOUS
<1>1. Invariant
  BY InitInvariant DEF DeploymentInit
<1>2. OutcomeJustified
  BY DEF DeploymentInit, Init, OutcomeJustified
<1>3. NoLostWakeup
  BY DEF DeploymentInit, Init, NoLostWakeup, AllCompleted, AllSettled, StepsOf
<1>4. At("poll") \in Places(tasks) /\ ~Holds(At("poll"))
  BY IdlePlaces
<1>5. WorkersOK
  BY <1>4 DEF DeploymentInit, WorkersOK
<1>6. \A k \in Workers : ~HasTask(k)
  BY <1>4 DEF DeploymentInit, HasTask, Holds
<1>7. OneWorkerPerStep
  BY <1>6 DEF DeploymentInit, Init, OneWorkerPerStep
<1> QED
  BY <1>1, <1>2, <1>3, <1>5, <1>7 DEF DeploymentInvariant

LEMMA DeploymentNextInvariant ==
    DeploymentInvariant /\ [DeploymentNext]_allVars => DeploymentInvariant'
<1> SUFFICES ASSUME DeploymentInvariant, [DeploymentNext]_allVars
             PROVE  DeploymentInvariant'
  OBVIOUS
<1>1. Seen /\ WorkersOK' /\ OneWorkerPerStep'
  BY DeploymentStep
<1>2. CASE [Next]_vars
  <2>1. Invariant'
    BY <1>2, NextInvariant DEF DeploymentInvariant
  <2>2. OutcomeJustified'
    BY <1>2, OutcomeStep DEF DeploymentInvariant, Invariant
  <2>3. NoLostWakeup'
    BY <1>2, WakeupStep DEF DeploymentInvariant, Invariant
  <2> QED
    BY <1>1, <2>1, <2>2, <2>3 DEF DeploymentInvariant
<1>3. CASE \E t \in tasks : Forgets(t)
  <2>1. Invariant' /\ OutcomeJustified' /\ NoLostWakeup'
    BY <1>3, ForgetStep
  <2> QED
    BY <1>1, <2>1 DEF DeploymentInvariant
<1> QED
  BY <1>1, <1>2, <1>3 DEF Seen

LEMMA DeploymentInductive == DeploymentSpec => []DeploymentInvariant
BY DeploymentInitInvariant, DeploymentNextInvariant, PTL DEF DeploymentSpec

\* A worker is polling, asleep, stopped, or has a task that the server counts on:
\* the loop of worker.py never executes or reports a task that is over.
THEOREM DeploymentTyped == DeploymentSpec => []DeploymentTypeOK
<1>1. DeploymentInvariant => DeploymentTypeOK
  BY TablesImplyLease
  DEF DeploymentInvariant, Invariant, WorkersOK, Places, DeploymentTypeOK
<1> QED
  BY DeploymentInductive, <1>1, PTL

\* However many workers poll for the same activities, a step is in the hands of
\* one at most, and the attempts the server counts on are exactly those the
\* workers have in hand (_poll to _report_result and _report_failure).
THEOREM StepsNotShared == DeploymentSpec => []OneWorkerPerStep
<1>1. DeploymentInvariant => OneWorkerPerStep
  BY DEF DeploymentInvariant
<1> QED
  BY DeploymentInductive, <1>1, PTL

\* What is proved of the handlers and the engine with anonymous workers holds
\* with Python workers too, whose results the server may reject after the poll
\* has counted the attempt: the tables agree, outcomes are justified and no
\* wakeup is lost.
THEOREM ServerSoundWithWorkers ==
    DeploymentSpec => [](LeaseInvariant /\ OutcomeJustified /\ NoLostWakeup)
<1>1. DeploymentInvariant => LeaseInvariant /\ OutcomeJustified /\ NoLostWakeup
  BY TablesImplyLease DEF DeploymentInvariant, Invariant
<1> QED
  BY DeploymentInductive, <1>1, PTL

\* Python workers take and end leases as the lease protocol says: one worker at a
\* time per step, no more attempts than the retry policy of the step allows.
THEOREM WorkersKeepLease == DeploymentSpec => ImplementsLease
<1>1. DeploymentInit => Lease!LeaseInit
  BY DEF DeploymentInit, Init, Lease!LeaseInit, Phase
<1>2. DeploymentInvariant /\ DeploymentInvariant' /\ [DeploymentNext]_allVars =>
        [Lease!LeaseNext]_(Lease!leaseVars)
  <2> SUFFICES ASSUME DeploymentInvariant, DeploymentInvariant', [DeploymentNext]_allVars
               PROVE  Lease!LeaseNext \/ UNCHANGED Lease!leaseVars
    OBVIOUS
  <2>1. CASE [Next]_vars
    BY <2>1, LeaseStep DEF DeploymentInvariant, Invariant
  <2>2. CASE \E t \in tasks : Forgets(t)
    BY <2>2, ForgetStep
  <2> QED
    BY <2>1, <2>2, DeploymentStep DEF Seen
<1> QED
  BY <1>1, <1>2, DeploymentInductive, PTL DEF DeploymentSpec, ImplementsLease, Lease!LeaseSpec

\* Seen from outside, a run that Python workers execute lives as RunLifecycle
\* describes: it never disappears, and completed is final.
THEOREM WorkersKeepLifecycle == DeploymentSpec => ImplementsLifecycle
<1>1. DeploymentInit => Lifecycle!LifeInit
  BY DEF DeploymentInit, Init, Lifecycle!LifeInit, LifeOf
<1>2. ASSUME DeploymentInvariant, DeploymentInvariant', [DeploymentNext]_allVars
      PROVE  [Lifecycle!LifeNext]_([w \in Workflows |-> LifeOf(w)])
  <2>1. CASE UNCHANGED vars
    BY <2>1 DEF vars, LifeOf
  <2>2. CASE Next
    <3>1. \A w \in Workflows : LifeChange(w)
      BY <1>2, <2>2, LifeStep DEF DeploymentInvariant, Invariant
    <3>2. \A w \in Workflows : LifeOf(w)' \in Lifecycle!Lives
      BY <1>2 DEF DeploymentInvariant, Invariant, TablesOK, Lifecycle!Lives, LifeOf,
         WorkflowRow, Terminal
    <3> QED
      BY <3>1, <3>2 DEF LifeChange, Lifecycle!LifeNext
  <2>3. CASE \E t \in tasks : Forgets(t)
    BY <1>2, <2>3, ForgetStep
  <2> QED
    BY <1>2, <2>1, <2>2, <2>3, DeploymentStep DEF Seen
<1> QED
  BY <1>1, <1>2, DeploymentInductive, PTL
  DEF DeploymentSpec, ImplementsLifecycle, Lifecycle!LifeSpec
=============================================================================
