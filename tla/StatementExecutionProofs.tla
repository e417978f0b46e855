----------------------- MODULE StatementExecutionProofs -----------------------
(***************************************************************************)
(* Theorems about StatementExecution, for every set of runs and steps,     *)
(* every retry policy and channel capacity, and any number of failed       *)
(* statements, lost answers and restarts.                                  *)
(*                                                                         *)
(* The invariant has a part that always holds (the types, and which tasks  *)
(* and rows a handler that was begun refers to) and a part that holds      *)
(* until a repeated failure overtakes its step: how far the row of a step, *)
(* the log of its attempts and the reports still to come may be apart.     *)
(***************************************************************************)
EXTENDS StatementExecution, FiniteSetTheorems, SequenceTheorems, TLAPS

-----------------------------------------------------------------------------
(* What always holds.                                                      *)

RowsOK ==
    /\ workflows \in [Workflows -> {"none", "pending", "running"} \union Terminal]
    /\ scheduled \subseteq Workflows
    /\ steps \in [Steps -> StepRow]
    /\ activities \in [Steps -> Seq(ActivityRow)]

\* A task names an attempt of the log, and no two tasks name the same.
TasksOK ==
    /\ tasks \subseteq Task
    /\ \A t \in tasks : t.n \in 1..Len(activities[t.step])
    /\ \A t, u \in tasks : t.step = u.step /\ t.n = u.n => t = u

\* The attempt whose task is about to be handed out is a new one.
FreshOK ==
    grpc.at = "updateWorkflow" =>
        /\ Len(activities[grpc.step]) > 0
        /\ \A t \in tasks : t.step = grpc.step => t.n # Len(activities[grpc.step])

GrpcOK ==
    \/ grpc = Idle
    \/ \E w \in Workflows, i \in Nat :
         grpc = Start(w, i) /\ i < Cardinality(StepsOf(w))
    \/ \E at \in {"insertActivity", "updateWorkflow"}, s \in Steps : grpc = Poll(at, s)
    \/ \E at \in {"updateStep", "send"}, t \in tasks :
         grpc = Report(at, t) /\ t.outcome # "none"

EngineOK ==
    \/ engine = Idle
    \/ \E at \in {"next", "count"}, w \in Workflows : engine = Process(at, w, "none")
    \/ \E w \in Workflows, v \in {"completed", "failed"} : engine = Process("settle", w, v)

SchedOK ==
    \/ sched = Idle
    \/ \E w \in scheduled, i \in Nat :
         sched = Start(w, i) /\ i <= Cardinality(StepsOf(w))

ChannelOK ==
    /\ queue \in Seq(Workflows) /\ Len(queue) <= ChannelCapacity
    /\ eventsLost \in BOOLEAN

CountersOK == overtaken \in BOOLEAN /\ faults \in 0..MaxFaults

TypesOK ==
    /\ RowsOK /\ TasksOK /\ FreshOK
    /\ GrpcOK /\ EngineOK /\ SchedOK
    /\ ChannelOK /\ CountersOK

LEMMA StepsFinite ==
    ASSUME NEW w
    PROVE  /\ Cardinality(StepsOf(w)) \in Nat
           /\ Cardinality(Steps) \in Nat
           /\ Cardinality(StepsOf(w)) <= Cardinality(Steps)
<1>1. StepsOf(w) \in SUBSET Steps /\ IsFiniteSet(Steps)
  BY StatementAssumption DEF StepsOf
<1>2. IsFiniteSet(StepsOf(w)) /\ Cardinality(StepsOf(w)) <= Cardinality(Steps)
  BY <1>1, FS_Subset
<1> QED
  BY <1>1, <1>2, FS_CardinalityType

LEMMA RunHasSteps ==
    ASSUME NEW w \in Workflows
    PROVE  0 < Cardinality(StepsOf(w))
<1>1. IsFiniteSet(StepsOf(w))
  <2>1. StepsOf(w) \in SUBSET Steps /\ IsFiniteSet(Steps)
    BY StatementAssumption DEF StepsOf
  <2> QED
    BY <2>1, FS_Subset
<1>2. StepsOf(w) # {}
  BY StatementAssumption
<1>3. Cardinality(StepsOf(w)) # 0
  BY <1>1, <1>2, FS_EmptySet
<1> QED
  BY <1>3, StepsFinite

\* The position of a handler tells what it works on.
LEMMA GrpcShape ==
    ASSUME GrpcOK
    PROVE  /\ grpc = Idle => grpc.at = "idle"
           /\ grpc.at = "insert" =>
                /\ grpc.run \in Workflows /\ grpc.index \in Nat
                /\ grpc.index < Cardinality(StepsOf(grpc.run))
           /\ grpc.at \in {"insertActivity", "updateWorkflow"} => grpc.step \in Steps
           /\ grpc.at \in {"updateStep", "send"} =>
                grpc.task \in tasks /\ grpc.task.outcome # "none"
BY DEF GrpcOK, Idle, Start, Poll, Report

LEMMA EngineShape ==
    ASSUME EngineOK
    PROVE  /\ engine = Idle => engine.at = "idle"
           /\ engine # Idle => engine.run \in Workflows
           /\ engine.at \in {"next", "count", "settle"} => engine # Idle
           /\ engine.at = "settle" => engine.verdict \in {"completed", "failed"}
BY DEF EngineOK, Idle, Process

LEMMA SchedShape ==
    ASSUME SchedOK
    PROVE  /\ sched = Idle => sched.at = "idle"
           /\ sched # Idle => sched.at = "insert"
           /\ sched.at = "insert" =>
                /\ sched.run \in scheduled /\ sched.index \in Nat
                /\ sched.index <= Cardinality(StepsOf(sched.run))
BY DEF SchedOK, Idle, Start

LEMMA TypesSuffice == TypesOK => StatementTypeOK
<1> SUFFICES ASSUME TypesOK
             PROVE  StatementTypeOK
  OBVIOUS
<1>1. grpc \in {Idle}
         \union {Start(w, i) : w \in Workflows, i \in 0..Cardinality(Steps)}
         \union {Poll(at, s) : at \in {"insertActivity", "updateWorkflow"}, s \in Steps}
         \union {Report(at, t) : at \in {"updateStep", "send"}, t \in tasks}
  <2>1. ASSUME NEW w \in Workflows, NEW i \in Nat, i < Cardinality(StepsOf(w))
        PROVE  i \in 0..Cardinality(Steps)
    BY <2>1, StepsFinite
  <2> QED
    BY <2>1 DEF TypesOK, GrpcOK
<1>2. sched \in {Idle}
         \union {Start(w, i) : w \in scheduled, i \in 0..Cardinality(Steps)}
  <2>1. ASSUME NEW w \in scheduled, NEW i \in Nat, i <= Cardinality(StepsOf(w))
        PROVE  i \in 0..Cardinality(Steps)
    BY <2>1, StepsFinite
  <2> QED
    BY <2>1 DEF TypesOK, SchedOK
<1>3. engine \in {Idle}
         \union {Process(at, w, v) : at \in {"next", "count", "settle"}, w \in Workflows,
                                     v \in {"none", "completed", "failed"}}
  BY DEF TypesOK, EngineOK
<1> QED
  BY <1>1, <1>2, <1>3
  DEF TypesOK, RowsOK, TasksOK, ChannelOK, CountersOK, StatementTypeOK


-----------------------------------------------------------------------------
(* The channel.                                                            *)

Queued(w) == \E i \in 1..Len(queue) : queue[i] = w

\* A send keeps the channel within its capacity, queues its event, and loses a
\* queued event only if eventsLost records it.
LEMMA NotifyChannel ==
    ASSUME ChannelOK, NEW w \in Workflows, Notify(w)
    PROVE  /\ ChannelOK'
           /\ Queued(w)'
           /\ eventsLost => eventsLost'
           /\ \A x : Queued(x) => Queued(x)' \/ eventsLost'
           /\ \A x : Queued(x)' => Queued(x) \/ x = w
<1>1. ChannelCapacity \in Nat \ {0} /\ queue \in Seq(Workflows) /\ Len(queue) \in Nat
  BY StatementAssumption, LenProperties DEF ChannelOK
<1>2. eventsLost' \in BOOLEAN /\ (eventsLost => eventsLost')
  BY DEF ChannelOK, Notify
<1>3. CASE Len(queue) < ChannelCapacity
  <2>1. queue' = Append(queue, w)
    BY <1>3 DEF Notify
  <2>2. /\ queue' \in Seq(Workflows)
        /\ Len(queue') = Len(queue) + 1
        /\ \A i \in 1..Len(queue) : queue'[i] = queue[i]
        /\ queue'[Len(queue) + 1] = w
    BY <1>1, <2>1, AppendProperties
  <2>3. Queued(w)' /\ \A x : Queued(x) => Queued(x)'
    BY <1>1, <2>2 DEF Queued
  <2>4. \A x : Queued(x)' => Queued(x) \/ x = w
    <3>1. \A i \in 1..Len(queue') : i \in 1..Len(queue) \/ i = Len(queue) + 1
      BY <1>1, <2>2
    <3> QED
      BY <2>2, <3>1 DEF Queued
  <2>5. Len(queue') <= ChannelCapacity
    BY <1>1, <1>3, <2>2
  <2> QED
    BY <1>2, <2>2, <2>3, <2>4, <2>5 DEF ChannelOK
<1>4. CASE Len(queue) = ChannelCapacity
  <2>1. queue # <<>>
    BY <1>1, <1>4
  <2>2. /\ Tail(queue) \in Seq(Workflows) /\ Len(Tail(queue)) = Len(queue) - 1
        /\ \A i \in 1..Len(Tail(queue)) : Tail(queue)[i] = queue[i + 1]
    BY <1>1, <2>1, HeadTailProperties
  <2>3. queue' = Append(Tail(queue), w)
    BY <1>1, <1>4 DEF Notify
  <2>4. /\ queue' \in Seq(Workflows)
        /\ Len(queue') = Len(queue)
        /\ \A i \in 1..Len(Tail(queue)) : queue'[i] = Tail(queue)[i]
        /\ queue'[Len(queue')] = w
    BY <1>1, <2>2, <2>3, AppendProperties
  <2>5. Queued(w)'
    BY <1>1, <1>4, <2>4 DEF Queued
  <2>6. ASSUME NEW x, Queued(x)'
        PROVE  Queued(x) \/ x = w
    <3>1. PICK i \in 1..Len(queue') : queue'[i] = x
      BY <2>6 DEF Queued
    <3>2. CASE i = Len(queue')
      BY <2>4, <3>1, <3>2
    <3>3. CASE i # Len(queue')
      <4>1. i \in 1..Len(Tail(queue)) /\ i + 1 \in 1..Len(queue)
        <5>1. i \in Nat /\ i >= 1 /\ i <= Len(queue) /\ i # Len(queue)
          BY <1>1, <2>4, <3>1, <3>3
        <5>2. Len(Tail(queue)) = Len(queue) - 1
          BY <2>2
        <5> QED
          BY <1>1, <5>1, <5>2
      <4>2. queue[i + 1] = x
        BY <2>2, <2>4, <3>1, <4>1
      <4> QED
        BY <4>1, <4>2 DEF Queued
    <3> QED
      BY <3>2, <3>3
  <2>7. eventsLost'
    BY <1>4 DEF Notify
  <2> QED
    BY <1>2, <1>4, <2>4, <2>5, <2>6, <2>7 DEF ChannelOK
<1> QED
  BY <1>1, <1>3, <1>4 DEF ChannelOK

\* The engine receives the head of the channel and nothing else is lost.
LEMMA ReceiveChannel ==
    ASSUME ChannelOK, queue # <<>>, queue' = Tail(queue), UNCHANGED eventsLost
    PROVE  /\ ChannelOK'
           /\ Head(queue) \in Workflows /\ Queued(Head(queue))
           /\ \A x : Queued(x) => Queued(x)' \/ x = Head(queue)
           /\ \A x : Queued(x)' => Queued(x)
<1>1. queue \in Seq(Workflows) /\ Len(queue) \in Nat /\ ChannelCapacity \in Nat
  BY StatementAssumption, LenProperties DEF ChannelOK
<1>2. /\ Head(queue) \in Workflows
      /\ queue' \in Seq(Workflows)
      /\ Len(queue') = Len(queue) - 1
      /\ \A i \in 1..Len(queue') : queue'[i] = queue[i + 1]
      /\ Head(queue) = queue[1]
      /\ Len(queue) >= 1
  BY <1>1, HeadTailProperties
<1>3. ASSUME NEW x, Queued(x), x # Head(queue)
      PROVE  Queued(x)'
  <2>1. PICK i \in 1..Len(queue) : queue[i] = x
    BY <1>3 DEF Queued
  <2>2. i - 1 \in 1..Len(queue') /\ queue'[i - 1] = x
    BY <1>1, <1>2, <1>3, <2>1
  <2> QED
    BY <2>2 DEF Queued
<1>4. ASSUME NEW x, Queued(x)'
      PROVE  Queued(x)
  <2>1. PICK i \in 1..Len(queue') : queue'[i] = x
    BY <1>4 DEF Queued
  <2>2. i + 1 \in 1..Len(queue) /\ queue[i + 1] = x
    BY <1>1, <1>2, <2>1
  <2> QED
    BY <2>2 DEF Queued
<1>5. Queued(Head(queue))
  BY <1>1, <1>2 DEF Queued
<1>6. ChannelOK'
  BY <1>1, <1>2 DEF ChannelOK
<1> QED
  BY <1>2, <1>3, <1>4, <1>5, <1>6

-----------------------------------------------------------------------------
(* The types, action by action.                                            *)

\* Starting a run touches its row, its steps and the handler at it.
LEMMA StartTypes ==
    ASSUME TypesOK, NEW w \in Workflows, StartWorkflowExecution(w)
    PROVE  TypesOK'
<1> USE DEF StartWorkflowExecution, InsertRow
<1>1. RowsOK'
  BY DEF TypesOK, RowsOK
<1>2. grpc' = Start(w, 0) /\ 0 < Cardinality(StepsOf(w))
  BY RunHasSteps
<1>3. GrpcOK' /\ FreshOK'
  BY <1>2 DEF GrpcOK, FreshOK, Start
<1> QED
  BY <1>1, <1>3 DEF TypesOK, TasksOK, EngineOK, SchedOK, ChannelOK, CountersOK

LEMMA StartNextTypes ==
    ASSUME TypesOK, StartNextStep
    PROVE  TypesOK'
<1> USE DEF StartNextStep, InsertStep
<1>1. RowsOK'
  BY DEF TypesOK, RowsOK, StepRow
<1>2. /\ grpc.run \in Workflows /\ grpc.index \in Nat
      /\ grpc.index < Cardinality(StepsOf(grpc.run))
      /\ Cardinality(StepsOf(grpc.run)) \in Nat
  BY GrpcShape, StepsFinite DEF TypesOK
<1>3. GrpcOK' /\ FreshOK'
  <2>1. CASE grpc' = Idle
    BY <2>1 DEF GrpcOK, FreshOK, Idle
  <2>2. CASE grpc' # Idle
    <3>1. /\ grpc' = Start(grpc.run, grpc.index + 1)
          /\ grpc.index + 1 # Cardinality(StepsOf(grpc.run))
      BY <2>2 DEF LastStep
    <3>2. grpc.index + 1 < Cardinality(StepsOf(grpc.run)) /\ grpc.index + 1 \in Nat
      BY <1>2, <3>1
    <3> QED
      BY <1>2, <3>1, <3>2 DEF GrpcOK, FreshOK, Start
  <2> QED
    BY <2>1, <2>2
<1> QED
  BY <1>1, <1>3 DEF TypesOK, TasksOK, EngineOK, SchedOK, ChannelOK, CountersOK

LEMMA ScheduleTypes ==
    ASSUME TypesOK, NEW w \in Workflows, StartScheduleWorkflow(w)
    PROVE  TypesOK'
<1> USE DEF StartScheduleWorkflow, InsertRow
<1>1. RowsOK'
  BY DEF TypesOK, RowsOK
<1>2. SchedOK'
  <2>1. 0 <= Cardinality(StepsOf(w))
    BY StepsFinite
  <2> QED
    BY <2>1 DEF SchedOK
<1> QED
  BY <1>1, <1>2 DEF TypesOK, TasksOK, FreshOK, GrpcOK, EngineOK, ChannelOK, CountersOK

LEMMA ScheduleNextTypes ==
    ASSUME TypesOK, ScheduleNextStep
    PROVE  TypesOK'
<1> USE DEF ScheduleNextStep, InsertStep
<1>1. RowsOK'
  BY DEF TypesOK, RowsOK, StepRow
<1>2. SchedOK'
  <2>1. /\ sched.run \in scheduled /\ sched.index \in Nat
        /\ Cardinality(StepsOf(sched.run)) \in Nat
    BY SchedShape, StepsFinite DEF TypesOK
  <2>2. sched.index + 1 \in Nat /\ sched.index + 1 <= Cardinality(StepsOf(sched.run))
    BY <2>1
  <2> QED
    BY <2>1, <2>2 DEF SchedOK
<1> QED
  BY <1>1, <1>2 DEF TypesOK, TasksOK, FreshOK, GrpcOK, EngineOK, ChannelOK, CountersOK

LEMMA ScheduleNotifyTypes ==
    ASSUME TypesOK, ScheduleNotify
    PROVE  TypesOK' /\ sched.run \in scheduled /\ sched.run \in Workflows
<1> USE DEF ScheduleNotify, tables
<1>1. sched.run \in scheduled /\ sched.run \in Workflows
  BY SchedShape DEF TypesOK, RowsOK
<1>2. ChannelOK'
  BY <1>1, NotifyChannel DEF TypesOK
<1> QED
  BY <1>1, <1>2 DEF TypesOK, RowsOK, TasksOK, FreshOK, GrpcOK, EngineOK, SchedOK, CountersOK

LEMMA CancelTypes ==
    ASSUME TypesOK, NEW w \in Workflows, CancelWorkflow(w)
    PROVE  TypesOK'
<1> USE DEF CancelWorkflow
<1>1. RowsOK'
  BY DEF TypesOK, RowsOK, Terminal
<1> QED
  BY <1>1 DEF TypesOK, TasksOK, FreshOK, GrpcOK, EngineOK, SchedOK, ChannelOK, CountersOK

\* The statements of a poll.
LEMMA PollTypes ==
    ASSUME TypesOK, NEW s \in Steps, PollStep(s)
    PROVE  TypesOK'
<1> USE DEF PollStep
<1>1. RowsOK'
  BY DEF TypesOK, RowsOK, StepRow
<1>2. GrpcOK' /\ FreshOK'
  BY DEF GrpcOK, FreshOK, Poll
<1> QED
  BY <1>1, <1>2 DEF TypesOK, TasksOK, EngineOK, SchedOK, ChannelOK, CountersOK

LEMMA PollInsertTypes ==
    ASSUME TypesOK, PollInsertActivity
    PROVE  TypesOK'
<1> USE DEF PollInsertActivity
<1> DEFINE s == grpc.step
           a == activities[s]
           row == [attempt |-> steps[s].attempt, state |-> "running"]
<1>1. s \in Steps
  BY GrpcShape DEF TypesOK
<1>2. a \in Seq(ActivityRow) /\ Len(a) \in Nat /\ row \in ActivityRow
  BY <1>1, LenProperties DEF TypesOK, RowsOK, StepRow, ActivityRow
<1>3. Append(a, row) \in Seq(ActivityRow) /\ Len(Append(a, row)) = Len(a) + 1
  BY <1>2, AppendProperties
<1>4. /\ activities' = [activities EXCEPT ![s] = Append(a, row)]
      /\ activities' \in [Steps -> Seq(ActivityRow)]
      /\ activities'[s] = Append(a, row)
      /\ \A r \in Steps \ {s} : activities'[r] = activities[r]
  BY <1>1, <1>3 DEF TypesOK, RowsOK
<1> HIDE DEF row
<1>5. RowsOK'
  BY <1>4 DEF TypesOK, RowsOK
<1>6. \A t \in tasks : t.step \in Steps /\ t.n \in Nat /\ t.n \in 1..Len(activities[t.step])
  BY DEF TypesOK, TasksOK, Task
<1>7. TasksOK'
  <2>1. ASSUME NEW t \in tasks
        PROVE  t.n \in 1..Len(activities'[t.step])
    <3>1. CASE t.step = s
      <4>1. t.n \in 1..Len(a)
        BY <1>6, <3>1
      <4>2. t.n \in 1..(Len(a) + 1)
        BY <1>2, <4>1
      <4> QED
        BY <1>3, <1>4, <3>1, <4>2
    <3>2. CASE t.step # s
      BY <1>4, <1>6, <3>2
    <3> QED
      BY <3>1, <3>2
  <2> QED
    BY <2>1 DEF TypesOK, TasksOK
<1>8. GrpcOK'
  BY <1>1 DEF GrpcOK
<1>9. FreshOK'
  <2>1. Len(activities'[s]) = Len(a) + 1 /\ grpc' = Poll("updateWorkflow", s)
    BY <1>3, <1>4
  <2>2. \A t \in tasks : t.step = s => t.n # Len(a) + 1
    <3>1. ASSUME NEW t \in tasks, t.step = s
          PROVE  t.n # Len(a) + 1
      <4>1. t.n \in 1..Len(a)
        BY <1>6, <3>1
      <4> QED
        BY <1>2, <4>1
    <3> QED
      BY <3>1
  <2>3. grpc'.step = s /\ Len(a) + 1 > 0
    BY <1>2, <2>1 DEF Poll
  <2> HIDE DEF a, s
  <2> QED
    BY <2>1, <2>2, <2>3 DEF FreshOK
<1> QED
  BY <1>5, <1>7, <1>8, <1>9 DEF TypesOK, EngineOK, SchedOK, ChannelOK, CountersOK

LEMMA FaultCounted ==
    ASSUME CountersOK, Fault, UNCHANGED overtaken
    PROVE  CountersOK'
BY StatementAssumption DEF CountersOK, Fault

LEMMA PollAnswerTypes ==
    ASSUME TypesOK, PollAnswer
    PROVE  TypesOK'
<1> USE DEF PollAnswer
<1> DEFINE s == grpc.step
           task == [step |-> s, n |-> Len(activities[s]), outcome |-> "none"]
<1>1. s \in Steps /\ RunOf[s] \in Workflows
  BY GrpcShape, StatementAssumption DEF TypesOK
<1>2. Len(activities[s]) \in Nat /\ Len(activities[s]) > 0
  BY <1>1, LenProperties DEF TypesOK, RowsOK, FreshOK
<1>3. task \in Task /\ task.n \in 1..Len(activities[task.step]) /\ task.step = s
      /\ task.n = Len(activities[s])
  BY <1>1, <1>2 DEF Task
<1>4. \A t \in tasks : t.step = s => t.n # task.n
  BY <1>3 DEF TypesOK, FreshOK
<1>5. tasks' \in {tasks, tasks \union {task}}
  OBVIOUS
<1>6. RowsOK'
  BY <1>1 DEF TypesOK, RowsOK
<1>7. TasksOK'
  <2> HIDE DEF task
  <2> QED
    BY <1>3, <1>4, <1>5 DEF TypesOK, TasksOK
<1>8. GrpcOK' /\ FreshOK'
  BY DEF GrpcOK, FreshOK, Idle
<1>9. CountersOK'
  BY FaultCounted DEF TypesOK, CountersOK
<1> QED
  BY <1>6, <1>7, <1>8, <1>9 DEF TypesOK, EngineOK, SchedOK, ChannelOK

LEMMA DelayTypes ==
    ASSUME TypesOK, NEW s \in Steps, RetryDelayElapses(s)
    PROVE  TypesOK'
<1> USE DEF RetryDelayElapses
<1>1. RowsOK'
  BY DEF TypesOK, RowsOK, StepRow
<1> QED
  BY <1>1 DEF TypesOK, TasksOK, FreshOK, GrpcOK, EngineOK, SchedOK, ChannelOK, CountersOK

\* A worker ends a handler: the task keeps its place.
LEMMA HandlerEndsTypes ==
    ASSUME TypesOK, NEW t \in tasks, HandlerEnds(t)
    PROVE  TypesOK'
<1> USE DEF HandlerEnds, tables
<1>1. PICK outcome \in {"completed", "failed"} :
             tasks' = (tasks \ {t}) \union {[t EXCEPT !.outcome = outcome]}
  OBVIOUS
<1> DEFINE u == [t EXCEPT !.outcome = outcome]
<1>2. u \in Task /\ u.step = t.step /\ u.n = t.n /\ u.outcome = outcome
  BY DEF TypesOK, TasksOK, Task
<1>3. tasks' = (tasks \ {t}) \union {u}
  BY <1>1
<1> HIDE DEF u
<1>4. TasksOK'
  <2>1. tasks' \subseteq Task
    BY <1>2, <1>3 DEF TypesOK, TasksOK
  <2>2. \A v \in tasks' : v.n \in 1..Len(activities'[v.step])
    BY <1>2, <1>3 DEF TypesOK, TasksOK
  <2>3. \A v \in tasks \ {t} : ~(v.step = u.step /\ v.n = u.n)
    BY <1>2 DEF TypesOK, TasksOK
  <2>4. \A v, x \in tasks' : v.step = x.step /\ v.n = x.n => v = x
    BY <1>3, <2>3 DEF TypesOK, TasksOK
  <2> QED
    BY <2>1, <2>2, <2>4 DEF TasksOK
<1>5. FreshOK'
  BY <1>2, <1>3 DEF TypesOK, FreshOK
<1>6. GrpcOK'
  <2>1. \A v \in tasks : v.outcome # "none" => v \in tasks'
    BY <1>3
  <2> QED
    BY <2>1 DEF TypesOK, GrpcOK
<1> QED
  BY <1>4, <1>5, <1>6 DEF TypesOK, RowsOK, EngineOK, SchedOK, ChannelOK, CountersOK

\* The state of an attempt may be overwritten; its number and its place stay.
SameAttempts(a, b) ==
    /\ b \in Seq(ActivityRow)
    /\ Len(b) = Len(a)
    /\ \A i \in 1..Len(a) : b[i].attempt = a[i].attempt

LEMMA MarkAttempt ==
    ASSUME NEW a \in Seq(ActivityRow), NEW n \in 1..Len(a),
           NEW state \in {"running", "completed", "failed"}
    PROVE  SameAttempts(a, [a EXCEPT ![n] = [attempt |-> a[n].attempt, state |-> state]])
<1> DEFINE row == [attempt |-> a[n].attempt, state |-> state]
           b == [a EXCEPT ![n] = row]
<1>1. a[n] \in ActivityRow /\ row \in ActivityRow
  BY ElementOfSeq DEF ActivityRow
<1>2. b \in Seq(ActivityRow) /\ Len(b) = Len(a)
  BY <1>1, ExceptSeq
<1>3. \A i \in 1..Len(a) : b[i] = IF i = n THEN row ELSE a[i]
  BY <1>1, ExceptSeq
<1>4. \A i \in 1..Len(a) : b[i].attempt = a[i].attempt
  BY <1>3
<1> QED
  BY <1>2, <1>4 DEF SameAttempts

LEMMA RespondMarks ==
    ASSUME TypesOK, NEW t \in tasks, RespondUpdateActivity(t)
    PROVE  /\ activities' \in [Steps -> Seq(ActivityRow)]
           /\ \A s \in Steps : SameAttempts(activities[s], activities'[s])
<1> USE DEF RespondUpdateActivity
<1> DEFINE b == [activities[t.step] EXCEPT ![t.n] =
                   [attempt |-> activities[t.step][t.n].attempt, state |-> t.outcome]]
<1>1. /\ t.step \in Steps /\ t.n \in 1..Len(activities[t.step])
      /\ t.outcome \in {"completed", "failed"}
      /\ activities \in [Steps -> Seq(ActivityRow)]
  BY DEF TypesOK, RowsOK, TasksOK, Task
<1>2. SameAttempts(activities[t.step], b)
  BY <1>1, MarkAttempt
<1>3. activities' = [activities EXCEPT ![t.step] = b]
  OBVIOUS
<1> HIDE DEF b
<1>4. activities' \in [Steps -> Seq(ActivityRow)]
  BY <1>1, <1>2, <1>3 DEF SameAttempts
<1>5. \A s \in Steps : activities'[s] = IF s = t.step THEN b ELSE activities[s]
  BY <1>1, <1>3
<1> QED
  BY <1>1, <1>2, <1>4, <1>5 DEF SameAttempts

LEMMA RespondTypes ==
    ASSUME TypesOK, NEW t \in tasks, RespondUpdateActivity(t)
    PROVE  TypesOK'
<1>1. /\ activities' \in [Steps -> Seq(ActivityRow)]
      /\ \A s \in Steps : Len(activities'[s]) = Len(activities[s])
  BY RespondMarks DEF SameAttempts
<1> USE DEF RespondUpdateActivity
<1>2. RowsOK'
  BY <1>1 DEF TypesOK, RowsOK
<1>3. TasksOK'
  BY <1>1 DEF TypesOK, TasksOK, Task
<1>4. GrpcOK' /\ FreshOK'
  BY DEF GrpcOK, FreshOK, Report
<1> QED
  BY <1>2, <1>3, <1>4 DEF TypesOK, EngineOK, SchedOK, ChannelOK, CountersOK

LEMMA AnswerTypes ==
    ASSUME TypesOK, NEW t, Answer(t), UNCHANGED activities
    PROVE  TasksOK' /\ faults' \in 0..MaxFaults
<1>1. tasks' \subseteq tasks
  BY DEF Answer
<1>2. TasksOK'
  BY <1>1 DEF TypesOK, TasksOK
<1>3. faults' \in 0..MaxFaults
  BY StatementAssumption DEF TypesOK, CountersOK, Answer, Fault
<1> QED
  BY <1>2, <1>3

LEMMA CompleteTypes ==
    ASSUME TypesOK, CompleteUpdateStep
    PROVE  TypesOK'
<1> USE DEF CompleteUpdateStep
<1>1. grpc.task \in tasks /\ grpc.task.outcome # "none" /\ grpc.task.step \in Steps
  BY GrpcShape DEF TypesOK, TasksOK, Task
<1>2. RowsOK'
  BY <1>1 DEF TypesOK, RowsOK, StepRow
<1>3. GrpcOK' /\ FreshOK'
  BY <1>1 DEF GrpcOK, FreshOK, Report
<1> QED
  BY <1>2, <1>3 DEF TypesOK, TasksOK, EngineOK, SchedOK, ChannelOK, CountersOK

LEMMA FailTypes ==
    ASSUME TypesOK, FailUpdateStep
    PROVE  TypesOK'
<1> USE DEF FailUpdateStep
<1> DEFINE t == grpc.task
<1>1. /\ t \in tasks /\ t.outcome # "none" /\ t.step \in Steps
      /\ t.n \in 1..Len(activities[t.step])
      /\ activities[t.step] \in Seq(ActivityRow)
  BY GrpcShape DEF TypesOK, RowsOK, TasksOK, Task
<1>2. CurrentAttempt(t) \in Nat
  <2>1. activities[t.step][t.n] \in ActivityRow
    BY <1>1, ElementOfSeq
  <2> QED
    BY <2>1 DEF CurrentAttempt, ActivityRow
<1>3. overtaken' \in BOOLEAN
  BY DEF TypesOK, CountersOK
<1>4. RowsOK'
  <2>1. /\ [state |-> "pending", attempt |-> CurrentAttempt(t), retry |-> "later"] \in StepRow
        /\ [state |-> "failed", attempt |-> CurrentAttempt(t), retry |-> "null"] \in StepRow
    BY <1>2 DEF StepRow
  <2>2. steps' \in [Steps -> StepRow]
    BY <1>1, <2>1 DEF TypesOK, RowsOK
  <2> QED
    BY <2>2 DEF TypesOK, RowsOK
<1>5. CASE ShouldRetry(t)
  <2>1. grpc' = Idle /\ Answer(t) /\ UNCHANGED activities
    BY <1>5
  <2>2. TasksOK' /\ faults' \in 0..MaxFaults
    BY <2>1, AnswerTypes
  <2>3. GrpcOK' /\ FreshOK'
    BY <2>1 DEF GrpcOK, FreshOK, Idle
  <2> QED
    BY <1>3, <1>4, <2>2, <2>3 DEF TypesOK, EngineOK, SchedOK, ChannelOK, CountersOK
<1>6. CASE ~ShouldRetry(t)
  <2>1. grpc' = Report("send", t) /\ UNCHANGED <<tasks, activities, faults>>
    BY <1>6
  <2>2. GrpcOK' /\ FreshOK'
    BY <1>1, <2>1 DEF GrpcOK, FreshOK, Report
  <2> QED
    BY <1>3, <1>4, <2>1, <2>2 DEF TypesOK, TasksOK, EngineOK, SchedOK, ChannelOK, CountersOK
<1> QED
  BY <1>5, <1>6

LEMMA SendTypes ==
    ASSUME TypesOK, RespondSend
    PROVE  TypesOK' /\ grpc.task \in tasks /\ RunOf[grpc.task.step] \in Workflows
<1> USE DEF RespondSend, tables
<1>1. grpc.task \in tasks /\ RunOf[grpc.task.step] \in Workflows
  BY GrpcShape, StatementAssumption DEF TypesOK, TasksOK, Task
<1>2. ChannelOK'
  BY <1>1, NotifyChannel DEF TypesOK
<1>3. TasksOK' /\ faults' \in 0..MaxFaults
  BY AnswerTypes
<1>4. GrpcOK' /\ FreshOK'
  BY DEF GrpcOK, FreshOK, Idle
<1> QED
  BY <1>1, <1>2, <1>3, <1>4 DEF TypesOK, RowsOK, EngineOK, SchedOK, CountersOK

\* The statements of the engine.
LEMMA EngineTypes ==
    ASSUME TypesOK, Engine
    PROVE  TypesOK'
<1>1. CASE EngineBegin
  <2> USE <1>1 DEF EngineBegin
  <2>1. ChannelOK' /\ Head(queue) \in Workflows
    BY ReceiveChannel DEF TypesOK
  <2>2. RowsOK'
    BY <2>1 DEF TypesOK, RowsOK
  <2>3. EngineOK'
    BY <2>1 DEF EngineOK
  <2> QED
    BY <2>1, <2>2, <2>3 DEF TypesOK, TasksOK, FreshOK, GrpcOK, SchedOK, CountersOK
<1>2. CASE EngineNext
  <2> USE <1>2 DEF EngineNext, tables
  <2>1. EngineOK'
    BY EngineShape DEF TypesOK, EngineOK
  <2> QED
    BY <2>1 DEF TypesOK, RowsOK, TasksOK, FreshOK, GrpcOK, SchedOK, ChannelOK, CountersOK
<1>3. CASE EngineCount
  <2> USE <1>3 DEF EngineCount, tables
  <2>1. Verdict(engine.run) \in {"none", "completed", "failed"}
    BY DEF Verdict
  <2>2. EngineOK'
    BY <2>1, EngineShape DEF TypesOK, EngineOK
  <2> QED
    BY <2>2 DEF TypesOK, RowsOK, TasksOK, FreshOK, GrpcOK, SchedOK, ChannelOK, CountersOK
<1>4. CASE EngineSettle
  <2> USE <1>4 DEF EngineSettle
  <2>1. engine.run \in Workflows /\ engine.verdict \in {"completed", "failed"}
    BY EngineShape DEF TypesOK
  <2>2. RowsOK'
    BY <2>1 DEF TypesOK, RowsOK, Terminal
  <2>3. EngineOK'
    BY DEF EngineOK
  <2> QED
    BY <2>2, <2>3 DEF TypesOK, TasksOK, FreshOK, GrpcOK, SchedOK, ChannelOK, CountersOK
<1> QED
  BY <1>1, <1>2, <1>3, <1>4 DEF Engine

LEMMA FaultsTypes ==
    ASSUME TypesOK, Faults
    PROVE  TypesOK'
<1>1. Fault /\ UNCHANGED <<tables, tasks, overtaken>>
  BY DEF Faults, HandlerError, EngineError, SchedulerError, Restart
<1>2. CountersOK'
  BY <1>1, FaultCounted DEF TypesOK
<1>3. RowsOK' /\ TasksOK'
  BY <1>1 DEF TypesOK, RowsOK, TasksOK, tables
<1>4. GrpcOK' /\ FreshOK'
  <2>1. grpc' \in {grpc, Idle}
    BY DEF Faults, HandlerError, EngineError, SchedulerError, Restart
  <2> QED
    BY <1>1, <2>1 DEF TypesOK, GrpcOK, FreshOK, Idle, tables
<1>5. EngineOK'
  <2>1. engine' \in {engine, Idle}
    BY DEF Faults, HandlerError, EngineError, SchedulerError, Restart
  <2> QED
    BY <2>1 DEF TypesOK, EngineOK
<1>6. SchedOK'
  <2>1. sched' \in {sched, Idle}
    BY DEF Faults, HandlerError, EngineError, SchedulerError, Restart
  <2> QED
    BY <1>1, <2>1 DEF TypesOK, SchedOK, tables
<1>7. ChannelOK'
  <2>1. CASE Restart
    BY <2>1, StatementAssumption, EmptySeq DEF TypesOK, Restart, ChannelOK
  <2>2. CASE HandlerError \/ EngineError \/ SchedulerError
    BY <2>2 DEF TypesOK, HandlerError, EngineError, SchedulerError, ChannelOK
  <2> QED
    BY <2>1, <2>2 DEF Faults
<1> QED
  BY <1>2, <1>3, <1>4, <1>5, <1>6, <1>7 DEF TypesOK

LEMMA TypesStep == TypesOK /\ [Next]_vars => TypesOK'
<1> SUFFICES ASSUME TypesOK, [Next]_vars
             PROVE  TypesOK'
  OBVIOUS
<1>1. CASE Next
  BY <1>1, StartTypes, CancelTypes, ScheduleTypes, StartNextTypes, PollInsertTypes,
     PollAnswerTypes, CompleteTypes, FailTypes, SendTypes, EngineTypes, ScheduleNextTypes,
     ScheduleNotifyTypes, PollTypes, HandlerEndsTypes, RespondTypes, DelayTypes, FaultsTypes
  DEF Next, Client, Mutex, SchedulerTask, Worker
<1>2. CASE UNCHANGED vars
  BY <1>2 DEF vars, tables, TypesOK, RowsOK, TasksOK, FreshOK, GrpcOK, EngineOK, SchedOK,
     ChannelOK, CountersOK
<1> QED
  BY <1>1, <1>2

LEMMA TypesInit == Init => TypesOK
<1> SUFFICES ASSUME Init
             PROVE  TypesOK
  OBVIOUS
<1> USE DEF Init
<1>1. RowsOK
  BY EmptySeq DEF RowsOK, StepRow
<1>2. TasksOK /\ FreshOK
  BY DEF TasksOK, FreshOK, Idle
<1>3. GrpcOK /\ EngineOK /\ SchedOK
  BY DEF GrpcOK, EngineOK, SchedOK
<1>4. queue \in Seq(Workflows) /\ Len(queue) <= ChannelCapacity /\ faults \in 0..MaxFaults
  BY EmptySeq, StatementAssumption
<1>5. eventsLost \in BOOLEAN /\ overtaken \in BOOLEAN
  BY Zenon
<1> QED
  BY <1>1, <1>2, <1>3, <1>4, <1>5 DEF TypesOK, ChannelOK, CountersOK

-----------------------------------------------------------------------------
(* Until a report is overtaken: one step, its row r and its log a.         *)

\* The row says that an attempt is running which the log does not have.
NoRecord(r, a) ==
    r.state = "running" /\ (Len(a) = 0 \/ a[Len(a)].attempt # r.attempt)

StepLog(s, r, a) ==
    /\ Len(a) <= r.attempt
    /\ \A i \in 1..Len(a) : a[i].attempt <= r.attempt
    /\ r.state = "none" => Len(a) = 0
    /\ r.state = "pending" =>
         /\ \A i \in 1..Len(a) : a[i].attempt < r.attempt
         /\ Len(a) > 0 => r.attempt < MaximumAttempts[s]
    /\ NoRecord(r, a) =>
         /\ Len(a) < r.attempt
         /\ \A i \in 1..Len(a) : a[i].attempt < r.attempt

\* The task t is the attempt that the row speaks of.
Newest(t, r, a) == t.n = Len(a) /\ a[t.n].attempt = r.attempt

\* The row is as the failure of t leaves it.
Applied(t, r, a) ==
    /\ r.attempt = a[t.n].attempt + 1
    /\ r.state = IF r.attempt < MaximumAttempts[t.step] THEN "pending" ELSE "failed"

\* A repetition of the report of t would come too late.
TooLate(t, r, a) == r.attempt > a[t.n].attempt + 1

TaskLog(t, r, a) ==
    /\ t.outcome = "none" => Newest(t, r, a) /\ r.state = "running"
    /\ t.outcome = "completed" => Newest(t, r, a) /\ r.state \in {"running", "completed"}
    /\ t.outcome = "failed" =>
         \/ Newest(t, r, a) /\ r.state = "running"
         \/ Applied(t, r, a)
         \/ TooLate(t, r, a)

Limit(s) == IF MaximumAttempts[s] = 0 THEN 1 ELSE MaximumAttempts[s]

\* The tasks of step s.
TaskOf(t, s, a) == t \in Task /\ t.step = s /\ t.n \in 1..Len(a)

LEMMA LogValues ==
    ASSUME NEW s \in Steps, NEW r \in StepRow, NEW a \in Seq(ActivityRow)
    PROVE  /\ Len(a) \in Nat /\ r.attempt \in Nat /\ MaximumAttempts[s] \in Nat
           /\ \A i \in 1..Len(a) : a[i].attempt \in Nat
           /\ Len(a) > 0 => Len(a) \in 1..Len(a)
<1>1. Len(a) \in Nat /\ r.attempt \in Nat /\ MaximumAttempts[s] \in Nat
  BY LenProperties, StatementAssumption DEF StepRow
<1>2. \A i \in 1..Len(a) : a[i] \in ActivityRow
  BY ElementOfSeq
<1> QED
  BY <1>1, <1>2 DEF ActivityRow

\* A poll takes a pending step that has attempts left; the reports of all earlier
\* attempts come too late from now on.
LEMMA PollRow ==
    ASSUME NEW s \in Steps, NEW r \in StepRow, NEW a \in Seq(ActivityRow),
           StepLog(s, r, a), r.state = "pending",
           NEW q \in StepRow, q.state = "running", q.attempt = r.attempt + 1
    PROVE  /\ StepLog(s, q, a) /\ NoRecord(q, a) /\ Len(a) < Limit(s)
           /\ \A t : TaskOf(t, s, a) /\ TaskLog(t, r, a) => TaskLog(t, q, a)
<1>1. /\ Len(a) \in Nat /\ r.attempt \in Nat /\ MaximumAttempts[s] \in Nat
      /\ \A i \in 1..Len(a) : a[i].attempt \in Nat
      /\ Len(a) > 0 => Len(a) \in 1..Len(a)
  BY LogValues
<1>2. \A i \in 1..Len(a) : a[i].attempt < r.attempt
  BY DEF StepLog
<1>3. Len(a) <= r.attempt /\ (Len(a) > 0 => r.attempt < MaximumAttempts[s])
  BY DEF StepLog
<1>4. NoRecord(q, a)
  BY <1>1, <1>2 DEF NoRecord
<1>5. StepLog(s, q, a)
  BY <1>1, <1>2, <1>3 DEF StepLog
<1>6. Len(a) < Limit(s)
  BY <1>1, <1>3 DEF Limit
<1>7. ASSUME NEW t, TaskOf(t, s, a), TaskLog(t, r, a)
      PROVE  TaskLog(t, q, a)
  <2>1. t.n \in 1..Len(a) /\ t.outcome \in {"none", "completed", "failed"}
    BY <1>7 DEF TaskOf, Task
  <2>2. t.outcome = "failed"
    BY <1>7, <2>1 DEF TaskLog
  <2>3. TooLate(t, q, a)
    BY <1>1, <1>2, <2>1 DEF TooLate
  <2> QED
    BY <2>2, <2>3 DEF TaskLog
<1> QED
  BY <1>4, <1>5, <1>6, <1>7

\* The attempt is recorded, with a number above all others.
LEMMA RecordRow ==
    ASSUME NEW s \in Steps, NEW r \in StepRow, NEW a \in Seq(ActivityRow),
           StepLog(s, r, a), NoRecord(r, a),
           NEW b \in Seq(ActivityRow),
           b = Append(a, [attempt |-> r.attempt, state |-> "running"])
    PROVE  /\ StepLog(s, r, b) /\ ~NoRecord(r, b) /\ Len(b) = Len(a) + 1
           /\ b[Len(b)].attempt = r.attempt
           /\ \A t : TaskOf(t, s, a) /\ TaskLog(t, r, a) => TaskLog(t, r, b)
<1>1. /\ Len(a) \in Nat /\ r.attempt \in Nat /\ MaximumAttempts[s] \in Nat
      /\ \A i \in 1..Len(a) : a[i].attempt \in Nat
      /\ Len(a) > 0 => Len(a) \in 1..Len(a)
  BY LogValues
<1>2. /\ Len(a) < r.attempt /\ \A i \in 1..Len(a) : a[i].attempt < r.attempt
      /\ r.state = "running"
  BY DEF StepLog, NoRecord
<1>3. /\ Len(b) = Len(a) + 1
      /\ \A i \in 1..Len(a) : b[i] = a[i]
      /\ b[Len(a) + 1] = [attempt |-> r.attempt, state |-> "running"]
  BY AppendProperties
<1>4. b[Len(b)].attempt = r.attempt /\ Len(b) > 0
  BY <1>1, <1>3
<1>5. ~NoRecord(r, b)
  BY <1>1, <1>4 DEF NoRecord
<1>6. \A i \in 1..Len(b) : b[i].attempt <= r.attempt
  <2>1. \A i \in 1..Len(b) : i \in 1..Len(a) \/ i = Len(b)
    BY <1>1, <1>3
  <2> QED
    BY <1>1, <1>2, <1>3, <1>4, <2>1
<1>7. StepLog(s, r, b)
  BY <1>1, <1>2, <1>3, <1>5, <1>6 DEF StepLog
<1>8. ASSUME NEW t, TaskOf(t, s, a), TaskLog(t, r, a)
      PROVE  TaskLog(t, r, b)
  <2>1. t.n \in 1..Len(a) /\ t.outcome \in {"none", "completed", "failed"}
    BY <1>8 DEF TaskOf, Task
  <2>2. ~Newest(t, r, a) /\ ~Applied(t, r, a)
    <3>1. a[t.n].attempt < r.attempt
      BY <1>2, <2>1
    <3> QED
      BY <1>1, <1>2, <2>1, <3>1 DEF Newest, Applied
  <2>3. t.outcome = "failed" /\ TooLate(t, r, a)
    BY <1>8, <2>1, <2>2 DEF TaskLog
  <2>4. TooLate(t, r, b)
    BY <1>3, <2>1, <2>3 DEF TooLate
  <2> QED
    BY <2>3, <2>4 DEF TaskLog
<1> QED
  BY <1>3, <1>4, <1>5, <1>7, <1>8

\* Overwriting the state of an attempt changes none of this.
LEMMA MarkRow ==
    ASSUME NEW s \in Steps, NEW r \in StepRow, NEW a \in Seq(ActivityRow), NEW b,
           SameAttempts(a, b)
    PROVE  /\ StepLog(s, r, a) => StepLog(s, r, b)
           /\ NoRecord(r, b) <=> NoRecord(r, a)
           /\ \A t : TaskOf(t, s, a) /\ TaskLog(t, r, a) => TaskLog(t, r, b)
<1>1. /\ Len(a) \in Nat /\ r.attempt \in Nat /\ MaximumAttempts[s] \in Nat
      /\ Len(a) > 0 => Len(a) \in 1..Len(a)
  BY LogValues
<1>2. Len(b) = Len(a) /\ \A i \in 1..Len(a) : b[i].attempt = a[i].attempt
  BY DEF SameAttempts
<1>3. NoRecord(r, b) <=> NoRecord(r, a)
  BY <1>1, <1>2 DEF NoRecord
<1>4. StepLog(s, r, a) => StepLog(s, r, b)
  BY <1>2, <1>3 DEF StepLog
<1>5. ASSUME NEW t, TaskOf(t, s, a), TaskLog(t, r, a)
      PROVE  TaskLog(t, r, b)
  <2>1. t.n \in 1..Len(a) /\ b[t.n].attempt = a[t.n].attempt
    BY <1>2, <1>5 DEF TaskOf
  <2> QED
    BY <1>2, <1>5, <2>1 DEF TaskLog, Newest, Applied, TooLate
<1> QED
  BY <1>3, <1>4, <1>5

\* A completion reaches the step while its attempt is running, or again.
LEMMA CompleteRow ==
    ASSUME NEW s \in Steps, NEW r \in StepRow, NEW a \in Seq(ActivityRow), StepLog(s, r, a),
           NEW t, TaskOf(t, s, a), TaskLog(t, r, a), t.outcome = "completed",
           NEW q \in StepRow, q.state = "completed", q.attempt = r.attempt
    PROVE  /\ StepLog(s, q, a) /\ r.state \in {"running", "completed"} /\ ~NoRecord(r, a)
           /\ TaskLog(t, q, a)
           /\ \A u : TaskOf(u, s, a) /\ u.n # t.n /\ TaskLog(u, r, a) => TaskLog(u, q, a)
<1>1. /\ Len(a) \in Nat /\ r.attempt \in Nat /\ MaximumAttempts[s] \in Nat
      /\ \A i \in 1..Len(a) : a[i].attempt \in Nat
  BY LogValues
<1>2. Newest(t, r, a) /\ r.state \in {"running", "completed"} /\ t.n \in 1..Len(a)
  BY DEF TaskLog, TaskOf
<1>3. ~NoRecord(r, a)
  BY <1>1, <1>2 DEF Newest, NoRecord
<1>4. StepLog(s, q, a)
  BY DEF StepLog, NoRecord
<1>5. TaskLog(t, q, a)
  BY <1>2 DEF TaskLog, Newest
<1>6. ASSUME NEW u, TaskOf(u, s, a), u.n # t.n, TaskLog(u, r, a)
      PROVE  TaskLog(u, q, a)
  <2>1. ~Newest(u, r, a) /\ ~Applied(u, r, a) /\ u.outcome \in {"none", "completed", "failed"}
    BY <1>2, <1>6 DEF Newest, Applied, TaskOf, Task
  <2>2. u.outcome = "failed" /\ TooLate(u, q, a)
    BY <1>6, <2>1 DEF TaskLog, TooLate
  <2> QED
    BY <2>2 DEF TaskLog
<1> QED
  BY <1>2, <1>3, <1>4, <1>5, <1>6

\* A failure that is not overtaken reaches the step while its attempt is running,
\* or finds the row just as it would leave it.
LEMMA FailRow ==
    ASSUME NEW s \in Steps, NEW r \in StepRow, NEW a \in Seq(ActivityRow), StepLog(s, r, a),
           NEW t, TaskOf(t, s, a), TaskLog(t, r, a), t.outcome = "failed",
           ~(r.attempt > a[t.n].attempt + 1),
           NEW q \in StepRow, Applied(t, q, a)
    PROVE  /\ \/ q.state = r.state /\ ~NoRecord(r, a)
              \/ r.state = "running" /\ ~NoRecord(r, a)
           /\ q.state = "pending" => Len(a) < Limit(s)
           /\ q.state \in {"pending", "failed"}
           /\ StepLog(s, q, a) /\ TaskLog(t, q, a)
           /\ \A u : TaskOf(u, s, a) /\ u.n # t.n /\ TaskLog(u, r, a) => TaskLog(u, q, a)
<1>1. /\ Len(a) \in Nat /\ r.attempt \in Nat /\ MaximumAttempts[s] \in Nat
      /\ \A i \in 1..Len(a) : a[i].attempt \in Nat
  BY LogValues
<1>2. t.n \in 1..Len(a) /\ a[t.n].attempt \in Nat /\ t.step = s
  BY <1>1 DEF TaskOf
<1>3. /\ q.attempt = a[t.n].attempt + 1
      /\ q.state = IF q.attempt < MaximumAttempts[s] THEN "pending" ELSE "failed"
  BY <1>2 DEF Applied
<1>4. (Newest(t, r, a) /\ r.state = "running") \/ Applied(t, r, a)
  BY DEF TaskLog, TooLate
<1>5. TaskLog(t, q, a)
  BY DEF TaskLog
<1>6. CASE Newest(t, r, a) /\ r.state = "running"
  <2>1. ~NoRecord(r, a) /\ q.attempt = r.attempt + 1 /\ t.n = Len(a)
    BY <1>1, <1>2, <1>3, <1>6 DEF Newest, NoRecord
  <2>2. /\ Len(a) <= r.attempt
        /\ \A i \in 1..Len(a) : a[i].attempt <= r.attempt
    BY DEF StepLog
  <2>3. Len(a) <= q.attempt /\ \A i \in 1..Len(a) : a[i].attempt < q.attempt
    BY <1>1, <2>1, <2>2
  <2>4. q.state = "pending" => q.attempt < MaximumAttempts[s]
    BY <1>3
  <2>5. StepLog(s, q, a)
    BY <1>1, <1>3, <2>1, <2>3, <2>4 DEF StepLog, NoRecord
  <2>6. q.state = "pending" => Len(a) < Limit(s)
    BY <1>1, <2>1, <2>2, <2>4 DEF Limit
  <2>7. ASSUME NEW u, TaskOf(u, s, a), u.n # t.n, TaskLog(u, r, a)
        PROVE  TaskLog(u, q, a)
    <3>1. ~Newest(u, r, a) /\ ~Applied(u, r, a) /\ u.outcome \in {"none", "completed", "failed"}
          /\ u.n \in 1..Len(a)
      BY <1>6, <2>1, <2>7 DEF Newest, Applied, TaskOf, Task
    <3>2. u.outcome = "failed" /\ TooLate(u, r, a)
      BY <2>7, <3>1 DEF TaskLog
    <3>3. TooLate(u, q, a)
      BY <1>1, <2>1, <3>1, <3>2 DEF TooLate
    <3> QED
      BY <3>2, <3>3 DEF TaskLog
  <2> QED
    BY <1>3, <1>5, <1>6, <2>1, <2>5, <2>6, <2>7
<1>7. CASE Applied(t, r, a)
  <2>1. q.attempt = r.attempt /\ q.state = r.state /\ q.state \in {"pending", "failed"}
    BY <1>2, <1>3, <1>7 DEF Applied
  <2>2. ~NoRecord(r, a) /\ StepLog(s, q, a)
    BY <2>1 DEF StepLog, NoRecord
  <2>3. q.state = "pending" => Len(a) < Limit(s)
    BY <1>1, <2>1 DEF StepLog, Limit
  <2>4. \A u : TaskLog(u, r, a) => TaskLog(u, q, a)
    BY <2>1 DEF TaskLog, Newest, Applied, TooLate
  <2> QED
    BY <1>5, <2>1, <2>2, <2>3, <2>4
<1> QED
  BY <1>4, <1>6, <1>7

-----------------------------------------------------------------------------
(* Where runs, steps and events come from: nothing is known of a run that  *)
(* was not started, and a start that is under way has nobody interfering.  *)

NotInserted(w, i, rows) ==
    \A s \in StepsOf(w) : StepIndex[s] >= i => rows[s].state = "none"

\* The Temporal handler is inserting steps: nobody has an event for the run yet,
\* and it is not one of the scheduler's.
InsertOK ==
    grpc.at = "insert" =>
        /\ NotInserted(grpc.run, grpc.index, steps)
        /\ workflows[grpc.run] = "pending"
        /\ grpc.run \notin scheduled
        /\ ~Queued(grpc.run)
        /\ engine # Idle => engine.run # grpc.run

StartsOK ==
    /\ \A s \in Steps : steps[s].state # "none" => workflows[RunOf[s]] # "none"
    /\ \A s \in Steps : Len(activities[s]) > 0 => steps[s].state # "none"
    /\ \A w \in Workflows : Queued(w) => workflows[w] # "none"
    /\ \A w \in scheduled : workflows[w] # "none"
    /\ engine # Idle => workflows[engine.run] # "none"
    /\ grpc.at = "insertActivity" => steps[grpc.step].state # "none"
    /\ InsertOK
    /\ sched.at = "insert" => NotInserted(sched.run, sched.index, steps)

-----------------------------------------------------------------------------
(* The inductive invariant.                                                *)

StepsTracked == \A s \in Steps : StepLog(s, steps[s], activities[s])

TasksTracked == \A t \in tasks : TaskLog(t, steps[t.step], activities[t.step])

\* A poll that is under way has the row of its step to itself.
PollTracked ==
    LET s == grpc.step IN
    /\ grpc.at = "insertActivity" => NoRecord(steps[s], activities[s])
    /\ grpc.at = "updateWorkflow" =>
         /\ steps[s].state = "running"
         /\ activities[s][Len(activities[s])].attempt = steps[s].attempt

Tracked == StepsTracked /\ TasksTracked /\ PollTracked

\* What the engine wrote, or is about to write, still holds: for the runs that
\* clients started, whose steps are all there before the engine hears of them.
VerdictsTracked ==
    /\ \A w \in Workflows :
         w \notin scheduled /\ workflows[w] = "completed" => AllCompleted(w)
    /\ engine.at = "settle" =>
         /\ engine.verdict = "failed" => HasStep(engine.run, "failed")
         /\ engine.verdict = "completed" /\ engine.run \notin scheduled =>
              AllCompleted(engine.run)

StatementInvariant ==
    /\ TypesOK /\ StartsOK
    /\ ~overtaken => Tracked /\ VerdictsTracked
    /\ StatementWakeups

-----------------------------------------------------------------------------
(* Where things come from, action by action.                               *)

\* What an action that inserts no rows does to a start: nothing, or its end.
StartsKept ==
    /\ \A s \in Steps : steps'[s].state = "none" <=> steps[s].state = "none"
    /\ \A s \in Steps : Len(activities'[s]) > 0 => steps[s].state # "none"
    /\ \A w \in Workflows : workflows[w] # "none" => workflows'[w] # "none"
    /\ UNCHANGED scheduled
    /\ \A w \in Workflows : Queued(w)' =>
         Queued(w) \/ (workflows[w] # "none" /\ (grpc.at = "insert" => grpc.run # w))
    /\ engine' # Idle =>
         (engine # Idle /\ engine'.run = engine.run) \/ Queued(engine'.run)
    /\ \/ UNCHANGED grpc /\ (grpc.at = "insert" => workflows'[grpc.run] = workflows[grpc.run])
       \/ grpc'.at \notin {"insert", "insertActivity"}
       \/ grpc'.at = "insertActivity" /\ grpc'.step \in Steps /\ steps[grpc'.step].state # "none"
    /\ sched' \in {sched, Idle}

LEMMA StartsFromKept ==
    ASSUME TypesOK, TypesOK', StartsOK, StartsKept
    PROVE  StartsOK'
<1>1. /\ engine' # Idle => engine'.run \in Workflows
      /\ grpc.at = "insert" => grpc.run \in Workflows
      /\ \A s \in Steps : RunOf[s] \in Workflows
      /\ scheduled \subseteq Workflows
  <2>1. EngineOK' => (engine' # Idle => engine'.run \in Workflows)
    BY DEF EngineOK, Idle, Process
  <2> QED
    BY <2>1, GrpcShape, StatementAssumption DEF TypesOK, RowsOK
<1>2. /\ \A s \in Steps : steps'[s].state # "none" => workflows'[RunOf[s]] # "none"
      /\ \A s \in Steps : Len(activities'[s]) > 0 => steps'[s].state # "none"
      /\ \A w \in scheduled' : workflows'[w] # "none"
  BY <1>1 DEF StartsOK, StartsKept
<1>3. \A w \in Workflows : Queued(w)' => workflows'[w] # "none"
  BY DEF StartsOK, StartsKept
<1>4. engine' # Idle => workflows'[engine'.run] # "none"
  <2>1. ASSUME engine' # Idle
        PROVE  workflows[engine'.run] # "none"
    BY <1>1, <2>1 DEF StartsOK, StartsKept
  <2> QED
    BY <1>1, <2>1 DEF StartsKept
<1>5. \A w, i : NotInserted(w, i, steps) => NotInserted(w, i, steps')
  BY DEF NotInserted, StepsOf, StartsKept
<1>6. InsertOK'
  <2> SUFFICES ASSUME grpc'.at = "insert"
               PROVE  InsertOK'
    BY DEF InsertOK
  <2>1. grpc' = grpc /\ workflows'[grpc.run] = workflows[grpc.run] /\ grpc.at = "insert"
    BY DEF StartsKept
  <2>2. /\ NotInserted(grpc.run, grpc.index, steps')
        /\ workflows'[grpc.run] = "pending"
        /\ grpc.run \notin scheduled'
        /\ ~Queued(grpc.run)
        /\ engine # Idle => engine.run # grpc.run
    BY <1>5, <2>1 DEF StartsOK, InsertOK, StartsKept
  <2>3. ~Queued(grpc.run)'
    BY <1>1, <2>1, <2>2 DEF StartsKept
  <2>4. engine' # Idle => engine'.run # grpc.run
    BY <2>2 DEF StartsKept
  <2> QED
    BY <2>1, <2>2, <2>3, <2>4 DEF InsertOK
<1>7. grpc'.at = "insertActivity" => steps'[grpc'.step].state # "none"
  BY GrpcShape DEF TypesOK, StartsOK, StartsKept
<1>8. sched'.at = "insert" => NotInserted(sched'.run, sched'.index, steps')
  BY <1>5 DEF StartsOK, StartsKept, Idle
<1> QED
  BY <1>2, <1>3, <1>4, <1>6, <1>7, <1>8 DEF StartsOK

LEMMA StartStarts ==
    ASSUME TypesOK, StartsOK, NEW w \in Workflows, StartWorkflowExecution(w)
    PROVE  StartsOK'
<1> USE DEF StartWorkflowExecution, InsertRow
<1>1. /\ workflows \in [Workflows -> {"none", "pending", "running"} \union Terminal]
      /\ \A s \in Steps : RunOf[s] \in Workflows
      /\ scheduled \subseteq Workflows
      /\ engine # Idle => engine.run \in Workflows
  BY EngineShape, StatementAssumption DEF TypesOK, RowsOK
<1>2. workflows'[w] = "pending" /\ \A x \in Workflows \ {w} : workflows'[x] = workflows[x]
  BY <1>1
<1>3. \A s \in StepsOf(w) : steps[s].state = "none"
  BY DEF StartsOK, StepsOf
<1>4. grpc'.at = "insert" /\ grpc'.run = w /\ grpc'.index = 0
  BY DEF Start
<1>5. InsertOK'
  BY <1>2, <1>3, <1>4 DEF StartsOK, InsertOK, NotInserted, Queued
<1>6. sched'.at = "insert" => NotInserted(sched'.run, sched'.index, steps')
  BY DEF StartsOK, NotInserted
<1>7. \A x : Queued(x)' <=> Queued(x)
  BY DEF Queued
<1>8. UNCHANGED <<scheduled, steps, activities, engine>>
  OBVIOUS
<1> HIDE DEF StartWorkflowExecution, InsertRow
<1> QED
  BY <1>1, <1>2, <1>4, <1>5, <1>6, <1>7, <1>8 DEF StartsOK

LEMMA StartNextStarts ==
    ASSUME TypesOK, StartsOK, StartNextStep
    PROVE  StartsOK'
<1> USE DEF StartNextStep, InsertStep
<1> DEFINE w == grpc.run
           i == grpc.index
<1>1. w \in Workflows /\ i \in Nat
  BY GrpcShape DEF TypesOK
<1>2. /\ NotInserted(w, i, steps) /\ workflows[w] = "pending" /\ w \notin scheduled /\ ~Queued(w)
      /\ engine # Idle => engine.run # w
  BY DEF StartsOK, InsertOK
<1>3. \A s \in Steps : steps'[s] = IF RunOf[s] = w /\ StepIndex[s] = i
                                   THEN [state |-> "pending", attempt |-> 0, retry |-> "null"]
                                   ELSE steps[s]
  OBVIOUS
<1>4. /\ \A s \in Steps : steps'[s].state # "none" => workflows'[RunOf[s]] # "none"
      /\ \A s \in Steps : Len(activities'[s]) > 0 => steps'[s].state # "none"
  BY <1>2, <1>3 DEF StartsOK
<1>5. InsertOK'
  <2>1. CASE grpc' = Idle
    BY <2>1 DEF InsertOK, Idle
  <2>2. CASE grpc' # Idle
    <3>1. grpc' = Start(w, i + 1)
      BY <2>2
    <3>2. grpc'.run = w /\ grpc'.index = i + 1
      BY <3>1 DEF Start
    <3>3. NotInserted(w, i + 1, steps')
      <4>1. ASSUME NEW s \in StepsOf(w), StepIndex[s] >= i + 1
            PROVE  steps'[s].state = "none"
        <5>1. s \in Steps /\ StepIndex[s] \in Nat
          BY StatementAssumption DEF StepsOf
        <5>2. StepIndex[s] >= i /\ StepIndex[s] # i
          BY <1>1, <4>1, <5>1
        <5>3. steps'[s] = steps[s]
          BY <1>3, <5>1, <5>2
        <5> QED
          BY <1>2, <5>2, <5>3 DEF NotInserted
      <4> HIDE DEF StartNextStep, InsertStep
      <4> QED
        BY <4>1 DEF NotInserted
    <3>4. UNCHANGED <<workflows, scheduled, engine, queue>>
      OBVIOUS
    <3> HIDE DEF w, i, StartNextStep, InsertStep
    <3> QED
      BY <1>2, <3>2, <3>3, <3>4 DEF InsertOK, Queued
  <2> QED
    BY <2>1, <2>2
<1>6. sched'.at = "insert" => NotInserted(sched'.run, sched'.index, steps')
  <2>1. sched.at = "insert" => sched.run # w
    BY <1>2, SchedShape DEF TypesOK
  <2>2. sched' = sched
    OBVIOUS
  <2> HIDE DEF w, i, StartNextStep, InsertStep
  <2> QED
    BY <1>3, <2>1, <2>2 DEF StartsOK, NotInserted, StepsOf
<1>7. grpc'.at # "insertActivity"
  BY DEF Idle, Start
<1>8. UNCHANGED <<workflows, scheduled, engine, queue>>
  OBVIOUS
<1> HIDE DEF w, i, StartNextStep, InsertStep
<1> QED
  BY <1>4, <1>5, <1>6, <1>7, <1>8 DEF StartsOK, Queued

LEMMA ScheduleStarts ==
    ASSUME TypesOK, StartsOK, NEW w \in Workflows, StartScheduleWorkflow(w)
    PROVE  StartsOK'
<1> USE DEF StartScheduleWorkflow, InsertRow
<1>1. /\ workflows \in [Workflows -> {"none", "pending", "running"} \union Terminal]
      /\ \A s \in Steps : RunOf[s] \in Workflows
      /\ scheduled \subseteq Workflows
      /\ engine # Idle => engine.run \in Workflows
      /\ grpc.at = "insert" => grpc.run \in Workflows
  BY EngineShape, GrpcShape, StatementAssumption DEF TypesOK, RowsOK
<1>2. workflows'[w] = "pending" /\ \A x \in Workflows \ {w} : workflows'[x] = workflows[x]
  BY <1>1
<1>3. \A s \in StepsOf(w) : steps[s].state = "none"
  BY DEF StartsOK, StepsOf
<1>4. sched'.at = "insert" /\ sched'.run = w /\ sched'.index = 0
  BY DEF Start
<1>5. NotInserted(w, 0, steps')
  BY <1>3 DEF NotInserted
<1>6. InsertOK'
  <2> SUFFICES ASSUME grpc.at = "insert"
               PROVE  InsertOK'
    BY DEF InsertOK
  <2>1. /\ NotInserted(grpc.run, grpc.index, steps) /\ workflows[grpc.run] = "pending"
        /\ grpc.run \notin scheduled /\ ~Queued(grpc.run)
        /\ engine # Idle => engine.run # grpc.run
    BY DEF StartsOK, InsertOK
  <2>2. grpc.run # w /\ workflows'[grpc.run] = "pending"
    BY <1>1, <1>2, <2>1
  <2> QED
    BY <2>1, <2>2 DEF InsertOK, NotInserted, Queued
<1>7. UNCHANGED <<steps, activities, engine, queue, grpc>> /\ scheduled' = scheduled \union {w}
  OBVIOUS
<1> HIDE DEF StartScheduleWorkflow, InsertRow
<1> QED
  BY <1>1, <1>2, <1>4, <1>5, <1>6, <1>7 DEF StartsOK, Queued

LEMMA ScheduleNextStarts ==
    ASSUME TypesOK, StartsOK, ScheduleNextStep
    PROVE  StartsOK'
<1> USE DEF ScheduleNextStep, InsertStep
<1> DEFINE w == sched.run
           i == sched.index
<1>1. w \in scheduled /\ w \in Workflows /\ i \in Nat
  BY SchedShape DEF TypesOK, RowsOK
<1>2. NotInserted(w, i, steps) /\ workflows[w] # "none"
  BY <1>1 DEF StartsOK
<1>3. \A s \in Steps : steps'[s] = IF RunOf[s] = w /\ StepIndex[s] = i
                                   THEN [state |-> "pending", attempt |-> 0, retry |-> "null"]
                                   ELSE steps[s]
  OBVIOUS
<1>4. /\ \A s \in Steps : steps'[s].state # "none" => workflows'[RunOf[s]] # "none"
      /\ \A s \in Steps : Len(activities'[s]) > 0 => steps'[s].state # "none"
  BY <1>2, <1>3 DEF StartsOK
<1>5. NotInserted(w, i + 1, steps')
  <2>1. ASSUME NEW s \in StepsOf(w), StepIndex[s] >= i + 1
        PROVE  steps'[s].state = "none"
    <3>1. s \in Steps /\ StepIndex[s] \in Nat
      BY StatementAssumption DEF StepsOf
    <3>2. StepIndex[s] >= i /\ StepIndex[s] # i
      BY <1>1, <2>1, <3>1
    <3>3. steps'[s] = steps[s]
      BY <1>3, <3>1, <3>2
    <3> QED
      BY <1>2, <3>2, <3>3 DEF NotInserted
  <2> HIDE DEF w, i, ScheduleNextStep, InsertStep
  <2> QED
    BY <2>1 DEF NotInserted
<1>6. sched'.run = w /\ sched'.index = i + 1
  BY DEF Start
<1>7. InsertOK'
  <2> SUFFICES ASSUME grpc.at = "insert"
               PROVE  InsertOK'
    BY DEF InsertOK
  <2>1. /\ NotInserted(grpc.run, grpc.index, steps) /\ workflows[grpc.run] = "pending"
        /\ grpc.run \notin scheduled /\ ~Queued(grpc.run)
        /\ engine # Idle => engine.run # grpc.run
    BY DEF StartsOK, InsertOK
  <2>2. NotInserted(grpc.run, grpc.index, steps')
    BY <1>1, <1>3, <2>1 DEF NotInserted, StepsOf
  <2> QED
    BY <2>1, <2>2 DEF InsertOK, Queued
<1>8. grpc.at = "insertActivity" => steps'[grpc.step].state # "none"
  BY <1>3, GrpcShape DEF TypesOK, StartsOK
<1>9. UNCHANGED <<workflows, scheduled, grpc, engine, queue>>
  OBVIOUS
<1> HIDE DEF w, i, ScheduleNextStep, InsertStep
<1> QED
  BY <1>4, <1>5, <1>6, <1>7, <1>8, <1>9 DEF StartsOK, Queued

\* The other actions leave what was inserted inserted, and send events only for
\* runs that have a step in the hands of a worker or belong to the scheduler.
LEMMA QuietStarts ==
    ASSUME TypesOK, TypesOK', StartsOK,
           UNCHANGED <<workflows, scheduled, steps, activities>>,
           \A w \in Workflows : Queued(w)' =>
             Queued(w) \/ (workflows[w] # "none" /\ (grpc.at = "insert" => grpc.run # w)),
           engine' # Idle =>
             (engine # Idle /\ engine'.run = engine.run) \/ Queued(engine'.run),
           UNCHANGED grpc \/ grpc'.at \notin {"insert", "insertActivity"},
           sched' \in {sched, Idle}
    PROVE  StartsOK'
<1>1. StartsKept
  BY DEF StartsOK, StartsKept
<1> QED
  BY <1>1, StartsFromKept

LEMMA MutexStarts ==
    ASSUME TypesOK, TypesOK', StartsOK,
           PollInsertActivity \/ PollAnswer \/ CompleteUpdateStep \/ FailUpdateStep
    PROVE  StartsOK'
<1>0. \A s \in Steps : steps \in [Steps -> StepRow] /\ RunOf[s] \in Workflows
  BY StatementAssumption DEF TypesOK, RowsOK
<1>1. /\ UNCHANGED <<scheduled, engine, sched, queue>>
      /\ grpc'.at \notin {"insert", "insertActivity"}
  BY DEF PollInsertActivity, PollAnswer, CompleteUpdateStep, FailUpdateStep, Poll, Report, Idle
<1>2. \A w \in Workflows : workflows[w] # "none" => workflows'[w] # "none"
  BY DEF TypesOK, RowsOK, PollInsertActivity, PollAnswer, CompleteUpdateStep, FailUpdateStep
<1>3. grpc.at \in {"updateStep", "send"} =>
         grpc.task.step \in Steps /\ steps[grpc.task.step].state # "none"
  <2> SUFFICES ASSUME grpc.at \in {"updateStep", "send"}
               PROVE  grpc.task.step \in Steps /\ steps[grpc.task.step].state # "none"
    OBVIOUS
  <2>1. grpc.task.step \in Steps /\ grpc.task.n \in 1..Len(activities[grpc.task.step])
    BY GrpcShape DEF TypesOK, TasksOK, Task
  <2>2. Len(activities[grpc.task.step]) \in Nat
    BY <2>1, LenProperties DEF TypesOK, RowsOK
  <2>3. Len(activities[grpc.task.step]) > 0
    BY <2>1, <2>2
  <2> QED
    BY <2>1, <2>3 DEF StartsOK
<1>4. \A s \in Steps : steps'[s].state = "none" <=> steps[s].state = "none"
  <2>1. CASE PollInsertActivity \/ PollAnswer
    BY <2>1 DEF PollInsertActivity, PollAnswer
  <2>2. CASE CompleteUpdateStep
    <3>1. /\ steps' = [steps EXCEPT ![grpc.task.step] =
               [state |-> "completed", attempt |-> steps[grpc.task.step].attempt,
                retry |-> "null"]]
          /\ grpc.at = "updateStep"
      BY <2>2 DEF CompleteUpdateStep
    <3> QED
      BY <1>0, <1>3, <3>1
  <2>3. CASE FailUpdateStep
    <3>1. PICK row \in [state : {"pending", "failed"}, attempt : {CurrentAttempt(grpc.task)},
                        retry : {"later", "null"}] :
            steps' = [steps EXCEPT ![grpc.task.step] = row] /\ grpc.at = "updateStep"
      BY <2>3 DEF FailUpdateStep
    <3>2. row.state # "none"
      OBVIOUS
    <3> QED
      BY <1>0, <1>3, <3>1, <3>2
  <2> QED
    BY <2>1, <2>2, <2>3
<1>5. \A s \in Steps : Len(activities'[s]) > 0 => steps[s].state # "none"
  <2>1. CASE PollInsertActivity
    <3>1. grpc.at = "insertActivity" /\ \A s \in Steps \ {grpc.step} : activities'[s] = activities[s]
      BY <2>1 DEF PollInsertActivity, TypesOK, RowsOK
    <3>2. steps[grpc.step].state # "none"
      BY <3>1 DEF StartsOK
    <3> QED
      BY <3>1, <3>2 DEF StartsOK
  <2>2. CASE PollAnswer \/ CompleteUpdateStep \/ FailUpdateStep
    <3>1. activities' = activities
      BY <2>2 DEF PollAnswer, CompleteUpdateStep, FailUpdateStep
    <3> QED
      BY <3>1 DEF StartsOK
  <2> QED
    BY <2>1, <2>2
<1>6. \A w \in Workflows : Queued(w)' => Queued(w)
  BY <1>1 DEF Queued
<1>7. StartsKept
  BY <1>1, <1>2, <1>4, <1>5, <1>6 DEF StartsKept
<1> QED
  BY <1>7, StartsFromKept

LEMMA WorkerStarts ==
    ASSUME TypesOK, TypesOK', StartsOK, NEW s \in Steps, Worker(s) \/ RetryDelayElapses(s)
    PROVE  StartsOK'
<1>0. steps \in [Steps -> StepRow]
  BY DEF TypesOK, RowsOK
<1>1. CASE PollStep(s)
  <2>1. /\ UNCHANGED <<workflows, scheduled, activities, engine, sched, queue>>
        /\ grpc' = Poll("insertActivity", s) /\ steps[s].state = "pending"
        /\ steps' = [steps EXCEPT ![s] =
             [state |-> "running", attempt |-> steps[s].attempt + 1, retry |-> "null"]]
    BY <1>1 DEF PollStep, Ready
  <2>2. \A r \in Steps : steps'[r].state = "none" <=> steps[r].state = "none"
    BY <1>0, <2>1
  <2>3. grpc'.at = "insertActivity" /\ grpc'.step = s
    BY <2>1 DEF Poll
  <2>4. StartsKept
    BY <2>1, <2>2, <2>3 DEF StartsKept, StartsOK, Queued
  <2> QED
    BY <2>4, StartsFromKept
<1>2. CASE RetryDelayElapses(s)
  <2>1. /\ UNCHANGED <<workflows, scheduled, activities, grpc, engine, sched, queue>>
        /\ steps' = [steps EXCEPT ![s].retry = "due"]
    BY <1>2 DEF RetryDelayElapses
  <2>2. \A r \in Steps : steps'[r].state = "none" <=> steps[r].state = "none"
    BY <1>0, <2>1 DEF StepRow
  <2>3. StartsKept
    BY <2>1, <2>2 DEF StartsKept, StartsOK, Queued
  <2> QED
    BY <2>3, StartsFromKept
<1>3. CASE \E t \in tasks : t.step = s /\ HandlerEnds(t)
  <2>1. UNCHANGED <<workflows, scheduled, steps, activities, grpc, engine, sched, queue>>
    BY <1>3 DEF HandlerEnds, tables
  <2> QED
    BY <2>1, QuietStarts DEF Queued
<1>4. CASE \E t \in tasks : t.step = s /\ RespondUpdateActivity(t)
  <2>1. PICK t \in tasks : RespondUpdateActivity(t)
    BY <1>4
  <2>2. \A r \in Steps : Len(activities'[r]) = Len(activities[r])
    BY <2>1, RespondMarks DEF SameAttempts
  <2>3. /\ UNCHANGED <<workflows, scheduled, steps, engine, sched, queue>>
        /\ grpc'.at = "updateStep"
    BY <2>1 DEF RespondUpdateActivity, Report
  <2>4. StartsKept
    BY <2>2, <2>3 DEF StartsKept, StartsOK, Queued
  <2> QED
    BY <2>4, StartsFromKept
<1> QED
  BY <1>1, <1>2, <1>3, <1>4 DEF Worker

LEMMA SendStarts ==
    ASSUME TypesOK, TypesOK', StartsOK, RespondSend
    PROVE  StartsOK'
<1> DEFINE w == RunOf[grpc.task.step]
<1>1. /\ w \in Workflows /\ grpc.task.step \in Steps
      /\ grpc.task.n \in 1..Len(activities[grpc.task.step])
      /\ Len(activities[grpc.task.step]) \in Nat
  BY SendTypes, LenProperties DEF TypesOK, RowsOK, TasksOK, Task
<1>2. Len(activities[grpc.task.step]) > 0
  BY <1>1
<1>3. workflows[w] # "none"
  BY <1>1, <1>2 DEF StartsOK
<1>4. \A x : Queued(x)' => Queued(x) \/ x = w
  BY <1>1, NotifyChannel DEF RespondSend, TypesOK
<1>5. /\ UNCHANGED <<workflows, scheduled, steps, activities, engine, sched>>
      /\ grpc'.at = "idle" /\ grpc.at = "send"
  BY DEF RespondSend, tables, Idle
<1> QED
  BY <1>3, <1>4, <1>5, QuietStarts

LEMMA ScheduleNotifyStarts ==
    ASSUME TypesOK, TypesOK', StartsOK, ScheduleNotify
    PROVE  StartsOK'
<1>1. sched.run \in Workflows /\ workflows[sched.run] # "none" /\ sched.run \in scheduled
  BY ScheduleNotifyTypes DEF StartsOK
<1>2. \A x : Queued(x)' => Queued(x) \/ x = sched.run
  BY <1>1, NotifyChannel DEF ScheduleNotify, TypesOK
<1>3. UNCHANGED <<workflows, scheduled, steps, activities, engine, grpc>> /\ sched' = Idle
  BY DEF ScheduleNotify, tables
<1>4. grpc.at = "insert" => grpc.run # sched.run
  BY <1>1 DEF StartsOK, InsertOK
<1> QED
  BY <1>1, <1>2, <1>3, <1>4, QuietStarts

LEMMA CancelStarts ==
    ASSUME TypesOK, TypesOK', StartsOK, NEW w \in Workflows, CancelWorkflow(w)
    PROVE  StartsOK'
<1>1. /\ UNCHANGED <<scheduled, steps, activities, grpc, engine, sched, queue>>
      /\ grpc.at = "idle"
  BY DEF CancelWorkflow, Idle
<1>2. \A x \in Workflows : workflows[x] # "none" => workflows'[x] # "none"
  BY DEF CancelWorkflow, TypesOK, RowsOK
<1>3. StartsKept
  BY <1>1, <1>2 DEF StartsKept, StartsOK, Queued
<1> QED
  BY <1>3, StartsFromKept

LEMMA EngineStarts ==
    ASSUME TypesOK, TypesOK', StartsOK, Engine
    PROVE  StartsOK'
<1>1. UNCHANGED <<scheduled, steps, activities, grpc, sched>>
  BY DEF Engine, EngineBegin, EngineNext, EngineCount, EngineSettle, tables
<1>2. CASE EngineBegin
  <2>1. /\ Head(queue) \in Workflows /\ Queued(Head(queue))
        /\ \A x : Queued(x)' => Queued(x)
    BY <1>2, ReceiveChannel DEF EngineBegin, TypesOK
  <2>2. engine'.run = Head(queue)
    BY <1>2 DEF EngineBegin, Process
  <2>3. \A x \in Workflows : /\ workflows[x] # "none" => workflows'[x] # "none"
                             /\ x # Head(queue) => workflows'[x] = workflows[x]
    BY <1>2 DEF EngineBegin, TypesOK, RowsOK
  <2>4. grpc.at = "insert" => grpc.run \in Workflows /\ grpc.run # Head(queue)
    BY <2>1, GrpcShape DEF TypesOK, StartsOK, InsertOK
  <2>5. StartsKept
    BY <1>1, <2>1, <2>2, <2>3, <2>4 DEF StartsKept, StartsOK
  <2> QED
    BY <2>5, StartsFromKept
<1>3. CASE EngineNext \/ EngineCount
  <2>1. UNCHANGED <<workflows, queue>> /\ (engine' = Idle \/ (engine' # Idle /\ engine'.run = engine.run))
    BY <1>3 DEF EngineNext, EngineCount, tables, Process
  <2>2. engine # Idle
    BY <1>3, EngineShape DEF TypesOK, EngineNext, EngineCount
  <2> QED
    BY <1>1, <2>1, <2>2, QuietStarts DEF Queued
<1>4. CASE EngineSettle
  <2>1. engine # Idle /\ engine.run \in Workflows /\ engine.verdict \in {"completed", "failed"}
    BY <1>4, EngineShape DEF TypesOK, EngineSettle
  <2>2. engine' = Idle /\ UNCHANGED queue
    BY <1>4 DEF EngineSettle
  <2>3. \A x \in Workflows : /\ workflows[x] # "none" => workflows'[x] # "none"
                             /\ x # engine.run => workflows'[x] = workflows[x]
    BY <1>4, <2>1 DEF EngineSettle, TypesOK, RowsOK
  <2>4. grpc.at = "insert" => grpc.run \in Workflows /\ grpc.run # engine.run
    BY <2>1, GrpcShape DEF TypesOK, StartsOK, InsertOK
  <2>5. StartsKept
    BY <1>1, <2>2, <2>3, <2>4 DEF StartsKept, StartsOK, Queued
  <2> QED
    BY <2>5, StartsFromKept
<1> QED
  BY <1>2, <1>3, <1>4 DEF Engine

LEMMA FaultsStarts ==
    ASSUME TypesOK, TypesOK', StartsOK, Faults
    PROVE  StartsOK'
<1>1. /\ UNCHANGED <<workflows, scheduled, steps, activities>>
      /\ queue' \in {queue, <<>>}
      /\ engine' \in {engine, Idle} /\ grpc' \in {grpc, Idle} /\ sched' \in {sched, Idle}
  BY DEF Faults, HandlerError, EngineError, SchedulerError, Restart, tables
<1>2. \A w : Queued(w)' => Queued(w)
  BY <1>1 DEF Queued
<1> QED
  BY <1>1, <1>2, QuietStarts DEF Idle

LEMMA StartsStep == TypesOK /\ StartsOK /\ [Next]_vars => StartsOK'
<1> SUFFICES ASSUME TypesOK, StartsOK, [Next]_vars
             PROVE  StartsOK'
  OBVIOUS
<1>1. TypesOK'
  BY TypesStep
<1>2. CASE Next
  BY <1>1, <1>2, StartStarts, CancelStarts, ScheduleStarts, StartNextStarts, MutexStarts,
     SendStarts, EngineStarts, ScheduleNextStarts, ScheduleNotifyStarts, WorkerStarts,
     FaultsStarts
  DEF Next, Client, Mutex, SchedulerTask
<1>3. CASE UNCHANGED vars
  BY <1>1, <1>3, QuietStarts DEF vars, tables, Queued
<1> QED
  BY <1>2, <1>3

LEMMA StartsInit == Init => StartsOK
BY DEF Init, StartsOK, InsertOK, Queued, Idle

-----------------------------------------------------------------------------
(* The rows and the log, action by action, until a report is overtaken.    *)

\* The leases of a step that its row and its log stand for.
Taken(r, a) == Len(a) + IF NoRecord(r, a) THEN 1 ELSE 0

\* Row and log of s go from r and a to q and b.
Kept(r, a, q, b) == q.state = r.state /\ Taken(q, b) = Taken(r, a)

Created(r, a, q, b) ==
    r.state = "none" /\ q.state = "pending" /\ Taken(q, b) = Taken(r, a)

Acquired(s, r, a, q, b) ==
    /\ r.state = "pending" /\ q.state = "running"
    /\ Taken(q, b) = Taken(r, a) + 1 /\ Taken(r, a) < Limit(s)

Released(s, r, a, q, b) ==
    /\ r.state = "running" /\ q.state \in {"pending", "completed", "failed"}
    /\ Taken(q, b) = Taken(r, a)
    /\ q.state = "pending" => Taken(r, a) < Limit(s)

StepKept(s) == Kept(steps[s], activities[s], steps'[s], activities'[s])

\* What a statement does to all steps, if it inserts none.
LeaseTurns ==
    \/ \A s \in Steps : StepKept(s)
    \/ \E s \in Steps :
         /\ \A r \in Steps \ {s} : StepKept(r)
         /\ \/ Acquired(s, steps[s], activities[s], steps'[s], activities'[s])
            \/ Released(s, steps[s], activities[s], steps'[s], activities'[s])

LeaseMoves ==
    \/ LeaseTurns
    \/ \A s \in Steps :
         StepKept(s) \/ Created(steps[s], activities[s], steps'[s], activities'[s])

\* Only the state and the attempt of a row count.
LEMMA SameRow ==
    ASSUME NEW r, NEW q, q.state = r.state, q.attempt = r.attempt
    PROVE  \A s, t, a : /\ NoRecord(q, a) <=> NoRecord(r, a)
                        /\ StepLog(s, r, a) => StepLog(s, q, a)
                        /\ TaskLog(t, r, a) => TaskLog(t, q, a)
<1>1. \A a : NoRecord(q, a) <=> NoRecord(r, a)
  BY DEF NoRecord
<1>2. \A s, a : StepLog(s, r, a) => StepLog(s, q, a)
  BY <1>1 DEF StepLog
<1>3. \A t, a : TaskLog(t, r, a) => TaskLog(t, q, a)
  BY DEF TaskLog, Newest, Applied, TooLate
<1> QED
  BY <1>1, <1>2, <1>3

\* Statements that change neither the state nor the attempt of a row.
LEMMA QuietTracked ==
    ASSUME TypesOK, TypesOK', Tracked,
           \A s \in Steps : /\ steps'[s].state = steps[s].state
                            /\ steps'[s].attempt = steps[s].attempt
                            /\ SameAttempts(activities[s], activities'[s]),
           \A t \in tasks' : /\ t \in Task /\ t.n \in 1..Len(activities[t.step])
                             /\ TaskLog(t, steps[t.step], activities[t.step]),
           UNCHANGED grpc \/ grpc'.at \notin {"insertActivity", "updateWorkflow"}
    PROVE  Tracked' /\ \A s \in Steps : StepKept(s)
<1>1. /\ steps \in [Steps -> StepRow] /\ steps' \in [Steps -> StepRow]
      /\ activities \in [Steps -> Seq(ActivityRow)]
  BY DEF TypesOK, RowsOK
<1>2. ASSUME NEW s \in Steps
      PROVE  /\ StepLog(s, steps'[s], activities'[s])
             /\ NoRecord(steps'[s], activities'[s]) <=> NoRecord(steps[s], activities[s])
             /\ Len(activities'[s]) = Len(activities[s])
             /\ \A t : TaskOf(t, s, activities[s]) /\ TaskLog(t, steps[s], activities[s]) =>
                         TaskLog(t, steps'[s], activities'[s])
  <2> DEFINE r == steps[s]
             q == steps'[s]
             a == activities[s]
             b == activities'[s]
  <2>1. r \in StepRow /\ q \in StepRow /\ a \in Seq(ActivityRow) /\ SameAttempts(a, b)
    BY <1>1
  <2>2. q.state = r.state /\ q.attempt = r.attempt /\ StepLog(s, r, a)
    BY DEF Tracked, StepsTracked
  <2> HIDE DEF r, q, a, b
  <2>3. /\ NoRecord(q, a) <=> NoRecord(r, a)
        /\ StepLog(s, q, a)
        /\ \A t : TaskLog(t, r, a) => TaskLog(t, q, a)
    BY <2>2, SameRow
  <2>4. /\ StepLog(s, q, b) /\ (NoRecord(q, b) <=> NoRecord(q, a))
        /\ \A t : TaskOf(t, s, a) /\ TaskLog(t, q, a) => TaskLog(t, q, b)
    BY <2>1, <2>3, MarkRow
  <2>5. Len(b) = Len(a)
    BY <2>1 DEF SameAttempts
  <2> QED
    BY <2>3, <2>4, <2>5 DEF r, q, a, b
<1>3. StepsTracked'
  BY <1>2 DEF StepsTracked
<1>4. TasksTracked'
  <2>1. ASSUME NEW t \in tasks'
        PROVE  TaskLog(t, steps'[t.step], activities'[t.step])
    <3>1. t.step \in Steps /\ TaskOf(t, t.step, activities[t.step])
      BY DEF Task, TaskOf
    <3> QED
      BY <1>2, <3>1
  <2> QED
    BY <2>1 DEF TasksTracked
<1>5. PollTracked'
  <2>1. CASE grpc'.at \notin {"insertActivity", "updateWorkflow"}
    BY <2>1 DEF PollTracked
  <2>2. CASE grpc'.at = "insertActivity" /\ grpc' = grpc
    <3>1. grpc.step \in Steps /\ NoRecord(steps[grpc.step], activities[grpc.step])
      BY <2>2, GrpcShape DEF TypesOK, Tracked, PollTracked
    <3>2. NoRecord(steps'[grpc.step], activities'[grpc.step])
      BY <1>2, <3>1
    <3> QED
      BY <2>2, <3>2 DEF PollTracked
  <2>3. CASE grpc'.at = "updateWorkflow" /\ grpc' = grpc
    <3> DEFINE s == grpc.step
    <3>1. /\ s \in Steps /\ steps[s].state = "running"
          /\ activities[s][Len(activities[s])].attempt = steps[s].attempt
          /\ Len(activities[s]) > 0
      BY <2>3, GrpcShape DEF TypesOK, FreshOK, Tracked, PollTracked
    <3>2. Len(activities[s]) \in 1..Len(activities[s])
      BY <1>1, <3>1, LenProperties
    <3>3. activities'[s][Len(activities'[s])].attempt = steps'[s].attempt
      BY <1>2, <3>1, <3>2 DEF SameAttempts
    <3>4. steps'[s].state = "running"
      BY <3>1
    <3> QED
      BY <2>3, <3>3, <3>4 DEF PollTracked
  <2> QED
    BY <2>1, <2>2, <2>3
<1>6. \A s \in Steps : StepKept(s)
  BY <1>2 DEF StepKept, Kept, Taken
<1> QED
  BY <1>3, <1>4, <1>5, <1>6 DEF Tracked

\* Statements that leave rows, log and attempts as they are.
LEMMA StillTracked ==
    ASSUME TypesOK, TypesOK', Tracked, UNCHANGED <<steps, activities>>, tasks' \subseteq tasks,
           UNCHANGED grpc \/ grpc'.at \notin {"insertActivity", "updateWorkflow"}
    PROVE  Tracked' /\ \A s \in Steps : StepKept(s)
<1>1. \A s \in Steps : SameAttempts(activities[s], activities'[s])
  BY DEF TypesOK, RowsOK, SameAttempts
<1>2. \A t \in tasks' : /\ t \in Task /\ t.n \in 1..Len(activities[t.step])
                        /\ TaskLog(t, steps[t.step], activities[t.step])
  BY DEF TypesOK, TasksOK, Tracked, TasksTracked
<1> QED
  BY <1>1, <1>2, QuietTracked

\* A step is inserted that has no attempts.
LEMMA InsertTracked ==
    ASSUME TypesOK, TypesOK', Tracked, NEW w, NEW i \in Nat, NotInserted(w, i, steps),
           InsertStep(w, i), UNCHANGED tasks,
           UNCHANGED grpc \/ grpc'.at \notin {"insertActivity", "updateWorkflow"}
    PROVE  Tracked' /\ LeaseMoves
<1> DEFINE fresh == [state |-> "pending", attempt |-> 0, retry |-> "null"]
           new(s) == RunOf[s] = w /\ StepIndex[s] = i
<1>1. /\ activities' = activities
      /\ \A s \in Steps : steps'[s] = IF new(s) THEN fresh ELSE steps[s]
  BY DEF InsertStep
<1>2. \A s \in Steps : Len(activities[s]) \in Nat
  BY LenProperties DEF TypesOK, RowsOK
<1>3. ASSUME NEW s \in Steps, new(s)
      PROVE  /\ steps[s].state = "none" /\ steps'[s] = fresh
             /\ Len(activities[s]) = 0
             /\ \A t \in tasks : t.step # s
  <2>1. s \in StepsOf(w) /\ StepIndex[s] >= i
    BY <1>3 DEF StepsOf
  <2>2. steps[s].state = "none"
    BY <2>1 DEF NotInserted
  <2>3. Len(activities[s]) = 0
    BY <2>2 DEF Tracked, StepsTracked, StepLog
  <2>4. \A t \in tasks : t.step # s
    BY <2>3 DEF TypesOK, TasksOK
  <2> QED
    BY <1>1, <1>3, <2>2, <2>3, <2>4
<1>4. ASSUME NEW s \in Steps, ~new(s)
      PROVE  steps'[s] = steps[s]
  BY <1>1, <1>4
<1>5. fresh.state = "pending" /\ fresh.attempt = 0
  OBVIOUS
<1> HIDE DEF fresh, new
<1>6. ASSUME NEW s \in Steps
      PROVE  StepLog(s, steps'[s], activities'[s])
  <2>1. CASE new(s)
    <3>1. Len(activities[s]) = 0
      BY <1>3, <2>1
    <3>2. StepLog(s, fresh, activities[s])
      BY <1>5, <3>1 DEF StepLog, NoRecord
    <3> QED
      BY <1>1, <1>3, <2>1, <3>2
  <2>2. CASE ~new(s)
    BY <1>1, <1>4, <2>2 DEF Tracked, StepsTracked
  <2> QED
    BY <2>1, <2>2
<1>7. StepsTracked'
  BY <1>6 DEF StepsTracked
<1>8. TasksTracked'
  <2>1. ASSUME NEW t \in tasks
        PROVE  TaskLog(t, steps'[t.step], activities'[t.step])
    <3>1. t.step \in Steps /\ ~new(t.step)
      BY <1>3 DEF TypesOK, TasksOK, Task
    <3> QED
      BY <1>1, <1>4, <3>1 DEF Tracked, TasksTracked
  <2> QED
    BY <2>1 DEF TasksTracked
<1>9. PollTracked'
  <2>1. CASE grpc'.at \notin {"insertActivity", "updateWorkflow"}
    BY <2>1 DEF PollTracked
  <2>2. CASE grpc' = grpc /\ grpc.at \in {"insertActivity", "updateWorkflow"}
    <3>1. grpc.step \in Steps /\ steps[grpc.step].state = "running"
      BY <2>2, GrpcShape DEF TypesOK, Tracked, PollTracked, NoRecord
    <3>2. steps'[grpc.step] = steps[grpc.step]
      BY <1>3, <1>4, <3>1
    <3> QED
      BY <1>1, <2>2, <3>2 DEF Tracked, PollTracked
  <2> QED
    BY <2>1, <2>2
<1>10. LeaseMoves
  <2>1. ASSUME NEW s \in Steps
        PROVE  StepKept(s) \/ Created(steps[s], activities[s], steps'[s], activities'[s])
    <3>1. CASE new(s)
      <4>1. steps[s].state = "none" /\ steps'[s].state = "pending"
        BY <1>3, <1>5, <3>1
      <4>2. ~NoRecord(steps[s], activities[s]) /\ ~NoRecord(steps'[s], activities[s])
        BY <4>1 DEF NoRecord
      <4> QED
        BY <1>1, <4>1, <4>2 DEF Created, Taken
    <3>2. CASE ~new(s)
      BY <1>1, <1>4, <3>2 DEF StepKept, Kept
    <3> QED
      BY <3>1, <3>2
  <2> QED
    BY <2>1 DEF LeaseMoves
<1> QED
  BY <1>7, <1>8, <1>9, <1>10 DEF Tracked

\* Statements about one step.
LEMMA OneTracked ==
    ASSUME TypesOK, TypesOK', Tracked, NEW s \in Steps,
           \A r \in Steps \ {s} : steps'[r] = steps[r] /\ activities'[r] = activities[r],
           StepLog(s, steps'[s], activities'[s]),
           tasks' \subseteq tasks,
           \A t \in tasks : t.step = s => TaskLog(t, steps'[s], activities'[s]),
           grpc'.at \in {"insertActivity", "updateWorkflow"} => grpc'.step = s,
           PollTracked'
    PROVE  Tracked' /\ \A r \in Steps \ {s} : StepKept(r)
<1>1. StepsTracked'
  BY DEF Tracked, StepsTracked
<1>2. \A t \in tasks : t.step \in Steps
  BY DEF TypesOK, TasksOK, Task
<1>3. TasksTracked'
  <2>1. ASSUME NEW t \in tasks'
        PROVE  TaskLog(t, steps'[t.step], activities'[t.step])
    <3>1. CASE t.step = s
      BY <3>1
    <3>2. CASE t.step # s
      BY <1>2, <3>2 DEF Tracked, TasksTracked
    <3> QED
      BY <3>1, <3>2
  <2> QED
    BY <2>1 DEF TasksTracked
<1>4. \A r \in Steps \ {s} : StepKept(r)
  BY DEF StepKept, Kept
<1> QED
  BY <1>1, <1>3, <1>4 DEF Tracked

LEMMA PollStepTracked ==
    ASSUME TypesOK, TypesOK', Tracked, NEW s \in Steps, PollStep(s)
    PROVE  Tracked' /\ LeaseTurns
<1> DEFINE r == steps[s]
           q == [state |-> "running", attempt |-> r.attempt + 1, retry |-> "null"]
           a == activities[s]
<1>1. /\ steps \in [Steps -> StepRow] /\ r \in StepRow /\ a \in Seq(ActivityRow)
      /\ r.state = "pending" /\ StepLog(s, r, a)
  BY DEF TypesOK, RowsOK, PollStep, Ready, Tracked, StepsTracked
<1>2. q \in StepRow /\ q.state = "running" /\ q.attempt = r.attempt + 1
  BY <1>1 DEF StepRow
<1>3. /\ UNCHANGED <<activities, tasks>> /\ steps' = [steps EXCEPT ![s] = q]
      /\ grpc' = Poll("insertActivity", s)
  BY DEF PollStep
<1>4. /\ steps'[s] = q /\ \A x \in Steps \ {s} : steps'[x] = steps[x]
      /\ grpc'.at = "insertActivity" /\ grpc'.step = s
  BY <1>1, <1>3 DEF Poll
<1> HIDE DEF q
<1>5. /\ StepLog(s, q, a) /\ NoRecord(q, a) /\ Len(a) < Limit(s)
      /\ \A t : TaskOf(t, s, a) /\ TaskLog(t, r, a) => TaskLog(t, q, a)
  BY <1>1, <1>2, PollRow
<1>6. \A t \in tasks : t.step = s => TaskLog(t, q, a)
  BY <1>5 DEF TypesOK, TasksOK, TaskOf, Tracked, TasksTracked
<1>7. PollTracked'
  BY <1>3, <1>4, <1>5 DEF PollTracked
<1>8. Tracked' /\ \A x \in Steps \ {s} : StepKept(x)
  BY <1>3, <1>4, <1>5, <1>6, <1>7, OneTracked
<1>9. Acquired(s, steps[s], activities[s], steps'[s], activities'[s])
  <2>1. ~NoRecord(r, a) /\ Len(a) \in Nat
    BY <1>1, LenProperties DEF NoRecord
  <2>2. Taken(r, a) = Len(a) /\ Taken(q, a) = Len(a) + 1
    BY <1>5, <2>1 DEF Taken
  <2> QED
    BY <1>1, <1>2, <1>3, <1>4, <1>5, <2>2 DEF Acquired
<1> QED
  BY <1>8, <1>9 DEF LeaseTurns

LEMMA PollInsertTracked ==
    ASSUME TypesOK, TypesOK', Tracked, PollInsertActivity
    PROVE  Tracked' /\ LeaseTurns
<1> DEFINE s == grpc.step
           r == steps[s]
           a == activities[s]
           b == Append(a, [attempt |-> r.attempt, state |-> "running"])
<1>1. /\ s \in Steps /\ activities \in [Steps -> Seq(ActivityRow)]
      /\ r \in StepRow /\ a \in Seq(ActivityRow)
      /\ StepLog(s, r, a) /\ NoRecord(r, a)
  BY GrpcShape DEF TypesOK, RowsOK, PollInsertActivity, Tracked, StepsTracked, PollTracked
<1>2. /\ UNCHANGED <<steps, tasks>> /\ activities' = [activities EXCEPT ![s] = b]
      /\ grpc' = Poll("updateWorkflow", s)
  BY DEF PollInsertActivity
<1>3. b \in Seq(ActivityRow)
  <2>1. [attempt |-> r.attempt, state |-> "running"] \in ActivityRow
    BY <1>1 DEF StepRow, ActivityRow
  <2> QED
    BY <1>1, <2>1, AppendProperties
<1>4. /\ activities'[s] = b /\ \A x \in Steps \ {s} : activities'[x] = activities[x]
      /\ grpc'.at = "updateWorkflow" /\ grpc'.step = s
  BY <1>1, <1>2 DEF Poll
<1>5. /\ StepLog(s, r, b) /\ ~NoRecord(r, b) /\ Len(b) = Len(a) + 1
      /\ b[Len(b)].attempt = r.attempt
      /\ \A t : TaskOf(t, s, a) /\ TaskLog(t, r, a) => TaskLog(t, r, b)
  BY <1>1, <1>3, RecordRow
<1>6. r.state = "running"
  BY <1>1 DEF NoRecord
<1>7. \A t \in tasks : t.step = s => TaskLog(t, r, b)
  <2>1. ASSUME NEW t \in tasks, t.step = s
        PROVE  TaskOf(t, s, a) /\ TaskLog(t, r, a)
    BY <2>1 DEF TypesOK, TasksOK, TaskOf, Tracked, TasksTracked
  <2> QED
    BY <1>5, <2>1
<1> HIDE DEF b, a, r, s
<1>8. PollTracked'
  BY <1>2, <1>4, <1>5, <1>6 DEF PollTracked, r
<1>9. Tracked' /\ \A x \in Steps \ {s} : StepKept(x)
  BY <1>1, <1>2, <1>4, <1>5, <1>7, <1>8, OneTracked DEF r
<1>10. StepKept(s)
  <2>1. Len(a) \in Nat /\ Taken(r, a) = Len(a) + 1
    BY <1>1, LenProperties DEF Taken
  <2>2. Taken(r, b) = Len(a) + 1
    BY <1>5, <2>1 DEF Taken
  <2> QED
    BY <1>2, <1>4, <2>1, <2>2 DEF StepKept, Kept, r, a
<1> QED
  BY <1>9, <1>10 DEF LeaseTurns

LEMMA CompleteTracked ==
    ASSUME TypesOK, TypesOK', Tracked, CompleteUpdateStep
    PROVE  Tracked' /\ LeaseTurns
<1> DEFINE t == grpc.task
           s == t.step
           r == steps[s]
           a == activities[s]
           q == [state |-> "completed", attempt |-> r.attempt, retry |-> "null"]
<1>1. /\ t \in tasks /\ s \in Steps /\ TaskOf(t, s, a) /\ TaskLog(t, r, a)
      /\ t.outcome = "completed"
      /\ steps \in [Steps -> StepRow] /\ r \in StepRow /\ a \in Seq(ActivityRow)
      /\ StepLog(s, r, a)
  BY GrpcShape DEF TypesOK, RowsOK, TasksOK, Task, TaskOf, Tracked, StepsTracked, TasksTracked,
     CompleteUpdateStep
<1>2. q \in StepRow /\ q.state = "completed" /\ q.attempt = r.attempt
  BY <1>1 DEF StepRow
<1>3. /\ UNCHANGED <<activities, tasks>> /\ steps' = [steps EXCEPT ![s] = q]
      /\ grpc' = Report("send", t)
  BY DEF CompleteUpdateStep
<1>4. /\ steps'[s] = q /\ \A x \in Steps \ {s} : steps'[x] = steps[x]
      /\ grpc'.at = "send"
  BY <1>1, <1>3 DEF Report
<1>5. \A u \in tasks : u.step = s => TaskOf(u, s, a) /\ TaskLog(u, r, a) /\ (u.n = t.n => u = t)
  BY <1>1 DEF TypesOK, TasksOK, TaskOf, Tracked, TasksTracked
<1> HIDE DEF q, a, r, s, t
<1>6. /\ StepLog(s, q, a) /\ r.state \in {"running", "completed"} /\ ~NoRecord(r, a)
      /\ TaskLog(t, q, a)
      /\ \A u : TaskOf(u, s, a) /\ u.n # t.n /\ TaskLog(u, r, a) => TaskLog(u, q, a)
  BY <1>1, <1>2, CompleteRow
<1>7. \A u \in tasks : u.step = s => TaskLog(u, q, a)
  BY <1>5, <1>6
<1>8. PollTracked'
  BY <1>4 DEF PollTracked
<1>9. Tracked' /\ \A x \in Steps \ {s} : StepKept(x)
  BY <1>1, <1>3, <1>4, <1>6, <1>7, <1>8, OneTracked DEF a
<1>10. ~NoRecord(q, a)
  BY <1>2 DEF NoRecord
<1>11. Taken(q, a) = Taken(r, a)
  BY <1>6, <1>10 DEF Taken
<1>12. CASE r.state = "running"
  <2>1. Released(s, steps[s], activities[s], steps'[s], activities'[s])
    BY <1>2, <1>3, <1>4, <1>11, <1>12 DEF Released, r, a
  <2> QED
    BY <1>1, <1>9, <2>1 DEF LeaseTurns
<1>13. CASE r.state = "completed"
  <2>1. StepKept(s)
    BY <1>2, <1>3, <1>4, <1>11, <1>13 DEF StepKept, Kept, r, a
  <2> QED
    BY <1>9, <2>1 DEF LeaseTurns
<1> QED
  BY <1>6, <1>12, <1>13

LEMMA FailTracked ==
    ASSUME TypesOK, TypesOK', Tracked, FailUpdateStep, ~overtaken'
    PROVE  Tracked' /\ LeaseTurns
<1> DEFINE t == grpc.task
           s == t.step
           r == steps[s]
           a == activities[s]
           q == [state |-> IF ShouldRetry(t) THEN "pending" ELSE "failed",
                 attempt |-> CurrentAttempt(t),
                 retry |-> IF ShouldRetry(t) THEN "later" ELSE "null"]
<1>1. /\ t \in tasks /\ s \in Steps /\ TaskOf(t, s, a) /\ TaskLog(t, r, a)
      /\ t.outcome = "failed"
      /\ steps \in [Steps -> StepRow] /\ r \in StepRow /\ a \in Seq(ActivityRow)
      /\ StepLog(s, r, a)
  BY GrpcShape DEF TypesOK, RowsOK, TasksOK, Task, TaskOf, Tracked, StepsTracked, TasksTracked,
     FailUpdateStep
<1>2. /\ UNCHANGED activities /\ steps' = [steps EXCEPT ![s] = q]
      /\ tasks' \subseteq tasks
      /\ ~(r.attempt > CurrentAttempt(t))
      /\ grpc'.at \in {"idle", "send"}
  <2>1. UNCHANGED activities /\ ~(r.attempt > CurrentAttempt(t))
    BY DEF FailUpdateStep
  <2>2. CASE ShouldRetry(t)
    <3>1. /\ steps' = [steps EXCEPT ![s] =
                [state |-> "pending", attempt |-> CurrentAttempt(t), retry |-> "later"]]
          /\ grpc' = Idle /\ Answer(t)
      BY <2>2 DEF FailUpdateStep
    <3> QED
      BY <2>1, <2>2, <3>1 DEF Answer, Idle
  <2>3. CASE ~ShouldRetry(t)
    <3>1. /\ steps' = [steps EXCEPT ![s] =
                [state |-> "failed", attempt |-> CurrentAttempt(t), retry |-> "null"]]
          /\ grpc' = Report("send", t) /\ UNCHANGED tasks
      BY <2>3 DEF FailUpdateStep
    <3> QED
      BY <2>1, <2>3, <3>1 DEF Report
  <2> QED
    BY <2>2, <2>3
<1>3. q.attempt = a[t.n].attempt + 1 /\ q.state = IF ShouldRetry(t) THEN "pending" ELSE "failed"
  BY DEF CurrentAttempt
<1>4. q \in StepRow
  <2>1. t.n \in 1..Len(a)
    BY <1>1 DEF TaskOf
  <2>2. a[t.n] \in ActivityRow
    BY <1>1, <2>1, ElementOfSeq
  <2> QED
    BY <2>2 DEF CurrentAttempt, ActivityRow, StepRow
<1>5. Applied(t, q, a)
  BY <1>3 DEF Applied, ShouldRetry, CurrentAttempt
<1>6. ~(r.attempt > a[t.n].attempt + 1)
  BY <1>2 DEF CurrentAttempt
<1>7. steps'[s] = q /\ \A x \in Steps \ {s} : steps'[x] = steps[x]
  BY <1>1, <1>2
<1>8. \A u \in tasks : u.step = s => TaskOf(u, s, a) /\ TaskLog(u, r, a) /\ (u.n = t.n => u = t)
  BY <1>1 DEF TypesOK, TasksOK, TaskOf, Tracked, TasksTracked
<1> HIDE DEF q, a, r, s, t
<1>9. /\ \/ q.state = r.state /\ ~NoRecord(r, a)
         \/ r.state = "running" /\ ~NoRecord(r, a)
      /\ q.state = "pending" => Len(a) < Limit(s)
      /\ q.state \in {"pending", "failed"}
      /\ StepLog(s, q, a) /\ TaskLog(t, q, a)
      /\ \A u : TaskOf(u, s, a) /\ u.n # t.n /\ TaskLog(u, r, a) => TaskLog(u, q, a)
  BY <1>1, <1>4, <1>5, <1>6, FailRow
<1>10. \A u \in tasks : u.step = s => TaskLog(u, q, a)
  BY <1>8, <1>9
<1>11. PollTracked'
  BY <1>2 DEF PollTracked
<1>12. Tracked' /\ \A x \in Steps \ {s} : StepKept(x)
  BY <1>1, <1>2, <1>7, <1>9, <1>10, <1>11, OneTracked DEF a
<1>13. ~NoRecord(q, a)
  BY <1>9 DEF NoRecord
<1>14. Len(a) \in Nat /\ Taken(q, a) = Len(a) /\ Taken(r, a) = Len(a)
  BY <1>1, <1>9, <1>13, LenProperties DEF Taken
<1>15. CASE r.state = "running"
  <2>1. Released(s, steps[s], activities[s], steps'[s], activities'[s])
    BY <1>2, <1>7, <1>9, <1>14, <1>15 DEF Released, r, a
  <2> QED
    BY <1>1, <1>12, <2>1 DEF LeaseTurns
<1>16. CASE q.state = r.state
  <2>1. StepKept(s)
    BY <1>2, <1>7, <1>14, <1>16 DEF StepKept, Kept, r, a
  <2> QED
    BY <1>12, <2>1 DEF LeaseTurns
<1> QED
  BY <1>9, <1>15, <1>16

LEMMA AnswerTracked ==
    ASSUME TypesOK, TypesOK', Tracked, PollAnswer
    PROVE  Tracked' /\ \A s \in Steps : StepKept(s)
<1> DEFINE s == grpc.step
           task == [step |-> s, n |-> Len(activities[s]), outcome |-> "none"]
<1>1. /\ grpc.at = "updateWorkflow" /\ grpc'.at = "idle"
      /\ UNCHANGED <<steps, activities>>
      /\ tasks' \subseteq tasks \union {task}
  BY DEF PollAnswer, Idle
<1>2. /\ s \in Steps /\ steps[s].state = "running"
      /\ activities[s][Len(activities[s])].attempt = steps[s].attempt
      /\ Len(activities[s]) > 0 /\ Len(activities[s]) \in Nat
  BY <1>1, GrpcShape, LenProperties DEF TypesOK, RowsOK, FreshOK, Tracked, PollTracked
<1>3. task \in Task /\ task.n \in 1..Len(activities[task.step])
  BY <1>2 DEF Task
<1>4. TaskLog(task, steps[task.step], activities[task.step])
  BY <1>2 DEF TaskLog, Newest
<1>5. \A u \in tasks : /\ u \in Task /\ u.n \in 1..Len(activities[u.step])
                       /\ TaskLog(u, steps[u.step], activities[u.step])
  BY DEF TypesOK, TasksOK, Tracked, TasksTracked
<1>6. \A x \in Steps : SameAttempts(activities[x], activities'[x])
  BY <1>1 DEF TypesOK, RowsOK, SameAttempts
<1> HIDE DEF task, s
<1>7. \A u \in tasks' : /\ u \in Task /\ u.n \in 1..Len(activities[u.step])
                        /\ TaskLog(u, steps[u.step], activities[u.step])
  BY <1>1, <1>3, <1>4, <1>5
<1> QED
  BY <1>1, <1>6, <1>7, QuietTracked

LEMMA HandlerEndsTracked ==
    ASSUME TypesOK, TypesOK', Tracked, NEW t \in tasks, HandlerEnds(t)
    PROVE  Tracked' /\ \A s \in Steps : StepKept(s)
<1>1. PICK outcome \in {"completed", "failed"} :
             tasks' = (tasks \ {t}) \union {[t EXCEPT !.outcome = outcome]}
  BY DEF HandlerEnds
<1> DEFINE u == [t EXCEPT !.outcome = outcome]
<1>2. /\ t \in Task /\ t.n \in 1..Len(activities[t.step]) /\ t.outcome = "none"
      /\ TaskLog(t, steps[t.step], activities[t.step])
  BY DEF TypesOK, TasksOK, Tracked, TasksTracked, HandlerEnds
<1>3. u \in Task /\ u.step = t.step /\ u.n = t.n /\ u.outcome = outcome
  BY <1>2 DEF Task
<1>4. UNCHANGED <<steps, activities, grpc>> /\ tasks' = (tasks \ {t}) \union {u}
  BY <1>1 DEF HandlerEnds, tables
<1> HIDE DEF u
<1>5. TaskLog(u, steps[u.step], activities[u.step])
  BY <1>2, <1>3 DEF TaskLog, Newest
<1>6. \A x \in Steps : SameAttempts(activities[x], activities'[x])
  BY <1>4 DEF TypesOK, RowsOK, SameAttempts
<1>7. \A v \in tasks' : /\ v \in Task /\ v.n \in 1..Len(activities[v.step])
                        /\ TaskLog(v, steps[v.step], activities[v.step])
  BY <1>2, <1>3, <1>4, <1>5 DEF TypesOK, TasksOK, Tracked, TasksTracked
<1> QED
  BY <1>4, <1>6, <1>7, QuietTracked

LEMMA RespondTracked ==
    ASSUME TypesOK, TypesOK', Tracked, NEW t \in tasks, RespondUpdateActivity(t)
    PROVE  Tracked' /\ \A s \in Steps : StepKept(s)
<1>1. \A s \in Steps : SameAttempts(activities[s], activities'[s])
  BY RespondMarks
<1>2. UNCHANGED <<steps, tasks>> /\ grpc'.at = "updateStep"
  BY DEF RespondUpdateActivity, Report
<1>3. \A u \in tasks : /\ u \in Task /\ u.n \in 1..Len(activities[u.step])
                       /\ TaskLog(u, steps[u.step], activities[u.step])
  BY DEF TypesOK, TasksOK, Tracked, TasksTracked
<1> QED
  BY <1>1, <1>2, <1>3, QuietTracked

LEMMA DelayTracked ==
    ASSUME TypesOK, TypesOK', Tracked, NEW s \in Steps, RetryDelayElapses(s)
    PROVE  Tracked' /\ \A r \in Steps : StepKept(r)
<1>1. \A r \in Steps : steps'[r].state = steps[r].state /\ steps'[r].attempt = steps[r].attempt
  BY DEF RetryDelayElapses, TypesOK, RowsOK, StepRow
<1>2. UNCHANGED <<activities, tasks, grpc>>
  BY DEF RetryDelayElapses
<1>3. \A r \in Steps : SameAttempts(activities[r], activities'[r])
  BY <1>2 DEF TypesOK, RowsOK, SameAttempts
<1>4. \A u \in tasks : /\ u \in Task /\ u.n \in 1..Len(activities[u.step])
                       /\ TaskLog(u, steps[u.step], activities[u.step])
  BY DEF TypesOK, TasksOK, Tracked, TasksTracked
<1> QED
  BY <1>1, <1>2, <1>3, <1>4, QuietTracked

\* Every other statement leaves rows and log alone.
LEMMA OthersTracked ==
    ASSUME TypesOK, TypesOK', Tracked,
           \/ \E w \in Workflows :
                StartWorkflowExecution(w) \/ CancelWorkflow(w) \/ StartScheduleWorkflow(w)
           \/ ScheduleNotify \/ RespondSend \/ Engine \/ Faults \/ UNCHANGED vars
    PROVE  Tracked' /\ \A s \in Steps : StepKept(s)
<1>1. UNCHANGED <<steps, activities>>
  BY DEF StartWorkflowExecution, InsertRow, CancelWorkflow, StartScheduleWorkflow, ScheduleNotify,
     RespondSend, Engine, EngineBegin, EngineNext, EngineCount, EngineSettle,
     Faults, HandlerError, EngineError, SchedulerError, Restart, tables, vars
<1>2. tasks' \subseteq tasks
  BY DEF StartWorkflowExecution, InsertRow, CancelWorkflow, StartScheduleWorkflow, ScheduleNotify,
     RespondSend, Answer, Engine, EngineBegin, EngineNext, EngineCount, EngineSettle,
     Faults, HandlerError, EngineError, SchedulerError, Restart, tables, vars
<1>3. UNCHANGED grpc \/ grpc'.at \notin {"insertActivity", "updateWorkflow"}
  BY DEF StartWorkflowExecution, InsertRow, CancelWorkflow, StartScheduleWorkflow, ScheduleNotify,
     RespondSend, Engine, EngineBegin, EngineNext, EngineCount, EngineSettle,
     Faults, HandlerError, EngineError, SchedulerError, Restart, tables, vars, Start, Idle
<1> QED
  BY <1>1, <1>2, <1>3, StillTracked

LEMMA OvertakenStays == [Next]_vars /\ ~overtaken' => ~overtaken
BY DEF Next, Client, Mutex, Engine, SchedulerTask, Worker, Faults, vars, tables,
   StartWorkflowExecution, CancelWorkflow, StartScheduleWorkflow, StartNextStep,
   PollInsertActivity, PollAnswer, CompleteUpdateStep, FailUpdateStep, RespondSend,
   EngineBegin, EngineNext, EngineCount, EngineSettle, ScheduleNextStep, ScheduleNotify,
   PollStep, RetryDelayElapses, HandlerEnds, RespondUpdateActivity,
   HandlerError, EngineError, SchedulerError, Restart

\* Until a report is overtaken, every statement but an insert is a turn of a lease.
LEMMA TurnsStep ==
    ASSUME TypesOK, StartsOK, ~overtaken => Tracked, [Next]_vars, ~overtaken',
           ~StartNextStep, ~ScheduleNextStep
    PROVE  Tracked' /\ LeaseTurns
<1>1. TypesOK'
  BY TypesStep
<1>2. ~overtaken
  BY OvertakenStays
<1>3. Tracked
  BY <1>2
<1>4. (\A s \in Steps : StepKept(s)) => LeaseTurns
  BY DEF LeaseTurns
<1> QED
  BY <1>1, <1>3, <1>4, PollInsertTracked, AnswerTracked, CompleteTracked, FailTracked,
     PollStepTracked, DelayTracked, HandlerEndsTracked, RespondTracked, OthersTracked
  DEF Next, Client, Mutex, SchedulerTask, Worker

LEMMA TrackedStep ==
    ASSUME TypesOK, StartsOK, ~overtaken => Tracked, [Next]_vars, ~overtaken'
    PROVE  Tracked' /\ LeaseMoves
<1>1. TypesOK'
  BY TypesStep
<1>2. CASE StartNextStep
  <2>1. /\ InsertStep(grpc.run, grpc.index) /\ UNCHANGED <<tasks, overtaken>>
        /\ grpc.at = "insert" /\ grpc'.at \in {"idle", "insert"}
    BY <1>2 DEF StartNextStep, Start, Idle
  <2>2. NotInserted(grpc.run, grpc.index, steps) /\ grpc.index \in Nat
    BY <2>1, GrpcShape DEF TypesOK, StartsOK, InsertOK
  <2> QED
    BY <1>1, <2>1, <2>2, InsertTracked
<1>3. CASE ScheduleNextStep
  <2>1. InsertStep(sched.run, sched.index) /\ UNCHANGED <<tasks, overtaken, grpc>>
        /\ sched.at = "insert"
    BY <1>3 DEF ScheduleNextStep
  <2>2. NotInserted(sched.run, sched.index, steps) /\ sched.index \in Nat
    BY <2>1, SchedShape DEF TypesOK, StartsOK
  <2> QED
    BY <1>1, <2>1, <2>2, InsertTracked
<1>4. CASE ~StartNextStep /\ ~ScheduleNextStep
  BY <1>4, TurnsStep DEF LeaseMoves
<1> QED
  BY <1>2, <1>3, <1>4

LEMMA TrackedInit == Init => Tracked
<1> SUFFICES ASSUME Init
             PROVE  Tracked
  OBVIOUS
<1>1. StepsTracked
  BY EmptySeq DEF Init, StepsTracked, StepLog, NoRecord
<1>2. TasksTracked /\ PollTracked
  BY DEF Init, TasksTracked, PollTracked, Idle
<1> QED
  BY <1>1, <1>2 DEF Tracked

-----------------------------------------------------------------------------
(* The runs, until a report is overtaken.                                  *)

\* Settled steps stay settled, so what the engine counted stays true.
LEMMA SettledStay ==
    ASSUME LeaseMoves, NEW s \in Steps, steps[s].state \in {"completed", "failed"}
    PROVE  steps'[s].state = steps[s].state
BY DEF LeaseMoves, LeaseTurns, StepKept, Kept, Created, Acquired, Released

LEMMA AbsentStay ==
    ASSUME LeaseTurns, NEW s \in Steps, steps[s].state = "none"
    PROVE  steps'[s].state = "none"
BY DEF LeaseTurns, StepKept, Kept, Acquired, Released

LEMMA FailedStay ==
    ASSUME LeaseMoves, NEW w, HasStep(w, "failed")
    PROVE  HasStep(w, "failed")'
<1>1. PICK s \in StepsOf(w) : steps[s].state = "failed"
  BY DEF HasStep
<1>2. steps'[s].state = "failed"
  BY <1>1, SettledStay DEF StepsOf
<1> QED
  BY <1>1, <1>2 DEF HasStep

LEMMA CompletedStay ==
    ASSUME LeaseMoves, NEW w, AllCompleted(w),
           \A s \in StepsOf(w) : steps[s].state = "none" => steps'[s].state = "none"
    PROVE  AllCompleted(w)'
<1>1. \A s \in StepsOf(w) : s \in Steps
  BY DEF StepsOf
<1>2. \A s \in StepsOf(w) : steps[s].state \in {"none", "completed"}
  BY DEF AllCompleted, Inserted
<1>3. \A s \in StepsOf(w) : steps[s].state = "completed" => steps'[s].state = "completed"
  BY <1>1, SettledStay
<1>4. PICK s \in StepsOf(w) : steps[s].state = "completed"
  BY DEF AllCompleted, Inserted
<1>5. Inserted(w)' # {}
  BY <1>3, <1>4 DEF Inserted
<1>6. \A r \in Inserted(w)' : steps'[r].state = "completed"
  BY <1>2, <1>3 DEF Inserted
<1> QED
  BY <1>5, <1>6 DEF AllCompleted

\* A run is not both completed and failed, and not completed with a step running.
LEMMA CompletedExcludes ==
    ASSUME NEW w, AllCompleted(w), NEW s \in Steps, RunOf[s] = w
    PROVE  steps[s].state \in {"none", "completed"}
BY DEF AllCompleted, Inserted, StepsOf

\* Which statements write the rows of runs, and which the verdict of the engine.
LEMMA RunWriters ==
    ASSUME TypesOK, [Next]_vars
    PROVE  \/ UNCHANGED <<workflows, scheduled>> /\ (engine' = engine \/ engine'.at # "settle")
           \/ \E w \in Workflows :
                StartWorkflowExecution(w) \/ CancelWorkflow(w) \/ StartScheduleWorkflow(w)
           \/ PollAnswer \/ EngineBegin \/ EngineCount \/ EngineSettle
<1>1. CASE StartNextStep \/ ScheduleNextStep
  BY <1>1 DEF StartNextStep, ScheduleNextStep, InsertStep
<1>2. CASE PollInsertActivity \/ CompleteUpdateStep \/ FailUpdateStep \/ RespondSend
  BY <1>2 DEF PollInsertActivity, CompleteUpdateStep, FailUpdateStep, RespondSend, tables
<1>3. CASE EngineNext
  BY <1>3 DEF EngineNext, tables, Process, Idle
<1>4. CASE ScheduleNotify \/ Faults
  BY <1>4 DEF ScheduleNotify, Faults, HandlerError, EngineError, SchedulerError, Restart,
     tables, Idle
<1>5. CASE \E s \in Steps : Worker(s) \/ RetryDelayElapses(s)
  BY <1>5 DEF Worker, PollStep, RetryDelayElapses, HandlerEnds, RespondUpdateActivity, tables
<1>6. CASE UNCHANGED vars
  BY <1>6 DEF vars, tables
<1> QED
  BY <1>1, <1>2, <1>3, <1>4, <1>5, <1>6 DEF Next, Client, Mutex, Engine, SchedulerTask

\* A client's run that is completed has no step to insert, so it stays complete.
LEMMA CompletedKept ==
    ASSUME TypesOK, StartsOK, ~overtaken => Tracked /\ VerdictsTracked, [Next]_vars, ~overtaken',
           NEW w \in Workflows, w \notin scheduled, AllCompleted(w),
           grpc.at = "insert" => grpc.run # w
    PROVE  AllCompleted(w)'
<1>1. LeaseMoves /\ (~StartNextStep /\ ~ScheduleNextStep => LeaseTurns)
  BY TrackedStep, TurnsStep
<1>2. ASSUME NEW s \in StepsOf(w), steps[s].state = "none"
      PROVE  steps'[s].state = "none"
  <2>1. s \in Steps /\ RunOf[s] = w
    BY DEF StepsOf
  <2>2. CASE StartNextStep
    BY <1>2, <2>1, <2>2 DEF StartNextStep, InsertStep
  <2>3. CASE ScheduleNextStep
    <3>1. sched.run \in scheduled
      BY <2>3, SchedShape DEF TypesOK, ScheduleNextStep
    <3> QED
      BY <1>2, <2>1, <2>3, <3>1 DEF ScheduleNextStep, InsertStep
  <2>4. CASE ~StartNextStep /\ ~ScheduleNextStep
    BY <1>1, <1>2, <2>1, <2>4, AbsentStay
  <2> QED
    BY <2>2, <2>3, <2>4
<1> QED
  BY <1>1, <1>2, CompletedStay

LEMMA VerdictsStep ==
    ASSUME TypesOK, StartsOK, ~overtaken => Tracked /\ VerdictsTracked, [Next]_vars, ~overtaken'
    PROVE  VerdictsTracked'
<1>1. VerdictsTracked /\ LeaseMoves
  BY OvertakenStays, TrackedStep
<1>2. /\ workflows \in [Workflows -> {"none", "pending", "running"} \union Terminal]
      /\ engine # Idle => engine.run \in Workflows
      /\ engine.at \in {"next", "count", "settle"} => engine # Idle
      /\ engine.at = "settle" => engine.verdict \in {"completed", "failed"}
  BY EngineShape DEF TypesOK, RowsOK
<1>3. ASSUME NEW w \in Workflows \ scheduled, AllCompleted(w),
             workflows[w] = "completed" \/ (engine # Idle /\ engine.run = w)
      PROVE  AllCompleted(w)'
  <2>1. grpc.at = "insert" => grpc.run # w
    BY <1>3 DEF StartsOK, InsertOK
  <2> QED
    BY <1>3, <2>1, CompletedKept
<1>4. /\ scheduled \subseteq scheduled'
      /\ \A w \in Workflows : workflows'[w] = "completed" =>
           \/ workflows[w] = "completed"
           \/ engine.at = "settle" /\ engine.run = w /\ engine.verdict = "completed"
      /\ engine'.at = "settle" => engine' = engine \/ EngineCount
  <2>1. CASE \E w \in Workflows :
               StartWorkflowExecution(w) \/ CancelWorkflow(w) \/ StartScheduleWorkflow(w)
    BY <1>2, <2>1 DEF StartWorkflowExecution, CancelWorkflow, StartScheduleWorkflow, InsertRow
  <2>2. CASE PollAnswer
    <3>1. /\ engine' = engine /\ scheduled' = scheduled
          /\ workflows' \in {workflows, [workflows EXCEPT ![RunOf[grpc.step]] = "running"]}
      BY <2>2 DEF PollAnswer
    <3> QED
      BY <1>2, <3>1
  <2>3. CASE EngineBegin
    BY <1>2, <2>3 DEF EngineBegin, Process
  <2>4. CASE EngineCount
    BY <2>4 DEF EngineCount, tables
  <2>5. CASE EngineSettle
    BY <1>2, <2>5 DEF EngineSettle, Idle
  <2> QED
    BY <2>1, <2>2, <2>3, <2>4, <2>5, RunWriters
<1>5. ASSUME NEW w \in Workflows, w \notin scheduled', workflows'[w] = "completed"
      PROVE  AllCompleted(w)'
  <2>1. w \notin scheduled /\ AllCompleted(w)
    BY <1>1, <1>4, <1>5 DEF VerdictsTracked
  <2> QED
    BY <1>2, <1>3, <1>4, <1>5, <2>1
<1>6. ASSUME engine'.at = "settle"
      PROVE  \E w \in Workflows :
               /\ engine'.run = w
               /\ engine'.verdict = "failed" => HasStep(w, "failed")'
               /\ engine'.verdict = "completed" /\ w \notin scheduled' => AllCompleted(w)'
  <2>1. PICK w \in Workflows : w = engine.run /\ w = engine'.run /\ engine # Idle
    BY <1>2, <1>4, <1>6 DEF EngineCount, Process, Idle
  <2>2. /\ engine'.verdict = "failed" => HasStep(w, "failed")
        /\ engine'.verdict = "completed" /\ w \notin scheduled => AllCompleted(w)
    <3>1. CASE engine' = engine
      BY <1>1, <1>6, <2>1, <3>1 DEF VerdictsTracked
    <3>2. CASE EngineCount
      <4>1. engine'.verdict = Verdict(w)
        BY <1>6, <2>1, <3>2 DEF EngineCount, Process, Idle
      <4> QED
        BY <4>1 DEF Verdict
    <3> QED
      BY <1>4, <1>6, <3>1, <3>2
  <2>3. engine'.verdict = "failed" => HasStep(w, "failed")'
    BY <1>1, <2>2, FailedStay
  <2>4. engine'.verdict = "completed" /\ w \notin scheduled' => AllCompleted(w)'
    BY <1>3, <1>4, <2>1, <2>2
  <2> QED
    BY <2>1, <2>3, <2>4
<1> QED
  BY <1>5, <1>6 DEF VerdictsTracked, HasStep, AllCompleted, Inserted

LEMMA VerdictsInit == Init => VerdictsTracked
BY DEF Init, VerdictsTracked, Idle

\* What a statement does to the row of a run.
RowMoves ==
    \A w \in Workflows :
        \/ workflows'[w] = workflows[w] /\ (w \in scheduled' <=> w \in scheduled)
        \/ workflows[w] = "none" /\ workflows'[w] = "pending"
        \/ /\ workflows[w] # "none" /\ workflows'[w] # "none"
           /\ w \in scheduled' <=> w \in scheduled
           /\ w \in scheduled \/ workflows[w] # "completed"

LEMMA RowMovesStep ==
    ASSUME TypesOK, StartsOK, ~overtaken => Tracked /\ VerdictsTracked, [Next]_vars, ~overtaken'
    PROVE  RowMoves
<1>1. Tracked /\ VerdictsTracked
  BY OvertakenStays
<1>2. /\ workflows \in [Workflows -> {"none", "pending", "running"} \union Terminal]
      /\ engine # Idle => engine.run \in Workflows
      /\ engine.at \in {"next", "count", "settle"} => engine # Idle
      /\ engine.at = "settle" => engine.verdict \in {"completed", "failed"}
  BY EngineShape DEF TypesOK, RowsOK
<1>3. CASE UNCHANGED <<workflows, scheduled>>
  BY <1>3 DEF RowMoves
<1>4. CASE \E w \in Workflows :
             StartWorkflowExecution(w) \/ CancelWorkflow(w) \/ StartScheduleWorkflow(w)
  <2>1. PICK w \in Workflows :
               StartWorkflowExecution(w) \/ CancelWorkflow(w) \/ StartScheduleWorkflow(w)
    BY <1>4
  <2>2. CASE StartWorkflowExecution(w) \/ StartScheduleWorkflow(w)
    BY <1>2, <2>2 DEF StartWorkflowExecution, StartScheduleWorkflow, InsertRow, RowMoves
  <2>3. CASE CancelWorkflow(w)
    BY <1>2, <2>3 DEF CancelWorkflow, RowMoves
  <2> QED
    BY <2>1, <2>2, <2>3
<1>5. CASE PollAnswer
  <2> DEFINE w == RunOf[grpc.step]
  <2>1. grpc.step \in Steps /\ steps[grpc.step].state = "running" /\ w \in Workflows
    BY <1>1, <1>5, GrpcShape, StatementAssumption DEF TypesOK, PollAnswer, Tracked, PollTracked
  <2>2. workflows[w] # "none"
    BY <2>1 DEF StartsOK
  <2>3. w \in scheduled \/ workflows[w] # "completed"
    BY <1>1, <2>1, CompletedExcludes DEF VerdictsTracked
  <2>4. /\ scheduled' = scheduled
        /\ workflows' \in {workflows, [workflows EXCEPT ![w] = "running"]}
    BY <1>5 DEF PollAnswer
  <2> HIDE DEF w
  <2> QED
    BY <1>2, <2>1, <2>2, <2>3, <2>4 DEF RowMoves
<1>6. CASE EngineBegin
  <2>1. Head(queue) \in Workflows
    BY <1>6, ReceiveChannel DEF EngineBegin, TypesOK
  <2> QED
    BY <1>2, <1>6, <2>1 DEF EngineBegin, RowMoves
<1>7. CASE EngineCount
  BY <1>7 DEF EngineCount, tables, RowMoves
<1>8. CASE EngineSettle
  <2> DEFINE w == engine.run
  <2>1. w \in Workflows /\ workflows[w] # "none" /\ engine.verdict \in {"completed", "failed"}
    BY <1>2, <1>8 DEF EngineSettle, StartsOK
  <2>2. /\ scheduled' = scheduled
        /\ workflows' = [workflows EXCEPT ![w] = engine.verdict]
    BY <1>8 DEF EngineSettle
  <2>3. w \in scheduled \/ workflows[w] # "completed" \/ engine.verdict = "completed"
    <3>1. engine.verdict = "failed" => HasStep(w, "failed")
      BY <1>1, <1>8 DEF EngineSettle, VerdictsTracked
    <3>2. HasStep(w, "failed") => ~AllCompleted(w)
      BY DEF HasStep, AllCompleted, Inserted
    <3> QED
      BY <1>1, <2>1, <3>1, <3>2 DEF VerdictsTracked
  <2> HIDE DEF w
  <2> QED
    BY <1>2, <2>1, <2>2, <2>3 DEF RowMoves
<1> QED
  BY <1>3, <1>4, <1>5, <1>6, <1>7, <1>8, RunWriters

-----------------------------------------------------------------------------
(* The wakeups.                                                            *)

Reported(w) == \E t \in tasks : RunOf[t.step] = w /\ t.outcome # "none"

\* Somebody has acted, or still has to act, on run w.
Awake(w) ==
    \/ workflows[w] \in {"completed", "failed"}
    \/ Queued(w)
    \/ engine # Idle /\ engine.run = w
    \/ Reported(w)

LEMMA WakeupsAre ==
    StatementWakeups <=>
        (~eventsLost /\ ~overtaken => \A w \in Workflows : AllSettled(w) => Awake(w))
BY DEF StatementWakeups, Awake, Queued, Reported

LEMMA WakeupsAreNext ==
    StatementWakeups' <=>
        (~eventsLost' /\ ~overtaken' => \A w \in Workflows : AllSettled(w)' => Awake(w)')
BY DEF StatementWakeups, Awake, Queued, Reported

\* Statements that do not change the state of a step.
LEMMA SameWakeups ==
    ASSUME StatementWakeups, \A s \in Steps : steps'[s].state = steps[s].state,
           eventsLost => eventsLost', overtaken => overtaken',
           \A w \in Workflows :
             ~eventsLost' /\ ~overtaken' /\ AllSettled(w) /\ Awake(w) => Awake(w)'
    PROVE  StatementWakeups'
<1>1. \A w : AllSettled(w)' => AllSettled(w)
  BY DEF AllSettled, Inserted, StepsOf
<1> QED
  BY <1>1, WakeupsAre, WakeupsAreNext

\* Statements about the steps of one run.
LEMMA RunWakeups ==
    ASSUME StatementWakeups, NEW x \in Workflows,
           \A s \in Steps : RunOf[s] # x => steps'[s] = steps[s],
           UNCHANGED <<workflows, queue, engine, eventsLost>>, overtaken => overtaken',
           \A t \in tasks : RunOf[t.step] # x => t \in tasks',
           AllSettled(x)' => Reported(x)'
    PROVE  StatementWakeups'
<1> SUFFICES ASSUME ~eventsLost', ~overtaken', NEW w \in Workflows, AllSettled(w)'
             PROVE  Awake(w)'
  BY WakeupsAreNext
<1>1. CASE w = x
  BY <1>1 DEF Awake
<1>2. CASE w # x
  <2>1. AllSettled(w)
    BY <1>2 DEF AllSettled, Inserted, StepsOf
  <2>2. Awake(w)
    BY <2>1, WakeupsAre
  <2>3. Reported(w) => Reported(w)'
    BY <1>2 DEF Reported
  <2>4. Queued(w) => Queued(w)'
    BY DEF Queued
  <2> QED
    BY <2>2, <2>3, <2>4 DEF Awake
<1> QED
  BY <1>1, <1>2

LEMMA UnsettledRun ==
    ASSUME NEW s \in Steps, steps[s].state \in {"pending", "running"}
    PROVE  ~AllSettled(RunOf[s])
BY DEF AllSettled, Inserted, StepsOf

LEMMA InsertWakeups ==
    ASSUME StatementWakeups, NEW w \in Workflows, NEW i \in Nat, i < Cardinality(StepsOf(w)),
           InsertStep(w, i), UNCHANGED <<tasks, queue, engine, eventsLost, overtaken>>
    PROVE  StatementWakeups'
<1>1. /\ \A s \in Steps : RunOf[s] # w => steps'[s] = steps[s]
      /\ UNCHANGED workflows
  BY DEF InsertStep
<1>2. PICK s \in StepsOf(w) : StepIndex[s] = i
  <2>1. i \in 0..(Cardinality(StepsOf(w)) - 1)
    BY StepsFinite
  <2> QED
    BY <2>1, StatementAssumption
<1>3. s \in Steps /\ RunOf[s] = w /\ steps'[s].state = "pending"
  BY <1>2 DEF InsertStep, StepsOf
<1>4. ~AllSettled(w)'
  BY <1>3 DEF AllSettled, Inserted, StepsOf
<1> QED
  BY <1>1, <1>4, RunWakeups

LEMMA WorkerWakeups ==
    ASSUME TypesOK, StatementWakeups, NEW s \in Steps, Worker(s) \/ RetryDelayElapses(s)
    PROVE  StatementWakeups'
<1>0. steps \in [Steps -> StepRow] /\ RunOf[s] \in Workflows
  BY StatementAssumption DEF TypesOK, RowsOK
<1>1. CASE PollStep(s)
  <2>1. /\ UNCHANGED <<workflows, tasks, queue, engine, eventsLost, overtaken>>
        /\ steps' = [steps EXCEPT ![s] =
             [state |-> "running", attempt |-> steps[s].attempt + 1, retry |-> "null"]]
    BY <1>1 DEF PollStep
  <2>2. /\ \A r \in Steps : RunOf[r] # RunOf[s] => steps'[r] = steps[r]
        /\ steps'[s].state = "running"
    BY <1>0, <2>1
  <2>3. ~AllSettled(RunOf[s])'
    BY <2>2 DEF AllSettled, Inserted, StepsOf
  <2> QED
    BY <1>0, <2>1, <2>2, <2>3, RunWakeups
<1>2. CASE RetryDelayElapses(s)
  <2>1. /\ UNCHANGED <<workflows, tasks, queue, engine, eventsLost, overtaken>>
        /\ steps' = [steps EXCEPT ![s].retry = "due"]
    BY <1>2 DEF RetryDelayElapses
  <2>2. \A r \in Steps : steps'[r].state = steps[r].state
    BY <1>0, <2>1 DEF StepRow
  <2> QED
    BY <2>1, <2>2, SameWakeups DEF Awake, Queued, Reported
<1>3. CASE \E t \in tasks : HandlerEnds(t)
  <2>1. /\ UNCHANGED <<workflows, steps, queue, engine, eventsLost, overtaken>>
        /\ \A t \in tasks : t.outcome # "none" => t \in tasks'
    BY <1>3 DEF HandlerEnds, tables
  <2>2. \A w : Reported(w) => Reported(w)'
    BY <2>1 DEF Reported
  <2> QED
    BY <2>1, <2>2, SameWakeups DEF Awake, Queued
<1>4. CASE \E t \in tasks : RespondUpdateActivity(t)
  <2>1. UNCHANGED <<workflows, steps, tasks, queue, engine, eventsLost, overtaken>>
    BY <1>4 DEF RespondUpdateActivity
  <2> QED
    BY <2>1, SameWakeups DEF Awake, Queued, Reported
<1> QED
  BY <1>1, <1>2, <1>3, <1>4 DEF Worker

\* A report that settles its step is there until its event is sent.
LEMMA ReportWakeups ==
    ASSUME TypesOK, StatementWakeups, CompleteUpdateStep \/ FailUpdateStep
    PROVE  StatementWakeups'
<1> DEFINE t == grpc.task
           w == RunOf[t.step]
<1>1. /\ t \in tasks /\ t.outcome # "none" /\ t.step \in Steps /\ w \in Workflows
      /\ steps \in [Steps -> StepRow]
  BY GrpcShape, StatementAssumption
  DEF TypesOK, RowsOK, TasksOK, Task, CompleteUpdateStep, FailUpdateStep
<1>2. UNCHANGED <<workflows, queue, engine, eventsLost>>
  BY DEF CompleteUpdateStep, FailUpdateStep
<1>3. overtaken => overtaken'
  BY Zenon DEF CompleteUpdateStep, FailUpdateStep
<1>4. \A s \in Steps : RunOf[s] # w => steps'[s] = steps[s]
  BY <1>1 DEF CompleteUpdateStep, FailUpdateStep
<1>5. \A u \in tasks : RunOf[u.step] # w => u \in tasks'
  BY DEF CompleteUpdateStep, FailUpdateStep, Answer
<1>6. PICK x \in Workflows : x = w
  BY <1>1
<1>7. AllSettled(x)' => Reported(x)'
  <2>1. CASE CompleteUpdateStep \/ ~ShouldRetry(t)
    <3>1. tasks' = tasks
      BY <2>1 DEF CompleteUpdateStep, FailUpdateStep
    <3> QED
      BY <1>1, <1>6, <3>1 DEF Reported
  <2>2. CASE FailUpdateStep /\ ShouldRetry(t)
    <3>1. steps' = [steps EXCEPT ![t.step] =
                      [state |-> "pending", attempt |-> CurrentAttempt(t), retry |-> "later"]]
      BY <2>2 DEF FailUpdateStep
    <3>2. steps'[t.step].state = "pending"
      BY <1>1, <3>1
    <3>3. ~AllSettled(x)'
      BY <1>1, <1>6, <3>2 DEF AllSettled, Inserted, StepsOf
    <3> QED
      BY <3>3
  <2> QED
    BY <2>1, <2>2
<1> HIDE DEF w, t
<1> QED
  BY <1>2, <1>3, <1>4, <1>5, <1>6, <1>7, RunWakeups

LEMMA SendWakeups ==
    ASSUME TypesOK, StatementWakeups, RespondSend
    PROVE  StatementWakeups'
<1>1. PICK w \in Workflows : w = RunOf[grpc.task.step] /\ grpc.task \in tasks
  BY SendTypes
<1>2. UNCHANGED <<workflows, steps, engine, overtaken>>
  BY DEF RespondSend, tables
<1>3. /\ Queued(w)' /\ (eventsLost => eventsLost')
      /\ \A x : Queued(x) => Queued(x)' \/ eventsLost'
  BY <1>1, NotifyChannel DEF RespondSend, TypesOK
<1>4. \A x : x # w /\ Reported(x) => Reported(x)'
  BY <1>1 DEF RespondSend, Answer, Reported
<1> QED
  BY <1>2, <1>3, <1>4, SameWakeups DEF Awake

LEMMA ScheduleNotifyWakeups ==
    ASSUME TypesOK, StatementWakeups, ScheduleNotify
    PROVE  StatementWakeups'
<1>1. UNCHANGED <<workflows, steps, tasks, engine, overtaken>>
  BY DEF ScheduleNotify, tables
<1>2. /\ eventsLost => eventsLost'
      /\ \A x : Queued(x) => Queued(x)' \/ eventsLost'
  BY ScheduleNotifyTypes, NotifyChannel DEF ScheduleNotify, TypesOK
<1> QED
  BY <1>1, <1>2, SameWakeups DEF Awake, Reported

\* The engine gives a run up only if a step of it is not settled.
LEMMA EngineWakeups ==
    ASSUME TypesOK, StatementWakeups, Engine
    PROVE  StatementWakeups'
<1>0. /\ workflows \in [Workflows -> {"none", "pending", "running"} \union Terminal]
      /\ engine # Idle => engine.run \in Workflows
      /\ engine.at \in {"next", "count", "settle"} => engine # Idle
      /\ engine.at = "settle" => engine.verdict \in {"completed", "failed"}
  BY EngineShape DEF TypesOK, RowsOK
<1>1. UNCHANGED <<steps, tasks, eventsLost, overtaken>>
  BY DEF Engine, EngineBegin, EngineNext, EngineCount, EngineSettle, tables
<1>2. \A w : Reported(w) => Reported(w)'
  BY <1>1 DEF Reported
<1>3. CASE EngineBegin
  <2>1. \A x : Queued(x) => Queued(x)' \/ x = Head(queue)
    BY <1>3, ReceiveChannel DEF EngineBegin, TypesOK
  <2>2. engine' # Idle /\ engine'.run = Head(queue) /\ engine = Idle
    BY <1>3 DEF EngineBegin, Process, Idle
  <2>3. \A w \in Workflows : workflows[w] \in {"completed", "failed"} =>
                               workflows'[w] \in {"completed", "failed"}
    BY <1>0, <1>3 DEF EngineBegin
  <2> QED
    BY <1>1, <1>2, <2>1, <2>2, <2>3, SameWakeups DEF Awake
<1>4. CASE EngineNext \/ EngineCount
  <2>1. UNCHANGED <<workflows, queue>> /\ engine # Idle
    BY <1>0, <1>4 DEF EngineNext, EngineCount, tables
  <2>2. ASSUME AllSettled(engine.run)
        PROVE  engine' # Idle /\ engine'.run = engine.run
    <3>1. ~HasStep(engine.run, "pending") /\ Verdict(engine.run) # "none"
      <4>1. ~HasStep(engine.run, "pending")
        BY <2>2 DEF AllSettled, HasStep, Inserted
      <4>2. HasStep(engine.run, "failed") \/ AllCompleted(engine.run)
        BY <2>2 DEF AllSettled, AllCompleted, HasStep, Inserted
      <4> QED
        BY <4>1, <4>2 DEF Verdict
    <3> QED
      BY <1>4, <3>1 DEF EngineNext, EngineCount, Process, Idle
  <2>3. \A w : Queued(w) => Queued(w)'
    BY <2>1 DEF Queued
  <2> QED
    BY <1>1, <1>2, <2>1, <2>2, <2>3, SameWakeups DEF Awake
<1>5. CASE EngineSettle
  <2>1. /\ engine # Idle /\ engine.run \in Workflows /\ engine.verdict \in {"completed", "failed"}
        /\ workflows' = [workflows EXCEPT ![engine.run] = engine.verdict]
        /\ UNCHANGED queue
    BY <1>0, <1>5 DEF EngineSettle
  <2>2. \A w \in Workflows :
           workflows[w] \in {"completed", "failed"} \/ w = engine.run =>
             workflows'[w] \in {"completed", "failed"}
    BY <1>0, <2>1
  <2>3. \A w : Queued(w) => Queued(w)'
    BY <2>1 DEF Queued
  <2> QED
    BY <1>1, <1>2, <2>2, <2>3, SameWakeups DEF Awake
<1> QED
  BY <1>3, <1>4, <1>5 DEF Engine

\* The update of the run that a poll ends with finds a step that is not settled.
LEMMA AnswerWakeups ==
    ASSUME TypesOK, StatementWakeups, ~overtaken => Tracked, PollAnswer
    PROVE  StatementWakeups'
<1>1. UNCHANGED <<steps, queue, engine, eventsLost, overtaken>> /\ tasks \subseteq tasks'
  BY DEF PollAnswer
<1>2. ASSUME ~overtaken
      PROVE  ~AllSettled(RunOf[grpc.step])
  <2>1. grpc.step \in Steps /\ steps[grpc.step].state = "running"
    BY <1>2, GrpcShape DEF TypesOK, PollAnswer, Tracked, PollTracked
  <2> QED
    BY <2>1, UnsettledRun
<1>3. \A w \in Workflows : w # RunOf[grpc.step] => workflows'[w] = workflows[w]
  BY DEF PollAnswer, TypesOK, RowsOK
<1>4. \A w : (Reported(w) => Reported(w)') /\ (Queued(w) => Queued(w)')
  BY <1>1 DEF Reported, Queued
<1> QED
  BY <1>1, <1>2, <1>3, <1>4, SameWakeups DEF Awake

\* A fault that may cost an event says so.
LEMMA OtherWakeups ==
    ASSUME TypesOK, StatementWakeups,
           \/ \E w \in Workflows :
                StartWorkflowExecution(w) \/ CancelWorkflow(w) \/ StartScheduleWorkflow(w)
           \/ PollInsertActivity \/ Faults \/ UNCHANGED vars
    PROVE  StatementWakeups'
<1>0. eventsLost => eventsLost'
  <2>1. CASE Restart
    BY <2>1, Zenon DEF Restart
  <2>2. CASE EngineError
    BY <2>2, Zenon DEF EngineError
  <2>3. CASE ~Restart /\ ~EngineError
    BY <2>3 DEF StartWorkflowExecution, InsertRow, CancelWorkflow, StartScheduleWorkflow,
       PollInsertActivity, Faults, HandlerError, SchedulerError, tables, vars
  <2> QED
    BY <2>1, <2>2, <2>3
<1>1. UNCHANGED <<steps, tasks, overtaken>>
  BY DEF StartWorkflowExecution, InsertRow, CancelWorkflow, StartScheduleWorkflow,
     PollInsertActivity, Faults, HandlerError, EngineError, SchedulerError, Restart, tables, vars
<1>2. \A w \in Workflows : workflows[w] \in {"completed", "failed"} => workflows'[w] = workflows[w]
  <2>1. CASE \E w \in Workflows :
               StartWorkflowExecution(w) \/ CancelWorkflow(w) \/ StartScheduleWorkflow(w)
    <3>1. PICK w \in Workflows, v \in {"pending", "cancelled"} :
            /\ workflows' = [workflows EXCEPT ![w] = v]
            /\ workflows[w] \notin {"completed", "failed"}
      BY <2>1 DEF StartWorkflowExecution, InsertRow, CancelWorkflow, StartScheduleWorkflow
    <3> QED
      BY <3>1 DEF TypesOK, RowsOK
  <2>2. CASE PollInsertActivity \/ Faults \/ UNCHANGED vars
    BY <2>2 DEF PollInsertActivity, Faults, HandlerError, EngineError, SchedulerError, Restart,
       tables, vars
  <2> QED
    BY <2>1, <2>2
<1>3. eventsLost' \/ UNCHANGED <<queue, engine>>
  BY DEF StartWorkflowExecution, InsertRow, CancelWorkflow, StartScheduleWorkflow,
     PollInsertActivity, Faults, HandlerError, EngineError, SchedulerError, Restart, tables, vars
<1>4. \A w : (Reported(w) => Reported(w)') /\ (Queued(w) => Queued(w)' \/ eventsLost')
  BY <1>1, <1>3 DEF Reported, Queued
<1> QED
  BY <1>0, <1>1, <1>2, <1>3, <1>4, SameWakeups DEF Awake

LEMMA WakeupsStep ==
    ASSUME TypesOK, StatementWakeups, ~overtaken => Tracked, [Next]_vars
    PROVE  StatementWakeups'
<1>1. CASE StartNextStep
  <2>1. PICK w \in Workflows, i \in Nat :
               w = grpc.run /\ i = grpc.index /\ i < Cardinality(StepsOf(w))
    BY <1>1, GrpcShape DEF TypesOK, StartNextStep
  <2> QED
    BY <1>1, <2>1, InsertWakeups DEF StartNextStep
<1>2. CASE ScheduleNextStep
  <2>1. PICK w \in Workflows, i \in Nat :
               w = sched.run /\ i = sched.index /\ i < Cardinality(StepsOf(w))
    BY <1>2, SchedShape DEF TypesOK, RowsOK, ScheduleNextStep
  <2> QED
    BY <1>2, <2>1, InsertWakeups DEF ScheduleNextStep
<1> QED
  BY <1>1, <1>2, WorkerWakeups, ReportWakeups, SendWakeups, ScheduleNotifyWakeups,
     EngineWakeups, AnswerWakeups, OtherWakeups
  DEF Next, Client, Mutex, SchedulerTask

-----------------------------------------------------------------------------
(* The theorems.                                                           *)

LEMMA StatementInvariantInit == Init => StatementInvariant
<1> SUFFICES ASSUME Init
             PROVE  StatementInvariant
  OBVIOUS
<1>1. TypesOK /\ StartsOK /\ Tracked /\ VerdictsTracked
  BY TypesInit, StartsInit, TrackedInit, VerdictsInit
<1>2. StatementWakeups
  <2>1. \A w : ~AllSettled(w)
    BY DEF Init, AllSettled, Inserted, StepsOf
  <2> QED
    BY <2>1 DEF StatementWakeups
<1> QED
  BY <1>1, <1>2 DEF StatementInvariant

LEMMA StatementInvariantStep ==
    StatementInvariant /\ [Next]_vars => StatementInvariant'
<1> SUFFICES ASSUME StatementInvariant, [Next]_vars
             PROVE  StatementInvariant'
  OBVIOUS
<1>1. /\ TypesOK /\ StartsOK /\ StatementWakeups
      /\ ~overtaken => Tracked /\ VerdictsTracked
  BY DEF StatementInvariant
<1>2. TypesOK' /\ StartsOK'
  BY <1>1, TypesStep, StartsStep
<1>3. ~overtaken' => Tracked' /\ VerdictsTracked'
  BY <1>1, TrackedStep, VerdictsStep
<1>4. StatementWakeups'
  BY <1>1, WakeupsStep
<1> QED
  BY <1>2, <1>3, <1>4 DEF StatementInvariant

LEMMA StatementInvariantHolds == Spec => []StatementInvariant
BY StatementInvariantInit, StatementInvariantStep, PTL DEF Spec

(***************************************************************************)
(* Rows, log, tasks, handlers and channel keep their types wherever        *)
(* statements fail and the server stops: the channel stays within its      *)
(* capacity and a handler that reports still has its task.                 *)
(***************************************************************************)
THEOREM StatementTyped == Spec => []StatementTypeOK
<1>1. StatementInvariant => StatementTypeOK
  BY TypesSuffice DEF StatementInvariant
<1> QED
  BY <1>1, StatementInvariantHolds, PTL

(***************************************************************************)
(* No poll of poll_activity_task_queue, broken off or not, hands out an    *)
(* attempt of a step that a worker executes, until a repeated failure is   *)
(* applied to a later attempt.                                             *)
(***************************************************************************)
THEOREM AttemptsNotShared == Spec => []OneExecution
<1>1. StatementInvariant => OneExecution
  BY DEF StatementInvariant, Tracked, TasksTracked, TaskLog, Newest, OneExecution
<1> QED
  BY <1>1, StatementInvariantHolds, PTL

(***************************************************************************)
(* As long as no event is lost and no report overtaken, a run whose steps  *)
(* are settled is settled, or queued, or at the engine, or has a report    *)
(* that its worker will repeat.                                            *)
(***************************************************************************)
THEOREM WakeupsSurvive == Spec => []StatementWakeups
<1>1. StatementInvariant => StatementWakeups
  BY DEF StatementInvariant
<1> QED
  BY <1>1, StatementInvariantHolds, PTL

\* The counts that the refinement maps to leases.
LEMMA LeaseCounts ==
    /\ \A s \in Steps : Unrecorded(s) <=> NoRecord(steps[s], activities[s])
    /\ [s \in Steps |-> Len(activities[s]) + IF Unrecorded(s) THEN 1 ELSE 0] =
           [s \in Steps |-> Taken(steps[s], activities[s])]
<1>1. \A s \in Steps : Unrecorded(s) <=> NoRecord(steps[s], activities[s])
  BY DEF Unrecorded, NoRecord
<1> QED
  BY <1>1 DEF Taken

LEMMA LeaseCountsNext ==
    [s \in Steps |-> Len(activities[s]) + IF Unrecorded(s) THEN 1 ELSE 0]' =
        [s \in Steps |-> Taken(steps'[s], activities'[s])]
<1>1. \A s \in Steps : Unrecorded(s)' <=> NoRecord(steps'[s], activities'[s])
  BY DEF Unrecorded, NoRecord
<1> QED
  BY <1>1 DEF Taken

LEMMA LeaseMovesRefine ==
    ASSUME TypesOK, TypesOK', LeaseMoves
    PROVE  Lease!LeaseNext
<1> DEFINE ph == [s \in Steps |-> Phase(s)]
           ls == [s \in Steps |-> Len(activities[s]) + IF Unrecorded(s) THEN 1 ELSE 0]
<1>1. /\ \A s \in Steps : ls[s] = Taken(steps[s], activities[s])
      /\ ls' = [s \in Steps |-> Taken(steps'[s], activities'[s])]
      /\ ls = [s \in Steps |-> Taken(steps[s], activities[s])]
  BY LeaseCounts, LeaseCountsNext
<1>2. \A s \in Steps : /\ steps[s].state = "none" => Phase(s) = "absent"
                       /\ steps[s].state = "pending" => Phase(s) = "idle"
                       /\ steps[s].state = "running" => Phase(s) = "leased"
                       /\ steps[s].state = "completed" => Phase(s) = "done"
                       /\ steps[s].state = "failed" => Phase(s) = "dead"
  BY DEF Phase
<1>3. \A s \in Steps : /\ steps'[s].state = "none" => Phase(s)' = "absent"
                       /\ steps'[s].state = "pending" => Phase(s)' = "idle"
                       /\ steps'[s].state = "running" => Phase(s)' = "leased"
                       /\ steps'[s].state = "completed" => Phase(s)' = "done"
                       /\ steps'[s].state = "failed" => Phase(s)' = "dead"
  BY DEF Phase
<1>4. \A s \in Steps : steps[s].state \in {"none", "pending", "running", "completed", "failed"}
  BY DEF TypesOK, RowsOK, StepRow
<1>5. \A s \in Steps : StepKept(s) =>
         Phase(s)' = Phase(s) /\ Taken(steps'[s], activities'[s]) = Taken(steps[s], activities[s])
  BY <1>2, <1>3, <1>4 DEF StepKept, Kept
<1>6. ph' = [s \in Steps |-> Phase(s)']
  OBVIOUS
<1>7. CASE \A s \in Steps :
             StepKept(s) \/ Created(steps[s], activities[s], steps'[s], activities'[s])
  <2> DEFINE S == {s \in Steps : ~StepKept(s)}
  <2>1. S \subseteq {s \in Steps : ph[s] = "absent"}
    BY <1>2, <1>7 DEF Created
  <2>2. ph' = [s \in Steps |-> IF s \in S THEN "idle" ELSE ph[s]]
    BY <1>3, <1>5, <1>7 DEF Created
  <2>3. ls' = ls
    BY <1>1, <1>5, <1>7 DEF Created
  <2> HIDE DEF ls
  <2>4. Lease!Create(S)
    BY <2>1, <2>2, <2>3 DEF Lease!Create, ls
  <2> QED
    BY <2>4 DEF Lease!LeaseNext
<1>8. ASSUME NEW s \in Steps, \A r \in Steps \ {s} : StepKept(r)
      PROVE  ph' = [ph EXCEPT ![s] = Phase(s)']
  BY <1>5, <1>8
<1>9. \A s \in Steps : Limit(s) = Lease!LeaseLimit(s)
  BY DEF Limit, Lease!LeaseLimit
<1>10. ASSUME NEW s \in Steps, \A r \in Steps \ {s} : StepKept(r),
              Acquired(s, steps[s], activities[s], steps'[s], activities'[s])
       PROVE  Lease!LeaseNext
  <2>1. ph[s] = "idle" /\ Phase(s)' = "leased"
    BY <1>2, <1>3, <1>10 DEF Acquired
  <2>2. ph' = [ph EXCEPT ![s] = "leased"]
    BY <1>8, <1>10, <2>1
  <2>3. ls' = [ls EXCEPT ![s] = ls[s] + 1]
    <3>1. /\ Taken(steps'[s], activities'[s]) = ls[s] + 1
          /\ \A r \in Steps \ {s} : Taken(steps'[r], activities'[r]) = ls[r]
      BY <1>1, <1>5, <1>10 DEF Acquired
    <3>2. ls' = [r \in Steps |-> Taken(steps'[r], activities'[r])]
      BY <1>1
    <3>3. DOMAIN ls = Steps
      OBVIOUS
    <3> HIDE DEF ls, ph
    <3> QED
      BY <1>1, <3>1, <3>2, <3>3
  <2>4. ls[s] < Lease!LeaseLimit(s)
    BY <1>1, <1>9, <1>10 DEF Acquired
  <2>5. Lease!Acquire(s)
    BY <2>1, <2>2, <2>3, <2>4 DEF Lease!Acquire
  <2> QED
    BY <2>5 DEF Lease!LeaseNext
<1>11. ASSUME NEW s \in Steps, \A r \in Steps \ {s} : StepKept(r),
              Released(s, steps[s], activities[s], steps'[s], activities'[s])
       PROVE  Lease!LeaseNext
  <2>1. ph[s] = "leased"
    BY <1>2, <1>11 DEF Released
  <2>2. PICK outcome \in {"idle", "done", "dead"} :
               /\ Phase(s)' = outcome
               /\ outcome = "idle" => steps'[s].state = "pending"
    BY <1>3, <1>11 DEF Released
  <2>3. ph' = [ph EXCEPT ![s] = outcome]
    BY <1>8, <1>11, <2>2
  <2>4. ls' = ls
    BY <1>1, <1>5, <1>11 DEF Released
  <2>5. outcome = "idle" => ls[s] < Lease!LeaseLimit(s)
    BY <1>1, <1>9, <1>11, <2>2 DEF Released
  <2>6. Lease!Release(s, outcome)
    BY <2>1, <2>3, <2>4, <2>5 DEF Lease!Release
  <2> QED
    BY <2>6 DEF Lease!LeaseNext
<1> QED
  BY <1>7, <1>10, <1>11 DEF LeaseMoves, LeaseTurns

(***************************************************************************)
(* Statement by statement the tables implement the lease protocol, until a *)
(* repeated failure is applied to a later attempt: a step is leased to one *)
(* worker at a time, never more often than maximum_attempts says, and a    *)
(* settled one stays settled, whichever statements of polls and reports    *)
(* fail, are repeated, or never run because the server stops.              *)
(***************************************************************************)
THEOREM LeaseKeptStatementwise == Spec => LeaseStatementwise
<1>1. Init => Lease!LeaseInit
  <2> SUFFICES ASSUME Init
               PROVE  Lease!LeaseInit
    OBVIOUS
  <2>1. \A s \in Steps : Phase(s) = "absent"
    BY DEF Init, Phase
  <2>2. \A s \in Steps : Taken(steps[s], activities[s]) = 0
    BY EmptySeq DEF Init, Taken, NoRecord
  <2>3. [s \in Steps |-> Len(activities[s]) + IF Unrecorded(s) THEN 1 ELSE 0] =
            [s \in Steps |-> 0]
    BY <2>2, LeaseCounts
  <2> QED
    BY <2>1, <2>3 DEF Lease!LeaseInit
<1>2. StatementInvariant /\ StatementInvariant' /\ [Next]_vars =>
          [overtaken' \/ Lease!LeaseNext]_(Lease!leaseVars)
  <2> SUFFICES ASSUME StatementInvariant, StatementInvariant', [Next]_vars, ~overtaken'
               PROVE  Lease!LeaseNext
    OBVIOUS
  <2>1. LeaseMoves
    BY TrackedStep DEF StatementInvariant
  <2> QED
    BY <2>1, LeaseMovesRefine DEF StatementInvariant
<1> QED
  BY <1>1, <1>2, StatementInvariantHolds, PTL DEF Spec, LeaseStatementwise

(***************************************************************************)
(* Statement by statement a run that a client started and the engine       *)
(* completed stays completed, although the engine settles a run on counts  *)
(* it took before and a poll writes the run after everything else, until a *)
(* repeated failure is applied to a later attempt.                         *)
(***************************************************************************)
THEOREM LifecycleKeptStatementwise == Spec => LifecycleStatementwise
<1>1. Init => Lifecycle!LifeInit
  BY DEF Init, Lifecycle!LifeInit, LifeOf
<1>2. StatementInvariant /\ StatementInvariant' /\ [Next]_vars =>
          [overtaken' \/ Lifecycle!LifeNext]_workflows
  <2> SUFFICES ASSUME StatementInvariant, StatementInvariant', [Next]_vars, ~overtaken'
               PROVE  Lifecycle!LifeNext
    OBVIOUS
  <2>1. RowMoves
    BY RowMovesStep DEF StatementInvariant
  <2>2. ASSUME NEW w \in Workflows
        PROVE  /\ LifeOf(w)' \in Lifecycle!Lives
               /\ \/ LifeOf(w)' = LifeOf(w)
                  \/ <<LifeOf(w), LifeOf(w)'>> \in Lifecycle!Moves \union Lifecycle!Births
    <3>1. /\ workflows[w] \in {"none", "pending", "running", "completed", "failed", "cancelled"}
          /\ workflows'[w] \in {"none", "pending", "running", "completed", "failed", "cancelled"}
      BY DEF StatementInvariant, TypesOK, RowsOK, Terminal
    <3>2. LifeOf(w)' \in Lifecycle!Lives
      BY <3>1 DEF LifeOf, Lifecycle!Lives
    <3>3. CASE workflows'[w] = workflows[w] /\ (w \in scheduled' <=> w \in scheduled)
      BY <3>1, <3>2, <3>3 DEF LifeOf
    <3>4. CASE workflows[w] = "none" /\ workflows'[w] = "pending"
      <4>1. LifeOf(w) = "absent" /\ LifeOf(w)' = "open"
        BY <3>4 DEF LifeOf
      <4> QED
        BY <3>2, <4>1 DEF Lifecycle!Births
    <3>5. CASE /\ workflows[w] # "none" /\ workflows'[w] # "none"
               /\ w \in scheduled' <=> w \in scheduled
               /\ w \in scheduled \/ workflows[w] # "completed"
      <4>1. CASE w \in scheduled
        BY <3>2, <3>5, <4>1 DEF LifeOf
      <4>2. CASE w \notin scheduled
        <5>1. /\ LifeOf(w) \in {"open", "stopped"}
              /\ LifeOf(w)' \in {"open", "stopped", "completed"}
          BY <3>1, <3>5, <4>2 DEF LifeOf
        <5> QED
          BY <3>2, <5>1 DEF Lifecycle!Moves
      <4> QED
        BY <4>1, <4>2
    <3> QED
      BY <2>1, <3>3, <3>4, <3>5 DEF RowMoves
  <2> QED
    BY <2>2 DEF Lifecycle!LifeNext
<1> QED
  BY <1>1, <1>2, StatementInvariantHolds, PTL DEF Spec, LifecycleStatementwise
=============================================================================
