----------------------- MODULE WorkflowExecutionProofs -----------------------
(***************************************************************************)
(* Proofs about WorkflowExecution for every set of runs and steps, every   *)
(* retry policy, every channel capacity and every bound.                   *)
(***************************************************************************)
EXTENDS WorkflowExecution, SequenceTheorems, TLAPS

(***************************************************************************)
(* The part of the invariant that concerns one step s, as a predicate of   *)
(* its row r and the log a of its attempts.                                *)
(***************************************************************************)
StepOK(s, r, a) ==
    /\ r \in StepRow
    /\ a \in Seq(ActivityRow)
    /\ \A i \in 1..(Len(a) - 1) : a[i].state = "failed"
    /\ r.state \in {"running", "completed", "failed"} =>
         Len(a) > 0 /\ a[Len(a)].state = r.state
    /\ r.state = "pending" /\ Len(a) > 0 => a[Len(a)].state = "failed"
    /\ r.state = "none" => Len(a) = 0
    /\ Len(a) <= r.attempt
    /\ \A i \in 1..Len(a) : a[i].attempt <= r.attempt
    /\ r.state = "running" => a[Len(a)].attempt = r.attempt
    /\ r.state = "pending" /\ Len(a) > 0 => r.attempt < MaximumAttempts[s]
    /\ r.retry # "null" => r.state = "pending"
    /\ Len(a) <= IF MaximumAttempts[s] = 0 THEN 1 ELSE MaximumAttempts[s]

(***************************************************************************)
(* A poll that dispatches a pending step keeps it in order: the new        *)
(* attempt is within the policy and carries the highest number.            *)
(***************************************************************************)
LEMMA DispatchStep ==
  ASSUME NEW s \in Steps, NEW r, NEW a,
         StepOK(s, r, a), r.state = "pending"
  PROVE  StepOK(s, [state |-> "running", attempt |-> r.attempt + 1, retry |-> "null"],
                   Append(a, [attempt |-> r.attempt + 1, state |-> "running"]))
<1> DEFINE e == [attempt |-> r.attempt + 1, state |-> "running"]
           b == Append(a, e)
           q == [state |-> "running", attempt |-> r.attempt + 1, retry |-> "null"]
<1>1. /\ r \in StepRow /\ r.attempt \in Nat
      /\ a \in Seq(ActivityRow)
      /\ MaximumAttempts[s] \in Nat
  BY StepsAssumption DEF StepOK, StepRow
<1>2. e \in ActivityRow /\ q \in StepRow
  BY <1>1 DEF ActivityRow, StepRow
<1>3. /\ b \in Seq(ActivityRow)
      /\ Len(b) = Len(a) + 1
      /\ \A i \in 1..Len(a) : b[i] = a[i]
      /\ b[Len(a) + 1] = e
      /\ Len(a) \in Nat
  BY <1>1, <1>2, AppendProperties, LenProperties
<1>4. \A i \in 1..(Len(b) - 1) : b[i].state = "failed"
  BY <1>1, <1>3 DEF StepOK
<1>5. \A i \in 1..Len(b) : b[i].attempt <= q.attempt
  <2> TAKE i \in 1..Len(b)
  <2>1. CASE i = Len(b)
    BY <1>1, <1>3, <2>1
  <2>2. CASE i # Len(b)
    <3>1. i \in 1..Len(a)
      BY <1>3, <2>2
    <3>2. a[i] \in ActivityRow /\ a[i].attempt <= r.attempt
      BY <1>1, <3>1, ElementOfSeq DEF StepOK
    <3> QED BY <1>1, <1>3, <3>1, <3>2 DEF ActivityRow
  <2> QED BY <2>1, <2>2
<1>6. Len(b) <= IF MaximumAttempts[s] = 0 THEN 1 ELSE MaximumAttempts[s]
  BY <1>1, <1>3 DEF StepOK
<1>7. Len(b) <= q.attempt
  BY <1>1, <1>3 DEF StepOK
<1> QED
  BY <1>2, <1>3, <1>4, <1>5, <1>6, <1>7 DEF StepOK

(***************************************************************************)
(* A report about the newest attempt of a running step keeps the step in   *)
(* order: the step completes, waits for a retry its policy allows, or      *)
(* fails.                                                                  *)
(***************************************************************************)
LEMMA ReportStep ==
  ASSUME NEW s \in Steps, NEW r, NEW a, NEW q \in StepRow,
         NEW outcome \in {"completed", "failed"},
         StepOK(s, r, a), r.state = "running",
         q.attempt \in {r.attempt, r.attempt + 1},
         \/ q.state = outcome /\ q.retry = "null"
         \/ /\ q.state = "pending" /\ outcome = "failed"
            /\ q.attempt < MaximumAttempts[s]
  PROVE  StepOK(s, q, [a EXCEPT ![Len(a)] =
                         [attempt |-> a[Len(a)].attempt, state |-> outcome]])
<1> DEFINE n == Len(a)
           e == [attempt |-> a[n].attempt, state |-> outcome]
           b == [a EXCEPT ![n] = e]
<1>1. /\ r \in StepRow /\ r.attempt \in Nat /\ q.attempt \in Nat
      /\ a \in Seq(ActivityRow)
      /\ n \in Nat /\ n > 0 /\ n \in 1..Len(a)
      /\ r.attempt <= q.attempt
  BY LenProperties DEF StepOK, StepRow
<1>2. a[n] \in ActivityRow /\ e \in ActivityRow
  BY <1>1, ElementOfSeq DEF ActivityRow
<1>3. /\ b \in Seq(ActivityRow)
      /\ Len(b) = n
      /\ \A j \in 1..n : b[j] = IF j = n THEN e ELSE a[j]
  BY <1>1, <1>2, ExceptSeq
<1>4. \A i \in 1..(Len(b) - 1) : b[i].state = "failed"
  BY <1>1, <1>3 DEF StepOK
<1>5. \A i \in 1..Len(b) : b[i].attempt <= q.attempt
  <2> TAKE i \in 1..Len(b)
  <2>1. a[i] \in ActivityRow /\ a[i].attempt <= r.attempt
    BY <1>1, <1>3, ElementOfSeq DEF StepOK
  <2>2. b[i].attempt = a[i].attempt
    BY <1>3
  <2> QED BY <1>1, <2>1, <2>2 DEF ActivityRow
<1>6. b[Len(b)].state = outcome
  BY <1>1, <1>3
<1>7. Len(b) <= q.attempt
  BY <1>1, <1>3 DEF StepOK
<1> QED
  BY <1>1, <1>3, <1>4, <1>5, <1>6, <1>7 DEF StepOK

-----------------------------------------------------------------------------
(* The invariant, split into the tables and the channel.                   *)

TablesOK ==
    /\ workflows \in [Workflows -> WorkflowRow]
    /\ steps \in [Steps -> StepRow]
    /\ activities \in [Steps -> Seq(ActivityRow)]
    /\ tasks \subseteq Steps \X Nat
    /\ RowsInserted
    /\ TasksAreCurrent
    /\ \A s \in Steps : StepOK(s, steps[s], activities[s])

ChannelOK ==
    /\ queue \in Seq(Event)
    /\ Len(queue) <= ChannelCapacity
    /\ eventsLost \in BOOLEAN

CountersOK == restarts \in 0..MaxRestarts /\ edits \in 0..MaxScheduleEdits

LEMMA TablesImplyLease ==
  TablesOK /\ ChannelOK /\ CountersOK => TypeOK /\ LeaseInvariant
<1> SUFFICES ASSUME TablesOK, ChannelOK, CountersOK
             PROVE  TypeOK /\ LeaseInvariant
  OBVIOUS
<1>1. TypeOK
  BY DEF TablesOK, ChannelOK, CountersOK, TypeOK
<1>2. StepsMatchActivities
  BY DEF TablesOK, StepOK, StepsMatchActivities
<1>3. AttemptsCounted
  BY DEF TablesOK, StepOK, AttemptsCounted
<1>4. AttemptsWithinPolicy
  BY DEF TablesOK, StepOK, AttemptsWithinPolicy
<1> QED BY <1>1, <1>2, <1>3, <1>4 DEF TablesOK, LeaseInvariant

(***************************************************************************)
(* A send keeps the channel within its capacity, queues its event, and     *)
(* loses a queued event only if eventsLost records it.                     *)
(***************************************************************************)
LEMMA NotifyChannel ==
  ASSUME ChannelOK, NEW e \in Event, Notify(e)
  PROVE  /\ ChannelOK'
         /\ Queued(e)'
         /\ eventsLost => eventsLost'
         /\ \A x : Queued(x) => Queued(x)' \/ eventsLost'
<1>1. ChannelCapacity \in Nat \ {0} /\ queue \in Seq(Event) /\ Len(queue) \in Nat
  BY BoundsAssumption, LenProperties DEF ChannelOK
<1>2. eventsLost' \in BOOLEAN /\ (eventsLost => eventsLost')
  BY DEF ChannelOK, Notify
<1>3. CASE Len(queue) < ChannelCapacity
  <2>1. queue' = Append(queue, e)
    BY <1>3 DEF Notify, Enqueue
  <2>2. /\ queue' \in Seq(Event)
        /\ Len(queue') = Len(queue) + 1
        /\ \A i \in 1..Len(queue) : queue'[i] = queue[i]
        /\ queue'[Len(queue) + 1] = e
    BY <1>1, <2>1, AppendProperties
  <2>3. Queued(e)' /\ \A x : Queued(x) => Queued(x)'
    BY <1>1, <2>2 DEF Queued
  <2>4. Len(queue') <= ChannelCapacity
    BY <1>1, <1>3, <2>2
  <2> QED BY <1>2, <2>2, <2>3, <2>4 DEF ChannelOK
<1>4. CASE Len(queue) = ChannelCapacity
  <2>1. queue # <<>>
    BY <1>1, <1>4
  <2>2. Tail(queue) \in Seq(Event) /\ Len(Tail(queue)) = Len(queue) - 1
    BY <1>1, <2>1, HeadTailProperties
  <2>3. queue' = Append(Tail(queue), e)
    BY <1>1, <1>4 DEF Notify, Enqueue
  <2>4. /\ queue' \in Seq(Event)
        /\ Len(queue') = Len(queue)
        /\ queue'[Len(queue')] = e
    BY <1>1, <2>2, <2>3, AppendProperties
  <2>5. Queued(e)'
    BY <1>1, <1>4, <2>4 DEF Queued
  <2>6. eventsLost'
    BY <1>4 DEF Notify
  <2> QED BY <1>2, <1>4, <2>4, <2>5, <2>6 DEF ChannelOK
<1> QED BY <1>1, <1>3, <1>4 DEF ChannelOK

(***************************************************************************)
(* A receive removes the head of the channel and nothing else.             *)
(***************************************************************************)
LEMMA ReceiveChannel ==
  ASSUME ChannelOK, NEW type, Receive(type)
  PROVE  /\ ChannelOK'
         /\ Head(queue) \in Event
         /\ \A x : Queued(x) /\ x # Head(queue) => Queued(x)'
<1>1. queue \in Seq(Event) /\ queue # <<>> /\ queue' = Tail(queue) /\ Len(queue) \in Nat
  BY LenProperties DEF ChannelOK, Receive
<1>2. /\ Head(queue) \in Event
      /\ queue' \in Seq(Event)
      /\ Len(queue') = Len(queue) - 1
      /\ \A i \in 1..Len(queue') : queue'[i] = queue[i + 1]
      /\ Head(queue) = queue[1]
  BY <1>1, HeadTailProperties
<1>3. ASSUME NEW x, Queued(x), x # Head(queue)
      PROVE  Queued(x)'
  <2>1. PICK i \in 1..Len(queue) : queue[i] = x
    BY <1>3 DEF Queued
  <2>2. i - 1 \in 1..Len(queue') /\ queue'[i - 1] = x
    BY <1>1, <1>2, <1>3, <2>1
  <2> QED BY <2>2 DEF Queued
<1> QED BY <1>1, <1>2, <1>3, BoundsAssumption DEF ChannelOK, Receive

-----------------------------------------------------------------------------
(* The tables, action by action.                                           *)

LEMMA InsertTables ==
  ASSUME TablesOK, NEW w \in Workflows, InsertWorkflow(w), UNCHANGED <<activities, tasks>>
  PROVE  TablesOK'
<1>1. /\ workflows' \in [Workflows -> WorkflowRow]
      /\ workflows'[w].state = "pending"
      /\ \A v \in Workflows : v # w => workflows'[v] = workflows[v]
  BY DEF TablesOK, InsertWorkflow, WorkflowRow, Terminal
<1>2. /\ steps' \in [Steps -> StepRow]
      /\ \A s \in Steps : RunOf[s] # w => steps'[s] = steps[s]
      /\ \A s \in Steps : RunOf[s] = w =>
           steps'[s] = [state |-> "pending", attempt |-> 0, retry |-> "null"]
  BY DEF TablesOK, InsertWorkflow, StepRow
<1>3. \A s \in Steps : RunOf[s] = w => steps[s].state = "none"
  BY DEF TablesOK, RowsInserted, InsertWorkflow
<1>4. RowsInserted'
  <2> SUFFICES ASSUME NEW s \in Steps
               PROVE  workflows'[RunOf[s]].state = "none" <=> steps'[s].state = "none"
    BY DEF RowsInserted
  <2>1. RunOf[s] \in Workflows
    BY StepsAssumption
  <2>2. workflows[RunOf[s]].state = "none" <=> steps[s].state = "none"
    BY DEF TablesOK, RowsInserted
  <2>3. CASE RunOf[s] = w
    BY <1>1, <1>2, <2>3
  <2>4. CASE RunOf[s] # w
    BY <1>1, <1>2, <2>1, <2>2, <2>4
  <2> QED BY <2>3, <2>4
<1>5. TasksAreCurrent'
  <2> SUFFICES ASSUME NEW t \in tasks
               PROVE  steps'[t[1]].state = "running" /\ t[2] = Len(activities[t[1]])
    BY DEF TasksAreCurrent
  <2>1. t[1] \in Steps /\ steps[t[1]].state = "running" /\ t[2] = Len(activities[t[1]])
    BY DEF TablesOK, TasksAreCurrent
  <2>2. RunOf[t[1]] # w
    BY <1>3, <2>1
  <2> QED BY <1>2, <2>1, <2>2
<1>6. ASSUME NEW s \in Steps
      PROVE  StepOK(s, steps'[s], activities[s])
  <2>1. StepOK(s, steps[s], activities[s])
    BY DEF TablesOK
  <2>2. CASE RunOf[s] = w
    <3>1. Len(activities[s]) = 0 /\ activities[s] \in Seq(ActivityRow)
      BY <1>3, <2>1, <2>2 DEF StepOK
    <3>2. MaximumAttempts[s] \in Nat
      BY StepsAssumption
    <3> QED BY <1>2, <2>2, <3>1, <3>2 DEF StepOK, StepRow
  <2>3. CASE RunOf[s] # w
    BY <1>2, <2>1, <2>3
  <2> QED BY <2>2, <2>3
<1> QED BY <1>1, <1>2, <1>4, <1>5, <1>6 DEF TablesOK

LEMMA CancelTables ==
  ASSUME TablesOK, NEW w \in Workflows, CancelWorkflow(w)
  PROVE  TablesOK'
<1>1. /\ workflows' \in [Workflows -> WorkflowRow]
      /\ \A v \in Workflows : workflows'[v].state = "none" <=> workflows[v].state = "none"
  BY DEF TablesOK, CancelWorkflow, WorkflowRow, Terminal
<1>2. RowsInserted'
  BY <1>1, StepsAssumption DEF TablesOK, RowsInserted, CancelWorkflow
<1> QED BY <1>1, <1>2 DEF TablesOK, TasksAreCurrent, CancelWorkflow

LEMMA DispatchTables ==
  ASSUME TablesOK, NEW s \in Steps, Dispatch(s)
  PROVE  TablesOK'
<1> DEFINE w == RunOf[s]
<1>1. StepOK(s, steps[s], activities[s]) /\ steps[s].state = "pending"
  BY DEF TablesOK, Dispatch, Ready
<1>2. StepOK(s, [state |-> "running", attempt |-> steps[s].attempt + 1, retry |-> "null"],
                Append(activities[s], [attempt |-> steps[s].attempt + 1, state |-> "running"]))
  BY <1>1, DispatchStep
<1>3. /\ steps'[s] = [state |-> "running", attempt |-> steps[s].attempt + 1, retry |-> "null"]
      /\ DOMAIN steps' = Steps
      /\ steps' = [r \in Steps |-> steps'[r]]
      /\ \A r \in Steps : r # s => steps'[r] = steps[r]
  BY DEF TablesOK, Dispatch
<1>4. /\ activities'[s] =
           Append(activities[s], [attempt |-> steps[s].attempt + 1, state |-> "running"])
      /\ activities' = [r \in Steps |-> activities'[r]]
      /\ \A r \in Steps : r # s => activities'[r] = activities[r]
  BY DEF TablesOK, Dispatch
<1>5. \A r \in Steps : StepOK(r, steps'[r], activities'[r])
  BY <1>2, <1>3, <1>4 DEF TablesOK
<1>6. steps' \in [Steps -> StepRow] /\ activities' \in [Steps -> Seq(ActivityRow)]
  BY <1>3, <1>4, <1>5 DEF StepOK
<1>7. /\ w \in Workflows
      /\ workflows' \in [Workflows -> WorkflowRow]
      /\ workflows'[w].state = "running"
      /\ \A v \in Workflows : v # w => workflows'[v] = workflows[v]
  BY StepsAssumption DEF TablesOK, Dispatch, WorkflowRow
<1>8. RowsInserted'
  <2> SUFFICES ASSUME NEW r \in Steps
               PROVE  workflows'[RunOf[r]].state = "none" <=> steps'[r].state = "none"
    BY DEF RowsInserted
  <2>1. workflows[w].state # "none"
    BY <1>1 DEF TablesOK, RowsInserted
  <2>2. CASE RunOf[r] = w
    <3>1. steps[r].state # "none"
      BY <2>1, <2>2 DEF TablesOK, RowsInserted
    <3> QED BY <1>3, <1>7, <2>2, <3>1
  <2>3. CASE RunOf[r] # w
    <3>1. RunOf[r] \in Workflows /\ r # s
      BY <2>3, StepsAssumption
    <3>2. workflows[RunOf[r]].state = "none" <=> steps[r].state = "none"
      BY DEF TablesOK, RowsInserted
    <3> QED BY <1>3, <1>7, <2>3, <3>1, <3>2
  <2> QED BY <2>2, <2>3
<1>9. Len(activities'[s]) = Len(activities[s]) + 1 /\ Len(activities[s]) \in Nat
  BY <1>1, <1>4, LenProperties, AppendProperties DEF StepOK
<1>10. tasks' = tasks \union {<<s, Len(activities[s]) + 1>>}
  BY DEF Dispatch
<1>11. TasksAreCurrent'
  <2> SUFFICES ASSUME NEW t \in tasks'
               PROVE  steps'[t[1]].state = "running" /\ t[2] = Len(activities'[t[1]])
    BY DEF TasksAreCurrent
  <2>1. CASE t \in tasks
    <3>1. t[1] \in Steps /\ steps[t[1]].state = "running" /\ t[2] = Len(activities[t[1]])
      BY <2>1 DEF TablesOK, TasksAreCurrent
    <3>2. t[1] # s
      BY <1>1, <3>1
    <3> QED BY <1>3, <1>4, <3>1, <3>2
  <2>2. CASE t = <<s, Len(activities[s]) + 1>>
    BY <1>3, <1>9, <2>2
  <2> QED BY <1>10, <2>1, <2>2
<1>12. tasks' \subseteq Steps \X Nat
  BY <1>9, <1>10 DEF TablesOK
<1> QED BY <1>5, <1>6, <1>7, <1>8, <1>11, <1>12 DEF TablesOK

(***************************************************************************)
(* Both reports put the row q in place of the row of step s and record     *)
(* outcome as the state of the attempt that the worker held.               *)
(***************************************************************************)
LEMMA ReportTables ==
  ASSUME TablesOK, NEW s \in Steps, NEW n \in Nat, NEW q \in StepRow,
         NEW outcome \in {"completed", "failed"},
         <<s, n>> \in tasks,
         tasks' = tasks \ {<<s, n>>},
         SetActivity(s, n, outcome),
         steps' = [steps EXCEPT ![s] = q],
         q.attempt \in {steps[s].attempt, activities[s][n].attempt + 1},
         \/ q.state = outcome /\ q.retry = "null"
         \/ /\ q.state = "pending" /\ outcome = "failed"
            /\ q.attempt < MaximumAttempts[s],
         UNCHANGED workflows
  PROVE  TablesOK'
<1>1. /\ StepOK(s, steps[s], activities[s])
      /\ steps[s].state = "running"
      /\ n = Len(activities[s])
  BY DEF TablesOK, TasksAreCurrent
<1>2. activities[s][n].attempt = steps[s].attempt
  BY <1>1 DEF StepOK
<1> DEFINE e == [attempt |-> activities[s][n].attempt, state |-> outcome]
           b == [activities[s] EXCEPT ![n] = e]
<1>3. StepOK(s, q, b)
  BY <1>1, <1>2, ReportStep
<1>4. /\ steps'[s] = q
      /\ steps' = [r \in Steps |-> steps'[r]]
      /\ \A r \in Steps : r # s => steps'[r] = steps[r]
  BY DEF TablesOK
<1>5. /\ activities'[s] = b
      /\ activities' = [r \in Steps |-> activities'[r]]
      /\ \A r \in Steps : r # s => activities'[r] = activities[r]
  BY DEF TablesOK, SetActivity
<1>6. \A r \in Steps : StepOK(r, steps'[r], activities'[r])
  BY <1>3, <1>4, <1>5 DEF TablesOK
<1>7. steps' \in [Steps -> StepRow] /\ activities' \in [Steps -> Seq(ActivityRow)]
  BY <1>4, <1>5, <1>6 DEF StepOK
<1>8. RowsInserted'
  <2> SUFFICES ASSUME NEW r \in Steps
               PROVE  workflows[RunOf[r]].state = "none" <=> steps'[r].state = "none"
    BY DEF RowsInserted
  <2>1. workflows[RunOf[r]].state = "none" <=> steps[r].state = "none"
    BY DEF TablesOK, RowsInserted
  <2>2. CASE r = s
    BY <1>1, <1>4, <2>1, <2>2
  <2>3. CASE r # s
    BY <1>4, <2>1, <2>3
  <2> QED BY <2>2, <2>3
<1>9. TasksAreCurrent'
  <2> SUFFICES ASSUME NEW t \in tasks'
               PROVE  steps'[t[1]].state = "running" /\ t[2] = Len(activities'[t[1]])
    BY DEF TasksAreCurrent
  <2>1. /\ t \in Steps \X Nat
        /\ steps[t[1]].state = "running"
        /\ t[2] = Len(activities[t[1]])
        /\ t # <<s, n>>
    BY DEF TablesOK, TasksAreCurrent
  <2>2. t[1] # s
    BY <1>1, <2>1
  <2> QED BY <1>4, <1>5, <2>1, <2>2
<1> QED BY <1>6, <1>7, <1>8, <1>9 DEF TablesOK

LEMMA CompleteTables ==
  ASSUME TablesOK, NEW s \in Steps, NEW n \in Nat, CompleteAttempt(s, n)
  PROVE  TablesOK'
<1> DEFINE q == [state |-> "completed", attempt |-> steps[s].attempt, retry |-> "null"]
<1>1. q \in StepRow
  BY DEF TablesOK, StepRow
<1>2. /\ <<s, n>> \in tasks
      /\ tasks' = tasks \ {<<s, n>>}
      /\ SetActivity(s, n, "completed")
      /\ steps' = [steps EXCEPT ![s] = q]
      /\ UNCHANGED workflows
  BY DEF CompleteAttempt
<1> QED BY <1>1, <1>2, ReportTables

LEMMA FailTables ==
  ASSUME TablesOK, NEW s \in Steps, NEW n \in Nat, FailAttempt(s, n)
  PROVE  TablesOK'
<1> DEFINE q == IF ShouldRetry(s, n)
                THEN [state |-> "pending", attempt |-> CurrentAttempt(s, n),
                      retry |-> "later"]
                ELSE [state |-> "failed", attempt |-> CurrentAttempt(s, n),
                      retry |-> "null"]
<1>1. /\ <<s, n>> \in tasks
      /\ tasks' = tasks \ {<<s, n>>}
      /\ SetActivity(s, n, "failed")
      /\ steps' = [steps EXCEPT ![s] = q]
      /\ UNCHANGED workflows
  BY DEF FailAttempt
<1>2. /\ StepOK(s, steps[s], activities[s])
      /\ steps[s].state = "running"
      /\ n = Len(activities[s])
  BY <1>1 DEF TablesOK, TasksAreCurrent
<1>3. activities[s][n].attempt = steps[s].attempt /\ steps[s].attempt \in Nat
  BY <1>2 DEF StepOK, StepRow
<1>4. /\ q \in StepRow
      /\ q.attempt = activities[s][n].attempt + 1
      /\ \/ q.state = "failed" /\ q.retry = "null"
         \/ (q.state = "pending" /\ q.attempt < MaximumAttempts[s])
  BY <1>3 DEF ShouldRetry, CurrentAttempt, StepRow
<1> QED BY <1>1, <1>4, ReportTables

LEMMA DelayTables ==
  ASSUME TablesOK, NEW s \in Steps, RetryDelayElapses(s)
  PROVE  TablesOK'
<1>1. /\ steps' \in [Steps -> StepRow]
      /\ \A r \in Steps :
           /\ steps'[r].state = steps[r].state /\ steps'[r].attempt = steps[r].attempt
           /\ steps'[r].retry # "null" => steps[r].retry # "null"
  BY DEF TablesOK, RetryDelayElapses, StepRow
<1>2. UNCHANGED <<workflows, activities, tasks>>
  BY DEF RetryDelayElapses
<1>3. RowsInserted'
  BY <1>1, <1>2 DEF TablesOK, RowsInserted
<1>4. TasksAreCurrent'
  BY <1>1, <1>2 DEF TablesOK, TasksAreCurrent
<1>5. ASSUME NEW r \in Steps
      PROVE  StepOK(r, steps'[r], activities[r])
  <2>1. StepOK(r, steps[r], activities[r])
    BY DEF TablesOK
  <2>2. /\ steps'[r] \in StepRow
        /\ steps'[r].state = steps[r].state /\ steps'[r].attempt = steps[r].attempt
        /\ steps'[r].retry # "null" => steps[r].state = "pending"
    BY <1>1, <2>1 DEF StepOK
  <2> QED BY <2>1, <2>2 DEF StepOK
<1> QED BY <1>1, <1>2, <1>3, <1>4, <1>5 DEF TablesOK

(***************************************************************************)
(* What process_single_workflow leaves in the row of a run: it never       *)
(* creates a row, settles a run only when the steps justify it, and does   *)
(* settle a run whose steps are settled.                                   *)
(***************************************************************************)
LEMMA ProcessRow ==
  ASSUME TablesOK, NEW w \in Workflows
  PROVE  LET row == ProcessSingleWorkflow(w) IN
         /\ row \in WorkflowRow
         /\ row.state = "none" <=> workflows[w].state = "none"
         /\ row.state = "completed" => AllCompleted(w) \/ workflows[w].state = "completed"
         /\ row.state = "failed" => HasStep(w, "failed") \/ workflows[w].state = "failed"
         /\ AllSettled(w) => row.state \in {"completed", "failed"}
<1> DEFINE row == ProcessSingleWorkflow(w)
<1>1. /\ workflows[w] \in WorkflowRow
      /\ Begun(w) \in WorkflowRow
      /\ Settled(w, "failed") \in WorkflowRow
      /\ Settled(w, "completed") \in WorkflowRow
  BY DEF TablesOK, Begun, Settled, WorkflowRow, Terminal
<1>2. /\ Begun(w).state = "none" <=> workflows[w].state = "none"
      /\ Begun(w).state = "completed" => workflows[w].state = "completed"
      /\ Begun(w).state = "failed" => workflows[w].state = "failed"
      /\ Settled(w, "failed").state = "failed"
      /\ Settled(w, "completed").state = "completed"
  BY <1>1 DEF Begun, Settled
<1>3. workflows[w].state = "none" =>
        /\ ~HasStep(w, "pending")
        /\ ~HasStep(w, "failed")
        /\ ~AllCompleted(w)
  BY DEF TablesOK, RowsInserted, HasStep, AllCompleted, StepsOf
<1>4. AllCompleted(w) => ~HasStep(w, "pending") /\ ~HasStep(w, "failed")
  BY DEF AllCompleted, HasStep
<1>5. AllSettled(w) => ~HasStep(w, "pending") /\ (HasStep(w, "failed") \/ AllCompleted(w))
  BY DEF AllSettled, AllCompleted, HasStep
<1>6. CASE HasStep(w, "pending")
  <2>1. row = Begun(w)
    BY <1>4, <1>6 DEF ProcessSingleWorkflow
  <2> QED BY <1>1, <1>2, <1>5, <1>6, <2>1
<1>7. CASE ~HasStep(w, "pending") /\ HasStep(w, "failed")
  <2>1. row = Settled(w, "failed")
    BY <1>4, <1>7 DEF ProcessSingleWorkflow
  <2> QED BY <1>1, <1>2, <1>3, <1>7, <2>1
<1>8. CASE ~HasStep(w, "pending") /\ ~HasStep(w, "failed") /\ AllCompleted(w)
  <2>1. row = Settled(w, "completed")
    BY <1>8 DEF ProcessSingleWorkflow
  <2> QED BY <1>1, <1>2, <1>3, <1>8, <2>1
<1>9. CASE ~HasStep(w, "pending") /\ ~HasStep(w, "failed") /\ ~AllCompleted(w)
  <2>1. row = Begun(w)
    BY <1>9 DEF ProcessSingleWorkflow
  <2> QED BY <1>1, <1>2, <1>5, <1>9, <2>1
<1> QED BY <1>6, <1>7, <1>8, <1>9

(***************************************************************************)
(* An engine handler replaces the rows of some runs by what                *)
(* process_single_workflow makes of them.                                  *)
(***************************************************************************)
LEMMA EngineRows ==
  ASSUME TablesOK, ChannelOK, Engine
  PROVE  /\ workflows' \in [Workflows -> WorkflowRow]
         /\ \A w \in Workflows :
              workflows'[w] = workflows[w] \/ workflows'[w] = ProcessSingleWorkflow(w)
         /\ \A w \in Workflows :
              Head(queue) = StepCompleted(w) => workflows'[w] = ProcessSingleWorkflow(w)
         /\ \E type : Receive(type)
<1>1. \A w \in Workflows : ProcessSingleWorkflow(w) \in WorkflowRow
  BY ProcessRow
<1>2. workflows \in [Workflows -> WorkflowRow]
  BY DEF TablesOK
<1>3. CASE HandleWorkflowCreated
  <2>1. Head(queue) \in Event /\ Head(queue).type = "WorkflowCreated"
    BY <1>3, ReceiveChannel DEF HandleWorkflowCreated, Receive
  <2>2. Head(queue).run \in Workflows
    BY <2>1 DEF Event
  <2>3. \A w \in Workflows : Head(queue) # StepCompleted(w)
    BY <2>1 DEF StepCompleted
  <2>4. workflows' = [workflows EXCEPT ![Head(queue).run] =
                        ProcessSingleWorkflow(Head(queue).run)]
    BY <1>3 DEF HandleWorkflowCreated
  <2>5. Receive("WorkflowCreated")
    BY <1>3 DEF HandleWorkflowCreated
  <2>6. workflows' \in [Workflows -> WorkflowRow]
    BY <1>1, <1>2, <2>2, <2>4
  <2>7. \A w \in Workflows :
          workflows'[w] = workflows[w] \/ workflows'[w] = ProcessSingleWorkflow(w)
    BY <1>2, <2>2, <2>4
  <2> QED BY <2>3, <2>5, <2>6, <2>7
<1>4. CASE HandleStepCompleted
  <2>1. Head(queue) \in Event /\ Head(queue).type = "StepCompleted"
    BY <1>4, ReceiveChannel DEF HandleStepCompleted, Receive
  <2>2. Head(queue).run \in Workflows
    BY <2>1 DEF Event
  <2>3. \A w \in Workflows : Head(queue) = StepCompleted(w) => Head(queue).run = w
    BY DEF StepCompleted
  <2>4. workflows' = [workflows EXCEPT ![Head(queue).run] =
                        ProcessSingleWorkflow(Head(queue).run)]
    BY <1>4 DEF HandleStepCompleted
  <2>5. Receive("StepCompleted")
    BY <1>4 DEF HandleStepCompleted
  <2>6. workflows' \in [Workflows -> WorkflowRow]
    BY <1>1, <1>2, <2>2, <2>4
  <2>7. \A w \in Workflows :
          workflows'[w] = workflows[w] \/ workflows'[w] = ProcessSingleWorkflow(w)
    BY <1>2, <2>2, <2>4
  <2>8. \A w \in Workflows :
          Head(queue) = StepCompleted(w) => workflows'[w] = ProcessSingleWorkflow(w)
    BY <1>2, <2>2, <2>3, <2>4
  <2> QED BY <2>5, <2>6, <2>7, <2>8
<1>5. CASE HandleScheduleChange
  <2>1. Head(queue).type = "ScheduleChange" /\ Receive("ScheduleChange")
    BY <1>5 DEF HandleScheduleChange, Receive
  <2>2. \A w \in Workflows : Head(queue) # StepCompleted(w)
    BY <2>1 DEF StepCompleted
  <2> QED BY <1>1, <1>2, <1>5, <2>1, <2>2 DEF HandleScheduleChange
<1> QED BY <1>3, <1>4, <1>5 DEF Engine

LEMMA EngineTables ==
  ASSUME TablesOK, ChannelOK, Engine
  PROVE  TablesOK' /\ ChannelOK' /\ UNCHANGED <<restarts, edits>>
<1>1. PICK type : Receive(type)
  BY EngineRows
<1>2. UNCHANGED <<steps, activities, tasks, restarts, edits>>
  BY <1>1 DEF Receive
<1>3. workflows' \in [Workflows -> WorkflowRow]
  BY EngineRows
<1>4. \A w \in Workflows : workflows'[w].state = "none" <=> workflows[w].state = "none"
  BY EngineRows, ProcessRow
<1>5. RowsInserted'
  BY <1>2, <1>4, StepsAssumption DEF TablesOK, RowsInserted
<1>6. TasksAreCurrent'
  BY <1>2 DEF TablesOK, TasksAreCurrent
<1>7. ChannelOK'
  BY <1>1, ReceiveChannel
<1> QED BY <1>2, <1>3, <1>5, <1>6, <1>7 DEF TablesOK

-----------------------------------------------------------------------------
(* The invariant is inductive.                                             *)

Invariant == TablesOK /\ ChannelOK /\ CountersOK

LEMMA InitInvariant == Init => Invariant
<1> SUFFICES ASSUME Init PROVE Invariant
  OBVIOUS
<1>1. CountersOK
  BY BoundsAssumption DEF Init, CountersOK
<1>2. ChannelOK
  <2>1. queue \in Seq(Event) /\ Len(queue) = 0
    BY EmptySeq DEF Init
  <2>2. Len(queue) <= ChannelCapacity
    BY <2>1, BoundsAssumption
  <2>3. eventsLost \in BOOLEAN
    BY DEF Init
  <2> QED BY <2>1, <2>2, <2>3 DEF ChannelOK
<1>3. /\ workflows \in [Workflows -> WorkflowRow]
      /\ steps \in [Steps -> StepRow]
      /\ activities \in [Steps -> Seq(ActivityRow)]
      /\ tasks \subseteq Steps \X Nat
  BY EmptySeq DEF Init, WorkflowRow, StepRow
<1>4. RowsInserted /\ TasksAreCurrent
  BY StepsAssumption DEF Init, RowsInserted, TasksAreCurrent
<1>5. ASSUME NEW s \in Steps
      PROVE  StepOK(s, steps[s], activities[s])
  <2>1. /\ steps[s] = [state |-> "none", attempt |-> 0, retry |-> "null"]
        /\ activities[s] = <<>>
        /\ MaximumAttempts[s] \in Nat
    BY StepsAssumption DEF Init
  <2> QED BY <1>3, <2>1 DEF StepOK
<1> QED BY <1>1, <1>2, <1>3, <1>4, <1>5 DEF Invariant, TablesOK

(***************************************************************************)
(* The steps of Next, with the two services folded together.               *)
(***************************************************************************)
LEMMA NextCases ==
  ASSUME TablesOK, Next
  PROVE  \/ \E w \in Workflows : StartWorkflow(w) \/ StartWorkflowExecution(w)
         \/ \E w \in Workflows : CancelWorkflow(w)
         \/ \E s \in Steps : Dispatch(s)
         \/ \E s \in Steps : RetryDelayElapses(s)
         \/ \E s \in Steps, n \in Nat : CompleteAttempt(s, n)
         \/ \E s \in Steps, n \in Nat :
              ReportActivityFailure(s, n) \/ RespondActivityTaskFailed(s, n)
         \/ \E s \in Steps, n \in Nat : LoseTask(s, n)
         \/ Engine
         \/ EditSchedule
         \/ Restart
<1>1. \A t \in tasks : t[1] \in Steps /\ t[2] \in Nat
  BY DEF TablesOK
<1>2. CASE \E t \in tasks : Report(t[1], t[2]) \/ LoseTask(t[1], t[2])
  BY <1>1, <1>2 DEF Report, ReportActivityResult, RespondActivityTaskCompleted
<1>3. CASE \E s \in Steps : Poll(s) \/ RetryDelayElapses(s)
  BY <1>3 DEF Poll, PollActivity, PollActivityTaskQueue
<1>4. CASE Client
  BY <1>4 DEF Client
<1> QED BY <1>2, <1>3, <1>4 DEF Next

LEMMA NextInvariant ==
  Invariant /\ [Next]_vars => Invariant'
<1> SUFFICES ASSUME TablesOK, ChannelOK, CountersOK, [Next]_vars
             PROVE  TablesOK' /\ ChannelOK' /\ CountersOK'
  BY DEF Invariant
<1>1. CASE UNCHANGED vars
  BY <1>1 DEF vars, TablesOK, ChannelOK, CountersOK, RowsInserted, TasksAreCurrent
<1>2. ASSUME NEW w \in Workflows, StartWorkflow(w)
      PROVE  TablesOK' /\ ChannelOK' /\ CountersOK'
  <2>1. TablesOK'
    BY <1>2, InsertTables DEF StartWorkflow
  <2>2. WorkflowCreated(w) \in Event
    BY DEF WorkflowCreated, Event
  <2>3. ChannelOK'
    BY <1>2, <2>2, NotifyChannel DEF StartWorkflow
  <2> QED BY <1>2, <2>1, <2>3 DEF StartWorkflow, CountersOK
<1>3. ASSUME NEW w \in Workflows, StartWorkflowExecution(w)
      PROVE  TablesOK' /\ ChannelOK' /\ CountersOK'
  BY <1>3, InsertTables DEF StartWorkflowExecution, ChannelOK, CountersOK
<1>4. ASSUME NEW w \in Workflows, CancelWorkflow(w)
      PROVE  TablesOK' /\ ChannelOK' /\ CountersOK'
  BY <1>4, CancelTables DEF CancelWorkflow, ChannelOK, CountersOK
<1>5. ASSUME NEW s \in Steps, Dispatch(s)
      PROVE  TablesOK' /\ ChannelOK' /\ CountersOK'
  BY <1>5, DispatchTables DEF Dispatch, ChannelOK, CountersOK
<1>6. ASSUME NEW s \in Steps, RetryDelayElapses(s)
      PROVE  TablesOK' /\ ChannelOK' /\ CountersOK'
  BY <1>6, DelayTables DEF RetryDelayElapses, ChannelOK, CountersOK
<1>7. \A s \in Steps : StepCompleted(RunOf[s]) \in Event
  BY StepsAssumption DEF StepCompleted, Event
<1>8. ASSUME NEW s \in Steps, NEW n \in Nat, CompleteAttempt(s, n)
      PROVE  TablesOK' /\ ChannelOK' /\ CountersOK'
  <2>1. TablesOK'
    BY <1>8, CompleteTables
  <2>2. ChannelOK'
    BY <1>7, <1>8, NotifyChannel DEF CompleteAttempt
  <2> QED BY <1>8, <2>1, <2>2 DEF CompleteAttempt, CountersOK
<1>9. ASSUME NEW s \in Steps, NEW n \in Nat,
             ReportActivityFailure(s, n) \/ RespondActivityTaskFailed(s, n)
      PROVE  TablesOK' /\ ChannelOK' /\ CountersOK'
  <2>1. FailAttempt(s, n) /\ TablesOK'
    BY <1>9, FailTables DEF ReportActivityFailure, RespondActivityTaskFailed
  <2>2. UNCHANGED <<queue, eventsLost>> \/ Notify(StepCompleted(RunOf[s]))
    BY <1>9 DEF ReportActivityFailure, RespondActivityTaskFailed
  <2>3. ChannelOK'
    BY <1>7, <2>2, NotifyChannel DEF ChannelOK
  <2> QED BY <2>1, <2>3 DEF FailAttempt, CountersOK
<1>10. ASSUME NEW s \in Steps, NEW n \in Nat, LoseTask(s, n)
       PROVE  TablesOK' /\ ChannelOK' /\ CountersOK'
  <2>1. TasksAreCurrent' /\ RowsInserted'
    BY <1>10 DEF LoseTask, TablesOK, TasksAreCurrent, RowsInserted
  <2> QED BY <1>10, <2>1 DEF LoseTask, TablesOK, ChannelOK, CountersOK
<1>11. CASE Engine
  BY <1>11, EngineTables DEF CountersOK
<1>12. CASE EditSchedule
  <2>1. ScheduleChange \in Event
    BY DEF ScheduleChange, Event
  <2>2. ChannelOK'
    BY <1>12, <2>1, NotifyChannel DEF EditSchedule
  <2>3. CountersOK'
    BY <1>12, BoundsAssumption DEF EditSchedule, CountersOK
  <2>4. TablesOK'
    BY <1>12 DEF EditSchedule, TablesOK, TasksAreCurrent, RowsInserted
  <2> QED BY <2>2, <2>3, <2>4
<1>13. CASE Restart
  <2>1. ChannelOK'
    BY <1>13, EmptySeq, BoundsAssumption DEF Restart, ChannelOK
  <2>2. CountersOK'
    BY <1>13, BoundsAssumption DEF Restart, CountersOK
  <2>3. TablesOK'
    BY <1>13 DEF Restart, TablesOK, TasksAreCurrent, RowsInserted
  <2> QED BY <2>1, <2>2, <2>3
<1> QED
  BY <1>1, <1>2, <1>3, <1>4, <1>5, <1>6, <1>8, <1>9, <1>10, <1>11, <1>12, <1>13,
     NextCases

LEMMA InvariantHolds == Spec => []Invariant
BY InitInvariant, NextInvariant, PTL DEF Spec

(***************************************************************************)
(* Every row, attempt, task and queued event stays well formed, and the    *)
(* engine's channel within its capacity, whatever the clients, workers and *)
(* restarts do.                                                            *)
(***************************************************************************)
THEOREM TypeCorrect == Spec => []TypeOK
<1>1. Invariant => TypeOK
  BY TablesImplyLease DEF Invariant
<1> QED BY <1>1, InvariantHolds, PTL

(***************************************************************************)
(* The unconditional updates of report_activity_result and of the failure  *)
(* handlers only ever reach the newest attempt of a running step.          *)
(***************************************************************************)
THEOREM TasksCurrent == Spec => []TasksAreCurrent
<1>1. Invariant => TasksAreCurrent
  BY DEF Invariant, TablesOK
<1> QED BY <1>1, InvariantHolds, PTL

(***************************************************************************)
(* The steps and activities tables agree in every state.                   *)
(***************************************************************************)
THEOREM TablesAgree == Spec => []StepsMatchActivities
<1>1. Invariant => StepsMatchActivities
  BY TablesImplyLease DEF Invariant, LeaseInvariant
<1> QED BY <1>1, InvariantHolds, PTL

(***************************************************************************)
(* No step is executed more often than its retry policy allows.            *)
(***************************************************************************)
THEOREM PolicyKept == Spec => []AttemptsWithinPolicy
<1>1. Invariant => AttemptsWithinPolicy
  BY TablesImplyLease DEF Invariant, LeaseInvariant
<1> QED BY <1>1, InvariantHolds, PTL

(***************************************************************************)
(* The four parts hold together in every state: rows are inserted in pairs *)
(* of run and step, tasks are current, the tables agree and the attempt    *)
(* counters are neither behind the log nor beyond the policy.              *)
(***************************************************************************)
THEOREM LeaseKept == Spec => []LeaseInvariant
<1>1. Invariant => LeaseInvariant
  BY TablesImplyLease DEF Invariant
<1> QED BY <1>1, InvariantHolds, PTL

-----------------------------------------------------------------------------
(* What the engine makes of a run.                                         *)

\* A run of which no row of workflows or workflow_steps changes.
Untouched(w) ==
    /\ workflows'[w] = workflows[w]
    /\ \A s \in StepsOf(w) : steps'[s].state = steps[s].state

LEMMA UntouchedRun ==
  ASSUME NEW w \in Workflows, Untouched(w)
  PROVE  /\ AllCompleted(w)' <=> AllCompleted(w)
         /\ AllSettled(w)' <=> AllSettled(w)
         /\ HasStep(w, "failed")' <=> HasStep(w, "failed")
BY DEF Untouched, AllCompleted, AllSettled, HasStep, StepsOf

(***************************************************************************)
(* The runs an action leaves untouched.                                    *)
(***************************************************************************)
LEMMA OtherRuns ==
  ASSUME TablesOK, NEW w \in Workflows
  PROVE  /\ \A v \in Workflows \ {w} : InsertWorkflow(v) => Untouched(w)
         /\ \A s \in Steps \ StepsOf(w) : Dispatch(s) => Untouched(w)
         /\ \A s \in Steps : RetryDelayElapses(s) => Untouched(w)
         /\ \A s \in Steps \ StepsOf(w), n \in Nat :
              CompleteAttempt(s, n) \/ FailAttempt(s, n) => Untouched(w)
         /\ UNCHANGED <<workflows, steps>> => Untouched(w)
<1>1. \A v \in Workflows \ {w} : InsertWorkflow(v) => Untouched(w)
  BY DEF TablesOK, InsertWorkflow, Untouched, StepsOf
<1>2. \A s \in Steps \ StepsOf(w) : Dispatch(s) => Untouched(w)
  BY StepsAssumption DEF TablesOK, Dispatch, Untouched, StepsOf
<1>3. \A s \in Steps : RetryDelayElapses(s) => Untouched(w)
  BY DEF TablesOK, RetryDelayElapses, Untouched, StepsOf, StepRow
<1>4. \A s \in Steps \ StepsOf(w), n \in Nat :
        CompleteAttempt(s, n) \/ FailAttempt(s, n) => Untouched(w)
  BY DEF TablesOK, CompleteAttempt, FailAttempt, Untouched, StepsOf
<1>5. UNCHANGED <<workflows, steps>> => Untouched(w)
  BY DEF Untouched
<1> QED BY <1>1, <1>2, <1>3, <1>4, <1>5

(***************************************************************************)
(* A report changes one running step and no workflow row, so it neither    *)
(* breaks nor makes the reason why a run was settled.                      *)
(***************************************************************************)
LEMMA ReportOutcome ==
  ASSUME TablesOK, OutcomeJustified, NEW s \in Steps, NEW n \in Nat,
         CompleteAttempt(s, n) \/ FailAttempt(s, n)
  PROVE  OutcomeJustified'
<1>1. steps[s].state = "running"
  BY DEF TablesOK, TasksAreCurrent, CompleteAttempt, FailAttempt
<1>2. /\ \A r \in Steps : r # s => steps'[r] = steps[r]
      /\ workflows' = workflows
  BY DEF TablesOK, CompleteAttempt, FailAttempt
<1> SUFFICES ASSUME NEW w \in Workflows
             PROVE  /\ workflows[w].state = "completed" => AllCompleted(w)'
                    /\ workflows[w].state = "failed" => HasStep(w, "failed")'
  BY <1>2 DEF OutcomeJustified
<1>3. ASSUME workflows[w].state = "completed"
      PROVE  AllCompleted(w)'
  <2>1. AllCompleted(w) /\ s \notin StepsOf(w)
    BY <1>1, <1>3 DEF OutcomeJustified, AllCompleted
  <2> QED BY <1>2, <2>1 DEF AllCompleted, StepsOf
<1>4. ASSUME workflows[w].state = "failed"
      PROVE  HasStep(w, "failed")'
  <2>1. PICK r \in StepsOf(w) : steps[r].state = "failed"
    BY <1>4 DEF OutcomeJustified, HasStep
  <2>2. r # s /\ r \in Steps
    BY <1>1, <2>1 DEF StepsOf
  <2> QED BY <1>2, <2>1, <2>2 DEF HasStep, StepsOf
<1> QED BY <1>3, <1>4

LEMMA OutcomeStep ==
  ASSUME TablesOK, ChannelOK, OutcomeJustified, [Next]_vars
  PROVE  OutcomeJustified'
<1> USE DEF OutcomeJustified
<1>1. ASSUME \A w \in Workflows : Untouched(w)
      PROVE  OutcomeJustified'
  BY <1>1, UntouchedRun DEF Untouched
<1>2. ASSUME NEW w \in Workflows, InsertWorkflow(w)
      PROVE  OutcomeJustified'
  <2>1. workflows'[w].state = "pending"
    BY <1>2 DEF TablesOK, InsertWorkflow
  <2>2. \A v \in Workflows \ {w} : Untouched(v)
    BY <1>2, OtherRuns
  <2> QED BY <2>1, <2>2, UntouchedRun DEF Untouched
<1>3. ASSUME NEW w \in Workflows, CancelWorkflow(w)
      PROVE  OutcomeJustified'
  <2>1. workflows'[w].state = "cancelled"
    BY <1>3 DEF TablesOK, CancelWorkflow, WorkflowRow
  <2>2. \A v \in Workflows \ {w} : Untouched(v)
    BY <1>3 DEF TablesOK, CancelWorkflow, Untouched
  <2> QED BY <2>1, <2>2, UntouchedRun DEF Untouched
<1>4. ASSUME NEW s \in Steps, Dispatch(s)
      PROVE  OutcomeJustified'
  <2>1. workflows'[RunOf[s]].state = "running"
    BY <1>4, StepsAssumption DEF TablesOK, Dispatch, WorkflowRow
  <2>2. \A v \in Workflows \ {RunOf[s]} : s \in Steps \ StepsOf(v)
    BY DEF StepsOf
  <2>3. \A v \in Workflows \ {RunOf[s]} : Untouched(v)
    BY <1>4, <2>2, OtherRuns
  <2> QED BY <2>1, <2>3, UntouchedRun DEF Untouched
<1>5. CASE Engine
  <2>1. PICK type : Receive(type)
    BY <1>5, EngineRows
  <2>2. UNCHANGED steps
    BY <2>1 DEF Receive
  <2>3. ASSUME NEW w \in Workflows
        PROVE  /\ workflows'[w].state = "completed" => AllCompleted(w)
               /\ workflows'[w].state = "failed" => HasStep(w, "failed")
    <3>1. CASE workflows'[w] = workflows[w]
      BY <3>1
    <3>2. CASE workflows'[w] = ProcessSingleWorkflow(w)
      BY <3>2, ProcessRow
    <3> QED BY <1>5, <3>1, <3>2, EngineRows
  <2>4. \A w \in Workflows : /\ AllCompleted(w)' <=> AllCompleted(w)
                             /\ HasStep(w, "failed")' <=> HasStep(w, "failed")
    BY <2>2 DEF AllCompleted, HasStep, StepsOf
  <2> QED BY <2>3, <2>4
<1>6. ASSUME NEW s \in Steps, RetryDelayElapses(s)
      PROVE  OutcomeJustified'
  BY <1>1, <1>6, OtherRuns
<1>7. ASSUME UNCHANGED <<workflows, steps>>
      PROVE  OutcomeJustified'
  BY <1>1, <1>7, OtherRuns
<1>8. ASSUME NEW s \in Steps, NEW n \in Nat, LoseTask(s, n)
      PROVE  OutcomeJustified'
  BY <1>7, <1>8 DEF LoseTask
<1>9. CASE EditSchedule \/ Restart \/ UNCHANGED vars
  BY <1>7, <1>9 DEF EditSchedule, Restart, vars
<1> QED
  BY <1>2, <1>3, <1>4, <1>5, <1>6, <1>8, <1>9, NextCases, ReportOutcome
  DEF StartWorkflow, StartWorkflowExecution, ReportActivityFailure, RespondActivityTaskFailed

(***************************************************************************)
(* In every reachable state a run is completed only if all its steps are,  *)
(* and failed only if one of them is.                                      *)
(***************************************************************************)
THEOREM OutcomesJustified == Spec => []OutcomeJustified
<1>1. Init => OutcomeJustified
  BY DEF Init, OutcomeJustified
<1>2. Invariant /\ OutcomeJustified /\ [Next]_vars => OutcomeJustified'
  BY OutcomeStep DEF Invariant
<1> QED BY <1>1, <1>2, InvariantHolds, PTL DEF Spec

-----------------------------------------------------------------------------
(* No wakeup is lost.                                                      *)

\* The run has no step left that could still wake the engine.
Finished(w) == AllCompleted(w) \/ (AllSettled(w) /\ "khronos" \notin Apis)

\* The engine has settled the run or will hear of it.
Woken(w) ==
    \/ workflows[w].state \in {"completed", "failed"}
    \/ Queued(StepCompleted(w))

LEMMA WakeupStep ==
  ASSUME TablesOK, ChannelOK, NoLostWakeup, [Next]_vars
  PROVE  NoLostWakeup'
<1> SUFFICES ASSUME NEW w \in Workflows, ~eventsLost', Finished(w)'
             PROVE  Woken(w)'
  BY DEF NoLostWakeup, Finished, Woken
<1>1. /\ ~eventsLost /\ Finished(w) => Woken(w)
      /\ StepCompleted(w) \in Event
  BY DEF NoLostWakeup, Finished, Woken, StepCompleted, Event
<1>2. ASSUME Untouched(w), ~eventsLost,
             Queued(StepCompleted(w)) => Queued(StepCompleted(w))'
      PROVE  Woken(w)'
  <2>1. Finished(w)
    BY <1>2, UntouchedRun DEF Finished
  <2> QED BY <1>1, <1>2, <2>1 DEF Untouched, Woken
<1>3. ASSUME Untouched(w), UNCHANGED <<queue, eventsLost>>
      PROVE  Woken(w)'
  BY <1>2, <1>3 DEF Queued
<1>4. ASSUME NEW e \in Event, Notify(e), Untouched(w)
      PROVE  Woken(w)'
  BY <1>2, <1>4, NotifyChannel
<1>5. ASSUME \E s \in StepsOf(w) : steps'[s].state \notin {"completed", "failed"}
      PROVE  FALSE
  BY <1>5 DEF Finished, AllCompleted, AllSettled, StepsOf
<1>6. ASSUME NEW v \in Workflows, StartWorkflow(v) \/ StartWorkflowExecution(v)
      PROVE  Woken(w)'
  <2>1. InsertWorkflow(v)
    BY <1>6 DEF StartWorkflow, StartWorkflowExecution
  <2>2. v # w
    <3>1. \A s \in Steps : RunOf[s] = v => steps'[s].state = "pending"
      BY <2>1 DEF InsertWorkflow
    <3>2. StepsOf(w) # {}
      BY DEF Finished, AllCompleted, AllSettled, StepsOf
    <3> QED BY <1>5, <3>1, <3>2 DEF StepsOf
  <2>3. Untouched(w)
    BY <2>1, <2>2, OtherRuns
  <2>4. WorkflowCreated(v) \in Event
    BY DEF WorkflowCreated, Event
  <2> QED BY <1>3, <1>4, <1>6, <2>3, <2>4 DEF StartWorkflow, StartWorkflowExecution
<1>7. ASSUME NEW v \in Workflows, CancelWorkflow(v)
      PROVE  Woken(w)'
  <2>1. UNCHANGED <<steps, queue, eventsLost>>
    BY <1>7 DEF CancelWorkflow
  <2>2. Finished(w) /\ (Queued(StepCompleted(w)) => Queued(StepCompleted(w))')
    BY <2>1 DEF Finished, AllCompleted, AllSettled, StepsOf, Queued
  <2>3. CASE v = w
    BY <1>1, <1>7, <2>1, <2>2, <2>3 DEF CancelWorkflow, Woken
  <2>4. CASE v # w
    <3>1. Untouched(w)
      BY <1>7, <2>4 DEF TablesOK, CancelWorkflow, Untouched
    <3> QED BY <1>3, <2>1, <3>1
  <2> QED BY <2>3, <2>4
<1>8. ASSUME NEW s \in Steps, Dispatch(s)
      PROVE  Woken(w)'
  <2>1. steps'[s].state = "running"
    BY <1>8 DEF TablesOK, Dispatch
  <2>2. s \notin StepsOf(w)
    BY <1>5, <2>1
  <2>3. Untouched(w)
    BY <1>8, <2>2, OtherRuns
  <2> QED BY <1>3, <1>8, <2>3 DEF Dispatch
<1>9. ASSUME NEW s \in Steps, RetryDelayElapses(s)
      PROVE  Woken(w)'
  BY <1>3, <1>9, OtherRuns DEF RetryDelayElapses
<1>10. \A s \in Steps : StepCompleted(RunOf[s]) \in Event
  BY StepsAssumption DEF StepCompleted, Event
<1>11. ASSUME NEW s \in Steps, NEW n \in Nat, CompleteAttempt(s, n)
       PROVE  Woken(w)'
  <2>1. Notify(StepCompleted(RunOf[s]))
    BY <1>11 DEF CompleteAttempt
  <2>2. CASE s \in StepsOf(w)
    <3>1. Queued(StepCompleted(w))'
      BY <1>10, <2>1, <2>2, NotifyChannel DEF StepsOf
    <3> QED BY <3>1 DEF Woken
  <2>3. CASE s \notin StepsOf(w)
    BY <1>4, <1>10, <1>11, <2>1, <2>3, OtherRuns
  <2> QED BY <2>2, <2>3
<1>12. ASSUME NEW s \in Steps, NEW n \in Nat,
              ReportActivityFailure(s, n) \/ RespondActivityTaskFailed(s, n)
       PROVE  Woken(w)'
  <2>1. FailAttempt(s, n)
    BY <1>12 DEF ReportActivityFailure, RespondActivityTaskFailed
  <2>2. UNCHANGED <<queue, eventsLost>> \/ Notify(StepCompleted(RunOf[s]))
    BY <1>12 DEF ReportActivityFailure, RespondActivityTaskFailed
  <2>3. steps'[s].state = IF ShouldRetry(s, n) THEN "pending" ELSE "failed"
    BY <2>1 DEF TablesOK, FailAttempt
  <2>4. CASE s \in StepsOf(w)
    <3>1. ~ShouldRetry(s, n)
      BY <1>5, <2>3, <2>4
    <3>2. ~AllCompleted(w)'
      BY <2>3, <2>4, <3>1 DEF AllCompleted, StepsOf
    <3>3. "khronos" \notin Apis
      BY <3>2 DEF Finished
    <3>4. Notify(StepCompleted(w))
      BY <1>12, <2>4, <3>1, <3>3
      DEF ReportActivityFailure, RespondActivityTaskFailed, StepsOf
    <3> QED BY <1>1, <3>4, NotifyChannel DEF Woken
  <2>5. CASE s \notin StepsOf(w)
    <3>1. Untouched(w)
      BY <2>1, <2>5, OtherRuns
    <3> QED BY <1>3, <1>4, <1>10, <2>2, <3>1
  <2> QED BY <2>4, <2>5
<1>13. CASE Engine
  <2>1. PICK type : Receive(type)
    BY <1>13, EngineRows
  <2>2. UNCHANGED <<steps, eventsLost>>
    BY <2>1 DEF Receive
  <2>3. Finished(w) /\ AllSettled(w)
    BY <2>2 DEF Finished, AllCompleted, AllSettled, StepsOf
  <2>4. CASE workflows'[w] = ProcessSingleWorkflow(w)
    <3>1. workflows'[w].state \in {"completed", "failed"}
      BY <2>3, <2>4, ProcessRow
    <3> QED BY <3>1 DEF Woken
  <2>5. CASE workflows'[w] # ProcessSingleWorkflow(w)
    <3>1. workflows'[w] = workflows[w] /\ Head(queue) # StepCompleted(w)
      BY <1>13, <2>5, EngineRows
    <3>2. Queued(StepCompleted(w)) => Queued(StepCompleted(w))'
      BY <2>1, <3>1, ReceiveChannel
    <3> QED BY <1>2, <2>2, <3>1, <3>2 DEF Untouched
  <2> QED BY <2>4, <2>5
<1>14. CASE EditSchedule
  <2>1. ScheduleChange \in Event
    BY DEF ScheduleChange, Event
  <2> QED BY <1>4, <1>14, <2>1, OtherRuns DEF EditSchedule
<1>15. CASE Restart
  <2>1. Untouched(w)
    BY <1>15, OtherRuns DEF Restart
  <2>2. ~eventsLost /\ queue = <<>>
    BY <1>15 DEF Restart
  <2>3. ~Queued(StepCompleted(w))
    BY <2>2 DEF Queued
  <2> QED BY <1>2, <2>1, <2>2, <2>3
<1>16. ASSUME NEW s \in Steps, NEW n \in Nat, LoseTask(s, n)
       PROVE  Woken(w)'
  BY <1>3, <1>16, OtherRuns DEF LoseTask
<1>17. CASE UNCHANGED vars
  BY <1>3, <1>17, OtherRuns DEF vars
<1> QED
  BY <1>6, <1>7, <1>8, <1>9, <1>11, <1>12, <1>13, <1>14, <1>15, <1>16, <1>17, NextCases

(***************************************************************************)
(* As long as no event is overwritten in the channel or dies with the      *)
(* server, the engine has settled every run whose last step completed, or  *)
(* still has the event that will make it do so.                            *)
(***************************************************************************)
THEOREM WakeupsKept == Spec => []NoLostWakeup
<1>1. Init => NoLostWakeup
  BY DEF Init, NoLostWakeup, AllCompleted, AllSettled, StepsOf
<1>2. Invariant /\ NoLostWakeup /\ [Next]_vars => NoLostWakeup'
  BY WakeupStep DEF Invariant
<1> QED BY <1>1, <1>2, InvariantHolds, PTL DEF Spec

-----------------------------------------------------------------------------
(* What one step of the system does to one step of a run.                  *)

Kept(s) == steps'[s] = steps[s] /\ activities'[s] = activities[s]

Inserted(s) ==
    /\ steps[s].state = "none" /\ steps'[s].state = "pending"
    /\ activities'[s] = activities[s]

Dispatched(s) ==
    /\ steps[s].state = "pending" /\ steps'[s].state = "running"
    /\ activities'[s] =
         Append(activities[s], [attempt |-> steps[s].attempt + 1, state |-> "running"])

Reported(s) ==
    /\ steps[s].state = "running"
    /\ steps'[s].state \in {"pending", "completed", "failed"}
    /\ \E outcome \in {"completed", "failed"} :
         activities'[s] = [activities[s] EXCEPT ![Len(activities[s])] =
           [attempt |-> activities[s][Len(activities[s])].attempt, state |-> outcome]]

Delayed(s) ==
    /\ steps[s].state = "pending" /\ steps'[s].state = "pending"
    /\ activities'[s] = activities[s]

(***************************************************************************)
(* At most one step is dispatched or reported at a time, the steps of one  *)
(* run are inserted together, and nothing else touches a step.             *)
(***************************************************************************)
LEMMA StepChange ==
  ASSUME TablesOK, ChannelOK, [Next]_vars
  PROVE  \/ \A s \in Steps : Kept(s) \/ Inserted(s)
         \/ \E s \in Steps :
              /\ Dispatched(s) \/ Reported(s) \/ Delayed(s)
              /\ \A r \in Steps \ {s} : Kept(r)
<1> DEFINE Goal == \/ \A s \in Steps : Kept(s) \/ Inserted(s)
                   \/ \E s \in Steps :
                        /\ Dispatched(s) \/ Reported(s) \/ Delayed(s)
                        /\ \A r \in Steps \ {s} : Kept(r)
<1> SUFFICES Goal
  OBVIOUS
<1>1. ASSUME UNCHANGED <<steps, activities>>
      PROVE  Goal
  BY <1>1 DEF Kept
<1>2. ASSUME NEW w \in Workflows, StartWorkflow(w) \/ StartWorkflowExecution(w)
      PROVE  Goal
  <2>1. InsertWorkflow(w) /\ UNCHANGED activities
    BY <1>2 DEF StartWorkflow, StartWorkflowExecution
  <2>2. \A s \in Steps : RunOf[s] = w => steps[s].state = "none"
    BY <2>1 DEF TablesOK, RowsInserted, InsertWorkflow
  <2> QED BY <2>1, <2>2 DEF TablesOK, InsertWorkflow, Kept, Inserted
<1>3. ASSUME NEW s \in Steps, Dispatch(s)
      PROVE  Goal
  <2>1. steps[s].state = "pending" /\ steps'[s].state = "running"
    BY <1>3 DEF TablesOK, Dispatch, Ready
  <2>2. activities'[s] =
          Append(activities[s], [attempt |-> steps[s].attempt + 1, state |-> "running"])
    BY <1>3 DEF TablesOK, Dispatch
  <2>3. \A r \in Steps \ {s} : Kept(r)
    BY <1>3 DEF TablesOK, Dispatch, Kept
  <2> QED BY <2>1, <2>2, <2>3 DEF Dispatched
<1>4. ASSUME NEW s \in Steps, NEW n \in Nat, NEW outcome \in {"completed", "failed"},
             <<s, n>> \in tasks, SetActivity(s, n, outcome),
             steps'[s].state \in {"pending", "completed", "failed"},
             \A r \in Steps \ {s} : steps'[r] = steps[r]
      PROVE  Goal
  <2>1. steps[s].state = "running" /\ n = Len(activities[s])
    BY <1>4 DEF TablesOK, TasksAreCurrent
  <2>2. activities'[s] = [activities[s] EXCEPT ![n] =
          [attempt |-> activities[s][n].attempt, state |-> outcome]]
    BY <1>4 DEF TablesOK, SetActivity
  <2>3. \A r \in Steps \ {s} : Kept(r)
    BY <1>4 DEF TablesOK, SetActivity, Kept
  <2> QED BY <1>4, <2>1, <2>2, <2>3 DEF Reported
<1>5. ASSUME NEW s \in Steps, NEW n \in Nat, CompleteAttempt(s, n)
      PROVE  Goal
  <2>1. /\ steps'[s].state = "completed"
        /\ \A r \in Steps \ {s} : steps'[r] = steps[r]
        /\ <<s, n>> \in tasks /\ SetActivity(s, n, "completed")
    BY <1>5 DEF TablesOK, CompleteAttempt
  <2> QED BY <1>4, <2>1
<1>6. ASSUME NEW s \in Steps, NEW n \in Nat,
             ReportActivityFailure(s, n) \/ RespondActivityTaskFailed(s, n)
      PROVE  Goal
  <2>1. FailAttempt(s, n)
    BY <1>6 DEF ReportActivityFailure, RespondActivityTaskFailed
  <2>2. /\ steps'[s].state \in {"pending", "failed"}
        /\ \A r \in Steps \ {s} : steps'[r] = steps[r]
        /\ <<s, n>> \in tasks /\ SetActivity(s, n, "failed")
    BY <2>1 DEF TablesOK, FailAttempt
  <2> QED BY <1>4, <2>2
<1>7. ASSUME NEW s \in Steps, RetryDelayElapses(s)
      PROVE  Goal
  <2>1. steps[s].state = "pending"
    BY <1>7 DEF TablesOK, StepOK, RetryDelayElapses
  <2>2. steps'[s].state = "pending" /\ UNCHANGED activities
    BY <1>7, <2>1 DEF TablesOK, StepRow, RetryDelayElapses
  <2>3. \A r \in Steps \ {s} : Kept(r)
    BY <1>7 DEF TablesOK, RetryDelayElapses, Kept
  <2> QED BY <2>1, <2>2, <2>3 DEF Delayed
<1>8. CASE Engine
  <2>1. PICK type : Receive(type)
    BY <1>8, EngineRows
  <2> QED BY <1>1, <2>1 DEF Receive
<1>9. ASSUME NEW s \in Steps, NEW n \in Nat, LoseTask(s, n)
      PROVE  Goal
  BY <1>1, <1>9 DEF LoseTask
<1>10. ASSUME NEW w \in Workflows, CancelWorkflow(w)
       PROVE  Goal
  BY <1>1, <1>10 DEF CancelWorkflow
<1>11. CASE EditSchedule \/ Restart \/ UNCHANGED vars
  BY <1>1, <1>11 DEF EditSchedule, Restart, vars
<1> QED
  BY <1>2, <1>3, <1>5, <1>6, <1>7, <1>8, <1>9, <1>10, <1>11, NextCases

(***************************************************************************)
(* No handler, poll or late report ever rewrites a completed or failed     *)
(* step.                                                                   *)
(***************************************************************************)
THEOREM SettledStepsFinal == Spec => SettledStepIsFinal
<1>1. ASSUME Invariant, [Next]_vars
      PROVE  \A s \in Steps :
               steps[s].state \in {"completed", "failed"} => steps'[s] = steps[s]
  <2>1. TablesOK /\ ChannelOK
    BY <1>1 DEF Invariant
  <2>2. CASE \A s \in Steps : Kept(s) \/ Inserted(s)
    BY <2>2 DEF Kept, Inserted
  <2>3. CASE \E s \in Steps : /\ Dispatched(s) \/ Reported(s) \/ Delayed(s)
                              /\ \A r \in Steps \ {s} : Kept(r)
    <3>1. PICK s \in Steps : /\ Dispatched(s) \/ Reported(s) \/ Delayed(s)
                             /\ \A r \in Steps \ {s} : Kept(r)
      BY <2>3
    <3>2. steps[s].state \in {"pending", "running"}
      BY <3>1 DEF Dispatched, Reported, Delayed
    <3> QED BY <3>1, <3>2 DEF Kept
  <2> QED BY <1>1, <2>1, <2>2, <2>3, StepChange
<1> QED BY <1>1, InvariantHolds, PTL DEF Spec, SettledStepIsFinal

\* What AttemptLogGrows says of the log of one step.
LogGrows(a, b) ==
    /\ Len(a) <= Len(b)
    /\ \A i \in 1..Len(a) :
         /\ b[i].attempt = a[i].attempt
         /\ a[i].state # "running" => b[i] = a[i]
    /\ \A i \in 1..Len(a), j \in (Len(a) + 1)..Len(b) : a[i].attempt < b[j].attempt

LEMMA StepLogGrows ==
  ASSUME NEW s \in Steps, StepOK(s, steps[s], activities[s]),
         Kept(s) \/ Inserted(s) \/ Dispatched(s) \/ Reported(s) \/ Delayed(s)
  PROVE  LogGrows(activities[s], activities'[s])
<1> DEFINE a == activities[s]
           b == activities'[s]
<1>1. a \in Seq(ActivityRow) /\ Len(a) \in Nat /\ steps[s].attempt \in Nat
  BY LenProperties DEF StepOK, StepRow
<1>2. \A i \in 1..Len(a) : a[i] \in ActivityRow /\ a[i].attempt \in Nat
  <2>1. \A i \in 1..Len(a) : a[i] \in ActivityRow
    BY <1>1, ElementOfSeq
  <2> QED BY <2>1 DEF ActivityRow
<1>3. CASE b = a
  BY <1>1, <1>3 DEF LogGrows
<1>4. CASE Dispatched(s)
  <2> DEFINE e == [attempt |-> steps[s].attempt + 1, state |-> "running"]
  <2>1. b = Append(a, e) /\ e \in ActivityRow
    BY <1>1, <1>4 DEF Dispatched, ActivityRow
  <2>2. /\ Len(b) = Len(a) + 1
        /\ \A i \in 1..Len(a) : b[i] = a[i]
        /\ b[Len(a) + 1] = e
    BY <1>1, <2>1, AppendProperties
  <2>3. \A i \in 1..Len(a) : a[i].attempt < e.attempt
    BY <1>1, <1>2 DEF StepOK
  <2> QED BY <1>1, <2>2, <2>3 DEF LogGrows
<1>5. CASE Reported(s)
  <2>1. PICK outcome \in {"completed", "failed"} :
          b = [a EXCEPT ![Len(a)] = [attempt |-> a[Len(a)].attempt, state |-> outcome]]
    BY <1>5 DEF Reported
  <2>2. Len(a) \in 1..Len(a) /\ a[Len(a)].state = "running"
    BY <1>1, <1>5 DEF Reported, StepOK
  <2> DEFINE e == [attempt |-> a[Len(a)].attempt, state |-> outcome]
  <2>3. e \in ActivityRow
    BY <1>2, <2>2 DEF ActivityRow
  <2>4. /\ Len(b) = Len(a)
        /\ \A j \in 1..Len(a) : b[j] = IF j = Len(a) THEN e ELSE a[j]
    BY <1>1, <2>1, <2>2, <2>3, ExceptSeq
  <2> QED BY <1>1, <2>2, <2>4 DEF LogGrows
<1> QED BY <1>3, <1>4, <1>5 DEF Kept, Inserted, Delayed

(***************************************************************************)
(* The activities table only grows: a finished attempt is never rewritten  *)
(* and a new one carries a number higher than all before it.               *)
(***************************************************************************)
THEOREM AttemptsLogged == Spec => AttemptLogGrows
<1>1. ASSUME Invariant, [Next]_vars
      PROVE  \A s \in Steps : LogGrows(activities[s], activities'[s])
  <2>1. TablesOK /\ ChannelOK /\ \A s \in Steps : StepOK(s, steps[s], activities[s])
    BY <1>1 DEF Invariant, TablesOK
  <2>2. \A s \in Steps :
          Kept(s) \/ Inserted(s) \/ Dispatched(s) \/ Reported(s) \/ Delayed(s)
    BY <1>1, <2>1, StepChange
  <2> QED BY <2>1, <2>2, StepLogGrows
<1>2. (\A s \in Steps : LogGrows(activities[s], activities'[s])) =>
        \A s \in Steps :
          /\ Len(activities[s]) <= Len(activities'[s])
          /\ \A i \in 1..Len(activities[s]) :
               /\ activities'[s][i].attempt = activities[s][i].attempt
               /\ activities[s][i].state # "running" =>
                    activities'[s][i] = activities[s][i]
          /\ \A i \in 1..Len(activities[s]), j \in (Len(activities[s]) + 1)..Len(activities'[s]) :
               activities[s][i].attempt < activities'[s][j].attempt
  BY DEF LogGrows
<1> QED BY <1>1, <1>2, InvariantHolds, PTL DEF Spec, AttemptLogGrows

-----------------------------------------------------------------------------
(* The tables implement the lease protocol.                                *)

LEMMA PhaseValue ==
  ASSUME NEW s \in Steps
  PROVE  /\ steps[s].state = "none" => Phase(s) = "absent"
         /\ steps[s].state = "pending" => Phase(s) = "idle"
         /\ steps[s].state = "running" => Phase(s) = "leased"
         /\ steps[s].state = "completed" => Phase(s) = "done"
         /\ steps[s].state = "failed" => Phase(s) = "dead"
BY DEF Phase

LEMMA LeaseStep ==
  ASSUME TablesOK, TablesOK', ChannelOK, [Next]_vars
  PROVE  Lease!LeaseNext \/ UNCHANGED Lease!leaseVars
<1> DEFINE ph == [s \in Steps |-> Phase(s)]
           ls == [s \in Steps |-> Len(activities[s])]
<1>1. \A s \in Steps : /\ StepOK(s, steps[s], activities[s])
                       /\ StepOK(s, steps'[s], activities'[s])
                       /\ Len(activities[s]) \in Nat
  BY LenProperties DEF TablesOK, StepOK
<1>2. \A s \in Steps : steps'[s].state = steps[s].state => Phase(s)' = Phase(s)
  BY DEF Phase
<1>3. \A s \in Steps : Kept(s) => Phase(s)' = Phase(s) /\ ls'[s] = ls[s]
  BY <1>2 DEF Kept
<1>4. CASE \A s \in Steps : Kept(s) \/ Inserted(s)
  <2> DEFINE S == {s \in Steps : Inserted(s)}
  <2>1. ls' = ls
    BY <1>4 DEF Kept, Inserted
  <2>2. S \subseteq {s \in Steps : ph[s] = "absent"}
    BY PhaseValue DEF Inserted
  <2>3. ph' = [s \in Steps |-> IF s \in S THEN "idle" ELSE ph[s]]
    <3>1. \A s \in S : Phase(s)' = "idle"
      BY DEF Inserted, Phase
    <3> QED BY <1>3, <1>4, <3>1
  <2>4. Lease!Create(S)
    BY <2>1, <2>2, <2>3 DEF Lease!Create
  <2> QED BY <2>4 DEF Lease!LeaseNext
<1>5. ASSUME NEW s \in Steps, \A r \in Steps \ {s} : Kept(r),
             Delayed(s)
      PROVE  UNCHANGED Lease!leaseVars
  <2>1. Phase(s)' = Phase(s) /\ ls'[s] = ls[s]
    BY <1>2, <1>5 DEF Delayed
  <2>2. ph' = ph /\ ls' = ls
    BY <1>3, <1>5, <2>1
  <2> QED BY <2>2 DEF Lease!leaseVars
<1>6. ASSUME NEW s \in Steps, \A r \in Steps \ {s} : Kept(r),
             Dispatched(s)
      PROVE  Lease!Acquire(s)
  <2>1. ph[s] = "idle" /\ Phase(s)' = "leased"
    BY <1>6 DEF Dispatched, Phase
  <2>2. ph' = [ph EXCEPT ![s] = "leased"]
    BY <1>3, <1>6, <2>1
  <2>3. ls'[s] = ls[s] + 1
    <3>1. [attempt |-> steps[s].attempt + 1, state |-> "running"] \in ActivityRow
      BY <1>1 DEF StepOK, StepRow, ActivityRow
    <3> QED BY <1>1, <1>6, <3>1, AppendProperties DEF Dispatched, StepOK
  <2>4. ls' = [ls EXCEPT ![s] = ls[s] + 1]
    BY <1>3, <1>6, <2>3
  <2>5. ls[s] < Lease!LeaseLimit(s)
    <3>1. ls'[s] <= Lease!LeaseLimit(s)
      BY <1>1 DEF StepOK, Lease!LeaseLimit
    <3>2. Lease!LeaseLimit(s) \in Nat /\ ls[s] \in Nat
      BY <1>1, StepsAssumption DEF Lease!LeaseLimit
    <3> QED BY <2>3, <3>1, <3>2
  <2> QED BY <2>1, <2>2, <2>4, <2>5 DEF Lease!Acquire
<1>7. ASSUME NEW s \in Steps, \A r \in Steps \ {s} : Kept(r),
             Reported(s)
      PROVE  \E outcome \in {"idle", "done", "dead"} : Lease!Release(s, outcome)
  <2>1. ph[s] = "leased" /\ Phase(s)' \in {"idle", "done", "dead"}
    BY <1>7 DEF Reported, Phase
  <2>2. ph' = [ph EXCEPT ![s] = Phase(s)']
    BY <1>3, <1>7
  <2>3. ls'[s] = ls[s]
    BY <1>1, <1>7 DEF Reported, StepOK
  <2>4. ls' = ls
    BY <1>3, <1>7, <2>3
  <2>5. ASSUME Phase(s)' = "idle"
        PROVE  ls[s] < Lease!LeaseLimit(s)
    <3>1. steps'[s].state = "pending"
      BY <1>7, <2>5 DEF Reported, Phase
    <3>2. Len(activities[s]) > 0
      BY <1>1, <1>7 DEF Reported, StepOK
    <3>3. ls'[s] <= steps'[s].attempt /\ steps'[s].attempt < MaximumAttempts[s]
      BY <1>1, <2>3, <3>1, <3>2 DEF StepOK
    <3>4. steps'[s].attempt \in Nat /\ MaximumAttempts[s] \in Nat /\ ls[s] \in Nat
      BY <1>1, StepsAssumption DEF StepOK, StepRow
    <3> QED BY <2>3, <3>3, <3>4 DEF Lease!LeaseLimit
  <2>6. Lease!Release(s, Phase(s)')
    BY <2>1, <2>2, <2>4, <2>5 DEF Lease!Release
  <2> QED BY <2>1, <2>6
<1> QED BY <1>4, <1>5, <1>6, <1>7, StepChange DEF Lease!LeaseNext

(***************************************************************************)
(* Polls and reports through either service, retries, restarts and lost    *)
(* tasks implement the lease protocol: one worker at a time per step, no   *)
(* more leases than the retry policy allows, and outcomes that are final.  *)
(***************************************************************************)
THEOREM LeaseImplemented == Spec => ImplementsLease
<1>1. Init => Lease!LeaseInit
  BY DEF Init, Lease!LeaseInit, Phase
<1>2. Invariant /\ Invariant' /\ [Next]_vars => [Lease!LeaseNext]_(Lease!leaseVars)
  BY LeaseStep DEF Invariant
<1> QED BY <1>1, <1>2, InvariantHolds, PTL DEF Spec, ImplementsLease, Lease!LeaseSpec

-----------------------------------------------------------------------------
(* The tables implement the life of a run of RunLifecycle.                  *)

\* What may become of a run in one step.
LifeChange(w) ==
    LifeOf(w)' = LifeOf(w) \/ <<LifeOf(w), LifeOf(w)'>> \in Lifecycle!Moves \union Lifecycle!Births

(***************************************************************************)
(* A row may be overwritten in any way that neither creates nor removes it *)
(* and leaves a completed one completed.                                   *)
(***************************************************************************)
LEMMA LifeRow ==
  ASSUME NEW w \in Workflows, workflows[w] \in WorkflowRow, workflows'[w] \in WorkflowRow,
         workflows[w].state # "none", workflows'[w].state # "none",
         workflows[w].state = "completed" => workflows'[w].state = "completed"
  PROVE  LifeChange(w)
<1>1. /\ LifeOf(w) \in {"open", "stopped", "completed"}
      /\ LifeOf(w)' \in {"open", "stopped", "completed"}
      /\ LifeOf(w) = "completed" => LifeOf(w)' = "completed"
  BY DEF LifeOf, WorkflowRow, Terminal
<1> QED BY <1>1 DEF LifeChange, Lifecycle!Moves

LEMMA LifeStep ==
  ASSUME TablesOK, TablesOK', ChannelOK, OutcomeJustified, Next, NEW w \in Workflows
  PROVE  LifeChange(w)
<1>1. workflows[w] \in WorkflowRow /\ workflows'[w] \in WorkflowRow
  BY DEF TablesOK
<1>2. ASSUME workflows'[w] = workflows[w]
      PROVE  LifeChange(w)
  BY <1>2 DEF LifeChange, LifeOf
<1>3. ASSUME NEW v \in Workflows, InsertWorkflow(v)
      PROVE  LifeChange(w)
  <2>1. CASE v = w
    <3>1. LifeOf(w) = "absent" /\ LifeOf(w)' = "open"
      BY <1>3, <2>1 DEF InsertWorkflow, TablesOK, LifeOf
    <3> QED BY <3>1 DEF LifeChange, Lifecycle!Births
  <2>2. CASE v # w
    BY <1>2, <1>3, <2>2 DEF InsertWorkflow, TablesOK
  <2> QED BY <2>1, <2>2
<1>4. ASSUME NEW v \in Workflows, CancelWorkflow(v)
      PROVE  LifeChange(w)
  <2>1. CASE v = w
    <3>1. workflows[w].state \in {"pending", "running"} /\ workflows'[w].state = "cancelled"
      BY <1>4, <2>1 DEF CancelWorkflow, TablesOK, WorkflowRow
    <3> QED BY <1>1, <3>1, LifeRow
  <2>2. CASE v # w
    BY <1>2, <1>4, <2>2 DEF CancelWorkflow, TablesOK
  <2> QED BY <2>1, <2>2
<1>5. ASSUME NEW s \in Steps, Dispatch(s)
      PROVE  LifeChange(w)
  <2>1. CASE RunOf[s] = w
    <3>1. steps[s].state = "pending" /\ s \in StepsOf(w)
      BY <1>5, <2>1 DEF Dispatch, Ready, StepsOf
    <3>2. workflows[w].state # "none" /\ workflows[w].state # "completed"
      BY <2>1, <3>1 DEF TablesOK, RowsInserted, OutcomeJustified, AllCompleted
    <3>3. workflows'[w].state = "running"
      BY <1>5, <2>1 DEF Dispatch, TablesOK, WorkflowRow
    <3> QED BY <1>1, <3>2, <3>3, LifeRow
  <2>2. CASE RunOf[s] # w
    BY <1>2, <1>5, <2>2 DEF Dispatch, TablesOK
  <2> QED BY <2>1, <2>2
<1>6. ASSUME Engine
      PROVE  LifeChange(w)
  <2>1. CASE workflows'[w] = workflows[w]
    BY <1>2, <2>1
  <2>2. CASE workflows'[w] = ProcessSingleWorkflow(w)
    <3>1. workflows'[w].state = "none" <=> workflows[w].state = "none"
      BY <2>2, ProcessRow
    <3>2. workflows[w].state = "completed" => workflows'[w].state = "completed"
      <4> HAVE workflows[w].state = "completed"
      <4>1. AllCompleted(w)
        BY DEF OutcomeJustified
      <4>2. AllSettled(w) /\ ~HasStep(w, "failed")
        BY <4>1 DEF AllCompleted, AllSettled, HasStep
      <4> QED BY <2>2, <4>2, ProcessRow
    <3>3. CASE workflows[w].state = "none"
      BY <3>1, <3>3 DEF LifeChange, LifeOf
    <3> QED BY <1>1, <3>1, <3>2, <3>3, LifeRow
  <2> QED BY <1>6, <2>1, <2>2, EngineRows
<1>7. ASSUME UNCHANGED workflows
      PROVE  LifeChange(w)
  BY <1>2, <1>7
<1> QED
  BY <1>3, <1>4, <1>5, <1>6, <1>7, NextCases
  DEF StartWorkflow, StartWorkflowExecution, RetryDelayElapses, CompleteAttempt, FailAttempt,
      ReportActivityFailure, RespondActivityTaskFailed, LoseTask, EditSchedule, Restart

(***************************************************************************)
(* For every set of runs the tables implement RunLifecycle: a run that a   *)
(* handler has inserted never disappears, and one that the engine has      *)
(* completed stays completed.                                              *)
(***************************************************************************)
THEOREM LifecycleImplemented == Spec => ImplementsLifecycle
<1>1. Init => Lifecycle!LifeInit
  BY DEF Init, Lifecycle!LifeInit, LifeOf
<1>2. ASSUME Invariant, Invariant', OutcomeJustified, [Next]_vars
      PROVE  [Lifecycle!LifeNext]_([w \in Workflows |-> LifeOf(w)])
  <2>1. CASE UNCHANGED vars
    BY <2>1 DEF vars, LifeOf
  <2>2. CASE Next
    <3>1. \A w \in Workflows : LifeChange(w)
      BY <1>2, <2>2, LifeStep DEF Invariant
    <3>2. \A w \in Workflows : LifeOf(w)' \in Lifecycle!Lives
      BY <1>2 DEF Invariant, TablesOK, Lifecycle!Lives, LifeOf, WorkflowRow, Terminal
    <3> QED BY <3>1, <3>2 DEF LifeChange, Lifecycle!LifeNext
  <2> QED BY <1>2, <2>1, <2>2
<1> QED
  BY <1>1, <1>2, InvariantHolds, OutcomesJustified, PTL
  DEF Spec, ImplementsLifecycle, Lifecycle!LifeSpec
=============================================================================
