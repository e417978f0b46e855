------------------------------- MODULE Scheduler -------------------------------
(***************************************************************************)
(* The scheduler task of the server: the schedules table, the min-heap of  *)
(* fire times, and the way a schedule that is due starts a run. The task   *)
(* works on connections of its own and takes no lock, so every statement   *)
(* that reads or writes what others write is a step of its own.            *)
(*                                                                         *)
(* Time is counted in seconds, the granularity of the stored timestamps.   *)
(* Runs live as RunLifecycle describes.                                    *)
(***************************************************************************)
EXTENDS RunLifecycle, Integers, FiniteSets, Sequences

CONSTANTS
    Ids,        \* schedule ids
    Matches,    \* Matches[i]: ids j whose runs match the pattern 'schedule:i-%'
    Specs,      \* trigger specs that clients use
    Policies,   \* overlap policies that clients use
    StepCount,  \* steps of a scheduled workflow's definition
    MaxTime,    \* bound: the clock's horizon
    MaxLoads,   \* bound: starts of the server
    MaxEdits,   \* bound: edits of the schedules table
    MaxFailures \* bound: statements of the task that fail (database locked)

\* A cron expression is abstracted to its period (0: it does not parse). The
\* expressions a Temporal client stores are not the JSON the scheduler reads:
\* "opaque".
Spec0 ==
    [type : {"cron"}, periods : Seq(Nat)]
      \union [type : {"interval"}, secs : Nat]
      \union [type : {"opaque"}]

ASSUME SchedulesAssumption ==
    /\ Matches \in [Ids -> SUBSET Ids] /\ \A i \in Ids : i \in Matches[i]
    /\ IsFiniteSet(Ids)
    /\ Specs \subseteq Spec0
    /\ Policies \subseteq {"skip", "buffer", "terminate"}
    /\ StepCount \in Nat \ {0}

\* No schedule starts two runs in one second (StartsDistinct), so these suffice.
ASSUME HorizonAssumption ==
    /\ MaxTime \in Nat /\ MaxLoads \in Nat \ {0} /\ MaxEdits \in Nat /\ MaxFailures \in Nat
    /\ Runs = 1..((MaxTime + 1) * Cardinality(Ids))

VARIABLES
    now,        \* the clock
    schedules,  \* schedules[i]: the row of schedule i, or NoRow
    heap,       \* the scheduler's heap, as a set of entries
    phase,      \* what the scheduler task does next
    firing,     \* the schedule it is processing, with the row as loaded
    victims,    \* runs it has selected for termination
    owner,      \* owner[r]: the schedule that started run r
    started,    \* started[r]: started_at of run r
    inserted,   \* inserted[r]: how many steps of run r are in the table
    late,       \* completed runs that have got another step since
    loads,      \* server starts so far
    tableEdits, \* edits so far
    failures    \* failed statements so far

execVars == <<life, owner, started, inserted, late>>
taskVars == <<heap, phase, firing, victims>>
counters == <<loads, tableEdits, failures>>
schedulerVars == <<now, schedules, taskVars, execVars, counters>>

NoRow == [policy |-> "none"]
NoFiring == [id |-> "none"]
Rows == [spec : Specs \union {[type |-> "opaque"]}, policy : Policies]
Phases == {"load", "idle", "overlap", "terminate", "insert", "steps"}

\* The schedule being processed. Two fields are history: the reads that failed
\* and counted as empty, and the runs that were opened after the overlap check.
Firings == [id : Ids, row : Rows, misread : SUBSET {"starts", "runs"}, reopened : SUBSET Runs]

SchedulerTypeOK ==
    /\ now \in 0..MaxTime
    /\ schedules \in [Ids -> Rows \union {NoRow}]
    /\ heap \subseteq [id : Ids, time : Nat]
    /\ phase \in Phases
    /\ phase \in {"load", "idle"} <=> firing = NoFiring
    /\ phase \in {"overlap", "terminate", "insert"} => firing \in Firings
    /\ phase = "steps" => /\ firing \in [id : Ids, run : Runs]
                          /\ life[firing.run] # "absent"
                          /\ inserted[firing.run] < StepCount
    /\ victims # {} <=> phase = "terminate"
    /\ victims \subseteq {r \in Runs : life[r] # "absent"}
    /\ life \in [Runs -> Lives]
    /\ owner \in [Runs -> Ids \union {"none"}]
    /\ started \in [Runs -> Nat]
    /\ inserted \in [Runs -> 0..StepCount]
    /\ late \subseteq {r \in Runs : life[r] = "completed"}
    /\ \A r \in Runs : IF life[r] = "absent" THEN inserted[r] = 0
                                             ELSE owner[r] \in Ids /\ started[r] <= now
    /\ loads \in 1..MaxLoads
    /\ tableEdits \in 0..MaxEdits
    /\ failures \in 0..MaxFailures

SchedulerInit ==
    /\ LifeInit
    /\ now = 0
    /\ schedules = [i \in Ids |-> NoRow]
    /\ heap = {}
    /\ phase = "load"
    /\ firing = NoFiring
    /\ victims = {}
    /\ owner = [r \in Runs |-> "none"]
    /\ started = [r \in Runs |-> 0]
    /\ inserted = [r \in Runs |-> 0]
    /\ late = {}
    /\ loads = 1
    /\ tableEdits = 0
    /\ failures = 0

-----------------------------------------------------------------------------
(* Queries.                                                                *)

Exists(i) == schedules[i] # NoRow

\* Runs whose workflow_id matches the pattern of schedule i.
RunsLike(i) == {r \in Runs : life[r] # "absent" /\ owner[r] \in Matches[i]}

\* get_last_started: MAX(started_at), -1 for NULL.
LastStarted(i) ==
    LET times == {started[r] : r \in RunsLike(i)} IN
    IF times = {} THEN -1 ELSE CHOOSE t \in times : \A u \in times : u <= t

\* Faulty variant: a run counts once its steps are there.
OpenRunsWithSteps(i) == {r \in RunsLike(i) : life[r] = "open" /\ inserted[r] > 0}

\* check_running_workflow and terminate_existing.
OpenRuns(i) == {r \in RunsLike(i) : life[r] = "open"}

\* cron::Schedule::upcoming: the first occurrence strictly after t.
Upcoming(period, t) == ((t \div period) + 1) * period

Valid(periods) == {k \in 1..Len(periods) : periods[k] > 0}

\* calculate_next_cron_fire: of the first expression that parses.
NextCronFire(periods) ==
    LET k == CHOOSE k \in Valid(periods) : \A m \in Valid(periods) : k <= m IN
    Upcoming(periods[k], now)

\* Faulty variant: a schedule is armed for the present, whenever it last ran.
FireAtOnce(i, secs) == now

\* calculate_next_interval_fire.
NextIntervalFire(i, secs) ==
    IF LastStarted(i) = -1 THEN now
    ELSE IF LastStarted(i) + secs > now THEN LastStarted(i) + secs
    ELSE now + secs

\* The fire times of a row: none if it has no readable trigger.
NextFires(i) ==
    IF ~Exists(i) THEN {}
    ELSE LET spec == schedules[i].spec IN
         CASE spec.type = "cron" ->
                IF Valid(spec.periods) = {} THEN {} ELSE {NextCronFire(spec.periods)}
           [] spec.type = "interval" ->
                IF spec.secs = 0 THEN {} ELSE {NextIntervalFire(i, spec.secs)}
           [] spec.type = "opaque" -> {}

\* check_cron_match: the next occurrence lies 0 or 1 whole seconds ahead; frac
\* is 1 if the clock is past the start of its second.
CronMatch(periods, frac) ==
    \E k \in Valid(periods) : Upcoming(periods[k], now) - now - frac \in 0..1

\* Faulty variant: the entry of the heap is trusted.
TrustHeap(i, secs) == TRUE

CheckInterval(i, secs) ==
    LastStarted(i) = -1 \/ now - LastStarted(i) >= secs

\* check_interval takes a failed query for a schedule that has never run.
ShouldFire(i, spec, frac, misread) ==
    \/ spec.type = "cron" /\ misread = {} /\ CronMatch(spec.periods, frac)
    \/ spec.type = "interval" /\ (misread = {"starts"} \/ CheckInterval(i, spec.secs))

-----------------------------------------------------------------------------
(* The scheduler task. An error of a statement may be passed on, counted   *)
(* as "nothing found", or drop the row it hit.                             *)

\* Whether a statement of the step fails.
Failing(b) ==
    /\ b => failures < MaxFailures
    /\ failures' = failures + (IF b THEN 1 ELSE 0)

\* reload_all_schedules, at the start of the task. No code sends the change
\* notification that would reload later. A row that cannot be read is left out,
\* and a query that fails leaves the heap empty.
Reload ==
    LET entries == UNION {{[id |-> i, time |-> t] : t \in NextFires(i)} : i \in Ids} IN
    /\ phase = "load"
    /\ \E missed \in SUBSET entries : heap' = entries \ missed /\ Failing(missed # {})
    /\ phase' = "idle"
    /\ UNCHANGED <<now, schedules, firing, victims, execVars, loads, tableEdits>>

\* Faulty variant: the heap yields its latest entry.
Latest(e) == \A f \in heap : f.time <= e.time

\* The entry on top of the heap.
Top(e) == \A f \in heap : e.time <= f.time

Without(e) == heap \ {e}

\* update_schedule_next_fire, after a schedule was processed: its query is not
\* SQL (it holds a backslash), the error counts as "deleted", and the schedule
\* is not put back.
UpdateNextFire(h) == h

Due(e) == phase = "idle" /\ e \in heap /\ Top(e) /\ e.time <= now

\* process_schedule up to should_fire.
ProcessSchedule(e) ==
    /\ Due(e)
    /\ Exists(e.id)
    /\ \E frac \in {0, 1}, misread \in SUBSET {"starts"} :
         /\ Failing(misread # {})
         /\ ShouldFire(e.id, schedules[e.id].spec, frac, misread)
         /\ firing' = [id |-> e.id, row |-> schedules[e.id],
                       misread |-> misread, reopened |-> {}]
    /\ heap' = Without(e)
    /\ phase' = "overlap"
    /\ UNCHANGED <<now, schedules, victims, execVars, loads, tableEdits>>

\* The schedule was deleted, or has missed its window. A row that cannot be
\* loaded counts as deleted.
DismissSchedule(e) ==
    /\ Due(e)
    /\ \E failed \in BOOLEAN :
         /\ Failing(failed)
         /\ Exists(e.id) /\ ~failed =>
              \E frac \in {0, 1} : ~ShouldFire(e.id, schedules[e.id].spec, frac, {})
    /\ heap' = UpdateNextFire(Without(e))
    /\ UNCHANGED <<now, schedules, phase, firing, victims, execVars, loads, tableEdits>>

\* Faulty variant: the schedule that was processed stays the one being processed.
KeepFiring ==
    /\ phase' = "idle"
    /\ heap' = UpdateNextFire(heap)
    /\ UNCHANGED firing

Finish ==
    /\ phase' = "idle"
    /\ firing' = NoFiring
    /\ heap' = UpdateNextFire(heap)

\* terminate_existing's query: a row that cannot be read is left out.
SelectVictims(open) ==
    /\ \E missed \in SUBSET open :
         /\ victims' = open \ missed
         /\ firing' = IF missed = {} THEN firing
                      ELSE [firing EXCEPT !.misread = @ \union {"runs"}]
         /\ Failing(missed # {})
    /\ phase' = IF victims' = {} THEN "insert" ELSE "terminate"

CheckOverlap ==
    LET open == OpenRuns(firing.id)
        policy == firing.row.policy IN
    /\ phase = "overlap"
    /\ \/ /\ policy = "skip" /\ open # {}
          /\ Finish
          /\ UNCHANGED <<victims, failures>>
       \/ /\ policy = "terminate" /\ open # {}
          /\ SelectVictims(open)
          /\ UNCHANGED heap
       \/ /\ policy = "buffer" \/ open = {}
          /\ phase' = "insert"
          /\ UNCHANGED <<heap, firing, victims, failures>>
    /\ UNCHANGED <<now, schedules, execVars, loads, tableEdits>>

\* terminate_existing cancels the selected runs one by one; cancel_workflow
\* fails for a run that has been settled meanwhile, and the firing is given up.
CancelVictim(r) ==
    /\ phase = "terminate" /\ r \in victims
    /\ IF life[r] = "open"
       THEN /\ life' = [life EXCEPT ![r] = "stopped"]
            /\ victims' = victims \ {r}
            /\ phase' = IF victims = {r} THEN "insert" ELSE "terminate"
            /\ UNCHANGED <<heap, firing>>
       ELSE /\ victims' = {}
            /\ Finish
            /\ UNCHANGED life
    /\ UNCHANGED <<now, schedules, owner, started, inserted, late, counters>>

\* start_schedule_workflow: the workflows row, then its steps one by one.
InsertRun ==
    LET r == CHOOSE r \in Runs : life[r] = "absent" IN
    /\ phase = "insert"
    /\ life' = [life EXCEPT ![r] = "open"]
    /\ owner' = [owner EXCEPT ![r] = firing.id]
    /\ started' = [started EXCEPT ![r] = now]
    /\ phase' = "steps"
    /\ firing' = [id |-> firing.id, run |-> r]
    /\ UNCHANGED <<now, schedules, heap, victims, inserted, late, counters>>

InsertStep ==
    LET r == firing.run IN
    /\ phase = "steps"
    /\ inserted' = [inserted EXCEPT ![r] = @ + 1]
    /\ late' = IF life[r] = "completed" THEN late \union {r} ELSE late
    /\ IF inserted[r] + 1 = StepCount THEN Finish ELSE UNCHANGED <<heap, phase, firing>>
    /\ UNCHANGED <<now, schedules, victims, life, owner, started, counters>>

\* A statement fails and the firing is given up with what it has done so far.
FiringFails ==
    /\ phase \in {"overlap", "terminate", "insert", "steps"}
    /\ Failing(TRUE)
    /\ victims' = {}
    /\ Finish
    /\ UNCHANGED <<now, schedules, execVars, loads, tableEdits>>

-----------------------------------------------------------------------------
(* The environment: clients, the execution of runs, time and restarts.     *)

\* insert_schedule, update_schedule_spec and delete_schedule.
SetRow(i, row) ==
    /\ tableEdits < MaxEdits
    /\ tableEdits' = tableEdits + 1
    /\ schedules' = [schedules EXCEPT ![i] = row]
    /\ UNCHANGED <<now, taskVars, execVars, loads, failures>>

\* row_to_schedule: cron expressions have to be JSON. (So do the arguments: a row
\* of the Temporal service may be refused for them as well.)
Readable(row) == row.spec.type # "opaque"

CreateSchedule(i, spec, policy) ==
    /\ ~Exists(i)
    /\ SetRow(i, [spec |-> spec, policy |-> policy])

\* The native handler reads the row back and keeps its policy.
UpdateSchedule(i, spec) ==
    /\ Exists(i)
    /\ Readable(schedules[i])
    /\ SetRow(i, [spec |-> spec, policy |-> schedules[i].policy])

\* The handlers of the Temporal service join the cron expressions with commas.
TemporalSpec(spec) == IF spec.type = "cron" THEN [type |-> "opaque"] ELSE spec

TemporalCreateSchedule(i, spec, policy) == CreateSchedule(i, TemporalSpec(spec), policy)

\* Its update changes the spec, the policy or both.
TemporalUpdateSchedule(i, spec, policy) ==
    /\ Exists(i)
    /\ \E s \in {schedules[i].spec, TemporalSpec(spec)} :
         SetRow(i, [spec |-> s, policy |-> policy])

DeleteSchedule(i) == Exists(i) /\ SetRow(i, NoRow)

\* Workers, the engine and clients move a run. One without steps can only be
\* cancelled; one that was completed on the steps it had is opened again by the
\* poll for a step that was inserted later.
RunMoves(r) ==
    /\ \E l \in Lives :
         /\ \/ <<life[r], l>> \in Moves /\ inserted[r] > 0
            \/ life[r] = "open" /\ l = "stopped"
            \/ r \in late /\ l = "open"
         /\ life' = [life EXCEPT ![r] = l]
         /\ firing' = IF l = "open" /\ phase \in {"terminate", "insert"}
                      THEN [firing EXCEPT !.reopened = @ \union {r}] ELSE firing
    /\ late' = late \ {r}
    /\ UNCHANGED <<now, schedules, heap, phase, victims, owner, started, inserted,
                   counters>>

Tick ==
    /\ now < MaxTime
    /\ now' = now + 1
    /\ UNCHANGED <<schedules, taskVars, execVars, counters>>

\* The process stops, at whatever point, and starts again.
ServerRestart ==
    /\ loads < MaxLoads
    /\ loads' = loads + 1
    /\ phase' = "load"
    /\ heap' = {}
    /\ firing' = NoFiring
    /\ victims' = {}
    /\ UNCHANGED <<now, schedules, execVars, tableEdits, failures>>

-----------------------------------------------------------------------------

Task ==
    \/ Reload
    \/ \E e \in heap : ProcessSchedule(e) \/ DismissSchedule(e)
    \/ CheckOverlap
    \/ \E r \in victims : CancelVictim(r)
    \/ InsertRun
    \/ InsertStep
    \/ FiringFails

ScheduleClient == \E i \in Ids :
    \/ \E spec \in Specs, policy \in Policies :
         \/ CreateSchedule(i, spec, policy)
         \/ TemporalCreateSchedule(i, spec, policy)
         \/ TemporalUpdateSchedule(i, spec, policy)
    \/ \E spec \in Specs : UpdateSchedule(i, spec)
    \/ DeleteSchedule(i)

SchedulerNext ==
    \/ Task
    \/ ScheduleClient
    \/ \E r \in Runs : RunMoves(r)
    \/ Tick
    \/ ServerRestart

SchedulerSpec == SchedulerInit /\ [][SchedulerNext]_schedulerVars

\* The task's loop runs and time passes.
FairSchedulerSpec ==
    SchedulerSpec /\ WF_schedulerVars(Task) /\ WF_schedulerVars(Tick)
-----------------------------------------------------------------------------
(* Properties.                                                             *)

OwnRuns(i) == {r \in Runs : life[r] # "absent" /\ owner[r] = i}
Armed(i) == \E e \in heap : e.id = i

\* A run that an interval trigger starts comes at least the interval after every
\* earlier run of its schedule, whatever was edited after the heap was built and
\* wherever the server was restarted: start_schedule_workflow is reached only if
\* the interval of the row that process_schedule has loaded has passed. Not so if
\* check_interval's query failed: it then counts as a schedule without runs.
IntervalRespected ==
    [][/\ phase = "insert" /\ phase' = "steps"
       /\ firing.row.spec.type = "interval" /\ "starts" \notin firing.misread
       => \A r \in OwnRuns(firing.id) : started[r] + firing.row.spec.secs <= now]_schedulerVars

\* No schedule starts two runs in the same second: an occurrence is started once,
\* although its trigger is edited, a statement fails or the server stops between
\* the insertion of the run and the update of its next fire time, and although
\* check_interval may not see the earlier run. What keeps them apart is that
\* the fire times in the heap lie after the starts of earlier runs.
StartsDistinct ==
    \A i \in Ids : \A r, s \in OwnRuns(i) : r # s => started[r] # started[s]

\* A schedule that does not buffer starts a run only if none of its runs is open,
\* one that a failed or stopped server left without steps included: up to the
\* insertion the only open ones are those that a poll has opened again since
\* check_running_workflow and terminate_existing looked. Not so if
\* terminate_existing could not read them all.
OverlapDecided ==
    phase = "insert" /\ firing.row.policy # "buffer" /\ "runs" \notin firing.misread =>
        \A r \in OwnRuns(firing.id) : life[r] = "open" => r \in firing.reopened

\* An entry that falls due is served, however the schedules of other entries
\* are edited and whatever else is in the heap.
DueEntriesServed ==
    \A i \in Ids :
        (\E e \in heap : e.id = i /\ e.time <= MaxTime) ~> ~Armed(i)

-----------------------------------------------------------------------------
(* Statements of the repository's comments and documentation that the      *)
(* scheduler does not keep.                                                *)

\* scheduler.rs: "this scheduler maintains a min-heap of (next_fire_time,
\* schedule_id) entries". A schedule that has fired is armed again.
FiredSchedulesRearm ==
    \A i \in Ids :
        OwnRuns(i) # {} /\ Exists(i) /\ NextFires(i) # {} ~> Armed(i) \/ ~Exists(i)

\* README: "Cron expressions and fixed-interval triggers". A cron schedule that
\* is served in the very second it is due starts a run.
CronFiresWhenDue ==
    [][\A e \in heap :
         /\ phase = "idle" /\ e \notin heap' /\ phase' # "load"
         /\ Exists(e.id) /\ e.time = now
         /\ schedules[e.id].spec.type = "cron"
         /\ NextFires(e.id) # {}
         => phase' = "overlap"]_schedulerVars
=============================================================================
