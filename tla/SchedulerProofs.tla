---------------------------- MODULE SchedulerProofs ----------------------------
(***************************************************************************)
(* Theorems about Scheduler, for all sets of schedules, triggers and       *)
(* policies, all horizons and numbers of failures and restarts: the types, *)
(* that no schedule starts two runs in one second, that the overlap policy *)
(* holds up to the insertion of a run, and the interval between two runs.  *)
(*                                                                         *)
(* Each follows from one inductive invariant. It says what the heap knows  *)
(* of the past: the fire time of an entry lies after the starts of all     *)
(* runs of its schedule, and so does the clock while the schedule is       *)
(* served; and what is known of the open runs while they are cancelled.    *)
(***************************************************************************)
EXTENDS Scheduler, FiniteSetTheorems, TLAPS

\* The task is between process_schedule's check and the insertion of the run.
Serving == phase \in {"overlap", "terminate", "insert"}

\* A schedule has one entry in the heap at most, and none while it is served.
HeapOK ==
    /\ phase = "load" => heap = {}
    /\ \A e, f \in heap : e.id = f.id => e = f
    /\ Serving => ~Armed(firing.id)

\* A schedule is armed for, and served at, a time after the starts of its runs.
EntriesAhead == \A e \in heap : \A r \in OwnRuns(e.id) : started[r] < e.time
ServedAhead == Serving => \A r \in OwnRuns(firing.id) : started[r] < now

\* What should_fire has established stays true until the run is inserted.
IntervalPassed ==
    Serving /\ firing.row.spec.type = "interval" /\ "starts" \notin firing.misread =>
        \A r \in OwnRuns(firing.id) : started[r] + firing.row.spec.secs <= now

\* The open runs of the schedule are still to be cancelled, or have been opened
\* again since they were selected.
VictimsKnown ==
    phase = "terminate" /\ "runs" \notin firing.misread =>
        \A r \in OwnRuns(firing.id) : life[r] = "open" => r \in victims \union firing.reopened

SchedulerInvariant ==
    /\ SchedulerTypeOK /\ HeapOK
    /\ EntriesAhead /\ ServedAhead /\ StartsDistinct
    /\ IntervalPassed
    /\ VictimsKnown /\ OverlapDecided

-----------------------------------------------------------------------------
(* The operators of the model.                                             *)

\* A nonempty set of naturals has a least element.
LEMMA Least ==
    ASSUME NEW S \in SUBSET Nat, S # {}
    PROVE  \E x \in S : \A y \in S : x <= y
<1>1. PICK x \in S : \A y \in S : ~(<<y, x>> \in OpToRel(<, Nat))
  BY NatLessThanWellFounded, WFMin
<1>2. \A y \in S : ~(y < x)
  BY <1>1 DEF OpToRel
<1> QED
  BY <1>2

\* A nonempty set of naturals with a bound has a greatest element.
LEMMA Greatest ==
    ASSUME NEW n \in Nat, NEW S \in SUBSET (0..n), S # {}
    PROVE  \E x \in S : \A y \in S : y <= x
<1> DEFINE D == {d \in 0..n : n - d \in S}
<1>1. D \in SUBSET Nat /\ D # {}
  <2>1. PICK x \in S : TRUE
    OBVIOUS
  <2>2. n - x \in D
    BY <2>1
  <2>3. D \in SUBSET Nat
    OBVIOUS
  <2> HIDE DEF D
  <2> QED
    BY <2>2, <2>3
<1>2. PICK d \in D : \A c \in D : d <= c
  <2> HIDE DEF D
  <2> QED
    BY <1>1, Least
<1>3. n - d \in S
  BY <1>2
<1>4. ASSUME NEW y \in S
      PROVE  y <= n - d
  <2>1. n - y \in D
    BY <1>4
  <2> QED
    BY <2>1, <1>2
<1> QED
  BY <1>3, <1>4

\* The next occurrence of a cron trigger lies ahead.
LEMMA UpcomingAhead ==
    ASSUME NEW p \in Nat, p > 0, NEW t \in Nat
    PROVE  Upcoming(p, t) \in Nat /\ t < Upcoming(p, t)
<1>1. t \div p \in Nat
  BY SMT
<1>2. \A a, b \in Nat : (a + 1) * b \in Nat
  BY SMT
<1>3. t = p * (t \div p) + (t % p) /\ t % p \in 0..(p - 1)
  BY SMT
<1>4. \A a \in Nat : (a + 1) * p = p * a + p /\ p * a \in Nat
  BY SMT
<1>5. (t \div p + 1) * p = p * (t \div p) + p /\ p * (t \div p) \in Nat
  BY <1>1, <1>4
<1>6. t < (t \div p + 1) * p
  <2> DEFINE m == p * (t \div p)
             k == t % p
             n == (t \div p + 1) * p
  <2>1. t = m + k /\ k \in 0..(p - 1) /\ m \in Nat /\ n = m + p
    BY <1>3, <1>5
  <2> HIDE DEF m, k, n
  <2>2. t < n
    BY <2>1
  <2> QED
    BY <2>2 DEF n
<1> QED
  BY <1>1, <1>2, <1>6 DEF Upcoming

\* get_last_started is -1 if there is no run, else the latest start.
LEMMA LastStartedValue ==
    ASSUME SchedulerTypeOK, NEW i \in Ids
    PROVE  /\ LastStarted(i) = -1 \/ LastStarted(i) \in 0..now
           /\ \A r \in RunsLike(i) : LastStarted(i) # -1 /\ started[r] <= LastStarted(i)
<1> DEFINE times == {started[r] : r \in RunsLike(i)}
<1>1. times \subseteq 0..now /\ now \in Nat
  BY HorizonAssumption DEF SchedulerTypeOK, RunsLike
<1>2. CASE times = {}
  BY <1>2 DEF LastStarted
<1>3. CASE times # {}
  <2> DEFINE t == CHOOSE t \in times : \A u \in times : u <= t
  <2>1. \E x \in times : \A u \in times : u <= x
    <3> HIDE DEF times
    <3> QED
      BY <1>1, <1>3, Greatest
  <2>2. t \in times /\ \A u \in times : u <= t
    <3> HIDE DEF times
    <3> QED
      BY <2>1
  <2>3. LastStarted(i) = t
    BY <1>3 DEF LastStarted
  <2>4. \A r \in RunsLike(i) : started[r] \in times
    OBVIOUS
  <2> HIDE DEF times, t
  <2>5. LastStarted(i) \in 0..now
    BY <2>2, <2>3, <1>1
  <2>6. \A r \in RunsLike(i) : started[r] <= LastStarted(i)
    BY <2>2, <2>3, <2>4
  <2> QED
    BY <2>5, <2>6, <1>1
<1> QED
  BY <1>2, <1>3

\* A schedule has one next fire time at most, and it is a time after the starts
\* of its runs.
LEMMA OneNextFire ==
    ASSUME SchedulerTypeOK, NEW i \in Ids
    PROVE  /\ NextFires(i) \subseteq Nat
           /\ \A t, u \in NextFires(i) : t = u
           /\ \A t \in NextFires(i) : \A r \in OwnRuns(i) : started[r] < t
<1>a. OwnRuns(i) \subseteq RunsLike(i)
  BY SchedulesAssumption DEF OwnRuns, RunsLike
<1>b. \A r \in OwnRuns(i) : started[r] \in Nat /\ started[r] <= now
  BY DEF SchedulerTypeOK, OwnRuns
<1>1. CASE ~Exists(i)
  BY <1>1 DEF NextFires
<1>2. CASE Exists(i)
  <2> DEFINE spec == schedules[i].spec
  <2>1. schedules[i] \in Rows
    BY <1>2 DEF SchedulerTypeOK, Exists
  <2>2. spec \in Spec0
    BY <2>1, SchedulesAssumption DEF Rows, Spec0
  <2>3. now \in Nat
    BY HorizonAssumption DEF SchedulerTypeOK
  <2>4. CASE spec.type = "cron"
    <3>1. spec.periods \in Seq(Nat)
      BY <2>2, <2>4 DEF Spec0
    <3>2. NextFires(i) = IF Valid(spec.periods) = {} THEN {} ELSE {NextCronFire(spec.periods)}
      BY <1>2, <2>4 DEF NextFires
    <3>3. ASSUME Valid(spec.periods) # {}
          PROVE  NextCronFire(spec.periods) \in Nat /\ now < NextCronFire(spec.periods)
      <4> DEFINE k == CHOOSE k \in Valid(spec.periods) : \A m \in Valid(spec.periods) : k <= m
      <4>1. Valid(spec.periods) \in SUBSET Nat
        BY <3>1 DEF Valid
      <4>2. k \in Valid(spec.periods)
        BY <4>1, <3>3, Least
      <4>3. spec.periods[k] \in Nat /\ spec.periods[k] > 0
        <5> HIDE DEF spec, k
        <5> QED
          BY <4>2, <3>1 DEF Valid
      <4>4. /\ Upcoming(spec.periods[k], now) \in Nat
            /\ now < Upcoming(spec.periods[k], now)
        <5> HIDE DEF spec, k
        <5> QED
          BY <4>3, <2>3, UpcomingAhead
      <4> QED
        BY <4>4 DEF NextCronFire
    <3> HIDE DEF spec
    <3> QED
      BY <3>2, <3>3, <2>3, <1>b
  <2>5. CASE spec.type = "interval"
    <3>1. spec.secs \in Nat
      BY <2>2, <2>5 DEF Spec0
    <3>2. NextFires(i) = IF spec.secs = 0 THEN {} ELSE {NextIntervalFire(i, spec.secs)}
      BY <1>2, <2>5 DEF NextFires
    <3>3. ASSUME spec.secs # 0
          PROVE  /\ NextIntervalFire(i, spec.secs) \in Nat
                 /\ \A r \in OwnRuns(i) : started[r] < NextIntervalFire(i, spec.secs)
      <4> HIDE DEF spec
      <4>1. NextIntervalFire(i, spec.secs) \in Nat
        BY <3>1, <2>3, LastStartedValue DEF NextIntervalFire
      <4>2. ASSUME NEW r \in OwnRuns(i)
            PROVE  started[r] < NextIntervalFire(i, spec.secs)
        <5>1. LastStarted(i) \in 0..now /\ started[r] <= LastStarted(i)
          BY <4>2, <1>a, LastStartedValue
        <5>2. LastStarted(i) < NextIntervalFire(i, spec.secs)
          BY <5>1, <3>1, <3>3, <2>3 DEF NextIntervalFire
        <5>3. started[r] \in Nat
          BY <4>2, <1>b
        <5> QED
          BY <5>1, <5>2, <5>3, <4>1, <2>3
      <4> QED
        BY <4>1, <4>2
    <3> HIDE DEF spec
    <3> QED
      BY <3>2, <3>3
  <2>6. CASE spec.type = "opaque"
    BY <1>2, <2>6 DEF NextFires
  <2> QED
    BY <2>2, <2>4, <2>5, <2>6 DEF Spec0
<1> QED
  BY <1>1, <1>2

-----------------------------------------------------------------------------
(* Counting runs.                                                          *)

\* There is a run for every schedule and second.
LEMMA RunsFinite ==
    /\ MaxTime + 1 \in Nat
    /\ Cardinality(Ids) \in Nat
    /\ Cardinality(Runs) = (MaxTime + 1) * Cardinality(Ids)
    /\ Cardinality(Runs) \in Nat
<1>1. Cardinality(Ids) \in Nat /\ MaxTime + 1 \in Nat
  BY SchedulesAssumption, HorizonAssumption, FS_CardinalityType
<1> DEFINE n == (MaxTime + 1) * Cardinality(Ids)
<1>2. \A a, b \in Nat : a * b \in Nat
  OBVIOUS
<1>3. Runs = 1..n /\ n \in Nat
  BY <1>1, <1>2, HorizonAssumption
<1> HIDE DEF n
<1>4. IsFiniteSet(1..n) /\ Cardinality(1..n) = IF 1 > n THEN 0 ELSE n - 1 + 1
  BY <1>3, FS_Interval
<1>5. Cardinality(1..n) = n
  BY <1>3, <1>4
<1> QED
  BY <1>1, <1>3, <1>5 DEF n

\* While a run is to be inserted there is a run that does not exist yet: the
\* horizon of Runs is never the reason that a schedule does not start. A run is
\* told from the others by its schedule and its start, and the schedule being
\* served has none that started in this second.
LEMMA RunLeft ==
    ASSUME SchedulerInvariant, phase = "insert"
    PROVE  \E r \in Runs : life[r] = "absent"
<1> SUFFICES ASSUME \A r \in Runs : life[r] # "absent"
             PROVE  FALSE
  OBVIOUS
<1> DEFINE All == Ids \X (0..MaxTime)
           T == All \ {<<firing.id, now>>}
           f == [r \in Runs |-> <<owner[r], started[r]>>]
<1>1. firing.id \in Ids /\ now \in 0..MaxTime /\ MaxTime \in Nat /\ Serving
  BY HorizonAssumption DEF SchedulerInvariant, SchedulerTypeOK, Firings, Serving
<1>2. ASSUME NEW r \in Runs
      PROVE  <<owner[r], started[r]>> \in T
  <2>1. owner[r] \in Ids /\ started[r] \in Nat /\ started[r] <= now
    BY DEF SchedulerInvariant, SchedulerTypeOK
  <2>2. started[r] \in 0..MaxTime
    BY <1>1, <2>1
  <2>3. owner[r] = firing.id => started[r] # now
    <3>1. owner[r] = firing.id => started[r] < now
      BY <1>1 DEF SchedulerInvariant, ServedAhead, OwnRuns
    <3> QED
      BY <1>1, <2>1, <3>1
  <2> QED
    BY <2>1, <2>2, <2>3
<1>3. ASSUME NEW r \in Runs, NEW s \in Runs, f[r] = f[s]
      PROVE  r = s
  <2>1. owner[r] = owner[s] /\ started[r] = started[s] /\ owner[r] \in Ids
    BY <1>3 DEF SchedulerInvariant, SchedulerTypeOK
  <2> QED
    BY <2>1 DEF SchedulerInvariant, StartsDistinct, OwnRuns
<1>4. f \in Injection(Runs, T)
  BY <1>2, <1>3 DEF Injection, IsInjective
<1>5. IsFiniteSet(0..MaxTime) /\ Cardinality(0..MaxTime) = MaxTime + 1
  <2>1. IsFiniteSet(0..MaxTime)
        /\ Cardinality(0..MaxTime) = IF 0 > MaxTime THEN 0 ELSE MaxTime - 0 + 1
    BY <1>1, FS_Interval
  <2> QED
    BY <2>1, <1>1
<1>6. IsFiniteSet(All) /\ Cardinality(All) = Cardinality(Ids) * (MaxTime + 1)
  BY <1>5, SchedulesAssumption, FS_Product
<1>7. <<firing.id, now>> \in All
  BY <1>1
<1> HIDE DEF All
<1>8. IsFiniteSet(T) /\ Cardinality(T) = Cardinality(All) - 1
  BY <1>6, <1>7, FS_RemoveElement
<1>9. Cardinality(Runs) <= Cardinality(T)
  <2> HIDE DEF T, f
  <2> QED
    BY <1>4, <1>8, FS_Injection
<1>10. \A a, b \in Nat : a * b = b * a /\ a * b \in Nat
  OBVIOUS
<1>11. Cardinality(All) = Cardinality(Runs) /\ Cardinality(Runs) \in Nat
  BY <1>6, <1>10, RunsFinite
<1> HIDE DEF T
<1> QED
  BY <1>8, <1>9, <1>11

-----------------------------------------------------------------------------
(* Steps that start no run.                                                *)

\* The schedule that is served after a step was served before it.
SameFiring ==
    Serving' => /\ Serving
                /\ firing'.id = firing.id /\ firing'.row = firing.row
                /\ firing.misread \subseteq firing'.misread

\* A step that starts no run, arms no schedule and takes up no other firing keeps
\* what is known of the past.
LEMMA PastKept ==
    ASSUME SchedulerInvariant, started' = started, owner' = owner,
           \A r \in Runs : life'[r] = "absent" <=> life[r] = "absent",
           heap' \subseteq heap, phase' = "load" => heap' = {},
           now' \in Nat, now <= now', SameFiring
    PROVE  HeapOK' /\ EntriesAhead' /\ ServedAhead' /\ StartsDistinct' /\ IntervalPassed'
<1>1. \A i : OwnRuns(i)' = OwnRuns(i)
  BY DEF OwnRuns
<1>2. HeapOK'
  BY DEF SchedulerInvariant, HeapOK, Armed, SameFiring
<1>3. EntriesAhead' /\ StartsDistinct'
  BY <1>1 DEF SchedulerInvariant, EntriesAhead, StartsDistinct
<1>4. now \in Nat /\ \A i : \A r \in OwnRuns(i) : started[r] \in Nat
  BY HorizonAssumption DEF SchedulerInvariant, SchedulerTypeOK, OwnRuns
<1>5. ServedAhead'
  <2> SUFFICES ASSUME Serving', NEW r \in OwnRuns(firing.id)'
               PROVE  started[r] < now'
    BY DEF ServedAhead
  <2>1. Serving /\ r \in OwnRuns(firing.id)
    BY DEF SameFiring, OwnRuns
  <2>2. started[r] < now
    BY <2>1 DEF SchedulerInvariant, ServedAhead
  <2> QED
    BY <2>1, <2>2, <1>4
<1>6. IntervalPassed'
  <2> SUFFICES ASSUME Serving', firing'.row.spec.type = "interval",
                      "starts" \notin firing'.misread, NEW r \in OwnRuns(firing.id)'
               PROVE  started[r] + firing'.row.spec.secs <= now'
    BY DEF IntervalPassed
  <2>1. /\ Serving /\ r \in OwnRuns(firing.id)
        /\ firing'.row = firing.row /\ "starts" \notin firing.misread
    BY DEF SameFiring, OwnRuns
  <2>2. started[r] + firing.row.spec.secs <= now
    BY <2>1 DEF SchedulerInvariant, IntervalPassed
  <2>3. firing.row \in Rows
    BY <2>1 DEF SchedulerInvariant, SchedulerTypeOK, Serving, Firings
  <2>4. firing.row.spec \in Spec0
    BY <2>3, SchedulesAssumption DEF Rows, Spec0
  <2>5. firing.row.spec.secs \in Nat
    BY <2>1, <2>4 DEF Spec0
  <2> QED
    BY <2>1, <2>2, <2>5, <1>4
<1> QED
  BY <1>2, <1>3, <1>5, <1>6

\* A step that leaves the runs and the firing alone keeps what is known of them.
LEMMA ChoiceKept ==
    ASSUME SchedulerInvariant, UNCHANGED <<phase, firing, victims, life, owner>>
    PROVE  VictimsKnown' /\ OverlapDecided'
BY DEF SchedulerInvariant, VictimsKnown, OverlapDecided, OwnRuns

\* reload_all_schedules arms a schedule once at most, for a time ahead.
LEMMA ReloadStep ==
    ASSUME SchedulerInvariant, Reload
    PROVE  SchedulerInvariant'
<1> USE DEF Reload, execVars
<1>1. \A e \in heap' : \E i \in Ids : \E t \in NextFires(i) : e = [id |-> i, time |-> t]
  OBVIOUS
<1>2. \A i \in Ids : /\ NextFires(i) \subseteq Nat
                     /\ \A t, u \in NextFires(i) : t = u
                     /\ \A t \in NextFires(i) : \A r \in OwnRuns(i) : started[r] < t
  BY OneNextFire DEF SchedulerInvariant
<1>3. \A e \in heap' : e \in [id : Ids, time : Nat] /\ e.time \in NextFires(e.id)
  BY <1>1, <1>2
<1>4. \A e, f \in heap' : e.id = f.id => e = f
  <2>1. \A e, f \in heap' : e.id = f.id => e.time = f.time
    BY <1>2, <1>3
  <2> QED
    BY <1>3, <2>1
<1>5. SchedulerTypeOK'
  <2>1. failures' \in 0..MaxFailures
    BY HorizonAssumption DEF SchedulerInvariant, SchedulerTypeOK, Failing
  <2> QED
    BY <1>3, <2>1 DEF SchedulerInvariant, SchedulerTypeOK, Phases
<1>6. HeapOK'
  BY <1>4 DEF HeapOK, Serving
<1>7. \A i : OwnRuns(i)' = OwnRuns(i)
  BY DEF OwnRuns
<1>8. EntriesAhead' /\ StartsDistinct'
  BY <1>2, <1>3, <1>7 DEF SchedulerInvariant, EntriesAhead, StartsDistinct
<1>9. ServedAhead' /\ IntervalPassed' /\ VictimsKnown' /\ OverlapDecided'
  BY DEF ServedAhead, IntervalPassed, VictimsKnown, OverlapDecided, Serving
<1> QED
  BY <1>5, <1>6, <1>8, <1>9 DEF SchedulerInvariant

\* An entry that is due leaves the heap, and the clock has passed the starts of
\* the schedule's runs with it.
LEMMA ProcessScheduleStep ==
    ASSUME SchedulerInvariant, NEW e \in heap, ProcessSchedule(e)
    PROVE  SchedulerInvariant'
<1> USE DEF ProcessSchedule, Due, Without, execVars
<1>0. PICK frac \in {0, 1}, misread \in SUBSET {"starts"} :
        /\ Failing(misread # {})
        /\ ShouldFire(e.id, schedules[e.id].spec, frac, misread)
        /\ firing' = [id |-> e.id, row |-> schedules[e.id],
                      misread |-> misread, reopened |-> {}]
  OBVIOUS
<1>1. /\ e \in [id : Ids, time : Nat]
      /\ schedules[e.id] \in Rows
      /\ heap' = heap \ {e}
      /\ firing'.id = e.id /\ firing'.row = schedules[e.id] /\ firing'.misread = misread
      /\ phase = "idle" /\ phase' = "overlap"
  BY <1>0 DEF SchedulerInvariant, SchedulerTypeOK, Exists
<1>2. SchedulerTypeOK'
  <2>1. firing' \in Firings
    BY <1>0, <1>1 DEF Firings
  <2>2. firing' # NoFiring
    <3>1. DOMAIN firing' = {"id", "row", "misread", "reopened"}
      BY <1>0
    <3>2. DOMAIN NoFiring = {"id"}
      BY DEF NoFiring
    <3> QED
      BY <3>1, <3>2
  <2>3. failures' \in 0..MaxFailures
    BY <1>0, HorizonAssumption DEF SchedulerInvariant, SchedulerTypeOK, Failing
  <2> QED
    BY <1>1, <2>1, <2>2, <2>3 DEF SchedulerInvariant, SchedulerTypeOK, Phases
<1>3. HeapOK'
  <2>1. \A f \in heap' : f.id # e.id
    BY <1>1 DEF SchedulerInvariant, HeapOK
  <2> QED
    BY <1>1, <2>1 DEF SchedulerInvariant, HeapOK, Armed
<1>4. \A i : OwnRuns(i)' = OwnRuns(i)
  BY DEF OwnRuns
<1>5. EntriesAhead' /\ StartsDistinct'
  BY <1>1, <1>4 DEF SchedulerInvariant, EntriesAhead, StartsDistinct
<1>6. now \in Nat /\ \A r \in OwnRuns(e.id) : started[r] \in Nat
  BY HorizonAssumption DEF SchedulerInvariant, SchedulerTypeOK, OwnRuns
<1>7. ServedAhead'
  <2>1. ASSUME NEW r \in OwnRuns(e.id)
        PROVE  started[r] < now
    <3>1. started[r] < e.time /\ e.time <= now /\ e.time \in Nat
      BY <1>1, <2>1 DEF SchedulerInvariant, EntriesAhead
    <3> QED
      BY <3>1, <1>6, <2>1
  <2> QED
    BY <1>1, <1>4, <2>1 DEF ServedAhead
<1>8. IntervalPassed'
  <2> SUFFICES ASSUME schedules[e.id].spec.type = "interval", "starts" \notin misread,
                      NEW r \in OwnRuns(e.id)
               PROVE  started[r] + schedules[e.id].spec.secs <= now
    BY <1>1, <1>4 DEF IntervalPassed
  <2>1. CheckInterval(e.id, schedules[e.id].spec.secs)
    BY <1>0 DEF ShouldFire
  <2>2. r \in RunsLike(e.id)
    BY <1>1, SchedulesAssumption DEF OwnRuns, RunsLike
  <2>3. LastStarted(e.id) \in 0..now /\ started[r] <= LastStarted(e.id)
    BY <1>1, <2>2, LastStartedValue DEF SchedulerInvariant
  <2>4. schedules[e.id].spec.secs \in Nat
    BY <1>1, SchedulesAssumption DEF Rows, Spec0
  <2>5. now - LastStarted(e.id) >= schedules[e.id].spec.secs
    BY <2>1, <2>3 DEF CheckInterval
  <2> QED
    BY <2>3, <2>4, <2>5, <1>6
<1>9. VictimsKnown' /\ OverlapDecided'
  BY DEF VictimsKnown, OverlapDecided
<1> QED
  BY <1>2, <1>3, <1>5, <1>7, <1>8, <1>9 DEF SchedulerInvariant

LEMMA DismissScheduleStep ==
    ASSUME SchedulerInvariant, NEW e \in heap, DismissSchedule(e)
    PROVE  SchedulerInvariant'
<1> USE DEF DismissSchedule, Due, Without, UpdateNextFire, execVars
<1>1. SchedulerTypeOK'
  <2>1. failures' \in 0..MaxFailures
    BY HorizonAssumption DEF SchedulerInvariant, SchedulerTypeOK, Failing
  <2> QED
    BY <2>1 DEF SchedulerInvariant, SchedulerTypeOK
<1>2. /\ heap' \subseteq heap /\ phase' # "load"
      /\ now' \in Nat /\ now <= now' /\ SameFiring
  BY HorizonAssumption DEF SchedulerInvariant, SchedulerTypeOK, SameFiring, Serving
<1>3. HeapOK' /\ EntriesAhead' /\ ServedAhead' /\ StartsDistinct' /\ IntervalPassed'
  BY <1>2, PastKept
<1>4. VictimsKnown' /\ OverlapDecided'
  BY ChoiceKept
<1> QED
  BY <1>1, <1>3, <1>4 DEF SchedulerInvariant

\* The schedule being served stays in the task's hands, or is given up. What the
\* check lets pass has no open run, and what it selects is all that is open.
LEMMA CheckOverlapStep ==
    ASSUME SchedulerInvariant, CheckOverlap
    PROVE  SchedulerInvariant'
<1> DEFINE open == OpenRuns(firing.id)
<1>1. /\ firing \in Firings /\ firing # NoFiring /\ victims = {} /\ phase = "overlap"
      /\ UNCHANGED <<now, schedules, execVars, loads, tableEdits>>
  BY DEF SchedulerInvariant, SchedulerTypeOK, CheckOverlap
<1>2. open \subseteq {r \in Runs : life[r] # "absent"}
  BY DEF OpenRuns, RunsLike
<1>3. \A r \in OwnRuns(firing.id) : life[r] = "open" => r \in open
  BY <1>1, SchedulesAssumption DEF OpenRuns, RunsLike, OwnRuns, Firings
<1>4. \/ /\ phase' = "idle" /\ firing' = NoFiring
         /\ UNCHANGED <<heap, victims, failures>>
      \/ \E missed \in SUBSET open :
           /\ victims' = open \ missed
           /\ firing' = IF missed = {} THEN firing
                        ELSE [firing EXCEPT !.misread = @ \union {"runs"}]
           /\ Failing(missed # {})
           /\ phase' = IF victims' = {} THEN "insert" ELSE "terminate"
           /\ open # {}
           /\ UNCHANGED heap
      \/ /\ firing.row.policy = "buffer" \/ open = {}
         /\ phase' = "insert"
         /\ UNCHANGED <<heap, firing, victims, failures>>
  BY DEF CheckOverlap, Finish, UpdateNextFire, SelectVictims
<1> HIDE DEF open
<1>5. \A r \in Runs : life'[r] = life[r] /\ owner'[r] = owner[r]
  BY <1>1 DEF execVars
<1>7. SchedulerTypeOK' /\ SameFiring /\ VictimsKnown' /\ OverlapDecided'
  <2>1. CASE /\ phase' = "idle" /\ firing' = NoFiring
             /\ UNCHANGED <<heap, victims, failures>>
    BY <1>1, <2>1 DEF SchedulerInvariant, SchedulerTypeOK, Phases, execVars, SameFiring,
       Serving, VictimsKnown, OverlapDecided
  <2>2. ASSUME NEW missed \in SUBSET open,
               victims' = open \ missed,
               firing' = (IF missed = {} THEN firing
                          ELSE [firing EXCEPT !.misread = @ \union {"runs"}]),
               Failing(missed # {}),
               phase' = (IF victims' = {} THEN "insert" ELSE "terminate"),
               open # {}, UNCHANGED heap
        PROVE  SchedulerTypeOK' /\ SameFiring /\ VictimsKnown' /\ OverlapDecided'
    <3>1. /\ firing' \in Firings
          /\ firing'.id = firing.id /\ firing'.row = firing.row
          /\ firing.misread \subseteq firing'.misread
          /\ missed # {} => "runs" \in firing'.misread
      <4>1. CASE missed = {}
        BY <1>1, <2>2, <4>1
      <4>2. CASE missed # {}
        BY <1>1, <2>2, <4>2 DEF Firings
      <4> QED
        BY <4>1, <4>2
    <3>2. firing' # NoFiring
      <4>1. DOMAIN firing' = {"id", "row", "misread", "reopened"}
        BY <3>1 DEF Firings
      <4>2. DOMAIN NoFiring = {"id"}
        BY DEF NoFiring
      <4> QED
        BY <4>1, <4>2
    <3>3. failures' \in 0..MaxFailures
      BY <2>2, HorizonAssumption DEF SchedulerInvariant, SchedulerTypeOK, Failing
    <3>4. phase' \in {"insert", "terminate"} /\ (victims' # {} <=> phase' = "terminate")
      BY <2>2
    <3>5. victims' \subseteq {r \in Runs : life'[r] # "absent"}
      BY <1>2, <1>5, <2>2
    <3>6. SchedulerTypeOK'
      <4>1. /\ phase' \in Phases /\ phase' # "steps"
            /\ phase' \in {"load", "idle"} <=> firing' = NoFiring
            /\ phase' \in {"overlap", "terminate", "insert"} => firing' \in Firings
        BY <3>1, <3>2, <3>4 DEF Phases
      <4>2. heap' = heap
        BY <2>2
      <4> QED
        BY <1>1, <3>3, <3>4, <3>5, <4>1, <4>2 DEF SchedulerInvariant, SchedulerTypeOK, execVars
    <3>7. SameFiring
      BY <1>1, <3>1 DEF SameFiring, Serving
    <3>8. ASSUME "runs" \notin firing'.misread, NEW r \in OwnRuns(firing.id)',
                 life'[r] = "open"
          PROVE  r \in victims'
      <4>1. missed = {}
        BY <3>1, <3>8
      <4>2. r \in OwnRuns(firing.id) /\ life[r] = "open"
        BY <1>1, <3>1, <3>8 DEF OwnRuns, execVars
      <4> QED
        BY <1>3, <2>2, <4>1, <4>2
    <3>9. VictimsKnown' /\ OverlapDecided'
      BY <3>4, <3>8 DEF VictimsKnown, OverlapDecided
    <3> QED
      BY <3>6, <3>7, <3>9
  <2>3. CASE /\ firing.row.policy = "buffer" \/ open = {}
             /\ phase' = "insert"
             /\ UNCHANGED <<heap, firing, victims, failures>>
    <3>1. SchedulerTypeOK' /\ SameFiring /\ VictimsKnown'
      BY <1>1, <2>3 DEF SchedulerInvariant, SchedulerTypeOK, Phases, execVars, SameFiring,
         Serving, VictimsKnown
    <3>2. OverlapDecided'
      BY <1>1, <1>3, <2>3 DEF OverlapDecided, OwnRuns, execVars
    <3> QED
      BY <3>1, <3>2
  <2> QED
    BY <1>4, <2>1, <2>2, <2>3
<1>8. /\ heap' \subseteq heap /\ phase' # "load"
      /\ now' \in Nat /\ now <= now'
  <2>1. heap' = heap /\ phase' # "load"
    BY <1>4
  <2> QED
    BY <1>1, <2>1, HorizonAssumption DEF SchedulerInvariant, SchedulerTypeOK
<1>9. HeapOK' /\ EntriesAhead' /\ ServedAhead' /\ StartsDistinct' /\ IntervalPassed'
  <2>1. started' = started /\ owner' = owner
        /\ \A r \in Runs : life'[r] = "absent" <=> life[r] = "absent"
    BY <1>1 DEF execVars
  <2> QED
    BY <1>7, <1>8, <2>1, PastKept
<1> QED
  BY <1>7, <1>9 DEF SchedulerInvariant

\* A selected run that is cancelled is open no more.
LEMMA CancelVictimStep ==
    ASSUME SchedulerInvariant, NEW r \in victims, CancelVictim(r)
    PROVE  SchedulerInvariant'
<1>1. /\ r \in Runs /\ firing \in Firings /\ firing # NoFiring /\ phase = "terminate"
      /\ life \in [Runs -> Lives]
      /\ UNCHANGED <<now, schedules, owner, started, inserted, late, counters>>
  BY DEF SchedulerInvariant, SchedulerTypeOK, CancelVictim
<1>2. \/ /\ life[r] = "open"
         /\ life' = [life EXCEPT ![r] = "stopped"]
         /\ victims' = victims \ {r}
         /\ phase' = IF victims = {r} THEN "insert" ELSE "terminate"
         /\ UNCHANGED <<heap, firing>>
      \/ /\ victims' = {} /\ phase' = "idle" /\ firing' = NoFiring
         /\ UNCHANGED <<heap, life>>
  BY DEF CancelVictim, Finish, UpdateNextFire
<1>3. /\ life' \in [Runs -> Lives]
      /\ \A q \in Runs : /\ life'[q] = "absent" <=> life[q] = "absent"
                         /\ life[q] = "completed" => life'[q] = "completed"
                         /\ life'[q] = "open" => life[q] = "open"
  BY <1>1, <1>2 DEF Lives
<1>4. /\ victims' # {} <=> phase' = "terminate"
      /\ victims' \subseteq victims
      /\ \/ phase' \in {"terminate", "insert"} /\ firing' = firing
         \/ phase' = "idle" /\ firing' = NoFiring
      /\ heap' = heap
  BY <1>2
<1>5. SchedulerTypeOK'
  <2>1. /\ phase' \in Phases
        /\ phase' \in {"load", "idle"} <=> firing' = NoFiring
        /\ phase' \in {"overlap", "terminate", "insert"} => firing' \in Firings
        /\ phase' # "steps"
    BY <1>1, <1>4 DEF Phases
  <2>2. /\ victims' \subseteq {q \in Runs : life'[q] # "absent"}
        /\ late' \subseteq {q \in Runs : life'[q] = "completed"}
    BY <1>1, <1>3, <1>4 DEF SchedulerInvariant, SchedulerTypeOK
  <2>3. \A q \in Runs : IF life'[q] = "absent" THEN inserted'[q] = 0
                                              ELSE owner'[q] \in Ids /\ started'[q] <= now'
    BY <1>1, <1>3 DEF SchedulerInvariant, SchedulerTypeOK
  <2> QED
    BY <1>1, <1>3, <1>4, <2>1, <2>2, <2>3 DEF SchedulerInvariant, SchedulerTypeOK, counters
<1>6. HeapOK' /\ EntriesAhead' /\ ServedAhead' /\ StartsDistinct' /\ IntervalPassed'
  <2>1. /\ heap' \subseteq heap /\ phase' # "load"
        /\ now' \in Nat /\ now <= now'
    BY <1>1, <1>4, HorizonAssumption DEF SchedulerInvariant, SchedulerTypeOK
  <2>2. SameFiring
    BY <1>1, <1>4 DEF SameFiring, Serving
  <2> QED
    BY <1>1, <1>3, <2>1, <2>2, PastKept
<1>7. ASSUME phase' \in {"terminate", "insert"}, "runs" \notin firing'.misread,
             NEW q \in OwnRuns(firing.id)', life'[q] = "open"
      PROVE  q \in victims' \union firing'.reopened
  <2>1. firing' = firing /\ victims' = victims \ {r} /\ life' = [life EXCEPT ![r] = "stopped"]
    BY <1>2, <1>7
  <2>2. q \in OwnRuns(firing.id) /\ life[q] = "open" /\ q # r
    BY <1>1, <1>3, <1>7, <2>1 DEF OwnRuns
  <2>3. q \in victims \union firing.reopened
    BY <1>1, <1>7, <2>1, <2>2 DEF SchedulerInvariant, VictimsKnown
  <2> QED
    BY <2>1, <2>2, <2>3
<1>8. VictimsKnown' /\ OverlapDecided'
  <2>1. phase' = "insert" => victims' = {}
    BY <1>4
  <2> QED
    BY <1>7, <2>1 DEF VictimsKnown, OverlapDecided
<1> QED
  BY <1>5, <1>6, <1>8 DEF SchedulerInvariant

LEMMA InsertStepStep ==
    ASSUME SchedulerInvariant, InsertStep
    PROVE  SchedulerInvariant'
<1> DEFINE r == firing.run
<1>1. /\ r \in Runs /\ life[r] # "absent" /\ inserted[r] \in Nat /\ inserted[r] < StepCount
      /\ firing \in [id : Ids, run : Runs] /\ firing # NoFiring
      /\ victims = {} /\ phase = "steps" /\ StepCount \in Nat
      /\ inserted \in [Runs -> 0..StepCount]
  BY SchedulesAssumption DEF SchedulerInvariant, SchedulerTypeOK, InsertStep
<1>2. /\ inserted' = [inserted EXCEPT ![r] = @ + 1]
      /\ late' = IF life[r] = "completed" THEN late \union {r} ELSE late
      /\ heap' = heap
      /\ UNCHANGED <<now, schedules, victims, life, owner, started, counters>>
      /\ \/ phase' = "idle" /\ firing' = NoFiring
         \/ phase' = "steps" /\ firing' = firing /\ inserted[r] + 1 # StepCount
  BY <1>1 DEF InsertStep, Finish, UpdateNextFire
<1> HIDE DEF r
<1>3. SchedulerTypeOK'
  <2>1. \A q \in Runs : life[q] = "absent" => inserted'[q] = 0
    BY <1>1, <1>2 DEF SchedulerInvariant, SchedulerTypeOK
  <2>2. inserted[r] + 1 \in 0..StepCount
    BY <1>1
  <2>3. inserted' \in [Runs -> 0..StepCount] /\ inserted'[r] = inserted[r] + 1
    BY <1>1, <1>2, <2>2
  <2>4. late' \subseteq {q \in Runs : life'[q] = "completed"}
    BY <1>1, <1>2 DEF SchedulerInvariant, SchedulerTypeOK
  <2>5. /\ phase' \in Phases
        /\ phase' \in {"load", "idle"} <=> firing' = NoFiring
        /\ phase' \notin {"overlap", "terminate", "insert"}
        /\ phase' = "steps" => /\ firing' \in [id : Ids, run : Runs]
                               /\ life'[firing'.run] # "absent"
                               /\ inserted'[firing'.run] < StepCount
    <3>1. CASE phase' = "idle" /\ firing' = NoFiring
      BY <3>1 DEF Phases
    <3>2. CASE phase' = "steps" /\ firing' = firing /\ inserted[r] + 1 # StepCount
      BY <1>1, <1>2, <2>2, <2>3, <3>2 DEF Phases, r
    <3> QED
      BY <1>2, <3>1, <3>2
  <2> QED
    BY <1>1, <1>2, <2>1, <2>3, <2>4, <2>5 DEF SchedulerInvariant, SchedulerTypeOK, counters
<1>4. HeapOK' /\ EntriesAhead' /\ ServedAhead' /\ StartsDistinct' /\ IntervalPassed'
  <2>1. /\ heap' \subseteq heap /\ phase' # "load"
        /\ now' \in Nat /\ now <= now'
    BY <1>2, HorizonAssumption DEF SchedulerInvariant, SchedulerTypeOK
  <2>2. SameFiring
    BY <1>2 DEF SameFiring, Serving
  <2> QED
    BY <1>2, <2>1, <2>2, PastKept
<1>5. VictimsKnown' /\ OverlapDecided'
  BY <1>2 DEF VictimsKnown, OverlapDecided
<1> QED
  BY <1>3, <1>4, <1>5 DEF SchedulerInvariant

\* A firing that is given up leaves the runs as they are.
LEMMA FiringFailsStep ==
    ASSUME SchedulerInvariant, FiringFails
    PROVE  SchedulerInvariant'
<1> USE DEF FiringFails, Finish, UpdateNextFire, execVars
<1>1. SchedulerTypeOK'
  <2>1. failures' \in 0..MaxFailures
    BY HorizonAssumption DEF SchedulerInvariant, SchedulerTypeOK, Failing
  <2> QED
    BY <2>1 DEF SchedulerInvariant, SchedulerTypeOK, Phases
<1>2. /\ heap' \subseteq heap /\ phase' # "load"
      /\ now' \in Nat /\ now <= now' /\ SameFiring
  BY HorizonAssumption DEF SchedulerInvariant, SchedulerTypeOK, SameFiring, Serving
<1>3. HeapOK' /\ EntriesAhead' /\ ServedAhead' /\ StartsDistinct' /\ IntervalPassed'
  BY <1>2, PastKept
<1>4. VictimsKnown' /\ OverlapDecided'
  BY DEF VictimsKnown, OverlapDecided
<1> QED
  BY <1>1, <1>3, <1>4 DEF SchedulerInvariant

\* A run that is opened while its schedule cancels or inserts is remembered.
LEMMA RunMovesStep ==
    ASSUME SchedulerInvariant, NEW r \in Runs, RunMoves(r)
    PROVE  SchedulerInvariant'
<1>1. PICK l \in Lives :
        /\ \/ <<life[r], l>> \in Moves /\ inserted[r] > 0
           \/ life[r] = "open" /\ l = "stopped"
           \/ r \in late /\ l = "open"
        /\ life' = [life EXCEPT ![r] = l]
        /\ firing' = IF l = "open" /\ phase \in {"terminate", "insert"}
                     THEN [firing EXCEPT !.reopened = @ \union {r}] ELSE firing
  BY DEF RunMoves
<1>2. /\ late' = late \ {r}
      /\ UNCHANGED <<now, schedules, heap, phase, victims, owner, started, inserted, counters>>
  BY DEF RunMoves
<1>3. life[r] # "absent" /\ l # "absent"
  BY <1>1 DEF SchedulerInvariant, SchedulerTypeOK, Moves
<1>4. /\ life' \in [Runs -> Lives] /\ life'[r] = l
      /\ \A q \in Runs \ {r} : life'[q] = life[q]
      /\ \A q \in Runs : life'[q] = "absent" <=> life[q] = "absent"
  BY <1>1, <1>3 DEF SchedulerInvariant, SchedulerTypeOK
<1>5. \/ firing' = firing /\ (phase \in {"terminate", "insert"} => l # "open")
      \/ /\ phase \in {"terminate", "insert"}
         /\ firing' = [firing EXCEPT !.reopened = @ \union {r}]
  BY <1>1
<1>6. /\ phase \in {"overlap", "terminate", "insert"} =>
           /\ firing' \in Firings
           /\ firing'.id = firing.id /\ firing'.row = firing.row
           /\ firing'.misread = firing.misread
           /\ firing.reopened \subseteq firing'.reopened
           /\ phase # "overlap" /\ l = "open" => r \in firing'.reopened
      /\ phase \notin {"terminate", "insert"} => firing' = firing
  <2>1. CASE firing' = firing /\ (phase \in {"terminate", "insert"} => l # "open")
    BY <2>1 DEF SchedulerInvariant, SchedulerTypeOK
  <2>2. CASE /\ phase \in {"terminate", "insert"}
             /\ firing' = [firing EXCEPT !.reopened = @ \union {r}]
    <3>1. firing \in Firings
      BY <2>2 DEF SchedulerInvariant, SchedulerTypeOK
    <3> QED
      BY <2>2, <3>1 DEF Firings
  <2> QED
    BY <1>5, <2>1, <2>2
<1>7. SchedulerTypeOK'
  <2>1. /\ phase' \in {"load", "idle"} <=> firing' = NoFiring
        /\ phase' \in {"overlap", "terminate", "insert"} => firing' \in Firings
    <3>1. CASE phase \in {"terminate", "insert"}
      <4>1. DOMAIN firing' = {"id", "row", "misread", "reopened"}
        BY <1>6, <3>1 DEF Firings
      <4>2. DOMAIN NoFiring = {"id"}
        BY DEF NoFiring
      <4> QED
        BY <1>2, <1>6, <3>1, <4>1, <4>2
    <3>2. CASE phase \notin {"terminate", "insert"}
      BY <1>2, <1>6, <3>2 DEF SchedulerInvariant, SchedulerTypeOK
    <3> QED
      BY <3>1, <3>2
  <2>2. phase' = "steps" => /\ firing' \in [id : Ids, run : Runs]
                            /\ life'[firing'.run] # "absent"
                            /\ inserted'[firing'.run] < StepCount
    BY <1>2, <1>4, <1>6 DEF SchedulerInvariant, SchedulerTypeOK
  <2>3. /\ late' \subseteq {q \in Runs : life'[q] = "completed"}
        /\ victims' \subseteq {q \in Runs : life'[q] # "absent"}
    BY <1>2, <1>4 DEF SchedulerInvariant, SchedulerTypeOK
  <2>4. \A q \in Runs : IF life'[q] = "absent" THEN inserted'[q] = 0
                                              ELSE owner'[q] \in Ids /\ started'[q] <= now'
    BY <1>2, <1>4 DEF SchedulerInvariant, SchedulerTypeOK
  <2> QED
    BY <1>2, <1>4, <2>1, <2>2, <2>3, <2>4 DEF SchedulerInvariant, SchedulerTypeOK, counters
<1>8. HeapOK' /\ EntriesAhead' /\ ServedAhead' /\ StartsDistinct' /\ IntervalPassed'
  <2>1. /\ heap' \subseteq heap /\ (phase' = "load" => heap' = {})
        /\ now' \in Nat /\ now <= now'
    BY <1>2, HorizonAssumption DEF SchedulerInvariant, SchedulerTypeOK, HeapOK
  <2>2. SameFiring
    BY <1>2, <1>6 DEF SameFiring, Serving
  <2> QED
    BY <1>2, <1>4, <2>1, <2>2, PastKept
<1>9. ASSUME phase' \in {"terminate", "insert"}, NEW q \in OwnRuns(firing.id)',
             life'[q] = "open", q \notin firing'.reopened
      PROVE  /\ q \in OwnRuns(firing.id) /\ life[q] = "open" /\ q \notin firing.reopened
             /\ firing'.row = firing.row /\ firing'.misread = firing.misread
  <2>1. /\ firing'.id = firing.id /\ firing'.row = firing.row
        /\ firing'.misread = firing.misread /\ firing.reopened \subseteq firing'.reopened
        /\ l = "open" => r \in firing'.reopened
    BY <1>2, <1>6, <1>9
  <2>2. q \in Runs /\ q # r
    BY <1>4, <1>9, <2>1 DEF OwnRuns
  <2> QED
    BY <1>2, <1>4, <1>9, <2>1, <2>2 DEF OwnRuns
<1>10. VictimsKnown' /\ OverlapDecided'
  <2>1. VictimsKnown'
    <3> SUFFICES ASSUME phase' = "terminate", "runs" \notin firing'.misread,
                        NEW q \in OwnRuns(firing.id)', life'[q] = "open",
                        q \notin firing'.reopened
                 PROVE  q \in victims'
      BY DEF VictimsKnown
    <3> QED
      BY <1>2, <1>9 DEF SchedulerInvariant, VictimsKnown
  <2>2. OverlapDecided'
    <3> SUFFICES ASSUME phase' = "insert", firing'.row.policy # "buffer",
                        "runs" \notin firing'.misread,
                        NEW q \in OwnRuns(firing.id)', life'[q] = "open",
                        q \notin firing'.reopened
                 PROVE  FALSE
      BY DEF OverlapDecided
    <3> QED
      BY <1>2, <1>9 DEF SchedulerInvariant, OverlapDecided
  <2> QED
    BY <2>1, <2>2
<1> QED
  BY <1>7, <1>8, <1>10 DEF SchedulerInvariant

\* The handlers touch the table only: what was armed or loaded stays as it is.
LEMMA SetRowStep ==
    ASSUME SchedulerInvariant, NEW i \in Ids, NEW row \in Rows \union {NoRow},
           SetRow(i, row)
    PROVE  SchedulerInvariant'
<1> USE DEF SetRow, taskVars, execVars
<1>1. SchedulerTypeOK'
  BY HorizonAssumption DEF SchedulerInvariant, SchedulerTypeOK
<1>2. /\ heap' \subseteq heap /\ (phase' = "load" => heap' = {})
      /\ now' \in Nat /\ now <= now' /\ SameFiring
  BY HorizonAssumption DEF SchedulerInvariant, SchedulerTypeOK, HeapOK, SameFiring, Serving
<1>3. HeapOK' /\ EntriesAhead' /\ ServedAhead' /\ StartsDistinct' /\ IntervalPassed'
  BY <1>2, PastKept
<1>4. VictimsKnown' /\ OverlapDecided'
  BY ChoiceKept
<1> QED
  BY <1>1, <1>3, <1>4 DEF SchedulerInvariant

LEMMA ScheduleClientStep ==
    ASSUME SchedulerInvariant, ScheduleClient
    PROVE  SchedulerInvariant'
<1>1. PICK i \in Ids :
        \/ \E spec \in Specs, policy \in Policies :
             \/ CreateSchedule(i, spec, policy)
             \/ TemporalCreateSchedule(i, spec, policy)
             \/ TemporalUpdateSchedule(i, spec, policy)
        \/ \E spec \in Specs : UpdateSchedule(i, spec)
        \/ DeleteSchedule(i)
  BY DEF ScheduleClient
<1>2. Exists(i) => schedules[i] \in Rows
  BY DEF SchedulerInvariant, SchedulerTypeOK, Exists
<1>3. ASSUME NEW spec \in Specs, NEW policy \in Policies, CreateSchedule(i, spec, policy)
      PROVE  SchedulerInvariant'
  <2>1. [spec |-> spec, policy |-> policy] \in Rows
    BY DEF Rows
  <2> QED
    BY <1>3, <2>1, SetRowStep DEF CreateSchedule
<1>4. ASSUME NEW spec \in Specs, NEW policy \in Policies,
             TemporalCreateSchedule(i, spec, policy)
      PROVE  SchedulerInvariant'
  <2>1. [spec |-> TemporalSpec(spec), policy |-> policy] \in Rows
    BY DEF Rows, TemporalSpec
  <2> QED
    BY <1>4, <2>1, SetRowStep DEF TemporalCreateSchedule, CreateSchedule
<1>5. ASSUME NEW spec \in Specs, NEW policy \in Policies,
             TemporalUpdateSchedule(i, spec, policy)
      PROVE  SchedulerInvariant'
  <2>1. PICK s \in {schedules[i].spec, TemporalSpec(spec)} :
               SetRow(i, [spec |-> s, policy |-> policy])
    BY <1>5 DEF TemporalUpdateSchedule
  <2>2. [spec |-> s, policy |-> policy] \in Rows
    BY <1>2, <1>5 DEF Rows, TemporalSpec, TemporalUpdateSchedule
  <2> QED
    BY <2>1, <2>2, SetRowStep
<1>6. ASSUME NEW spec \in Specs, UpdateSchedule(i, spec)
      PROVE  SchedulerInvariant'
  <2>1. [spec |-> spec, policy |-> schedules[i].policy] \in Rows
    BY <1>2, <1>6 DEF Rows, UpdateSchedule
  <2> QED
    BY <1>6, <2>1, SetRowStep DEF UpdateSchedule
<1>7. ASSUME DeleteSchedule(i)
      PROVE  SchedulerInvariant'
  BY <1>7, SetRowStep DEF DeleteSchedule
<1> QED
  BY <1>1, <1>3, <1>4, <1>5, <1>6, <1>7

LEMMA TickStep ==
    ASSUME SchedulerInvariant, Tick
    PROVE  SchedulerInvariant'
<1> USE DEF Tick, taskVars, execVars, counters
<1>1. now \in Nat /\ now' = now + 1 /\ now' \in 0..MaxTime
  BY HorizonAssumption DEF SchedulerInvariant, SchedulerTypeOK
<1>2. SchedulerTypeOK'
  <2>1. \A r \in Runs : IF life'[r] = "absent" THEN inserted'[r] = 0
                                              ELSE owner'[r] \in Ids /\ started'[r] <= now'
    BY <1>1 DEF SchedulerInvariant, SchedulerTypeOK
  <2> QED
    BY <1>1, <2>1 DEF SchedulerInvariant, SchedulerTypeOK
<1>3. /\ heap' \subseteq heap /\ (phase' = "load" => heap' = {})
      /\ now' \in Nat /\ now <= now' /\ SameFiring
  BY <1>1 DEF SchedulerInvariant, HeapOK, SameFiring, Serving
<1>4. HeapOK' /\ EntriesAhead' /\ ServedAhead' /\ StartsDistinct' /\ IntervalPassed'
  BY <1>3, PastKept
<1>5. VictimsKnown' /\ OverlapDecided'
  BY ChoiceKept
<1> QED
  BY <1>2, <1>4, <1>5 DEF SchedulerInvariant

\* A restart forgets the heap and the firing, and no run.
LEMMA ServerRestartStep ==
    ASSUME SchedulerInvariant, ServerRestart
    PROVE  SchedulerInvariant'
<1> USE DEF ServerRestart, execVars
<1>1. SchedulerTypeOK'
  BY HorizonAssumption DEF SchedulerInvariant, SchedulerTypeOK, Phases
<1>2. /\ heap' \subseteq heap /\ (phase' = "load" => heap' = {})
      /\ now' \in Nat /\ now <= now' /\ SameFiring
  BY HorizonAssumption DEF SchedulerInvariant, SchedulerTypeOK, SameFiring, Serving
<1>3. HeapOK' /\ EntriesAhead' /\ ServedAhead' /\ StartsDistinct' /\ IntervalPassed'
  BY <1>2, PastKept
<1>4. VictimsKnown' /\ OverlapDecided'
  BY DEF VictimsKnown, OverlapDecided
<1> QED
  BY <1>1, <1>3, <1>4 DEF SchedulerInvariant

-----------------------------------------------------------------------------
(* The step that starts a run.                                             *)

\* The run starts after all others of its schedule, and its schedule is not armed.
LEMMA InsertRunStep ==
    ASSUME SchedulerInvariant, InsertRun
    PROVE  SchedulerInvariant'
<1> DEFINE r == CHOOSE r \in Runs : life[r] = "absent"
<1>1. r \in Runs /\ life[r] = "absent"
  <2>1. phase = "insert"
    BY DEF InsertRun
  <2> QED
    BY <2>1, RunLeft
<1>2. /\ phase = "insert" /\ phase' = "steps"
      /\ life' = [life EXCEPT ![r] = "open"]
      /\ owner' = [owner EXCEPT ![r] = firing.id]
      /\ started' = [started EXCEPT ![r] = now]
      /\ firing' = [id |-> firing.id, run |-> r]
      /\ UNCHANGED <<now, schedules, heap, victims, inserted, late, counters>>
  BY DEF InsertRun
<1> HIDE DEF r
<1>3. firing.id \in Ids /\ Serving /\ now \in Nat
  BY <1>2, HorizonAssumption DEF SchedulerInvariant, SchedulerTypeOK, Serving, Firings
<1>4. /\ life' \in [Runs -> Lives]
      /\ owner' \in [Runs -> Ids \union {"none"}]
      /\ started' \in [Runs -> Nat]
      /\ life'[r] = "open" /\ owner'[r] = firing.id /\ started'[r] = now
      /\ \A q \in Runs \ {r} :
           life'[q] = life[q] /\ owner'[q] = owner[q] /\ started'[q] = started[q]
  BY <1>1, <1>2, <1>3 DEF SchedulerInvariant, SchedulerTypeOK, Lives
<1>5. SchedulerTypeOK'
  <2>1. /\ firing' \in [id : Ids, run : Runs] /\ firing'.run = r
        /\ DOMAIN firing' = {"id", "run"} /\ DOMAIN NoFiring = {"id"}
    BY <1>1, <1>2, <1>3 DEF NoFiring
  <2>2. firing' # NoFiring
    BY <2>1
  <2>3. late' \subseteq {q \in Runs : life'[q] = "completed"}
    BY <1>1, <1>2, <1>4 DEF SchedulerInvariant, SchedulerTypeOK
  <2>4. \A q \in Runs : IF life'[q] = "absent" THEN inserted'[q] = 0
                                              ELSE owner'[q] \in Ids /\ started'[q] <= now'
    <3>1. ASSUME NEW q \in Runs \ {r}
          PROVE  IF life'[q] = "absent" THEN inserted'[q] = 0
                                        ELSE owner'[q] \in Ids /\ started'[q] <= now'
      BY <1>2, <1>4 DEF SchedulerInvariant, SchedulerTypeOK
    <3>2. life'[r] # "absent" /\ owner'[r] \in Ids /\ started'[r] <= now'
      BY <1>2, <1>3, <1>4
    <3> QED
      BY <3>1, <3>2
  <2>5. victims = {}
    BY <1>2 DEF SchedulerInvariant, SchedulerTypeOK
  <2>6. inserted'[firing'.run] < StepCount
    BY <1>1, <1>2, <2>1, SchedulesAssumption DEF SchedulerInvariant, SchedulerTypeOK
  <2> QED
    BY <1>2, <1>4, <2>1, <2>2, <2>3, <2>4, <2>5, <2>6
       DEF SchedulerInvariant, SchedulerTypeOK, Phases, counters
<1>6. HeapOK'
  BY <1>2 DEF SchedulerInvariant, HeapOK, Serving
<1>7. \A i \in Ids : \A q \in OwnRuns(i)' :
        q # r => q \in OwnRuns(i) /\ started'[q] = started[q]
  BY <1>4 DEF OwnRuns
<1>8. EntriesAhead'
  <2> SUFFICES ASSUME NEW e \in heap, NEW q \in OwnRuns(e.id)'
               PROVE  started'[q] < e.time
    BY <1>2 DEF EntriesAhead
  <2>1. e.id \in Ids /\ e.id # firing.id
    BY <1>3 DEF SchedulerInvariant, SchedulerTypeOK, HeapOK, Armed
  <2>2. q # r
    BY <1>2, <1>4, <2>1 DEF OwnRuns
  <2>3. q \in OwnRuns(e.id) /\ started'[q] = started[q]
    BY <1>4, <2>2 DEF OwnRuns
  <2> QED
    BY <2>3 DEF SchedulerInvariant, EntriesAhead
<1>9. StartsDistinct'
  <2> SUFFICES ASSUME NEW i \in Ids, NEW p \in OwnRuns(i)', NEW q \in OwnRuns(i)', p # q
               PROVE  started'[p] # started'[q]
    BY DEF StartsDistinct
  <2>1. ASSUME NEW s \in OwnRuns(i)', s # r, r \in OwnRuns(i)'
        PROVE  started'[s] # started'[r]
    <3>1. i = firing.id
      BY <1>4, <2>1 DEF OwnRuns
    <3>2. s \in OwnRuns(firing.id) /\ started'[s] = started[s]
      BY <1>7, <2>1, <3>1
    <3>3. started[s] < now /\ started[s] \in Nat
      BY <1>3, <3>2 DEF SchedulerInvariant, SchedulerTypeOK, ServedAhead, OwnRuns
    <3> QED
      BY <1>3, <1>4, <3>2, <3>3
  <2>2. CASE p # r /\ q # r
    BY <1>7, <2>2 DEF SchedulerInvariant, StartsDistinct
  <2>3. CASE p = r
    BY <2>1, <2>3
  <2>4. CASE q = r
    BY <2>1, <2>4
  <2> QED
    BY <2>2, <2>3, <2>4
<1>10. ServedAhead' /\ IntervalPassed' /\ VictimsKnown' /\ OverlapDecided'
  BY <1>2 DEF ServedAhead, IntervalPassed, VictimsKnown, OverlapDecided, Serving
<1> QED
  BY <1>5, <1>6, <1>8, <1>9, <1>10 DEF SchedulerInvariant

-----------------------------------------------------------------------------
(* The theorems.                                                           *)

LEMMA InitInvariant == SchedulerInit => SchedulerInvariant
<1> SUFFICES ASSUME SchedulerInit
             PROVE  SchedulerInvariant
  OBVIOUS
<1> USE DEF SchedulerInit, LifeInit
<1>1. SchedulerTypeOK
  BY HorizonAssumption, SchedulesAssumption DEF SchedulerTypeOK, Phases, Lives
<1>2. HeapOK /\ EntriesAhead /\ ServedAhead /\ IntervalPassed /\ VictimsKnown /\ OverlapDecided
  BY DEF HeapOK, EntriesAhead, ServedAhead, IntervalPassed, VictimsKnown, OverlapDecided, Serving
<1>3. StartsDistinct
  BY DEF StartsDistinct, OwnRuns
<1> QED
  BY <1>1, <1>2, <1>3 DEF SchedulerInvariant

LEMMA NextInvariant ==
    SchedulerInvariant /\ [SchedulerNext]_schedulerVars => SchedulerInvariant'
<1> SUFFICES ASSUME SchedulerInvariant, [SchedulerNext]_schedulerVars
             PROVE  SchedulerInvariant'
  OBVIOUS
<1>1. CASE Task
  BY <1>1, ReloadStep, ProcessScheduleStep, DismissScheduleStep, CheckOverlapStep,
     CancelVictimStep, InsertRunStep, InsertStepStep, FiringFailsStep DEF Task
<1>2. CASE ScheduleClient
  BY <1>2, ScheduleClientStep
<1>3. CASE \E r \in Runs : RunMoves(r)
  BY <1>3, RunMovesStep
<1>4. CASE Tick
  BY <1>4, TickStep
<1>5. CASE ServerRestart
  BY <1>5, ServerRestartStep
<1>6. CASE UNCHANGED schedulerVars
  BY <1>6 DEF schedulerVars, taskVars, execVars, counters, SchedulerInvariant,
     SchedulerTypeOK, HeapOK, EntriesAhead, ServedAhead, StartsDistinct, IntervalPassed,
     VictimsKnown, OverlapDecided, Serving, Armed, OwnRuns
<1> QED
  BY <1>1, <1>2, <1>3, <1>4, <1>5, <1>6 DEF SchedulerNext

LEMMA Inductive == SchedulerSpec => []SchedulerInvariant
BY InitInvariant, NextInvariant, PTL DEF SchedulerSpec

\* Table, heap, the schedule being served and the runs keep their types: the
\* task never works on a row it has not loaded, and a run without a row in the
\* workflows table has no steps (reload_all_schedules to start_schedule_workflow).
THEOREM SchedulerTyped == SchedulerSpec => []SchedulerTypeOK
<1>1. SchedulerInvariant => SchedulerTypeOK
  BY DEF SchedulerInvariant
<1> QED
  BY Inductive, <1>1, PTL

\* No schedule starts two runs in the same second, however many schedules there
\* are, whatever is edited, whichever statement fails and wherever the process
\* stops: the next fire time that reload_all_schedules computes lies after the
\* starts of the schedule's runs, and its entry leaves the heap before
\* process_schedule looks at the schedule.
THEOREM StartsKeptApart == SchedulerSpec => []StartsDistinct
<1>1. SchedulerInvariant => StartsDistinct
  BY DEF SchedulerInvariant
<1> QED
  BY Inductive, <1>1, PTL

\* A schedule with policy skip or terminate inserts a run only when all its runs
\* that are open were opened again after check_running_workflow had counted and
\* terminate_existing had selected them.
THEOREM OverlapKept == SchedulerSpec => []OverlapDecided
<1>1. SchedulerInvariant => OverlapDecided
  BY DEF SchedulerInvariant
<1> QED
  BY Inductive, <1>1, PTL

\* start_schedule_workflow is reached only when the interval of the loaded row
\* has passed since every earlier run of the schedule, although the table, the
\* runs and the clock move between should_fire and the insertion.
THEOREM IntervalKeptBetweenRuns == SchedulerSpec => IntervalRespected
<1>1. SchedulerInvariant /\ [SchedulerNext]_schedulerVars =>
        [/\ phase = "insert" /\ phase' = "steps"
         /\ firing.row.spec.type = "interval" /\ "starts" \notin firing.misread
         => \A r \in OwnRuns(firing.id) : started[r] + firing.row.spec.secs <= now]_schedulerVars
  BY DEF SchedulerInvariant, IntervalPassed, Serving
<1> QED
  BY Inductive, <1>1, PTL DEF SchedulerSpec, IntervalRespected
=============================================================================
