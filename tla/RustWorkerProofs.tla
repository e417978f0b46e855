--------------------------- MODULE RustWorkerProofs ---------------------------
(***************************************************************************)
(* Proofs about RustWorker for every set of tasks and handlers, every      *)
(* number of permits, channel capacity and backoff configuration.          *)
(***************************************************************************)
EXTENDS RustWorker, FiniteSetTheorems, SequenceTheorems, TLAPS

-----------------------------------------------------------------------------
(* The delays.                                                             *)

\* 2^n, for the 17 exponents that compute uses.
Power == <<1, 2, 4, 8, 16, 32, 64, 128, 256, 512, 1024, 2048, 4096, 8192, 16384, 32768,
           65536>>

\* The delays without recursion.
Delays == [n \in 0..16 |-> Smaller(Power[n + 1] * BackoffInitial, BackoffMax)]

IsDoubled(g) ==
    g = [n \in 0..16 |-> IF n = 0 THEN BackoffInitial ELSE Smaller(2 * g[n - 1], BackoffMax)]

(***************************************************************************)
(* The recursive definition of Doubled has a solution.                     *)
(***************************************************************************)
LEMMA DelaysDouble == IsDoubled(Delays)
<1>1. BackoffInitial \in Nat /\ BackoffMax \in Nat /\ BackoffInitial <= BackoffMax
  BY RustWorkerAssumption
<1>2. ASSUME NEW n \in 1..16
      PROVE  Delays[n] = Smaller(2 * Delays[n - 1], BackoffMax)
  <2>1. ASSUME NEW x \in Nat, NEW y \in Nat, y = 2 * x
        PROVE  Smaller(y, BackoffMax) = Smaller(2 * Smaller(x, BackoffMax), BackoffMax)
    BY <1>1, <2>1 DEF Smaller
  <2>2. Power[n] * BackoffInitial \in Nat /\ Power[n + 1] * BackoffInitial \in Nat
    BY <1>1 DEF Power
  <2>3. Power[n + 1] * BackoffInitial = 2 * (Power[n] * BackoffInitial)
    BY <1>1 DEF Power
  <2>4. /\ Delays[n] = Smaller(Power[n + 1] * BackoffInitial, BackoffMax)
        /\ Delays[n - 1] = Smaller(Power[n] * BackoffInitial, BackoffMax)
    BY DEF Delays
  <2> QED BY <2>1, <2>2, <2>3, <2>4
<1>3. Delays[0] = BackoffInitial
  BY <1>1 DEF Delays, Power, Smaller
<1> QED BY <1>2, <1>3 DEF IsDoubled, Delays

(***************************************************************************)
(* It has no other.                                                        *)
(***************************************************************************)
LEMMA DoubledIsDelays == Doubled = Delays
<1>1. IsDoubled(Doubled)
  <2>1. Doubled = CHOOSE g : IsDoubled(g)
    BY DEF Doubled, IsDoubled
  <2> QED BY <2>1, DelaysDouble
<1>2. Doubled[0] = Delays[0]
  BY <1>1, DelaysDouble DEF IsDoubled
<1>3. ASSUME NEW n \in 1..16, Doubled[n - 1] = Delays[n - 1]
      PROVE  Doubled[n] = Delays[n]
  BY <1>1, <1>3, DelaysDouble DEF IsDoubled
<1>4. /\ Doubled[1] = Delays[1] /\ Doubled[2] = Delays[2]
      /\ Doubled[3] = Delays[3] /\ Doubled[4] = Delays[4]
  BY <1>2, <1>3
<1>5. /\ Doubled[5] = Delays[5] /\ Doubled[6] = Delays[6]
      /\ Doubled[7] = Delays[7] /\ Doubled[8] = Delays[8]
  BY <1>3, <1>4
<1>6. /\ Doubled[9] = Delays[9] /\ Doubled[10] = Delays[10]
      /\ Doubled[11] = Delays[11] /\ Doubled[12] = Delays[12]
  BY <1>3, <1>5
<1>7. /\ Doubled[13] = Delays[13] /\ Doubled[14] = Delays[14]
      /\ Doubled[15] = Delays[15] /\ Doubled[16] = Delays[16]
  BY <1>3, <1>6
<1>8. \A n \in 0..16 : Doubled[n] = Delays[n]
  BY <1>2, <1>4, <1>5, <1>6, <1>7
<1>9. DOMAIN Doubled = 0..16 /\ DOMAIN Delays = 0..16 
  BY <1>1 DEF IsDoubled, Delays
<1>10. Doubled = [n \in 0..16 |-> Doubled[n]] /\ Delays = [n \in 0..16 |-> Delays[n]]
  BY <1>1, DelaysDouble DEF IsDoubled, Delays
<1> QED BY <1>8, <1>10

(***************************************************************************)
(* A delay before jitter lies between the two ends of the configuration;   *)
(* it is the maximum or twice the one before.                              *)
(***************************************************************************)
LEMMA DoubledBounds ==
  ASSUME NEW n \in 0..16
  PROVE  /\ Doubled[n] \in Nat
         /\ BackoffInitial <= Doubled[n] /\ Doubled[n] <= BackoffMax
         /\ n > 0 => Doubled[n] = BackoffMax \/ Doubled[n] = 2 * Doubled[n - 1]
<1>1. BackoffInitial \in Nat /\ BackoffMax \in Nat /\ BackoffInitial <= BackoffMax
  BY RustWorkerAssumption
<1>2. Delays[n] = Smaller(Power[n + 1] * BackoffInitial, BackoffMax)
  BY DEF Delays
<1>3. Power[n + 1] * BackoffInitial \in Nat /\ BackoffInitial <= Power[n + 1] * BackoffInitial
  BY <1>1 DEF Power
<1>4. /\ Delays[n] \in Nat
      /\ BackoffInitial <= Delays[n] /\ Delays[n] <= BackoffMax
  BY <1>1, <1>2, <1>3 DEF Smaller
<1>5. n > 0 => Delays[n] = Smaller(2 * Delays[n - 1], BackoffMax)
  BY DelaysDouble DEF IsDoubled
<1>6. n > 0 => Delays[n] = BackoffMax \/ Delays[n] = 2 * Delays[n - 1]
  BY <1>5 DEF Smaller
<1> QED BY <1>4, <1>6, DoubledIsDelays

(***************************************************************************)
(* Jitter takes off less than a third and stays within the configuration.  *)
(***************************************************************************)
LEMMA ComputeBounds ==
  ASSUME NEW k \in Nat, NEW d \in Compute(k)
  PROVE  /\ d \in Nat /\ BackoffInitial <= d /\ d <= Doubled[Smaller(k, 16)]
         /\ d <= BackoffMax
         /\ 10 * d >= 7 * Doubled[Smaller(k, 16)]
<1> DEFINE n == Smaller(k, 16)
<1>1. BackoffInitial \in Nat /\ BackoffMax \in Nat
  BY RustWorkerAssumption
<1>2. n \in 0..16
  BY DEF Smaller
<1>3. Doubled[n] \in Nat /\ BackoffInitial <= Doubled[n] /\ Doubled[n] <= BackoffMax
  BY <1>2, DoubledBounds
<1>4. PICK j \in {0, 1} :
        d = Larger(Doubled[n] - (3 * Doubled[n] * j) \div 10, BackoffInitial)
  BY DEF Compute
<1>5. PICK c \in Nat : 10 * c <= 3 * Doubled[n] /\ d = Larger(Doubled[n] - c, BackoffInitial)
  <2>1. CASE j = 0
    <3>1. (3 * Doubled[n] * j) \div 10 = 0
      BY <1>3, <2>1
    <3> QED BY <1>3, <1>4, <3>1
  <2>2. CASE j = 1
    <3> DEFINE c == (3 * Doubled[n]) \div 10
    <3>1. c \in Nat /\ 10 * c <= 3 * Doubled[n]
      BY <1>3
    <3>2. 3 * Doubled[n] * j = 3 * Doubled[n]
      BY <1>3, <2>2
    <3> QED BY <1>4, <3>1, <3>2
  <2> QED BY <1>4, <2>1, <2>2
<1> HIDE DEF n
<1>6. /\ d \in Nat /\ BackoffInitial <= d /\ d <= Doubled[n]
      /\ d <= BackoffMax /\ 10 * d >= 7 * Doubled[n]
  BY <1>1, <1>3, <1>5 DEF Larger
<1> QED BY <1>6 DEF n

-----------------------------------------------------------------------------
(* Sequences without repetition.                                           *)

LEMMA AppendRange ==
  ASSUME NEW S, NEW q \in Seq(S), NEW x \in S, x \notin Range(q), IsInjective(q)
  PROVE  /\ Range(Append(q, x)) = Range(q) \union {x}
         /\ IsInjective(Append(q, x))
<1> DEFINE p == Append(q, x)
<1>1. /\ p \in Seq(S)
      /\ Len(p) = Len(q) + 1
      /\ \A i \in 1..Len(q) : p[i] = q[i]
      /\ p[Len(q) + 1] = x
  BY AppendProperties
<1>2. DOMAIN q = 1..Len(q) /\ DOMAIN p = 1..(Len(q) + 1) /\ Len(q) \in Nat
  BY <1>1, LenProperties
<1> HIDE DEF p
<1>3. Range(p) = Range(q) \union {x}
  BY <1>1, <1>2 DEF Range
<1>4. IsInjective(p)
  BY <1>1, <1>2 DEF IsInjective, Range
<1> QED BY <1>3, <1>4 DEF p

LEMMA TailRange ==
  ASSUME NEW S, NEW q \in Seq(S), q # <<>>, IsInjective(q)
  PROVE  /\ Head(q) \in S /\ Tail(q) \in Seq(S) /\ Len(Tail(q)) < Len(q)
         /\ Range(q) = Range(Tail(q)) \union {Head(q)}
         /\ Head(q) \notin Range(Tail(q))
         /\ IsInjective(Tail(q))
<1> DEFINE p == Tail(q)
<1>1. /\ Head(q) \in S /\ p \in Seq(S) /\ Len(p) = Len(q) - 1
      /\ \A i \in 1..Len(p) : p[i] = q[i + 1]
  BY HeadTailProperties
<1>2. Head(q) = q[1]
  OBVIOUS
<1>3. /\ DOMAIN q = 1..Len(q) /\ DOMAIN p = 1..(Len(q) - 1)
      /\ Len(q) \in Nat /\ Len(q) > 0
  BY <1>1, LenProperties, EmptySeq
<1> HIDE DEF p
<1>4. \A i \in 2..Len(q) : i - 1 \in 1..Len(p) /\ p[i - 1] = q[i]
  BY <1>1, <1>3
<1>5. Range(q) = Range(p) \union {q[1]}
  <2>1. \A y \in Range(q) : y \in Range(p) \union {q[1]}
    <3> SUFFICES ASSUME NEW i \in 1..Len(q), i # 1
                 PROVE  q[i] \in Range(p)
      BY <1>3 DEF Range
    <3>1. i \in 2..Len(q)
      BY <1>3
    <3> QED BY <1>1, <1>3, <1>4, <3>1 DEF Range
  <2>2. \A y \in Range(p) \union {q[1]} : y \in Range(q)
    BY <1>1, <1>3 DEF Range
  <2> QED BY <2>1, <2>2
<1>6. \A i \in 1..Len(p) : i + 1 \in 1..Len(q) /\ p[i] = q[i + 1]
  BY <1>1, <1>3
<1>7. q[1] \notin Range(p)
  BY <1>1, <1>3, <1>6 DEF Range, IsInjective
<1>8. IsInjective(p)
  <2> SUFFICES ASSUME NEW i \in 1..Len(p), NEW j \in 1..Len(p), p[i] = p[j]
               PROVE  i = j
    BY <1>1, <1>3 DEF IsInjective
  <2>1. i + 1 = j + 1
    BY <1>3, <1>6 DEF IsInjective
  <2> QED BY <2>1
<1> QED BY <1>1, <1>2, <1>3, <1>5, <1>7, <1>8 DEF p

(***************************************************************************)
(* The size of a union is bounded by the sum of the sizes.                 *)
(***************************************************************************)
LEMMA UnionBound ==
  ASSUME NEW S, IsFiniteSet(S), NEW m \in Nat, Cardinality(S) <= m,
         NEW T, IsFiniteSet(T), NEW n \in Nat, Cardinality(T) <= n
  PROVE  IsFiniteSet(S \union T) /\ Cardinality(S \union T) <= m + n
<1>1. /\ IsFiniteSet(S \union T) /\ IsFiniteSet(S \intersect T)
      /\ Cardinality(S \union T) = Cardinality(S) + Cardinality(T) - Cardinality(S \intersect T)
  BY FS_Union, FS_Intersection
<1>2. /\ Cardinality(S) \in Nat /\ Cardinality(T) \in Nat
      /\ Cardinality(S \intersect T) \in Nat
  BY <1>1, FS_CardinalityType
<1> QED BY <1>1, <1>2

-----------------------------------------------------------------------------
(* The invariant.                                                          *)

\* The delay belongs to the number of failures of the outage so far.
BackoffOK ==
    /\ reconnect <= faults
    /\ connected => reconnect = 0
    /\ reconnect > 0 => delay \in Compute(reconnect)

\* The process takes everything with it.
ExitedOK ==
    main = At("exited") => poller = At("dropped") /\ channel = <<>> /\ handlers = {}

WorkerInvariant ==
    /\ WorkerTypeOK
    /\ BackoffOK
    /\ ExitedOK
    /\ SingleCustody
    /\ PermitsConserved
    /\ LossesAccounted

LEMMA InitWorker == Init => WorkerInvariant
<1> SUFFICES ASSUME Init PROVE WorkerInvariant
  OBVIOUS
<1> USE RustWorkerAssumption
<1>1. WorkerTypeOK
  <2>1. channel \in Seq(Tasks) /\ Len(channel) <= ChannelCapacity
    BY EmptySeq DEF Init
  <2>2. /\ delay \in 0..BackoffMax /\ reconnect \in 0..MaxFaults /\ faults \in 0..MaxFaults
        /\ permits \in 0..MaxConcurrent
    BY DEF Init
  <2>3. handlers \subseteq Tasks \X {"execute", "report"}
    BY DEF Init
  <2>4. /\ server \in [Tasks -> {"ready", "leased", "reported"}]
        /\ connected \in BOOLEAN /\ signalled \in BOOLEAN
        /\ poller = At("poll") /\ main = At("select")
    BY DEF Init
  <2> QED BY <2>1, <2>2, <2>3, <2>4 DEF WorkerTypeOK
<1>2. BackoffOK /\ ExitedOK
  BY DEF Init, BackoffOK, ExitedOK, At
<1>3. \A t \in Tasks : ~Held(t)
  BY DEF Init, Held, InHandler, Range, At, With
<1>4. SingleCustody
  BY <1>3 DEF Init, SingleCustody, IsInjective, Held, InHandler, Range, At, With
<1>5. PermitsConserved
  BY FS_EmptySet DEF Init, PermitsConserved
<1>6. Lost = {}
  BY DEF Init, Lost, Stage
<1>7. LossesAccounted
  BY <1>6, FS_EmptySet DEF Init, LossesAccounted
<1> QED BY <1>1, <1>2, <1>4, <1>5, <1>7 DEF WorkerInvariant

(***************************************************************************)
(* A task is lost when it is leased and nowhere in the process.            *)
(***************************************************************************)
LEMMA LostTasks ==
  ASSUME WorkerTypeOK
  PROVE  Lost = {t \in Tasks : server[t] = "leased" /\ ~Held(t)}
<1>1. \A t \in Tasks : Stage(t) = "lost" <=> server[t] = "leased" /\ ~Held(t)
  BY DEF WorkerTypeOK, Stage
<1> QED BY <1>1 DEF Lost

LEMMA LostTasksNext ==
  ASSUME WorkerTypeOK'
  PROVE  Lost' = {t \in Tasks : server'[t] = "leased" /\ ~Held(t)'}
<1>1. \A t \in Tasks : Stage(t)' = "lost" <=> server'[t] = "leased" /\ ~Held(t)'
  BY DEF WorkerTypeOK, Stage
<1> QED BY <1>1 DEF Lost

(***************************************************************************)
(* The finite sets the invariant counts.                                   *)
(***************************************************************************)
LEMMA Finite ==
  ASSUME WorkerTypeOK
  PROVE  /\ IsFiniteSet(handlers) /\ Cardinality(handlers) \in Nat
         /\ IsFiniteSet(Lost) /\ Cardinality(Lost) \in Nat
<1>1. IsFiniteSet(Tasks) /\ IsFiniteSet({"execute", "report"})
  <2>1. IsFiniteSet({"execute"} \union {"report"})
    BY FS_Singleton, FS_Union
  <2>2. {"execute", "report"} = {"execute"} \union {"report"}
    OBVIOUS
  <2> QED BY <2>1, <2>2, RustWorkerAssumption
<1>2. IsFiniteSet(Tasks \X {"execute", "report"})
  BY <1>1, FS_Product
<1>3. IsFiniteSet(handlers)
  BY <1>2, FS_Subset DEF WorkerTypeOK
<1>4. IsFiniteSet(Lost)
  BY <1>1, FS_Subset DEF Lost
<1> QED BY <1>3, <1>4, FS_CardinalityType

(***************************************************************************)
(* Where poller and main loop can be, and that the places differ.          *)
(***************************************************************************)
LEMMA Positions ==
  ASSUME WorkerTypeOK
  PROVE  /\ \/ poller = At("poll") \/ poller = At("sleep") \/ poller = At("dropped")
            \/ \E t \in Tasks : poller = With("send", t)
         /\ \/ main = At("select") \/ main = At("exited")
            \/ \E t \in Tasks : main = With("acquire", t)
         /\ poller.at = "send" => poller.task \in Tasks /\ poller = With("send", poller.task)
         /\ main.at = "acquire" => main.task \in Tasks /\ main = With("acquire", main.task)
BY DEF WorkerTypeOK, At, With

LEMMA PlacesDiffer ==
  ASSUME NEW t, NEW u
  PROVE  /\ At("poll") # With("send", t) /\ At("sleep") # With("send", t)
         /\ At("dropped") # With("send", t)
         /\ At("select") # With("acquire", t) /\ At("exited") # With("acquire", t)
         /\ At("select") # At("exited")
         /\ At("poll") # At("dropped") /\ At("sleep") # At("dropped")
         /\ With("send", t) = With("send", u) => t = u
         /\ With("acquire", t) = With("acquire", u) => t = u
         /\ With("send", t).at = "send" /\ With("acquire", t).at = "acquire"
<1>1. At("poll").at = "poll" /\ At("sleep").at = "sleep" /\ At("dropped").at = "dropped"
      /\ At("select").at = "select" /\ At("exited").at = "exited"
  BY DEF At
<1>2. /\ With("send", t).at = "send" /\ With("acquire", t).at = "acquire"
      /\ With("send", t).task = t /\ With("acquire", t).task = t
      /\ With("send", u).task = u /\ With("acquire", u).task = u
  BY DEF With
<1> QED BY <1>1, <1>2

(***************************************************************************)
(* The count of lost tasks after a step that loses none, or loses one with *)
(* a call that failed.                                                     *)
(***************************************************************************)
LEMMA NothingLost ==
  ASSUME WorkerTypeOK, LossesAccounted, WorkerTypeOK',
         main' # At("exited") => main # At("exited"), Lost' \subseteq Lost, faults' = faults
  PROVE  LossesAccounted'
<1>1. Cardinality(Lost') <= Cardinality(Lost)
  BY Finite, FS_Subset
<1>2. Cardinality(Lost') \in Nat /\ Cardinality(Lost) \in Nat /\ faults \in Nat
  <2>1. IsFiniteSet(Lost) /\ IsFiniteSet(Lost')
    BY Finite, FS_Subset
  <2> QED BY <2>1, FS_CardinalityType DEF WorkerTypeOK
<1> QED BY <1>1, <1>2 DEF LossesAccounted

LEMMA OneLost ==
  ASSUME WorkerTypeOK, LossesAccounted, WorkerTypeOK',
         main' # At("exited") => main # At("exited"),
         NEW t, Lost' \subseteq Lost \union {t}, faults' = faults + 1
  PROVE  LossesAccounted'
<1>1. /\ IsFiniteSet(Lost \union {t})
      /\ Cardinality(Lost \union {t}) <= Cardinality(Lost) + 1
      /\ Cardinality(Lost) \in Nat
  <2>1. IsFiniteSet(Lost) /\ Cardinality(Lost) \in Nat
    BY Finite
  <2>2. /\ IsFiniteSet(Lost \union {t})
        /\ Cardinality(Lost \union {t}) =
             IF t \in Lost THEN Cardinality(Lost) ELSE Cardinality(Lost) + 1
    BY <2>1, FS_AddElement
  <2> QED BY <2>1, <2>2
<1>2. Cardinality(Lost') <= Cardinality(Lost \union {t})
  BY <1>1, FS_Subset
<1>3. /\ Cardinality(Lost') \in Nat /\ Cardinality(Lost \union {t}) \in Nat
      /\ faults \in Nat
  <2>1. IsFiniteSet(Lost')
    BY <1>1, FS_Subset
  <2> QED BY <1>1, <2>1, FS_CardinalityType DEF WorkerTypeOK
<1> QED BY <1>1, <1>2, <1>3 DEF LossesAccounted

-----------------------------------------------------------------------------
(* The poller's steps.                                                     *)

LEMMA PollTaskStep ==
  ASSUME WorkerInvariant, NEW t \in Tasks, PollTask(t)
  PROVE  WorkerInvariant'
<1> USE DEF WorkerInvariant
<1>1. /\ poller = At("poll") /\ poller' = With("send", t)
      /\ server[t] = "ready" /\ server' = [server EXCEPT ![t] = "leased"]
      /\ connected' = TRUE /\ reconnect' = 0
      /\ UNCHANGED <<delay, channel, main, permits, handlers, signalled, faults>>
  BY DEF PollTask, Offered, Lease
<1>2. WorkerTypeOK'
  BY <1>1, RustWorkerAssumption DEF WorkerTypeOK
<1>3. BackoffOK'
  BY <1>1 DEF WorkerTypeOK, BackoffOK
<1>4. ExitedOK'
  BY <1>1, PlacesDiffer DEF ExitedOK
<1>5. ~Held(t)
  BY <1>1 DEF SingleCustody
<1>6. \A u \in Tasks : Held(u)' <=> Held(u) \/ u = t
  BY <1>1, PlacesDiffer DEF Held, InHandler
<1>7. SingleCustody'
  <2>1. \A u \in Tasks : Held(u)' => server'[u] = "leased"
    BY <1>1, <1>6 DEF SingleCustody, WorkerTypeOK
  <2>2. /\ t \notin Range(channel) /\ main # With("acquire", t) /\ ~InHandler(t)
    BY <1>5 DEF Held
  <2> QED BY <1>1, <2>1, <2>2, PlacesDiffer DEF SingleCustody, InHandler
<1>8. PermitsConserved'
  BY <1>1 DEF PermitsConserved
<1>9. Lost' \subseteq Lost
  <2>1. Lost' = {u \in Tasks : server'[u] = "leased" /\ ~Held(u)'}
    BY <1>2, LostTasksNext
  <2> QED BY <1>1, <1>6, <2>1, LostTasks DEF WorkerTypeOK
<1>10. LossesAccounted'
  BY <1>1, <1>2, <1>9, NothingLost
<1> QED BY <1>2, <1>3, <1>4, <1>7, <1>8, <1>10

LEMMA PollErrorStep ==
  ASSUME WorkerInvariant, PollError
  PROVE  WorkerInvariant'
<1> USE DEF WorkerInvariant
<1>1. /\ poller = At("poll") /\ poller' = At("sleep")
      /\ connected' = FALSE
      /\ faults < MaxFaults /\ faults' = faults + 1
      /\ reconnect' = (IF connected THEN 0 ELSE reconnect) + 1
      /\ delay' \in Compute(reconnect')
      /\ UNCHANGED <<channel, main, permits, handlers, signalled>>
  BY DEF PollError, Fault
<1>2. PICK t : \/ UNCHANGED server
               \/ t \in Tasks /\ server[t] = "ready" /\ server' = [server EXCEPT ![t] = "leased"]
  BY DEF PollError, Offered, Lease
<1>3. /\ reconnect' \in Nat /\ reconnect' <= faults' /\ faults' \in 0..MaxFaults
      /\ reconnect' \in 0..MaxFaults
  BY <1>1, RustWorkerAssumption DEF WorkerTypeOK, BackoffOK
<1>4. delay' \in 0..BackoffMax
  BY <1>1, <1>3, ComputeBounds, RustWorkerAssumption
<1>5. server' \in [Tasks -> {"ready", "leased", "reported"}]
  BY <1>2 DEF WorkerTypeOK
<1>6. WorkerTypeOK'
  BY <1>1, <1>3, <1>4, <1>5 DEF WorkerTypeOK
<1>7. BackoffOK' /\ ExitedOK'
  BY <1>1, <1>3, PlacesDiffer DEF BackoffOK, ExitedOK
<1>8. \A u \in Tasks : Held(u)' <=> Held(u)
  BY <1>1, PlacesDiffer DEF Held, InHandler
<1>9. SingleCustody'
  <2>1. \A u \in Tasks : Held(u)' => server'[u] = "leased"
    BY <1>2, <1>8 DEF SingleCustody, WorkerTypeOK
  <2> QED BY <1>1, <2>1, PlacesDiffer DEF SingleCustody, InHandler
<1>10. PermitsConserved'
  BY <1>1 DEF PermitsConserved
<1>11. Lost' \subseteq Lost \union {t}
  <2>1. Lost' = {u \in Tasks : server'[u] = "leased" /\ ~Held(u)'}
    BY <1>6, LostTasksNext
  <2> QED BY <1>2, <1>8, <2>1, LostTasks DEF WorkerTypeOK
<1>12. LossesAccounted'
  BY <1>1, <1>6, <1>11, OneLost
<1> QED BY <1>6, <1>7, <1>9, <1>10, <1>12

LEMMA SendStep ==
  ASSUME WorkerInvariant, Send
  PROVE  /\ WorkerInvariant'
         /\ \A u \in Tasks : Held(u)' <=> Held(u)
<1> USE DEF WorkerInvariant
<1> DEFINE t == poller.task
<1>1. /\ t \in Tasks /\ poller = With("send", t) /\ poller' = At("poll")
      /\ Len(channel) < ChannelCapacity /\ channel' = Append(channel, t)
      /\ UNCHANGED <<server, connected, reconnect, delay, main, permits, handlers,
                     signalled, faults>>
  BY Positions DEF Send
<1>2. t \notin Range(channel) /\ main # With("acquire", t) /\ ~InHandler(t)
  BY <1>1 DEF SingleCustody
<1>3. Range(channel') = Range(channel) \union {t} /\ IsInjective(channel')
  BY <1>1, <1>2, AppendRange DEF SingleCustody, WorkerTypeOK
<1> HIDE DEF t
<1>4. WorkerTypeOK'
  <2>1. channel' \in Seq(Tasks) /\ Len(channel') <= ChannelCapacity
    BY <1>1, AppendProperties, LenProperties, RustWorkerAssumption DEF WorkerTypeOK
  <2> QED BY <1>1, <2>1 DEF WorkerTypeOK
<1>5. BackoffOK'
  BY <1>1 DEF BackoffOK
<1>6. ExitedOK'
  BY <1>1, PlacesDiffer DEF ExitedOK
<1>7. \A u \in Tasks : Held(u)' <=> Held(u)
  BY <1>1, <1>3, PlacesDiffer DEF Held, InHandler
<1>8. SingleCustody'
  <2>1. \A u \in Tasks : Held(u)' => server'[u] = "leased"
    BY <1>1, <1>7 DEF SingleCustody
  <2> QED BY <1>1, <1>2, <1>3, <2>1, PlacesDiffer DEF SingleCustody, InHandler
<1>9. PermitsConserved'
  BY <1>1 DEF PermitsConserved
<1>10. Lost' \subseteq Lost
  <2>1. Lost' = {u \in Tasks : server'[u] = "leased" /\ ~Held(u)'}
    BY <1>4, LostTasksNext
  <2> QED BY <1>1, <1>7, <2>1, LostTasks
<1>11. LossesAccounted'
  BY <1>1, <1>4, <1>10, NothingLost
<1> QED BY <1>4, <1>5, <1>6, <1>7, <1>8, <1>9, <1>11

LEMMA IdlePollerStep ==
  ASSUME WorkerInvariant, PollNothing \/ Wake \/ Signal \/ UNCHANGED vars
  PROVE  /\ WorkerInvariant'
         /\ UNCHANGED <<server, channel, main, handlers>>
         /\ \A u \in Tasks : Held(u)' <=> Held(u)
<1> USE DEF WorkerInvariant
<1>1. /\ UNCHANGED <<server, delay, channel, main, permits, handlers, faults>>
      /\ UNCHANGED poller \/ (poller = At("sleep") /\ poller' = At("poll"))
      /\ UNCHANGED <<connected, reconnect>> \/ (connected' = TRUE /\ reconnect' = 0)
      /\ signalled' \in BOOLEAN
  <2>1. signalled \in BOOLEAN
    BY DEF WorkerTypeOK
  <2>2. CASE PollNothing
    BY <2>1, <2>2 DEF PollNothing
  <2>3. CASE Wake
    BY <2>1, <2>3 DEF Wake
  <2>4. CASE Signal
    BY <2>4 DEF Signal, pollerVars
  <2>5. CASE UNCHANGED vars
    BY <2>1, <2>5 DEF vars, pollerVars
  <2> QED BY <2>2, <2>3, <2>4, <2>5
<1>2. WorkerTypeOK'
  <2>1. connected' \in BOOLEAN
    BY <1>1 DEF WorkerTypeOK
  <2>2. reconnect' \in 0..MaxFaults
    BY <1>1, RustWorkerAssumption DEF WorkerTypeOK
  <2> QED BY <1>1, <2>1, <2>2 DEF WorkerTypeOK
<1>3. BackoffOK'
  BY <1>1 DEF BackoffOK, WorkerTypeOK
<1>4. ExitedOK'
  BY <1>1, PlacesDiffer DEF ExitedOK
<1>5. \A u \in Tasks : Held(u)' <=> Held(u)
  BY <1>1, PlacesDiffer DEF Held, InHandler
<1>6. SingleCustody'
  <2>1. \A u \in Tasks : Held(u)' => server'[u] = "leased"
    BY <1>1, <1>5 DEF SingleCustody
  <2> QED BY <1>1, <2>1, PlacesDiffer DEF SingleCustody, InHandler
<1>7. PermitsConserved'
  BY <1>1 DEF PermitsConserved
<1>8. Lost' \subseteq Lost
  <2>1. Lost' = {u \in Tasks : server'[u] = "leased" /\ ~Held(u)'}
    BY <1>2, LostTasksNext
  <2> QED BY <1>1, <1>5, <2>1, LostTasks
<1>9. LossesAccounted'
  BY <1>1, <1>2, <1>8, NothingLost
<1> QED BY <1>1, <1>2, <1>3, <1>4, <1>5, <1>6, <1>7, <1>9

-----------------------------------------------------------------------------
(* The main loop's steps.                                                  *)

LEMMA ReceiveStep ==
  ASSUME WorkerInvariant, Receive
  PROVE  /\ WorkerInvariant'
         /\ \A u \in Tasks : Held(u)' <=> Held(u)
<1> USE DEF WorkerInvariant
<1> DEFINE t == Head(channel)
<1>1. /\ main = At("select") /\ main' = With("acquire", t)
      /\ channel # <<>> /\ channel' = Tail(channel)
      /\ UNCHANGED <<server, poller, connected, reconnect, delay, permits, handlers,
                     signalled, faults>>
  BY DEF Receive, pollerVars
<1>2. /\ t \in Tasks /\ channel' \in Seq(Tasks) /\ Len(channel') < Len(channel)
      /\ Range(channel) = Range(channel') \union {t}
      /\ t \notin Range(channel') /\ IsInjective(channel')
  BY <1>1, TailRange DEF SingleCustody, WorkerTypeOK
<1> HIDE DEF t
<1>3. poller # With("send", t) /\ ~InHandler(t)
  BY <1>2 DEF SingleCustody
<1>4. WorkerTypeOK'
  <2>1. Len(channel) \in Nat /\ Len(channel') \in Nat
    BY <1>2, LenProperties DEF WorkerTypeOK
  <2>2. Len(channel') <= ChannelCapacity
    BY <1>2, <2>1, RustWorkerAssumption DEF WorkerTypeOK
  <2> QED BY <1>1, <1>2, <2>2 DEF WorkerTypeOK
<1>5. BackoffOK'
  BY <1>1 DEF BackoffOK
<1>6. ExitedOK'
  BY <1>1, PlacesDiffer DEF ExitedOK
<1>7. \A u \in Tasks : Held(u)' <=> Held(u)
  BY <1>1, <1>2, PlacesDiffer DEF Held, InHandler
<1>8. SingleCustody'
  <2>1. \A u \in Tasks : Held(u)' => server'[u] = "leased"
    BY <1>1, <1>7 DEF SingleCustody
  <2> QED BY <1>1, <1>2, <1>3, <2>1, PlacesDiffer DEF SingleCustody, InHandler
<1>9. PermitsConserved'
  BY <1>1, PlacesDiffer DEF PermitsConserved
<1>10. Lost' \subseteq Lost
  <2>1. Lost' = {u \in Tasks : server'[u] = "leased" /\ ~Held(u)'}
    BY <1>4, LostTasksNext
  <2> QED BY <1>1, <1>7, <2>1, LostTasks
<1>11. LossesAccounted'
  BY <1>1, <1>4, <1>10, PlacesDiffer, NothingLost
<1> QED BY <1>4, <1>5, <1>6, <1>7, <1>8, <1>9, <1>11

LEMMA ExecuteStep ==
  ASSUME WorkerInvariant, Execute
  PROVE  /\ WorkerInvariant'
         /\ \A u \in Tasks : Held(u)' <=> Held(u)
<1> USE DEF WorkerInvariant
<1> DEFINE t == main.task
<1>1. /\ t \in Tasks /\ main = With("acquire", t) /\ main' = At("select")
      /\ permits > 0 /\ permits' = permits - 1
      /\ handlers' = handlers \union {<<t, "execute">>}
      /\ UNCHANGED <<server, poller, connected, reconnect, delay, channel, signalled, faults>>
  BY Positions DEF Execute, pollerVars
<1> HIDE DEF t
<1>2. poller # With("send", t) /\ t \notin Range(channel) /\ ~InHandler(t)
  BY <1>1 DEF SingleCustody
<1>3. WorkerTypeOK'
  <2>1. permits' \in 0..MaxConcurrent
    BY <1>1, RustWorkerAssumption DEF WorkerTypeOK
  <2> QED BY <1>1, <2>1 DEF WorkerTypeOK
<1>4. BackoffOK'
  BY <1>1 DEF BackoffOK
<1>5. ExitedOK'
  BY <1>1, PlacesDiffer DEF ExitedOK
<1>6. \A u \in Tasks : InHandler(u)' <=> InHandler(u) \/ u = t
  BY <1>1 DEF InHandler
<1>7. \A u \in Tasks : Held(u)' <=> Held(u)
  BY <1>1, <1>6, PlacesDiffer DEF Held
<1>8. SingleCustody'
  <2>1. \A u \in Tasks : Held(u)' => server'[u] = "leased"
    BY <1>1, <1>7 DEF SingleCustody
  <2>2. \A u \in Tasks : ~(<<u, "execute">> \in handlers' /\ <<u, "report">> \in handlers')
    BY <1>1, <1>2 DEF SingleCustody, InHandler
  <2> QED BY <1>1, <1>2, <1>6, <2>1, <2>2, PlacesDiffer DEF SingleCustody
<1>9. PermitsConserved'
  <2>1. <<t, "execute">> \notin handlers
    BY <1>2 DEF InHandler
  <2>2. IsFiniteSet(handlers) /\ Cardinality(handlers) \in Nat
    BY Finite
  <2>3. Cardinality(handlers') = Cardinality(handlers) + 1
    BY <1>1, <2>1, <2>2, FS_AddElement
  <2>4. permits + Cardinality(handlers) = MaxConcurrent
    BY <1>1, PlacesDiffer DEF PermitsConserved
  <2> QED BY <1>1, <2>2, <2>3, <2>4 DEF PermitsConserved, WorkerTypeOK
<1>10. Lost' \subseteq Lost
  <2>1. Lost' = {u \in Tasks : server'[u] = "leased" /\ ~Held(u)'}
    BY <1>3, LostTasksNext
  <2> QED BY <1>1, <1>7, <2>1, LostTasks
<1>11. LossesAccounted'
  BY <1>1, <1>3, <1>10, PlacesDiffer, NothingLost
<1> QED BY <1>3, <1>4, <1>5, <1>7, <1>8, <1>9, <1>11

LEMMA ExitStep ==
  ASSUME WorkerInvariant, Exit
  PROVE  /\ WorkerInvariant'
         /\ \A u \in Tasks : ~Held(u)'
<1> USE DEF WorkerInvariant
<1>1. /\ main' = At("exited") /\ poller' = At("dropped")
      /\ channel' = <<>> /\ handlers' = {}
      /\ UNCHANGED <<server, connected, reconnect, delay, permits, signalled, faults>>
  BY DEF Exit
<1>2. Range(channel') = {}
  BY <1>1 DEF Range
<1>3. \A u \in Tasks : ~Held(u)'
  BY <1>1, <1>2, PlacesDiffer DEF Held, InHandler
<1>4. WorkerTypeOK'
  <2>1. channel' \in Seq(Tasks) /\ Len(channel') <= ChannelCapacity
    BY <1>1, EmptySeq, RustWorkerAssumption
  <2> QED BY <1>1, <2>1 DEF WorkerTypeOK
<1>5. BackoffOK' /\ ExitedOK'
  BY <1>1 DEF BackoffOK, ExitedOK
<1>6. SingleCustody'
  <2>1. IsInjective(channel')
    BY <1>1 DEF IsInjective
  <2> QED BY <1>1, <1>2, <1>3, <2>1, PlacesDiffer DEF SingleCustody, InHandler
<1>7. PermitsConserved' /\ LossesAccounted'
  BY <1>1 DEF PermitsConserved, LossesAccounted
<1> QED BY <1>3, <1>4, <1>5, <1>6, <1>7

-----------------------------------------------------------------------------
(* The steps of a spawned task.                                            *)

LEMMA RunHandlerStep ==
  ASSUME WorkerInvariant, NEW t \in Tasks, RunHandler(t)
  PROVE  /\ WorkerInvariant'
         /\ \A u \in Tasks : Held(u)' <=> Held(u)
<1> USE DEF WorkerInvariant
<1>1. /\ <<t, "execute">> \in handlers
      /\ handlers' = (handlers \ {<<t, "execute">>}) \union {<<t, "report">>}
      /\ UNCHANGED <<server, poller, connected, reconnect, delay, channel, main, permits,
                     signalled, faults>>
  BY DEF RunHandler, pollerVars
<1>2. <<t, "report">> \notin handlers
  BY <1>1 DEF SingleCustody
<1>3. WorkerTypeOK'
  BY <1>1 DEF WorkerTypeOK
<1>4. BackoffOK'
  BY <1>1 DEF BackoffOK
<1>5. ExitedOK'
  BY <1>1 DEF ExitedOK
<1>6. \A u \in Tasks : InHandler(u)' <=> InHandler(u)
  BY <1>1 DEF InHandler
<1>7. \A u \in Tasks : Held(u)' <=> Held(u)
  BY <1>1, <1>6 DEF Held
<1>8. SingleCustody'
  <2>1. \A u \in Tasks : Held(u)' => server'[u] = "leased"
    BY <1>1, <1>7 DEF SingleCustody
  <2>2. \A u \in Tasks : ~(<<u, "execute">> \in handlers' /\ <<u, "report">> \in handlers')
    BY <1>1 DEF SingleCustody
  <2> QED BY <1>1, <1>6, <2>1, <2>2 DEF SingleCustody
<1>9. PermitsConserved'
  <2>1. IsFiniteSet(handlers) /\ Cardinality(handlers) \in Nat
    BY Finite
  <2>2. /\ IsFiniteSet(handlers \ {<<t, "execute">>})
        /\ Cardinality(handlers \ {<<t, "execute">>}) = Cardinality(handlers) - 1
    BY <1>1, <2>1, FS_RemoveElement
  <2>3. <<t, "report">> \notin handlers \ {<<t, "execute">>}
    BY <1>2
  <2>4. Cardinality(handlers') = (Cardinality(handlers) - 1) + 1
    BY <1>1, <2>2, <2>3, FS_AddElement
  <2> QED BY <1>1, <2>1, <2>4 DEF PermitsConserved
<1>10. Lost' \subseteq Lost
  <2>1. Lost' = {u \in Tasks : server'[u] = "leased" /\ ~Held(u)'}
    BY <1>3, LostTasksNext
  <2> QED BY <1>1, <1>7, <2>1, LostTasks
<1>11. LossesAccounted'
  BY <1>1, <1>3, <1>10, NothingLost
<1> QED BY <1>3, <1>4, <1>5, <1>7, <1>8, <1>9, <1>11

LEMMA SendReportStep ==
  ASSUME WorkerInvariant, NEW t \in Tasks, NEW place \in {"execute", "report"},
         SendReport(t, place)
  PROVE  /\ WorkerInvariant'
         /\ Held(t) /\ ~Held(t)'
         /\ \A u \in Tasks \ {t} : Held(u)' <=> Held(u)
<1> USE DEF WorkerInvariant
<1>1. /\ <<t, place>> \in handlers
      /\ handlers' = handlers \ {<<t, place>>}
      /\ permits' = permits + 1
      /\ UNCHANGED <<poller, connected, reconnect, delay, channel, main, signalled>>
  BY DEF SendReport, pollerVars
<1>2. \/ server' = [server EXCEPT ![t] = "reported"] /\ faults' = faults
      \/ server' = server /\ faults < MaxFaults /\ faults' = faults + 1
  BY DEF SendReport, Fault
<1>3. InHandler(t)
  BY <1>1 DEF InHandler
<1>4. /\ Held(t) /\ poller # With("send", t) /\ t \notin Range(channel)
      /\ main # With("acquire", t)
  BY <1>3 DEF SingleCustody, Held
<1>5. ~InHandler(t)' /\ \A u \in Tasks \ {t} : InHandler(u)' <=> InHandler(u)
  BY <1>1 DEF InHandler, SingleCustody
<1>6. ~Held(t)' /\ \A u \in Tasks \ {t} : Held(u)' <=> Held(u)
  BY <1>1, <1>4, <1>5 DEF Held
<1>7. main # At("exited")
  BY <1>1 DEF ExitedOK
<1>8. /\ IsFiniteSet(handlers) /\ Cardinality(handlers) \in Nat
      /\ Cardinality(handlers') \in Nat
      /\ Cardinality(handlers') = Cardinality(handlers) - 1
  <2>1. IsFiniteSet(handlers) /\ Cardinality(handlers) \in Nat
    BY Finite
  <2>2. IsFiniteSet(handlers') /\ Cardinality(handlers') = Cardinality(handlers) - 1
    BY <1>1, <2>1, FS_RemoveElement
  <2> QED BY <2>1, <2>2, FS_CardinalityType
<1>9. PermitsConserved'
  BY <1>1, <1>7, <1>8 DEF PermitsConserved, WorkerTypeOK
<1>10. WorkerTypeOK'
  <2>1. permits' \in 0..MaxConcurrent
    BY <1>1, <1>7, <1>8, RustWorkerAssumption DEF PermitsConserved, WorkerTypeOK
  <2>2. faults' \in 0..MaxFaults
    BY <1>2, RustWorkerAssumption DEF WorkerTypeOK
  <2>3. server' \in [Tasks -> {"ready", "leased", "reported"}]
    BY <1>2 DEF WorkerTypeOK
  <2> QED BY <1>1, <2>1, <2>2, <2>3 DEF WorkerTypeOK
<1>11. BackoffOK'
  BY <1>1, <1>2 DEF BackoffOK, WorkerTypeOK
<1>12. ExitedOK'
  BY <1>1, <1>7 DEF ExitedOK
<1>13. SingleCustody'
  <2>1. \A u \in Tasks : Held(u)' => server'[u] = "leased"
    BY <1>2, <1>6 DEF SingleCustody, WorkerTypeOK
  <2>2. \A u \in Tasks : ~(<<u, "execute">> \in handlers' /\ <<u, "report">> \in handlers')
    BY <1>1 DEF SingleCustody
  <2> QED BY <1>1, <1>5, <2>1, <2>2 DEF SingleCustody
<1>14. LossesAccounted'
  <2>1. Lost' = {u \in Tasks : server'[u] = "leased" /\ ~Held(u)'}
    BY <1>10, LostTasksNext
  <2>2. CASE server' = [server EXCEPT ![t] = "reported"] /\ faults' = faults
    <3>1. Lost' \subseteq Lost
      BY <1>6, <2>1, <2>2, LostTasks DEF WorkerTypeOK
    <3> QED BY <1>7, <1>10, <2>2, <3>1, NothingLost
  <2>3. CASE server' = server /\ faults' = faults + 1
    <3>1. Lost' \subseteq Lost \union {t}
      BY <1>6, <2>1, <2>3, LostTasks
    <3> QED BY <1>7, <1>10, <2>3, <3>1, OneLost
  <2> QED BY <1>2, <2>2, <2>3
<1> QED BY <1>4, <1>6, <1>9, <1>10, <1>11, <1>12, <1>13, <1>14

-----------------------------------------------------------------------------

LEMMA NextWorker == WorkerInvariant /\ [Next]_vars => WorkerInvariant'
<1> SUFFICES ASSUME WorkerInvariant, [Next]_vars
             PROVE  WorkerInvariant'
  OBVIOUS
<1>1. ASSUME NEW t \in Tasks, PollTask(t) PROVE WorkerInvariant'
  BY <1>1, PollTaskStep
<1>2. CASE PollError
  BY <1>2, PollErrorStep
<1>3. CASE Send
  BY <1>3, SendStep
<1>4. CASE PollNothing \/ Wake \/ Signal \/ UNCHANGED vars
  BY <1>4, IdlePollerStep
<1>5. CASE Receive
  BY <1>5, ReceiveStep
<1>6. CASE Execute
  BY <1>6, ExecuteStep
<1>7. CASE Exit
  BY <1>7, ExitStep
<1>8. ASSUME NEW t \in Tasks, Spawned(t) PROVE WorkerInvariant'
  BY <1>8, RunHandlerStep, SendReportStep DEF Spawned, ReportOutcome, ReportNoHandler
<1> QED
  BY <1>1, <1>2, <1>3, <1>4, <1>5, <1>6, <1>7, <1>8 DEF Next, Poller, MainLoop

LEMMA WorkerInvariantHolds == Spec => []WorkerInvariant
BY InitWorker, NextWorker, PTL DEF Spec

(***************************************************************************)
(* Positions, queues, permits and counters keep their types; the channel   *)
(* never holds more than its capacity and no permit is ever released that  *)
(* was not taken (crates/worker/src/executor.rs).                          *)
(***************************************************************************)
THEOREM WorkerTyped == Spec => []WorkerTypeOK
<1>1. WorkerInvariant => WorkerTypeOK
  BY DEF WorkerInvariant
<1> QED BY <1>1, WorkerInvariantHolds, PTL

(***************************************************************************)
(* No permit leaks: while the process is up, free permits and spawned      *)
(* tasks add up to max_concurrent, whichever way each task ends.           *)
(***************************************************************************)
THEOREM NoPermitLeaks == Spec => []PermitsConserved
<1>1. WorkerInvariant => PermitsConserved
  BY DEF WorkerInvariant
<1> QED BY <1>1, WorkerInvariantHolds, PTL

(***************************************************************************)
(* A task is in one place of the process at a time, and leased.            *)
(***************************************************************************)
THEOREM CustodyKept == Spec => []SingleCustody
<1>1. WorkerInvariant => SingleCustody
  BY DEF WorkerInvariant
<1> QED BY <1>1, WorkerInvariantHolds, PTL

(***************************************************************************)
(* While the process is up, each task that is lost was lost with a call of *)
(* its own that failed.                                                    *)
(***************************************************************************)
THEOREM LossesCounted == Spec => []LossesAccounted
<1>1. WorkerInvariant => LossesAccounted
  BY DEF WorkerInvariant
<1> QED BY <1>1, WorkerInvariantHolds, PTL

-----------------------------------------------------------------------------
(* Backoff.                                                                *)

(***************************************************************************)
(* Only a poll that fails puts the poller to sleep.                        *)
(***************************************************************************)
LEMMA SleepAfterError ==
  ASSUME WorkerInvariant, [Next]_vars, poller'.at = "sleep", poller.at # "sleep"
  PROVE  PollError
<1>1. ASSUME NEW t \in Tasks, PollTask(t) PROVE FALSE
  BY <1>1 DEF PollTask, With
<1>2. CASE PollNothing \/ Signal
  BY <1>2 DEF PollNothing, Signal, pollerVars
<1>3. CASE Wake \/ Send \/ Exit
  BY <1>3 DEF Wake, Send, Exit, At
<1>4. CASE Receive \/ Execute
  BY <1>4 DEF Receive, Execute, pollerVars
<1>5. ASSUME NEW t \in Tasks, Spawned(t) PROVE FALSE
  BY <1>5 DEF Spawned, RunHandler, ReportOutcome, ReportNoHandler, SendReport, pollerVars
<1>6. CASE UNCHANGED vars
  BY <1>6 DEF vars, pollerVars
<1> QED
  BY <1>1, <1>2, <1>3, <1>4, <1>5, <1>6 DEF Next, Poller, MainLoop

(***************************************************************************)
(* Within an outage every sleep is longer than the one before until the    *)
(* maximum is reached, but for the jitter (BackoffConfig::compute). The    *)
(* hypothesis is what the cap on the exponent needs: sixteen doublings     *)
(* reach the maximum, as they do from the 100 ms of default_config.        *)
(***************************************************************************)
THEOREM BackoffGrows ==
  ASSUME BackoffMax <= 65536 * BackoffInitial
  PROVE  Spec => OutageBacksOff
<1> DEFINE Grows == poller'.at = "sleep" /\ poller.at # "sleep" /\ reconnect > 0 =>
                      delay' > delay \/ 10 * delay' >= 7 * BackoffMax
<1>1. ASSUME WorkerInvariant, [Next]_vars PROVE Grows
  <2> SUFFICES ASSUME poller'.at = "sleep", poller.at # "sleep", reconnect > 0
               PROVE  delay' > delay \/ 10 * delay' >= 7 * BackoffMax
    OBVIOUS
  <2> DEFINE n == Smaller(reconnect, 16)
             m == Smaller(reconnect + 1, 16)
  <2>1. /\ reconnect \in Nat /\ reconnect + 1 \in Nat
        /\ delay \in Compute(reconnect) /\ delay' \in Compute(reconnect + 1)
    <3>1. PollError
      BY <1>1, SleepAfterError
    <3>2. reconnect \in Nat /\ ~connected /\ delay \in Compute(reconnect)
      BY <1>1 DEF WorkerInvariant, BackoffOK, WorkerTypeOK
    <3>3. reconnect' = reconnect + 1
      BY <3>1, <3>2 DEF PollError
    <3>4. delay' \in Compute(reconnect')
      BY <3>1 DEF PollError
    <3> QED BY <3>2, <3>3, <3>4
  <2>2. /\ delay \in Nat /\ delay <= Doubled[n]
    BY <2>1, ComputeBounds
  <2>3. /\ delay' \in Nat /\ 10 * delay' >= 7 * Doubled[m]
    BY <2>1, ComputeBounds
  <2>4. n \in 0..16 /\ m \in 0..16 /\ (n < m => n = m - 1) /\ m > 0 /\ (n = m => m = 16)
    BY <2>1 DEF Smaller
  <2>5. BackoffInitial \in Nat \ {0} /\ BackoffMax \in Nat
    BY RustWorkerAssumption
  <2>6. Doubled[16] = BackoffMax
    BY <2>5, DoubledIsDelays DEF Delays, Power, Smaller
  <2>7. /\ Doubled[n] \in Nat /\ BackoffInitial <= Doubled[n]
        /\ Doubled[m] = BackoffMax \/ Doubled[m] = 2 * Doubled[m - 1]
    BY <2>4, DoubledBounds
  <2> HIDE DEF n, m
  <2>8. CASE Doubled[m] = BackoffMax
    BY <2>3, <2>8
  <2>9. CASE Doubled[m] = 2 * Doubled[n]
    <3>1. ASSUME NEW x \in Nat, NEW d \in Nat, NEW e \in Nat,
                 x > 0, d <= x, 10 * e >= 7 * (2 * x)
          PROVE  e > d
      BY <3>1
    <3>2. Doubled[n] > 0
      BY <2>5, <2>7
    <3> QED BY <2>2, <2>3, <2>7, <2>9, <3>1, <3>2
  <2>10. n < m \/ n = m
    BY <2>1 DEF n, m, Smaller
  <2> QED BY <2>4, <2>6, <2>7, <2>8, <2>9, <2>10
<1>2. WorkerInvariant /\ [Next]_vars => [Grows]_vars
  BY <1>1
<1> QED BY <1>2, WorkerInvariantHolds, PTL DEF Spec, OutageBacksOff

-----------------------------------------------------------------------------
(* The contract.                                                           *)

LEMMA StageValue ==
  ASSUME WorkerTypeOK, NEW t \in Tasks
  PROVE  Stage(t) = IF server[t] = "leased" THEN IF Held(t) THEN "taken" ELSE "lost"
                    ELSE server[t]
BY DEF WorkerTypeOK, Stage

LEMMA StageValueNext ==
  ASSUME WorkerTypeOK', NEW t \in Tasks
  PROVE  Stage(t)' = IF server'[t] = "leased" THEN IF Held(t)' THEN "taken" ELSE "lost"
                     ELSE server'[t]
BY DEF WorkerTypeOK, Stage

(***************************************************************************)
(* Before the poller asks for another task there is room for it: what the  *)
(* process holds is in the channel, with the main loop or in spawned tasks *)
(* that have a permit each.                                                *)
(***************************************************************************)
LEMMA RoomToTake ==
  ASSUME WorkerInvariant, poller = At("poll")
  PROVE  Cardinality(Contract!Taken) < MaxConcurrent + ChannelCapacity + 2
<1> USE DEF WorkerInvariant
<1> DEFINE inChannel == Range(channel)
           waiting == {t \in Tasks : main = With("acquire", t)}
           spawned == {t \in Tasks : InHandler(t)}
<1>1. IsFiniteSet(inChannel) /\ Cardinality(inChannel) <= ChannelCapacity
  <2>1. /\ channel \in [1..Len(channel) -> Tasks] /\ Len(channel) \in Nat
        /\ DOMAIN channel = 1..Len(channel)
    BY LenProperties DEF WorkerTypeOK
  <2>2. channel \in Surjection(1..Len(channel), inChannel)
    BY <2>1 DEF Surjection, Range
  <2>3. IsFiniteSet(1..Len(channel)) /\ Cardinality(1..Len(channel)) = Len(channel)
    <3>1. /\ IsFiniteSet(1..Len(channel))
          /\ Cardinality(1..Len(channel)) =
               IF 1 > Len(channel) THEN 0 ELSE Len(channel) - 1 + 1
      BY <2>1, FS_Interval
    <3> QED BY <2>1, <3>1
  <2>4. IsFiniteSet(inChannel) /\ Cardinality(inChannel) <= Len(channel)
    BY <2>2, <2>3, FS_Surjection
  <2>5. Cardinality(inChannel) \in Nat
    BY <2>4, FS_CardinalityType
  <2> QED BY <2>1, <2>4, <2>5, RustWorkerAssumption DEF WorkerTypeOK
<1>2. IsFiniteSet(waiting) /\ Cardinality(waiting) <= 1
  <2>1. waiting = {} \/ \E t : waiting = {t}
    BY Positions, PlacesDiffer
  <2>2. CASE waiting = {}
    <3>1. IsFiniteSet({}) /\ Cardinality({}) = 0
      BY FS_EmptySet
    <3> QED BY <2>2, <3>1
  <2>3. CASE \E t : waiting = {t}
    <3>1. PICK t : waiting = {t}
      BY <2>3
    <3>2. IsFiniteSet({t}) /\ Cardinality({t}) = 1
      BY FS_Singleton
    <3> HIDE DEF waiting
    <3> QED BY <3>1, <3>2
  <2> QED BY <2>1, <2>2, <2>3
<1>3. IsFiniteSet(spawned) /\ Cardinality(spawned) <= MaxConcurrent
  <2>1. IsFiniteSet(handlers) /\ Cardinality(handlers) \in Nat
    BY Finite
  <2>2. Cardinality(handlers) <= MaxConcurrent
    <3>1. CASE main = At("exited")
      <4>1. handlers = {} /\ Cardinality({}) = 0
        BY <3>1, FS_EmptySet DEF ExitedOK
      <4> QED BY <4>1, RustWorkerAssumption
    <3>2. CASE main # At("exited")
      BY <2>1, <3>2, RustWorkerAssumption DEF PermitsConserved, WorkerTypeOK
    <3> QED BY <3>1, <3>2
  <2>3. [h \in handlers |-> h[1]] \in Surjection(handlers, spawned)
    <3> DEFINE f == [h \in handlers |-> h[1]]
    <3>1. handlers \subseteq Tasks \X {"execute", "report"}
      BY DEF WorkerTypeOK
    <3>2. \A h \in handlers : h[1] \in spawned
      BY <3>1 DEF InHandler
    <3>3. ASSUME NEW t \in spawned PROVE \E h \in handlers : f[h] = t
      <4>1. PICK place \in {"execute", "report"} : <<t, place>> \in handlers
        BY <3>3 DEF InHandler
      <4>2. f[<<t, place>>] = t
        BY <4>1
      <4> QED BY <4>1, <4>2
    <3> HIDE DEF spawned
    <3>4. f \in [handlers -> spawned]
      BY <3>2
    <3> QED BY <3>3, <3>4 DEF Surjection
  <2>4. IsFiniteSet(spawned) /\ Cardinality(spawned) <= Cardinality(handlers)
    BY <2>1, <2>3, FS_Surjection
  <2>5. Cardinality(spawned) \in Nat
    BY <2>4, FS_CardinalityType
  <2> QED BY <2>1, <2>2, <2>4, <2>5, RustWorkerAssumption
<1>4. Contract!Taken \subseteq (inChannel \union waiting) \union spawned
  BY StageValue, PlacesDiffer DEF Contract!Taken, Held, WorkerTypeOK
<1> HIDE DEF inChannel, waiting, spawned
<1>5. /\ IsFiniteSet((inChannel \union waiting) \union spawned)
      /\ Cardinality((inChannel \union waiting) \union spawned)
           <= ChannelCapacity + 1 + MaxConcurrent
  <2>1. ChannelCapacity \in Nat /\ MaxConcurrent \in Nat /\ 1 \in Nat
    BY RustWorkerAssumption
  <2>2. /\ IsFiniteSet(inChannel \union waiting)
        /\ Cardinality(inChannel \union waiting) <= ChannelCapacity + 1
    BY <1>1, <1>2, <2>1, UnionBound
  <2> QED BY <1>3, <2>1, <2>2, UnionBound
<1>6. /\ Cardinality(Contract!Taken) <= ChannelCapacity + 1 + MaxConcurrent
      /\ Cardinality(Contract!Taken) \in Nat
  <2>1. /\ IsFiniteSet(Contract!Taken)
        /\ Cardinality(Contract!Taken) <= Cardinality((inChannel \union waiting) \union spawned)
    BY <1>4, <1>5, FS_Subset
  <2>2. /\ Cardinality(Contract!Taken) \in Nat
        /\ Cardinality((inChannel \union waiting) \union spawned) \in Nat
    BY <1>5, <2>1, FS_CardinalityType
  <2> QED BY <1>5, <2>1, <2>2, RustWorkerAssumption
<1> QED BY <1>6, RustWorkerAssumption

(***************************************************************************)
(* A step inside the process, seen from the server: nothing.               *)
(***************************************************************************)
LEMMA QuietStep ==
  ASSUME WorkerTypeOK, WorkerTypeOK', server' = server,
         \A t \in Tasks : Held(t)' <=> Held(t),
         main' = At("exited") <=> main = At("exited")
  PROVE  UNCHANGED Contract!contractVars
<1>1. \A t \in Tasks : Stage(t)' = Stage(t)
  BY StageValue, StageValueNext
<1>2. (main # At("exited"))' = (main # At("exited"))
  OBVIOUS
<1> QED BY <1>1, <1>2 DEF Contract!contractVars

(***************************************************************************)
(* A step that concerns one task t and leaves the process up.              *)
(***************************************************************************)
LEMMA TaskStep ==
  ASSUME WorkerTypeOK, WorkerTypeOK', NEW t \in Tasks, NEW place,
         \A u \in Tasks \ {t} : server'[u] = server[u] /\ (Held(u)' <=> Held(u)),
         Stage(t)' = place, main # At("exited"), main' # At("exited")
  PROVE  /\ [u \in Tasks |-> Stage(u)]' = [[u \in Tasks |-> Stage(u)] EXCEPT ![t] = place]
         /\ (main # At("exited"))' = (main # At("exited"))
<1>1. \A u \in Tasks \ {t} : Stage(u)' = Stage(u)
  BY StageValue, StageValueNext
<1> QED BY <1>1

LEMMA ContractStep ==
  ASSUME WorkerInvariant, WorkerInvariant', [Next]_vars
  PROVE  Contract!ContractNext \/ UNCHANGED Contract!contractVars
<1>1. WorkerTypeOK /\ WorkerTypeOK' /\ ExitedOK /\ SingleCustody
  BY DEF WorkerInvariant
<1>2. poller # At("dropped") => main # At("exited")
  BY <1>1 DEF ExitedOK
<1>3. ASSUME NEW t \in Tasks, PollTask(t) PROVE Contract!Take(t)
  <2>1. /\ poller = At("poll") /\ poller' = With("send", t) /\ server[t] = "ready"
        /\ server' = [server EXCEPT ![t] = "leased"]
        /\ UNCHANGED <<channel, main, handlers>>
    BY <1>3 DEF PollTask, Offered, Lease
  <2>2. main # At("exited")
    BY <1>2, <2>1, PlacesDiffer
  <2>3. Stage(t) = "ready"
    BY <1>1, <2>1, StageValue
  <2>4. Held(t)' /\ server'[t] = "leased"
    BY <1>1, <2>1 DEF Held, WorkerTypeOK
  <2>5. Stage(t)' = "taken"
    BY <1>1, <2>4, StageValueNext
  <2>6. \A u \in Tasks \ {t} : server'[u] = server[u] /\ (Held(u)' <=> Held(u))
    BY <1>1, <2>1, PlacesDiffer DEF Held, InHandler, WorkerTypeOK
  <2>7. /\ [u \in Tasks |-> Stage(u)]' = [[u \in Tasks |-> Stage(u)] EXCEPT ![t] = "taken"]
        /\ (main # At("exited"))' = (main # At("exited"))
    BY <1>1, <2>1, <2>2, <2>5, <2>6, TaskStep
  <2>8. Cardinality(Contract!Taken) < MaxConcurrent + ChannelCapacity + 2
    BY <2>1, RoomToTake
  <2>9. Contract!Cardinality(Contract!Taken) = Cardinality(Contract!Taken)
    BY DEF Contract!Cardinality, Cardinality
  <2> QED BY <2>2, <2>3, <2>7, <2>8, <2>9 DEF Contract!Take
<1>4. CASE PollError
  <2>1. /\ poller = At("poll") /\ poller' = At("sleep") /\ UNCHANGED <<channel, main, handlers>>
    BY <1>4 DEF PollError
  <2>2. main # At("exited")
    BY <1>2, <2>1, PlacesDiffer
  <2>3. \A u \in Tasks : Held(u)' <=> Held(u)
    BY <2>1, PlacesDiffer DEF Held, InHandler
  <2>4. CASE UNCHANGED server
    BY <1>1, <2>1, <2>3, <2>4, QuietStep
  <2>5. ASSUME NEW t \in Tasks, Offered(t), Lease(t) PROVE Contract!Lose(t)
    <3>1. /\ server[t] = "ready" /\ server' = [server EXCEPT ![t] = "leased"]
      BY <2>5 DEF Offered, Lease
    <3>2. server'[t] = "leased" /\ \A u \in Tasks \ {t} : server'[u] = server[u]
      BY <1>1, <3>1 DEF WorkerTypeOK
    <3>3. ~Held(t)'
      BY <1>1, <2>3, <3>1 DEF SingleCustody
    <3>4. Stage(t) = "ready" /\ Stage(t)' = "lost"
      BY <1>1, <3>1, <3>2, <3>3, StageValue, StageValueNext
    <3>5. /\ [u \in Tasks |-> Stage(u)]' = [[u \in Tasks |-> Stage(u)] EXCEPT ![t] = "lost"]
          /\ (main # At("exited"))' = (main # At("exited"))
      BY <1>1, <2>1, <2>2, <2>3, <3>2, <3>4, TaskStep
    <3> QED BY <2>2, <3>4, <3>5 DEF Contract!Lose
  <2> QED BY <1>4, <2>4, <2>5 DEF PollError, Contract!ContractNext
<1>5. CASE Send
  <2>1. \A u \in Tasks : Held(u)' <=> Held(u)
    BY <1>5, SendStep
  <2> QED BY <1>1, <1>5, <2>1, QuietStep DEF Send
<1>6. CASE PollNothing \/ Wake \/ Signal \/ UNCHANGED vars
  <2>1. /\ UNCHANGED <<server, main>>
        /\ \A u \in Tasks : Held(u)' <=> Held(u)
    BY <1>6, IdlePollerStep
  <2> QED BY <1>1, <2>1, QuietStep
<1>7. CASE Receive
  <2>1. \A u \in Tasks : Held(u)' <=> Held(u)
    BY <1>7, ReceiveStep
  <2>2. main' # At("exited") /\ main # At("exited") /\ server' = server
    BY <1>7, PlacesDiffer DEF Receive
  <2> QED BY <1>1, <2>1, <2>2, QuietStep
<1>8. CASE Execute
  <2>1. \A u \in Tasks : Held(u)' <=> Held(u)
    BY <1>8, ExecuteStep
  <2>2. main' # At("exited") /\ main # At("exited") /\ server' = server
    BY <1>1, <1>8, Positions, PlacesDiffer DEF Execute
  <2> QED BY <1>1, <2>1, <2>2, QuietStep
<1>9. CASE Exit
  <2>1. /\ main = At("select") /\ main' = At("exited") /\ server' = server
        /\ \A u \in Tasks : ~Held(u)'
    BY <1>9, ExitStep DEF Exit
  <2>2. (main # At("exited")) = TRUE /\ (main # At("exited"))' = FALSE
    BY <2>1, PlacesDiffer
  <2>3. \A u \in Tasks : Stage(u)' = IF Stage(u) = "taken" THEN "lost" ELSE Stage(u)
    BY <1>1, <2>1, StageValue, StageValueNext DEF WorkerTypeOK
  <2>4. [u \in Tasks |-> Stage(u)]' =
          [u \in Tasks |-> IF u \in Contract!Taken THEN "lost" ELSE [v \in Tasks |-> Stage(v)][u]]
    BY <2>3 DEF Contract!Taken
  <2> QED BY <2>2, <2>4 DEF Contract!GoDown, Contract!ContractNext
<1>10. ASSUME NEW t \in Tasks, RunHandler(t) PROVE UNCHANGED Contract!contractVars
  <2>1. \A u \in Tasks : Held(u)' <=> Held(u)
    BY <1>10, RunHandlerStep
  <2> QED BY <1>1, <1>10, <2>1, QuietStep DEF RunHandler
<1>11. ASSUME NEW t \in Tasks, NEW place \in {"execute", "report"}, SendReport(t, place)
       PROVE  Contract!Report(t) \/ Contract!Lose(t)
  <2>1. /\ Held(t) /\ ~Held(t)'
        /\ \A u \in Tasks \ {t} : Held(u)' <=> Held(u)
    BY <1>11, SendReportStep
  <2>2. /\ <<t, place>> \in handlers /\ main' = main
        /\ server' = [server EXCEPT ![t] = "reported"] \/ server' = server
    BY <1>11 DEF SendReport
  <2>3. main # At("exited")
    BY <1>1, <2>2 DEF ExitedOK
  <2>4. server[t] = "leased" /\ Stage(t) = "taken"
    BY <1>1, <2>1, StageValue DEF SingleCustody
  <2>5. \A u \in Tasks \ {t} : server'[u] = server[u]
    BY <1>1, <2>2 DEF WorkerTypeOK
  <2>6. CASE server' = [server EXCEPT ![t] = "reported"]
    <3>1. server'[t] = "reported"
      BY <1>1, <2>6 DEF WorkerTypeOK
    <3>2. Stage(t)' = "reported"
      BY <1>1, <3>1, StageValueNext
    <3>3. /\ [u \in Tasks |-> Stage(u)]' = [[u \in Tasks |-> Stage(u)] EXCEPT ![t] = "reported"]
          /\ (main # At("exited"))' = (main # At("exited"))
      BY <1>1, <2>1, <2>2, <2>3, <2>5, <3>2, TaskStep
    <3> QED BY <2>3, <2>4, <3>3 DEF Contract!Report
  <2>7. CASE server' = server
    <3>1. Stage(t)' = "lost"
      BY <1>1, <2>1, <2>4, <2>7, StageValueNext
    <3>2. /\ [u \in Tasks |-> Stage(u)]' = [[u \in Tasks |-> Stage(u)] EXCEPT ![t] = "lost"]
          /\ (main # At("exited"))' = (main # At("exited"))
      BY <1>1, <2>1, <2>2, <2>3, <2>5, <3>1, TaskStep
    <3> QED BY <2>3, <2>4, <3>2 DEF Contract!Lose
  <2> QED BY <2>2, <2>6, <2>7
<1>12. ASSUME NEW t \in Tasks, Spawned(t)
       PROVE  Contract!ContractNext \/ UNCHANGED Contract!contractVars
  <2>1. CASE RunHandler(t)
    BY <1>10, <2>1
  <2>2. CASE ReportOutcome(t) \/ ReportNoHandler(t)
    <3>1. Contract!Report(t) \/ Contract!Lose(t)
      BY <1>11, <2>2 DEF ReportOutcome, ReportNoHandler
    <3> QED BY <3>1 DEF Contract!ContractNext
  <2> QED BY <1>12, <2>1, <2>2 DEF Spawned
<1>13. ASSUME NEW t \in Tasks, PollTask(t) PROVE Contract!ContractNext
  BY <1>3, <1>13 DEF Contract!ContractNext
<1> QED
  BY <1>4, <1>5, <1>6, <1>7, <1>8, <1>9, <1>12, <1>13 DEF Next, Poller, MainLoop

(***************************************************************************)
(* The worker process keeps its contract with the server: it never leases  *)
(* more tasks than it has permits and places for, and ends each by one     *)
(* report or loses it, one at a time while it is up.                       *)
(***************************************************************************)
THEOREM ContractKept == Spec => ImplementsContract
<1>1. Init => Contract!ContractInit
  <2> SUFFICES ASSUME Init PROVE Contract!ContractInit
    OBVIOUS
  <2>1. \A t \in Tasks : Stage(t) = "ready"
    BY DEF Init, Stage
  <2>2. main # At("exited")
    BY PlacesDiffer DEF Init
  <2> QED BY <2>1, <2>2 DEF Contract!ContractInit
<1>2. WorkerInvariant /\ WorkerInvariant' /\ [Next]_vars =>
        [Contract!ContractNext]_(Contract!contractVars)
  BY ContractStep
<1> QED
  BY <1>1, <1>2, WorkerInvariantHolds, PTL DEF Spec, ImplementsContract, Contract!ContractSpec
=============================================================================
