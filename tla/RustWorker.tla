------------------------------ MODULE RustWorker ------------------------------
(***************************************************************************)
(* The Rust worker process (crates/worker): the poller task, the bounded   *)
(* channel it fills, the main loop that empties it and listens for         *)
(* signals, the semaphore, and one spawned task per activity. The server   *)
(* is the set of tasks it has ready to hand out.                           *)
(***************************************************************************)
EXTENDS Integers, Sequences, FiniteSets, Functions

CONSTANTS
    Tasks,             \* activity attempts the server has, numbered by created_at
    Registered,        \* those whose activity name has a handler
    Requested,         \* those whose activity name is in the poller's activity_types
    MaxConcurrent,     \* WorkerConfig.max_concurrent
    ChannelCapacity,   \* capacity of the poller's mpsc channel
    BackoffInitial,    \* BackoffConfig.initial
    BackoffMax,        \* BackoffConfig.max
    MaxFaults          \* bound: calls that fail

ASSUME RustWorkerAssumption ==
    /\ Tasks \subseteq Nat /\ IsFiniteSet(Tasks)
    /\ Registered \subseteq Tasks /\ Requested \subseteq Tasks
    /\ MaxConcurrent \in Nat \ {0} /\ ChannelCapacity \in Nat \ {0}
    /\ BackoffInitial \in Nat \ {0} /\ BackoffMax \in Nat /\ BackoffInitial <= BackoffMax
    /\ MaxFaults \in Nat

VARIABLES
    server,     \* server[t]: "ready", "leased" or "reported"
    poller,     \* the poller's position, and the task it is sending
    connected,  \* ConnectionState
    reconnect,  \* reconnect_attempt
    delay,      \* the last delay the poller slept, 0 before the first
    channel,    \* tasks between the poller and the main loop
    main,       \* the main loop's position, and the task that waits for a permit
    permits,    \* free permits of the semaphore
    handlers,   \* spawned tasks
    signalled,  \* SIGINT or SIGTERM has arrived
    faults      \* calls that have failed so far

pollerVars == <<poller, connected, reconnect, delay>>
vars == <<server, pollerVars, channel, main, permits, handlers, signalled, faults>>

-----------------------------------------------------------------------------

At(place) == [at |-> place]
With(place, t) == [at |-> place, task |-> t]

WorkerTypeOK ==
    /\ server \in [Tasks -> {"ready", "leased", "reported"}]
    /\ poller \in {At("poll"), At("sleep"), At("dropped")}
                    \union {With("send", t) : t \in Tasks}
    /\ connected \in BOOLEAN
    /\ reconnect \in 0..MaxFaults
    /\ delay \in 0..BackoffMax
    /\ channel \in Seq(Tasks) /\ Len(channel) <= ChannelCapacity
    /\ main \in {At("select"), At("exited")} \union {With("acquire", t) : t \in Tasks}
    /\ permits \in 0..MaxConcurrent
    /\ handlers \subseteq Tasks \X {"execute", "report"}
    /\ signalled \in BOOLEAN
    /\ faults \in 0..MaxFaults

Init ==
    /\ server = [t \in Tasks |-> "ready"]
    /\ poller = At("poll")
    /\ connected = FALSE /\ reconnect = 0 /\ delay = 0
    /\ channel = <<>>
    /\ main = At("select")
    /\ permits = MaxConcurrent
    /\ handlers = {}
    /\ signalled = FALSE
    /\ faults = 0

Fault == faults < MaxFaults /\ faults' = faults + 1

Lease(t) == server' = [server EXCEPT ![t] = "leased"]

-----------------------------------------------------------------------------
(* BackoffConfig.compute.                                                  *)

Smaller(a, b) == IF a <= b THEN a ELSE b
Larger(a, b) == IF a >= b THEN a ELSE b

\* The delay before jitter: doubled at most 16 times, never beyond the maximum.
Doubled[n \in 0..16] ==
    IF n = 0 THEN BackoffInitial ELSE Smaller(2 * Doubled[n - 1], BackoffMax)

\* Faulty variant: the jitter may take off more than half.
ComputeWideJitter(attempt) ==
    LET d == Doubled[Smaller(attempt, 16)]
    IN  {Larger(d - (6 * d * j) \div 10, BackoffInitial) : j \in {0, 1}}

\* jitter_factor is 0.3; of the range of rand_f64 the two ends are enough.
Compute(attempt) ==
    LET d == Doubled[Smaller(attempt, 16)]
    IN  {Larger(d - (3 * d * j) \div 10, BackoffInitial) : j \in {0, 1}}

-----------------------------------------------------------------------------
(* The poller.                                                             *)

\* The server offers the oldest ready task whose name the request contains. (The
\* poller of the code sends vec![], for which Requested is empty.)
Offered(t) ==
    /\ t \in Requested
    /\ server[t] = "ready"
    /\ \A u \in Requested : server[u] = "ready" => t <= u

PollTask(t) ==
    /\ poller = At("poll")
    /\ Offered(t)
    /\ Lease(t)
    /\ poller' = With("send", t)
    /\ connected' = TRUE /\ reconnect' = 0
    /\ UNCHANGED <<delay, channel, main, permits, handlers, signalled, faults>>

PollNothing ==
    /\ poller = At("poll")
    /\ \A t \in Tasks : ~Offered(t)
    /\ connected' = TRUE /\ reconnect' = 0
    /\ UNCHANGED <<server, poller, delay, channel, main, permits, handlers, signalled, faults>>

\* The request or its answer is lost. An answer that is lost takes its task with
\* it: the server has leased it.
PollError ==
    /\ poller = At("poll")
    /\ Fault
    /\ UNCHANGED server \/ \E t \in Tasks : Offered(t) /\ Lease(t)
    /\ connected' = FALSE
    /\ reconnect' = (IF connected THEN 0 ELSE reconnect) + 1
    /\ delay' \in Compute(reconnect')
    /\ poller' = At("sleep")
    /\ UNCHANGED <<channel, main, permits, handlers, signalled>>

\* Faulty variant: the loop is left when it has slept.
WakeAndStop ==
    /\ poller = At("sleep")
    /\ poller' = At("dropped")
    /\ UNCHANGED <<server, connected, reconnect, delay, channel, main, permits, handlers,
                   signalled, faults>>

Wake ==
    /\ poller = At("sleep")
    /\ poller' = At("poll")
    /\ UNCHANGED <<server, connected, reconnect, delay, channel, main, permits, handlers,
                   signalled, faults>>

\* Faulty variant: the channel is unbounded.
SendUnbounded ==
    /\ poller.at = "send"
    /\ channel' = Append(channel, poller.task)
    /\ poller' = At("poll")
    /\ UNCHANGED <<server, connected, reconnect, delay, main, permits, handlers, signalled, faults>>

\* tx.send waits for room.
Send ==
    /\ poller.at = "send"
    /\ Len(channel) < ChannelCapacity
    /\ channel' = Append(channel, poller.task)
    /\ poller' = At("poll")
    /\ UNCHANGED <<server, connected, reconnect, delay, main, permits, handlers, signalled, faults>>

-----------------------------------------------------------------------------
(* The main loop. It does not listen for signals while it waits for a      *)
(* permit. Its exit ends the process: the poller, the channel and the      *)
(* spawned tasks are dropped where they stand.                             *)

\* Faulty variant: a task that finds no permit is dropped.
ReceiveOrDrop ==
    /\ main = At("select")
    /\ channel # <<>>
    /\ channel' = Tail(channel)
    /\ main' = IF permits > 0 THEN With("acquire", Head(channel)) ELSE main
    /\ UNCHANGED <<server, pollerVars, permits, handlers, signalled, faults>>

\* Faulty variant: the task is looked at and left in the channel.
ReceiveAndKeep ==
    /\ main = At("select")
    /\ channel # <<>>
    /\ main' = With("acquire", Head(channel))
    /\ UNCHANGED <<server, pollerVars, channel, permits, handlers, signalled, faults>>

Receive ==
    /\ main = At("select")
    /\ channel # <<>>
    /\ channel' = Tail(channel)
    /\ main' = With("acquire", Head(channel))
    /\ UNCHANGED <<server, pollerVars, permits, handlers, signalled, faults>>

Execute ==
    /\ main.at = "acquire"
    /\ permits > 0
    /\ permits' = permits - 1
    /\ handlers' = handlers \union {<<main.task, "execute">>}
    /\ main' = At("select")
    /\ UNCHANGED <<server, pollerVars, channel, signalled, faults>>

Signal ==
    /\ main # At("exited")
    /\ signalled' = TRUE
    /\ UNCHANGED <<server, pollerVars, channel, main, permits, handlers, faults>>

Exit ==
    /\ main = At("select")
    /\ signalled
    /\ main' = At("exited")
    /\ poller' = At("dropped")
    /\ channel' = <<>>
    /\ handlers' = {}
    /\ UNCHANGED <<server, connected, reconnect, delay, permits, signalled, faults>>

-----------------------------------------------------------------------------
(* A spawned task: run the handler, if there is one, and report once.      *)

RunHandler(t) ==
    /\ <<t, "execute">> \in handlers
    /\ t \in Registered
    /\ handlers' = (handlers \ {<<t, "execute">>}) \union {<<t, "report">>}
    /\ UNCHANGED <<server, pollerVars, channel, main, permits, signalled, faults>>

\* The report arrives, or it is lost and the error is logged. The permit is
\* dropped last.
SendReport(t, place) ==
    /\ <<t, place>> \in handlers
    /\ \/ server' = [server EXCEPT ![t] = "reported"] /\ UNCHANGED faults
       \/ UNCHANGED server /\ Fault
    /\ handlers' = handlers \ {<<t, place>>}
    /\ permits' = permits + 1
    /\ UNCHANGED <<pollerVars, channel, main, signalled>>

\* report_result, or report_failure for a handler that returned an error.
ReportOutcome(t) == SendReport(t, "report")

\* Faulty variant: the early return for an unknown activity keeps the permit.
ReportLeaking(t) ==
    /\ t \notin Registered
    /\ <<t, "execute">> \in handlers
    /\ server' = [server EXCEPT ![t] = "reported"]
    /\ handlers' = handlers \ {<<t, "execute">>}
    /\ UNCHANGED <<pollerVars, channel, main, permits, signalled, faults>>

ReportNoHandler(t) == t \notin Registered /\ SendReport(t, "execute")

-----------------------------------------------------------------------------

Poller == (\E t \in Tasks : PollTask(t)) \/ PollNothing \/ PollError \/ Wake \/ Send

MainLoop == Receive \/ Execute \/ Exit

Spawned(t) == RunHandler(t) \/ ReportOutcome(t) \/ ReportNoHandler(t)

Next == Poller \/ MainLoop \/ Signal \/ \E t \in Tasks : Spawned(t)

Spec == Init /\ [][Next]_vars

\* tokio runs what can run, the sleep ends, the server answers and scripts end.
\* Nothing obliges a call to fail or a signal to come.
FairSpec ==
    /\ Spec
    /\ WF_vars(Poller) /\ WF_vars(MainLoop)
    /\ \A t \in Tasks : WF_vars(Spawned(t))

-----------------------------------------------------------------------------
(* Properties.                                                             *)

InHandler(t) == \E place \in {"execute", "report"} : <<t, place>> \in handlers

Held(t) ==
    \/ poller = With("send", t)
    \/ t \in Range(channel)
    \/ main = With("acquire", t)
    \/ InHandler(t)

Stage(t) ==
    CASE server[t] = "ready" -> "ready"
      [] server[t] = "reported" -> "reported"
      [] server[t] = "leased" /\ Held(t) -> "taken"
      [] server[t] = "leased" /\ ~Held(t) -> "lost"

Lost == {t \in Tasks : Stage(t) = "lost"}

Contract == INSTANCE WorkerContract WITH
    Limit <- MaxConcurrent + ChannelCapacity + 2,
    stage <- [t \in Tasks |-> Stage(t)],
    up <- main # At("exited")

\* The worker keeps its contract with the server: it leases at most one task per
\* permit and per place in the channel, one for the poller that waits for room and
\* one for the main loop that waits for a permit, and reports or loses each once.
ImplementsContract == Contract!ContractSpec

\* No permit leaks, whichever way a spawned task ends: free permits and spawned
\* tasks add up, or a worker with bad luck would stop executing altogether.
PermitsConserved == main # At("exited") => permits + Cardinality(handlers) = MaxConcurrent

\* A task in the worker's hands is in one place only and still leased: no handover
\* between poller, channel, main loop and spawned task leaves a copy behind, by
\* which it would be executed or reported twice.
SingleCustody ==
    /\ \A t \in Tasks : Held(t) => server[t] = "leased"
    /\ IsInjective(channel)
    /\ \A t \in Tasks :
         /\ poller = With("send", t) =>
               t \notin Range(channel) /\ main # With("acquire", t) /\ ~InHandler(t)
         /\ t \in Range(channel) => main # With("acquire", t) /\ ~InHandler(t)
         /\ main = With("acquire", t) => ~InHandler(t)
         /\ ~(<<t, "execute">> \in handlers /\ <<t, "report">> \in handlers)

\* While the process is up, a task is lost only with a call that failed, and no
\* call takes two tasks with it.
LossesAccounted == main # At("exited") => Cardinality(Lost) <= faults

\* Within an outage the poller backs off: every sleep is longer than the one
\* before, until the maximum is reached but for the jitter.
OutageBacksOff ==
    [][poller'.at = "sleep" /\ poller.at # "sleep" /\ reconnect > 0 =>
          delay' > delay \/ 10 * delay' >= 7 * BackoffMax]_vars

\* An outage ends for the worker when it ends for the server: after a failed call
\* the poller sleeps, tries again and gets an answer, while it is up.
OutagesEnd == ~connected ~> (connected \/ main = At("exited"))

\* A task the worker holds is reported or lost, it does not wait in a queue for
\* ever.
HeldTasksEnd == \A t \in Tasks : Held(t) ~> ~Held(t)

\* A signal is honoured, although the loop is deaf to it while all permits are
\* taken.
SignalsHonoured == signalled ~> main = At("exited")

\* docs/worker-architecture-zh.md: an empty list of activity types "means that all
\* types are accepted". A worker that runs takes every task the server has ready.
ReadyTasksTaken ==
    (\E t \in Tasks : server[t] = "ready") ~>
        ((\A t \in Tasks : server[t] # "ready") \/ main = At("exited"))
=============================================================================
