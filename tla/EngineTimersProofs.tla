-------------------------- MODULE EngineTimersProofs --------------------------
(***************************************************************************)
(* What the failing parse of timestamps means for the engine's timers:     *)
(* none is ever set, and the server with timers does nothing that the      *)
(* server of WorkflowExecution, which leaves them out, does not.           *)
(***************************************************************************)
EXTENDS EngineTimers, WorkflowExecutionProofs

NoTimers == heartbeats = {} /\ retries = {}

TimersInvariant == Invariant /\ NoTimers

-----------------------------------------------------------------------------

\* schedule_heartbeat_timers_for_workflow sets no timer.
LEMMA NoHeartbeatTimers ==
    ASSUME StampsParse = FALSE, NEW R
    PROVE  UNION {HeartbeatTimers(w) : w \in R} = {}
<1>1. \A w : HeartbeatTimers(w) = {}
  BY DEF HeartbeatTimers
<1> QED BY <1>1

\* The events of the timers are none of those the channel carries without them.
LEMMA NoTimerEvents ==
    ASSUME ChannelOK, queue # <<>>
    PROVE  Head(queue).type \notin {"HeartbeatTimeout", "RetryDue"}
<1>1. Head(queue) \in Event
  BY HeadTailProperties DEF ChannelOK
<1> QED BY <1>1 DEF Event

\* Without timers a step of the server with timers is one of the server without.
LEMMA TimersStep ==
    ASSUME StampsParse = FALSE, TimersInvariant, [TimersNext]_allVars
    PROVE  [Next]_vars /\ NoTimers'
<1> USE DEF NoTimers, timerVars
<1>0. NoTimers /\ ChannelOK
  BY DEF TimersInvariant, Invariant
<1>1. CASE UNCHANGED allVars
  BY <1>0, <1>1 DEF allVars
<1>2. CASE EngineWithTimers
  <2>1. Engine /\ UNCHANGED retries
    BY <1>2 DEF EngineWithTimers
  <2>2. heartbeats' = {}
    <3>1. heartbeats' = heartbeats \union UNION {HeartbeatTimers(w) : w \in Processed(Head(queue))}
      BY <1>2 DEF EngineWithTimers
    <3>2. UNION {HeartbeatTimers(w) : w \in Processed(Head(queue))} = {}
      BY NoHeartbeatTimers
    <3> QED BY <1>0, <3>1, <3>2
  <2> QED BY <1>0, <2>1, <2>2 DEF Next
<1>3. CASE HandleHeartbeatTimeout
  BY <1>0, <1>3, NoTimerEvents DEF HandleHeartbeatTimeout
<1>4. CASE HandleRetryDue
  BY <1>0, <1>4, NoTimerEvents DEF HandleRetryDue, Receive
<1>5. CASE Timers
  BY <1>0, <1>5 DEF Timers
<1>6. CASE RestartWithTimers
  BY <1>6 DEF RestartWithTimers, Next
<1>7. CASE Others
  BY <1>0, <1>7 DEF Others, Next
<1> QED BY <1>1, <1>2, <1>3, <1>4, <1>5, <1>6, <1>7 DEF TimersNext, EngineLoop

LEMMA TimersInvariantKept ==
    ASSUME StampsParse = FALSE
    PROVE  TimersSpec => []TimersInvariant
<1>1. TimersInit => TimersInvariant
  BY InitInvariant DEF TimersInit, TimersInvariant, NoTimers
<1>2. TimersInvariant /\ [TimersNext]_allVars => TimersInvariant'
  <2> SUFFICES ASSUME TimersInvariant, [TimersNext]_allVars
               PROVE  TimersInvariant'
    OBVIOUS
  <2>1. [Next]_vars /\ NoTimers'
    BY TimersStep
  <2> QED BY <2>1, NextInvariant DEF TimersInvariant
<1> QED BY <1>1, <1>2, PTL DEF TimersSpec

-----------------------------------------------------------------------------

\* As the timestamps in the table do not parse, the engine never sets a heartbeat
\* timer, and so never one for a retry: a stalled attempt is not noticed.
THEOREM TimersNeverSet ==
    ASSUME StampsParse = FALSE
    PROVE  TimersSpec => []NoTimers
<1>1. TimersInvariant => NoTimers
  BY DEF TimersInvariant
<1> QED BY <1>1, TimersInvariantKept, PTL

\* The server with the engine's timers implements the server without them, so
\* what is proved of WorkflowExecution is true of it.
THEOREM TimersImplementExecution ==
    ASSUME StampsParse = FALSE
    PROVE  TimersSpec => Spec
<1>1. TimersInit => Init
  BY DEF TimersInit
<1>2. TimersInvariant /\ [TimersNext]_allVars => [Next]_vars
  BY TimersStep
<1> QED BY <1>1, <1>2, TimersInvariantKept, PTL DEF TimersSpec, Spec
=============================================================================
