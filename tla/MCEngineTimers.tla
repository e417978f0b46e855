---------------------------- MODULE MCEngineTimers ----------------------------
(***************************************************************************)
(* An instance of EngineTimers for TLC: one run of two steps whose         *)
(* heartbeats are monitored.                                               *)
(***************************************************************************)
EXTENDS EngineTimers, WorkflowDefinitions

Def == [w \in {"r1"} |-> <<ActivityStep("a", 3), ActivityStep("b", 2)>>]
MCWorkflows == DOMAIN Def
MCSteps == UNION {{w} \X (1..Len(Def[w])) : w \in DOMAIN Def}
MCRunOf == [s \in MCSteps |-> s[1]]
MCIndex == [s \in MCSteps |-> s[2] - 1]
MCAttempts == [s \in MCSteps |-> Def[s[1]][s[2]].maximum_attempts]

KhronosApi == {"khronos"}
=============================================================================
