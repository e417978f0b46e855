------------------------- MODULE MCWorkflowExecution -------------------------
(***************************************************************************)
(* Instances of WorkflowExecution for TLC. A step is the pair of its run   *)
(* and its place in the run's definition.                                  *)
(***************************************************************************)
EXTENDS WorkflowExecution, WorkflowDefinitions

StepsFor(def) == UNION {{w} \X (1..Len(def[w])) : w \in DOMAIN def}
RunOfFor(def) == [s \in StepsFor(def) |-> s[1]]
IndexFor(def) == [s \in StepsFor(def) |-> s[2] - 1]
AttemptsFor(def) == [s \in StepsFor(def) |-> def[s[1]][s[2]].maximum_attempts]

\* A run of two steps, with the two smaller policies of the cron pipeline,
\* beside a run of the default single-step definition, whose step is retried.
PairDef ==
    [w \in {"r1", "r2"} |->
       IF w = "r1" THEN <<ActivityStep("a", 2), ActivityStep("b", 1)>>
                   ELSE get_workflow_definition("c")]
PairWorkflows == DOMAIN PairDef
PairSteps == StepsFor(PairDef)
PairRunOf == RunOfFor(PairDef)
PairIndex == IndexFor(PairDef)
PairAttempts == AttemptsFor(PairDef)

\* One run of two steps.
SmallDef == [w \in {"r1"} |-> <<ActivityStep("a", 3), ActivityStep("b", 2)>>]
SmallWorkflows == DOMAIN SmallDef
SmallSteps == StepsFor(SmallDef)
SmallRunOf == RunOfFor(SmallDef)
SmallIndex == IndexFor(SmallDef)
SmallAttempts == AttemptsFor(SmallDef)

KhronosApi == {"khronos"}
BothApis == {"khronos", "temporal"}
=============================================================================
