------------------------ MODULE MCStatementExecution ------------------------
(***************************************************************************)
(* An instance of StatementExecution for TLC: a run of the one workflow    *)
(* that clients and the scheduler define alike, cut down to the third and  *)
(* fourth step of its pipeline, of which the first may be retried.         *)
(***************************************************************************)
EXTENDS StatementExecution, WorkflowDefinitions

Def == [w \in {"r1"} |-> SubSeq(scheduled_definition("cron_job_workflow"), 3, 4)]
MCWorkflows == DOMAIN Def
MCSteps == UNION {{w} \X (1..Len(Def[w])) : w \in DOMAIN Def}
MCRunOf == [s \in MCSteps |-> s[1]]
MCIndex == [s \in MCSteps |-> s[2] - 1]
MCAttempts == [s \in MCSteps |-> Def[s[1]][s[2]].maximum_attempts]
=============================================================================
