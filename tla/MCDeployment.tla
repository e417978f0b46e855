----------------------------- MODULE MCDeployment -----------------------------
(***************************************************************************)
(* An instance of Deployment for TLC: one run, and two workers that share  *)
(* one of its activities.                                                  *)
(***************************************************************************)
EXTENDS Deployment, WorkflowDefinitions

\* The first and the fourth step of the cron pipeline: one is retried, one not.
Def == LET cron == get_workflow_definition("cron_job_workflow")
       IN  [w \in {"r1"} |-> <<cron[1], cron[4]>>]
MCWorkflows == DOMAIN Def
MCSteps == UNION {{w} \X (1..Len(Def[w])) : w \in DOMAIN Def}
MCRunOf == [s \in MCSteps |-> s[1]]
MCIndex == [s \in MCSteps |-> s[2] - 1]
MCAttempts == [s \in MCSteps |-> Def[s[1]][s[2]].maximum_attempts]
MCActivityOf == [s \in MCSteps |-> Def[s[1]][s[2]].activity_name]

MCWorkers == {"k1", "k2"}
MCKnows ==
    [k \in MCWorkers |->
       IF k = "k1" THEN {"execute_cron_job"}
                   ELSE {"execute_cron_job", "mark_job_run_activity"}]

KhronosApi == {"khronos"}
=============================================================================
