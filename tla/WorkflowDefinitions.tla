------------------------- MODULE WorkflowDefinitions -------------------------
(***************************************************************************)
(* The built-in workflow definitions: the steps of a run and their retry   *)
(* policies, as a function of the normalised workflow name. The gRPC       *)
(* services and the scheduler each have a get_workflow_definition of their *)
(* own, and they agree on one name only.                                   *)
(***************************************************************************)
EXTENDS Naturals, Sequences

ActivityStep(name, attempts) == [activity_name |-> name, maximum_attempts |-> attempts]

CronPipeline ==
    <<ActivityStep("execute_cron_job", 3),
      ActivityStep("save_cron_output", 2),
      ActivityStep("deliver_cron_result", 3),
      ActivityStep("mark_job_run_activity", 1),
      ActivityStep("trigger_on_success_jobs", 2)>>

\* Of a run that a client starts.
get_workflow_definition(name) ==
    IF name = "cron_job_workflow" THEN CronPipeline ELSE <<ActivityStep(name, 3)>>

\* Of a run that the scheduler starts: "all other workflows also use the cron
\* activity pipeline", with longer timeouts.
scheduled_definition(name) == CronPipeline
=============================================================================
