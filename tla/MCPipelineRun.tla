---------------------------- MODULE MCPipelineRun ----------------------------
(***************************************************************************)
(* Small staged pipelines for model checking PipelineRun.                  *)
(***************************************************************************)
EXTENDS RunLifecycle, StagedRun

Stage(policy, jobs) == [runPolicy |-> policy, jobs |-> jobs]

\* A protected deployment, which may be tried twice, follows a stage of two
\* parallel jobs.
DeliveryStages ==
    <<Stage("parallel", <<"build", "lint">>), Stage("sequential", <<"deploy">>)>>
DeliveryJob == {"build", "lint", "deploy"}
DeliveryDeps == build(DeliveryStages, {})
DeliveryMaxAttempts == [build |-> 1, lint |-> 1, deploy |-> 2]

\* Tests follow the build, which may be tried twice.
RetryStages == <<Stage("sequential", <<"build", "test">>)>>
RetryJob == {"build", "test"}
RetryDeps == build(RetryStages, {})
RetryMaxAttempts == [build |-> 2, test |-> 1]

=============================================================================
