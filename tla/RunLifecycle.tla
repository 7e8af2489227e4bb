---------------------------- MODULE RunLifecycle ----------------------------
(***************************************************************************)
(* PipelineRun implements ExecutionLifecycle: the phase of an execution is *)
(* read off its status column, its job messages off the outbox.            *)
(***************************************************************************)
EXTENDS PipelineRun

PhaseOf(s) ==
    CASE s = "none" -> "absent"
      [] s = "waiting_approval" -> "waiting"
      [] s \in {"queued", "running"} -> "started"
      [] s = "canceling" -> "stopping"
      [] s = "success" -> "succeeded"
      [] s = "retrying" -> "replaced"
      [] OTHER -> "ended"

Lifecycle ==
    INSTANCE ExecutionLifecycle WITH
        NeedsApproval <- {e \in Execution : e[1] \in Protected},
        phase <- [e \in Execution |-> PhaseOf(status[e])],
        sent <- dispatched,
        closed <- runStatus \in FinalRunStatus

\* Whatever users, executors, the watchdog and late events do, the run looks
\* from outside like one that follows ExecutionLifecycle: every transaction of
\* PipelineRunService, JobExecutionService, DeploymentApprovalService,
\* ExecutorEventService and TimeoutWatchdog is one of its steps or invisible.
ImplementsLifecycle == Lifecycle!Spec

=============================================================================
