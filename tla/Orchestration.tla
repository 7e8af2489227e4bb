--------------------------- MODULE Orchestration ---------------------------
(***************************************************************************)
(* The status vocabulary of the master service and the pure decisions it   *)
(* makes about statuses: which status an executor event may move an        *)
(* execution to (JobStateMachine), what the statuses of all executions     *)
(* make of the run (PipelineStateReducer), and which upstream statuses     *)
(* satisfy a dependency condition (ReadyJobResolver).                      *)
(***************************************************************************)

\* Lower-case spellings are the database values of the Java enums.
FinalStatus == {"success", "failed", "timeout", "canceled", "skipped"}
ActiveStatus ==
    {"queued", "running", "waiting_approval", "canceling", "retrying"}
JobExecutionStatus == FinalStatus \cup ActiveStatus

FinalRunStatus == {"success", "failed", "canceled", "timeout"}
PipelineRunStatus ==
    FinalRunStatus \cup {"queued", "running", "waiting_approval", "canceling"}

\* Mutant: a running execution cannot time out.
SuccessorsWithoutTimeout(from) ==
    CASE from = "queued" ->
            {"running", "waiting_approval", "skipped", "canceling"}
      [] from = "waiting_approval" -> {"queued", "skipped", "failed"}
      [] from = "running" -> {"success", "failed", "canceling", "canceled"}
      [] from = "canceling" -> {"canceled", "failed"}
      [] from = "retrying" -> {"queued"}
      [] OTHER -> {}

\* The successors JobStateMachine.canTransition lists for a status.
Successors(from) ==
    CASE from = "queued" ->
            {"running", "waiting_approval", "skipped", "canceling"}
      [] from = "waiting_approval" -> {"queued", "skipped", "failed"}
      [] from = "running" ->
            {"success", "failed", "timeout", "canceling", "canceled"}
      [] from = "canceling" -> {"canceled", "failed"}
      [] from = "retrying" -> {"queued"}
      [] OTHER -> {}

\* Equal statuses are compared first: an event that repeats a final status
\* is an accepted transition.
canTransition(from, to) == from = to \/ to \in Successors(from)

\* Mutant: waiting approvals are overlooked.
reduceIgnoringApprovals(statuses) ==
    IF statuses = {} THEN "queued"
    ELSE IF "canceling" \in statuses THEN "canceling"
    ELSE IF statuses \cap {"queued", "running", "retrying"} # {} THEN "running"
    ELSE IF statuses \cap {"failed", "timeout"} # {} THEN "failed"
    ELSE "success"

\* PipelineStateReducer.reduce over the statuses of all executions of a run.
\* The list is only ever tested with anyMatch and allMatch, so a set is enough.
reduce(statuses) ==
    IF statuses = {} THEN "queued"
    ELSE IF "canceling" \in statuses THEN "canceling"
    ELSE IF statuses \cap {"queued", "running", "retrying"} # {} THEN "running"
    ELSE IF "waiting_approval" \in statuses THEN "waiting_approval"
    ELSE IF statuses = {"canceled"} THEN "canceled"
    ELSE IF statuses \cap {"failed", "timeout"} # {} THEN "failed"
    ELSE "success"

Condition == {"on_success", "on_failure", "always"}

\* Mutant: a skipped upstream job counts as a successful one.
SatisfyingWithSkipped(condition) ==
    CASE condition = "on_success" -> {"success", "skipped"}
      [] condition = "on_failure" -> {"failed", "timeout"}
      [] condition = "always" -> FinalStatus
      [] OTHER -> {}

\* Mutant: a job that has ended counts as a successful one.
SatisfyingEnded(condition) ==
    IF condition \in {"on_success", "always"} THEN FinalStatus
    ELSE {"failed", "timeout"}

\* The upstream statuses that satisfy a dependency condition.
Satisfying(condition) ==
    CASE condition = "on_success" -> {"success"}
      [] condition = "on_failure" -> {"failed", "timeout"}
      [] condition = "always" -> FinalStatus
      [] OTHER -> {}

=============================================================================
