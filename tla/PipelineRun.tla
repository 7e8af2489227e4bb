----------------------------- MODULE PipelineRun -----------------------------
(***************************************************************************)
(* One pipeline run in the master service: the rows of pipeline_run,       *)
(* job_execution, deployment_approval and outbox_event that belong to it,  *)
(* and every transaction that changes them (PipelineRunService,            *)
(* JobExecutionService, DeploymentApprovalService, ExecutorEventService    *)
(* and TimeoutWatchdog).  A transaction is one step.                       *)
(*                                                                         *)
(* An execution is identified by its job and its attempt number, the key   *)
(* that the table's unique constraint enforces.  The executors are open:   *)
(* once a job message for an execution is in the outbox, events about the  *)
(* execution may arrive in any order, late and repeated.                   *)
(***************************************************************************)
EXTENDS Naturals, Orchestration, ExecutionGraph

CONSTANTS
    Job,              \* jobs of the pipeline
    Deps,             \* edges of the execution graph, see ExecutionGraph
    Protected,        \* deploy jobs whose environment requires an approval
    MaxAttempts,      \* job.max_attempts
    AttemptBound,     \* bound of the model: attempts per job
    EventStatus,      \* statuses the executors put into their events
    EventTimed        \* may an event carry startedAt and durationMs?

Attempt == 1..AttemptBound

ASSUME JobAssumption ==
    /\ Protected \subseteq Job
    /\ AttemptBound \in Nat
    /\ MaxAttempts \in [Job -> Attempt]

ASSUME DepsAssumption ==
    \A d \in Deps : d.job \in Job /\ d.condition \in Condition

\* Statuses of the executor contract that an event can report.  Executors
\* never report queued, waiting_approval, canceling or retrying.
ASSUME EventAssumption ==
    /\ EventStatus \subseteq {"running"} \cup FinalStatus
    /\ EventTimed \subseteq BOOLEAN

Execution == Job \X Attempt

VARIABLES
    runStatus,    \* pipeline_run.status, "none" before the run is created
    runFinished,  \* pipeline_run.finished_at is set
    status,       \* job_execution.status, "none" where there is no row
    retryable,    \* the recorded error is one RetryPolicyService accepts
    timed,        \* started_at and duration_ms are both recorded
    approval,     \* deployment_approval.status of the execution
    dispatched,   \* number of job.dispatch rows in the outbox
    cancelSent    \* a job.cancel row is in the outbox

vars == <<runStatus, runFinished, status, retryable, timed, approval,
          dispatched, cancelSent>>

TypeOK ==
    /\ runStatus \in PipelineRunStatus \cup {"none"}
    /\ runFinished \in BOOLEAN
    /\ status \in [Execution -> JobExecutionStatus \cup {"none"}]
    /\ retryable \in [Execution -> BOOLEAN]
    /\ timed \in [Execution -> BOOLEAN]
    /\ approval \in [Execution -> {"none", "pending", "approved", "rejected"}]
    /\ dispatched \in [Execution -> Nat]
    /\ cancelSent \in [Execution -> BOOLEAN]

Init ==
    /\ runStatus = "none"
    /\ runFinished = FALSE
    /\ status = [e \in Execution |-> "none"]
    /\ retryable = [e \in Execution |-> FALSE]
    /\ timed = [e \in Execution |-> FALSE]
    /\ approval = [e \in Execution |-> "none"]
    /\ dispatched = [e \in Execution |-> 0]
    /\ cancelSent = [e \in Execution |-> FALSE]

-----------------------------------------------------------------------------
\* Reading the executions of the run: st is the status column.

AttemptsOf(st, j) == {a \in Attempt : <<j, a>> \in Execution /\ st[<<j, a>>] # "none"}

\* The newest attempt of a job: a singleton, or empty while there is none.
Latest(st, j) == {a \in AttemptsOf(st, j) : \A b \in AttemptsOf(st, j) : b <= a}

Statuses(st) == {st[e] : e \in Execution} \ {"none"}

dependenciesSatisfied(st, j) ==
    \A d \in Deps :
        d.job = j => \E a \in Latest(st, d.dependsOn) :
                         st[<<d.dependsOn, a>>] \in Satisfying(d.condition)

\* Jobs without any execution whose dependencies are satisfied.
resolveReadyJobs(st) ==
    {j \in Job : AttemptsOf(st, j) = {} /\ dependenciesSatisfied(st, j)}

-----------------------------------------------------------------------------
\* Mutant: a protected deployment gets its job message at once.
DispatchEverything(C, st) ==
    /\ status' = [e \in Execution |->
                    IF e \notin C THEN st[e]
                    ELSE IF e[1] \in Protected THEN "waiting_approval"
                    ELSE "queued"]
    /\ approval' = [e \in Execution |->
                      IF e \in C /\ e[1] \in Protected THEN "pending"
                      ELSE approval[e]]
    /\ dispatched' = [e \in Execution |->
                        IF e \in C THEN dispatched[e] + 1 ELSE dispatched[e]]

(***************************************************************************)
(* createExecution for every <<job, attempt>> in C, on top of the statuses *)
(* st the transaction has already written: a protected deployment waits    *)
(* for an approval, every other execution gets its job message.            *)
(***************************************************************************)
CreateExecutions(C, st) ==
    /\ status' = [e \in Execution |->
                    IF e \notin C THEN st[e]
                    ELSE IF e[1] \in Protected THEN "waiting_approval"
                    ELSE "queued"]
    /\ approval' = [e \in Execution |->
                      IF e \in C /\ e[1] \in Protected THEN "pending"
                      ELSE approval[e]]
    /\ dispatched' = [e \in Execution |->
                        IF e \in C /\ e[1] \notin Protected
                        THEN dispatched[e] + 1 ELSE dispatched[e]]

\* The run status createRun and the retries derive from what they created.
ActivateRun(C) ==
    runStatus' = IF \E e \in C : e[1] \in Protected
                 THEN "waiting_approval" ELSE "running"

\* recomputeRunStatus, after the transaction has written status'.
\* finished_at is set by a final status and never cleared here.
RecomputeRunStatus ==
    /\ runStatus' = reduce(Statuses(status'))
    /\ runFinished' = (runFinished \/ runStatus' \in FinalRunStatus)

\* dispatchReadyJobs only creates first attempts: a ready job has none yet.
FirstAttempts(st) == {<<j, 1>> : j \in resolveReadyJobs(st)}

-----------------------------------------------------------------------------
\* POST /pipelines/{id}/runs and the triggers.  A cyclic graph is rejected
\* and the transaction rolled back.
CreateRun ==
    /\ runStatus = "none"
    /\ Acyclic(Job, Deps)
    /\ CreateExecutions(FirstAttempts(status), status)
    /\ IF FirstAttempts(status) = {}
       THEN runStatus' = "success" /\ runFinished' = TRUE
       ELSE ActivateRun(FirstAttempts(status)) /\ UNCHANGED runFinished
    /\ UNCHANGED <<retryable, timed, cancelSent>>

\* ExecutorEventService.handle for an event not seen before, which reports
\* status s.  The error and the timing fields are recorded whether or not
\* the transition is accepted; an accepted final status starts the jobs it
\* makes ready and recomputes the run.
HandleEvent(e, s, error, hasTimes) ==
    LET accepted == canTransition(status[e], s)
        written == [status EXCEPT ![e] = IF accepted THEN s ELSE @]
    IN  /\ dispatched[e] > 0
        /\ retryable' = [retryable EXCEPT ![e] =
                            IF error = "none" THEN @ ELSE error = "retryable"]
        /\ timed' = [timed EXCEPT ![e] = @ \/ hasTimes]
        /\ IF accepted /\ s \in FinalStatus
           THEN /\ CreateExecutions(FirstAttempts(written), written)
                /\ RecomputeRunStatus
           ELSE /\ status' = written
                /\ UNCHANGED <<runStatus, runFinished, approval, dispatched>>
        /\ UNCHANGED cancelSent

\* Mutant: finished executions are canceled with the rest.
CancelEveryExecution ==
    LET created == {e \in Execution : status[e] # "none"}
    IN  /\ runStatus # "none"
        /\ runStatus' = "canceling"
        /\ status' = [e \in Execution |->
                        IF e \in created THEN "canceling" ELSE status[e]]
        /\ cancelSent' = [e \in Execution |-> e \in created \/ cancelSent[e]]
        /\ UNCHANGED <<runFinished, retryable, timed, approval, dispatched>>

\* PipelineRunService.cancelRun: no status of the run is excluded.
CancelRun ==
    LET active == {e \in Execution : status[e] \in
                      {"queued", "running", "waiting_approval", "canceling"}}
    IN  /\ runStatus # "none"
        /\ runStatus' = "canceling"
        /\ status' = [e \in Execution |->
                        IF e \in active THEN "canceling" ELSE status[e]]
        /\ cancelSent' = [e \in Execution |-> e \in active \/ cancelSent[e]]
        /\ UNCHANGED <<runFinished, retryable, timed, approval, dispatched>>

\* Mutant: a skipped execution is not treated as final.
CancelSkipped(e) ==
    /\ status[e] \notin {"none", "success", "failed", "timeout", "canceled"}
    /\ status' = [status EXCEPT ![e] = "canceling"]
    /\ cancelSent' = [cancelSent EXCEPT ![e] = TRUE]
    /\ UNCHANGED <<runStatus, runFinished, retryable, timed, approval, dispatched>>

\* JobExecutionService.cancel: the run is left as it is.
CancelExecution(e) ==
    /\ status[e] \notin FinalStatus \cup {"none"}
    /\ status' = [status EXCEPT ![e] = "canceling"]
    /\ cancelSent' = [cancelSent EXCEPT ![e] = TRUE]
    /\ UNCHANGED <<runStatus, runFinished, retryable, timed, approval, dispatched>>

isRetryCandidate(e) ==
    /\ e[2] < MaxAttempts[e[1]]
    /\ \/ status[e] \in {"canceled", "skipped"}
       \/ status[e] \in {"failed", "timeout"} /\ retryable[e]

\* What both retries do: old executions become retrying, new ones are created
\* and the run is reopened.
Retry(old, new) ==
    /\ CreateExecutions(new, [e \in Execution |->
                                IF e \in old THEN "retrying" ELSE status[e]])
    /\ ActivateRun(new)
    /\ runFinished' = FALSE
    /\ UNCHANGED <<retryable, timed, cancelSent>>

\* PipelineRunService.retryRun: the newest attempt of each job, where it is a
\* candidate; without candidates the run is returned unchanged.
RetryRun ==
    LET old == {e \in Execution : e[2] \in Latest(status, e[1]) /\ isRetryCandidate(e)}
    IN  old # {} /\ Retry(old, {<<e[1], e[2] + 1>> : e \in old})

\* PipelineRunService.retryExecution: any execution that is a candidate, not
\* only the newest; the new attempt follows the newest one.
RetryExecution(e) ==
    /\ status[e] # "none" /\ isRetryCandidate(e)
    /\ \E newest \in Latest(status, e[1]) :
           newest + 1 \in Attempt /\ Retry({e}, {<<e[1], newest + 1>>})

\* Mutant: an approval dispatches whatever has become of the execution.
ApproveAnyway(e) ==
    /\ approval[e] = "pending"
    /\ approval' = [approval EXCEPT ![e] = "approved"]
    /\ status' = [status EXCEPT ![e] = "queued"]
    /\ dispatched' = [dispatched EXCEPT ![e] = @ + 1]
    /\ runStatus' = "running"
    /\ runFinished' = FALSE
    /\ UNCHANGED <<retryable, timed, cancelSent>>

\* Mutant: an approved execution is dispatched but still looks undecided.
ApproveWithoutStatus(e) ==
    /\ approval[e] = "pending"
    /\ approval' = [approval EXCEPT ![e] = "approved"]
    /\ dispatched' = [dispatched EXCEPT ![e] = @ + 1]
    /\ UNCHANGED <<runStatus, runFinished, status, retryable, timed, cancelSent>>

\* DeploymentApprovalService.approve with enqueueApprovedExecution: nothing
\* is dispatched when the execution no longer waits.
Approve(e) ==
    /\ approval[e] = "pending"
    /\ approval' = [approval EXCEPT ![e] = "approved"]
    /\ IF status[e] = "waiting_approval"
       THEN /\ status' = [status EXCEPT ![e] = "queued"]
            /\ dispatched' = [dispatched EXCEPT ![e] = @ + 1]
            /\ runStatus' = "running"
            /\ runFinished' = FALSE
       ELSE UNCHANGED <<status, dispatched, runStatus, runFinished>>
    /\ UNCHANGED <<retryable, timed, cancelSent>>

\* DeploymentApprovalService.reject with rejectApprovalExecution: the run is
\* recomputed, no job is dispatched.
Reject(e) ==
    /\ approval[e] = "pending"
    /\ approval' = [approval EXCEPT ![e] = "rejected"]
    /\ IF status[e] = "waiting_approval"
       THEN /\ status' = [status EXCEPT ![e] = "skipped"]
            /\ RecomputeRunStatus
       ELSE UNCHANGED <<status, runStatus, runFinished>>
    /\ UNCHANGED <<retryable, timed, dispatched, cancelSent>>

\* TimeoutWatchdog.checkTimeouts: the running executions whose recorded
\* duration has elapsed (any of the timed ones).  Neither the run nor the
\* jobs waiting for these executions are looked at.
CheckTimeouts ==
    \E expired \in SUBSET {e \in Execution : status[e] = "running" /\ timed[e]} :
        /\ expired # {}
        /\ status' = [e \in Execution |->
                        IF e \in expired THEN "timeout" ELSE status[e]]
        /\ UNCHANGED <<runStatus, runFinished, retryable, timed, approval,
                       dispatched, cancelSent>>

-----------------------------------------------------------------------------
\* Executors attach an error to the failures they report and to nothing else.
EventError(s) ==
    IF s \in {"failed", "timeout"} THEN {"retryable", "permanent"} ELSE {"none"}

ExecutorEvent(e) ==
    \E s \in EventStatus :
        \E error \in EventError(s), hasTimes \in EventTimed :
            HandleEvent(e, s, error, hasTimes)

Next ==
    \/ CreateRun
    \/ \E e \in Execution : ExecutorEvent(e)
    \/ CancelRun
    \/ \E e \in Execution : CancelExecution(e)
    \/ RetryRun
    \/ \E e \in Execution : RetryExecution(e)
    \/ \E e \in Execution : Approve(e)
    \/ \E e \in Execution : Reject(e)
    \/ CheckTimeouts

Spec == Init /\ [][Next]_vars

\* An executor that has the job message of e eventually reports the next stage
\* of the job: that it runs, then how it ended.
Progress(e) ==
    \E hasTimes \in EventTimed :
        \/ status[e] = "queued" /\ HandleEvent(e, "running", "none", hasTimes)
        \/ /\ status[e] = "running"
           /\ \E s \in EventStatus \cap {"success", "failed", "timeout"} :
                  \E error \in EventError(s) : HandleEvent(e, s, error, hasTimes)

\* One condition for all executions is enough: each makes finitely many such
\* steps, so that none is passed over for ever.
FairExecutors == WF_vars(\E e \in Execution : Progress(e))

FairSpec == Spec /\ FairExecutors

\* A run that nobody cancels, whose failures users may retry.
RetrySpec ==
    /\ Init
    /\ [][CreateRun \/ RetryRun \/ \E e \in Execution : ExecutorEvent(e)]_vars
    /\ FairExecutors

-----------------------------------------------------------------------------
\* A protected deployment has a job message only after its approval, and no
\* execution ever gets a second one, whatever cancels, retries, decisions and
\* late events happen around it (createExecution, enqueueApprovedExecution).
DispatchGated ==
    \A e \in Execution :
        /\ dispatched[e] <= 1
        /\ e[1] \in Protected /\ dispatched[e] > 0 => approval[e] = "approved"

\* A run that has reached a final status has finished_at and no execution
\* that is still active: no late event, approval decision or cancel revives
\* an execution behind the back of the run (recomputeRunStatus).
FinishedRunIsQuiet ==
    runStatus \in FinalRunStatus =>
        /\ runFinished
        /\ \A e \in Execution : status[e] \in FinalStatus \cup {"none"}

\* A job that has been started had, for each of its on_success dependencies,
\* an upstream attempt that succeeded, and that success is still on record
\* after any retry or cancel (ReadyJobResolver, dispatchReadyJobs).
OnSuccessHonoured ==
    \A d \in Deps :
        d.condition = "on_success" /\ AttemptsOf(status, d.job) # {} =>
            \E a \in AttemptsOf(status, d.dependsOn) :
                status[<<d.dependsOn, a>>] = "success"

\* The inductive strengthening of the three invariants above: a run without
\* a row has no executions, an execution without a row has neither approval
\* nor message, and an execution that waits for its approval, or whose
\* approval is undecided, has not been dispatched.
RowsConsistent ==
    /\ runStatus = "none" => \A e \in Execution : status[e] = "none"
    /\ \A e \in Execution :
        /\ status[e] = "none" => approval[e] = "none" /\ dispatched[e] = 0
        /\ status[e] = "waiting_approval" => approval[e] = "pending"
        /\ approval[e] = "pending" => dispatched[e] = 0

IndInv ==
    /\ TypeOK
    /\ RowsConsistent
    /\ DispatchGated
    /\ FinishedRunIsQuiet
    /\ OnSuccessHonoured

\* A final execution is left only by a retry: a success never, another final
\* status only for retrying and together with a new attempt of the same job
\* (ExecutorEventService.handle, JobExecutionService.cancel, cancelRun).
FinalLeftOnlyByRetry ==
    [][\A e \in Execution :
          status[e] \in FinalStatus /\ status'[e] # status[e] =>
              /\ status[e] # "success"
              /\ status'[e] = "retrying"
              /\ \E a \in Attempt : /\ status[<<e[1], a>>] = "none"
                                    /\ status'[<<e[1], a>>] # "none"]_vars

\* An execution enters the queue or the approval queue only when it is
\* created, or from the approval queue by an approval: no step restarts an
\* execution or inserts a second row for an attempt (the unique constraint
\* on run, job and attempt of job_execution never fires).
AttemptsNeverReused ==
    [][\A e \in Execution :
          /\ status'[e] \in {"queued", "waiting_approval"}
          /\ status'[e] # status[e]
          => \/ status[e] = "none"
             \/ status[e] = "waiting_approval" /\ approval'[e] = "approved"]_vars

\* A created run reaches a final status (recomputeRunStatus after the event
\* that ends the last execution).
RunFinishes == runStatus # "none" ~> runStatus \in FinalRunStatus

\* What keeps a run from ending by itself: it was canceled, an execution was
\* canceled or retried, an approval is undecided, or the watchdog ended its
\* last executions, after which nothing recomputes the run.
HeldUp ==
    \/ runStatus = "canceling"
    \/ \E e \in Execution : \/ cancelSent[e]
                            \/ status[e] \in {"waiting_approval", "retrying"}
                            \/ /\ status[e] = "timeout" /\ timed[e]
                               /\ runStatus # reduce(Statuses(status))

\* A created run that nothing holds up ends: every order of the executors'
\* reports, late and repeated ones among them, leaves either a job to report
\* about or a final run (dispatchReadyJobs and recomputeRunStatus after the
\* event that ends the last execution).
UnheldRunFinishes == runStatus # "none" ~> runStatus \in FinalRunStatus \/ HeldUp

=============================================================================
