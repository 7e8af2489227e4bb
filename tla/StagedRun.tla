----------------------------- MODULE StagedRun -----------------------------
(***************************************************************************)
(* A run of PipelineRun over the graph that ExecutionGraphBuilder derives  *)
(* from the stages of its pipeline.                                        *)
(***************************************************************************)
EXTENDS PipelineRun

CONSTANTS
    Stages,     \* the stages in position order, see ExecutionGraph
    Explicit    \* the job_dependency rows, as edges

StageJobs(i) == {Stages[i].jobs[k] : k \in 1..Len(Stages[i].jobs)}

ASSUME StagesAssumption ==
    /\ Job = UNION {StageJobs(i) : i \in 1..Len(Stages)}
    /\ Deps = build(Stages, Explicit)

Started(j) == AttemptsOf(status, j) # {}
Succeeded(j) == \E a \in AttemptsOf(status, j) : status[<<j, a>>] = "success"

\* A job without explicit dependencies starts only after every job of the
\* stage before its own has succeeded, whatever is retried or canceled
\* meanwhile (ExecutionGraphBuilder.build, dispatchReadyJobs).
PreviousStageFirst ==
    \A i \in 2..Len(Stages) : \A j \in StageJobs(i) :
        Started(j) /\ ~hasExplicit(Explicit, j) =>
            \A u \in StageJobs(i - 1) : Succeeded(u)

=============================================================================
