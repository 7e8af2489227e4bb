-------------------------- MODULE PipelineStructure --------------------------
(***************************************************************************)
(* Editing a pipeline while it runs.  PipelineService adds stages, jobs    *)
(* and dependencies one at a time and validates none of them; the graph is *)
(* built and validated anew whenever a run is created or an execution      *)
(* ends, and a cycle makes that transaction fail.                          *)
(*                                                                         *)
(* One run is followed, with one attempt of each job and no approvals: see *)
(* PipelineRun for those.  A queued execution counts as running.  An       *)
(* inactive pipeline is one of which no run is created.                    *)
(***************************************************************************)
EXTENDS Integers, FiniteSets, Orchestration, ExecutionGraph, GraphValidator, SequencesExt

CONSTANTS
    MaxJobs,          \* bound of the model: jobs, numbered in creation order
    Position,         \* stage.position and job.position
    Foreign,          \* jobs of other pipelines that a dependency may name
    RowCondition,     \* bound of the model: conditions of dependency rows
    MaxDependencies   \* bound of the model: rows of job_dependency

ASSUME StructureAssumption ==
    /\ MaxJobs \in Nat /\ MaxDependencies \in Nat
    /\ RowCondition \subseteq Condition
    /\ Position \subseteq Nat /\ Foreign \cap (1..MaxJobs) = {}

VARIABLES
    stages,      \* stages by position: run_policy and jobs by position
    explicit,    \* the job_dependency rows, in the order of creation
    run,         \* status of the run
    execution    \* status of the execution of each job

vars == <<stages, explicit, run, execution>>

JobCount == Cardinality({<<p, k>> \in Position \X Position :
                            p \in DOMAIN stages /\ k \in DOMAIN stages[p].jobs})
Jobs == 1..JobCount

TypeOK ==
    /\ DOMAIN stages \subseteq Position
    /\ \A p \in DOMAIN stages :
        /\ stages[p].runPolicy \in {"sequential", "parallel"}
        /\ DOMAIN stages[p].jobs \subseteq Position
        /\ \A k \in DOMAIN stages[p].jobs : stages[p].jobs[k] \in Jobs
    /\ Len(explicit) <= MaxDependencies
    /\ \A i \in 1..Len(explicit) :
        /\ explicit[i].job \in Jobs
        /\ explicit[i].dependsOn \in (Jobs \cup Foreign) \ {explicit[i].job}
        /\ explicit[i].condition \in Condition
    /\ run \in PipelineRunStatus \cup {"none"}
    /\ execution \in [1..MaxJobs -> {"none", "running", "success", "failed"}]

Init ==
    /\ stages = <<>>
    /\ explicit = <<>>
    /\ run = "none"
    /\ execution = [j \in 1..MaxJobs |-> "none"]

-----------------------------------------------------------------------------
\* What ExecutionGraphBuilder makes of the rows.

\* The values of f in the order of its positions.
InOrder(f) ==
    [i \in 1..Cardinality(DOMAIN f) |->
        f[CHOOSE p \in DOMAIN f : Cardinality({q \in DOMAIN f : q < p}) = i - 1]]

OrderedStages ==
    InOrder([p \in DOMAIN stages |->
               [runPolicy |-> stages[p].runPolicy, jobs |-> InOrder(stages[p].jobs)]])

Edges == build(OrderedStages, Range(explicit))

\* The dependency lists: explicit rows in their order, or the implicit edges.
Graph ==
    LET edges == Edges
    IN  [j \in Jobs |->
            LET rows == SelectSeq(explicit, LAMBDA d : d.job = j)
            IN  IF rows # <<>> THEN [i \in 1..Len(rows) |-> rows[i].dependsOn]
                ELSE SetToSeq({d.dependsOn : d \in {x \in edges : x.job = j}})]

\* PipelineOrchestrator.resolveReadyJobs and dispatchReadyJobs for the edges of
\* a graph that has been validated.
Ready(edges, ex) ==
    {j \in Jobs :
        /\ ex[j] = "none"
        /\ \A d \in edges : d.job = j =>
              d.dependsOn \in Jobs /\ ex[d.dependsOn] \in Satisfying(d.condition)}

Dispatch(ready, ex) == [j \in 1..MaxJobs |-> IF j \in ready THEN "running" ELSE ex[j]]

-----------------------------------------------------------------------------
\* PipelineService.  Positions are unique by constraint.
CreateStage(p, policy) ==
    /\ p \notin DOMAIN stages
    /\ stages' = [q \in DOMAIN stages \cup {p} |->
                    IF q = p THEN [runPolicy |-> policy, jobs |-> <<>>] ELSE stages[q]]
    /\ UNCHANGED <<explicit, run, execution>>

CreateJob(p, k) ==
    /\ JobCount < MaxJobs
    /\ p \in DOMAIN stages /\ k \notin DOMAIN stages[p].jobs
    /\ stages' = [stages EXCEPT ![p].jobs =
                    [q \in DOMAIN @ \cup {k} |-> IF q = k THEN JobCount + 1 ELSE @[q]]]
    /\ UNCHANGED <<explicit, run, execution>>

\* addDependency looks for the other job anywhere; constraints of the table
\* exclude a job itself and a second row for the same pair.
AddDependency(j, d, c) ==
    /\ Len(explicit) < MaxDependencies
    /\ j \in Jobs /\ d \in (Jobs \cup Foreign) \ {j}
    /\ \A i \in 1..Len(explicit) : explicit[i].job # j \/ explicit[i].dependsOn # d
    /\ explicit' = Append(explicit, Edge(j, d, c))
    /\ UNCHANGED <<stages, run, execution>>

\* Mutant: the run is created before its first jobs are looked for.
CreateRunUndispatched ==
    /\ run = "none"
    /\ Acyclic(Jobs, Edges)
    /\ run' = IF Jobs = {} THEN "success" ELSE "running"
    /\ UNCHANGED <<stages, explicit, execution>>

\* createRunInternal.  Both transactions that dispatch build the graph once
\* and are refused when validate finds a cycle, which ValidatorAgrees shows to
\* be when there is one.
CreateRun ==
    \E edges \in {Edges} : \E ready \in {Ready(edges, execution)} :
        /\ run = "none"
        /\ Acyclic(Jobs, edges)
        /\ execution' = Dispatch(ready, execution)
        /\ run' = IF ready = {} THEN "success" ELSE "running"
        /\ UNCHANGED <<stages, explicit>>

\* Mutant: the run is recomputed only when the execution succeeded.
HandleFinalSuccess(j, s) ==
    /\ execution[j] = "running"
    /\ \E edges \in {Edges} : \E ended \in {[execution EXCEPT ![j] = s]} :
        /\ Acyclic(Jobs, edges)
        /\ execution' = Dispatch(Ready(edges, ended), ended)
        /\ run' = IF s = "success" THEN reduce(Range(execution') \ {"none"}) ELSE run
        /\ UNCHANGED <<stages, explicit>>

\* ExecutorEventService.handle for the event that ends an execution: with a
\* cyclic graph dispatchReadyJobs throws, and the event is rolled back.
HandleFinal(j, s) ==
    /\ execution[j] = "running"
    /\ \E edges \in {Edges} : \E ended \in {[execution EXCEPT ![j] = s]} :
        /\ Acyclic(Jobs, edges)
        /\ execution' = Dispatch(Ready(edges, ended), ended)
        /\ run' = reduce(Range(execution') \ {"none"})
        /\ UNCHANGED <<stages, explicit>>

-----------------------------------------------------------------------------
Edit ==
    \/ \E p \in Position, policy \in {"sequential", "parallel"} : CreateStage(p, policy)
    \/ \E p, k \in Position : CreateJob(p, k)
    \/ \E j \in 1..MaxJobs, d \in (1..MaxJobs) \cup Foreign, c \in RowCondition :
           AddDependency(j, d, c)

EndJob == \E j \in 1..MaxJobs, s \in {"success", "failed"} : HandleFinal(j, s)

Next == Edit \/ CreateRun \/ EndJob

\* Executors finish the jobs they have been given.
Spec == Init /\ [][Next]_vars /\ WF_vars(EndJob)

-----------------------------------------------------------------------------
\* validate accepts exactly the graphs without a cycle among the jobs of the
\* pipeline, whatever the order of stages, jobs and dependency rows, and
\* whatever foreign jobs they name (ExecutionGraphValidator.hasCycle).
ValidatorAgrees == validate(Graph) <=> Acyclic(Jobs, Edges)

\* Stage order and run policies alone never make a pipeline cyclic, in
\* whatever order its stages and jobs were created: it takes a dependency row
\* (ExecutionGraphBuilder.build).
CycleTakesARow == validate(Graph) \/ explicit # <<>>

\* A run of a pipeline with jobs starts with work to do, unless one of the
\* jobs waits for a job of another pipeline; then it may be a success at once
\* (createRunInternal, resolveReadyJobs).
RunStartsWorking ==
    [][run = "none" /\ run' # "none" /\ Jobs # {} =>
          \/ \E j \in Jobs : execution'[j] = "running"
          \/ \E d \in Edges : d.dependsOn \in Foreign]_vars

\* Whatever is added to the pipeline meanwhile, its run finishes, unless the
\* additions close a cycle: then the events of its executions are refused
\* until it is gone (resolveReadyJobs validates at every dispatch).
RunFinishesUnlessCyclic ==
    run = "running" ~> run \in FinalRunStatus \/ ~Acyclic(Jobs, Edges)

=============================================================================
