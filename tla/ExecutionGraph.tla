--------------------------- MODULE ExecutionGraph ---------------------------
(***************************************************************************)
(* The dependency graph of a pipeline, as ExecutionGraphBuilder derives it *)
(* from the stages, their jobs and the explicit job_dependency rows.       *)
(*                                                                         *)
(* A pipeline is a sequence of stages in position order; a stage is a      *)
(* record of its run_policy and the sequence of its jobs in position       *)
(* order.  An edge says which job waits for which job, and on what         *)
(* condition.                                                              *)
(***************************************************************************)
EXTENDS Naturals, Sequences

Edge(j, d, c) == [job |-> j, dependsOn |-> d, condition |-> c]

\* An explicit dependency replaces every implicit one of the job.
hasExplicit(explicit, j) == \E d \in explicit : d.job = j

\* Mutant: the first job of a stage waits for its last one.
RoundRobinEdges(stages) ==
    UNION {LET jobs == stages[i].jobs
           IN  {Edge(jobs[k], jobs[IF k = 1 THEN Len(jobs) ELSE k - 1], "on_success") :
                   k \in 1..Len(jobs)} :
           i \in {n \in 1..Len(stages) : stages[n].runPolicy = "sequential"}}

\* Within a sequential stage each job waits for the job before it.
SequentialEdges(stages) ==
    UNION {{Edge(stages[i].jobs[k], stages[i].jobs[k - 1], "on_success") :
                k \in 2..Len(stages[i].jobs)} :
           i \in {n \in 1..Len(stages) : stages[n].runPolicy = "sequential"}}

\* Mutant: the last job of the stage before stands for the whole stage.
LastJobEdges(stages) ==
    UNION {{Edge(stages[i].jobs[k], stages[i - 1].jobs[Len(stages[i - 1].jobs)],
                 "on_success") : k \in 1..Len(stages[i].jobs)} :
           i \in {n \in 2..Len(stages) : stages[n - 1].jobs # <<>>}}

\* A job waits for every job of the stage immediately before its own.
StageEdges(stages) ==
    UNION {{Edge(stages[i].jobs[k], stages[i - 1].jobs[m], "on_success") :
                k \in 1..Len(stages[i].jobs), m \in 1..Len(stages[i - 1].jobs)} :
           i \in 2..Len(stages)}

build(stages, explicit) ==
    explicit \cup {d \in SequentialEdges(stages) \cup StageEdges(stages) :
                       ~hasExplicit(explicit, d.job)}

\* The graphs ExecutionGraphValidator.validate lets through: there are no jobs
\* that all wait for one another.  A dependency on a job outside the graph
\* (job_dependency rows may name one) closes no cycle.
Acyclic(jobs, deps) ==
    ~\E S \in SUBSET jobs :
        /\ S # {}
        /\ \A j \in S : \E d \in deps : d.job = j /\ d.dependsOn \in S

=============================================================================
