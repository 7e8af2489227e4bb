--------------------------- MODULE GraphValidator ---------------------------
(***************************************************************************)
(* The cycle check of ExecutionGraphValidator: a depth-first search over   *)
(* the dependency lists of a graph.  A graph is a function from its jobs   *)
(* to the sequences of jobs they wait for, which may name jobs of other    *)
(* pipelines.                                                              *)
(***************************************************************************)
EXTENDS Sequences

\* The answer of a call and the two sets it leaves behind.
Answer(cycle, visiting, visited) ==
    [cycle |-> cycle, visiting |-> visiting, visited |-> visited]

DependenciesOf(graph, j) == IF j \in DOMAIN graph THEN graph[j] ELSE <<>>

\* The loop over the dependencies stops at the first cycle.
RECURSIVE hasCycle(_, _, _, _)
hasCycle(current, graph, visiting, visited) ==
    LET RECURSIVE search(_, _)
        search(deps, found) ==
            IF deps = <<>> \/ found.cycle THEN found
            ELSE search(Tail(deps), hasCycle(Head(deps), graph, found.visiting, found.visited))
        loop == search(DependenciesOf(graph, current),
                       Answer(FALSE, visiting \cup {current}, visited))
    IN  IF current \in visited THEN Answer(FALSE, visiting, visited)
        ELSE IF current \in visiting THEN Answer(TRUE, visiting, visited)
        ELSE IF loop.cycle THEN loop
        ELSE Answer(FALSE, loop.visiting \ {current}, loop.visited \cup {current})

\* Mutant: one search stands for all.
validateOneJob(graph) ==
    DOMAIN graph = {} \/ ~hasCycle(CHOOSE j \in DOMAIN graph : TRUE, graph, {}, {}).cycle

\* Every job of the graph is searched with fresh sets.
validate(graph) == \A j \in DOMAIN graph : ~hasCycle(j, graph, {}, {}).cycle

=============================================================================
