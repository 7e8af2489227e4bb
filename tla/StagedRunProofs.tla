-------------------------- MODULE StagedRunProofs --------------------------
(***************************************************************************)
(* The barrier between neighbouring stages, for every pipeline, and what a *)
(* cycle in its graph takes.                                               *)
(***************************************************************************)
EXTENDS StagedRun, PipelineRunProofs, WellFoundedInduction

\* A job without explicit dependencies has an on_success edge to every job of
\* the stage before its own (ExecutionGraphBuilder.build).
LEMMA StageBarrier ==
    ASSUME NEW i \in 2..Len(Stages), NEW j \in StageJobs(i), ~hasExplicit(Explicit, j),
           NEW u \in StageJobs(i - 1)
    PROVE  Edge(j, u, "on_success") \in Deps
<1>1. PICK k \in 1..Len(Stages[i].jobs) : j = Stages[i].jobs[k]
  BY DEF StageJobs
<1>2. PICK m \in 1..Len(Stages[i - 1].jobs) : u = Stages[i - 1].jobs[m]
  BY DEF StageJobs
<1>3. Edge(j, u, "on_success") \in StageEdges(Stages)
  BY <1>1, <1>2 DEF StageEdges
<1>4. Edge(j, u, "on_success").job = j
  BY DEF Edge
<1>5. QED  BY <1>3, <1>4, StagesAssumption DEF build

\* A job starts only after every job of the previous stage has succeeded, in
\* every run of every pipeline.
THEOREM StagesAreOrdered == Spec => []PreviousStageFirst
<1>1. OnSuccessHonoured => PreviousStageFirst
  <2> SUFFICES ASSUME OnSuccessHonoured, NEW i \in 2..Len(Stages), NEW j \in StageJobs(i),
                      Started(j), ~hasExplicit(Explicit, j), NEW u \in StageJobs(i - 1)
               PROVE  Succeeded(u)
    BY DEF PreviousStageFirst
  <2>1. Edge(j, u, "on_success") \in Deps
    BY StageBarrier
  <2>2. /\ Edge(j, u, "on_success").job = j
        /\ Edge(j, u, "on_success").dependsOn = u
        /\ Edge(j, u, "on_success").condition = "on_success"
    BY DEF Edge
  <2>3. QED  BY <2>1, <2>2 DEF OnSuccessHonoured, Started, Succeeded
<1>2. QED  BY <1>1, OnSuccessIsHonoured, PTL

-----------------------------------------------------------------------------
\* The place of a job: its stage and its position there.

Place(stages) == {p \in Nat \X Nat : /\ p[1] \in 1..Len(stages)
                                    /\ p[2] \in 1..Len(stages[p[1]].jobs)}
JobAt(stages, p) == stages[p[1]].jobs[p[2]]

Before(p, q) == p[1] < q[1] \/ (p[1] = q[1] /\ p[2] < q[2])

\* A row of job has one stage_id and one position.
OnePlace(stages) ==
    \A p, q \in Place(stages) : JobAt(stages, p) = JobAt(stages, q) => p = q

\* Job d has a place before one of job j.
Earlier(stages, d, j) ==
    \E p, q \in Place(stages) : /\ JobAt(stages, p) = d /\ JobAt(stages, q) = j
                               /\ Before(p, q)

LEMMA FirstPlace ==
    ASSUME NEW T, T \subseteq Nat \X Nat, T # {}
    PROVE  \E p \in T : \A q \in T : ~Before(q, p)
<1> DEFINE Less == OpToRel(<, Nat)
           Lex == LexPairOrdering(Less, Less, Nat, Nat)
<1>1. IsWellFoundedOn(Less, Nat)
  BY NatLessThanWellFounded
<1>2. \A m, n \in Nat : <<m, n>> \in Less <=> m < n
  BY DEF OpToRel
<1> HIDE DEF Less
<1>3. IsWellFoundedOn(Lex, Nat \X Nat)
  BY <1>1, WFLexPairOrdering
<1>4. \A p, q \in Nat \X Nat : Before(q, p) => <<q, p>> \in Lex
  BY <1>2 DEF Before, LexPairOrdering
<1> HIDE DEF Lex
<1>5. PICK p \in T : \A q \in T : ~(<<q, p>> \in Lex)
  BY <1>3, WFMin
<1>6. QED  BY <1>4, <1>5

LEMMA PlaceOf ==
    ASSUME NEW stages, NEW i \in Nat, i \in 1..Len(stages), NEW k \in Nat,
           k \in 1..Len(stages[i].jobs)
    PROVE  <<i, k>> \in Place(stages)
BY DEF Place

\* The edges build adds of itself lead to an earlier place.
LEMMA ImplicitEdgesLeadBack ==
    ASSUME NEW J, NEW stages \in Seq([runPolicy : {"sequential", "parallel"}, jobs : Seq(J)]),
           NEW d \in SequentialEdges(stages) \cup StageEdges(stages)
    PROVE  Earlier(stages, d.dependsOn, d.job)
<1>1. \A i \in 1..Len(stages) : i \in Nat /\ Len(stages[i].jobs) \in Nat
  OBVIOUS
<1>2. CASE d \in SequentialEdges(stages)
  <2>1. PICK i \in 1..Len(stages) : \E k \in 2..Len(stages[i].jobs) :
            d = Edge(stages[i].jobs[k], stages[i].jobs[k - 1], "on_success")
    BY <1>2 DEF SequentialEdges
  <2>2. PICK k \in 2..Len(stages[i].jobs) :
            d = Edge(stages[i].jobs[k], stages[i].jobs[k - 1], "on_success")
    BY <2>1
  <2>3. <<i, k - 1>> \in Place(stages) /\ <<i, k>> \in Place(stages)
    <3>1. /\ i \in Nat /\ k \in Nat /\ k - 1 \in Nat
          /\ k \in 1..Len(stages[i].jobs) /\ k - 1 \in 1..Len(stages[i].jobs)
      BY <1>1
    <3>2. QED  BY <3>1, PlaceOf
  <2>4. Before(<<i, k - 1>>, <<i, k>>)
    BY <1>1, <2>2 DEF Before
  <2>5. QED  BY <2>2, <2>3, <2>4 DEF Earlier, JobAt, Edge
<1>3. CASE d \in StageEdges(stages)
  <2> DEFINE Into(i) == {Edge(stages[i].jobs[k], stages[i - 1].jobs[m], "on_success") :
                            k \in 1..Len(stages[i].jobs), m \in 1..Len(stages[i - 1].jobs)}
  <2>1. PICK i \in 2..Len(stages) : d \in Into(i)
    <3>1. StageEdges(stages) = UNION {Into(i) : i \in 2..Len(stages)}
      BY DEF StageEdges
    <3> HIDE DEF Into
    <3>2. QED  BY <1>3, <3>1
  <2>2. PICK k \in 1..Len(stages[i].jobs), m \in 1..Len(stages[i - 1].jobs) :
            d = Edge(stages[i].jobs[k], stages[i - 1].jobs[m], "on_success")
    BY <2>1
  <2> HIDE DEF Into
  <2>3. i - 1 \in 1..Len(stages) /\ i \in 1..Len(stages) /\ i - 1 < i
    OBVIOUS
  <2>4. <<i - 1, m>> \in Place(stages) /\ <<i, k>> \in Place(stages)
    <3>1. i \in Nat /\ i - 1 \in Nat /\ k \in Nat /\ m \in Nat
      BY <1>1, <2>3
    <3>2. QED  BY <2>3, <3>1, PlaceOf
  <2>5. Before(<<i - 1, m>>, <<i, k>>)
    BY <2>3 DEF Before
  <2>6. QED  BY <2>2, <2>4, <2>5 DEF Earlier, JobAt, Edge
<1>4. QED  BY <1>2, <1>3

\* A pipeline is cyclic only if one of its dependency rows lets a job wait for
\* a job of the pipeline that does not come before it: stage order and run
\* policies close no cycle, and neither do rows that follow the stage order or
\* name a job of another pipeline, so that ExecutionGraphValidator accepts
\* every graph that build makes of such rows (ExecutionGraphBuilder.build).
THEOREM CycleTakesARowForward ==
    ASSUME NEW J, NEW stages \in Seq([runPolicy : {"sequential", "parallel"}, jobs : Seq(J)]),
           OnePlace(stages), NEW explicit,
           \A d \in explicit : d.dependsOn \notin J \/ Earlier(stages, d.dependsOn, d.job)
    PROVE  Acyclic(J, build(stages, explicit))
<1> SUFFICES ASSUME NEW S \in SUBSET J, S # {},
                    \A j \in S : \E d \in build(stages, explicit) :
                        d.job = j /\ d.dependsOn \in S
             PROVE  FALSE
  BY DEF Acyclic
<1>1. \A j \in S : \E u \in S : Earlier(stages, u, j)
  <2> SUFFICES ASSUME NEW j \in S PROVE \E u \in S : Earlier(stages, u, j)
    OBVIOUS
  <2>1. PICK d \in build(stages, explicit) : d.job = j /\ d.dependsOn \in S
    OBVIOUS
  <2>2. d \in explicit \/ d \in SequentialEdges(stages) \cup StageEdges(stages)
    BY DEF build
  <2>3. QED  BY <2>1, <2>2, ImplicitEdgesLeadBack
<1> DEFINE T == {p \in Place(stages) : JobAt(stages, p) \in S}
<1>2. T \subseteq Nat \X Nat
  BY DEF Place
<1>3. T # {}
  BY <1>1 DEF Earlier
<1>4. PICK p \in T : \A q \in T : ~Before(q, p)
  BY <1>2, <1>3, FirstPlace
<1>5. PICK u \in S, q \in Place(stages), r \in Place(stages) :
          JobAt(stages, q) = u /\ JobAt(stages, r) = JobAt(stages, p) /\ Before(q, r)
  BY <1>1, <1>4 DEF Earlier
<1>6. r = p /\ q \in T
  BY <1>5 DEF OnePlace
<1>7. QED  BY <1>4, <1>5, <1>6

=============================================================================
