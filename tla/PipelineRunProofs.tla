-------------------------- MODULE PipelineRunProofs --------------------------
(***************************************************************************)
(* Proofs about PipelineRun for every pipeline, every dependency graph and *)
(* every number of attempts, up to the refinement of ExecutionLifecycle.   *)
(***************************************************************************)
EXTENDS RunLifecycle, TLAPS

\* A run status is final only if every execution has a final status: no
\* active status hides from PipelineStateReducer.reduce.
LEMMA ReduceFinal ==
    ASSUME NEW S, S \subseteq JobExecutionStatus, reduce(S) \in FinalRunStatus
    PROVE  S \subseteq FinalStatus
<1>1. /\ S # {} /\ "canceling" \notin S /\ "waiting_approval" \notin S
      /\ S \cap {"queued", "running", "retrying"} = {}
  BY DEF reduce, FinalRunStatus
<1>2. QED  BY <1>1 DEF JobExecutionStatus, ActiveStatus

\* What reduce returns is a run status.
LEMMA ReduceType == \A S : reduce(S) \in PipelineRunStatus
BY DEF reduce, PipelineRunStatus, FinalRunStatus

\* No transition leaves a final status.
LEMMA FinalHasNoSuccessor ==
    ASSUME NEW from \in FinalStatus, NEW to, canTransition(from, to)
    PROVE  from = to
BY DEF canTransition, Successors, FinalStatus

\* The executions that dispatchReadyJobs creates had no row before.
LEMMA FirstAttemptsAreNew ==
    ASSUME NEW st, NEW e \in FirstAttempts(st)
    PROVE  /\ e \in Execution
           /\ st[e] = "none"
           /\ AttemptsOf(st, e[1]) = {}
           /\ dependenciesSatisfied(st, e[1])
<1>1. PICK j \in Job : /\ e = <<j, 1>>
                       /\ AttemptsOf(st, j) = {}
                       /\ dependenciesSatisfied(st, j)
  BY DEF FirstAttempts, resolveReadyJobs
<1>2. 1 \in Attempt
  BY JobAssumption DEF Attempt
<1>3. QED  BY <1>1, <1>2 DEF AttemptsOf, Execution

\* What CreateExecutions writes, row by row.
LEMMA Created ==
    ASSUME TypeOK, NEW C \in SUBSET Execution,
           NEW st \in [Execution -> JobExecutionStatus \cup {"none"}],
           CreateExecutions(C, st)
    PROVE  /\ status' \in [Execution -> JobExecutionStatus \cup {"none"}]
           /\ approval' \in [Execution -> {"none", "pending", "approved", "rejected"}]
           /\ dispatched' \in [Execution -> Nat]
           /\ \A e \in Execution \ C : /\ status'[e] = st[e]
                                       /\ approval'[e] = approval[e]
                                       /\ dispatched'[e] = dispatched[e]
           /\ \A e \in C :
                 \/ /\ e[1] \in Protected
                    /\ status'[e] = "waiting_approval"
                    /\ approval'[e] = "pending"
                    /\ dispatched'[e] = dispatched[e]
                 \/ /\ e[1] \notin Protected
                    /\ status'[e] = "queued"
                    /\ approval'[e] = approval[e]
                    /\ dispatched'[e] = dispatched[e] + 1
BY DEF CreateExecutions, TypeOK, JobExecutionStatus, ActiveStatus

-----------------------------------------------------------------------------
\* The initial state, in which the run has no row, satisfies the invariant.
LEMMA InitIndInv == Init => IndInv
<1> SUFFICES ASSUME Init PROVE IndInv
  OBVIOUS
<1>1. TypeOK
  BY DEF Init, TypeOK
<1>2. RowsConsistent /\ DispatchGated /\ FinishedRunIsQuiet
  BY DEF Init, RowsConsistent, DispatchGated, FinishedRunIsQuiet, FinalRunStatus
<1>3. OnSuccessHonoured
  BY DEF Init, OnSuccessHonoured, AttemptsOf
<1>4. QED  BY <1>1, <1>2, <1>3 DEF IndInv

\* Creating executions keeps RowsConsistent and DispatchGated, provided the
\* rows are new and the transaction leaves the approvals behind waiting
\* executions alone.
LEMMA CreatedRows ==
    ASSUME IndInv, NEW C \in SUBSET Execution,
           NEW st \in [Execution -> JobExecutionStatus \cup {"none"}],
           \A e \in C : status[e] = "none",
           \A e \in Execution :
               /\ st[e] = "none" => status[e] = "none"
               /\ st[e] = "waiting_approval" => status[e] = "waiting_approval",
           CreateExecutions(C, st), runStatus' # "none"
    PROVE  RowsConsistent' /\ DispatchGated'
<1> USE DEF IndInv, RowsConsistent, DispatchGated
<1>1. \A e \in Execution \ C : /\ status'[e] = st[e]
                               /\ approval'[e] = approval[e]
                               /\ dispatched'[e] = dispatched[e]
  BY Created
<1>2. ASSUME NEW e \in C
      PROVE  \/ /\ status'[e] = "waiting_approval"
                /\ approval'[e] = "pending"
                /\ dispatched'[e] = 0
             \/ /\ status'[e] = "queued"
                /\ approval'[e] = "none"
                /\ dispatched'[e] = 1
                /\ e[1] \notin Protected
  <2>1. approval[e] = "none" /\ dispatched[e] = 0
    BY e \in Execution
  <2>2. QED  BY <2>1, Created
<1>3. RowsConsistent'
  BY <1>1, <1>2
<1>4. DispatchGated'
  BY <1>1, <1>2
<1>5. QED  BY <1>3, <1>4

\* An on_success dependency stays honoured across a step that keeps every
\* success on record and starts a job only if it had been started before or
\* its dependencies are satisfied by statuses the step leaves in place.
LEMMA HonouredKept ==
    ASSUME IndInv,
           \A e \in Execution : status[e] = "success" => status'[e] = "success",
           \A j \in Job : AttemptsOf(status', j) # {} =>
               \/ AttemptsOf(status, j) # {}
               \/ \E st : /\ dependenciesSatisfied(st, j)
                          /\ \A e \in Execution :
                                 st[e] = "success" => status'[e] = "success"
    PROVE  OnSuccessHonoured'
<1> SUFFICES ASSUME NEW d \in Deps, d.condition = "on_success",
                    AttemptsOf(status', d.job) # {}
             PROVE  \E a \in AttemptsOf(status', d.dependsOn) :
                        status'[<<d.dependsOn, a>>] = "success"
  BY DEF OnSuccessHonoured
<1>1. CASE AttemptsOf(status, d.job) # {}
  <2>1. PICK a \in AttemptsOf(status, d.dependsOn) :
               status[<<d.dependsOn, a>>] = "success"
    BY <1>1 DEF IndInv, OnSuccessHonoured
  <2>2. QED  BY <2>1 DEF AttemptsOf
<1>2. CASE AttemptsOf(status, d.job) = {}
  <2>1. PICK st : /\ dependenciesSatisfied(st, d.job)
                  /\ \A e \in Execution :
                         st[e] = "success" => status'[e] = "success"
    BY <1>2, DepsAssumption
  <2>2. PICK a \in Latest(st, d.dependsOn) :
               st[<<d.dependsOn, a>>] \in Satisfying(d.condition)
    BY <2>1 DEF dependenciesSatisfied
  <2>3. st[<<d.dependsOn, a>>] = "success"
    BY <2>2 DEF Satisfying
  <2>4. QED  BY <2>1, <2>2, <2>3 DEF Latest, AttemptsOf
<1>3. QED  BY <1>1, <1>2

\* recomputeRunStatus never marks a run final over an active execution.
LEMMA RecomputeQuiet ==
    ASSUME status' \in [Execution -> JobExecutionStatus \cup {"none"}],
           runFinished \in BOOLEAN, RecomputeRunStatus
    PROVE  /\ runStatus' \in PipelineRunStatus
           /\ runFinished' \in BOOLEAN
           /\ FinishedRunIsQuiet'
<1>1. runStatus' \in PipelineRunStatus /\ runFinished' \in BOOLEAN
  BY ReduceType DEF RecomputeRunStatus
<1>2. ASSUME runStatus' \in FinalRunStatus
      PROVE  /\ runFinished'
             /\ \A e \in Execution : status'[e] \in FinalStatus \cup {"none"}
  <2>1. Statuses(status') \subseteq JobExecutionStatus
    BY DEF Statuses
  <2>2. Statuses(status') \subseteq FinalStatus
    BY <1>2, <2>1, ReduceFinal DEF RecomputeRunStatus
  <2>3. QED  BY <1>2, <2>2 DEF Statuses, RecomputeRunStatus
<1>3. QED  BY <1>1, <1>2 DEF FinishedRunIsQuiet

LEMMA NoneIsNoStatus ==
    /\ "none" \notin PipelineRunStatus /\ "none" \notin JobExecutionStatus
    /\ FinalRunStatus \subseteq PipelineRunStatus
    /\ FinalStatus \subseteq JobExecutionStatus
    /\ {"running", "waiting_approval", "canceling", "success"} \subseteq PipelineRunStatus
    /\ {"queued", "waiting_approval", "running", "canceling", "retrying"}
           \subseteq JobExecutionStatus
BY DEF PipelineRunStatus, FinalRunStatus, JobExecutionStatus, FinalStatus, ActiveStatus

-----------------------------------------------------------------------------
\* createRun keeps the invariant.
LEMMA CreateRunInd == IndInv /\ CreateRun => IndInv'
<1> SUFFICES ASSUME IndInv, CreateRun PROVE IndInv'
  OBVIOUS
<1> DEFINE C == FirstAttempts(status)
<1>1. C \in SUBSET Execution /\ \A e \in C : status[e] = "none"
  BY FirstAttemptsAreNew
<1>2. /\ status \in [Execution -> JobExecutionStatus \cup {"none"}]
      /\ \A e \in Execution : status[e] = "none"
  BY DEF IndInv, TypeOK, RowsConsistent, CreateRun
<1>3. CreateExecutions(C, status)
  BY DEF CreateRun
<1> HIDE DEF C
<1>3a. /\ status' \in [Execution -> JobExecutionStatus \cup {"none"}]
       /\ approval' \in [Execution -> {"none", "pending", "approved", "rejected"}]
       /\ dispatched' \in [Execution -> Nat]
       /\ \A e \in Execution \ C : status'[e] = status[e]
  BY <1>1, <1>2, <1>3, Created DEF IndInv
<1>4. /\ runStatus' \in {"success", "waiting_approval", "running"}
      /\ runStatus' = "success" => C = {} /\ runFinished'
      /\ runFinished' \in BOOLEAN
  BY DEF CreateRun, ActivateRun, IndInv, TypeOK, C
<1>5. TypeOK'
  BY <1>4, <1>3a, NoneIsNoStatus DEF IndInv, TypeOK, CreateRun
<1>6. RowsConsistent' /\ DispatchGated'
  BY <1>1, <1>2, <1>3, <1>4, CreatedRows
<1>7. FinishedRunIsQuiet'
  <2>1. SUFFICES ASSUME runStatus' \in FinalRunStatus
                 PROVE  /\ runFinished'
                        /\ \A e \in Execution : status'[e] \in FinalStatus \cup {"none"}
    BY DEF FinishedRunIsQuiet
  <2>2. C = {} /\ runFinished'
    BY <1>4, <2>1 DEF FinalRunStatus
  <2>3. \A e \in Execution : status'[e] = status[e]
    BY <1>3a, <2>2
  <2>4. QED  BY <1>2, <2>2, <2>3
<1>8. OnSuccessHonoured'
  <2>1. \A e \in Execution : status[e] = "success" => status'[e] = "success"
    BY <1>2
  <2>2. ASSUME NEW j \in Job, AttemptsOf(status', j) # {}
        PROVE  dependenciesSatisfied(status, j)
    <3>1. PICK a \in Attempt : <<j, a>> \in Execution /\ status'[<<j, a>>] # "none"
      BY <2>2 DEF AttemptsOf
    <3>2. <<j, a>> \in C
      BY <3>1, <1>2, <1>3a
    <3>3. QED  BY <3>2, FirstAttemptsAreNew DEF C
  <2>3. QED  BY <2>1, <2>2, HonouredKept
<1>9. QED  BY <1>5, <1>6, <1>7, <1>8 DEF IndInv

\* handle keeps the invariant, for an event of any status an executor may
\* report about an execution it was given.
LEMMA HandleEventInd ==
    ASSUME IndInv, NEW e \in Execution, NEW s \in EventStatus, NEW error,
           NEW hasTimes \in BOOLEAN, HandleEvent(e, s, error, hasTimes)
    PROVE  IndInv'
<1> DEFINE accepted == canTransition(status[e], s)
           written == [status EXCEPT ![e] = IF accepted THEN s ELSE @]
           C == FirstAttempts(written)
<1>1. /\ status \in [Execution -> JobExecutionStatus \cup {"none"}]
      /\ runStatus # "none"
      /\ status[e] \notin {"none", "waiting_approval"}
      /\ runStatus \in PipelineRunStatus
  BY DEF IndInv, TypeOK, RowsConsistent, HandleEvent
<1>2. s \in {"running"} \cup FinalStatus /\ s \in JobExecutionStatus
      /\ s \notin {"none", "waiting_approval"}
  BY EventAssumption, NoneIsNoStatus DEF FinalStatus
<1>3. /\ written \in [Execution -> JobExecutionStatus \cup {"none"}]
      /\ \A x \in Execution : x # e => written[x] = status[x]
      /\ written[e] = IF accepted THEN s ELSE status[e]
      /\ written[e] \notin {"none", "waiting_approval"}
  BY <1>1, <1>2
<1>4. \A x \in Execution : status[x] \in FinalStatus => written[x] = status[x]
  BY <1>3, FinalHasNoSuccessor
<1>5. /\ retryable' \in [Execution -> BOOLEAN]
      /\ timed' \in [Execution -> BOOLEAN]
      /\ cancelSent' = cancelSent
  BY DEF HandleEvent, IndInv, TypeOK
<1>6. CASE accepted /\ s \in FinalStatus
  <2>1. CreateExecutions(C, written) /\ RecomputeRunStatus
    BY <1>6 DEF HandleEvent
  <2>2. C \in SUBSET Execution /\ \A x \in C : written[x] = "none"
    BY FirstAttemptsAreNew
  <2>3. \A x \in C : x # e /\ status[x] = "none"
    BY <2>2, <1>3
  <2> HIDE DEF C, written, accepted
  <2>4. /\ status' \in [Execution -> JobExecutionStatus \cup {"none"}]
        /\ approval' \in [Execution -> {"none", "pending", "approved", "rejected"}]
        /\ dispatched' \in [Execution -> Nat]
        /\ \A x \in Execution \ C : status'[x] = written[x]
    <3>1. /\ TypeOK /\ C \in SUBSET Execution
          /\ written \in [Execution -> JobExecutionStatus \cup {"none"}]
          /\ CreateExecutions(C, written)
      BY <1>3, <2>1, <2>2 DEF IndInv
    <3>2. QED  BY <3>1, Created
  <2>5. /\ runStatus' \in PipelineRunStatus
        /\ runFinished' \in BOOLEAN
        /\ FinishedRunIsQuiet'
    BY <2>1, <2>4, RecomputeQuiet DEF IndInv, TypeOK
  <2>6. TypeOK'
    BY <2>4, <2>5, <1>5 DEF IndInv, TypeOK
  <2>7. RowsConsistent' /\ DispatchGated'
    BY <1>3, <2>1, <2>2, <2>3, <2>5, CreatedRows, NoneIsNoStatus
  <2>8. OnSuccessHonoured'
    <3>1. \A x \in Execution :
              /\ status[x] = "success" => status'[x] = "success"
              /\ written[x] = "success" => status'[x] = "success"
      BY <1>4, <2>2, <2>4 DEF FinalStatus
    <3>2. ASSUME NEW j \in Job, AttemptsOf(status', j) # {},
                 AttemptsOf(status, j) = {}
          PROVE  dependenciesSatisfied(written, j)
      <4>1. PICK a \in Attempt : <<j, a>> \in Execution /\ status'[<<j, a>>] # "none"
        BY <3>2 DEF AttemptsOf
      <4>2. status[<<j, a>>] = "none"
        BY <3>2, <4>1 DEF AttemptsOf
      <4>3. <<j, a>> \in C
        BY <4>1, <4>2, <1>1, <1>3, <2>4
      <4>4. QED  BY <4>3, FirstAttemptsAreNew DEF C
    <3>3. QED  BY <3>1, <3>2, HonouredKept
  <2>9. QED  BY <2>5, <2>6, <2>7, <2>8 DEF IndInv
<1>7. CASE ~(accepted /\ s \in FinalStatus)
  <2>1. /\ status' = written
        /\ UNCHANGED <<runStatus, runFinished, approval, dispatched>>
    BY <1>7 DEF HandleEvent
  <2> HIDE DEF C, written
  <2>2. TypeOK'
    BY <2>1, <1>3, <1>5 DEF IndInv, TypeOK
  <2>3. RowsConsistent' /\ DispatchGated'
    BY <2>1, <1>1, <1>3 DEF IndInv, RowsConsistent, DispatchGated
  <2>4. FinishedRunIsQuiet'
    <3>1. ASSUME runStatus \in FinalRunStatus, NEW x \in Execution
          PROVE  written[x] = status[x] /\ status[x] \in FinalStatus \cup {"none"}
      BY <3>1, <1>1, <1>3, <1>4 DEF IndInv, FinishedRunIsQuiet
    <3>2. QED  BY <2>1, <3>1 DEF IndInv, FinishedRunIsQuiet
  <2>5. OnSuccessHonoured'
    <3>1. \A x \in Execution : status[x] = "success" => status'[x] = "success"
      BY <1>4, <2>1 DEF FinalStatus
    <3>2. \A j \in Job : AttemptsOf(status', j) # {} => AttemptsOf(status, j) # {}
      BY <1>1, <1>3, <2>1 DEF AttemptsOf
    <3>3. QED  BY <3>1, <3>2, HonouredKept
  <2>6. QED  BY <2>2, <2>3, <2>4, <2>5 DEF IndInv
<1>8. QED  BY <1>6, <1>7

\* Steps that touch existing executions only keep OnSuccessHonoured if they
\* keep every success.
LEMMA HonouredByOldRows ==
    ASSUME IndInv,
           \A e \in Execution : /\ status[e] = "success" => status'[e] = "success"
                                /\ status[e] = "none" => status'[e] = "none"
    PROVE  OnSuccessHonoured'
<1>1. \A j \in Job : AttemptsOf(status', j) # {} => AttemptsOf(status, j) # {}
  BY DEF AttemptsOf
<1>2. QED  BY <1>1, HonouredKept

\* cancelRun keeps the invariant.
LEMMA CancelRunInd == IndInv /\ CancelRun => IndInv'
<1> SUFFICES ASSUME IndInv, CancelRun PROVE IndInv'
  OBVIOUS
<1> USE NoneIsNoStatus DEF IndInv
<1>1. \A e \in Execution :
          \/ status'[e] = status[e]
          \/ /\ status'[e] = "canceling"
             /\ status[e] \notin FinalStatus \cup {"none"}
  BY DEF CancelRun, TypeOK, FinalStatus
<1>2. TypeOK'
  BY DEF CancelRun, TypeOK
<1>3. RowsConsistent' /\ DispatchGated' /\ FinishedRunIsQuiet'
  BY <1>1 DEF CancelRun, RowsConsistent, DispatchGated, FinishedRunIsQuiet, FinalRunStatus
<1>4. OnSuccessHonoured'
  BY <1>1, HonouredByOldRows DEF FinalStatus
<1>5. QED  BY <1>2, <1>3, <1>4

\* JobExecutionService.cancel keeps the invariant.
LEMMA CancelExecutionInd ==
    ASSUME IndInv, NEW e \in Execution, CancelExecution(e)
    PROVE  IndInv'
<1> USE NoneIsNoStatus DEF IndInv
<1>1. /\ \A x \in Execution : x # e => status'[x] = status[x]
      /\ status'[e] = "canceling"
      /\ status[e] \notin FinalStatus \cup {"none"}
      /\ UNCHANGED <<runStatus, runFinished, approval, dispatched>>
  BY DEF CancelExecution, TypeOK
<1>2. TypeOK'
  BY DEF CancelExecution, TypeOK
<1>3. RowsConsistent' /\ DispatchGated'
  BY <1>1 DEF RowsConsistent, DispatchGated
<1>4. FinishedRunIsQuiet'
  BY <1>1 DEF FinishedRunIsQuiet
<1>5. OnSuccessHonoured'
  BY <1>1, HonouredByOldRows DEF FinalStatus
<1>6. QED  BY <1>2, <1>3, <1>4, <1>5

\* A candidate for a retry has a row and has not succeeded.
LEMMA Candidate ==
    ASSUME NEW e \in Execution, isRetryCandidate(e)
    PROVE  status[e] \in FinalStatus \ {"success"}
BY DEF isRetryCandidate, FinalStatus

\* Both retries keep the invariant: old executions are candidates, new ones
\* have no row yet and belong to the same jobs.
LEMMA RetryInd ==
    ASSUME IndInv, NEW old \in SUBSET Execution, NEW new \in SUBSET Execution,
           \A e \in old : isRetryCandidate(e),
           \A e \in new : status[e] = "none" /\ \E x \in old : x[1] = e[1],
           Retry(old, new)
    PROVE  IndInv'
<1> DEFINE st == [e \in Execution |-> IF e \in old THEN "retrying" ELSE status[e]]
<1> USE NoneIsNoStatus
<1>1. /\ TypeOK
      /\ st \in [Execution -> JobExecutionStatus \cup {"none"}]
      /\ CreateExecutions(new, st)
  BY DEF IndInv, TypeOK, Retry
<1>2. \A e \in old : status[e] \in FinalStatus \ {"success"}
  BY Candidate
<1>3. \A e \in Execution :
          /\ st[e] = "none" => status[e] = "none"
          /\ st[e] = "waiting_approval" => status[e] = "waiting_approval"
          /\ status[e] = "success" => st[e] = "success"
          /\ status[e] = "none" => st[e] = "none"
  BY <1>2
<1> HIDE DEF st
<1>4. /\ status' \in [Execution -> JobExecutionStatus \cup {"none"}]
      /\ approval' \in [Execution -> {"none", "pending", "approved", "rejected"}]
      /\ dispatched' \in [Execution -> Nat]
      /\ \A e \in Execution \ new : status'[e] = st[e]
  BY <1>1, Created
<1>5. /\ runStatus' \in {"running", "waiting_approval"} /\ runFinished' = FALSE
      /\ UNCHANGED <<retryable, timed, cancelSent>>
  BY DEF Retry, ActivateRun
<1>6. TypeOK'
  <2>1. runStatus' \in PipelineRunStatus /\ runFinished' \in BOOLEAN
    BY <1>5
  <2>2. /\ retryable' \in [Execution -> BOOLEAN] /\ timed' \in [Execution -> BOOLEAN]
        /\ cancelSent' \in [Execution -> BOOLEAN]
    BY <1>5 DEF IndInv, TypeOK
  <2>3. QED  BY <1>4, <2>1, <2>2 DEF TypeOK
<1>7. RowsConsistent' /\ DispatchGated'
  <2>1. runStatus' # "none" /\ \A e \in new : status[e] = "none"
    BY <1>5
  <2>2. QED  BY <1>1, <1>3, <2>1, CreatedRows
<1>8. FinishedRunIsQuiet'
  BY <1>5 DEF FinishedRunIsQuiet, FinalRunStatus
<1>9. OnSuccessHonoured'
  <2>1. \A e \in Execution : status[e] = "success" => status'[e] = "success"
    BY <1>3, <1>4
  <2>2. ASSUME NEW j \in Job, AttemptsOf(status', j) # {}
        PROVE  AttemptsOf(status, j) # {}
    <3>1. PICK a \in Attempt : <<j, a>> \in Execution /\ status'[<<j, a>>] # "none"
      BY <2>2 DEF AttemptsOf
    <3>2. CASE <<j, a>> \in new
      <4>1. PICK x \in old : x[1] = j
        BY <3>2
      <4>2. status[x] # "none" /\ x[2] \in Attempt /\ x = <<j, x[2]>>
        BY <4>1, <1>2 DEF Execution
      <4>3. QED  BY <4>2 DEF AttemptsOf
    <3>3. CASE <<j, a>> \notin new
      BY <3>1, <3>3, <1>3, <1>4 DEF AttemptsOf
    <3>4. QED  BY <3>2, <3>3
  <2>3. QED  BY <2>1, <2>2, HonouredKept
<1>10. QED  BY <1>6, <1>7, <1>8, <1>9 DEF IndInv

\* What retryRun creates is new: it follows the newest attempt.
LEMMA RetryRunCreatesNew ==
    ASSUME NEW e \in Execution, e[2] \in Latest(status, e[1]), isRetryCandidate(e)
    PROVE  <<e[1], e[2] + 1>> \in Execution /\ status[<<e[1], e[2] + 1>>] = "none"
<1>1. e[1] \in Job /\ e[2] \in Attempt
  BY DEF Execution
<1>2. e[2] < MaxAttempts[e[1]] /\ MaxAttempts[e[1]] \in Attempt
  BY <1>1, JobAssumption DEF isRetryCandidate
<1>3. e[2] + 1 \in Attempt /\ ~(e[2] + 1 <= e[2])
  BY <1>1, <1>2, JobAssumption DEF Attempt
<1>4. QED  BY <1>1, <1>3 DEF Latest, AttemptsOf, Execution

\* retryRun keeps the invariant.
LEMMA RetryRunInd == IndInv /\ RetryRun => IndInv'
<1> SUFFICES ASSUME IndInv, RetryRun PROVE IndInv'
  OBVIOUS
<1> DEFINE old == {e \in Execution : e[2] \in Latest(status, e[1]) /\ isRetryCandidate(e)}
           new == {<<e[1], e[2] + 1>> : e \in old}
<1>1. Retry(old, new)
  BY DEF RetryRun
<1>2. QED  BY <1>1, RetryRunCreatesNew, RetryInd

\* So is what retryExecution creates.
LEMMA RetryExecutionInd ==
    ASSUME IndInv, NEW e \in Execution, RetryExecution(e)
    PROVE  IndInv'
<1>1. PICK newest \in Latest(status, e[1]) :
            newest + 1 \in Attempt /\ Retry({e}, {<<e[1], newest + 1>>})
  BY DEF RetryExecution
<1>2. newest \in Attempt /\ e[1] \in Job /\ ~(newest + 1 <= newest)
  BY JobAssumption DEF Latest, AttemptsOf, Execution, Attempt
<1>3. <<e[1], newest + 1>> \in Execution /\ status[<<e[1], newest + 1>>] = "none"
  BY <1>1, <1>2 DEF Latest, AttemptsOf, Execution
<1>4. QED  BY <1>1, <1>3, RetryInd DEF RetryExecution

\* approve keeps the invariant: only an execution that still waits, and so
\* has no job message yet, gets one.
LEMMA ApproveInd ==
    ASSUME IndInv, NEW e \in Execution, Approve(e)
    PROVE  IndInv'
<1> USE NoneIsNoStatus DEF IndInv
<1>1. TypeOK'
  <2>1. /\ approval' \in [Execution -> {"none", "pending", "approved", "rejected"}]
        /\ UNCHANGED <<retryable, timed, cancelSent>>
    BY DEF Approve, TypeOK
  <2>2. /\ status' \in [Execution -> JobExecutionStatus \cup {"none"}]
        /\ dispatched' \in [Execution -> Nat]
    BY DEF Approve, TypeOK, ActiveStatus
  <2>3. runStatus' \in PipelineRunStatus \cup {"none"} /\ runFinished' \in BOOLEAN
    BY DEF Approve, TypeOK, PipelineRunStatus
  <2>4. QED  BY <2>1, <2>2, <2>3 DEF TypeOK
<1>2. /\ approval[e] = "pending" /\ dispatched[e] = 0 /\ status[e] # "none"
      /\ approval' = [approval EXCEPT ![e] = "approved"]
  BY DEF Approve, RowsConsistent
<1>3. CASE status[e] = "waiting_approval"
  <2>1. /\ status' = [status EXCEPT ![e] = "queued"]
        /\ dispatched' = [dispatched EXCEPT ![e] = @ + 1]
        /\ runStatus' = "running"
    BY <1>3 DEF Approve
  <2>2. \A x \in Execution : x # e => /\ status'[x] = status[x]
                                      /\ dispatched'[x] = dispatched[x]
                                      /\ approval'[x] = approval[x]
    BY <1>2, <2>1 DEF TypeOK
  <2>3. status'[e] = "queued" /\ dispatched'[e] = 1 /\ approval'[e] = "approved"
    BY <1>2, <2>1 DEF TypeOK
  <2>4. RowsConsistent' /\ DispatchGated' /\ FinishedRunIsQuiet'
    BY <2>1, <2>2, <2>3 DEF RowsConsistent, DispatchGated, FinishedRunIsQuiet, FinalRunStatus
  <2>5. OnSuccessHonoured'
    BY <1>2, <1>3, <2>2, <2>3, HonouredByOldRows
  <2>6. QED  BY <1>1, <2>4, <2>5
<1>4. CASE status[e] # "waiting_approval"
  <2>1. UNCHANGED <<status, dispatched, runStatus, runFinished>>
    BY <1>4 DEF Approve
  <2>2. \A x \in Execution : x # e => approval'[x] = approval[x]
    BY <1>2 DEF TypeOK
  <2>3. approval'[e] = "approved"
    BY <1>2 DEF TypeOK
  <2>4. RowsConsistent' /\ DispatchGated'
    BY <1>2, <1>4, <2>1, <2>2, <2>3 DEF RowsConsistent, DispatchGated
  <2>5. FinishedRunIsQuiet' /\ OnSuccessHonoured'
    BY <2>1, HonouredByOldRows DEF FinishedRunIsQuiet
  <2>6. QED  BY <1>1, <2>4, <2>5
<1>5. QED  BY <1>3, <1>4

\* reject keeps the invariant.
LEMMA RejectInd ==
    ASSUME IndInv, NEW e \in Execution, Reject(e)
    PROVE  IndInv'
<1> USE NoneIsNoStatus DEF IndInv
<1>1. /\ approval[e] = "pending" /\ dispatched[e] = 0 /\ status[e] # "none"
      /\ runStatus # "none"
      /\ approval' = [approval EXCEPT ![e] = "rejected"]
      /\ UNCHANGED <<retryable, timed, dispatched, cancelSent>>
  BY DEF Reject, RowsConsistent
<1>2. /\ approval' \in [Execution -> {"none", "pending", "approved", "rejected"}]
      /\ approval'[e] = "rejected"
      /\ \A x \in Execution : x # e => approval'[x] = approval[x]
  BY <1>1 DEF TypeOK
<1>3. CASE status[e] = "waiting_approval"
  <2>1. status' = [status EXCEPT ![e] = "skipped"] /\ RecomputeRunStatus
    BY <1>3 DEF Reject
  <2>2. /\ status' \in [Execution -> JobExecutionStatus \cup {"none"}]
        /\ status'[e] = "skipped"
        /\ \A x \in Execution : x # e => status'[x] = status[x]
    BY <2>1 DEF TypeOK, FinalStatus
  <2>3. /\ runStatus' \in PipelineRunStatus
        /\ runFinished' \in BOOLEAN
        /\ FinishedRunIsQuiet'
    BY <2>1, <2>2, RecomputeQuiet DEF TypeOK
  <2>4. TypeOK'
    BY <1>1, <1>2, <2>2, <2>3 DEF TypeOK
  <2>5. RowsConsistent' /\ DispatchGated'
    BY <1>1, <1>2, <2>2, <2>3 DEF RowsConsistent, DispatchGated
  <2>6. OnSuccessHonoured'
    BY <1>3, <2>2, HonouredByOldRows
  <2>7. QED  BY <2>3, <2>4, <2>5, <2>6
<1>4. CASE status[e] # "waiting_approval"
  <2>1. UNCHANGED <<status, dispatched, runStatus, runFinished>>
    BY <1>1, <1>4 DEF Reject
  <2>2. TypeOK'
    BY <1>1, <1>2, <2>1 DEF TypeOK
  <2>3. RowsConsistent' /\ DispatchGated'
    BY <1>1, <1>2, <1>4, <2>1 DEF RowsConsistent, DispatchGated
  <2>4. FinishedRunIsQuiet' /\ OnSuccessHonoured'
    BY <2>1, HonouredByOldRows DEF FinishedRunIsQuiet
  <2>5. QED  BY <2>2, <2>3, <2>4
<1>5. QED  BY <1>3, <1>4

\* checkTimeouts keeps the invariant.
LEMMA CheckTimeoutsInd == IndInv /\ CheckTimeouts => IndInv'
<1> SUFFICES ASSUME IndInv, CheckTimeouts PROVE IndInv'
  OBVIOUS
<1> USE NoneIsNoStatus DEF IndInv
<1>1. /\ status' \in [Execution -> JobExecutionStatus \cup {"none"}]
      /\ \A e \in Execution :
            \/ status'[e] = status[e]
            \/ status'[e] = "timeout" /\ status[e] = "running"
  BY DEF CheckTimeouts, TypeOK, FinalStatus
<1>2. UNCHANGED <<runStatus, runFinished, retryable, timed, approval, dispatched, cancelSent>>
  BY DEF CheckTimeouts
<1>3. TypeOK'
  BY <1>1, <1>2 DEF TypeOK
<1>4. RowsConsistent' /\ DispatchGated'
  BY <1>1, <1>2 DEF RowsConsistent, DispatchGated
<1>5. FinishedRunIsQuiet'
  BY <1>1, <1>2 DEF FinishedRunIsQuiet, FinalStatus
<1>6. OnSuccessHonoured'
  BY <1>1, HonouredByOldRows
<1>7. QED  BY <1>3, <1>4, <1>5, <1>6

-----------------------------------------------------------------------------
\* Every transaction of the master service keeps the invariant.
LEMMA StepIndInv == IndInv /\ [Next]_vars => IndInv'
<1> SUFFICES ASSUME IndInv, [Next]_vars PROVE IndInv'
  OBVIOUS
<1>1. CASE CreateRun  BY <1>1, CreateRunInd
<1>2. ASSUME NEW e \in Execution, ExecutorEvent(e) PROVE IndInv'
  <2>1. PICK s \in EventStatus :
            \E error \in EventError(s), hasTimes \in EventTimed :
                HandleEvent(e, s, error, hasTimes)
    BY <1>2 DEF ExecutorEvent
  <2>2. PICK error \in EventError(s), hasTimes \in EventTimed :
            HandleEvent(e, s, error, hasTimes)
    BY <2>1
  <2>3. hasTimes \in BOOLEAN
    BY EventAssumption
  <2>4. QED  BY <2>2, <2>3, HandleEventInd
<1>3. CASE CancelRun  BY <1>3, CancelRunInd
<1>4. ASSUME NEW e \in Execution, CancelExecution(e) PROVE IndInv'
  BY <1>4, CancelExecutionInd
<1>5. CASE RetryRun  BY <1>5, RetryRunInd
<1>6. ASSUME NEW e \in Execution, RetryExecution(e) PROVE IndInv'
  BY <1>6, RetryExecutionInd
<1>7. ASSUME NEW e \in Execution, Approve(e) PROVE IndInv'
  BY <1>7, ApproveInd
<1>8. ASSUME NEW e \in Execution, Reject(e) PROVE IndInv'
  BY <1>8, RejectInd
<1>9. CASE CheckTimeouts  BY <1>9, CheckTimeoutsInd
<1>10. CASE UNCHANGED vars
  BY <1>10 DEF vars, IndInv, TypeOK, RowsConsistent, DispatchGated,
               FinishedRunIsQuiet, OnSuccessHonoured, AttemptsOf
<1>11. QED
  BY <1>1, <1>2, <1>3, <1>4, <1>5, <1>6, <1>7, <1>8, <1>9, <1>10 DEF Next

\* The invariant holds in every reachable state.
THEOREM Invariance == Spec => []IndInv
BY InitIndInv, StepIndInv, PTL DEF Spec

\* Every column of the run's rows keeps its type in every reachable state.
THEOREM TypeCorrect == Spec => []TypeOK
<1>1. IndInv => TypeOK  BY DEF IndInv
<1>2. QED  BY <1>1, Invariance, PTL

\* A protected deployment is never dispatched without its approval, and no
\* execution is dispatched twice.
THEOREM DispatchIsGated == Spec => []DispatchGated
<1>1. IndInv => DispatchGated  BY DEF IndInv
<1>2. QED  BY <1>1, Invariance, PTL

\* A run with a final status has no active execution.
THEOREM FinishedRunStaysQuiet == Spec => []FinishedRunIsQuiet
<1>1. IndInv => FinishedRunIsQuiet  BY DEF IndInv
<1>2. QED  BY <1>1, Invariance, PTL

\* A job runs only after a success of each job it waits for on_success.
THEOREM OnSuccessIsHonoured == Spec => []OnSuccessHonoured
<1>1. IndInv => OnSuccessHonoured  BY DEF IndInv
<1>2. QED  BY <1>1, Invariance, PTL

-----------------------------------------------------------------------------
\* A retry gives the job of e a new attempt.
Replaced(e) ==
    \E x \in Execution : /\ x[1] = e[1]
                         /\ status[x] = "none"
                         /\ status'[x] \in {"queued", "waiting_approval"}

\* What one transaction may do to one row of job_execution: the transitions of
\* all nine actions together, and the job message each of them sends.
RowStep(e) ==
    \/ status'[e] = status[e] /\ dispatched'[e] = dispatched[e]
    \/ /\ status[e] = "none" /\ e[1] \in Protected
       /\ status'[e] = "waiting_approval" /\ dispatched'[e] = dispatched[e]
    \/ /\ status[e] = "none" /\ e[1] \notin Protected
       /\ status'[e] = "queued" /\ dispatched'[e] = dispatched[e] + 1
    \/ /\ status[e] = "waiting_approval" /\ approval'[e] = "approved"
       /\ status'[e] = "queued" /\ dispatched'[e] = dispatched[e] + 1
    \/ /\ dispatched'[e] = dispatched[e]
       /\ \/ /\ status[e] \in {"queued", "running", "waiting_approval", "retrying"}
             /\ status'[e] = "canceling"
          \/ status[e] = "waiting_approval" /\ status'[e] = "skipped"
          \/ status[e] = "queued" /\ status'[e] \in {"running", "skipped"}
          \/ status[e] = "running" /\ status'[e] \in FinalStatus
          \/ status[e] = "canceling" /\ status'[e] \in {"canceled", "failed"}
          \/ /\ status[e] \in FinalStatus \ {"success"}
             /\ status'[e] = "retrying" /\ Replaced(e)

\* An event moves an execution along these transitions and no others: it
\* leaves neither a waiting nor a replaced nor a final execution.
LEMMA EventTransition ==
    ASSUME NEW from \in JobExecutionStatus \ {"waiting_approval"},
           NEW s \in {"running"} \cup FinalStatus, canTransition(from, s)
    PROVE  \/ s = from
           \/ from = "queued" /\ s \in {"running", "skipped"}
           \/ from = "running" /\ s \in FinalStatus
           \/ from = "canceling" /\ s \in {"canceled", "failed"}
BY DEF canTransition, Successors, JobExecutionStatus, FinalStatus, ActiveStatus

\* Creating executions of new rows is a row step for the rows created.
LEMMA CreatedRowStep ==
    ASSUME IndInv, NEW C \in SUBSET Execution,
           NEW st \in [Execution -> JobExecutionStatus \cup {"none"}],
           CreateExecutions(C, st), NEW e \in C, status[e] = "none"
    PROVE  RowStep(e)
BY Created DEF RowStep, IndInv

LEMMA CreateRunRows ==
    ASSUME IndInv, CreateRun, NEW e \in Execution
    PROVE  RowStep(e)
<1>1. /\ FirstAttempts(status) \in SUBSET Execution
      /\ \A x \in FirstAttempts(status) : status[x] = "none"
  BY FirstAttemptsAreNew
<1>2. /\ TypeOK /\ CreateExecutions(FirstAttempts(status), status)
      /\ status \in [Execution -> JobExecutionStatus \cup {"none"}]
  BY DEF CreateRun, IndInv, TypeOK
<1>3. CASE e \in FirstAttempts(status)
  BY <1>1, <1>2, <1>3, CreatedRowStep
<1>4. CASE e \notin FirstAttempts(status)
  BY <1>1, <1>2, <1>4, Created DEF RowStep
<1>5. QED  BY <1>3, <1>4

LEMMA HandleEventRows ==
    ASSUME IndInv, NEW e \in Execution, NEW s \in EventStatus, NEW error,
           NEW hasTimes, HandleEvent(e, s, error, hasTimes), NEW x \in Execution
    PROVE  RowStep(x)
<1> DEFINE accepted == canTransition(status[e], s)
           written == [status EXCEPT ![e] = IF accepted THEN s ELSE @]
           C == FirstAttempts(written)
<1>1. /\ TypeOK
      /\ status \in [Execution -> JobExecutionStatus \cup {"none"}]
      /\ status[e] \in JobExecutionStatus \ {"waiting_approval"}
  BY DEF IndInv, TypeOK, RowsConsistent, HandleEvent
<1>2. s \in {"running"} \cup FinalStatus /\ s \in JobExecutionStatus
  BY EventAssumption, NoneIsNoStatus
<1>3. /\ written \in [Execution -> JobExecutionStatus \cup {"none"}]
      /\ \A y \in Execution : y # e => written[y] = status[y]
      /\ written[e] = IF accepted THEN s ELSE status[e]
      /\ written[e] # "none"
  BY <1>1, <1>2, NoneIsNoStatus
<1>4. ASSUME status'[x] = written[x], dispatched'[x] = dispatched[x]
      PROVE  RowStep(x)
  <2>1. CASE x = e /\ accepted
    <3>1. \/ s = status[e]
          \/ status[e] = "queued" /\ s \in {"running", "skipped"}
          \/ status[e] = "running" /\ s \in FinalStatus
          \/ status[e] = "canceling" /\ s \in {"canceled", "failed"}
      BY <1>1, <1>2, <2>1, EventTransition
    <3>2. status'[e] = s /\ dispatched'[e] = dispatched[e]
      BY <1>3, <1>4, <2>1
    <3>3. QED  BY <2>1, <3>1, <3>2 DEF RowStep
  <2>2. CASE ~(x = e /\ accepted)
    BY <1>3, <1>4, <2>2 DEF RowStep
  <2>3. QED  BY <2>1, <2>2
<1>5. CASE accepted /\ s \in FinalStatus
  <2>1. CreateExecutions(C, written)
    BY <1>5 DEF HandleEvent
  <2>2. C \in SUBSET Execution /\ \A y \in C : written[y] = "none"
    BY FirstAttemptsAreNew
  <2>3. CASE x \in C
    <3>1. status[x] = "none"
      BY <1>3, <2>2, <2>3
    <3> HIDE DEF C, written
    <3>2. QED  BY <1>3, <2>1, <2>2, <2>3, <3>1, CreatedRowStep
  <2>4. CASE x \notin C
    <3> HIDE DEF C, written
    <3>1. status'[x] = written[x] /\ dispatched'[x] = dispatched[x]
      BY <1>1, <1>3, <2>1, <2>2, <2>4, Created
    <3>2. QED  BY <3>1, <1>4
  <2>5. QED  BY <2>3, <2>4
<1>6. CASE ~(accepted /\ s \in FinalStatus)
  <2>1. status' = written /\ dispatched' = dispatched
    BY <1>6 DEF HandleEvent
  <2>2. QED  BY <2>1, <1>4
<1>7. QED  BY <1>5, <1>6

\* A retry moves only candidates, and each of them gets a successor.
LEMMA RetryRows ==
    ASSUME IndInv, NEW old \in SUBSET Execution, NEW new \in SUBSET Execution,
           \A x \in old : /\ isRetryCandidate(x)
                          /\ \E y \in new : y[1] = x[1],
           \A y \in new : status[y] = "none",
           Retry(old, new), NEW e \in Execution
    PROVE  RowStep(e)
<1> DEFINE st == [x \in Execution |-> IF x \in old THEN "retrying" ELSE status[x]]
<1>1. /\ TypeOK
      /\ st \in [Execution -> JobExecutionStatus \cup {"none"}]
      /\ CreateExecutions(new, st)
  BY NoneIsNoStatus DEF IndInv, TypeOK, Retry
<1>2. CASE e \in new
  <2> HIDE DEF st
  <2>1. QED  BY <1>1, <1>2, CreatedRowStep
<1>3. CASE e \in old
  <2>1. status[e] \in FinalStatus \ {"success"} /\ st[e] = "retrying"
    BY <1>3, Candidate
  <2>2. e \notin new
    BY <2>1, NoneIsNoStatus
  <2>3. PICK y \in new : y[1] = e[1]
    BY <1>3
  <2> HIDE DEF st
  <2>4. /\ status'[e] = "retrying" /\ dispatched'[e] = dispatched[e]
        /\ status'[y] \in {"queued", "waiting_approval"}
    BY <1>1, <2>1, <2>2, Created
  <2>5. Replaced(e)
    BY <2>3, <2>4 DEF Replaced
  <2>6. QED  BY <2>1, <2>4, <2>5 DEF RowStep
<1>4. CASE e \notin old \cup new
  <2>1. st[e] = status[e]
    BY <1>4
  <2> HIDE DEF st
  <2>2. QED  BY <1>1, <1>4, <2>1, Created DEF RowStep
<1>5. QED  BY <1>2, <1>3, <1>4

LEMMA RetryRunRows ==
    ASSUME IndInv, RetryRun, NEW e \in Execution
    PROVE  RowStep(e)
<1> DEFINE old == {x \in Execution : x[2] \in Latest(status, x[1]) /\ isRetryCandidate(x)}
           new == {<<x[1], x[2] + 1>> : x \in old}
<1>1. Retry(old, new)
  BY DEF RetryRun
<1>2. new \in SUBSET Execution /\ \A y \in new : status[y] = "none"
  BY RetryRunCreatesNew
<1>3. ASSUME NEW x \in old
      PROVE  isRetryCandidate(x) /\ \E y \in new : y[1] = x[1]
  <2>1. <<x[1], x[2] + 1>> \in new /\ <<x[1], x[2] + 1>>[1] = x[1]
    OBVIOUS
  <2>2. QED  BY <2>1
<1> HIDE DEF new
<1>4. QED  BY <1>1, <1>2, <1>3, RetryRows

LEMMA RetryExecutionRows ==
    ASSUME IndInv, NEW x \in Execution, RetryExecution(x), NEW e \in Execution
    PROVE  RowStep(e)
<1>1. PICK newest \in Latest(status, x[1]) :
            newest + 1 \in Attempt /\ Retry({x}, {<<x[1], newest + 1>>})
  BY DEF RetryExecution
<1>2. newest \in Attempt /\ x[1] \in Job /\ ~(newest + 1 <= newest)
  BY JobAssumption DEF Latest, AttemptsOf, Execution, Attempt
<1>3. <<x[1], newest + 1>> \in Execution /\ status[<<x[1], newest + 1>>] = "none"
  BY <1>1, <1>2 DEF Latest, AttemptsOf, Execution
<1>4. QED  BY <1>1, <1>3, RetryRows DEF RetryExecution

\* Every transaction makes a row step of every row.
LEMMA EveryRowStep == IndInv /\ [Next]_vars => \A e \in Execution : RowStep(e)
<1> SUFFICES ASSUME IndInv, [Next]_vars, NEW e \in Execution
             PROVE  RowStep(e)
  OBVIOUS
<1>1. CASE CreateRun  BY <1>1, CreateRunRows
<1>2. ASSUME NEW x \in Execution, ExecutorEvent(x) PROVE RowStep(e)
  BY <1>2, HandleEventRows DEF ExecutorEvent
<1>3. CASE CancelRun
  BY <1>3 DEF CancelRun, RowStep, IndInv, TypeOK
<1>4. ASSUME NEW x \in Execution, CancelExecution(x) PROVE RowStep(e)
  BY <1>4 DEF CancelExecution, RowStep, IndInv, TypeOK, JobExecutionStatus, ActiveStatus
<1>5. CASE RetryRun  BY <1>5, RetryRunRows
<1>6. ASSUME NEW x \in Execution, RetryExecution(x) PROVE RowStep(e)
  BY <1>6, RetryExecutionRows
<1>7. ASSUME NEW x \in Execution, Approve(x) PROVE RowStep(e)
  BY <1>7 DEF Approve, RowStep, IndInv, TypeOK
<1>8. ASSUME NEW x \in Execution, Reject(x) PROVE RowStep(e)
  BY <1>8 DEF Reject, RowStep, IndInv, TypeOK
<1>9. CASE CheckTimeouts
  BY <1>9 DEF CheckTimeouts, RowStep, IndInv, TypeOK, FinalStatus
<1>10. CASE UNCHANGED vars
  BY <1>10 DEF vars, RowStep
<1>11. QED
  BY <1>1, <1>2, <1>3, <1>4, <1>5, <1>6, <1>7, <1>8, <1>9, <1>10 DEF Next

\* No transaction takes an execution out of a final status, except a retry,
\* which never touches a success and always creates the next attempt.
THEOREM FinalIsLeftOnlyByRetry == Spec => FinalLeftOnlyByRetry
<1> DEFINE Kept(e) == status[e] \in FinalStatus /\ status'[e] # status[e] =>
                          /\ status[e] # "success"
                          /\ status'[e] = "retrying"
                          /\ \E a \in Attempt : /\ status[<<e[1], a>>] = "none"
                                                /\ status'[<<e[1], a>>] # "none"
<1>1. ASSUME IndInv, [Next]_vars, NEW e \in Execution
      PROVE  Kept(e)
  <2>1. RowStep(e)
    BY <1>1, EveryRowStep
  <2>2. ASSUME Replaced(e)
        PROVE  \E a \in Attempt : status[<<e[1], a>>] = "none" /\ status'[<<e[1], a>>] # "none"
    <3>1. PICK x \in Execution : /\ x[1] = e[1] /\ status[x] = "none"
                                 /\ status'[x] \in {"queued", "waiting_approval"}
      BY <2>2 DEF Replaced
    <3>2. x[2] \in Attempt /\ x = <<e[1], x[2]>>
      BY <3>1 DEF Execution
    <3>3. QED  BY <3>1, <3>2
  <2>3. QED  BY <2>1, <2>2 DEF RowStep, FinalStatus
<1>2. IndInv /\ [Next]_vars => [\A e \in Execution : Kept(e)]_vars
  BY <1>1
<1>3. QED  BY <1>2, Invariance, PTL DEF Spec, FinalLeftOnlyByRetry

\* No transaction queues an execution that already has a row, except the
\* approval of one that waits.
THEOREM AttemptsAreNeverReused == Spec => AttemptsNeverReused
<1> DEFINE Fresh(e) == /\ status'[e] \in {"queued", "waiting_approval"}
                       /\ status'[e] # status[e]
                       => \/ status[e] = "none"
                          \/ status[e] = "waiting_approval" /\ approval'[e] = "approved"
<1>1. ASSUME IndInv, [Next]_vars, NEW e \in Execution
      PROVE  Fresh(e)
  <2>1. RowStep(e)
    BY <1>1, EveryRowStep
  <2>2. QED  BY <2>1 DEF RowStep, FinalStatus
<1>2. IndInv /\ [Next]_vars => [\A e \in Execution : Fresh(e)]_vars
  BY <1>1
<1>3. QED  BY <1>2, Invariance, PTL DEF Spec, AttemptsNeverReused

-----------------------------------------------------------------------------
\* No ready job is left behind.

\* The transactions that end executions without dispatching what waits for
\* them: rejectApprovalExecution and the watchdog.
EndsWithoutDispatch == (\E e \in Execution : Reject(e)) \/ CheckTimeouts

\* Once the run exists, every job whose dependencies are satisfied has an
\* execution (dispatchReadyJobs).
ReadyJobsStarted == runStatus # "none" => resolveReadyJobs(status) = {}

LEMMA SatisfyingIsFinal == \A c : Satisfying(c) \subseteq FinalStatus
BY DEF Satisfying, FinalStatus

\* A job becomes ready only when an execution becomes final.
LEMMA ReadyOnlyByAnEnd ==
    ASSUME NEW st, NEW new,
           \A e \in Execution : /\ st[e] # "none" => new[e] # "none"
                                /\ new[e] \in FinalStatus => st[e] = new[e]
    PROVE  resolveReadyJobs(new) \subseteq resolveReadyJobs(st)
<1> SUFFICES ASSUME NEW j \in resolveReadyJobs(new) PROVE j \in resolveReadyJobs(st)
  OBVIOUS
<1>1. \A k : AttemptsOf(st, k) \subseteq AttemptsOf(new, k)
  BY DEF AttemptsOf
<1>2. j \in Job /\ AttemptsOf(st, j) = {}
  BY <1>1 DEF resolveReadyJobs
<1>3. ASSUME NEW d \in Deps, d.job = j
      PROVE  \E a \in Latest(st, d.dependsOn) :
                 st[<<d.dependsOn, a>>] \in Satisfying(d.condition)
  <2>1. PICK a \in Latest(new, d.dependsOn) :
            new[<<d.dependsOn, a>>] \in Satisfying(d.condition)
    BY <1>3 DEF resolveReadyJobs, dependenciesSatisfied
  <2>2. <<d.dependsOn, a>> \in Execution /\ a \in AttemptsOf(new, d.dependsOn)
    BY <2>1 DEF Latest, AttemptsOf
  <2>3. st[<<d.dependsOn, a>>] = new[<<d.dependsOn, a>>]
    BY <2>1, <2>2, SatisfyingIsFinal
  <2>4. a \in AttemptsOf(st, d.dependsOn)
    BY <2>2, <2>3 DEF AttemptsOf
  <2>5. a \in Latest(st, d.dependsOn)
    BY <1>1, <2>1, <2>4 DEF Latest
  <2>6. QED  BY <2>1, <2>3, <2>5
<1>4. QED  BY <1>2, <1>3 DEF resolveReadyJobs, dependenciesSatisfied

\* dispatchReadyJobs leaves no job ready: what it creates has not ended.
LEMMA DispatchLeavesNone ==
    ASSUME TypeOK, NEW st \in [Execution -> JobExecutionStatus \cup {"none"}],
           CreateExecutions(FirstAttempts(st), st)
    PROVE  resolveReadyJobs(status') = {}
<1> DEFINE C == FirstAttempts(st)
<1>1. C \in SUBSET Execution /\ \A e \in C : st[e] = "none"
  BY FirstAttemptsAreNew
<1>2. /\ \A e \in Execution \ C : status'[e] = st[e]
      /\ \A e \in C : status'[e] \in {"queued", "waiting_approval"}
  <2> HIDE DEF C
  <2>1. CreateExecutions(C, st)
    BY DEF C
  <2>2. QED  BY <1>1, <2>1, Created
<1>3. resolveReadyJobs(status') \subseteq resolveReadyJobs(st)
  <2>1. ASSUME NEW e \in Execution
        PROVE  /\ st[e] # "none" => status'[e] # "none"
               /\ status'[e] \in FinalStatus => st[e] = status'[e]
    <3> HIDE DEF C
    <3>1. QED  BY <1>1, <1>2 DEF FinalStatus
  <2>2. QED  BY <2>1, ReadyOnlyByAnEnd
<1>4. ASSUME NEW j \in resolveReadyJobs(st)
      PROVE  AttemptsOf(status', j) # {}
  <2>1. <<j, 1>> \in C
    BY <1>4 DEF FirstAttempts
  <2>2. <<j, 1>> \in Execution /\ status'[<<j, 1>>] # "none"
    BY <1>1, <1>2, <2>1
  <2>3. 1 \in Attempt
    BY <2>2 DEF Execution
  <2>4. QED  BY <2>2, <2>3 DEF AttemptsOf
<1>5. QED  BY <1>3, <1>4 DEF resolveReadyJobs

\* Where no execution ends, no job becomes ready.
LEMMA NoEndNoReady ==
    ASSUME ReadyJobsStarted, runStatus # "none",
           \A e \in Execution : /\ status[e] # "none" => status'[e] # "none"
                                /\ status'[e] \in FinalStatus => status[e] = status'[e]
    PROVE  ReadyJobsStarted'
BY ReadyOnlyByAnEnd DEF ReadyJobsStarted

LEMMA HandleEventReady ==
    ASSUME IndInv, ReadyJobsStarted, NEW e \in Execution, NEW s \in EventStatus,
           NEW error, NEW hasTimes, HandleEvent(e, s, error, hasTimes)
    PROVE  ReadyJobsStarted'
<1> DEFINE accepted == canTransition(status[e], s)
           written == [status EXCEPT ![e] = IF accepted THEN s ELSE @]
<1>1. runStatus # "none" /\ status[e] # "none"
  BY DEF IndInv, RowsConsistent, HandleEvent
<1>2. s \in JobExecutionStatus
  BY EventAssumption DEF JobExecutionStatus, ActiveStatus
<1>3. CASE accepted /\ s \in FinalStatus
  <2>1. written \in [Execution -> JobExecutionStatus \cup {"none"}]
    BY <1>2 DEF IndInv, TypeOK
  <2>2. CreateExecutions(FirstAttempts(written), written)
    BY <1>3 DEF HandleEvent
  <2> HIDE DEF written
  <2>3. QED  BY <2>1, <2>2, DispatchLeavesNone DEF IndInv, ReadyJobsStarted
<1>4. CASE ~(accepted /\ s \in FinalStatus)
  <2>1. status' = written
    BY <1>4 DEF HandleEvent
  <2>2. ASSUME NEW x \in Execution
        PROVE  /\ status[x] # "none" => status'[x] # "none"
               /\ status'[x] \in FinalStatus => status[x] = status'[x]
    BY <1>2, <1>4, <2>1, NoneIsNoStatus DEF IndInv, TypeOK
  <2>3. QED  BY <1>1, <2>2, NoEndNoReady
<1>5. QED  BY <1>3, <1>4

LEMMA RetryReady ==
    ASSUME IndInv, ReadyJobsStarted, runStatus # "none",
           NEW old \in SUBSET Execution, NEW new \in SUBSET Execution, Retry(old, new)
    PROVE  ReadyJobsStarted'
<1> DEFINE st == [e \in Execution |-> IF e \in old THEN "retrying" ELSE status[e]]
<1>1. st \in [Execution -> JobExecutionStatus \cup {"none"}]
  BY NoneIsNoStatus DEF IndInv, TypeOK
<1>2. CreateExecutions(new, st)
  BY DEF Retry
<1>3. \A e \in Execution : st[e] = IF e \in old THEN "retrying" ELSE status[e]
  OBVIOUS
<1> HIDE DEF st
<1>4. /\ \A e \in Execution \ new : status'[e] = st[e]
      /\ \A e \in new : status'[e] \in {"queued", "waiting_approval"}
  BY <1>1, <1>2, Created DEF IndInv
<1>5. ASSUME NEW e \in Execution
      PROVE  /\ status[e] # "none" => status'[e] # "none"
             /\ status'[e] \in FinalStatus => status[e] = status'[e]
  BY <1>3, <1>4 DEF FinalStatus
<1>6. QED  BY <1>5, NoEndNoReady

\* While no approval is rejected and the watchdog ends nothing, no job that
\* could run is ever left without an execution, whatever is canceled, retried,
\* approved or reported late and twice in between: the dispatch after each
\* final event is enough (ExecutorEventService.handle, dispatchReadyJobs).
THEOREM ReadyJobsAreStarted ==
    Spec /\ [][~EndsWithoutDispatch]_vars => []ReadyJobsStarted
<1>1. Init => ReadyJobsStarted
  BY DEF Init, ReadyJobsStarted
<1>2. ASSUME IndInv, ReadyJobsStarted, [Next]_vars, [~EndsWithoutDispatch]_vars
      PROVE  ReadyJobsStarted'
  <2>1. CASE CreateRun
    BY <1>2, <2>1, DispatchLeavesNone DEF CreateRun, IndInv, TypeOK, ReadyJobsStarted
  <2>2. CASE \E e \in Execution : ExecutorEvent(e)
    BY <1>2, <2>2, HandleEventReady DEF ExecutorEvent
  <2>3. CASE CancelRun
    <3>1. runStatus # "none"
      BY <2>3 DEF CancelRun
    <3>2. ASSUME NEW e \in Execution
          PROVE  /\ status[e] # "none" => status'[e] # "none"
                 /\ status'[e] \in FinalStatus => status[e] = status'[e]
      BY <2>3 DEF CancelRun, FinalStatus
    <3>3. QED  BY <1>2, <3>1, <3>2, NoEndNoReady
  <2>4. CASE \E e \in Execution : CancelExecution(e)
    <3>1. PICK x \in Execution : CancelExecution(x)
      BY <2>4
    <3>2. runStatus # "none"
      BY <1>2, <3>1 DEF CancelExecution, IndInv, RowsConsistent
    <3>3. ASSUME NEW e \in Execution
          PROVE  /\ status[e] # "none" => status'[e] # "none"
                 /\ status'[e] \in FinalStatus => status[e] = status'[e]
      BY <1>2, <3>1 DEF CancelExecution, FinalStatus, IndInv, TypeOK
    <3>4. QED  BY <1>2, <3>2, <3>3, NoEndNoReady
  <2>5. CASE RetryRun
    <3> DEFINE old == {e \in Execution : e[2] \in Latest(status, e[1]) /\ isRetryCandidate(e)}
               new == {<<e[1], e[2] + 1>> : e \in old}
    <3>1. old # {} /\ old \in SUBSET Execution /\ Retry(old, new)
      BY <2>5 DEF RetryRun
    <3>2. new \in SUBSET Execution
      BY <1>2, RetryRunCreatesNew
    <3>3. runStatus # "none"
      BY <1>2, <3>1 DEF isRetryCandidate, IndInv, RowsConsistent
    <3> HIDE DEF old, new
    <3>4. QED  BY <1>2, <3>1, <3>2, <3>3, RetryReady
  <2>6. CASE \E e \in Execution : RetryExecution(e)
    <3>1. PICK x \in Execution : RetryExecution(x)
      BY <2>6
    <3>2. PICK newest \in Latest(status, x[1]) :
              newest + 1 \in Attempt /\ Retry({x}, {<<x[1], newest + 1>>})
      BY <3>1 DEF RetryExecution
    <3>3. {x} \in SUBSET Execution /\ {<<x[1], newest + 1>>} \in SUBSET Execution
      BY <3>2 DEF Execution
    <3>4. runStatus # "none"
      BY <1>2, <3>1 DEF RetryExecution, IndInv, RowsConsistent
    <3>5. QED  BY <1>2, <3>2, <3>3, <3>4, RetryReady
  <2>7. CASE \E e \in Execution : Approve(e)
    <3>1. PICK x \in Execution : Approve(x)
      BY <2>7
    <3>2. runStatus # "none"
      BY <1>2, <3>1 DEF Approve, IndInv, RowsConsistent
    <3>3. ASSUME NEW e \in Execution
          PROVE  /\ status[e] # "none" => status'[e] # "none"
                 /\ status'[e] \in FinalStatus => status[e] = status'[e]
      BY <1>2, <3>1 DEF Approve, FinalStatus, IndInv, TypeOK
    <3>4. QED  BY <1>2, <3>2, <3>3, NoEndNoReady
  <2>8. CASE UNCHANGED vars
    <3>1. runStatus' = runStatus /\ status' = status
      BY <2>8 DEF vars
    <3>2. resolveReadyJobs(status') = resolveReadyJobs(status)
      BY <3>1
    <3>3. QED  BY <1>2, <3>1, <3>2 DEF ReadyJobsStarted
  <2>9. CASE EndsWithoutDispatch
    BY <1>2, <2>8, <2>9
  <2>10. QED
    BY <1>2, <2>1, <2>2, <2>3, <2>4, <2>5, <2>6, <2>7, <2>8, <2>9
    DEF Next, EndsWithoutDispatch
<1>3. QED  BY <1>1, <1>2, Invariance, PTL DEF Spec

\* The run of a pipeline whose jobs wait only for one another begins with at
\* least one execution: validate has refused a graph in which every job waits
\* (createRunInternal).
RunStartsWithWork ==
    [][/\ runStatus = "none" /\ runStatus' # "none"
       /\ Job # {} /\ \A d \in Deps : d.dependsOn \in Job
       => \E j \in Job : status'[<<j, 1>>] \in {"queued", "waiting_approval"}]_vars

\* Only createRun gives the run its row.
LEMMA OnlyCreateRun ==
    ASSUME IndInv, Next, runStatus = "none", runStatus' # "none"
    PROVE  CreateRun
<1>1. \A e \in Execution : status[e] = "none" /\ approval[e] = "none" /\ dispatched[e] = 0
  BY DEF IndInv, RowsConsistent
<1>2. ASSUME NEW e \in Execution
      PROVE  ~ExecutorEvent(e) /\ ~RetryExecution(e) /\ ~Approve(e) /\ ~Reject(e)
  <2>1. dispatched[e] = 0 /\ ~(dispatched[e] > 0)
    BY <1>1
  <2>2. \A s, error, hasTimes : ~HandleEvent(e, s, error, hasTimes)
    BY <2>1 DEF HandleEvent
  <2>3. ~ExecutorEvent(e)
    BY <2>2 DEF ExecutorEvent
  <2>4. ~RetryExecution(e)
    BY <1>1 DEF RetryExecution
  <2>5. ~Approve(e) /\ ~Reject(e)
    BY <1>1 DEF Approve, Reject
  <2>6. QED  BY <2>3, <2>4, <2>5
<1>3. ~CancelRun /\ ~CheckTimeouts /\ \A e \in Execution : ~CancelExecution(e)
  <2>1. ~CancelRun
    BY DEF CancelRun
  <2>2. ~CheckTimeouts
    BY DEF CheckTimeouts
  <2>3. \A e \in Execution : ~CancelExecution(e)
    BY <1>1 DEF CancelExecution
  <2>4. QED  BY <2>1, <2>2, <2>3
<1>4. ~RetryRun
  BY <1>1 DEF RetryRun, isRetryCandidate
<1>5. QED  BY <1>2, <1>3, <1>4 DEF Next

\* A run begins with work to do, for every acyclic graph: the counterpart of
\* RunStartsWorking for runs with attempts and approvals.
THEOREM RunsStartWithWork == Spec => RunStartsWithWork
<1> DEFINE Working == /\ runStatus = "none" /\ runStatus' # "none"
                      /\ Job # {} /\ \A d \in Deps : d.dependsOn \in Job
                      => \E j \in Job : status'[<<j, 1>>] \in {"queued", "waiting_approval"}
<1>1. ASSUME IndInv, Next PROVE Working
  <2> SUFFICES ASSUME runStatus = "none", runStatus' # "none", Job # {},
                      \A d \in Deps : d.dependsOn \in Job
               PROVE  \E j \in Job : status'[<<j, 1>>] \in {"queued", "waiting_approval"}
    OBVIOUS
  <2>1. CreateRun
    BY <1>1, OnlyCreateRun
  <2>2. PICK j \in Job : \A d \in Deps : d.job # j
    BY <2>1 DEF CreateRun, Acyclic
  <2>3. AttemptsOf(status, j) = {}
    BY <1>1 DEF IndInv, RowsConsistent, AttemptsOf
  <2>4. <<j, 1>> \in FirstAttempts(status)
    BY <2>2, <2>3 DEF FirstAttempts, resolveReadyJobs, dependenciesSatisfied
  <2>5. FirstAttempts(status) \in SUBSET Execution
    BY FirstAttemptsAreNew
  <2>6. /\ CreateExecutions(FirstAttempts(status), status)
        /\ status \in [Execution -> JobExecutionStatus \cup {"none"}] /\ TypeOK
    BY <1>1, <2>1 DEF CreateRun, IndInv, TypeOK
  <2>7. status'[<<j, 1>>] \in {"queued", "waiting_approval"}
    <3> DEFINE C == FirstAttempts(status)
    <3> HIDE DEF C
    <3>1. /\ C \in SUBSET Execution /\ <<j, 1>> \in C /\ CreateExecutions(C, status)
      BY <2>4, <2>5, <2>6 DEF C
    <3>2. QED  BY <2>6, <3>1, Created
  <2>8. QED  BY <2>7
<1>2. IndInv /\ [Next]_vars => [Working]_vars
  BY <1>1
<1>3. QED  BY <1>2, Invariance, PTL DEF Spec, RunStartsWithWork

-----------------------------------------------------------------------------
\* The run of PipelineRun implements ExecutionLifecycle.

\* The phase of each status, one by one.
LEMMA Phases ==
    /\ PhaseOf("none") = "absent" /\ PhaseOf("waiting_approval") = "waiting"
    /\ PhaseOf("queued") = "started" /\ PhaseOf("running") = "started"
    /\ PhaseOf("canceling") = "stopping" /\ PhaseOf("retrying") = "replaced"
    /\ PhaseOf("success") = "succeeded"
    /\ \A s \in FinalStatus \ {"success"} : PhaseOf(s) = "ended"
BY DEF PhaseOf, FinalStatus

\* A new attempt in the table is a successor in the life cycle.
LEMMA ReplacedHasSuccessor ==
    ASSUME NEW e \in Execution, Replaced(e)
    PROVE  Lifecycle!Successor(e)
<1>1. PICK x \in Execution : /\ x[1] = e[1]
                             /\ status[x] = "none"
                             /\ status'[x] \in {"queued", "waiting_approval"}
  BY DEF Replaced
<1>2. PhaseOf(status[x]) = "absent" /\ PhaseOf(status'[x]) \in {"waiting", "started"}
  BY <1>1, Phases
<1>3. QED  BY <1>1, <1>2 DEF Lifecycle!Successor

\* A row step is a move of the life cycle or leaves the phase as it is, and
\* sends a job message exactly when the execution starts.
LEMMA RowStepMoves ==
    ASSUME NEW e \in Execution, RowStep(e)
    PROVE  /\ PhaseOf(status'[e]) # PhaseOf(status[e]) => Lifecycle!Move(e)
           /\ dispatched'[e] = IF /\ PhaseOf(status'[e]) = "started"
                                  /\ PhaseOf(status[e]) # "started"
                               THEN dispatched[e] + 1 ELSE dispatched[e]
<1> DEFINE p == PhaseOf(status[e])
           q == PhaseOf(status'[e])
<1>1. ASSUME \/ p = "absent" /\ q = IF e[1] \in Protected THEN "waiting" ELSE "started"
             \/ p = "waiting" /\ q \in {"started", "stopping", "ended"}
             \/ p = "started" /\ q \in {"stopping", "succeeded", "ended"}
             \/ p = "stopping" /\ q = "ended"
             \/ p = "ended" /\ q = "replaced" /\ Lifecycle!Successor(e)
             \/ p = "replaced" /\ q = "stopping"
      PROVE  Lifecycle!Move(e)
  <2> HIDE DEF Lifecycle!Successor
  <2>1. QED  BY <1>1 DEF Lifecycle!Move
<1>2. CASE status'[e] = status[e] /\ dispatched'[e] = dispatched[e]
  BY <1>2
<1>3. CASE /\ status[e] = "none" /\ e[1] \in Protected
           /\ status'[e] = "waiting_approval" /\ dispatched'[e] = dispatched[e]
  BY <1>1, <1>3, Phases
<1>4. CASE /\ status[e] = "none" /\ e[1] \notin Protected
           /\ status'[e] = "queued" /\ dispatched'[e] = dispatched[e] + 1
  BY <1>1, <1>4, Phases
<1>5. CASE /\ status[e] = "waiting_approval"
           /\ status'[e] = "queued" /\ dispatched'[e] = dispatched[e] + 1
  BY <1>1, <1>5, Phases
<1>6. CASE dispatched'[e] = dispatched[e]
  <2>1. CASE /\ status[e] \in {"queued", "running", "waiting_approval", "retrying"}
             /\ status'[e] = "canceling"
    BY <1>1, <1>6, <2>1, Phases
  <2>2. CASE status[e] = "waiting_approval" /\ status'[e] = "skipped"
    BY <1>1, <1>6, <2>2, Phases DEF FinalStatus
  <2>3. CASE status[e] = "queued" /\ status'[e] \in {"running", "skipped"}
    BY <1>1, <1>6, <2>3, Phases DEF FinalStatus
  <2>4. CASE status[e] = "running" /\ status'[e] \in FinalStatus
    BY <1>1, <1>6, <2>4, Phases
  <2>5. CASE status[e] = "canceling" /\ status'[e] \in {"canceled", "failed"}
    BY <1>1, <1>6, <2>5, Phases DEF FinalStatus
  <2>6. CASE /\ status[e] \in FinalStatus \ {"success"}
             /\ status'[e] = "retrying" /\ Replaced(e)
    BY <1>1, <1>6, <2>6, Phases, ReplacedHasSuccessor
  <2>7. QED  BY <1>2, <1>3, <1>4, <1>5, <1>6, <2>1, <2>2, <2>3, <2>4, <2>5, <2>6 DEF RowStep
<1>7. QED  BY <1>2, <1>3, <1>4, <1>5, <1>6 DEF RowStep

\* The phases of the statuses a finished run leaves its executions in are
\* not open.
LEMMA QuietIsNotOpen ==
    ASSUME NEW s \in FinalStatus \cup {"none"}
    PROVE  PhaseOf(s) \notin Lifecycle!Open
<1>1. PhaseOf(s) \in {"absent", "succeeded", "ended"}
  BY Phases
<1>2. QED  BY <1>1 DEF Lifecycle!Open

\* Every transaction of the master is a transaction of the life cycle.
LEMMA StepRefines == IndInv /\ [Next]_vars => Lifecycle!Transaction
<1> SUFFICES ASSUME IndInv, [Next]_vars PROVE Lifecycle!Transaction
  OBVIOUS
<1>1. \A e \in Execution : RowStep(e)
  BY EveryRowStep
<1>2. IndInv'
  BY StepIndInv
<1>3. \A e \in Execution : PhaseOf(status'[e]) # PhaseOf(status[e]) => Lifecycle!Move(e)
  BY <1>1, RowStepMoves
<1>4. dispatched' = [e \in Execution |->
                        IF PhaseOf(status'[e]) = "started" /\ PhaseOf(status[e]) # "started"
                        THEN dispatched[e] + 1 ELSE dispatched[e]]
  <2>1. dispatched' \in [Execution -> Nat]
    BY <1>2 DEF IndInv, TypeOK
  <2>2. QED  BY <1>1, <2>1, RowStepMoves
<1>5. runStatus' \in FinalRunStatus =>
          \A e \in Execution : PhaseOf(status'[e]) \notin Lifecycle!Open
  BY <1>2, QuietIsNotOpen DEF IndInv, FinishedRunIsQuiet
<1>6. QED  BY <1>3, <1>4, <1>5 DEF Lifecycle!Transaction

\* A run that has no row yet is the initial state of the life cycle.
LEMMA InitRefines == Init => Lifecycle!Init
BY Phases DEF Init, Lifecycle!Init, FinalRunStatus

\* The run implements ExecutionLifecycle: every behaviour of the master's
\* transactions, seen through PhaseOf, is one the life cycle allows.
THEOREM RefinesLifecycle == Spec => ImplementsLifecycle
BY InitRefines, StepRefines, Invariance, PTL DEF Spec, ImplementsLifecycle, Lifecycle!Spec

=============================================================================
