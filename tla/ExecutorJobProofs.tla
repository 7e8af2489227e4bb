------------------------- MODULE ExecutorJobProofs -------------------------
(***************************************************************************)
(* Proofs about ExecutorJob for any number of workers, crashes and         *)
(* failures: the lock file keeps deliveries of one job apart and protects  *)
(* the workspace of the one that runs, and what the state file and the     *)
(* committed offset claim has been published.                              *)
(***************************************************************************)
EXTENDS ExecutorJob, TLAPS

\* The part of the state the argument is about is well typed.
LockTypeOK ==
    /\ at \in [Worker -> Place]
    /\ frame \in [Worker -> Locals]

\* Inductive strengthening: who has a claim has the lock, and who has a
\* workspace, or is about to create it, has a claim.  A worker that is idle
\* again may have left its lock behind, so the converse does not hold.
LockInv ==
    /\ LockTypeOK
    /\ \A w \in Worker : Claimed(w) => lock = w
    /\ \A w \in Worker : at[w] = "createWorkspace" => frame[w].claim
    /\ \A w \in Worker : at[w] # "idle" /\ frame[w].workspace => frame[w].claim
    /\ JobKeepsWorkspace

\* Before the first delivery nobody has a claim.
LEMMA InitLockInv == Init => LockInv
BY DEF Init, LockInv, LockTypeOK, Place, Locals, NoLocals, Outcome, Claimed, JobKeepsWorkspace

\* What a step of one worker leaves alone: the others keep place and locals.
LEMMA OthersKept ==
    ASSUME LockTypeOK, NEW w \in Worker, NEW place \in Place, Goto(w, place)
    PROVE  /\ at' \in [Worker -> Place]
           /\ at'[w] = place
           /\ \A v \in Worker : v # w => at'[v] = at[v]
BY DEF Goto, LockTypeOK

\* Steps between the claim and the finally block: the claim, the workspace
\* and the lock are what they were.
LEMMA HandlerStep ==
    ASSUME LockInv, NEW w \in Worker, at[w] # "idle", at'[w] # "createWorkspace",
           at' \in [Worker -> Place], frame' \in [Worker -> Locals],
           \A v \in Worker : v # w => at'[v] = at[v],
           \A v \in Worker : /\ frame'[v].claim = frame[v].claim
                             /\ frame'[v].workspace = frame[v].workspace,
           UNCHANGED <<lock, workspace>>
    PROVE  LockInv'
BY DEF LockInv, LockTypeOK, Claimed, JobKeepsWorkspace

\* An exception handler is entered with the claim and the workspace it had.
LEMMA CatchStep ==
    ASSUME LockTypeOK, NEW w \in Worker, NEW s \in Outcome, Catch(w, s)
    PROVE  /\ at' \in [Worker -> Place] /\ at'[w] # "createWorkspace"
           /\ \A v \in Worker : v # w => at'[v] = at[v]
           /\ frame' \in [Worker -> Locals]
           /\ \A v \in Worker : /\ frame'[v].claim = frame[v].claim
                                /\ frame'[v].workspace = frame[v].workspace
BY DEF Catch, Goto, LockTypeOK, Place, Locals

\* A delivery starts with fresh locals and claims nothing.
LEMMA DeliverInd ==
    ASSUME LockInv, NEW w \in Worker, Deliver(w)
    PROVE  LockInv'
<1>1. at' \in [Worker -> Place] /\ at'[w] = "validate"
      /\ \A v \in Worker : v # w => at'[v] = at[v]
  BY OthersKept DEF Deliver, Place, LockInv
<1>2. frame' \in [Worker -> Locals] /\ frame'[w] = NoLocals
      /\ \A v \in Worker : v # w => frame'[v] = frame[v]
  BY DEF Deliver, LockInv, LockTypeOK, Locals, NoLocals, Outcome
<1>3. UNCHANGED <<lock, workspace>>
  BY DEF Deliver
<1>4. QED
  BY <1>1, <1>2, <1>3 DEF LockInv, LockTypeOK, Claimed, JobKeepsWorkspace, NoLocals

\* A claim is made only on a free lock, so nobody else has one.
LEMMA AcquireInd ==
    ASSUME LockInv, NEW w \in Worker, Acquire(w)
    PROVE  LockInv'
<1>1. CASE lock # NoWorker \/ marker = "success"
  <2>1. Goto(w, "publishSkipped") /\ UNCHANGED <<frame, lock, workspace>> /\ at[w] # "idle"
    BY <1>1 DEF Acquire
  <2>2. at' \in [Worker -> Place] /\ at'[w] # "createWorkspace"
        /\ \A v \in Worker : v # w => at'[v] = at[v]
    BY <2>1, OthersKept DEF Place, LockInv
  <2>3. frame' \in [Worker -> Locals]
    BY <2>1 DEF LockInv, LockTypeOK
  <2>4. QED  BY <2>1, <2>2, <2>3, HandlerStep
<1>2. CASE ~(lock # NoWorker \/ marker = "success")
  <2>1. /\ lock = NoWorker /\ lock' = w /\ workspace' = workspace
        /\ at[w] # "idle" /\ Goto(w, "createWorkspace")
        /\ frame' = [frame EXCEPT ![w].claim = TRUE]
    BY <1>2 DEF Acquire
  <2>2. at' \in [Worker -> Place] /\ at'[w] # "idle"
        /\ \A v \in Worker : v # w => at'[v] = at[v]
    BY <2>1, OthersKept DEF Place, LockInv
  <2>3. /\ frame' \in [Worker -> Locals]
        /\ frame'[w].claim /\ frame'[w].workspace = frame[w].workspace
        /\ \A v \in Worker : v # w => frame'[v] = frame[v]
    BY <2>1 DEF LockInv, LockTypeOK, Locals
  <2>4. \A v \in Worker : ~Claimed(v)
    BY <2>1, WorkerAssumption DEF LockInv
  <2>5. \A v \in Worker : Claimed(v)' => v = w
    BY <2>2, <2>3, <2>4 DEF Claimed
  <2>6. QED
    BY <2>1, <2>2, <2>3, <2>4, <2>5 DEF LockInv, LockTypeOK, JobKeepsWorkspace, Claimed
<1>3. QED  BY <1>1, <1>2

\* The workspace is created by the worker that has the claim.
LEMMA CreateWorkspaceInd ==
    ASSUME LockInv, NEW w \in Worker, CreateWorkspace(w)
    PROVE  LockInv'
<1>1. at[w] # "idle" /\ frame[w].claim /\ lock' = lock
  BY DEF CreateWorkspace, LockInv
<1>2. CASE Catch(w, "failed") /\ UNCHANGED workspace
  BY <1>1, <1>2, CatchStep, HandlerStep DEF LockInv, Outcome
<1>3. CASE /\ Goto(w, "publishRunning")
           /\ frame' = [frame EXCEPT ![w].workspace = TRUE]
           /\ workspace' = TRUE
  <2>1. at' \in [Worker -> Place] /\ at'[w] = "publishRunning"
        /\ \A v \in Worker : v # w => at'[v] = at[v]
    BY <1>3, OthersKept DEF Place, LockInv
  <2>2. /\ frame' \in [Worker -> Locals]
        /\ frame'[w].claim = frame[w].claim
        /\ \A v \in Worker : v # w => frame'[v] = frame[v]
    BY <1>3 DEF LockInv, LockTypeOK, Locals
  <2>3. QED
    BY <1>1, <1>3, <2>1, <2>2 DEF LockInv, LockTypeOK, JobKeepsWorkspace, Claimed
<1>4. QED  BY <1>2, <1>3 DEF CreateWorkspace

\* A worker that becomes idle gives up only what is its own: if it deletes
\* the workspace it had the claim, and so nobody else has a workspace.
LEMMA IdleStep ==
    ASSUME LockInv, NEW w \in Worker, at[w] # "idle", Goto(w, "idle"), frame' = frame,
           lock' = lock \/ frame[w].claim,
           (workspace => workspace') \/ frame[w].workspace
    PROVE  LockInv'
<1>1. at' \in [Worker -> Place] /\ at'[w] = "idle"
      /\ \A v \in Worker : v # w => at'[v] = at[v]
  BY OthersKept DEF Place, LockInv
<1>2. frame[w].claim => \A v \in Worker : v # w => ~Claimed(v)
  BY DEF LockInv, Claimed
<1>3. frame[w].workspace => frame[w].claim
  BY DEF LockInv
<1>4. QED
  BY <1>1, <1>2, <1>3 DEF LockInv, LockTypeOK, Claimed, JobKeepsWorkspace

\* The remaining steps of the handler move on or catch an exception, and
\* touch neither the lock nor the workspace.
LEMMA MoveOrCatchInd ==
    ASSUME LockInv, NEW w \in Worker, at[w] # "idle", UNCHANGED <<lock, workspace>>,
           \/ \E place \in Place \ {"createWorkspace"}, s \in Outcome :
                  Goto(w, place) /\ frame' \in {frame, [frame EXCEPT ![w].status = s]}
           \/ \E s \in Outcome : Catch(w, s)
    PROVE  LockInv'
<1>1. CASE \E s \in Outcome : Catch(w, s)
  BY <1>1, CatchStep, HandlerStep DEF LockInv
<1>2. ASSUME NEW place \in Place \ {"createWorkspace"}, NEW s \in Outcome, Goto(w, place),
             frame' \in {frame, [frame EXCEPT ![w].status = s]}
      PROVE  LockInv'
  <2>1. at' \in [Worker -> Place] /\ at'[w] # "createWorkspace"
        /\ \A v \in Worker : v # w => at'[v] = at[v]
    BY <1>2, OthersKept DEF LockInv
  <2>2. /\ frame' \in [Worker -> Locals]
        /\ \A v \in Worker : /\ frame'[v].claim = frame[v].claim
                             /\ frame'[v].workspace = frame[v].workspace
    BY <1>2 DEF LockInv, LockTypeOK, Locals
  <2>3. QED  BY <2>1, <2>2, HandlerStep
<1>3. QED  BY <1>1, <1>2

\* A crash frees the lock only if it was the crashed worker's.
LEMMA CrashInd ==
    ASSUME LockInv, NEW w \in Worker, Crash(w)
    PROVE  LockInv'
<1>1. at' \in [Worker -> Place] /\ at'[w] = "idle"
      /\ \A v \in Worker : v # w => at'[v] = at[v]
  BY OthersKept DEF Crash, Place, LockInv
<1>2. frame' \in [Worker -> Locals]
      /\ \A v \in Worker : v # w => frame'[v] = frame[v]
  BY DEF Crash, LockInv, LockTypeOK, Locals, NoLocals, Outcome
<1>3. workspace' = workspace /\ (lock' = lock \/ lock = w)
  BY DEF Crash
<1>4. QED
  BY <1>1, <1>2, <1>3 DEF LockInv, LockTypeOK, Claimed, JobKeepsWorkspace

\* The finally block, and the ways it can fail.
LEMMA FinallyInd ==
    ASSUME LockInv, NEW w \in Worker, Finish(w) \/ CleanupFails(w) \/ CloseFails(w)
    PROVE  LockInv'
<1>1. (workspace => workspace') \/ frame[w].workspace
  BY DEF Finish, CleanupFails, CloseFails, WorkspaceAfter
<1>2. lock' = lock \/ frame[w].claim
  BY DEF Finish, CleanupFails, CloseFails
<1>3. at[w] # "idle" /\ Goto(w, "idle") /\ frame' = frame
  BY DEF Finish, CleanupFails, CloseFails
<1>4. QED  BY <1>1, <1>2, <1>3, IdleStep

\* Every step of every worker keeps the invariant.
LEMMA StepLockInv == LockInv /\ [Next]_vars => LockInv'
<1> SUFFICES ASSUME LockInv, [Next]_vars PROVE LockInv'
  OBVIOUS
<1> USE DEF Outcome, Place
<1>1. ASSUME NEW w \in Worker, Step(w) PROVE LockInv'
  <2>1. CASE Deliver(w)  BY <2>1, DeliverInd
  <2>2. CASE Acquire(w)  BY <2>2, AcquireInd
  <2>3. CASE CreateWorkspace(w)  BY <2>3, CreateWorkspaceInd
  <2>4. CASE Finish(w) \/ CleanupFails(w) \/ CloseFails(w)  BY <2>4, FinallyInd
  <2>5. CASE Validate(w)  BY <2>5, MoveOrCatchInd DEF Validate
  <2>6. CASE AcquireFails(w)  BY <2>6, MoveOrCatchInd DEF AcquireFails
  <2>7. CASE PublishSkipped(w)  BY <2>7, MoveOrCatchInd DEF PublishSkipped
  <2>8. CASE PublishRunning(w)  BY <2>8, MoveOrCatchInd DEF PublishRunning
  <2>9. CASE Execute(w)  BY <2>9, MoveOrCatchInd DEF Execute
  <2>10. CASE PublishResult(w)  BY <2>10, MoveOrCatchInd DEF PublishResult
  <2>11. CASE Complete(w)  BY <2>11, MoveOrCatchInd DEF Complete
  <2>12. CASE PublishFailure(w)  BY <2>12, MoveOrCatchInd DEF PublishFailure
  <2>13. CASE CompleteFailure(w)  BY <2>13, MoveOrCatchInd DEF CompleteFailure
  <2>14. CASE PublishMarkerFailure(w)  BY <2>14, MoveOrCatchInd DEF PublishMarkerFailure
  <2>15. QED
    BY <1>1, <2>1, <2>2, <2>3, <2>4, <2>5, <2>6, <2>7, <2>8, <2>9, <2>10, <2>11,
       <2>12, <2>13, <2>14 DEF Step
<1>2. ASSUME NEW w \in Worker, Crash(w) PROVE LockInv'
  BY <1>2, CrashInd
<1>3. CASE UNCHANGED vars
  BY <1>3 DEF vars, LockInv, LockTypeOK, Claimed, JobKeepsWorkspace
<1>4. QED  BY <1>1, <1>2, <1>3 DEF Next

\* The lock invariant holds in every reachable state.
LEMMA LockInvariance == Spec => []LockInv
BY InitLockInv, StepLockInv, PTL DEF Spec

\* Deliveries of one job never run side by side, for any number of workers
\* and whatever crashes or fails (FileIdempotencyGuard.acquire).
THEOREM JobIsExclusive == Spec => []ExclusiveJob
<1>1. LockInv => ExclusiveJob
  BY DEF LockInv, ExclusiveJob
<1>2. QED  BY <1>1, LockInvariance, PTL

\* No cleanup deletes the workspace of a delivery that is still running (the
\* finally block of ExecutorJobHandler).
THEOREM WorkspaceIsKept == Spec => []JobKeepsWorkspace
<1>1. LockInv => JobKeepsWorkspace
  BY DEF LockInv
<1>2. QED  BY <1>1, LockInvariance, PTL

-----------------------------------------------------------------------------
\* What one more event does to the topic: the status is reported, and the
\* master takes it over only along the transitions of JobStateMachine.
LEMMA TopicStep ==
    ASSUME topic.reported \subseteq Outcome \cup {"running", "skipped"},
           topic.master \in {"queued", "running"} \cup FinalStatus,
           NEW s \in Outcome \cup {"running", "skipped"}
    PROVE  /\ With(s).reported = topic.reported \cup {s}
           /\ With(s).reported \subseteq Outcome \cup {"running", "skipped"}
           /\ With(s).master \in {"queued", "running"} \cup FinalStatus
           /\ topic.master \in FinalStatus => With(s).master = topic.master
           /\ topic.master = "running" /\ s \in Outcome => With(s).master = s
           /\ topic.master = "running" /\ s \notin Outcome => With(s).master = "running"
           /\ topic.master = "queued" =>
                 With(s).master = IF s \in {"running", "skipped"} THEN s ELSE "queued"
<1>1. /\ With(s).reported = topic.reported \cup {s}
      /\ With(s).master = IF canTransition(topic.master, s) THEN s ELSE topic.master
  BY DEF With
<1>2. With(s).reported \subseteq Outcome \cup {"running", "skipped"}
  BY <1>1
<1>3. CASE topic.master = "queued"
  BY <1>1, <1>2, <1>3 DEF canTransition, Successors, Outcome, FinalStatus
<1>4. CASE topic.master = "running"
  BY <1>1, <1>2, <1>4 DEF canTransition, Successors, Outcome, FinalStatus
<1>5. CASE topic.master \in FinalStatus
  BY <1>1, <1>2, <1>5 DEF canTransition, Successors, FinalStatus
<1>6. QED  BY <1>3, <1>4, <1>5

\* The delivery has been answered by a final event.
Answered == \E s \in Outcome \cup {"skipped"} : Reported(s)

\* What is known of a worker by the place it has reached.  From the claim to
\* the result the worker has a claim; what it writes into the state file has
\* been published; a failure is no success; it returns only after an answer;
\* and while it can still write the state file, no success is in it.
PlaceInv(w) ==
    /\ at[w] \in {"createWorkspace", "publishRunning", "execute", "publishResult", "complete"}
           => frame[w].claim
    /\ at[w] \in {"complete", "completeFailure"} => Reported(frame[w].status)
    /\ at[w] \in {"publishFailure", "completeFailure"} => frame[w].status # "success"
    /\ at[w] = "cleanup" => Answered
    /\ frame[w].claim /\ at[w] \notin {"idle", "cleanup", "unwind"} => marker # "success"

\* A worker that has reported RUNNING and owes the end of the job, or is
\* about to leave the handler with an exception.
Busy(w) == at[w] \in {"execute", "publishResult", "publishFailure", "unwind"}

\* While the master holds the execution for running, and nothing has crashed
\* or been thrown, some worker still owes the end.
MasterInv ==
    /\ topic.master \in {"queued", "running"} \cup FinalStatus
    /\ Reported("running") => topic.master # "queued"
    /\ topic.master = "running" /\ crashes = 0 /\ failures = 0 => \E w \in Worker : Busy(w)

\* Inductive strengthening of what the executors promise about their reports.
ReportInv ==
    /\ TypeOK
    /\ LockInv
    /\ MarkedSuccessIsReported
    /\ AckedIsReported
    /\ \A w \in Worker : PlaceInv(w)
    /\ MasterInv

LEMMA InitReportInv == Init => ReportInv
<1> SUFFICES ASSUME Init PROVE ReportInv
  OBVIOUS
<1>1. TypeOK
  <2>1. /\ at \in [Worker -> Place] /\ frame \in [Worker -> Locals]
    BY DEF Init, Place, Locals, NoLocals, Outcome
  <2>2. topic.reported = {} /\ topic.master \in JobExecutionStatus
    BY DEF Init, JobExecutionStatus, ActiveStatus
  <2>3. failures \in 0..MaxFailures /\ crashes \in 0..MaxCrashes
    BY LimitAssumption DEF Init
  <2>4. /\ message \in Message /\ lock \in Worker \cup {NoWorker}
        /\ marker \in Outcome \cup {"none", "running"} /\ workspace \in BOOLEAN
        /\ offset \in {"pending", "acked", "dropped"}
    BY DEF Init
  <2>5. QED  BY <2>1, <2>2, <2>3, <2>4 DEF TypeOK
<1>2. MarkedSuccessIsReported /\ AckedIsReported
  BY DEF Init, MarkedSuccessIsReported, AckedIsReported
<1>3. \A w \in Worker : PlaceInv(w)
  BY DEF Init, PlaceInv
<1>4. MasterInv
  BY DEF Init, MasterInv, Reported
<1>5. QED  BY <1>1, <1>2, <1>3, <1>4, InitLockInv DEF ReportInv

\* The step of a worker that publishes nothing or one event of status s, and
\* writes the state file only with a claim or where no success is in it.
\* What remains to be shown of such a step is what it says of the worker
\* itself, of the marker, of the acknowledgement and of the master.
LEMMA WorkerStep ==
    ASSUME ReportInv, NEW w \in Worker, NEW s \in Outcome \cup {"running", "skipped"},
           TypeOK', LockInv', topic' \in {topic, With(s)},
           \A v \in Worker : v # w => at'[v] = at[v] /\ frame'[v] = frame[v],
           marker' \in {marker, "running"} \/ (at[w] # "idle" /\ frame[w].claim),
           marker' = "success" => marker = "success" \/ Reported("success")',
           offset' = "acked" => offset = "acked" \/ Answered,
           crashes' = 0 => crashes = 0, failures' = 0 => failures = 0,
           PlaceInv(w)',
           /\ topic'.master = "running" /\ crashes' = 0 /\ failures' = 0
           => Busy(w)' \/ (topic.master = "running" /\ ~Busy(w))
    PROVE  ReportInv'
<1>1. /\ topic'.reported \in {topic.reported, topic.reported \cup {s}}
      /\ topic'.master \in {"queued", "running"} \cup FinalStatus
  BY TopicStep DEF ReportInv, TypeOK, MasterInv
<1>2. \A r : Reported(r) => Reported(r)'
  BY <1>1 DEF Reported
<1>3. MarkedSuccessIsReported'
  BY <1>2 DEF ReportInv, MarkedSuccessIsReported
<1>4. AckedIsReported'
  BY <1>2 DEF ReportInv, AckedIsReported, Answered
<1>5. ASSUME NEW v \in Worker, v # w PROVE PlaceInv(v)'
  <2>1. at'[v] = at[v] /\ frame'[v] = frame[v] /\ PlaceInv(v)
    BY <1>5 DEF ReportInv
  <2>2. Answered => Answered'
    BY <1>2 DEF Answered
  <2>3. frame[v].claim /\ at[v] \notin {"idle", "cleanup", "unwind"} => marker' # "success"
    <3>1. CASE at[w] # "idle" /\ frame[w].claim
      BY <1>5, <3>1 DEF ReportInv, LockInv, Claimed
    <3>2. CASE marker' \in {marker, "running"}
      BY <2>1, <3>2 DEF PlaceInv
    <3>3. QED  BY <3>1, <3>2
  <2>4. QED  BY <1>2, <2>1, <2>2, <2>3 DEF PlaceInv
<1>6. MasterInv'
  <2>1. Reported("running")' => topic'.master # "queued"
    <3>1. CASE topic' = topic
      BY <3>1 DEF ReportInv, MasterInv, Reported
    <3>2. CASE topic' = With(s)
      BY <3>2, TopicStep DEF ReportInv, TypeOK, MasterInv, Reported, FinalStatus, Outcome
    <3>3. QED  BY <3>1, <3>2
  <2>2. ASSUME topic'.master = "running", crashes' = 0, failures' = 0
        PROVE  \E v \in Worker : Busy(v)'
    <3>1. CASE Busy(w)'  BY <3>1
    <3>2. CASE topic.master = "running" /\ ~Busy(w)
      <4>1. PICK v \in Worker : Busy(v)
        BY <2>2, <3>2 DEF ReportInv, MasterInv
      <4>2. v # w /\ at'[v] = at[v]
        BY <3>2, <4>1
      <4>3. QED  BY <4>1, <4>2 DEF Busy
    <3>3. QED  BY <2>2, <3>1, <3>2
  <2>3. QED  BY <1>1, <2>1, <2>2 DEF MasterInv
<1>7. QED  BY <1>3, <1>4, <1>5, <1>6 DEF ReportInv

-----------------------------------------------------------------------------
\* The topic keeps its type whatever event of the contract is published.
LEMMA TopicTyped ==
    ASSUME TypeOK, NEW s \in Outcome \cup {"running", "skipped"}, topic' \in {topic, With(s)}
    PROVE  /\ topic'.reported \subseteq Outcome \cup {"running", "skipped"}
           /\ topic'.master \in JobExecutionStatus
<1>1. s \in JobExecutionStatus
  BY DEF Outcome, JobExecutionStatus, FinalStatus, ActiveStatus
<1>2. /\ With(s).reported = topic.reported \cup {s}
      /\ With(s).master \in {s, topic.master}
  BY DEF With
<1>3. QED  BY <1>1, <1>2 DEF TypeOK

\* Every step of every worker keeps the types.
LEMMA StepTypeOK == TypeOK /\ [Next]_vars => TypeOK'
<1> SUFFICES ASSUME TypeOK, [Next]_vars PROVE TypeOK'
  OBVIOUS
<1>1. ASSUME NEW w \in Worker, Step(w) \/ Crash(w) PROVE TypeOK'
  <2>1. message' = message
    BY <1>1 DEF Step, Deliver, Validate, Acquire, AcquireFails, PublishSkipped,
          CreateWorkspace, PublishRunning, Execute, PublishResult, Complete,
          PublishFailure, CompleteFailure, PublishMarkerFailure, Finish, CleanupFails,
          CloseFails, Crash
  <2>2. at' \in [Worker -> Place]
    BY <1>1 DEF TypeOK, Place, Goto, Catch, Step, Deliver, Validate, Acquire,
          AcquireFails, PublishSkipped, CreateWorkspace, PublishRunning, Execute,
          PublishResult, Complete, PublishFailure, CompleteFailure,
          PublishMarkerFailure, Finish, CleanupFails, CloseFails, Crash
  <2>3. frame' \in [Worker -> Locals]
    <3>1. \/ frame' = frame
          \/ \E s \in Outcome : frame' = [frame EXCEPT ![w].status = s]
          \/ frame' = [frame EXCEPT ![w].claim = TRUE]
          \/ frame' = [frame EXCEPT ![w].workspace = TRUE]
          \/ frame' = [frame EXCEPT ![w] = NoLocals]
      BY <1>1 DEF Outcome, Catch, Step, Deliver, Validate, Acquire,
            AcquireFails, PublishSkipped, CreateWorkspace, PublishRunning, Execute,
            PublishResult, Complete, PublishFailure, CompleteFailure,
            PublishMarkerFailure, Finish, CleanupFails, CloseFails, Crash
    <3>2. frame \in [Worker -> Locals]
      BY DEF TypeOK
    <3>3. ASSUME NEW s \in Outcome, frame' = [frame EXCEPT ![w].status = s]
          PROVE  frame' \in [Worker -> Locals]
      BY <3>2, <3>3 DEF Locals
    <3>4. CASE frame' = [frame EXCEPT ![w].claim = TRUE]
      BY <3>2, <3>4 DEF Locals
    <3>5. CASE frame' = [frame EXCEPT ![w].workspace = TRUE]
      BY <3>2, <3>5 DEF Locals
    <3>6. CASE frame' = [frame EXCEPT ![w] = NoLocals]
      BY <3>2, <3>6 DEF Locals, NoLocals, Outcome
    <3>7. QED  BY <3>1, <3>2, <3>3, <3>4, <3>5, <3>6
  <2>4. frame[w].status \in Outcome /\ frame[w].claim \in BOOLEAN
    BY DEF TypeOK, Locals
  <2>5. lock' \in Worker \cup {NoWorker} /\ marker' \in Outcome \cup {"none", "running"}
    BY <1>1, <2>4 DEF TypeOK, Step, Deliver, Validate, Acquire, AcquireFails,
          PublishSkipped, CreateWorkspace, PublishRunning, Execute, PublishResult,
          Complete, PublishFailure, CompleteFailure, PublishMarkerFailure, Finish,
          CleanupFails, CloseFails, Crash
  <2>6. workspace' \in BOOLEAN
    BY <1>1 DEF TypeOK, WorkspaceAfter, Step, Deliver, Validate, Acquire,
          AcquireFails, PublishSkipped, CreateWorkspace, PublishRunning, Execute,
          PublishResult, Complete, PublishFailure, CompleteFailure,
          PublishMarkerFailure, Finish, CleanupFails, CloseFails, Crash
  <2>7. \E s \in Outcome \cup {"running", "skipped"} : topic' \in {topic, With(s)}
    BY <1>1, <2>4 DEF Outcome, Publish, PublishFails, Step, Deliver, Validate, Acquire,
          AcquireFails, PublishSkipped, CreateWorkspace, PublishRunning, Execute,
          PublishResult, Complete, PublishFailure, CompleteFailure,
          PublishMarkerFailure, Finish, CleanupFails, CloseFails, Crash
  <2>8. /\ offset' \in {"pending", "acked", "dropped"}
        /\ failures' \in 0..MaxFailures
        /\ crashes' \in 0..MaxCrashes
    BY <1>1, LimitAssumption DEF TypeOK, Acknowledge, Redeliver, Step, Deliver, Validate,
          Acquire, AcquireFails, PublishSkipped, CreateWorkspace, PublishRunning,
          Execute, PublishResult, Complete, PublishFailure, CompleteFailure,
          PublishMarkerFailure, Finish, CleanupFails, CloseFails, Crash
  <2>9. QED  BY <2>1, <2>2, <2>3, <2>5, <2>6, <2>7, <2>8, TopicTyped DEF TypeOK
<1>2. CASE UNCHANGED vars
  BY <1>2 DEF vars, TypeOK
<1>3. QED  BY <1>1, <1>2 DEF Next

-----------------------------------------------------------------------------
\* Where a worker stands after Goto, and after an exception was caught.
LEMMA Moved ==
    ASSUME TypeOK, NEW w \in Worker, NEW place, Goto(w, place)
    PROVE  at'[w] = place
BY DEF TypeOK, Goto

LEMMA Caught ==
    ASSUME TypeOK, NEW w \in Worker, NEW s \in Outcome, Catch(w, s)
    PROVE  /\ at'[w] = "publishFailure"
           /\ frame'[w].status = s /\ frame'[w].claim = frame[w].claim
<1>1. at'[w] = "publishFailure"
  BY Moved DEF Catch
<1>2. frame'[w].status = s /\ frame'[w].claim = frame[w].claim
  BY DEF Catch, TypeOK, Locals
<1>3. QED  BY <1>1, <1>2

\* A worker that has caught an exception has nothing reported to answer for
\* yet: it knows only that its outcome is no success.
LEMMA CaughtPlace ==
    ASSUME ReportInv, NEW w \in Worker, NEW s \in Outcome \ {"success"}, Catch(w, s),
           at[w] \notin {"idle", "cleanup", "unwind"}, marker' = marker
    PROVE  PlaceInv(w)' /\ Busy(w)'
<1>1. /\ at'[w] = "publishFailure"
      /\ frame'[w].status = s /\ frame'[w].claim = frame[w].claim
  BY Caught DEF ReportInv
<1>2. frame[w].claim => marker # "success"
  BY DEF ReportInv, PlaceInv
<1>3. QED  BY <1>1, <1>2 DEF PlaceInv, Busy

\* A step of one worker leaves the place and the locals of the others alone.
LEMMA OthersUntouched ==
    ASSUME TypeOK, NEW w \in Worker, Step(w) \/ Crash(w), NEW v \in Worker, v # w
    PROVE  at'[v] = at[v] /\ frame'[v] = frame[v]
<1>1. at'[v] = at[v]
  BY DEF TypeOK, Goto, Catch, Step, Deliver, Validate, Acquire, AcquireFails,
        PublishSkipped, CreateWorkspace, PublishRunning, Execute, PublishResult,
        Complete, PublishFailure, CompleteFailure, PublishMarkerFailure, Finish,
        CleanupFails, CloseFails, Crash
<1>2. frame'[v] = frame[v]
  BY DEF TypeOK, Catch, Step, Deliver, Validate, Acquire, AcquireFails,
        PublishSkipped, CreateWorkspace, PublishRunning, Execute, PublishResult,
        Complete, PublishFailure, CompleteFailure, PublishMarkerFailure, Finish,
        CleanupFails, CloseFails, Crash
<1>3. QED  BY <1>1, <1>2

\* A step of the handler that publishes nothing or one event and writes no
\* marker keeps the invariant if the worker lands in a place it may be in.
LEMMA HandlerReports ==
    ASSUME ReportInv, NEW w \in Worker, NEW s \in Outcome \cup {"running", "skipped"},
           TypeOK', LockInv', topic' \in {topic, With(s)},
           \A v \in Worker : v # w => at'[v] = at[v] /\ frame'[v] = frame[v],
           UNCHANGED <<marker, offset, failures, crashes>>,
           PlaceInv(w)',
           topic'.master = "running" =>
               Busy(w)' \/ (topic.master = "running" /\ ~Busy(w))
    PROVE  ReportInv'
BY WorkerStep

\* One lemma for each call of the handler.  The first three publish nothing.
LEMMA BeginReports ==
    ASSUME ReportInv, NEW w \in Worker, Deliver(w) \/ Validate(w) \/ AcquireFails(w),
           TypeOK', LockInv'
    PROVE  ReportInv'
<1>1. \A v \in Worker : v # w => at'[v] = at[v] /\ frame'[v] = frame[v]
  BY OthersUntouched DEF Step, ReportInv
<1>2. UNCHANGED <<topic, marker, offset, failures, crashes>>
  BY DEF Deliver, Validate, AcquireFails
<1>3. ~Busy(w)
  BY DEF Busy, Deliver, Validate, AcquireFails
<1>4. PlaceInv(w)'
  <2>1. CASE Deliver(w)
    <3>1. at'[w] = "validate" /\ frame'[w] = NoLocals
      BY <2>1, Moved DEF Deliver, ReportInv, TypeOK
    <3>2. QED  BY <3>1 DEF PlaceInv, NoLocals
  <2>2. CASE Validate(w)
    <3>1. CASE Goto(w, "acquire") /\ UNCHANGED frame
      BY <1>2, <2>2, <3>1, Moved DEF Validate, ReportInv, PlaceInv
    <3>2. CASE Catch(w, "failed")
      BY <1>2, <2>2, <3>2, CaughtPlace DEF Validate, Outcome
    <3>3. QED  BY <2>2, <3>1, <3>2 DEF Validate
  <2>3. CASE AcquireFails(w)
    BY <1>2, <2>3, Moved DEF AcquireFails, ReportInv, PlaceInv
  <2>4. QED  BY <2>1, <2>2, <2>3
<1>5. "failed" \in Outcome
  BY DEF Outcome
<1>6. QED  BY <1>1, <1>2, <1>3, <1>4, <1>5, HandlerReports

LEMMA AcquireReports ==
    ASSUME ReportInv, NEW w \in Worker, Acquire(w), TypeOK', LockInv'
    PROVE  ReportInv'
<1>1. \A v \in Worker : v # w => at'[v] = at[v] /\ frame'[v] = frame[v]
  BY OthersUntouched DEF Step, ReportInv
<1>2. UNCHANGED <<topic, offset, failures, crashes>> /\ ~Busy(w)
  BY DEF Acquire, Busy
<1>3. marker' \in {marker, "running"}
  BY DEF Acquire
<1>4. PlaceInv(w)'
  <2>1. CASE lock # NoWorker \/ marker = "success"
    <3>1. at[w] = "acquire" /\ at'[w] = "publishSkipped" /\ UNCHANGED <<frame, marker>>
      BY <2>1, Moved DEF Acquire, ReportInv
    <3>2. QED  BY <3>1 DEF ReportInv, PlaceInv
  <2>2. CASE ~(lock # NoWorker \/ marker = "success")
    <3>1. /\ at'[w] = "createWorkspace" /\ marker' = "running"
          /\ frame' = [frame EXCEPT ![w].claim = TRUE]
      BY <2>2, Moved DEF Acquire, ReportInv
    <3>2. frame'[w].claim
      BY <3>1 DEF ReportInv, TypeOK, Locals
    <3>3. QED  BY <3>1, <3>2 DEF PlaceInv
  <2>3. QED  BY <2>1, <2>2
<1>5. "failed" \in Outcome
  BY DEF Outcome
<1>6. QED  BY <1>1, <1>2, <1>3, <1>4, <1>5, WorkerStep

LEMMA PublishSkippedReports ==
    ASSUME ReportInv, NEW w \in Worker, PublishSkipped(w), TypeOK', LockInv'
    PROVE  ReportInv'
<1>1. \A v \in Worker : v # w => at'[v] = at[v] /\ frame'[v] = frame[v]
  BY OthersUntouched DEF Step, ReportInv
<1>2. /\ UNCHANGED <<marker, offset, failures, crashes>> /\ at[w] = "publishSkipped"
      /\ topic' \in {topic, With("skipped")}
  BY DEF PublishSkipped, Publish, PublishFails
<1>3. PlaceInv(w)'
  <2>1. CASE Publish("skipped") /\ Goto(w, "cleanup")
    <3>1. Reported("skipped")' /\ at'[w] = "cleanup"
      BY <2>1, Moved DEF Publish, With, Reported, ReportInv
    <3>2. QED  BY <3>1 DEF PlaceInv, Answered
  <2>2. CASE Catch(w, "failed")
    BY <1>2, <2>2, CaughtPlace DEF Outcome
  <2>3. QED  BY <2>1, <2>2 DEF PublishSkipped
<1>4. topic'.master = "running" => topic.master = "running" /\ ~Busy(w)
  BY <1>2, TopicStep DEF Busy, ReportInv, TypeOK, MasterInv, FinalStatus, Outcome
<1>5. QED  BY <1>1, <1>2, <1>3, <1>4, HandlerReports

LEMMA CreateWorkspaceReports ==
    ASSUME ReportInv, NEW w \in Worker, CreateWorkspace(w), TypeOK', LockInv'
    PROVE  ReportInv'
<1>1. \A v \in Worker : v # w => at'[v] = at[v] /\ frame'[v] = frame[v]
  BY OthersUntouched DEF Step, ReportInv
<1>2. UNCHANGED <<topic, marker, offset, failures, crashes>> /\ at[w] = "createWorkspace"
  BY DEF CreateWorkspace
<1>3. PlaceInv(w)'
  <2>1. CASE Goto(w, "publishRunning") /\ frame' = [frame EXCEPT ![w].workspace = TRUE]
    <3>1. at'[w] = "publishRunning" /\ frame'[w].claim = frame[w].claim
      BY <2>1, Moved DEF ReportInv, TypeOK, Locals
    <3>2. QED  BY <1>2, <3>1 DEF ReportInv, PlaceInv
  <2>2. CASE Catch(w, "failed")
    BY <1>2, <2>2, CaughtPlace DEF Outcome
  <2>3. QED  BY <2>1, <2>2 DEF CreateWorkspace
<1>4. ~Busy(w) /\ "failed" \in Outcome
  BY <1>2 DEF Busy, Outcome
<1>5. QED  BY <1>1, <1>2, <1>3, <1>4, HandlerReports

LEMMA PublishRunningReports ==
    ASSUME ReportInv, NEW w \in Worker, PublishRunning(w), TypeOK', LockInv'
    PROVE  ReportInv'
<1>1. \A v \in Worker : v # w => at'[v] = at[v] /\ frame'[v] = frame[v]
  BY OthersUntouched DEF Step, ReportInv
<1>2. /\ UNCHANGED <<marker, offset, failures, crashes>> /\ at[w] = "publishRunning"
      /\ topic' \in {topic, With("running")}
  BY DEF PublishRunning, Publish, PublishFails
<1>3. PlaceInv(w)' /\ Busy(w)'
  <2>1. CASE Goto(w, "execute") /\ UNCHANGED frame
    <3>1. at'[w] = "execute"
      BY <2>1, Moved DEF ReportInv
    <3>2. QED  BY <1>2, <2>1, <3>1 DEF ReportInv, PlaceInv, Busy
  <2>2. CASE Catch(w, "failed")
    BY <1>2, <2>2, CaughtPlace DEF Outcome
  <2>3. QED  BY <2>1, <2>2 DEF PublishRunning
<1>4. QED  BY <1>1, <1>2, <1>3, HandlerReports

LEMMA ExecuteReports ==
    ASSUME ReportInv, NEW w \in Worker, Execute(w), TypeOK', LockInv'
    PROVE  ReportInv'
<1>1. \A v \in Worker : v # w => at'[v] = at[v] /\ frame'[v] = frame[v]
  BY OthersUntouched DEF Step, ReportInv
<1>2. UNCHANGED <<topic, marker, offset, failures, crashes>> /\ at[w] = "execute"
  BY DEF Execute
<1>3. PlaceInv(w)' /\ Busy(w)'
  <2>1. PICK s \in Outcome :
           \/ Goto(w, "publishResult") /\ frame' = [frame EXCEPT ![w].status = s]
           \/ s # "success" /\ Catch(w, s)
    BY DEF Execute
  <2>2. CASE Goto(w, "publishResult") /\ frame' = [frame EXCEPT ![w].status = s]
    <3>1. at'[w] = "publishResult" /\ frame'[w].claim = frame[w].claim
      BY <2>2, Moved DEF ReportInv, TypeOK, Locals
    <3>2. QED  BY <1>2, <3>1 DEF ReportInv, PlaceInv, Busy
  <2>3. CASE s # "success" /\ Catch(w, s)
    BY <1>2, <2>3, CaughtPlace
  <2>4. QED  BY <2>1, <2>2, <2>3
<1>4. "failed" \in Outcome
  BY DEF Outcome
<1>5. QED  BY <1>1, <1>2, <1>3, <1>4, HandlerReports

LEMMA PublishResultReports ==
    ASSUME ReportInv, NEW w \in Worker, PublishResult(w), TypeOK', LockInv'
    PROVE  ReportInv'
<1> DEFINE s == frame[w].status
<1>1. \A v \in Worker : v # w => at'[v] = at[v] /\ frame'[v] = frame[v]
  BY OthersUntouched DEF Step, ReportInv
<1>2. /\ UNCHANGED <<marker, offset, failures, crashes>> /\ at[w] = "publishResult"
      /\ topic' \in {topic, With(s)} /\ s \in Outcome
  BY DEF PublishResult, Publish, PublishFails, ReportInv, TypeOK, Locals
<1>3. CASE Publish(s) /\ Goto(w, "complete") /\ UNCHANGED frame
  <2>1. at'[w] = "complete" /\ Reported(s)'
    BY <1>3, Moved DEF Publish, With, Reported, ReportInv
  <2>2. PlaceInv(w)'
    BY <1>2, <1>3, <2>1 DEF ReportInv, PlaceInv
  <2>3. topic'.master # "running"
    BY <1>2, <1>3, TopicStep DEF Publish, ReportInv, TypeOK, MasterInv, FinalStatus, Outcome
  <2>4. QED  BY <1>1, <1>2, <2>2, <2>3, HandlerReports
<1>4. CASE Catch(w, "failed")
  <2>1. PlaceInv(w)' /\ Busy(w)'
    BY <1>2, <1>4, CaughtPlace DEF Outcome
  <2>2. QED  BY <1>1, <1>2, <2>1, HandlerReports
<1>5. QED  BY <1>3, <1>4 DEF PublishResult

\* The state file is written by the worker that has the claim, with a status
\* it has published.
LEMMA CompleteReports ==
    ASSUME ReportInv, NEW w \in Worker, Complete(w), TypeOK', LockInv'
    PROVE  ReportInv'
<1>1. \A v \in Worker : v # w => at'[v] = at[v] /\ frame'[v] = frame[v]
  BY OthersUntouched DEF Step, ReportInv
<1>2. /\ UNCHANGED <<topic, frame, offset, failures, crashes>>
      /\ at[w] = "complete" /\ frame[w].status \in Outcome
      /\ frame[w].claim /\ Reported(frame[w].status) /\ marker # "success"
  BY DEF Complete, ReportInv, PlaceInv, TypeOK, Locals
<1>3. ~Busy(w) /\ "failed" \in Outcome /\ Reported(frame[w].status)'
  BY <1>2 DEF Busy, Outcome, Reported
<1>4. CASE marker' = frame[w].status /\ Goto(w, "cleanup")
  <2>1. at'[w] = "cleanup"
    BY <1>4, Moved DEF ReportInv
  <2>2. PlaceInv(w)'
    BY <1>2, <1>3, <2>1 DEF PlaceInv, Answered
  <2>3. QED  BY <1>1, <1>2, <1>3, <1>4, <2>2, WorkerStep
<1>5. CASE Goto(w, "publishMarkerFailure") /\ UNCHANGED marker
  <2>1. at'[w] = "publishMarkerFailure"
    BY <1>5, Moved DEF ReportInv
  <2>2. PlaceInv(w)'
    BY <1>2, <1>5, <2>1 DEF PlaceInv
  <2>3. QED  BY <1>1, <1>2, <1>3, <1>5, <2>2, WorkerStep
<1>6. QED  BY <1>4, <1>5 DEF Complete

LEMMA PublishFailureReports ==
    ASSUME ReportInv, NEW w \in Worker, PublishFailure(w), TypeOK', LockInv'
    PROVE  ReportInv'
<1> DEFINE s == frame[w].status
<1>1. \A v \in Worker : v # w => at'[v] = at[v] /\ frame'[v] = frame[v]
  BY OthersUntouched DEF Step, ReportInv
<1>2. /\ UNCHANGED <<frame, marker, offset, failures, crashes>> /\ at[w] = "publishFailure"
      /\ topic' \in {topic, With(s)} /\ s \in Outcome
  BY DEF PublishFailure, Publish, PublishFails, ReportInv, TypeOK, Locals
<1>3. CASE Publish(s) /\ Goto(w, "completeFailure")
  <2>1. at'[w] = "completeFailure" /\ Reported(s)'
    BY <1>2, <1>3, Moved DEF Publish, With, Reported, ReportInv
  <2>2. PlaceInv(w)'
    BY <1>2, <2>1 DEF ReportInv, PlaceInv
  <2>3. topic'.master # "running"
    BY <1>2, <1>3, TopicStep DEF Publish, ReportInv, TypeOK, MasterInv, FinalStatus, Outcome
  <2>4. QED  BY <1>1, <1>2, <2>2, <2>3, HandlerReports
<1>4. CASE Goto(w, "unwind")
  <2>1. at'[w] = "unwind"
    BY <1>4, Moved DEF ReportInv
  <2>2. PlaceInv(w)' /\ Busy(w)'
    BY <2>1 DEF PlaceInv, Busy
  <2>3. QED  BY <1>1, <1>2, <2>2, HandlerReports
<1>5. QED  BY <1>3, <1>4 DEF PublishFailure

LEMMA CompleteFailureReports ==
    ASSUME ReportInv, NEW w \in Worker, CompleteFailure(w), TypeOK', LockInv'
    PROVE  ReportInv'
<1>1. \A v \in Worker : v # w => at'[v] = at[v] /\ frame'[v] = frame[v]
  BY OthersUntouched DEF Step, ReportInv
<1>2. /\ UNCHANGED <<topic, frame, offset, failures, crashes>>
      /\ at[w] = "completeFailure" /\ frame[w].status \in Outcome
      /\ Reported(frame[w].status) /\ frame[w].status # "success"
  BY DEF CompleteFailure, ReportInv, PlaceInv, TypeOK, Locals
<1>3. /\ ~Busy(w) /\ "failed" \in Outcome /\ Reported(frame[w].status)'
      /\ marker' = IF frame[w].claim /\ marker' # marker THEN frame[w].status ELSE marker
  BY <1>2 DEF Busy, Outcome, Reported, CompleteFailure
<1>4. CASE Goto(w, "cleanup")
  <2>1. at'[w] = "cleanup"
    BY <1>4, Moved DEF ReportInv
  <2>2. PlaceInv(w)'
    BY <1>2, <1>3, <2>1 DEF PlaceInv, Answered
  <2>3. QED  BY <1>1, <1>2, <1>3, <2>2, WorkerStep
<1>5. CASE Goto(w, "unwind")
  <2>1. at'[w] = "unwind"
    BY <1>5, Moved DEF ReportInv
  <2>2. PlaceInv(w)'
    BY <2>1 DEF PlaceInv
  <2>3. QED  BY <1>1, <1>2, <1>3, <2>2, WorkerStep
<1>6. QED  BY <1>4, <1>5 DEF CompleteFailure

LEMMA PublishMarkerFailureReports ==
    ASSUME ReportInv, NEW w \in Worker, PublishMarkerFailure(w), TypeOK', LockInv'
    PROVE  ReportInv'
<1>1. \A v \in Worker : v # w => at'[v] = at[v] /\ frame'[v] = frame[v]
  BY OthersUntouched DEF Step, ReportInv
<1>2. /\ UNCHANGED <<marker, offset, failures, crashes>> /\ at[w] = "publishMarkerFailure"
      /\ topic' \in {topic, With("failed")} /\ "failed" \in Outcome /\ ~Busy(w)
  BY DEF PublishMarkerFailure, Publish, PublishFails, Outcome, Busy
<1>3. PlaceInv(w)'
  <2>1. CASE Publish("failed") /\ Goto(w, "cleanup")
    <3>1. Reported("failed")' /\ at'[w] = "cleanup"
      BY <2>1, Moved DEF Publish, With, Reported, ReportInv
    <3>2. QED  BY <1>2, <3>1 DEF PlaceInv, Answered
  <2>2. CASE Goto(w, "unwind")
    BY <2>2, Moved DEF ReportInv, PlaceInv
  <2>3. QED  BY <2>1, <2>2 DEF PublishMarkerFailure
<1>4. topic'.master = "running" => topic.master = "running"
  BY <1>2, TopicStep DEF ReportInv, TypeOK, MasterInv, FinalStatus, Outcome
<1>5. QED  BY <1>1, <1>2, <1>3, <1>4, HandlerReports

\* The finally block acknowledges only after a return, which follows an
\* answer; an exception is counted.
LEMMA FinallyReports ==
    ASSUME ReportInv, NEW w \in Worker, Finish(w) \/ CleanupFails(w) \/ CloseFails(w),
           TypeOK', LockInv'
    PROVE  ReportInv'
<1>1. \A v \in Worker : v # w => at'[v] = at[v] /\ frame'[v] = frame[v]
  BY OthersUntouched DEF Step, ReportInv
<1>2. /\ UNCHANGED <<topic, marker, crashes>> /\ at[w] \in {"cleanup", "unwind"}
      /\ "failed" \in Outcome
      /\ (Acknowledge /\ at[w] = "cleanup") \/ Redeliver
  BY DEF Finish, CleanupFails, CloseFails, Outcome
<1>3. PlaceInv(w)'
  BY Moved DEF Finish, CleanupFails, CloseFails, ReportInv, PlaceInv
<1>4. offset' = "acked" => offset = "acked" \/ Answered
  BY <1>2 DEF Acknowledge, Redeliver, ReportInv, PlaceInv
<1>5. failures' = 0 => failures = 0 /\ ~Busy(w)
  BY <1>2, LimitAssumption DEF Acknowledge, Redeliver, ReportInv, TypeOK, Busy
<1>6. QED  BY <1>1, <1>2, <1>3, <1>4, <1>5, WorkerStep

LEMMA CrashReports ==
    ASSUME ReportInv, NEW w \in Worker, Crash(w), TypeOK', LockInv'
    PROVE  ReportInv'
<1>1. \A v \in Worker : v # w => at'[v] = at[v] /\ frame'[v] = frame[v]
  BY OthersUntouched DEF ReportInv
<1>2. UNCHANGED <<topic, marker, offset, failures>> /\ "failed" \in Outcome
  BY DEF Crash, Outcome
<1>3. crashes' # 0
  BY DEF Crash, ReportInv, TypeOK
<1>4. PlaceInv(w)'
  BY Moved DEF Crash, ReportInv, PlaceInv
<1>5. QED  BY <1>1, <1>2, <1>3, <1>4, WorkerStep

-----------------------------------------------------------------------------
\* Every step of every worker keeps the report invariant.
LEMMA StepReportInv == ReportInv /\ [Next]_vars => ReportInv'
<1> SUFFICES ASSUME ReportInv, [Next]_vars PROVE ReportInv'
  OBVIOUS
<1>1. TypeOK' /\ LockInv'
  BY StepTypeOK, StepLockInv DEF ReportInv
<1>2. ASSUME NEW w \in Worker, Step(w) PROVE ReportInv'
  <2>1. CASE Deliver(w) \/ Validate(w) \/ AcquireFails(w)  BY <1>1, <2>1, BeginReports
  <2>2. CASE Acquire(w)  BY <1>1, <2>2, AcquireReports
  <2>3. CASE PublishSkipped(w)  BY <1>1, <2>3, PublishSkippedReports
  <2>4. CASE CreateWorkspace(w)  BY <1>1, <2>4, CreateWorkspaceReports
  <2>5. CASE PublishRunning(w)  BY <1>1, <2>5, PublishRunningReports
  <2>6. CASE Execute(w)  BY <1>1, <2>6, ExecuteReports
  <2>7. CASE PublishResult(w)  BY <1>1, <2>7, PublishResultReports
  <2>8. CASE Complete(w)  BY <1>1, <2>8, CompleteReports
  <2>9. CASE PublishFailure(w)  BY <1>1, <2>9, PublishFailureReports
  <2>10. CASE CompleteFailure(w)  BY <1>1, <2>10, CompleteFailureReports
  <2>11. CASE PublishMarkerFailure(w)  BY <1>1, <2>11, PublishMarkerFailureReports
  <2>12. CASE Finish(w) \/ CleanupFails(w) \/ CloseFails(w)  BY <1>1, <2>12, FinallyReports
  <2>13. QED
    BY <1>2, <2>1, <2>2, <2>3, <2>4, <2>5, <2>6, <2>7, <2>8, <2>9, <2>10, <2>11, <2>12
    DEF Step
<1>3. ASSUME NEW w \in Worker, Crash(w) PROVE ReportInv'
  BY <1>1, <1>3, CrashReports
<1>4. CASE UNCHANGED vars
  <2>1. MarkedSuccessIsReported' /\ AckedIsReported'
    BY <1>4 DEF vars, ReportInv, MarkedSuccessIsReported, AckedIsReported, Reported
  <2>2. \A w \in Worker : PlaceInv(w)'
    BY <1>4 DEF vars, ReportInv, PlaceInv, Reported, Answered
  <2>3. MasterInv'
    BY <1>4 DEF vars, ReportInv, MasterInv, Reported, Busy
  <2>4. QED  BY <1>1, <2>1, <2>2, <2>3 DEF ReportInv
<1>5. QED  BY <1>2, <1>3, <1>4 DEF Next

\* The report invariant holds in every reachable state.
LEMMA ReportInvariance == Spec => []ReportInv
BY InitReportInv, StepReportInv, PTL DEF Spec

\* Files, events and counters of a job keep their types.
THEOREM ExecutorTypes == Spec => []TypeOK
<1>1. ReportInv => TypeOK  BY DEF ReportInv
<1>2. QED  BY <1>1, ReportInvariance, PTL

\* The state file says success only after the success was published.
THEOREM MarkedSuccessWasReported == Spec => []MarkedSuccessIsReported
<1>1. ReportInv => MarkedSuccessIsReported  BY DEF ReportInv
<1>2. QED  BY <1>1, ReportInvariance, PTL

\* The offset of a job message is committed only after a final event.
THEOREM AckedWasReported == Spec => []AckedIsReported
<1>1. ReportInv => AckedIsReported  BY DEF ReportInv
<1>2. QED  BY <1>1, ReportInvariance, PTL

\* Without a crash and without an exception that leaves the handler, the
\* master holds a final status once every delivery of the job has ended.
THEOREM MasterHasHeardTheEnd == Spec => []MasterHearsTheEnd
<1>1. ReportInv => MasterHearsTheEnd
  BY DEF ReportInv, MasterInv, MasterHearsTheEnd, Busy
<1>2. QED  BY <1>1, ReportInvariance, PTL

\* No step overwrites a recorded success: whoever could write the state file
\* has the claim, and got it while no success was recorded.
THEOREM SuccessIsKept == Spec => SuccessKept
<1>1. ASSUME ReportInv, NEW w \in Worker, Step(w) \/ Crash(w), marker = "success"
      PROVE  marker' = "success"
  <2>1. CASE Acquire(w)  BY <1>1, <2>1 DEF Acquire
  <2>2. CASE Complete(w)
    BY <1>1, <2>2 DEF Complete, ReportInv, PlaceInv
  <2>3. CASE CompleteFailure(w)
    BY <1>1, <2>3 DEF CompleteFailure, ReportInv, PlaceInv
  <2>4. CASE ~(Acquire(w) \/ Complete(w) \/ CompleteFailure(w))
    BY <1>1, <2>4 DEF Step, Deliver, Validate, AcquireFails, PublishSkipped,
          CreateWorkspace, PublishRunning, Execute, PublishResult, PublishFailure,
          PublishMarkerFailure, Finish, CleanupFails, CloseFails, Crash
  <2>5. QED  BY <2>1, <2>2, <2>3, <2>4
<1>2. ReportInv /\ [Next]_vars => [marker = "success" => marker' = "success"]_vars
  BY <1>1 DEF Next
<1>3. QED  BY <1>2, ReportInvariance, PTL DEF Spec, SuccessKept

=============================================================================
