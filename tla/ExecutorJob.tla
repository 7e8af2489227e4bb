---------------------------- MODULE ExecutorJob ----------------------------
(***************************************************************************)
(* One job message on its way through the executors: the Kafka consumer,   *)
(* ExecutorJobHandler, the file idempotency guard, the workspace directory *)
(* and the events the master will read.                                    *)
(*                                                                         *)
(* The workers are executor processes that share the idempotency root and  *)
(* the workspace root, as in docker-compose.demo.yml.  Kafka redelivers a  *)
(* record until its offset is committed: to the same worker after an       *)
(* exception, to another one after a crash or a rebalance, even while the  *)
(* first worker is still busy with it.  Every call that leaves the process *)
(* or writes a file is a step of its own and may fail.                     *)
(*                                                                         *)
(* The events of one execution share a key and so a partition: the master  *)
(* reads them in order and applies each status JobStateMachine accepts.    *)
(***************************************************************************)
EXTENDS Naturals, Orchestration

CONSTANTS
    Worker,            \* executor processes
    NoWorker,          \* owner of a lock file nobody has locked
    MaxFailures,       \* exceptions before the listener container gives up
    MaxCrashes         \* bound of the model: crashes of executor processes

ASSUME WorkerAssumption == NoWorker \notin Worker
ASSUME LimitAssumption == MaxFailures \in Nat \ {0} /\ MaxCrashes \in Nat

\* How the service part of a job ends.
Outcome == {"success", "failed", "timeout"}

\* Where a worker stands in handleWithLoggingContext: the call it makes next.
\* In "cleanup" the handler is about to return, in "unwind" to throw.
Place == {"idle", "validate", "acquire", "publishSkipped", "createWorkspace",
          "publishRunning", "execute", "publishResult", "complete",
          "publishFailure", "completeFailure", "publishMarkerFailure",
          "cleanup", "unwind"}

VARIABLES
    message,   \* the job message: does it pass validation, and its
               \* workspacePolicy.preserveOnFailure
    at,        \* place of each worker
    frame,     \* the handler's locals: claim, workspace, status to report
    lock,      \* who has locked the lock file
    marker,    \* status in the state file, "none" without one
    workspace, \* the workspace directory exists
    topic,     \* the published events: statuses reported, and the status of
               \* the execution once the master has read them all
    offset,    \* "pending", "acked" or, after MaxFailures, "dropped"
    failures,  \* exceptions the listener container has seen
    crashes    \* crashes so far

vars == <<message, at, frame, lock, marker, workspace, topic, offset, failures,
          crashes>>

Message == [valid : BOOLEAN, preserveOnFailure : BOOLEAN]
Locals == [claim : BOOLEAN, workspace : BOOLEAN, status : Outcome]

\* cleanupStatus starts as FAILED.
NoLocals == [claim |-> FALSE, workspace |-> FALSE, status |-> "failed"]

TypeOK ==
    /\ message \in Message
    /\ at \in [Worker -> Place]
    /\ frame \in [Worker -> Locals]
    /\ lock \in Worker \cup {NoWorker}
    /\ marker \in Outcome \cup {"none", "running"}
    /\ workspace \in BOOLEAN
    /\ topic.reported \subseteq Outcome \cup {"running", "skipped"}
    /\ topic.master \in JobExecutionStatus
    /\ offset \in {"pending", "acked", "dropped"}
    /\ failures \in 0..MaxFailures
    /\ crashes \in 0..MaxCrashes

Init ==
    /\ message \in Message
    /\ at = [w \in Worker |-> "idle"]
    /\ frame = [w \in Worker |-> NoLocals]
    /\ lock = NoWorker
    /\ marker = "none"
    /\ workspace = FALSE
    /\ topic = [reported |-> {}, master |-> "queued"]
    /\ offset = "pending"
    /\ failures = 0
    /\ crashes = 0

-----------------------------------------------------------------------------
Goto(w, place) == at' = [at EXCEPT ![w] = place]

\* A typed or unexpected exception: the handler reports status s.
Catch(w, s) ==
    /\ Goto(w, "publishFailure")
    /\ frame' = [frame EXCEPT ![w].status = s]

\* The topic with one more event, and ExecutorEventService.handle on it.
With(s) == [reported |-> topic.reported \cup {s},
            master |-> IF canTransition(topic.master, s) THEN s ELSE topic.master]

\* publishEvent waits for the broker.  A send that fails may still have
\* reached the topic: the acknowledgement can be what is lost.
Publish(s) == topic' = With(s)
PublishFails(s) == topic' \in {topic, With(s)}

\* Mutant: a record whose job is marked as running is not delivered again.
DeliverUnlessRunning(w) ==
    /\ at[w] = "idle" /\ offset = "pending" /\ marker # "running"
    /\ Goto(w, "validate")
    /\ frame' = [frame EXCEPT ![w] = NoLocals]
    /\ UNCHANGED <<message, lock, marker, workspace, topic, offset, failures, crashes>>

\* KafkaExecutorJobConsumer.onJob is called with the uncommitted record.
Deliver(w) ==
    /\ at[w] = "idle" /\ offset = "pending"
    /\ Goto(w, "validate")
    /\ frame' = [frame EXCEPT ![w] = NoLocals]
    /\ UNCHANGED <<message, lock, marker, workspace, topic, offset, failures, crashes>>

\* A message that fails validation is reported before anything is claimed.  (One
\* without a templatePath throws in the consumer already and is left out.)
Validate(w) ==
    /\ at[w] = "validate"
    /\ IF message.valid THEN Goto(w, "acquire") /\ UNCHANGED frame ELSE Catch(w, "failed")
    /\ UNCHANGED <<message, lock, marker, workspace, topic, offset, failures, crashes>>

\* Mutants: the marker running is taken for a stale one even while the lock is
\* held; a job that succeeded is run again.
AcquireWithoutLock(w) ==
    /\ at[w] = "acquire"
    /\ IF marker = "success"
       THEN Goto(w, "publishSkipped") /\ UNCHANGED <<frame, lock, marker>>
       ELSE /\ Goto(w, "createWorkspace")
            /\ frame' = [frame EXCEPT ![w].claim = TRUE]
            /\ lock' = w
            /\ marker' = "running"
    /\ UNCHANGED <<message, workspace, topic, offset, failures, crashes>>
AcquireAfterSuccess(w) ==
    /\ at[w] = "acquire"
    /\ IF lock # NoWorker
       THEN Goto(w, "publishSkipped") /\ UNCHANGED <<frame, lock, marker>>
       ELSE /\ Goto(w, "createWorkspace")
            /\ frame' = [frame EXCEPT ![w].claim = TRUE]
            /\ lock' = w
            /\ marker' = "running"
    /\ UNCHANGED <<message, workspace, topic, offset, failures, crashes>>

\* FileIdempotencyGuard.acquire.  A lock held by anyone, this process
\* included, or a marker that says success makes the delivery a duplicate;
\* the lock is given back.  Any other marker is taken over as stale.
Acquire(w) ==
    /\ at[w] = "acquire"
    /\ IF lock # NoWorker \/ marker = "success"
       THEN Goto(w, "publishSkipped") /\ UNCHANGED <<frame, lock, marker>>
       ELSE /\ Goto(w, "createWorkspace")
            /\ frame' = [frame EXCEPT ![w].claim = TRUE]
            /\ lock' = w
            /\ marker' = "running"
    /\ UNCHANGED <<message, workspace, topic, offset, failures, crashes>>

\* An I/O error in acquire: the lock is given back, nothing is claimed.
AcquireFails(w) ==
    /\ at[w] = "acquire"
    /\ Goto(w, "publishMarkerFailure")
    /\ UNCHANGED <<message, frame, lock, marker, workspace, topic, offset, failures, crashes>>

\* Mutant: a duplicate records its own SKIPPED in the state file.
PublishSkippedAndMark(w) ==
    /\ at[w] = "publishSkipped"
    /\ Publish("skipped") /\ Goto(w, "cleanup")
    /\ marker' = "skipped"
    /\ UNCHANGED <<message, frame, lock, workspace, offset, failures, crashes>>

\* A duplicate reports SKIPPED and returns; its claim writes nothing.
PublishSkipped(w) ==
    /\ at[w] = "publishSkipped"
    /\ \/ Publish("skipped") /\ Goto(w, "cleanup") /\ UNCHANGED frame
       \/ PublishFails("skipped") /\ Catch(w, "failed")
    /\ UNCHANGED <<message, lock, marker, workspace, offset, failures, crashes>>

CreateWorkspace(w) ==
    /\ at[w] = "createWorkspace"
    /\ \/ /\ Goto(w, "publishRunning")
          /\ frame' = [frame EXCEPT ![w].workspace = TRUE]
          /\ workspace' = TRUE
       \/ Catch(w, "failed") /\ UNCHANGED workspace
    /\ UNCHANGED <<message, lock, marker, topic, offset, failures, crashes>>

PublishRunning(w) ==
    /\ at[w] = "publishRunning"
    /\ \/ Publish("running") /\ Goto(w, "execute") /\ UNCHANGED frame
       \/ PublishFails("running") /\ Catch(w, "failed")
    /\ UNCHANGED <<message, lock, marker, workspace, offset, failures, crashes>>

\* Mutant: the outcome is recorded before it is published.
ExecuteAndMark(w) ==
    /\ at[w] = "execute"
    /\ \E s \in Outcome :
          \/ /\ s # "timeout"
             /\ Goto(w, "publishResult")
             /\ frame' = [frame EXCEPT ![w].status = s]
             /\ marker' = s
          \/ s # "success" /\ Catch(w, s) /\ UNCHANGED marker
    /\ UNCHANGED <<message, lock, workspace, topic, offset, failures, crashes>>

\* ExecutorJob.execute returns a result or throws, with the status of a typed
\* exception.
Execute(w) ==
    /\ at[w] = "execute"
    /\ \E s \in Outcome :
          \/ /\ s # "timeout"
             /\ Goto(w, "publishResult")
             /\ frame' = [frame EXCEPT ![w].status = s]
          \/ s # "success" /\ Catch(w, s)
    /\ UNCHANGED <<message, lock, marker, workspace, topic, offset, failures, crashes>>

\* publishLogs, publishArtifacts and the JOB_FINISHED event; any of the three
\* may fail.  The artifact event repeats the status running, which tells the
\* reader of the topic nothing new, and is left out.
PublishResult(w) ==
    /\ at[w] = "publishResult"
    /\ \/ Publish(frame[w].status) /\ Goto(w, "complete") /\ UNCHANGED frame
       \/ PublishFails(frame[w].status) /\ Catch(w, "failed")
    /\ UNCHANGED <<message, lock, marker, workspace, offset, failures, crashes>>

\* Mutant: the lock is given up with the result, before the cleanup.
CompleteAndRelease(w) ==
    /\ at[w] = "complete"
    /\ \/ marker' = frame[w].status /\ Goto(w, "cleanup")
       \/ Goto(w, "publishMarkerFailure") /\ UNCHANGED marker
    /\ lock' = NoWorker
    /\ UNCHANGED <<message, frame, workspace, topic, offset, failures, crashes>>

\* FileClaim.complete writes the state file.
Complete(w) ==
    /\ at[w] = "complete"
    /\ \/ marker' = frame[w].status /\ Goto(w, "cleanup")
       \/ Goto(w, "publishMarkerFailure") /\ UNCHANGED marker
    /\ UNCHANGED <<message, frame, lock, workspace, topic, offset, failures, crashes>>

\* The handler of typed and unexpected exceptions; a second exception leaves
\* the handler.
PublishFailure(w) ==
    /\ at[w] = "publishFailure"
    /\ \/ Publish(frame[w].status) /\ Goto(w, "completeFailure")
       \/ PublishFails(frame[w].status) /\ Goto(w, "unwind")
    /\ UNCHANGED <<message, frame, lock, marker, workspace, offset, failures, crashes>>

\* A claim that was never made, or is that of a duplicate, writes nothing.
CompleteFailure(w) ==
    /\ at[w] = "completeFailure"
    /\ \/ /\ marker' = IF frame[w].claim THEN frame[w].status ELSE marker
          /\ Goto(w, "cleanup")
       \/ frame[w].claim /\ Goto(w, "unwind") /\ UNCHANGED marker
    /\ UNCHANGED <<message, frame, lock, workspace, topic, offset, failures, crashes>>

\* The handler of IdempotencyException: a failed complete comes here too,
\* after the result has been published.  The marker stays as it is.
PublishMarkerFailure(w) ==
    /\ at[w] = "publishMarkerFailure"
    /\ \/ Publish("failed") /\ Goto(w, "cleanup")
       \/ PublishFails("failed") /\ Goto(w, "unwind")
    /\ frame' = [frame EXCEPT ![w].status = "failed"]
    /\ UNCHANGED <<message, lock, marker, workspace, offset, failures, crashes>>

-----------------------------------------------------------------------------
\* What the listener container does when onJob returns or throws.
Acknowledge ==
    /\ offset' = IF offset = "pending" THEN "acked" ELSE offset
    /\ UNCHANGED failures
Redeliver ==
    /\ failures' = IF failures < MaxFailures THEN failures + 1 ELSE failures
    /\ offset' = IF offset = "pending" /\ failures' = MaxFailures
                 THEN "dropped" ELSE offset

\* shouldCleanup: the directory is kept if the handler failed and the policy
\* preserves failures.
WorkspaceAfter(w) ==
    workspace /\ (frame[w].workspace =>
                     message.preserveOnFailure /\ (at[w] = "unwind" \/ frame[w].status # "success"))

\* Mutant: the record is acknowledged although the handler throws.
FinishAndAcknowledge(w) ==
    /\ at[w] \in {"cleanup", "unwind"}
    /\ workspace' = WorkspaceAfter(w)
    /\ lock' = IF frame[w].claim THEN NoWorker ELSE lock
    /\ Goto(w, "idle")
    /\ Acknowledge
    /\ UNCHANGED <<message, frame, marker, topic, crashes>>

\* The finally block: the workspace is cleaned up, then the claim closed.
Finish(w) ==
    /\ at[w] \in {"cleanup", "unwind"}
    /\ workspace' = WorkspaceAfter(w)
    /\ lock' = IF frame[w].claim THEN NoWorker ELSE lock
    /\ Goto(w, "idle")
    /\ IF at[w] = "cleanup" THEN Acknowledge ELSE Redeliver
    /\ UNCHANGED <<message, frame, marker, topic, crashes>>

\* Cleaning up fails: the claim is not closed and its lock stays locked for
\* as long as the process lives.
CleanupFails(w) ==
    /\ at[w] \in {"cleanup", "unwind"} /\ frame[w].workspace
    /\ Redeliver
    /\ Goto(w, "idle")
    /\ UNCHANGED <<message, frame, lock, marker, workspace, topic, crashes>>

\* Releasing the lock reports an error: the channel is closed all the same,
\* which drops the lock.
CloseFails(w) ==
    /\ at[w] \in {"cleanup", "unwind"} /\ frame[w].claim
    /\ workspace' = WorkspaceAfter(w)
    /\ lock' = NoWorker
    /\ Redeliver
    /\ Goto(w, "idle")
    /\ UNCHANGED <<message, frame, marker, topic, crashes>>

\* A worker process dies and is restarted: the operating system drops its
\* lock, the files and the uncommitted offset stay.
Crash(w) ==
    /\ crashes < MaxCrashes
    /\ at[w] # "idle" \/ lock = w
    /\ crashes' = crashes + 1
    /\ Goto(w, "idle")
    /\ frame' = [frame EXCEPT ![w] = NoLocals]
    /\ lock' = IF lock = w THEN NoWorker ELSE lock
    /\ UNCHANGED <<message, marker, workspace, topic, offset, failures>>

Step(w) ==
    \/ Deliver(w) \/ Validate(w) \/ Acquire(w) \/ AcquireFails(w)
    \/ PublishSkipped(w) \/ CreateWorkspace(w) \/ PublishRunning(w)
    \/ Execute(w) \/ PublishResult(w) \/ Complete(w)
    \/ PublishFailure(w) \/ CompleteFailure(w) \/ PublishMarkerFailure(w)
    \/ Finish(w) \/ CleanupFails(w) \/ CloseFails(w)

Next == \E w \in Worker : Step(w) \/ Crash(w)

Spec == Init /\ [][Next]_vars

\* Kafka keeps delivering and a worker that lives keeps going.
FairSpec == Spec /\ \A w \in Worker : WF_vars(Step(w))

-----------------------------------------------------------------------------
Claimed(w) == at[w] # "idle" /\ frame[w].claim
Reported(s) == s \in topic.reported

\* At most one worker is between acquire and close, and it has the lock:
\* concurrent deliveries never run the job side by side (tryLock).
ExclusiveJob ==
    \A w \in Worker : Claimed(w) =>
        /\ lock = w
        /\ \A v \in Worker : Claimed(v) => v = w

\* The directory a handler works in is not deleted under it by the cleanup of
\* another delivery (the finally block closes the claim last).
JobKeepsWorkspace ==
    \A w \in Worker : at[w] # "idle" /\ frame[w].workspace => workspace

\* A marker that makes later deliveries duplicates of a success is written
\* only after the success was published: no crash in between can swallow it.
MarkedSuccessIsReported == marker = "success" => Reported("success")

\* An acknowledged message has been answered by a final event
\* (KafkaExecutorJobConsumer acknowledges after the handler has returned).
AckedIsReported ==
    offset = "acked" => \E s \in Outcome \cup {"skipped"} : Reported(s)

\* A recorded success is never overwritten: no redelivery runs the job again
\* once its marker says success (isDuplicateCompleted).
SuccessKept == [][marker = "success" => marker' = "success"]_vars

\* The message is acknowledged or given up after finitely many deliveries,
\* whatever fails or crashes, and the workers become idle.
Settles == <>[](offset # "pending" /\ \A w \in Worker : at[w] = "idle")

\* As long as no worker crashed and no delivery ended with an exception, the
\* master has a final status for a job that reported RUNNING when all its
\* deliveries have ended, in whatever order they published (publishEvent,
\* publishSkipped, JobStateMachine.canTransition).
MasterHearsTheEnd ==
    /\ crashes = 0 /\ failures = 0
    /\ \A w \in Worker : at[w] = "idle"
    /\ Reported("running")
    => topic.master \in FinalStatus

=============================================================================
