# Verification of the fuzzing CI/CD system

TLA+ models of the orchestrator (`src/master-service`), of the executor runtime
(`src/common/cicd-executor-core`) and of the LLM mutation engine of the fuzzer
(`src/fuzzing-engine/afl-llm-engine`) of this repository, the TLC runs that check
them and the TLAPS proofs about them. `PROJECT.json` maps every
definition to the lines it models and lists the runs, mutants, findings,
hazards and theorems.

`M/` stands for `src/master-service/src/main/java/ru/diplom/cicd/master/` and
`X/` for `src/common/cicd-executor-core/src/main/java/ru/diplom/cicd/executor/core/`.

## 1. The system

A pipeline is a sequence of stages, each with jobs; a user or a trigger starts
a run. The master keeps the run in PostgreSQL, decides which jobs are ready and
writes a job message to the outbox in the same transaction. The outbox
publisher sends it to the Kafka topic of the job's kind. An executor service
(vcs, storage, build, fuzzing, deploy, script) takes the message, does the work
in a workspace directory and publishes events. The master reads the events
from Kafka or, alternatively, from OpenSearch, moves the execution on, starts
the jobs that have become ready and recomputes the status of the run. Users
cancel and retry runs and single executions and decide on deployments to
protected environments.

| Component | State | Operations | Interacts with |
|---|---|---|---|
| Run life cycle (`M/service/PipelineRunService`, `JobExecutionService`) | pipeline_run, job_execution, cancellation_request | createRun, cancelRun, cancel, retryRun, retryExecution, dispatchReadyJobs, recomputeRunStatus | orchestrator rules, outbox, approvals |
| Orchestrator rules (`M/service/orchestration`) | none | canTransition, resolve, reduce, build, validate | called by the run life cycle and the event service |
| Executor events (`M/service/messaging/ExecutorEventService`) | job_execution, inbox_event, artifact | handle | Kafka consumer and OpenSearch poller call it; it calls the run life cycle |
| Approvals (`M/service/DeploymentApprovalService`) | deployment_approval | approve, reject | run life cycle |
| Watchdog (`M/service/orchestration/TimeoutWatchdog`) | job_execution | checkTimeouts every 30 s | nobody |
| Outbox (`M/service/messaging/outbox`) | outbox_event | enqueue, publishPending every 2 s | Kafka |
| OpenSearch poller (`M/opensearch`) | executor_event_cursor | poll every 5 s | event service |
| Triggers (`M/service/TriggerService`, `M/scheduler`) | trigger, trigger_event | fire, ingestWebhook, fireScheduled | run life cycle |
| Pipeline structure, permissions, audit, artifacts, SSE | their tables, open sessions | CRUD, require, record, register, publish | REST |
| Job handler (`X/job`) | locals of a delivery, offset of the record | onJob, handle | Kafka, guard, workspace, service code |
| Idempotency guard (`X/idempotency`) | lock file, state file | acquire, complete, close | file system |
| Workspace manager (`X/workspace`) | workspace directory | create, cleanup | file system |
| Process runner, storage clients, log publisher (`X/process`, `X/storage`, `X/log`) | child process, streams, files | run, upload, download, publish | services |
| Executor services (`src/services/*`) | workspace contents, storage root, release directories | one `ExecutorJob` per template | executor core |
| LLM mutator (`src/fuzzing-engine/afl-llm-engine`) | socket and counters of the mutator; queue, corpus and threads of the candidate server | afl_custom_fuzz, afl_custom_queue_new_entry; handle_client, producer_worker | AFL++ (vendored) calls the mutator |

What is hard about it: events of an execution arrive late, repeated and out of
order, against cancels, retries, decisions and the watchdog; the master's
transactions on one run are not serialised by a lock on the run; Kafka
redelivers a job while it is still being run; an executor can die between any
two of its side effects; each of these effects can fail on its own. Schedulers,
publishers and pollers run in every master without knowing of each other. The
mutator shares a byte stream with a server that may answer late or never.

What makes the parts correct:

* a job is dispatched once per attempt, only when its dependencies allow it and,
  if its environment is protected, only after its approval;
* a finished execution changes only by a retry, a finished run has nothing
  active, and a run finishes;
* the graph is exactly what stages and explicit dependencies say, and a cyclic
  one is rejected;
* a job is never run by two deliveries at once, its workspace is not removed
  under it, and a result is neither lost nor repeated by a crash;
* a message is sent only if its transaction committed, once unless something
  failed; an event is applied exactly once;
* an event of a trigger starts one run, no slot of a schedule is passed over by a
  master that is on time, and its parallel runs are limited;
* a reply of the candidate server belongs to the request it answers, the fuzzer
  never hangs in the mutator, and what it gets fits its buffer.

## 2. Modules

| Module | Models | Remarks |
|---|---|---|
| `Orchestration` | `JobStateMachine`, `PipelineStateReducer`, conditions of `ReadyJobResolver` | operators |
| `ExecutionGraph` | `ExecutionGraphBuilder` | operators; a stage is a record of its policy and its sequence of jobs; `Acyclic` is the reference the validator is compared with |
| `GraphValidator` | `ExecutionGraphValidator` | its depth-first search, as operators |
| `PipelineRun` | one run: `PipelineRunService`, `JobExecutionService`, `DeploymentApprovalService`, `ExecutorEventService`, `TimeoutWatchdog` | state machine; one step per transaction |
| `StagedRun` | a run over the graph that `build` derives | composes `PipelineRun` and `ExecutionGraph` |
| `ExecutionLifecycle` | what the master promises about executions | abstract specification |
| `RunLifecycle` | | the refinement: `PipelineRun` implements `ExecutionLifecycle` |
| `ConcurrentRun` | the transactions of `PipelineRun` overlapping, with `InboxDeduplicationService` and `ExecutorResultConsumer` | extends `PipelineRun` |
| `PipelineStructure` | `PipelineService` editing a pipeline before and during a run | composes `ExecutionGraph`, `GraphValidator` and the rules of `Orchestration` |
| `ExecutorJob` | one job message in the executors: `KafkaExecutorJobConsumer`, `ExecutorJobHandler`, `FileIdempotencyGuard`, `LocalWorkspaceManager`, and what the master makes of its events | state machine; uses `Orchestration` |
| `Outbox` | `OutboxService`, `OutboxPublisher`, the Kafka producer | state machine |
| `EventPoller` | `OpenSearchExecutorEventPoller` with the inbox | state machine |
| `Triggers` | `TriggerService`, `TriggerScheduler` | state machine with a clock |
| `LlmMutator` | `afl_llm_mutator.c`, `llm_mutator_server.py` | state machine |
| `MC*` | constants for TLC | |
| `*Proofs` | theorems about the module they are named after: `PipelineRun` (with `RunLifecycle`), `StagedRun`, `ConcurrentRun`, `ExecutorJob`, `Outbox`, `EventPoller`, `Triggers`, `LlmMutator` | TLAPS |

### PipelineRun

An execution is a pair of a job and an attempt, the unique key of
`job_execution`. The variables are the columns control depends on: status of
the run and whether `finished_at` is set; for each execution its status,
whether its recorded error is retryable, whether start and duration are both
recorded (what the watchdog looks at), the status of its approval, the number of
dispatch messages in the outbox and whether a cancel message is there. Each
action is one transaction with everything it calls: `HandleEvent` contains the
transition, the dispatch of the jobs that become ready and the recomputation,
as `handle` does. Error texts, metrics, worker names, audit and SSE are left out.

Executors are open: once an execution has its job message, any status they can
report may arrive, at any time and any number of times. Deduplication by message
id only removes some of these events, so what holds here holds with it. Times
are not counted: the watchdog may find any timed running execution expired. The
graph is constant; `PipelineStructure` is about graphs that change.

`ExecutionLifecycle` states the same from outside: phases of an execution, one
job message whenever an execution enters the phase `started` and at no other
time, a success that is never undone, a run that is closed only while nothing is
open. `RunLifecycle` maps status columns to phases and messages to `sent`.

### ConcurrentRun

The code sets no isolation level, has no version columns and locks no row of a
run, so PostgreSQL's READ COMMITTED applies. A transaction is split where its
reads and writes can be separated: it reads and decides (`Begin...`), an event
or a rejection then sends its update and queries the executions (`Flush`, which
waits for the row lock and reads what is committed then), and `Commit` writes all
columns of the rows it touched. A unique constraint refuses the second of two
inserts (`Refused`); any transaction may be rolled back (`Rollback`). An event is
delivered again until it is in the inbox. That the listener container stops after
ten attempts is left out.

### PipelineStructure

`PipelineService` only ever adds: stages and jobs at free positions, dependencies
between any two jobs, also of other pipelines. The run has one attempt per job;
`HandleFinal` is `handle` for a final event and, like the code, does not
happen at all while the graph is cyclic, because `validate` throws and the event is
rolled back and redelivered.

### ExecutorJob

`at[w]` is the call worker `w` makes next, `frame[w]` the locals of its
`handleWithLoggingContext`. Every call that leaves the process or writes a file is
a step and may fail; a failed send may still have reached the topic. The lock is
an operating system lock and dies with its process; within one process a second
`tryLock` throws and counts as held. Kafka delivers the record to any idle worker
until its offset is committed, also while another worker is busy with it, as
happens after a rebalance during a long job. After `MaxFailures` exceptions the
listener container gives the record up (Spring's default is ten; two show a
redelivery and the end). The workers share the idempotency and the workspace
root, as in `src/docker-compose.demo.yml`. Left out: messages without
`jobExecutionId` or without `templatePath` (the consumer throws before they are
validated), and the artifact event, which repeats the status running.

### Outbox, EventPoller, Triggers

`Outbox`: a row belongs to the transaction of a business operation (`business`) that
may still be open, and nobody else sees it before that commits; the batch is locked by
`lockByStatus`, and `send` puts the message into the memory of its process, from where
it is delivered or lost; `sent` counts these calls and is read by no action. A batch
is a set of rows that are handled in the order of `created_at`, the smallest first
(`Current`). `EventPoller`: documents are numbered in the order of the search, and a
batch is handled in that order; one may become visible after others that sort behind
it (`late`). `handle` joins the transaction of `poll`, so that an exception it throws,
although caught in the loop, dooms the whole batch. `Triggers`: a firing is a
transaction that looks for duplicates and counts active runs when it begins and meets
the unique indexes when it commits. A key stands for external id, idempotency key or
payload hash together with the source; requests that share one key share all
(`RequestAssumption`). A tick is a second. Nothing bounds how late a scheduler is: a
dispatch may take any time and the next may begin any time after `Period`, which also
stands for a master that is down. `dispatch[s].last` is the reading before the current
one; only `NoSlotSkipped` looks at it.

### LlmMutator

The connection is two streams of units: an opcode, a length, or a byte that is named
after the candidate or sample it belongs to; a sample is named by the number of the
call that sends it and by its length. A sample file of the server is whole or absent:
one cut short by a failing write, which a restart would load, is left out. Readers
take units by position, as the code does, so that peers out of step would misread each
other. The mutator gives up after a deadline at any point of a reply; the server's
threads, its producers and its queue go on regardless, and the server may be
restarted. The contents of mutations are not modelled, their lengths are.

## 3. Runs

| Run | Instance | Shows |
|---|---|---|
| `pipeline_run` | build and lint in parallel, then a protected deploy with two attempts; three attempts per job, every status; fair executors; 49 thousand states | safety and action properties of a run, stage barriers, that `IndInv` is an invariant, that the run implements `ExecutionLifecycle`, and that a run nothing holds up finishes |
| `pipeline_structure` | up to three jobs in two stages, two dependencies, one foreign job; 238 thousand states | validator = `Acyclic`, cycles take a dependency, edited runs start and finish |
| `executor_job` | two workers, two crashes, two exceptions, every call may fail; 445 thousand states | exclusion, workspace, no lost or repeated success, the master hears the end, every message is settled |
| `concurrent_run` | build with two attempts, protected deploy; two transactions at once, each an event or a request, two requests or failures; 647 thousand states | one message per attempt, no start without a success, delivered events are applied |
| `outbox` | two masters, three messages, batches of two, one fault; 248 thousand states | only what is committed is sent, duplicates take faults, rows are settled |
| `event_poller` | two masters, four documents (one unreadable, one repeating a message), one failure; 32 thousand states | each event applied once, none passed over, all applied |
| `triggers` | two masters, each as late as it likes, a schedule by cron or by the default interval, two clients with one event, one failure, one retry; 727 thousand states up to symmetry | one run per event, no slot skipped by a master on time, the limit of parallel runs exceeded by one at most |
| `llm_mutator` | two candidates, a queue of one, two producers, three calls, two connections, one restart, samples of up to two bytes; 932 thousand states | replies in step, hits and feedback whole, outputs fit, calls return |
| `retried_run` | build with two attempts, test; fair executors | violated: a retried run never finishes |
| `lost_final` | one event, one request | violated: a cancel overwrites a success |
| `outbox_loss` | one master, one message, one fault | violated: a published message is lost |
| `parallel_limit` | two masters, one schedule with a limit of one | violated: two runs are active |

Bounds. Two jobs in a stage before a third are the smallest graph in which dispatch
depends on the order of events and a stage is more than a job; longer pipelines,
sequential stages and explicit dependencies are covered by the proofs and by
`pipeline_structure`. One attempt more than `MaxAttempts` is needed for an attempt number to
be reused, hence `AttemptBound = 3` in `pipeline_run`. Two workers are enough for
every race on one lock: a third would only find it held. Two crashes and two
exceptions give a delivery after a failed one that fails too. Two transactions at
once are what a lost update, a write skew or a refused insert takes; a third could
only overlap with one of them at a time. Three messages and batches of two leave a
message behind; four documents and batches of two give a second batch with a
repetition of the first. The clock of `triggers` runs over three slots of
the interval and two fire times, with readings as far apart as the look-back just
covers, and further, so that slots do get lost; the second fire time is too close to
the first to be found in the same window. A queue of one with two producers is
full and contended at once. Two connections show what the second sees of the first.
The proofs of section 4 need none of these bounds.

Deadlock is not checked where the system or the bounded model ends: a settled job
message, used-up messages, documents, requests or seconds. `pipeline_run` is
checked for it: events may always repeat.

Fairness. `FairExecutors`: an executor that has a job message eventually reports
the next stage of the job; Kafka keeps the message until it is handled, and
process timeouts bound every job. `Spec` of `PipelineStructure` asks the same of
the executors. `FairSpec` of `ExecutorJob`: Kafka keeps delivering and a living
worker goes on. `FairConcurrentSpec`: a transaction that has begun goes on, and
Kafka redelivers what is not in the inbox. `Outbox`: some master's
`@Scheduled` publisher goes on, and `EventPoller`: every master's poller does.
`LlmMutator`: only the mutator goes on, since each of its waits has a deadline;
nothing is assumed of the server. Crashes and failures are neither fair nor
excluded.

What the properties except, because the code does not do more: `NoSlotSkipped`
speaks of slots between two readings of one master's clock that are no further apart
than the look-back, and excepts fire times with another one less than `Period` before
them: `resolveCronPlannedTime` looks back one interval and a second and takes the
first slot only, so that the others do get lost. For a trigger with an interval the
readings may be an interval apart; with the fallback of `readIntervalSeconds`, the
interval of the scheduler itself, any delay loses a slot. `UnheldRunFinishes` excepts
what holds a run up: a cancel, a retry (`retried_run`), an undecided approval, and a
watchdog that ended the last execution. `ParallelRunsLimited` and `OvershootBounded`
do not count runs that were started through the API or reopened by a retry.
`NothingPassedOver` and `EventsAreApplied` except documents that become visible
behind the cursor; and with a document that fails every time its batch would be
replayed for ever, which the bounded failures of the run exclude.
`OneMessagePerAttempt` is about jobs without approval: two users who approve at
once send two messages. `RunStartsWorking` excepts runs whose jobs wait for a job
of another pipeline. `MasterHearsTheEnd` is about deliveries without crashes and
exceptions.

### What the runs found

* **A retried run stays running** (`retried_run`). The replaced attempt stays
  `retrying`; `reduce` looks at all attempts.
* **A cancel undoes a success** (`lost_final`). It read the execution before the
  event committed and writes all columns after it.
* **A published message is lost** (`outbox_loss`). Nobody looks at the future of
  `send`.
* **Two masters exceed `max_parallel_runs`** (`parallel_limit`).
  `05_ORCHESTRATION_STATE_MACHINE.md:114` promises the plain limit; both masters count
  before either commits. `OvershootBounded` says that it is one run too many for each
  further master, not more, and `OneMasterKeepsTheLimit` that a single master keeps it.

The findings quote the sentences of the documentation they disagree with. Further
disagreements are visible in the models and have no run of their own
(`05_...` and `04_...` are files of `src/master-service/_input/.../docs/`):

* Attempts beyond the limit: a replaced attempt that is canceled and reported
  failed can be retried again; `isRetryCandidate` looks at its number, the new
  attempt follows the newest. `05_ORCHESTRATION_STATE_MACHINE.md:74` allows it "если
  попытки не исчерпаны".
* The barrier between stages is wider than documented: `05_...:24` has a stage depend
  on the critical jobs of the stage before, `ExecutionGraphBuilder` makes it depend on
  all of them and never reads `continue_on_error`. `PreviousStageFirst` is about the code.
* The master locks nothing while it recomputes a run; `05_...:112` and `05_...:113` ask for
  one scheduler loop per run and a lock on its row. `ConcurrentRun` is about what follows.
* A canceled run starts jobs: `handle` dispatches without looking at the run;
  `05_...:32` excepts "global cancel".
* A run canceled while a deployment waits for its approval stays `canceling`: no
  executor knows the execution, approve and reject ignore it; `05_...:95` says the
  master moves it to `canceled`.
* A duplicate delivery that finds the lock held is acknowledged, and a job whose
  process dies afterwards is not delivered again, against the comment at
  `X/idempotency/FileIdempotencyGuard.java:27`. Likewise if the other delivery
  fails to publish its result: the master waits for ever.
* The SKIPPED event of a duplicate ends an execution that is still `queued`, and
  the events of the delivery that does the work are rejected
  (`04_EXECUTOR_CONTRACTS.md:99`). `MasterHearsTheEnd` asks for some end of the execution
  and accepts this one.
* A rejected deployment does not start its `always` dependents; a finished run can
  be canceled and stays `canceling`; a job that succeeds while it is canceled leaves
  the execution `canceling`, and no executor of the repository reads `jobs.cancel`;
  a failure reported before `JOB_RUNNING` is rejected (`queued -> failed` is no
  transition); a stage without jobs opens the barrier for the stage after it; the
  watchdog neither dispatches nor recomputes.
* Two final events handled at once by two masters can each miss the other, and a
  job that waits for both is not started until another event arrives.
* A trigger event that failed leaves no row: its status `failed` is rolled back by
  the exception that is rethrown.

### Mutants

Every property of a passing run has a mutant: an operator, marked `Mutant` in its
comment and defined before the one it replaces, that changes the model as a
plausible bug would change the code. The type invariants of `ExecutorJob`,
`Triggers` and `LlmMutator` are among these properties; that of `PipelineRun` is a
part of `IndInv`. Those of `PipelineStructure`, `ConcurrentRun`, `Outbox` and
`EventPoller` state the ranges of the variables, hold in the same instances and are
not listed in the configurations.

## 4. Proofs

All theorems hold for every set of jobs, every graph (cyclic ones too: only
`RunsStartWithWork` uses the validation), every number of attempts, workers, threads,
masters, messages and documents, and for every bound on faults. The named ASSUMEs
of each module are all that is assumed of the constants; TLC evaluates them in
every run. Each inductive invariant was checked by TLC on the instance of its run
before it was proved.

**`PipelineRunProofs`.** `IndInv` is inductive. It consists of `TypeOK`, the three
safety invariants and `RowsConsistent`, which says that rows agree with one
another: without a run there are no executions, without an execution neither
approval nor message, an execution that waits has a pending approval, and a
pending approval has no message. `DispatchGated` needs it, because `Approve` adds a
message to an execution it only knows to be pending, and `CreateExecutions` to one
it only knows to be new. `FinishedRunIsQuiet` rests on a lemma about `reduce` (a
final result means that no status is active) and on the transitions leaving a final
status only to itself. `OnSuccessHonoured` rests on the fact that no action leaves
`success`: retries take other statuses only, cancels active ones only. Theorems:
`Invariance`, `TypeCorrect`, `DispatchIsGated`, `FinishedRunStaysQuiet`,
`OnSuccessIsHonoured`.

`RowStep(e)` collects what a transaction may do to one row of `job_execution` and
the message it sends with it; `EveryRowStep` shows that all nine actions do no more.
The action properties follow from it: `FinalIsLeftOnlyByRetry` and
`AttemptsAreNeverReused`.

`ReadyJobsAreStarted`: no job that could run is left without an execution, in every
behaviour in which no approval is rejected and the watchdog ends nothing (`Spec` and
`[][~EndsWithoutDispatch]_vars`). The exception is needed: these two end executions
and do not dispatch, as section 3 says, and TLC finds the job they leave behind when
they are allowed. The argument is that a job becomes ready only when an execution
becomes final (`ReadyOnlyByAnEnd`), and that `handle` dispatches whenever one does;
what it creates has not ended, so one pass is enough (`DispatchLeavesNone`).
`RunsStartWithWork` is the counterpart of `RunStartsWorking` for runs with attempts
and approvals: in an acyclic graph some job waits for nothing.

`RefinesLifecycle`: `Spec => ImplementsLifecycle`. Initial
states map to initial states; by `EveryRowStep` each row moves as
`ExecutionLifecycle` allows and sends a message exactly when it enters `started`;
`FinishedRunIsQuiet` gives that a run closes only with nothing open.

**`StagedRunProofs`.** `StagesAreOrdered`: `PreviousStageFirst` from
`OnSuccessIsHonoured` and a lemma that `build` has an `on_success` edge from every
job of a stage to every job of the stage before, unless the job has explicit
dependencies. `CycleTakesARowForward`: a graph that `build` derives is acyclic if each
dependency row names an earlier job or a foreign one, in particular if there is none,
which is `CycleTakesARow` without the validator's search. It assumes that a job has
one place (`stage_id` and `position` are single columns). In a set of jobs that all
wait for one another the first in the order of stages and positions would wait for an
earlier one; that there is a first is the well-foundedness of the lexicographic order.

**`ConcurrentRunProofs`.** `AttemptsGetOneMessage` and `JobsStartAfterSuccess`, for
any number of overlapping transactions. The invariant `ConcurrentInv` says what an
open transaction may rely on although its copies are stale (`TxInv`): the rows it
writes exist; one it will write as a success has its event in the inbox or in hand;
what it inserts has its successes received, or will have them when it commits; its
messages are for protected jobs only. These facts survive the commits of others,
because rows are never deleted and events never forgotten (`TxKept`). At the commit
the unique constraints give that inserted rows did not exist and had no message, and
the event is registered with them. Nothing is said of what statuses are overwritten:
a success may be (`lost_final`), and the theorems hold nevertheless.

**`ExecutorJobProofs`.** `JobIsExclusive` and `WorkspaceIsKept`. The inductive
invariant `LockInv` says that a worker with a claim is the one that has the lock,
that a workspace is only created, and only held, under a claim, and that a held
workspace exists. The claim of one worker excludes that of another, so the cleanup
of one cannot hit the directory another works in. `ReportInv` adds what is known of
a worker by the place it has reached (`PlaceInv`): what it is about to write into
the state file has been published, it returns only after an answer, and while it can
still write the state file no success is in it, because it looked after taking the
lock; and, for the master's side, that a worker still owes the end of every job that
is held for running and nothing has gone wrong with (`MasterInv`). Theorems:
`ExecutorTypes`, `MarkedSuccessWasReported`, `AckedWasReported`,
`MasterHasHeardTheEnd`, `SuccessIsKept`.

**`EventPollerProofs`.** `EventsApplyOnce` and `CursorPassesOverNothing`. `PollerInv`:
an event is applied exactly when its document is in the inbox, and the inbox has a
message once (from the constraint at the commit). For each open poll, everything up
to its own cursor is in the inbox or among what it applied, unless it is doomed; its
batch leaves out nothing between its cursor and its last document. A slow poll may
move the cursor back, which is why the statement is about each poll's own cursor.

**`OutboxProofs`.** `NothingUncommittedIsSent` and `DuplicatesArePaidFor`. `OutboxInv`:
a row is visible only after its operation has committed, and only visible rows are
sent; one process publishes at a time; what it has to do and has done concerns rows that
are pending; and a row nobody has published, nor is about to, has been sent at most
as often as there were faults, which is what a rolled back batch costs.

**`TriggersProofs`.** `TriggersTypes`, `EventsStartOneRun`, `OvershootIsBounded`,
`OneMasterKeepsTheLimit`, `SlotsAreNotSkipped`. `EventInv`: rows share no key, and a
client has the run of the row of its event. `LimitInv` counts, beside the active runs
of a schedule, the firings that have passed `hasScheduleCapacity` and not committed:
each scheduler has at most one, which gives the one run per further master, and none
if there is one master. `SlotInv`: the slots between a scheduler's last two readings
of the clock that are in reach of the second are settled, but for those it still has
to do (`ResolveFinds`). Nothing is assumed of delays, intervals or fire times: a slot
is lost only if every master was late for it, or another fire time crowded it out.

**`LlmMutatorProofs`.** All five invariants of `LlmMutator`: `TypeCorrect`,
`OutputAlwaysFits`, `RepliesStayInStep`, `HitsAreDistinct` and `FeedbackStaysWhole`,
for any number of producers, candidates, connections, calls and restarts and any
size of queue, candidates and samples. Assumed is that the queue holds at least one
candidate, that candidates are not empty (the server enqueues no other) and finite in
number, and that they are numbered as they are generated. `RepliesInStep` speaks of
the mutator when it is idle and is not inductive: `ReplyInv` says for every step of a
call what is under way on the mutator's connection (`Phase`): nothing before the
request; then the request, a refusal, a candidate in the thread's hand or a reply;
then bytes of one candidate, as many as are still to be read unless the thread has
died. A failure at any of these steps drops the connection, and nothing is claimed of
connections that were dropped. `StockInv`: a candidate is in one place only (a
producer's hand, the queue, taken from the queue, delivered), so that the one that is
being read has not been delivered; `HitsAreCandidates` follows. `FeedbackInv` describes
the stream to the server locally: each unit follows the one before it as a unit of the
same frame or as the beginning of the next (`Chain`), what the thread has read fits
the step it is at (`Behind`), and on the connection that is kept the last frame is
complete, so that the next one can be appended. On a dropped connection the last frame
may be cut off, and the thread dies in it.

Not proved, and checked by TLC only: liveness under fairness (`UnheldRunFinishes`,
`Settles`, `RunFinishesUnlessCyclic`, `DeliveredIsApplied`, `RowsAreSettled`,
`EventsAreApplied`, `CallReturns`), which is beyond the proof system used here;
`ValidatorAgrees`, `CycleTakesARow` and `RunStartsWorking` of `PipelineStructure`,
because the validator's search is recursive. What they rest on besides the search is
proved where it can be: `CycleTakesARowForward` and `RunsStartWithWork`.

## 5. Plan

Modelled: the run life cycle with overlapping transactions, the graph and its
editing, the executor runtime, outbox, poller, triggers and the mutator's protocol.
Proved: every safety property of these except those of `PipelineStructure`. What is
left:

1. `PipelineStructure` without the search: splitting `GraphValidator` off it would put
   `RunStartsWorking` within reach of the proof system. `ValidatorAgrees` stays with TLC,
   since what a recursive definition computes takes induction over data.
2. The liveness properties, which would need a proof system that handles `ENABLED`.
3. `ReadyJobsAreStarted` does not hold of `ConcurrentRun` (two final events handled at
   once can each miss the other); if the code comes to lock the run while it dispatches,
   it should be stated and proved there.

## 6. Not modelled

* AFL++ (`src/fuzzing-engine/AFLplusplus`): vendored third-party code, and nearly
  all of the C of the repository. Of its C only `afl_llm_mutator.c` is the project's
  own program; it is modelled. `target_dsl.c` and the other demonstration targets
  are programs to be fuzzed.
* Of the mutation engine: the bytes of mutations, the havoc, post-process and
  describe hooks, which are local to one call, and the request to the language
  model, one HTTP call that yields a candidate or fails.
* The work of the vcs, storage, build, fuzzing, deploy and script services:
  sequential commands and file copies, represented by the step `Execute`, which may
  end in every way; the process runner and the storage clients under it, whose hard
  cases (a process that exits as its timeout fires, two copies to one path) depend
  on the operating system.
* CRUD of pipelines, folders, templates, environments, connections and secrets;
  REST mapping and paging; artifacts, audit, redaction, history logs and
  server-sent events: rows and texts no control depends on. Permissions: a
  stateless check before each operation.
* Frontend, mock publisher, deployment files: no state of the system.
