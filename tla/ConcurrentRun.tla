---------------------------- MODULE ConcurrentRun ----------------------------
(***************************************************************************)
(* The transactions of PipelineRun when they overlap.  The master service  *)
(* sets no isolation level, locks no row of a run and has no version       *)
(* columns, so PostgreSQL runs every transaction at READ COMMITTED: it     *)
(* reads what is committed at that moment, works on its own copies of the  *)
(* rows, and writes all columns of each row it touched, over whatever has  *)
(* been committed since.  The variables of PipelineRun are the committed   *)
(* rows here; tx holds the copies of the transactions under way.           *)
(*                                                                         *)
(* Hibernate sends most updates at the commit, in one step with it.  Two   *)
(* transactions send theirs earlier, because they query the executions     *)
(* after changing one: the updated row stays locked until they end.        *)
(***************************************************************************)
EXTENDS PipelineRun

CONSTANTS
    Consumer,       \* threads that handle executor events
    Requester,      \* threads that serve REST requests or run the watchdog
    MaxDisturbances \* bound of the model: transactions of the requesters and
                    \* transactions that fail by chance

\* What matters is how many transactions are open at once: a thread of the
\* model may stand for a consumer at one time and for a requester at another.
ASSUME ThreadAssumption == MaxDisturbances \in Nat

Thread == Consumer \cup Requester

\* An event is identified by what it reports: executors send each status of
\* an execution once, and Kafka may deliver it several times.
Event == Execution \X EventStatus
NoEvent == <<>>

VARIABLES
    tx,           \* the transaction of each thread
    inbox,        \* events registered in inbox_event
    delivered,    \* events a consumer has been given
    disturbances  \* requests and failures so far

concurrentVars == <<vars, tx, inbox, delivered, disturbances>>

Row == [status : JobExecutionStatus, retryable : BOOLEAN, timed : BOOLEAN]

\* A transaction: where it is, the event it handles, the execution and
\* approval rows it writes, the executions it inserts, the executions it
\* sends job messages and cancel commands for, the columns of the run it
\* writes ("keep": it does not write the run), and the statuses its query for
\* the executions of the run returned.
Idle ==
    [pc |-> "idle", event |-> NoEvent, rows |-> <<>>, decided |-> <<>>,
     inserts |-> {}, messages |-> {}, cancels |-> {}, run |-> "keep",
     finished |-> FALSE, seen |-> <<>>]

ConcurrentTypeOK ==
    /\ TypeOK
    /\ inbox \subseteq delivered /\ delivered \subseteq Event
    /\ \A t \in Thread :
        LET x == tx[t]
        IN  /\ x.pc \in {"idle", "changed", "flushed", "ready"}
            /\ x.event \in Event \cup {NoEvent}
            /\ DOMAIN x.rows \subseteq Execution
            /\ \A e \in DOMAIN x.rows : x.rows[e] \in Row
            /\ x.inserts \subseteq Execution /\ x.messages \subseteq Execution
            /\ x.run \in PipelineRunStatus \cup {"keep"}

ConcurrentInit ==
    /\ Init
    /\ tx = [t \in Thread |-> Idle]
    /\ inbox = {} /\ delivered = {}
    /\ disturbances = 0

-----------------------------------------------------------------------------
\* The first half of a transaction: it reads, decides, and changes its copies.

Begin(t, changes) ==
    /\ tx[t].pc = "idle"
    /\ tx' = [tx EXCEPT ![t] = changes]
    /\ UNCHANGED <<vars, inbox>>

Disturb == disturbances < MaxDisturbances /\ disturbances' = disturbances + 1

Request(t, changes) ==
    /\ Disturb
    /\ Begin(t, changes)
    /\ UNCHANGED delivered

CopyOf(e) == [status |-> status[e], retryable |-> retryable[e], timed |-> timed[e]]

\* Copies of the rows of E with a new status.
Copies(E, s) == [e \in E |-> [CopyOf(e) EXCEPT !.status = s]]

\* ExecutorEventService.handle up to its first save.  The row is written even
\* when the transition is refused; only an accepted final status goes on to
\* the run.
BeginEvent(t, ev, error, hasTimes) ==
    LET e == ev[1]
        s == ev[2]
        accepted == canTransition(status[e], s)
        row == [status |-> IF accepted THEN s ELSE status[e],
                retryable |-> IF error = "none" THEN retryable[e]
                              ELSE error = "retryable",
                timed |-> timed[e] \/ hasTimes]
    IN  /\ dispatched[e] > 0
        /\ ev \notin inbox
        /\ Begin(t, [Idle EXCEPT
                       !.pc = IF accepted /\ s \in FinalStatus
                              THEN "changed" ELSE "ready",
                       !.event = ev,
                       !.rows = [x \in {e} |-> row]])
        /\ delivered' = delivered \cup {ev}
        /\ UNCHANGED disturbances

BeginCancelRun(t) ==
    LET active == {e \in Execution : status[e] \in
                      {"queued", "running", "waiting_approval", "canceling"}}
    IN  /\ runStatus # "none"
        /\ Request(t, [Idle EXCEPT !.pc = "ready", !.rows = Copies(active, "canceling"),
                                   !.cancels = active, !.run = "canceling",
                                   !.finished = runFinished])

BeginCancelExecution(t, e) ==
    /\ status[e] \notin FinalStatus \cup {"none"}
    /\ Request(t, [Idle EXCEPT !.pc = "ready", !.rows = Copies({e}, "canceling"),
                               !.cancels = {e}])

\* The newest attempts that are candidates, each with the attempt after it.
BeginRetryRun(t) ==
    LET old == {e \in Execution : e[2] \in Latest(status, e[1]) /\ isRetryCandidate(e)}
        new == {<<e[1], e[2] + 1>> : e \in old}
    IN  /\ old # {}
        /\ Request(t, [Idle EXCEPT
                         !.pc = "ready", !.rows = Copies(old, "retrying"),
                         !.inserts = new,
                         !.run = IF \E e \in new : e[1] \in Protected
                                 THEN "waiting_approval" ELSE "running"])

\* Any candidate, replaced by the attempt after the newest.
BeginRetryExecution(t, e) ==
    /\ status[e] # "none" /\ isRetryCandidate(e)
    /\ \E newest \in Latest(status, e[1]) :
        /\ newest + 1 \in Attempt
        /\ Request(t, [Idle EXCEPT
                         !.pc = "ready", !.rows = Copies({e}, "retrying"),
                         !.inserts = {<<e[1], newest + 1>>},
                         !.run = IF e[1] \in Protected
                                 THEN "waiting_approval" ELSE "running"])

BeginApprove(t, e) ==
    LET waits == status[e] = "waiting_approval"
    IN  /\ approval[e] = "pending"
        /\ Request(t, [Idle EXCEPT
                         !.pc = "ready", !.decided = [x \in {e} |-> "approved"],
                         !.rows = Copies(IF waits THEN {e} ELSE {}, "queued"),
                         !.messages = IF waits THEN {e} ELSE {},
                         !.run = IF waits THEN "running" ELSE "keep"])

BeginReject(t, e) ==
    LET waits == status[e] = "waiting_approval"
    IN  /\ approval[e] = "pending"
        /\ Request(t, [Idle EXCEPT
                         !.pc = IF waits THEN "changed" ELSE "ready",
                         !.decided = [x \in {e} |-> "rejected"],
                         !.rows = Copies(IF waits THEN {e} ELSE {}, "skipped")])

BeginCheckTimeouts(t) ==
    \E expired \in SUBSET {e \in Execution : status[e] = "running" /\ timed[e]} :
        /\ expired # {}
        /\ Request(t, [Idle EXCEPT !.pc = "ready", !.rows = Copies(expired, "timeout")])

-----------------------------------------------------------------------------
\* The second half: updates reach the database, the run is recomputed.

\* Rows that a transaction other than t has updated and not committed.
Locked(t) == UNION {DOMAIN tx[u].rows : u \in {v \in Thread \ {t} : tx[v].pc = "flushed"}}

\* findByPipelineRunId, which first sends the update of the changed row and
\* therefore waits for its lock; the rows it returns decide which jobs an
\* event starts.  The run row is read here too.
Flush(t) ==
    LET x == tx[t]
        seen == [e \in Execution |->
                   IF e \in DOMAIN x.rows THEN x.rows[e].status ELSE status[e]]
    IN  /\ x.pc = "changed"
        /\ DOMAIN x.rows \cap Locked(t) = {}
        /\ tx' = [tx EXCEPT ![t] =
                    [x EXCEPT !.pc = "flushed", !.seen = seen, !.finished = runFinished,
                              !.inserts = IF x.event = NoEvent THEN {}
                                          ELSE FirstAttempts(seen)]]
        /\ UNCHANGED <<vars, inbox, delivered, disturbances>>

InitialStatus(e) == IF e[1] \in Protected THEN "waiting_approval" ELSE "queued"

\* recomputeRunStatus reduces the statuses its transaction has seen, those it
\* has inserted, and rows inserted by others since: rows it has loaded before
\* are not read again.  The query is made here with the commit, in the code some
\* statements earlier; no property looks at the status of the run.
Reduced(x) ==
    reduce(({x.seen[e] : e \in Execution} \cup {InitialStatus(e) : e \in x.inserts}
            \cup {status[e] : e \in {f \in Execution : x.seen[f] = "none"}}) \ {"none"})

\* Mutant: nothing stops a second row for the same event or attempt.
NoConstraints(x) == x.pc # "idle"

\* The unique constraints: inbox_event (message_id, consumer_name) and
\* job_execution (pipeline_run_id, job_id, attempt).
ConstraintsHold(x) ==
    x.event \notin inbox /\ \A e \in x.inserts : status[e] = "none"

\* Mutant: an event that ends nothing is not registered.
RegisteredIfFinal(x) == IF x.pc = "flushed" THEN inbox \cup {x.event} ELSE inbox

\* registerProcessed, in the transaction that handles the event.
Registered(x) == IF x.event = NoEvent THEN inbox ELSE inbox \cup {x.event}

Write(t) ==
    LET x == tx[t]
        rows == [e \in Execution |-> IF e \in DOMAIN x.rows THEN x.rows[e] ELSE CopyOf(e)]
    IN  /\ status' = [e \in Execution |->
                        IF e \in x.inserts THEN InitialStatus(e)
                        ELSE IF e \in DOMAIN x.rows THEN x.rows[e].status
                        ELSE status[e]]
        /\ retryable' = [e \in Execution |-> rows[e].retryable]
        /\ timed' = [e \in Execution |-> rows[e].timed]
        /\ approval' = [e \in Execution |->
                          IF e \in x.inserts /\ e[1] \in Protected THEN "pending"
                          ELSE IF e \in DOMAIN x.decided THEN x.decided[e]
                          ELSE approval[e]]
        /\ dispatched' = [e \in Execution |->
                            IF e \in x.messages \/ (e \in x.inserts /\ e[1] \notin Protected)
                            THEN dispatched[e] + 1 ELSE dispatched[e]]
        /\ cancelSent' = [e \in Execution |-> e \in x.cancels \/ cancelSent[e]]
        /\ runStatus' = IF x.pc = "flushed" THEN Reduced(x)
                        ELSE IF x.run # "keep" THEN x.run ELSE runStatus
        /\ runFinished' = IF x.pc = "flushed"
                          THEN x.finished \/ runStatus' \in FinalRunStatus
                          ELSE IF x.run # "keep" THEN x.finished ELSE runFinished
        /\ inbox' = Registered(x)

Commit(t) ==
    /\ tx[t].pc \in {"flushed", "ready"}
    /\ DOMAIN tx[t].rows \cap Locked(t) = {}
    /\ ConstraintsHold(tx[t])
    /\ Write(t)
    /\ tx' = [tx EXCEPT ![t] = Idle]
    /\ UNCHANGED <<delivered, disturbances>>

\* A unique constraint refuses an insert: the transaction is rolled back, and
\* the event, if it was one, is delivered again.
Refused(t) ==
    /\ tx[t].pc \in {"flushed", "ready"}
    /\ ~ConstraintsHold(tx[t])
    /\ tx' = [tx EXCEPT ![t] = Idle]
    /\ UNCHANGED <<vars, inbox, delivered, disturbances>>

\* A transaction fails for any other reason: the connection is lost, or it is
\* the victim of a deadlock between the rows of the run and of an execution.
Rollback(t) ==
    /\ Disturb
    /\ tx[t].pc # "idle"
    /\ tx' = [tx EXCEPT ![t] = Idle]
    /\ UNCHANGED <<vars, inbox, delivered>>

-----------------------------------------------------------------------------
\* The run is created before anyone else knows of it.
Create == CreateRun /\ UNCHANGED <<tx, inbox, delivered, disturbances>>

ConsumeEvent(t) ==
    \E ev \in Event : \E error \in EventError(ev[2]), hasTimes \in EventTimed :
        BeginEvent(t, ev, error, hasTimes)

ServeRequest(t) ==
    \/ BeginCancelRun(t)
    \/ BeginRetryRun(t)
    \/ BeginCheckTimeouts(t)
    \/ \E e \in Execution : \/ BeginCancelExecution(t, e)
                            \/ BeginRetryExecution(t, e)
                            \/ BeginApprove(t, e)
                            \/ BeginReject(t, e)

ConcurrentNext ==
    \/ Create
    \/ \E t \in Consumer : ConsumeEvent(t)
    \/ \E t \in Requester : ServeRequest(t)
    \/ \E t \in Thread : Flush(t) \/ Commit(t) \/ Refused(t) \/ Rollback(t)

ConcurrentSpec == ConcurrentInit /\ [][ConcurrentNext]_concurrentVars

\* Kafka delivers an event again until its offset is committed.
Redeliver(t) ==
    \E ev \in delivered : \E error \in EventError(ev[2]), hasTimes \in EventTimed :
        BeginEvent(t, ev, error, hasTimes)

\* Threads go on with what they have begun, and consumers with the events
\* they have been given.
FairConcurrentSpec ==
    /\ ConcurrentSpec
    /\ \A t \in Thread : WF_concurrentVars(Flush(t) \/ Commit(t) \/ Refused(t))
    /\ WF_concurrentVars(\E t \in Consumer : Redeliver(t))

-----------------------------------------------------------------------------
\* An execution that needs no approval gets exactly one job message for its
\* row, even when two consumers start the same job at once or handle the same
\* event twice: the constraints roll back the second transaction together
\* with its outbox rows (dispatchReadyJobs, createExecution, enqueueExecution).
OneMessagePerAttempt ==
    \A e \in Execution :
        e[1] \notin Protected =>
            dispatched[e] = IF status[e] = "none" THEN 0 ELSE 1

\* A job with an on_success dependency exists only if a success of the other
\* job has been received, although transactions act on stale copies and a
\* success may be overwritten later (ReadyJobResolver, handle).
StartedAfterSuccess ==
    \A d \in Deps :
        d.condition = "on_success" /\ AttemptsOf(status, d.job) # {} =>
            \E a \in Attempt : <<<<d.dependsOn, a>>, "success">> \in inbox

\* Again and again every event delivered so far has been applied, and as each
\* is applied once, none is left out for ever: a rollback, by chance or by a
\* constraint, is followed by a delivery that succeeds, and no two
\* transactions wait for each other's rows for ever (ExecutorResultConsumer
\* rethrows, handle starts from isDuplicate again).
DeliveredIsApplied == []<>(delivered = inbox)

=============================================================================
