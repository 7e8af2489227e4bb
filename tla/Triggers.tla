------------------------------ MODULE Triggers ------------------------------
(***************************************************************************)
(* Triggers: what starts a run without a user.  The scheduler thread of    *)
(* every master reads the clock once per dispatch and fires each schedule  *)
(* trigger for the time slot it finds; clients deliver webhook and API     *)
(* events and deliver them again until they are answered.  An event that   *)
(* is taken leaves a row in trigger_event with its keys; an event that     *)
(* shares a key with a row is a duplicate.                                 *)
(*                                                                         *)
(* A firing is one transaction: it looks for a duplicate and counts the    *)
(* active runs when it begins, and its row meets the unique indexes when   *)
(* it commits.  The row a failed firing is marked "failed" in rolls back   *)
(* with it.  One tick of the clock is a second.                            *)
(***************************************************************************)
EXTENDS Integers, FiniteSets

CONSTANTS
    Scheduled,     \* schedule triggers
    CronSlots,     \* the fire times of a cron expression
    Interval,      \* the interval of a trigger without one
    Scheduler,     \* scheduler threads, one for each master
    Client,        \* clients that deliver an event
    RequestOf,     \* the request of each client: its trigger and its keys
    Period,        \* app.trigger.scheduler-interval
    MaxParallel,   \* max_parallel_runs of the schedule triggers
    StartTime,     \* the clock when the masters have started
    MaxTime,       \* bound of the model: the clock
    MaxFailures,   \* bound of the model: firings that fail
    MaxRetries     \* bound of the model: runs that are retried

Trigger == Scheduled \cup {RequestOf[c].trigger : c \in Client}
Process == Scheduler \cup Client

ASSUME TriggersAssumption ==
    /\ Period \in Nat \ {0}
    /\ MaxParallel \in Nat \ {0} /\ StartTime \in Nat /\ MaxTime \in Nat
    /\ MaxFailures \in Nat /\ MaxRetries \in Nat
    /\ CronSlots \subseteq Nat /\ Interval \in Nat \ {0}
    /\ StartTime <= MaxTime
    /\ IsFiniteSet(Scheduler) /\ Scheduler \cap Client = {}

\* What clients deliver: a key names its source, so that no request has a key of
\* the schedule, and deliveries that share a key are deliveries of one event.
ASSUME RequestAssumption ==
    /\ \A c \in Client : \A key \in RequestOf[c].keys : key[1] # "schedule"
    /\ \A c, d \in Client :
        RequestOf[c].keys \cap RequestOf[d].keys # {} => RequestOf[c].keys = RequestOf[d].keys

VARIABLES
    now,        \* the clock
    created,    \* when each trigger was created, Never before it is
    config,     \* whether each trigger has a cron expression or an interval
    rows,       \* trigger_event: [trigger, keys, run], run = 0 for an ignored slot
    active,     \* runs started by triggers that are active
    reopened,   \* runs that a retry has made active again
    dispatch,   \* the dispatch of each scheduler: [last, read, done, todo]
    tx,         \* the firing each process has open, Closed if none
    answer,     \* the run each client was answered with, 0 before
    failed      \* keys of firings that were rolled back

vars == <<now, created, config, rows, active, reopened, dispatch, tx, answer, failed>>

Never == MaxTime + 1

\* A dispatch: the reading of the clock it uses, the reading of the one before (which
\* no action looks at), when the last one ended and the triggers still to be fired.
DispatchType == [last : Int, read : Int, done : Int, todo : SUBSET Scheduled]

\* An open firing: what it will insert, and whether it will start a run.
Closed == [open |-> FALSE, trigger |-> "none", keys |-> {}, start |-> FALSE]

\* The keys of a schedule's slot, the same as external id and as idempotency key.
SlotKeys(t, slot) == {<<"schedule", kind, t, slot>> : kind \in {"external", "idempotency"}}

Accepted == {row \in rows : row.run # 0}
Runs == {row.run : row \in Accepted}

\* The planned times of a trigger: of its cron expression, or the multiples of
\* its interval.
SlotsOf(t) ==
    IF config[t] = "cron" THEN CronSlots \cap 1..MaxTime
    ELSE {n \in 1..MaxTime : n % Interval = 0}

TypeOK ==
    /\ now \in 0..MaxTime
    /\ created \in [Trigger -> 0..Never]
    /\ config \in [Trigger -> {"cron", "interval"}]
    /\ \A row \in rows : /\ row.trigger \in Trigger /\ row.run \in Nat
                         /\ created[row.trigger] <= now
    /\ Runs = 1..Cardinality(Accepted)
    /\ active \subseteq Runs /\ reopened \subseteq Runs
    /\ dispatch \in [Scheduler -> DispatchType]
    /\ \A s \in Scheduler :
        /\ dispatch[s].read <= dispatch[s].done \/ dispatch[s].todo # {}
        /\ dispatch[s].read <= now /\ dispatch[s].done <= now
    /\ DOMAIN tx = Process
    /\ \A p \in Process : tx[p].open \in BOOLEAN /\ tx[p].start \in BOOLEAN
    /\ answer \in [Client -> Runs \cup {0}]

Init ==
    /\ now = StartTime
    /\ created = [t \in Trigger |-> Never]
    /\ config = [t \in Trigger |-> "interval"]
    /\ rows = {} /\ active = {} /\ reopened = {} /\ failed = {}
    /\ dispatch = [s \in Scheduler |-> [last |-> StartTime - Period, read |-> StartTime - Period,
                                        done |-> StartTime - Period, todo |-> {}]]
    /\ tx = [p \in Process |-> Closed]
    /\ answer = [c \in Client |-> 0]

-----------------------------------------------------------------------------
\* A trigger is created.  One created inactive stays inactive, and is to every
\* other operation like one that does not exist.
create(t, kind) ==
    /\ created[t] = Never
    /\ created' = [created EXCEPT ![t] = now]
    /\ config' = [config EXCEPT ![t] = kind]
    /\ UNCHANGED <<now, rows, active, reopened, dispatch, tx, answer, failed>>

\* Mutant: the window is as long as the scheduler's interval.
resolveCronExactly(time) ==
    LET window == {slot \in CronSlots : time - Period < slot /\ slot <= time}
    IN  {slot \in window : \A other \in window : slot <= other}

\* The first fire time, if any, of a window one second longer than the interval.
resolveCronPlannedTime(time) ==
    LET window == {slot \in CronSlots : time - Period - 1 < slot /\ slot <= time}
    IN  {slot \in window : \A other \in window : slot <= other}

\* The slot a trigger is due for at a time, if any.
resolvePlannedFireTime(t, time) ==
    IF config[t] = "cron" THEN resolveCronPlannedTime(time)
    ELSE {(time \div Interval) * Interval}

\* The committed rows that share a key with an event.
findDuplicate(keys) == {row \in rows : keys \cap row.keys # {}}

\* Mutant: one run more than the limit.
hasCapacityForOneMore(t) ==
    Cardinality({row \in Accepted : row.trigger = t /\ row.run \in active}) <= MaxParallel

\* Runs of the trigger that are active, whoever started them, against the limit.
hasScheduleCapacity(t) ==
    Cardinality({row \in Accepted : row.trigger = t /\ row.run \in active}) < MaxParallel

\* Mutant: inactive triggers are dispatched too.
StartDispatchOfAll(s) ==
    /\ dispatch[s].todo = {} /\ ~tx[s].open
    /\ now >= dispatch[s].done + Period
    /\ dispatch' = [dispatch EXCEPT ![s].last = dispatch[s].read, ![s].read = now,
                                       ![s].todo = Scheduled]
    /\ UNCHANGED <<now, created, config, rows, active, reopened, tx, answer, failed>>

\* dispatchScheduledTriggers begins, at once or Period after the last one ended: the clock
\* and the triggers are read once, triggers without a slot are passed over.
StartDispatch(s) ==
    /\ dispatch[s].todo = {} /\ ~tx[s].open
    /\ now >= dispatch[s].done + Period
    /\ LET due == {t \in Scheduled : created[t] # Never
                                     /\ resolvePlannedFireTime(t, now) # {}}
       IN  dispatch' = [dispatch EXCEPT ![s] =
                          [last |-> dispatch[s].read, read |-> now, todo |-> due,
                           done |-> IF due = {} THEN now ELSE dispatch[s].done]]
    /\ UNCHANGED <<now, created, config, rows, active, reopened, tx, answer, failed>>

\* A process ends the firing of its trigger.  The scheduler goes on to its next
\* trigger, whatever became of this one, and after the last ends the dispatch.
Proceed(p, t) ==
    dispatch' = IF p \notin Scheduler THEN dispatch
                ELSE [dispatch EXCEPT ![p] =
                        [last |-> dispatch[p].last, read |-> dispatch[p].read,
                         todo |-> dispatch[p].todo \ {t},
                         done |-> IF dispatch[p].todo = {t} THEN now ELSE dispatch[p].done]]

\* fireScheduled begins.  A slot that has a row, run or ignored, is left alone.
fireScheduled(s, t) ==
    /\ t \in dispatch[s].todo /\ ~tx[s].open
    /\ \E slot \in resolvePlannedFireTime(t, dispatch[s].read) :
        IF findDuplicate(SlotKeys(t, slot)) # {}
        THEN Proceed(s, t) /\ tx' = tx
        ELSE /\ tx' = [tx EXCEPT ![s] = [open |-> TRUE, trigger |-> t,
                                         keys |-> SlotKeys(t, slot),
                                         start |-> hasScheduleCapacity(t)]]
             /\ UNCHANGED dispatch
    /\ UNCHANGED <<now, created, config, rows, active, reopened, answer, failed>>

\* fire and ingestWebhook begin: a duplicate is answered with its run.
DeliverEvent(c) ==
    LET request == RequestOf[c]
    IN  /\ answer[c] = 0 /\ ~tx[c].open
        /\ created[request.trigger] # Never
        /\ \/ \E row \in findDuplicate(request.keys) :
                /\ answer' = [answer EXCEPT ![c] = row.run]
                /\ UNCHANGED tx
           \/ /\ findDuplicate(request.keys) = {}
              /\ tx' = [tx EXCEPT ![c] = [open |-> TRUE, trigger |-> request.trigger,
                                          keys |-> request.keys, start |-> TRUE]]
              /\ UNCHANGED answer
        /\ UNCHANGED <<now, created, config, rows, active, reopened, dispatch, failed>>

\* Mutant: the table has no unique indexes.
NoConstraints(keys) == TRUE

\* The unique indexes: external id, idempotency key and payload hash per source.
ConstraintsHold(keys) == \A row \in rows : keys \cap row.keys = {}

\* The firing commits: its row and, unless the slot is ignored, its run.
Commit(p) ==
    LET run == IF tx[p].start THEN Cardinality(Accepted) + 1 ELSE 0
    IN  /\ tx[p].open /\ ConstraintsHold(tx[p].keys)
        /\ rows' = rows \cup {[trigger |-> tx[p].trigger, keys |-> tx[p].keys, run |-> run]}
        /\ active' = IF tx[p].start THEN active \cup {run} ELSE active
        /\ answer' = IF p \in Client THEN [answer EXCEPT ![p] = run] ELSE answer
        /\ Proceed(p, tx[p].trigger)
        /\ tx' = [tx EXCEPT ![p] = Closed]
        /\ UNCHANGED <<now, created, config, reopened, failed>>

\* Another firing of the event committed first.
Refused(p) ==
    /\ tx[p].open /\ ~ConstraintsHold(tx[p].keys)
    /\ Proceed(p, tx[p].trigger)
    /\ tx' = [tx EXCEPT ![p] = Closed]
    /\ UNCHANGED <<now, created, config, rows, active, reopened, answer, failed>>

\* The run cannot be created, or the database fails: nothing is left of it.
FiringFails(p) ==
    /\ Cardinality(failed) < MaxFailures
    /\ tx[p].open
    /\ failed' = failed \cup {tx[p].keys}
    /\ Proceed(p, tx[p].trigger)
    /\ tx' = [tx EXCEPT ![p] = Closed]
    /\ UNCHANGED <<now, created, config, rows, active, reopened, answer>>

\* The life of a run, as far as triggers see it: it ends, a retry reopens it.
RunEnds(run) ==
    /\ run \in active
    /\ active' = active \ {run}
    /\ UNCHANGED <<now, created, config, rows, reopened, dispatch, tx, answer, failed>>

RetryRun(run) ==
    /\ run \in Runs \ active
    /\ Cardinality(reopened \cup {run}) <= MaxRetries
    /\ active' = active \cup {run}
    /\ reopened' = reopened \cup {run}
    /\ UNCHANGED <<now, created, config, rows, dispatch, tx, answer, failed>>

\* A second passes.  Nothing bounds how late a scheduler is: a dispatch may take
\* any time, the next one may begin any time after Period, and a master that is
\* down is one whose next dispatch is late.
Tick ==
    /\ now < MaxTime
    /\ now' = now + 1
    /\ UNCHANGED <<created, config, rows, active, reopened, dispatch, tx, answer, failed>>

Next ==
    \/ \E t \in Trigger, kind \in {"cron", "interval"} : create(t, kind)
    \/ \E s \in Scheduler : StartDispatch(s)
    \/ \E s \in Scheduler, t \in Scheduled : fireScheduled(s, t)
    \/ \E c \in Client : DeliverEvent(c)
    \/ \E p \in Process : Commit(p) \/ Refused(p) \/ FiringFails(p)
    \/ \E run \in Runs : RunEnds(run) \/ RetryRun(run)
    \/ Tick

Spec == Init /\ [][Next]_vars

-----------------------------------------------------------------------------
\* An event starts one run, however often and to however many masters it is
\* delivered: a slot has one row, run or ignored, and clients that deliver the
\* same event are answered with the same run.
OneRunPerEvent ==
    /\ \A x, y \in rows : x.keys \cap y.keys # {} => x = y
    /\ \A c, d \in Client :
        /\ RequestOf[c].keys \cap RequestOf[d].keys # {}
        /\ answer[c] # 0 /\ answer[d] # 0
        => answer[c] = answer[d]

\* How far apart two readings of the clock may be for no slot to fall between them.
Reach(t) == IF config[t] = "cron" THEN Period + 1 ELSE Interval

\* A fire time with another one less than a reading before it.
Crowded(t, slot) ==
    config[t] = "cron" /\ \E other \in CronSlots : slot - Period <= other /\ other < slot

\* A slot that came up between the last two readings of a scheduler, which were
\* near enough to each other for it to be found.
InReach(s, t, slot) ==
    /\ created[t] < slot /\ ~Crowded(t, slot)
    /\ dispatch[s].last < slot /\ slot <= dispatch[s].read
    /\ dispatch[s].read - dispatch[s].last <= Reach(t)

\* No slot of a trigger is passed over by a master that was on time: when it ends
\* its dispatch, every slot since the reading before has a row, or a firing of it
\* failed, whatever the other masters do.  So a slot is lost only if every master
\* was late for it.  For a cron expression on time means within the one second
\* that resolveCronPlannedTime looks back further than Period, for an interval
\* (readIntervalSeconds, by default Period itself) within the interval.
NoSlotSkipped ==
    \A s \in Scheduler, t \in Scheduled : \A slot \in SlotsOf(t) :
        dispatch[s].todo = {} /\ InReach(s, t, slot)
        => SlotKeys(t, slot) \in failed \cup {row.keys : row \in rows}

\* The active runs of a schedule that it started itself and no retry reopened.
SlotRows(t) == {row \in Accepted : /\ row.keys \in {SlotKeys(t, n) : n \in 0..MaxTime}
                                   /\ row.run \in active \ reopened}

\* The limit of max_parallel_runs, as it is documented (hasScheduleCapacity).
\* One master keeps it; two masters do not.
ParallelRunsLimited == \A t \in Scheduled : Cardinality(SlotRows(t)) <= MaxParallel

\* How far the limit is exceeded: by one run at most for each further master,
\* whose scheduler had counted before the others' runs were committed, however
\* many slots they fire, fail and are refused (hasScheduleCapacity, fireScheduled).
OvershootBounded ==
    \A t \in Scheduled :
        Cardinality(SlotRows(t)) <= MaxParallel + Cardinality(Scheduler) - 1
=============================================================================
