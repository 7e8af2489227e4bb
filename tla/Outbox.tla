------------------------------- MODULE Outbox -------------------------------
(***************************************************************************)
(* The transactional outbox of the master service: OutboxService.enqueue   *)
(* inserts a row in the transaction of the business operation, and every   *)
(* master's OutboxPublisher takes the pending rows, hands each to the      *)
(* Kafka producer of its process and marks it published.  The producer is  *)
(* asynchronous: send only puts the message into a buffer, and nobody      *)
(* looks at the future it returns.                                         *)
(***************************************************************************)
EXTENDS Naturals, FiniteSets

CONSTANTS
    MaxMessage,        \* bound of the model: messages, numbered by created_at
    Publisher,         \* processes of the master service
    BatchSize,         \* app.outbox.batch-size
    MaxAttempts,       \* app.outbox.max-attempts
    PublisherEnabled,  \* app.outbox.publisher-enabled
    MaxFaults          \* bound of the model: crashes, rollbacks, lost sends

ASSUME OutboxAssumption ==
    /\ MaxMessage \in Nat /\ MaxFaults \in Nat
    /\ BatchSize \in Nat \ {0} /\ MaxAttempts \in Nat \ {0}
    /\ PublisherEnabled \in BOOLEAN

Message == 1..MaxMessage

VARIABLES
    business,   \* the transaction each message belongs to
    row,        \* outbox_event.status; "open" while nobody else can see the row
    attempts,   \* outbox_event.attempts
    task,       \* the publishPending of each process
    buffer,     \* how often each message is in the memory of a process's producer
    copies,     \* how often Kafka has appended each message
    sent,       \* how often each message was handed to a producer
    faults      \* crashes, rollbacks and lost sends so far

vars == <<business, row, attempts, task, buffer, copies, sent, faults>>

\* A publishPending: the rows it has still to publish, and what it has made of
\* the others ("none": nothing yet), which is written when it commits.
Idle == [pc |-> "idle", todo |-> {}, status |-> [m \in Message |-> "none"],
         attempts |-> [m \in Message |-> 0]]

Result == {"none", "pending", "published", "failed"}

TypeOK ==
    /\ business \in [Message -> {"none", "open", "committed", "undone"}]
    /\ row \in [Message -> {"absent", "open", "undone", "pending", "published", "failed"}]
    /\ attempts \in [Message -> 0..MaxAttempts]
    /\ task \in [Publisher -> [pc : {"idle", "publishing"}, todo : SUBSET Message,
                               status : [Message -> Result],
                               attempts : [Message -> 0..MaxAttempts]]]
    /\ buffer \in [Publisher -> [Message -> Nat]]
    /\ copies \in [Message -> Nat] /\ sent \in [Message -> Nat]
    /\ faults \in 0..MaxFaults

Init ==
    /\ business = [m \in Message |-> "none"]
    /\ row = [m \in Message |-> "absent"]
    /\ attempts = [m \in Message |-> 0]
    /\ task = [p \in Publisher |-> Idle]
    /\ buffer = [p \in Publisher |-> [m \in Message |-> 0]]
    /\ copies = [m \in Message |-> 0] /\ sent = [m \in Message |-> 0]
    /\ faults = 0

-----------------------------------------------------------------------------
\* Mutant: enqueue runs in a transaction of its own, which commits at once.
EnqueueAlone(m) ==
    /\ row[m] = "absent"
    /\ \A n \in Message : n < m => row[n] # "absent"
    /\ business' = [business EXCEPT ![m] = "open"]
    /\ row' = [row EXCEPT ![m] = "pending"]
    /\ UNCHANGED <<attempts, task, buffer, copies, sent, faults>>

\* A business operation calls enqueue, which joins its transaction and inserts a
\* row.  created_at is the time of the call: rows become visible in another order
\* when an older transaction commits later.
Enqueue(m) ==
    /\ row[m] = "absent"
    /\ \A n \in Message : n < m => row[n] # "absent"
    /\ business' = [business EXCEPT ![m] = "open"]
    /\ row' = [row EXCEPT ![m] = "open"]
    /\ UNCHANGED <<attempts, task, buffer, copies, sent, faults>>

\* The operation ends, with everything its transaction has written.
EndTransaction(m, outcome) ==
    /\ business[m] = "open"
    /\ business' = [business EXCEPT ![m] = outcome]
    /\ row' = [row EXCEPT ![m] = IF row[m] # "open" THEN row[m]
                                 ELSE IF outcome = "committed" THEN "pending" ELSE "undone"]
    /\ UNCHANGED <<attempts, task, buffer, copies, sent, faults>>

\* The first BatchSize elements of S.
Oldest(S) == {m \in S : Cardinality({n \in S : n < m}) < BatchSize}

\* Mutant: the rows are read without a lock.
LockNothing(p) ==
    LET pending == {m \in Message : row[m] = "pending"}
    IN  /\ task[p].pc = "idle"
        /\ pending # {}
        /\ task' = [task EXCEPT ![p] = [pc |-> "publishing", todo |-> Oldest(pending),
                                        status |-> Idle.status, attempts |-> Idle.attempts]]
        /\ UNCHANGED <<row, business, attempts, buffer, copies, sent, faults>>

\* lockByStatus locks every pending row until the commit, not only the batch:
\* another process waits here, and then sees the rows that are still pending.
LockPending(p) ==
    LET pending == {m \in Message : row[m] = "pending"}
    IN  /\ \A q \in Publisher : task[q].pc = "idle"
        /\ pending # {}
        /\ task' = [task EXCEPT ![p] = [pc |-> "publishing", todo |-> Oldest(pending),
                                        status |-> Idle.status, attempts |-> Idle.attempts]]
        /\ UNCHANGED <<row, business, attempts, buffer, copies, sent, faults>>

\* The row whose turn it is: the batch is published in the order of created_at.
Current(p) == {m \in task[p].todo : \A n \in task[p].todo : m <= n}

\* The result of publishSingle for a row.
Record(p, m, status, tries) ==
    task' = [task EXCEPT ![p] = [pc |-> "publishing", todo |-> task[p].todo \ {m},
                                 status |-> [task[p].status EXCEPT ![m] = status],
                                 attempts |-> [task[p].attempts EXCEPT ![m] = tries]]]

\* send accepts the message, or the publisher is disabled and nothing is sent.
PublishSingle(p) ==
    \E m \in Current(p) :
        /\ Record(p, m, "published", attempts[m])
        /\ buffer' = IF PublisherEnabled THEN [buffer EXCEPT ![p][m] = @ + 1] ELSE buffer
        /\ sent' = IF PublisherEnabled THEN [sent EXCEPT ![m] = @ + 1] ELSE sent
        /\ UNCHANGED <<row, business, attempts, copies, faults>>

\* Mutant: a failure is not counted.
SendThrowsUncounted(p) ==
    \E m \in Current(p) :
        /\ PublisherEnabled
        /\ Record(p, m, "pending", attempts[m])
        /\ UNCHANGED <<row, business, attempts, buffer, copies, sent, faults>>

\* Building the payload or send itself throws, for instance because no
\* metadata of the topic arrives in time.
SendThrows(p) ==
    \E m \in Current(p) :
        /\ PublisherEnabled
        /\ Record(p, m, IF attempts[m] + 1 >= MaxAttempts THEN "failed" ELSE "pending",
                  attempts[m] + 1)
        /\ UNCHANGED <<row, business, attempts, buffer, copies, sent, faults>>

CommitBatch(p) ==
    LET t == task[p]
    IN  /\ t.pc = "publishing" /\ t.todo = {}
        /\ row' = [m \in Message |-> IF t.status[m] # "none" THEN t.status[m] ELSE row[m]]
        /\ attempts' = [m \in Message |->
                          IF t.status[m] # "none" THEN t.attempts[m] ELSE attempts[m]]
        /\ task' = [task EXCEPT ![p] = Idle]
        /\ UNCHANGED <<business, buffer, copies, sent, faults>>

-----------------------------------------------------------------------------
\* Kafka appends a message the producer sends.
Deliver(p, m) ==
    /\ buffer[p][m] > 0
    /\ buffer' = [buffer EXCEPT ![p][m] = @ - 1]
    /\ copies' = [copies EXCEPT ![m] = @ + 1]
    /\ UNCHANGED <<row, business, attempts, task, sent, faults>>

Fault == faults < MaxFaults /\ faults' = faults + 1

\* The producer gives up on a message; the failed future is dropped.
LoseSend(p, m) ==
    /\ Fault
    /\ buffer[p][m] > 0
    /\ buffer' = [buffer EXCEPT ![p][m] = @ - 1]
    /\ UNCHANGED <<row, business, attempts, task, copies, sent>>

\* The transaction of publishPending is rolled back; the producer goes on.
RollbackBatch(p) ==
    /\ Fault
    /\ task[p].pc = "publishing"
    /\ task' = [task EXCEPT ![p] = Idle]
    /\ UNCHANGED <<row, business, attempts, buffer, copies, sent>>

\* The process dies with the buffer of its producer.
Crash(p) ==
    /\ Fault
    /\ task' = [task EXCEPT ![p] = Idle]
    /\ buffer' = [buffer EXCEPT ![p] = [m \in Message |-> 0]]
    /\ UNCHANGED <<row, business, attempts, copies, sent>>

-----------------------------------------------------------------------------
Publishing(p) == LockPending(p) \/ PublishSingle(p) \/ SendThrows(p) \/ CommitBatch(p)

Next ==
    \/ \E m \in Message : Enqueue(m) \/ EndTransaction(m, "committed") \/ EndTransaction(m, "undone")
    \/ \E p \in Publisher : Publishing(p) \/ RollbackBatch(p) \/ Crash(p)
    \/ \E p \in Publisher, m \in Message : Deliver(p, m) \/ LoseSend(p, m)

\* The scheduler of some master calls publishPending again and again, and a
\* batch that was begun goes on.
Spec == Init /\ [][Next]_vars /\ WF_vars(\E p \in Publisher : Publishing(p))

-----------------------------------------------------------------------------
\* Only what a committed business operation asked for is ever sent: neither a
\* message of one that was rolled back nor one of one that may still be, whatever
\* the publishers do meanwhile (enqueue joins the transaction of the operation).
OnlyCommittedIsSent ==
    \A m \in Message :
        copies[m] > 0 \/ (\E p \in Publisher : buffer[p][m] > 0) =>
            business[m] = "committed"

\* A message reaches Kafka twice only at the price of a failure: each time it
\* is handed to a producer beyond the first is paid for by a crash or a
\* rollback, however many masters publish (lockByStatus, publishPending).
DuplicatesTakeFaults == \A m \in Message : sent[m] <= 1 + faults

\* A row whose transaction has committed does not stay pending for ever, even
\* if every send throws: older rows go first and attempts are limited
\* (publishSingle, max-attempts).
RowsAreSettled ==
    \A m \in Message : row[m] = "pending" ~> row[m] \in {"published", "failed"}

\* What the database model says of the publisher, and dropping the future does
\* not keep: a published row has reached Kafka or is on its way there.
PublishedReachesKafka ==
    \A m \in Message :
        row[m] = "published" => copies[m] > 0 \/ \E p \in Publisher : buffer[p][m] > 0

=============================================================================
