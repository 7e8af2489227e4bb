---------------------------- MODULE OutboxProofs ----------------------------
(***************************************************************************)
(* Proofs about Outbox for any number of masters and messages, any batch   *)
(* size and any limit of attempts: nothing is sent that no committed       *)
(* transaction asked for, and a message is sent again only after a fault.  *)
(***************************************************************************)
EXTENDS Outbox, TLAPS

\* The fields of a publishPending.
TaskType == [pc : {"idle", "publishing"}, todo : SUBSET Message,
             status : [Message -> Result], attempts : [Message -> 0..MaxAttempts]]

Unpublished == {"absent", "open", "undone", "pending"}

\* What a task has to do and has done concerns pending rows, and no row both.
\* A row it leaves pending has attempts left.
TaskInv(p) ==
    /\ task[p].pc = "idle" => task[p] = Idle
    /\ \A m \in task[p].todo : row[m] = "pending" /\ task[p].status[m] = "none"
    /\ \A m \in Message :
        /\ task[p].status[m] # "none" => row[m] = "pending"
        /\ task[p].status[m] = "pending" => task[p].attempts[m] < MaxAttempts

\* The row locks: one process publishes at a time.
OnePublishes ==
    \A p, q \in Publisher :
        task[p].pc = "publishing" /\ task[q].pc = "publishing" => p = q

\* A row nobody has published, nor a task is about to mark published, has been
\* sent only by tasks that a fault undid.
UnpublishedIsPaidFor ==
    \A m \in Message :
        /\ row[m] \in Unpublished
        /\ \A p \in Publisher : task[p].status[m] # "published"
        => sent[m] <= faults

\* What is sent has a row that everybody can see.
SentIsVisible ==
    \A m \in Message :
        copies[m] > 0 \/ (\E p \in Publisher : buffer[p][m] > 0) =>
            row[m] \notin {"absent", "open", "undone"}

\* A row is seen by others only after the operation it belongs to has committed.
VisibleIsCommitted ==
    \A m \in Message :
        /\ row[m] = "open" <=> business[m] = "open"
        /\ row[m] \in {"pending", "published", "failed"} => business[m] = "committed"

\* Inductive strengthening of both properties.
OutboxInv ==
    /\ TypeOK
    /\ \A m \in Message : row[m] \in Unpublished => attempts[m] < MaxAttempts
    /\ \A p \in Publisher : TaskInv(p)
    /\ OnePublishes
    /\ VisibleIsCommitted
    /\ SentIsVisible
    /\ DuplicatesTakeFaults
    /\ UnpublishedIsPaidFor

LEMMA IdleTyped == Idle \in TaskType /\ Idle.pc = "idle" /\ Idle.todo = {}
                   /\ \A m \in Message : Idle.status[m] = "none"
BY OutboxAssumption DEF Idle, TaskType, Result

LEMMA InitOutboxInv == Init => OutboxInv
<1> SUFFICES ASSUME Init PROVE OutboxInv
  OBVIOUS
<1>1. TypeOK
  <2>1. task \in [Publisher -> TaskType]
    BY IdleTyped DEF Init
  <2>2. QED  BY <2>1, OutboxAssumption DEF Init, TypeOK, TaskType
<1>2. \A p \in Publisher : TaskInv(p) /\ task[p].pc = "idle"
  BY IdleTyped DEF Init, TaskInv
<1>3. VisibleIsCommitted /\ SentIsVisible /\ DuplicatesTakeFaults /\ UnpublishedIsPaidFor
  BY DEF Init, VisibleIsCommitted, SentIsVisible, DuplicatesTakeFaults, UnpublishedIsPaidFor
<1>4. QED  BY <1>1, <1>2, <1>3, OutboxAssumption DEF Init, OutboxInv, OnePublishes

\* enqueue and the end of its transaction: the row of m moves on, and was not
\* pending before.
LEMMA EnqueueInd ==
    ASSUME OutboxInv, NEW m \in Message, NEW status \in {"open", "undone", "pending"},
           NEW outcome \in {"open", "undone", "committed"},
           status = "open" <=> outcome = "open", status = "pending" => outcome = "committed",
           row[m] = "absent" \/ row[m] = "open",
           row' = [row EXCEPT ![m] = status], business' = [business EXCEPT ![m] = outcome],
           UNCHANGED <<attempts, task, buffer, copies, sent, faults>>
    PROVE  OutboxInv'
<1>1. TypeOK'
  BY DEF OutboxInv, TypeOK
<1>2. /\ row'[m] = status /\ row[m] \in Unpublished
      /\ \A n \in Message : n # m => row'[n] = row[n]
  BY DEF OutboxInv, TypeOK, Unpublished
<1>3. ASSUME NEW p \in Publisher PROVE TaskInv(p)'
  <2>1. TaskInv(p) /\ task'[p] = task[p] /\ task[p].todo \subseteq Message
    BY DEF OutboxInv, TypeOK
  <2>2. m \notin task[p].todo /\ task[p].status[m] = "none"
    BY <2>1 DEF TaskInv
  <2>3. QED  BY <1>2, <2>1, <2>2 DEF TaskInv
<1>4. \A n \in Message : row'[n] \in Unpublished => row[n] \in Unpublished
  BY <1>2
<1>5. SentIsVisible' /\ VisibleIsCommitted'
  <2>1. business'[m] = outcome /\ \A n \in Message : n # m => business'[n] = business[n]
    BY DEF OutboxInv, TypeOK
  <2>2. QED  BY <1>2, <2>1 DEF OutboxInv, SentIsVisible, VisibleIsCommitted
<1>6. UnpublishedIsPaidFor'
  BY <1>4 DEF OutboxInv, UnpublishedIsPaidFor
<1>7. QED  BY <1>1, <1>3, <1>4, <1>5, <1>6 DEF OutboxInv, OnePublishes, DuplicatesTakeFaults

\* The rows are locked: nobody publishes, and the batch is pending.
LEMMA LockPendingInd ==
    ASSUME OutboxInv, NEW p \in Publisher, LockPending(p)
    PROVE  OutboxInv'
<1> DEFINE pending == {m \in Message : row[m] = "pending"}
           t == [pc |-> "publishing", todo |-> Oldest(pending), status |-> Idle.status,
                 attempts |-> Idle.attempts]
<1>1. /\ task' = [task EXCEPT ![p] = t] /\ \A q \in Publisher : task[q].pc = "idle"
      /\ UNCHANGED <<row, business, attempts, buffer, copies, sent, faults>>
  BY DEF LockPending
<1>2. Oldest(pending) \subseteq Message /\ \A m \in Oldest(pending) : row[m] = "pending"
  BY DEF Oldest
<1>3. /\ Idle.status \in [Message -> Result] /\ Idle.attempts \in [Message -> 0..MaxAttempts]
      /\ \A m \in Message : Idle.status[m] = "none"
  BY IdleTyped DEF TaskType
<1>4. t \in TaskType
  BY <1>2, <1>3 DEF TaskType
<1>5. /\ t.pc = "publishing" /\ t.todo = Oldest(pending)
      /\ \A m \in Message : t.status[m] = "none"
  BY <1>3
<1> HIDE DEF t, pending
<1>6. task \in [Publisher -> TaskType]
  BY DEF OutboxInv, TypeOK, TaskType
<1>7. /\ task' \in [Publisher -> TaskType] /\ task'[p] = t
      /\ \A q \in Publisher : q # p => task'[q] = task[q]
  BY <1>1, <1>4, <1>6
<1>8. TypeOK'
  BY <1>1, <1>7 DEF OutboxInv, TypeOK, TaskType
<1>9. ASSUME NEW q \in Publisher PROVE TaskInv(q)'
  <2>1. CASE q = p
    BY <1>1, <1>2, <1>5, <1>7, <2>1 DEF TaskInv
  <2>2. CASE q # p
    BY <1>1, <1>7, <2>2 DEF OutboxInv, TaskInv
  <2>3. QED  BY <2>1, <2>2
<1>10. OnePublishes'
  <2>1. \A q \in Publisher : task'[q].pc = "publishing" => q = p
    BY <1>1, <1>7
  <2>2. QED  BY <2>1 DEF OnePublishes
<1>11. UnpublishedIsPaidFor'
  <2>1. \A q \in Publisher : \A m \in Message : task[q].status[m] = "none"
    BY <1>1, <1>3 DEF OutboxInv, TaskInv
  <2>2. QED  BY <1>1, <2>1 DEF OutboxInv, UnpublishedIsPaidFor
<1>12. QED
  BY <1>1, <1>8, <1>9, <1>10, <1>11
     DEF OutboxInv, SentIsVisible, VisibleIsCommitted, DuplicatesTakeFaults

\* What publishSingle makes of a row, on the side of the task.
LEMMA RecordInd ==
    ASSUME OutboxInv, NEW p \in Publisher, NEW m \in Current(p),
           NEW status \in Result \ {"none"}, NEW tries \in 0..MaxAttempts,
           status = "pending" => tries < MaxAttempts,
           Record(p, m, status, tries), row' = row
    PROVE  /\ task' \in [Publisher -> TaskType]
           /\ \A q \in Publisher : TaskInv(q)'
           /\ OnePublishes'
           /\ m \in Message /\ row[m] = "pending" /\ task'[p].status[m] = status
           /\ \A q \in Publisher : task[q].status[m] = "none"
           /\ \A q \in Publisher, n \in Message : n # m => task'[q].status[n] = task[q].status[n]
<1> DEFINE t == [pc |-> "publishing", todo |-> task[p].todo \ {m},
                 status |-> [task[p].status EXCEPT ![m] = status],
                 attempts |-> [task[p].attempts EXCEPT ![m] = tries]]
<1>1. task \in [Publisher -> TaskType] /\ task[p] \in TaskType
  BY DEF OutboxInv, TypeOK, TaskType
<1>2. /\ task[p].todo \subseteq Message /\ task[p].status \in [Message -> Result]
      /\ task[p].attempts \in [Message -> 0..MaxAttempts]
  BY <1>1 DEF TaskType
<1>3. /\ m \in task[p].todo /\ m \in Message /\ TaskInv(p)
      /\ row[m] = "pending" /\ task[p].status[m] = "none"
  BY <1>2 DEF Current, OutboxInv, TaskInv
<1>4. /\ t \in TaskType /\ t.pc = "publishing" /\ t.todo = task[p].todo \ {m}
      /\ t.status[m] = status /\ t.attempts[m] = tries
      /\ \A n \in Message : n # m => /\ t.status[n] = task[p].status[n]
                                     /\ t.attempts[n] = task[p].attempts[n]
  BY <1>2, <1>3 DEF TaskType
<1>5. task' = [task EXCEPT ![p] = t]
  BY DEF Record
<1> HIDE DEF t
<1>6. /\ task' \in [Publisher -> TaskType] /\ task'[p] = t
      /\ \A q \in Publisher : q # p => task'[q] = task[q]
  BY <1>1, <1>4, <1>5
<1>7. task[p].pc = "publishing"
  <2>1. task[p].pc # "idle"
    BY <1>3, IdleTyped DEF TaskInv
  <2>2. QED  BY <1>1, <2>1 DEF TaskType
<1>8. \A q \in Publisher : q # p => task[q].pc = "idle" /\ task[q] = Idle
  <2>1. \A q \in Publisher : task[q].pc \in {"idle", "publishing"}
    BY <1>1 DEF TaskType
  <2>2. QED  BY <1>7, <2>1 DEF OutboxInv, OnePublishes, TaskInv
<1>9. ASSUME NEW q \in Publisher PROVE TaskInv(q)'
  <2>1. CASE q = p
    BY <1>2, <1>3, <1>4, <1>6, <2>1 DEF TaskInv
  <2>2. CASE q # p
    BY <1>6, <2>2 DEF OutboxInv, TaskInv
  <2>3. QED  BY <2>1, <2>2
<1>10. OnePublishes'
  <2>1. \A q \in Publisher : task'[q].pc = "publishing" => q = p
    BY <1>6, <1>8
  <2>2. QED  BY <2>1 DEF OnePublishes
<1>11. \A q \in Publisher : task[q].status[m] = "none"
  BY <1>3, <1>8, IdleTyped
<1>12. \A q \in Publisher, n \in Message : n # m => task'[q].status[n] = task[q].status[n]
  BY <1>4, <1>6
<1>13. QED  BY <1>3, <1>4, <1>6, <1>9, <1>10, <1>11, <1>12

LEMMA PublishSingleInd ==
    ASSUME OutboxInv, NEW p \in Publisher, PublishSingle(p)
    PROVE  OutboxInv'
<1>1. PICK m \in Current(p) :
        /\ Record(p, m, "published", attempts[m])
        /\ buffer' = IF PublisherEnabled THEN [buffer EXCEPT ![p][m] = @ + 1] ELSE buffer
        /\ sent' = IF PublisherEnabled THEN [sent EXCEPT ![m] = @ + 1] ELSE sent
        /\ UNCHANGED <<row, business, attempts, copies, faults>>
  BY DEF PublishSingle
<1>2. m \in Message /\ attempts[m] \in 0..MaxAttempts
  <2>1. m \in Message
    BY DEF OutboxInv, TypeOK, Current
  <2>2. QED  BY <2>1 DEF OutboxInv, TypeOK
<1>3. /\ task' \in [Publisher -> TaskType] /\ \A q \in Publisher : TaskInv(q)'
      /\ OnePublishes'
      /\ row[m] = "pending" /\ task'[p].status[m] = "published"
      /\ \A q \in Publisher : task[q].status[m] = "none"
      /\ \A q \in Publisher, n \in Message : n # m => task'[q].status[n] = task[q].status[n]
  <2>1. "published" \in Result \ {"none"} /\ ("published" = "pending" => attempts[m] < MaxAttempts)
    BY DEF Result
  <2>2. row' = row /\ Record(p, m, "published", attempts[m])
    BY <1>1
  <2>3. QED  BY <1>2, <2>1, <2>2, RecordInd
<1>4. /\ buffer \in [Publisher -> [Message -> Nat]] /\ sent \in [Message -> Nat]
      /\ copies \in [Message -> Nat] /\ faults \in Nat
  BY OutboxAssumption DEF OutboxInv, TypeOK
<1>5. /\ buffer' \in [Publisher -> [Message -> Nat]]
      /\ \A q \in Publisher, n \in Message : n # m => buffer'[q][n] = buffer[q][n]
  BY <1>1, <1>2, <1>4
<1>6. /\ sent' \in [Message -> Nat] /\ sent'[m] <= sent[m] + 1
      /\ \A n \in Message : n # m => sent'[n] = sent[n]
  BY <1>1, <1>2, <1>4
<1>7. TypeOK'
  BY <1>1, <1>3, <1>5, <1>6 DEF OutboxInv, TypeOK, TaskType
<1>8. SentIsVisible'
  BY <1>1, <1>3, <1>5 DEF OutboxInv, SentIsVisible
<1>9. sent[m] <= faults
  BY <1>2, <1>3 DEF OutboxInv, UnpublishedIsPaidFor, Unpublished
<1>10. DuplicatesTakeFaults'
  <2>1. sent'[m] <= 1 + faults
    BY <1>2, <1>4, <1>6, <1>9
  <2>2. QED  BY <1>1, <1>6, <2>1 DEF OutboxInv, DuplicatesTakeFaults
<1>11. UnpublishedIsPaidFor'
  BY <1>1, <1>2, <1>3, <1>6 DEF OutboxInv, UnpublishedIsPaidFor
<1>12. QED
  BY <1>1, <1>3, <1>7, <1>8, <1>10, <1>11 DEF OutboxInv, VisibleIsCommitted

LEMMA SendThrowsInd ==
    ASSUME OutboxInv, NEW p \in Publisher, SendThrows(p)
    PROVE  OutboxInv'
<1> DEFINE status(m) == IF attempts[m] + 1 >= MaxAttempts THEN "failed" ELSE "pending"
<1>1. PICK m \in Current(p) :
        /\ Record(p, m, status(m), attempts[m] + 1)
        /\ UNCHANGED <<row, business, attempts, buffer, copies, sent, faults>>
  BY DEF SendThrows
<1>2. m \in Message /\ row[m] = "pending"
  <2>1. m \in Message /\ m \in task[p].todo
    BY DEF OutboxInv, TypeOK, Current
  <2>2. QED  BY <2>1 DEF OutboxInv, TaskInv
<1>3. /\ attempts[m] + 1 \in 0..MaxAttempts /\ status(m) \in Result \ {"none", "published"}
      /\ status(m) = "pending" => attempts[m] + 1 < MaxAttempts
  <2>1. attempts[m] \in 0..MaxAttempts /\ attempts[m] < MaxAttempts
    BY <1>2 DEF OutboxInv, TypeOK, Unpublished
  <2>2. QED  BY <2>1, OutboxAssumption DEF Result
<1> HIDE DEF status
<1>4. /\ task' \in [Publisher -> TaskType] /\ \A q \in Publisher : TaskInv(q)'
      /\ OnePublishes'
      /\ \A q \in Publisher : task[q].status[m] = "none"
      /\ \A q \in Publisher, n \in Message : n # m => task'[q].status[n] = task[q].status[n]
  BY <1>1, <1>3, RecordInd
<1>5. TypeOK'
  BY <1>1, <1>4 DEF OutboxInv, TypeOK, TaskType
<1>6. UnpublishedIsPaidFor'
  BY <1>1, <1>4 DEF OutboxInv, UnpublishedIsPaidFor
<1>7. QED
  BY <1>1, <1>4, <1>5, <1>6 DEF OutboxInv, SentIsVisible, VisibleIsCommitted, DuplicatesTakeFaults

\* The results become visible with the commit.
LEMMA CommitBatchInd ==
    ASSUME OutboxInv, NEW p \in Publisher, CommitBatch(p)
    PROVE  OutboxInv'
<1>1. /\ task[p].pc = "publishing" /\ task' = [task EXCEPT ![p] = Idle]
      /\ row' = [m \in Message |->
                   IF task[p].status[m] # "none" THEN task[p].status[m] ELSE row[m]]
      /\ attempts' = [m \in Message |->
                   IF task[p].status[m] # "none" THEN task[p].attempts[m] ELSE attempts[m]]
      /\ UNCHANGED <<business, buffer, copies, sent, faults>>
  BY DEF CommitBatch
<1>2. task \in [Publisher -> TaskType] /\ task[p] \in TaskType
  BY DEF OutboxInv, TypeOK, TaskType
<1>3. /\ task[p].status \in [Message -> Result]
      /\ task[p].attempts \in [Message -> 0..MaxAttempts]
  BY <1>2 DEF TaskType
<1>4. /\ task' \in [Publisher -> TaskType] /\ task'[p] = Idle
      /\ \A q \in Publisher : q # p => task'[q] = task[q]
  BY <1>1, <1>2, IdleTyped
<1>5. \A q \in Publisher : task'[q] = Idle
  <2>1. \A q \in Publisher : task[q].pc \in {"idle", "publishing"}
    BY <1>2 DEF TaskType
  <2>2. \A q \in Publisher : q # p => task[q] = Idle
    BY <1>1, <2>1 DEF OutboxInv, OnePublishes, TaskInv
  <2>3. QED  BY <1>4, <2>2
<1>6. \A m \in Message : task[p].status[m] # "none" => row[m] = "pending"
  BY DEF OutboxInv, TaskInv
<1>7. TypeOK'
  <2>1. row' \in [Message -> {"absent", "open", "undone", "pending", "published", "failed"}]
    BY <1>1, <1>3 DEF OutboxInv, TypeOK, Result
  <2>2. attempts' \in [Message -> 0..MaxAttempts]
    BY <1>1, <1>3 DEF OutboxInv, TypeOK
  <2>3. QED  BY <1>1, <1>4, <2>1, <2>2 DEF OutboxInv, TypeOK, TaskType
<1>8. \A m \in Message : row'[m] \in Unpublished => attempts'[m] < MaxAttempts
  <2>1. \A m \in Message : row'[m] \in Unpublished =>
            row[m] \in Unpublished /\ task[p].status[m] \in {"none", "pending"}
    BY <1>1, <1>3, <1>6 DEF Unpublished, Result
  <2>2. QED  BY <1>1, <2>1 DEF OutboxInv, TaskInv
<1>9. \A q \in Publisher : TaskInv(q)'
  BY <1>5, IdleTyped DEF TaskInv
<1>10. OnePublishes'
  BY <1>5, IdleTyped DEF OnePublishes
<1>11. SentIsVisible' /\ VisibleIsCommitted'
  BY <1>1, <1>3, <1>6 DEF OutboxInv, SentIsVisible, VisibleIsCommitted, Result
<1>12. UnpublishedIsPaidFor'
  <2> SUFFICES ASSUME NEW m \in Message, row'[m] \in Unpublished
               PROVE  sent[m] <= faults
    BY <1>1 DEF UnpublishedIsPaidFor
  <2>1. row[m] \in Unpublished /\ task[p].status[m] # "published"
    BY <1>1, <1>3, <1>6 DEF Unpublished, Result
  <2>2. \A q \in Publisher : task[q].status[m] # "published"
    BY <1>4, <1>5, <2>1, IdleTyped
  <2>3. QED  BY <2>1, <2>2 DEF OutboxInv, UnpublishedIsPaidFor
<1>13. QED
  BY <1>1, <1>7, <1>8, <1>9, <1>10, <1>11, <1>12 DEF OutboxInv, DuplicatesTakeFaults

\* A producer delivers a message or loses it: only what it holds.
LEMMA ProducerInd ==
    ASSUME OutboxInv, NEW p \in Publisher, NEW m \in Message, buffer[p][m] > 0,
           buffer' = [buffer EXCEPT ![p][m] = @ - 1],
           copies' = [copies EXCEPT ![m] = @ + 1] \/ copies' = copies,
           faults' = faults \/ (faults < MaxFaults /\ faults' = faults + 1),
           UNCHANGED <<row, business, attempts, task, sent>>
    PROVE  OutboxInv'
<1>1. /\ buffer \in [Publisher -> [Message -> Nat]] /\ sent \in [Message -> Nat]
      /\ copies \in [Message -> Nat] /\ faults \in 0..MaxFaults /\ faults \in Nat
  BY OutboxAssumption DEF OutboxInv, TypeOK
<1>2. /\ buffer' \in [Publisher -> [Message -> Nat]]
      /\ \A q \in Publisher, n \in Message : buffer'[q][n] <= buffer[q][n]
  <2>1. buffer[p] \in [Message -> Nat] /\ buffer[p][m] \in Nat /\ buffer[p][m] - 1 \in Nat
    BY <1>1
  <2>2. QED  BY <1>1, <2>1
<1>3. copies' \in [Message -> Nat] /\ \A n \in Message : n # m => copies'[n] = copies[n]
  BY <1>1
<1>4. faults' \in 0..MaxFaults /\ faults <= faults'
  BY <1>1, OutboxAssumption
<1>5. TypeOK'
  BY <1>2, <1>3, <1>4 DEF OutboxInv, TypeOK
<1>6. SentIsVisible' /\ VisibleIsCommitted'
  BY <1>1, <1>2, <1>3 DEF OutboxInv, SentIsVisible, VisibleIsCommitted
<1>7. DuplicatesTakeFaults' /\ UnpublishedIsPaidFor'
  BY <1>1, <1>4, OutboxAssumption DEF OutboxInv, DuplicatesTakeFaults, UnpublishedIsPaidFor
<1>8. \A q \in Publisher : TaskInv(q)'
  BY DEF OutboxInv, TaskInv
<1>9. QED  BY <1>5, <1>6, <1>7, <1>8 DEF OutboxInv, OnePublishes

\* A rollback and a crash: what the task has sent is sent, the fault pays for it.
LEMMA GiveUpInd ==
    ASSUME OutboxInv, NEW p \in Publisher, Fault, task' = [task EXCEPT ![p] = Idle],
           \/ buffer' = buffer
           \/ buffer' = [buffer EXCEPT ![p] = [m \in Message |-> 0]],
           UNCHANGED <<row, business, attempts, copies, sent>>
    PROVE  OutboxInv'
<1>1. /\ buffer \in [Publisher -> [Message -> Nat]] /\ sent \in [Message -> Nat]
      /\ faults \in Nat /\ task \in [Publisher -> TaskType]
  BY OutboxAssumption DEF OutboxInv, TypeOK, TaskType
<1>2. faults' \in 0..MaxFaults /\ faults' = faults + 1
  BY <1>1, OutboxAssumption DEF Fault
<1>3. /\ task' \in [Publisher -> TaskType] /\ task'[p] = Idle
      /\ \A q \in Publisher : q # p => task'[q] = task[q]
  BY <1>1, IdleTyped
<1>4. /\ buffer' \in [Publisher -> [Message -> Nat]]
      /\ \A q \in Publisher, n \in Message : buffer'[q][n] > 0 => buffer[q][n] > 0
  BY <1>1
<1>5. TypeOK'
  BY <1>2, <1>3, <1>4 DEF OutboxInv, TypeOK, TaskType
<1>6. ASSUME NEW q \in Publisher PROVE TaskInv(q)'
  <2>1. CASE q = p
    BY <1>3, <2>1, IdleTyped DEF TaskInv
  <2>2. CASE q # p
    BY <1>3, <2>2 DEF OutboxInv, TaskInv
  <2>3. QED  BY <2>1, <2>2
<1>7. OnePublishes'
  BY <1>3, IdleTyped DEF OutboxInv, OnePublishes
<1>8. SentIsVisible' /\ VisibleIsCommitted'
  BY <1>4 DEF OutboxInv, SentIsVisible, VisibleIsCommitted
<1>9. \A m \in Message : sent[m] <= faults'
  BY <1>1, <1>2 DEF OutboxInv, DuplicatesTakeFaults
<1>10. DuplicatesTakeFaults' /\ UnpublishedIsPaidFor'
  BY <1>1, <1>2, <1>9 DEF DuplicatesTakeFaults, UnpublishedIsPaidFor
<1>11. QED  BY <1>5, <1>6, <1>7, <1>8, <1>10 DEF OutboxInv

\* Every step of every master, producer and transaction keeps the invariant.
LEMMA StepOutboxInv == OutboxInv /\ [Next]_vars => OutboxInv'
<1> SUFFICES ASSUME OutboxInv, [Next]_vars PROVE OutboxInv'
  OBVIOUS
<1>1. ASSUME NEW m \in Message, Enqueue(m) PROVE OutboxInv'
  BY <1>1, EnqueueInd DEF Enqueue
<1>2. ASSUME NEW m \in Message, NEW o \in {"committed", "undone"}, EndTransaction(m, o)
      PROVE  OutboxInv'
  <2>1. row[m] = "open"
    BY <1>2 DEF EndTransaction, OutboxInv, VisibleIsCommitted
  <2>2. PICK status \in {"undone", "pending"} :
            /\ status = "pending" <=> o = "committed"
            /\ row' = [row EXCEPT ![m] = status] /\ business' = [business EXCEPT ![m] = o]
            /\ UNCHANGED <<attempts, task, buffer, copies, sent, faults>>
    <3>1. CASE o = "committed"
      BY <1>2, <2>1, <3>1 DEF EndTransaction
    <3>2. CASE o = "undone"
      BY <1>2, <2>1, <3>2 DEF EndTransaction
    <3>3. QED  BY <1>2, <3>1, <3>2
  <2>3. QED  BY <1>2, <2>1, <2>2, EnqueueInd
<1>3. ASSUME NEW p \in Publisher, Publishing(p) PROVE OutboxInv'
  BY <1>3, LockPendingInd, PublishSingleInd, SendThrowsInd, CommitBatchInd DEF Publishing
<1>4. ASSUME NEW p \in Publisher, RollbackBatch(p) PROVE OutboxInv'
  BY <1>4, GiveUpInd DEF RollbackBatch
<1>5. ASSUME NEW p \in Publisher, Crash(p) PROVE OutboxInv'
  BY <1>5, GiveUpInd DEF Crash
<1>6. ASSUME NEW p \in Publisher, NEW m \in Message, Deliver(p, m) PROVE OutboxInv'
  BY <1>6, ProducerInd DEF Deliver
<1>7. ASSUME NEW p \in Publisher, NEW m \in Message, LoseSend(p, m) PROVE OutboxInv'
  BY <1>7, ProducerInd DEF LoseSend, Fault
<1>8. CASE UNCHANGED vars
  <2>1. TypeOK' /\ \A p \in Publisher : TaskInv(p)'
    BY <1>8 DEF vars, OutboxInv, TypeOK, TaskInv
  <2>2. QED
    BY <1>8, <2>1 DEF vars, OutboxInv, OnePublishes, SentIsVisible, VisibleIsCommitted,
                      DuplicatesTakeFaults, UnpublishedIsPaidFor
<1>9. QED
  BY <1>1, <1>2, <1>3, <1>4, <1>5, <1>6, <1>7, <1>8 DEF Next

\* The invariant holds in every reachable state.
LEMMA OutboxInvariance == Spec => []OutboxInv
BY InitOutboxInv, StepOutboxInv, PTL DEF Spec

\* Only what a committed transaction asked for is sent, whatever the masters
\* and their producers do (enqueue, lockByStatus, publishPending).
THEOREM NothingUncommittedIsSent == Spec => []OnlyCommittedIsSent
<1>1. OutboxInv => OnlyCommittedIsSent
  BY DEF OutboxInv, TypeOK, SentIsVisible, VisibleIsCommitted, OnlyCommittedIsSent
<1>2. QED  BY <1>1, OutboxInvariance, PTL

\* Each repetition of a message is paid for by a fault: without one the row
\* locks of lockByStatus keep every message from being sent twice.
THEOREM DuplicatesArePaidFor == Spec => []DuplicatesTakeFaults
<1>1. OutboxInv => DuplicatesTakeFaults
  BY DEF OutboxInv
<1>2. QED  BY <1>1, OutboxInvariance, PTL

=============================================================================
