------------------------ MODULE ConcurrentRunProofs ------------------------
(***************************************************************************)
(* Proofs about ConcurrentRun for every pipeline and any number of         *)
(* threads: although transactions overlap and write stale copies, no       *)
(* attempt gets a second job message, and no job starts before the success *)
(* it waits for has been received.                                         *)
(***************************************************************************)
EXTENDS ConcurrentRun, PipelineRunProofs

Fields == {"pc", "event", "rows", "decided", "inserts", "messages", "cancels", "run",
           "finished", "seen"}

\* Given the registered events in, the success of e has been received, or will
\* have been when x commits.
Received(e, x, in) == <<e, "success">> \in in \cup {x.event}

\* A transaction writes rows that exist, and calls one a success only if it
\* knows of the event; it sends messages for approved deployments only; what
\* it inserts may start, and it writes the run if it inserts anything.
TxInv(x, st, in) ==
    /\ DOMAIN x = Fields
    /\ \A e \in Execution : e \in DOMAIN x.rows =>
        /\ st[e] # "none" /\ x.rows[e].status # "none"
        /\ x.rows[e].status = "success" => Received(e, x, in)
    /\ \A e \in Execution : e \in DOMAIN x.decided => e[1] \in Protected
    /\ \A e \in Execution : e \in x.messages => e[1] \in Protected /\ st[e] # "none"
    /\ \A e \in Execution, d \in Deps :
        e \in x.inserts /\ d.job = e[1] /\ d.condition = "on_success" =>
            \E a \in Attempt : Received(<<d.dependsOn, a>>, x, in)
    /\ x.run # "none"
    /\ x.pc # "flushed" /\ x.run = "keep" => x.inserts = {}

\* Rows that do not exist have no message, approvals are of protected jobs,
\* and every success on record has been received.
RowsInv ==
    /\ runStatus = "none" => \A e \in Execution : status[e] = "none"
    /\ \A e \in Execution :
        /\ status[e] = "none" => dispatched[e] = 0
        /\ status[e] = "success" => <<e, "success">> \in inbox
        /\ approval[e] # "none" => e[1] \in Protected

\* Inductive strengthening of OneMessagePerAttempt and StartedAfterSuccess.
ConcurrentInv ==
    /\ RowsInv
    /\ DOMAIN tx = Thread
    /\ \A t \in Thread : TxInv(tx[t], status, inbox)
    /\ OneMessagePerAttempt
    /\ StartedAfterSuccess

-----------------------------------------------------------------------------
\* What a transaction knows stays true while others commit: rows are never
\* deleted and events never forgotten.
LEMMA TxKept ==
    ASSUME NEW x, NEW st, NEW st2, NEW in, NEW in2, TxInv(x, st, in), in \subseteq in2,
           \A e \in Execution : st[e] # "none" => st2[e] # "none"
    PROVE  TxInv(x, st2, in2)
<1>1. \A e : Received(e, x, in) => Received(e, x, in2)
  BY DEF Received
<1>2. QED  BY <1>1 DEF TxInv

\* A thread without a transaction owes nothing.
LEMMA IdleInv == \A st, in : TxInv(Idle, st, in)
BY DEF TxInv, Idle, Fields

LEMMA CopiesOf ==
    ASSUME NEW E, NEW s
    PROVE  /\ DOMAIN Copies(E, s) = E
           /\ \A e \in E : Copies(E, s)[e].status = s
BY DEF Copies, CopyOf

\* A step that changes the transaction of t only.
LEMMA OnlyTransaction ==
    ASSUME ConcurrentInv, NEW t \in Thread, NEW x, TxInv(x, status, inbox),
           tx' = [tx EXCEPT ![t] = x], UNCHANGED <<vars, inbox>>
    PROVE  ConcurrentInv'
<1>1. DOMAIN tx' = Thread
  BY DEF ConcurrentInv
<1>2. \A u \in Thread : TxInv(tx'[u], status', inbox')
  BY DEF ConcurrentInv, vars
<1>3. RowsInv' /\ OneMessagePerAttempt' /\ StartedAfterSuccess'
  BY DEF ConcurrentInv, vars, RowsInv, OneMessagePerAttempt, StartedAfterSuccess, AttemptsOf
<1>4. QED  BY <1>1, <1>2, <1>3 DEF ConcurrentInv

LEMMA InitConcurrentInv == ConcurrentInit => ConcurrentInv
<1> SUFFICES ASSUME ConcurrentInit PROVE ConcurrentInv
  OBVIOUS
<1>1. RowsInv /\ OneMessagePerAttempt /\ StartedAfterSuccess
  BY DEF ConcurrentInit, Init, RowsInv, OneMessagePerAttempt, StartedAfterSuccess, AttemptsOf
<1>2. DOMAIN tx = Thread /\ \A t \in Thread : TxInv(tx[t], status, inbox)
  BY IdleInv DEF ConcurrentInit
<1>3. QED  BY <1>1, <1>2 DEF ConcurrentInv

-----------------------------------------------------------------------------
\* The first halves of the transactions.

\* A transaction that neither inserts rows nor handles an event.
LEMMA SimpleTransaction ==
    ASSUME ConcurrentInv, NEW t \in Thread, NEW E \in SUBSET Execution, NEW s,
           \A e \in E : status[e] # "none", s \notin {"none", "success"},
           NEW x, Begin(t, x), DOMAIN x = Fields, x.rows = Copies(E, s),
           \A e \in Execution : e \in DOMAIN x.decided => e[1] \in Protected,
           \A e \in Execution : e \in x.messages => e[1] \in Protected /\ status[e] # "none",
           x.inserts = {}, x.run # "none"
    PROVE  ConcurrentInv'
<1>1. TxInv(x, status, inbox)
  BY CopiesOf DEF TxInv
<1>2. QED  BY <1>1, OnlyTransaction DEF Begin

LEMMA BeginCancelRunInd ==
    ASSUME ConcurrentInv, NEW t \in Thread, BeginCancelRun(t)
    PROVE  ConcurrentInv'
<1> DEFINE active == {e \in Execution : status[e] \in
                          {"queued", "running", "waiting_approval", "canceling"}}
           x == [Idle EXCEPT !.pc = "ready", !.rows = Copies(active, "canceling"),
                             !.cancels = active, !.run = "canceling",
                             !.finished = runFinished]
<1>1. Begin(t, x)
  BY DEF BeginCancelRun, Request
<1>2. /\ DOMAIN x = Fields /\ x.rows = Copies(active, "canceling") /\ x.decided = <<>>
      /\ x.messages = {} /\ x.inserts = {} /\ x.run # "none"
  BY DEF Idle, Fields
<1>3. active \in SUBSET Execution /\ \A e \in active : status[e] # "none"
  OBVIOUS
<1> HIDE DEF x, active
<1>4. QED  BY <1>1, <1>2, <1>3, SimpleTransaction

LEMMA BeginCancelExecutionInd ==
    ASSUME ConcurrentInv, NEW t \in Thread, NEW e \in Execution, BeginCancelExecution(t, e)
    PROVE  ConcurrentInv'
<1> DEFINE x == [Idle EXCEPT !.pc = "ready", !.rows = Copies({e}, "canceling"),
                             !.cancels = {e}]
<1>1. Begin(t, x) /\ status[e] # "none"
  BY DEF BeginCancelExecution, Request
<1>2. /\ DOMAIN x = Fields /\ x.rows = Copies({e}, "canceling") /\ x.decided = <<>>
      /\ x.messages = {} /\ x.inserts = {} /\ x.run # "none"
  BY DEF Idle, Fields
<1> HIDE DEF x
<1>3. QED  BY <1>1, <1>2, SimpleTransaction

LEMMA BeginCheckTimeoutsInd ==
    ASSUME ConcurrentInv, NEW t \in Thread, BeginCheckTimeouts(t)
    PROVE  ConcurrentInv'
<1> DEFINE x(E) == [Idle EXCEPT !.pc = "ready", !.rows = Copies(E, "timeout")]
<1>1. PICK E \in SUBSET {e \in Execution : status[e] = "running" /\ timed[e]} : Begin(t, x(E))
  BY DEF BeginCheckTimeouts, Request
<1>2. /\ DOMAIN x(E) = Fields /\ x(E).rows = Copies(E, "timeout") /\ x(E).decided = <<>>
      /\ x(E).messages = {} /\ x(E).inserts = {} /\ x(E).run # "none"
  BY DEF Idle, Fields
<1>3. E \in SUBSET Execution /\ \A e \in E : status[e] # "none"
  BY <1>1
<1> HIDE DEF x
<1>4. QED  BY <1>1, <1>2, <1>3, SimpleTransaction

LEMMA BeginApproveInd ==
    ASSUME ConcurrentInv, NEW t \in Thread, NEW e \in Execution, BeginApprove(t, e)
    PROVE  ConcurrentInv'
<1> DEFINE E == IF status[e] = "waiting_approval" THEN {e} ELSE {}
           x == [Idle EXCEPT !.pc = "ready", !.decided = [y \in {e} |-> "approved"],
                             !.rows = Copies(E, "queued"), !.messages = E,
                             !.run = IF status[e] = "waiting_approval"
                                     THEN "running" ELSE "keep"]
<1>1. Begin(t, x) /\ approval[e] = "pending"
  BY DEF BeginApprove, Request
<1>2. /\ DOMAIN x = Fields /\ x.rows = Copies(E, "queued") /\ DOMAIN x.decided = {e}
      /\ x.messages = E /\ x.inserts = {} /\ x.run # "none"
  BY DEF Idle, Fields
<1>3. E \in SUBSET {e} /\ \A y \in E : status[y] # "none"
  OBVIOUS
<1>4. e[1] \in Protected
  BY <1>1 DEF ConcurrentInv, RowsInv
<1> HIDE DEF x, E
<1>5. QED  BY <1>1, <1>2, <1>3, <1>4, SimpleTransaction

LEMMA BeginRejectInd ==
    ASSUME ConcurrentInv, NEW t \in Thread, NEW e \in Execution, BeginReject(t, e)
    PROVE  ConcurrentInv'
<1> DEFINE E == IF status[e] = "waiting_approval" THEN {e} ELSE {}
           x == [Idle EXCEPT !.pc = IF status[e] = "waiting_approval"
                                    THEN "changed" ELSE "ready",
                             !.decided = [y \in {e} |-> "rejected"],
                             !.rows = Copies(E, "skipped")]
<1>1. Begin(t, x) /\ approval[e] = "pending"
  BY DEF BeginReject, Request
<1>2. /\ DOMAIN x = Fields /\ x.rows = Copies(E, "skipped") /\ DOMAIN x.decided = {e}
      /\ x.messages = {} /\ x.inserts = {} /\ x.run # "none"
  BY DEF Idle, Fields
<1>3. E \in SUBSET {e} /\ \A y \in E : status[y] # "none"
  OBVIOUS
<1>4. e[1] \in Protected
  BY <1>1 DEF ConcurrentInv, RowsInv
<1> HIDE DEF x, E
<1>5. QED  BY <1>1, <1>2, <1>3, <1>4, SimpleTransaction

\* A retry inserts attempts of jobs that have been started before: what those
\* jobs wait for has been received already.
LEMMA RetryTransaction ==
    ASSUME ConcurrentInv, NEW t \in Thread, NEW old \in SUBSET Execution, NEW new,
           \A e \in old : status[e] # "none",
           \A e \in new : \E o \in old : e[1] = o[1],
           NEW x, Begin(t, x), DOMAIN x = Fields, x.rows = Copies(old, "retrying"),
           x.decided = <<>>, x.messages = {}, x.inserts = new,
           x.run \in {"waiting_approval", "running"}
    PROVE  ConcurrentInv'
<1>1. ASSUME NEW e \in new, NEW d \in Deps, d.job = e[1], d.condition = "on_success"
      PROVE  \E a \in Attempt : Received(<<d.dependsOn, a>>, x, inbox)
  <2>1. PICK o \in old : e[1] = o[1]
    BY <1>1
  <2>2. o[2] \in Attempt /\ o = <<d.job, o[2]>>
    BY <1>1, <2>1 DEF Execution
  <2>3. AttemptsOf(status, d.job) # {}
    BY <2>2 DEF AttemptsOf
  <2>4. QED  BY <1>1, <2>3 DEF ConcurrentInv, StartedAfterSuccess, Received
<1>2. TxInv(x, status, inbox)
  BY <1>1, CopiesOf DEF TxInv
<1>3. QED  BY <1>2, OnlyTransaction DEF Begin

LEMMA BeginRetryRunInd ==
    ASSUME ConcurrentInv, NEW t \in Thread, BeginRetryRun(t)
    PROVE  ConcurrentInv'
<1> DEFINE old == {e \in Execution : e[2] \in Latest(status, e[1]) /\ isRetryCandidate(e)}
           new == {<<e[1], e[2] + 1>> : e \in old}
           x == [Idle EXCEPT !.pc = "ready", !.rows = Copies(old, "retrying"),
                             !.inserts = new,
                             !.run = IF \E e \in new : e[1] \in Protected
                                     THEN "waiting_approval" ELSE "running"]
<1>1. Begin(t, x)
  BY DEF BeginRetryRun, Request
<1>2. old \in SUBSET Execution /\ \A e \in old : status[e] # "none"
  BY DEF isRetryCandidate
<1>3. \A e \in new : \E o \in old : e[1] = o[1]
  OBVIOUS
<1> HIDE DEF old, new
<1>4. /\ DOMAIN x = Fields /\ x.rows = Copies(old, "retrying") /\ x.decided = <<>>
      /\ x.messages = {} /\ x.inserts = new /\ x.run \in {"waiting_approval", "running"}
  BY DEF Idle, Fields
<1> HIDE DEF x
<1>5. QED  BY <1>1, <1>2, <1>3, <1>4, RetryTransaction

LEMMA BeginRetryExecutionInd ==
    ASSUME ConcurrentInv, NEW t \in Thread, NEW e \in Execution, BeginRetryExecution(t, e)
    PROVE  ConcurrentInv'
<1> DEFINE x(n) == [Idle EXCEPT !.pc = "ready", !.rows = Copies({e}, "retrying"),
                                !.inserts = {<<e[1], n + 1>>},
                                !.run = IF e[1] \in Protected
                                        THEN "waiting_approval" ELSE "running"]
<1>1. status[e] # "none" /\ \E n \in Latest(status, e[1]) : Begin(t, x(n))
  BY DEF BeginRetryExecution, Request
<1>2. PICK n \in Latest(status, e[1]) : Begin(t, x(n))
  BY <1>1
<1>3. /\ DOMAIN x(n) = Fields /\ x(n).rows = Copies({e}, "retrying")
      /\ x(n).decided = <<>> /\ x(n).messages = {}
      /\ x(n).inserts = {<<e[1], n + 1>>}
      /\ x(n).run \in {"waiting_approval", "running"}
  BY DEF Idle, Fields
<1>4. \A y \in {<<e[1], n + 1>>} : \E o \in {e} : y[1] = o[1]
  OBVIOUS
<1> HIDE DEF x
<1>5. QED  BY <1>1, <1>2, <1>3, <1>4, RetryTransaction

\* An event changes the row of an execution that has a job message, and makes
\* it a success only if it reports one.
LEMMA BeginEventInd ==
    ASSUME ConcurrentInv, NEW t \in Thread, NEW ev \in Event, NEW error, NEW hasTimes,
           BeginEvent(t, ev, error, hasTimes)
    PROVE  ConcurrentInv'
<1> DEFINE e == ev[1]
           s == ev[2]
           accepted == canTransition(status[e], s)
           row == [status |-> IF accepted THEN s ELSE status[e],
                   retryable |-> IF error = "none" THEN retryable[e]
                                 ELSE error = "retryable",
                   timed |-> timed[e] \/ hasTimes]
           x == [Idle EXCEPT !.pc = IF accepted /\ s \in FinalStatus
                                    THEN "changed" ELSE "ready",
                             !.event = ev,
                             !.rows = [y \in {e} |-> row]]
<1>1. Begin(t, x) /\ dispatched[e] > 0
  BY DEF BeginEvent
<1>2. e \in Execution /\ s \in EventStatus /\ ev = <<e, s>>
  BY DEF Event
<1>3. s # "none" /\ status[e] # "none"
  <2>1. s # "none"
    BY <1>2, EventAssumption DEF FinalStatus
  <2>2. RowsInv /\ dispatched[e] > 0
    BY <1>1 DEF ConcurrentInv
  <2> HIDE DEF x, e, s
  <2>3. status[e] = "none" => dispatched[e] = 0
    BY <1>2, <2>2 DEF RowsInv
  <2>4. QED  BY <2>1, <2>2, <2>3
<1>4. row.status = IF accepted THEN s ELSE status[e]
  OBVIOUS
<1>5. row.status # "none" /\ (row.status = "success" => <<e, "success">> \in inbox \cup {ev})
  <2> HIDE DEF row, e, s, accepted
  <2>1. QED  BY <1>2, <1>3, <1>4 DEF ConcurrentInv, RowsInv
<1> HIDE DEF row, accepted
<1>6. /\ DOMAIN x = Fields /\ x.event = ev /\ DOMAIN x.rows = {e} /\ x.rows[e] = row
      /\ x.decided = <<>> /\ x.messages = {} /\ x.inserts = {} /\ x.run # "none"
  BY DEF Idle, Fields
<1> HIDE DEF x, e, s
<1>7. TxInv(x, status, inbox)
  BY <1>2, <1>3, <1>5, <1>6 DEF TxInv, Received
<1>8. QED  BY <1>1, <1>7, OnlyTransaction DEF Begin

-----------------------------------------------------------------------------
\* The second halves.

\* The jobs an event starts are those whose on_success dependencies show a
\* success among the rows its transaction sees, its own included.
LEMMA FlushInd ==
    ASSUME ConcurrentInv, NEW t \in Thread, Flush(t)
    PROVE  ConcurrentInv'
<1> DEFINE x == tx[t]
           seen == [e \in Execution |->
                      IF e \in DOMAIN x.rows THEN x.rows[e].status ELSE status[e]]
           ins == IF x.event = NoEvent THEN {} ELSE FirstAttempts(seen)
           y == [x EXCEPT !.pc = "flushed", !.seen = seen, !.finished = runFinished,
                          !.inserts = ins]
<1>1. tx' = [tx EXCEPT ![t] = y] /\ UNCHANGED <<vars, inbox>>
  BY DEF Flush
<1>2. TxInv(x, status, inbox)
  BY DEF ConcurrentInv
<1>3. ASSUME NEW e \in Execution, seen[e] = "success"
      PROVE  Received(e, x, inbox)
  BY <1>2, <1>3 DEF TxInv, Received, ConcurrentInv, RowsInv
<1>4. ASSUME NEW e \in ins, NEW d \in Deps, d.job = e[1], d.condition = "on_success"
      PROVE  \E a \in Attempt : Received(<<d.dependsOn, a>>, x, inbox)
  <2>1. e \in FirstAttempts(seen)
    BY <1>4
  <2> HIDE DEF seen, x
  <2>2. dependenciesSatisfied(seen, d.job)
    BY <1>4, <2>1, FirstAttemptsAreNew
  <2>3. PICK a \in Latest(seen, d.dependsOn) :
               seen[<<d.dependsOn, a>>] \in Satisfying(d.condition)
    BY <2>2 DEF dependenciesSatisfied
  <2>4. seen[<<d.dependsOn, a>>] = "success"
    BY <1>4, <2>3 DEF Satisfying
  <2>5. a \in Attempt /\ <<d.dependsOn, a>> \in Execution
    BY <2>3 DEF Latest, AttemptsOf
  <2>6. QED  BY <1>3, <2>4, <2>5
<1> HIDE DEF seen, ins
<1>5. DOMAIN x = Fields
  BY <1>2 DEF TxInv
<1> HIDE DEF x
<1>6. /\ DOMAIN y = Fields /\ y.pc = "flushed" /\ y.event = x.event /\ y.rows = x.rows
      /\ y.decided = x.decided /\ y.messages = x.messages /\ y.run = x.run
      /\ y.inserts = ins
  BY <1>5 DEF Fields
<1> HIDE DEF y
<1>7. \A e : Received(e, y, inbox) <=> Received(e, x, inbox)
  BY <1>6 DEF Received
<1>8. TxInv(y, status, inbox)
  BY <1>2, <1>4, <1>6, <1>7 DEF TxInv
<1>9. QED  BY <1>1, <1>8, OnlyTransaction

\* Each row after a commit.  The constraints have made sure that what is
\* inserted did not exist, and the event is registered with it.
LEMMA Written ==
    ASSUME ConcurrentInv, NEW t \in Thread, ConstraintsHold(tx[t]), Write(t)
    PROVE  /\ inbox \subseteq inbox'
           /\ \A e : Received(e, tx[t], inbox) => <<e, "success">> \in inbox'
           /\ \A e \in Execution :
                 /\ status[e] # "none" => status'[e] # "none"
                 /\ status[e] = "none" /\ status'[e] # "none" => e \in tx[t].inserts
                 /\ status'[e] = "success" => <<e, "success">> \in inbox'
                 /\ status'[e] = "none" => dispatched'[e] = 0
                 /\ approval'[e] # "none" => e[1] \in Protected
                 /\ e[1] \notin Protected =>
                        dispatched'[e] = IF status'[e] = "none" THEN 0 ELSE 1
<1> DEFINE x == tx[t]
<1>1. TxInv(x, status, inbox) /\ \A e \in x.inserts : status[e] = "none"
  BY DEF ConcurrentInv, ConstraintsHold
<1>2. inbox' = IF x.event = NoEvent THEN inbox ELSE inbox \cup {x.event}
  BY DEF Write, Registered
<1>3. \A e : <<e, "success">> # NoEvent
  BY DEF NoEvent
<1>4. inbox \subseteq inbox' /\ \A e : Received(e, x, inbox) => <<e, "success">> \in inbox'
  BY <1>2, <1>3 DEF Received
<1>5. ASSUME NEW e \in Execution
      PROVE  /\ status'[e] = IF e \in x.inserts THEN InitialStatus(e)
                             ELSE IF e \in DOMAIN x.rows THEN x.rows[e].status
                             ELSE status[e]
             /\ approval'[e] = IF e \in x.inserts /\ e[1] \in Protected THEN "pending"
                               ELSE IF e \in DOMAIN x.decided THEN x.decided[e]
                               ELSE approval[e]
             /\ dispatched'[e] =
                    IF e \in x.messages \/ (e \in x.inserts /\ e[1] \notin Protected)
                    THEN dispatched[e] + 1 ELSE dispatched[e]
  BY DEF Write
<1> HIDE DEF x
<1>6. ASSUME NEW e \in Execution
      PROVE  /\ status[e] # "none" => status'[e] # "none"
             /\ status[e] = "none" /\ status'[e] # "none" => e \in x.inserts
             /\ status'[e] = "success" => <<e, "success">> \in inbox'
             /\ status'[e] = "none" => dispatched'[e] = 0
             /\ approval'[e] # "none" => e[1] \in Protected
             /\ e[1] \notin Protected =>
                    dispatched'[e] = IF status'[e] = "none" THEN 0 ELSE 1
  <2>1. /\ e \in DOMAIN x.rows =>
              /\ status[e] # "none" /\ x.rows[e].status # "none"
              /\ x.rows[e].status = "success" => Received(e, x, inbox)
        /\ e \in DOMAIN x.decided => e[1] \in Protected
        /\ e \in x.messages => e[1] \in Protected /\ status[e] # "none"
    BY <1>1 DEF TxInv
  <2>2. /\ status[e] = "none" => dispatched[e] = 0
        /\ status[e] = "success" => <<e, "success">> \in inbox
        /\ approval[e] # "none" => e[1] \in Protected
        /\ e[1] \notin Protected => dispatched[e] = IF status[e] = "none" THEN 0 ELSE 1
    BY DEF ConcurrentInv, RowsInv, OneMessagePerAttempt
  <2>3. InitialStatus(e) \notin {"none", "success"}
    BY DEF InitialStatus
  <2>4. CASE e \in x.inserts
    BY <1>1, <1>5, <2>1, <2>2, <2>3, <2>4
  <2>5. CASE e \notin x.inserts /\ e \in DOMAIN x.rows
    BY <1>4, <1>5, <2>1, <2>2, <2>5
  <2>6. CASE e \notin x.inserts /\ e \notin DOMAIN x.rows
    BY <1>4, <1>5, <2>1, <2>2, <2>6
  <2>7. QED  BY <2>4, <2>5, <2>6
<1>7. QED  BY <1>4, <1>6 DEF x

LEMMA CommitInd ==
    ASSUME ConcurrentInv, NEW t \in Thread, Commit(t)
    PROVE  ConcurrentInv'
<1> DEFINE x == tx[t]
<1>1. /\ x.pc \in {"flushed", "ready"} /\ ConstraintsHold(x) /\ Write(t)
      /\ tx' = [tx EXCEPT ![t] = Idle]
  BY DEF Commit
<1>2. /\ inbox \subseteq inbox'
      /\ \A e : Received(e, x, inbox) => <<e, "success">> \in inbox'
      /\ \A e \in Execution :
            /\ status[e] # "none" => status'[e] # "none"
            /\ status[e] = "none" /\ status'[e] # "none" => e \in x.inserts
            /\ status'[e] = "success" => <<e, "success">> \in inbox'
            /\ status'[e] = "none" => dispatched'[e] = 0
            /\ approval'[e] # "none" => e[1] \in Protected
            /\ e[1] \notin Protected =>
                   dispatched'[e] = IF status'[e] = "none" THEN 0 ELSE 1
  BY <1>1, Written
<1>3. TxInv(x, status, inbox)
  BY DEF ConcurrentInv
<1>4. DOMAIN tx' = Thread /\ \A u \in Thread : TxInv(tx'[u], status', inbox')
  <2>1. DOMAIN tx' = Thread
    BY <1>1 DEF ConcurrentInv
  <2>2. ASSUME NEW u \in Thread PROVE TxInv(tx'[u], status', inbox')
    <3>1. CASE u = t
      <4>1. tx'[u] = Idle
        BY <1>1, <3>1 DEF ConcurrentInv
      <4>2. QED  BY <4>1, IdleInv
    <3>2. CASE u # t
      <4>1. tx'[u] = tx[u] /\ TxInv(tx[u], status, inbox)
        BY <1>1, <3>2 DEF ConcurrentInv
      <4>2. TxInv(tx[u], status', inbox')
        BY <1>2, <4>1, TxKept
      <4>3. QED  BY <4>1, <4>2
    <3>3. QED  BY <3>1, <3>2
  <2>3. QED  BY <2>1, <2>2
<1>5. ASSUME runStatus' = "none", NEW e \in Execution PROVE status'[e] = "none"
  <2>1. x.pc # "flushed"
    BY <1>1, <1>5, ReduceType, NoneIsNoStatus DEF Write, Reduced
  <2>2. x.run = "keep" /\ runStatus = "none" /\ x.inserts = {}
    BY <1>1, <1>3, <1>5, <2>1 DEF Write, TxInv
  <2>3. status[e] = "none"
    BY <2>2 DEF ConcurrentInv, RowsInv
  <2>4. QED  BY <1>2, <2>2, <2>3
<1>6. RowsInv' /\ OneMessagePerAttempt'
  <2> HIDE DEF x
  <2>1. QED  BY <1>2, <1>5 DEF RowsInv, OneMessagePerAttempt
<1>7. StartedAfterSuccess'
  <2> SUFFICES ASSUME NEW d \in Deps, d.condition = "on_success",
                      AttemptsOf(status', d.job) # {}
               PROVE  \E a \in Attempt : <<<<d.dependsOn, a>>, "success">> \in inbox'
    BY DEF StartedAfterSuccess
  <2>1. PICK b \in Attempt : <<d.job, b>> \in Execution /\ status'[<<d.job, b>>] # "none"
    BY DEF AttemptsOf
  <2>2. CASE status[<<d.job, b>>] # "none"
    <3>1. AttemptsOf(status, d.job) # {}
      BY <2>1, <2>2 DEF AttemptsOf
    <3>2. QED  BY <1>2, <3>1 DEF ConcurrentInv, StartedAfterSuccess
  <2>3. CASE status[<<d.job, b>>] = "none"
    <3>1. <<d.job, b>> \in x.inserts /\ d.job = <<d.job, b>>[1]
      BY <1>2, <2>1, <2>3
    <3>2. \E a \in Attempt : Received(<<d.dependsOn, a>>, x, inbox)
      BY <1>3, <2>1, <3>1 DEF TxInv
    <3>3. QED  BY <1>2, <3>2
  <2>4. QED  BY <2>2, <2>3
<1>8. QED  BY <1>4, <1>6, <1>7 DEF ConcurrentInv

\* The run starts with the jobs that wait for no success.
LEMMA CreateInd == ConcurrentInv /\ Create => ConcurrentInv'
<1> SUFFICES ASSUME ConcurrentInv, Create PROVE ConcurrentInv'
  OBVIOUS
<1> DEFINE C == FirstAttempts(status)
<1>1. \A e \in Execution : status[e] = "none" /\ dispatched[e] = 0
  BY DEF Create, CreateRun, ConcurrentInv, RowsInv
<1>2. CreateExecutions(C, status) /\ UNCHANGED <<tx, inbox>>
  BY DEF Create, CreateRun
<1>3. runStatus' # "none"
  BY DEF Create, CreateRun, ActivateRun
<1>4. ASSUME NEW e \in C, NEW d \in Deps, d.job = e[1] PROVE d.condition # "on_success"
  <2>1. dependenciesSatisfied(status, d.job)
    BY <1>4, FirstAttemptsAreNew
  <2>2. PICK a \in Latest(status, d.dependsOn) : TRUE
    BY <2>1 DEF dependenciesSatisfied
  <2>3. QED  BY <1>1, <2>2 DEF Latest, AttemptsOf
<1> HIDE DEF C
<1>5. ASSUME NEW e \in Execution
      PROVE  /\ status'[e] = IF e \notin C THEN "none"
                             ELSE IF e[1] \in Protected THEN "waiting_approval" ELSE "queued"
             /\ approval'[e] = IF e \in C /\ e[1] \in Protected THEN "pending" ELSE approval[e]
             /\ dispatched'[e] = IF e \in C /\ e[1] \notin Protected THEN 1 ELSE 0
  BY <1>1, <1>2 DEF CreateExecutions
<1>6. RowsInv' /\ OneMessagePerAttempt'
  BY <1>3, <1>5 DEF RowsInv, OneMessagePerAttempt, ConcurrentInv
<1>7. StartedAfterSuccess'
  <2> SUFFICES ASSUME NEW d \in Deps, d.condition = "on_success",
                      AttemptsOf(status', d.job) # {}
               PROVE  FALSE
    BY DEF StartedAfterSuccess
  <2>1. PICK b \in Attempt : <<d.job, b>> \in Execution /\ status'[<<d.job, b>>] # "none"
    BY DEF AttemptsOf
  <2>2. <<d.job, b>> \in C
    BY <1>5, <2>1
  <2>3. QED  BY <1>4, <2>2
<1>8. DOMAIN tx' = Thread /\ \A u \in Thread : TxInv(tx'[u], status', inbox')
  <2>1. ASSUME NEW u \in Thread PROVE TxInv(tx[u], status', inbox)
    <3>1. TxInv(tx[u], status, inbox)
      BY DEF ConcurrentInv
    <3>2. QED  BY <1>1, <3>1, TxKept
  <2>2. QED  BY <1>2, <2>1 DEF ConcurrentInv
<1>9. QED  BY <1>6, <1>7, <1>8 DEF ConcurrentInv

-----------------------------------------------------------------------------
\* A transaction that ends without writing leaves nothing behind.
LEMMA EndsWithoutWriting ==
    ASSUME ConcurrentInv, NEW t \in Thread, Refused(t) \/ Rollback(t)
    PROVE  ConcurrentInv'
BY IdleInv, OnlyTransaction DEF Refused, Rollback

LEMMA ServeRequestInd ==
    ASSUME ConcurrentInv, NEW t \in Thread, ServeRequest(t)
    PROVE  ConcurrentInv'
BY BeginCancelRunInd, BeginRetryRunInd, BeginCheckTimeoutsInd, BeginCancelExecutionInd,
   BeginRetryExecutionInd, BeginApproveInd, BeginRejectInd DEF ServeRequest

LEMMA StepConcurrentInv ==
    ConcurrentInv /\ [ConcurrentNext]_concurrentVars => ConcurrentInv'
<1> SUFFICES ASSUME ConcurrentInv, [ConcurrentNext]_concurrentVars PROVE ConcurrentInv'
  OBVIOUS
<1>1. CASE Create  BY <1>1, CreateInd
<1>2. ASSUME NEW t \in Consumer, ConsumeEvent(t) PROVE ConcurrentInv'
  BY <1>2, BeginEventInd DEF ConsumeEvent, Thread
<1>3. ASSUME NEW t \in Requester, ServeRequest(t) PROVE ConcurrentInv'
  BY <1>3, ServeRequestInd DEF Thread
<1>4. ASSUME NEW t \in Thread, Flush(t) \/ Commit(t) \/ Refused(t) \/ Rollback(t)
      PROVE  ConcurrentInv'
  BY <1>4, FlushInd, CommitInd, EndsWithoutWriting
<1>5. CASE UNCHANGED concurrentVars
  <2>1. UNCHANGED <<runStatus, status, approval, dispatched, tx, inbox>>
    BY <1>5 DEF concurrentVars, vars
  <2>2. \A t \in Thread : TxInv(tx'[t], status', inbox')
    BY <2>1 DEF ConcurrentInv
  <2>3. QED  BY <2>1, <2>2 DEF ConcurrentInv, RowsInv, OneMessagePerAttempt,
                               StartedAfterSuccess, AttemptsOf
<1>6. QED  BY <1>1, <1>2, <1>3, <1>4, <1>5 DEF ConcurrentNext

\* The invariant holds in every state overlapping transactions reach.
THEOREM ConcurrentInvariance == ConcurrentSpec => []ConcurrentInv
BY InitConcurrentInv, StepConcurrentInv, PTL DEF ConcurrentSpec

\* An unprotected execution has exactly one job message for its row, however
\* many consumers start the same job or handle the same event at once.
THEOREM AttemptsGetOneMessage == ConcurrentSpec => []OneMessagePerAttempt
<1>1. ConcurrentInv => OneMessagePerAttempt  BY DEF ConcurrentInv
<1>2. QED  BY <1>1, ConcurrentInvariance, PTL

\* No job starts before the success it waits for has been received, although
\* transactions decide on rows that others are changing.
THEOREM JobsStartAfterSuccess == ConcurrentSpec => []StartedAfterSuccess
<1>1. ConcurrentInv => StartedAfterSuccess  BY DEF ConcurrentInv
<1>2. QED  BY <1>1, ConcurrentInvariance, PTL
=============================================================================
