----------------------------- MODULE EventPoller -----------------------------
(***************************************************************************)
(* The OpenSearch transport of executor events: every master polls the     *)
(* index for documents after a cursor, hands the events to                 *)
(* ExecutorEventService.handle and moves the cursor.  Cursor, inbox rows   *)
(* and whatever handle changes are written by one transaction per poll;    *)
(* handle joins it, so that an exception of handle, although poll catches  *)
(* it, has already condemned the whole transaction.                        *)
(*                                                                         *)
(* A document is a number, its place in the sort order of the search       *)
(* (ingestedAt, documentId); 0 is the cursor before the first document.    *)
(***************************************************************************)
EXTENDS Naturals, FiniteSets

CONSTANTS
    MaxDocument,   \* bound of the model: documents
    MessageOf,     \* the messageId of each document, "none" if it cannot be parsed
    Poller,        \* processes of the master service
    BatchSize,     \* app.opensearch.poll-batch-size
    MaxFailures    \* bound of the model: polls that fail

Document == 1..MaxDocument

ASSUME PollerAssumption ==
    /\ MaxDocument \in Nat /\ MaxFailures \in Nat /\ BatchSize \in Nat \ {0}
    /\ DOMAIN MessageOf = Document

VARIABLES
    indexed,    \* documents the search finds
    late,       \* documents indexed after one that sorts behind them
    cursor,     \* executor_event_cursor of the consumer
    inbox,      \* documents whose events are registered
    applied,    \* how often each document's event has been applied
    poll,       \* the poll of each process
    failures    \* polls that have failed

vars == <<indexed, late, cursor, inbox, applied, poll, failures>>

\* A poll: the documents it has still to handle, its copy of the cursor, what
\* it has applied, and whether handle has thrown.
Idle == [pc |-> "idle", hits |-> {}, cursor |-> 0, handled |-> {}, doomed |-> FALSE]

TypeOK ==
    /\ indexed \subseteq Document /\ late \subseteq indexed
    /\ inbox \subseteq indexed
    /\ cursor \in indexed \cup {0}
    /\ applied \in [Document -> Nat]
    /\ poll \in [Poller -> [pc : {"idle", "handling"}, hits : SUBSET indexed,
                            cursor : indexed \cup {0}, handled : SUBSET indexed,
                            doomed : BOOLEAN]]
    /\ failures \in 0..MaxFailures

Init ==
    /\ indexed = {} /\ late = {}
    /\ cursor = 0
    /\ inbox = {}
    /\ applied = [d \in Document |-> 0]
    /\ poll = [p \in Poller |-> Idle]
    /\ failures = 0

-----------------------------------------------------------------------------
\* A document becomes visible, perhaps after documents that sort behind it.
Index(d) ==
    /\ d \notin indexed
    /\ indexed' = indexed \cup {d}
    /\ late' = IF \E e \in indexed : d < e THEN late \cup {d} ELSE late
    /\ UNCHANGED <<cursor, inbox, applied, poll, failures>>

\* The first BatchSize documents after the cursor.  A search that fails, and
\* one without hits, changes nothing.
Search(p) ==
    LET after == {d \in indexed : d > cursor}
        first == {d \in after : Cardinality({e \in after : e < d}) < BatchSize}
    IN  /\ poll[p].pc = "idle"
        /\ first # {}
        /\ poll' = [poll EXCEPT ![p] = [pc |-> "handling", hits |-> first, cursor |-> cursor,
                                        handled |-> {}, doomed |-> FALSE]]
        /\ UNCHANGED <<indexed, late, cursor, inbox, applied, failures>>

\* Mutant: only the document is looked up.
isDuplicateDocument(d, done) == d \in done

\* The inbox knows the message, or the document.
isDuplicate(d, done) ==
    d \in done \/ \E e \in done : MessageOf[e] = MessageOf[d]

\* The document whose turn it is: the batch is handled in sort order.
Current(p) == {d \in poll[p].hits : \A e \in poll[p].hits : d <= e}

\* Whether a document goes to handle's main part: it can be parsed and is no
\* duplicate, in the inbox as committed or as written by this poll.
ToApply(p, d) ==
    MessageOf[d] # "none" /\ ~isDuplicate(d, inbox \cup poll[p].handled)

\* The cursor of the poll moves to the document, whatever became of it.
Advance(p, d, handled, doomed) ==
    poll' = [poll EXCEPT ![p] = [pc |-> "handling", hits |-> poll[p].hits \ {d}, cursor |-> d,
                                 handled |-> handled, doomed |-> doomed]]

\* One turn of the loop: the document is passed over, or its event applied.
HandleHit(p) ==
    /\ \E d \in Current(p) :
           Advance(p, d, IF ToApply(p, d) THEN poll[p].handled \cup {d} ELSE poll[p].handled,
                   poll[p].doomed)
    /\ UNCHANGED <<indexed, late, cursor, inbox, applied, failures>>

\* Mutant: the exception is swallowed without a trace.
HandleSwallows(p) ==
    /\ failures < MaxFailures
    /\ failures' = failures + 1
    /\ \E d \in Current(p) :
           ToApply(p, d) /\ Advance(p, d, poll[p].handled, poll[p].doomed)
    /\ UNCHANGED <<indexed, late, cursor, inbox, applied>>

\* handle throws: the loop goes on, the transaction is marked for rollback.
HandleThrows(p) ==
    /\ failures < MaxFailures
    /\ failures' = failures + 1
    /\ \E d \in Current(p) : ToApply(p, d) /\ Advance(p, d, poll[p].handled, TRUE)
    /\ UNCHANGED <<indexed, late, cursor, inbox, applied>>

\* Mutant: nothing keeps an event from being registered twice.
NoConstraint(p) == poll[p].pc = "handling"

\* inbox_event is unique in message and in document for each consumer; all
\* masters poll as the same consumer.
ConstraintHolds(p) ==
    /\ poll[p].handled \cap inbox = {}
    /\ \A d \in poll[p].handled, e \in inbox : MessageOf[d] # MessageOf[e]

CommitPoll(p) ==
    /\ poll[p].pc = "handling" /\ poll[p].hits = {}
    /\ ~poll[p].doomed /\ ConstraintHolds(p)
    /\ cursor' = poll[p].cursor
    /\ inbox' = inbox \cup poll[p].handled
    /\ applied' = [d \in Document |->
                     IF d \in poll[p].handled THEN applied[d] + 1 ELSE applied[d]]
    /\ poll' = [poll EXCEPT ![p] = Idle]
    /\ UNCHANGED <<indexed, late, failures>>

\* The batch is rolled back, events, inbox rows and cursor together.
RollbackPoll(p) ==
    /\ poll[p].pc = "handling" /\ poll[p].hits = {}
    /\ poll[p].doomed \/ ~ConstraintHolds(p)
    /\ poll' = [poll EXCEPT ![p] = Idle]
    /\ UNCHANGED <<indexed, late, cursor, inbox, applied, failures>>

\* The process dies, or its connection to the database.
Crash(p) ==
    /\ failures < MaxFailures
    /\ failures' = failures + 1
    /\ poll[p].pc = "handling"
    /\ poll' = [poll EXCEPT ![p] = Idle]
    /\ UNCHANGED <<indexed, late, cursor, inbox, applied>>

-----------------------------------------------------------------------------
Step(p) == Search(p) \/ HandleHit(p) \/ CommitPoll(p) \/ RollbackPoll(p)

Next ==
    \/ \E d \in Document : Index(d)
    \/ \E p \in Poller : Step(p) \/ HandleThrows(p) \/ Crash(p)

\* Every master's scheduler goes on polling.
Spec == Init /\ [][Next]_vars /\ \A p \in Poller : WF_vars(Step(p))

-----------------------------------------------------------------------------
\* An event is applied at most once, although executors write a message into
\* several documents, masters poll the same batch, batches are replayed after
\* a failure and a slow poll may move the cursor back (InboxDeduplicationService).
AppliedOnce ==
    \A d, e \in Document :
        /\ applied[d] <= 1
        /\ MessageOf[d] = MessageOf[e] /\ applied[d] > 0 /\ applied[e] > 0 => d = e

\* The cursor never passes an event that has not been applied: every readable
\* document behind it has been, by itself or as another document of the same
\* message, except those that appeared out of order (updateCursorFromHit, poll).
NothingPassedOver ==
    \A d \in indexed \ late :
        d <= cursor /\ MessageOf[d] # "none" =>
            \E e \in inbox : MessageOf[e] = MessageOf[d]

\* Every readable document that appears in order is applied in the end,
\* although a failed event takes its batch with it and concurrent polls refuse
\* each other (the scheduler polls again from the committed cursor).
EventsAreApplied ==
    \A d \in Document :
        d \in indexed /\ MessageOf[d] # "none" ~>
            d \in late \/ \E e \in inbox : MessageOf[e] = MessageOf[d]

=============================================================================
