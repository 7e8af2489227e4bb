-------------------------- MODULE EventPollerProofs --------------------------
(***************************************************************************)
(* Proofs about EventPoller for any number of masters and documents, any   *)
(* batch size and any repetition of messages in documents: no event is     *)
(* applied twice, and the cursor passes over none.                         *)
(***************************************************************************)
EXTENDS EventPoller, FiniteSetTheorems, TLAPS

\* Documents of different messages.
Distinct(S) == \A d, e \in S : MessageOf[d] = MessageOf[e] => d = e

\* The event of d is in S, in this document or another one of its message.
Known(d, S) == \E e \in S : MessageOf[e] = MessageOf[d]

\* What a poll knows of the documents up to its own cursor: unless it is to
\* be rolled back, their events are in the inbox or among those it applied.
\* Its batch lies behind its cursor and leaves out no document in between.
PollInv(p) ==
    /\ poll[p].pc = "idle" => poll[p].hits = {}
    /\ Distinct(poll[p].handled)
    /\ \A h \in poll[p].hits : poll[p].cursor < h
    /\ \A d \in indexed \ late : \A h \in poll[p].hits :
           poll[p].cursor < d /\ d <= h => d \in poll[p].hits
    /\ poll[p].pc = "handling" /\ ~poll[p].doomed =>
           \A d \in indexed \ late :
               d <= poll[p].cursor /\ MessageOf[d] # "none" =>
                   Known(d, inbox \cup poll[p].handled)

\* Inductive strengthening: an event counts as applied exactly when its
\* document is in the inbox, and the inbox holds a message once.
PollerInv ==
    /\ TypeOK
    /\ \A d \in Document : applied[d] = IF d \in inbox THEN 1 ELSE 0
    /\ Distinct(inbox)
    /\ NothingPassedOver
    /\ \A p \in Poller : PollInv(p)

\* The fields of a poll over a set of documents.
PollType(docs) == [pc : {"idle", "handling"}, hits : SUBSET docs, cursor : docs \cup {0},
                   handled : SUBSET docs, doomed : BOOLEAN]

LEMMA InitPollerInv == Init => PollerInv
<1> SUFFICES ASSUME Init PROVE PollerInv
  OBVIOUS
<1>1. TypeOK
  BY PollerAssumption DEF Init, TypeOK, Idle
<1>2. \A p \in Poller : PollInv(p)
  BY DEF Init, PollInv, Idle, Distinct
<1>3. QED  BY <1>1, <1>2 DEF Init, PollerInv, Distinct, NothingPassedOver

\* A document that appears in order sorts behind everything a cursor or a
\* batch has reached.
LEMMA IndexInd ==
    ASSUME PollerInv, NEW d \in Document, Index(d)
    PROVE  PollerInv'
<1>1. /\ d \notin indexed /\ indexed' = indexed \cup {d}
      /\ late' = IF \E e \in indexed : d < e THEN late \cup {d} ELSE late
      /\ UNCHANGED <<cursor, inbox, applied, poll, failures>>
  BY DEF Index
<1>2. /\ indexed \subseteq Document /\ Document \subseteq Nat \ {0}
      /\ late \subseteq indexed /\ cursor \in indexed \cup {0}
      /\ inbox \subseteq indexed /\ applied \in [Document -> Nat]
      /\ poll \in [Poller -> PollType(indexed)]
  BY PollerAssumption DEF PollerInv, TypeOK, Document, PollType
<1>3. poll \in [Poller -> PollType(indexed \cup {d})]
  BY <1>2 DEF PollType
<1>4. TypeOK'
  BY <1>1, <1>2, <1>3 DEF PollerInv, TypeOK, PollType
<1>5. ASSUME NEW x \in indexed' \ late', x \notin indexed \ late
      PROVE  \A e \in indexed \cup {0} : e < x
  <2>1. x = d /\ ~\E e \in indexed : d < e
    BY <1>1, <1>2, <1>5
  <2>2. QED  BY <1>1, <1>2, <2>1
<1>6. NothingPassedOver'
  <2> SUFFICES ASSUME NEW x \in indexed' \ late', x <= cursor, MessageOf[x] # "none"
               PROVE  \E e \in inbox : MessageOf[e] = MessageOf[x]
    BY <1>1 DEF NothingPassedOver
  <2>1. x \in indexed \ late
    BY <1>1, <1>2, <1>5
  <2>2. QED  BY <2>1 DEF PollerInv, NothingPassedOver
<1>7. ASSUME NEW p \in Poller PROVE PollInv(p)'
  <2>1. /\ poll'[p] = poll[p] /\ inbox' = inbox /\ PollInv(p)
        /\ poll[p].cursor \in indexed \cup {0} /\ poll[p].hits \subseteq indexed
    BY <1>1, <1>2 DEF PollerInv, PollType
  <2>2. \A x \in indexed' \ late' : \A h \in poll[p].hits :
            poll[p].cursor < x /\ x <= h => x \in poll[p].hits
    <3> SUFFICES ASSUME NEW x \in indexed' \ late', NEW h \in poll[p].hits,
                        poll[p].cursor < x, x <= h
                 PROVE  x \in poll[p].hits
      OBVIOUS
    <3>1. x \in Nat /\ h \in Nat /\ h \in indexed
      BY <1>1, <1>2, <2>1
    <3>2. x \in indexed \ late
      BY <1>5, <3>1
    <3>3. QED  BY <2>1, <3>2 DEF PollInv
  <2>3. ASSUME poll[p].pc = "handling", ~poll[p].doomed, NEW x \in indexed' \ late',
               x <= poll[p].cursor, MessageOf[x] # "none"
        PROVE  Known(x, inbox \cup poll[p].handled)
    <3>1. x \in Nat
      BY <1>1, <1>2
    <3>2. poll[p].cursor \in Nat
      <4>1. \A c \in indexed \cup {0} : c \in Nat
        BY <1>2
      <4>2. QED  BY <2>1, <4>1
    <3>3. x \in indexed \ late
      BY <1>5, <2>1, <2>3, <3>1, <3>2
    <3>4. QED  BY <2>1, <2>3, <3>3 DEF PollInv
  <2>4. QED  BY <2>1, <2>2, <2>3 DEF PollInv, Known
<1>8. QED  BY <1>1, <1>4, <1>6, <1>7 DEF PollerInv

\* A step of one process that leaves the documents and the inbox alone keeps
\* the invariant if what it makes of its own poll does.
LEMMA OwnPollStep ==
    ASSUME PollerInv, NEW p \in Poller, NEW q \in PollType(indexed),
           poll' = [poll EXCEPT ![p] = q],
           UNCHANGED <<indexed, late, cursor, inbox, applied>>,
           failures' \in 0..MaxFailures, PollInv(p)'
    PROVE  PollerInv'
<1>1. TypeOK'
  BY DEF PollerInv, TypeOK, PollType
<1>2. ASSUME NEW r \in Poller, r # p PROVE PollInv(r)'
  <2>1. poll'[r] = poll[r]
    BY <1>2 DEF PollerInv, TypeOK
  <2>2. QED  BY <2>1 DEF PollerInv, PollInv, Known
<1>3. NothingPassedOver'
  BY DEF PollerInv, NothingPassedOver
<1>4. QED  BY <1>1, <1>2, <1>3 DEF PollerInv, Distinct

\* The batch is a prefix of what lies behind the cursor: a document in front
\* of one of the batch has fewer documents in front of it, and is in it.
LEMMA BatchIsPrefix ==
    ASSUME NEW after, IsFiniteSet(after), after \subseteq Nat,
           NEW d \in after, NEW h \in after, d <= h,
           Cardinality({e \in after : e < h}) < BatchSize
    PROVE  Cardinality({e \in after : e < d}) < BatchSize
<1>1. {e \in after : e < d} \in SUBSET {e \in after : e < h}
  <2>1. ASSUME NEW e \in after, e < d PROVE e < h
    <3>1. e \in Nat /\ d \in Nat /\ h \in Nat
      OBVIOUS
    <3>2. QED  BY <2>1, <3>1
  <2>2. QED  BY <2>1
<1>2. IsFiniteSet({e \in after : e < h})
  BY FS_Subset
<1>3. /\ Cardinality({e \in after : e < d}) \in Nat
      /\ Cardinality({e \in after : e < h}) \in Nat
      /\ Cardinality({e \in after : e < d}) <= Cardinality({e \in after : e < h})
  BY <1>1, <1>2, FS_Subset, FS_CardinalityType
<1>4. QED  BY <1>3, PollerAssumption

LEMMA SearchInd ==
    ASSUME PollerInv, NEW p \in Poller, Search(p)
    PROVE  PollerInv'
<1> DEFINE after == {d \in indexed : d > cursor}
           first == {d \in after : Cardinality({e \in after : e < d}) < BatchSize}
           q == [pc |-> "handling", hits |-> first, cursor |-> cursor, handled |-> {},
                 doomed |-> FALSE]
<1>1. /\ poll' = [poll EXCEPT ![p] = q]
      /\ UNCHANGED <<indexed, late, cursor, inbox, applied, failures>>
  BY DEF Search
<1>2. /\ indexed \subseteq Document /\ Document \subseteq Nat /\ IsFiniteSet(Document)
      /\ cursor \in indexed \cup {0} /\ cursor \in Nat
  <2>1. indexed \subseteq Document /\ cursor \in indexed \cup {0}
    BY DEF PollerInv, TypeOK
  <2>2. Document \subseteq Nat /\ MaxDocument \in Int
    BY PollerAssumption DEF Document
  <2>3. IsFiniteSet(Document)
    BY <2>2, FS_Interval DEF Document
  <2>4. QED  BY <2>1, <2>2, <2>3
<1>3. IsFiniteSet(after) /\ after \subseteq Nat
  BY <1>2, FS_Subset
<1>4. \A d \in after : \A h \in first : d <= h => d \in first
  BY <1>3, BatchIsPrefix
<1>5. q \in PollType(indexed)
  BY <1>2 DEF PollType
<1>6. poll'[p] = q
  BY <1>1 DEF PollerInv, TypeOK
<1>7. PollInv(p)'
  <2>1. \A h \in first : h \in after /\ cursor < h
    BY <1>2
  <2>2. \A d \in indexed \ late : \A h \in first : cursor < d /\ d <= h => d \in first
    BY <1>2, <1>4
  <2>3. \A d \in indexed \ late : d <= cursor /\ MessageOf[d] # "none" => Known(d, inbox)
    BY DEF PollerInv, NothingPassedOver, Known
  <2> HIDE DEF first
  <2>4. QED  BY <1>1, <1>6, <2>1, <2>2, <2>3 DEF PollInv, Distinct, Known
<1>8. failures' \in 0..MaxFailures
  BY <1>1 DEF PollerInv, TypeOK
<1> HIDE DEF q
<1>9. QED  BY <1>1, <1>5, <1>7, <1>8, OwnPollStep

\* One turn of the loop, whether the event is applied, passed over or throws.
LEMMA AdvanceInd ==
    ASSUME PollerInv, NEW p \in Poller, NEW d \in Current(p), NEW doomed \in BOOLEAN,
           NEW handled,
           \/ ToApply(p, d) /\ handled = poll[p].handled \cup {d}
           \/ ~ToApply(p, d) /\ handled = poll[p].handled
           \/ doomed /\ handled = poll[p].handled,
           poll[p].doomed => doomed,
           Advance(p, d, handled, doomed),
           UNCHANGED <<indexed, late, cursor, inbox, applied>>, failures' \in 0..MaxFailures
    PROVE  PollerInv'
<1> DEFINE q == [pc |-> "handling", hits |-> poll[p].hits \ {d}, cursor |-> d,
                 handled |-> handled, doomed |-> doomed]
<1>1. poll[p] \in PollType(indexed) /\ indexed \subseteq Nat
  BY PollerAssumption DEF PollerInv, TypeOK, PollType, Document
<1>2. /\ d \in poll[p].hits /\ d \in indexed /\ d \in Nat
      /\ poll[p].hits \subseteq indexed /\ poll[p].handled \subseteq indexed
      /\ poll[p].cursor \in Nat
      /\ \A e \in poll[p].hits : d <= e
  <2>1. /\ poll[p].hits \subseteq indexed /\ poll[p].handled \subseteq indexed
        /\ poll[p].cursor \in indexed \cup {0}
    BY <1>1 DEF PollType
  <2>2. d \in poll[p].hits /\ \A e \in poll[p].hits : d <= e
    BY DEF Current
  <2>3. QED  BY <1>1, <2>1, <2>2
<1>3. q \in PollType(indexed)
  BY <1>2 DEF PollType
<1>4. poll' = [poll EXCEPT ![p] = q] /\ poll'[p] = q
  BY DEF Advance, PollerInv, TypeOK
<1>5. PollInv(p)
  BY DEF PollerInv
<1>6. PollInv(p)'
  <2>1. Distinct(handled)
    BY <1>5 DEF PollInv, Distinct, ToApply, isDuplicate
  <2>2. ASSUME NEW h \in poll[p].hits \ {d} PROVE d < h
    <3>1. h \in Nat /\ d <= h /\ h # d
      BY <1>1, <1>2
    <3>2. QED  BY <1>2, <3>1
  <2>3. \A x \in indexed \ late : \A h \in poll[p].hits \ {d} :
            d < x /\ x <= h => x \in poll[p].hits \ {d}
    BY <1>1, <1>2, <1>5 DEF PollInv
  <2>4. ASSUME ~doomed, NEW x \in indexed \ late, x <= d, MessageOf[x] # "none"
        PROVE  Known(x, inbox \cup handled)
    <3>1. CASE x <= poll[p].cursor
      <4>1. poll[p].pc = "handling" /\ ~poll[p].doomed
        BY <1>1, <1>2, <1>5, <2>4 DEF PollInv, PollType
      <4>2. QED  BY <2>4, <3>1, <4>1, <1>5 DEF PollInv, Known
    <3>2. CASE poll[p].cursor < x
      <4>1. x \in poll[p].hits /\ x \in Nat
        BY <1>1, <1>2, <1>5, <2>4, <3>2 DEF PollInv
      <4>2. x = d
        BY <1>2, <2>4, <4>1
      <4>3. QED  BY <2>4, <4>2 DEF Known, ToApply, isDuplicate
    <3>3. QED  BY <1>1, <1>2, <3>1, <3>2
  <2> HIDE DEF Known
  <2>5. QED  BY <1>4, <2>1, <2>2, <2>3, <2>4 DEF PollInv, Known, Distinct
<1> HIDE DEF q
<1>7. QED  BY <1>3, <1>4, <1>6, OwnPollStep

\* A process that goes back to idle, its batch rolled back.
LEMMA GiveUpInd ==
    ASSUME PollerInv, NEW p \in Poller, poll' = [poll EXCEPT ![p] = Idle],
           UNCHANGED <<indexed, late, cursor, inbox, applied>>, failures' \in 0..MaxFailures
    PROVE  PollerInv'
<1>1. Idle \in PollType(indexed)
  BY DEF Idle, PollType
<1>2. poll'[p] = Idle
  BY DEF PollerInv, TypeOK
<1>3. PollInv(p)'
  BY <1>2 DEF PollInv, Idle, Distinct
<1>4. QED  BY <1>1, <1>3, OwnPollStep

\* The commit: the unique index lets only new messages into the inbox, and
\* what lies up to the cursor of the poll is known then.
LEMMA CommitPollInd ==
    ASSUME PollerInv, NEW p \in Poller, CommitPoll(p)
    PROVE  PollerInv'
<1>1. /\ poll[p].pc = "handling" /\ ~poll[p].doomed /\ ConstraintHolds(p)
      /\ cursor' = poll[p].cursor /\ inbox' = inbox \cup poll[p].handled
      /\ applied' = [d \in Document |->
                       IF d \in poll[p].handled THEN applied[d] + 1 ELSE applied[d]]
      /\ poll' = [poll EXCEPT ![p] = Idle]
      /\ UNCHANGED <<indexed, late, failures>>
  BY DEF CommitPoll
<1>2. /\ poll \in [Poller -> PollType(indexed)] /\ poll[p] \in PollType(indexed)
      /\ Idle \in PollType(indexed)
  BY DEF PollerInv, TypeOK, PollType, Idle
<1>3. poll[p].cursor \in indexed \cup {0} /\ poll[p].handled \subseteq indexed
  BY <1>2 DEF PollType
<1>4. TypeOK'
  <2>1. poll' \in [Poller -> PollType(indexed)]
    BY <1>1, <1>2
  <2>2. applied' \in [Document -> Nat]
    BY <1>1 DEF PollerInv, TypeOK
  <2>3. QED  BY <1>1, <1>3, <2>1, <2>2 DEF PollerInv, TypeOK, PollType
<1>5. \A d \in Document : applied'[d] = IF d \in inbox' THEN 1 ELSE 0
  BY <1>1 DEF PollerInv, ConstraintHolds
<1>6. Distinct(inbox)'
  BY <1>1 DEF PollerInv, PollInv, ConstraintHolds, Distinct
<1>7. NothingPassedOver'
  BY <1>1 DEF PollerInv, PollInv, NothingPassedOver, Known
<1>8. ASSUME NEW r \in Poller PROVE PollInv(r)'
  <2>1. CASE r = p
    <3>1. poll'[r] = Idle
      BY <1>1, <1>2, <2>1
    <3>2. QED  BY <3>1 DEF PollInv, Idle, Distinct
  <2>2. CASE r # p
    <3>1. poll'[r] = poll[r] /\ PollInv(r)
      BY <1>1, <1>2, <2>2 DEF PollerInv
    <3>2. \A d : Known(d, inbox \cup poll[r].handled) => Known(d, inbox' \cup poll[r].handled)
      BY <1>1 DEF Known
    <3>3. QED  BY <1>1, <3>1, <3>2 DEF PollInv, Distinct, Known
  <2>3. QED  BY <2>1, <2>2
<1>9. QED  BY <1>4, <1>5, <1>6, <1>7, <1>8 DEF PollerInv

\* Every step of every master, and every new document, keeps the invariant.
LEMMA StepPollerInv == PollerInv /\ [Next]_vars => PollerInv'
<1> SUFFICES ASSUME PollerInv, [Next]_vars PROVE PollerInv'
  OBVIOUS
<1>1. ASSUME NEW d \in Document, Index(d) PROVE PollerInv'
  BY <1>1, IndexInd
<1>2. ASSUME NEW p \in Poller, Search(p) PROVE PollerInv'
  BY <1>2, SearchInd
<1>3. ASSUME NEW p \in Poller, HandleHit(p) PROVE PollerInv'
  <2>1. PICK d \in Current(p) :
            Advance(p, d, IF ToApply(p, d) THEN poll[p].handled \cup {d} ELSE poll[p].handled,
                    poll[p].doomed)
    BY <1>3 DEF HandleHit
  <2>2. /\ UNCHANGED <<indexed, late, cursor, inbox, applied>>
        /\ failures' \in 0..MaxFailures /\ poll[p].doomed \in BOOLEAN
    BY <1>3 DEF HandleHit, PollerInv, TypeOK
  <2>3. QED  BY <2>1, <2>2, AdvanceInd
<1>4. ASSUME NEW p \in Poller, HandleThrows(p) PROVE PollerInv'
  <2>1. PICK d \in Current(p) : Advance(p, d, poll[p].handled, TRUE)
    BY <1>4 DEF HandleThrows
  <2>2. /\ UNCHANGED <<indexed, late, cursor, inbox, applied>>
        /\ failures' \in 0..MaxFailures
    BY <1>4, PollerAssumption DEF HandleThrows, PollerInv, TypeOK
  <2>3. QED  BY <2>1, <2>2, AdvanceInd
<1>5. ASSUME NEW p \in Poller, CommitPoll(p) PROVE PollerInv'
  BY <1>5, CommitPollInd
<1>6. ASSUME NEW p \in Poller, RollbackPoll(p) PROVE PollerInv'
  <2>1. failures' \in 0..MaxFailures
    BY <1>6 DEF RollbackPoll, PollerInv, TypeOK
  <2>2. QED  BY <1>6, <2>1, GiveUpInd DEF RollbackPoll
<1>7. ASSUME NEW p \in Poller, Crash(p) PROVE PollerInv'
  <2>1. failures' \in 0..MaxFailures
    BY <1>7, PollerAssumption DEF Crash, PollerInv, TypeOK
  <2>2. QED  BY <1>7, <2>1, GiveUpInd DEF Crash
<1>8. CASE UNCHANGED vars
  <2>1. TypeOK' /\ NothingPassedOver'
    BY <1>8 DEF vars, PollerInv, TypeOK, NothingPassedOver
  <2>2. \A p \in Poller : PollInv(p)'
    BY <1>8 DEF vars, PollerInv, PollInv, Distinct, Known
  <2>3. QED  BY <1>8, <2>1, <2>2 DEF vars, PollerInv, Distinct
<1>9. QED
  BY <1>1, <1>2, <1>3, <1>4, <1>5, <1>6, <1>7, <1>8 DEF Next, Step

\* The invariant holds in every reachable state.
LEMMA PollerInvariance == Spec => []PollerInv
BY InitPollerInv, StepPollerInv, PTL DEF Spec

\* No event is applied twice, for any number of masters and documents.
THEOREM EventsApplyOnce == Spec => []AppliedOnce
<1>1. PollerInv => AppliedOnce
  BY DEF PollerInv, AppliedOnce, Distinct
<1>2. QED  BY <1>1, PollerInvariance, PTL

\* The cursor passes over no event that appears in order.
THEOREM CursorPassesOverNothing == Spec => []NothingPassedOver
<1>1. PollerInv => NothingPassedOver
  BY DEF PollerInv
<1>2. QED  BY <1>1, PollerInvariance, PTL

=============================================================================
