--------------------------- MODULE TriggersProofs ---------------------------
(***************************************************************************)
(* Proofs about Triggers for any number of masters, triggers and clients:  *)
(* an event starts one run, the limit of parallel runs is exceeded by at   *)
(* most one run for each further master, and a slot is lost only if every  *)
(* master was late for it.                                                 *)
(***************************************************************************)
EXTENDS Triggers, FiniteSetTheorems, TLAPS

\* An open firing: a scheduler's is of a slot it still has to do, a client's is
\* of its request.
FiringInv(p) ==
    tx[p].open =>
        /\ tx[p].trigger \in Trigger /\ created[tx[p].trigger] <= now
        /\ p \in Scheduler =>
            /\ tx[p].trigger \in dispatch[p].todo
            /\ \E slot \in resolvePlannedFireTime(tx[p].trigger, dispatch[p].read) :
                    tx[p].keys = SlotKeys(tx[p].trigger, slot)
        /\ p \in Client => tx[p].keys = RequestOf[p].keys /\ tx[p].start = TRUE

\* A row is one of a slot, with its trigger, or one of a request.
RowInv(row) ==
    \/ row.trigger \in Scheduled /\ \E slot \in Int : row.keys = SlotKeys(row.trigger, slot)
    \/ \E c \in Client : row.keys = RequestOf[c].keys

\* Rows share no key, and a client has the run of the row of its event.
EventInv ==
    /\ \A row \in rows : RowInv(row)
    /\ \A x, y \in rows : x.keys \cap y.keys # {} => x = y
    /\ \A c \in Client : answer[c] # 0 =>
            \E row \in rows : row.run = answer[c] /\ row.keys = RequestOf[c].keys

\* Types, and that the triggers of a dispatch exist.
StateInv ==
    /\ TypeOK
    /\ IsFiniteSet(rows)
    /\ \A t \in Trigger : created[t] <= now \/ created[t] = Never
    /\ \A s \in Scheduler : \A t \in dispatch[s].todo : created[t] <= now
    /\ \A p \in Process : FiringInv(p)

\* The firings that will add a run to a schedule.
Starting(t) == {s \in Scheduler : tx[s].open /\ tx[s].start /\ tx[s].trigger = t}

\* A firing that will start a run has its place in the limit already.
LimitInv ==
    \A t \in Scheduled : Cardinality(SlotRows(t)) + Cardinality(Starting(t))
                             <= MaxParallel + Cardinality(Scheduler) - 1

\* A slot is settled when it has a row or its firing has failed.
Settled(t, slot) == SlotKeys(t, slot) \in failed \cup {row.keys : row \in rows}

\* The slots between the last two readings of a scheduler that are in its reach
\* are settled, but for those of triggers it still has to do.
SlotInv(s) ==
    \A t \in Scheduled : \A slot \in SlotsOf(t) :
        InReach(s, t, slot) =>
            \/ Settled(t, slot)
            \/ t \in dispatch[s].todo /\ slot \in resolvePlannedFireTime(t, dispatch[s].read)

\* Inductive strengthening of the properties of Triggers.
TriggersInv ==
    StateInv /\ EventInv /\ LimitInv /\ \A s \in Scheduler : SlotInv(s)

-----------------------------------------------------------------------------
\* The keys tell slots from each other and from requests.
LEMMA SlotKeysDiffer ==
    ASSUME NEW t, NEW u, NEW m, NEW n, SlotKeys(t, m) \cap SlotKeys(u, n) # {}
    PROVE  t = u /\ m = n
BY DEF SlotKeys

LEMMA SlotKeysNotEmpty == ASSUME NEW t, NEW n PROVE SlotKeys(t, n) # {}
<1>1. <<"schedule", "external", t, n>> \in SlotKeys(t, n)
  BY DEF SlotKeys
<1>2. QED  BY <1>1

LEMMA SlotKeysAreNoRequest ==
    ASSUME NEW t, NEW n, NEW c \in Client
    PROVE  SlotKeys(t, n) \cap RequestOf[c].keys = {}
<1>1. \A key \in SlotKeys(t, n) : key[1] = "schedule"
  BY DEF SlotKeys
<1>2. QED  BY <1>1, RequestAssumption

\* A row that shares a key with a slot is the row of this slot.
LEMMA RowOfSlot ==
    ASSUME NEW row, RowInv(row), NEW t, NEW n, SlotKeys(t, n) \cap row.keys # {}
    PROVE  row.trigger = t /\ row.keys = SlotKeys(t, n)
<1>1. ASSUME NEW c \in Client, row.keys = RequestOf[c].keys PROVE FALSE
  BY <1>1, SlotKeysAreNoRequest
<1>2. PICK slot \in Int : row.keys = SlotKeys(row.trigger, slot)
  BY <1>1 DEF RowInv
<1>3. QED  BY <1>2, SlotKeysDiffer

\* A row that shares a key with a request is a row of the same event.
LEMMA RowOfRequest ==
    ASSUME NEW row, RowInv(row), NEW c \in Client, RequestOf[c].keys \cap row.keys # {}
    PROVE  row.keys = RequestOf[c].keys
<1>1. ASSUME NEW slot, row.keys = SlotKeys(row.trigger, slot) PROVE FALSE
  BY <1>1, SlotKeysAreNoRequest
<1>2. PICK d \in Client : row.keys = RequestOf[d].keys
  BY <1>1 DEF RowInv
<1>3. QED  BY <1>2, RequestAssumption

\* A trigger is due for one slot at most.
LEMMA ResolveOne ==
    ASSUME NEW t, NEW time \in Int, NEW m \in resolvePlannedFireTime(t, time),
           NEW n \in resolvePlannedFireTime(t, time)
    PROVE  m = n /\ m \in Int
<1>1. CASE config[t] = "cron"
  <2>1. m \in CronSlots /\ n \in CronSlots /\ m <= n /\ n <= m
    BY <1>1 DEF resolvePlannedFireTime, resolveCronPlannedTime
  <2>2. m \in Nat /\ n \in Nat
    BY <2>1, TriggersAssumption
  <2>3. QED  BY <2>1, <2>2
<1>2. CASE config[t] # "cron"
  BY <1>2, TriggersAssumption DEF resolvePlannedFireTime
<1>3. QED  BY <1>1, <1>2

\* The largest multiple up to b is the only one within its last interval.
LEMMA MultipleFound ==
    ASSUME NEW k \in Nat \ {0}, NEW n \in Nat, n % k = 0, NEW b \in Nat, n <= b, b < n + k
    PROVE  (b \div k) * k = n
<1> DEFINE q == b \div k
           j == n \div k
<1>1. q \in Nat /\ j \in Nat
  OBVIOUS
<1>2. b = k * q + (b % k) /\ b % k \in 0..(k - 1)
  OBVIOUS
<1>3. n = k * j
  OBVIOUS
<1> HIDE DEF q, j
<1>4. k * q <= b /\ b < k * q + k
  BY <1>1, <1>2
<1>5. ~(q < j)
  <2> SUFFICES ASSUME q < j PROVE FALSE
    OBVIOUS
  <2>1. k * (q + 1) <= k * j
    BY <1>1
  <2>2. k * (q + 1) = k * q + k
    BY <1>1
  <2>3. QED  BY <1>1, <1>3, <1>4, <2>1, <2>2
<1>6. ~(j < q)
  <2> SUFFICES ASSUME j < q PROVE FALSE
    OBVIOUS
  <2>1. k * (j + 1) <= k * q
    BY <1>1
  <2>2. k * (j + 1) = k * j + k
    BY <1>1
  <2>3. QED  BY <1>1, <1>3, <1>4, <2>1, <2>2
<1>7. q = j
  BY <1>1, <1>5, <1>6
<1>8. QED  BY <1>1, <1>3, <1>7 DEF q

\* A reading of the clock finds every slot in its reach.
LEMMA ResolveFinds ==
    ASSUME NEW t, NEW slot \in SlotsOf(t), NEW last \in Int, NEW time \in Nat,
           last < slot, slot <= time, time - last <= Reach(t), ~Crowded(t, slot)
    PROVE  slot \in resolvePlannedFireTime(t, time)
<1>1. Period \in Nat /\ MaxTime \in Nat
  BY TriggersAssumption
<1>2. CASE config[t] = "cron"
  <2>1. slot \in CronSlots /\ slot \in Nat /\ CronSlots \subseteq Nat
    BY <1>2, TriggersAssumption DEF SlotsOf
  <2>2. time - Period - 1 < slot
    BY <1>1, <1>2, <2>1 DEF Reach
  <2>3. ASSUME NEW other \in CronSlots, time - Period - 1 < other, other <= time
        PROVE  slot <= other
    <3>1. other \in Nat
      BY <2>1
    <3>2. ~(slot - Period <= other /\ other < slot)
      BY <1>2 DEF Crowded
    <3>3. QED  BY <1>1, <2>1, <2>3, <3>1, <3>2
  <2>4. QED  BY <1>2, <2>1, <2>2, <2>3 DEF resolvePlannedFireTime, resolveCronPlannedTime
<1>3. CASE config[t] # "cron"
  <2>1. slot \in Nat /\ slot % Interval = 0
    BY <1>1, <1>3 DEF SlotsOf
  <2>2. Interval \in Nat \ {0} /\ time - last <= Interval
    BY <1>3, TriggersAssumption DEF Reach
  <2>3. time < slot + Interval
    BY <2>1, <2>2
  <2>4. (time \div Interval) * Interval = slot
    BY <2>1, <2>2, <2>3, MultipleFound
  <2>5. QED  BY <1>3, <2>4 DEF resolvePlannedFireTime
<1>4. QED  BY <1>2, <1>3

-----------------------------------------------------------------------------
LEMMA Constants ==
    /\ MaxTime \in Nat /\ Never \in Nat /\ MaxTime < Never
    /\ Period \in Nat \ {0} /\ Scheduled \subseteq Trigger
    /\ \A t : SlotsOf(t) \subseteq 1..MaxTime
BY TriggersAssumption DEF Never, Trigger, SlotsOf

LEMMA InitTriggersInv == Init => TriggersInv
<1> SUFFICES ASSUME Init PROVE TriggersInv
  OBVIOUS
<1>1. Accepted = {} /\ Runs = {} /\ Cardinality({}) = 0 /\ IsFiniteSet({})
  BY FS_EmptySet DEF Init, Accepted, Runs
<1>2. /\ now = StartTime /\ now \in 0..MaxTime
      /\ \A s \in Scheduler : dispatch[s] = [last |-> StartTime - Period,
                                            read |-> StartTime - Period,
                                            done |-> StartTime - Period, todo |-> {}]
      /\ \A p \in Process : tx[p] = Closed
  BY TriggersAssumption DEF Init
<1>3. TypeOK
  <2>1. dispatch \in [Scheduler -> DispatchType]
    BY TriggersAssumption DEF Init, DispatchType
  <2>2. \A s \in Scheduler :
            /\ dispatch[s].read <= dispatch[s].done
            /\ dispatch[s].read <= now /\ dispatch[s].done <= now
    BY <1>2, TriggersAssumption
  <2>3. \A p \in Process : tx[p].open \in BOOLEAN /\ tx[p].start \in BOOLEAN
    <3>1. Closed.open \in BOOLEAN /\ Closed.start \in BOOLEAN
      BY DEF Closed
    <3>2. QED  BY <1>2, <3>1
  <2>4. Runs = 1..Cardinality(Accepted)
    BY <1>1
  <2>5. /\ created \in [Trigger -> 0..Never] /\ config \in [Trigger -> {"cron", "interval"}]
        /\ rows = {} /\ active = {} /\ reopened = {} /\ DOMAIN tx = Process
        /\ answer \in [Client -> Runs \cup {0}]
    BY Constants DEF Init
  <2>6. QED
    BY <1>2, <2>1, <2>2, <2>3, <2>4, <2>5 DEF TypeOK
<1>4. StateInv
  <2>1. \A p \in Process : FiringInv(p)
    BY <1>2 DEF FiringInv, Closed
  <2>2. QED  BY <1>1, <1>2, <1>3, <2>1 DEF StateInv, Init
<1>5. EventInv
  BY DEF EventInv, Init
<1>6. LimitInv
  <2> SUFFICES ASSUME NEW t \in Scheduled
               PROVE  Cardinality(SlotRows(t)) + Cardinality(Starting(t))
                          <= MaxParallel + Cardinality(Scheduler) - 1
    BY DEF LimitInv
  <2>1. SlotRows(t) = {} /\ Starting(t) = {}
    BY <1>1, <1>2 DEF SlotRows, Starting, Closed, Process
  <2>2. Cardinality(Scheduler) \in Nat /\ MaxParallel \in Nat \ {0}
    BY TriggersAssumption, FS_CardinalityType
  <2>3. QED  BY <1>1, <2>1, <2>2
<1>7. ASSUME NEW s \in Scheduler PROVE SlotInv(s)
  <2>1. \A t \in Scheduled : \A slot \in SlotsOf(t) : ~(created[t] < slot)
    <3> SUFFICES ASSUME NEW t \in Scheduled, NEW slot \in SlotsOf(t)
                 PROVE  ~(created[t] < slot)
      OBVIOUS
    <3>1. created[t] = Never /\ slot \in 1..MaxTime
      BY Constants DEF Init
    <3>2. QED  BY <3>1, Constants
  <2>2. QED  BY <2>1 DEF SlotInv, InReach
<1>8. QED  BY <1>4, <1>5, <1>6, <1>7 DEF TriggersInv

-----------------------------------------------------------------------------
(* What the steps have in common. *)

\* A process ends the firing of t: its dispatch goes on, the others' stay.
LEMMA ProceedStep ==
    ASSUME StateInv, NEW p \in Process, NEW t, Proceed(p, t), now' = now,
           p \in Scheduler => t \in dispatch[p].todo
    PROVE  /\ dispatch' \in [Scheduler -> DispatchType]
           /\ \A s \in Scheduler :
                /\ dispatch'[s].read = dispatch[s].read /\ dispatch'[s].last = dispatch[s].last
                /\ dispatch'[s].todo = IF s = p THEN dispatch[s].todo \ {t} ELSE dispatch[s].todo
                /\ dispatch'[s].read <= dispatch'[s].done \/ dispatch'[s].todo # {}
                /\ dispatch'[s].read <= now' /\ dispatch'[s].done <= now'
<1>1. /\ dispatch \in [Scheduler -> DispatchType] /\ now \in Int
      /\ \A s \in Scheduler : /\ dispatch[s].read <= dispatch[s].done \/ dispatch[s].todo # {}
                              /\ dispatch[s].read <= now /\ dispatch[s].done <= now
  BY TriggersAssumption DEF StateInv, TypeOK, DispatchType
<1>2. CASE p \notin Scheduler
  BY <1>1, <1>2 DEF Proceed
<1>3. CASE p \in Scheduler
  <2> DEFINE d == [last |-> dispatch[p].last, read |-> dispatch[p].read,
                   todo |-> dispatch[p].todo \ {t},
                   done |-> IF dispatch[p].todo = {t} THEN now ELSE dispatch[p].done]
  <2>1. dispatch' = [dispatch EXCEPT ![p] = d]
    BY <1>3 DEF Proceed
  <2>2. dispatch[p] \in DispatchType
    BY <1>1, <1>3
  <2>3. /\ dispatch[p].last \in Int /\ dispatch[p].read \in Int /\ dispatch[p].done \in Int
        /\ dispatch[p].todo \subseteq Scheduled
    BY <2>2 DEF DispatchType
  <2>4. d \in DispatchType
    BY <1>1, <2>3 DEF DispatchType
  <2>5. /\ d.read = dispatch[p].read /\ d.last = dispatch[p].last
        /\ d.todo = dispatch[p].todo \ {t}
        /\ d.read <= now /\ d.done <= now
        /\ d.read <= d.done \/ d.todo # {}
    <3>1. CASE dispatch[p].todo = {t}
      BY <1>1, <1>3, <2>3, <3>1
    <3>2. CASE dispatch[p].todo # {t}
      <4>1. dispatch[p].todo \ {t} # {}
        BY <1>3, <3>2
      <4>2. QED  BY <1>1, <1>3, <3>2, <4>1
    <3>3. QED  BY <3>1, <3>2
  <2> HIDE DEF d
  <2>6. /\ dispatch' \in [Scheduler -> DispatchType] /\ dispatch'[p] = d
        /\ \A s \in Scheduler : s # p => dispatch'[s] = dispatch[s]
    BY <1>1, <1>3, <2>1, <2>4
  <2>7. QED  BY <1>1, <2>5, <2>6
<1>4. QED  BY <1>2, <1>3

\* Triggers that exist go on existing, with their slots.
Kept == /\ now \in Int /\ now' \in Int /\ now <= now'
        /\ \A t \in Trigger : created[t] <= now => created'[t] = created[t]
                                                   /\ config'[t] = config[t]

\* A firing that goes on while its scheduler's dispatch does.
LEMMA FiringKept ==
    ASSUME StateInv, Kept, NEW p \in Process, tx'[p] = tx[p],
           p \in Scheduler /\ tx[p].open =>
               /\ dispatch'[p].read = dispatch[p].read
               /\ tx[p].trigger \in dispatch'[p].todo
    PROVE  FiringInv(p)'
<1> SUFFICES ASSUME tx[p].open PROVE FiringInv(p)'
  BY DEF FiringInv
<1>1. /\ FiringInv(p) /\ tx[p].trigger \in Trigger /\ created[tx[p].trigger] <= now
      /\ created \in [Trigger -> 0..Never]
  BY DEF StateInv, TypeOK, FiringInv
<1>2. /\ created'[tx[p].trigger] = created[tx[p].trigger]
      /\ config'[tx[p].trigger] = config[tx[p].trigger]
  BY <1>1 DEF Kept
<1>3. created'[tx[p].trigger] <= now'
  <2>1. created[tx[p].trigger] \in Int
    BY <1>1, Constants
  <2>2. QED  BY <1>1, <1>2, <2>1 DEF Kept
<1>4. p \in Scheduler =>
          \E slot \in resolvePlannedFireTime(tx[p].trigger, dispatch[p].read)' :
              tx[p].keys = SlotKeys(tx[p].trigger, slot)
  BY <1>1, <1>2 DEF FiringInv, resolvePlannedFireTime, resolveCronPlannedTime
<1>5. QED  BY <1>1, <1>3, <1>4 DEF FiringInv, SlotKeys, resolvePlannedFireTime, resolveCronPlannedTime

\* The limit holds on when no run and no firing is added to it.
LEMMA LimitKept ==
    ASSUME StateInv, LimitInv,
           \A t \in Scheduled : SlotRows(t)' \subseteq SlotRows(t)
                                /\ Starting(t)' \subseteq Starting(t)
    PROVE  LimitInv'
<1> SUFFICES ASSUME NEW t \in Scheduled
             PROVE  (Cardinality(SlotRows(t)) + Cardinality(Starting(t))
                        <= MaxParallel + Cardinality(Scheduler) - 1)'
  BY DEF LimitInv
<1>1. IsFiniteSet(SlotRows(t)) /\ IsFiniteSet(Starting(t))
  <2>1. SlotRows(t) \subseteq rows /\ Starting(t) \subseteq Scheduler
    BY DEF SlotRows, Accepted, Starting
  <2>2. QED  BY <2>1, FS_Subset, TriggersAssumption DEF StateInv
<1>2. /\ Cardinality(SlotRows(t)') <= Cardinality(SlotRows(t))
      /\ Cardinality(Starting(t)') <= Cardinality(Starting(t))
      /\ IsFiniteSet(SlotRows(t)') /\ IsFiniteSet(Starting(t)')
  BY <1>1, FS_Subset
<1>3. /\ Cardinality(SlotRows(t)') \in Nat /\ Cardinality(SlotRows(t)) \in Nat
      /\ Cardinality(Starting(t)') \in Nat /\ Cardinality(Starting(t)) \in Nat
      /\ Cardinality(Scheduler) \in Nat
  BY <1>1, <1>2, FS_CardinalityType, TriggersAssumption
<1>4. QED  BY <1>2, <1>3, TriggersAssumption DEF LimitInv

\* The types of a state.
LEMMA Types ==
    ASSUME StateInv
    PROVE  /\ now \in 0..MaxTime /\ now \in Int /\ now < Never
           /\ created \in [Trigger -> 0..Never] /\ created \in [Trigger -> Int]
           /\ dispatch \in [Scheduler -> DispatchType]
           /\ \A s \in Scheduler : /\ dispatch[s].read \in Int /\ dispatch[s].done \in Int
                                   /\ dispatch[s].todo \subseteq Scheduled
                                   /\ dispatch[s].read <= now
<1>1. /\ now \in 0..MaxTime /\ created \in [Trigger -> 0..Never]
      /\ dispatch \in [Scheduler -> DispatchType]
      /\ \A s \in Scheduler : dispatch[s].read <= now
  BY DEF StateInv, TypeOK, DispatchType
<1>2. now \in Int /\ now < Never
  BY <1>1, Constants
<1>3. created \in [Trigger -> Int]
  BY <1>1, Constants
<1>4. \A s \in Scheduler : /\ dispatch[s].read \in Int /\ dispatch[s].done \in Int
                           /\ dispatch[s].todo \subseteq Scheduled
  BY <1>1 DEF DispatchType
<1>5. QED  BY <1>1, <1>2, <1>3, <1>4

\* The slots a scheduler has settled stay settled, and those of a trigger it
\* has done are settled then.
LEMMA SlotsKept ==
    ASSUME StateInv, NEW s \in Scheduler, SlotInv(s),
           rows \subseteq rows', failed \subseteq failed',
           \A t \in Scheduled : \A slot \in SlotsOf(t)' : created'[t] < slot =>
               \/ dispatch[s].read < slot
               \/ created[t] < slot /\ config'[t] = config[t],
           dispatch'[s].last = dispatch[s].last, dispatch'[s].read = dispatch[s].read,
           \A t \in dispatch[s].todo \ dispatch'[s].todo :
               \A slot \in resolvePlannedFireTime(t, dispatch[s].read) : Settled(t, slot)'
    PROVE  SlotInv(s)'
<1> SUFFICES ASSUME NEW t \in Scheduled, NEW slot \in SlotsOf(t)', InReach(s, t, slot)'
             PROVE  \/ Settled(t, slot)'
                    \/ /\ t \in dispatch'[s].todo
                       /\ slot \in resolvePlannedFireTime(t, dispatch[s].read)'
  BY DEF SlotInv
<1>1. slot \in 1..MaxTime /\ dispatch[s].read \in Int
  BY Types, Constants DEF SlotsOf
<1>2. /\ created'[t] < slot /\ ~Crowded(t, slot)'
      /\ dispatch[s].last < slot /\ slot <= dispatch[s].read
      /\ dispatch[s].read - dispatch[s].last <= Reach(t)'
  BY DEF InReach
<1>3. created[t] < slot /\ config'[t] = config[t]
  BY <1>1, <1>2, Constants
<1>4. slot \in SlotsOf(t) /\ ~Crowded(t, slot) /\ Reach(t)' = Reach(t)
  BY <1>2, <1>3 DEF SlotsOf, Crowded, Reach
<1>5. InReach(s, t, slot)
  BY <1>2, <1>3, <1>4 DEF InReach
<1>6. \/ Settled(t, slot)
      \/ t \in dispatch[s].todo /\ slot \in resolvePlannedFireTime(t, dispatch[s].read)
  BY <1>4, <1>5 DEF SlotInv
<1>7. Settled(t, slot) => Settled(t, slot)'
  BY DEF Settled, SlotKeys
<1>8. \A time : resolvePlannedFireTime(t, time)' = resolvePlannedFireTime(t, time)
  BY <1>3 DEF resolvePlannedFireTime, resolveCronPlannedTime
<1>9. QED  BY <1>6, <1>7, <1>8

-----------------------------------------------------------------------------
(* The steps of the environment. *)

LEMMA CreateInd ==
    ASSUME TriggersInv, NEW t \in Trigger, NEW kind \in {"cron", "interval"}, create(t, kind)
    PROVE  TriggersInv'
<1>1. /\ created[t] = Never /\ created' = [created EXCEPT ![t] = now]
      /\ config' = [config EXCEPT ![t] = kind]
      /\ UNCHANGED <<now, rows, active, reopened, dispatch, tx, answer, failed>>
  BY DEF create
<1>2. StateInv /\ EventInv /\ LimitInv
  BY DEF TriggersInv
<1>3. /\ created'[t] = now
      /\ \A u \in Trigger : u # t => created'[u] = created[u] /\ config'[u] = config[u]
      /\ \A u \in Trigger : created[u] <= now => u # t
  BY <1>1, <1>2, Types DEF StateInv, TypeOK
<1>4. Kept
  BY <1>1, <1>2, <1>3, Types DEF Kept
<1>5. TypeOK'
  <2>1. created' \in [Trigger -> 0..Never] /\ config' \in [Trigger -> {"cron", "interval"}]
    <3>1. now \in 0..Never
      BY <1>2, Types, Constants
    <3>2. QED  BY <1>1, <1>2, <3>1 DEF StateInv, TypeOK
  <2>2. \A row \in rows : row.trigger \in Trigger /\ row.run \in Nat
                          /\ created'[row.trigger] <= now
    BY <1>2, <1>3 DEF StateInv, TypeOK
  <2>3. Runs' = Runs /\ Accepted' = Accepted
    BY <1>1 DEF Runs, Accepted
  <2>4. QED  BY <1>1, <1>2, <2>1, <2>2, <2>3 DEF StateInv, TypeOK
<1>6. StateInv'
  <2>1. \A p \in Process : FiringInv(p)'
    <3> SUFFICES ASSUME NEW p \in Process PROVE FiringInv(p)'
      OBVIOUS
    <3>1. FiringInv(p)
      BY <1>2 DEF StateInv
    <3>2. QED  BY <1>1, <1>2, <1>4, <3>1, FiringKept DEF FiringInv
  <2>2. \A u \in Trigger : created'[u] <= now \/ created'[u] = Never
    BY <1>2, <1>3, Types DEF StateInv
  <2>3. \A s \in Scheduler : \A u \in dispatch[s].todo : created'[u] <= now
    <3> SUFFICES ASSUME NEW s \in Scheduler, NEW u \in dispatch[s].todo
                 PROVE  created'[u] <= now
      OBVIOUS
    <3>1. u \in Trigger /\ created[u] <= now
      BY <1>2, Types, Constants DEF StateInv
    <3>2. QED  BY <1>3, <3>1
  <2>4. QED  BY <1>1, <1>2, <1>5, <2>1, <2>2, <2>3 DEF StateInv
<1>7. EventInv'
  BY <1>1, <1>2 DEF EventInv, RowInv, SlotKeys
<1>8. LimitInv'
  <2>1. \A u \in Scheduled : SlotRows(u)' = SlotRows(u) /\ Starting(u)' = Starting(u)
    BY <1>1 DEF SlotRows, Starting, Accepted
  <2>2. QED  BY <1>2, <2>1, LimitKept
<1>9. ASSUME NEW s \in Scheduler PROVE SlotInv(s)'
  <2>1. ASSUME NEW u \in Scheduled, NEW slot \in SlotsOf(u)', created'[u] < slot
        PROVE  dispatch[s].read < slot \/ (created[u] < slot /\ config'[u] = config[u])
    <3>1. slot \in 1..MaxTime /\ u \in Trigger /\ dispatch[s].read \in Int
          /\ dispatch[s].read <= now
      BY <1>2, Constants, Types DEF SlotsOf
    <3>2. CASE u = t
      <4>1. now < slot /\ now \in Int
        BY <1>2, <1>3, <2>1, <3>2, Types
      <4>2. QED  BY <3>1, <4>1, Constants
    <3>3. CASE u # t
      BY <1>3, <2>1, <3>1, <3>3
    <3>4. QED  BY <3>2, <3>3
  <2>2. SlotInv(s) /\ now' = now /\ rows' = rows /\ failed' = failed /\ dispatch' = dispatch
    BY <1>1 DEF TriggersInv
  <2>3. QED  BY <1>2, <2>1, <2>2, SlotsKept
<1>10. QED  BY <1>6, <1>7, <1>8, <1>9 DEF TriggersInv

LEMMA TickInd ==
    ASSUME TriggersInv, Tick
    PROVE  TriggersInv'
<1>1. /\ now < MaxTime /\ now' = now + 1
      /\ UNCHANGED <<created, config, rows, active, reopened, dispatch, tx, answer, failed>>
  BY DEF Tick
<1>2. StateInv /\ EventInv /\ LimitInv
  BY DEF TriggersInv
<1>3. now' \in 0..MaxTime /\ now' \in Int /\ now <= now'
  BY <1>1, <1>2, Types, Constants
<1>4. Kept
  BY <1>1, <1>2, <1>3, Types DEF Kept
<1>5. \A u \in Trigger : created[u] <= now => created[u] <= now'
  BY <1>1, <1>2, <1>3, Types
<1>6. TypeOK'
  <2>1. Runs' = Runs /\ Accepted' = Accepted
    BY <1>1 DEF Runs, Accepted
  <2>2. \A row \in rows : created[row.trigger] <= now'
    BY <1>2, <1>5 DEF StateInv, TypeOK
  <2>3. \A s \in Scheduler : dispatch[s].read <= now' /\ dispatch[s].done <= now'
    <3>1. \A s \in Scheduler : dispatch[s].read <= now /\ dispatch[s].done <= now
      BY <1>2 DEF StateInv, TypeOK
    <3>2. QED  BY <1>2, <1>3, <3>1, Types
  <2>4. QED  BY <1>1, <1>2, <1>3, <2>1, <2>2, <2>3 DEF StateInv, TypeOK
<1>7. StateInv'
  <2>1. \A p \in Process : FiringInv(p)'
    <3> SUFFICES ASSUME NEW p \in Process PROVE FiringInv(p)'
      OBVIOUS
    <3>1. FiringInv(p)
      BY <1>2 DEF StateInv
    <3>2. QED  BY <1>1, <1>2, <1>4, <3>1, FiringKept DEF FiringInv
  <2>2. \A s \in Scheduler : \A u \in dispatch[s].todo : created[u] <= now'
    <3> SUFFICES ASSUME NEW s \in Scheduler, NEW u \in dispatch[s].todo
                 PROVE  created[u] <= now'
      OBVIOUS
    <3>1. u \in Trigger /\ created[u] <= now
      BY <1>2, Types, Constants DEF StateInv
    <3>2. QED  BY <1>5, <3>1
  <2>3. QED  BY <1>1, <1>2, <1>5, <1>6, <2>1, <2>2 DEF StateInv
<1>8. EventInv'
  BY <1>1, <1>2 DEF EventInv, RowInv, SlotKeys
<1>9. LimitInv'
  <2>1. \A u \in Scheduled : SlotRows(u)' = SlotRows(u) /\ Starting(u)' = Starting(u)
    BY <1>1 DEF SlotRows, Starting, Accepted
  <2>2. QED  BY <1>2, <2>1, LimitKept
<1>10. ASSUME NEW s \in Scheduler PROVE SlotInv(s)'
  <2>1. SlotInv(s)
    BY DEF TriggersInv
  <2>2. QED  BY <1>1, <1>2, <2>1, SlotsKept
<1>11. QED  BY <1>7, <1>8, <1>9, <1>10 DEF TriggersInv

\* Runs end and are reopened: a reopened run no longer counts.
LEMMA RunInd ==
    ASSUME TriggersInv, NEW run \in Runs, RunEnds(run) \/ RetryRun(run)
    PROVE  TriggersInv'
<1>1. /\ active' \subseteq Runs /\ reopened' \subseteq Runs
      /\ active' \ reopened' \subseteq active \ reopened
      /\ UNCHANGED <<now, created, config, rows, dispatch, tx, answer, failed>>
  BY DEF TriggersInv, StateInv, TypeOK, RunEnds, RetryRun
<1>2. StateInv /\ EventInv /\ LimitInv
  BY DEF TriggersInv
<1>3. Runs' = Runs /\ Accepted' = Accepted
  BY <1>1 DEF Runs, Accepted
<1>4. StateInv'
  <2>1. \A p \in Process : FiringInv(p)'
    BY <1>1, <1>2 DEF StateInv, FiringInv, SlotKeys, resolvePlannedFireTime, resolveCronPlannedTime
  <2>2. TypeOK'
    BY <1>1, <1>2, <1>3 DEF StateInv, TypeOK
  <2>3. QED  BY <1>1, <1>2, <2>1, <2>2 DEF StateInv
<1>5. EventInv'
  BY <1>1, <1>2 DEF EventInv, RowInv, SlotKeys
<1>6. LimitInv'
  <2>1. \A u \in Scheduled : SlotRows(u)' \subseteq SlotRows(u) /\ Starting(u)' = Starting(u)
    BY <1>1, <1>3 DEF SlotRows, Starting, SlotKeys
  <2>2. QED  BY <1>2, <2>1, LimitKept
<1>7. ASSUME NEW s \in Scheduler PROVE SlotInv(s)'
  <2>1. SlotInv(s)
    BY DEF TriggersInv
  <2>2. QED  BY <1>1, <1>2, <2>1, SlotsKept
<1>8. QED  BY <1>4, <1>5, <1>6, <1>7 DEF TriggersInv

-----------------------------------------------------------------------------
(* A dispatch begins, a firing begins. *)

\* The new reading finds the slots since the last one, if they are in its reach.
LEMMA StartDispatchInd ==
    ASSUME TriggersInv, NEW s \in Scheduler, StartDispatch(s)
    PROVE  TriggersInv'
<1> DEFINE due == {t \in Scheduled : created[t] # Never /\ resolvePlannedFireTime(t, now) # {}}
           d == [last |-> dispatch[s].read, read |-> now, todo |-> due,
                 done |-> IF due = {} THEN now ELSE dispatch[s].done]
<1>1. /\ dispatch[s].todo = {} /\ ~tx[s].open
      /\ dispatch' = [dispatch EXCEPT ![s] = d]
      /\ UNCHANGED <<now, created, config, rows, active, reopened, tx, answer, failed>>
  BY DEF StartDispatch
<1>2. StateInv /\ EventInv /\ LimitInv
  BY DEF TriggersInv
<1>3. /\ now \in 0..MaxTime /\ now \in Int /\ dispatch \in [Scheduler -> DispatchType]
      /\ dispatch[s].read \in Int /\ dispatch[s].done \in Int /\ dispatch[s].done <= now
  BY <1>2, Types DEF StateInv, TypeOK
<1>4. /\ d \in DispatchType /\ d.last = dispatch[s].read /\ d.read = now /\ d.todo = due /\ d.done <= now
      /\ d.read <= d.done \/ d.todo # {}
  <2>1. due \subseteq Scheduled
    OBVIOUS
  <2> HIDE DEF due
  <2>2. QED  BY <1>3, <2>1 DEF DispatchType
<1>5. \A t \in due : t \in Scheduled /\ created[t] # Never
  OBVIOUS
<1>6. \A t \in Scheduled : created[t] # Never /\ resolvePlannedFireTime(t, now) # {} => t \in due
  OBVIOUS
<1> HIDE DEF due, d
<1>7. /\ dispatch' \in [Scheduler -> DispatchType] /\ dispatch'[s] = d
      /\ \A r \in Scheduler : r # s => dispatch'[r] = dispatch[r]
  BY <1>1, <1>3, <1>4
<1>8. TypeOK'
  <2>1. Runs' = Runs /\ Accepted' = Accepted
    BY <1>1 DEF Runs, Accepted
  <2>2. \A r \in Scheduler :
            /\ dispatch'[r].read <= dispatch'[r].done \/ dispatch'[r].todo # {}
            /\ dispatch'[r].read <= now /\ dispatch'[r].done <= now
    <3> SUFFICES ASSUME NEW r \in Scheduler
                 PROVE  /\ dispatch'[r].read <= dispatch'[r].done \/ dispatch'[r].todo # {}
                        /\ dispatch'[r].read <= now /\ dispatch'[r].done <= now
      OBVIOUS
    <3>1. CASE r = s
      BY <1>3, <1>4, <1>7, <3>1
    <3>2. CASE r # s
      BY <1>2, <1>7, <3>2 DEF StateInv, TypeOK
    <3>3. QED  BY <3>1, <3>2
  <2>3. QED  BY <1>1, <1>2, <1>7, <2>1, <2>2 DEF StateInv, TypeOK, DispatchType
<1>9. StateInv'
  <2>1. Kept
    BY <1>1, <1>3 DEF Kept
  <2>2. \A p \in Process : FiringInv(p)'
    <3> SUFFICES ASSUME NEW p \in Process PROVE FiringInv(p)'
      OBVIOUS
    <3>1. FiringInv(p) /\ tx'[p] = tx[p]
      BY <1>1, <1>2 DEF StateInv
    <3>2. p \in Scheduler /\ tx[p].open => dispatch'[p] = dispatch[p]
      BY <1>1, <1>7
    <3>3. QED  BY <1>2, <2>1, <3>1, <3>2, FiringKept DEF FiringInv
  <2>3. ASSUME NEW r \in Scheduler, NEW t \in dispatch'[r].todo PROVE created[t] <= now
    <3>1. CASE r = s
      <4>1. t \in Trigger /\ created[t] # Never
        BY <1>4, <1>5, <1>7, <2>3, <3>1, Constants
      <4>2. QED  BY <1>2, <4>1 DEF StateInv
    <3>2. CASE r # s
      BY <1>2, <1>7, <2>3, <3>2 DEF StateInv
    <3>3. QED  BY <3>1, <3>2
  <2>4. QED  BY <1>1, <1>2, <1>8, <2>2, <2>3 DEF StateInv
<1>10. EventInv'
  BY <1>1, <1>2 DEF EventInv, RowInv, SlotKeys
<1>11. LimitInv'
  <2>1. \A u \in Scheduled : SlotRows(u)' = SlotRows(u) /\ Starting(u)' = Starting(u)
    BY <1>1 DEF SlotRows, Starting, Accepted
  <2>2. QED  BY <1>2, <2>1, LimitKept
<1>12. ASSUME NEW r \in Scheduler PROVE SlotInv(r)'
  <2>1. SlotInv(r)
    BY DEF TriggersInv
  <2>2. CASE r = s
    <3> SUFFICES ASSUME NEW t \in Scheduled, NEW slot \in SlotsOf(t)', InReach(s, t, slot)'
                 PROVE  t \in due /\ slot \in resolvePlannedFireTime(t, now)'
      BY <1>1, <1>4, <1>7, <2>2 DEF SlotInv
    <3>1. slot \in SlotsOf(t) /\ slot \in 1..MaxTime /\ t \in Trigger
      BY <1>1, Constants DEF SlotsOf
    <3>2. /\ created[t] < slot /\ ~Crowded(t, slot)
          /\ dispatch[s].read < slot /\ slot <= now /\ now - dispatch[s].read <= Reach(t)
      BY <1>1, <1>4, <1>7 DEF InReach, Crowded, Reach
    <3>3. slot \in resolvePlannedFireTime(t, now)
      BY <1>3, <3>1, <3>2, ResolveFinds
    <3>4. created[t] # Never
      BY <3>1, <3>2, Constants
    <3>5. resolvePlannedFireTime(t, now)' = resolvePlannedFireTime(t, now)
      BY <1>1 DEF resolvePlannedFireTime, resolveCronPlannedTime
    <3>6. QED  BY <1>6, <3>3, <3>4, <3>5
  <2>3. CASE r # s
    BY <1>1, <1>2, <1>7, <2>1, <2>3, SlotsKept
  <2>4. QED  BY <2>2, <2>3
<1>13. QED  BY <1>9, <1>10, <1>11, <1>12 DEF TriggersInv

\* A firing begins: neither the dispatches nor the rows change.  A scheduler's
\* firing that will start a run has counted fewer runs than the limit.
LEMMA OpenInd ==
    ASSUME TriggersInv, NEW p \in Process, ~tx[p].open, NEW firing,
           firing.open = TRUE, firing.start \in BOOLEAN, firing.trigger \in Trigger,
           created[firing.trigger] <= now,
           p \in Scheduler =>
               /\ firing.trigger \in dispatch[p].todo
               /\ firing.start => hasScheduleCapacity(firing.trigger)
               /\ \E slot \in resolvePlannedFireTime(firing.trigger, dispatch[p].read) :
                      firing.keys = SlotKeys(firing.trigger, slot),
           p \in Client => firing.keys = RequestOf[p].keys /\ firing.start = TRUE,
           tx' = [tx EXCEPT ![p] = firing],
           UNCHANGED <<now, created, config, rows, active, reopened, dispatch, answer, failed>>
    PROVE  TriggersInv'
<1>1. StateInv /\ EventInv /\ LimitInv /\ \A s \in Scheduler : SlotInv(s)
  BY DEF TriggersInv
<1>2. /\ DOMAIN tx = Process /\ DOMAIN tx' = Process /\ tx'[p] = firing
      /\ \A q \in Process : q # p => tx'[q] = tx[q]
  BY <1>1 DEF StateInv, TypeOK
<1>3. Runs' = Runs /\ Accepted' = Accepted
  BY DEF Runs, Accepted
<1>4. TypeOK'
  <2>1. \A q \in Process : tx'[q].open \in BOOLEAN /\ tx'[q].start \in BOOLEAN
    <3> SUFFICES ASSUME NEW q \in Process PROVE tx'[q].open \in BOOLEAN /\ tx'[q].start \in BOOLEAN
      OBVIOUS
    <3>1. CASE q = p
      <4>1. firing.open \in BOOLEAN
        OBVIOUS
      <4>2. QED  BY <1>2, <3>1, <4>1
    <3>2. CASE q # p
      BY <1>1, <1>2, <3>2 DEF StateInv, TypeOK
    <3>3. QED  BY <3>1, <3>2
  <2>2. QED  BY <1>1, <1>2, <1>3, <2>1 DEF StateInv, TypeOK
<1>5. ASSUME NEW q \in Process PROVE FiringInv(q)'
  <2>1. CASE q = p
    BY <1>2, <2>1
       DEF FiringInv, SlotKeys, resolvePlannedFireTime, resolveCronPlannedTime
  <2>2. CASE q # p
    BY <1>1, <1>2, <2>2
       DEF StateInv, FiringInv, SlotKeys, resolvePlannedFireTime, resolveCronPlannedTime
  <2>3. QED  BY <2>1, <2>2
<1>6. StateInv'
  BY <1>1, <1>4, <1>5 DEF StateInv
<1>7. EventInv'
  BY <1>1 DEF EventInv, RowInv, SlotKeys
<1>8. \A t \in Scheduled : SlotRows(t)' = SlotRows(t)
  BY <1>3 DEF SlotRows, SlotKeys
<1>9. LimitInv'
  <2>1. CASE p \in Scheduler /\ firing.start
    <3> SUFFICES ASSUME NEW t \in Scheduled
                 PROVE  (Cardinality(SlotRows(t)) + Cardinality(Starting(t))
                            <= MaxParallel + Cardinality(Scheduler) - 1)'
      BY DEF LimitInv
    <3>1. /\ IsFiniteSet(SlotRows(t)) /\ Starting(t)' \subseteq Scheduler
          /\ IsFiniteSet(Starting(t)') /\ Cardinality(Starting(t)') <= Cardinality(Scheduler)
      <4>1. SlotRows(t) \subseteq rows /\ Starting(t)' \subseteq Scheduler
        BY DEF SlotRows, Accepted, Starting
      <4>2. QED  BY <1>1, <4>1, FS_Subset, TriggersAssumption DEF StateInv
    <3>2. /\ Cardinality(SlotRows(t)) \in Nat /\ Cardinality(Starting(t)') \in Nat
          /\ Cardinality(Scheduler) \in Nat /\ MaxParallel \in Nat \ {0}
      BY <3>1, FS_CardinalityType, TriggersAssumption
    <3>3. CASE t = firing.trigger
      <4> DEFINE counted == {row \in Accepted : row.trigger = t /\ row.run \in active}
      <4>1. SlotRows(t) \subseteq counted
        <5> SUFFICES ASSUME NEW row \in SlotRows(t) PROVE row.trigger = t
          BY DEF SlotRows
        <5>1. PICK n \in 0..MaxTime : row.keys = SlotKeys(t, n)
          BY DEF SlotRows
        <5>2. RowInv(row)
          BY <1>1 DEF EventInv, SlotRows, Accepted
        <5>3. QED  BY <5>1, <5>2, RowOfSlot, SlotKeysNotEmpty
      <4>2. IsFiniteSet(counted)
        <5>1. counted \subseteq rows
          BY DEF Accepted
        <5>2. QED  BY <1>1, <5>1, FS_Subset DEF StateInv
      <4>3. Cardinality(counted) < MaxParallel
        BY <2>1, <3>3 DEF hasScheduleCapacity
      <4> HIDE DEF counted
      <4>4. Cardinality(SlotRows(t)) <= Cardinality(counted) /\ Cardinality(counted) \in Nat
        BY <4>1, <4>2, FS_Subset, FS_CardinalityType
      <4>5. Cardinality(SlotRows(t)) + Cardinality(Starting(t)')
                <= MaxParallel + Cardinality(Scheduler) - 1
        BY <3>1, <3>2, <4>3, <4>4
      <4>6. QED  BY <1>8, <4>5
    <3>4. CASE t # firing.trigger
      <4>1. Starting(t)' = Starting(t)
        BY <1>2, <3>4 DEF Starting, Process
      <4>2. QED  BY <1>1, <1>8, <4>1 DEF LimitInv
    <3>5. QED  BY <3>3, <3>4
  <2>2. CASE ~(p \in Scheduler /\ firing.start)
    <3>1. \A t \in Scheduled : Starting(t)' \subseteq Starting(t)
      BY <1>2, <2>2 DEF Starting, Process
    <3>2. QED  BY <1>1, <1>8, <3>1, LimitKept
  <2>3. QED  BY <2>1, <2>2
<1>10. \A s \in Scheduler : SlotInv(s)'
  BY <1>1, SlotsKept
<1>11. QED  BY <1>6, <1>7, <1>9, <1>10 DEF TriggersInv

-----------------------------------------------------------------------------
(* A firing ends: it commits, is refused or fails, or there was none. *)

LEMMA EndStep ==
    ASSUME TriggersInv, NEW p \in Process, NEW t, Proceed(p, t),
           p \in Scheduler =>
               /\ t \in dispatch[p].todo
               /\ \A slot \in resolvePlannedFireTime(t, dispatch[p].read) : Settled(t, slot)',
           \/ tx' = tx /\ ~tx[p].open
           \/ tx' = [tx EXCEPT ![p] = Closed],
           rows \subseteq rows', failed \subseteq failed',
           UNCHANGED <<now, created, config>>
    PROVE  /\ dispatch' \in [Scheduler -> DispatchType] /\ DOMAIN tx' = Process
           /\ \A s \in Scheduler :
                /\ dispatch'[s].read <= dispatch'[s].done \/ dispatch'[s].todo # {}
                /\ dispatch'[s].read <= now' /\ dispatch'[s].done <= now'
                /\ \A u \in dispatch'[s].todo : created[u] <= now
                /\ SlotInv(s)'
           /\ \A q \in Process : /\ tx'[q].open \in BOOLEAN /\ tx'[q].start \in BOOLEAN
                                 /\ FiringInv(q)'
           /\ \A u : Starting(u)' = Starting(u) \ {p}
<1>1. StateInv /\ \A s \in Scheduler : SlotInv(s)
  BY DEF TriggersInv
<1>2. /\ dispatch' \in [Scheduler -> DispatchType]
      /\ \A s \in Scheduler :
           /\ dispatch'[s].read = dispatch[s].read /\ dispatch'[s].last = dispatch[s].last
           /\ dispatch'[s].todo = IF s = p THEN dispatch[s].todo \ {t} ELSE dispatch[s].todo
           /\ dispatch'[s].read <= dispatch'[s].done \/ dispatch'[s].todo # {}
           /\ dispatch'[s].read <= now' /\ dispatch'[s].done <= now'
  BY <1>1, ProceedStep
<1>3. ~Closed.open /\ Closed.open \in BOOLEAN /\ Closed.start \in BOOLEAN
  BY DEF Closed
<1>4. /\ DOMAIN tx = Process /\ DOMAIN tx' = Process /\ ~tx'[p].open
      /\ \A q \in Process : q # p => tx'[q] = tx[q]
      /\ tx'[p] = tx[p] \/ tx'[p] = Closed
  BY <1>1, <1>3 DEF StateInv, TypeOK
<1>5. \A q \in Process : tx'[q].open \in BOOLEAN /\ tx'[q].start \in BOOLEAN
  BY <1>1, <1>3, <1>4 DEF StateInv, TypeOK
<1>6. Kept
  BY <1>1, Types DEF Kept
<1>7. ASSUME NEW q \in Process PROVE FiringInv(q)'
  <2>1. CASE q = p
    BY <1>4, <2>1 DEF FiringInv
  <2>2. CASE q # p
    <3>1. q \in Scheduler /\ tx[q].open =>
              /\ dispatch'[q].read = dispatch[q].read
              /\ tx[q].trigger \in dispatch'[q].todo
      BY <1>1, <1>2, <2>2 DEF StateInv, FiringInv
    <3>2. QED  BY <1>1, <1>4, <1>6, <2>2, <3>1, FiringKept
  <2>3. QED  BY <2>1, <2>2
<1>8. \A s \in Scheduler : \A u \in dispatch'[s].todo : created[u] <= now
  BY <1>1, <1>2 DEF StateInv
<1>9. ASSUME NEW s \in Scheduler PROVE SlotInv(s)'
  <2>1. \A u \in dispatch[s].todo \ dispatch'[s].todo :
            \A slot \in resolvePlannedFireTime(u, dispatch[s].read) : Settled(u, slot)'
    BY <1>2
  <2>2. dispatch'[s].last = dispatch[s].last /\ dispatch'[s].read = dispatch[s].read
    BY <1>2
  <2>3. \A u \in Scheduled : \A slot \in SlotsOf(u)' : created'[u] < slot =>
            created[u] < slot /\ config'[u] = config[u]
    OBVIOUS
  <2>4. QED  BY <1>1, <2>1, <2>2, <2>3, SlotsKept
<1>10. \A u : Starting(u)' = Starting(u) \ {p}
  BY <1>4 DEF Starting, Process
<1>11. QED  BY <1>2, <1>4, <1>5, <1>7, <1>8, <1>9, <1>10

\* Nothing is inserted: there was a row already, or the firing failed.
LEMMA EndInd ==
    ASSUME TriggersInv, NEW p \in Process, NEW t, Proceed(p, t),
           p \in Scheduler =>
               /\ t \in dispatch[p].todo
               /\ \A slot \in resolvePlannedFireTime(t, dispatch[p].read) : Settled(t, slot)',
           \/ tx' = tx /\ ~tx[p].open
           \/ tx' = [tx EXCEPT ![p] = Closed],
           failed \subseteq failed',
           UNCHANGED <<now, created, config, rows, active, reopened, answer>>
    PROVE  TriggersInv'
<1>1. StateInv /\ EventInv /\ LimitInv
  BY DEF TriggersInv
<1>2. /\ dispatch' \in [Scheduler -> DispatchType] /\ DOMAIN tx' = Process
      /\ \A s \in Scheduler :
           /\ dispatch'[s].read <= dispatch'[s].done \/ dispatch'[s].todo # {}
           /\ dispatch'[s].read <= now' /\ dispatch'[s].done <= now'
           /\ \A u \in dispatch'[s].todo : created[u] <= now
           /\ SlotInv(s)'
      /\ \A q \in Process : /\ tx'[q].open \in BOOLEAN /\ tx'[q].start \in BOOLEAN
                            /\ FiringInv(q)'
      /\ \A u : Starting(u)' = Starting(u) \ {p}
  BY EndStep
<1>3. Runs' = Runs /\ Accepted' = Accepted
  BY DEF Runs, Accepted
<1>4. TypeOK'
  BY <1>1, <1>2, <1>3 DEF StateInv, TypeOK, DispatchType
<1>5. StateInv'
  BY <1>1, <1>2, <1>4 DEF StateInv
<1>6. EventInv'
  BY <1>1 DEF EventInv, RowInv, SlotKeys
<1>7. LimitInv'
  <2>1. \A u \in Scheduled : SlotRows(u)' = SlotRows(u) /\ Starting(u)' \subseteq Starting(u)
    BY <1>2, <1>3 DEF SlotRows, SlotKeys
  <2>2. QED  BY <1>1, <2>1, LimitKept
<1>8. QED  BY <1>2, <1>5, <1>6, <1>7 DEF TriggersInv

\* A scheduler's slot that shares a key with a row is settled.
LEMMA DuplicateIsSettled ==
    ASSUME EventInv, NEW t, NEW slot, NEW row \in rows, SlotKeys(t, slot) \cap row.keys # {}
    PROVE  Settled(t, slot)
<1>1. row.keys = SlotKeys(t, slot)
  BY RowOfSlot DEF EventInv
<1>2. QED  BY <1>1 DEF Settled

LEMMA FireScheduledInd ==
    ASSUME TriggersInv, NEW s \in Scheduler, NEW t \in Scheduled, fireScheduled(s, t)
    PROVE  TriggersInv'
<1>1. /\ StateInv /\ EventInv /\ s \in Process /\ s \notin Client
      /\ dispatch[s].read \in Int /\ t \in Trigger
  BY Types, TriggersAssumption DEF TriggersInv, Process, Trigger
<1>2. t \in dispatch[s].todo /\ ~tx[s].open
      /\ UNCHANGED <<now, created, config, rows, active, reopened, answer, failed>>
  BY DEF fireScheduled
<1>3. PICK slot \in resolvePlannedFireTime(t, dispatch[s].read) :
          IF findDuplicate(SlotKeys(t, slot)) # {}
          THEN Proceed(s, t) /\ tx' = tx
          ELSE /\ tx' = [tx EXCEPT ![s] = [open |-> TRUE, trigger |-> t,
                                           keys |-> SlotKeys(t, slot),
                                           start |-> hasScheduleCapacity(t)]]
               /\ UNCHANGED dispatch
  BY DEF fireScheduled
<1>4. CASE findDuplicate(SlotKeys(t, slot)) # {}
  <2>1. Settled(t, slot)
    <3>1. PICK row \in rows : SlotKeys(t, slot) \cap row.keys # {}
      BY <1>4 DEF findDuplicate
    <3>2. QED  BY <1>1, <3>1, DuplicateIsSettled
  <2>2. \A other \in resolvePlannedFireTime(t, dispatch[s].read) : Settled(t, other)'
    <3>1. Settled(t, slot)'
      BY <1>2, <2>1 DEF Settled, SlotKeys
    <3>2. \A other \in resolvePlannedFireTime(t, dispatch[s].read) : other = slot
      BY <1>1, <1>3, ResolveOne
    <3>3. QED  BY <3>1, <3>2
  <2>3. Proceed(s, t) /\ tx' = tx
    BY <1>3, <1>4
  <2>4. QED  BY <1>1, <1>2, <2>2, <2>3, EndInd
<1>5. CASE findDuplicate(SlotKeys(t, slot)) = {}
  <2> DEFINE firing == [open |-> TRUE, trigger |-> t, keys |-> SlotKeys(t, slot),
                        start |-> hasScheduleCapacity(t)]
  <2>1. tx' = [tx EXCEPT ![s] = firing] /\ UNCHANGED dispatch
    BY <1>3, <1>5
  <2>2. hasScheduleCapacity(t) \in BOOLEAN
    BY DEF hasScheduleCapacity
  <2>3. /\ firing.open = TRUE /\ firing.trigger = t /\ firing.keys = SlotKeys(t, slot)
        /\ firing.start = hasScheduleCapacity(t)
    OBVIOUS
  <2> HIDE DEF firing
  <2>4. created[t] <= now
    BY <1>1, <1>2 DEF StateInv
  <2>5. QED  BY <1>1, <1>2, <1>3, <2>1, <2>2, <2>3, <2>4, OpenInd
<1>6. QED  BY <1>4, <1>5

LEMMA DeliverEventInd ==
    ASSUME TriggersInv, NEW c \in Client, DeliverEvent(c)
    PROVE  TriggersInv'
<1>1. /\ StateInv /\ EventInv /\ LimitInv /\ c \in Process /\ c \notin Scheduler
      /\ RequestOf[c].trigger \in Trigger
  BY TriggersAssumption DEF TriggersInv, Process, Trigger
<1>2. /\ ~tx[c].open /\ created[RequestOf[c].trigger] # Never
      /\ UNCHANGED <<now, created, config, rows, active, reopened, dispatch, failed>>
  BY DEF DeliverEvent
<1>3. ASSUME NEW row \in findDuplicate(RequestOf[c].keys),
             answer' = [answer EXCEPT ![c] = row.run], UNCHANGED tx
      PROVE  TriggersInv'
  <2>1. row \in rows /\ RowInv(row) /\ RequestOf[c].keys \cap row.keys # {}
    BY <1>1 DEF findDuplicate, EventInv
  <2>2. row.keys = RequestOf[c].keys
    BY <2>1, RowOfRequest
  <2>3. Runs' = Runs /\ Accepted' = Accepted /\ row.run \in Runs \cup {0}
    BY <1>2, <2>1 DEF Runs, Accepted
  <2>4. TypeOK'
    BY <1>1, <1>2, <1>3, <2>3 DEF StateInv, TypeOK
  <2>5. StateInv'
    <3>1. \A p \in Process : FiringInv(p)'
      BY <1>1, <1>2, <1>3
         DEF StateInv, FiringInv, SlotKeys, resolvePlannedFireTime, resolveCronPlannedTime
    <3>2. QED  BY <1>1, <1>2, <2>4, <3>1 DEF StateInv
  <2>6. EventInv'
    <3>1. \A d \in Client : answer'[d] # 0 =>
              \E x \in rows : x.run = answer'[d] /\ x.keys = RequestOf[d].keys
      BY <1>1, <1>3, <2>1, <2>2 DEF StateInv, TypeOK, EventInv
    <3>2. QED  BY <1>1, <1>2, <3>1 DEF EventInv, RowInv, SlotKeys
  <2>7. LimitInv'
    <3>1. \A u \in Scheduled : SlotRows(u)' = SlotRows(u) /\ Starting(u)' = Starting(u)
      BY <1>2, <1>3 DEF SlotRows, Starting, Accepted
    <3>2. QED  BY <1>1, <3>1, LimitKept
  <2>8. \A s \in Scheduler : SlotInv(s)'
    BY <1>1, <1>2, SlotsKept DEF TriggersInv
  <2>9. QED  BY <2>5, <2>6, <2>7, <2>8 DEF TriggersInv
<1>4. ASSUME tx' = [tx EXCEPT ![c] = [open |-> TRUE, trigger |-> RequestOf[c].trigger,
                                      keys |-> RequestOf[c].keys, start |-> TRUE]],
             UNCHANGED answer
      PROVE  TriggersInv'
  <2>1. created[RequestOf[c].trigger] <= now
    BY <1>1, <1>2 DEF StateInv
  <2>2. QED  BY <1>1, <1>2, <1>4, <2>1, OpenInd
<1>5. QED  BY <1>3, <1>4 DEF DeliverEvent

\* The slot of a scheduler's open firing is the one it was due for.
LEMMA FiringOfScheduler ==
    ASSUME StateInv, NEW p \in Scheduler, tx[p].open
    PROVE  /\ tx[p].trigger \in dispatch[p].todo /\ tx[p].trigger \in Scheduled
           /\ \A slot \in resolvePlannedFireTime(tx[p].trigger, dispatch[p].read) :
                  slot \in Int /\ tx[p].keys = SlotKeys(tx[p].trigger, slot)
           /\ \E slot \in Int : tx[p].keys = SlotKeys(tx[p].trigger, slot)
<1>1. /\ p \in Process /\ FiringInv(p) /\ dispatch[p].todo \subseteq Scheduled
      /\ dispatch[p].read \in Int
  BY Types DEF StateInv, Process
<1>2. PICK slot \in resolvePlannedFireTime(tx[p].trigger, dispatch[p].read) :
          tx[p].keys = SlotKeys(tx[p].trigger, slot)
  BY <1>1 DEF FiringInv
<1>3. \A other \in resolvePlannedFireTime(tx[p].trigger, dispatch[p].read) :
          other = slot /\ other \in Int
  BY <1>1, <1>2, ResolveOne
<1>4. tx[p].trigger \in dispatch[p].todo /\ tx[p].trigger \in Scheduled
  BY <1>1 DEF FiringInv
<1>5. QED  BY <1>2, <1>3, <1>4

LEMMA RefusedInd ==
    ASSUME TriggersInv, NEW p \in Process, Refused(p)
    PROVE  TriggersInv'
<1>1. PICK t : t = tx[p].trigger
  OBVIOUS
<1>2. /\ tx[p].open /\ ~ConstraintsHold(tx[p].keys) /\ Proceed(p, t)
      /\ tx' = [tx EXCEPT ![p] = Closed]
      /\ UNCHANGED <<now, created, config, rows, active, reopened, answer, failed>>
  BY <1>1 DEF Refused
<1>3. StateInv /\ EventInv
  BY DEF TriggersInv
<1>4. ASSUME p \in Scheduler, NEW slot \in resolvePlannedFireTime(t, dispatch[p].read)
      PROVE  Settled(t, slot)'
  <2>1. tx[p].keys = SlotKeys(t, slot)
    BY <1>1, <1>2, <1>3, <1>4, FiringOfScheduler
  <2>2. PICK row \in rows : tx[p].keys \cap row.keys # {}
    BY <1>2 DEF ConstraintsHold
  <2>3. Settled(t, slot)
    BY <1>3, <2>1, <2>2, DuplicateIsSettled
  <2>4. QED  BY <1>2, <2>3 DEF Settled, SlotKeys
<1>5. p \in Scheduler => t \in dispatch[p].todo
  BY <1>1, <1>2, <1>3, FiringOfScheduler
<1>6. QED  BY <1>2, <1>4, <1>5, EndInd

LEMMA FiringFailsInd ==
    ASSUME TriggersInv, NEW p \in Process, FiringFails(p)
    PROVE  TriggersInv'
<1>1. PICK t : t = tx[p].trigger
  OBVIOUS
<1>2. /\ tx[p].open /\ failed' = failed \cup {tx[p].keys} /\ Proceed(p, t)
      /\ tx' = [tx EXCEPT ![p] = Closed]
      /\ UNCHANGED <<now, created, config, rows, active, reopened, answer>>
  BY <1>1 DEF FiringFails
<1>3. StateInv
  BY DEF TriggersInv
<1>4. ASSUME p \in Scheduler, NEW slot \in resolvePlannedFireTime(t, dispatch[p].read)
      PROVE  Settled(t, slot)'
  <2>1. SlotKeys(t, slot) \in failed'
    BY <1>1, <1>2, <1>3, <1>4, FiringOfScheduler
  <2>2. QED  BY <2>1 DEF Settled, SlotKeys
<1>5. p \in Scheduler => t \in dispatch[p].todo
  BY <1>1, <1>2, <1>3, FiringOfScheduler
<1>6. QED  BY <1>2, <1>4, <1>5, EndInd

\* A commit adds a row, and the next run if the firing starts one.
LEMMA CommitInd ==
    ASSUME TriggersInv, NEW p \in Process, Commit(p)
    PROVE  TriggersInv'
<1>1. PICK t, keys, run, new :
          /\ t = tx[p].trigger /\ keys = tx[p].keys
          /\ run = IF tx[p].start THEN Cardinality(Accepted) + 1 ELSE 0
          /\ new = [trigger |-> t, keys |-> keys, run |-> run]
  OBVIOUS
<1>2. /\ tx[p].open /\ ConstraintsHold(keys) /\ Proceed(p, t)
      /\ tx' = [tx EXCEPT ![p] = Closed]
      /\ rows' = rows \cup {new}
      /\ active' = IF tx[p].start THEN active \cup {run} ELSE active
      /\ answer' = IF p \in Client THEN [answer EXCEPT ![p] = run] ELSE answer
      /\ UNCHANGED <<now, created, config, reopened, failed>>
  BY <1>1 DEF Commit
<1>3. /\ StateInv /\ EventInv /\ LimitInv /\ TypeOK /\ FiringInv(p)
      /\ tx[p].start \in BOOLEAN /\ IsFiniteSet(rows)
  BY DEF TriggersInv, StateInv, TypeOK
<1>4. new.trigger = t /\ new.keys = keys /\ new.run = run
  BY <1>1
<1>5. /\ IsFiniteSet(Accepted) /\ Cardinality(Accepted) \in Nat /\ run \in Nat
  <2>1. Accepted \subseteq rows
    BY DEF Accepted
  <2>2. IsFiniteSet(Accepted) /\ Cardinality(Accepted) \in Nat
    BY <1>3, <2>1, FS_Subset, FS_CardinalityType
  <2>3. QED  BY <1>1, <2>2
<1>6. /\ p \in Scheduler => /\ t \in dispatch[p].todo /\ t \in Scheduled
                            /\ \E slot \in Int : keys = SlotKeys(t, slot)
      /\ p \in Client => keys = RequestOf[p].keys
      /\ p \in Scheduler \/ p \in Client
  BY <1>1, <1>2, <1>3, FiringOfScheduler DEF FiringInv, Process
<1>7. ASSUME p \in Scheduler, NEW slot \in resolvePlannedFireTime(t, dispatch[p].read)
      PROVE  Settled(t, slot)'
  <2>1. SlotKeys(t, slot) = new.keys /\ new \in rows'
    BY <1>1, <1>2, <1>3, <1>4, <1>7, FiringOfScheduler
  <2>2. QED  BY <2>1 DEF Settled, SlotKeys
<1>8. /\ dispatch' \in [Scheduler -> DispatchType] /\ DOMAIN tx' = Process
      /\ \A s \in Scheduler :
           /\ dispatch'[s].read <= dispatch'[s].done \/ dispatch'[s].todo # {}
           /\ dispatch'[s].read <= now' /\ dispatch'[s].done <= now'
           /\ \A u \in dispatch'[s].todo : created[u] <= now
           /\ SlotInv(s)'
      /\ \A q \in Process : /\ tx'[q].open \in BOOLEAN /\ tx'[q].start \in BOOLEAN
                            /\ FiringInv(q)'
      /\ \A u : Starting(u)' = Starting(u) \ {p}
  BY <1>2, <1>6, <1>7, EndStep
<1>9. /\ Runs = 1..Cardinality(Accepted) /\ active \subseteq Runs /\ reopened \subseteq Runs
      /\ \A row \in Accepted : row.run \in Runs
  BY <1>3 DEF TypeOK, Runs
<1>10. CASE ~tx[p].start
  <2>1. run = 0 /\ active' = active
    BY <1>1, <1>2, <1>10
  <2>2. Accepted' = Accepted /\ Runs' = Runs
    BY <1>2, <1>4, <2>1 DEF Accepted, Runs
  <2>3. QED
    <3>1. TypeOK' /\ IsFiniteSet(rows')
      <4>1. \A row \in rows' : /\ row.trigger \in Trigger /\ row.run \in Nat
                               /\ created[row.trigger] <= now
        BY <1>1, <1>2, <1>3, <1>4, <1>5 DEF TypeOK, FiringInv
      <4>2. answer' \in [Client -> Runs \cup {0}]
        BY <1>2, <1>3, <2>1 DEF TypeOK
      <4>3. IsFiniteSet(rows')
        BY <1>2, <1>3, FS_AddElement
      <4>4. QED  BY <1>2, <1>3, <1>8, <2>1, <2>2, <4>1, <4>2, <4>3 DEF TypeOK, DispatchType
    <3>2. StateInv'
      BY <1>2, <1>3, <1>8, <3>1 DEF StateInv
    <3>3. p \notin Client
      BY <1>2, <1>3, <1>10 DEF FiringInv
    <3>4. EventInv'
      <4>1. \A row \in rows' : RowInv(row)
        BY <1>2, <1>3, <1>4, <1>6 DEF EventInv, RowInv
      <4>2. \A x, y \in rows' : x.keys \cap y.keys # {} => x = y
        BY <1>2, <1>3, <1>4 DEF EventInv, ConstraintsHold
      <4>3. QED  BY <1>2, <1>3, <3>3, <4>1, <4>2 DEF EventInv, RowInv, SlotKeys
    <3>5. LimitInv'
      <4>1. \A u \in Scheduled : SlotRows(u)' = SlotRows(u) /\ Starting(u)' \subseteq Starting(u)
        BY <1>2, <1>8, <2>1, <2>2 DEF SlotRows, SlotKeys
      <4>2. QED  BY <1>3, <4>1, LimitKept
    <3>6. QED  BY <1>8, <3>2, <3>4, <3>5 DEF TriggersInv
<1>11. CASE tx[p].start
  <2>1. run = Cardinality(Accepted) + 1 /\ active' = active \cup {run} /\ run # 0
    BY <1>1, <1>2, <1>5, <1>11
  <2>2. Accepted' = Accepted \cup {new} /\ Runs' = Runs \cup {run} /\ run \notin Runs
    <3>1. Accepted' = Accepted \cup {new}
      BY <1>2, <1>4, <2>1 DEF Accepted
    <3>2. QED  BY <1>4, <1>5, <1>9, <2>1, <3>1 DEF Runs
  <2>3. new \notin Accepted /\ Cardinality(Accepted') = Cardinality(Accepted) + 1
    BY <1>4, <1>5, <1>9, <2>2, FS_AddElement
  <2>4. Runs' = 1..Cardinality(Accepted')
    BY <1>5, <1>9, <2>1, <2>2, <2>3
  <2>5. TypeOK' /\ IsFiniteSet(rows')
    <3>1. \A row \in rows' : /\ row.trigger \in Trigger /\ row.run \in Nat
                             /\ created[row.trigger] <= now
      BY <1>1, <1>2, <1>3, <1>4, <1>5 DEF TypeOK, FiringInv
    <3>2. answer' \in [Client -> Runs' \cup {0}]
      BY <1>2, <1>3, <2>2 DEF TypeOK
    <3>3. IsFiniteSet(rows')
      BY <1>2, <1>3, FS_AddElement
    <3>4. active' \subseteq Runs' /\ reopened' \subseteq Runs'
      BY <1>2, <1>9, <2>1, <2>2
    <3>5. QED  BY <1>2, <1>3, <1>8, <2>4, <3>1, <3>2, <3>3, <3>4 DEF TypeOK, DispatchType
  <2>6. StateInv'
    BY <1>2, <1>3, <1>8, <2>5 DEF StateInv
  <2>7. EventInv'
    <3>1. \A row \in rows' : RowInv(row)
      BY <1>2, <1>3, <1>4, <1>6 DEF EventInv, RowInv
    <3>2. \A x, y \in rows' : x.keys \cap y.keys # {} => x = y
      BY <1>2, <1>3, <1>4 DEF EventInv, ConstraintsHold
    <3>3. \A c \in Client : answer'[c] # 0 =>
              \E row \in rows' : row.run = answer'[c] /\ row.keys = RequestOf[c].keys
      BY <1>2, <1>3, <1>4, <1>6 DEF EventInv, TypeOK
    <3>4. QED  BY <3>1, <3>2, <3>3 DEF EventInv, RowInv, SlotKeys
  <2>8. \A u \in Scheduled : \/ SlotRows(u)' \subseteq SlotRows(u)
                             \/ p \in Scheduler /\ u = t /\ SlotRows(u)' \subseteq SlotRows(u) \cup {new}
    <3> SUFFICES ASSUME NEW u \in Scheduled, NEW row \in SlotRows(u)', row \notin SlotRows(u)
                 PROVE  row = new /\ p \in Scheduler /\ u = t
      OBVIOUS
    <3>1. PICK n \in 0..MaxTime : row.keys = SlotKeys(u, n)
      BY DEF SlotRows, SlotKeys
    <3>2. row \in Accepted' /\ row.run \in active' \ reopened'
      BY DEF SlotRows
    <3>3. row = new
      <4> SUFFICES ASSUME row \in Accepted PROVE FALSE
        BY <2>2, <3>2
      <4>1. row.run \in active \ reopened
        BY <1>2, <1>9, <2>1, <2>2, <3>2
      <4>2. QED  BY <3>1, <4>1 DEF SlotRows
    <3>4. p \in Scheduler
      BY <1>4, <1>6, <3>1, <3>3, SlotKeysAreNoRequest, SlotKeysNotEmpty
    <3>5. u = t
      BY <1>4, <1>6, <3>1, <3>3, <3>4, SlotKeysDiffer, SlotKeysNotEmpty
    <3>6. QED  BY <3>3, <3>4, <3>5
  <2>9. LimitInv'
    <3> SUFFICES ASSUME NEW u \in Scheduled
                 PROVE  (Cardinality(SlotRows(u)) + Cardinality(Starting(u))
                            <= MaxParallel + Cardinality(Scheduler) - 1)'
      BY DEF LimitInv
    <3>1. IsFiniteSet(SlotRows(u)) /\ IsFiniteSet(Starting(u))
      <4>1. SlotRows(u) \subseteq rows /\ Starting(u) \subseteq Scheduler
        BY DEF SlotRows, Accepted, Starting
      <4>2. QED  BY <1>3, <4>1, FS_Subset, TriggersAssumption
    <3>2. /\ Cardinality(SlotRows(u)) + Cardinality(Starting(u))
                 <= MaxParallel + Cardinality(Scheduler) - 1
          /\ Cardinality(SlotRows(u)) \in Nat /\ Cardinality(Starting(u)) \in Nat
          /\ Cardinality(Scheduler) \in Nat /\ MaxParallel \in Nat
      BY <1>3, <3>1, FS_CardinalityType, TriggersAssumption DEF LimitInv
    <3>3. Starting(u)' = Starting(u) \ {p} /\ IsFiniteSet(Starting(u) \ {p})
          /\ Cardinality(Starting(u) \ {p}) \in Nat
      BY <1>8, <3>1, FS_RemoveElement, FS_CardinalityType
    <3>4. CASE SlotRows(u)' \subseteq SlotRows(u)
      <4>1. /\ Cardinality(SlotRows(u)') <= Cardinality(SlotRows(u))
            /\ Cardinality(SlotRows(u)') \in Nat
        BY <3>1, <3>4, FS_Subset, FS_CardinalityType
      <4>2. Cardinality(Starting(u) \ {p}) <= Cardinality(Starting(u))
        <5>1. Starting(u) \ {p} \in SUBSET Starting(u)
          OBVIOUS
        <5>2. QED  BY <3>1, <5>1, FS_Subset
      <4>3. QED  BY <3>2, <3>3, <4>1, <4>2
    <3>5. CASE p \in Scheduler /\ u = t /\ SlotRows(u)' \subseteq SlotRows(u) \cup {new}
      <4>1. p \in Starting(u)
        BY <1>1, <1>2, <1>11, <3>5 DEF Starting
      <4>2. Cardinality(Starting(u) \ {p}) = Cardinality(Starting(u)) - 1
        BY <3>1, <4>1, FS_RemoveElement
      <4>3. /\ IsFiniteSet(SlotRows(u) \cup {new})
            /\ Cardinality(SlotRows(u) \cup {new}) <= Cardinality(SlotRows(u)) + 1
            /\ Cardinality(SlotRows(u) \cup {new}) \in Nat
        <5>1. /\ IsFiniteSet(SlotRows(u) \cup {new})
              /\ Cardinality(SlotRows(u) \cup {new}) =
                     IF new \in SlotRows(u) THEN Cardinality(SlotRows(u))
                     ELSE Cardinality(SlotRows(u)) + 1
          BY <3>1, FS_AddElement
        <5>2. QED  BY <3>2, <5>1
      <4>4. /\ Cardinality(SlotRows(u)') <= Cardinality(SlotRows(u) \cup {new})
            /\ Cardinality(SlotRows(u)') \in Nat
        BY <3>5, <4>3, FS_Subset, FS_CardinalityType
      <4>5. QED  BY <3>2, <3>3, <4>2, <4>3, <4>4
    <3>6. QED  BY <2>8, <3>4, <3>5
  <2>10. QED  BY <1>8, <2>6, <2>7, <2>9 DEF TriggersInv
<1>12. QED  BY <1>10, <1>11

-----------------------------------------------------------------------------
\* Every step of every scheduler, client and run keeps the invariant.
LEMMA StepTriggersInv == TriggersInv /\ [Next]_vars => TriggersInv'
<1> SUFFICES ASSUME TriggersInv, [Next]_vars PROVE TriggersInv'
  OBVIOUS
<1>1. ASSUME NEW t \in Trigger, NEW kind \in {"cron", "interval"}, create(t, kind)
      PROVE  TriggersInv'
  BY <1>1, CreateInd
<1>2. ASSUME NEW s \in Scheduler, StartDispatch(s) PROVE TriggersInv'
  BY <1>2, StartDispatchInd
<1>3. ASSUME NEW s \in Scheduler, NEW t \in Scheduled, fireScheduled(s, t) PROVE TriggersInv'
  BY <1>3, FireScheduledInd
<1>4. ASSUME NEW c \in Client, DeliverEvent(c) PROVE TriggersInv'
  BY <1>4, DeliverEventInd
<1>5. ASSUME NEW p \in Process, Commit(p) \/ Refused(p) \/ FiringFails(p) PROVE TriggersInv'
  BY <1>5, CommitInd, RefusedInd, FiringFailsInd
<1>6. ASSUME NEW run \in Runs, RunEnds(run) \/ RetryRun(run) PROVE TriggersInv'
  BY <1>6, RunInd
<1>7. CASE Tick
  BY <1>7, TickInd
<1>8. CASE UNCHANGED vars
  <2>1. Runs' = Runs /\ Accepted' = Accepted
    BY <1>8 DEF vars, Runs, Accepted
  <2>2. TypeOK'
    BY <1>8, <2>1 DEF vars, TriggersInv, StateInv, TypeOK
  <2>3. \A p \in Process : FiringInv(p)'
    BY <1>8 DEF vars, TriggersInv, StateInv, FiringInv, SlotKeys, resolvePlannedFireTime,
                resolveCronPlannedTime
  <2>4. StateInv'
    BY <1>8, <2>2, <2>3 DEF vars, TriggersInv, StateInv
  <2>5. EventInv'
    BY <1>8 DEF vars, TriggersInv, EventInv, RowInv, SlotKeys
  <2>6. LimitInv'
    <3>1. \A u \in Scheduled : SlotRows(u)' = SlotRows(u) /\ Starting(u)' = Starting(u)
      BY <1>8, <2>1 DEF vars, SlotRows, Starting, SlotKeys
    <3>2. QED  BY <3>1, LimitKept DEF TriggersInv
  <2>7. \A s \in Scheduler : SlotInv(s)'
    BY <1>8, SlotsKept DEF vars, TriggersInv
  <2>8. QED  BY <2>4, <2>5, <2>6, <2>7 DEF TriggersInv
<1>9. QED
  BY <1>1, <1>2, <1>3, <1>4, <1>5, <1>6, <1>7, <1>8 DEF Next

\* The invariant holds in every reachable state.
LEMMA TriggersInvariance == Spec => []TriggersInv
BY InitTriggersInv, StepTriggersInv, PTL DEF Spec

\* The types: runs are numbered without a gap, rows and dispatches are of
\* triggers that exist (StartDispatch, Commit).
THEOREM TriggersTypes == Spec => []TypeOK
<1>1. TriggersInv => TypeOK
  BY DEF TriggersInv, StateInv
<1>2. QED  BY <1>1, TriggersInvariance, PTL

\* An event starts one run, however often and to however many masters it is
\* delivered (findDuplicate, the unique indexes of trigger_event).
THEOREM EventsStartOneRun == Spec => []OneRunPerEvent
<1>1. TriggersInv => OneRunPerEvent
  <2> SUFFICES ASSUME EventInv PROVE OneRunPerEvent
    BY DEF TriggersInv
  <2>1. ASSUME NEW c \in Client, NEW d \in Client,
               RequestOf[c].keys \cap RequestOf[d].keys # {}, answer[c] # 0, answer[d] # 0
        PROVE  answer[c] = answer[d]
    <3>1. PICK x \in rows : x.run = answer[c] /\ x.keys = RequestOf[c].keys
      BY <2>1 DEF EventInv
    <3>2. PICK y \in rows : y.run = answer[d] /\ y.keys = RequestOf[d].keys
      BY <2>1 DEF EventInv
    <3>3. x = y
      BY <2>1, <3>1, <3>2 DEF EventInv
    <3>4. QED  BY <3>1, <3>2, <3>3
  <2>2. QED  BY <2>1 DEF EventInv, OneRunPerEvent
<1>2. QED  BY <1>1, TriggersInvariance, PTL

\* The limit of max_parallel_runs is exceeded by at most one run for each
\* further master (hasScheduleCapacity, fireScheduled).
THEOREM OvershootIsBounded == Spec => []OvershootBounded
<1>1. TriggersInv => OvershootBounded
  <2> SUFFICES ASSUME StateInv, LimitInv, NEW t \in Scheduled
               PROVE  Cardinality(SlotRows(t)) <= MaxParallel + Cardinality(Scheduler) - 1
    BY DEF TriggersInv, OvershootBounded
  <2>1. SlotRows(t) \subseteq rows /\ Starting(t) \subseteq Scheduler
    BY DEF SlotRows, Accepted, Starting
  <2>2. /\ Cardinality(SlotRows(t)) \in Nat /\ Cardinality(Starting(t)) \in Nat
        /\ Cardinality(Scheduler) \in Nat /\ MaxParallel \in Nat
    BY <2>1, FS_Subset, FS_CardinalityType, TriggersAssumption DEF StateInv
  <2>3. QED  BY <2>2 DEF LimitInv
<1>2. QED  BY <1>1, TriggersInvariance, PTL

\* A single master keeps the documented limit, whatever clients, failures and
\* retries happen around its scheduler (hasScheduleCapacity, fireScheduled).
THEOREM OneMasterKeepsTheLimit ==
    ASSUME Cardinality(Scheduler) = 1
    PROVE  Spec => []ParallelRunsLimited
<1>1. OvershootBounded => ParallelRunsLimited
  BY TriggersAssumption DEF OvershootBounded, ParallelRunsLimited
<1>2. QED  BY <1>1, OvershootIsBounded, PTL

\* A slot is lost only if every master was late for it: the window of
\* resolveCronPlannedTime, or the interval, reaches back to the last reading.
THEOREM SlotsAreNotSkipped == Spec => []NoSlotSkipped
<1>1. TriggersInv => NoSlotSkipped
  BY DEF TriggersInv, SlotInv, Settled, NoSlotSkipped
<1>2. QED  BY <1>1, TriggersInvariance, PTL

=============================================================================
