-------------------------- MODULE LlmMutatorProofs --------------------------
(***************************************************************************)
(* Proofs about LlmMutator for any number of producers, candidates and     *)
(* connections, any queue and sample size, and however often calls are     *)
(* made, replies are late, frames are cut off and the server restarts.     *)
(***************************************************************************)
EXTENDS LlmMutator, FiniteSetTheorems, SequenceTheorems, TLAPS

\* The steps at which no reply is awaited.
Calm == {"idle", "reconnectFetch", "reconnectFeedback", "request", "feedback"}

\* What a thread relies on between two of its steps.
ThreadOK(l) ==
    /\ l.thread \in {"payload", "data"} => l.left > 0
    /\ l.thread \in {"reply", "data"} => l.item # 0
    /\ l.thread = "data" => l.left <= Size[l.item]

\* The types, what the steps and the threads may rely on, and the output.
LocalInv ==
    /\ TypeOK
    /\ at \in {"header", "body", "drain"} => sock # NoConnection
    /\ at \in {"body", "drain"} => call.payload > 0
    /\ at # "idle" => calls > 0
    /\ call.input > 0 => call.input \in Lengths
    /\ \A k \in Connection : ThreadOK(link[k])
    /\ OutputFits

-----------------------------------------------------------------------------
\* The candidates in the queue.
Queued == {queue[i] : i \in 1..Len(queue)}

\* The candidates taken from the queue that no call has been given.
Loose == {c \in 1..generated : c \notin delivered \cup inHand \cup Queued}

\* A candidate is in one place only, and each hit used up one.
StockInv ==
    /\ delivered \cup inHand \cup Queued \subseteq 1..generated
    /\ delivered \cap inHand = {} /\ Queued \cap (delivered \cup inHand) = {}
    /\ \A i, j \in 1..Len(queue) : queue[i] = queue[j] => i = j
    /\ hits = Cardinality(delivered)

\* Only a call that reads a candidate has read something.
FreshInv == at \notin {"body", "drain"} => call.from = {} /\ call.read = 0

NoRequest(up) == \A i \in 1..Len(up) : up[i][1] # "G"

\* Nothing is under way on l.
Quiet(l) == l.down = <<>> /\ l.thread \notin {"reply", "data"} /\ NoRequest(l.up)

\* The request is not answered yet; it is the last unit sent, if not lost.
Asked(l) ==
    /\ l.down = <<>> /\ l.thread \notin {"reply", "data"}
    /\ \A i \in 1..Len(l.up) : l.up[i][1] = "G" => i = Len(l.up)

Answering(l) == l.down = <<>> /\ l.thread = "reply" /\ NoRequest(l.up)

Refused(l) ==
    /\ Len(l.down) = 1 /\ l.down[1][2] = 0
    /\ l.thread \notin {"reply", "data"} /\ NoRequest(l.up)

\* Of the todo bytes of c, those in down are under way; the thread sends the
\* rest unless it has died.
Receiving(l, down, todo, c) ==
    /\ NoRequest(l.up) /\ l.thread # "reply"
    /\ \A i \in 1..Len(down) : down[i][3] = c
    /\ Len(down) <= todo
    /\ l.thread = "data" => l.item = c /\ Len(down) + l.left = todo
    /\ l.thread \notin {"data", "gone"} => Len(down) = todo

Answered(l, c) ==
    /\ l.down # <<>> /\ l.down[1][2] = Size[c]
    /\ Receiving(l, Tail(l.down), Size[c], c)

\* What is under way on the mutator's connection l at step a of call cl.
Phase(a, cl, l, loose) ==
    /\ a \in Calm => Quiet(l)
    /\ a = "header" => \/ Asked(l) \/ Refused(l)
                       \/ Answering(l) /\ l.item \in loose
                       \/ \E c \in loose : Answered(l, c)
    /\ a \in {"body", "drain"} =>
        \E c \in loose :
            /\ cl.from \subseteq {c} /\ cl.payload = Size[c] /\ cl.read < cl.payload
            /\ Receiving(l, l.down, cl.payload - cl.read, c)

ReplyInv == sock # NoConnection => Phase(at, call, link[sock], Loose)

-----------------------------------------------------------------------------
\* A sample the mutator sends.
IsSample(s) == s[1] \in 1..MaxCalls /\ s[2] \in Lengths /\ s[2] > 0

\* The unit u may come behind the unit p: frames come one after another, and
\* each in order.
Complete(p) == p[1] = "G" \/ (p[1] = "byte" /\ p[2] = p[3][2])
Follows(p, u) ==
    /\ Complete(p) => u[1] = "G" \/ (u[1] = "A" /\ IsSample(u[3]))
    /\ ~Complete(p) => /\ u[3] = p[3] /\ IsSample(u[3])
                       /\ p[1] = "A" => u[1] = "length" /\ u[2] = u[3][2]
                       /\ p[1] = "length" => u[1] = "byte" /\ u[2] = 1
                       /\ p[1] = "byte" => u[1] = "byte" /\ u[2] = p[2] + 1

Chain(p, up) == \A i \in 1..Len(up) : Follows(IF i = 1 THEN p ELSE up[i - 1], up[i])

LastUnit(p, up) == IF up = <<>> THEN p ELSE up[Len(up)]

\* The unit that a thread has read last; whether the request it answers or a
\* sample it has registered makes no difference.
Behind(l, p) ==
    /\ p \in UpUnit
    /\ l.thread \in {"opcode", "reply", "data"} => Complete(p)
    /\ l.thread = "length" => p[1] = "A" /\ IsSample(p[3])
    /\ l.thread = "payload" =>
        /\ IsSample(p[3])
        /\ Len(l.sample) + l.left = p[3][2]
        /\ \A i \in 1..Len(l.sample) : l.sample[i] = <<"byte", i, p[3]>>
        /\ l.sample = <<>> => p[1] = "length"
        /\ l.sample # <<>> => p = l.sample[Len(l.sample)]

\* A thread that is not dead reads the frames in order; on the connection that
\* the mutator keeps the last frame is complete.
StreamOf(l, kept) ==
    l.thread \notin {"none", "gone"} =>
        \E p \in UpUnit : /\ Behind(l, p) /\ Chain(p, l.up)
                          /\ kept => Complete(LastUnit(p, l.up))

FeedbackInv ==
    /\ \A k \in Connection : StreamOf(link[k], k = sock)
    /\ FeedbackIsWhole
-----------------------------------------------------------------------------
LEMMA Candidates ==
    /\ Cardinality(Candidate) \in Nat /\ 0 \notin Candidate /\ Candidate \subseteq Nat
    /\ IsFiniteSet(Candidate)
BY CandidateAssumption, FS_CardinalityType

\* A link, a new one and one without a peer.
LEMMA Links == NoLink \in Link /\ NewLink \in Link /\ DeadLink \in Link
<1>1. NoLink \in Link
  BY DEF NoLink, Link, ThreadStep
<1>2. NewLink \in Link
  BY <1>1 DEF NewLink, Link, ThreadStep
<1>3. DeadLink \in Link
  BY <1>1 DEF DeadLink, Link, ThreadStep
<1>4. QED  BY <1>1, <1>2, <1>3

LEMMA NewLinkFields ==
    /\ NewLink.up = <<>> /\ NewLink.down = <<>> /\ NewLink.open = TRUE
    /\ NewLink.thread = "opcode" /\ NewLink.left = 0 /\ NewLink.item = 0
    /\ NewLink.sample = <<>>
BY DEF NoLink, NewLink

LEMMA DeadLinkFields ==
    /\ DeadLink.up = <<>> /\ DeadLink.down = <<>> /\ DeadLink.open = FALSE
    /\ DeadLink.thread = "gone" /\ DeadLink.left = 0 /\ DeadLink.item = 0
    /\ DeadLink.sample = <<>>
BY DEF NoLink, DeadLink

LEMMA NoCallType ==
    /\ NoCall \in Call
    /\ \A n \in Nat : [NoCall EXCEPT !.room = n] \in Call
    /\ \A n \in Nat : [NoCall EXCEPT !.input = n] \in Call
BY DEF NoCall, Call

\* What drop_connection makes of a link.
LEMMA ClosedLink ==
    ASSUME NEW l \in Link
    PROVE  /\ Closed(l) \in Link
           /\ Closed(l).up \in {<<>>, l.up} /\ Closed(l).down = <<>>
           /\ Closed(l).thread = l.thread
           /\ l.thread # "gone" => /\ Closed(l).left = l.left /\ Closed(l).item = l.item
                                   /\ Closed(l).sample = l.sample /\ Closed(l).up = l.up
<1>1. CASE l.thread = "gone"
  BY <1>1, Links, DeadLinkFields DEF Closed
<1>2. CASE l.thread # "gone"
  <2>1. <<>> \in Seq(DownUnit)
    OBVIOUS
  <2>2. QED  BY <1>2, <2>1 DEF Closed, Link
<1>3. QED  BY <1>1, <1>2

\* The length of the output of a miss.
LEMMA FallbackFits ==
    ASSUME NEW input \in Nat, NEW room \in Nat, room > 0,
           NEW n \in cheap_fallback_mutation(input, room)
    PROVE  n \in 1..room
BY DEF cheap_fallback_mutation, min_size

LEMMA FallbackNat ==
    ASSUME NEW input \in Nat, NEW room \in Nat, NEW n \in cheap_fallback_mutation(input, room)
    PROVE  n \in Nat
BY DEF cheap_fallback_mutation, min_size

-----------------------------------------------------------------------------
\* What the steps of a server thread do to the connections.

\* Only the connection k may change, to one that is as it should be.
OnlyLink(k) ==
    /\ link' \in [Connection -> Link] /\ ThreadOK(link'[k])
    /\ \A j \in Connection : j # k => link'[j] = link[j]

LEMMA Replace ==
    ASSUME link \in [Connection -> Link], NEW k \in Connection, NEW l \in Link, ThreadOK(l),
           link' = [link EXCEPT ![k] = l]
    PROVE  OnlyLink(k) /\ link'[k] = l
BY DEF OnlyLink

LEMMA Units ==
    ASSUME NEW s, NEW u \in Seq(s), u # <<>>
    PROVE  Head(u) \in s /\ Tail(u) \in Seq(s) /\ Len(u) > 0 /\ Head(u) = u[1]
OBVIOUS

LEMMA ReadLengthEffect ==
    ASSUME LocalInv, NEW k \in Connection, ReadLength(k)
    PROVE  /\ OnlyLink(k)
           /\ link'[k].up = Tail(link[k].up) /\ link'[k].down = link[k].down
           /\ link'[k].open = link[k].open
           /\ link'[k].left = Unit(k)[2] /\ link'[k].sample = <<>>
           /\ link'[k].thread = IF Unit(k)[2] \in 1..MaxSample THEN "payload" ELSE "gone"
<1>1. link \in [Connection -> Link] /\ link[k] \in Link /\ ThreadOK(link[k])
  BY DEF LocalInv, TypeOK
<1>2. link[k].up \in Seq(UpUnit) /\ link[k].up # <<>> /\ <<>> \in Seq(UpUnit)
  BY <1>1 DEF Link, ReadLength, Got
<1>3. Unit(k) \in UpUnit /\ Tail(link[k].up) \in Seq(UpUnit) /\ Unit(k)[2] \in Nat
  BY <1>2, Units DEF Unit, UpUnit
<1> DEFINE step == IF Unit(k)[2] \in 1..MaxSample THEN "payload" ELSE "gone"
           l == [link[k] EXCEPT !.up = Tail(link[k].up), !.left = Unit(k)[2],
                                !.sample = <<>>, !.thread = step]
<1>4. link' = [link EXCEPT ![k] = l]
  BY <1>1 DEF ReadLength, Link
<1>5. step \in ThreadStep
  BY DEF ThreadStep
<1>6. /\ l \in Link /\ l.up = Tail(link[k].up) /\ l.down = link[k].down
      /\ l.open = link[k].open /\ l.left = Unit(k)[2] /\ l.sample = <<>>
      /\ l.thread = step
  BY <1>1, <1>2, <1>3, <1>5 DEF Link
<1>7. ThreadOK(l)
  BY <1>3, <1>6, LimitAssumption DEF ThreadOK
<1> HIDE DEF l
<1>8. OnlyLink(k) /\ link'[k] = l
  BY <1>1, <1>4, <1>6, <1>7, Replace
<1>9. QED  BY <1>6, <1>8

LEMMA ReadPayloadEffect ==
    ASSUME LocalInv, NEW k \in Connection, ReadPayload(k)
    PROVE  /\ OnlyLink(k)
           /\ link'[k].up = Tail(link[k].up) /\ link'[k].down = link[k].down
           /\ link'[k].open = link[k].open
           /\ \/ /\ link[k].left = 1 /\ link'[k].thread = "opcode"
                 /\ corpus' = corpus \cup {Append(link[k].sample, Unit(k))}
              \/ /\ link[k].left > 1 /\ link'[k].thread = "payload"
                 /\ link'[k].left = link[k].left - 1 /\ corpus' = corpus
                 /\ link'[k].sample = Append(link[k].sample, Unit(k))
<1>1. link \in [Connection -> Link] /\ link[k] \in Link /\ ThreadOK(link[k])
  BY DEF LocalInv, TypeOK
<1>2. /\ link[k].up \in Seq(UpUnit) /\ link[k].up # <<>> /\ <<>> \in Seq(UpUnit)
      /\ link[k].thread = "payload" /\ link[k].left \in Nat /\ link[k].left > 0
      /\ link[k].sample \in Seq(UpUnit)
  BY <1>1 DEF Link, ReadPayload, Got, ThreadOK
<1>3. Unit(k) \in UpUnit /\ Tail(link[k].up) \in Seq(UpUnit)
  BY <1>2, Units DEF Unit
<1> DEFINE whole == Append(link[k].sample, Unit(k))
           last == link[k].left = 1
           sample == IF last THEN <<>> ELSE whole
           step == IF last THEN "opcode" ELSE link[k].thread
           l == [link[k] EXCEPT !.up = Tail(link[k].up), !.left = link[k].left - 1,
                                !.sample = sample, !.thread = step]
<1>4. link' = [link EXCEPT ![k] = l]
  BY <1>1 DEF ReadPayload, Link
<1>5. step \in ThreadStep /\ whole \in Seq(UpUnit) /\ sample \in Seq(UpUnit)
      /\ link[k].left - 1 \in Nat
  BY <1>2, <1>3 DEF ThreadStep
<1> HIDE DEF step, sample, whole
<1>6. /\ l \in Link /\ l.up = Tail(link[k].up) /\ l.down = link[k].down
      /\ l.open = link[k].open /\ l.left = link[k].left - 1 /\ l.sample = sample
      /\ l.thread = step
  BY <1>1, <1>2, <1>3, <1>5 DEF Link
<1> HIDE DEF l
<1>7. ThreadOK(l)
  BY <1>2, <1>6 DEF ThreadOK, step
<1>8. OnlyLink(k) /\ link'[k] = l
  BY <1>1, <1>4, <1>6, <1>7, Replace
<1>9. corpus' = IF last THEN corpus \cup {whole} ELSE corpus
  BY DEF ReadPayload, whole
<1>10. CASE last
  BY <1>6, <1>8, <1>9, <1>10 DEF step, whole
<1>11. CASE ~last
  <2>1. link[k].left > 1
    BY <1>2, <1>11
  <2>2. QED  BY <1>2, <1>6, <1>8, <1>9, <1>11, <2>1 DEF step, whole, sample
<1>12. QED  BY <1>10, <1>11

LEMMA SendHeaderEffect ==
    ASSUME LocalInv, NEW k \in Connection, SendHeader(k)
    PROVE  /\ OnlyLink(k)
           /\ link'[k].up = link[k].up /\ link'[k].thread = "data"
           /\ link[k].item \in Candidate /\ Size[link[k].item] \in Nat \ {0}
           /\ link[k].down \in Seq(DownUnit)
           /\ link'[k].down = Append(link[k].down,
                                     <<"length", Size[link[k].item], link[k].item>>)
           /\ link'[k].item = link[k].item /\ link'[k].left = Size[link[k].item]
<1>1. link \in [Connection -> Link] /\ link[k] \in Link /\ ThreadOK(link[k])
  BY DEF LocalInv, TypeOK
<1>2. /\ link[k].down \in Seq(DownUnit) /\ link[k].item \in Candidate
      /\ Size[link[k].item] \in Nat \ {0}
  BY <1>1, SizeAssumption DEF Link, SendHeader, ThreadOK
<1> DEFINE u == <<"length", Size[link[k].item], link[k].item>>
           l == [link[k] EXCEPT !.down = Append(link[k].down, u), !.thread = "data",
                                !.left = Size[link[k].item]]
<1>3. u \in DownUnit /\ Append(link[k].down, u) \in Seq(DownUnit)
  BY <1>2 DEF DownUnit
<1>4. link' = [link EXCEPT ![k] = l]
  BY <1>1 DEF SendHeader, Link
<1> HIDE DEF u
<1>5. "data" \in ThreadStep
  BY DEF ThreadStep
<1>6. /\ l \in Link /\ l.up = link[k].up /\ l.down = Append(link[k].down, u)
      /\ l.left = Size[link[k].item] /\ l.thread = "data" /\ l.item = link[k].item
  BY <1>1, <1>2, <1>3, <1>5 DEF Link
<1> HIDE DEF l
<1>7. ThreadOK(l)
  BY <1>2, <1>6, Candidates DEF ThreadOK
<1>8. OnlyLink(k) /\ link'[k] = l
  BY <1>1, <1>4, <1>6, <1>7, Replace
<1>9. QED  BY <1>2, <1>6, <1>8 DEF u

LEMMA SendDataEffect ==
    ASSUME LocalInv, NEW k \in Connection, SendData(k)
    PROVE  /\ OnlyLink(k)
           /\ link'[k].up = link[k].up
           /\ link[k].item \in Candidate /\ link[k].left \in Nat \ {0}
           /\ link[k].down \in Seq(DownUnit)
           /\ \E u \in DownUnit : /\ link'[k].down = Append(link[k].down, u)
                                  /\ u[3] = link[k].item
           /\ \/ link[k].left = 1 /\ link'[k].thread = "opcode"
              \/ /\ link[k].left > 1 /\ link'[k].thread = "data"
                 /\ link'[k].left = link[k].left - 1 /\ link'[k].item = link[k].item
<1>1. link \in [Connection -> Link] /\ link[k] \in Link /\ ThreadOK(link[k])
  BY DEF LocalInv, TypeOK
<1>2. /\ link[k].down \in Seq(DownUnit) /\ link[k].item \in Candidate
      /\ Size[link[k].item] \in Nat /\ link[k].left \in Nat \ {0}
      /\ link[k].left <= Size[link[k].item] /\ link[k].thread = "data"
  BY <1>1, SizeAssumption DEF Link, SendData, ThreadOK
<1> DEFINE i == Size[link[k].item] - link[k].left + 1
           u == <<"byte", i, link[k].item>>
           item == IF link[k].left = 1 THEN 0 ELSE link[k].item
           step == IF link[k].left = 1 THEN "opcode" ELSE link[k].thread
           l == [link[k] EXCEPT !.down = Append(link[k].down, u), !.left = link[k].left - 1,
                                !.item = item, !.thread = step]
<1>3. i \in Nat
  BY <1>2
<1>4. link' = [link EXCEPT ![k] = l]
  BY <1>1 DEF SendData, Link
<1>5. /\ u \in DownUnit /\ u[3] = link[k].item
      /\ step \in ThreadStep /\ item \in Candidate \cup {0} /\ link[k].left - 1 \in Nat
  BY <1>2, <1>3 DEF DownUnit, ThreadStep
<1> HIDE DEF u, item, step
<1>6. Append(link[k].down, u) \in Seq(DownUnit)
  BY <1>2, <1>5
<1>7. /\ l \in Link /\ l.up = link[k].up /\ l.down = Append(link[k].down, u)
      /\ l.left = link[k].left - 1 /\ l.thread = step /\ l.item = item
  BY <1>1, <1>2, <1>5, <1>6 DEF Link
<1> HIDE DEF l
<1>8. ThreadOK(l)
  BY <1>2, <1>7, Candidates DEF ThreadOK, step, item
<1>9. OnlyLink(k) /\ link'[k] = l
  BY <1>1, <1>4, <1>7, <1>8, Replace
<1>10. QED  BY <1>2, <1>5, <1>7, <1>9 DEF step, item

\* The four ways in which an opcode is dealt with.
Refuse(k) ==
    /\ queue = <<>> /\ queue' = queue
    /\ link'[k].down \in {link[k].down, Append(link[k].down, <<"length", 0, 0>>)}
    /\ link'[k].thread = "opcode" /\ Unit(k)[1] = "G"
Serve(k) ==
    /\ queue # <<>> /\ queue' = Tail(queue)
    /\ link'[k].down = link[k].down /\ link'[k].item = Head(queue)
    /\ link'[k].thread = "reply" /\ Unit(k)[1] = "G"
Accept(k) ==
    /\ queue' = queue /\ link'[k].down = link[k].down
    /\ link'[k].thread = "length" /\ Unit(k)[1] = "A"
Reject(k) ==
    /\ queue' = queue /\ link'[k].down = link[k].down
    /\ link'[k].thread = "gone" /\ Unit(k)[1] \notin {"G", "A"}

LEMMA ReadOpcodeEffect ==
    ASSUME LocalInv, NEW k \in Connection, ReadOpcode(k)
    PROVE  /\ OnlyLink(k)
           /\ link'[k].up = Tail(link[k].up)
           /\ Refuse(k) \/ Serve(k) \/ Accept(k) \/ Reject(k)
<1>1. link \in [Connection -> Link] /\ link[k] \in Link /\ ThreadOK(link[k])
      /\ queue \in Seq(Candidate)
  BY DEF LocalInv, TypeOK
<1>2. /\ link[k].up \in Seq(UpUnit) /\ link[k].up # <<>>
      /\ link[k].thread = "opcode" /\ link[k].down \in Seq(DownUnit)
  BY <1>1 DEF Link, ReadOpcode, Got
<1>3. Unit(k) \in UpUnit /\ Tail(link[k].up) \in Seq(UpUnit)
  BY <1>2, Units DEF Unit
<1>4. CASE Unit(k)[1] = "G" /\ queue = <<>>
  <2> DEFINE down == IF link[k].open THEN Append(link[k].down, <<"length", 0, 0>>)
                                     ELSE link[k].down
             l == [link[k] EXCEPT !.up = Tail(link[k].up), !.down = down]
  <2>1. <<"length", 0, 0>> \in DownUnit
    BY DEF DownUnit
  <2>2. down \in Seq(DownUnit)
    BY <1>2, <2>1
  <2>3. link' = [link EXCEPT ![k] = l] /\ queue' = queue
    BY <1>1, <1>4 DEF ReadOpcode, Link
  <2>4. down \in {link[k].down, Append(link[k].down, <<"length", 0, 0>>)}
    OBVIOUS
  <2> HIDE DEF down
  <2>5. /\ l \in Link /\ l.up = Tail(link[k].up) /\ l.down = down /\ l.thread = "opcode"
    BY <1>1, <1>2, <1>3, <2>2 DEF Link
  <2> HIDE DEF l
  <2>6. ThreadOK(l)
    BY <2>5 DEF ThreadOK
  <2>7. OnlyLink(k) /\ link'[k] = l
    BY <1>1, <2>3, <2>5, <2>6, Replace
  <2>8. QED  BY <1>4, <2>3, <2>4, <2>5, <2>7 DEF Refuse
<1>5. CASE Unit(k)[1] = "G" /\ queue # <<>>
  <2> DEFINE l == [link[k] EXCEPT !.up = Tail(link[k].up), !.thread = "reply",
                                  !.item = Head(queue)]
  <2>1. Head(queue) \in Candidate /\ "reply" \in ThreadStep
    BY <1>1, <1>5, Units DEF ThreadStep
  <2>2. link' = [link EXCEPT ![k] = l] /\ queue' = Tail(queue)
    BY <1>1, <1>5 DEF ReadOpcode, Link, get_nowait
  <2>3. /\ l \in Link /\ l.up = Tail(link[k].up) /\ l.down = link[k].down
        /\ l.thread = "reply" /\ l.item = Head(queue)
    BY <1>1, <1>2, <1>3, <2>1 DEF Link
  <2> HIDE DEF l
  <2>4. ThreadOK(l)
    BY <2>1, <2>3, Candidates DEF ThreadOK
  <2>5. OnlyLink(k) /\ link'[k] = l
    BY <1>1, <2>2, <2>3, <2>4, Replace
  <2>6. QED  BY <1>5, <2>2, <2>3, <2>5 DEF Serve
<1>6. CASE Unit(k)[1] # "G"
  <2> DEFINE step == IF Unit(k)[1] = "A" THEN "length" ELSE "gone"
             l == [link[k] EXCEPT !.up = Tail(link[k].up), !.thread = step]
  <2>1. step \in ThreadStep
    BY DEF ThreadStep
  <2>2. link' = [link EXCEPT ![k] = l] /\ queue' = queue
    BY <1>1, <1>6 DEF ReadOpcode, Link
  <2>3. /\ l \in Link /\ l.up = Tail(link[k].up) /\ l.down = link[k].down
        /\ l.thread = step
    BY <1>1, <1>2, <1>3, <2>1 DEF Link
  <2> HIDE DEF l
  <2>4. ThreadOK(l)
    BY <2>3 DEF ThreadOK
  <2>5. OnlyLink(k) /\ link'[k] = l
    BY <1>1, <2>2, <2>3, <2>4, Replace
  <2>6. QED  BY <1>6, <2>2, <2>3, <2>5 DEF Accept, Reject
<1>7. QED  BY <1>4, <1>5, <1>6

LEMMA ThreadEndsEffect ==
    ASSUME LocalInv, NEW k \in Connection, ThreadEnds(k)
    PROVE  OnlyLink(k) /\ link'[k] = DeadLink
<1>1. link \in [Connection -> Link]
  BY DEF LocalInv, TypeOK
<1>2. ThreadOK(DeadLink)
  BY DeadLinkFields DEF ThreadOK
<1>3. QED  BY <1>1, <1>2, Links, Replace DEF ThreadEnds

\* Restart leaves of a connection in use only what is on its way to the mutator.
LEMMA RestartEffect ==
    ASSUME LocalInv, Restart
    PROVE  /\ link' \in [Connection -> Link]
           /\ \A k \in Connection :
                /\ ThreadOK(link'[k])
                /\ \/ link'[k] = link[k] /\ link[k].thread = "none"
                   \/ /\ link'[k].up = <<>> /\ link'[k].down = link[k].down
                      /\ link'[k].thread = "gone"
<1>1. link \in [Connection -> Link] /\ \A k \in Connection : ThreadOK(link[k])
  BY DEF LocalInv, TypeOK
<1> DEFINE l(k) == [DeadLink EXCEPT !.open = link[k].open, !.down = link[k].down]
<1>2. ASSUME NEW k \in Connection
      PROVE  /\ l(k) \in Link /\ l(k).up = <<>> /\ l(k).down = link[k].down
             /\ l(k).thread = "gone"
  <2>1. link[k] \in Link
    BY <1>1
  <2>2. QED  BY <2>1, Links, DeadLinkFields DEF Link
<1>3. ASSUME NEW k \in Connection PROVE ThreadOK(l(k))
  <2> HIDE DEF l
  <2>1. QED  BY <1>2 DEF ThreadOK
<1>4. link' = [k \in Connection |-> IF link[k].thread = "none" THEN link[k] ELSE l(k)]
  BY DEF Restart
<1> HIDE DEF l
<1>5. link' \in [Connection -> Link]
  BY <1>1, <1>2, <1>4
<1>6. QED  BY <1>1, <1>2, <1>3, <1>4, <1>5

-----------------------------------------------------------------------------
\* What the steps of the mutator do to the connections.

\* The parts of a link that only the server changes.
SameThread(l, m) ==
    /\ m.thread = l.thread /\ m.left = l.left /\ m.item = l.item /\ m.sample = l.sample

LEMMA DropEffect ==
    ASSUME LocalInv, sock # NoConnection, drop_connection
    PROVE  /\ OnlyLink(sock) /\ sock' = NoConnection
           /\ link'[sock] = Closed(link[sock])
<1>1. link \in [Connection -> Link] /\ sock \in Connection /\ ThreadOK(link[sock])
  BY DEF LocalInv, TypeOK
<1>2. link[sock] \in Link
  BY <1>1
<1>3. Closed(link[sock]) \in Link /\ ThreadOK(Closed(link[sock]))
  BY <1>1, <1>2, ClosedLink DEF ThreadOK
<1>4. link' = [link EXCEPT ![sock] = Closed(link[sock])] /\ sock' = NoConnection
  BY <1>1 DEF drop_connection
<1>5. QED  BY <1>1, <1>3, <1>4, Replace

LEMMA ConnectEffect ==
    ASSUME LocalInv, made < MaxConnections, Connect(made + 1)
    PROVE  /\ sock' \in Connection /\ made' \in 0..MaxConnections
           /\ OnlyLink(sock') /\ link'[sock'] = NewLink
<1>1. link \in [Connection -> Link]
  BY DEF LocalInv, TypeOK
<1>2. /\ sock' = made + 1 /\ made' = made + 1 /\ made + 1 \in Connection
      /\ made' \in 0..MaxConnections
  BY LimitAssumption DEF LocalInv, TypeOK, Connection, Connect
<1>3. ThreadOK(NewLink)
  BY NewLinkFields DEF ThreadOK
<1>4. link' = [link EXCEPT ![made + 1] = NewLink]
  BY DEF Connect
<1>5. OnlyLink(made + 1) /\ link'[made + 1] = NewLink
  BY <1>1, <1>2, <1>3, <1>4, Links, Replace
<1>6. QED  BY <1>2, <1>5

LEMMA TakeEffect ==
    ASSUME LocalInv, sock # NoConnection, link[sock].down # <<>>, Take
    PROVE  /\ OnlyLink(sock)
           /\ link[sock].down \in Seq(DownUnit)
           /\ link'[sock].up = link[sock].up /\ link'[sock].down = Tail(link[sock].down)
           /\ SameThread(link[sock], link'[sock])
           /\ NextUnit \in DownUnit /\ NextUnit = link[sock].down[1]
<1>1. link \in [Connection -> Link] /\ sock \in Connection /\ ThreadOK(link[sock])
  BY DEF LocalInv, TypeOK
<1>2. link[sock] \in Link /\ link[sock].down \in Seq(DownUnit)
  BY <1>1 DEF Link
<1>3. /\ NextUnit \in DownUnit /\ NextUnit = link[sock].down[1]
      /\ Tail(link[sock].down) \in Seq(DownUnit)
  BY <1>2, Units DEF NextUnit
<1> DEFINE l == [link[sock] EXCEPT !.down = Tail(link[sock].down)]
<1>4. link' = [link EXCEPT ![sock] = l]
  BY <1>1 DEF Take, Link
<1>5. /\ l \in Link /\ l.up = link[sock].up /\ l.down = Tail(link[sock].down)
      /\ SameThread(link[sock], l)
  BY <1>2, <1>3 DEF Link, SameThread
<1> HIDE DEF l
<1>6. ThreadOK(l)
  BY <1>1, <1>5 DEF ThreadOK, SameThread
<1>7. OnlyLink(sock) /\ link'[sock] = l
  BY <1>1, <1>4, <1>5, <1>6, Replace
<1>8. QED  BY <1>2, <1>3, <1>5, <1>7

GetUnit == <<"G", 0, <<0, 0>>>>

LEMMA AskEffect ==
    ASSUME LocalInv, sock # NoConnection,
           link' = [link EXCEPT ![sock].up = Append(@, <<"G", 0, <<0, 0>>>>)]
    PROVE  /\ OnlyLink(sock)
           /\ link[sock].up \in Seq(UpUnit) /\ GetUnit \in UpUnit
           /\ link'[sock].up = Append(link[sock].up, GetUnit)
           /\ link'[sock].down = link[sock].down /\ SameThread(link[sock], link'[sock])
<1>1. link \in [Connection -> Link] /\ sock \in Connection /\ ThreadOK(link[sock])
  BY DEF LocalInv, TypeOK
<1>2. link[sock] \in Link /\ link[sock].up \in Seq(UpUnit)
  BY <1>1 DEF Link
<1>3. GetUnit \in UpUnit
  BY DEF GetUnit, UpUnit
<1>4. Append(link[sock].up, GetUnit) \in Seq(UpUnit)
  BY <1>2, <1>3
<1> DEFINE l == [link[sock] EXCEPT !.up = Append(link[sock].up, GetUnit)]
<1>5. link' = [link EXCEPT ![sock] = l]
  BY <1>1 DEF Link, GetUnit
<1>6. /\ l \in Link /\ l.up = Append(link[sock].up, GetUnit)
      /\ l.down = link[sock].down /\ SameThread(link[sock], l)
  BY <1>2, <1>4 DEF Link, SameThread
<1> HIDE DEF l
<1>7. ThreadOK(l)
  BY <1>1, <1>6 DEF ThreadOK, SameThread
<1>8. OnlyLink(sock) /\ link'[sock] = l
  BY <1>1, <1>5, <1>6, <1>7, Replace
<1>9. QED  BY <1>2, <1>3, <1>6, <1>8

\* The units of a frame, one by one.
LEMMA FrameUnits ==
    ASSUME LocalInv
    PROVE  /\ Frame \in Seq(UpUnit) /\ Len(Frame) = call.input + 2 /\ call.input \in Nat
           /\ Frame[1] = <<"A", 0, Sample>> /\ Frame[2] = <<"length", call.input, Sample>>
           /\ \A i \in 3..call.input + 2 : Frame[i] = <<"byte", i - 2, Sample>>
<1>1. call.input \in Nat /\ calls \in Nat
  BY LimitAssumption DEF LocalInv, TypeOK, Call
<1>2. Sample \in Nat \X Nat
  BY <1>1 DEF Sample
<1> DEFINE a == <<"A", 0, Sample>>
           b == <<"length", call.input, Sample>>
           d == [i \in 1..call.input |-> <<"byte", i, Sample>>]
<1>3. a \in UpUnit /\ b \in UpUnit
  BY <1>1, <1>2 DEF UpUnit
<1>4. \A i \in 1..call.input : <<"byte", i, Sample>> \in UpUnit
  BY <1>1, <1>2 DEF UpUnit
<1>5. d \in Seq(UpUnit) /\ Len(d) = call.input
  BY <1>1, <1>4
<1>6. \A i \in 1..call.input : d[i] = <<"byte", i, Sample>>
  OBVIOUS
<1>7. Frame = <<a, b>> \o d
  BY DEF Frame
<1> HIDE DEF d, a, b
<1>8. <<a, b>> \in Seq(UpUnit) /\ Len(<<a, b>>) = 2 /\ <<a, b>>[1] = a /\ <<a, b>>[2] = b
  BY <1>3
<1>9. Frame \in Seq(UpUnit) /\ Len(Frame) = call.input + 2
  BY <1>1, <1>5, <1>7, <1>8
<1>10. Frame[1] = a /\ Frame[2] = b
  BY <1>1, <1>5, <1>7, <1>8
<1>11. ASSUME NEW i \in 3..call.input + 2 PROVE Frame[i] = d[i - 2]
  BY <1>1, <1>5, <1>7, <1>8
<1>12. ASSUME NEW i \in 3..call.input + 2 PROVE Frame[i] = <<"byte", i - 2, Sample>>
  <2>1. i - 2 \in 1..call.input
    BY <1>1
  <2>2. QED  BY <1>6, <1>11, <2>1
<1>13. QED  BY <1>1, <1>9, <1>10, <1>12 DEF a, b

\* n units of the frame are sent; to a dead thread they are lost.
LEMMA SentEffect ==
    ASSUME LocalInv, sock # NoConnection, NEW n \in 0..Len(Frame)
    PROVE  /\ Sent(n) \in Link /\ ThreadOK(Sent(n)) /\ link[sock] \in Link
           /\ Sent(n).down = link[sock].down /\ SameThread(link[sock], Sent(n))
           /\ IF link[sock].thread = "gone" THEN Sent(n).up = link[sock].up
              ELSE Sent(n).up = link[sock].up \o SubSeq(Frame, 1, n)
<1>1. link \in [Connection -> Link] /\ sock \in Connection /\ ThreadOK(link[sock])
  BY DEF LocalInv, TypeOK
<1>2. link[sock] \in Link /\ link[sock].up \in Seq(UpUnit)
  BY <1>1 DEF Link
<1>3. CASE link[sock].thread = "gone"
  BY <1>1, <1>2, <1>3 DEF Sent, SameThread
<1>4. CASE link[sock].thread # "gone"
  <2> DEFINE up == link[sock].up \o SubSeq(Frame, 1, n)
  <2>1. SubSeq(Frame, 1, n) \in Seq(UpUnit)
    BY FrameUnits
  <2>2. up \in Seq(UpUnit)
    BY <1>2, <2>1
  <2>3. Sent(n) = [link[sock] EXCEPT !.up = up]
    BY <1>4 DEF Sent
  <2> HIDE DEF up
  <2>4. /\ Sent(n) \in Link /\ Sent(n).up = up /\ Sent(n).down = link[sock].down
        /\ SameThread(link[sock], Sent(n))
    BY <1>2, <2>2, <2>3 DEF Link, SameThread
  <2>5. ThreadOK(Sent(n))
    BY <1>1, <2>4 DEF ThreadOK, SameThread
  <2>6. QED  BY <1>2, <1>4, <2>4, <2>5 DEF up
<1>5. QED  BY <1>3, <1>4

-----------------------------------------------------------------------------
\* LocalInv, action by action.

\* A miss ends the call; the connection is kept or dropped by its caller.
LEMMA MissLocal ==
    ASSUME LocalInv, Miss, sock' \in Connection \cup {NoConnection},
           link' \in [Connection -> Link], \A k \in Connection : ThreadOK(link'[k])
    PROVE  LocalInv'
<1>1. PICK input \in Lengths : produced' \in cheap_fallback_mutation(input, call.room)
  BY DEF Miss
<1>2. input \in Nat /\ call.room \in Nat
  BY LengthsAssumption DEF LocalInv, TypeOK, Call
<1>3. call' \in Call /\ call'.room = call.room /\ call'.input = 0
  BY <1>2, NoCallType DEF Miss, NoCall
<1>4. produced' \in Nat
  BY <1>1, <1>2, FallbackNat
<1>5. call.room > 0 => produced' \in 1..call.room
  BY <1>1, <1>2, FallbackFits
<1>6. OutputFits'
  BY <1>3, <1>5 DEF OutputFits
<1>7. TypeOK'
  BY <1>3, <1>4 DEF LocalInv, TypeOK, Miss, serverVars
<1>8. QED  BY <1>3, <1>6, <1>7 DEF LocalInv, Miss

LEMMA FuzzLocal ==
    ASSUME LocalInv, NEW room \in Lengths, afl_custom_fuzz(room)
    PROVE  LocalInv'
<1>1. room \in Nat
  BY LengthsAssumption
<1>2. call' \in Call /\ call'.room = room /\ call'.input = 0
  BY <1>1, NoCallType DEF afl_custom_fuzz, NoCall
<1>3. calls' \in 0..MaxCalls /\ calls' > 0
  BY LimitAssumption DEF LocalInv, TypeOK, afl_custom_fuzz
<1>4. TypeOK'
  BY <1>2, <1>3 DEF LocalInv, TypeOK, afl_custom_fuzz, serverVars
<1>5. OutputFits'
  BY <1>1, <1>2 DEF OutputFits, afl_custom_fuzz
<1>6. QED  BY <1>2, <1>3, <1>4, <1>5 DEF LocalInv, afl_custom_fuzz

LEMMA EntryLocal ==
    ASSUME LocalInv, NEW input \in Lengths, afl_custom_queue_new_entry(input)
    PROVE  LocalInv'
<1>1. input \in Nat
  BY LengthsAssumption
<1>2. call' \in Call /\ call'.room = 0 /\ call'.input = input
  BY <1>1, NoCallType DEF afl_custom_queue_new_entry, NoCall
<1>3. calls' \in 0..MaxCalls /\ calls' > 0
  BY LimitAssumption DEF LocalInv, TypeOK, afl_custom_queue_new_entry
<1>4. TypeOK'
  BY <1>2, <1>3 DEF LocalInv, TypeOK, afl_custom_queue_new_entry, serverVars
<1>5. OutputFits'
  BY <1>1, <1>2 DEF OutputFits, afl_custom_queue_new_entry
<1>6. QED  BY <1>2, <1>3, <1>4, <1>5 DEF LocalInv, afl_custom_queue_new_entry

LEMMA AllThreadsOK ==
    ASSUME LocalInv, NEW k \in Connection, OnlyLink(k)
    PROVE  /\ link' \in [Connection -> Link]
           /\ \A j \in Connection : ThreadOK(link'[j])
BY DEF LocalInv, OnlyLink

LEMMA ReconnectLocal ==
    ASSUME LocalInv, maybe_reconnect
    PROVE  LocalInv'
<1>1. /\ sock' \in Connection \cup {NoConnection} /\ made' \in 0..MaxConnections
      /\ link' \in [Connection -> Link] /\ \A j \in Connection : ThreadOK(link'[j])
      /\ tried' \in BOOLEAN
  <2>1. CASE UNCHANGED <<sock, link, made>>
    BY <2>1 DEF LocalInv, TypeOK, maybe_reconnect
  <2>2. CASE made < MaxConnections /\ Connect(made + 1) /\ tried' = TRUE
    BY <2>2, ConnectEffect, AllThreadsOK
  <2>3. QED  BY <2>1, <2>2 DEF maybe_reconnect
<1>2. at' \in {"request", "feedback"} /\ at # "idle"
  BY DEF maybe_reconnect
<1>3. TypeOK'
  BY <1>1, <1>2 DEF LocalInv, TypeOK, maybe_reconnect, serverVars
<1>4. QED  BY <1>1, <1>2, <1>3 DEF LocalInv, OutputFits, maybe_reconnect

LEMMA SecondLocal ==
    ASSUME LocalInv, NextSecond
    PROVE  LocalInv'
<1>1. TypeOK'
  BY DEF LocalInv, TypeOK, NextSecond, serverVars
<1>2. QED  BY <1>1 DEF LocalInv, OutputFits, NextSecond

LEMMA DropLocal ==
    ASSUME LocalInv, sock # NoConnection, Miss, drop_connection
    PROVE  LocalInv'
<1>1. sock \in Connection
  BY DEF LocalInv, TypeOK
<1>2. QED  BY <1>1, DropEffect, AllThreadsOK, MissLocal

LEMMA RequestLocal ==
    ASSUME LocalInv, Request
    PROVE  LocalInv'
<1>1. CASE sock = NoConnection /\ Miss /\ UNCHANGED <<sock, link>>
  BY <1>1, MissLocal DEF LocalInv, TypeOK
<1>2. CASE sock # NoConnection /\ Miss /\ drop_connection
  BY <1>2, DropLocal
<1>3. CASE /\ sock # NoConnection /\ at' = "header"
           /\ link' = [link EXCEPT ![sock].up = Append(@, <<"G", 0, <<0, 0>>>>)]
           /\ UNCHANGED <<call, sock, tried, produced, calls, hits, delivered,
                          made, serverVars>>
  <2>1. sock \in Connection /\ OnlyLink(sock)
    BY <1>3, AskEffect DEF LocalInv, TypeOK
  <2>2. link' \in [Connection -> Link] /\ \A j \in Connection : ThreadOK(link'[j])
    BY <2>1, AllThreadsOK
  <2>3. TypeOK'
    BY <1>3, <2>2 DEF LocalInv, TypeOK, serverVars
  <2>4. QED  BY <1>3, <2>2, <2>3 DEF LocalInv, OutputFits, Request
<1>4. QED  BY <1>1, <1>2, <1>3 DEF Request

LEMMA ReadFailsLocal ==
    ASSUME LocalInv, ReadFails
    PROVE  LocalInv'
<1>1. sock # NoConnection
  BY DEF LocalInv, ReadFails
<1>2. QED  BY <1>1, DropLocal DEF ReadFails

LEMMA ReadHeaderLocal ==
    ASSUME LocalInv, ReadHeader
    PROVE  LocalInv'
<1>1. sock # NoConnection /\ sock \in Connection /\ sock' = sock
  BY DEF LocalInv, TypeOK, ReadHeader
<1>2. OnlyLink(sock) /\ NextUnit \in DownUnit
  BY <1>1, TakeEffect DEF ReadHeader
<1>3. link' \in [Connection -> Link] /\ \A j \in Connection : ThreadOK(link'[j])
  BY <1>1, <1>2, AllThreadsOK
<1>4. NextUnit[2] \in Nat
  BY <1>2 DEF DownUnit
<1>5. CASE NextUnit[2] = 0
  BY <1>1, <1>3, <1>5, MissLocal DEF ReadHeader
<1>6. CASE NextUnit[2] # 0
  <2>1. /\ call' = [call EXCEPT !.payload = NextUnit[2]] /\ at' = "body" /\ at = "header"
        /\ UNCHANGED <<tried, produced, calls, hits, delivered, made, serverVars>>
    BY <1>6 DEF ReadHeader
  <2>2. call' \in Call /\ call'.payload = NextUnit[2] /\ call'.input = call.input
    BY <1>4, <2>1 DEF LocalInv, TypeOK, Call
  <2>3. TypeOK'
    BY <1>1, <1>3, <2>1, <2>2 DEF LocalInv, TypeOK, serverVars
  <2>4. QED  BY <1>1, <1>3, <1>4, <1>6, <2>1, <2>2, <2>3 DEF LocalInv, OutputFits
<1>7. QED  BY <1>5, <1>6

\* What is read of a reply is of one candidate.
LEMMA OneCandidate ==
    ASSUME LocalInv, ReplyInv, ReadBody
    PROVE  \E c \in Loose : /\ c \in Candidate
                            /\ call.from \cup {NextUnit[3]} = {c}
<1>1. /\ sock # NoConnection /\ sock \in Connection /\ link[sock] \in Link
      /\ at \in {"body", "drain"} /\ link[sock].down # <<>>
  BY DEF LocalInv, TypeOK, ReadBody
<1>2. link[sock].down \in Seq(DownUnit)
  BY <1>1 DEF Link
<1>3. PICK c \in Loose : /\ call.from \subseteq {c}
                         /\ \A i \in 1..Len(link[sock].down) : link[sock].down[i][3] = c
  BY <1>1 DEF ReplyInv, Phase, Receiving
<1>4. NextUnit = link[sock].down[1] /\ 1 \in 1..Len(link[sock].down)
  BY <1>1, <1>2, Units DEF NextUnit
<1>5. NextUnit[3] = c
  BY <1>3, <1>4
<1>6. c \in Candidate
  BY CandidateAssumption, Candidates DEF Loose, LocalInv, TypeOK
<1>7. QED  BY <1>3, <1>5, <1>6

LEMMA ReadBodyLocal ==
    ASSUME LocalInv, ReplyInv, ReadBody
    PROVE  LocalInv'
<1>1. /\ sock # NoConnection /\ sock \in Connection /\ sock' = sock
      /\ call.payload \in Nat /\ call.room \in Nat /\ call.read \in Nat
      /\ call.payload > 0 /\ call \in Call
  BY DEF LocalInv, TypeOK, ReadBody, Call
<1>2. OnlyLink(sock) /\ NextUnit \in DownUnit
  BY <1>1, TakeEffect DEF ReadBody
<1>3. link' \in [Connection -> Link] /\ \A j \in Connection : ThreadOK(link'[j])
  BY <1>1, <1>2, AllThreadsOK
<1>4. NextUnit[3] \in Candidate \cup {0}
  BY <1>2 DEF DownUnit
<1> DEFINE n == call.read + 1
           from == call.from \cup {NextUnit[3]}
<1>5. from \subseteq Candidate \cup {0}
  BY <1>1, <1>4 DEF Call
<1>6. CASE /\ n < call.payload
           /\ call' = [call EXCEPT !.read = n, !.from = from]
           /\ at' = IF n < ToCopy THEN "body" ELSE "drain"
           /\ UNCHANGED <<tried, produced, calls, hits, delivered, made, serverVars>>
  <2>1. n \in Nat
    BY <1>1
  <2> HIDE DEF n, from
  <2>2. call' \in Call /\ call'.payload = call.payload /\ call'.input = call.input
    BY <1>1, <1>5, <1>6, <2>1 DEF Call
  <2>3. at' \in {"body", "drain"} /\ at # "idle"
    BY <1>6 DEF ReadBody
  <2>4. TypeOK'
    BY <1>1, <1>3, <1>6, <2>2, <2>3 DEF LocalInv, TypeOK, serverVars
  <2>5. QED  BY <1>1, <1>3, <1>6, <2>2, <2>3, <2>4 DEF LocalInv, OutputFits
<1>7. CASE n >= call.payload /\ Hit(from)
  <2>1. call' \in Call /\ call'.room = call.room /\ call'.input = 0
    BY <1>1, <1>7, NoCallType DEF Hit, NoCall
  <2>2. produced' \in Nat /\ (call.room > 0 => produced' \in 1..call.room)
    BY <1>1, <1>7 DEF Hit, ToCopy, min_size
  <2>3. delivered' \subseteq Candidate
    BY <1>7, OneCandidate DEF Hit, LocalInv, TypeOK
  <2>4. hits' \in Nat /\ at' = "idle" /\ UNCHANGED <<tried, calls, made, serverVars>>
    BY <1>7 DEF Hit, LocalInv, TypeOK
  <2>5. TypeOK'
    BY <1>1, <1>3, <2>1, <2>2, <2>3, <2>4 DEF LocalInv, TypeOK, serverVars
  <2>6. QED  BY <1>1, <1>3, <2>1, <2>2, <2>4, <2>5 DEF LocalInv, OutputFits
<1>8. QED  BY <1>6, <1>7 DEF ReadBody

LEMMA FeedbackLocal ==
    ASSUME LocalInv, send_feedback
    PROVE  LocalInv'
<1>1. /\ sock' \in Connection \cup {NoConnection}
      /\ link' \in [Connection -> Link] /\ \A j \in Connection : ThreadOK(link'[j])
  <2>1. CASE UNCHANGED <<sock, link>>
    BY <2>1 DEF LocalInv, TypeOK
  <2>2. CASE sock # NoConnection /\ link' = [link EXCEPT ![sock] = Sent(Len(Frame))]
             /\ UNCHANGED sock
    <3>1. Len(Frame) \in 0..Len(Frame)
      BY FrameUnits
    <3>2. Sent(Len(Frame)) \in Link /\ ThreadOK(Sent(Len(Frame)))
      BY <2>2, <3>1, SentEffect
    <3>3. link \in [Connection -> Link] /\ sock \in Connection
      BY <2>2 DEF LocalInv, TypeOK
    <3>4. QED  BY <2>2, <3>2, <3>3, Replace, AllThreadsOK
  <2>3. CASE /\ sock # NoConnection /\ sock' = NoConnection
             /\ \E n \in 0..Len(Frame) - 1 : link' = [link EXCEPT ![sock] = Closed(Sent(n))]
    <3>1. PICK n \in 0..Len(Frame) - 1 : link' = [link EXCEPT ![sock] = Closed(Sent(n))]
      BY <2>3
    <3>2. n \in 0..Len(Frame)
      BY FrameUnits
    <3>3. Sent(n) \in Link /\ ThreadOK(Sent(n))
      BY <2>3, <3>2, SentEffect
    <3>4. Closed(Sent(n)) \in Link /\ ThreadOK(Closed(Sent(n)))
      BY <3>3, ClosedLink DEF ThreadOK
    <3>5. link \in [Connection -> Link] /\ sock \in Connection
      BY <2>3 DEF LocalInv, TypeOK
    <3>6. QED  BY <2>3, <3>1, <3>4, <3>5, Replace, AllThreadsOK
  <2>4. QED  BY <2>1, <2>2, <2>3 DEF send_feedback
<1>2. /\ at' = "idle" /\ call' = NoCall
      /\ UNCHANGED <<tried, produced, calls, hits, delivered, made, serverVars>>
  BY DEF send_feedback
<1>3. TypeOK'
  BY <1>1, <1>2, NoCallType DEF LocalInv, TypeOK, serverVars
<1>4. call'.room = 0 /\ call'.input = 0
  BY <1>2 DEF NoCall
<1>5. QED  BY <1>1, <1>2, <1>3, <1>4 DEF LocalInv, OutputFits

\* A step of a server thread.
LEMMA ServerLocal ==
    ASSUME LocalInv, NEW k \in Connection, OnlyLink(k),
           queue' \in Seq(Candidate), Len(queue') <= QueueSize, corpus' \subseteq Seq(UpUnit),
           UNCHANGED <<clientVars, made, inHand, generated, restarts>>
    PROVE  LocalInv'
<1>1. link' \in [Connection -> Link] /\ \A j \in Connection : ThreadOK(link'[j])
  BY AllThreadsOK
<1>2. TypeOK'
  BY <1>1 DEF LocalInv, TypeOK, clientVars
<1>3. QED  BY <1>1, <1>2 DEF LocalInv, OutputFits, clientVars

LEMMA ThreadLocal ==
    ASSUME LocalInv, NEW k \in Connection, Thread(k)
    PROVE  LocalInv'
<1>1. queue \in Seq(Candidate) /\ Len(queue) <= QueueSize /\ corpus \subseteq Seq(UpUnit)
      /\ link[k] \in Link
  BY DEF LocalInv, TypeOK
<1>2. CASE ReadOpcode(k)
  <2>1. OnlyLink(k) /\ (queue' = queue \/ (queue # <<>> /\ queue' = Tail(queue)))
    BY <1>2, ReadOpcodeEffect DEF Refuse, Serve, Accept, Reject
  <2>2. queue' \in Seq(Candidate) /\ Len(queue') <= QueueSize
    BY <1>1, <2>1, LimitAssumption
  <2>3. UNCHANGED <<clientVars, made, inHand, generated, corpus, restarts>>
    BY <1>2 DEF ReadOpcode
  <2>4. QED  BY <1>1, <2>1, <2>2, <2>3, ServerLocal
<1>3. CASE ReadLength(k)
  <2>1. UNCHANGED <<clientVars, made, serverVars>>
    BY <1>3 DEF ReadLength
  <2>2. QED  BY <1>1, <1>3, <2>1, ReadLengthEffect, ServerLocal DEF serverVars
<1>4. CASE ReadPayload(k)
  <2>1. UNCHANGED <<clientVars, made, queue, inHand, generated, restarts>>
    BY <1>4 DEF ReadPayload
  <2>2. Unit(k) \in UpUnit /\ link[k].sample \in Seq(UpUnit)
    BY <1>1, <1>4, Units DEF ReadPayload, Got, Unit, Link
  <2>3. Append(link[k].sample, Unit(k)) \in Seq(UpUnit)
    BY <2>2
  <2>4. corpus' \subseteq Seq(UpUnit) /\ OnlyLink(k)
    BY <1>1, <1>4, <2>3, ReadPayloadEffect
  <2>5. QED  BY <1>1, <2>1, <2>4, ServerLocal
<1>5. CASE SendHeader(k)
  <2>1. UNCHANGED <<clientVars, made, serverVars>>
    BY <1>5 DEF SendHeader
  <2>2. QED  BY <1>1, <1>5, <2>1, SendHeaderEffect, ServerLocal DEF serverVars
<1>6. CASE SendData(k)
  <2>1. UNCHANGED <<clientVars, made, serverVars>>
    BY <1>6 DEF SendData
  <2>2. QED  BY <1>1, <1>6, <2>1, SendDataEffect, ServerLocal DEF serverVars
<1>7. CASE ThreadEnds(k)
  <2>1. UNCHANGED <<clientVars, made, serverVars>>
    BY <1>7 DEF ThreadEnds
  <2>2. QED  BY <1>1, <1>7, <2>1, ThreadEndsEffect, ServerLocal DEF serverVars
<1>8. QED  BY <1>2, <1>3, <1>4, <1>5, <1>6, <1>7 DEF Thread

\* A producer that finds room in the queue may add one to those in hand.
LEMMA ProduceLocal ==
    ASSUME LocalInv, Produce
    PROVE  LocalInv'
<1>1. /\ inHand \subseteq Candidate /\ generated + 1 \in Candidate
      /\ inHand' = inHand \cup {generated + 1} /\ generated' = generated + 1
      /\ Cardinality(inHand) < Workers
      /\ UNCHANGED <<clientVars, link, made, queue, corpus, restarts>>
  BY DEF LocalInv, TypeOK, Produce
<1>2. IsFiniteSet(inHand)
  BY <1>1, Candidates, FS_Subset
<1>3. /\ Cardinality(inHand) \in Nat
      /\ Cardinality(inHand') \in {Cardinality(inHand), Cardinality(inHand) + 1}
  BY <1>1, <1>2, FS_CardinalityType, FS_AddElement
<1>4. Cardinality(inHand') <= Workers
  BY <1>1, <1>3, LimitAssumption
<1>5. generated' \in 0..Cardinality(Candidate)
  BY <1>1, CandidateAssumption, Candidates DEF LocalInv, TypeOK
<1>6. TypeOK'
  BY <1>1, <1>4, <1>5 DEF LocalInv, TypeOK, clientVars
<1>7. QED  BY <1>1, <1>6 DEF LocalInv, OutputFits, clientVars

LEMMA PutLocal ==
    ASSUME LocalInv, NEW c \in Candidate, Put(c)
    PROVE  LocalInv'
<1>1. /\ inHand \subseteq Candidate /\ inHand' = inHand \ {c} /\ Cardinality(inHand) <= Workers
      /\ queue \in Seq(Candidate) /\ Len(queue) <= QueueSize
      /\ queue' = IF Len(queue) < QueueSize THEN Append(queue, c) ELSE queue
      /\ UNCHANGED <<clientVars, link, made, generated, corpus, restarts>>
  BY DEF LocalInv, TypeOK, Put
<1>2. queue' \in Seq(Candidate) /\ Len(queue') <= QueueSize
  BY <1>1, LimitAssumption
<1>3. IsFiniteSet(inHand) /\ inHand' \subseteq inHand
  BY <1>1, Candidates, FS_Subset
<1>4. Cardinality(inHand') \in Nat /\ Cardinality(inHand) \in Nat
      /\ Cardinality(inHand') <= Cardinality(inHand)
  BY <1>3, FS_Subset, FS_CardinalityType
<1>5. Cardinality(inHand') <= Workers
  BY <1>1, <1>4, LimitAssumption
<1>6. TypeOK'
  BY <1>1, <1>2, <1>5 DEF LocalInv, TypeOK, clientVars
<1>7. QED  BY <1>1, <1>6 DEF LocalInv, OutputFits, clientVars

LEMMA RestartLocal ==
    ASSUME LocalInv, Restart
    PROVE  LocalInv'
<1>1. link' \in [Connection -> Link] /\ \A k \in Connection : ThreadOK(link'[k])
  BY RestartEffect
<1>2. /\ queue' = <<>> /\ inHand' = {} /\ corpus' \subseteq corpus
      /\ restarts < MaxRestarts /\ restarts' = restarts + 1
      /\ UNCHANGED <<clientVars, made, generated>>
  BY DEF Restart
<1>3. restarts' \in 0..MaxRestarts
  BY <1>2, LimitAssumption DEF LocalInv, TypeOK
<1>4. queue' \in Seq(Candidate) /\ Len(queue') <= QueueSize
  BY <1>2, LimitAssumption
<1>5. Cardinality(inHand') <= Workers
  BY <1>2, FS_EmptySet, LimitAssumption
<1>6. TypeOK'
  BY <1>1, <1>2, <1>3, <1>4, <1>5 DEF LocalInv, TypeOK, clientVars
<1>7. QED  BY <1>1, <1>2, <1>6 DEF LocalInv, OutputFits, clientVars

-----------------------------------------------------------------------------
\* FreshInv and StockInv.

LEMMA NoCallFresh ==
    /\ NoCall.from = {} /\ NoCall.read = 0
    /\ \A n : LET c == [NoCall EXCEPT !.room = n] IN c.from = {} /\ c.read = 0
    /\ \A n : LET c == [NoCall EXCEPT !.input = n] IN c.from = {} /\ c.read = 0
BY DEF NoCall

LEMMA StepFresh ==
    ASSUME TypeOK, FreshInv, [Next]_vars
    PROVE  FreshInv'
<1>1. CASE Miss
  BY <1>1, NoCallFresh DEF Miss, FreshInv
<1>2. CASE \E from : Hit(from)
  BY <1>2, NoCallFresh DEF Hit, FreshInv
<1>3. CASE UNCHANGED <<at, call>>
  BY <1>3 DEF FreshInv
<1>4. CASE \E room \in Lengths : afl_custom_fuzz(room)
  BY <1>4, NoCallFresh DEF afl_custom_fuzz, FreshInv
<1>5. CASE \E input \in Lengths : afl_custom_queue_new_entry(input)
  BY <1>5, NoCallFresh DEF afl_custom_queue_new_entry, FreshInv
<1>6. CASE maybe_reconnect
  BY <1>6 DEF maybe_reconnect, FreshInv
<1>7. CASE Request
  BY <1>1, <1>7 DEF Request, FreshInv
<1>8. CASE ReadHeader
  BY <1>1, <1>8 DEF ReadHeader, FreshInv
<1>9. CASE ReadBody
  <2>1. CASE at' = IF call.read + 1 < ToCopy THEN "body" ELSE "drain"
    BY <2>1 DEF FreshInv
  <2>2. QED  BY <1>2, <1>9, <2>1 DEF ReadBody
<1>10. CASE ReadFails
  BY <1>1, <1>10 DEF ReadFails
<1>11. CASE send_feedback
  BY <1>11, NoCallFresh DEF send_feedback, FreshInv
<1>12. CASE MutatorStep
  BY <1>6, <1>7, <1>8, <1>9, <1>10, <1>11, <1>12 DEF MutatorStep
<1>13. CASE \E k \in Connection : Thread(k)
  <2>1. PICK k \in Connection : Thread(k)
    BY <1>13
  <2>2. UNCHANGED clientVars
    <3>1. CASE ReadOpcode(k)
      BY <3>1 DEF ReadOpcode
    <3>2. CASE ReadLength(k) \/ ReadPayload(k)
      BY <3>2 DEF ReadLength, ReadPayload
    <3>3. CASE SendHeader(k) \/ SendData(k) \/ ThreadEnds(k)
      BY <3>3 DEF SendHeader, SendData, ThreadEnds
    <3>4. QED  BY <2>1, <3>1, <3>2, <3>3 DEF Thread
  <2>3. QED  BY <1>3, <2>2 DEF clientVars
<1>14. CASE NextSecond \/ Produce \/ (\E c \in Candidate : Put(c)) \/ Restart
  BY <1>3, <1>14 DEF NextSecond, Produce, Put, Restart, clientVars
<1>15. CASE UNCHANGED vars
  BY <1>3, <1>15 DEF vars, clientVars
<1>16. QED  BY <1>4, <1>5, <1>12, <1>13, <1>14, <1>15 DEF Next

\* The variables StockInv is about.
stockVars == <<delivered, hits, queue, inHand, generated>>

LEMMA StockSame ==
    ASSUME StockInv, UNCHANGED stockVars
    PROVE  StockInv' /\ Loose' = Loose
BY DEF StockInv, Loose, Queued, stockVars

LEMMA Rest ==
    ASSUME NEW s, NEW q \in Seq(s), q # <<>>
    PROVE  /\ Len(q) \in Nat /\ Len(Tail(q)) = Len(q) - 1 /\ 1 \in 1..Len(q)
           /\ \A i \in 1..Len(Tail(q)) : Tail(q)[i] = q[i + 1] /\ i + 1 \in 1..Len(q)
           /\ Head(q) = q[1]
OBVIOUS

\* get_nowait: the candidate is nowhere else.
LEMMA ServeStock ==
    ASSUME LocalInv, StockInv, queue # <<>>, queue' = Tail(queue),
           UNCHANGED <<delivered, hits, inHand, generated>>
    PROVE  StockInv' /\ Loose \subseteq Loose' /\ Head(queue) \in Loose'
<1>1. queue \in Seq(Candidate)
  BY DEF LocalInv, TypeOK
<1>2. /\ Len(queue) \in Nat /\ Len(queue') = Len(queue) - 1 /\ 1 \in 1..Len(queue)
      /\ \A i \in 1..Len(queue') : queue'[i] = queue[i + 1] /\ i + 1 \in 1..Len(queue)
      /\ Head(queue) = queue[1]
  BY <1>1, Rest
<1>3. Queued' \subseteq Queued /\ Head(queue) \in Queued
  BY <1>2 DEF Queued
<1>4. ASSUME NEW i \in 1..Len(queue'), NEW j \in 1..Len(queue'), queue'[i] = queue'[j]
      PROVE  i = j
  <2>1. /\ i + 1 \in 1..Len(queue) /\ j + 1 \in 1..Len(queue)
        /\ queue[i + 1] = queue[j + 1]
    BY <1>2, <1>4
  <2>2. i + 1 = j + 1
    BY <2>1 DEF StockInv
  <2>3. QED  BY <2>2
<1>5. Head(queue) \notin Queued'
  <2> SUFFICES ASSUME NEW i \in 1..Len(queue'), queue'[i] = Head(queue) PROVE FALSE
    BY DEF Queued
  <2>1. i + 1 \in 1..Len(queue) /\ queue[i + 1] = queue[1]
    BY <1>2
  <2>2. i + 1 = 1
    BY <1>2, <2>1 DEF StockInv
  <2>3. QED  BY <2>2
<1>6. StockInv'
  BY <1>3, <1>4 DEF StockInv
<1>7. Head(queue) \in 1..generated /\ Head(queue) \notin delivered \cup inHand
  BY <1>3 DEF StockInv
<1>8. QED  BY <1>3, <1>5, <1>6, <1>7 DEF Loose

LEMMA ProduceStock ==
    ASSUME LocalInv, StockInv, Produce
    PROVE  StockInv' /\ Loose \subseteq Loose'
<1>1. /\ generated' = generated + 1 /\ inHand' = inHand \cup {generated + 1}
      /\ UNCHANGED <<delivered, hits, queue>>
  BY DEF Produce, clientVars
<1>2. generated \in Nat
  BY DEF LocalInv, TypeOK
<1>3. generated + 1 \notin 1..generated /\ 1..generated \subseteq 1..generated'
      /\ generated + 1 \in 1..generated'
  BY <1>1, <1>2
<1>4. Queued' = Queued
  BY <1>1 DEF Queued
<1>5. StockInv'
  BY <1>1, <1>3, <1>4 DEF StockInv
<1>6. QED  BY <1>1, <1>3, <1>4, <1>5 DEF Loose

LEMMA PutStock ==
    ASSUME LocalInv, StockInv, NEW c \in Candidate, Put(c)
    PROVE  StockInv' /\ Loose \subseteq Loose'
<1>1. /\ c \in inHand /\ inHand' = inHand \ {c} /\ queue \in Seq(Candidate)
      /\ queue' \in {queue, Append(queue, c)}
      /\ UNCHANGED <<delivered, hits, generated>>
  BY DEF Put, clientVars, LocalInv, TypeOK
<1>2. CASE queue' = queue
  <2>1. Queued' = Queued
    BY <1>2 DEF Queued
  <2>2. StockInv'
    BY <1>1, <1>2, <2>1 DEF StockInv
  <2>3. Loose \subseteq Loose'
    BY <1>1, <2>1 DEF Loose
  <2>4. QED  BY <2>2, <2>3
<1>3. CASE queue' = Append(queue, c)
  <2>1. /\ Len(queue) \in Nat /\ Len(queue') = Len(queue) + 1 /\ queue'[Len(queue')] = c
        /\ \A i \in 1..Len(queue) : queue'[i] = queue[i] /\ i \in 1..Len(queue')
    BY <1>1, <1>3
  <2>2. \A i \in 1..Len(queue') : i \in 1..Len(queue) \/ i = Len(queue')
    BY <2>1
  <2>3. Queued' = Queued \cup {c}
    BY <2>1, <2>2 DEF Queued
  <2>4. \A i \in 1..Len(queue) : queue[i] # c
    BY <1>1 DEF StockInv, Queued
  <2>5. ASSUME NEW i \in 1..Len(queue'), NEW j \in 1..Len(queue'), queue'[i] = queue'[j]
        PROVE  i = j
    <3>1. CASE i \in 1..Len(queue) /\ j \in 1..Len(queue)
      BY <2>1, <2>5, <3>1 DEF StockInv
    <3>2. CASE i \notin 1..Len(queue) /\ j \notin 1..Len(queue)
      BY <2>2, <3>2
    <3>3. CASE i \in 1..Len(queue) /\ j \notin 1..Len(queue)
      <4>1. queue'[i] = queue[i] /\ queue'[j] = c
        BY <2>1, <2>2, <3>3
      <4>2. QED  BY <2>4, <2>5, <3>3, <4>1
    <3>4. CASE i \notin 1..Len(queue) /\ j \in 1..Len(queue)
      <4>1. queue'[j] = queue[j] /\ queue'[i] = c
        BY <2>1, <2>2, <3>4
      <4>2. QED  BY <2>4, <2>5, <3>4, <4>1
    <3>5. QED  BY <3>1, <3>2, <3>3, <3>4
  <2>6. StockInv'
    BY <1>1, <2>3, <2>5 DEF StockInv
  <2>7. Loose \subseteq Loose'
    BY <1>1, <2>3 DEF Loose
  <2>8. QED  BY <2>6, <2>7
<1>4. QED  BY <1>1, <1>2, <1>3

LEMMA RestartStock ==
    ASSUME StockInv, Restart
    PROVE  StockInv' /\ Loose \subseteq Loose'
<1>1. queue' = <<>> /\ inHand' = {} /\ UNCHANGED <<delivered, hits, generated>>
  BY DEF Restart, clientVars
<1>2. Queued' = {}
  BY <1>1 DEF Queued
<1>3. StockInv'
  BY <1>1, <1>2 DEF StockInv
<1>4. QED  BY <1>1, <1>2, <1>3 DEF Loose

\* A hit uses up a candidate that was nowhere else.
LEMMA HitStock ==
    ASSUME LocalInv, StockInv, NEW c \in Loose, Hit({c})
    PROVE  StockInv'
<1>1. /\ delivered' = delivered \cup {c} /\ hits' = hits + 1
      /\ UNCHANGED <<queue, inHand, generated>>
  BY DEF Hit, serverVars
<1>2. c \in 1..generated /\ c \notin delivered \cup inHand \cup Queued
  BY DEF Loose
<1>3. IsFiniteSet(delivered)
  BY Candidates, FS_Subset DEF LocalInv, TypeOK
<1>4. Cardinality(delivered') = Cardinality(delivered) + 1
  BY <1>1, <1>2, <1>3, FS_AddElement
<1>5. Queued' = Queued
  BY <1>1 DEF Queued
<1>6. QED  BY <1>1, <1>2, <1>4, <1>5 DEF StockInv

-----------------------------------------------------------------------------
\* ReplyInv: what the steps of the server make of the mutator's connection.

LEMMA PhaseGrows ==
    ASSUME NEW a, NEW cl, NEW l, NEW F, NEW G, F \subseteq G, Phase(a, cl, l, F)
    PROVE  Phase(a, cl, l, G)
BY DEF Phase

LEMMA NoRequestTail ==
    ASSUME NEW s, NEW up \in Seq(s), up # <<>>, NoRequest(up)
    PROVE  NoRequest(Tail(up))
BY Rest DEF NoRequest

LEMMA Steps ==
    ASSUME LocalInv
    PROVE  /\ at \in Calm \/ at = "header" \/ at \in {"body", "drain"}
           /\ "header" \notin Calm /\ "body" \notin Calm /\ "drain" \notin Calm
BY DEF LocalInv, TypeOK, Calm

\* A thread that reads on without answering.
LEMMA ReadOn ==
    ASSUME NEW a, NEW cl, NEW l \in Link, NEW m \in Link, NEW F, Phase(a, cl, l, F),
           l.up # <<>>, m.up = Tail(l.up), m.down = l.down,
           l.thread \in {"opcode", "length", "payload"},
           m.thread \in {"opcode", "length", "payload", "gone"}
    PROVE  Phase(a, cl, m, F)
<1>1. l.up \in Seq(UpUnit)
  BY DEF Link
<1>2. NoRequest(l.up) => NoRequest(m.up)
  BY <1>1, NoRequestTail
<1>3. Quiet(l) => Quiet(m)
  BY <1>2 DEF Quiet
<1>4. Asked(l) => Asked(m)
  <2> SUFFICES ASSUME Asked(l), NEW i \in 1..Len(m.up), m.up[i][1] = "G"
               PROVE  i = Len(m.up)
    BY DEF Asked
  <2>1. m.up[i] = l.up[i + 1] /\ i + 1 \in 1..Len(l.up) /\ Len(m.up) = Len(l.up) - 1
        /\ Len(l.up) \in Nat
    BY <1>1, Rest
  <2>2. i + 1 = Len(l.up)
    BY <2>1 DEF Asked
  <2>3. QED  BY <2>1, <2>2
<1>5. Refused(l) => Refused(m)
  BY <1>2 DEF Refused
<1>6. ~Answering(l)
  BY DEF Answering
<1>7. ASSUME NEW down, NEW todo, NEW c, Receiving(l, down, todo, c)
      PROVE  Receiving(m, down, todo, c)
  BY <1>2, <1>7 DEF Receiving
<1>8. ASSUME NEW c, Answered(l, c) PROVE Answered(m, c)
  BY <1>7, <1>8 DEF Answered
<1>9. QED  BY <1>3, <1>4, <1>5, <1>6, <1>7, <1>8 DEF Phase

LEMMA Joined ==
    ASSUME NEW s, NEW q \in Seq(s), NEW r \in Seq(s)
    PROVE  /\ q \o r \in Seq(s) /\ Len(q \o r) = Len(q) + Len(r)
           /\ Len(q) \in Nat /\ Len(r) \in Nat
           /\ \A i \in 1..Len(q) : (q \o r)[i] = q[i]
           /\ \A i \in 1..Len(q \o r) : i \notin 1..Len(q) =>
                /\ i - Len(q) \in 1..Len(r)
                /\ (q \o r)[i] = r[i - Len(q)]
OBVIOUS

LEMMA JoinedRequests ==
    ASSUME NEW s, NEW q \in Seq(s), NEW r \in Seq(s), NoRequest(q), NoRequest(r)
    PROVE  NoRequest(q \o r)
<1> SUFFICES ASSUME NEW i \in 1..Len(q \o r) PROVE (q \o r)[i][1] # "G"
  BY DEF NoRequest
<1>1. CASE i \in 1..Len(q)
  <2>1. (q \o r)[i] = q[i]
    BY <1>1, Joined
  <2>2. QED  BY <1>1, <2>1 DEF NoRequest
<1>2. CASE i \notin 1..Len(q)
  <2>1. i - Len(q) \in 1..Len(r) /\ (q \o r)[i] = r[i - Len(q)]
    BY <1>2, Joined
  <2>2. QED  BY <2>1 DEF NoRequest
<1>3. QED  BY <1>1, <1>2

LEMMA SingleTail ==
    ASSUME NEW s, NEW q \in Seq(s), Len(q) = 1
    PROVE  Tail(q) = <<>>
<1>1. q # <<>>
  OBVIOUS
<1>2. Tail(q) \in Seq(s) /\ Len(Tail(q)) = 0
  BY <1>1, Rest, Units
<1>3. QED  BY <1>2, EmptySeq

\* A request is read only while the mutator awaits its answer, and none is
\* behind it.
LEMMA RequestRead ==
    ASSUME NEW a, NEW cl, NEW l \in Link, NEW F, Phase(a, cl, l, F),
           a \in Calm \/ a = "header" \/ a \in {"body", "drain"},
           l.up # <<>>, Head(l.up)[1] = "G", l.thread = "opcode"
    PROVE  a \notin Calm /\ a \notin {"body", "drain"} /\ l.down = <<>> /\ Tail(l.up) = <<>>
<1>1. l.up \in Seq(UpUnit)
  BY DEF Link
<1>2. 1 \in 1..Len(l.up) /\ l.up[1][1] = "G" /\ Len(l.up) \in Nat
  BY <1>1, Rest
<1>3. ~NoRequest(l.up)
  BY <1>2 DEF NoRequest
<1>4. a \notin Calm /\ a \notin {"body", "drain"} /\ Asked(l)
  BY <1>3 DEF Phase, Quiet, Refused, Answering, Answered, Receiving
<1>5. Len(l.up) = 1
  BY <1>2, <1>4 DEF Asked
<1>6. QED  BY <1>1, <1>4, <1>5, SingleTail DEF Asked

LEMMA RefusePhase ==
    ASSUME NEW cl, NEW m, NEW F, m.up = <<>>, m.thread = "opcode",
           m.down \in {<<>>, Append(<<>>, <<"length", 0, 0>>)}
    PROVE  Phase("header", cl, m, F)
<1>1. NoRequest(m.up) /\ \A i \in 1..Len(m.up) : FALSE
  BY DEF NoRequest
<1>2. CASE m.down = <<>>
  BY <1>1, <1>2 DEF Phase, Asked, Calm
<1>3. CASE m.down = Append(<<>>, <<"length", 0, 0>>)
  <2>1. Len(m.down) = 1 /\ m.down[1] = <<"length", 0, 0>>
    BY <1>3
  <2>2. m.down[1][2] = 0
    BY <2>1
  <2>3. QED  BY <1>1, <2>1, <2>2 DEF Phase, Refused, Calm
<1>4. QED  BY <1>2, <1>3

LEMMA ServePhase ==
    ASSUME NEW cl, NEW m, NEW F, m.up = <<>>, m.down = <<>>, m.thread = "reply", m.item \in F
    PROVE  Phase("header", cl, m, F)
<1>1. NoRequest(m.up)
  BY DEF NoRequest
<1>2. QED  BY <1>1 DEF Phase, Answering, Calm

LEMMA HeaderPhase ==
    ASSUME NEW a, NEW cl, NEW l \in Link, NEW m, NEW F, Phase(a, cl, l, F),
           a \in Calm \/ a = "header" \/ a \in {"body", "drain"},
           l.thread = "reply", m.thread = "data", m.up = l.up, m.item = l.item,
           NEW n \in Nat, n = Size[l.item], m.left = n,
           m.down = Append(l.down, <<"length", n, l.item>>)
    PROVE  Phase(a, cl, m, F)
<1>1. /\ a \notin Calm /\ a \notin {"body", "drain"} /\ a = "header"
      /\ Answering(l) /\ l.item \in F
  BY DEF Phase, Quiet, Asked, Refused, Answered, Receiving
<1>2. l.down = <<>> /\ NoRequest(m.up)
  BY <1>1 DEF Answering
<1>3. m.down = <<<<"length", n, l.item>>>>
  BY <1>2
<1>4. m.down # <<>> /\ m.down[1] = <<"length", n, l.item>> /\ Tail(m.down) = <<>>
  BY <1>3
<1>5. m.down[1][2] = n
  BY <1>4
<1>6. Receiving(m, <<>>, n, l.item)
  BY <1>2 DEF Receiving
<1>7. Answered(m, l.item)
  BY <1>4, <1>5, <1>6 DEF Answered
<1>8. QED  BY <1>1, <1>7 DEF Phase

\* A byte of the candidate is sent, the last one or not.
LEMMA DataPhase ==
    ASSUME NEW a, NEW cl, NEW l \in Link, NEW m, NEW F, Phase(a, cl, l, F),
           a \in Calm \/ a = "header" \/ a \in {"body", "drain"},
           l.thread = "data", m.up = l.up, NEW u \in DownUnit, u[3] = l.item,
           m.down = Append(l.down, u), l.left \in Nat \ {0},
           \/ l.left = 1 /\ m.thread = "opcode"
           \/ /\ l.left > 1 /\ m.thread = "data"
              /\ m.left = l.left - 1 /\ m.item = l.item
    PROVE  Phase(a, cl, m, F)
<1>1. l.down \in Seq(DownUnit)
  BY DEF Link
<1>2. ASSUME NEW d \in Seq(DownUnit), NEW todo, NEW c, Receiving(l, d, todo, c)
      PROVE  Receiving(m, Append(d, u), todo, c)
  <2> DEFINE e == Append(d, u)
  <2>1. /\ Len(e) = Len(d) + 1 /\ Len(d) \in Nat /\ e[Len(d) + 1] = u
        /\ \A i \in 1..Len(d) : e[i] = d[i]
    OBVIOUS
  <2> HIDE DEF e
  <2>2. /\ c = l.item /\ Len(d) + l.left = todo /\ NoRequest(m.up)
        /\ \A i \in 1..Len(d) : d[i][3] = c
    BY <1>2 DEF Receiving
  <2>3. ASSUME NEW i \in 1..Len(e) PROVE e[i][3] = c
    <3>1. CASE i \in 1..Len(d)
      BY <2>1, <2>2, <3>1
    <3>2. CASE i \notin 1..Len(d)
      <4>1. i = Len(d) + 1
        BY <2>1, <3>2
      <4>2. QED  BY <2>1, <2>2, <4>1
    <3>3. QED  BY <3>1, <3>2
  <2>4. Len(e) <= todo /\ m.thread # "reply" /\ m.thread # "gone"
    BY <2>1, <2>2
  <2>5. m.thread = "data" => m.item = c /\ Len(e) + m.left = todo
    <3> SUFFICES ASSUME m.thread = "data" PROVE m.item = c /\ Len(e) + m.left = todo
      OBVIOUS
    <3>1. m.item = l.item /\ m.left = l.left - 1
      OBVIOUS
    <3>2. \A i, j \in Nat : (i + 1) + (j - 1) = i + j
      OBVIOUS
    <3>3. QED  BY <2>1, <2>2, <3>1, <3>2
  <2>6. m.thread # "data" => Len(e) = todo
    BY <2>1, <2>2
  <2>7. Receiving(m, e, todo, c)
    BY <2>2, <2>3, <2>4, <2>5, <2>6 DEF Receiving
  <2>8. QED  BY <2>7 DEF e
<1>3. CASE a \in {"body", "drain"}
  <2>1. PICK c \in F : /\ cl.from \subseteq {c} /\ cl.payload = Size[c]
                       /\ cl.read < cl.payload
                       /\ Receiving(l, l.down, cl.payload - cl.read, c)
    BY <1>3 DEF Phase
  <2>2. Receiving(m, m.down, cl.payload - cl.read, c)
    BY <1>1, <1>2, <2>1
  <2>3. QED  BY <1>3, <2>1, <2>2 DEF Phase, Calm
<1>4. CASE a = "header"
  <2>1. PICK c \in F : Answered(l, c)
    BY <1>4 DEF Phase, Asked, Refused, Answering
  <2>2. l.down # <<>> /\ l.down[1][2] = Size[c] /\ Receiving(l, Tail(l.down), Size[c], c)
    BY <2>1 DEF Answered
  <2>3. /\ m.down # <<>> /\ m.down[1] = l.down[1] /\ Tail(l.down) \in Seq(DownUnit)
        /\ Tail(m.down) = Append(Tail(l.down), u)
    BY <1>1, <2>2
  <2>4. Receiving(m, Tail(m.down), Size[c], c)
    BY <1>2, <2>2, <2>3
  <2>5. Answered(m, c)
    BY <2>2, <2>3, <2>4 DEF Answered
  <2>6. QED  BY <1>4, <2>5 DEF Phase, Calm
<1>5. a \notin Calm
  BY DEF Phase, Quiet
<1>6. QED  BY <1>3, <1>4, <1>5

\* A thread dies; what it has sent may still arrive.
LEMMA DeathPhase ==
    ASSUME NEW a, NEW cl \in Call, NEW l \in Link, NEW m, NEW F, Phase(a, cl, l, F),
           m.thread = "gone", m.up = <<>>, m.down = <<>> \/ m.down = l.down
    PROVE  Phase(a, cl, m, F)
<1>1. NoRequest(m.up) /\ (m.down = <<>> => Asked(m) /\ Quiet(m))
  BY DEF NoRequest, Asked, Quiet
<1>2. Quiet(l) => Quiet(m)
  BY <1>1 DEF Quiet
<1>3. ASSUME NEW d, NEW todo, NEW c, Receiving(l, d, todo, c)
      PROVE  Receiving(m, d, todo, c)
  BY <1>1, <1>3 DEF Receiving
<1>4. CASE m.down = l.down
  <2>1. (Asked(l) \/ Answering(l) => Asked(m)) /\ (Refused(l) => Refused(m))
    BY <1>1, <1>4 DEF Asked, Answering, Refused
  <2>2. ASSUME NEW c, Answered(l, c) PROVE Answered(m, c)
    BY <1>3, <1>4, <2>2 DEF Answered
  <2>3. QED  BY <1>2, <1>3, <1>4, <2>1, <2>2 DEF Phase
<1>5. CASE m.down = <<>>
  <2>1. ASSUME NEW c \in F, cl.read < cl.payload
        PROVE  Receiving(m, m.down, cl.payload - cl.read, c)
    <3>1. cl.payload \in Nat /\ cl.read \in Nat
      BY DEF Call
    <3>2. Len(m.down) = 0 /\ 0 <= cl.payload - cl.read
      BY <1>5, <2>1, <3>1
    <3>3. QED  BY <1>1, <3>2 DEF Receiving
  <2>2. QED  BY <1>1, <1>5, <2>1 DEF Phase
<1>6. QED  BY <1>4, <1>5

\* A step on another connection, or none, of the server.
LEMMA ElsewhereReply ==
    ASSUME LocalInv, ReplyInv, sock # NoConnection => link'[sock] = link[sock],
           Loose \subseteq Loose', UNCHANGED <<at, call, sock>>
    PROVE  ReplyInv'
BY PhaseGrows DEF ReplyInv

LEMMA ThreadReply ==
    ASSUME LocalInv, StockInv, ReplyInv, NEW k \in Connection, Thread(k)
    PROVE  StockInv' /\ ReplyInv'
<1>1. /\ UNCHANGED <<at, call, sock>> /\ UNCHANGED <<delivered, hits, inHand, generated>>
      /\ sock \in Connection \cup {NoConnection} /\ call \in Call
      /\ queue' = queue \/ ReadOpcode(k)
      /\ link[k] \in Link
  BY DEF Thread, ReadOpcode, ReadLength, ReadPayload, SendHeader, SendData, ThreadEnds,
         clientVars, serverVars, LocalInv, TypeOK
<1>2. OnlyLink(k)
  BY ReadOpcodeEffect, ReadLengthEffect, ReadPayloadEffect, SendHeaderEffect,
     SendDataEffect, ThreadEndsEffect DEF Thread
<1>3. link'[k] \in Link
  BY <1>2 DEF OnlyLink
<1>4. queue' = queue \/ (queue # <<>> /\ queue' = Tail(queue))
  <2>1. CASE ReadOpcode(k)
    BY <2>1, ReadOpcodeEffect DEF Refuse, Serve, Accept, Reject
  <2>2. QED  BY <1>1, <2>1
<1>5. StockInv' /\ Loose \subseteq Loose'
  BY <1>1, <1>4, StockSame, ServeStock DEF stockVars
<1>6. CASE k # sock
  <2>1. sock # NoConnection => link'[sock] = link[sock]
    BY <1>1, <1>2, <1>6 DEF OnlyLink
  <2>2. QED  BY <1>1, <1>5, <2>1, ElsewhereReply
<1>7. CASE k = sock
  <2> SUFFICES Phase(at, call, link'[k], Loose')
    BY <1>1, <1>5, <1>7 DEF ReplyInv
  <2>1. Phase(at, call, link[k], Loose')
    <3>1. sock # NoConnection
      BY <1>7, LimitAssumption DEF Connection, NoConnection
    <3>2. QED  BY <1>5, <1>7, <3>1, PhaseGrows DEF ReplyInv
  <2>2. at \in Calm \/ at = "header" \/ at \in {"body", "drain"}
    BY Steps
  <2>3. CASE ReadOpcode(k)
    <3>1. link[k].up # <<>> /\ link[k].thread = "opcode" /\ Unit(k) = Head(link[k].up)
      BY <2>3 DEF ReadOpcode, Got, Unit
    <3>2. link'[k].up = Tail(link[k].up) /\ (Refuse(k) \/ Serve(k) \/ Accept(k) \/ Reject(k))
      BY <2>3, ReadOpcodeEffect
    <3>3. CASE Unit(k)[1] = "G"
      <4>1. at = "header" /\ link[k].down = <<>> /\ link'[k].up = <<>>
        BY <1>1, <2>1, <2>2, <3>1, <3>2, <3>3, RequestRead
      <4>2. CASE Refuse(k)
        BY <4>1, <4>2, RefusePhase DEF Refuse
      <4>3. CASE Serve(k)
        <5>1. link'[k].item \in Loose'
          BY <1>1, <4>3, ServeStock DEF Serve
        <5>2. QED  BY <4>1, <4>3, <5>1, ServePhase DEF Serve
      <4>4. QED  BY <3>2, <3>3, <4>2, <4>3 DEF Accept, Reject
    <3>4. CASE Unit(k)[1] # "G"
      <4>1. link'[k].down = link[k].down /\ link'[k].thread \in {"length", "gone"}
        BY <3>2, <3>4 DEF Refuse, Serve, Accept, Reject
      <4>2. QED  BY <1>1, <1>3, <2>1, <3>1, <3>2, <3>4, <4>1, ReadOn
    <3>5. QED  BY <3>3, <3>4
  <2>4. CASE ReadLength(k)
    <3>1. link[k].up # <<>> /\ link[k].thread = "length"
      BY <2>4 DEF ReadLength, Got
    <3>2. /\ link'[k].up = Tail(link[k].up) /\ link'[k].down = link[k].down
          /\ link'[k].thread \in {"payload", "gone"}
      BY <2>4, ReadLengthEffect
    <3>3. QED  BY <1>1, <1>3, <2>1, <3>1, <3>2, ReadOn
  <2>5. CASE ReadPayload(k)
    <3>1. link[k].up # <<>> /\ link[k].thread = "payload"
      BY <2>5 DEF ReadPayload, Got
    <3>2. /\ link'[k].up = Tail(link[k].up) /\ link'[k].down = link[k].down
          /\ link'[k].thread \in {"payload", "opcode"}
      BY <2>5, ReadPayloadEffect
    <3>3. QED  BY <1>1, <1>3, <2>1, <3>1, <3>2, ReadOn
  <2>6. CASE SendHeader(k)
    <3>1. link[k].thread = "reply"
      BY <2>6 DEF SendHeader
    <3>2. QED  BY <1>1, <2>1, <2>2, <2>6, <3>1, SendHeaderEffect, HeaderPhase
  <2>7. CASE SendData(k)
    <3>1. link[k].thread = "data"
      BY <2>7 DEF SendData
    <3>2. QED  BY <1>1, <2>1, <2>2, <2>7, <3>1, SendDataEffect, DataPhase
  <2>8. CASE ThreadEnds(k)
    <3>1. link'[k] = DeadLink
      BY <2>8, ThreadEndsEffect
    <3>2. QED  BY <1>1, <2>1, <3>1, DeadLinkFields, DeathPhase
  <2>9. QED  BY <2>3, <2>4, <2>5, <2>6, <2>7, <2>8 DEF Thread
<1>8. QED  BY <1>5, <1>6, <1>7

\* What the steps of the mutator make of it.

LEMMA RequestReply ==
    ASSUME LocalInv, ReplyInv, Request
    PROVE  ReplyInv'
<1>1. CASE sock' = NoConnection
  BY <1>1 DEF ReplyInv
<1>2. CASE /\ sock # NoConnection /\ at' = "header" /\ sock' = sock
           /\ link' = [link EXCEPT ![sock].up = Append(@, <<"G", 0, <<0, 0>>>>)]
  <2>1. /\ link[sock].up \in Seq(UpUnit)
        /\ link'[sock].up = Append(link[sock].up, GetUnit)
        /\ link'[sock].down = link[sock].down /\ link'[sock].thread = link[sock].thread
    BY <1>2, AskEffect DEF SameThread
  <2>2. Quiet(link[sock])
    BY <1>2 DEF ReplyInv, Phase, Calm, Request
  <2>3. ASSUME NEW i \in 1..Len(link'[sock].up), link'[sock].up[i][1] = "G"
        PROVE  i = Len(link'[sock].up)
    <3>1. /\ Len(link'[sock].up) = Len(link[sock].up) + 1 /\ Len(link[sock].up) \in Nat
          /\ \A j \in 1..Len(link[sock].up) : link'[sock].up[j] = link[sock].up[j]
      BY <2>1
    <3>2. CASE i \in 1..Len(link[sock].up)
      BY <2>2, <2>3, <3>1, <3>2 DEF Quiet, NoRequest
    <3>3. QED  BY <3>1, <3>2
  <2>4. Asked(link'[sock])
    BY <2>1, <2>2, <2>3 DEF Asked, Quiet
  <2>5. QED  BY <1>2, <2>4 DEF ReplyInv, Phase, Calm
<1>3. QED  BY <1>1, <1>2 DEF Request, drop_connection

LEMMA ReadHeaderReply ==
    ASSUME LocalInv, FreshInv, ReplyInv, ReadHeader
    PROVE  ReplyInv'
<1>1. /\ sock # NoConnection /\ sock \in Connection /\ sock' = sock /\ at = "header"
      /\ link[sock].down # <<>> /\ call \in Call
      /\ UNCHANGED <<delivered, queue, inHand, generated>>
  BY DEF LocalInv, TypeOK, ReadHeader, Miss, serverVars
<1>2. /\ link[sock].down \in Seq(DownUnit)
      /\ link'[sock].up = link[sock].up /\ link'[sock].down = Tail(link[sock].down)
      /\ SameThread(link[sock], link'[sock])
      /\ NextUnit = link[sock].down[1]
  BY <1>1, TakeEffect DEF ReadHeader
<1>3. Loose' = Loose
  BY <1>1 DEF Loose, Queued
<1>4. Refused(link[sock]) \/ \E c \in Loose : Answered(link[sock], c)
  BY <1>1 DEF ReplyInv, Phase, Asked, Answering
<1>5. CASE Refused(link[sock])
  <2>1. Tail(link[sock].down) = <<>> /\ NextUnit[2] = 0
    BY <1>2, <1>5, SingleTail DEF Refused
  <2>2. at' = "idle"
    BY <2>1 DEF ReadHeader, Miss
  <2>3. Quiet(link'[sock])
    BY <1>2, <1>5, <2>1 DEF Refused, Quiet, SameThread
  <2>4. QED  BY <1>1, <2>2, <2>3 DEF ReplyInv, Phase
<1>6. CASE \E c \in Loose : Answered(link[sock], c)
  <2>1. PICK c \in Loose : Answered(link[sock], c)
    BY <1>6
  <2>2. c \in Candidate
    BY CandidateAssumption, Candidates DEF Loose, LocalInv, TypeOK
  <2>3. Size[c] \in Nat /\ Size[c] > 0 /\ NextUnit[2] = Size[c]
    BY <1>2, <2>1, <2>2, SizeAssumption DEF Answered
  <2>4. at' = "body" /\ call' = [call EXCEPT !.payload = Size[c]]
    BY <2>3 DEF ReadHeader
  <2>5. call'.payload = Size[c] /\ call'.read = 0 /\ call'.from = {}
    BY <1>1, <2>4 DEF Call, FreshInv
  <2>6. Receiving(link[sock], Tail(link[sock].down), Size[c], c)
    BY <2>1 DEF Answered
  <2>7. Receiving(link'[sock], link'[sock].down, Size[c], c)
    BY <1>2, <2>6 DEF Receiving, SameThread
  <2>8. Size[c] - 0 = Size[c]
    BY <2>3
  <2>9. Phase("body", call', link'[sock], Loose)
    BY <2>3, <2>5, <2>7, <2>8 DEF Phase, Calm
  <2>10. QED  BY <1>1, <1>3, <2>4, <2>9 DEF ReplyInv
<1>7. QED  BY <1>4, <1>5, <1>6

\* The end of a reply leaves the connection quiet, whether the candidate was
\* copied or drained.
LEMMA ReadBodyReply ==
    ASSUME LocalInv, StockInv, ReplyInv, ReadBody
    PROVE  StockInv' /\ ReplyInv'
<1>1. /\ sock # NoConnection /\ sock \in Connection /\ sock' = sock
      /\ at \in {"body", "drain"} /\ link[sock].down # <<>> /\ call \in Call
      /\ call.read \in Nat /\ call.payload \in Nat /\ link[sock] \in Link
  BY DEF LocalInv, TypeOK, ReadBody, Call
<1>2. /\ link[sock].down \in Seq(DownUnit)
      /\ link'[sock].up = link[sock].up /\ link'[sock].down = Tail(link[sock].down)
      /\ SameThread(link[sock], link'[sock])
      /\ NextUnit = link[sock].down[1]
  BY <1>1, TakeEffect DEF ReadBody
<1>3. PICK c \in Loose : /\ call.from \subseteq {c} /\ call.payload = Size[c]
                         /\ call.read < call.payload
                         /\ Receiving(link[sock], link[sock].down, call.payload - call.read, c)
  BY <1>1 DEF ReplyInv, Phase
<1> DEFINE d == link[sock].down
           e == link'[sock].down
           from == call.from \cup {NextUnit[3]}
<1>4. /\ Len(d) \in Nat /\ Len(e) = Len(d) - 1 /\ 1 \in 1..Len(d)
      /\ \A i \in 1..Len(e) : e[i] = d[i + 1] /\ i + 1 \in 1..Len(d)
  BY <1>1, <1>2, Rest
<1>5. /\ NoRequest(link'[sock].up) /\ link'[sock].thread # "reply"
      /\ \A i \in 1..Len(d) : d[i][3] = c
      /\ Len(d) <= call.payload - call.read
      /\ link'[sock].thread = "data" => /\ link'[sock].item = c
                                        /\ link[sock].left = link'[sock].left
                                        /\ Len(d) + link[sock].left = call.payload - call.read
      /\ link'[sock].thread \notin {"data", "gone"} => Len(d) = call.payload - call.read
  BY <1>2, <1>3 DEF Receiving, SameThread
<1>6. from = {c}
  BY <1>2, <1>3, <1>4, <1>5
<1>7. \A i \in 1..Len(e) : e[i][3] = c
  BY <1>4, <1>5
<1> HIDE DEF d, e, from
<1>8. CASE /\ call.read + 1 < call.payload
           /\ call' = [call EXCEPT !.read = call.read + 1, !.from = from]
           /\ at' = IF call.read + 1 < ToCopy THEN "body" ELSE "drain"
           /\ UNCHANGED <<tried, produced, calls, hits, delivered, made, serverVars>>
  <2>1. StockInv' /\ Loose' = Loose
    BY <1>8, StockSame DEF stockVars, serverVars
  <2>2. call'.read = call.read + 1 /\ call'.from = {c} /\ call'.payload = call.payload
    BY <1>1, <1>6, <1>8 DEF Call
  <2>3. Len(e) <= call'.payload - call'.read
    BY <1>1, <1>4, <1>5, <2>2
  <2>4. link[sock].left \in Nat
    BY <1>1 DEF Link
  <2>5. link'[sock].thread = "data" =>
            Len(e) + link'[sock].left = call'.payload - call'.read
    <3> SUFFICES ASSUME link'[sock].thread = "data"
                 PROVE  Len(e) + link'[sock].left = call'.payload - call'.read
      OBVIOUS
    <3>1. /\ Len(d) + link[sock].left = call.payload - call.read
          /\ link[sock].left = link'[sock].left
      BY <1>5
    <3>2. (Len(d) - 1) + link[sock].left = call.payload - (call.read + 1)
      <4> DEFINE i == Len(d)  x == link[sock].left  n == call.payload  b == call.read
      <4>1. i \in Nat /\ x \in Nat /\ n \in Nat /\ b \in Nat /\ i + x = n - b
        BY <1>1, <1>4, <2>4, <3>1
      <4> HIDE DEF i, x, n, b
      <4>2. (i - 1) + x = n - (b + 1)
        BY <4>1
      <4>3. QED  BY <4>2 DEF i, x, n, b
    <3>3. QED  BY <1>4, <2>2, <3>1, <3>2
  <2>6. link'[sock].thread \notin {"data", "gone"} => Len(e) = call'.payload - call'.read
    <3>1. \A i, n, b \in Nat : i = n - b => i - 1 = n - (b + 1)
      OBVIOUS
    <3>2. QED  BY <1>1, <1>4, <1>5, <2>2, <3>1
  <2>7. Receiving(link'[sock], e, call'.payload - call'.read, c)
    BY <1>5, <1>7, <2>3, <2>5, <2>6 DEF Receiving
  <2>8. e = link'[sock].down
    BY DEF e
  <2>9. call'.read < call'.payload /\ call'.payload = Size[c] /\ call'.from \subseteq {c}
    BY <1>3, <1>8, <2>2
  <2>10. at' \in {"body", "drain"}
    BY <1>8
  <2>11. Phase(at', call', link'[sock], Loose)
    BY <2>7, <2>8, <2>9, <2>10 DEF Phase, Calm
  <2>12. QED  BY <1>1, <2>1, <2>11 DEF ReplyInv
<1>9. CASE call.read + 1 >= call.payload /\ Hit(from)
  <2>1. StockInv'
    BY <1>6, <1>9, HitStock
  <2>2. call.payload - call.read = 1
    BY <1>1, <1>3, <1>9
  <2>3. Len(d) = 1
    BY <1>4, <1>5, <2>2
  <2>4. link'[sock].down = <<>>
    BY <1>2, <2>3, SingleTail DEF d
  <2>5. link'[sock].thread # "data"
    <3>1. ASSUME link'[sock].thread = "data" PROVE link[sock].left > 0 /\ link[sock].left \in Nat
      BY <1>1, <1>2, <3>1 DEF SameThread, LocalInv, ThreadOK, Link
    <3>2. QED  BY <1>5, <2>2, <2>3, <3>1
  <2>6. Quiet(link'[sock])
    BY <1>5, <2>4, <2>5 DEF Quiet
  <2>7. at' = "idle"
    BY <1>9 DEF Hit
  <2>8. QED  BY <1>1, <2>1, <2>6, <2>7 DEF ReplyInv, Phase
<1>10. QED  BY <1>8, <1>9 DEF ReadBody, from

LEMMA FeedbackReply ==
    ASSUME LocalInv, ReplyInv, send_feedback
    PROVE  ReplyInv'
<1>1. CASE sock' = NoConnection
  BY <1>1 DEF ReplyInv
<1>2. CASE UNCHANGED <<sock, link>>
  BY <1>2 DEF ReplyInv, Phase, Calm, send_feedback
<1>3. CASE sock # NoConnection /\ link' = [link EXCEPT ![sock] = Sent(Len(Frame))]
           /\ UNCHANGED sock
  <2>1. Len(Frame) \in 0..Len(Frame) /\ Frame \in Seq(UpUnit)
    BY FrameUnits
  <2>2. link'[sock] = Sent(Len(Frame)) /\ link[sock] \in Link
    BY <1>3, <2>1 DEF LocalInv, TypeOK
  <2>3. /\ link'[sock].down = link[sock].down /\ link'[sock].thread = link[sock].thread
        /\ \/ link'[sock].up = link[sock].up
           \/ link'[sock].up = link[sock].up \o SubSeq(Frame, 1, Len(Frame))
    BY <1>3, <2>1, <2>2, SentEffect DEF SameThread
  <2>4. Quiet(link[sock])
    BY <1>3 DEF ReplyInv, Phase, Calm, send_feedback
  <2>5. NoRequest(Frame)
    <3> SUFFICES ASSUME NEW i \in 1..Len(Frame) PROVE Frame[i][1] # "G"
      BY DEF NoRequest
    <3>1. i = 1 \/ i = 2 \/ i \in 3..call.input + 2
      BY FrameUnits
    <3>2. QED  BY <3>1, FrameUnits
  <2>6. SubSeq(Frame, 1, Len(Frame)) = Frame
    BY <2>1
  <2>7. NoRequest(link'[sock].up)
    <3>1. CASE link'[sock].up = link[sock].up
      BY <2>4, <3>1 DEF Quiet
    <3>2. CASE link'[sock].up = link[sock].up \o Frame
      <4>1. link[sock].up \in Seq(UpUnit) /\ NoRequest(link[sock].up)
        BY <2>2, <2>4 DEF Link, Quiet
      <4>2. QED  BY <2>1, <2>5, <3>2, <4>1, JoinedRequests
    <3>3. QED  BY <2>3, <2>6, <3>1, <3>2
  <2>8. Quiet(link'[sock])
    BY <2>3, <2>4, <2>7 DEF Quiet
  <2>9. QED  BY <1>3, <2>8 DEF ReplyInv, Phase, Calm, send_feedback
<1>4. QED  BY <1>1, <1>2, <1>3 DEF send_feedback

LEMMA ReconnectReply ==
    ASSUME LocalInv, ReplyInv, maybe_reconnect
    PROVE  ReplyInv'
<1>1. at \in Calm /\ at' \in Calm
  BY DEF maybe_reconnect, Calm
<1>2. CASE UNCHANGED <<sock, link>>
  BY <1>1, <1>2 DEF ReplyInv, Phase, Calm
<1>3. CASE made < MaxConnections /\ Connect(made + 1)
  <2>1. link'[sock'] = NewLink
    BY <1>3, ConnectEffect
  <2>2. Quiet(NewLink)
    BY NewLinkFields DEF Quiet, NoRequest
  <2>3. QED  BY <1>1, <2>1, <2>2 DEF ReplyInv, Phase, Calm
<1>4. QED  BY <1>2, <1>3 DEF maybe_reconnect

LEMMA RestartReply ==
    ASSUME LocalInv, StockInv, ReplyInv, Restart
    PROVE  ReplyInv'
<1>1. UNCHANGED <<at, call, sock>> /\ sock \in Connection \cup {NoConnection}
      /\ Loose \subseteq Loose' /\ call \in Call
  BY RestartStock DEF Restart, clientVars, LocalInv, TypeOK
<1>2. CASE sock # NoConnection
  <2>1. sock \in Connection /\ link[sock] \in Link
    BY <1>1, <1>2 DEF LocalInv, TypeOK
  <2>2. Phase(at, call, link[sock], Loose')
    BY <1>1, <1>2, PhaseGrows DEF ReplyInv
  <2>3. \/ link'[sock] = link[sock]
        \/ /\ link'[sock].up = <<>> /\ link'[sock].down = link[sock].down
           /\ link'[sock].thread = "gone"
    BY <2>1, RestartEffect
  <2>4. Phase(at, call, link'[sock], Loose')
    BY <1>1, <2>1, <2>2, <2>3, DeathPhase
  <2>5. QED  BY <1>1, <2>4 DEF ReplyInv
<1>3. QED  BY <1>1, <1>2 DEF ReplyInv

\* The three invariants together, for every step.
MainInv == LocalInv /\ FreshInv /\ StockInv /\ ReplyInv

LEMMA InitMain == Init => MainInv
<1> SUFFICES ASSUME Init PROVE MainInv
  OBVIOUS
<1>1. /\ link \in [Connection -> Link]
      /\ \A k \in Connection : ThreadOK(link[k])
      /\ sock # NoConnection => link[sock] = NewLink
  <2>1. ThreadOK(NewLink) /\ ThreadOK(NoLink)
    BY DEF ThreadOK, NewLink, NoLink
  <2>2. sock # NoConnection => sock \in Connection
    BY LimitAssumption DEF Init, Connection, NoConnection
  <2>3. QED  BY <2>1, <2>2, Links DEF Init
<1>2. queue \in Seq(Candidate) /\ Len(queue) <= QueueSize /\ corpus \subseteq Seq(UpUnit)
  BY LimitAssumption DEF Init
<1>3. Cardinality(inHand) <= Workers /\ Cardinality(delivered) = 0
  BY FS_EmptySet, LimitAssumption DEF Init
<1>4. /\ sock \in Connection \cup {NoConnection} /\ made \in 0..MaxConnections
      /\ restarts \in 0..MaxRestarts /\ calls \in 0..MaxCalls
  BY LimitAssumption DEF Init, Connection, NoConnection
<1>5. TypeOK
  <2>1. at = "idle" /\ call \in Call /\ tried = FALSE /\ delivered = {} /\ inHand = {}
        /\ hits = 0 /\ produced = 0 /\ generated = 0
    BY NoCallType DEF Init
  <2>2. generated \in 0..Cardinality(Candidate) /\ hits \in Nat /\ produced \in Nat
    BY <2>1, Candidates
  <2>3. QED  BY <1>1, <1>2, <1>3, <1>4, <2>1, <2>2 DEF TypeOK
<1>6. call.room = 0 /\ call.input = 0 /\ call.from = {} /\ call.read = 0 /\ at = "idle"
  BY DEF Init, NoCall
<1>7. LocalInv
  BY <1>1, <1>5, <1>6 DEF LocalInv, OutputFits
<1>8. FreshInv
  BY <1>6 DEF FreshInv
<1>9. Queued = {} /\ Len(queue) = 0
  BY DEF Queued, Init
<1>10. StockInv
  BY <1>3, <1>9 DEF StockInv, Init
<1>11. Quiet(NewLink)
  BY NewLinkFields DEF Quiet, NoRequest
<1>12. ReplyInv
  BY <1>1, <1>6, <1>11 DEF ReplyInv, Phase
<1>13. QED  BY <1>7, <1>8, <1>10, <1>12 DEF MainInv

LEMMA StepMain == MainInv /\ [Next]_vars => MainInv'
<1> SUFFICES ASSUME LocalInv, FreshInv, StockInv, ReplyInv, [Next]_vars
             PROVE  MainInv'
  BY DEF MainInv
<1>1. FreshInv'
  BY StepFresh DEF LocalInv
<1> SUFFICES LocalInv' /\ StockInv' /\ ReplyInv'
  BY <1>1 DEF MainInv
<1>2. ASSUME NEW room \in Lengths, afl_custom_fuzz(room)
      PROVE  LocalInv' /\ StockInv' /\ ReplyInv'
  <2>1. /\ at \in Calm /\ at' \in Calm
        /\ UNCHANGED <<sock, link>> /\ UNCHANGED stockVars
    BY <1>2 DEF afl_custom_fuzz, Calm, stockVars, serverVars
  <2>2. ReplyInv'
    BY <2>1 DEF ReplyInv, Phase, Calm
  <2>3. QED  BY <1>2, <2>1, <2>2, FuzzLocal, StockSame
<1>3. ASSUME NEW input \in Lengths, afl_custom_queue_new_entry(input)
      PROVE  LocalInv' /\ StockInv' /\ ReplyInv'
  <2>1. /\ at \in Calm /\ at' \in Calm
        /\ UNCHANGED <<sock, link>> /\ UNCHANGED stockVars
    BY <1>3 DEF afl_custom_queue_new_entry, Calm, stockVars, serverVars
  <2>2. ReplyInv'
    BY <2>1 DEF ReplyInv, Phase, Calm
  <2>3. QED  BY <1>3, <2>1, <2>2, EntryLocal, StockSame
<1>4. CASE maybe_reconnect
  <2>1. UNCHANGED stockVars
    BY <1>4 DEF maybe_reconnect, stockVars, serverVars
  <2>2. QED  BY <1>4, <2>1, ReconnectLocal, ReconnectReply, StockSame
<1>5. CASE Request
  <2>1. UNCHANGED stockVars
    BY <1>5 DEF Request, Miss, stockVars, serverVars
  <2>2. QED  BY <1>5, <2>1, RequestLocal, RequestReply, StockSame
<1>6. CASE ReadHeader
  <2>1. UNCHANGED stockVars
    BY <1>6 DEF ReadHeader, Miss, stockVars, serverVars
  <2>2. QED  BY <1>6, <2>1, ReadHeaderLocal, ReadHeaderReply, StockSame
<1>7. CASE ReadBody
  BY <1>7, ReadBodyLocal, ReadBodyReply
<1>8. CASE ReadFails
  <2>1. UNCHANGED stockVars /\ sock' = NoConnection
    BY <1>8 DEF ReadFails, Miss, drop_connection, stockVars, serverVars
  <2>2. QED  BY <1>8, <2>1, ReadFailsLocal, StockSame DEF ReplyInv
<1>9. CASE send_feedback
  <2>1. UNCHANGED stockVars
    BY <1>9 DEF send_feedback, stockVars, serverVars
  <2>2. QED  BY <1>9, <2>1, FeedbackLocal, FeedbackReply, StockSame
<1>10. CASE NextSecond
  <2>1. UNCHANGED stockVars /\ UNCHANGED <<at, call, sock, link>>
    BY <1>10 DEF NextSecond, stockVars, serverVars
  <2>2. QED  BY <1>10, <2>1, SecondLocal, StockSame, ElsewhereReply
<1>11. ASSUME NEW k \in Connection, Thread(k)
       PROVE  LocalInv' /\ StockInv' /\ ReplyInv'
  BY <1>11, ThreadLocal, ThreadReply
<1>12. CASE Produce
  <2>1. UNCHANGED <<at, call, sock, link>>
    BY <1>12 DEF Produce, clientVars
  <2>2. QED  BY <1>12, <2>1, ProduceLocal, ProduceStock, ElsewhereReply
<1>13. ASSUME NEW c \in Candidate, Put(c)
       PROVE  LocalInv' /\ StockInv' /\ ReplyInv'
  <2>1. UNCHANGED <<at, call, sock, link>>
    BY <1>13 DEF Put, clientVars
  <2>2. QED  BY <1>13, <2>1, PutLocal, PutStock, ElsewhereReply
<1>14. CASE Restart
  BY <1>14, RestartLocal, RestartStock, RestartReply
<1>15. CASE UNCHANGED vars
  <2>1. LocalInv'
    BY <1>15 DEF LocalInv, TypeOK, OutputFits, vars, clientVars, serverVars
  <2>2. UNCHANGED stockVars /\ UNCHANGED <<at, call, sock, link>>
    BY <1>15 DEF vars, clientVars, serverVars, stockVars
  <2>3. QED  BY <2>1, <2>2, StockSame, ElsewhereReply
<1>16. QED  BY <1>2, <1>3, <1>4, <1>5, <1>6, <1>7, <1>8, <1>9, <1>10, <1>11, <1>12, <1>13,
               <1>14, <1>15 DEF Next, MutatorStep

LEMMA MainInvariance == Spec => []MainInv
BY InitMain, StepMain, PTL DEF Spec

\* Sequence and record types, the bounds of the queue and of the producers'
\* hands: they hold in every run of the mutator and its server.
THEOREM TypeCorrect == Spec => []TypeOK
<1>1. MainInv => TypeOK
  BY DEF MainInv, LocalInv
<1>2. QED  BY <1>1, MainInvariance, PTL

\* What afl_custom_fuzz returns fits into max_size.
THEOREM OutputAlwaysFits == Spec => []OutputFits
<1>1. MainInv => OutputFits
  BY DEF MainInv, LocalInv
<1>2. QED  BY <1>1, MainInvariance, PTL

\* Whatever timed out before, the connection that fetch_candidate keeps has
\* nothing under way between two calls.
THEOREM RepliesStayInStep == Spec => []RepliesInStep
<1>1. MainInv => RepliesInStep
  BY DEF MainInv, ReplyInv, Phase, Calm, Quiet, NoRequest, RepliesInStep
<1>2. QED  BY <1>1, MainInvariance, PTL

\* No candidate is delivered twice or mixed with another one.
THEOREM HitsAreDistinct == Spec => []HitsAreCandidates
<1>1. MainInv => HitsAreCandidates
  <2> SUFFICES ASSUME MainInv PROVE Cardinality(call.from) <= 1
    BY DEF MainInv, StockInv, HitsAreCandidates
  <2>1. PICK c : call.from \subseteq {c}
    BY DEF MainInv, FreshInv, ReplyInv, Phase, LocalInv
  <2>2. IsFiniteSet({c}) /\ Cardinality({c}) = 1
    BY FS_Singleton
  <2>3. QED  BY <2>1, <2>2, FS_Subset
<1>2. QED  BY <1>1, MainInvariance, PTL

-----------------------------------------------------------------------------
\* FeedbackInv: the frames as a chain of units.

\* The unit behind which the rest of the chain comes is its first.
LEMMA ChainRest ==
    ASSUME NEW p, NEW up \in Seq(UpUnit), up # <<>>, Chain(p, up)
    PROVE  /\ Head(up) \in UpUnit /\ Follows(p, Head(up)) /\ Chain(Head(up), Tail(up))
           /\ LastUnit(Head(up), Tail(up)) = LastUnit(p, up)
<1> DEFINE u == Head(up)
           v == Tail(up)
<1>1. /\ Len(up) \in Nat /\ Len(v) = Len(up) - 1 /\ 1 \in 1..Len(up) /\ u = up[1]
      /\ \A i \in 1..Len(v) : v[i] = up[i + 1] /\ i + 1 \in 1..Len(up)
      /\ u \in UpUnit /\ v \in Seq(UpUnit)
  BY Rest, Units
<1> HIDE DEF u, v
<1>2. Follows(p, u)
  BY <1>1 DEF Chain
<1>3. ASSUME NEW i \in 1..Len(v) PROVE Follows(IF i = 1 THEN u ELSE v[i - 1], v[i])
  <2>1. Follows(up[i], up[i + 1])
    <3>1. i + 1 \in 1..Len(up) /\ i + 1 # 1 /\ (i + 1) - 1 = i
      BY <1>1
    <3>2. QED  BY <3>1 DEF Chain
  <2>2. up[i] = IF i = 1 THEN u ELSE v[i - 1]
    <3>1. CASE i = 1
      BY <1>1, <3>1
    <3>2. CASE i # 1
      <4>1. i - 1 \in 1..Len(v) /\ (i - 1) + 1 = i
        BY <1>1, <3>2
      <4>2. QED  BY <1>1, <3>2, <4>1
    <3>3. QED  BY <3>1, <3>2
  <2>3. QED  BY <1>1, <2>1, <2>2
<1>4. Chain(u, v)
  BY <1>3 DEF Chain
<1>5. LastUnit(u, v) = LastUnit(p, up)
  <2>1. CASE v = <<>>
    <3>1. Len(v) = 0
      BY <2>1
    <3>2. Len(up) = 1
      BY <1>1, <3>1
    <3>3. QED  BY <1>1, <2>1, <3>2 DEF LastUnit
  <2>2. CASE v # <<>>
    <3>1. Len(v) \in 1..Len(v)
      BY <1>1, <2>2, Rest
    <3>2. v[Len(v)] = up[Len(v) + 1] /\ Len(v) + 1 = Len(up)
      BY <1>1, <3>1
    <3>3. QED  BY <2>2, <3>2 DEF LastUnit
  <2>3. QED  BY <2>1, <2>2
<1>6. QED  BY <1>1, <1>2, <1>4, <1>5 DEF u, v

LEMMA ChainJoin ==
    ASSUME NEW p, NEW up \in Seq(UpUnit), NEW v \in Seq(UpUnit), Chain(p, up),
           Chain(LastUnit(p, up), v)
    PROVE  /\ Chain(p, up \o v)
           /\ LastUnit(p, up \o v) = LastUnit(LastUnit(p, up), v)
<1> DEFINE w == up \o v
<1>1. /\ w \in Seq(UpUnit) /\ Len(w) = Len(up) + Len(v) /\ Len(up) \in Nat /\ Len(v) \in Nat
      /\ \A i \in 1..Len(up) : w[i] = up[i]
      /\ \A i \in 1..Len(w) : i \notin 1..Len(up) => /\ i - Len(up) \in 1..Len(v)
                                                     /\ w[i] = v[i - Len(up)]
  BY Joined
<1>2. (up = <<>> <=> Len(up) = 0) /\ (v = <<>> <=> Len(v) = 0) /\ (w = <<>> <=> Len(w) = 0)
  BY <1>1, EmptySeq
<1> HIDE DEF w
<1>3. ASSUME NEW i \in 1..Len(w) PROVE Follows(IF i = 1 THEN p ELSE w[i - 1], w[i])
  <2>1. CASE i \in 1..Len(up)
    <3>1. i # 1 => i - 1 \in 1..Len(up)
      BY <2>1
    <3>2. Follows(IF i = 1 THEN p ELSE up[i - 1], up[i])
      BY <2>1 DEF Chain
    <3>3. w[i] = up[i] /\ (i # 1 => w[i - 1] = up[i - 1])
      BY <1>1, <2>1, <3>1
    <3>4. QED  BY <3>2, <3>3
  <2>2. CASE i \notin 1..Len(up)
    <3> DEFINE j == i - Len(up)
    <3>1. j \in 1..Len(v) /\ w[i] = v[j]
      BY <1>1, <2>2
    <3>2. Follows(IF j = 1 THEN LastUnit(p, up) ELSE v[j - 1], v[j])
      BY <3>1 DEF Chain
    <3>3. CASE j # 1
      <4>1. i - 1 \in 1..Len(w) /\ i - 1 \notin 1..Len(up) /\ (i - 1) - Len(up) = j - 1
            /\ i # 1
        BY <1>1, <3>1, <3>3
      <4>2. w[i - 1] = v[j - 1]
        BY <1>1, <4>1
      <4>3. QED  BY <3>1, <3>2, <3>3, <4>1, <4>2
    <3>4. CASE j = 1
      <4>1. i = Len(up) + 1
        BY <1>1, <3>4
      <4>2. CASE Len(up) = 0
        BY <1>2, <3>1, <3>2, <3>4, <4>1, <4>2 DEF LastUnit
      <4>3. CASE Len(up) # 0
        <5>1. Len(up) \in 1..Len(up) /\ i - 1 = Len(up) /\ i # 1
          BY <1>1, <4>1, <4>3
        <5>2. w[i - 1] = up[Len(up)]
          BY <1>1, <5>1
        <5>3. LastUnit(p, up) = up[Len(up)]
          BY <1>2, <4>3 DEF LastUnit
        <5>4. QED  BY <3>1, <3>2, <3>4, <5>1, <5>2, <5>3
      <4>4. QED  BY <4>2, <4>3
    <3>5. QED  BY <3>3, <3>4
  <2>3. QED  BY <2>1, <2>2
<1>4. Chain(p, w)
  BY <1>3 DEF Chain
<1>5. LastUnit(p, w) = LastUnit(LastUnit(p, up), v)
  <2>1. CASE Len(v) = 0
    <3>1. Len(w) = Len(up)
      BY <1>1, <2>1
    <3>2. Len(up) # 0 => w[Len(up)] = up[Len(up)]
      BY <1>1
    <3>3. QED  BY <1>2, <2>1, <3>1, <3>2 DEF LastUnit
  <2>2. CASE Len(v) # 0
    <3>1. Len(w) # 0 /\ Len(w) \in 1..Len(w) /\ Len(w) \notin 1..Len(up)
          /\ Len(w) - Len(up) = Len(v)
      BY <1>1, <2>2
    <3>2. w[Len(w)] = v[Len(v)]
      BY <1>1, <3>1
    <3>3. QED  BY <1>2, <2>2, <3>1, <3>2 DEF LastUnit
  <2>3. QED  BY <2>1, <2>2
<1>6. QED  BY <1>4, <1>5 DEF w

\* A request behind a complete frame.
LEMMA ChainAsk ==
    ASSUME NEW p, NEW up \in Seq(UpUnit), Chain(p, up), Complete(LastUnit(p, up))
    PROVE  /\ Chain(p, Append(up, GetUnit)) /\ Complete(LastUnit(p, Append(up, GetUnit)))
<1>1. GetUnit \in UpUnit /\ GetUnit[1] = "G"
  BY DEF GetUnit, UpUnit
<1> DEFINE v == <<GetUnit>>
<1>2. v \in Seq(UpUnit) /\ Len(v) = 1 /\ v[1] = GetUnit /\ v # <<>>
  BY <1>1
<1>3. Append(up, GetUnit) = up \o v
  BY <1>1
<1> HIDE DEF v
<1>4. Chain(LastUnit(p, up), v)
  BY <1>1, <1>2 DEF Chain, Follows
<1>5. LastUnit(LastUnit(p, up), v) = GetUnit
  BY <1>2 DEF LastUnit
<1>6. QED  BY <1>1, <1>2, <1>3, <1>4, <1>5, ChainJoin DEF Complete

\* A frame, or its beginning, behind a complete frame.
LEMMA ChainFrame ==
    ASSUME LocalInv, at # "idle", call.input > 0, NEW p, Complete(p), NEW n \in 0..Len(Frame)
    PROVE  /\ SubSeq(Frame, 1, n) \in Seq(UpUnit)
           /\ Chain(p, SubSeq(Frame, 1, n))
           /\ n = Len(Frame) => Complete(LastUnit(p, SubSeq(Frame, 1, n)))
<1>1. /\ Frame \in Seq(UpUnit) /\ Len(Frame) = call.input + 2 /\ call.input \in Nat
      /\ Frame[1] = <<"A", 0, Sample>> /\ Frame[2] = <<"length", call.input, Sample>>
      /\ \A i \in 3..call.input + 2 : Frame[i] = <<"byte", i - 2, Sample>>
  BY FrameUnits
<1> DEFINE v == SubSeq(Frame, 1, n)
<1>2. v \in Seq(UpUnit) /\ Len(v) = n /\ n \in Nat /\ \A i \in 1..n : v[i] = Frame[i]
  BY <1>1
<1> HIDE DEF v
<1>3. IsSample(Sample) /\ Sample[2] = call.input
  BY LimitAssumption DEF IsSample, Sample, LocalInv, TypeOK
<1>4. ASSUME NEW i \in 1..n PROVE Follows(IF i = 1 THEN p ELSE v[i - 1], v[i])
  <2>1. CASE i = 1
    <3>1. v[1] = <<"A", 0, Sample>>
      BY <1>1, <1>2, <2>1
    <3>2. v[1][1] = "A" /\ v[1][3] = Sample
      BY <3>1
    <3>3. QED  BY <1>3, <2>1, <3>2 DEF Follows
  <2>2. CASE i = 2
    <3>1. v[1] = <<"A", 0, Sample>> /\ v[2] = <<"length", call.input, Sample>>
      BY <1>1, <1>2, <2>2
    <3>2. v[1][1] = "A" /\ v[1][3] = Sample /\ v[2][1] = "length" /\ v[2][2] = call.input
          /\ v[2][3] = Sample
      BY <3>1
    <3>3. QED  BY <1>3, <2>2, <3>2 DEF Follows, Complete
  <2>3. CASE i = 3
    <3>1. v[2] = <<"length", call.input, Sample>> /\ v[3] = <<"byte", 1, Sample>>
      <4>1. 2 \in 1..n /\ 3 \in 1..n /\ 3 \in 3..call.input + 2
        BY <1>1, <1>2, <2>3
      <4>2. v[2] = Frame[2] /\ v[3] = Frame[3]
        BY <1>2, <4>1
      <4>3. Frame[3] = <<"byte", 3 - 2, Sample>>
        BY <1>1, <4>1
      <4>4. QED  BY <1>1, <4>2, <4>3
    <3>2. v[2][1] = "length" /\ v[2][3] = Sample /\ v[3][1] = "byte" /\ v[3][2] = 1
          /\ v[3][3] = Sample
      BY <3>1
    <3>3. QED  BY <1>3, <2>3, <3>2 DEF Follows, Complete
  <2>4. CASE i > 3
    <3>1. i - 1 \in 3..call.input + 2 /\ i \in 3..call.input + 2 /\ i - 1 \in 1..n
          /\ (i - 1) - 2 = i - 3 /\ i - 2 = (i - 3) + 1 /\ i - 3 < call.input /\ i - 3 \in Nat
      BY <1>1, <1>2, <2>4
    <3>2. v[i - 1] = <<"byte", i - 3, Sample>> /\ v[i] = <<"byte", (i - 3) + 1, Sample>>
      BY <1>1, <1>2, <3>1
    <3>3. /\ v[i - 1][1] = "byte" /\ v[i - 1][2] = i - 3 /\ v[i - 1][3] = Sample
          /\ v[i][1] = "byte" /\ v[i][2] = (i - 3) + 1 /\ v[i][3] = Sample
      BY <3>2
    <3>4. i - 3 # call.input /\ i # 1
      <4>1. \A a, b \in Nat : a < b => a # b
        OBVIOUS
      <4>2. call.input \in Nat /\ i - 3 \in Nat /\ i - 3 < call.input
        BY <1>1, <3>1
      <4>3. i # 1
        BY <2>4
      <4>4. QED  BY <4>1, <4>2, <4>3
    <3>5. QED  BY <1>3, <3>3, <3>4 DEF Follows, Complete
  <2>5. QED  BY <1>2, <2>1, <2>2, <2>3, <2>4
<1>5. Chain(p, v)
  BY <1>2, <1>4 DEF Chain
<1>6. ASSUME n = Len(Frame) PROVE Complete(LastUnit(p, v))
  <2>1. n \in 3..call.input + 2 /\ n \in 1..n /\ n - 2 = call.input /\ n # 0
    BY <1>1, <1>6
  <2>2. v[n] = <<"byte", call.input, Sample>>
    BY <1>1, <1>2, <2>1
  <2>3. v # <<>> /\ LastUnit(p, v) = v[n]
    BY <1>2, <2>1, EmptySeq DEF LastUnit
  <2>4. v[n][1] = "byte" /\ v[n][2] = call.input /\ v[n][3] = Sample
    BY <2>2
  <2>5. QED  BY <1>3, <2>3, <2>4 DEF Complete
<1>7. QED  BY <1>2, <1>5, <1>6 DEF v

\* What a stream keeps when only the mutator's end of the link changes.
LEMMA StreamSame ==
    ASSUME NEW l, NEW m, NEW kept \in BOOLEAN, NEW still \in BOOLEAN, StreamOf(l, kept),
           m.up = l.up, m.thread = l.thread, m.left = l.left, m.sample = l.sample,
           still => kept
    PROVE  StreamOf(m, still)
BY DEF StreamOf, Behind

\* It is enough to look at the one connection that changes.
LEMMA OneStream ==
    ASSUME FeedbackInv, NEW k \in Connection, OnlyLink(k), StreamOf(link'[k], k = sock'),
           sock' \in {sock, k, NoConnection}, FeedbackIsWhole'
    PROVE  FeedbackInv'
<1>1. ASSUME NEW j \in Connection, j # k PROVE StreamOf(link'[j], j = sock')
  <2>1. link'[j] = link[j] /\ StreamOf(link[j], j = sock)
    BY <1>1 DEF OnlyLink, FeedbackInv
  <2>2. j # NoConnection
    BY LimitAssumption DEF Connection, NoConnection
  <2>3. j = sock' => j = sock
    BY <1>1, <2>2
  <2>4. QED  BY <2>1, <2>3, StreamSame
<1>2. \A j \in Connection : StreamOf(link'[j], j = sock')
  BY <1>1
<1>3. QED  BY <1>2 DEF FeedbackInv

\* Nothing that matters changes.
LEMMA StreamsStay ==
    ASSUME FeedbackInv, sock' = sock, corpus' = corpus,
           \A k \in Connection : link'[k] = link[k]
    PROVE  FeedbackInv'
BY DEF FeedbackInv, FeedbackIsWhole

\* A thread that has read the next unit is behind that one.
LEMMA NextBehind ==
    ASSUME NEW l \in Link, NEW m, NEW kept \in BOOLEAN, StreamOf(l, kept),
           l.thread \notin {"none", "gone"}, l.up # <<>>, m.up = Tail(l.up),
           \A p \in UpUnit : Behind(l, p) /\ Follows(p, Head(l.up)) => Behind(m, Head(l.up))
    PROVE  StreamOf(m, kept)
<1>1. l.up \in Seq(UpUnit)
  BY DEF Link
<1>2. PICK p \in UpUnit : /\ Behind(l, p) /\ Chain(p, l.up)
                          /\ kept => Complete(LastUnit(p, l.up))
  BY DEF StreamOf
<1>3. /\ Head(l.up) \in UpUnit /\ Follows(p, Head(l.up)) /\ Chain(Head(l.up), m.up)
      /\ LastUnit(Head(l.up), m.up) = LastUnit(p, l.up)
  BY <1>1, <1>2, ChainRest
<1>4. Behind(m, Head(l.up))
  BY <1>2, <1>3
<1>5. QED  BY <1>2, <1>3, <1>4 DEF StreamOf

LEMMA OpcodeStream ==
    ASSUME LocalInv, FeedbackInv, NEW k \in Connection, ReadOpcode(k)
    PROVE  FeedbackInv'
<1>1. /\ link[k] \in Link /\ link[k].thread = "opcode" /\ link[k].up # <<>>
      /\ Unit(k) = Head(link[k].up) /\ sock' = sock /\ corpus' = corpus
      /\ StreamOf(link[k], k = sock)
  BY DEF LocalInv, TypeOK, FeedbackInv, ReadOpcode, Got, Unit, clientVars
<1>2. /\ OnlyLink(k) /\ link'[k].up = Tail(link[k].up)
      /\ Refuse(k) \/ Serve(k) \/ Accept(k) \/ Reject(k)
  BY ReadOpcodeEffect
<1>3. ASSUME NEW p \in UpUnit, Behind(link[k], p), Follows(p, Unit(k))
      PROVE  Behind(link'[k], Unit(k))
  <2>1. Unit(k) \in UpUnit
    BY <1>1, Units DEF Link
  <2>2. Unit(k)[1] = "G" \/ (Unit(k)[1] = "A" /\ IsSample(Unit(k)[3]))
    BY <1>1, <1>3 DEF Behind, Follows
  <2>3. \/ Unit(k)[1] = "G" /\ link'[k].thread \in {"opcode", "reply"}
        \/ Unit(k)[1] = "A" /\ link'[k].thread = "length"
        \/ link'[k].thread = "gone"
    BY <1>2 DEF Refuse, Serve, Accept, Reject
  <2>4. QED  BY <2>1, <2>2, <2>3 DEF Behind, Complete
<1>4. StreamOf(link'[k], k = sock)
  BY <1>1, <1>2, <1>3, NextBehind
<1>5. FeedbackIsWhole'
  BY <1>1 DEF FeedbackInv, FeedbackIsWhole
<1>6. QED  BY <1>1, <1>2, <1>4, <1>5, OneStream

LEMMA LengthStream ==
    ASSUME LocalInv, FeedbackInv, NEW k \in Connection, ReadLength(k)
    PROVE  FeedbackInv'
<1>1. /\ link[k] \in Link /\ link[k].thread = "length" /\ link[k].up # <<>>
      /\ Unit(k) = Head(link[k].up) /\ sock' = sock /\ corpus' = corpus
      /\ StreamOf(link[k], k = sock)
  BY DEF LocalInv, TypeOK, FeedbackInv, ReadLength, Got, Unit, clientVars, serverVars
<1>2. /\ OnlyLink(k) /\ link'[k].up = Tail(link[k].up)
      /\ link'[k].left = Unit(k)[2] /\ link'[k].sample = <<>>
      /\ link'[k].thread \in {"payload", "gone"}
  BY ReadLengthEffect
<1>3. ASSUME NEW p \in UpUnit, Behind(link[k], p), Follows(p, Unit(k))
      PROVE  Behind(link'[k], Unit(k))
  <2>1. Unit(k) \in UpUnit
    BY <1>1, Units DEF Link
  <2>2. p[1] = "A"
    BY <1>1, <1>3 DEF Behind
  <2>3. /\ IsSample(Unit(k)[3]) /\ Unit(k)[1] = "length" /\ Unit(k)[2] = Unit(k)[3][2]
    BY <1>3, <2>2 DEF Follows, Complete
  <2>4. Len(link'[k].sample) = 0
    BY <1>2
  <2>5. Unit(k)[2] \in Nat
    BY <2>1 DEF UpUnit
  <2>6. Len(link'[k].sample) + link'[k].left = Unit(k)[3][2]
    BY <1>2, <2>3, <2>4, <2>5
  <2>7. \A i \in 1..Len(link'[k].sample) : FALSE
    BY <2>4
  <2>8. QED  BY <1>2, <2>1, <2>3, <2>6, <2>7 DEF Behind
<1>4. StreamOf(link'[k], k = sock)
  BY <1>1, <1>2, <1>3, NextBehind
<1>5. FeedbackIsWhole'
  BY <1>1 DEF FeedbackInv, FeedbackIsWhole
<1>6. QED  BY <1>1, <1>2, <1>4, <1>5, OneStream

\* The next byte of a sample is read.
LEMMA NextByte ==
    ASSUME LocalInv, NEW k \in Connection, ReadPayload(k), NEW p \in UpUnit,
           Behind(link[k], p), Follows(p, Unit(k))
    PROVE  /\ Unit(k) = <<"byte", Len(link[k].sample) + 1, p[3]>> /\ Unit(k) \in UpUnit
           /\ Unit(k)[1] = "byte" /\ Unit(k)[2] = Len(link[k].sample) + 1
           /\ Unit(k)[3] = p[3]
           /\ IsSample(p[3]) /\ Len(link[k].sample) + link[k].left = p[3][2]
           /\ Len(link[k].sample) \in Nat /\ link[k].left \in Nat
<1>1. /\ link[k] \in Link /\ link[k].thread = "payload" /\ link[k].up # <<>>
      /\ Unit(k) = Head(link[k].up) /\ ThreadOK(link[k])
  BY DEF LocalInv, TypeOK, ReadPayload, Got, Unit
<1>2. /\ link[k].sample \in Seq(UpUnit) /\ link[k].up \in Seq(UpUnit)
      /\ link[k].left \in Nat /\ link[k].left > 0
  BY <1>1 DEF Link, ThreadOK
<1>3. Unit(k) \in UpUnit /\ Len(link[k].sample) \in Nat
  BY <1>1, <1>2, Units
<1>4. /\ IsSample(p[3]) /\ Len(link[k].sample) + link[k].left = p[3][2]
      /\ \A i \in 1..Len(link[k].sample) : link[k].sample[i] = <<"byte", i, p[3]>>
      /\ link[k].sample = <<>> => p[1] = "length"
      /\ link[k].sample # <<>> => p = link[k].sample[Len(link[k].sample)]
  BY <1>1 DEF Behind
<1>5. CASE link[k].sample = <<>>
  <2>1. p[1] = "length" /\ Len(link[k].sample) = 0
    BY <1>4, <1>5
  <2>2. Unit(k)[3] = p[3] /\ Unit(k)[1] = "byte" /\ Unit(k)[2] = 1
    BY <2>1 DEF Follows, Complete
  <2>3. Unit(k) = <<"byte", 1, p[3]>>
    BY <1>3, <2>2 DEF UpUnit
  <2>4. QED  BY <1>2, <1>3, <1>4, <2>1, <2>2, <2>3
<1>6. CASE link[k].sample # <<>>
  <2>1. Len(link[k].sample) \in 1..Len(link[k].sample)
    BY <1>2, <1>6, Rest
  <2>2. p = <<"byte", Len(link[k].sample), p[3]>>
    BY <1>4, <1>6, <2>1
  <2>3. p[1] = "byte" /\ p[2] = Len(link[k].sample)
    BY <2>2
  <2>4. \A a, b \in Nat : b > 0 => a # a + b
    OBVIOUS
  <2>5. p[2] # p[3][2]
    BY <1>2, <1>3, <1>4, <2>3, <2>4
  <2>6. Unit(k)[3] = p[3] /\ Unit(k)[1] = "byte" /\ Unit(k)[2] = Len(link[k].sample) + 1
    BY <2>3, <2>5 DEF Follows, Complete
  <2>7. Unit(k) = <<"byte", Len(link[k].sample) + 1, p[3]>>
    BY <1>3, <2>6 DEF UpUnit
  <2>8. QED  BY <1>2, <1>3, <1>4, <2>6, <2>7
<1>7. QED  BY <1>5, <1>6

\* register_feedback_sample gets what one call has sent.
LEMMA PayloadStream ==
    ASSUME LocalInv, FeedbackInv, NEW k \in Connection, ReadPayload(k)
    PROVE  FeedbackInv'
<1>1. /\ link[k] \in Link /\ link[k].thread = "payload" /\ link[k].up # <<>>
      /\ Unit(k) = Head(link[k].up) /\ sock' = sock /\ StreamOf(link[k], k = sock)
  BY DEF LocalInv, TypeOK, FeedbackInv, ReadPayload, Got, Unit, clientVars
<1>2. link[k].up \in Seq(UpUnit) /\ link[k].sample \in Seq(UpUnit)
  BY <1>1 DEF Link
<1> DEFINE whole == Append(link[k].sample, Unit(k))
           n == Len(link[k].sample) + 1
<1>3. /\ OnlyLink(k) /\ link'[k].up = Tail(link[k].up)
      /\ \/ /\ link[k].left = 1 /\ link'[k].thread = "opcode"
            /\ corpus' = corpus \cup {whole}
         \/ /\ link[k].left > 1 /\ link'[k].thread = "payload"
            /\ link'[k].left = link[k].left - 1 /\ corpus' = corpus
            /\ link'[k].sample = whole
  BY ReadPayloadEffect
<1>4. ASSUME NEW p \in UpUnit, Behind(link[k], p), Follows(p, Unit(k))
      PROVE  /\ whole \in Seq(UpUnit) /\ Len(whole) = n /\ n \in Nat \ {0}
             /\ \A i \in 1..n : whole[i] = <<"byte", i, p[3]>>
             /\ whole[n] = Unit(k) /\ whole # <<>>
  <2>1. /\ Unit(k) = <<"byte", n, p[3]>> /\ Unit(k) \in UpUnit
        /\ Len(link[k].sample) \in Nat
    BY <1>4, NextByte
  <2>2. \A i \in 1..Len(link[k].sample) : link[k].sample[i] = <<"byte", i, p[3]>>
    BY <1>1, <1>4 DEF Behind
  <2>3. /\ whole \in Seq(UpUnit) /\ Len(whole) = n /\ whole[n] = Unit(k)
        /\ \A i \in 1..Len(link[k].sample) : whole[i] = link[k].sample[i]
    BY <1>2, <2>1
  <2>4. \A i \in 1..n : i = n \/ i \in 1..Len(link[k].sample)
    BY <2>1
  <2>5. n \in Nat \ {0}
    BY <2>1
  <2> HIDE DEF whole, n
  <2>6. whole # <<>>
    BY <2>3, <2>5, EmptySeq
  <2>7. \A i \in 1..n : whole[i] = <<"byte", i, p[3]>>
    BY <2>1, <2>2, <2>3, <2>4
  <2>8. QED  BY <2>3, <2>5, <2>6, <2>7
<1>5. ASSUME NEW p \in UpUnit, Behind(link[k], p), Follows(p, Unit(k))
      PROVE  Behind(link'[k], Unit(k))
  <2>1. /\ Unit(k) \in UpUnit /\ Unit(k)[1] = "byte" /\ Unit(k)[2] = n
        /\ Unit(k)[3] = p[3] /\ IsSample(p[3])
        /\ Len(link[k].sample) + link[k].left = p[3][2]
        /\ Len(link[k].sample) \in Nat /\ link[k].left \in Nat
    BY <1>5, NextByte
  <2>2. CASE link[k].left = 1
    <3>1. n = p[3][2]
      BY <2>1, <2>2
    <3>2. link'[k].thread = "opcode"
      BY <1>3, <2>2
    <3> HIDE DEF n
    <3>3. QED  BY <2>1, <3>1, <3>2 DEF Behind, Complete
  <2>3. CASE link[k].left # 1
    <3>1. /\ link'[k].thread = "payload" /\ link'[k].left = link[k].left - 1
          /\ link'[k].sample = whole
      BY <1>3, <2>3
    <3>2. \A a, b \in Nat : (a + 1) + (b - 1) = a + b
      OBVIOUS
    <3>3. n + (link[k].left - 1) = p[3][2]
      BY <2>1, <3>2
    <3>4. /\ Len(whole) = n /\ \A i \in 1..n : whole[i] = <<"byte", i, p[3]>>
          /\ whole[n] = Unit(k) /\ whole # <<>>
      BY <1>4, <1>5
    <3> HIDE DEF n, whole
    <3>5. QED  BY <2>1, <3>1, <3>3, <3>4 DEF Behind
  <2>4. QED  BY <2>2, <2>3
<1>6. StreamOf(link'[k], k = sock)
  <2> HIDE DEF n, whole
  <2>1. QED  BY <1>1, <1>3, <1>5, NextBehind
<1>7. FeedbackIsWhole'
  <2>1. CASE corpus' = corpus
    BY <2>1 DEF FeedbackInv, FeedbackIsWhole
  <2>2. CASE link[k].left = 1 /\ corpus' = corpus \cup {whole}
    <3>1. PICK p \in UpUnit : Behind(link[k], p) /\ Chain(p, link[k].up)
      BY <1>1 DEF StreamOf
    <3>2. Follows(p, Unit(k))
      BY <1>1, <1>2, <3>1, ChainRest
    <3>3. /\ IsSample(p[3]) /\ n = p[3][2]
      BY <2>2, <3>1, <3>2, NextByte
    <3>4. /\ whole \in Seq(UpUnit) /\ Len(whole) = n /\ n \in Nat
          /\ \A i \in 1..n : whole[i] = <<"byte", i, p[3]>>
      BY <1>4, <3>1, <3>2
    <3> HIDE DEF n, whole
    <3>5. p[3] = <<p[3][1], n>>
      BY <3>3 DEF UpUnit
    <3>6. n \in Lengths /\ p[3][1] \in 1..MaxCalls
      BY <3>3 DEF IsSample
    <3>7. whole = [i \in 1..n |-> <<"byte", i, <<p[3][1], n>>>>]
      <4>1. whole \in [1..n -> UpUnit]
        BY <3>4, LenProperties
      <4>2. \A i \in 1..n : whole[i] = <<"byte", i, <<p[3][1], n>>>>
        BY <3>4, <3>5
      <4>3. QED  BY <4>1, <4>2
    <3>8. QED  BY <2>2, <3>6, <3>7 DEF FeedbackInv, FeedbackIsWhole
  <2>3. QED  BY <1>3, <2>1, <2>2
<1>8. QED  BY <1>1, <1>3, <1>6, <1>7, OneStream

\* Replies do not touch what the thread reads.
LEMMA SendStream ==
    ASSUME LocalInv, FeedbackInv, NEW k \in Connection, SendHeader(k) \/ SendData(k)
    PROVE  FeedbackInv'
<1>1. /\ link[k] \in Link /\ link[k].thread \in {"reply", "data"}
      /\ sock' = sock /\ corpus' = corpus /\ StreamOf(link[k], k = sock)
  BY DEF LocalInv, TypeOK, FeedbackInv, SendHeader, SendData, clientVars, serverVars
<1>2. OnlyLink(k) /\ link'[k].up = link[k].up /\ link'[k].thread \in {"data", "opcode"}
  BY SendHeaderEffect, SendDataEffect
<1>3. PICK p \in UpUnit : /\ Behind(link[k], p) /\ Chain(p, link[k].up)
                          /\ k = sock => Complete(LastUnit(p, link[k].up))
  BY <1>1 DEF StreamOf
<1>4. Behind(link'[k], p)
  BY <1>1, <1>2, <1>3 DEF Behind
<1>5. StreamOf(link'[k], k = sock)
  BY <1>2, <1>3, <1>4 DEF StreamOf
<1>6. FeedbackIsWhole'
  BY <1>1 DEF FeedbackInv, FeedbackIsWhole
<1>7. QED  BY <1>1, <1>2, <1>5, <1>6, OneStream

LEMMA ThreadStream ==
    ASSUME LocalInv, FeedbackInv, NEW k \in Connection, Thread(k)
    PROVE  FeedbackInv'
<1>1. CASE ThreadEnds(k)
  <2>1. OnlyLink(k) /\ link'[k].thread = "gone" /\ sock' = sock /\ corpus' = corpus
    BY <1>1, ThreadEndsEffect, DeadLinkFields DEF ThreadEnds, clientVars, serverVars
  <2>2. StreamOf(link'[k], k = sock')
    BY <2>1 DEF StreamOf
  <2>3. FeedbackIsWhole'
    BY <2>1 DEF FeedbackInv, FeedbackIsWhole
  <2>4. QED  BY <2>1, <2>2, <2>3, OneStream
<1>2. QED  BY <1>1, OpcodeStream, LengthStream, PayloadStream, SendStream DEF Thread

LEMMA RestartStream ==
    ASSUME LocalInv, FeedbackInv, Restart
    PROVE  FeedbackInv'
<1>1. \A k \in Connection : link'[k].thread \in {"none", "gone"}
  BY RestartEffect
<1>2. \A k \in Connection : StreamOf(link'[k], k = sock')
  BY <1>1 DEF StreamOf
<1>3. corpus' \subseteq corpus
  BY DEF Restart
<1>4. FeedbackIsWhole'
  BY <1>3 DEF FeedbackInv, FeedbackIsWhole
<1>5. QED  BY <1>2, <1>4 DEF FeedbackInv

\* A connection that is given up.
LEMMA DropStream ==
    ASSUME LocalInv, FeedbackInv, sock # NoConnection, drop_connection, corpus' = corpus
    PROVE  FeedbackInv'
<1>1. sock \in Connection /\ link[sock] \in Link /\ StreamOf(link[sock], TRUE)
  BY DEF LocalInv, TypeOK, FeedbackInv
<1>2. OnlyLink(sock) /\ sock' = NoConnection /\ link'[sock] = Closed(link[sock])
  BY DropEffect
<1>3. /\ Closed(link[sock]).thread = link[sock].thread
      /\ link[sock].thread # "gone" => SameThread(link[sock], Closed(link[sock]))
                                       /\ Closed(link[sock]).up = link[sock].up
  BY <1>1, ClosedLink DEF SameThread
<1>4. StreamOf(link'[sock], sock = sock')
  <2>1. CASE link[sock].thread = "gone"
    BY <1>2, <1>3, <2>1 DEF StreamOf
  <2>2. CASE link[sock].thread # "gone"
    BY <1>1, <1>2, <1>3, <2>2, StreamSame DEF SameThread
  <2>3. QED  BY <2>1, <2>2
<1>5. FeedbackIsWhole'
  BY DEF FeedbackInv, FeedbackIsWhole
<1>6. QED  BY <1>1, <1>2, <1>4, <1>5, OneStream

\* The mutator reads a unit.
LEMMA TakeStream ==
    ASSUME LocalInv, FeedbackInv, sock # NoConnection, link[sock].down # <<>>, Take,
           sock' = sock, corpus' = corpus
    PROVE  FeedbackInv'
<1>1. sock \in Connection /\ StreamOf(link[sock], TRUE)
  BY DEF LocalInv, TypeOK, FeedbackInv
<1>2. OnlyLink(sock) /\ link'[sock].up = link[sock].up
      /\ SameThread(link[sock], link'[sock])
  BY TakeEffect
<1>3. StreamOf(link'[sock], sock = sock')
  BY <1>1, <1>2, StreamSame DEF SameThread
<1>4. FeedbackIsWhole'
  BY DEF FeedbackInv, FeedbackIsWhole
<1>5. QED  BY <1>1, <1>2, <1>3, <1>4, OneStream

LEMMA ReconnectStream ==
    ASSUME LocalInv, FeedbackInv, maybe_reconnect
    PROVE  FeedbackInv'
<1>1. corpus' = corpus
  BY DEF maybe_reconnect, serverVars
<1>2. CASE UNCHANGED <<sock, link>>
  BY <1>1, <1>2, StreamsStay
<1>3. CASE made < MaxConnections /\ Connect(made + 1)
  <2>1. sock' \in Connection /\ OnlyLink(sock') /\ link'[sock'] = NewLink
    BY <1>3, ConnectEffect
  <2>2. GetUnit \in UpUnit /\ Complete(GetUnit)
    BY DEF GetUnit, UpUnit, Complete
  <2>3. Behind(NewLink, GetUnit) /\ Chain(GetUnit, NewLink.up)
        /\ LastUnit(GetUnit, NewLink.up) = GetUnit
    BY <2>2, NewLinkFields DEF Behind, Chain, LastUnit
  <2>4. StreamOf(NewLink, TRUE)
    BY <2>2, <2>3 DEF StreamOf
  <2>5. FeedbackIsWhole'
    BY <1>1 DEF FeedbackInv, FeedbackIsWhole
  <2>6. QED  BY <2>1, <2>4, <2>5, OneStream
<1>4. QED  BY <1>2, <1>3 DEF maybe_reconnect

LEMMA RequestStream ==
    ASSUME LocalInv, FeedbackInv, Request
    PROVE  FeedbackInv'
<1>1. corpus' = corpus
  BY DEF Request, Miss, serverVars
<1>2. CASE UNCHANGED <<sock, link>>
  BY <1>1, <1>2, StreamsStay
<1>3. CASE sock # NoConnection /\ drop_connection
  BY <1>1, <1>3, DropStream
<1>4. CASE /\ sock # NoConnection /\ sock' = sock
           /\ link' = [link EXCEPT ![sock].up = Append(@, <<"G", 0, <<0, 0>>>>)]
  <2>1. /\ OnlyLink(sock) /\ link[sock].up \in Seq(UpUnit)
        /\ link'[sock].up = Append(link[sock].up, GetUnit)
        /\ SameThread(link[sock], link'[sock])
    BY <1>4, AskEffect
  <2>2. sock \in Connection /\ StreamOf(link[sock], TRUE)
    BY <1>4 DEF LocalInv, TypeOK, FeedbackInv
  <2>3. StreamOf(link'[sock], TRUE)
    <3>1. CASE link[sock].thread \in {"none", "gone"}
      BY <2>1, <3>1 DEF StreamOf, SameThread
    <3>2. CASE link[sock].thread \notin {"none", "gone"}
      <4>1. PICK p \in UpUnit : /\ Behind(link[sock], p) /\ Chain(p, link[sock].up)
                                /\ Complete(LastUnit(p, link[sock].up))
        BY <2>2, <3>2 DEF StreamOf
      <4>2. Chain(p, link'[sock].up) /\ Complete(LastUnit(p, link'[sock].up))
        BY <2>1, <4>1, ChainAsk
      <4>3. Behind(link'[sock], p)
        BY <2>1, <4>1 DEF Behind, SameThread
      <4>4. QED  BY <4>2, <4>3 DEF StreamOf
    <3>3. QED  BY <3>1, <3>2
  <2>4. FeedbackIsWhole'
    BY <1>1 DEF FeedbackInv, FeedbackIsWhole
  <2>5. QED  BY <1>4, <2>1, <2>2, <2>3, <2>4, OneStream
<1>5. QED  BY <1>2, <1>3, <1>4 DEF Request

\* A frame that is sent as a whole keeps the connection; one that is cut off
\* gives it up.
LEMMA FeedbackStream ==
    ASSUME LocalInv, FeedbackInv, send_feedback
    PROVE  FeedbackInv'
<1>1. corpus' = corpus /\ at # "idle"
  BY DEF send_feedback, serverVars
<1>2. FeedbackIsWhole'
  BY <1>1 DEF FeedbackInv, FeedbackIsWhole
<1>3. CASE UNCHANGED <<sock, link>>
  BY <1>1, <1>3, StreamsStay
<1>4. ASSUME sock # NoConnection, call.input > 0, NEW n \in 0..Len(Frame)
      PROVE  StreamOf(Sent(n), n = Len(Frame))
  <2>1. sock \in Connection /\ StreamOf(link[sock], TRUE)
    BY <1>4 DEF LocalInv, TypeOK, FeedbackInv
  <2>2. /\ link[sock] \in Link /\ SameThread(link[sock], Sent(n))
        /\ link[sock].thread # "gone" => Sent(n).up = link[sock].up \o SubSeq(Frame, 1, n)
    BY <1>4, SentEffect
  <2>3. CASE link[sock].thread \in {"none", "gone"}
    BY <2>2, <2>3 DEF StreamOf, SameThread
  <2>4. CASE link[sock].thread \notin {"none", "gone"}
    <3>1. PICK p \in UpUnit : /\ Behind(link[sock], p) /\ Chain(p, link[sock].up)
                              /\ Complete(LastUnit(p, link[sock].up))
      BY <2>1, <2>4 DEF StreamOf
    <3> DEFINE q == LastUnit(p, link[sock].up)
               v == SubSeq(Frame, 1, n)
    <3>2. v \in Seq(UpUnit) /\ Chain(q, v) /\ (n = Len(Frame) => Complete(LastUnit(q, v)))
      BY <1>1, <1>4, <3>1, ChainFrame
    <3>3. link[sock].up \in Seq(UpUnit) /\ Sent(n).up = link[sock].up \o v
      BY <2>2, <2>4 DEF Link
    <3> HIDE DEF v
    <3>4. Chain(p, Sent(n).up) /\ LastUnit(p, Sent(n).up) = LastUnit(q, v)
      <4>1. /\ Chain(p, link[sock].up \o v)
            /\ LastUnit(p, link[sock].up \o v) = LastUnit(LastUnit(p, link[sock].up), v)
        BY <3>1, <3>2, <3>3, ChainJoin
      <4>2. QED  BY <3>3, <4>1
    <3>5. Behind(Sent(n), p)
      BY <2>2, <3>1 DEF Behind, SameThread
    <3> HIDE DEF q
    <3>6. QED  BY <3>2, <3>4, <3>5 DEF StreamOf
  <2>5. QED  BY <2>3, <2>4
<1>5. CASE /\ sock # NoConnection /\ call.input > 0 /\ sock' = sock
           /\ link' = [link EXCEPT ![sock] = Sent(Len(Frame))]
  <2>1. Len(Frame) \in 0..Len(Frame)
    BY FrameUnits
  <2>2. StreamOf(Sent(Len(Frame)), TRUE)
    BY <1>4, <1>5, <2>1
  <2>3. Sent(Len(Frame)) \in Link /\ ThreadOK(Sent(Len(Frame)))
    BY <1>5, <2>1, SentEffect
  <2>4. sock \in Connection /\ link \in [Connection -> Link]
    BY <1>5 DEF LocalInv, TypeOK
  <2>5. OnlyLink(sock) /\ link'[sock] = Sent(Len(Frame))
    BY <1>5, <2>3, <2>4, Replace
  <2>6. QED  BY <1>2, <1>5, <2>2, <2>4, <2>5, OneStream
<1>6. CASE /\ sock # NoConnection /\ call.input > 0 /\ sock' = NoConnection
           /\ \E n \in 0..Len(Frame) - 1 : link' = [link EXCEPT ![sock] = Closed(Sent(n))]
  <2>1. PICK n \in 0..Len(Frame) - 1 : link' = [link EXCEPT ![sock] = Closed(Sent(n))]
    BY <1>6
  <2>2. n \in 0..Len(Frame)
    BY FrameUnits
  <2>3. StreamOf(Sent(n), n = Len(Frame))
    BY <1>4, <1>6, <2>2
  <2>4. Sent(n) \in Link /\ ThreadOK(Sent(n))
    BY <1>6, <2>2, SentEffect
  <2>5. /\ Closed(Sent(n)) \in Link /\ Closed(Sent(n)).thread = Sent(n).thread
        /\ Sent(n).thread # "gone" => SameThread(Sent(n), Closed(Sent(n)))
                                      /\ Closed(Sent(n)).up = Sent(n).up
    BY <2>4, ClosedLink DEF SameThread
  <2>6. ThreadOK(Closed(Sent(n)))
    BY <2>4, <2>5 DEF ThreadOK, SameThread
  <2>7. StreamOf(Closed(Sent(n)), FALSE)
    <3>1. CASE Sent(n).thread = "gone"
      BY <2>5, <3>1 DEF StreamOf
    <3>2. CASE Sent(n).thread # "gone"
      BY <2>3, <2>5, <3>2, StreamSame DEF SameThread
    <3>3. QED  BY <3>1, <3>2
  <2>8. sock \in Connection /\ link \in [Connection -> Link]
    BY <1>6 DEF LocalInv, TypeOK
  <2>9. OnlyLink(sock) /\ link'[sock] = Closed(Sent(n))
    BY <2>1, <2>5, <2>6, <2>8, Replace
  <2>10. StreamOf(link'[sock], sock = sock')
    BY <1>6, <2>7, <2>9
  <2>11. QED  BY <1>2, <1>6, <2>8, <2>9, <2>10, OneStream
<1>7. QED  BY <1>3, <1>5, <1>6 DEF send_feedback

LEMMA InitStream == Init => FeedbackInv
<1> SUFFICES ASSUME Init PROVE FeedbackInv
  OBVIOUS
<1>1. GetUnit \in UpUnit /\ Complete(GetUnit)
  BY DEF GetUnit, UpUnit, Complete
<1>2. Behind(NewLink, GetUnit) /\ Chain(GetUnit, NewLink.up)
      /\ LastUnit(GetUnit, NewLink.up) = GetUnit
  BY <1>1, NewLinkFields DEF Behind, Chain, LastUnit
<1>3. ASSUME NEW kept \in BOOLEAN PROVE StreamOf(NewLink, kept) /\ StreamOf(NoLink, kept)
  <2>1. NoLink.thread = "none"
    BY DEF NoLink
  <2>2. QED  BY <1>1, <1>2, <2>1 DEF StreamOf
<1>4. ASSUME NEW k \in Connection PROVE StreamOf(link[k], k = sock)
  <2>1. link[k] \in {NewLink, NoLink}
    BY DEF Init
  <2>2. QED  BY <1>3, <2>1
<1>5. FeedbackIsWhole
  BY DEF FeedbackIsWhole, Init
<1>6. QED  BY <1>4, <1>5 DEF FeedbackInv

LEMMA StepStream == LocalInv /\ FeedbackInv /\ [Next]_vars => FeedbackInv'
<1> SUFFICES ASSUME LocalInv, FeedbackInv, [Next]_vars PROVE FeedbackInv'
  OBVIOUS
<1>1. CASE UNCHANGED <<sock, link, corpus>>
  BY <1>1, StreamsStay
<1>2. ASSUME NEW n \in Lengths, afl_custom_fuzz(n) \/ afl_custom_queue_new_entry(n)
      PROVE  FeedbackInv'
  BY <1>1, <1>2 DEF afl_custom_fuzz, afl_custom_queue_new_entry, serverVars
<1>3. CASE ReadHeader \/ ReadBody
  <2>1. /\ sock # NoConnection /\ link[sock].down # <<>> /\ Take
        /\ sock' = sock /\ corpus' = corpus
    BY <1>3 DEF LocalInv, ReadHeader, ReadBody, Miss, Hit, serverVars
  <2>2. QED  BY <2>1, TakeStream
<1>4. CASE ReadFails
  <2>1. sock # NoConnection /\ drop_connection /\ corpus' = corpus
    BY <1>4 DEF LocalInv, ReadFails, Miss, serverVars
  <2>2. QED  BY <2>1, DropStream
<1>5. CASE maybe_reconnect \/ Request \/ send_feedback
  BY <1>5, ReconnectStream, RequestStream, FeedbackStream
<1>6. ASSUME NEW k \in Connection, Thread(k) PROVE FeedbackInv'
  BY <1>6, ThreadStream
<1>7. CASE NextSecond \/ Produce \/ (\E c \in Candidate : Put(c)) \/ UNCHANGED vars
  BY <1>1, <1>7 DEF NextSecond, Produce, Put, vars, clientVars, serverVars
<1>8. CASE Restart
  BY <1>8, RestartStream
<1>9. QED  BY <1>2, <1>3, <1>4, <1>5, <1>6, <1>7, <1>8 DEF Next, MutatorStep

\* Every sample the server keeps is one that a call has sent, from its first
\* byte to its last, however frames were cut off and connections given up.
THEOREM FeedbackStaysWhole == Spec => []FeedbackIsWhole
<1>1. MainInv => LocalInv
  BY DEF MainInv
<1>2. FeedbackInv => FeedbackIsWhole
  BY DEF FeedbackInv
<1>3. QED  BY <1>1, <1>2, MainInvariance, InitStream, StepStream, PTL DEF Spec

=============================================================================
