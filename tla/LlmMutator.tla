----------------------------- MODULE LlmMutator -----------------------------
(***************************************************************************)
(* The AFL++ custom mutator that asks a candidate server for inputs        *)
(* (afl_llm_mutator.c), and that server (llm_mutator_server.py): its       *)
(* producers, its bounded queue and one thread per connection.             *)
(*                                                                         *)
(* A connection is a pair of byte streams without message boundaries.  Its *)
(* units are <<kind, n, what>>: an opcode, a length n, or byte n of the    *)
(* candidate or sample called what; a sample is called by the number of    *)
(* the call that sends it and by its length.  A reader takes the next unit *)
(* for what it expects there, so that peers out of step misread each       *)
(* other.  The mutator never waits for long: each read has a deadline, and *)
(* whichever way a request fails the connection is given up.               *)
(***************************************************************************)
EXTENDS Naturals, Sequences, FiniteSets

CONSTANTS
    Workers,           \* LLM_MUTATOR_WORKERS: number of producer threads
    Candidate,         \* candidates they may generate, in this order: 1..n
    Size,              \* Size[c]: length of a candidate
    QueueSize,         \* LLM_MUTATOR_QUEUE_SIZE
    MaxSample,         \* LLM_MUTATOR_MAX_SAMPLE_SIZE
    Lengths,           \* lengths of seeds, samples and of max_size
    MaxCalls,          \* bound of the model: calls of the mutator
    MaxConnections,    \* bound of the model: connections made
    MaxRestarts        \* bound of the model: restarts of the server

ASSUME CandidateAssumption == IsFiniteSet(Candidate) /\ Candidate = 1..Cardinality(Candidate)
ASSUME SizeAssumption == Size \in [Candidate -> Nat \ {0}]
ASSUME LengthsAssumption == Lengths \subseteq Nat
ASSUME LimitAssumption ==
    /\ QueueSize \in Nat \ {0} /\ MaxSample \in Nat /\ Workers \in Nat
    /\ MaxCalls \in Nat /\ MaxConnections \in Nat \ {0} /\ MaxRestarts \in Nat

Connection == 1..MaxConnections
NoConnection == 0

VARIABLES
    at,         \* the step of the mutator
    call,       \* its locals: see Call
    sock,       \* its connection, NoConnection for -1
    tried,      \* a reconnect was already attempted in this second
    produced,   \* length of the last output
    calls,      \* calls so far
    hits,       \* data->hits
    delivered,  \* history: candidates that became an output
    link,       \* connections, see Link
    made,       \* connections made so far
    queue,      \* sample_queue
    inHand,     \* candidates the producers have generated and not yet put
    generated,  \* candidates generated so far
    corpus,     \* accepted feedback samples
    restarts    \* restarts of the server so far

clientVars == <<at, call, sock, tried, produced, calls, hits, delivered>>
serverVars == <<queue, inHand, generated, corpus, restarts>>
vars == <<clientVars, link, made, serverVars>>

\* The mutator's locals: max_size, the length of the sample, the length the
\* reply announced, the units read and the candidates they are of.
NoCall == [room |-> 0, input |-> 0, payload |-> 0, read |-> 0, from |-> {}]

\* The connection's streams, whether the mutator's end is open, and the
\* server's thread: its step, the units still to read or send, what it sends
\* and the units it has read.
NoLink == [up |-> <<>>, down |-> <<>>, open |-> FALSE, thread |-> "none",
           left |-> 0, item |-> 0, sample |-> <<>>]

NewLink == [NoLink EXCEPT !.open = TRUE, !.thread = "opcode"]

\* Nothing is left of a connection both sides have given up.
DeadLink == [NoLink EXCEPT !.thread = "gone"]

ThreadStep == {"none", "opcode", "length", "payload", "reply", "data", "gone"}

UpUnit == {"G", "A", "length", "byte"} \X Nat \X (Nat \X Nat)
DownUnit == {"length", "byte"} \X Nat \X (Candidate \cup {0})

Call == [room : Nat, input : Nat, payload : Nat, read : Nat,
         from : SUBSET (Candidate \cup {0})]
Link == [up : Seq(UpUnit), down : Seq(DownUnit), open : BOOLEAN, thread : ThreadStep,
         left : Nat, item : Candidate \cup {0}, sample : Seq(UpUnit)]

TypeOK ==
    /\ at \in {"idle", "reconnectFetch", "reconnectFeedback", "request", "feedback",
               "header", "body", "drain"}
    /\ call \in Call
    /\ sock \in Connection \cup {NoConnection}
    /\ tried \in BOOLEAN
    /\ delivered \subseteq Candidate
    /\ hits \in Nat /\ produced \in Nat
    /\ calls \in 0..MaxCalls
    /\ link \in [Connection -> Link]
    /\ made \in 0..MaxConnections
    /\ queue \in Seq(Candidate) /\ Len(queue) <= QueueSize
    /\ inHand \subseteq Candidate /\ Cardinality(inHand) <= Workers
    /\ generated \in 0..Cardinality(Candidate)
    /\ corpus \subseteq Seq(UpUnit)
    /\ restarts \in 0..MaxRestarts

\* afl_custom_init has connected or failed to; either way it has not used up
\* the reconnect of this second.
Init ==
    /\ at = "idle" /\ call = NoCall
    /\ tried = FALSE
    /\ produced = 0 /\ calls = 0 /\ hits = 0 /\ delivered = {}
    /\ made \in {0, 1} /\ sock = made
    /\ link = [k \in Connection |-> IF k = made THEN NewLink ELSE NoLink]
    /\ queue = <<>> /\ inHand = {} /\ generated = 0
    /\ corpus = {} /\ restarts = 0

-----------------------------------------------------------------------------
\* The mutator.

min_size(a, b) == IF a < b THEN a ELSE b

\* Mutant: an insertion may fill the byte behind max_size.
FallbackOverlong(input, room) ==
    LET n == min_size(input, room)
    IN  IF n = 0 THEN {1} ELSE n .. min_size(n + 4, room + 1)

\* Lengths cheap_fallback_mutation can produce: one to four operations, of
\* which each may insert a byte while n + 1 < max_size.
cheap_fallback_mutation(input, room) ==
    LET n == min_size(input, room)
    IN  IF n = 0 THEN {1}
        ELSE {n} \cup {m \in n .. n + 4 : m < room}

\* A request without a candidate: the output is a local mutation of the seed,
\* whose length matters only here.
Miss ==
    /\ at' = "idle"
    /\ \E input \in Lengths : produced' \in cheap_fallback_mutation(input, call.room)
    /\ call' = [NoCall EXCEPT !.room = call.room]
    /\ UNCHANGED <<tried, calls, hits, delivered, made, serverVars>>

\* What the mutator has not read is lost; the server still reads what it was
\* sent.
Closed(l) == IF l.thread = "gone" THEN DeadLink ELSE [l EXCEPT !.open = FALSE, !.down = <<>>]

\* Mutant: a request that is answered too late leaves the connection open.
KeepConnection == UNCHANGED <<link, sock>>

drop_connection ==
    /\ link' = [link EXCEPT ![sock] = Closed(@)]
    /\ sock' = NoConnection

\* afl_custom_fuzz; without room for a single byte it produces nothing.
afl_custom_fuzz(room) ==
    /\ at = "idle" /\ calls < MaxCalls
    /\ calls' = calls + 1
    /\ call' = [NoCall EXCEPT !.room = room]
    /\ at' = IF room = 0 THEN "idle" ELSE "reconnectFetch"
    /\ produced' = 0
    /\ UNCHANGED <<sock, tried, hits, delivered, link, made, serverVars>>

\* afl_custom_queue_new_entry with a file that can be read.
afl_custom_queue_new_entry(input) ==
    /\ at = "idle" /\ calls < MaxCalls
    /\ calls' = calls + 1
    /\ call' = [NoCall EXCEPT !.input = input]
    /\ at' = "reconnectFeedback"
    /\ produced' = 0
    /\ UNCHANGED <<sock, tried, hits, delivered, link, made, serverVars>>

Connect(k) ==
    /\ link' = [link EXCEPT ![k] = NewLink]
    /\ made' = k /\ sock' = k

\* maybe_reconnect: one attempt per second, which may fail.
maybe_reconnect ==
    /\ \/ at = "reconnectFetch" /\ at' = "request"
       \/ at = "reconnectFeedback" /\ at' = "feedback"
    /\ IF sock # NoConnection \/ tried
       THEN UNCHANGED <<sock, tried, link, made>>
       ELSE /\ tried' = TRUE
            /\ \/ made < MaxConnections /\ Connect(made + 1)
               \/ UNCHANGED <<sock, link, made>>
    /\ UNCHANGED <<call, produced, calls, hits, delivered, serverVars>>

\* The clock moves on to the next second.
NextSecond ==
    /\ tried /\ tried' = FALSE
    /\ UNCHANGED <<at, call, sock, produced, calls, hits, delivered, link, made, serverVars>>

\* fetch_candidate: the opcode is sent, or the send fails.
Request ==
    /\ at = "request"
    /\ \/ sock = NoConnection /\ Miss /\ UNCHANGED <<sock, link>>
       \/ sock # NoConnection /\ Miss /\ drop_connection
       \/ /\ sock # NoConnection
          /\ at' = "header"
          /\ link' = [link EXCEPT ![sock].up = Append(@, <<"G", 0, <<0, 0>>>>)]
          /\ UNCHANGED <<call, sock, tried, produced, calls, hits, delivered,
                         made, serverVars>>

\* Mutant: a read waits until the server answers or closes the connection.
ReadBlocks ==
    /\ at \in {"header", "body", "drain"}
    /\ link[sock].down = <<>> /\ link[sock].thread = "gone"
    /\ Miss /\ drop_connection

\* The deadline of a read passes, or the server has closed the connection.
ReadFails ==
    /\ at \in {"header", "body", "drain"}
    /\ link[sock].down = <<>>
    /\ Miss /\ drop_connection

Take == link' = [link EXCEPT ![sock].down = Tail(@)]
NextUnit == Head(link[sock].down)

\* The header is read: no candidate leaves the connection as it is.
ReadHeader ==
    /\ at = "header" /\ link[sock].down # <<>> /\ Take
    /\ IF NextUnit[2] = 0
       THEN Miss
       ELSE /\ at' = "body"
            /\ call' = [call EXCEPT !.payload = NextUnit[2]]
            /\ UNCHANGED <<tried, produced, calls, hits, delivered, made, serverVars>>
    /\ UNCHANGED sock

ToCopy == min_size(call.payload, call.room)

\* blend_with_seed keeps the length of the candidate that was copied.
Hit(from) ==
    /\ at' = "idle"
    /\ produced' = ToCopy
    /\ hits' = hits + 1
    /\ delivered' = delivered \cup from
    /\ call' = [NoCall EXCEPT !.room = call.room]
    /\ UNCHANGED <<tried, calls, made, serverVars>>

\* The candidate is copied as far as it fits; the rest is drained.
ReadBody ==
    /\ at \in {"body", "drain"} /\ link[sock].down # <<>> /\ Take
    /\ LET n == call.read + 1
           from == call.from \cup {NextUnit[3]}
       IN  \/ /\ n < call.payload
              /\ call' = [call EXCEPT !.read = n, !.from = from]
              /\ at' = IF n < ToCopy THEN "body" ELSE "drain"
              /\ UNCHANGED <<tried, produced, calls, hits, delivered, made, serverVars>>
           \/ n >= call.payload /\ Hit(from)
    /\ UNCHANGED sock

\* The sample of this call, cut to the length that is sent (at most 65535), and
\* the units of its feedback frame.
Sample == <<calls, call.input>>
Frame == <<<<"A", 0, Sample>>, <<"length", call.input, Sample>>>>
         \o [i \in 1..call.input |-> <<"byte", i, Sample>>]

\* The connection after n units have been sent.
Sent(n) == IF link[sock].thread = "gone" THEN link[sock]
           ELSE [link[sock] EXCEPT !.up = @ \o SubSeq(Frame, 1, n)]

\* Mutant: a frame that could not be sent as a whole is not given up.
FeedbackKeepsConnection ==
    /\ at = "feedback" /\ at' = "idle"
    /\ \/ (sock = NoConnection \/ call.input = 0) /\ UNCHANGED link
       \/ /\ sock # NoConnection /\ call.input > 0
          /\ \E n \in 0..Len(Frame) : link' = [link EXCEPT ![sock] = Sent(n)]
    /\ call' = NoCall
    /\ UNCHANGED <<sock, tried, produced, calls, hits, delivered, made, serverVars>>

\* send_feedback: an empty sample is not sent; a send that cannot take all of
\* the frame leaves its beginning with the server and drops the connection.
send_feedback ==
    /\ at = "feedback" /\ at' = "idle"
    /\ \/ (sock = NoConnection \/ call.input = 0) /\ UNCHANGED <<sock, link>>
       \/ /\ sock # NoConnection /\ call.input > 0
          /\ link' = [link EXCEPT ![sock] = Sent(Len(Frame))] /\ UNCHANGED sock
       \/ /\ sock # NoConnection /\ call.input > 0
          /\ \E n \in 0..Len(Frame) - 1 : link' = [link EXCEPT ![sock] = Closed(Sent(n))]
          /\ sock' = NoConnection
    /\ call' = NoCall
    /\ UNCHANGED <<tried, produced, calls, hits, delivered, made, serverVars>>

\* afl_custom_fuzz and afl_custom_queue_new_entry, once called.
MutatorStep ==
    \/ maybe_reconnect \/ Request \/ ReadHeader \/ ReadBody
    \/ ReadFails \/ send_feedback

-----------------------------------------------------------------------------
\* The server: handle_client, one thread per connection.

Got(k, step) == link[k].thread = step /\ link[k].up # <<>>
Unit(k) == Head(link[k].up)

\* Mutant: the candidate stays in the queue.
Peek == queue

\* The queue after its first candidate was taken.
get_nowait == Tail(queue)

\* A request takes a candidate from the queue, if there is one; an unknown
\* opcode closes the connection.
ReadOpcode(k) ==
    /\ Got(k, "opcode")
    /\ \/ /\ Unit(k)[1] = "G" /\ queue = <<>>
          /\ link' = [link EXCEPT ![k].up = Tail(@),
                                  ![k].down = IF link[k].open THEN Append(@, <<"length", 0, 0>>)
                                                              ELSE @]
          /\ UNCHANGED queue
       \/ /\ Unit(k)[1] = "G" /\ queue # <<>>
          /\ link' = [link EXCEPT ![k].up = Tail(@), ![k].thread = "reply",
                                  ![k].item = Head(queue)]
          /\ queue' = get_nowait
       \/ /\ Unit(k)[1] # "G"
          /\ link' = [link EXCEPT ![k].up = Tail(@),
                                  ![k].thread = IF Unit(k)[1] = "A" THEN "length" ELSE "gone"]
          /\ UNCHANGED queue
    /\ UNCHANGED <<clientVars, made, inHand, generated, corpus, restarts>>

ReadLength(k) ==
    /\ Got(k, "length")
    /\ link' = [link EXCEPT ![k].up = Tail(@), ![k].left = Unit(k)[2], ![k].sample = <<>>,
                            ![k].thread = IF Unit(k)[2] \in 1..MaxSample THEN "payload"
                                                                         ELSE "gone"]
    /\ UNCHANGED <<clientVars, made, serverVars>>

\* register_feedback_sample, when the last byte has been read.
ReadPayload(k) ==
    /\ Got(k, "payload")
    /\ LET whole == Append(link[k].sample, Unit(k))
           last == link[k].left = 1
       IN  /\ link' = [link EXCEPT ![k].up = Tail(@), ![k].left = @ - 1,
                                   ![k].sample = IF last THEN <<>> ELSE whole,
                                   ![k].thread = IF last THEN "opcode" ELSE @]
           /\ corpus' = IF last THEN corpus \cup {whole} ELSE corpus
    /\ UNCHANGED <<clientVars, made, queue, inHand, generated, restarts>>

\* Both parts of a reply; the peer may have closed the connection meanwhile.
SendHeader(k) ==
    /\ link[k].thread = "reply" /\ link[k].open
    /\ link' = [link EXCEPT ![k].down = Append(@, <<"length", Size[link[k].item], link[k].item>>),
                            ![k].thread = "data", ![k].left = Size[link[k].item]]
    /\ UNCHANGED <<clientVars, made, serverVars>>

SendData(k) ==
    /\ link[k].thread = "data" /\ link[k].open
    /\ link' = [link EXCEPT ![k].down = Append(@, <<"byte", Size[link[k].item] - link[k].left + 1,
                                                    link[k].item>>),
                            ![k].left = @ - 1,
                            ![k].item = IF link[k].left = 1 THEN 0 ELSE @,
                            ![k].thread = IF link[k].left = 1 THEN "opcode" ELSE @]
    /\ UNCHANGED <<clientVars, made, serverVars>>

\* The end of the stream, or an error on a connection the mutator has closed.
ThreadEnds(k) ==
    /\ link[k].thread \notin {"none", "gone"} /\ ~link[k].open
    /\ link' = [link EXCEPT ![k] = DeadLink]
    /\ UNCHANGED <<clientVars, made, serverVars>>

Thread(k) ==
    \/ ReadOpcode(k) \/ ReadLength(k) \/ ReadPayload(k)
    \/ SendHeader(k) \/ SendData(k) \/ ThreadEnds(k)

-----------------------------------------------------------------------------
\* The server: producer_worker.  Nothing is generated while the queue is full,
\* but several producers may find room for one.
Produce ==
    /\ Cardinality(inHand) < Workers /\ Len(queue) < QueueSize
    /\ generated + 1 \in Candidate
    /\ generated' = generated + 1
    /\ inHand' = inHand \cup {generated + 1}
    /\ UNCHANGED <<clientVars, link, made, queue, corpus, restarts>>

\* Mutant: a producer that waited for room puts its candidate anyway.
PutAnyway(c) ==
    /\ c \in inHand
    /\ inHand' = inHand \ {c}
    /\ queue' = Append(queue, c)
    /\ UNCHANGED <<clientVars, link, made, generated, corpus, restarts>>

\* put waits for a while; a candidate that finds the queue full is lost.
Put(c) ==
    /\ c \in inHand
    /\ inHand' = inHand \ {c}
    /\ queue' = IF Len(queue) < QueueSize THEN Append(queue, c) ELSE queue
    /\ UNCHANGED <<clientVars, link, made, generated, corpus, restarts>>

\* The server is stopped and started again: its queue, threads and connections
\* are gone; samples that could be written are loaded again.  A sample file is
\* taken to be whole or absent.
Restart ==
    /\ restarts < MaxRestarts
    /\ restarts' = restarts + 1
    /\ queue' = <<>> /\ inHand' = {}
    /\ link' = [k \in Connection |->
                  IF link[k].thread = "none" THEN link[k]
                  ELSE [DeadLink EXCEPT !.open = link[k].open, !.down = link[k].down]]
    /\ corpus' \in SUBSET corpus
    /\ UNCHANGED <<clientVars, made, generated>>

Next ==
    \/ \E room \in Lengths : afl_custom_fuzz(room)
    \/ \E input \in Lengths : afl_custom_queue_new_entry(input)
    \/ MutatorStep
    \/ NextSecond
    \/ \E k \in Connection : Thread(k)
    \/ Produce
    \/ \E c \in Candidate : Put(c)
    \/ Restart

\* Only the mutator is known to keep going: afl-fuzz has called it.
Spec == Init /\ [][Next]_vars /\ WF_vars(MutatorStep)

-----------------------------------------------------------------------------
\* Between two calls nothing is under way on the connection that is kept: no
\* unread reply, and no request or reply the server has yet to deal with.  So
\* the next reply that is read answers the next request, whatever timed out
\* before (fetch_candidate drops the connection on every failure).
RepliesInStep ==
    at = "idle" /\ sock # NoConnection =>
        /\ link[sock].down = <<>>
        /\ link[sock].thread \notin {"reply", "data"}
        /\ \A i \in 1..Len(link[sock].up) : link[sock].up[i][1] # "G"

\* Each hit is one candidate that no other call has been given, and what was
\* copied is not a mixture of several (get_nowait, recv_all_deadline).
HitsAreCandidates == hits = Cardinality(delivered) /\ Cardinality(call.from) <= 1

\* Every sample in the corpus is one the mutator sent, whole and unmixed, even
\* when frames were cut off by a full socket (send_feedback, recv_exact).
FeedbackIsWhole ==
    \A s \in corpus :
        \E n \in Lengths, sample \in 1..MaxCalls :
            s = [i \in 1..n |-> <<"byte", i, <<sample, n>>>>]

\* The output of a call fits into max_size and is empty only if that is zero.
OutputFits ==
    at = "idle" /\ call.room > 0 => produced \in 1..call.room

\* afl-fuzz never hangs in the mutator: a call returns although the server
\* may have stopped answering at any point (recv_all_deadline).
CallReturns == at # "idle" ~> at = "idle"

=============================================================================
