--------------------------- MODULE TcpServerProofs ---------------------------
(***************************************************************************)
(* The theorem about the output of a connection of TcpServer, for any      *)
(* number of connections, loops and sends, and any sizes: it leaves in the *)
(* order of the sends.                                                     *)
(***************************************************************************)
EXTENDS TcpServer, SequenceTheorems, TLAPS

Fields == {"state", "loop", "events", "output", "wire", "sent", "half_closed", "notices",
           "closed"}

\* What the proofs need to know of a record
Shape(r) ==
  /\ Fields \subseteq DOMAIN r
  /\ r.sent \in [Senders -> Nat]
  /\ r.wire \in Seq(Bytes) /\ r.output \in Seq(Bytes)
  /\ r.closed \in Nat

Shapes == DOMAIN conn = Conns /\ \A c \in Conns : Shape(conn[c])

\* From r to q nothing is given to send and nothing of the stream moves; only
\* handle_close leads to kDisconnected.
Quiet(r, q) ==
  /\ Shape(q)
  /\ Stream(q) = Stream(r) /\ q.sent = r.sent /\ q.loop = r.loop
  /\ r.state # "none" => q.state # "none"
  /\ q.closed >= r.closed
  /\ q.state = "kDisconnected" => r.state = "kDisconnected" \/ q.closed > 0

-----------------------------------------------------------------------------
(* The methods of a connection *)

\* A method that touches neither the output nor the count of sends
LEMMA SameOutput ==
  ASSUME NEW r, NEW q, Shape(r), DOMAIN q = DOMAIN r,
         q.sent = r.sent, q.wire = r.wire, q.output = r.output, q.loop = r.loop,
         q.state # "none" \/ q.state = r.state,
         q.closed \in Nat, q.closed >= r.closed,
         q.state = "kDisconnected" => r.state = "kDisconnected" \/ q.closed > 0
  PROVE  Quiet(r, q)
  BY DEF Quiet, Shape, Stream

\* Nothing happens to it.
LEMMA QuietSelf == ASSUME NEW r, Shape(r) PROVE Quiet(r, r)
  BY DEF Quiet, Shape

\* Two methods in a row
LEMMA QuietTwice ==
  ASSUME NEW r, NEW q, NEW p, Shape(r), Quiet(r, q), Quiet(q, p)
  PROVE  Quiet(r, p)
  BY DEF Quiet, Shape

\* A record before and after the constructor
LEMMA ConstructedShape ==
  ASSUME NEW l
  PROVE  /\ Shape(NoConnection) /\ Stream(NoConnection) = <<>>
         /\ Shape(Constructed(l)) /\ Stream(Constructed(l)) = <<>>
         /\ Constructed(l).sent = [s \in Senders |-> 0]
         /\ Constructed(l).loop = l /\ Constructed(l).state = "kConnecting"
         /\ NoConnection.sent = [s \in Senders |-> 0]
  BY DEF Shape, Fields, Stream, Constructed, NoConnection

\* The methods that only change the state, the interest or what the user was told
LEMMA StateMethods ==
  ASSUME NEW r, Shape(r)
  PROVE  /\ Quiet(r, established(r))
         /\ Quiet(r, handle_close(r))
         /\ Quiet(r, Disconnecting(r))
         /\ Quiet(r, shutdown_in_loop(r))
         /\ Quiet(r, shutdown(r))
         /\ Quiet(r, [r EXCEPT !.notices = Note(@, "message")])
<1>1. Quiet(r, established(r))
  BY DEF established, Quiet, Shape, Fields, Stream
<1>2. Quiet(r, handle_close(r))
  BY DEF handle_close, Quiet, Shape, Fields, Stream
<1>3. Quiet(r, Disconnecting(r)) /\ Shape(Disconnecting(r))
  BY SameOutput DEF Disconnecting, Shape, Fields
<1>4. ASSUME NEW q, Shape(q) PROVE Quiet(q, shutdown_in_loop(q))
  <2>1. Quiet(q, q)
    BY <1>4, QuietSelf
  <2>2. Quiet(q, [q EXCEPT !.half_closed = TRUE])
    BY <1>4 DEF Quiet, Shape, Fields, Stream
  <2> QED
    BY <2>1, <2>2 DEF shutdown_in_loop
<1>5. Quiet(r, shutdown(r))
  <2>1. Quiet(r, r)
    BY QuietSelf
  <2>2. Quiet(r, shutdown_in_loop(Disconnecting(r)))
    BY <1>3, <1>4, QuietTwice
  <2> QED
    BY <2>1, <2>2 DEF shutdown
<1>6. Quiet(r, [r EXCEPT !.notices = Note(@, "message")])
  BY SameOutput DEF Shape, Fields
<1> QED
  BY <1>1, <1>2, <1>3, <1>4, <1>5, <1>6

\* destroyed is quiet for a connection that was closed.
LEMMA DestroyedRecord ==
  ASSUME NEW r, Shape(r)
  PROVE  /\ Shape(destroyed(r)) /\ Stream(destroyed(r)) = Stream(r)
         /\ destroyed(r).sent = r.sent
         /\ r.closed > 0 => Quiet(r, destroyed(r))
<1>1. r.closed > 0 => Quiet(r, destroyed(r))
  <2>1. Quiet(r, r)
    BY QuietSelf
  <2>2. ASSUME r.closed > 0
        PROVE  Quiet(r, [r EXCEPT !.state = "kDisconnected",
                                  !.events = disable_all(@),
                                  !.notices = Append(@, "down")])
    BY <2>2 DEF Quiet, Shape, Fields, Stream
  <2> QED
    BY <2>1, <2>2 DEF destroyed
<1> QED
  BY <1>1 DEF destroyed, Shape, Fields, Stream

\* Cutting a sequence and putting it together again
LEMMA CutJoin ==
  ASSUME NEW S, NEW s \in Seq(S), NEW n \in 0..Len(s)
  PROVE  /\ SubSeq(s, 1, n) \in Seq(S)
         /\ SubSeq(s, n + 1, Len(s)) \in Seq(S)
         /\ SubSeq(s, 1, n) \o SubSeq(s, n + 1, Len(s)) = s
<1>1. Len(s) \in Nat /\ n \in Nat
  OBVIOUS
<1>2. SubSeq(s, 1, n) \in Seq(S) /\ SubSeq(s, n + 1, Len(s)) \in Seq(S)
  BY <1>1
<1>3. SubSeq(s, 1, n) \o SubSeq(s, n + 1, Len(s)) = SubSeq(s, 1, Len(s))
  <2>1. 1 \in 1 .. Len(s)+1 /\ n \in 1-1 .. Len(s) /\ Len(s) \in n .. Len(s)
    BY <1>1
  <2> QED
    BY <2>1, ConcatAdjacentSubSeq, Zenon
<1> QED
  BY <1>2, <1>3, SubSeqFull

\* Concatenation is associative.
LEMMA Associative ==
  \A s, t, u \in Seq(Bytes) : (s \o t) \o u = s \o (t \o u) /\ s \o t \in Seq(Bytes)
  BY ConcatAssociative, ConcatProperties

\* With nothing written, or nothing buffered, the message goes behind the stream.
LEMMA NothingWritten ==
  ASSUME NEW w \in Seq(Bytes), NEW o \in Seq(Bytes), NEW t \in Seq(Bytes)
  PROVE  (w \o <<>>) \o (o \o t) = (w \o o) \o (<<>> \o t)
<1>1. w \o <<>> = w /\ <<>> \o t = t
  BY ConcatEmptySeq
<1>2. (w \o o) \o t = w \o (o \o t)
  BY ConcatAssociative
<1> QED
  BY <1>1, <1>2

LEMMA NothingBuffered ==
  ASSUME NEW w \in Seq(Bytes), NEW h \in Seq(Bytes), NEW t \in Seq(Bytes)
  PROVE  (w \o h) \o (<<>> \o t) = (w \o <<>>) \o (h \o t)
<1>1. w \o <<>> = w /\ <<>> \o t = t
  BY ConcatEmptySeq
<1>2. (w \o h) \o t = w \o (h \o t)
  BY ConcatAssociative
<1> QED
  BY <1>1, <1>2

\* send_in_loop appends the message to the stream, whatever part of it the socket takes.
LEMMA SendStream ==
  ASSUME NEW r, NEW msg, NEW n
  PROVE  /\ Shape(r) /\ msg \in Seq(Bytes) /\ Len(msg) = MessageUnits
         /\ n \in 0..MessageUnits
         => LET q == send_in_loop(r, msg, n)
            IN /\ Shape(q) /\ q.sent = r.sent /\ q.loop = r.loop
               /\ q.state = r.state /\ q.closed = r.closed
               /\ Stream(q) = IF r.state = "kDisconnected" THEN Stream(r)
                              ELSE Stream(r) \o msg
<1>0. SUFFICES ASSUME Shape(r), msg \in Seq(Bytes), Len(msg) = MessageUnits,
                      n \in 0..MessageUnits
               PROVE  LET q == send_in_loop(r, msg, n)
                      IN /\ Shape(q) /\ q.sent = r.sent /\ q.loop = r.loop
                         /\ q.state = r.state /\ q.closed = r.closed
                         /\ Stream(q) = IF r.state = "kDisconnected" THEN Stream(r)
                                        ELSE Stream(r) \o msg
  OBVIOUS
<1> DEFINE taken == IF WritesDirectly(r) THEN n ELSE 0
           head == SubSeq(msg, 1, taken)
           rest == SubSeq(msg, taken + 1, MessageUnits)
           q == send_in_loop(r, msg, n)
<1>1. MessageUnits \in Nat /\ taken \in 0..MessageUnits
  BY <1>0, MessageUnitsAssumption
<1>2. r.wire \in Seq(Bytes) /\ r.output \in Seq(Bytes)
  BY <1>0 DEF Shape
<1>3. /\ head \in Seq(Bytes) /\ rest \in Seq(Bytes) /\ head \o rest = msg
  <2> HIDE DEF taken
  <2> QED
    BY <1>0, <1>1, CutJoin
<1>4. taken = 0 => head = <<>>
  <2> HIDE DEF taken
  <2> QED
    BY <1>0
<1>5. head = <<>> \/ r.output = <<>>
  BY <1>4 DEF WritesDirectly
<1>6. (r.wire \o head) \o (r.output \o rest) = (r.wire \o r.output) \o msg
  <2> HIDE DEF taken, head, rest, q
  <2>1. CASE head = <<>>
    <3>1. (r.wire \o <<>>) \o (r.output \o rest) = (r.wire \o r.output) \o (<<>> \o rest)
      BY <1>2, <1>3, NothingWritten
    <3> QED
      BY <3>1, <2>1, <1>3
  <2>2. CASE r.output = <<>>
    <3>1. (r.wire \o head) \o (<<>> \o rest) = (r.wire \o <<>>) \o (head \o rest)
      BY <1>2, <1>3, NothingBuffered
    <3> QED
      BY <3>1, <2>2, <1>3
  <2> QED
    BY <1>5, <2>1, <2>2
<1>8. CASE r.state = "kDisconnected"
  BY <1>0, <1>8 DEF send_in_loop
<1>9. CASE r.state # "kDisconnected"
  <2>1. /\ q.sent = r.sent /\ q.loop = r.loop /\ q.state = r.state /\ q.closed = r.closed
        /\ q.wire = r.wire \o head
        /\ q.output = r.output \o rest
        /\ DOMAIN q = DOMAIN r
    BY <1>0, <1>9 DEF send_in_loop, Shape, Fields
  <2> HIDE DEF taken, head, rest, q
  <2>3. r.wire \o head \in Seq(Bytes) /\ r.output \o rest \in Seq(Bytes)
    BY <1>2, <1>3
  <2>4. Shape(q)
    BY <1>0, <2>1, <2>3 DEF Shape
  <2>5. Stream(q) = Stream(r) \o msg
    BY <2>1, <1>6 DEF Stream
  <2> QED
    BY <1>9, <2>1, <2>4, <2>5 DEF q
<1> QED
  BY <1>8, <1>9

\* The call of send: its bytes, and the count of them
LEMMA GivenRecord ==
  ASSUME NEW r, Shape(r), NEW s \in Senders
  PROVE  /\ Message(r, s) \in Seq(Bytes) /\ Len(Message(r, s)) = MessageUnits
         /\ Message(r, s) = [i \in 1..MessageUnits |-> Numbered(s, r.sent[s] + i)]
         /\ LET q == Given(r, s)
            IN /\ Shape(q) /\ Stream(q) = Stream(r) /\ q.loop = r.loop
               /\ q.state = r.state /\ q.closed = r.closed
               /\ q.sent = [r.sent EXCEPT ![s] = @ + MessageUnits]
<1>1. MessageUnits \in Nat /\ r.sent \in [Senders -> Nat] /\ r.sent[s] \in Nat
  BY MessageUnitsAssumption DEF Shape
<1>2. \A i \in 1..MessageUnits : Numbered(s, r.sent[s] + i) \in Bytes
  BY <1>1 DEF Numbered, Bytes
<1>3. Message(r, s) \in Seq(Bytes) /\ Len(Message(r, s)) = MessageUnits
  BY <1>1, <1>2 DEF Message
<1>4. [r.sent EXCEPT ![s] = @ + MessageUnits] \in [Senders -> Nat]
  BY <1>1
<1>5. Given(r, s) = [r EXCEPT !.sent = [r.sent EXCEPT ![s] = @ + MessageUnits]]
  BY DEF Given
<1>6. LET q == Given(r, s)
      IN /\ q.sent = [r.sent EXCEPT ![s] = @ + MessageUnits]
         /\ q.wire = r.wire /\ q.output = r.output /\ q.loop = r.loop
         /\ q.state = r.state /\ q.closed = r.closed /\ DOMAIN q = DOMAIN r
  BY <1>5 DEF Shape, Fields
<1> QED
  BY <1>3, <1>4, <1>6 DEF Message, Shape, Stream

\* send in the loop thread of a connection that is up
LEMMA SentRecord ==
  ASSUME NEW r, Shape(r), r.state = "kConnected", NEW n \in 0..MessageUnits
  PROVE  LET q == SentInLoop(r, n)
         IN /\ Shape(q) /\ Stream(q) = Stream(r) \o Message(r, "loop") /\ q.loop = r.loop
            /\ q.state = r.state /\ q.closed = r.closed
            /\ q.sent = [r.sent EXCEPT !["loop"] = @ + MessageUnits]
<1> DEFINE g == Given(r, "loop")
           m == Message(r, "loop")
<1>1. /\ Shape(g) /\ Stream(g) = Stream(r) /\ g.loop = r.loop
      /\ g.state = r.state /\ g.closed = r.closed
      /\ g.sent = [r.sent EXCEPT !["loop"] = @ + MessageUnits]
      /\ m \in Seq(Bytes) /\ Len(m) = MessageUnits
  BY GivenRecord DEF Senders
<1> HIDE DEF g, m
<1> DEFINE q == send_in_loop(g, m, n)
<1>2. /\ Shape(q) /\ q.sent = g.sent /\ q.loop = g.loop
      /\ q.state = g.state /\ q.closed = g.closed
      /\ Stream(q) = IF g.state = "kDisconnected" THEN Stream(g) ELSE Stream(g) \o m
  <2>1. Shape(g) /\ m \in Seq(Bytes) /\ Len(m) = MessageUnits
    BY <1>1
  <2> QED
    BY <2>1, SendStream, Zenon
<1>3. SentInLoop(r, n) = q
  BY DEF SentInLoop, g, m
<1> HIDE DEF q
<1> QED
  BY <1>1, <1>2, <1>3 DEF m

\* handle_write moves the head of output_buffer_ to the socket.
LEMMA WriteQuiet ==
  ASSUME NEW r, Shape(r), NEW n \in 0..Len(r.output)
  PROVE  Quiet(r, handle_write(r, n))
<1> DEFINE head == SubSeq(r.output, 1, n)
           rest == SubSeq(r.output, n + 1, Len(r.output))
           w == [r EXCEPT !.wire = @ \o SubSeq(r.output, 1, n),
                          !.output = SubSeq(@, n + 1, Len(@)),
                          !.events = IF n = Len(r.output) THEN disable_writing(@) ELSE @]
<1>1. r.wire \in Seq(Bytes) /\ r.output \in Seq(Bytes)
  BY DEF Shape
<1>2. head \in Seq(Bytes) /\ rest \in Seq(Bytes) /\ head \o rest = r.output
  BY <1>1, CutJoin
<1>3. /\ w.sent = r.sent /\ w.wire = r.wire \o head /\ w.output = rest
      /\ w.loop = r.loop /\ w.state = r.state /\ w.closed = r.closed
      /\ DOMAIN w = DOMAIN r
  BY DEF Shape, Fields
<1>4. handle_write(r, n) = IF r.state = "kDisconnecting" THEN shutdown(w) ELSE w
  BY DEF handle_write
<1> HIDE DEF head, rest, w
<1>5. r.wire \o head \in Seq(Bytes) /\ (r.wire \o head) \o rest = r.wire \o r.output
  <2>1. r.wire \in Seq(Bytes) /\ head \in Seq(Bytes) /\ rest \in Seq(Bytes)
    BY <1>1, <1>2
  <2>2. /\ r.wire \o head \in Seq(Bytes)
        /\ (r.wire \o head) \o rest = r.wire \o (head \o rest)
    BY <2>1, Associative, Zenon
  <2> QED
    BY <1>2, <2>2
<1>6. Quiet(r, w)
  BY <1>2, <1>3, <1>5 DEF Quiet, Shape, Stream
<1>7. Quiet(w, shutdown(w))
  BY <1>6, StateMethods DEF Quiet
<1> QED
  BY <1>4, <1>6, <1>7, QuietTwice

-----------------------------------------------------------------------------
(* What a step does to the records *)

\* A method runs on c that is quiet.
QuietAt(c) == \E q : conn' = [conn EXCEPT ![c] = q] /\ (c \in Conns => Quiet(conn[c], q))

\* c sends in its loop thread.
LoopSendAt(c) ==
  /\ conn[c].state = "kConnected"
  /\ \E n \in 0..MessageUnits : conn' = [conn EXCEPT ![c] = SentInLoop(@, n)]

\* The connection whose channel, callback or task loop l is at
ActsOn(l, c) ==
  \/ at[l] \in {"read", "write", "callback"} /\ c = cur[l].conn
  \/ at[l] = "tasks" /\ dump[l] # <<>> /\ c = Head(dump[l]).conn

\* A write takes what it was given at most.
LEMMA OutcomesInRange ==
  ASSUME NEW c, NEW count \in Nat
  PROVE  WriteOutcomes(c, count) \subseteq 0..count
  BY DEF WriteOutcomes

\* handle_close with its close callback
LEMMA CloseQuiet ==
  ASSUME Shapes, NEW c, NEW r, Close(c, r), c \in Conns => Quiet(conn[c], r)
  PROVE  QuietAt(c)
<1>1. c \in Conns => Quiet(conn[c], handle_close(r))
  BY StateMethods, QuietTwice DEF Shapes, Quiet
<1> QED
  BY <1>1 DEF Close, QuietAt

\* The steps of a loop and the calls in its callbacks
LEMMA LoopEffect ==
  ASSUME Shapes, NEW l \in Loops, LoopStep(l) \/ UserCall(l)
  PROVE  \/ UNCHANGED conn
         \/ \E c : ActsOn(l, c) /\ QuietAt(c)
         \/ \E c : ActsOn(l, c) /\ LoopSendAt(c) /\ UNCHANGED <<pending, dump>>
         \/ \E c \in Conns : destroyed_task(l, c)
<1> DEFINE d == cur[l].conn
           Goal == \/ UNCHANGED conn
                   \/ \E c : ActsOn(l, c) /\ QuietAt(c)
                   \/ \E c : ActsOn(l, c) /\ LoopSendAt(c) /\ UNCHANGED <<pending, dump>>
                   \/ \E c \in Conns : destroyed_task(l, c)
<1>0. d \in Conns => Shape(conn[d])
  BY DEF Shapes
<1>1. CASE EpollWait(l) \/ handle_events(l) \/ SwapTasks(l) \/ TasksDone(l)
           \/ CallbackReturns(l) \/ keep(l)
  BY <1>1 DEF EpollWait, handle_events, SwapTasks, TasksDone, CallbackReturns, keep
<1>2. ASSUME NEW c \in Conns, established_task(l, c) PROVE Goal
  <2>1. ActsOn(l, c)
    <3>1. at[l] = "tasks" /\ dump[l] # <<>> /\ Head(dump[l]) = Task("established", c)
      BY <1>2 DEF established_task, NextTask
    <3> QED
      BY <3>1 DEF Task, ActsOn
  <2>2. QuietAt(c)
    BY <1>2, StateMethods DEF established_task, QuietAt, Shapes
  <2> QED
    BY <2>1, <2>2
<1>3. CASE ReadMessage(l)
  <2> DEFINE v == [conn[d] EXCEPT !.notices = Note(@, "message")]
  <2>1. at[l] = "read" /\ conn' = [conn EXCEPT ![d] = v]
    BY <1>3 DEF ReadMessage
  <2>2. QuietAt(d)
    <3>1. d \in Conns => Quiet(conn[d], v)
      BY <1>0, StateMethods
    <3> QED
      BY <2>1, <3>1 DEF QuietAt
  <2> QED
    BY <2>1, <2>2 DEF ActsOn
<1>4. CASE ReadEnd(l)
  <2>1. /\ at[l] = "read"
        /\ Close(d, Disconnecting(conn[d])) \/ UNCHANGED conn
    BY <1>4 DEF ReadEnd, handle_error
  <2>2. d \in Conns => Quiet(conn[d], Disconnecting(conn[d]))
    BY <1>0, StateMethods
  <2> QED
    BY <2>1, <2>2, CloseQuiet DEF ActsOn
<1>5. CASE HandleWrite(l)
  <2>1. at[l] = "write"
    BY <1>5 DEF HandleWrite
  <2>2. ASSUME NEW n \in WriteOutcomes(d, Len(conn[d].output)),
               conn' = [conn EXCEPT ![d] = IF n > 0 THEN handle_write(@, n) ELSE @]
        PROVE  QuietAt(d)
    <3>1. ASSUME d \in Conns
          PROVE  /\ Quiet(conn[d], conn[d])
                 /\ Quiet(conn[d], handle_write(conn[d], n))
      <4>1. Shape(conn[d]) /\ conn[d].output \in Seq(Bytes)
        BY <3>1, <1>0 DEF Shape
      <4>2. n \in 0..Len(conn[d].output)
        <5>1. Len(conn[d].output) \in Nat
          BY <4>1
        <5> QED
          BY <2>2, <5>1, OutcomesInRange
      <4>3. Quiet(conn[d], conn[d])
        BY <4>1, QuietSelf
      <4> QED
        BY <4>1, <4>2, <4>3, WriteQuiet
    <3> QED
      BY <2>2, <3>1 DEF QuietAt
  <2> QED
    BY <1>5, <2>1, <2>2 DEF HandleWrite, ActsOn
<1>6. CASE send(l)
  <2>1. /\ at[l] = "callback" /\ conn[d].state = "kConnected"
        /\ \E n \in WriteOutcomes(d, MessageUnits) :
             conn' = [conn EXCEPT ![d] = SentInLoop(@, n)]
        /\ UNCHANGED <<pending, dump>>
    BY <1>6 DEF send, loopVars
  <2>2. WriteOutcomes(d, MessageUnits) \subseteq 0..MessageUnits
    BY MessageUnitsAssumption, OutcomesInRange
  <2> QED
    BY <2>1, <2>2 DEF ActsOn, LoopSendAt
<1>7. CASE shutdown_call(l)
  <2>1. at[l] = "callback" /\ conn' = [conn EXCEPT ![d] = shutdown(@)]
    BY <1>7 DEF shutdown_call
  <2>2. QuietAt(d)
    BY <1>0, <2>1, StateMethods DEF QuietAt
  <2> QED
    BY <2>1, <2>2 DEF ActsOn
<1>8. CASE force_close(l)
  <2>1. at[l] = "callback" /\ Close(d, Disconnecting(conn[d]))
    BY <1>8 DEF force_close
  <2>2. d \in Conns => Quiet(conn[d], Disconnecting(conn[d]))
    BY <1>0, StateMethods
  <2> QED
    BY <2>1, <2>2, CloseQuiet DEF ActsOn
<1> QED
  BY <1>1, <1>2, <1>3, <1>4, <1>5, <1>6, <1>7, <1>8 DEF LoopStep, UserCall

\* The base loop and the kernel
LEMMA ServerEffect ==
  ASSUME start \/ BaseStep \/ \E c \in Conns : Environment(c) \/ release(c)
  PROVE  UNCHANGED conn \/ \E c \in Conns : new_connection(c)
  BY DEF start, listen, BaseStep, AcceptStops, remove_connection, Environment, Connect, PeerSends,
     PeerCloses, PeerResets, PeerReads, release

-----------------------------------------------------------------------------
(* Callbacks only *)

\* The stream holds the bytes given to send by the loop, each at its number.
Ordered(r) == Stream(r) = [i \in 1..r.sent["loop"] |-> Numbered("loop", i)]

OrderInv == Shapes /\ \A c \in Conns : Ordered(conn[c])

\* One connection changes.
LEMMA Update ==
  ASSUME OrderInv, NEW c, NEW v, conn' = [conn EXCEPT ![c] = v],
         c \in Conns => Shape(v) /\ Ordered(v)
  PROVE  OrderInv'
  BY DEF OrderInv, Shapes

\* Before the first send
LEMMA FreshOrdered ==
  ASSUME NEW l
  PROVE  /\ Shape(NoConnection) /\ Ordered(NoConnection)
         /\ Shape(Constructed(l)) /\ Ordered(Constructed(l))
<1>1. [i \in 1..0 |-> Numbered("loop", i)] = <<>>
  OBVIOUS
<1>2. [s \in Senders |-> 0]["loop"] = 0
  BY DEF Senders
<1> QED
  BY <1>1, <1>2, ConstructedShape DEF Ordered

\* A send continues the numbers.
LEMMA SendOrdered ==
  ASSUME NEW r, Shape(r), Ordered(r), r.state = "kConnected", NEW n \in 0..MessageUnits
  PROVE  Shape(SentInLoop(r, n)) /\ Ordered(SentInLoop(r, n))
<1> DEFINE q == SentInLoop(r, n)
           k == r.sent["loop"]
<1>1. /\ Shape(q) /\ Stream(q) = Stream(r) \o Message(r, "loop")
      /\ q.sent = [r.sent EXCEPT !["loop"] = @ + MessageUnits]
  BY SentRecord, Zenon
<1>2. /\ k \in Nat /\ MessageUnits \in Nat
      /\ q.sent["loop"] = k + MessageUnits
      /\ Message(r, "loop") = [i \in 1..MessageUnits |-> Numbered("loop", k + i)]
  BY <1>1, MessageUnitsAssumption DEF Shape, Senders, Message
<1> HIDE DEF q, k
<1>3. ASSUME NEW a \in Nat, NEW b \in Nat
      PROVE  [i \in 1..a |-> Numbered("loop", i)] \o [i \in 1..b |-> Numbered("loop", a + i)]
               = [i \in 1..(a + b) |-> Numbered("loop", i)]
  OBVIOUS
<1>4. Ordered(q)
  <2>1. Stream(r) = [i \in 1..k |-> Numbered("loop", i)]
    BY DEF Ordered, k
  <2>2. Stream(q) = [i \in 1..(k + MessageUnits) |-> Numbered("loop", i)]
    BY <1>1, <1>2, <1>3, <2>1
  <2> QED
    BY <1>2, <2>2 DEF Ordered
<1> QED
  BY <1>1, <1>4 DEF q

LEMMA OrderStep == OrderInv /\ [Next]_vars => OrderInv'
<1> SUFFICES ASSUME OrderInv, [Next]_vars PROVE OrderInv'
  OBVIOUS
<1>1. CASE UNCHANGED conn
  BY <1>1 DEF OrderInv, Shapes
<1>2. ASSUME NEW c, QuietAt(c) PROVE OrderInv'
  <2>1. PICK q : conn' = [conn EXCEPT ![c] = q] /\ (c \in Conns => Quiet(conn[c], q))
    BY <1>2 DEF QuietAt
  <2>2. c \in Conns => Shape(q) /\ Ordered(q)
    BY <2>1 DEF Quiet, OrderInv, Ordered
  <2> QED
    BY <2>1, <2>2, Update
<1>3. ASSUME NEW c, LoopSendAt(c) PROVE OrderInv'
  <2>1. PICK n \in 0..MessageUnits : conn' = [conn EXCEPT ![c] = SentInLoop(@, n)]
    BY <1>3 DEF LoopSendAt
  <2>2. c \in Conns => Shape(SentInLoop(conn[c], n)) /\ Ordered(SentInLoop(conn[c], n))
    BY <1>3, SendOrdered DEF LoopSendAt, OrderInv, Shapes
  <2> QED
    BY <2>1, <2>2, Update
<1>4. ASSUME NEW l \in Loops, NEW c \in Conns, destroyed_task(l, c) PROVE OrderInv'
  BY <1>4, Update, DestroyedRecord DEF destroyed_task, OrderInv, Shapes, Ordered
<1>5. ASSUME NEW c \in Conns, new_connection(c) PROVE OrderInv'
  <2>1. \A l : Shape(Constructed(l)) /\ Ordered(Constructed(l))
    BY FreshOrdered
  <2> QED
    BY <1>5, <2>1, Update DEF new_connection
<1>6. ASSUME Next PROVE OrderInv'
  <2>1. CASE start \/ BaseStep \/ \E c \in Conns : Environment(c) \/ release(c)
    BY <2>1, <1>1, <1>5, ServerEffect
  <2>2. ASSUME NEW l \in Loops, LoopStep(l) \/ UserCall(l) PROVE OrderInv'
    BY <2>2, <1>1, <1>2, <1>3, <1>4, LoopEffect DEF OrderInv
  <2> QED
    BY <1>6, <2>1, <2>2 DEF Next
<1> QED
  BY <1>1, <1>6 DEF vars

LEMMA OrderInit == Init => OrderInv
  BY FreshOrdered DEF Init, OrderInv, Shapes

\* The bytes the kernel took, followed by those in output_buffer_, are the bytes given
\* to send, in order, with the user calling a connection from its callbacks.
THEOREM StreamInOrderHolds == Spec => []StreamInOrder
<1>1. OrderInv => StreamInOrder
  BY DEF OrderInv, Ordered, StreamInOrder
<1> QED
  BY <1>1, OrderInit, OrderStep, PTL DEF Spec

=============================================================================
