------------------------ MODULE TcpServerLifeProofs ------------------------
(***************************************************************************)
(* Theorems about the life of a connection of TcpServer, for any number of *)
(* connections and io loops and any bounds: it is closed once, removed and *)
(* destroyed by tasks that find it as they expect it, never used after its *)
(* destruction, and its user sees the life ConnectionLife describes.       *)
(*                                                                         *)
(* All of them rest on one inductive invariant, LifeInv.  A connection is  *)
(* referred to by raw pointers (the channels of a batch, the one being     *)
(* handled) and by closures in the queues of two loops.  LifeInv says, of  *)
(* each, which stage of its life the connection is in, and that no closure *)
(* is queued twice.                                                        *)
(***************************************************************************)
EXTENDS TcpServer, SequenceTheorems, TLAPS

Stage(r) == IF Closable(r) THEN "up" ELSE r.state

\* What the members of a connection are in each state
RecordOK(r) ==
  /\ r.events # {} => Closable(r)
  /\ r.state # "none" => r.loop \in IoLoops
  /\ r.state \in {"none", "kConnecting"} => r.closed = 0 /\ r.notices = <<>> /\ r.output = <<>>
  /\ Closable(r) => /\ r.closed = 0
                    /\ r.notices \in {<<"up">>, <<"up", "message">>}
                    /\ is_writing(r) <=> r.output # <<>>
  /\ r.state = "kDisconnected" =>
       r.closed = 1 /\ r.notices \in {<<"up", "down">>, <<"up", "message", "down">>}

RecordInv == \A c \in Conns : RecordOK(conn[c])

\* The server keeps what has not ended.
RegisterInv == \A c \in Conns : Stage(conn[c]) \in {"kConnecting", "up"} => c \in connections_

\* The queued closures of a loop, those of the batch first
Elems(s) == {s[i] : i \in 1..Len(s)}
Distinct(s) == \A i, j \in 1..Len(s) : s[i] = s[j] => i = j
Queued(l) == Elems(dump[l]) \cup Elems(pending[l])

\* What a queued closure will find
TaskOK(l, t) ==
  /\ t.kind \in Strong
  /\ t.kind = "established" => conn[t.conn].loop = l /\ Stage(conn[t.conn]) = "kConnecting"
  /\ t.kind = "remove" => l = Base /\ Stage(conn[t.conn]) = "kDisconnected" /\ t.conn \in connections_
  /\ t.kind = "destroyed" =>
       conn[t.conn].loop = l /\ Stage(conn[t.conn]) = "kDisconnected" /\ t.conn \notin connections_

OnceInv ==
  \A l \in Loops : /\ Distinct(dump[l]) /\ Distinct(pending[l])
                   /\ Elems(dump[l]) \cap Elems(pending[l]) = {}

TaskInv == \A l \in Loops : \A t \in Queued(l) : TaskOK(l, t)

\* Where the loops hold a raw pointer: the channels still to be handled are up, and the
\* one being handled was up when its handling began.
ActiveOK(l) ==
  /\ \A a \in active[l] : conn[a[1]].loop = l /\ Stage(conn[a[1]]) = "up"
  /\ \A a, b \in active[l] : a[1] = b[1] => a = b
  /\ at[l] \in {"wait", "tasks"} => active[l] = {}

Handling(l) == at[l] \in {"read", "write", "callback"}

CurrentOK(l) ==
  /\ Handling(l) =>
       /\ cur[l].conn \in Conns
       /\ conn[cur[l].conn].loop = l /\ Stage(conn[cur[l].conn]) \in {"up", "kDisconnected"}
       /\ cur[l].then \in {"handle", "write", "tasks"}
       /\ \A a \in active[l] : a[1] # cur[l].conn
       /\ cur[l].then = "tasks" => at[l] = "callback" /\ active[l] = {}
  /\ at[l] = "read" => Stage(conn[cur[l].conn]) = "up"
  /\ at[l] = "write" => cur[l].then = "handle"
  /\ dump[l] # <<>> => at[l] = "tasks" \/ (at[l] = "callback" /\ cur[l].then = "tasks")

Current == [conn : Conns \cup {"none"}, then : Places]

BatchInv == cur \in [Loops -> Current] /\ \A l \in Loops : ActiveOK(l) /\ CurrentOK(l)

\* The kernel's side of a socket that was not accepted yet
KernelInv ==
  \A c \in Conns : /\ peer[c] = "none" => Stage(conn[c]) = "none"
                   /\ c \in backlog => Stage(conn[c]) = "none" /\ peer[c] # "none"

LifeInv ==
  /\ TypeOK
  /\ RecordInv
  /\ RegisterInv
  /\ OnceInv
  /\ TaskInv
  /\ BatchInv
  /\ KernelInv
  /\ fault = "none"

-----------------------------------------------------------------------------
(* Queues *)

\* An empty queue
LEMMA NoneQueued == Elems(<<>>) = {} /\ Distinct(<<>>)
  BY DEF Elems, Distinct

\* push_back of a closure that is not queued yet
LEMMA Queueing ==
  ASSUME NEW S, NEW s \in Seq(S), NEW t \in S
  PROVE  /\ Append(s, t) \in Seq(S)
         /\ Elems(Append(s, t)) = Elems(s) \cup {t}
         /\ Distinct(s) /\ t \notin Elems(s) => Distinct(Append(s, t))
<1> DEFINE u == Append(s, t)
           n == Len(s)
<1>1. n \in Nat /\ u \in Seq(S) /\ Len(u) = n + 1
  OBVIOUS
<1>2. \A i \in 1..n : u[i] = s[i]
  OBVIOUS
<1>3. u[n + 1] = t
  OBVIOUS
<1>4. 1..(n + 1) = (1..n) \cup {n + 1} /\ n + 1 \notin 1..n
  BY <1>1
<1> HIDE DEF u, n
<1>5. Elems(u) = Elems(s) \cup {t}
  <2>1. Elems(s) = {s[i] : i \in 1..n} /\ Elems(u) = {u[i] : i \in 1..(n + 1)}
    BY <1>1 DEF Elems, n
  <2> QED
    BY <1>2, <1>3, <1>4, <2>1
<1>6. ASSUME Distinct(s), t \notin Elems(s) PROVE Distinct(u)
  <2>1. \A i \in 1..n : s[i] # t
    BY <1>6 DEF Elems, n
  <2>2. \A i, j \in 1..n : s[i] = s[j] => i = j
    BY <1>6 DEF Distinct, n
  <2>3. \A i, j \in 1..(n + 1) : u[i] = u[j] => i = j
    BY <1>2, <1>3, <1>4, <2>1, <2>2, Zenon
  <2> QED
    BY <1>1, <2>3 DEF Distinct
<1> QED
  BY <1>1, <1>5, <1>6 DEF u

\* The head of a batch is taken.
LEMMA Taking ==
  ASSUME NEW S, NEW s \in Seq(S), s # <<>>, Distinct(s)
  PROVE  /\ Head(s) \in S /\ Tail(s) \in Seq(S)
         /\ Head(s) \in Elems(s)
         /\ Elems(Tail(s)) = Elems(s) \ {Head(s)}
         /\ Distinct(Tail(s))
<1> DEFINE u == Tail(s)
           n == Len(s) - 1
<1>1. n \in Nat /\ u \in Seq(S) /\ Len(u) = n /\ Len(s) = n + 1
  OBVIOUS
<1>2. \A i \in 1..n : u[i] = s[i + 1] /\ i + 1 \in 1..(n + 1)
  OBVIOUS
<1>3. Head(s) = s[1] /\ 1 \in 1..(n + 1) /\ s[1] \in S
  OBVIOUS
<1>4. \A j \in 1..(n + 1) : j = 1 \/ \E i \in 1..n : j = i + 1
  <2> SUFFICES ASSUME NEW j \in 1..(n + 1), j # 1 PROVE j - 1 \in 1..n /\ j = (j - 1) + 1
    OBVIOUS
  <2> QED
    BY <1>1
<1>5. \A i, j \in 1..n : i + 1 = j + 1 => i = j
  OBVIOUS
<1>6. \A i \in 1..n : i + 1 # 1
  OBVIOUS
<1>7. \A i, j \in 1..(n + 1) : s[i] = s[j] => i = j
  BY <1>1 DEF Distinct
<1> HIDE DEF u, n
<1>8. Elems(s) = {s[i] : i \in 1..(n + 1)} /\ Elems(u) = {u[i] : i \in 1..n}
  BY <1>1 DEF Elems
<1>9. Elems(u) = Elems(s) \ {s[1]}
  <2>1. ASSUME NEW x \in Elems(u) PROVE x \in Elems(s) /\ x # s[1]
    <3>1. PICK i \in 1..n : x = u[i]
      BY <2>1, <1>8
    <3>2. x = s[i + 1] /\ i + 1 \in 1..(n + 1) /\ i + 1 # 1
      BY <3>1, <1>2, <1>6
    <3> QED
      BY <3>2, <1>3, <1>7, <1>8
  <2>2. ASSUME NEW x \in Elems(s), x # s[1] PROVE x \in Elems(u)
    <3>1. PICK j \in 1..(n + 1) : x = s[j]
      BY <2>2, <1>8
    <3>2. PICK i \in 1..n : j = i + 1
      BY <2>2, <3>1, <1>4
    <3> QED
      BY <3>1, <3>2, <1>2, <1>8
  <2> QED
    BY <2>1, <2>2
<1>10. Distinct(u)
  <2>1. \A i, j \in 1..n : u[i] = u[j] => i = j
    BY <1>2, <1>5, <1>7
  <2> QED
    BY <1>1, <2>1 DEF Distinct
<1> QED
  BY <1>1, <1>3, <1>8, <1>9, <1>10 DEF u

-----------------------------------------------------------------------------
(* The methods of a connection *)

Good(r) == r \in Connection /\ RecordOK(r)

\* A connection that stays up: what the other parts of the state see of it is the same.
StaysUp(q, r) == Good(q) /\ Closable(q) /\ q.loop = r.loop /\ q.notices = r.notices

Notices == Seq({"up", "message", "down"})

\* A pair and a triple, one element at a time
LEMMA Adding ==
  ASSUME NEW x, NEW y, NEW z
  PROVE  /\ Append(<<x>>, y) = <<x, y>>
         /\ Append(<<x, y>>, z) = <<x, y, z>>
         /\ y # x => Note(<<x>>, y) = <<x, y>>
         /\ Note(<<x, y>>, y) = <<x, y>>
<1> DEFINE S == {x, y, z}
<1>1. Append(<<x>>, y) = <<x, y>>
  <2> DEFINE s == Append(<<x>>, y)
             t == <<x, y>>
  <2>1. s \in Seq(S) /\ t \in Seq(S)
    OBVIOUS
  <2>2. Len(s) = 2 /\ Len(t) = 2
    OBVIOUS
  <2>3. s[1] = t[1] /\ s[2] = t[2]
    OBVIOUS
  <2>4. \A i \in 1..2 : i = 1 \/ i = 2
    OBVIOUS
  <2> HIDE DEF s, t, S
  <2>5. Len(s) = Len(t) /\ \A i \in 1..Len(s) : s[i] = t[i]
    BY <2>2, <2>3, <2>4
  <2>6. s = t
    BY <2>1, <2>5, SeqEqual, Zenon
  <2> QED
    BY <2>6 DEF s, t
<1>2. Append(<<x, y>>, z) = <<x, y, z>>
  <2> DEFINE s == Append(<<x, y>>, z)
             t == <<x, y, z>>
  <2>1. s \in Seq(S)
    OBVIOUS
  <2>2. t \in Seq(S)
    OBVIOUS
  <2>3. Len(s) = 3 /\ Len(t) = 3
    OBVIOUS
  <2>4. s[1] = t[1] /\ s[2] = t[2] /\ s[3] = t[3]
    OBVIOUS
  <2>5. \A i \in 1..3 : i = 1 \/ i = 2 \/ i = 3
    OBVIOUS
  <2> HIDE DEF s, t, S
  <2>6. Len(s) = Len(t) /\ \A i \in 1..Len(s) : s[i] = t[i]
    BY <2>3, <2>4, <2>5
  <2>7. s = t
    BY <2>1, <2>2, <2>6, SeqEqual, Zenon
  <2> QED
    BY <2>7 DEF s, t
<1>3. ASSUME y # x PROVE Note(<<x>>, y) = <<x, y>>
  <2> DEFINE s == <<x>>
  <2>1. s[Len(s)] = x
    OBVIOUS
  <2>2. Note(s, y) = Append(s, y)
    BY <1>3, <2>1 DEF Note
  <2> QED
    BY <1>1, <2>2
<1>4. Note(<<x, y>>, y) = <<x, y>>
  <2> DEFINE s == <<x, y>>
  <2>1. s # <<>> /\ Len(s) = 2
    OBVIOUS
  <2>2. s[2] = y
    OBVIOUS
  <2> HIDE DEF s
  <2>3. s[Len(s)] = y
    BY <2>1, <2>2
  <2> QED
    BY <2>1, <2>3 DEF Note, s
<1> QED
  BY <1>1, <1>2, <1>3, <1>4

\* What the user is told, in the order in which it is told
LEMMA Telling ==
  /\ <<"up">> \in Notices /\ <<"up", "message">> \in Notices
  /\ <<"up", "down">> \in Notices /\ <<"up", "message", "down">> \in Notices
  /\ Note(<<>>, "up") = <<"up">>
  /\ Note(<<"up">>, "message") = <<"up", "message">>
  /\ Note(<<"up", "message">>, "message") = <<"up", "message">>
  /\ Append(<<"up">>, "down") = <<"up", "down">>
  /\ Append(<<"up", "message">>, "down") = <<"up", "message", "down">>
<1>1. <<"up">> \in Notices /\ <<"up", "message">> \in Notices
  BY DEF Notices
<1>2. <<"up", "down">> \in Notices /\ <<"up", "message", "down">> \in Notices
  BY DEF Notices
<1>3. Note(<<>>, "up") = <<"up">>
  BY DEF Note
<1>4. "message" # "up"
  OBVIOUS
<1> QED
  BY <1>1, <1>2, <1>3, <1>4, Adding, Zenon

Assign(r, s, e, n, k) == [r EXCEPT !.state = s, !.events = e, !.notices = n, !.closed = k]

\* A method that assigns these members
LEMMA Assigned ==
  ASSUME NEW r \in Connection, NEW s \in States, NEW e \in SUBSET {"IN", "OUT"},
         NEW n \in Notices, NEW k \in Nat
  PROVE  LET q == Assign(r, s, e, n, k)
         IN /\ q \in Connection
            /\ q.state = s /\ q.events = e /\ q.notices = n /\ q.closed = k
            /\ q.loop = r.loop /\ q.output = r.output
  BY DEF Connection, Notices, Assign

\* Before the constructor, and after it
LEMMA ConstructedGood ==
  /\ Good(NoConnection)
  /\ \A l \in IoLoops : /\ Good(Constructed(l))
                        /\ Constructed(l).state = "kConnecting"
                        /\ Constructed(l).loop = l
                        /\ Constructed(l).notices = <<>>
<1>1. IoLoops \subseteq Loops /\ 0 \in Loops
  BY DEF Loops, Base
<1>2. NoConnection \in Connection
  BY <1>1 DEF NoConnection, Connection
<1>3. ASSUME NEW l \in IoLoops PROVE Constructed(l) \in Connection
  BY <1>1, <1>2 DEF NoConnection, Connection, Constructed, States
<1> QED
  BY <1>2, <1>3 DEF Good, RecordOK, NoConnection, Constructed, Closable

\* What established() makes of a connection that is kConnecting
LEMMA EstablishedGood ==
  ASSUME NEW r, Good(r), r.state = "kConnecting"
  PROVE  LET q == established(r)
         IN Good(q) /\ Closable(q) /\ q.loop = r.loop /\ q.notices = <<"up">>
<1> DEFINE q == established(r)
<1>1. r \in Connection /\ RecordOK(r)
  BY DEF Good
<1>2. r.events = {} /\ r.notices = <<>> /\ r.output = <<>> /\ r.closed = 0 /\ r.loop \in IoLoops
  BY <1>1 DEF RecordOK, Closable
<1>3. q = Assign(r, "kConnected", {"IN"}, <<"up">>, 0)
  BY <1>1, <1>2, Telling DEF established, enable_reading, Connection, Assign
<1>4. "kConnected" \in States /\ {"IN"} \in SUBSET {"IN", "OUT"} /\ 0 \in Nat
  BY DEF States
<1>5. /\ q.state = "kConnected" /\ q.events = {"IN"} /\ q.notices = <<"up">>
      /\ q.loop = r.loop /\ q.output = <<>> /\ q.closed = 0
      /\ q \in Connection
  <2> HIDE DEF q
  <2> QED
    <3>1. /\ q \in Connection
          /\ q.state = "kConnected" /\ q.events = {"IN"} /\ q.notices = <<"up">> /\ q.closed = 0
          /\ q.loop = r.loop /\ q.output = r.output
      BY <1>1, <1>3, <1>4, Telling, Assigned
    <3> QED
      BY <3>1, <1>2
<1>6. RecordOK(q) /\ Closable(q)
  BY <1>2, <1>5 DEF RecordOK, Closable, is_writing
<1> QED
  BY <1>5, <1>6 DEF Good

\* handle_close, and the callbacks it makes
LEMMA ClosedGood ==
  ASSUME NEW r, Good(r), Closable(r)
  PROVE  LET q == handle_close(Disconnecting(r))
         IN /\ Good(q) /\ q.state = "kDisconnected"
            /\ q.loop = r.loop /\ q.notices = Append(r.notices, "down")
<1> DEFINE q == handle_close(Disconnecting(r))
<1>1. r \in Connection /\ RecordOK(r)
  BY DEF Good
<1>2. r.closed = 0 /\ r.notices \in {<<"up">>, <<"up", "message">>} /\ r.loop \in IoLoops
  BY <1>1 DEF RecordOK, Closable
<1> DEFINE n == Append(r.notices, "down")
           d == Disconnecting(r)
<1>3. n \in {<<"up", "down">>, <<"up", "message", "down">>} /\ n \in Notices
  BY <1>2, Telling, Zenon
<1>4. /\ d \in Connection /\ d.notices = r.notices /\ d.closed = 0
      /\ d.loop = r.loop /\ d.output = r.output
  BY <1>1, <1>2 DEF Disconnecting, Connection, States
<1>5. q = Assign(d, "kDisconnected", {}, n, 1)
  <2>1. q = [d EXCEPT !.state = "kDisconnected", !.events = {},
                      !.notices = Append(d.notices, "down"), !.closed = d.closed + 1]
    BY DEF handle_close, disable_all
  <2>2. 0 + 1 = 1
    OBVIOUS
  <2> HIDE DEF d, q
  <2> QED
    BY <1>4, <2>1, <2>2, Zenon DEF Assign
<1>6. "kDisconnected" \in States /\ {} \in SUBSET {"IN", "OUT"} /\ 1 \in Nat
  BY DEF States
<1>7. /\ q.state = "kDisconnected" /\ q.events = {} /\ q.notices = n
      /\ q.loop = r.loop /\ q.output = r.output /\ q.closed = 1
      /\ q \in Connection
  <2> HIDE DEF q, n, d
  <2> QED
    <3>1. /\ q \in Connection
          /\ q.state = "kDisconnected" /\ q.events = {} /\ q.notices = n /\ q.closed = 1
          /\ q.loop = d.loop /\ q.output = d.output
      BY <1>3, <1>4, <1>6, <1>5, Assigned
    <3> QED
      BY <3>1, <1>4
<1>8. RecordOK(q)
  <2> HIDE DEF q, n
  <2> QED
    BY <1>2, <1>3, <1>7 DEF RecordOK, Closable
<1> QED
  BY <1>7, <1>8 DEF Good

\* destroyed() finds a connection that handle_close has ended, and does nothing.
LEMMA DestroyedIdle ==
  ASSUME NEW r, r.state = "kDisconnected"
  PROVE  destroyed(r) = r
  BY DEF destroyed

\* The message callback is entered.
LEMMA MessageGood ==
  ASSUME NEW r, Good(r), Closable(r)
  PROVE  LET q == [r EXCEPT !.notices = Note(@, "message")]
         IN Good(q) /\ Closable(q) /\ q.loop = r.loop /\ q.notices = <<"up", "message">>
<1> DEFINE q == [r EXCEPT !.notices = Note(@, "message")]
<1>1. r \in Connection /\ RecordOK(r)
  BY DEF Good
<1>2. r.notices \in {<<"up">>, <<"up", "message">>}
  BY <1>1 DEF RecordOK, Closable
<1>3. Note(r.notices, "message") = <<"up", "message">>
  BY <1>2, Telling, Zenon
<1>4. /\ q.state = r.state /\ q.events = r.events /\ q.notices = <<"up", "message">>
      /\ q.loop = r.loop /\ q.output = r.output /\ q.closed = r.closed
  BY <1>1, <1>3 DEF Connection
<1>5. q \in Connection
  <2>1. ASSUME NEW n \in Notices PROVE [r EXCEPT !.notices = n] \in Connection
    BY <1>1 DEF Connection, Notices
  <2> QED
    BY <1>3, <2>1, Telling
<1>6. RecordOK(q) /\ Closable(q)
  BY <1>1, <1>4 DEF RecordOK, Closable, is_writing
<1> QED
  BY <1>4, <1>5, <1>6 DEF Good

\* shutdown() of a connection that is up
LEMMA ShutdownGood ==
  ASSUME NEW r, Good(r), Closable(r)
  PROVE  StaysUp(shutdown(r), r)
<1> DEFINE d == Disconnecting(r)
           q == shutdown(r)
<1>1. r \in Connection /\ RecordOK(r)
  BY DEF Good
<1>2. d \in Connection
  BY <1>1 DEF Disconnecting, Connection, States
<1>3. /\ d.state = "kDisconnecting" /\ d.events = r.events /\ d.notices = r.notices
      /\ d.loop = r.loop /\ d.output = r.output /\ d.closed = r.closed
  BY <1>1 DEF Disconnecting, Connection
<1>4. q = r \/ q = d \/ q = [d EXCEPT !.half_closed = TRUE]
  BY DEF shutdown, shutdown_in_loop
<1>5. ASSUME NEW h, h = d \/ h = [d EXCEPT !.half_closed = TRUE]
      PROVE  /\ h \in Connection /\ h.state = "kDisconnecting" /\ h.events = r.events
             /\ h.notices = r.notices /\ h.loop = r.loop /\ h.output = r.output
             /\ h.closed = r.closed
  <2> HIDE DEF d
  <2> QED
    BY <1>2, <1>3, <1>5 DEF Connection
<1>6. ASSUME NEW h, h = d \/ h = [d EXCEPT !.half_closed = TRUE]
      PROVE  StaysUp(h, r)
  BY <1>1, <1>5, <1>6 DEF StaysUp, Good, RecordOK, Closable, is_writing
<1>7. StaysUp(r, r)
  BY DEF StaysUp
<1> QED
  BY <1>4, <1>6, <1>7

\* A connection that is up stays up when its output and its interest change together.
LEMMA MovedUp ==
  ASSUME NEW r, Good(r), Closable(r), NEW q \in Connection,
         q.state = r.state, q.loop = r.loop, q.notices = r.notices, q.closed = r.closed,
         is_writing(q) <=> q.output # <<>>
  PROVE  StaysUp(q, r)
  BY DEF StaysUp, Good, RecordOK, Closable

\* send_in_loop, whatever part of the message the socket takes
LEMMA SendGood ==
  ASSUME NEW r, Good(r), r.state = "kConnected", NEW n \in 0..MessageUnits,
         NEW m \in Seq(Bytes), Len(m) = MessageUnits
  PROVE  StaysUp(send_in_loop(r, m, n), r)
<1> DEFINE taken == IF WritesDirectly(r) THEN n ELSE 0
           head == SubSeq(m, 1, taken)
           rest == SubSeq(m, taken + 1, MessageUnits)
           w == r.wire \o head
           o == r.output \o rest
           e == IF taken < MessageUnits THEN enable_writing(r.events) ELSE r.events
           q == send_in_loop(r, m, n)
<1>1. r \in Connection /\ RecordOK(r) /\ Closable(r)
  BY DEF Good, Closable
<1>2. /\ r.wire \in Seq(Bytes) /\ r.output \in Seq(Bytes)
      /\ r.events \in SUBSET {"IN", "OUT"}
  BY <1>1 DEF Connection
<1>3. is_writing(r) <=> r.output # <<>>
  BY <1>1 DEF RecordOK
<1>4. MessageUnits \in Nat \ {0} /\ taken \in 0..MessageUnits
  BY MessageUnitsAssumption
<1>6. /\ head \in Seq(Bytes) /\ rest \in Seq(Bytes)
      /\ Len(rest) = MessageUnits - taken
  <2> HIDE DEF taken
  <2> QED
    BY <1>4
<1>7. q = [r EXCEPT !.wire = w, !.output = o, !.events = e]
  BY <1>1, Zenon DEF send_in_loop, Closable
<1>8. w \in Seq(Bytes) /\ o \in Seq(Bytes) /\ e \in SUBSET {"IN", "OUT"}
  <2> HIDE DEF taken, head, rest
  <2> QED
    BY <1>2, <1>4, <1>6 DEF enable_writing
<1>9. "OUT" \in e <=> o # <<>>
  <2>1. CASE taken < MessageUnits
    <3>1. "OUT" \in e
      BY <2>1 DEF enable_writing
    <3>2. Len(o) > 0
      <4> HIDE DEF taken, rest
      <4> QED
        BY <2>1, <1>2, <1>4, <1>6
    <3>3. o # <<>>
      <4> HIDE DEF o
      <4> QED
        BY <3>2
    <3> QED
      BY <3>1, <3>3
  <2>2. CASE ~(taken < MessageUnits)
    <3>1. taken = MessageUnits /\ WritesDirectly(r)
      BY <2>2, <1>4
    <3>2. "OUT" \notin e /\ r.output = <<>>
      BY <2>2, <3>1 DEF WritesDirectly, is_writing
    <3>3. Len(o) = 0
      <4> HIDE DEF taken, rest
      <4> QED
        BY <3>1, <3>2, <1>4, <1>6
    <3> QED
      BY <3>2, <3>3, <1>8
  <2> QED
    BY <2>1, <2>2
<1> HIDE DEF taken, head, rest, w, o, e, q
<1>10. /\ q \in Connection
       /\ q.state = r.state /\ q.loop = r.loop /\ q.notices = r.notices /\ q.closed = r.closed
       /\ q.output = o /\ q.events = e
  BY <1>1, <1>7, <1>8 DEF Connection
<1>11. StaysUp(q, r)
  BY <1>1, <1>9, <1>10, MovedUp DEF is_writing
<1> QED
  BY <1>11 DEF q

\* send in the loop thread, from the count of what was given on
LEMMA SentGood ==
  ASSUME NEW r, Good(r), r.state = "kConnected", NEW n \in 0..MessageUnits
  PROVE  StaysUp(SentInLoop(r, n), r)
<1> DEFINE g == Given(r, "loop")
           m == Message(r, "loop")
<1>1. r \in Connection /\ RecordOK(r)
  BY DEF Good
<1>2. MessageUnits \in Nat \ {0} /\ r.sent \in [Senders -> Nat] /\ "loop" \in Senders
  BY <1>1, MessageUnitsAssumption DEF Connection, Senders
<1>3. r.sent["loop"] \in Nat
  BY <1>2
<1>4. m \in Seq(Bytes) /\ Len(m) = MessageUnits
  BY <1>2, <1>3 DEF Message, Bytes, Numbered
<1>5. [r.sent EXCEPT !["loop"] = @ + MessageUnits] \in [Senders -> Nat]
  BY <1>2, <1>3
<1>6. /\ g \in Connection
      /\ g.state = r.state /\ g.loop = r.loop /\ g.notices = r.notices /\ g.closed = r.closed
      /\ g.output = r.output /\ g.events = r.events
  BY <1>1, <1>5 DEF Given, Connection
<1>7. Good(g)
  BY <1>1, <1>6 DEF Good, RecordOK, Closable, is_writing
<1> HIDE DEF g, m
<1>8. StaysUp(send_in_loop(g, m, n), g)
  BY <1>4, <1>6, <1>7, SendGood
<1> QED
  BY <1>6, <1>8 DEF StaysUp, SentInLoop, g, m

\* handle_write of a connection that is up
LEMMA WriteGood ==
  ASSUME NEW r, Good(r), Closable(r), NEW n \in 1..Len(r.output)
  PROVE  StaysUp(handle_write(r, n), r)
<1> DEFINE w == r.wire \o SubSeq(r.output, 1, n)
           o == SubSeq(r.output, n + 1, Len(r.output))
           e == IF n = Len(r.output) THEN disable_writing(r.events) ELSE r.events
           m == [r EXCEPT !.wire = w, !.output = o, !.events = e]
           q == handle_write(r, n)
<1>1. r \in Connection /\ RecordOK(r)
  BY DEF Good
<1>2. /\ r.wire \in Seq(Bytes) /\ r.output \in Seq(Bytes)
      /\ r.events \in SUBSET {"IN", "OUT"}
  BY <1>1 DEF Connection
<1>3. is_writing(r) <=> r.output # <<>>
  BY <1>1 DEF RecordOK
<1>4. Len(r.output) \in Nat /\ n \in Nat /\ n >= 1 /\ n <= Len(r.output)
  BY <1>2
<1>5. w \in Seq(Bytes) /\ o \in Seq(Bytes) /\ e \in SUBSET {"IN", "OUT"}
  BY <1>2, <1>4 DEF disable_writing
<1>6. Len(o) = Len(r.output) - n
  BY <1>2, <1>4
<1>7. "OUT" \in e <=> o # <<>>
  <2>1. r.output # <<>>
    BY <1>2, <1>4
  <2>2. o # <<>> <=> n # Len(r.output)
    <3> HIDE DEF o
    <3> QED
      BY <1>4, <1>5, <1>6
  <2>3. "OUT" \in e <=> n # Len(r.output)
    BY <2>1, <1>3 DEF is_writing, disable_writing
  <2> QED
    BY <2>2, <2>3, Zenon
<1>8. q = IF r.state = "kDisconnecting" THEN shutdown(m) ELSE m
  BY Zenon DEF handle_write
<1>9. /\ m \in Connection
      /\ m.state = r.state /\ m.loop = r.loop /\ m.notices = r.notices /\ m.closed = r.closed
      /\ m.output = o /\ m.events = e
  <2> HIDE DEF w, o, e
  <2> QED
    BY <1>1, <1>5 DEF Connection
<1> HIDE DEF w, o, e, m, q
<1>10. StaysUp(m, r)
  BY <1>1, <1>7, <1>9, MovedUp DEF is_writing
<1>11. q = m
  BY <1>8, <1>9 DEF shutdown
<1> QED
  BY <1>10, <1>11 DEF q

-----------------------------------------------------------------------------
(* What a step does to the queues *)

TaskType == [kind : Kinds, conn : Conns]

\* A closure is queued on loop l.
LEMMA AddTask ==
  ASSUME LifeInv, NEW l \in Loops, NEW t \in TaskType, t \notin Queued(l),
         pending' = [pending EXCEPT ![l] = Append(@, t)]
  PROVE  /\ pending' \in [Loops -> Seq(TaskType)]
         /\ Elems(pending'[l]) = Elems(pending[l]) \cup {t} /\ Distinct(pending'[l])
         /\ \A k \in Loops \ {l} : pending'[k] = pending[k]
<1>1. pending \in [Loops -> Seq(TaskType)]
  BY DEF LifeInv, TypeOK, TaskType
<1>2. Distinct(pending[l]) /\ t \notin Elems(pending[l])
  BY DEF LifeInv, OnceInv, Queued
<1>3. pending'[l] = Append(pending[l], t) /\ pending[l] \in Seq(TaskType)
  BY <1>1
<1>4. /\ Append(pending[l], t) \in Seq(TaskType)
      /\ Elems(Append(pending[l], t)) = Elems(pending[l]) \cup {t}
      /\ Distinct(Append(pending[l], t))
  BY <1>2, <1>3, Queueing
<1> QED
  BY <1>1, <1>3, <1>4

\* The next closure of the batch of loop l is taken.
LEMMA TakeTask ==
  ASSUME LifeInv, NEW l \in Loops, NEW kind, NEW c, NextTask(l, kind, c)
  PROVE  /\ dump' \in [Loops -> Seq(TaskType)]
         /\ Task(kind, c) \in Elems(dump[l]) /\ Task(kind, c) \in TaskType
         /\ Elems(dump'[l]) = Elems(dump[l]) \ {Task(kind, c)} /\ Distinct(dump'[l])
         /\ \A k \in Loops \ {l} : dump'[k] = dump[k]
<1>1. dump \in [Loops -> Seq(TaskType)]
  BY DEF LifeInv, TypeOK, TaskType
<1>2. Distinct(dump[l]) /\ dump[l] # <<>> /\ dump[l] \in Seq(TaskType)
  BY <1>1 DEF LifeInv, OnceInv, NextTask
<1>3. dump' = [dump EXCEPT ![l] = Tail(dump[l])] /\ Head(dump[l]) = Task(kind, c)
  BY DEF NextTask
<1>4. /\ Head(dump[l]) \in TaskType /\ Tail(dump[l]) \in Seq(TaskType)
      /\ Head(dump[l]) \in Elems(dump[l])
      /\ Elems(Tail(dump[l])) = Elems(dump[l]) \ {Head(dump[l])}
      /\ Distinct(Tail(dump[l]))
  BY <1>2, Taking, Zenon
<1> QED
  BY <1>1, <1>3, <1>4

\* What the tasks of a queue are
LEMMA QueuedTasks ==
  ASSUME LifeInv, NEW l \in Loops, NEW t \in Queued(l)
  PROVE  t \in TaskType /\ t.conn \in Conns /\ t.kind \in Kinds /\ TaskOK(l, t)
<1>1. t \in Elems(pending[l]) \/ t \in Elems(dump[l])
  BY DEF Queued
<1>2. pending[l] \in Seq(TaskType) /\ dump[l] \in Seq(TaskType)
  BY DEF LifeInv, TypeOK, TaskType
<1>3. ASSUME NEW s \in Seq(TaskType), t \in Elems(s) PROVE t \in TaskType
  BY <1>3 DEF Elems
<1>4. t \in TaskType
  BY <1>1, <1>2, <1>3
<1> QED
  BY <1>4 DEF LifeInv, TaskInv, TaskType

\* A closure is known by its kind and its connection.
LEMMA SameTask ==
  ASSUME NEW t \in TaskType
  PROVE  t = Task(t.kind, t.conn)
  BY DEF TaskType, Task

\* A connection that is up, or not accepted yet, is in no queue.
LEMMA NotQueued ==
  ASSUME LifeInv, NEW l \in Loops, NEW t \in Queued(l)
  PROVE  Stage(conn[t.conn]) \in {"kConnecting", "kDisconnected"}
  BY QueuedTasks DEF TaskOK, Strong

-----------------------------------------------------------------------------
(* What a step does to the lives *)

Kept(c) == Stage(conn'[c]) = Stage(conn[c]) /\ conn'[c].loop = conn[c].loop

\* One connection changes.
LEMMA OneChanges ==
  ASSUME LifeInv, NEW c \in Conns, NEW v, Good(v), conn' = [conn EXCEPT ![c] = v]
  PROVE  /\ conn' \in [Conns -> Connection] /\ RecordInv'
         /\ conn'[c] = v
         /\ \A d \in Conns \ {c} : conn'[d] = conn[d] /\ Kept(d)
<1>1. conn \in [Conns -> Connection] /\ \A d \in Conns : RecordOK(conn[d])
  BY DEF LifeInv, TypeOK, RecordInv
<1>2. v \in Connection /\ RecordOK(v)
  BY DEF Good
<1>3. conn' \in [Conns -> Connection] /\ conn'[c] = v /\ \A d \in Conns \ {c} : conn'[d] = conn[d]
  BY <1>1, <1>2
<1>4. \A d \in Conns : RecordOK(conn'[d])
  BY <1>1, <1>2, <1>3, Zenon
<1> QED
  BY <1>3, <1>4 DEF RecordInv, Kept

\* No connection changes.
LEMMA NoneChanges ==
  ASSUME LifeInv, UNCHANGED conn
  PROVE  conn' \in [Conns -> Connection] /\ RecordInv' /\ \A d \in Conns : Kept(d)
  BY DEF LifeInv, TypeOK, RecordInv, Kept

\* Where nothing moves, what the server and the queues expect stays true.
LEMMA QuietLives ==
  ASSUME LifeInv, connections_' = connections_, \A d \in Conns : Kept(d)
  PROVE  RegisterInv'
  BY DEF LifeInv, RegisterInv, Kept

\* The queues keep or lose closures.
LEMMA QuietTasks ==
  ASSUME LifeInv, connections_' = connections_, \A d \in Conns : Kept(d),
         \A l \in Loops : Queued(l)' \subseteq Queued(l)
  PROVE  TaskInv'
<1>1. SUFFICES ASSUME NEW l \in Loops, NEW t \in Queued(l)' PROVE TaskOK(l, t)'
  BY DEF TaskInv
<1>2. t \in Queued(l) /\ t.conn \in Conns /\ TaskOK(l, t)
  BY <1>1, QueuedTasks
<1> QED
  BY <1>2 DEF TaskOK, Kept

\* The kernel's side of sockets that are not accepted in this step
LEMMA QuietKernel ==
  ASSUME LifeInv, backlog' = backlog, peer' = peer,
         \A d \in Conns : Stage(conn'[d]) = "none" <=> Stage(conn[d]) = "none"
  PROVE  KernelInv'
  BY DEF LifeInv, KernelInv

\* A loop that does not move, whose connections stay as they are
LEMMA QuietLoop ==
  ASSUME LifeInv, NEW l \in Loops,
         at'[l] = at[l], active'[l] = active[l], cur'[l] = cur[l], dump'[l] = dump[l],
         \A c \in Conns : conn[c].loop = l /\ Stage(conn[c]) \in {"up", "kDisconnected"} => Kept(c)
  PROVE  ActiveOK(l)' /\ CurrentOK(l)'
<1>1. /\ active[l] \subseteq Conns \X SUBSET {"IN", "OUT"}
      /\ ActiveOK(l) /\ CurrentOK(l)
  BY DEF LifeInv, TypeOK, BatchInv
<1>2. \A a \in active[l] : a[1] \in Conns
  BY <1>1
<1>3. ActiveOK(l)'
  BY <1>1, <1>2 DEF ActiveOK, Kept
<1>4. CurrentOK(l)'
  BY <1>1 DEF CurrentOK, Handling, Kept
<1> QED
  BY <1>3, <1>4

\* A channel or task of loop l is done with: the next place is the one cur names.
LEMMA ContinueLoop ==
  ASSUME LifeInv, NEW l \in Loops, Handling(l), Continue(l),
         active'[l] = active[l], dump'[l] = dump[l],
         \A c \in Conns : /\ conn'[c].loop = conn[c].loop
                          /\ Kept(c) \/ (c = cur[l].conn /\ Stage(conn'[c]) = "kDisconnected")
  PROVE  ActiveOK(l)' /\ CurrentOK(l)'
<1>1. /\ active[l] \subseteq Conns \X SUBSET {"IN", "OUT"}
      /\ ActiveOK(l) /\ CurrentOK(l)
      /\ at \in [Loops -> Places] /\ cur \in [Loops -> Current]
  BY DEF LifeInv, TypeOK, BatchInv
<1>2. \A a \in active[l] : a[1] \in Conns /\ a[1] # cur[l].conn
  BY <1>1 DEF CurrentOK
<1>3. /\ cur[l].conn \in Conns /\ conn[cur[l].conn].loop = l
      /\ Stage(conn[cur[l].conn]) \in {"up", "kDisconnected"}
      /\ cur[l].then \in {"handle", "write", "tasks"}
      /\ cur[l].then = "tasks" => at[l] = "callback" /\ active[l] = {}
      /\ dump[l] # <<>> => cur[l].then = "tasks"
  BY <1>1 DEF CurrentOK, Handling
<1>4. at'[l] = cur[l].then
  BY <1>1 DEF Continue
<1>5. \A a \in active[l] : conn'[a[1]].loop = l /\ Stage(conn'[a[1]]) = "up"
  BY <1>1, <1>2 DEF ActiveOK, Kept
<1>6. ActiveOK(l)'
  BY <1>1, <1>3, <1>4, <1>5 DEF ActiveOK
<1>7. CASE cur[l].then = "write"
  <2>1. cur'[l] = [conn |-> cur[l].conn, then |-> "handle"]
    BY <1>1, <1>7 DEF Continue, Current
  <2>2. cur'[l].conn = cur[l].conn /\ cur'[l].then = "handle"
    BY <2>1
  <2>3. conn'[cur[l].conn].loop = l /\ Stage(conn'[cur[l].conn]) \in {"up", "kDisconnected"}
    BY <1>3 DEF Kept
  <2>4. dump'[l] = <<>> /\ at'[l] = "write"
    BY <1>3, <1>4, <1>7
  <2> QED
    BY <1>2, <1>3, <1>6, <2>2, <2>3, <2>4 DEF CurrentOK, Handling
<1>8. CASE cur[l].then \in {"handle", "tasks"}
  <2>1. at'[l] \in {"handle", "tasks"} /\ (dump'[l] # <<>> => at'[l] = "tasks")
    BY <1>3, <1>4, <1>8
  <2> QED
    BY <1>6, <2>1 DEF CurrentOK, Handling
<1> QED
  BY <1>3, <1>7, <1>8

\* The types of at and cur after such a step
LEMMA ContinueType ==
  ASSUME LifeInv, NEW l \in Loops, Continue(l)
  PROVE  /\ at' \in [Loops -> Places] /\ cur' \in [Loops -> Current]
         /\ \A k \in Loops \ {l} : at'[k] = at[k] /\ cur'[k] = cur[k]
<1>1. at \in [Loops -> Places] /\ cur \in [Loops -> Current]
  BY DEF LifeInv, TypeOK, BatchInv
<1>2. cur[l].then \in Places
  BY <1>1 DEF Current
<1>3. Nothing \in Current /\ [cur[l] EXCEPT !.then = "handle"] \in Current
  BY <1>1 DEF Nothing, Current, Places
<1> HIDE DEF Nothing, Current, Places
<1> QED
  BY <1>1, <1>2, <1>3 DEF Continue

-----------------------------------------------------------------------------
(* The steps *)

\* Types of what each group of variables holds, and the invariant put together again
ServerType ==
  /\ listening_ \in BOOLEAN
  /\ backlog \subseteq Conns /\ connections_ \subseteq Conns /\ user_refs \subseteq Conns
  /\ next_ \in 0..(NumThreads - 1)

SocketType ==
  /\ peer \in [Conns -> {"none", "open", "fin", "reset"}]
  /\ chunks \in [Conns -> 0..MaxChunks]
  /\ room \in [Conns -> BOOLEAN]

LoopType ==
  /\ at \in [Loops -> Places]
  /\ active \in [Loops -> SUBSET (Conns \X SUBSET {"IN", "OUT"})]
  /\ cur \in [Loops -> Current]
  /\ retained \in [Loops -> SUBSET Conns]

QueueType == pending \in [Loops -> Seq(TaskType)] /\ dump \in [Loops -> Seq(TaskType)]

\* The types, by component
LEMMA Types ==
  TypeOK /\ BatchInv <=>
    /\ ServerType /\ SocketType /\ LoopType /\ QueueType /\ conn \in [Conns -> Connection]
    /\ \A l \in Loops : ActiveOK(l) /\ CurrentOK(l)
<1>1. cur \in [Loops -> Current] => \A l \in Loops : cur[l].then \in Places
  BY DEF Current
<1> QED
  BY <1>1, Zenon DEF TypeOK, ServerType, SocketType, LoopType, QueueType, TaskType, BatchInv

\* The invariant after a step, part by part
LEMMA Rebuild ==
  ASSUME ServerType', SocketType', LoopType', QueueType', conn' \in [Conns -> Connection],
         \A l \in Loops : ActiveOK(l)' /\ CurrentOK(l)',
         RecordInv', RegisterInv', OnceInv', TaskInv', KernelInv', fault' = "none"
  PROVE  LifeInv'
<1>1. \A l \in Loops : cur'[l].then \in Places
  BY DEF LoopType, Current
<1>2. TypeOK'
  BY <1>1, Zenon DEF TypeOK, ServerType, SocketType, LoopType, QueueType, TaskType
<1>3. BatchInv'
  BY Zenon DEF BatchInv, LoopType
<1> QED
  BY <1>2, <1>3, Zenon DEF LifeInv

\* The parts before it
LEMMA Parts ==
  ASSUME LifeInv
  PROVE  /\ ServerType /\ SocketType /\ LoopType /\ QueueType
         /\ conn \in [Conns -> Connection]
         /\ \A l \in Loops : ActiveOK(l) /\ CurrentOK(l)
         /\ RecordInv /\ RegisterInv /\ OnceInv /\ TaskInv /\ KernelInv /\ fault = "none"
  BY Types, Zenon DEF LifeInv

\* A step of one loop in which every connection keeps its stage
LEMMA KeptTurns ==
  ASSUME LifeInv, NEW l \in Loops,
         UNCHANGED <<serverVars, peer>>, fault' = "none", user_refs' \subseteq Conns,
         conn' \in [Conns -> Connection], RecordInv', \A d \in Conns : Kept(d),
         SocketType', LoopType', QueueType', OnceInv',
         \A k \in Loops : Queued(k)' \subseteq Queued(k),
         \A k \in Loops \ {l} : /\ at'[k] = at[k] /\ active'[k] = active[k]
                                /\ cur'[k] = cur[k] /\ dump'[k] = dump[k],
         ActiveOK(l)' /\ CurrentOK(l)'
  PROVE  LifeInv'
<1>1. ServerType'
  BY Parts, Zenon DEF serverVars, ServerType
<1>2. RegisterInv' /\ TaskInv'
  BY QuietLives, QuietTasks DEF serverVars
<1>3. KernelInv'
  BY QuietKernel DEF serverVars, Kept
<1>4. ASSUME NEW k \in Loops PROVE ActiveOK(k)' /\ CurrentOK(k)'
  <2>1. CASE k = l
    BY <2>1
  <2>2. CASE k # l
    BY <2>2, QuietLoop
  <2> QED
    BY <2>1, <2>2
<1> QED
  BY <1>1, <1>2, <1>3, <1>4, Rebuild, Zenon

\* A step of one loop that is about its batch only
LEMMA LoopTurns ==
  ASSUME LifeInv, NEW l \in Loops,
         UNCHANGED <<serverVars, conn, user_refs, socketVars>>, fault' = "none",
         LoopType', QueueType', OnceInv',
         \A k \in Loops : Queued(k)' \subseteq Queued(k),
         \A k \in Loops \ {l} : /\ at'[k] = at[k] /\ active'[k] = active[k]
                                /\ cur'[k] = cur[k] /\ dump'[k] = dump[k],
         ActiveOK(l)' /\ CurrentOK(l)'
  PROVE  LifeInv'
<1>1. conn' \in [Conns -> Connection] /\ RecordInv' /\ \A d \in Conns : Kept(d)
  BY NoneChanges
<1>2. SocketType' /\ UNCHANGED peer
  BY Parts, Zenon DEF socketVars, SocketType
<1>3. user_refs' \subseteq Conns /\ UNCHANGED serverVars
  BY Parts DEF ServerType
<1> QED
  BY <1>1, <1>2, <1>3, KeptTurns

\* What is registered or queued is not destroyed.
LEMMA Alive ==
  ASSUME LifeInv, NEW c \in Conns
  PROVE  /\ Stage(conn[c]) \in {"kConnecting", "up"} => ~Destroyed(c)
         /\ \A l \in Loops : \A t \in Queued(l) : t.conn = c => ~Destroyed(c)
<1>1. ASSUME Stage(conn[c]) \in {"kConnecting", "up"} PROVE ~Destroyed(c)
  BY <1>1 DEF LifeInv, RegisterInv, Destroyed, Held
<1>2. ASSUME NEW l \in Loops, NEW t \in Queued(l), t.conn = c PROVE ~Destroyed(c)
  <2>1. t.kind \in Strong
    BY <1>2, QueuedTasks DEF TaskOK
  <2>2. \/ \E i \in 1..Len(pending[l]) : pending[l][i].conn = c /\ pending[l][i].kind \in Strong
        \/ \E i \in 1..Len(dump[l]) : dump[l][i].conn = c /\ dump[l][i].kind \in Strong
    BY <1>2, <2>1 DEF Queued, Elems
  <2>3. Held(c)
    BY <2>2, Zenon DEF Held, InSeq
  <2> QED
    BY <2>3 DEF Destroyed
<1> QED
  BY <1>1, <1>2

\* epoll_wait returns.
LEMMA EpollWaitStep ==
  ASSUME LifeInv, NEW l \in Loops, EpollWait(l)
  PROVE  LifeInv'
<1>1. /\ LoopType /\ QueueType /\ OnceInv /\ CurrentOK(l) /\ RecordInv /\ fault = "none"
      /\ conn \in [Conns -> Connection]
  BY Parts
<1>2. /\ UNCHANGED <<serverVars, conn, user_refs, socketVars, cur, pending, dump, retained, fault>>
      /\ at[l] = "wait"
      /\ active' = [active EXCEPT ![l] = ReadyChannels(l)]
      /\ \E p \in {"accept", "handle"} : at' = [at EXCEPT ![l] = p]
  BY DEF EpollWait
<1>3. \A a \in ReadyChannels(l) :
        /\ a \in Conns \X SUBSET {"IN", "OUT"}
        /\ conn[a[1]].loop = l /\ Stage(conn[a[1]]) = "up"
  <2>1. SUFFICES ASSUME NEW c \in Conns, conn[c].loop = l, ReadyEvents(c) # {}
                 PROVE  Stage(conn[c]) = "up" /\ ReadyEvents(c) \in SUBSET {"IN", "OUT"}
    BY DEF ReadyChannels
  <2>2. conn[c].events # {} /\ ReadyEvents(c) \subseteq conn[c].events
    BY <2>1 DEF ReadyEvents
  <2>3. conn[c].events \in SUBSET {"IN", "OUT"}
    BY <1>1 DEF Connection
  <2> QED
    BY <1>1, <2>2, <2>3 DEF RecordInv, RecordOK, Stage
<1>4. \A a, b \in ReadyChannels(l) : a[1] = b[1] => a = b
  BY DEF ReadyChannels
<1>5. LoopType'
  <2>1. "accept" \in Places /\ "handle" \in Places
    BY DEF Places
  <2> QED
    BY <1>1, <1>2, <1>3, <2>1 DEF LoopType
<1>6. at'[l] \in {"accept", "handle"} /\ active'[l] = ReadyChannels(l)
  BY <1>1, <1>2 DEF LoopType
<1>7. dump[l] = <<>>
  BY <1>1, <1>2 DEF CurrentOK
<1>8. ActiveOK(l)'
  BY <1>2, <1>3, <1>4, <1>6 DEF ActiveOK
<1>9. CurrentOK(l)'
  BY <1>2, <1>6, <1>7 DEF CurrentOK, Handling
<1>10. QueueType' /\ OnceInv' /\ \A k \in Loops : Queued(k)' = Queued(k)
  BY <1>1, <1>2 DEF QueueType, OnceInv, Queued
<1>11. \A k \in Loops \ {l} : /\ at'[k] = at[k] /\ active'[k] = active[k]
                              /\ cur'[k] = cur[k] /\ dump'[k] = dump[k]
  BY <1>1, <1>2 DEF LoopType
<1> QED
  BY <1>1, <1>2, <1>5, <1>8, <1>9, <1>10, <1>11, LoopTurns

\* The accept loop ends.
LEMMA AcceptStopsStep ==
  ASSUME LifeInv, AcceptStops
  PROVE  LifeInv'
<1>0. Base \in Loops
  BY DEF Loops
<1>1. /\ LoopType /\ QueueType /\ OnceInv /\ ActiveOK(Base) /\ CurrentOK(Base) /\ fault = "none"
  BY <1>0, Parts
<1>2. /\ UNCHANGED <<serverVars, conn, user_refs, socketVars, active, cur, pending, dump,
                     retained, fault>>
      /\ at[Base] = "accept" /\ at' = [at EXCEPT ![Base] = "handle"]
  BY DEF AcceptStops
<1>3. LoopType' /\ at'[Base] = "handle"
  BY <1>0, <1>1, <1>2 DEF LoopType, Places
<1>4. ActiveOK(Base)'
  BY <1>1, <1>2, <1>3 DEF ActiveOK
<1>5. CurrentOK(Base)'
  BY <1>1, <1>2, <1>3 DEF CurrentOK, Handling
<1>6. QueueType' /\ OnceInv' /\ \A k \in Loops : Queued(k)' = Queued(k)
  BY <1>1, <1>2 DEF QueueType, OnceInv, Queued
<1>7. \A k \in Loops \ {Base} : /\ at'[k] = at[k] /\ active'[k] = active[k]
                                /\ cur'[k] = cur[k] /\ dump'[k] = dump[k]
  BY <1>1, <1>2 DEF LoopType
<1> QED
  BY <1>0, <1>1, <1>2, <1>3, <1>4, <1>5, <1>6, <1>7, LoopTurns

\* A channel of the batch is handled.
LEMMA HandleEventsStep ==
  ASSUME LifeInv, NEW l \in Loops, handle_events(l)
  PROVE  LifeInv'
<1>1. /\ LoopType /\ QueueType /\ OnceInv /\ ActiveOK(l) /\ CurrentOK(l) /\ fault = "none"
  BY Parts
<1>2. PICK a \in active[l], then \in {"write", "handle"}, p \in {"read", "write"} :
        /\ active' = [active EXCEPT ![l] = @ \ {a}]
        /\ cur' = [cur EXCEPT ![l] = [conn |-> a[1], then |-> then]]
        /\ at' = [at EXCEPT ![l] = p]
        /\ p = "write" => then = "handle"
        /\ fault' = IF Destroyed(a[1]) THEN "dangling" ELSE fault
  BY DEF handle_events
<1>3. /\ UNCHANGED <<serverVars, conn, user_refs, socketVars, pending, dump, retained>>
      /\ at[l] = "handle"
  BY DEF handle_events
<1>4. a[1] \in Conns /\ conn[a[1]].loop = l /\ Stage(conn[a[1]]) = "up"
  BY <1>1 DEF LoopType, ActiveOK
<1>5. fault' = "none"
  BY <1>1, <1>2, <1>4, Alive
<1>6. /\ LoopType'
      /\ at'[l] = p /\ cur'[l].conn = a[1] /\ cur'[l].then = then
      /\ active'[l] = active[l] \ {a}
  <2>1. p \in Places /\ [conn |-> a[1], then |-> then] \in Current
    BY <1>4 DEF Places, Current
  <2> QED
    BY <1>1, <1>2, <1>3, <2>1 DEF LoopType
<1>7. ActiveOK(l)'
  BY <1>1, <1>2, <1>3, <1>6 DEF ActiveOK
<1>8. CurrentOK(l)'
  <2>1. \A b \in active'[l] : b[1] # a[1]
    BY <1>1, <1>6 DEF ActiveOK
  <2>2. dump[l] = <<>>
    BY <1>1, <1>3 DEF CurrentOK
  <2> QED
    BY <1>2, <1>3, <1>4, <1>6, <2>1, <2>2 DEF CurrentOK, Handling
<1>9. QueueType' /\ OnceInv' /\ \A k \in Loops : Queued(k)' = Queued(k)
  BY <1>1, <1>3 DEF QueueType, OnceInv, Queued
<1>10. \A k \in Loops \ {l} : /\ at'[k] = at[k] /\ active'[k] = active[k]
                              /\ cur'[k] = cur[k] /\ dump'[k] = dump[k]
  BY <1>1, <1>2, <1>3 DEF LoopType
<1> QED
  BY <1>3, <1>5, <1>6, <1>7, <1>8, <1>9, <1>10, LoopTurns

\* The queue becomes the batch: no closure is lost, as the last batch is finished.
LEMMA SwapTasksStep ==
  ASSUME LifeInv, NEW l \in Loops, SwapTasks(l)
  PROVE  LifeInv' /\ \A k \in Loops : Queued(k)' = Queued(k)
<1>1. /\ LoopType /\ QueueType /\ OnceInv /\ ActiveOK(l) /\ CurrentOK(l) /\ fault = "none"
  BY Parts
<1>2. /\ UNCHANGED <<serverVars, conn, user_refs, socketVars, active, cur, retained, fault>>
      /\ at[l] = "handle" /\ active[l] = {}
      /\ dump' = [dump EXCEPT ![l] = pending[l]]
      /\ pending' = [pending EXCEPT ![l] = <<>>]
      /\ at' = [at EXCEPT ![l] = "tasks"]
  BY DEF SwapTasks
<1>3. dump[l] = <<>>
  BY <1>1, <1>2 DEF CurrentOK
<1>4. LoopType' /\ at'[l] = "tasks"
  BY <1>1, <1>2 DEF LoopType, Places
<1>5. /\ dump'[l] = pending[l] /\ pending'[l] = <<>>
      /\ \A k \in Loops \ {l} : dump'[k] = dump[k] /\ pending'[k] = pending[k]
  BY <1>1, <1>2 DEF QueueType
<1>6. QueueType'
  <2>1. <<>> \in Seq(TaskType)
    OBVIOUS
  <2> QED
    BY <1>1, <1>2, <2>1 DEF QueueType
<1>7. ActiveOK(l)'
  BY <1>2, <1>4 DEF ActiveOK
<1>8. CurrentOK(l)'
  BY <1>2, <1>4 DEF CurrentOK, Handling
<1>9. \A k \in Loops : Queued(k)' = Queued(k)
  BY <1>3, <1>5 DEF Queued
<1>10. OnceInv'
  <2>1. ASSUME NEW k \in Loops
        PROVE  /\ Distinct(dump'[k]) /\ Distinct(pending'[k])
               /\ Elems(dump'[k]) \cap Elems(pending'[k]) = {}
    <3>1. CASE k = l
      BY <3>1, <1>1, <1>5, NoneQueued DEF OnceInv
    <3>2. CASE k # l
      BY <3>2, <1>1, <1>5 DEF OnceInv
    <3> QED
      BY <3>1, <3>2
  <2> QED
    BY <2>1 DEF OnceInv
<1>11. \A k \in Loops \ {l} : /\ at'[k] = at[k] /\ active'[k] = active[k]
                              /\ cur'[k] = cur[k] /\ dump'[k] = dump[k]
  BY <1>1, <1>2, <1>5 DEF LoopType
<1> QED
  BY <1>1, <1>2, <1>4, <1>6, <1>7, <1>8, <1>9, <1>10, <1>11, LoopTurns

\* The batch of tasks is finished.
LEMMA TasksDoneStep ==
  ASSUME LifeInv, NEW l \in Loops, TasksDone(l)
  PROVE  LifeInv'
<1>1. /\ LoopType /\ QueueType /\ OnceInv /\ ActiveOK(l) /\ CurrentOK(l) /\ fault = "none"
  BY Parts
<1>2. /\ UNCHANGED <<serverVars, conn, user_refs, socketVars, active, cur, pending, dump, fault>>
      /\ at[l] = "tasks" /\ dump[l] = <<>>
      /\ retained' = [retained EXCEPT ![l] = {}]
      /\ at' = [at EXCEPT ![l] = "wait"]
  BY DEF TasksDone
<1>3. LoopType' /\ at'[l] = "wait"
  BY <1>1, <1>2 DEF LoopType, Places
<1>4. ActiveOK(l)'
  BY <1>1, <1>2, <1>3 DEF ActiveOK
<1>5. CurrentOK(l)'
  BY <1>2, <1>3 DEF CurrentOK, Handling
<1>6. QueueType' /\ OnceInv' /\ \A k \in Loops : Queued(k)' = Queued(k)
  BY <1>1, <1>2 DEF QueueType, OnceInv, Queued
<1>7. \A k \in Loops \ {l} : /\ at'[k] = at[k] /\ active'[k] = active[k]
                             /\ cur'[k] = cur[k] /\ dump'[k] = dump[k]
  BY <1>1, <1>2 DEF LoopType
<1> QED
  BY <1>1, <1>2, <1>3, <1>4, <1>5, <1>6, <1>7, LoopTurns

\* A callback of the user returns.
LEMMA CallbackReturnsStep ==
  ASSUME LifeInv, NEW l \in Loops, CallbackReturns(l)
  PROVE  LifeInv'
<1>1. /\ LoopType /\ QueueType /\ OnceInv /\ fault = "none"
  BY Parts
<1>2. /\ UNCHANGED <<serverVars, conn, user_refs, socketVars, active, pending, dump, retained,
                     fault>>
      /\ at[l] = "callback" /\ Continue(l)
  BY DEF CallbackReturns
<1>3. /\ at' \in [Loops -> Places] /\ cur' \in [Loops -> Current]
      /\ \A k \in Loops \ {l} : at'[k] = at[k] /\ cur'[k] = cur[k]
  BY <1>2, ContinueType
<1>4. LoopType'
  BY <1>1, <1>2, <1>3 DEF LoopType
<1>5. ActiveOK(l)' /\ CurrentOK(l)'
  BY <1>2, NoneChanges, ContinueLoop DEF Handling, Kept
<1>6. QueueType' /\ OnceInv' /\ \A k \in Loops : Queued(k)' = Queued(k)
  BY <1>1, <1>2 DEF QueueType, OnceInv, Queued
<1> QED
  BY <1>1, <1>2, <1>3, <1>4, <1>5, <1>6, LoopTurns

\* A step in which the connection that is being handled stays up and nothing moves but
\* its own loop and its socket
LEMMA UpTurns ==
  ASSUME LifeInv, NEW l \in Loops, NEW c \in Conns, NEW v,
         Closable(conn[c]), Good(v), Closable(v), v.loop = conn[c].loop,
         conn' = [conn EXCEPT ![c] = v],
         UNCHANGED <<serverVars, user_refs, peer, active, pending, dump, retained, fault>>,
         SocketType', at' \in [Loops -> Places], cur' \in [Loops -> Current],
         \A k \in Loops \ {l} : at'[k] = at[k] /\ cur'[k] = cur[k],
         (\A d \in Conns : Kept(d)) => ActiveOK(l)' /\ CurrentOK(l)'
  PROVE  LifeInv'
<1>1. /\ conn' \in [Conns -> Connection] /\ RecordInv' /\ conn'[c] = v
      /\ \A d \in Conns \ {c} : conn'[d] = conn[d] /\ Kept(d)
  BY OneChanges
<1>2. Kept(c)
  BY <1>1 DEF Kept, Stage
<1>3. LoopType' /\ QueueType' /\ OnceInv' /\ \A k \in Loops : Queued(k)' = Queued(k)
  BY Parts DEF LoopType, QueueType, OnceInv, Queued
<1>4. user_refs' \subseteq Conns /\ fault' = "none"
  BY Parts DEF ServerType
<1>5. \A d \in Conns : Kept(d)
  BY <1>1, <1>2
<1> QED
  BY <1>1, <1>3, <1>4, <1>5, KeptTurns

\* What is known of the connection of a loop that is handling one
LEMMA CurrentConn ==
  ASSUME LifeInv, NEW l \in Loops, Handling(l)
  PROVE  /\ cur[l].conn \in Conns /\ conn[cur[l].conn].loop = l
         /\ Good(conn[cur[l].conn])
         /\ at[l] = "read" => Closable(conn[cur[l].conn])
         /\ Closable(conn[cur[l].conn]) \/ conn[cur[l].conn].state = "kDisconnected"
<1>1. CurrentOK(l) /\ RecordInv /\ conn \in [Conns -> Connection]
  BY Parts
<1>2. /\ cur[l].conn \in Conns /\ conn[cur[l].conn].loop = l
      /\ Stage(conn[cur[l].conn]) \in {"up", "kDisconnected"}
      /\ at[l] = "read" => Stage(conn[cur[l].conn]) = "up"
  BY <1>1 DEF CurrentOK
<1>3. Good(conn[cur[l].conn])
  BY <1>1, <1>2 DEF Good, RecordInv
<1>4. conn[cur[l].conn].state # "up"
  BY <1>1, <1>2 DEF Connection, States
<1> QED
  BY <1>2, <1>3, <1>4 DEF Stage

\* handle_read reads: the message callback is entered.
LEMMA ReadMessageStep ==
  ASSUME LifeInv, NEW l \in Loops, ReadMessage(l)
  PROVE  LifeInv'
<1> DEFINE c == cur[l].conn
           v == [conn[c] EXCEPT !.notices = Note(@, "message")]
<1>1. LoopType /\ SocketType /\ ActiveOK(l) /\ CurrentOK(l) /\ conn \in [Conns -> Connection]
  BY Parts
<1>2. PICK n \in 1..chunks[c] :
        /\ chunks' = [chunks EXCEPT ![c] = @ - n]
        /\ conn' = [conn EXCEPT ![c].notices = Note(@, "message")]
  BY DEF ReadMessage
<1>3. /\ UNCHANGED <<serverVars, user_refs, peer, room, active, cur, pending, dump, retained, fault>>
      /\ at[l] = "read" /\ at' = [at EXCEPT ![l] = "callback"]
  BY DEF ReadMessage
<1>4. c \in Conns /\ Good(conn[c]) /\ Closable(conn[c])
  BY <1>3, CurrentConn DEF Handling
<1>5. conn' = [conn EXCEPT ![c] = v]
  BY <1>2
<1>6. Good(v) /\ Closable(v) /\ v.loop = conn[c].loop
  BY <1>4, MessageGood, Zenon
<1>7. SocketType'
  <2>1. chunks' \in [Conns -> 0..MaxChunks]
    BY <1>1, <1>2, <1>4, MaxChunksAssumption DEF SocketType
  <2> QED
    BY <1>1, <1>3, <2>1, Zenon DEF SocketType
<1>8. /\ at' \in [Loops -> Places] /\ cur' \in [Loops -> Current] /\ at'[l] = "callback"
      /\ \A k \in Loops \ {l} : at'[k] = at[k] /\ cur'[k] = cur[k]
  BY <1>1, <1>3 DEF LoopType, Places
<1>9. ASSUME \A d \in Conns : Kept(d) PROVE ActiveOK(l)' /\ CurrentOK(l)'
  <2>1. \A a \in active[l] : a[1] \in Conns
    BY <1>1 DEF LoopType
  <2>2. ActiveOK(l)'
    BY <1>1, <1>3, <1>8, <1>9, <2>1 DEF ActiveOK, Kept
  <2>3. CurrentOK(l)'
    BY <1>1, <1>3, <1>8, <1>9 DEF CurrentOK, Handling, Kept
  <2> QED
    BY <2>2, <2>3
<1> HIDE DEF c, v
<1> QED
  BY <1>3, <1>4, <1>5, <1>6, <1>7, <1>8, <1>9, UpTurns

\* No connection reaches another stage and no user is told anything.
Quiet == \A d \in Conns : Kept(d) /\ conn'[d].notices = conn[d].notices

\* A connection stays up, silently.
LEMMA UpQuiet ==
  ASSUME LifeInv, NEW c \in Conns, NEW v, Closable(conn[c]), StaysUp(v, conn[c]),
         conn' = [conn EXCEPT ![c] = v]
  PROVE  Quiet
<1>1. conn'[c] = v /\ \A d \in Conns \ {c} : conn'[d] = conn[d] /\ Kept(d)
  BY OneChanges DEF StaysUp
<1> QED
  BY <1>1 DEF Quiet, Kept, Stage, StaysUp

\* A write takes what it was given at most.
LEMMA OutcomesInRange ==
  ASSUME NEW c, NEW count \in Nat
  PROVE  WriteOutcomes(c, count) \subseteq 0..count
  BY DEF WriteOutcomes

\* handle_write, whatever the socket takes
LEMMA HandleWriteStep ==
  ASSUME LifeInv, NEW l \in Loops, HandleWrite(l)
  PROVE  LifeInv' /\ Quiet
<1> DEFINE c == cur[l].conn
<1>1. LoopType /\ SocketType /\ QueueType /\ OnceInv /\ fault = "none"
  BY Parts
<1>2. /\ UNCHANGED <<serverVars, user_refs, peer, chunks, active, pending, dump, retained, fault>>
      /\ at[l] = "write" /\ Continue(l)
  BY DEF HandleWrite
<1>3. c \in Conns /\ Good(conn[c])
  BY <1>2, CurrentConn DEF Handling
<1>4. /\ at' \in [Loops -> Places] /\ cur' \in [Loops -> Current]
      /\ \A k \in Loops \ {l} : at'[k] = at[k] /\ cur'[k] = cur[k]
  BY <1>2, ContinueType
<1>5. ASSUME \A d \in Conns : Kept(d) PROVE ActiveOK(l)' /\ CurrentOK(l)'
  BY <1>2, <1>5, ContinueLoop DEF Handling, Kept
<1>6. CASE UNCHANGED <<conn, room>>
  <2>1. LoopType' /\ QueueType' /\ OnceInv' /\ \A k \in Loops : Queued(k)' = Queued(k)
    BY <1>1, <1>2, <1>4 DEF LoopType, QueueType, OnceInv, Queued
  <2>2. ActiveOK(l)' /\ CurrentOK(l)'
    BY <1>5, <1>6, NoneChanges
  <2>3. UNCHANGED <<serverVars, conn, user_refs, socketVars>> /\ fault' = "none"
    BY <1>1, <1>2, <1>6 DEF socketVars
  <2> QED
    BY <1>2, <1>4, <1>6, <2>1, <2>2, <2>3, LoopTurns, NoneChanges DEF Quiet
<1>7. ASSUME is_writing(conn[c]),
             NEW n \in WriteOutcomes(c, Len(conn[c].output)),
             conn' = [conn EXCEPT ![c] = IF n > 0 THEN handle_write(@, n) ELSE @],
             NEW b \in RoomAfter(n, Len(conn[c].output)), room' = [room EXCEPT ![c] = b]
      PROVE  LifeInv' /\ Quiet
  <2> DEFINE v == IF n > 0 THEN handle_write(conn[c], n) ELSE conn[c]
  <2>1. Closable(conn[c])
    BY <1>3, <1>7 DEF is_writing, Good, RecordOK
  <2>2. Len(conn[c].output) \in Nat
    BY <1>3 DEF Good, Connection
  <2>3. n \in 0..Len(conn[c].output)
    BY <1>7, <2>2, OutcomesInRange
  <2>4. StaysUp(v, conn[c])
    <3>1. CASE n > 0
      <4>1. n \in 1..Len(conn[c].output)
        BY <2>2, <2>3, <3>1
      <4>2. StaysUp(handle_write(conn[c], n), conn[c])
        BY <1>3, <2>1, <4>1, WriteGood
      <4> QED
        BY <3>1, <4>2
    <3>2. CASE ~(n > 0)
      BY <3>2, <1>3, <2>1 DEF StaysUp
    <3> QED
      BY <3>1, <3>2
  <2>5. conn' = [conn EXCEPT ![c] = v]
    BY <1>7
  <2>6. SocketType'
    <3>1. room \in [Conns -> BOOLEAN]
      BY <1>1, Zenon DEF SocketType
    <3>2. b \in BOOLEAN
      BY <1>7 DEF RoomAfter
    <3>3. room' \in [Conns -> BOOLEAN]
      BY <1>7, <3>1, <3>2, Zenon
    <3> QED
      BY <1>1, <1>2, <3>3, Zenon DEF SocketType
  <2> HIDE DEF c, v
  <2> QED
    BY <1>2, <1>3, <1>4, <1>5, <2>1, <2>4, <2>5, <2>6, UpTurns, UpQuiet DEF StaysUp
<1> QED
  BY <1>6, <1>7 DEF HandleWrite

-----------------------------------------------------------------------------
(* The user's calls that leave a connection up *)

\* A connection that is up, whose loop stays where it is
LEMMA UpCall ==
  ASSUME LifeInv, NEW c \in Conns, NEW v,
         Closable(conn[c]), Good(v), Closable(v), v.loop = conn[c].loop,
         conn' = [conn EXCEPT ![c] = v],
         UNCHANGED <<serverVars, user_refs, peer, loopVars, fault>>, SocketType'
  PROVE  LifeInv'
<1>1. UNCHANGED <<at, active, cur, pending, dump, retained>>
  BY DEF loopVars
<1>2. conn[c].loop \in Loops
  BY Parts DEF Connection
<1>3. at' \in [Loops -> Places] /\ cur' \in [Loops -> Current]
  BY <1>1, Parts DEF LoopType
<1>4. ASSUME NEW l \in Loops, \A d \in Conns : Kept(d) PROVE ActiveOK(l)' /\ CurrentOK(l)'
  BY <1>1, <1>4, QuietLoop
<1> QED
  BY <1>1, <1>2, <1>3, <1>4, UpTurns

\* send in a callback
LEMMA SendStep ==
  ASSUME LifeInv, NEW l \in Loops, send(l)
  PROVE  LifeInv' /\ Quiet
<1> DEFINE c == cur[l].conn
<1>1. /\ at[l] = "callback" /\ conn[c].state = "kConnected"
      /\ UNCHANGED <<serverVars, user_refs, peer, chunks, loopVars, fault>>
  BY DEF send
<1>2. PICK n \in WriteOutcomes(c, MessageUnits) :
        /\ conn' = [conn EXCEPT ![c] = SentInLoop(@, n)]
        /\ \E b \in IF WritesDirectly(conn[c]) THEN RoomAfter(n, MessageUnits)
                    ELSE {room[c]} : room' = [room EXCEPT ![c] = b]
  BY DEF send
<1>3. c \in Conns /\ Good(conn[c]) /\ Closable(conn[c])
  BY <1>1, CurrentConn DEF Handling, Closable
<1>4. n \in 0..MessageUnits
  BY MessageUnitsAssumption, OutcomesInRange
<1>5. StaysUp(SentInLoop(conn[c], n), conn[c])
  BY <1>1, <1>3, <1>4, SentGood
<1>6. SocketType'
  <2>1. SocketType
    BY Parts
  <2>2. room \in [Conns -> BOOLEAN]
    BY <2>1, Zenon DEF SocketType
  <2>3. RoomAfter(n, MessageUnits) \subseteq BOOLEAN /\ room[c] \in BOOLEAN
    BY <1>3, <2>2 DEF RoomAfter
  <2>4. room' \in [Conns -> BOOLEAN]
    BY <1>2, <2>2, <2>3
  <2> QED
    BY <1>1, <2>1, <2>4, Zenon DEF SocketType
<1> DEFINE v == SentInLoop(conn[c], n)
<1>7. conn' = [conn EXCEPT ![c] = v] /\ StaysUp(v, conn[c])
  BY <1>2, <1>5
<1> HIDE DEF c, v
<1> QED
  BY <1>1, <1>3, <1>6, <1>7, UpCall, UpQuiet DEF StaysUp

\* shutdown in a callback
LEMMA ShutdownStep ==
  ASSUME LifeInv, NEW l \in Loops, shutdown_call(l)
  PROVE  LifeInv' /\ Quiet
<1> DEFINE c == cur[l].conn
           v == shutdown(conn[c])
<1>1. /\ at[l] = "callback" /\ conn[c].state = "kConnected"
      /\ conn' = [conn EXCEPT ![c] = v]
      /\ UNCHANGED <<serverVars, user_refs, socketVars, loopVars, fault>>
  BY DEF shutdown_call
<1>2. c \in Conns /\ Good(conn[c]) /\ Closable(conn[c])
  BY <1>1, CurrentConn DEF Handling, Closable
<1>3. StaysUp(v, conn[c])
  BY <1>2, ShutdownGood
<1>4. SocketType' /\ UNCHANGED peer
  BY <1>1, Parts, Zenon DEF SocketType, socketVars
<1> HIDE DEF c, v
<1> QED
  BY <1>1, <1>2, <1>3, <1>4, UpCall, UpQuiet DEF StaysUp

-----------------------------------------------------------------------------
(* The steps that touch neither the connections nor the loops *)

\* The environment, the start of the server, and the user's shared_ptrs
LEMMA OutsideTurns ==
  ASSUME LifeInv, UNCHANGED <<connections_, next_, conn, loopVars, fault>>,
         ServerType', SocketType', KernelInv'
  PROVE  LifeInv'
<1>1. UNCHANGED <<at, active, cur, pending, dump, retained>>
  BY DEF loopVars
<1>2. conn' \in [Conns -> Connection] /\ RecordInv' /\ \A d \in Conns : Kept(d)
  BY NoneChanges
<1>3. LoopType' /\ QueueType' /\ OnceInv' /\ \A k \in Loops : Queued(k)' = Queued(k)
  BY <1>1, Parts DEF LoopType, QueueType, OnceInv, Queued
<1>4. RegisterInv' /\ TaskInv' /\ fault' = "none"
  BY <1>2, <1>3, QuietLives, QuietTasks, Parts
<1>5. \A k \in Loops : ActiveOK(k)' /\ CurrentOK(k)'
  BY <1>1, <1>2, QuietLoop
<1> QED
  BY <1>2, <1>3, <1>4, <1>5, Rebuild, Zenon

\* The clients and the kernel
LEMMA EnvironmentStep ==
  ASSUME LifeInv, NEW c \in Conns, Environment(c)
  PROVE  LifeInv'
<1>1. ServerType /\ SocketType /\ KernelInv
  BY Parts
<1>2. UNCHANGED <<listening_, connections_, next_, conn, user_refs, loopVars, fault>>
  BY DEF Environment, Connect, PeerSends, PeerCloses, PeerResets, PeerReads, serverVars
<1>3. /\ peer \in [Conns -> {"none", "open", "fin", "reset"}]
      /\ chunks \in [Conns -> 0..MaxChunks]
      /\ room \in [Conns -> BOOLEAN]
  BY <1>1, Zenon DEF SocketType
<1>4. backlog' \subseteq Conns
  BY <1>1 DEF Environment, Connect, PeerSends, PeerCloses, PeerResets, PeerReads, serverVars,
       ServerType
<1>5. ServerType'
  BY <1>1, <1>2, <1>4, Zenon DEF ServerType
<1>6. SocketType'
  <2>1. peer' \in [Conns -> {"none", "open", "fin", "reset"}]
    BY <1>3 DEF Environment, Connect, PeerSends, PeerCloses, PeerResets, PeerReads
  <2>2. chunks' \in [Conns -> 0..MaxChunks]
    BY <1>3, MaxChunksAssumption DEF Environment, Connect, PeerSends, PeerCloses, PeerResets,
         PeerReads
  <2>3. CASE UNCHANGED room
    BY <2>1, <2>2, <2>3, <1>3, Zenon DEF SocketType
  <2>4. CASE room' = [room EXCEPT ![c] = TRUE]
    <3>1. room' \in [Conns -> BOOLEAN]
      BY <2>4, <1>3, Zenon
    <3> QED
      BY <2>1, <2>2, <3>1, Zenon DEF SocketType
  <2> QED
    BY <2>3, <2>4, Zenon DEF Environment, Connect, PeerSends, PeerCloses, PeerResets, PeerReads
<1>7. KernelInv'
  <2>1. CASE Connect(c)
    BY <2>1, <1>1, <1>3 DEF Connect, KernelInv
  <2>2. CASE PeerCloses(c) \/ PeerResets(c)
    BY <2>2, <1>1, <1>2, <1>3 DEF PeerCloses, PeerResets, KernelInv, serverVars
  <2>3. CASE PeerSends(c) \/ PeerReads(c)
    BY <2>3, <1>1, <1>2 DEF PeerSends, PeerReads, KernelInv, serverVars
  <2> QED
    BY <2>1, <2>2, <2>3 DEF Environment
<1> QED
  BY <1>2, <1>5, <1>6, <1>7, OutsideTurns

\* start, keep and release
LEMMA ReferenceStep ==
  ASSUME LifeInv, \/ start
                  \/ \E l \in Loops : keep(l)
                  \/ \E c \in Conns : release(c)
  PROVE  LifeInv'
<1>1. ServerType /\ SocketType /\ KernelInv
  BY Parts
<1>2. UNCHANGED <<backlog, connections_, next_, conn, socketVars, loopVars, fault>>
  BY DEF start, keep, release, serverVars
<1>3. SocketType'
  BY <1>1, <1>2, Zenon DEF SocketType, socketVars
<1>4. KernelInv'
  BY <1>2, QuietKernel DEF socketVars
<1>5. ServerType'
  <2>1. CASE start
    BY <2>1, <1>1, Zenon DEF start, listen, ServerType
  <2>2. ASSUME NEW l \in Loops, keep(l) PROVE ServerType'
    <3>1. cur[l].conn \in Conns
      BY <2>2, CurrentConn DEF keep, Handling
    <3>2. user_refs' \subseteq Conns
      BY <2>2, <3>1, <1>1 DEF keep, ServerType
    <3> QED
      BY <2>2, <3>2, <1>1, Zenon DEF keep, ServerType, serverVars
  <2>3. ASSUME NEW c \in Conns, release(c) PROVE ServerType'
    <3>1. user_refs' \subseteq Conns
      BY <2>3, <1>1 DEF release, ServerType
    <3> QED
      BY <2>3, <3>1, <1>1, Zenon DEF release, ServerType, serverVars
  <2> QED
    BY <2>1, <2>2, <2>3
<1> QED
  BY <1>2, <1>3, <1>4, <1>5, OutsideTurns

-----------------------------------------------------------------------------
(* The steps that take a connection to the next stage of its life *)

\* handle_close: the connection leaves its stage and the closure of remove_connection
\* is queued, for the first time, as a connection that is up is in no queue.
LEMMA CloseTurns ==
  ASSUME LifeInv, NEW l \in Loops, NEW c \in Conns,
         conn[c].loop = l, Closable(conn[c]), Close(c, Disconnecting(conn[c])),
         UNCHANGED <<serverVars, socketVars, active, dump, retained, fault>>,
         at' \in [Loops -> Places], cur' \in [Loops -> Current],
         \A k \in Loops \ {l} : at'[k] = at[k] /\ cur'[k] = cur[k],
         (\A d \in Conns : /\ conn'[d].loop = conn[d].loop
                           /\ Kept(d) \/ (d = c /\ Stage(conn'[d]) = "kDisconnected"))
            => ActiveOK(l)' /\ CurrentOK(l)'
  PROVE  LifeInv'
<1> DEFINE v == handle_close(Disconnecting(conn[c]))
           t == Task("remove", c)
<1>1. /\ ServerType /\ SocketType /\ LoopType /\ QueueType /\ OnceInv
      /\ RegisterInv /\ RecordInv /\ conn \in [Conns -> Connection]
  BY Parts
<1>2. Good(conn[c]) /\ Stage(conn[c]) = "up" /\ c \in connections_
  BY <1>1 DEF Good, RecordInv, RegisterInv, Stage
<1>3. /\ Good(v) /\ v.state = "kDisconnected" /\ v.loop = l
  BY <1>2, ClosedGood, Zenon
<1>4. conn' = [conn EXCEPT ![c] = v] /\ pending' = [pending EXCEPT ![Base] = Append(@, t)]
  BY DEF Close
<1>5. Base \in Loops /\ t \in TaskType /\ t.conn = c /\ t.kind = "remove"
  BY DEF Loops, Task, TaskType, Kinds
<1>6. \A k \in Loops : \A u \in Queued(k) : u.conn # c
  BY <1>2, NotQueued
<1> HIDE DEF v, t
<1>7. /\ conn' \in [Conns -> Connection] /\ RecordInv' /\ conn'[c] = v
      /\ \A d \in Conns \ {c} : conn'[d] = conn[d] /\ Kept(d)
  BY <1>3, <1>4, OneChanges
<1>8. Stage(conn'[c]) = "kDisconnected" /\ conn'[c].loop = l
  BY <1>3, <1>7 DEF Stage, Closable
<1>9. t \notin Queued(Base)
  BY <1>5, <1>6
<1>10. /\ pending' \in [Loops -> Seq(TaskType)]
       /\ Elems(pending'[Base]) = Elems(pending[Base]) \cup {t} /\ Distinct(pending'[Base])
       /\ \A k \in Loops \ {Base} : pending'[k] = pending[k]
  BY <1>4, <1>5, <1>9, AddTask
<1>11. QueueType' /\ LoopType'
  BY <1>1, <1>10 DEF QueueType, LoopType
<1>12. OnceInv'
  <2>1. ASSUME NEW k \in Loops
        PROVE  /\ Distinct(dump'[k]) /\ Distinct(pending'[k])
               /\ Elems(dump'[k]) \cap Elems(pending'[k]) = {}
    <3>1. CASE k = Base
      BY <3>1, <1>1, <1>5, <1>9, <1>10 DEF OnceInv, Queued
    <3>2. CASE k # Base
      BY <3>2, <1>1, <1>10 DEF OnceInv
    <3> QED
      BY <3>1, <3>2
  <2> QED
    BY <2>1 DEF OnceInv
<1>13. /\ Queued(Base)' = Queued(Base) \cup {t}
       /\ \A k \in Loops \ {Base} : Queued(k)' = Queued(k)
  BY <1>10 DEF Queued
<1>14. TaskInv'
  <2>1. SUFFICES ASSUME NEW k \in Loops, NEW u \in Queued(k)' PROVE TaskOK(k, u)'
    BY DEF TaskInv
  <2>2. CASE u \in Queued(k)
    <3>1. u.conn \in Conns /\ u.conn # c /\ TaskOK(k, u)
      BY <2>2, <1>6, QueuedTasks
    <3> QED
      BY <3>1, <1>7 DEF TaskOK, Kept, serverVars
  <2>3. CASE u \notin Queued(k)
    <3>1. k = Base /\ u = t
      BY <2>1, <2>3, <1>5, <1>13
    <3> QED
      BY <3>1, <1>2, <1>5, <1>8 DEF TaskOK, Strong, serverVars
  <2> QED
    BY <2>2, <2>3
<1>15. RegisterInv'
  BY <1>1, <1>2, <1>7 DEF RegisterInv, Kept, serverVars
<1>16. KernelInv'
  <2>1. \A d \in Conns : Stage(conn'[d]) = "none" <=> Stage(conn[d]) = "none"
    BY <1>2, <1>7, <1>8 DEF Kept
  <2> QED
    BY <2>1, QuietKernel DEF serverVars, socketVars
<1>17. ServerType' /\ SocketType' /\ fault' = "none"
  <2>1. user_refs' \subseteq Conns
    BY <1>1 DEF Close, ServerType
  <2> QED
    BY <2>1, Parts, Zenon DEF ServerType, SocketType, serverVars, socketVars
<1>18. ASSUME NEW k \in Loops PROVE ActiveOK(k)' /\ CurrentOK(k)'
  <2>1. CASE k = l
    BY <2>1, <1>7, <1>8 DEF Kept
  <2>2. CASE k # l
    BY <2>2, <1>7, QuietLoop
  <2> QED
    BY <2>1, <2>2
<1> QED
  BY <1>7, <1>11, <1>12, <1>14, <1>15, <1>16, <1>17, <1>18, Rebuild, Zenon

\* handle_read finds the end of the stream or an error.
LEMMA ReadEndStep ==
  ASSUME LifeInv, NEW l \in Loops, ReadEnd(l)
  PROVE  LifeInv'
<1> DEFINE c == cur[l].conn
<1>1. /\ at[l] = "read" /\ Continue(l)
      /\ UNCHANGED <<serverVars, socketVars, active, dump, retained, fault>>
  BY DEF ReadEnd
<1>2. c \in Conns /\ conn[c].loop = l /\ Closable(conn[c])
  BY <1>1, CurrentConn DEF Handling
<1>3. Close(c, Disconnecting(conn[c]))
  BY <1>2 DEF ReadEnd, handle_error
<1>4. /\ at' \in [Loops -> Places] /\ cur' \in [Loops -> Current]
      /\ \A k \in Loops \ {l} : at'[k] = at[k] /\ cur'[k] = cur[k]
  BY <1>1, ContinueType
<1>5. ASSUME \A d \in Conns : /\ conn'[d].loop = conn[d].loop
                              /\ Kept(d) \/ (d = c /\ Stage(conn'[d]) = "kDisconnected")
      PROVE  ActiveOK(l)' /\ CurrentOK(l)'
  BY <1>1, <1>5, ContinueLoop DEF Handling
<1> HIDE DEF c
<1> QED
  BY <1>1, <1>2, <1>3, <1>4, <1>5, CloseTurns

\* force_close in a callback
LEMMA ForceCloseStep ==
  ASSUME LifeInv, NEW l \in Loops, force_close(l)
  PROVE  LifeInv'
<1> DEFINE c == cur[l].conn
<1>1. /\ at[l] = "callback" /\ Closable(conn[c]) /\ Close(c, Disconnecting(conn[c]))
      /\ UNCHANGED <<serverVars, socketVars, at, active, cur, dump, retained, fault>>
  BY DEF force_close
<1>2. c \in Conns /\ conn[c].loop = l
  BY <1>1, CurrentConn DEF Handling
<1>3. LoopType /\ ActiveOK(l) /\ CurrentOK(l)
  BY Parts
<1>4. at' \in [Loops -> Places] /\ cur' \in [Loops -> Current]
  BY <1>1, <1>3 DEF LoopType
<1>5. ASSUME \A d \in Conns : /\ conn'[d].loop = conn[d].loop
                              /\ Kept(d) \/ (d = c /\ Stage(conn'[d]) = "kDisconnected")
      PROVE  ActiveOK(l)' /\ CurrentOK(l)'
  <2>1. \A a \in active[l] : a[1] \in Conns /\ a[1] # c
    BY <1>1, <1>3 DEF LoopType, CurrentOK, Handling
  <2>2. ActiveOK(l)'
    BY <1>1, <1>3, <1>5, <2>1 DEF ActiveOK, Kept
  <2>3. CurrentOK(l)'
    BY <1>1, <1>3, <1>5 DEF CurrentOK, Handling, Kept
  <2> QED
    BY <2>2, <2>3
<1> HIDE DEF c
<1> QED
  BY <1>1, <1>2, <1>4, <1>5, CloseTurns

\* A socket is accepted: its connection is constructed and its first closure queued.
LEMMA NewConnectionStep ==
  ASSUME LifeInv, NEW c \in Conns, new_connection(c)
  PROVE  LifeInv'
<1> DEFINE io == next_ + 1
           v == Constructed(io)
           t == Task("established", c)
<1>1. /\ ServerType /\ SocketType /\ LoopType /\ QueueType /\ OnceInv
      /\ RegisterInv /\ RecordInv /\ KernelInv /\ conn \in [Conns -> Connection]
  BY Parts
<1>2. /\ c \in backlog /\ backlog' = backlog \ {c}
      /\ next_' = (next_ + 1) % NumThreads
      /\ conn' = [conn EXCEPT ![c] = v]
      /\ pending' = [pending EXCEPT ![io] = Append(@, t)]
      /\ connections_' = connections_ \cup {c}
      /\ UNCHANGED <<listening_, user_refs, socketVars, at, active, cur, dump, retained, fault>>
  BY DEF new_connection, on_incoming_connection, next_loop
<1>3. NumThreads \in Nat \ {0} /\ next_ \in 0..(NumThreads - 1)
  BY <1>1, NumThreadsAssumption DEF ServerType
<1>4. io \in IoLoops /\ io \in Loops
  BY <1>3 DEF IoLoops, Loops
<1>5. next_' \in 0..(NumThreads - 1)
  BY <1>2, <1>3
<1>6. Stage(conn[c]) = "none" /\ peer[c] # "none"
  BY <1>1, <1>2 DEF KernelInv
<1>7. Good(v) /\ v.state = "kConnecting" /\ v.loop = io
  BY <1>4, ConstructedGood, Zenon
<1>8. t \in TaskType /\ t.conn = c /\ t.kind = "established"
  BY DEF Task, TaskType, Kinds
<1>9. \A k \in Loops : \A u \in Queued(k) : u.conn # c
  BY <1>6, NotQueued
<1> HIDE DEF io, v, t
<1>10. /\ conn' \in [Conns -> Connection] /\ RecordInv' /\ conn'[c] = v
       /\ \A d \in Conns \ {c} : conn'[d] = conn[d] /\ Kept(d)
  BY <1>2, <1>7, OneChanges
<1>11. Stage(conn'[c]) = "kConnecting" /\ conn'[c].loop = io
  BY <1>7, <1>10 DEF Stage, Closable
<1>12. t \notin Queued(io)
  BY <1>4, <1>8, <1>9
<1>13. /\ pending' \in [Loops -> Seq(TaskType)]
       /\ Elems(pending'[io]) = Elems(pending[io]) \cup {t} /\ Distinct(pending'[io])
       /\ \A k \in Loops \ {io} : pending'[k] = pending[k]
  BY <1>2, <1>4, <1>8, <1>12, AddTask
<1>14. QueueType' /\ LoopType'
  BY <1>1, <1>2, <1>13 DEF QueueType, LoopType
<1>15. OnceInv'
  <2>1. ASSUME NEW k \in Loops
        PROVE  /\ Distinct(dump'[k]) /\ Distinct(pending'[k])
               /\ Elems(dump'[k]) \cap Elems(pending'[k]) = {}
    <3>1. CASE k = io
      BY <3>1, <1>1, <1>2, <1>4, <1>12, <1>13 DEF OnceInv, Queued
    <3>2. CASE k # io
      BY <3>2, <1>1, <1>2, <1>13 DEF OnceInv
    <3> QED
      BY <3>1, <3>2
  <2> QED
    BY <2>1 DEF OnceInv
<1>16. /\ \A k \in Loops : k = io => Queued(k)' = Queued(k) \cup {t}
       /\ \A k \in Loops : k # io => Queued(k)' = Queued(k)
  BY <1>2, <1>13 DEF Queued
<1>17. TaskInv'
  <2>1. SUFFICES ASSUME NEW k \in Loops, NEW u \in Queued(k)' PROVE TaskOK(k, u)'
    BY DEF TaskInv
  <2>2. CASE u \in Queued(k)
    <3>1. u.conn \in Conns /\ u.conn # c /\ TaskOK(k, u)
      BY <2>2, <1>9, QueuedTasks
    <3> QED
      BY <3>1, <1>2, <1>10 DEF TaskOK, Kept
  <2>3. CASE u \notin Queued(k)
    <3>1. k = io /\ u = t
      BY <2>1, <2>3, <1>16
    <3> QED
      BY <3>1, <1>8, <1>11 DEF TaskOK, Strong
  <2> QED
    BY <2>2, <2>3
<1>18. RegisterInv'
  BY <1>1, <1>2, <1>10 DEF RegisterInv, Kept
<1>19. KernelInv'
  BY <1>1, <1>2, <1>6, <1>10 DEF KernelInv, Kept, socketVars
<1>20. SocketType' /\ fault' = "none"
  BY <1>2, Parts, Zenon DEF SocketType, socketVars
<1>21. backlog' \subseteq Conns /\ connections_' \subseteq Conns
  BY <1>1, <1>2 DEF ServerType
<1>22. ServerType'
  BY <1>1, <1>2, <1>5, <1>21, Zenon DEF ServerType
<1>23. ASSUME NEW k \in Loops PROVE ActiveOK(k)' /\ CurrentOK(k)'
  BY <1>2, <1>6, <1>10, QuietLoop
<1> QED
  BY <1>10, <1>14, <1>15, <1>17, <1>18, <1>19, <1>20, <1>22, <1>23, Rebuild, Zenon

\* What a closure that is taken from the batch finds
LEMMA TakenTask ==
  ASSUME LifeInv, NEW l \in Loops, NEW kind, NEW c, NextTask(l, kind, c)
  PROVE  c \in Conns /\ TaskOK(l, Task(kind, c)) /\ at[l] = "tasks" /\ kind \in Strong
<1>1. Task(kind, c) \in Queued(l) /\ at[l] = "tasks"
  BY TakeTask DEF Queued, NextTask
<1>2. Task(kind, c).conn = c /\ Task(kind, c).kind = kind
  BY DEF Task
<1> QED
  BY <1>1, <1>2, QueuedTasks DEF TaskOK

\* The closures a batch keeps alive
LEMMA RetainedType ==
  ASSUME LifeInv, NEW l \in Loops, NEW kind, NEW c, NextTask(l, kind, c)
  PROVE  retained' \in [Loops -> SUBSET Conns]
<1>1. c \in Conns
  BY TakenTask
<1>2. LoopType
  BY Parts
<1> QED
  BY <1>1, <1>2 DEF LoopType, NextTask

\* established() runs, on a connection that is kConnecting as its only closure finds it.
LEMMA EstablishedStep ==
  ASSUME LifeInv, NEW l \in Loops, NEW c \in Conns, established_task(l, c)
  PROVE  LifeInv'
<1> DEFINE v == established(conn[c])
           t == Task("established", c)
<1>1. /\ ServerType /\ SocketType /\ LoopType /\ QueueType /\ OnceInv /\ ActiveOK(l)
      /\ RegisterInv /\ RecordInv /\ conn \in [Conns -> Connection] /\ fault = "none"
  BY Parts
<1>2. /\ NextTask(l, "established", c)
      /\ conn' = [conn EXCEPT ![c] = v]
      /\ cur' = [cur EXCEPT ![l] = [conn |-> c, then |-> "tasks"]]
      /\ at' = [at EXCEPT ![l] = "callback"]
      /\ fault' = IF conn[c].state = "kConnecting" THEN fault ELSE "state_ == kConnecting"
      /\ UNCHANGED <<serverVars, user_refs, socketVars, active, pending>>
  BY DEF established_task
<1>3. t.conn = c /\ t.kind = "established" /\ TaskOK(l, t) /\ at[l] = "tasks"
  BY <1>2, TakenTask DEF Task
<1>4. conn[c].loop = l /\ Stage(conn[c]) = "kConnecting"
  BY <1>3 DEF TaskOK
<1>5. conn[c].state = "kConnecting" /\ ~Closable(conn[c])
  BY <1>4 DEF Stage
<1>6. Good(conn[c])
  BY <1>1 DEF Good, RecordInv
<1>7. Good(v) /\ Closable(v) /\ v.loop = l
  BY <1>4, <1>5, <1>6, EstablishedGood, Zenon
<1>8. /\ dump' \in [Loops -> Seq(TaskType)]
      /\ Elems(dump'[l]) = Elems(dump[l]) \ {t} /\ Distinct(dump'[l])
      /\ t \in Elems(dump[l])
      /\ \A k \in Loops \ {l} : dump'[k] = dump[k]
  BY <1>2, TakeTask
<1>9. retained' \in [Loops -> SUBSET Conns]
  BY <1>2, RetainedType
<1> HIDE DEF v, t
<1>10. /\ conn' \in [Conns -> Connection] /\ RecordInv' /\ conn'[c] = v
       /\ \A d \in Conns \ {c} : conn'[d] = conn[d] /\ Kept(d)
  BY <1>2, <1>7, OneChanges
<1>11. Stage(conn'[c]) = "up" /\ conn'[c].loop = l
  BY <1>7, <1>10 DEF Stage
<1>12. LoopType' /\ QueueType' /\ cur'[l].conn = c /\ cur'[l].then = "tasks" /\ at'[l] = "callback"
  <2>1. [conn |-> c, then |-> "tasks"] \in Current /\ "callback" \in Places
    BY DEF Current, Places
  <2> QED
    BY <1>1, <1>2, <1>8, <1>9, <2>1 DEF LoopType, QueueType
<1>13. /\ Queued(l)' = Queued(l) \ {t}
       /\ \A k \in Loops \ {l} : Queued(k)' = Queued(k)
  <2>1. t \notin Elems(pending[l])
    BY <1>1, <1>8 DEF OnceInv
  <2> QED
    BY <1>2, <1>8, <2>1 DEF Queued
<1>14. OnceInv'
  <2>1. ASSUME NEW k \in Loops
        PROVE  /\ Distinct(dump'[k]) /\ Distinct(pending'[k])
               /\ Elems(dump'[k]) \cap Elems(pending'[k]) = {}
    <3>1. CASE k = l
      BY <3>1, <1>1, <1>2, <1>8 DEF OnceInv
    <3>2. CASE k # l
      BY <3>2, <1>1, <1>2, <1>8 DEF OnceInv
    <3> QED
      BY <3>1, <3>2
  <2> QED
    BY <2>1 DEF OnceInv
<1>15. TaskInv'
  <2>1. SUFFICES ASSUME NEW k \in Loops, NEW u \in Queued(k)' PROVE TaskOK(k, u)'
    BY DEF TaskInv
  <2>2. u \in Queued(k) /\ (k = l => u # t)
    BY <2>1, <1>13
  <2>3. u \in TaskType /\ u.conn \in Conns /\ TaskOK(k, u)
    BY <2>2, QueuedTasks
  <2>4. u.conn # c
    <3>1. SUFFICES ASSUME u.conn = c PROVE FALSE
      OBVIOUS
    <3>2. u.kind = "established" /\ k = l
      BY <3>1, <2>3, <1>4 DEF TaskOK, Strong
    <3>3. u = t
      BY <3>1, <3>2, <2>3, SameTask DEF t
    <3> QED
      BY <2>2, <3>2, <3>3
  <2> QED
    BY <2>3, <2>4, <1>2, <1>10 DEF TaskOK, Kept, serverVars
<1>16. RegisterInv'
  BY <1>1, <1>2, <1>4, <1>10 DEF RegisterInv, Kept, serverVars
<1>17. KernelInv'
  <2>1. \A d \in Conns : Stage(conn'[d]) = "none" <=> Stage(conn[d]) = "none"
    BY <1>4, <1>10, <1>11 DEF Kept
  <2> QED
    BY <1>2, <2>1, QuietKernel DEF serverVars, socketVars
<1>18. ServerType' /\ SocketType'
  BY <1>2, Parts, Zenon DEF ServerType, SocketType, serverVars, socketVars
<1>19. fault' = "none"
  BY <1>1, <1>2, <1>5
<1>20. ASSUME NEW k \in Loops PROVE ActiveOK(k)' /\ CurrentOK(k)'
  <2>1. CASE k = l
    <3>1. active'[l] = {}
      BY <1>1, <1>2, <1>3 DEF ActiveOK
    <3>2. ActiveOK(l)'
      BY <3>1 DEF ActiveOK
    <3>3. CurrentOK(l)'
      BY <3>1, <1>11, <1>12 DEF CurrentOK, Handling
    <3> QED
      BY <2>1, <3>2, <3>3
  <2>2. CASE k # l
    <3>1. at'[k] = at[k] /\ cur'[k] = cur[k]
      BY <2>2, <1>1, <1>2 DEF LoopType
    <3> QED
      BY <2>2, <3>1, <1>2, <1>4, <1>8, <1>10, QuietLoop
  <2> QED
    BY <2>1, <2>2
<1> QED
  BY <1>10, <1>12, <1>14, <1>15, <1>16, <1>17, <1>18, <1>19, <1>20, Rebuild, Zenon

\* remove_connection, in the base loop: the connection is in connections_, and the
\* closure of destroyed() is queued for the first time on another loop.
LEMMA RemoveStep ==
  ASSUME LifeInv, NEW c \in Conns, remove_connection(c)
  PROVE  LifeInv'
<1> DEFINE io == conn[c].loop
           r == Task("remove", c)
           t == Task("destroyed", c)
<1>1. /\ ServerType /\ SocketType /\ LoopType /\ QueueType /\ OnceInv
      /\ ActiveOK(Base) /\ CurrentOK(Base)
      /\ RegisterInv /\ RecordInv /\ conn \in [Conns -> Connection] /\ fault = "none"
  BY Parts DEF Loops
<1>2. /\ NextTask(Base, "remove", c)
      /\ connections_' = connections_ \ {c}
      /\ fault' = IF c \in connections_ THEN fault ELSE "num_erased == 1"
      /\ pending' = [pending EXCEPT ![io] = Append(@, t)]
      /\ UNCHANGED <<listening_, backlog, next_, conn, user_refs, socketVars, at, active, cur>>
  BY DEF remove_connection
<1>3. Base \in Loops
  BY DEF Loops
<1>4. r.conn = c /\ r.kind = "remove" /\ TaskOK(Base, r) /\ at[Base] = "tasks"
  BY <1>2, <1>3, TakenTask DEF Task
<1>5. Stage(conn[c]) = "kDisconnected" /\ c \in connections_
  BY <1>4 DEF TaskOK
<1>6. io \in IoLoops /\ io \in Loops /\ io # Base
  <2>1. conn[c].state # "none"
    BY <1>5 DEF Stage
  <2>2. io \in IoLoops
    BY <2>1, <1>1 DEF RecordInv, RecordOK
  <2> QED
    BY <2>2, NumThreadsAssumption DEF IoLoops, Loops, Base
<1>7. t \in TaskType /\ t.conn = c /\ t.kind = "destroyed"
  BY DEF Task, TaskType, Kinds
<1>8. \A k \in Loops : \A u \in Queued(k) : u.conn = c => k = Base /\ u = r
  <2>1. SUFFICES ASSUME NEW k \in Loops, NEW u \in Queued(k), u.conn = c PROVE k = Base /\ u = r
    OBVIOUS
  <2>2. u \in TaskType /\ TaskOK(k, u)
    BY QueuedTasks
  <2>3. u.kind = "remove" /\ k = Base
    BY <2>1, <2>2, <1>5 DEF TaskOK, Strong
  <2> QED
    BY <2>1, <2>2, <2>3, SameTask
<1>9. /\ dump' \in [Loops -> Seq(TaskType)]
      /\ Elems(dump'[Base]) = Elems(dump[Base]) \ {r} /\ Distinct(dump'[Base])
      /\ r \in Elems(dump[Base])
      /\ \A k \in Loops \ {Base} : dump'[k] = dump[k]
  BY <1>2, <1>3, TakeTask
<1>10. retained' \in [Loops -> SUBSET Conns]
  BY <1>2, <1>3, RetainedType
<1>11. conn' \in [Conns -> Connection] /\ RecordInv' /\ \A d \in Conns : Kept(d)
  BY <1>2, NoneChanges
<1> HIDE DEF io, r, t
<1>12. t \notin Queued(io)
  BY <1>6, <1>7, <1>8
<1>13. /\ pending' \in [Loops -> Seq(TaskType)]
       /\ Elems(pending'[io]) = Elems(pending[io]) \cup {t} /\ Distinct(pending'[io])
       /\ \A k \in Loops \ {io} : pending'[k] = pending[k]
  BY <1>2, <1>6, <1>7, <1>12, AddTask
<1>14. QueueType' /\ LoopType'
  BY <1>1, <1>2, <1>9, <1>10, <1>13 DEF QueueType, LoopType
<1>15. OnceInv'
  <2>1. ASSUME NEW k \in Loops
        PROVE  /\ Distinct(dump'[k]) /\ Distinct(pending'[k])
               /\ Elems(dump'[k]) \cap Elems(pending'[k]) = {}
    <3>1. CASE k = io
      BY <3>1, <1>1, <1>6, <1>9, <1>12, <1>13 DEF OnceInv, Queued
    <3>2. CASE k = Base
      BY <3>2, <1>1, <1>6, <1>9, <1>13 DEF OnceInv
    <3>3. CASE k # io /\ k # Base
      BY <3>3, <1>1, <1>9, <1>13 DEF OnceInv
    <3> QED
      BY <3>1, <3>2, <3>3
  <2> QED
    BY <2>1 DEF OnceInv
<1>16. /\ \A k \in Loops : k = io => Queued(k)' = Queued(k) \cup {t}
       /\ \A k \in Loops : k = Base => Queued(k)' = Queued(k) \ {r}
       /\ \A k \in Loops : k # io /\ k # Base => Queued(k)' = Queued(k)
  <2>1. r \notin Elems(pending[Base])
    BY <1>1, <1>3, <1>9 DEF OnceInv
  <2> QED
    BY <1>6, <1>9, <1>13, <2>1 DEF Queued
<1>17. TaskInv'
  <2>1. SUFFICES ASSUME NEW k \in Loops, NEW u \in Queued(k)' PROVE TaskOK(k, u)'
    BY DEF TaskInv
  <2>2. CASE u \in Queued(k)
    <3>1. u.conn \in Conns /\ TaskOK(k, u)
      BY <2>2, QueuedTasks
    <3>2. u.conn # c
      BY <2>1, <2>2, <1>8, <1>16
    <3> QED
      BY <3>1, <3>2, <1>2 DEF TaskOK
  <2>3. CASE u \notin Queued(k)
    <3>1. k = io /\ u = t
      BY <2>1, <2>3, <1>16
    <3> QED
      BY <3>1, <1>2, <1>5, <1>7 DEF TaskOK, Strong, io
  <2> QED
    BY <2>2, <2>3
<1>18. RegisterInv'
  BY <1>1, <1>2, <1>5 DEF RegisterInv
<1>19. KernelInv'
  BY <1>2, QuietKernel DEF socketVars
<1>20. SocketType' /\ fault' = "none"
  BY <1>1, <1>2, <1>5, Zenon DEF SocketType, socketVars
<1>21. connections_' \subseteq Conns
  BY <1>1, <1>2 DEF ServerType
<1>22. ServerType'
  BY <1>1, <1>2, <1>21, Zenon DEF ServerType
<1>23. ASSUME NEW k \in Loops PROVE ActiveOK(k)' /\ CurrentOK(k)'
  <2>1. CASE k = Base
    <3>1. ActiveOK(Base)'
      BY <1>1, <1>2 DEF ActiveOK
    <3>2. CurrentOK(Base)'
      BY <1>2, <1>4 DEF CurrentOK, Handling
    <3> QED
      BY <2>1, <3>1, <3>2
  <2>2. CASE k # Base
    BY <2>2, <1>2, <1>9, <1>11, QuietLoop
  <2> QED
    BY <2>1, <2>2
<1> QED
  BY <1>11, <1>14, <1>15, <1>17, <1>18, <1>19, <1>20, <1>22, <1>23, Rebuild, Zenon

\* destroyed(), on a connection its closure keeps alive and which has ended
LEMMA DestroyedStep ==
  ASSUME LifeInv, NEW l \in Loops, NEW c \in Conns, destroyed_task(l, c)
  PROVE  LifeInv' /\ UNCHANGED conn
<1> DEFINE t == Task("destroyed", c)
<1>1. /\ LoopType /\ QueueType /\ OnceInv /\ ActiveOK(l) /\ CurrentOK(l)
      /\ conn \in [Conns -> Connection] /\ fault = "none"
  BY Parts
<1>2. /\ NextTask(l, "destroyed", c)
      /\ fault' = IF Destroyed(c) THEN "dangling" ELSE fault
      /\ conn' = [conn EXCEPT ![c] = destroyed(@)]
      /\ UNCHANGED <<serverVars, user_refs, socketVars, at, active, cur, pending>>
  BY DEF destroyed_task
<1>3. t.conn = c /\ t.kind = "destroyed" /\ TaskOK(l, t) /\ at[l] = "tasks"
  BY <1>2, TakenTask DEF Task
<1>4. conn[c].state = "kDisconnected"
  BY <1>3 DEF TaskOK, Stage
<1>5. UNCHANGED conn
  BY <1>1, <1>2, <1>4, DestroyedIdle
<1>6. /\ dump' \in [Loops -> Seq(TaskType)]
      /\ Elems(dump'[l]) = Elems(dump[l]) \ {t} /\ Distinct(dump'[l])
      /\ t \in Elems(dump[l])
      /\ \A k \in Loops \ {l} : dump'[k] = dump[k]
  BY <1>2, TakeTask
<1>7. fault' = "none"
  <2>1. t \in Queued(l)
    BY <1>6 DEF Queued
  <2> QED
    BY <1>1, <1>2, <1>3, <2>1, Alive
<1>8. retained' \in [Loops -> SUBSET Conns]
  BY <1>2, RetainedType
<1> HIDE DEF t
<1>9. LoopType' /\ QueueType'
  BY <1>1, <1>2, <1>6, <1>8 DEF LoopType, QueueType
<1>10. \A k \in Loops : Elems(dump'[k]) \subseteq Elems(dump[k]) /\ Distinct(dump'[k])
  <2>1. ASSUME NEW k \in Loops PROVE Elems(dump'[k]) \subseteq Elems(dump[k]) /\ Distinct(dump'[k])
    <3>1. CASE k = l
      BY <3>1, <1>6
    <3>2. CASE k # l
      BY <3>2, <1>1, <1>6 DEF OnceInv
    <3> QED
      BY <3>1, <3>2
  <2> QED
    BY <2>1
<1>11. OnceInv' /\ \A k \in Loops : Queued(k)' \subseteq Queued(k)
  BY <1>1, <1>2, <1>10 DEF OnceInv, Queued
<1>12. ActiveOK(l)'
  BY <1>1, <1>2, <1>5 DEF ActiveOK
<1>13. CurrentOK(l)'
  BY <1>2, <1>3 DEF CurrentOK, Handling
<1> QED
  BY <1>2, <1>5, <1>6, <1>7, <1>9, <1>11, <1>12, <1>13, LoopTurns

-----------------------------------------------------------------------------
(* The invariant *)

\* Before the first accept there are no connections and no closures.
LEMMA LifeInit == Init => LifeInv
<1> SUFFICES ASSUME Init PROVE LifeInv
  OBVIOUS
<1>1. /\ listening_ = FALSE /\ backlog = {} /\ connections_ = {} /\ next_ = 0
      /\ conn = [c \in Conns |-> NoConnection] /\ user_refs = {}
      /\ peer = [c \in Conns |-> "none"] /\ chunks = [c \in Conns |-> 0]
      /\ room = [c \in Conns |-> TRUE]
      /\ at = [l \in Loops |-> "wait"] /\ active = [l \in Loops |-> {}]
      /\ cur = [l \in Loops |-> Nothing] /\ pending = [l \in Loops |-> <<>>]
      /\ dump = [l \in Loops |-> <<>>] /\ retained = [l \in Loops |-> {}]
      /\ fault = "none"
  BY Zenon DEF Init
<1>2. ServerType
  <2>1. 0 \in 0..(NumThreads - 1)
    BY NumThreadsAssumption
  <2>2. listening_ \in BOOLEAN
    BY <1>1, Zenon
  <2>3. {} \subseteq Conns
    OBVIOUS
  <2> QED
    BY <1>1, <2>1, <2>2, <2>3, Zenon DEF ServerType
<1>3. SocketType
  <2>1. chunks \in [Conns -> 0..MaxChunks]
    BY <1>1, MaxChunksAssumption
  <2>2. peer \in [Conns -> {"none", "open", "fin", "reset"}]
    BY <1>1
  <2>3. room \in [Conns -> BOOLEAN]
    BY <1>1, Zenon
  <2> QED
    BY <2>1, <2>2, <2>3, Zenon DEF SocketType
<1>4. LoopType
  <2>1. Nothing \in Current /\ "wait" \in Places
    BY DEF Nothing, Current, Places
  <2> QED
    BY <1>1, <2>1 DEF LoopType
<1>5. QueueType
  <2>1. <<>> \in Seq(TaskType)
    OBVIOUS
  <2> QED
    BY <1>1, <2>1 DEF QueueType
<1>6. conn \in [Conns -> Connection] /\ RecordInv
  BY <1>1, ConstructedGood DEF Good, RecordInv
<1>7. \A c \in Conns : Stage(conn[c]) = "none"
  BY <1>1 DEF Stage, Closable, NoConnection
<1>8. RegisterInv /\ KernelInv
  BY <1>1, <1>7 DEF RegisterInv, KernelInv
<1>9. OnceInv
  BY <1>1, NoneQueued DEF OnceInv
<1>10. TaskInv
  BY <1>1, NoneQueued DEF TaskInv, Queued
<1>11. \A l \in Loops : ActiveOK(l) /\ CurrentOK(l)
  BY <1>1 DEF ActiveOK, CurrentOK, Handling
<1> QED
  BY <1>1, <1>2, <1>3, <1>4, <1>5, <1>6, <1>8, <1>9, <1>10, <1>11, Types, Zenon DEF LifeInv

\* Every step of the server, the loops, the user and the peers keeps it.
LEMMA LifeStep == LifeInv /\ [Next]_vars => LifeInv'
<1>1. ASSUME LifeInv, UNCHANGED vars PROVE LifeInv'
  <2>1. /\ UNCHANGED <<serverVars, connections_, next_, conn, user_refs, socketVars, loopVars, fault>>
    BY <1>1 DEF vars, serverVars
  <2>2. KernelInv'
    BY <1>1, <2>1, QuietKernel DEF serverVars, socketVars
  <2>3. ServerType' /\ SocketType'
    BY <1>1, <2>1, Parts, Zenon DEF ServerType, SocketType, serverVars, socketVars
  <2> QED
    BY <1>1, <2>1, <2>2, <2>3, OutsideTurns
<1>2. ASSUME LifeInv, NEW l \in Loops, LoopStep(l) PROVE LifeInv'
  BY <1>2, EpollWaitStep, HandleEventsStep, SwapTasksStep, TasksDoneStep, ReadMessageStep,
     ReadEndStep, CallbackReturnsStep, HandleWriteStep, EstablishedStep, DestroyedStep
     DEF LoopStep
<1>3. ASSUME LifeInv, NEW l \in Loops, UserCall(l) PROVE LifeInv'
  BY <1>3, SendStep, ShutdownStep, ForceCloseStep, ReferenceStep DEF UserCall
<1>4. ASSUME LifeInv, BaseStep PROVE LifeInv'
  BY <1>4, AcceptStopsStep, NewConnectionStep, RemoveStep DEF BaseStep
<1> QED
  BY <1>1, <1>2, <1>3, <1>4, EnvironmentStep, ReferenceStep DEF Next

-----------------------------------------------------------------------------
(* Safety *)

\* So it holds throughout.
LEMMA LifeAlways == Spec => []LifeInv
  BY LifeInit, LifeStep, PTL DEF Spec

\* Every variable keeps to its type; in particular next_ names an io loop.
THEOREM TypeCorrect == Spec => []TypeOK
<1>1. LifeInv => TypeOK
  BY DEF LifeInv
<1> QED
  BY <1>1, LifeAlways, PTL

\* handle_close runs at most once for a connection, whichever of the peer, an error and
\* the user's force_close comes first.
THEOREM CloseOnceHolds == Spec => []CloseOnce
<1>1. LifeInv => CloseOnce
  <2>1. SUFFICES ASSUME LifeInv, NEW c \in Conns PROVE conn[c].closed <= 1
    BY DEF CloseOnce
  <2>2. RecordOK(conn[c]) /\ conn[c] \in Connection
    BY <2>1 DEF LifeInv, RecordInv, TypeOK
  <2>3. conn[c].state \in States \cup {"none"}
    BY <2>2 DEF Connection
  <2>4. conn[c].closed = 0 \/ conn[c].closed = 1
    BY <2>2, <2>3 DEF RecordOK, States, Closable
  <2> QED
    BY <2>4
<1> QED
  BY <1>1, LifeAlways, PTL

\* Until the close, EPOLLOUT is enabled exactly while output_buffer_ is not empty.
THEOREM PendingMeansWritingHolds == Spec => []PendingMeansWriting
<1>1. LifeInv => PendingMeansWriting
  BY DEF LifeInv, RecordInv, RecordOK, PendingMeansWriting
<1> QED
  BY <1>1, LifeAlways, PTL

\* established() always finds kConnecting and remove_connection always finds its
\* connection in connections_.
THEOREM NoAssertFailsHolds == Spec => []NoAssertFails
<1>1. LifeInv => NoAssertFails
  BY DEF LifeInv, NoAssertFails
<1> QED
  BY <1>1, LifeAlways, PTL

\* No channel of a batch and no closure of a queue is run for a destroyed connection.
THEOREM NoUseAfterFreeHolds == Spec => []NoUseAfterFree
<1>1. LifeInv => NoUseAfterFree
  BY DEF LifeInv, NoUseAfterFree
<1> QED
  BY <1>1, LifeAlways, PTL

\* Whoever drops the last shared_ptr destroys a connection that is out of the interest
\* list, and whose user was told of its end.
THEOREM DestroyedCleanHolds == Spec => []DestroyedClean
<1>1. LifeInv => DestroyedClean
  <2>1. SUFFICES ASSUME LifeInv, NEW c \in Conns, Destroyed(c)
                 PROVE  /\ conn[c].events = {} /\ conn[c].state = "kDisconnected"
                        /\ conn[c].notices[Len(conn[c].notices)] = "down"
    BY DEF DestroyedClean
  <2>2. RecordOK(conn[c]) /\ conn[c].state \in States \cup {"none"}
    BY <2>1 DEF LifeInv, RecordInv, TypeOK, Connection
  <2>3. Stage(conn[c]) \notin {"kConnecting", "up"}
    BY <2>1, Alive
  <2>4. conn[c].state = "kDisconnected"
    BY <2>1, <2>2, <2>3 DEF Destroyed, Created, Stage, States, Closable
  <2>5. /\ conn[c].events = {}
        /\ conn[c].notices \in {<<"up", "down">>, <<"up", "message", "down">>}
    BY <2>2, <2>4 DEF RecordOK, Closable
  <2>6. ASSUME NEW s, s = <<"up", "down">> \/ s = <<"up", "message", "down">>
        PROVE  s[Len(s)] = "down"
    <3>1. CASE s = <<"up", "down">>
      BY <3>1
    <3>2. CASE s = <<"up", "message", "down">>
      BY <3>2
    <3> QED
      BY <2>6, <3>1, <3>2
  <2> QED
    BY <2>4, <2>5, <2>6
<1> QED
  BY <1>1, LifeAlways, PTL

-----------------------------------------------------------------------------
(* ConnectionLife *)

\* The references to a connection, with the queues as sets
Referred(c) ==
  \/ c \in connections_ \/ c \in user_refs
  \/ \E l \in Loops : \/ c \in retained[l]
                      \/ \E t \in Queued(l) : t.conn = c
                      \/ at[l] = "callback" /\ cur[l].conn = c

\* The life of a connection, read off its stage and the references to it
LifeView ==
  \A c \in Conns :
    LET s == Stage(conn[c])
    IN /\ s \in {"none", "kConnecting", "up", "kDisconnected"}
       /\ s = "none" => Life(c) = "absent" /\ conn[c].notices = <<>>
       /\ s = "kConnecting" => Life(c) = "accepted" /\ conn[c].notices = <<>>
       /\ s = "up" => Life(c) = "up" /\ conn[c].notices \in {<<"up">>, <<"up", "message">>}
       /\ s = "kDisconnected" /\ Referred(c) => Life(c) = "over"
       /\ s = "kDisconnected" /\ ~Referred(c) => Life(c) = "gone"

\* A closure in a queue is a reference.
LEMMA HeldIsReferred ==
  ASSUME LifeInv, NEW c \in Conns
  PROVE  Held(c) <=> Referred(c)
<1>1. ASSUME NEW l \in Loops
      PROVE  /\ (\E i \in 1..Len(pending[l]) : pending[l][i].conn = c /\ pending[l][i].kind \in Strong)
                => \E t \in Queued(l) : t.conn = c
             /\ (\E i \in 1..Len(dump[l]) : dump[l][i].conn = c /\ dump[l][i].kind \in Strong)
                => \E t \in Queued(l) : t.conn = c
  BY DEF Queued, Elems
<1>2. ASSUME NEW l \in Loops, NEW t \in Queued(l), t.conn = c
      PROVE  \/ \E i \in 1..Len(pending[l]) : pending[l][i].conn = c /\ pending[l][i].kind \in Strong
             \/ \E i \in 1..Len(dump[l]) : dump[l][i].conn = c /\ dump[l][i].kind \in Strong
  <2>1. t.kind \in Strong
    BY <1>2, QueuedTasks DEF TaskOK
  <2> QED
    BY <1>2, <2>1 DEF Queued, Elems
<1> QED
  BY <1>1, <1>2, Zenon DEF Held, Referred, InSeq

\* LifeInv fixes the life of a connection ...
LEMMA ViewHolds == LifeInv => LifeView
<1>1. SUFFICES ASSUME LifeInv, NEW c \in Conns
               PROVE  LET s == Stage(conn[c])
                      IN /\ s \in {"none", "kConnecting", "up", "kDisconnected"}
                         /\ s = "none" => Life(c) = "absent" /\ conn[c].notices = <<>>
                         /\ s = "kConnecting" => Life(c) = "accepted" /\ conn[c].notices = <<>>
                         /\ s = "up" => /\ Life(c) = "up"
                                        /\ conn[c].notices \in {<<"up">>, <<"up", "message">>}
                         /\ s = "kDisconnected" /\ Referred(c) => Life(c) = "over"
                         /\ s = "kDisconnected" /\ ~Referred(c) => Life(c) = "gone"
  BY DEF LifeView
<1>2. RecordOK(conn[c]) /\ conn[c].state \in States \cup {"none"}
  BY <1>1 DEF LifeInv, RecordInv, TypeOK, Connection
<1>3. Stage(conn[c]) \in {"kConnecting", "up"} => ~Destroyed(c)
  BY <1>1, Alive
<1>4. CASE conn[c].state = "none"
  <2>1. Stage(conn[c]) = "none" /\ ~Created(c)
    BY <1>4 DEF Stage, Closable, Created
  <2>2. conn[c].notices = <<>>
    BY <1>2, <1>4 DEF RecordOK
  <2>3. Life(c) = "absent"
    BY <2>1 DEF Life, Destroyed
  <2> QED
    BY <2>1, <2>2, <2>3
<1>5. CASE conn[c].state = "kConnecting"
  BY <1>5, <1>2, <1>3 DEF Stage, Closable, Life, Created, RecordOK
<1>6. CASE Closable(conn[c])
  BY <1>6, <1>2, <1>3 DEF Stage, Closable, Life, Created, RecordOK
<1>7. CASE conn[c].state = "kDisconnected"
  <2>1. Stage(conn[c]) = "kDisconnected" /\ Created(c) /\ ~Closable(conn[c])
    BY <1>7 DEF Stage, Closable, Created
  <2>2. Destroyed(c) <=> ~Referred(c)
    BY <1>1, <2>1, HeldIsReferred DEF Destroyed
  <2> QED
    BY <1>7, <2>1, <2>2 DEF Life
<1> QED
  BY <1>2, <1>4, <1>5, <1>6, <1>7 DEF States, Closable

\* ... in the next state as well.
LEMMA ViewNext == LifeInv' => LifeView'
  BY ViewHolds, PTL

\* Steps of ConnectionLife, or none
LifeMoves == [Lives!Next]_(Lives!vars)

\* A step in which connections may at most lose their last reference
LEMMA Settles ==
  ASSUME LifeInv, LifeInv', Quiet,
         \A d \in Conns : Referred(d)' => Referred(d) \/ Stage(conn[d]) # "kDisconnected"
  PROVE  LifeMoves
<1> DEFINE L == [c \in Conns |-> Life(c)]
           T == [c \in Conns |-> conn[c].notices]
           S == {c \in Conns : Life(c)' # Life(c)}
<1>1. LifeView /\ LifeView'
  BY ViewHolds, ViewNext
<1>2. \A c \in Conns : conn'[c].notices = conn[c].notices /\ Stage(conn'[c]) = Stage(conn[c])
  BY DEF Quiet, Kept
<1>3. \A c \in Conns : Life(c)' = Life(c) \/ (Life(c) = "over" /\ Life(c)' = "gone")
  <2>1. SUFFICES ASSUME NEW c \in Conns
                 PROVE  Life(c)' = Life(c) \/ (Life(c) = "over" /\ Life(c)' = "gone")
    OBVIOUS
  <2>2. Stage(conn'[c]) = Stage(conn[c])
    BY <1>2
  <2> QED
    BY <1>1, <2>2 DEF LifeView
<1>4. T' = T
  BY <1>2
<1>5. CASE S = {}
  <2>1. L' = L
    BY <1>5
  <2> QED
    BY <1>4, <2>1, Zenon DEF LifeMoves, Lives!vars
<1>6. CASE S # {}
  <2>1. \A c \in S : L[c] = "over"
    BY <1>3
  <2>2. L' = [c \in Conns |-> IF c \in S THEN "gone" ELSE L[c]]
    BY <1>3
  <2>3. S \in SUBSET Conns
    OBVIOUS
  <2> HIDE DEF S, L, T
  <2>4. Lives!Reclaim(S)
    BY <1>4, <1>6, <2>1, <2>2, Zenon DEF Lives!Reclaim, L, T
  <2> QED
    BY <2>3, <2>4, Zenon DEF LifeMoves, Lives!Next
<1> QED
  BY <1>5, <1>6

\* One connection moves on; the others keep their stage and their references.
LEMMA OneMoves ==
  ASSUME LifeInv, LifeInv', NEW c \in Conns,
         \A d \in Conns \ {c} : /\ conn'[d] = conn[d]
                                /\ Referred(d)' <=> Referred(d)
  PROVE  /\ [d \in Conns |-> Life(d)]' = [[d \in Conns |-> Life(d)] EXCEPT ![c] = Life(c)']
         /\ [d \in Conns |-> conn[d].notices]'
              = [[d \in Conns |-> conn[d].notices] EXCEPT ![c] = conn'[c].notices]
<1>1. LifeView /\ LifeView'
  BY ViewHolds, ViewNext
<1>2. \A d \in Conns \ {c} : Life(d)' = Life(d)
  BY <1>1 DEF LifeView
<1>3. \A d \in Conns \ {c} : conn'[d].notices = conn[d].notices
  OBVIOUS
<1>4. [d \in Conns |-> Life(d)]' = [[d \in Conns |-> Life(d)] EXCEPT ![c] = Life(c)']
  BY <1>2
<1> QED
  BY <1>3, <1>4

\* References are only dropped.
LEMMA Shrinks ==
  ASSUME connections_' \subseteq connections_, user_refs' \subseteq user_refs,
         \A k \in Loops :
           /\ retained'[k] \subseteq retained[k] /\ Queued(k)' \subseteq Queued(k)
           /\ at'[k] = "callback" => at[k] = "callback" /\ cur'[k] = cur[k]
  PROVE  \A d \in Conns : Referred(d)' => Referred(d)
  BY DEF Referred

\* The closures of the other connections stay where they are.
OthersQueued(c) ==
  \A k \in Loops : /\ \A t \in Queued(k)' : t.conn = c \/ t \in Queued(k)
                   /\ \A t \in Queued(k) : t.conn = c \/ t \in Queued(k)'

\* The references to other connections than c stay as they are.
LEMMA OthersReferred ==
  ASSUME NEW c, OthersQueued(c),
         \A d \in Conns \ {c} :
           /\ d \in connections_' <=> d \in connections_
           /\ d \in user_refs' <=> d \in user_refs
           /\ \A k \in Loops :
                /\ d \in retained'[k] <=> d \in retained[k]
                /\ (at'[k] = "callback" /\ cur'[k].conn = d) <=> (at[k] = "callback" /\ cur[k].conn = d)
  PROVE  \A d \in Conns \ {c} : Referred(d)' <=> Referred(d)
<1> SUFFICES ASSUME NEW d \in Conns \ {c} PROVE Referred(d)' <=> Referred(d)
  OBVIOUS
<1>1. \A k \in Loops : (\E t \in Queued(k)' : t.conn = d) <=> (\E t \in Queued(k) : t.conn = d)
  BY DEF OthersQueued
<1> QED
  BY <1>1, Zenon DEF Referred

\* A closure for connection t.conn is queued.
LEMMA AddedOthers ==
  ASSUME LifeInv, NEW l \in Loops, NEW t \in TaskType, NEW c, t.conn = c,
         pending' = [pending EXCEPT ![l] = Append(@, t)], dump' = dump
  PROVE  OthersQueued(c)
<1>1. pending \in [Loops -> Seq(TaskType)]
  BY Parts DEF QueueType
<1>2. pending'[l] = Append(pending[l], t) /\ \A k \in Loops \ {l} : pending'[k] = pending[k]
  BY <1>1
<1>3. Elems(pending'[l]) = Elems(pending[l]) \cup {t}
  BY <1>1, <1>2, Queueing
<1>4. \A k \in Loops : Queued(k)' = Queued(k) \/ Queued(k)' = Queued(k) \cup {t}
  BY <1>2, <1>3 DEF Queued
<1> QED
  BY <1>4 DEF OthersQueued

\* A closure for connection c is taken, and perhaps another one for c queued.
LEMMA TakenOthers ==
  ASSUME LifeInv, NEW l \in Loops, NEW kind, NEW c, NextTask(l, kind, c),
         \/ pending' = pending
         \/ \E io \in Loops, t \in TaskType :
              t.conn = c /\ pending' = [pending EXCEPT ![io] = Append(@, t)]
  PROVE  OthersQueued(c) /\ Referred(c)
<1> DEFINE r == Task(kind, c)
<1>1. /\ Elems(dump'[l]) = Elems(dump[l]) \ {r} /\ r \in Elems(dump[l])
      /\ \A k \in Loops \ {l} : dump'[k] = dump[k]
  BY TakeTask
<1>2. r.conn = c
  BY DEF Task
<1> HIDE DEF r
<1>3. Referred(c)
  BY <1>1, <1>2 DEF Referred, Queued
<1>4. \A k \in Loops : /\ Elems(dump'[k]) \subseteq Elems(dump[k])
                       /\ Elems(dump[k]) \subseteq Elems(dump'[k]) \cup {r}
  <2>1. ASSUME NEW k \in Loops
        PROVE  /\ Elems(dump'[k]) \subseteq Elems(dump[k])
               /\ Elems(dump[k]) \subseteq Elems(dump'[k]) \cup {r}
    <3>1. CASE k = l
      BY <3>1, <1>1
    <3>2. CASE k # l
      BY <3>2, <1>1
    <3> QED
      BY <3>1, <3>2
  <2> QED
    BY <2>1
<1>5. CASE pending' = pending
  BY <1>2, <1>3, <1>4, <1>5 DEF OthersQueued, Queued
<1>6. ASSUME NEW io \in Loops, NEW t \in TaskType, t.conn = c,
             pending' = [pending EXCEPT ![io] = Append(@, t)]
      PROVE  OthersQueued(c)
  <2>1. pending \in [Loops -> Seq(TaskType)]
    BY Parts DEF QueueType
  <2>2. pending'[io] = Append(pending[io], t) /\ \A k \in Loops \ {io} : pending'[k] = pending[k]
    BY <1>6, <2>1
  <2>3. Elems(pending'[io]) = Elems(pending[io]) \cup {t}
    BY <2>1, <2>2, Queueing
  <2>4. \A k \in Loops : \/ Elems(pending'[k]) = Elems(pending[k])
                         \/ Elems(pending'[k]) = Elems(pending[k]) \cup {t}
    BY <2>2, <2>3
  <2>5. ASSUME NEW k \in Loops, NEW u \in Queued(k)' PROVE u.conn = c \/ u \in Queued(k)
    BY <1>4, <1>6, <2>4, <2>5 DEF Queued
  <2>6. ASSUME NEW k \in Loops, NEW u \in Queued(k) PROVE u.conn = c \/ u \in Queued(k)'
    BY <1>2, <1>4, <2>4, <2>6 DEF Queued
  <2> QED
    BY <2>5, <2>6 DEF OthersQueued
<1> QED
  BY <1>3, <1>5, <1>6

\* After a channel or task is done with, its loop is in no callback.
LEMMA ContinueEnds ==
  ASSUME LifeInv, NEW l \in Loops, Handling(l), Continue(l)
  PROVE  at'[l] # "callback" /\ \A k \in Loops \ {l} : at'[k] = at[k] /\ cur'[k] = cur[k]
<1>1. LoopType /\ CurrentOK(l)
  BY Parts
<1>2. cur[l].then \in {"handle", "write", "tasks"} /\ at'[l] = cur[l].then
  BY <1>1 DEF CurrentOK, Continue, LoopType
<1> QED
  BY <1>2, ContinueType

\* The steps of a loop in which no connection moves on
LEMMA BatchLife ==
  ASSUME LifeInv, LifeInv', NEW l \in Loops,
         \/ EpollWait(l) \/ handle_events(l) \/ SwapTasks(l) \/ TasksDone(l)
         \/ CallbackReturns(l) \/ HandleWrite(l)
  PROVE  LifeMoves
<1>1. LoopType /\ QueueType
  BY Parts
<1>2. connections_' = connections_ /\ user_refs' = user_refs
  BY DEF EpollWait, handle_events, SwapTasks, TasksDone, CallbackReturns, HandleWrite, serverVars
<1>3. Quiet
  <2>1. CASE UNCHANGED conn
    BY <2>1, NoneChanges DEF Quiet
  <2>2. CASE HandleWrite(l)
    BY <2>2, HandleWriteStep
  <2> QED
    BY <2>1, <2>2 DEF EpollWait, handle_events, SwapTasks, TasksDone, CallbackReturns
<1>4. \A k \in Loops : Queued(k)' = Queued(k)
  <2>1. CASE UNCHANGED <<pending, dump>>
    BY <2>1 DEF Queued
  <2>2. CASE SwapTasks(l)
    BY <2>2, SwapTasksStep
  <2> QED
    BY <2>1, <2>2 DEF EpollWait, handle_events, TasksDone, CallbackReturns, HandleWrite
<1>5. \A k \in Loops : retained'[k] \subseteq retained[k]
  <2>1. CASE UNCHANGED retained
    BY <2>1
  <2>2. CASE TasksDone(l)
    BY <2>2, <1>1 DEF TasksDone, LoopType
  <2> QED
    BY <2>1, <2>2 DEF EpollWait, handle_events, SwapTasks, CallbackReturns, HandleWrite
<1>6. \A k \in Loops : at'[k] = "callback" => at[k] = "callback" /\ cur'[k] = cur[k]
  <2>1. CASE EpollWait(l) \/ SwapTasks(l) \/ TasksDone(l)
    BY <2>1, <1>1 DEF EpollWait, SwapTasks, TasksDone, LoopType
  <2>2. CASE handle_events(l)
    BY <2>2, <1>1 DEF handle_events, LoopType
  <2>3. CASE CallbackReturns(l) \/ HandleWrite(l)
    BY <2>3, ContinueEnds DEF CallbackReturns, HandleWrite, Handling
  <2> QED
    BY <2>1, <2>2, <2>3
<1>7. \A d \in Conns : Referred(d)' => Referred(d)
  BY <1>2, <1>4, <1>5, <1>6, Shrinks
<1> QED
  BY <1>3, <1>7, Settles

\* The user's calls that leave a connection up, the user's references, the accept loop's
\* end and the environment
LEMMA OutsideLife ==
  ASSUME LifeInv, LifeInv',
         \/ start \/ AcceptStops
         \/ \E l \in Loops : send(l) \/ shutdown_call(l) \/ keep(l)
         \/ \E c \in Conns : Environment(c) \/ release(c)
  PROVE  LifeMoves
<1>1. Quiet
  <2>1. CASE UNCHANGED conn
    BY <2>1, NoneChanges DEF Quiet
  <2>2. CASE \E l \in Loops : send(l) \/ shutdown_call(l)
    BY <2>2, SendStep, ShutdownStep
  <2> QED
    BY <2>1, <2>2 DEF start, AcceptStops, keep, release, Environment, Connect, PeerSends,
         PeerCloses, PeerResets, PeerReads
<1>2. connections_' = connections_ /\ UNCHANGED <<cur, pending, dump, retained>>
  BY DEF start, AcceptStops, send, shutdown_call, keep, release, Environment, Connect, PeerSends,
       PeerCloses, PeerResets, PeerReads, serverVars, loopVars
<1>3. \A k \in Loops : Queued(k)' = Queued(k)
  BY <1>2 DEF Queued
<1>4. \A k \in Loops : at'[k] = "callback" => at[k] = "callback"
  <2>1. CASE UNCHANGED at
    BY <2>1
  <2>2. CASE AcceptStops
    BY <2>2, Parts DEF AcceptStops, LoopType
  <2> QED
    BY <2>1, <2>2 DEF start, send, shutdown_call, keep, release, Environment, Connect, PeerSends,
         PeerCloses, PeerResets, PeerReads, loopVars
<1>5. CASE user_refs' \subseteq user_refs
  BY <1>1, <1>2, <1>3, <1>4, <1>5, Shrinks, Settles
<1>6. ASSUME NEW l \in Loops, keep(l) PROVE LifeMoves
  <2>1. at[l] = "callback" /\ user_refs' = user_refs \cup {cur[l].conn}
    BY <1>6 DEF keep
  <2>2. \A d \in Conns : Referred(d)' => Referred(d)
    BY <1>2, <1>3, <1>4, <2>1 DEF Referred
  <2> QED
    BY <1>1, <2>2, Settles
<1>7. \/ user_refs' \subseteq user_refs
      \/ \E l \in Loops : keep(l)
  BY DEF start, AcceptStops, send, shutdown_call, release, Environment, Connect, PeerSends,
       PeerCloses, PeerResets, PeerReads
<1> QED
  BY <1>5, <1>6, <1>7

\* The tasks of remove_connection and destroyed(): c stays referred to.
LEMMA TaskLife ==
  ASSUME LifeInv, LifeInv', NEW c \in Conns,
         \/ remove_connection(c)
         \/ \E l \in Loops : destroyed_task(l, c)
  PROVE  LifeMoves
<1>1. LoopType /\ RecordInv /\ conn \in [Conns -> Connection]
  BY Parts
<1>2. Quiet
  <2>1. UNCHANGED conn
    BY DestroyedStep DEF remove_connection
  <2> QED
    BY <2>1, NoneChanges DEF Quiet
<1>3. PICK l \in Loops, kind \in {"remove", "destroyed"} : NextTask(l, kind, c)
  BY DEF remove_connection, destroyed_task, Loops
<1>4. OthersQueued(c) /\ Referred(c)
  <2>1. conn[c].loop \in Loops /\ Task("destroyed", c) \in TaskType /\ Task("destroyed", c).conn = c
    BY <1>1 DEF Connection, Task, TaskType, Kinds
  <2>2. \/ pending' = pending
        \/ pending' = [pending EXCEPT ![conn[c].loop] = Append(@, Task("destroyed", c))]
    BY DEF remove_connection, destroyed_task
  <2> HIDE DEF Task
  <2>3. \/ pending' = pending
        \/ \E io \in Loops, t \in TaskType :
             t.conn = c /\ pending' = [pending EXCEPT ![io] = Append(@, t)]
    BY <2>1, <2>2, Zenon
  <2> QED
    BY <1>3, <2>3, TakenOthers
<1>5. \A d \in Conns \ {c} : \A k \in Loops : d \in retained'[k] <=> d \in retained[k]
  BY <1>1, <1>3 DEF NextTask, LoopType
<1>6. /\ user_refs' = user_refs /\ UNCHANGED <<at, cur>>
      /\ \A d \in Conns \ {c} : d \in connections_' <=> d \in connections_
  BY DEF remove_connection, destroyed_task, serverVars
<1>7. \A d \in Conns \ {c} : Referred(d)' <=> Referred(d)
  BY <1>4, <1>5, <1>6, OthersReferred
<1>8. \A d \in Conns : Referred(d)' => Referred(d)
  BY <1>4, <1>7
<1> QED
  BY <1>2, <1>8, Settles

\* A socket is accepted.
LEMMA AcceptLife ==
  ASSUME LifeInv, LifeInv', NEW c \in Conns, new_connection(c)
  PROVE  LifeMoves
<1> DEFINE io == next_ + 1
           t == Task("established", c)
<1>1. ServerType /\ QueueType /\ LoopType /\ KernelInv /\ conn \in [Conns -> Connection]
  BY Parts
<1>2. /\ c \in backlog
      /\ conn' = [conn EXCEPT ![c] = Constructed(io)]
      /\ pending' = [pending EXCEPT ![io] = Append(@, t)]
      /\ connections_' = connections_ \cup {c}
      /\ UNCHANGED <<user_refs, at, cur, dump, retained>>
  BY DEF new_connection, on_incoming_connection
<1>3. io \in IoLoops /\ io \in Loops
  BY <1>1, NumThreadsAssumption DEF ServerType, IoLoops, Loops
<1>4. t \in TaskType /\ t.conn = c
  BY DEF Task, TaskType, Kinds
<1>5. Constructed(io).state = "kConnecting" /\ Constructed(io).notices = <<>>
  BY <1>3, ConstructedGood, Zenon
<1>6. conn'[c] = Constructed(io) /\ \A d \in Conns \ {c} : conn'[d] = conn[d]
  BY <1>1, <1>2
<1> HIDE DEF io, t
<1>7. OthersQueued(c)
  BY <1>2, <1>3, <1>4, AddedOthers
<1>8. \A d \in Conns \ {c} : Referred(d)' <=> Referred(d)
  BY <1>2, <1>7, OthersReferred
<1>9. LifeView /\ LifeView'
  BY ViewHolds, ViewNext
<1>10. Stage(conn[c]) = "none" /\ Stage(conn'[c]) = "kConnecting"
  BY <1>1, <1>2, <1>5, <1>6 DEF KernelInv, Stage, Closable
<1>11. Life(c) = "absent" /\ Life(c)' = "accepted" /\ conn'[c].notices = conn[c].notices
  BY <1>9, <1>10 DEF LifeView
<1> DEFINE L == [d \in Conns |-> Life(d)]
           T == [d \in Conns |-> conn[d].notices]
<1>12. L' = [L EXCEPT ![c] = "accepted"] /\ T' = [T EXCEPT ![c] = conn'[c].notices]
  BY <1>6, <1>8, <1>11, OneMoves, Zenon
<1>13. T' = T /\ L[c] = "absent"
  BY <1>6, <1>11
<1> HIDE DEF L, T
<1>14. Lives!Accept(c)
  BY <1>12, <1>13, Zenon DEF Lives!Accept, L, T
<1> QED
  BY <1>14, Zenon DEF LifeMoves, Lives!Next

\* established() and the connection callback
LEMMA AnnounceLife ==
  ASSUME LifeInv, LifeInv', NEW l \in Loops, NEW c \in Conns, established_task(l, c)
  PROVE  LifeMoves
<1> DEFINE v == established(conn[c])
           L == [d \in Conns |-> Life(d)]
           T == [d \in Conns |-> conn[d].notices]
<1>1. LoopType /\ RecordInv /\ conn \in [Conns -> Connection]
  BY Parts
<1>2. /\ NextTask(l, "established", c)
      /\ conn' = [conn EXCEPT ![c] = v]
      /\ cur' = [cur EXCEPT ![l] = [conn |-> c, then |-> "tasks"]]
      /\ at' = [at EXCEPT ![l] = "callback"]
      /\ UNCHANGED <<serverVars, user_refs, pending>>
  BY DEF established_task
<1>3. TaskOK(l, Task("established", c)) /\ at[l] = "tasks"
  BY <1>2, TakenTask
<1>4. Stage(conn[c]) = "kConnecting"
  BY <1>3 DEF TaskOK, Task
<1>5. conn[c].state = "kConnecting" /\ Good(conn[c])
  BY <1>1, <1>4 DEF Stage, Good, RecordInv
<1>6. Closable(v) /\ v.notices = <<"up">>
  BY <1>5, EstablishedGood, Zenon
<1> HIDE DEF v
<1>7. conn'[c] = v /\ \A d \in Conns \ {c} : conn'[d] = conn[d]
  BY <1>1, <1>2
<1>8. OthersQueued(c)
  BY <1>2, TakenOthers
<1>9. \A d \in Conns \ {c} : \A k \in Loops : d \in retained'[k] <=> d \in retained[k]
  BY <1>1, <1>2 DEF NextTask, LoopType
<1>10. \A d \in Conns \ {c} : \A k \in Loops :
         (at'[k] = "callback" /\ cur'[k].conn = d) <=> (at[k] = "callback" /\ cur[k].conn = d)
  BY <1>1, <1>2, <1>3 DEF LoopType
<1>11. \A d \in Conns \ {c} : Referred(d)' <=> Referred(d)
  BY <1>2, <1>8, <1>9, <1>10, OthersReferred DEF serverVars
<1>12. LifeView /\ LifeView'
  BY ViewHolds, ViewNext
<1>13. Stage(conn'[c]) = "up"
  BY <1>6, <1>7 DEF Stage
<1>14. Life(c) = "accepted" /\ Life(c)' = "up" /\ conn[c].notices = <<>>
  BY <1>4, <1>12, <1>13 DEF LifeView
<1>15. L' = [L EXCEPT ![c] = "up"] /\ T' = [T EXCEPT ![c] = <<"up">>]
  BY <1>6, <1>7, <1>11, <1>14, OneMoves, Zenon
<1>16. L[c] = "accepted" /\ T[c] = <<>>
  BY <1>14
<1>17. Append(<<>>, "up") = <<"up">>
  OBVIOUS
<1> HIDE DEF L, T
<1>18. T' = [T EXCEPT ![c] = Append(T[c], "up")]
  BY <1>15, <1>16, <1>17, Zenon
<1>19. Lives!Announce(c)
  BY <1>15, <1>16, <1>18, Zenon DEF Lives!Announce, Lives!Tell, L, T
<1> QED
  BY <1>19, Zenon DEF LifeMoves, Lives!Next

\* The message callback: the first message is heard, and later ones do not show.
LEMMA HearLife ==
  ASSUME LifeInv, LifeInv', NEW l \in Loops, ReadMessage(l)
  PROVE  LifeMoves
<1>1. LoopType /\ conn \in [Conns -> Connection]
  BY Parts
<1>2. PICK c \in Conns : c = cur[l].conn /\ Good(conn[c]) /\ Closable(conn[c])
  BY CurrentConn DEF ReadMessage, Handling
<1> DEFINE v == [conn[c] EXCEPT !.notices = Note(@, "message")]
           L == [d \in Conns |-> Life(d)]
           T == [d \in Conns |-> conn[d].notices]
<1>3. /\ conn' = [conn EXCEPT ![c] = v]
      /\ at[l] = "read" /\ at' = [at EXCEPT ![l] = "callback"]
      /\ UNCHANGED <<serverVars, user_refs, cur, pending, dump, retained>>
  BY <1>2 DEF ReadMessage
<1>4. Closable(v) /\ v.notices = <<"up", "message">>
  BY <1>2, MessageGood, Zenon
<1> HIDE DEF v
<1>5. conn'[c] = v /\ \A d \in Conns \ {c} : conn'[d] = conn[d]
  BY <1>1, <1>3
<1>6. OthersQueued(c)
  BY <1>3 DEF OthersQueued, Queued
<1>7. \A d \in Conns \ {c} : \A k \in Loops :
        (at'[k] = "callback" /\ cur'[k].conn = d) <=> (at[k] = "callback" /\ cur[k].conn = d)
  BY <1>1, <1>2, <1>3 DEF LoopType
<1>8. \A d \in Conns \ {c} : Referred(d)' <=> Referred(d)
  BY <1>3, <1>6, <1>7, OthersReferred DEF serverVars
<1>9. LifeView /\ LifeView'
  BY ViewHolds, ViewNext
<1>10. Stage(conn[c]) = "up" /\ Stage(conn'[c]) = "up"
  BY <1>2, <1>4, <1>5 DEF Stage
<1>11. /\ Life(c) = "up" /\ Life(c)' = "up"
       /\ conn[c].notices \in {<<"up">>, <<"up", "message">>}
  BY <1>9, <1>10 DEF LifeView
<1>12. L' = [L EXCEPT ![c] = "up"] /\ T' = [T EXCEPT ![c] = <<"up", "message">>]
  BY <1>4, <1>5, <1>8, <1>11, OneMoves, Zenon
<1>13. /\ L[c] = "up" /\ T[c] \in {<<"up">>, <<"up", "message">>}
       /\ L = [d \in Conns |-> L[d]] /\ T = [d \in Conns |-> T[d]]
  BY <1>11
<1> HIDE DEF L, T
<1>14. L' = L
  BY <1>12, <1>13
<1>15. CASE T[c] = <<"up">>
  <2>1. T' = [T EXCEPT ![c] = Append(T[c], "message")]
    BY <1>12, <1>15, Adding, Zenon
  <2>2. Lives!HearFirst(c)
    BY <1>13, <1>14, <1>15, <2>1, Zenon DEF Lives!HearFirst, Lives!Tell, L, T
  <2> QED
    BY <2>2, Zenon DEF LifeMoves, Lives!Next
<1>16. CASE T[c] = <<"up", "message">>
  <2>1. T' = T
    BY <1>12, <1>13, <1>16
  <2> QED
    BY <1>14, <2>1, Zenon DEF LifeMoves, Lives!vars, L, T
<1> QED
  BY <1>13, <1>15, <1>16

\* handle_close and the connection callback that tells of the end
LEMMA EndLife ==
  ASSUME LifeInv, LifeInv', NEW l \in Loops, ReadEnd(l) \/ force_close(l)
  PROVE  LifeMoves
<1>1. LoopType /\ RecordInv /\ RegisterInv /\ conn \in [Conns -> Connection]
  BY Parts
<1>2. Handling(l)
  BY DEF ReadEnd, force_close, Handling
<1>3. PICK c \in Conns : c = cur[l].conn /\ Good(conn[c]) /\ Closable(conn[c])
  BY <1>2, CurrentConn DEF ReadEnd, force_close
<1>4. /\ Close(c, Disconnecting(conn[c]))
      /\ UNCHANGED <<serverVars, dump, retained>>
  BY <1>3 DEF ReadEnd, force_close, handle_error
<1> DEFINE v == handle_close(Disconnecting(conn[c]))
           t == Task("remove", c)
           L == [d \in Conns |-> Life(d)]
           T == [d \in Conns |-> conn[d].notices]
<1>5. conn' = [conn EXCEPT ![c] = v] /\ pending' = [pending EXCEPT ![Base] = Append(@, t)]
  BY <1>4 DEF Close
<1>6. v.state = "kDisconnected" /\ v.notices = Append(conn[c].notices, "down")
  BY <1>3, ClosedGood, Zenon
<1>7. Base \in Loops /\ t \in TaskType /\ t.conn = c
  BY DEF Loops, Task, TaskType, Kinds
<1> HIDE DEF v, t
<1>8. conn'[c] = v /\ \A d \in Conns \ {c} : conn'[d] = conn[d]
  BY <1>1, <1>5
<1>9. OthersQueued(c)
  BY <1>4, <1>5, <1>7, AddedOthers
<1>10. \A d \in Conns \ {c} : \A k \in Loops :
         (at'[k] = "callback" /\ cur'[k].conn = d) <=> (at[k] = "callback" /\ cur[k].conn = d)
  <2>1. CASE ReadEnd(l)
    <3>1. at[l] = "read" /\ at'[l] # "callback"
      BY <2>1, <1>2, ContinueEnds DEF ReadEnd
    <3>2. \A k \in Loops \ {l} : at'[k] = at[k] /\ cur'[k] = cur[k]
      BY <2>1, <1>2, ContinueEnds DEF ReadEnd
    <3> QED
      BY <3>1, <3>2
  <2>2. CASE force_close(l)
    BY <2>2 DEF force_close
  <2> QED
    BY <2>1, <2>2
<1>11. \A d \in Conns \ {c} : Referred(d)' <=> Referred(d)
  <2>1. \A d \in Conns \ {c} : d \in user_refs' <=> d \in user_refs
    BY <1>4 DEF Close
  <2> QED
    BY <1>4, <1>9, <1>10, <2>1, OthersReferred DEF serverVars
<1>12. LifeView /\ LifeView'
  BY ViewHolds, ViewNext
<1>13. Stage(conn[c]) = "up" /\ Stage(conn'[c]) = "kDisconnected"
  BY <1>3, <1>6, <1>8 DEF Stage, Closable
<1>14. Referred(c)'
  BY <1>1, <1>4, <1>13 DEF RegisterInv, Referred, serverVars
<1>15. Life(c) = "up" /\ Life(c)' = "over"
  BY <1>12, <1>13, <1>14 DEF LifeView
<1>16. L' = [L EXCEPT ![c] = "over"] /\ T' = [T EXCEPT ![c] = Append(conn[c].notices, "down")]
  BY <1>6, <1>8, <1>11, <1>15, OneMoves, Zenon
<1>17. L[c] = "up" /\ T[c] = conn[c].notices
  BY <1>15
<1> HIDE DEF L, T
<1>18. T' = [T EXCEPT ![c] = Append(T[c], "down")]
  BY <1>16, <1>17, Zenon
<1>19. Lives!End(c)
  BY <1>16, <1>17, <1>18, Zenon DEF Lives!End, Lives!Tell, L, T
<1> QED
  BY <1>19, Zenon DEF LifeMoves, Lives!Next

\* The safety part of ImplementsLife: with the hops between the loops, the closures and
\* the references left out, every behaviour of the server is one of ConnectionLife.  The
\* user is told of a connection, of its messages and of its end, once and in this order;
\* the connection is reclaimed only after its end, and never comes back.
THEOREM LifeInOrder == Spec => Lives!OrderSpec
<1>1. Init => Lives!Init
  <2>1. SUFFICES ASSUME Init PROVE Lives!Init
    OBVIOUS
  <2>2. LifeView /\ \A c \in Conns : Stage(conn[c]) = "none"
    BY <2>1, LifeInit, ViewHolds DEF Init, NoConnection, Stage, Closable
  <2>3. \A c \in Conns : Life(c) = "absent" /\ conn[c].notices = <<>>
    BY <2>2 DEF LifeView
  <2> QED
    BY <2>3 DEF Lives!Init
<1>2. LifeInv /\ LifeInv' /\ [Next]_vars => [Lives!Next]_(Lives!vars)
  <2>1. SUFFICES ASSUME LifeInv, LifeInv', [Next]_vars PROVE LifeMoves
    BY DEF LifeMoves
  <2>2. CASE UNCHANGED vars
    <3>1. Quiet
      BY <2>1, <2>2, NoneChanges DEF vars, Quiet
    <3>2. \A d \in Conns : Referred(d)' => Referred(d)
      BY <2>2 DEF vars, serverVars, loopVars, Referred, Queued
    <3> QED
      BY <2>1, <3>1, <3>2, Settles
  <2>3. ASSUME NEW l \in Loops, LoopStep(l) PROVE LifeMoves
    BY <2>1, <2>3, BatchLife, HearLife, EndLife, AnnounceLife, TaskLife DEF LoopStep
  <2>4. ASSUME NEW l \in Loops, UserCall(l) PROVE LifeMoves
    BY <2>1, <2>4, OutsideLife, EndLife DEF UserCall
  <2>5. CASE BaseStep
    BY <2>1, <2>5, OutsideLife, AcceptLife, TaskLife DEF BaseStep
  <2>6. CASE start \/ \E c \in Conns : Environment(c) \/ release(c)
    BY <2>1, <2>6, OutsideLife
  <2> QED
    BY <2>1, <2>2, <2>3, <2>4, <2>5, <2>6 DEF Next
<1> QED
  BY <1>1, <1>2, LifeAlways, PTL DEF Spec, Lives!OrderSpec
=============================================================================
