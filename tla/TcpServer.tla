----------------------------- MODULE TcpServer -----------------------------
(***************************************************************************)
(* wuduo/tcp_server.cpp and acceptor.cpp, with the connections of          *)
(* TcpConnection.tla, the base loop and the io loops of the thread pool.   *)
(*                                                                         *)
(* Each loop repeats: epoll_wait returns the ready channels with their     *)
(* revents, which stay as they are until handled; the channels are handled *)
(* one by one; the queued tasks are swapped out and executed one by one.   *)
(* EventLoop.tla shows that a queued task wakes the loop up, so a loop     *)
(* with tasks is ready here.  The steps of different loops interleave.     *)
(* Within a loop a step is one system call or one call of user code,       *)
(* because no other thread sees what it changes, queues apart.             *)
(*                                                                         *)
(* A connection object lives as long as a shared_ptr to it: connections_,  *)
(* a closure in a queue (until the end of the batch it is executed in, as  *)
(* tasks_dump is destroyed then), a running callback, or the user.         *)
(*                                                                         *)
(* User code, here, calls a connection from its own callbacks only.        *)
(***************************************************************************)
EXTENDS TcpConnection, FiniteSets

CONSTANTS
  Conns,          \* the sockets that ever connect; each names its TcpConnection
  NumThreads,     \* num_threads_ of the pool (kNumThreads in the code)
  MaxChunks,      \* bound: unread chunks in a socket's receive queue
  MaxSends        \* bound: calls of send per connection

ASSUME NumThreadsAssumption == NumThreads \in Nat \ {0}
ASSUME MaxChunksAssumption == MaxChunks \in Nat

Base == 0
IoLoops == 1..NumThreads
Loops == {Base} \cup IoLoops

VARIABLES
  listening_,     \* Acceptor: start() has run
  backlog,        \* the kernel's queue of completed connections
  connections_,
  next_,          \* EventLoopThreadPool: the io loop of the next connection
  conn,           \* the members of each TcpConnection
  user_refs,      \* connections the user holds a shared_ptr to
  peer, chunks, room,   \* the kernel's side of each socket
  at,             \* where each loop is
  active,         \* active_channels: pairs of a connection and its revents
  cur,            \* the channel or task being handled
  pending,        \* pending_tasks_
  dump, retained, \* tasks_dump: still to execute, and kept alive till the end
  fault           \* an assertion failed or a destroyed object was used

socketVars == <<peer, chunks, room>>
loopVars == <<at, active, cur, pending, dump, retained>>
serverVars == <<listening_, backlog, connections_, next_>>
vars == <<serverVars, conn, user_refs, socketVars, loopVars, fault>>

Task(kind, c) == [kind |-> kind, conn |-> c]
Kinds == {"established", "remove", "destroyed", "force_close", "shutdown", "send"}

\* The closure of destroyed() captures a raw pointer.
MutantStrong == {"established", "remove"}

\* The closures that capture a shared_ptr; the others capture this.
Strong == {"established", "remove", "destroyed"}

InSeq(s, P(_)) == \E i \in 1..Len(s) : P(s[i])

Held(c) ==
  \/ c \in connections_ \/ c \in user_refs
  \/ \E l \in Loops :
       LET Holds(t) == t.conn = c /\ t.kind \in Strong
       IN \/ c \in retained[l]
          \/ InSeq(pending[l], Holds)
          \/ InSeq(dump[l], Holds)
          \/ at[l] = "callback" /\ cur[l].conn = c

Created(c) == conn[c].state # "none"
Destroyed(c) == Created(c) /\ ~Held(c)

Nothing == [conn |-> "none", then |-> "wait"]

\* The handling of a channel or task continues at its next place, or is over.
Continue(l) ==
  /\ at' = [at EXCEPT ![l] = cur[l].then]
  /\ cur' = [cur EXCEPT ![l] = IF @.then = "write" THEN [@ EXCEPT !.then = "handle"]
                               ELSE Nothing]

Init ==
  /\ listening_ = FALSE
  /\ backlog = {}
  /\ connections_ = {}
  /\ next_ = 0
  /\ conn = [c \in Conns |-> NoConnection]
  /\ user_refs = {}
  /\ peer = [c \in Conns |-> "none"]
  /\ chunks = [c \in Conns |-> 0]
  /\ room = [c \in Conns |-> TRUE]
  /\ at = [l \in Loops |-> "wait"]
  /\ active = [l \in Loops |-> {}]
  /\ cur = [l \in Loops |-> Nothing]
  /\ pending = [l \in Loops |-> <<>>]
  /\ dump = [l \in Loops |-> <<>>]
  /\ retained = [l \in Loops |-> {}]
  /\ fault = "none"

-----------------------------------------------------------------------------
(* The clients and the kernel. *)

Connect(c) ==
  /\ listening_ /\ peer[c] = "none"
  /\ peer' = [peer EXCEPT ![c] = "open"]
  /\ backlog' = backlog \cup {c}
  /\ UNCHANGED <<listening_, connections_, next_, conn, user_refs, chunks, room,
                 loopVars, fault>>

PeerSends(c) ==
  /\ peer[c] = "open" /\ chunks[c] < MaxChunks
  /\ chunks' = [chunks EXCEPT ![c] = @ + 1]
  /\ UNCHANGED <<serverVars, conn, user_refs, peer, room, loopVars, fault>>

PeerCloses(c) ==
  /\ peer[c] = "open"
  /\ peer' = [peer EXCEPT ![c] = "fin"]
  /\ UNCHANGED <<serverVars, conn, user_refs, chunks, room, loopVars, fault>>

PeerResets(c) ==
  /\ peer[c] \in {"open", "fin"}
  /\ peer' = [peer EXCEPT ![c] = "reset"]
  /\ UNCHANGED <<serverVars, conn, user_refs, chunks, room, loopVars, fault>>

\* The peer reads, which makes room in the send queue.
PeerReads(c) ==
  /\ ~room[c]
  /\ room' = [room EXCEPT ![c] = TRUE]
  /\ UNCHANGED <<serverVars, conn, user_refs, peer, chunks, loopVars, fault>>

\* How much of count bytes ::write takes: at least one while there is room; a
\* failing write (EAGAIN without room, EPIPE) takes none.
WriteOutcomes(c, count) ==
  IF room[c] /\ peer[c] # "reset" /\ ~conn[c].half_closed THEN 1..count ELSE {0}

\* What epoll reports of a socket.
ReadyEvents(c) ==
  {e \in conn[c].events :
     \/ e = "IN" /\ (chunks[c] > 0 \/ peer[c] \in {"fin", "reset"})
     \/ e = "OUT" /\ (room[c] \/ peer[c] = "reset" \/ conn[c].half_closed)}

ReadyChannels(l) == {<<c, ReadyEvents(c)>> : c \in {d \in Conns :
                        conn[d].loop = l /\ ReadyEvents(d) # {}}}

-----------------------------------------------------------------------------
(* A loop: wait, channels, tasks. *)

\* epoll_wait returns; the acceptor's channel is one of the base loop's.
EpollWait(l) ==
  /\ at[l] = "wait"
  /\ pending[l] # <<>> \/ ReadyChannels(l) # {} \/ (l = Base /\ backlog # {})
  /\ active' = [active EXCEPT ![l] = ReadyChannels(l)]
  /\ at' = [at EXCEPT ![l] = IF l = Base /\ backlog # {} THEN "accept" ELSE "handle"]
  /\ UNCHANGED <<serverVars, conn, user_refs, socketVars, cur, pending, dump,
                 retained, fault>>

\* channel->handle_events() on the pointer epoll_wait returned.
handle_events(l) ==
  /\ at[l] = "handle"
  /\ \E a \in active[l] :
       /\ active' = [active EXCEPT ![l] = @ \ {a}]
       /\ cur' = [cur EXCEPT ![l] = [conn |-> a[1],
                                     then |-> IF {"IN", "OUT"} \subseteq a[2]
                                              THEN "write" ELSE "handle"]]
       /\ at' = [at EXCEPT ![l] = IF "IN" \in a[2] THEN "read" ELSE "write"]
       /\ fault' = IF Destroyed(a[1]) THEN "dangling" ELSE fault
  /\ UNCHANGED <<serverVars, conn, user_refs, socketVars, pending, dump, retained>>

SwapTasks(l) ==
  /\ at[l] = "handle" /\ active[l] = {}
  /\ dump' = [dump EXCEPT ![l] = pending[l]]
  /\ pending' = [pending EXCEPT ![l] = <<>>]
  /\ at' = [at EXCEPT ![l] = "tasks"]
  /\ UNCHANGED <<serverVars, conn, user_refs, socketVars, active, cur, retained, fault>>

\* The end of do_pending_tasks destroys tasks_dump and what its closures hold.
TasksDone(l) ==
  /\ at[l] = "tasks" /\ dump[l] = <<>>
  /\ retained' = [retained EXCEPT ![l] = {}]
  /\ at' = [at EXCEPT ![l] = "wait"]
  /\ UNCHANGED <<serverVars, conn, user_refs, socketVars, active, cur, pending,
                 dump, fault>>

\* The head of the batch is a task of this kind for connection c.
NextTask(l, kind, c) ==
  /\ at[l] = "tasks" /\ dump[l] # <<>>
  /\ Head(dump[l]) = Task(kind, c)
  /\ dump' = [dump EXCEPT ![l] = Tail(@)]
  /\ retained' = [retained EXCEPT ![l] = IF kind \in Strong THEN @ \cup {c} ELSE @]

-----------------------------------------------------------------------------
(* TcpServer and Acceptor, in the base loop. *)

listen == ~listening_ /\ listening_' = TRUE

start ==
  /\ listen
  /\ UNCHANGED <<backlog, connections_, next_, conn, user_refs, socketVars,
                 loopVars, fault>>

\* One turn of the accept loop of on_incoming_connection.
on_incoming_connection(c) ==
  /\ at[Base] = "accept" /\ c \in backlog
  /\ backlog' = backlog \ {c}

\* Counts on without wrapping around.
MutantNextLoop == next_' = next_ + 1

next_loop == next_' = (next_ + 1) % NumThreads

\* accept4 returns a socket.
new_connection(c) ==
  /\ on_incoming_connection(c)
  /\ next_loop
  /\ LET io_loop == next_ + 1
     IN /\ conn' = [conn EXCEPT ![c] = Constructed(io_loop)]
        /\ pending' = [pending EXCEPT ![io_loop] = Append(@, Task("established", c))]
  /\ connections_' = connections_ \cup {c}
  /\ UNCHANGED <<listening_, user_refs, socketVars, at, active, cur, dump, retained,
                 fault>>

\* accept4 returns -1: EAGAIN, or an error that is only logged.
AcceptStops ==
  /\ at[Base] = "accept"
  /\ at' = [at EXCEPT ![Base] = "handle"]
  /\ UNCHANGED <<serverVars, conn, user_refs, socketVars, active, cur, pending, dump,
                 retained, fault>>

\* The connection stays in connections_.
MutantRemoveConnection(c) ==
  /\ NextTask(Base, "remove", c)
  /\ pending' = [pending EXCEPT ![conn[c].loop] = Append(@, Task("destroyed", c))]
  /\ UNCHANGED <<serverVars, conn, user_refs, socketVars, at, active, cur, fault>>

\* The task of remove_connection.
remove_connection(c) ==
  /\ NextTask(Base, "remove", c)
  /\ connections_' = connections_ \ {c}
  /\ fault' = IF c \in connections_ THEN fault ELSE "num_erased == 1"
  /\ pending' = [pending EXCEPT ![conn[c].loop] = Append(@, Task("destroyed", c))]
  /\ UNCHANGED <<listening_, backlog, next_, conn, user_refs, socketVars, at, active,
                 cur>>

-----------------------------------------------------------------------------
(* TcpConnection, in its io loop l. *)

\* established() runs; the connection callback may call the connection.
established_task(l, c) ==
  /\ NextTask(l, "established", c)
  /\ fault' = IF conn[c].state = "kConnecting" THEN fault ELSE "state_ == kConnecting"
  /\ conn' = [conn EXCEPT ![c] = established(@)]
  /\ cur' = [cur EXCEPT ![l] = [conn |-> c, then |-> "tasks"]]
  /\ at' = [at EXCEPT ![l] = "callback"]
  /\ UNCHANGED <<serverVars, user_refs, socketVars, active, pending>>

destroyed_task(l, c) ==
  /\ NextTask(l, "destroyed", c)
  /\ fault' = IF Destroyed(c) THEN "dangling" ELSE fault
  /\ conn' = [conn EXCEPT ![c] = destroyed(@)]
  /\ UNCHANGED <<serverVars, user_refs, socketVars, at, active, cur, pending>>

\* handle_close of c with the record r: the connection callback, in which the user
\* may store the shared_ptr (the methods of c have no effect any more), and the
\* close callback, which sends remove_connection to the base loop.
Close(c, r) ==
  /\ conn' = [conn EXCEPT ![c] = handle_close(r)]
  /\ user_refs' \in {user_refs, user_refs \cup {c}}
  /\ pending' = [pending EXCEPT ![Base] = Append(@, Task("remove", c))]

\* handle_read, num_read > 0: the message callback is entered.
ReadMessage(l) ==
  /\ at[l] = "read"
  /\ LET c == cur[l].conn
     IN \E n \in 1..chunks[c] :
          /\ chunks' = [chunks EXCEPT ![c] = @ - n]
          /\ conn' = [conn EXCEPT ![c].notices = Note(@, "message")]
  /\ at' = [at EXCEPT ![l] = "callback"]
  /\ UNCHANGED <<serverVars, user_refs, peer, room, active, cur, pending, dump,
                 retained, fault>>

\* handle_error: force_close, in the loop thread.
handle_error(c) ==
  IF Closable(conn[c]) THEN Close(c, Disconnecting(conn[c]))
  ELSE UNCHANGED <<conn, pending, user_refs>>

\* num_read = 0, and num_read = -1 with an error.
ReadEnd(l) ==
  /\ at[l] = "read"
  /\ LET c == cur[l].conn
     IN /\ chunks[c] = 0
        /\ \/ peer[c] = "fin" /\ Close(c, Disconnecting(conn[c]))
           \/ peer[c] = "reset" /\ handle_error(c)
  /\ Continue(l)
  /\ UNCHANGED <<serverVars, socketVars, active, dump, retained, fault>>

CallbackReturns(l) ==
  /\ at[l] = "callback"
  /\ Continue(l)
  /\ UNCHANGED <<serverVars, conn, user_refs, socketVars, active, pending, dump,
                 retained, fault>>

\* handle_write: nothing to do, a failed write, or n bytes more.
HandleWrite(l) ==
  /\ at[l] = "write"
  /\ LET c == cur[l].conn
     IN IF is_writing(conn[c])
        THEN \E n \in WriteOutcomes(c, Len(conn[c].output)) :
               /\ conn' = [conn EXCEPT ![c] = IF n > 0 THEN handle_write(@, n) ELSE @]
               /\ \E b \in RoomAfter(n, Len(conn[c].output)) : room' = [room EXCEPT ![c] = b]
        ELSE UNCHANGED <<conn, room>>
  /\ Continue(l)
  /\ UNCHANGED <<serverVars, user_refs, peer, chunks, active, pending, dump,
                 retained, fault>>

-----------------------------------------------------------------------------
(* User code in a callback of connection c = cur[l].conn. *)

MaySend(c) == conn[c].sent["loop"] < MaxSends * MessageUnits

\* send in the loop thread, dropped unless kConnected.
send(l) ==
  LET c == cur[l].conn
  IN /\ at[l] = "callback"
     /\ conn[c].state = "kConnected" /\ MaySend(c)
     /\ \E n \in WriteOutcomes(c, MessageUnits) :
          /\ conn' = [conn EXCEPT ![c] = SentInLoop(@, n)]
          /\ \E b \in IF WritesDirectly(conn[c]) THEN RoomAfter(n, MessageUnits)
                      ELSE {room[c]} : room' = [room EXCEPT ![c] = b]
     /\ UNCHANGED <<serverVars, user_refs, peer, chunks, loopVars, fault>>

shutdown_call(l) ==
  LET c == cur[l].conn
  IN /\ at[l] = "callback"
     /\ conn[c].state = "kConnected"
     /\ conn' = [conn EXCEPT ![c] = shutdown(@)]
     /\ UNCHANGED <<serverVars, user_refs, socketVars, loopVars, fault>>

\* force_close in the loop thread: its task runs at once.
force_close(l) ==
  LET c == cur[l].conn
  IN /\ at[l] = "callback"
     /\ Closable(conn[c])
     /\ Close(c, Disconnecting(conn[c]))
     /\ UNCHANGED <<serverVars, socketVars, at, active, cur, dump, retained, fault>>

\* The user stores the shared_ptr, and later drops it, on any thread.
keep(l) ==
  /\ at[l] = "callback"
  /\ user_refs' = user_refs \cup {cur[l].conn}
  /\ UNCHANGED <<serverVars, conn, socketVars, loopVars, fault>>

release(c) ==
  /\ c \in user_refs
  /\ user_refs' = user_refs \ {c}
  /\ UNCHANGED <<serverVars, conn, socketVars, loopVars, fault>>

-----------------------------------------------------------------------------
LoopStep(l) ==
  \/ EpollWait(l) \/ handle_events(l) \/ SwapTasks(l) \/ TasksDone(l)
  \/ ReadMessage(l) \/ ReadEnd(l) \/ CallbackReturns(l) \/ HandleWrite(l)
  \/ \E c \in Conns : established_task(l, c) \/ destroyed_task(l, c)

BaseStep == AcceptStops \/ \E c \in Conns : new_connection(c) \/ remove_connection(c)

UserCall(l) == send(l) \/ shutdown_call(l) \/ force_close(l) \/ keep(l)

\* Once the descriptor is closed nothing the peer does matters.
Environment(c) ==
  /\ ~Destroyed(c)
  /\ Connect(c) \/ PeerSends(c) \/ PeerCloses(c) \/ PeerResets(c) \/ PeerReads(c)

\* A failed assertion aborts the process; after a use of a destroyed object
\* nothing is promised.
Next ==
  /\ fault = "none"
  /\ \/ start
     \/ BaseStep
     \/ \E l \in Loops : LoopStep(l) \/ UserCall(l)
     \/ \E c \in Conns : Environment(c) \/ release(c)

\* Every loop's thread is scheduled and callbacks return; a user who keeps a
\* shared_ptr drops it some day; a peer that is there reads some day.
Fairness ==
  /\ WF_vars(fault = "none" /\ BaseStep)
  /\ \A l \in Loops : WF_vars(fault = "none" /\ LoopStep(l))
  /\ \A c \in Conns : WF_vars(fault = "none" /\ release(c))
                      /\ WF_vars(fault = "none" /\ PeerReads(c))

Spec == Init /\ [][Next]_vars /\ Fairness

-----------------------------------------------------------------------------
(***************************************************************************)
(* Properties.                                                             *)
(***************************************************************************)
Places == {"wait", "accept", "handle", "read", "write", "callback", "tasks"}
Bytes == [by : Senders, nr : Nat \ {0}]
Connection ==
  [state : States \cup {"none"}, loop : Loops, events : SUBSET {"IN", "OUT"},
   output : Seq(Bytes), wire : Seq(Bytes), sent : [Senders -> Nat],
   half_closed : BOOLEAN, notices : Seq({"up", "message", "down"}), closed : Nat]

TypeOK ==
  /\ listening_ \in BOOLEAN
  /\ backlog \subseteq Conns /\ connections_ \subseteq Conns /\ user_refs \subseteq Conns
  /\ next_ \in 0..(NumThreads - 1)
  /\ conn \in [Conns -> Connection]
  /\ peer \in [Conns -> {"none", "open", "fin", "reset"}]
  /\ chunks \in [Conns -> 0..MaxChunks]
  /\ room \in [Conns -> BOOLEAN]
  /\ at \in [Loops -> Places]
  /\ active \in [Loops -> SUBSET (Conns \X SUBSET {"IN", "OUT"})]
  /\ \A l \in Loops : cur[l].then \in Places
  /\ pending \in [Loops -> Seq([kind : Kinds, conn : Conns])]
  /\ dump \in [Loops -> Seq([kind : Kinds, conn : Conns])]
  /\ retained \in [Loops -> SUBSET Conns]

\* No assertion of tcp_server.cpp or tcp_connection.cpp fails: established() finds
\* kConnecting, and remove_connection finds its connection in connections_.
NoAssertFails == fault \in {"none", "dangling"}

\* No channel is handled and no task is executed for a destroyed TcpConnection.
NoUseAfterFree == fault # "dangling"

\* handle_close is called at most once per connection (tcp_connection.h:54).
CloseOnce == \A c \in Conns : conn[c].closed <= 1

\* Whichever thread drops the last shared_ptr, ~Channel finds the channel out of
\* the interest list (its assertion), after the user was told of the end.
DestroyedClean ==
  \A c \in Conns : Destroyed(c) =>
    /\ conn[c].events = {}
    /\ conn[c].state = "kDisconnected"
    /\ conn[c].notices[Len(conn[c].notices)] = "down"

\* The life of a connection as others see it
Life(c) ==
  CASE ~Created(c) -> "absent"
    [] Destroyed(c) -> "gone"
    [] OTHER -> CASE conn[c].state = "kConnecting" -> "accepted"
                  [] Closable(conn[c]) -> "up"
                  [] OTHER -> "over"

Lives == INSTANCE ConnectionLife WITH
  life <- [c \in Conns |-> Life(c)],
  told <- [c \in Conns |-> conn[c].notices]

\* The hops of a connection between the loops do not show: the user's callbacks see
\* it come up, its messages and its end, once and in this order; it is never
\* destroyed before that end, and always some time after it.
ImplementsLife == Lives!Spec

\* What leaves a connection: the bytes the kernel took, then those of output_buffer_
Stream(r) == r.wire \o r.output

\* The stream is what the callbacks gave to send, in the order of the calls: a direct
\* write never overtakes buffered output.
StreamInOrder ==
  \A c \in Conns :
    Stream(conn[c]) = [i \in 1..conn[c].sent["loop"] |-> Numbered("loop", i)]

\* Buffered output is waited for: until the close, EPOLLOUT is enabled exactly while
\* output_buffer_ is not empty.
PendingMeansWriting ==
  \A c \in Conns : Closable(conn[c]) => (is_writing(conn[c]) <=> conn[c].output # <<>>)

\* A connection the peer has ended is closed, removed from connections_, told of
\* its destruction and destroyed: its descriptor does not leak.
PeerEndReclaims ==
  \A c \in Conns :
    Created(c) /\ peer[c] \in {"fin", "reset"} ~> Destroyed(c)

\* With a peer that reads, what send accepted reaches the socket or the connection ends.
OutputDrains ==
  \A c \in Conns :
    conn[c].output # <<>> ~> (conn[c].output = <<>> \/ conn[c].state = "kDisconnected")

\* A connection in kDisconnecting that has written everything has shut down its
\* write side (tcp_connection.cpp:150).
DrainedIsShutdown ==
  \A c \in Conns :
    conn[c].state = "kDisconnecting" /\ conn[c].output = <<>> => conn[c].half_closed
=============================================================================
