# wuduo in TLA+

wuduo is a C++ network library in the style of muduo: one event loop per thread,
non-blocking sockets, and an HTTP server on top. These modules model the library
from its source in `src/wuduo`; TLC checks them on small instances and TLAPS
proves the central results for every instance.

## 1. The system

| Component | State | Operations | Talks to |
|---|---|---|---|
| `EventLoop` | `quit_`, `pending_tasks_` (under `mutex_`), `doing_pending_tasks_`, the eventfd `wakeupfd_` | `loop`, `quit`, `run_in_loop`, `queue_in_loop`, `wakeup`, `do_pending_tasks` | any thread calls it; it calls channels and tasks |
| `Channel`, `Epoller` | `events_`, `revents_`, `in_interest_list_` | enable/disable, `handle_events`, `update_channel`, `wait` | the kernel's epoll; the callbacks of the owner of the channel |
| `TimerQueue`, `Timer` | the set `timers_` ordered by due time, one timerfd | `add_timer`, `handle_read`, `get_expired`, `reset_alarm` | its loop (`run_in_loop`), user callbacks |
| `Acceptor` | `listening_`, the listening socket | `listen`, `on_incoming_connection` | `TcpServer::new_connection` |
| `TcpServer` | `connections_` | `start`, `new_connection`, `remove_connection` | sends closures to io loops and receives them in the base loop |
| `TcpConnection` | `state_`, `channel_`, `output_buffer_`, `in_buffer_` | `established`, `destroyed`, `send`, `shutdown`, `force_close`, `handle_read`, `handle_write`, `handle_close`, `handle_error` | its io loop, user callbacks, `TcpServer` through the close callback |
| `EventLoopThread`, `EventLoopThreadPool` | `loop_`, `thread_`; `workers_`, `next_` | `start`, destructor; `start`, `next_loop` | creates the io loops |
| `Buffer` | `buffer_`, `reader_index_`, `writer_index_` | `append`, `retrieve`, `prepend`, `unwrite`, `read_fd`, ... | used by connections and HTTP |
| `HttpContext`, `HttpRequest`, `HttpResponse`, `HttpServer` | the parsing state, the request, the response | `parse_request`, `analyse`, `on_message` | `TcpConnection` |
| `InetAddress`, logging, `util` | none or values | conversions, output | - |

What is hard here, and what makes each part correct:

- **EventLoop.** A foreign thread pushes a task and then writes the eventfd, and
  the owner may run between the two; the owner itself must write the eventfd
  exactly when it queues from a task. Correct: every queued task runs once, in
  order, and eventually; `quit()` from any thread ends the loop.
- **TcpServer and TcpConnection.** A connection lives in an io loop, is registered
  in the base loop, and ends by hopping io loop -> base loop -> io loop while
  several threads hold `shared_ptr`s to it. Correct: it is closed and announced
  once, removed once, and not used after its destruction; its output leaves in
  order; a connection whose peer is gone is reclaimed.
- **TimerQueue.** Due times are computed in one thread and turned into a relative
  alarm in another, later. Correct: no timer runs early or twice; an idle loop
  has an alarm set for its first timer.
- **HTTP.** A request arrives cut anywhere and is parsed over several callbacks into
  a context that outlives it; the file for the answer is read in pieces, any of which
  may fail. Correct: requests are answered one by one, in order, each with its own
  answer, which is a whole file or an error page; no descriptor is left open.
- **Threads, Channel/Epoller, Buffer.** Start and destruction of workers; the
  interest list when `epoll_ctl` fails and when channels are destroyed; index
  arithmetic at the boundaries.

`PROJECT.json` lists the hazards line by line under "hazards".

## 2. Modules

| Module | Models | Uses |
|---|---|---|
| `TaskExecutor` | abstract: what a loop promises to those who queue tasks | |
| `EventLoop` | `event_loop.cpp`, `Epoller::wait`, the eventfd, foreign threads | refines `TaskExecutor` |
| `EventLoopProofs` | theorems about `EventLoop` | `EventLoop`, TLAPS |
| `TcpConnection` | the members of a connection as a record, its methods as operators on it; the part of `Channel` it uses | |
| `ConnectionLife` | abstract: the life of a connection as the user and the kernel see it | |
| `TcpServer` | the composition: accept loop, base loop, io loops, connections, user callbacks, peers | extends `TcpConnection`, refines `ConnectionLife` |
| `TcpServerShared` | `TcpServer` with calls from timers and from a foreign thread | extends `TcpServer` |
| `TcpServerProofs` | the theorem about the bytes of a connection | `TcpServer`, TLAPS |
| `TcpServerLifeProofs` | theorems about the life of a connection | `TcpServer`, TLAPS |
| `TimerQueue` | `timer_queue.cpp`, `run_after`/`run_at`, the timerfd and the clock | |
| `TimerQueueProofs` | theorems about `TimerQueue` | `TimerQueue`, TLAPS |
| `ByteQueue` | abstract: what a buffer promises | |
| `Buffer` | `buffer.h`, `buffer.cpp`: methods as operators on a record, called in any order | refines `ByteQueue` |
| `MCBuffer` | chunks of bytes for TLC | extends `Buffer` |
| `BufferProofs` | theorems about `Buffer` | `Buffer`, TLAPS |
| `EventLoopThreadPool` | `event_loop_thread.cpp`, `event_loop_thread_pool.cpp` | |
| `EventLoopThreadPoolProofs` | theorems about it | `EventLoopThreadPool`, TLAPS |
| `Epoller` | `channel.cpp`, `epoller.cpp`, the interest list of the kernel | |
| `EpollerProofs` | theorems about it | `Epoller`, TLAPS |
| `HttpSession` | abstract: what an HTTP client is promised on a connection | |
| `HttpContext` | `http_request.{h,cpp}`, `http_context.h`: requests, the context and the parser's operators | |
| `HttpServer` | `http_context.cpp`, `http_server.cpp`, `http_response.cpp` on one connection | extends `HttpContext` and `TcpConnection`, refines `HttpSession` |
| `MCHttpServer` | requests for TLC | extends `HttpServer` |
| `HttpServerProofs` | theorems about `HttpServer` | `HttpServer`, TLAPS |

Definitions keep the names of the source where TLA+ allows it (`queue_in_loop`,
`handle_close`, `reset_alarm`, ...). Definitions named `Mutant...` are deliberately
wrong variants of the definition that follows them. They are not part of any
specification; each shows, when it takes the place of the original, that a
property notices the mistake it stands for.

### EventLoop

`at` is the program counter of the owner, `pc` that of each foreign thread: either
outside the loop's methods or between the push (or the assignment to `quit_`) and
`wakeup()`. The sections under `mutex_` are single steps, as is every system call.
`active_channels` holds what `epoll_wait` returned; all channels but
`wakeup_channel_` are one channel, "io". User code runs at "constructed" (before
`loop()`), "callback" and "task", and calls the loop there any number of times.
`run_in_loop` by the owner executes the task on the spot and touches no loop state.
`looping_` is written and never read, and is left out. `quit_` is a plain `bool`
accessed by several threads, formally a data race; the build accesses it as one byte,
so the model takes each access as atomic.

Abstracted: what tasks do, the contents of descriptors, logging. Of the eventfd the
model keeps whether it is readable: `wakeup()` makes it so, and the read of
`HandleWakeup`, which takes the whole counter, unmakes it. That the counter overflows
after 2^64 - 2 unread wakeups is left out.

### TcpConnection and TcpServer

The record `conn[c]` holds `state_` (`state`), the channel's `events_` (`events`),
`output_buffer_` (`output`) and histories: `wire` (what the kernel took), `sent` (how
many bytes each thread gave to `send`), `notices` (what the user's callbacks were told),
`closed` (calls of `handle_close`) and `half_closed` (`::shutdown(SHUT_WR)` was
called). A byte is `Numbered` by the thread that sends it ("loop" or "other") and by its
place among the bytes this thread has given to `send`, counted when `send` is called and
not when `send_in_loop` runs, so that order and loss show also when a closure lies
between the two.

Each loop goes through "wait", "accept" (base loop), "handle" (between two channels),
"read", "write", "callback" (user code) and "tasks". `active[l]` keeps the pairs of
channel and `revents` of the current batch: they go stale, as in the code, when
something closes the connection in between. A loop with queued tasks is ready;
`EventLoop` is where that is shown. `dump` and `retained` are `tasks_dump`: its
closures, executed ones included, hold their `shared_ptr`s until the vector is
destroyed at the end of the batch.

An object is destroyed when nothing holds it (`Destroyed`). `fault` records a failed
assertion or the use of a destroyed object, after which the program stops.

Accept errors other than EAGAIN end the accept loop and leave the connection in
the backlog. A read returns some or all of the unread chunks, 0 after a FIN, or an
error after a reset. A write takes at least one byte while there is room and fails
otherwise; whether there is room after a write that took all it was given is open
(`RoomAfter`), so that the next direct write may meet a full send queue (EAGAIN). `Channel` close and error callbacks are never set by a connection, so
EPOLLHUP and EPOLLERR alone have no effect. Every `epoll_ctl` succeeds.

In `TcpServer` the user calls a connection only from that connection's callbacks,
which is how `HttpServer` uses the library, and may keep a `shared_ptr`, also in the
callback that tells of the end, and drop it on any thread.

`TcpServerShared` adds the other two ways. A timer of the same loop: `timer_expires` is
`epoll_wait` that returns the timerfd, alone or with other channels, and its callback
runs wherever in the batch that channel comes, so that it may send on or close any
connection of the loop while the rest of the batch waits. And a foreign thread: its test
of `state_` (`foreign_test`), its assignment (`foreign_set_state`) and its `run_in_loop`
(`foreign_run_in_loop`, `foreign_send`) are steps of their own, with any step of the loops
in between. The bytes of a foreign send are numbered in `foreign_send`, where the message
is copied into the closure; `send_task` later hands the copy to `send_in_loop`. Nothing
orders the sends of two threads with each other: a send of the loop thread that is called
after a foreign one may leave before it, and `SendersInOrder` promises an order per thread
only, whole messages, and that none is lost until the connection is closed.

Within one loop a step is a whole system call with the code around it: what it
changes is seen by no other thread, apart from the queues and (in
`TcpServerShared`) `state_`.

`ConnectionLife` has five stages: absent, accepted, up, over, gone. The refinement
mapping reads them off `state_` and off whether the object still exists. A connection
that is being shut down is still "up": its messages are still delivered. Fairness of
the abstract specification says that an accepted connection is announced and one that
is over is reclaimed; in `TcpServer` this takes closures that cross two loops.

### TimerQueue

`now` is a discrete clock, `alarm` the instant the timerfd is set for, `expired_fd`
whether it is readable. `run_after` computes the due time and puts the entry among
`requests`; `add_timer` is the closure in the loop thread. `reset_alarm` does what
`timerfd_settime` does with the delta: positive arms, zero disarms, negative is
refused, and success forgets an unread expiration. `Late` says whether time may
pass so far that a due time is over before the alarm for it is set. One clock stands
for `system_clock` and `CLOCK_MONOTONIC`. Repeating timers and cancellation do not
exist in the code.

### Buffer

A buffer is a record: `data` (the bytes of `buffer_` by offset, stale ones included),
`size`, `reader_index` and `writer_index`. `Content` is what a reader sees. The
assertions on the arguments of `retrieve`, `unwrite` and `prepend` are preconditions
of the callers and appear as guards; the assertions about the buffer's own doing
(`ensure_writable_bytes`, `has_written`) are properties. `read_fd` gets its bytes from
`readv`, which fills the string first and `extrabuf` then; a failing `readv` changes
nothing. `peak` is a history variable for the bound on growth. `find_cr_lf` only reads,
and `shrink_to_fit` changes a capacity nothing depends on.

### EventLoopThreadPool

The thread of the base loop (`main`) creates a worker, waits for its promise and
appends the published loop to `workers_`; the workers run in between. `destroy_thread`
is `~EventLoopThread` with its test of `loop_`; where it would quit and join, the end
of the worker's loop is taken from `EventLoop`. `load` counts how often each loop was
handed out. `std::promise::set_value` is one step.

### Epoller

`kernel` is epoll's interest list (no entry has an empty event set, because the code
removes it then), `level` what the descriptors are ready for. EPOLLIN and EPOLLPRI are
always changed together and are one event, "in". `epoll_ctl` refuses an ADD of what is
there and a MOD or DEL of what is not, and, if `CtlFails`, anything. A channel is
destroyed by a task, with its owner, or, once its connection has gone through
`destroyed()` and only the user holds it (`released`), at any time: in a callback of the
loop or on another thread. Whether the owner disables it first is left open:
`TcpConnection` does, `EventLoop`, `TimerQueue` and `Acceptor` do not. Assertions are compiled in (the
`-DNDEBUG` line of the Makefile is commented out); `fault` names the one that failed.
`wait` returns as many ready channels as fit, whichever the kernel likes: Linux takes
turns, but the result does not need it.

### HttpContext and HttpServer

One connection stands for all: connections share nothing but files. What arrives is a
sequence of symbols, the text of a line, CR, LF and the bytes of a body; the parser
looks at a text only when its CR LF is there, so a cut inside a text is the same to it
as one before it. What `RequestLine::from` and `add_header_from` find in a text
(words, target, query, name, value, number) are the fields of the symbol. A CR inside
a line is not modelled.

`handle_read` takes any part of what the client has sent and enters `on_message`. Each
level of the recursion of `parse_request` is a step, then each system call of
`analyse`, then the answer: `send` and `shutdown` of `TcpConnection`. `at` says where
`on_message` is. `answers` is the history of what was given to the connection, a record
of status, body, Content-Length and whether the connection ends. The error page is one
unit, a byte of a file is its name. `fd` says whether the descriptor is open: each
`::close` of `analyse` is at its place (`Closed`). `open`, `fstat` and every read may fail; `Rewrite`
changes a file, while it is read only if `FileChanges`. A client asks at most
`MaxAhead` requests before it has their answers. Read errors and resets of the socket
are left to `TcpServer`. With a query the path keeps its slash, so the file is looked
for in the root of the file system (`http_request.cpp:49`); the model has no files
there. HEAD is answered like GET, as in the code.

`HttpSession` knows requests and answers only: the next request is answered, with one
of the right answers to it, until an answer ends the connection. 404 is a right answer
to any well-formed request, because reading may fail. A failed assertion maps to
`broken`, after which nothing more is promised; `http_cut` asks when that happens.

## 3. Runs

| Run | Instance | Shows |
|---|---|---|
| `event_loop` | 2 foreign threads, 3 tasks | tasks run once, in order and eventually; `quit` ends the loop; an idle loop sleeps; the loop implements `TaskExecutor` |
| `tcp_server` | 1 connection, 2 sends of 2 bytes | the connection implements `ConnectionLife`; one close, bytes in order, EPOLLOUT exactly while output is pending; no failed assertion, no use of a destroyed object, destruction with the channel out of the interest list; a dead peer's connection is reclaimed; output drains |
| `tcp_server_drain` | 1 connection, 1 send | **violated**: a connection in kDisconnecting that has drained its output is not shut down |
| `tcp_server_shared` | 1 connection, 1 send from a callback or a timer, 2 foreign calls | each thread's messages leave whole and in order, none lost |
| `tcp_server_foreign_close` | 1 connection, 1 foreign call | **violated**: a foreign `force_close` that overlaps the close closes again |
| `timer_queue` | 3 timers, delays 1-3, 5 instants, punctual | an alarm is set for the first timer; each timer runs, once, when due |
| `timer_queue_stuck` | 2 timers, arbitrary lateness | **violated**: a timer, and every one behind it, never runs |
| `buffer` | 2 buffers of 2 + 1 bytes, extrabuf of 1, chunks of 0-2, at most 2 readable | indexes in order, room is made, growth bounded, two byte queues, `swap` included |
| `thread_pool` | 3 workers, each loop handed out up to 4 times | `start()` returns, with loops that exist; even spreading |
| `epoller` | 3 channels, 2 events, room for 2 in a batch | channel, `Epoller` and kernel agree; a channel that stays ready is handled again and again |
| `http_server` | 2 requests of 9 kinds in turn, a file of 0-2 bytes, any cuts | the server implements `HttpSession`; answers are whole; descriptors are closed |
| `http_cut` | 1 request, any cut | **violated**: the assertion behind the request line fails |

Why the bounds suffice. Two threads are enough for two calls to overlap each other
and the owner; three tasks for one in the batch, one in the vector and one queued
by a task. Two-byte
messages can be cut by a partial write, and the second send can find the first
pending; one unread chunk is enough to tell data from the end of the stream. Connections share the
loops and the queues; the safety properties of `tcp_server` are proved for any number of
them, so that the run can do with one and have sends and liveness instead. Two foreign
calls can be two sends in one queue, or a send overtaken by a shutdown or a close. Three
timers allow an insertion before, between and behind, in a callback and outside.
A buffer of 3 bytes with chunks of up to 2 rotates, grows and overflows into
`extrabuf`, and reads exactly fill it; two buffers are what `swap` needs. Two channels let the callback of one
disable the other in the same batch; a third one does not fit into two events. Two
requests show whatever the first leaves in the context or the buffer; the nine kinds
are a file, a missing file, a query, a wrong method, a line that ends early, a repeated
header, a body, an empty body and a missing length; a file of two bytes can be read in two pieces or
fail between them. The
results that are also proved do not depend on the bounds. `ImplementsLife` is a liveness
property and is checked with one connection; the safety part of `ConnectionLife` is
proved for any number.

Deadlock is not checked where the system may legitimately stop: a loop that has
returned, a server without clients, the end of modelled time.

### Fairness

Weak fairness of the owner's own steps (its thread is scheduled, tasks and
callbacks return) and of the `wakeup()` of a thread that is inside
`queue_in_loop` or `quit`. Nothing forces a thread to call, a descriptor to become
ready, or a signal to arrive. In `TcpServer`, additionally, the user eventually drops
a `shared_ptr` it kept (else the object legitimately lives on), and a peer eventually
reads (else output legitimately stays); peers never have to send or close. In
`TimerQueue`, time goes on. In `EventLoopThreadPool`, the base thread and a created
worker go on up to the publication. In `Epoller`, `epoll_wait` is not interrupted for
ever while something is ready (strong fairness of `wait`). In `HttpServer`, the io loop
reads what has arrived and goes on with `on_message`; no client has to ask or read and
no read of a file has to fail.

## 4. Findings

Shown by a violated run, against what a comment, an assertion or a test says:

- `tcp_server_drain`: `shutdown()` with output pending never takes effect, because
  `handle_write` calls `shutdown()` again, which only acts in kConnected
  (`tcp_connection.cpp:151`, `:201`).
- `tcp_server_foreign_close`: `force_close` on a foreign thread tests `state_` and sets
  kDisconnecting later; when the loop closes the connection in between, the closure
  finds kDisconnecting and closes it again (`tcp_connection.cpp:190`).
- `timer_queue_stuck`: `reset_alarm` with a due time that is over disarms the timerfd
  or leaves it as it was (`timer_queue.cpp:81`); `add_timer` does not set it again for
  later timers.
- `http_cut`: a segment that ends exactly with the CR LF of the request line aborts the
  server (`http_context.cpp:22` asserts `>` where `:45` has `>=`).

Seen while modelling, and the reason for a constant or an assumption of the modules:

- `queue_in_loop` by the owner before `loop()` writes no wakeup (`event_loop.cpp:96`).
  With `QueueBeforeLoop = TRUE`, `QueuedTaskRuns` does not hold.
- Closures of `send`, `shutdown` and `force_close` capture `this` without a
  `shared_ptr` (`tcp_connection.cpp:66`, `:80`, `:192`, `:203`): a foreign caller has to
  keep the connection until they have run. `TcpServerShared` does not make it do so and
  stops at the use of a destroyed object; `NoUseAfterFree` is not claimed for it.
- A connection that a timer callback closes is dispatched again from the current batch
  and closed a second time on EOF (`tcp_connection.cpp:128`), although
  `tcp_connection.h:54` says of `handle_close`: "this can be called only once."; the
  second removal then fails the assertion at `tcp_server.cpp:76`. TLC finds it as a
  violation of `CloseOnce` in `TcpServerShared` with `TimerCalls = TRUE` and
  `ForeignCalls = 0`.
- `~Channel` asserts that the channel is not in the interest list (`channel.cpp:21`), and
  the channels of `EventLoop`, `TimerQueue` and `Acceptor` are, although the comments at
  `event_loop.cpp:47` and `timer_queue.cpp:34` count on it to remove them;
  `event_loop_test.cpp:61` destroys an enabled channel as well. `Destroy` of `Epoller`
  stops with `fault` in this case.
- A failed EPOLL_CTL_ADD is only logged; the owner's `disable_all` then fails the
  assertion of `ctl_op_from` (`epoller.cpp:63`, `:75`). With `CtlFails = TRUE`, `Epoller`
  stops in this way.
- `EventLoopThread::loop_` is never assigned, so the destructor neither quits nor joins
  and a joinable `std::thread` is destroyed (`event_loop_thread.cpp:18`).
- `on_message` parses one request per call: a second one in the same segment waits for
  more bytes, and the body of a POST is taken with everything behind it
  (`http_context.cpp:71`). With `MaxAhead = 2`, `ImplementsSession` does not hold.
- `analyse` never ends if the file has become shorter since `fstat`
  (`http_response.cpp:130`), and fails its assertion if it has become longer (`:133`).
  With `FileChanges = TRUE`, `ImplementsSession` does not hold.

## 5. Proofs

All theorems hold for every value of the constants, under the ASSUMEs of the modules.

**EventLoop** (`EventLoopProofs`).
- `TypeCorrect`: `Spec => []TypeOK`.
- `TasksInOrderHolds`: `Spec => []TasksInOrder`. The swap overwrites `tasks_dump`, so
  the inductive invariant adds `DumpInv`: outside a batch nothing is left in it.
- `NoLostQuitHolds`: `NoLostQuit` is inductive together with `TypeOK`, because
  `quit_owner` happens only in user code and the test of `quit_` follows.
- `NoLostWakeupHolds`, assuming the owner queues nothing before `loop()`. The
  invariant `WakeupInv` extends the claim from "wait" to every place from which the
  owner reaches `epoll_wait` without passing the swap. That `doing_pending_tasks_` is
  true exactly during a batch (in `TypeOK`) is what makes the owner's own wakeup happen.
- `ExecutorSafety`: `Spec => Executor!SafeSpec`, step by step: a push is `Submit`, the
  execution of the head of `tasks_dump` is `Execute` by `TasksInOrder`, `quit` is
  `Stop`, everything else stutters.

**TimerQueue** (`TimerQueueProofs`).
- `TypeCorrect`.
- `NoLostAlarmHolds`, assuming `~Late`: requests, and, during `handle_read`, the
  queue lie ahead of `now` (`RequestsAhead`, `QueueAhead`), so every call of
  `reset_alarm` gets a positive delta.
- `RunsOnceWhenDueHolds`: `LiveInv` says that an entry is in at most one of
  `requests`, `timers_` and `expired`, has the due time of its timer, and that a
  timer with an entry has not run.

**Buffer** (`BufferProofs`). One lemma per method says what it does to the readable
bytes, the indexes and the size; `TypeOK` is inductive with them.
- `TypeCorrect`, `MakesRoomHolds`, `GrowthBoundedHolds` (a string that has to grow is
  at most kCheapPrepend + 2 * (readable + asked) long, or it would have rotated).
- `ByteQueueImplemented`: `Spec => ImplementsByteQueue`, for all sizes.

**EventLoopThreadPool** (`EventLoopThreadPoolProofs`).
- `TypeCorrect`, with `Phase`: how many workers there are at each point of `start()`.
- `RoundRobinHolds`: `RoundRobin` is not inductive; `Balanced` says that exactly the
  workers up to `next_` are one connection ahead.

**Epoller** (`EpollerProofs`).
- `TypeCorrect`, `ListedMeansWatchedHolds`, from `IInv`, which adds `BatchInv`: no batch
  is left over where tasks run, epoll watches live channels only, and a channel that only
  the user keeps is in no batch. Both hold whichever calls of `epoll_ctl` fail.
- `InterestAgreesHolds`, assuming `~CtlFails`, without which a refused change leaves
  `events_` ahead of the kernel.

**TcpServer, the bytes of a connection** (`TcpServerProofs`).
- `StreamInOrderHolds`: `StreamInOrder` for `TcpServer`.
  `OrderInv` adds to it that a record has its members and that both parts are
  sequences; one lemma per method of `TcpConnection` says that it leaves the stream alone
  or appends the message. The case that matters is `send_in_loop`: it writes directly only
  when `output_buffer_` is empty, and otherwise takes nothing.

**TcpServer, the life of a connection** (`TcpServerLifeProofs`), for `Spec` of
`TcpServer`, in which the user calls a connection from its own callbacks.
- `TypeCorrect`, `CloseOnceHolds`, `PendingMeansWritingHolds`, `NoAssertFailsHolds`,
  `NoUseAfterFreeHolds`, `DestroyedCleanHolds`, all from the inductive invariant `LifeInv`.
- `LifeInOrder`: `Spec => Lives!OrderSpec`, the safety part of `ImplementsLife`.

None of these properties is inductive: whether a closure or a batch entry is harmless
depends on what is in the queues of two loops. Besides `TypeOK` and `fault = "none"`,
`LifeInv` consists of
- `RecordInv`: what the members of a connection are in each of its states (before
  `established()` and after `handle_close` its channel has no events, it has been closed
  once exactly when it is kDisconnected, and so on);
- `RegisterInv`: `connections_` holds every connection that has not ended. This is the
  reference that protects the raw pointers in the batches;
- `OnceInv`: no closure is in the queues of a loop twice;
- `TaskInv`: what a queued closure will find. `established` finds kConnecting on its own
  loop; `remove_connection` is on the base loop and finds its connection registered;
  `destroyed` finds it closed and no longer registered. The last two exclude each
  other, so the removal that queues `destroyed` cannot have happened before;
- `BatchInv`: the channels still to be handled in a batch belong to connections of that
  loop that are up, each at most once, and the one being handled was up when its
  handling began. Only the loop of a connection closes it, from the handling of that
  connection, so the rest of the batch does not go stale;
- `KernelInv`: what is in the backlog has not been accepted yet.

The proof has lemmas about each method of `TcpConnection` (what it does to the state of
the record), about queues (what pushing, swapping and popping do to the set of queued
closures), and one per action of the server and the loops. For the refinement,
`new_connection` is `Accept`, the execution of `established` is `Announce`, the first
delivery of data is `HearFirst`, `handle_close` is `End`, and every step that may drop a
reference (the end of a closure, of a batch, of a callback, the user's own) is `Reclaim`
of exactly those connections that lose their last one, or a stutter.

**HttpServer** (`HttpServerProofs`), also with `FileChanges`.
- `TypeCorrect`, `ResponseWholeHolds`, `DescriptorClosedHolds`, from one invariant.
  `Reading` is the strengthening: on its way through `open`, `fstat` and the reads the
  status is 200, the body is empty until the first read and made of bytes of the wanted
  file afterwards. The proof is split into the clients, the connection and the message
  callback, whose steps either stay outside `analyse` or are one of its system calls.
- `SessionInOrder`: `Spec => Session!OrderSpec`, the safety part of `ImplementsSession`,
  for clients that wait for each answer (`MaxAhead <= 1`) and send the bodies they
  announce (`Session!Framed`; `MCHttpServer` states it of the requests of the runs).
  Neither hypothesis can go: behind the body of a POST the parser drops whatever else has
  arrived (`http_context.cpp:71`), so a second request sent ahead is lost and the third is
  answered in its place; and a body that was not announced is parsed as the next request.
  `SessionInv` adds to the invariant above `Progress`: what `in_buffer_` and the network
  hold together is the rest of the request that is not answered yet, from the place that
  belongs to the phase of the parser, and the `HttpRequest` holds the lines before it;
  when every request is answered, nothing is left. `EndedByAnswer` says that an answer
  that ends the connection took it out of kConnected, after which `send` does nothing.
  What `find("\r\n")` yields on any part of a request is in the lemmas `EncodeLayout`,
  `CutText` and `CutEmpty`.

Only model-checked: liveness, which the prover cannot do (`QueuedTaskRuns`,
`QuitStopsLoop`, `IdleLoopSleeps`, `PeerEndReclaims`, `OutputDrains`, `TimersRun`, `StartReturns`, `Served`,
and the fairness part of `ImplementsExecutor`, `ImplementsLife` and `ImplementsSession`).
Every invariant and every action property of a passing run is a theorem, except
`SendersInOrder`. In the other direction, `ListedMeansWatched` (any `epoll_ctl` may fail) is
proved only; the run `epoller` has `CtlFails = FALSE` and checks the stronger
`InterestAgrees`.

## 6. Not modelled, and the plan

In this order:

1. `SendersInOrder` as a theorem.
2. The life cycle of `TcpServer` under the calls of `TcpServerShared` as theorems. The
   invariant has to allow for closures of `send`, `shutdown` and `force_close` in the
   queues, and for a connection that its user closes between two channels of a batch.
3. `EventLoop` with repeated `loop()` calls and the destruction of a `TcpServer` with
   connections left.

Left out for good: logging, socket options, `InetAddress` (library conversions without
state), mime types and the formatting of responses, `HttpServer::handle_error` and
`send_error_page`, which nobody calls, the static pages, and jumps of the system clock.
