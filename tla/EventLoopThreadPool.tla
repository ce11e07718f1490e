-------------------------- MODULE EventLoopThreadPool --------------------------
(***************************************************************************)
(* wuduo::EventLoopThreadPool and EventLoopThread: the io threads of a     *)
(* TcpServer, from their start to their destruction.                       *)
(*                                                                         *)
(* The thread of the base loop starts the workers one by one.  For each it *)
(* creates a std::thread and waits for the promise through which the       *)
(* worker publishes the EventLoop on its stack.  Then it asks for the loop *)
(* of every new connection, and in the end destroys the pool.  The loops   *)
(* themselves are in EventLoop; nothing but the destructor asks a worker's *)
(* loop to quit.                                                           *)
(***************************************************************************)
EXTENDS Naturals, Sequences

CONSTANTS
  NumThreads,   \* num_threads_
  MaxCalls      \* bound: how often a loop is handed out

ASSUME PoolAssumption ==
  /\ NumThreads \in Nat
  /\ MaxCalls \in Nat

Workers == 1..NumThreads
BaseLoop == 0
NULL == 0

VARIABLES
  main,       \* where the thread of the base loop is
  workers_,   \* the loops of the workers, by worker
  next_,
  thread,     \* where each worker is
  loop_,      \* EventLoopThread::loop_ of each worker
  load,       \* history: how often each loop was handed out
  fault       \* whether the program was terminated

vars == <<main, workers_, next_, thread, loop_, load, fault>>

Init ==
  /\ main = "constructed"
  /\ workers_ = <<>>
  /\ next_ = 0
  /\ thread = [w \in Workers |-> "none"]
  /\ loop_ = [w \in Workers |-> NULL]
  /\ load = [l \in Workers \cup {BaseLoop} |-> 0]
  /\ fault = FALSE

-------------------------------------------------------------------------------
(* The thread of the base loop *)

\* EventLoopThreadPool::start, up to its loop
start ==
  /\ main = "constructed"
  /\ main' = IF NumThreads = 0 THEN "started" ELSE "starting"
  /\ UNCHANGED <<workers_, next_, thread, loop_, load, fault>>

Current == Len(workers_) + 1

\* worker_threads_.emplace_back and EventLoopThread::start, up to the wait
thread_start ==
  /\ main = "starting"
  /\ thread[Current] = "none"
  /\ thread' = [thread EXCEPT ![Current] = "created"]
  /\ main' = "waiting"
  /\ UNCHANGED <<workers_, next_, loop_, load, fault>>

\* Notices the publication only while it happens.
MutantPromiseMissed(w) == thread[w] = "published"

PromiseSet(w) == thread[w] \in {"published", "looping"}

\* The future is ready: start() returns and workers_.push_back
get_future ==
  /\ main = "waiting"
  /\ PromiseSet(Current)
  /\ workers_' = Append(workers_, Current)
  /\ main' = IF Current = NumThreads THEN "started" ELSE "starting"
  /\ UNCHANGED <<next_, thread, loop_, load, fault>>

\* Wraps one worker too early.
MutantIndexShort == (next_ + 1) % (NumThreads - 1)

\* Does not wrap.
MutantIndexLong == next_ + 1

\* What next_loop assigns to next_
AdvancedIndex == (next_ + 1) % NumThreads

next_loop ==
  /\ main = "started"
  /\ \A l \in DOMAIN load : load[l] < MaxCalls
  /\ IF workers_ = <<>>
     THEN /\ load' = [load EXCEPT ![BaseLoop] = @ + 1]
          /\ UNCHANGED next_
     ELSE /\ load' = [load EXCEPT ![workers_[next_ + 1]] = @ + 1]
          /\ next_' = AdvancedIndex
  /\ UNCHANGED <<main, workers_, thread, loop_, fault>>

\* ~EventLoopThread.  Where it quits and joins, the loop ends (EventLoop) and
\* with it the thread.  Destroying a std::thread that is joinable calls
\* std::terminate.
destroy_thread(w) ==
  IF loop_[w] # NULL /\ thread[w] # "none"
  THEN /\ thread' = [thread EXCEPT ![w] = "joined"]
       /\ loop_' = [loop_ EXCEPT ![w] = NULL]
       /\ UNCHANGED fault
  ELSE /\ fault' = (thread[w] # "none")
       /\ UNCHANGED <<thread, loop_>>

\* ~EventLoopThreadPool: the threads are destroyed in turn, workers_ before them.
destroy ==
  /\ main = "started"
  /\ main' = "destroying"
  /\ workers_' = <<>>
  /\ UNCHANGED <<next_, thread, loop_, load, fault>>

destroy_next ==
  /\ main = "destroying"
  /\ ~fault
  /\ \E w \in Workers :
       /\ \A v \in 1..(w - 1) : thread[v] = "joined"
       /\ thread[w] # "joined"
       /\ destroy_thread(w)
  /\ UNCHANGED <<main, workers_, next_, load>>

-------------------------------------------------------------------------------
(* A worker *)

\* EventLoop loop; set_value(&loop)
set_value(w) ==
  /\ ~fault
  /\ thread[w] = "created"
  /\ thread' = [thread EXCEPT ![w] = "published"]
  /\ UNCHANGED <<main, workers_, next_, loop_, load, fault>>

\* loop.loop()
loop(w) ==
  /\ ~fault
  /\ thread[w] = "published"
  /\ thread' = [thread EXCEPT ![w] = "looping"]
  /\ UNCHANGED <<main, workers_, next_, loop_, load, fault>>

-------------------------------------------------------------------------------

Next ==
  \/ start
  \/ thread_start
  \/ get_future
  \/ next_loop
  \/ destroy
  \/ destroy_next
  \/ \E w \in Workers : set_value(w) \/ loop(w)

\* The threads are scheduled; nobody has to ask for a loop or end the pool.
Fairness ==
  /\ WF_vars(thread_start \/ get_future)
  /\ \A w \in Workers : WF_vars(set_value(w))

Spec == Init /\ [][Next]_vars /\ Fairness

-------------------------------------------------------------------------------
(* Properties *)

Mains == {"constructed", "starting", "waiting", "started", "destroying"}
ThreadStates == {"none", "created", "published", "looping", "joined"}

\* The type of the state; next_ stays an index of workers_.
TypeOK ==
  /\ main \in Mains
  /\ workers_ \in Seq(Workers)
  /\ Len(workers_) <= NumThreads
  /\ next_ \in Nat
  /\ NumThreads > 0 => next_ < NumThreads
  /\ thread \in [Workers -> ThreadStates]
  /\ loop_ \in [Workers -> Workers \cup {NULL}]
  /\ load \in [Workers \cup {BaseLoop} -> Nat]
  /\ fault \in BOOLEAN

\* The connections are spread evenly, and the base loop gets none unless it is
\* the only loop.
RoundRobin ==
  /\ \A v, w \in Workers : load[v] <= load[w] + 1
  /\ NumThreads > 0 => load[BaseLoop] = 0

\* start() returns: the wait for the promise of each worker ends.
StartReturns == (main = "starting") ~> (main = "started")

===============================================================================
