----------------------------- MODULE EventLoop -----------------------------
(***************************************************************************)
(* wuduo/event_loop.{h,cpp}: one EventLoop, the thread that owns it and    *)
(* the other threads that call it.                                         *)
(*                                                                         *)
(* The owner runs loop(): it tests quit_, blocks in epoll_wait without a   *)
(* timeout, runs the callbacks of the active channels, and executes the    *)
(* tasks that were queued.  Any thread may call queue_in_loop, run_in_loop *)
(* and quit.  A foreign thread pushes its task (or sets quit_) in one step *)
(* and writes the eventfd wakeupfd_ in a later one, so that the owner may  *)
(* run between the two.  The two critical sections under mutex_, the push  *)
(* and the swap, are single steps.                                         *)
(*                                                                         *)
(* Tasks are names.  What a task or a callback does to the loop, calling   *)
(* run_in_loop, queue_in_loop and quit any number of times before it       *)
(* returns, is chosen nondeterministically.  looping_ is set and never     *)
(* read, so it is left out.  Executing a task inline (run_in_loop on the   *)
(* owner) never touches the queue: its body is part of the caller's.       *)
(***************************************************************************)
EXTENDS Naturals, Sequences, FiniteSets

CONSTANTS
  Threads,          \* the threads other than the owner
  Tasks,            \* the closures; each is submitted at most once
  QueueBeforeLoop   \* the owner may call queue_in_loop before loop()

ASSUME QueueBeforeLoopAssumption == QueueBeforeLoop \in BOOLEAN

VARIABLES
  at,               \* where the owner is (see Places)
  pc,               \* where each foreign thread is: outside, or before wakeup()
  quit_,
  doing_pending_tasks_,
  pending_tasks_,   \* guarded by mutex_
  tasks_dump,       \* local of do_pending_tasks: the tasks still to execute
  wakeupfd_,        \* whether the eventfd is readable
  io_ready,         \* another channel of this loop (socket, timer) is ready
  active_channels,  \* local of loop(): the channels still to be handled
  queued,           \* history: all tasks pushed, in order
  executed,         \* history: all queued tasks executed, in order
  inlined           \* history: the tasks run_in_loop ran on the spot

loopVars == <<quit_, doing_pending_tasks_, pending_tasks_, tasks_dump>>
kernelVars == <<wakeupfd_, io_ready, active_channels>>
history == <<queued, executed, inlined>>
vars == <<at, pc, loopVars, kernelVars, history>>

\* The owner's program counter: constructed but not in loop() yet; testing
\* quit_; inside epoll_wait; between two channels; in the callback of a channel;
\* between two tasks; in a task; in queue_in_loop called by a task, before
\* wakeup(); returned from loop().
Places == {"constructed", "test", "wait", "handle", "callback",
           "tasks", "task", "wakeup", "returned"}

Channels == {"wakeup_channel_", "io"}

Elements(s) == {s[i] : i \in 1..Len(s)}

\* A closure that no one has submitted yet.
Fresh(t) == t \in Tasks /\ t \notin Elements(queued) /\ t \notin inlined

\* The types; and doing_pending_tasks_ says exactly that a batch is being executed,
\* which is what queue_in_loop relies on when it leaves the wakeup out.
TypeOK ==
  /\ at \in Places
  /\ pc \in [Threads -> {"outside", "wakeup"}]
  /\ quit_ \in BOOLEAN
  /\ doing_pending_tasks_ \in BOOLEAN
  /\ doing_pending_tasks_ <=> at \in {"tasks", "task", "wakeup"}
  /\ pending_tasks_ \in Seq(Tasks)
  /\ tasks_dump \in Seq(Tasks)
  /\ wakeupfd_ \in BOOLEAN
  /\ io_ready \in BOOLEAN
  /\ active_channels \in SUBSET Channels
  /\ queued \in Seq(Tasks)
  /\ executed \in Seq(Tasks)
  /\ inlined \in SUBSET Tasks

Init ==
  /\ at = "constructed"
  /\ pc = [th \in Threads |-> "outside"]
  /\ quit_ = FALSE
  /\ doing_pending_tasks_ = FALSE
  /\ pending_tasks_ = <<>>
  /\ tasks_dump = <<>>
  /\ wakeupfd_ = FALSE
  /\ io_ready = FALSE
  /\ active_channels = {}
  /\ queued = <<>>
  /\ executed = <<>>
  /\ inlined = {}

-----------------------------------------------------------------------------
\* A write to the eventfd: readable until the counter is read.
write_eventfd == wakeupfd_' = TRUE

\* The critical section of queue_in_loop.
Push(t) ==
  /\ pending_tasks_' = Append(pending_tasks_, t)
  /\ queued' = Append(queued, t)

\* The channels epoll_wait reports: it is level triggered, so a channel is
\* reported as long as its descriptor is readable.
ReadyChannels == (IF wakeupfd_ THEN {"wakeup_channel_"} ELSE {})
                 \cup (IF io_ready THEN {"io"} ELSE {})

-----------------------------------------------------------------------------
(* The owner: loop() and do_pending_tasks(). *)

loop ==
  /\ at = "constructed"
  /\ at' = "test"
  /\ UNCHANGED <<pc, loopVars, kernelVars, history>>

\* for (; !quit_;)
TestQuit ==
  /\ at = "test"
  /\ at' = IF quit_ THEN "returned" ELSE "wait"
  /\ UNCHANGED <<pc, loopVars, kernelVars, history>>

\* epoller_.wait() returns the ready channels; the timeout is -1.
EpollWait ==
  /\ at = "wait"
  /\ ReadyChannels # {}
  /\ active_channels' = ReadyChannels
  /\ at' = "handle"
  /\ UNCHANGED <<pc, loopVars, wakeupfd_, io_ready, history>>

\* epoll_wait returns -1 with EINTR: no active channels.
EpollInterrupted ==
  /\ at = "wait"
  /\ active_channels' = {}
  /\ at' = "handle"
  /\ UNCHANGED <<pc, loopVars, wakeupfd_, io_ready, history>>

\* Leaves the counter of the eventfd unread.
MutantHandleWakeup ==
  /\ at = "handle"
  /\ "wakeup_channel_" \in active_channels
  /\ active_channels' = active_channels \ {"wakeup_channel_"}
  /\ UNCHANGED <<at, pc, loopVars, wakeupfd_, io_ready, history>>

\* The read callback of wakeup_channel_: the read resets the counter.
HandleWakeup ==
  /\ at = "handle"
  /\ "wakeup_channel_" \in active_channels
  /\ active_channels' = active_channels \ {"wakeup_channel_"}
  /\ wakeupfd_' = FALSE
  /\ UNCHANGED <<at, pc, loopVars, io_ready, history>>

\* handle_events() of another channel enters its callback, which consumes
\* what made the descriptor ready.
HandleIo ==
  /\ at = "handle"
  /\ "io" \in active_channels
  /\ active_channels' = active_channels \ {"io"}
  /\ io_ready' = FALSE
  /\ at' = "callback"
  /\ UNCHANGED <<pc, loopVars, wakeupfd_, history>>

CallbackReturns ==
  /\ at = "callback"
  /\ at' = "handle"
  /\ UNCHANGED <<pc, loopVars, kernelVars, history>>

\* A copy instead of a swap: the vector keeps its tasks.
MutantSwapTasks ==
  /\ at = "handle" /\ active_channels = {}
  /\ tasks_dump' = pending_tasks_
  /\ doing_pending_tasks_' = TRUE
  /\ at' = "tasks"
  /\ UNCHANGED <<pc, quit_, pending_tasks_, kernelVars, history>>

\* do_pending_tasks: swap under mutex_, then set the flag, which only the
\* owner reads.
SwapTasks ==
  /\ at = "handle" /\ active_channels = {}
  /\ tasks_dump' = pending_tasks_
  /\ pending_tasks_' = <<>>
  /\ doing_pending_tasks_' = TRUE
  /\ at' = "tasks"
  /\ UNCHANGED <<pc, quit_, kernelVars, history>>

\* Executes the newest task first.
MutantRunTask ==
  /\ at = "tasks" /\ tasks_dump # <<>>
  /\ executed' = Append(executed, tasks_dump[Len(tasks_dump)])
  /\ tasks_dump' = SubSeq(tasks_dump, 1, Len(tasks_dump) - 1)
  /\ at' = "task"
  /\ UNCHANGED <<pc, quit_, doing_pending_tasks_, pending_tasks_, kernelVars,
                 queued, inlined>>

\* for (auto& t : tasks_dump) t();
RunTask ==
  /\ at = "tasks" /\ tasks_dump # <<>>
  /\ executed' = Append(executed, Head(tasks_dump))
  /\ tasks_dump' = Tail(tasks_dump)
  /\ at' = "task"
  /\ UNCHANGED <<pc, quit_, doing_pending_tasks_, pending_tasks_, kernelVars,
                 queued, inlined>>

TaskReturns ==
  /\ at = "task"
  /\ at' = "tasks"
  /\ UNCHANGED <<pc, loopVars, kernelVars, history>>

\* The flag stays set.
MutantTasksDone ==
  /\ at = "tasks" /\ tasks_dump = <<>>
  /\ at' = "test"
  /\ UNCHANGED <<pc, loopVars, kernelVars, history>>

TasksDone ==
  /\ at = "tasks" /\ tasks_dump = <<>>
  /\ doing_pending_tasks_' = FALSE
  /\ at' = "test"
  /\ UNCHANGED <<pc, quit_, pending_tasks_, tasks_dump, kernelVars, history>>

-----------------------------------------------------------------------------
(* The owner calls its own loop, from a task, a callback or before loop(). *)

InUserCode == at \in {"constructed", "callback", "task"}

\* run_in_loop in the loop thread: task() runs here and now.
run_in_loop_owner(t) ==
  /\ InUserCode
  /\ Fresh(t)
  /\ inlined' = inlined \cup {t}
  /\ UNCHANGED <<at, pc, loopVars, kernelVars, queued, executed>>

\* No wakeup when the caller is the loop thread.
MutantQueueInLoopOwner(t) ==
  /\ InUserCode
  /\ at = "constructed" => QueueBeforeLoop
  /\ Fresh(t)
  /\ Push(t)
  /\ UNCHANGED <<at, pc, quit_, doing_pending_tasks_, tasks_dump, kernelVars,
                 executed, inlined>>

\* queue_in_loop in the loop thread: wakeup() only while doing_pending_tasks_.
queue_in_loop_owner(t) ==
  /\ InUserCode
  /\ at = "constructed" => QueueBeforeLoop
  /\ Fresh(t)
  /\ Push(t)
  /\ at' = IF doing_pending_tasks_ THEN "wakeup" ELSE at
  /\ UNCHANGED <<pc, quit_, doing_pending_tasks_, tasks_dump, kernelVars,
                 executed, inlined>>

wakeup_owner ==
  /\ at = "wakeup"
  /\ write_eventfd
  /\ at' = "task"
  /\ UNCHANGED <<pc, loopVars, io_ready, active_channels, history>>

\* quit() in the loop thread: the flag alone.
quit_owner ==
  /\ InUserCode
  /\ quit_' = TRUE
  /\ UNCHANGED <<at, pc, doing_pending_tasks_, pending_tasks_, tasks_dump,
                 kernelVars, history>>

-----------------------------------------------------------------------------
(* A foreign thread th. *)

\* No wakeup after the push.
MutantQueueInLoop(th, t) ==
  /\ pc[th] = "outside"
  /\ Fresh(t)
  /\ Push(t)
  /\ UNCHANGED <<at, pc, quit_, doing_pending_tasks_, tasks_dump, kernelVars,
                 executed, inlined>>

\* queue_in_loop, and run_in_loop, which forwards to it outside the loop thread.
queue_in_loop(th, t) ==
  /\ pc[th] = "outside"
  /\ Fresh(t)
  /\ Push(t)
  /\ pc' = [pc EXCEPT ![th] = "wakeup"]
  /\ UNCHANGED <<at, quit_, doing_pending_tasks_, tasks_dump, kernelVars,
                 executed, inlined>>

\* The flag alone, as in the loop thread.
MutantQuit(th) ==
  /\ pc[th] = "outside"
  /\ quit_' = TRUE
  /\ UNCHANGED <<at, pc, doing_pending_tasks_, pending_tasks_, tasks_dump,
                 kernelVars, history>>

quit(th) ==
  /\ pc[th] = "outside"
  /\ quit_' = TRUE
  /\ pc' = [pc EXCEPT ![th] = "wakeup"]
  /\ UNCHANGED <<at, doing_pending_tasks_, pending_tasks_, tasks_dump,
                 kernelVars, history>>

wakeup(th) ==
  /\ pc[th] = "wakeup"
  /\ write_eventfd
  /\ pc' = [pc EXCEPT ![th] = "outside"]
  /\ UNCHANGED <<at, loopVars, io_ready, active_channels, history>>

\* The kernel: another descriptor of this loop becomes ready.
IoBecomesReady ==
  /\ ~io_ready
  /\ io_ready' = TRUE
  /\ UNCHANGED <<at, pc, loopVars, wakeupfd_, active_channels, history>>

-----------------------------------------------------------------------------
\* What the owner does by itself once main() has called loop().
LoopStep ==
  \/ loop \/ TestQuit \/ EpollWait \/ HandleWakeup \/ HandleIo
  \/ CallbackReturns \/ SwapTasks \/ RunTask \/ TaskReturns \/ TasksDone
  \/ wakeup_owner

\* What the user's code and the kernel may do or not do.
OwnerCall ==
  \/ \E t \in Tasks : run_in_loop_owner(t) \/ queue_in_loop_owner(t)
  \/ quit_owner

ForeignCall(th) == quit(th) \/ \E t \in Tasks : queue_in_loop(th, t)

Next ==
  \/ LoopStep
  \/ OwnerCall
  \/ \E th \in Threads : ForeignCall(th) \/ wakeup(th)
  \/ EpollInterrupted
  \/ IoBecomesReady

\* The scheduler runs every thread: the owner keeps taking its steps (tasks and
\* callbacks return), and a thread inside queue_in_loop or quit finishes it.
\* Nothing makes a thread call in, a descriptor ready, or a signal arrive.
Fairness ==
  /\ WF_vars(LoopStep)
  /\ \A th \in Threads : WF_vars(wakeup(th))

Spec == Init /\ [][Next]_vars /\ Fairness

-----------------------------------------------------------------------------
(***************************************************************************)
(* Properties.                                                             *)
(***************************************************************************)

\* Some thread has pushed a task or set quit_ and is about to write the eventfd.
WakeupInFlight == \E th \in Threads : pc[th] = "wakeup"

\* No task is lost, duplicated or overtaken between the push under mutex_, the
\* swap of do_pending_tasks and the execution: the tasks pushed are, in order,
\* the executed ones, the rest of the batch being executed and the vector.
TasksInOrder == queued = executed \o (tasks_dump \o pending_tasks_)

\* The owner never sleeps on a task: while it is blocked in epoll_wait with tasks
\* in pending_tasks_, the eventfd is readable or its writer is on the way
\* (the condition !in_loop_thread() || doing_pending_tasks_ of queue_in_loop).
NoLostWakeup ==
  at = "wait" /\ pending_tasks_ # <<>> => wakeupfd_ \/ WakeupInFlight

\* The same for quit(): the owner never sleeps on a set quit_.
NoLostQuit == at = "wait" /\ quit_ => wakeupfd_ \/ WakeupInFlight

\* Every task given to queue_in_loop is executed unless someone calls quit().
QueuedTaskRuns ==
  \A t \in Tasks : t \in Elements(queued) ~> (t \in Elements(executed) \/ quit_)

\* A loop that is told to quit, by any thread at any time, returns.
QuitStopsLoop == quit_ ~> (at = "returned")

\* The eventfd is level triggered: a loop that nobody calls or signals any more and
\* whose descriptors are silent ends up asleep in epoll_wait (or returned).  It does
\* not spin on a wakeup that was meant for an earlier turn.
IdleLoopSleeps ==
  <>[]~io_ready /\ <>[][~EpollInterrupted]_vars => <>[](at \in {"wait", "returned"})

\* The loop implements the executor its clients assume.
Executor == INSTANCE TaskExecutor WITH stopped <- quit_
ImplementsExecutor == Executor!Spec
=============================================================================
