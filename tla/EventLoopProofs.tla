-------------------------- MODULE EventLoopProofs --------------------------
(***************************************************************************)
(* Proofs about EventLoop for any number of threads and tasks.             *)
(***************************************************************************)
EXTENDS EventLoop, SequenceTheorems, TLAPS

\* The owner is between the swap and the reset of doing_pending_tasks_.
InBatch == at \in {"tasks", "task", "wakeup"}

\* Outside a batch nothing is left of the previous one.
DumpInv == ~InBatch => tasks_dump = <<>>

\* NoLostWakeup strengthened to every place from which the owner reaches
\* epoll_wait without passing the swap.
WakeupInv ==
  at \in {"constructed", "test", "wait", "tasks", "task"} /\ pending_tasks_ # <<>>
    => wakeupfd_ \/ WakeupInFlight

-----------------------------------------------------------------------------
LEMMA ConcatHeadTail ==
  ASSUME NEW S, NEW s \in Seq(S), NEW t \in Seq(S), NEW u \in Seq(S), t # <<>>
  PROVE  s \o (t \o u) = Append(s, Head(t)) \o (Tail(t) \o u)
  OBVIOUS

-----------------------------------------------------------------------------
\* TypeOK is an invariant: in particular doing_pending_tasks_, which queue_in_loop
\* tests, is set exactly while a batch is executed.
THEOREM TypeCorrect == Spec => []TypeOK
  <1>1. Init => TypeOK
    <2> SUFFICES ASSUME Init
                 PROVE  TypeOK
      OBVIOUS
    <2>1. doing_pending_tasks_ <=> at \in {"tasks", "task", "wakeup"}
      BY DEF Init
    <2>2. pending_tasks_ \in Seq(Tasks) /\ tasks_dump \in Seq(Tasks)
          /\ queued \in Seq(Tasks) /\ executed \in Seq(Tasks)
      BY EmptySeq DEF Init
    <2>3. pc \in [Threads -> {"outside", "wakeup"}]
      BY DEF Init
    <2> QED
      BY <2>1, <2>2, <2>3, Zenon DEF Init, TypeOK, Places, Channels
  <1>2. TypeOK /\ [Next]_vars => TypeOK'
    <2> SUFFICES ASSUME TypeOK, [Next]_vars
                 PROVE  TypeOK'
      OBVIOUS
    <2> USE DEF TypeOK, Places, Channels
    <2>1. CASE loop
      BY <2>1 DEF loop, loopVars, kernelVars, history
    <2>2. CASE TestQuit
      BY <2>2 DEF TestQuit, loopVars, kernelVars, history
    <2>3. CASE EpollWait
      BY <2>3 DEF EpollWait, ReadyChannels, loopVars, history
    <2>4. CASE HandleWakeup
      BY <2>4 DEF HandleWakeup, loopVars, history
    <2>5. CASE HandleIo
      BY <2>5 DEF HandleIo, loopVars, history
    <2>6. CASE CallbackReturns
      BY <2>6 DEF CallbackReturns, loopVars, kernelVars, history
    <2>7. CASE SwapTasks
      BY <2>7, EmptySeq DEF SwapTasks, kernelVars, history
    <2>8. CASE RunTask
      <3>1. Head(tasks_dump) \in Tasks /\ Tail(tasks_dump) \in Seq(Tasks)
        BY <2>8, HeadTailProperties DEF RunTask
      <3>2. Append(executed, Head(tasks_dump)) \in Seq(Tasks)
        BY <3>1, AppendProperties
      <3> QED
        BY <2>8, <3>1, <3>2 DEF RunTask, kernelVars
    <2>9. CASE TaskReturns
      BY <2>9 DEF TaskReturns, loopVars, kernelVars, history
    <2>10. CASE TasksDone
      BY <2>10 DEF TasksDone, kernelVars, history
    <2>11. CASE wakeup_owner
      BY <2>11 DEF wakeup_owner, write_eventfd, loopVars, history
    <2>12. ASSUME NEW t \in Tasks, run_in_loop_owner(t)
           PROVE  TypeOK'
      BY <2>12 DEF run_in_loop_owner, loopVars, kernelVars
    <2>13. ASSUME NEW t \in Tasks, queue_in_loop_owner(t)
           PROVE  TypeOK'
      <3>1. pending_tasks_' \in Seq(Tasks) /\ queued' \in Seq(Tasks)
        BY <2>13, AppendProperties DEF queue_in_loop_owner, Push
      <3> QED
        BY <2>13, <3>1 DEF queue_in_loop_owner, kernelVars, InUserCode
    <2>14. CASE quit_owner
      BY <2>14 DEF quit_owner, kernelVars, history
    <2>15. ASSUME NEW th \in Threads, NEW t \in Tasks, queue_in_loop(th, t)
           PROVE  TypeOK'
      <3>1. pending_tasks_' \in Seq(Tasks) /\ queued' \in Seq(Tasks)
        BY <2>15, AppendProperties DEF queue_in_loop, Push
      <3> QED
        BY <2>15, <3>1 DEF queue_in_loop, kernelVars
    <2>16. ASSUME NEW th \in Threads, quit(th)
           PROVE  TypeOK'
      BY <2>16 DEF quit, kernelVars, history
    <2>17. ASSUME NEW th \in Threads, wakeup(th)
           PROVE  TypeOK'
      BY <2>17 DEF wakeup, write_eventfd, loopVars, history
    <2>18. CASE EpollInterrupted
      BY <2>18 DEF EpollInterrupted, loopVars, history
    <2>19. CASE IoBecomesReady
      BY <2>19 DEF IoBecomesReady, loopVars, history
    <2>20. CASE UNCHANGED vars
      BY <2>20 DEF vars, loopVars, kernelVars, history
    <2> QED
      BY <2>1, <2>2, <2>3, <2>4, <2>5, <2>6, <2>7, <2>8, <2>9, <2>10, <2>11,
         <2>12, <2>13, <2>14, <2>15, <2>16, <2>17, <2>18, <2>19, <2>20
         DEF Next, LoopStep, OwnerCall, ForeignCall
  <1> QED
    BY <1>1, <1>2, PTL DEF Spec

-----------------------------------------------------------------------------
\* TasksInOrder is inductive together with DumpInv: nothing is left in tasks_dump
\* when the next swap overwrites it.
LEMMA QueueInit == Init => DumpInv /\ TasksInOrder
  <1> SUFFICES ASSUME Init
               PROVE  TasksInOrder
    BY DEF Init, DumpInv
  <1> QED
    BY DEF Init, TasksInOrder

LEMMA QueueStep ==
  ASSUME TypeOK, DumpInv, TasksInOrder, [Next]_vars
  PROVE  DumpInv' /\ TasksInOrder'
  <1> USE DEF DumpInv, InBatch, TasksInOrder
  <1>1. CASE SwapTasks
    <2>1. tasks_dump = <<>> /\ pending_tasks_' = <<>> /\ tasks_dump' = pending_tasks_
      BY <1>1 DEF SwapTasks
    <2>2. <<>> \o pending_tasks_ = pending_tasks_ /\ pending_tasks_ \o <<>> = pending_tasks_
      BY ConcatEmptySeq DEF TypeOK
    <2> QED
      BY <1>1, <2>1, <2>2 DEF SwapTasks, history
  <1>2. CASE RunTask
    <2>0. /\ executed \in Seq(Tasks) /\ tasks_dump \in Seq(Tasks)
          /\ pending_tasks_ \in Seq(Tasks) /\ tasks_dump # <<>>
      BY <1>2 DEF RunTask, TypeOK
    <2>1. executed \o (tasks_dump \o pending_tasks_)
            = Append(executed, Head(tasks_dump)) \o (Tail(tasks_dump) \o pending_tasks_)
      BY <2>0, ConcatHeadTail
    <2> QED
      BY <1>2, <2>1 DEF RunTask
  <1>3. ASSUME NEW t \in Tasks, Push(t), UNCHANGED <<tasks_dump, executed>>
        PROVE  TasksInOrder'
    <2>1. /\ executed \in Seq(Tasks) /\ tasks_dump \in Seq(Tasks)
          /\ pending_tasks_ \in Seq(Tasks)
      BY DEF TypeOK
    <2>2. /\ Append(pending_tasks_, t) = pending_tasks_ \o <<t>>
          /\ Append(pending_tasks_, t) \in Seq(Tasks)
          /\ <<t>> \in Seq(Tasks)
      BY <2>1, AppendIsConcat
    <2>3. /\ tasks_dump \o pending_tasks_ \in Seq(Tasks)
          /\ executed \o (tasks_dump \o pending_tasks_) \in Seq(Tasks)
      BY <2>1
    <2>4. Append(executed \o (tasks_dump \o pending_tasks_), t)
            = (executed \o (tasks_dump \o pending_tasks_)) \o <<t>>
      BY <2>3
    <2>5. Append(executed \o (tasks_dump \o pending_tasks_), t)
            = executed \o (tasks_dump \o Append(pending_tasks_, t))
      BY <2>1, <2>2, <2>3, <2>4
    <2> QED
      BY <1>3, <2>5 DEF Push
  <1>4. ASSUME NEW t \in Tasks, queue_in_loop_owner(t)
        PROVE  DumpInv' /\ TasksInOrder'
    <2>1. TasksInOrder'
      BY <1>3, <1>4 DEF queue_in_loop_owner
    <2>2. /\ tasks_dump' = tasks_dump
          /\ \/ at' = at
             \/ at' = "wakeup" /\ at \in {"constructed", "callback", "task"}
      BY <1>4 DEF queue_in_loop_owner, InUserCode
    <2> QED
      BY <1>4, <2>1, <2>2 DEF queue_in_loop_owner, InUserCode
  <1>5. ASSUME NEW th \in Threads, NEW t \in Tasks, queue_in_loop(th, t)
        PROVE  DumpInv' /\ TasksInOrder'
    <2>1. TasksInOrder'
      BY <1>3, <1>5 DEF queue_in_loop
    <2> QED
      BY <1>5, <2>1 DEF queue_in_loop
  <1>6. CASE TasksDone
    BY <1>6 DEF TasksDone, history
  <1>7. CASE loop \/ TestQuit \/ CallbackReturns \/ TaskReturns
    BY <1>7 DEF loop, TestQuit, CallbackReturns, TaskReturns, loopVars, history
  <1>8. CASE EpollWait \/ EpollInterrupted \/ HandleWakeup \/ HandleIo \/ IoBecomesReady
    BY <1>8 DEF EpollWait, EpollInterrupted, HandleWakeup, HandleIo, IoBecomesReady,
                loopVars, history
  <1>9. CASE wakeup_owner \/ quit_owner
    BY <1>9 DEF wakeup_owner, quit_owner, loopVars, history
  <1>10. ASSUME NEW th \in Threads, quit(th) \/ wakeup(th)
         PROVE  DumpInv' /\ TasksInOrder'
    BY <1>10 DEF quit, wakeup, loopVars, history
  <1>11. ASSUME NEW t \in Tasks, run_in_loop_owner(t)
         PROVE  DumpInv' /\ TasksInOrder'
    BY <1>11 DEF run_in_loop_owner, loopVars
  <1>12. CASE UNCHANGED vars
    BY <1>12 DEF vars, loopVars, history
  <1> QED
    BY <1>1, <1>2, <1>4, <1>5, <1>6, <1>7, <1>8, <1>9, <1>10, <1>11, <1>12
       DEF Next, LoopStep, OwnerCall, ForeignCall

\* No task is lost, duplicated or reordered on its way through queue_in_loop and
\* do_pending_tasks, for any number of threads and tasks.
THEOREM TasksInOrderHolds == Spec => []TasksInOrder
  <1>1. Init => DumpInv /\ TasksInOrder
    BY QueueInit
  <1>2. TypeOK /\ DumpInv /\ TasksInOrder /\ [Next]_vars => DumpInv' /\ TasksInOrder'
    BY QueueStep
  <1> QED
    BY <1>1, <1>2, TypeCorrect, PTL DEF Spec

-----------------------------------------------------------------------------
\* The owner never blocks in epoll_wait while quit_ is set, unless the eventfd
\* is readable or its writer is on the way: quit() from any thread is noticed.
THEOREM NoLostQuitHolds == Spec => []NoLostQuit
  <1>1. Init => NoLostQuit
    BY DEF Init, NoLostQuit
  <1>2. TypeOK /\ NoLostQuit /\ [Next]_vars => NoLostQuit'
    <2> SUFFICES ASSUME TypeOK, NoLostQuit, [Next]_vars
                 PROVE  NoLostQuit'
      OBVIOUS
    <2> USE DEF NoLostQuit, WakeupInFlight
    <2>1. CASE loop \/ EpollWait \/ EpollInterrupted \/ HandleIo \/ CallbackReturns
                \/ SwapTasks \/ RunTask \/ TaskReturns \/ TasksDone \/ HandleWakeup
                \/ wakeup_owner
      BY <2>1 DEF loop, EpollWait, EpollInterrupted, HandleIo, CallbackReturns,
                  SwapTasks, RunTask, TaskReturns, TasksDone, HandleWakeup, wakeup_owner
    <2>2. CASE TestQuit
      BY <2>2 DEF TestQuit, loopVars
    <2>3. ASSUME NEW t \in Tasks, run_in_loop_owner(t) \/ queue_in_loop_owner(t)
          PROVE  NoLostQuit'
      BY <2>3 DEF run_in_loop_owner, queue_in_loop_owner, InUserCode
    <2>4. CASE quit_owner
      BY <2>4 DEF quit_owner, InUserCode
    <2>5. ASSUME NEW th \in Threads, quit(th)
          PROVE  NoLostQuit'
      BY <2>5 DEF quit, TypeOK
    <2>6. ASSUME NEW th \in Threads, NEW t \in Tasks, queue_in_loop(th, t)
          PROVE  NoLostQuit'
      BY <2>6 DEF queue_in_loop, TypeOK
    <2>7. ASSUME NEW th \in Threads, wakeup(th)
          PROVE  NoLostQuit'
      BY <2>7 DEF wakeup, write_eventfd
    <2>8. CASE IoBecomesReady
      BY <2>8 DEF IoBecomesReady, loopVars
    <2>9. CASE UNCHANGED vars
      BY <2>9 DEF vars, loopVars, kernelVars
    <2> QED
      BY <2>1, <2>2, <2>3, <2>4, <2>5, <2>6, <2>7, <2>8, <2>9
         DEF Next, LoopStep, OwnerCall, ForeignCall
  <1> QED
    BY <1>1, <1>2, TypeCorrect, PTL DEF Spec

-----------------------------------------------------------------------------
\* NoLostWakeup is inductive when it is extended to every place from which the
\* owner reaches epoll_wait without passing the swap, and joined with the
\* meaning TypeOK gives to doing_pending_tasks_.
LEMMA WakeupStep ==
  ASSUME ~QueueBeforeLoop, TypeOK, WakeupInv, [Next]_vars
  PROVE  WakeupInv'
  <1> USE DEF WakeupInv, WakeupInFlight
  <1>1. CASE loop \/ TestQuit \/ CallbackReturns \/ TaskReturns
    BY <1>1 DEF loop, TestQuit, CallbackReturns, TaskReturns, loopVars, kernelVars
  <1>2. CASE EpollWait \/ EpollInterrupted \/ HandleWakeup \/ HandleIo
    BY <1>2 DEF EpollWait, EpollInterrupted, HandleWakeup, HandleIo, loopVars
  <1>3. CASE SwapTasks
    BY <1>3 DEF SwapTasks
  <1>4. CASE RunTask
    BY <1>4 DEF RunTask, kernelVars
  <1>5. CASE TasksDone
    BY <1>5 DEF TasksDone, kernelVars
  <1>6. CASE wakeup_owner
    BY <1>6 DEF wakeup_owner, write_eventfd, loopVars
  <1>7. ASSUME NEW t \in Tasks, run_in_loop_owner(t)
        PROVE  WakeupInv'
    BY <1>7 DEF run_in_loop_owner, loopVars, kernelVars
  <1>8. ASSUME NEW t \in Tasks, queue_in_loop_owner(t)
        PROVE  WakeupInv'
    \* In a task the flag is set and wakeup() follows; in a callback the swap does.
    <2>1. CASE at = "task"
      BY <1>8, <2>1 DEF queue_in_loop_owner, TypeOK
    <2>2. CASE at = "callback"
      BY <1>8, <2>2 DEF queue_in_loop_owner, TypeOK
    <2> QED
      BY <1>8, <2>1, <2>2 DEF queue_in_loop_owner, InUserCode
  <1>9. CASE quit_owner
    BY <1>9 DEF quit_owner, kernelVars
  <1>10. ASSUME NEW th \in Threads, NEW t \in Tasks, queue_in_loop(th, t)
         PROVE  WakeupInv'
    BY <1>10 DEF queue_in_loop, TypeOK
  <1>11. ASSUME NEW th \in Threads, quit(th)
         PROVE  WakeupInv'
    BY <1>11 DEF quit, TypeOK
  <1>12. ASSUME NEW th \in Threads, wakeup(th)
         PROVE  WakeupInv'
    BY <1>12 DEF wakeup, write_eventfd, loopVars
  <1>13. CASE IoBecomesReady
    BY <1>13 DEF IoBecomesReady, loopVars
  <1>14. CASE UNCHANGED vars
    BY <1>14 DEF vars, loopVars, kernelVars
  <1> QED
    BY <1>1, <1>2, <1>3, <1>4, <1>5, <1>6, <1>7, <1>8, <1>9, <1>10, <1>11, <1>12,
       <1>13, <1>14 DEF Next, LoopStep, OwnerCall, ForeignCall

\* If the owner does not queue tasks before it calls loop(), it never blocks in
\* epoll_wait on a queued task without a wakeup there or under way: the test
\* !in_loop_thread() || doing_pending_tasks_ of queue_in_loop is enough.
THEOREM NoLostWakeupHolds ==
  ASSUME ~QueueBeforeLoop
  PROVE  Spec => []NoLostWakeup
  <1>1. Init => WakeupInv
    BY DEF Init, WakeupInv
  <1>2. TypeOK /\ WakeupInv /\ [Next]_vars => WakeupInv'
    BY WakeupStep
  <1>3. WakeupInv => NoLostWakeup
    BY DEF WakeupInv, NoLostWakeup
  <1> QED
    BY <1>1, <1>2, <1>3, TypeCorrect, PTL DEF Spec

-----------------------------------------------------------------------------
\* One step of the loop is a step of the executor or a stutter.
LEMMA ExecutorStep ==
  ASSUME TypeOK, TasksInOrder, [Next]_vars
  PROVE  [Executor!Next]_(Executor!vars)
  <1> USE DEF Executor!Next, Executor!vars
  <1>1. ASSUME NEW t \in Tasks, queue_in_loop_owner(t)
        PROVE  Executor!Submit(t)
    BY <1>1 DEF queue_in_loop_owner, Push, Executor!Submit
  <1>2. ASSUME NEW th \in Threads, NEW t \in Tasks, queue_in_loop(th, t)
        PROVE  Executor!Submit(t)
    BY <1>2 DEF queue_in_loop, Push, Executor!Submit
  <1>3. ASSUME RunTask
        PROVE  Executor!Execute
    \* By TasksInOrder the head of tasks_dump is the oldest task not executed.
    <2>1. /\ executed \in Seq(Tasks) /\ tasks_dump \in Seq(Tasks)
          /\ pending_tasks_ \in Seq(Tasks) /\ tasks_dump # <<>>
          /\ queued = executed \o (tasks_dump \o pending_tasks_)
      BY <1>3 DEF RunTask, TypeOK, TasksInOrder
    <2>2. Len(executed) < Len(queued) /\ queued[Len(executed) + 1] = Head(tasks_dump)
      BY <2>1
    <2> QED
      BY <1>3, <2>2 DEF RunTask, Executor!Execute
  <1>4. ASSUME quit_owner \/ \E th \in Threads : quit(th)
        PROVE  Executor!Stop
    BY <1>4 DEF quit_owner, quit, history, Executor!Stop
  <1>5. CASE \/ loop \/ TestQuit \/ EpollWait \/ EpollInterrupted \/ HandleWakeup
             \/ HandleIo \/ CallbackReturns \/ TaskReturns \/ wakeup_owner
             \/ IoBecomesReady
    BY <1>5 DEF loop, TestQuit, EpollWait, EpollInterrupted, HandleWakeup, HandleIo,
                CallbackReturns, TaskReturns, wakeup_owner, IoBecomesReady,
                loopVars, history
  <1>6. CASE SwapTasks \/ TasksDone \/ \E t \in Tasks : run_in_loop_owner(t)
    BY <1>6 DEF SwapTasks, TasksDone, run_in_loop_owner, loopVars, history
  <1>7. CASE \E th \in Threads : wakeup(th)
    BY <1>7 DEF wakeup, loopVars, history
  <1>8. CASE UNCHANGED vars
    BY <1>8 DEF vars, loopVars, history
  <1> QED
    BY <1>1, <1>2, <1>3, <1>4, <1>5, <1>6, <1>7, <1>8
       DEF Next, LoopStep, OwnerCall, ForeignCall

\* The loop implements the safety part of the executor that TcpServer and
\* TcpConnection rely on: queued tasks run at most once and in order.
THEOREM ExecutorSafety == Spec => Executor!SafeSpec
  <1>1. Init => Executor!Init
    BY DEF Init, Executor!Init
  <1>2. TypeOK /\ TasksInOrder /\ [Next]_vars => [Executor!Next]_(Executor!vars)
    BY ExecutorStep
  <1> QED
    BY <1>1, <1>2, TypeCorrect, TasksInOrderHolds, PTL DEF Spec, Executor!SafeSpec
=============================================================================
