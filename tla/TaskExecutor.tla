---------------------------- MODULE TaskExecutor ----------------------------
(***************************************************************************)
(* What an EventLoop promises to the threads that hand it tasks: every     *)
(* task given to queue_in_loop is executed at most once, in the order in   *)
(* which the tasks were queued, and, until the loop is told to quit, every *)
(* queued task is executed.                                                *)
(*                                                                         *)
(* The rest of the library (TcpServer, TcpConnection, TimerQueue) relies   *)
(* on exactly this when it sends a closure to another loop.                *)
(***************************************************************************)
EXTENDS Naturals, Sequences

CONSTANT Tasks     \* the closures that are ever submitted

VARIABLES
  queued,          \* every task queued so far, in order
  executed,        \* every queued task executed so far, in order
  stopped          \* quit() has been called

vars == <<queued, executed, stopped>>

Init ==
  /\ queued = <<>>
  /\ executed = <<>>
  /\ stopped = FALSE

\* A thread hands over one more task.
Submit(t) ==
  /\ queued' = Append(queued, t)
  /\ UNCHANGED <<executed, stopped>>

\* The oldest task not executed yet is executed.
Execute ==
  /\ Len(executed) < Len(queued)
  /\ executed' = Append(executed, queued[Len(executed) + 1])
  /\ UNCHANGED <<queued, stopped>>

Stop ==
  /\ stopped' = TRUE
  /\ UNCHANGED <<queued, executed>>

Next ==
  \/ \E t \in Tasks : Submit(t)
  \/ Execute
  \/ Stop

\* Until it is stopped, the executor does not leave queued tasks behind.
Fairness == WF_vars(~stopped /\ Execute)

SafeSpec == Init /\ [][Next]_vars

Spec == SafeSpec /\ Fairness
=============================================================================
