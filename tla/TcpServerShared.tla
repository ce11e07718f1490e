-------------------------- MODULE TcpServerShared --------------------------
(***************************************************************************)
(* TcpServer with user code that calls a connection from outside the       *)
(* connection's own callbacks, through a shared_ptr it kept:               *)
(*                                                                         *)
(*   - TimerCalls: a timer of the same io loop (an idle timeout, a         *)
(*     heartbeat), whose callback runs between two channels of a batch,    *)
(*     at the place in it where epoll_wait put the timerfd's channel;      *)
(*   - ForeignCalls: a thread other than the loop's.  send, shutdown and   *)
(*     force_close test state_ there, set it there, and queue a closure    *)
(*     that captures this; nothing orders these accesses to state_ with    *)
(*     the loop's, so each is a step.  The closure of send captures a copy *)
(*     of the message as well.                                             *)
(***************************************************************************)
EXTENDS TcpServer

CONSTANTS
  TimerCalls,       \* timers of the io loop call connections
  ForeignCalls      \* bound: how many calls the foreign thread makes

ASSUME CallsAssumption == TimerCalls \in BOOLEAN /\ ForeignCalls \in Nat

VARIABLES
  caller,           \* the foreign thread: the call it is in and how far it is
  timer_active      \* the loops in whose batch the timerfd's channel still is

sharedVars == <<caller, timer_active>>
allVars == <<vars, sharedVars>>

\* Outside its calls, of which it may still make n.
Outside(n) == [op |-> "none", conn |-> "none", stage |-> "outside", left |-> n]

InitShared ==
  /\ Init
  /\ caller = Outside(ForeignCalls)
  /\ timer_active = {}

-----------------------------------------------------------------------------
(* The timers of an io loop l; TimerQueue has what they are. *)

\* epoll_wait returns the timerfd, with whatever else is ready.
timer_expires(l) ==
  /\ TimerCalls /\ at[l] = "wait"
  /\ active' = [active EXCEPT ![l] = ReadyChannels(l)]
  /\ timer_active' = timer_active \cup {l}
  /\ at' = [at EXCEPT ![l] = "handle"]
  /\ UNCHANGED <<serverVars, conn, user_refs, socketVars, cur, pending, dump, retained,
                 fault, caller>>

\* TimerQueue::handle_read, which runs the callbacks
timer_handle_read(l) ==
  /\ at[l] = "handle" /\ l \in timer_active
  /\ timer_active' = timer_active \ {l}
  /\ at' = [at EXCEPT ![l] = "timer"]
  /\ UNCHANGED <<serverVars, conn, user_refs, socketVars, active, cur, pending, dump,
                 retained, fault, caller>>

timer_returns(l) ==
  /\ at[l] = "timer"
  /\ at' = [at EXCEPT ![l] = "handle"]
  /\ UNCHANGED <<serverVars, conn, user_refs, socketVars, active, cur, pending, dump,
                 retained, fault, sharedVars>>

InTimer(l, c) == at[l] = "timer" /\ c \in user_refs /\ conn[c].loop = l

timer_force_close(l, c) ==
  /\ InTimer(l, c)
  /\ Closable(conn[c])
  /\ Close(c, Disconnecting(conn[c]))
  /\ UNCHANGED <<serverVars, socketVars, at, active, cur, dump, retained, fault, sharedVars>>

\* send_in_loop of the message on c, whose record is r by then, whichever closure or
\* callback calls it.
SendNow(c, r, message) ==
  \E n \in WriteOutcomes(c, MessageUnits) :
    /\ conn' = [conn EXCEPT ![c] = send_in_loop(r, message, n)]
    /\ \E b \in IF r.state # "kDisconnected" /\ WritesDirectly(r)
                THEN RoomAfter(n, MessageUnits) ELSE {room[c]} :
         room' = [room EXCEPT ![c] = b]

timer_send(l, c) ==
  /\ InTimer(l, c)
  /\ conn[c].state = "kConnected" /\ MaySend(c)
  /\ SendNow(c, Given(conn[c], "loop"), Message(conn[c], "loop"))
  /\ UNCHANGED <<serverVars, user_refs, peer, chunks, loopVars, fault, sharedVars>>

-----------------------------------------------------------------------------
(* The foreign thread. *)

\* The test of state_ at the head of each method.
Passes(op, c) ==
  CASE op = "send" -> conn[c].state = "kConnected"
    [] op = "shutdown" -> conn[c].state = "kConnected"
    [] op = "force_close" -> Closable(conn[c])

foreign_test(op, c) ==
  /\ caller.stage = "outside" /\ caller.left > 0 /\ c \in user_refs
  /\ Passes(op, c)
  /\ caller' = [op |-> op, conn |-> c, stage |-> IF op = "send" THEN "queue" ELSE "set",
                left |-> caller.left - 1]
  /\ UNCHANGED <<vars, timer_active>>

\* set_state(kDisconnecting)
foreign_set_state ==
  /\ caller.stage = "set"
  /\ conn' = [conn EXCEPT ![caller.conn] = Disconnecting(@)]
  /\ caller' = [caller EXCEPT !.stage = "queue"]
  /\ UNCHANGED <<serverVars, user_refs, socketVars, loopVars, fault, timer_active>>

\* loop_->run_in_loop([this] ...), which from outside the loop is queue_in_loop
Queue(task) ==
  /\ caller.stage = "queue"
  /\ pending' = [pending EXCEPT ![conn[caller.conn].loop] = Append(@, task)]
  /\ caller' = Outside(caller.left)
  /\ UNCHANGED <<serverVars, user_refs, socketVars, at, active, cur, dump, retained,
                 fault, timer_active>>

foreign_run_in_loop ==
  /\ caller.op # "send"
  /\ Queue(Task(caller.op, caller.conn))
  /\ UNCHANGED conn

SendTask(c, message) == [kind |-> "send", conn |-> c, message |-> message]

\* The same in send: its bytes count as given from here on.
foreign_send ==
  LET c == caller.conn
  IN /\ caller.op = "send"
     /\ Queue(SendTask(c, Message(conn[c], "other")))
     /\ conn' = [conn EXCEPT ![c] = Given(@, "other")]

\* The pointer a method was called through is not dropped during the call.
release_shared(c) == caller.conn # c /\ release(c) /\ UNCHANGED sharedVars

-----------------------------------------------------------------------------
(* The closures that capture this, executed by loop l. *)

\* Dereferences this.
Touch(c) == fault' = IF Destroyed(c) THEN "dangling" ELSE fault

force_close_task(l, c) ==
  /\ NextTask(l, "force_close", c)
  /\ Touch(c)
  /\ IF Closable(conn[c]) /\ ~Destroyed(c) THEN Close(c, conn[c])
     ELSE UNCHANGED <<conn, pending, user_refs>>
  /\ UNCHANGED <<serverVars, socketVars, at, active, cur, sharedVars>>

shutdown_task(l, c) ==
  /\ NextTask(l, "shutdown", c)
  /\ Touch(c)
  /\ conn' = [conn EXCEPT ![c] = shutdown_in_loop(@)]
  /\ UNCHANGED <<serverVars, user_refs, socketVars, at, active, cur, pending, sharedVars>>

send_task(l) ==
  /\ at[l] = "tasks" /\ dump[l] # <<>>
  /\ LET task == Head(dump[l])
     IN /\ task.kind = "send"
        /\ Touch(task.conn)
        /\ SendNow(task.conn, conn[task.conn], task.message)
  /\ dump' = [dump EXCEPT ![l] = Tail(@)]
  /\ UNCHANGED <<serverVars, user_refs, peer, chunks, at, active, cur, pending, retained,
                 sharedVars>>

-----------------------------------------------------------------------------
TimerStep(l) ==
  \/ timer_expires(l) \/ timer_handle_read(l) \/ timer_returns(l)
  \/ \E c \in Conns : timer_force_close(l, c) \/ timer_send(l, c)

ClosureStep(l) ==
  \/ \E c \in Conns : force_close_task(l, c) \/ shutdown_task(l, c)
  \/ send_task(l)

ForeignStep ==
  \/ \E op \in {"send", "shutdown", "force_close"}, c \in Conns : foreign_test(op, c)
  \/ foreign_set_state
  \/ foreign_run_in_loop
  \/ foreign_send

\* All channels of the batch are handled before the tasks.
BatchBeforeTasks(l) == at[l] = "handle" /\ active[l] = {} => l \notin timer_active

NextShared ==
  /\ fault = "none"
  /\ \/ /\ \/ start \/ BaseStep
           \/ \E l \in Loops : (LoopStep(l) /\ BatchBeforeTasks(l)) \/ UserCall(l)
           \/ \E c \in Conns : Environment(c)
        /\ UNCHANGED sharedVars
     \/ \E c \in Conns : release_shared(c)
     \/ \E l \in IoLoops : TimerStep(l) \/ ClosureStep(l)
     \/ ForeignStep

SpecShared == InitShared /\ [][NextShared]_allVars

-----------------------------------------------------------------------------
(* Properties *)

\* The closures still to be executed by the loop of c
QueuedFor(c) ==
  LET l == conn[c].loop
  IN {dump[l][i] : i \in 1..Len(dump[l])} \cup {pending[l][i] : i \in 1..Len(pending[l])}

\* The bytes of every thread leave in the order in which it gave them to send, and no
\* message is torn apart by one of the other thread, whichever closures, direct
\* writes and partial writes they went through.
InCallOrder(s) ==
  /\ \A i, j \in 1..Len(s) : i < j /\ s[i].by = s[j].by => s[i].nr < s[j].nr
  /\ \A i \in 1..Len(s) :
       s[i].nr % MessageUnits # 0 =>
         i < Len(s) /\ s[i + 1] = Numbered(s[i].by, s[i].nr + 1)

\* Until the first handle_close, a byte that was given is in the stream or in a closure.
NoByteLost(c) ==
  conn[c].closed = 0 =>
    \A s \in Senders : \A n \in 1..conn[c].sent[s] :
      \/ \E i \in 1..Len(Stream(conn[c])) : Stream(conn[c])[i] = Numbered(s, n)
      \/ \E t \in QueuedFor(c) :
           t.kind = "send" /\ t.conn = c
           /\ \E i \in 1..MessageUnits : t.message[i] = Numbered(s, n)

\* send may be called on any thread (tcp_connection.cpp:66, :80 queue a closure with a
\* copy): each thread's bytes arrive whole and in the order of its calls.
SendersInOrder == \A c \in Conns : InCallOrder(Stream(conn[c])) /\ NoByteLost(c)
=============================================================================
