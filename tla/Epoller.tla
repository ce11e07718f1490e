-------------------------------- MODULE Epoller --------------------------------
(***************************************************************************)
(* wuduo::Channel and wuduo::Epoller: which descriptors are in the         *)
(* interest list of epoll, for which events, and how ready ones reach      *)
(* their channel, from the construction to the destruction of a channel.   *)
(*                                                                         *)
(* The thread of the loop waits, handles the ready channels and runs       *)
(* tasks.  Callbacks and tasks enable and disable any channel.  The        *)
(* callers keep to what channel.h:52-54 asks: nothing is disabled on a     *)
(* channel that is not enabled.                                            *)
(*                                                                         *)
(* Channels come and go in tasks, as those of connections do.  That of a   *)
(* connection may go later: once destroyed() has run in a task, the last   *)
(* shared_ptr is dropped by the user, in a callback or on another thread.  *)
(* A channel that is still enabled may be destroyed too, since the owners  *)
(* EventLoop, TimerQueue and Acceptor never disable theirs.                *)
(***************************************************************************)
EXTENDS Naturals, FiniteSets

CONSTANTS
  Channels,
  Interest,        \* "in" (EPOLLIN, EPOLLPRI) and "out" (EPOLLOUT)
  InitialEvents,   \* kDefaultEventsOutputSize
  CtlFails         \* whether epoll_ctl may fail for want of resources

ASSUME EpollerAssumption ==
  /\ Interest \subseteq {"in", "out"}
  /\ InitialEvents \in Nat
  /\ InitialEvents > 1
  /\ CtlFails \in BOOLEAN

VARIABLES
  at,                  \* where the loop is: "wait", "handle", "callback" or "tasks"
  alive,               \* the channels that are constructed
  released,            \* the channels of connections that only the user keeps
  events_,             \* of each channel
  in_interest_list_,   \* of each channel
  kernel,              \* the interest list of epoll; a channel with {} is not in it
  level,               \* what each descriptor is ready for
  active_channels,     \* the rest of the current batch
  max_events,          \* Epoller::events_.size()
  fault                \* the assertion that failed, if any

channelVars == <<alive, released, events_, in_interest_list_, kernel>>
vars == <<at, channelVars, level, active_channels, max_events, fault>>

Init ==
  /\ at = "tasks"
  /\ alive = {}
  /\ released = {}
  /\ events_ = [c \in Channels |-> {}]
  /\ in_interest_list_ = [c \in Channels |-> FALSE]
  /\ kernel = [c \in Channels |-> {}]
  /\ level = [c \in Channels |-> {}]
  /\ active_channels = {}
  /\ max_events = InitialEvents
  /\ fault = "none"

-------------------------------------------------------------------------------
(* Updates of the interest list *)

\* Takes a removed channel for one that is still there.
MutantOp(c, ev) == IF ~in_interest_list_[c] THEN "ADD" ELSE "MOD"

\* ctl_op_from, when its assertion holds
Op(c, ev) == CASE ~in_interest_list_[c] -> "ADD"
               [] in_interest_list_[c] /\ ev = {} -> "DEL"
               [] OTHER -> "MOD"

\* The kernel refuses what does not fit the interest list.
Refused(c, op) == (op = "ADD") # (kernel[c] = {})

set_state_in_interest_list(c, op) ==
  in_interest_list_' = [in_interest_list_ EXCEPT ![c] = (op # "DEL")]

\* Epoller::update_channel of a channel whose events_ are now ev
update_channel(c, ev) ==
  IF ~in_interest_list_[c] /\ ev = {}
  THEN /\ fault' = "ctl_op_from"
       /\ UNCHANGED <<in_interest_list_, kernel>>
  ELSE /\ UNCHANGED fault
       /\ \/ /\ ~Refused(c, Op(c, ev))
             /\ kernel' = [kernel EXCEPT ![c] = ev]
             /\ set_state_in_interest_list(c, Op(c, ev))
          \/ /\ CtlFails \/ Refused(c, Op(c, ev))
             /\ UNCHANGED <<in_interest_list_, kernel>>

InLoopThread == fault = "none" /\ at \in {"callback", "tasks"}

Update(c, ev) ==
  /\ InLoopThread
  /\ c \in alive \ released
  /\ events_' = [events_ EXCEPT ![c] = ev]
  /\ update_channel(c, ev)
  /\ UNCHANGED <<at, alive, released, level, active_channels, max_events>>

\* enable_reading, enable_writing
enable(c, e) == Update(c, events_[c] \cup {e})

\* disable_reading, disable_writing
disable(c, e) == events_[c] # {} /\ Update(c, events_[c] \ {e})

disable_all(c) == events_[c] # {} /\ Update(c, {})

Construct(c) ==
  /\ fault = "none"
  /\ at = "tasks"
  /\ c \notin alive
  /\ alive' = alive \cup {c}
  /\ UNCHANGED <<at, released, events_, in_interest_list_, kernel, level, active_channels,
                 max_events, fault>>

\* The connection lets go of its channel in the callback that closes it.
MutantRelease(c) ==
  /\ InLoopThread
  /\ c \in alive
  /\ events_[c] = {}
  /\ released' = released \cup {c}
  /\ UNCHANGED <<at, alive, events_, in_interest_list_, kernel, level, active_channels,
                 max_events, fault>>

\* destroyed() has run for the connection and removed the channel: nobody but the
\* user holds the connection any more.
Release(c) ==
  /\ fault = "none"
  /\ at = "tasks"
  /\ c \in alive
  /\ events_[c] = {}
  /\ released' = released \cup {c}
  /\ UNCHANGED <<at, alive, events_, in_interest_list_, kernel, level, active_channels,
                 max_events, fault>>

\* ~Channel, then the owner's descriptor is closed
Destroy(c) ==
  /\ fault = "none"
  /\ c \in alive
  /\ at = "tasks" \/ c \in released
  /\ IF in_interest_list_[c]
     THEN /\ fault' = "~Channel"
          /\ UNCHANGED channelVars
     ELSE IF events_[c] # {}
     THEN /\ events_' = [events_ EXCEPT ![c] = {}]
          /\ update_channel(c, {})
          /\ UNCHANGED <<alive, released>>
     ELSE /\ alive' = alive \ {c}
          /\ released' = released \ {c}
          /\ kernel' = [kernel EXCEPT ![c] = {}]
          /\ UNCHANGED <<events_, in_interest_list_, fault>>
  /\ UNCHANGED <<at, level, active_channels, max_events>>

-------------------------------------------------------------------------------
(* The loop *)

Ready == {c \in Channels : kernel[c] \cap level[c] # {}}

\* events_ never gets larger.
MutantGrown(num_ready) == max_events

Grown(num_ready) == IF num_ready = max_events THEN (3 * max_events) \div 2 ELSE max_events

\* Epoller::wait: epoll_wait returns as many of the ready channels as fit,
\* whichever it likes.
wait ==
  /\ fault = "none"
  /\ at = "wait"
  /\ Ready # {}
  /\ \E batch \in SUBSET Ready :
       /\ Cardinality(batch) = IF Cardinality(Ready) <= max_events
                               THEN Cardinality(Ready) ELSE max_events
       /\ active_channels' = batch
       /\ max_events' = Grown(Cardinality(batch))
  /\ at' = "handle"
  /\ UNCHANGED <<channelVars, level, fault>>

\* epoll_wait is interrupted by a signal.
Interrupted ==
  /\ fault = "none"
  /\ at = "wait"
  /\ at' = "tasks"
  /\ UNCHANGED <<channelVars, level, active_channels, max_events, fault>>

\* handle_events calls the callback of the next channel.
handle_events(c) ==
  /\ fault = "none"
  /\ at = "handle"
  /\ c \in active_channels
  /\ active_channels' = active_channels \ {c}
  /\ at' = "callback"
  /\ UNCHANGED <<channelVars, level, max_events, fault>>

CallbackReturns ==
  /\ fault = "none"
  /\ at = "callback"
  /\ at' = IF active_channels = {} THEN "tasks" ELSE "handle"
  /\ UNCHANGED <<channelVars, level, active_channels, max_events, fault>>

TasksDone ==
  /\ fault = "none"
  /\ at = "tasks"
  /\ at' = "wait"
  /\ UNCHANGED <<channelVars, level, active_channels, max_events, fault>>

\* The peer, the clock or the kernel makes a descriptor ready or not.
LevelChanges(c) ==
  /\ fault = "none"
  /\ \E l \in SUBSET Interest : level' = [level EXCEPT ![c] = l]
  /\ UNCHANGED <<at, channelVars, active_channels, max_events, fault>>

Next ==
  \/ \E c \in Channels :
       \/ \E e \in Interest : enable(c, e) \/ disable(c, e)
       \/ disable_all(c)
       \/ Construct(c)
       \/ Release(c)
       \/ Destroy(c)
       \/ handle_events(c)
       \/ LevelChanges(c)
  \/ wait
  \/ Interrupted
  \/ CallbackReturns
  \/ TasksDone

\* The thread of the loop is scheduled, callbacks and tasks return, and
\* epoll_wait returns when something is ready.  Signals do not come for ever.
Fairness ==
  /\ WF_vars(CallbackReturns)
  /\ WF_vars(TasksDone)
  /\ SF_vars(wait)
  /\ \A c \in Channels : WF_vars(handle_events(c))

Spec == Init /\ [][Next]_vars /\ Fairness

-------------------------------------------------------------------------------
(* Properties *)

\* The type of the state; a channel that waits to be handled is alive.
TypeOK ==
  /\ at \in {"wait", "handle", "callback", "tasks"}
  /\ alive \subseteq Channels
  /\ released \subseteq alive
  /\ events_ \in [Channels -> SUBSET Interest]
  /\ in_interest_list_ \in [Channels -> BOOLEAN]
  /\ kernel \in [Channels -> SUBSET Interest]
  /\ level \in [Channels -> SUBSET Interest]
  /\ active_channels \subseteq alive
  /\ max_events \in Nat
  /\ fault \in {"none", "ctl_op_from", "~Channel"}

\* The kernel watches a channel exactly for its events_, and in_interest_list_
\* says whether it does, through any sequence of additions, changes, removals
\* and additions again.
InterestAgrees ==
  \A c \in Channels :
    /\ kernel[c] = events_[c]
    /\ in_interest_list_[c] = (kernel[c] # {})

\* Also when epoll_ctl fails, which is only logged, in_interest_list_ tells whether
\* epoll has the channel: the next update adds, changes or removes as it has to.
ListedMeansWatched ==
  \A c \in Channels : in_interest_list_[c] <=> kernel[c] # {}

\* A channel that stays ready is handled again and again, also when more
\* channels are ready than events_ of the Epoller has room for.
Served ==
  \A c \in Channels : <>[](fault = "none" /\ c \in Ready) => []<>(c \in active_channels)

===============================================================================
