----------------------------- MODULE TimerQueue -----------------------------
(***************************************************************************)
(* wuduo/timer_queue.{h,cpp} and timer.h: the timers of one EventLoop,     *)
(* kept in a set ordered by due time and driven by one timerfd.            *)
(*                                                                         *)
(* run_after computes the due time in the calling thread; the insertion    *)
(* runs in the loop thread, later.  Time passes between any two steps, in  *)
(* particular between the two, and while callbacks run.  The constant Late *)
(* says whether it can pass so far that a due time is over before the      *)
(* alarm for it is set.  One clock stands for system_clock and             *)
(* CLOCK_MONOTONIC: jumps of the former are not modelled.  Repetition is   *)
(* not implemented in the code (interval_ is stored and never read), so a  *)
(* timer runs once.                                                        *)
(***************************************************************************)
EXTENDS Naturals, FiniteSets

CONSTANTS
  Timers,     \* the timers; each is requested at most once
  Delays,     \* the delays users ask for
  MaxTime,    \* bound: the last instant
  Late        \* due times may pass before the alarm is set

ASSUME TimeAssumption == MaxTime \in Nat /\ Delays \subseteq Nat
ASSUME LateAssumption == Late \in BOOLEAN

VARIABLES
  now,
  requests,   \* entries on their way to the loop: run_after called, not inserted
  timers_,    \* entries [when, timer]
  alarm,      \* the timerfd: the instant it expires, or Off
  expired_fd, \* the timerfd is readable
  at,         \* the loop: idle, running the expired timers, or in a callback
  expired,    \* local of handle_read: extracted, not run yet
  due,        \* history: the due time of each requested timer
  runs        \* history: how often each timer ran

timerfdVars == <<alarm, expired_fd>>
history == <<due, runs>>
vars == <<now, requests, timers_, timerfdVars, at, expired, history>>

Off == MaxTime + 1    \* an instant that is never reached
Instants == 0..MaxTime
Entries == [when : Instants, timer : Timers]

TypeOK ==
  /\ now \in Instants
  /\ requests \in SUBSET Entries
  /\ timers_ \in SUBSET Entries
  /\ alarm \in Instants \cup {Off}
  /\ expired_fd \in BOOLEAN
  /\ at \in {"idle", "run", "callback"}
  /\ expired \in SUBSET Entries
  /\ due \in [Timers -> Instants \cup {Off}]
  /\ runs \in [Timers -> Nat]

Init ==
  /\ now = 0
  /\ requests = {}
  /\ timers_ = {}
  /\ alarm = Off
  /\ expired_fd = FALSE
  /\ at = "idle"
  /\ expired = {}
  /\ due = [t \in Timers |-> Off]
  /\ runs = [t \in Timers |-> 0]

\* e is (one of) the first of S in the order of entry_comparator; entries with
\* equal due times are ordered by address, that is, arbitrarily.
IsFirst(e, S) == e \in S /\ \A x \in S : e.when <= x.when

-----------------------------------------------------------------------------
\* The timerfd expires when its instant comes.
Tick ==
  /\ now < MaxTime
  /\ Late \/ (at = "idle" /\ \A e \in requests : now + 1 < e.when)
  /\ now' = now + 1
  /\ IF alarm = now + 1
     THEN alarm' = Off /\ expired_fd' = TRUE
     ELSE UNCHANGED timerfdVars
  /\ UNCHANGED <<requests, timers_, at, expired, history>>

\* Gives the due time itself to timerfd_settime instead of the delta.
MutantResetAlarm(near_future) == alarm' = now + near_future /\ expired_fd' = FALSE

\* timerfd_settime with the delta to now: a positive one arms the timerfd, zero
\* disarms it, and a negative one is refused with EINVAL, which nobody looks at.
\* Success also forgets an expiration that has not been read.
reset_alarm(near_future) ==
  IF near_future < now THEN UNCHANGED timerfdVars
  ELSE /\ alarm' = IF near_future = now THEN Off ELSE near_future
       /\ expired_fd' = FALSE

\* run_after (run_at with a due time of now + delay), in any thread.
run_after(t, delay) ==
  /\ due[t] = Off
  /\ now + delay <= MaxTime
  /\ Late \/ delay > 0
  /\ requests' = requests \cup {[when |-> now + delay, timer |-> t]}
  /\ due' = [due EXCEPT ![t] = now + delay]
  /\ UNCHANGED <<now, timers_, timerfdVars, at, expired, runs>>

\* Sets the alarm for the first timer only.
MutantAddTimer(e) ==
  /\ at \in {"idle", "callback"} /\ e \in requests
  /\ requests' = requests \ {e}
  /\ IF timers_ = {} THEN reset_alarm(e.when) ELSE UNCHANGED timerfdVars
  /\ timers_' = timers_ \cup {e}
  /\ UNCHANGED <<now, at, expired, history>>

\* The closure of add_timer, in the loop thread: a task, or part of a callback.
add_timer(e) ==
  /\ at \in {"idle", "callback"} /\ e \in requests
  /\ requests' = requests \ {e}
  /\ IF \A x \in timers_ : e.when < x.when
     THEN reset_alarm(e.when) ELSE UNCHANGED timerfdVars
  /\ timers_' = timers_ \cup {e}
  /\ UNCHANGED <<now, at, expired, history>>

\* Extracts the timers due before now only.
MutantGetExpired == {e \in timers_ : e.when < now}

\* Extracts everything.
MutantGetAll == timers_

get_expired == {e \in timers_ : e.when <= now}

\* handle_read: the read of the timerfd and get_expired.
handle_read ==
  /\ at = "idle" /\ expired_fd
  /\ expired_fd' = FALSE
  /\ expired' = get_expired
  /\ timers_' = timers_ \ get_expired
  /\ at' = "run"
  /\ UNCHANGED <<now, requests, alarm, history>>

\* e.second->run()
RunTimer ==
  /\ at = "run"
  /\ \E e \in expired :
       /\ IsFirst(e, expired)
       /\ expired' = expired \ {e}
       /\ runs' = [runs EXCEPT ![e.timer] = @ + 1]
  /\ at' = "callback"
  /\ UNCHANGED <<now, requests, timers_, timerfdVars, due>>

CallbackReturns ==
  /\ at = "callback"
  /\ at' = "run"
  /\ UNCHANGED <<now, requests, timers_, timerfdVars, expired, history>>

\* The end of handle_read sets the alarm for the next timer.
HandleReadEnds ==
  /\ at = "run" /\ expired = {}
  /\ \/ timers_ = {} /\ UNCHANGED timerfdVars
     \/ \E e \in timers_ : IsFirst(e, timers_) /\ reset_alarm(e.when)
  /\ at' = "idle"
  /\ UNCHANGED <<now, requests, timers_, expired, history>>

-----------------------------------------------------------------------------
LoopStep ==
  \/ handle_read \/ RunTimer \/ CallbackReturns \/ HandleReadEnds
  \/ \E e \in requests : add_timer(e)

Next ==
  \/ Tick
  \/ \E t \in Timers, delay \in Delays : run_after(t, delay)
  \/ LoopStep

\* Time goes on and the loop's thread is scheduled; callbacks return.  By
\* EventLoop's ImplementsExecutor a request reaches the loop.
Fairness == WF_vars(Tick) /\ WF_vars(LoopStep)

Spec == Init /\ [][Next]_vars /\ Fairness

-----------------------------------------------------------------------------
(***************************************************************************)
(* Properties.                                                             *)
(***************************************************************************)

\* An idle loop with timers in its queue has the timerfd readable or set for the
\* first of them: reset_alarm in add_timer and at the end of handle_read is enough.
NoLostAlarm ==
  at = "idle" /\ timers_ # {} =>
    expired_fd \/ \E e \in timers_ : IsFirst(e, timers_) /\ alarm = e.when

\* No timer runs before it is due, and none runs twice.
RunsOnceWhenDue ==
  [][\A t \in Timers : runs'[t] # runs[t] => runs'[t] = 1 /\ now >= due[t]]_vars

\* Every timer that was asked for runs.
TimersRun == \A t \in Timers : due[t] # Off ~> runs[t] = 1
=============================================================================
