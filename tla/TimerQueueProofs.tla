-------------------------- MODULE TimerQueueProofs --------------------------
(***************************************************************************)
(* Proofs about TimerQueue for any timers, delays and length of time.      *)
(***************************************************************************)
EXTENDS TimerQueue, TLAPS

\* Due times that have not been reached: of the requests, and, while handle_read is
\* running the expired timers, of those that stay in the queue.
RequestsAhead == \A e \in requests : now < e.when
QueueAhead == at # "idle" => \A e \in timers_ : now < e.when

\* A timer is in at most one place, with its due time, and has not run yet if it is.
Live == requests \cup timers_ \cup expired
LiveInv ==
  /\ \A e \in Live : due[e.timer] = e.when /\ runs[e.timer] = 0
  /\ requests \cap timers_ = {} /\ requests \cap expired = {} /\ timers_ \cap expired = {}
  /\ \A e \in expired : e.when <= now
  /\ \A t \in Timers : due[t] = Off => runs[t] = 0

-----------------------------------------------------------------------------
\* TypeOK is an invariant.
THEOREM TypeCorrect == Spec => []TypeOK
  <1> USE TimeAssumption, LateAssumption DEF Off, Instants, Entries
  <1>1. Init => TypeOK
    <2> SUFFICES ASSUME Init
                 PROVE  TypeOK
      OBVIOUS
    <2>1. now \in Instants /\ alarm \in Instants \cup {Off}
      BY DEF Init
    <2>2. due \in [Timers -> Instants \cup {Off}] /\ runs \in [Timers -> Nat]
      BY DEF Init
    <2> QED
      BY <2>1, <2>2, Zenon DEF Init, TypeOK
  <1>2. TypeOK /\ [Next]_vars => TypeOK'
    <2> SUFFICES ASSUME TypeOK, [Next]_vars
                 PROVE  TypeOK'
      OBVIOUS
    <2> USE DEF TypeOK
    <2>1. CASE Tick
      <3>1. now' \in Instants
        BY <2>1 DEF Tick
      <3>2. alarm' \in Instants \cup {Off} /\ expired_fd' \in BOOLEAN
        <4>1. CASE alarm = now + 1
          BY <2>1, <4>1 DEF Tick
        <4>2. CASE alarm # now + 1
          BY <2>1, <4>2 DEF Tick, timerfdVars
        <4> QED
          BY <4>1, <4>2
      <3> QED
        BY <2>1, <3>1, <3>2 DEF Tick, history
    <2>2. ASSUME NEW t \in Timers, NEW delay \in Delays, run_after(t, delay)
          PROVE  TypeOK'
      <3>1. delay \in Nat /\ now + delay \in Instants
        BY <2>2 DEF run_after
      <3> QED
        BY <2>2, <3>1 DEF run_after, timerfdVars
    <2>3. ASSUME NEW e \in requests, add_timer(e)
          PROVE  TypeOK'
      BY <2>3 DEF add_timer, reset_alarm, timerfdVars, history
    <2>4. CASE handle_read
      BY <2>4 DEF handle_read, get_expired, history
    <2>5. CASE RunTimer
      BY <2>5 DEF RunTimer, timerfdVars
    <2>6. CASE CallbackReturns
      BY <2>6 DEF CallbackReturns, timerfdVars, history
    <2>7. CASE HandleReadEnds
      BY <2>7 DEF HandleReadEnds, reset_alarm, timerfdVars, history
    <2>8. CASE UNCHANGED vars
      BY <2>8 DEF vars, timerfdVars, history
    <2> QED
      BY <2>1, <2>2, <2>3, <2>4, <2>5, <2>6, <2>7, <2>8 DEF Next, LoopStep
  <1> QED
    BY <1>1, <1>2, PTL DEF Spec

-----------------------------------------------------------------------------
LEMMA AlarmStep ==
  ASSUME ~Late, TypeOK, RequestsAhead, QueueAhead, NoLostAlarm, [Next]_vars
  PROVE  RequestsAhead' /\ QueueAhead' /\ NoLostAlarm'
  <1> USE TimeAssumption DEF TypeOK, Instants, Entries, Off, RequestsAhead, QueueAhead,
                             NoLostAlarm, IsFirst
  <1>1. CASE Tick
    BY <1>1 DEF Tick, timerfdVars
  <1>2. ASSUME NEW t \in Timers, NEW delay \in Delays, run_after(t, delay)
        PROVE  RequestsAhead' /\ QueueAhead' /\ NoLostAlarm'
    BY <1>2 DEF run_after, timerfdVars
  <1>3. ASSUME NEW e \in requests, add_timer(e)
        PROVE  RequestsAhead' /\ QueueAhead' /\ NoLostAlarm'
    <2>1. RequestsAhead' /\ QueueAhead'
      BY <1>3 DEF add_timer
    <2>2. CASE \A x \in timers_ : e.when < x.when
      \* e is the new first, ahead of now, and the alarm is set for it.
      BY <1>3, <2>2 DEF add_timer, reset_alarm
    <2>3. CASE ~(\A x \in timers_ : e.when < x.when)
      \* The first of the queue stays the first.
      BY <1>3, <2>3 DEF add_timer, timerfdVars
    <2> QED
      BY <2>1, <2>2, <2>3
  <1>4. CASE handle_read
    BY <1>4 DEF handle_read, get_expired
  <1>5. CASE RunTimer \/ CallbackReturns
    BY <1>5 DEF RunTimer, CallbackReturns
  <1>6. CASE HandleReadEnds
    BY <1>6 DEF HandleReadEnds, reset_alarm, timerfdVars
  <1>7. CASE UNCHANGED vars
    BY <1>7 DEF vars, timerfdVars
  <1> QED
    BY <1>1, <1>2, <1>3, <1>4, <1>5, <1>6, <1>7 DEF Next, LoopStep

\* If no due time passes before the alarm for it is set, an idle loop is always going
\* to be woken for the first timer of its queue.
THEOREM NoLostAlarmHolds ==
  ASSUME ~Late
  PROVE  Spec => []NoLostAlarm
  <1>1. Init => RequestsAhead /\ QueueAhead /\ NoLostAlarm
    BY DEF Init, RequestsAhead, QueueAhead, NoLostAlarm
  <1>2. TypeOK /\ RequestsAhead /\ QueueAhead /\ NoLostAlarm /\ [Next]_vars
          => RequestsAhead' /\ QueueAhead' /\ NoLostAlarm'
    BY AlarmStep
  <1> QED
    BY <1>1, <1>2, TypeCorrect, PTL DEF Spec

-----------------------------------------------------------------------------
LEMMA LiveStep ==
  ASSUME TypeOK, LiveInv, [Next]_vars
  PROVE  LiveInv'
  <1> USE TimeAssumption DEF TypeOK, Instants, Entries, Off, LiveInv, Live
  <1>1. CASE Tick
    BY <1>1 DEF Tick, history
  <1>2. ASSUME NEW t \in Timers, NEW delay \in Delays, run_after(t, delay)
        PROVE  LiveInv'
    <2>1. \A e \in Live : e.timer # t
      BY <1>2 DEF run_after
    <2>2. /\ delay \in Nat
          /\ now + delay \in Instants
      BY <1>2 DEF run_after
    <2> QED
      BY <1>2, <2>1, <2>2 DEF run_after
  <1>3. ASSUME NEW e \in requests, add_timer(e)
        PROVE  LiveInv'
    BY <1>3 DEF add_timer, history
  <1>4. CASE handle_read
    BY <1>4 DEF handle_read, get_expired, history
  <1>5. CASE RunTimer
    <2>1. PICK e \in expired : expired' = expired \ {e} /\ runs' = [runs EXCEPT ![e.timer] = @ + 1]
      BY <1>5 DEF RunTimer
    <2>2. \A x \in Live \ {e} : x.timer # e.timer
      \* Entries of one timer have the same due time, so they are equal.
      BY <2>1
    <2>3. UNCHANGED <<requests, timers_, due, now>>
      BY <1>5 DEF RunTimer
    <2>4. \A x \in Live' : x \in Live /\ x # e
      BY <2>1, <2>3
    <2> QED
      BY <2>1, <2>2, <2>3, <2>4
  <1>6. CASE CallbackReturns \/ HandleReadEnds
    BY <1>6 DEF CallbackReturns, HandleReadEnds, history
  <1>7. CASE UNCHANGED vars
    BY <1>7 DEF vars, history
  <1> QED
    BY <1>1, <1>2, <1>3, <1>4, <1>5, <1>6, <1>7 DEF Next, LoopStep

\* However late the loop is, no timer runs before its due time, and none twice.
THEOREM RunsOnceWhenDueHolds == Spec => RunsOnceWhenDue
  <1>1. Init => LiveInv
    BY DEF Init, LiveInv, Live
  <1>2. TypeOK /\ LiveInv /\ [Next]_vars => LiveInv'
    BY LiveStep
  <1>3. TypeOK /\ LiveInv /\ [Next]_vars
          => [\A t \in Timers : runs'[t] # runs[t] => runs'[t] = 1 /\ now >= due[t]]_vars
    <2> SUFFICES ASSUME TypeOK, LiveInv, Next,
                        NEW t \in Timers, runs'[t] # runs[t]
                 PROVE  runs'[t] = 1 /\ now >= due[t]
      OBVIOUS
    <2>1. RunTimer
      BY DEF Next, LoopStep, Tick, run_after, add_timer, handle_read, CallbackReturns,
             HandleReadEnds, history
    <2>2. PICK e \in expired : runs' = [runs EXCEPT ![e.timer] = @ + 1]
      BY <2>1 DEF RunTimer
    <2>3. e.timer = t
      BY <2>2 DEF TypeOK, Entries
    <2> QED
      BY <2>2, <2>3 DEF TypeOK, Entries, Instants, Off, LiveInv, Live
  <1> QED
    BY <1>1, <1>2, <1>3, TypeCorrect, PTL DEF Spec, RunsOnceWhenDue
=============================================================================
