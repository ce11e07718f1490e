----------------------- MODULE EventLoopThreadPoolProofs -----------------------
(***************************************************************************)
(* Theorems about EventLoopThreadPool, for every number of threads.        *)
(***************************************************************************)
EXTENDS EventLoopThreadPool, TLAPS

\* How far start() has got.
Phase ==
  /\ main \in {"starting", "waiting"} => Len(workers_) < NumThreads
  /\ main = "constructed" => workers_ = <<>>
  /\ main = "started" => Len(workers_) = NumThreads
  /\ main = "destroying" => workers_ = <<>>

\* The workers are started in turn.
WorkersInOrder == \A i \in 1..Len(workers_) : workers_[i] = i

\* The workers up to next_ are one connection ahead of the others.
Balanced ==
  /\ \E k \in Nat : \A w \in Workers : load[w] = IF w <= next_ THEN k + 1 ELSE k
  /\ NumThreads > 0 => load[BaseLoop] = 0

IInv == TypeOK /\ Phase /\ WorkersInOrder /\ Balanced

\* The remainder is that of a counter that wraps.
LEMMA Wraps ==
  ASSUME NEW n \in Nat, n > 0, NEW k \in 0..(n - 1)
  PROVE  (k + 1) % n = IF k + 1 = n THEN 0 ELSE k + 1
  OBVIOUS

\* The initial state satisfies the invariant.
LEMMA InitInv == Init => IInv
  <1> SUFFICES ASSUME Init PROVE IInv
    OBVIOUS
  <1> USE PoolAssumption DEF Init
  <1>1. TypeOK
    <2>1. /\ workers_ \in Seq(Workers) /\ Len(workers_) = 0
          /\ load \in [Workers \cup {BaseLoop} -> Nat]
      OBVIOUS
    <2>2. loop_ \in [Workers -> Workers \cup {NULL}]
      BY DEF NULL
    <2>3. /\ Len(workers_) <= NumThreads
          /\ next_ \in Nat
          /\ NumThreads > 0 => next_ < NumThreads
      BY <2>1
    <2>4. thread \in [Workers -> ThreadStates] /\ main \in Mains
      BY DEF ThreadStates, Mains
    <2>5. fault \in BOOLEAN
      OBVIOUS
    <2> QED
      BY <2>1, <2>2, <2>3, <2>4, <2>5, Zenon DEF TypeOK
  <1>2. Phase
    BY DEF Phase
  <1>3. WorkersInOrder
    BY DEF WorkersInOrder
  <1>4. Balanced
    <2>1. \A w \in Workers : load[w] = 0 /\ ~(w <= next_)
      BY DEF Workers
    <2>2. \A w \in Workers : load[w] = IF w <= next_ THEN 0 + 1 ELSE 0
      BY <2>1
    <2>3. load[BaseLoop] = 0
      OBVIOUS
    <2> QED
      BY <2>2, <2>3 DEF Balanced
  <1> QED
    BY <1>1, <1>2, <1>3, <1>4 DEF IInv

\* Handing out the next loop keeps the loads balanced.
LEMMA NextLoopInv ==
  ASSUME IInv, next_loop PROVE IInv'
  <1> USE PoolAssumption DEF IInv
  <1>1. CASE NumThreads = 0
    <2>1. workers_ = <<>> /\ Workers = {}
      BY <1>1 DEF next_loop, Phase, TypeOK, Workers
    <2>2. /\ load' = [load EXCEPT ![BaseLoop] = @ + 1]
          /\ UNCHANGED <<main, workers_, next_, thread, loop_, fault>>
      BY <2>1 DEF next_loop
    <2>3. TypeOK'
      BY <2>2 DEF TypeOK
    <2>4. Phase' /\ WorkersInOrder'
      BY <2>2 DEF Phase, WorkersInOrder
    <2>5. Balanced'
      BY <1>1, <2>1, <2>2 DEF Balanced
    <2> QED
      BY <2>3, <2>4, <2>5
  <1>2. CASE NumThreads > 0
    <2>1. Len(workers_) = NumThreads /\ workers_ # <<>>
      BY <1>2 DEF next_loop, Phase, TypeOK
    <2>2. next_ + 1 \in 1..NumThreads /\ workers_[next_ + 1] = next_ + 1
      BY <1>2, <2>1 DEF TypeOK, WorkersInOrder
    <2>3. /\ load' = [load EXCEPT ![next_ + 1] = @ + 1]
          /\ next_' = (next_ + 1) % NumThreads
          /\ UNCHANGED <<main, workers_, thread, loop_, fault>>
      BY <2>1, <2>2 DEF next_loop, AdvancedIndex
    <2>4. next_' = IF next_ + 1 = NumThreads THEN 0 ELSE next_ + 1
      <3>1. next_ \in 0..(NumThreads - 1)
        BY <1>2 DEF TypeOK
      <3> QED
        BY <1>2, <2>3, <3>1, Wraps
    <2>5. TypeOK'
      <3>1. next_' \in Nat /\ next_' < NumThreads
        BY <1>2, <2>2, <2>4 DEF TypeOK
      <3>2. load' \in [Workers \cup {BaseLoop} -> Nat]
        <4>1. next_ + 1 \in Workers \cup {BaseLoop} /\ load[next_ + 1] + 1 \in Nat
          BY <2>2 DEF TypeOK, Workers
        <4> QED
          BY <2>3, <4>1 DEF TypeOK
      <3> QED
        BY <2>3, <3>1, <3>2 DEF TypeOK
    <2>6. Phase' /\ WorkersInOrder'
      BY <2>3 DEF Phase, WorkersInOrder
    <2>7. Balanced'
      <3>1. PICK k \in Nat : \A w \in Workers : load[w] = IF w <= next_ THEN k + 1 ELSE k
        BY DEF Balanced
      <3>2. \A w \in Workers : load'[w] = IF w <= next_ + 1 THEN k + 1 ELSE k
        <4> SUFFICES ASSUME NEW w \in Workers
                     PROVE  load'[w] = IF w <= next_ + 1 THEN k + 1 ELSE k
          OBVIOUS
        <4>1. w \in Nat /\ next_ \in Nat /\ w \in DOMAIN load
          BY DEF Workers, TypeOK
        <4>2. CASE w = next_ + 1
          BY <2>3, <3>1, <4>1, <4>2
        <4>3. CASE w # next_ + 1
          BY <2>3, <3>1, <4>1, <4>3
        <4> QED
          BY <4>2, <4>3
      <3>3. load'[BaseLoop] = 0
        BY <1>2, <2>2, <2>3 DEF Balanced, BaseLoop, TypeOK
      <3>4. CASE next_ + 1 = NumThreads
        <4>1. \A w \in Workers : load'[w] = IF w <= next_' THEN k + 1 + 1 ELSE k + 1
          BY <2>4, <3>2, <3>4 DEF Workers
        <4> QED
          BY <3>1, <3>3, <4>1 DEF Balanced
      <3>5. CASE next_ + 1 # NumThreads
        BY <2>4, <3>2, <3>3, <3>5 DEF Balanced
      <3> QED
        BY <3>4, <3>5
    <2> QED
      BY <2>5, <2>6, <2>7
  <1> QED
    BY <1>1, <1>2

\* Every step keeps the invariant.
LEMMA StepInv == IInv /\ [Next]_vars => IInv'
  <1> SUFFICES ASSUME IInv, [Next]_vars PROVE IInv'
    OBVIOUS
  <1> USE PoolAssumption
  <1>1. CASE start
    <2>1. main' \in {"starting", "started"} /\ (main' = "starting" => NumThreads > 0)
          /\ (main' = "started" => NumThreads = 0)
      BY <1>1 DEF start
    <2>2. workers_ = <<>> /\ Len(workers_) = 0
      BY <1>1 DEF start, IInv, Phase
    <2>3. TypeOK' /\ WorkersInOrder' /\ Balanced'
      BY <1>1, <2>1 DEF start, IInv, TypeOK, WorkersInOrder, Balanced, Mains
    <2>4. Phase'
      BY <1>1, <2>1, <2>2 DEF start, Phase
    <2> QED
      BY <2>3, <2>4 DEF IInv
  <1>2. CASE thread_start
    <2>1. Current \in Workers
      BY <1>2 DEF thread_start, IInv, Phase, TypeOK, Current, Workers
    <2>2. TypeOK'
      BY <1>2, <2>1 DEF thread_start, IInv, TypeOK, Mains, ThreadStates
    <2>3. Phase' /\ Balanced'
      BY <1>2 DEF thread_start, IInv, Phase, Balanced
    <2>4. WorkersInOrder'
      BY <1>2, <2>1 DEF thread_start, IInv, WorkersInOrder, Current, TypeOK
    <2> QED
      BY <2>2, <2>3, <2>4 DEF IInv
  <1>3. CASE get_future
    <2>1. Current \in Workers /\ Current = Len(workers_) + 1 /\ Len(workers_) \in Nat
      BY <1>3 DEF get_future, IInv, Phase, TypeOK, Current, Workers
    <2> HIDE DEF Current
    <2>2. /\ workers_' \in Seq(Workers)
          /\ Len(workers_') = Current
          /\ workers_'[Current] = Current
          /\ \A i \in 1..Len(workers_) : workers_'[i] = workers_[i]
      BY <1>3, <2>1 DEF get_future, IInv, TypeOK
    <2>3. main' \in {"starting", "started"} /\ (main' = "started" <=> Current = NumThreads)
      BY <1>3 DEF get_future
    <2>4. TypeOK'
      BY <1>3, <2>1, <2>2, <2>3 DEF get_future, IInv, TypeOK, Mains, Workers
    <2>5. Phase'
      BY <2>1, <2>2, <2>3 DEF Phase, Workers
    <2>6. WorkersInOrder'
      <3> SUFFICES ASSUME NEW i \in 1..Len(workers_') PROVE workers_'[i] = i
        BY DEF WorkersInOrder
      <3>1. CASE i = Current
        BY <2>2, <3>1
      <3>2. CASE i # Current
        <4>1. i \in 1..Len(workers_)
          BY <2>1, <2>2, <3>2
        <4> QED
          BY <2>2, <4>1 DEF IInv, WorkersInOrder
      <3> QED
        BY <3>1, <3>2
    <2>7. Balanced'
      BY <1>3 DEF get_future, IInv, Balanced
    <2> QED
      BY <2>4, <2>5, <2>6, <2>7 DEF IInv
  <1>4. CASE next_loop
    BY <1>4, NextLoopInv
  <1>5. CASE destroy
    <2>1. workers_' = <<>> /\ Len(workers_') = 0 /\ workers_' \in Seq(Workers)
      BY <1>5 DEF destroy
    <2>2. TypeOK'
      BY <1>5, <2>1 DEF destroy, IInv, TypeOK, Mains
    <2>3. WorkersInOrder'
      BY <2>1 DEF WorkersInOrder
    <2>4. Phase' /\ Balanced'
      BY <1>5, <2>1 DEF destroy, IInv, Phase, Balanced
    <2> QED
      BY <2>2, <2>3, <2>4 DEF IInv
  <1>6. CASE destroy_next
    <2>1. PICK w \in Workers : destroy_thread(w)
      BY <1>6 DEF destroy_next
    <2>2. /\ main' = main /\ workers_' = workers_ /\ next_' = next_ /\ load' = load
          /\ main = "destroying"
      BY <1>6 DEF destroy_next
    <2>3. /\ thread' \in [Workers -> ThreadStates]
          /\ loop_' \in [Workers -> Workers \cup {NULL}]
          /\ fault' \in BOOLEAN
      <3>1. CASE loop_[w] # NULL /\ thread[w] # "none"
        BY <2>1, <3>1 DEF destroy_thread, IInv, TypeOK, ThreadStates
      <3>2. CASE ~(loop_[w] # NULL /\ thread[w] # "none")
        BY <2>1, <3>2 DEF destroy_thread, IInv, TypeOK
      <3> QED
        BY <3>1, <3>2
    <2>4. TypeOK'
      BY <2>2, <2>3, Zenon DEF IInv, TypeOK
    <2>5. WorkersInOrder'
      BY <2>2 DEF IInv, Phase, WorkersInOrder
    <2>6. Phase' /\ Balanced'
      BY <2>2 DEF IInv, Phase, Balanced
    <2> QED
      BY <2>4, <2>5, <2>6 DEF IInv
  <1>7. ASSUME NEW w \in Workers, set_value(w) \/ loop(w)
        PROVE  IInv'
    <2>1. /\ \/ thread' = [thread EXCEPT ![w] = "published"]
             \/ thread' = [thread EXCEPT ![w] = "looping"]
          /\ UNCHANGED <<main, workers_, next_, loop_, load, fault>>
      BY <1>7 DEF set_value, loop
    <2>2. TypeOK'
      BY <2>1 DEF IInv, TypeOK, ThreadStates
    <2>3. Phase' /\ Balanced'
      BY <2>1 DEF IInv, Phase, Balanced
    <2>4. WorkersInOrder'
      BY <2>1 DEF IInv, TypeOK, WorkersInOrder
    <2> QED
      BY <2>2, <2>3, <2>4 DEF IInv
  <1>8. CASE UNCHANGED vars
    BY <1>8 DEF vars, IInv, TypeOK, Phase, WorkersInOrder, Balanced
  <1> QED
    BY <1>1, <1>2, <1>3, <1>4, <1>5, <1>6, <1>7, <1>8 DEF Next

\* The invariant holds always.
LEMMA InvHolds == Spec => []IInv
  BY InitInv, StepInv, PTL DEF Spec

\* next_ is always an index of workers_, whatever the number of threads.
THEOREM TypeCorrect == Spec => []TypeOK
  <1>1. IInv => TypeOK
    BY DEF IInv
  <1> QED
    BY <1>1, InvHolds, PTL

\* The loads of any two workers differ by at most one.
THEOREM RoundRobinHolds == Spec => []RoundRobin
  <1>1. IInv => RoundRobin
    BY DEF IInv, Balanced, RoundRobin
  <1> QED
    BY <1>1, InvHolds, PTL

===============================================================================
