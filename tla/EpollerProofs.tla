----------------------------- MODULE EpollerProofs -----------------------------
(***************************************************************************)
(* Theorems about Epoller, for any number of channels.                     *)
(***************************************************************************)
EXTENDS Epoller, TLAPS

\* No batch is left over at the tasks, epoll watches no destroyed channel, and a
\* channel that only the user keeps is in no batch unless it failed to be removed.
BatchInv ==
  /\ at \in {"wait", "tasks"} => active_channels = {}
  /\ \A c \in Channels : kernel[c] # {} => c \in alive
  /\ \A c \in active_channels : c \in released => in_interest_list_[c]

IInv == TypeOK /\ ListedMeansWatched /\ BatchInv

\* The initial state satisfies the invariants.
LEMMA InitInv == Init => IInv /\ InterestAgrees
  <1> SUFFICES ASSUME Init PROVE IInv /\ InterestAgrees
    OBVIOUS
  <1> USE EpollerAssumption DEF Init
  <1>1. in_interest_list_ \in [Channels -> BOOLEAN] /\ max_events \in Nat
    OBVIOUS
  <1>2. TypeOK
    BY <1>1, Zenon DEF TypeOK
  <1>3. InterestAgrees
    BY Zenon DEF InterestAgrees
  <1>4. ListedMeansWatched
    BY DEF ListedMeansWatched
  <1> QED
    BY <1>2, <1>3, <1>4 DEF BatchInv, IInv

\* What update_channel does to the types.
LEMMA UpdateType ==
  ASSUME TypeOK, NEW c \in Channels, NEW ev \in SUBSET Interest, update_channel(c, ev)
  PROVE  /\ in_interest_list_' \in [Channels -> BOOLEAN]
         /\ kernel' \in [Channels -> SUBSET Interest]
         /\ fault' \in {"none", "ctl_op_from", "~Channel"}
  <1>1. CASE UNCHANGED <<in_interest_list_, kernel>>
    BY <1>1, Zenon DEF TypeOK, update_channel
  <1>2. CASE ~UNCHANGED <<in_interest_list_, kernel>>
    <2>1. /\ kernel' = [kernel EXCEPT ![c] = ev]
          /\ in_interest_list_' = [in_interest_list_ EXCEPT ![c] = (Op(c, ev) # "DEL")]
          /\ UNCHANGED fault
      BY <1>2 DEF update_channel, set_state_in_interest_list
    <2>2. in_interest_list_' \in [Channels -> BOOLEAN]
      BY <2>1, Zenon DEF TypeOK
    <2>3. kernel' \in [Channels -> SUBSET Interest]
      BY <2>1 DEF TypeOK
    <2> QED
      BY <2>1, <2>2, <2>3 DEF TypeOK
  <1> QED
    BY <1>1, <1>2

\* The flag follows epoll_ctl, whether it fails or not.
LEMMA UpdateListed ==
  ASSUME TypeOK, ListedMeansWatched, NEW c \in Channels, NEW ev, update_channel(c, ev)
  PROVE  ListedMeansWatched'
  <1>1. CASE UNCHANGED <<in_interest_list_, kernel>>
    BY <1>1 DEF ListedMeansWatched
  <1>2. CASE ~UNCHANGED <<in_interest_list_, kernel>>
    <2>1. /\ kernel' = [kernel EXCEPT ![c] = ev]
          /\ in_interest_list_' = [in_interest_list_ EXCEPT ![c] = (Op(c, ev) # "DEL")]
          /\ ~(~in_interest_list_[c] /\ ev = {}) /\ ~Refused(c, Op(c, ev))
      BY <1>2 DEF update_channel, set_state_in_interest_list
    <2>2. (Op(c, ev) # "DEL") <=> (ev # {})
      BY <2>1 DEF Op
    <2>3. ASSUME NEW d \in Channels PROVE in_interest_list_'[d] <=> kernel'[d] # {}
      <3>1. CASE d = c
        BY <2>1, <2>2, <3>1, Zenon DEF TypeOK
      <3>2. CASE d # c
        BY <2>1, <3>2, Zenon DEF TypeOK, ListedMeansWatched
      <3> QED
        BY <3>1, <3>2
    <2> QED
      BY <2>3 DEF ListedMeansWatched
  <1> QED
    BY <1>1, <1>2

\* What update_channel does when epoll_ctl does not fail for want of resources
\* and the kernel agrees with the channels before: they agree after it.
LEMMA UpdateAgrees ==
  ASSUME ~CtlFails, TypeOK, InterestAgrees, NEW c \in Channels, NEW ev \in SUBSET Interest,
         events_[c] # {} \/ ev # {}, update_channel(c, ev)
  PROVE  /\ UNCHANGED fault
         /\ kernel' = [kernel EXCEPT ![c] = ev]
         /\ in_interest_list_' = [in_interest_list_ EXCEPT ![c] = (ev # {})]
  <1>1. kernel[c] = events_[c] /\ (in_interest_list_[c] <=> kernel[c] # {})
    BY Zenon DEF InterestAgrees
  <1>2. ~(~in_interest_list_[c] /\ ev = {})
    BY <1>1
  <1>3. ~Refused(c, Op(c, ev))
    BY <1>1, <1>2 DEF Refused, Op
  <1>4. (Op(c, ev) # "DEL") <=> (ev # {})
    BY <1>2 DEF Op
  <1>5. /\ UNCHANGED fault
        /\ kernel' = [kernel EXCEPT ![c] = ev]
        /\ in_interest_list_' = [in_interest_list_ EXCEPT ![c] = (Op(c, ev) # "DEL")]
    BY <1>2, <1>3 DEF update_channel, set_state_in_interest_list
  <1>6. (Op(c, ev) # "DEL") = (ev # {})
    BY <1>4, Zenon
  <1> QED
    BY <1>5, <1>6, Zenon

\* The steps that change events_ of a channel.
LEMMA UpdateCases ==
  ASSUME NEW c \in Channels, TypeOK,
         (\E e \in Interest : enable(c, e) \/ disable(c, e)) \/ disable_all(c)
  PROVE  \E ev \in SUBSET Interest : (events_[c] # {} \/ ev # {}) /\ Update(c, ev)
  <1>1. events_[c] \in SUBSET Interest
    BY DEF TypeOK
  <1>2. ASSUME NEW e \in Interest, enable(c, e)
        PROVE  \E ev \in SUBSET Interest : (events_[c] # {} \/ ev # {}) /\ Update(c, ev)
    BY <1>1, <1>2 DEF enable
  <1>3. ASSUME NEW e \in Interest, disable(c, e)
        PROVE  \E ev \in SUBSET Interest : (events_[c] # {} \/ ev # {}) /\ Update(c, ev)
    BY <1>1, <1>3 DEF disable
  <1>4. ASSUME disable_all(c)
        PROVE  \E ev \in SUBSET Interest : (events_[c] # {} \/ ev # {}) /\ Update(c, ev)
    BY <1>4 DEF disable_all
  <1> QED
    BY <1>2, <1>3, <1>4

\* The steps of the loop and of the environment leave the channels alone.
LoopStep ==
  \/ \E c \in Channels : handle_events(c) \/ LevelChanges(c)
  \/ wait \/ Interrupted \/ CallbackReturns \/ TasksDone

\* Every step keeps the types, and destroys no channel of the current batch.
LEMMA StepInv == IInv /\ [Next]_vars => IInv'
  <1> SUFFICES ASSUME TypeOK, ListedMeansWatched, BatchInv, [Next]_vars PROVE IInv'
    BY DEF IInv
  <1>1. ASSUME NEW c \in Channels,
               (\E e \in Interest : enable(c, e) \/ disable(c, e)) \/ disable_all(c)
        PROVE  IInv'
    <2>1. PICK ev \in SUBSET Interest : Update(c, ev)
      BY <1>1, UpdateCases
    <2>2. /\ in_interest_list_' \in [Channels -> BOOLEAN]
          /\ kernel' \in [Channels -> SUBSET Interest]
          /\ fault' \in {"none", "ctl_op_from", "~Channel"}
      BY <2>1, UpdateType DEF Update
    <2>3. events_' \in [Channels -> SUBSET Interest]
      BY <2>1 DEF Update, TypeOK
    <2>4. UNCHANGED <<at, alive, released, level, active_channels, max_events>>
      BY <2>1 DEF Update
    <2>5. \A d \in Channels : kernel'[d] # {} => d \in alive
      BY <2>1 DEF Update, update_channel, BatchInv, TypeOK
    <2>6. TypeOK'
      BY <2>2, <2>3, <2>4, Zenon DEF TypeOK
    <2>7. ListedMeansWatched'
      BY <2>1, UpdateListed DEF Update
    <2>8. \A d \in active_channels : d \in released => in_interest_list_'[d]
      <3>1. c \notin released
        BY <2>1 DEF Update
      <3>2. \A d \in Channels : d # c => in_interest_list_'[d] = in_interest_list_[d]
        BY <2>1 DEF Update, update_channel, set_state_in_interest_list, TypeOK
      <3> QED
        BY <3>1, <3>2 DEF BatchInv, TypeOK
    <2> QED
      BY <2>4, <2>5, <2>6, <2>7, <2>8 DEF BatchInv, IInv
  <1>2. ASSUME NEW c \in Channels, Construct(c)
        PROVE  IInv'
    BY <1>2, Zenon DEF Construct, TypeOK, ListedMeansWatched, BatchInv, IInv
  <1>3. ASSUME NEW c \in Channels, Release(c)
        PROVE  IInv'
    <2>1. active_channels = {}
      BY <1>3 DEF Release, BatchInv
    <2> QED
      BY <1>3, <2>1, Zenon DEF Release, TypeOK, ListedMeansWatched, BatchInv, IInv
  <1>4. ASSUME NEW c \in Channels, Destroy(c)
        PROVE  IInv'
    <2>1. UNCHANGED <<at, level, active_channels, max_events>>
      BY <1>4 DEF Destroy
    <2>2. CASE in_interest_list_[c]
      <3>1. UNCHANGED channelVars /\ fault' = "~Channel"
        BY <1>4, <2>2 DEF Destroy
      <3> QED
        BY <2>1, <3>1, Zenon DEF TypeOK, ListedMeansWatched, BatchInv, IInv, channelVars
    <2>3. CASE ~in_interest_list_[c] /\ events_[c] # {}
      <3>1. /\ events_' = [events_ EXCEPT ![c] = {}]
            /\ fault' = "ctl_op_from"
            /\ UNCHANGED <<alive, released, in_interest_list_, kernel>>
        BY <1>4, <2>3 DEF Destroy, update_channel
      <3>2. events_' \in [Channels -> SUBSET Interest]
        BY <3>1 DEF TypeOK
      <3> QED
        BY <2>1, <3>1, <3>2, Zenon DEF TypeOK, ListedMeansWatched, BatchInv, IInv
    <2>4. CASE ~in_interest_list_[c] /\ events_[c] = {}
      <3>1. /\ alive' = alive \ {c}
            /\ released' = released \ {c}
            /\ kernel' = [kernel EXCEPT ![c] = {}]
            /\ UNCHANGED <<events_, in_interest_list_, fault>>
        BY <1>4, <2>4 DEF Destroy
      <3>2. kernel' = kernel /\ kernel[c] = {}
        BY <2>4, <3>1 DEF TypeOK, ListedMeansWatched
      <3>3. c \notin active_channels
        BY <1>4, <2>4 DEF Destroy, BatchInv
      <3>4. TypeOK'
        BY <2>1, <3>1, <3>2, <3>3, Zenon DEF TypeOK
      <3>5. ListedMeansWatched'
        BY <3>1, <3>2, Zenon DEF ListedMeansWatched
      <3>6. BatchInv'
        BY <2>1, <3>1, <3>2, Zenon DEF BatchInv
      <3> QED
        BY <3>4, <3>5, <3>6 DEF IInv
    <2> QED
      BY <2>2, <2>3, <2>4
  <1>5. CASE LoopStep
    <2>1. /\ UNCHANGED channelVars /\ UNCHANGED fault
          /\ at' \in {"wait", "handle", "callback", "tasks"}
      BY <1>5 DEF LoopStep, handle_events, LevelChanges, wait, Interrupted, CallbackReturns,
                  TasksDone, TypeOK
    <2>2. max_events' \in Nat
      <3>1. \A n : Grown(n) \in Nat
        BY DEF Grown, TypeOK
      <3> QED
        BY <1>5, <3>1 DEF LoopStep, handle_events, LevelChanges, wait, Interrupted,
                          CallbackReturns, TasksDone, TypeOK
    <2>3. level' \in [Channels -> SUBSET Interest]
      BY <1>5 DEF LoopStep, handle_events, LevelChanges, wait, Interrupted, CallbackReturns,
                  TasksDone, TypeOK
    <2>4. at' \in {"wait", "tasks"} => active_channels' = {}
      BY <1>5 DEF LoopStep, handle_events, LevelChanges, wait, Interrupted, CallbackReturns,
                  TasksDone, BatchInv
    <2>5. /\ active_channels' \subseteq alive
          /\ \A c \in active_channels' : c \in released => in_interest_list_[c]
      <3>1. /\ Ready \subseteq alive
            /\ \A c \in Ready : in_interest_list_[c]
        BY DEF Ready, BatchInv, ListedMeansWatched
      <3> QED
        BY <1>5, <3>1 DEF LoopStep, handle_events, LevelChanges, wait, Interrupted,
                          CallbackReturns, TasksDone, TypeOK, BatchInv
    <2>6. BatchInv' /\ ListedMeansWatched'
      BY <2>1, <2>4, <2>5 DEF BatchInv, ListedMeansWatched, channelVars
    <2> QED
      BY <2>1, <2>2, <2>3, <2>5, <2>6, Zenon DEF TypeOK, IInv, channelVars
  <1>6. CASE UNCHANGED vars
    BY <1>6, Zenon DEF vars, channelVars, TypeOK, ListedMeansWatched, BatchInv, IInv
  <1> QED
    BY <1>1, <1>2, <1>3, <1>4, <1>5, <1>6 DEF Next, LoopStep

\* Every step keeps the channels and the kernel in agreement.
LEMMA StepAgrees ==
  ~CtlFails /\ TypeOK /\ InterestAgrees /\ [Next]_vars => InterestAgrees'
  <1> SUFFICES ASSUME ~CtlFails, TypeOK, InterestAgrees, [Next]_vars PROVE InterestAgrees'
    OBVIOUS
  <1>1. ASSUME NEW c \in Channels,
               (\E e \in Interest : enable(c, e) \/ disable(c, e)) \/ disable_all(c)
        PROVE  InterestAgrees'
    <2>1. PICK ev \in SUBSET Interest : (events_[c] # {} \/ ev # {}) /\ Update(c, ev)
      BY <1>1, UpdateCases
    <2>2. /\ kernel' = [kernel EXCEPT ![c] = ev]
          /\ in_interest_list_' = [in_interest_list_ EXCEPT ![c] = (ev # {})]
          /\ events_' = [events_ EXCEPT ![c] = ev]
      BY <2>1, UpdateAgrees DEF Update
    <2>3. ASSUME NEW d \in Channels
          PROVE  kernel'[d] = events_'[d] /\ in_interest_list_'[d] = (kernel'[d] # {})
      <3>1. CASE d = c
        BY <2>2, <3>1, Zenon DEF TypeOK
      <3>2. CASE d # c
        BY <2>2, <3>2, Zenon DEF TypeOK, InterestAgrees
      <3> QED
        BY <3>1, <3>2
    <2> QED
      BY <2>3, Zenon DEF InterestAgrees
  <1>2. ASSUME NEW c \in Channels, Destroy(c)
        PROVE  InterestAgrees'
    <2>1. kernel[c] = events_[c] /\ (in_interest_list_[c] <=> kernel[c] # {})
      BY Zenon DEF InterestAgrees
    <2>2. CASE in_interest_list_[c]
      BY <1>2, <2>2, Zenon DEF Destroy, channelVars, InterestAgrees
    <2>3. CASE ~in_interest_list_[c]
      <3>1. events_[c] = {} /\ kernel[c] = {}
        BY <2>1, <2>3
      <3>2. kernel' = [kernel EXCEPT ![c] = {}] /\ UNCHANGED <<events_, in_interest_list_>>
        BY <1>2, <2>3, <3>1 DEF Destroy
      <3>3. kernel' = kernel
        BY <3>1, <3>2 DEF TypeOK
      <3> QED
        BY <3>2, <3>3, Zenon DEF InterestAgrees
    <2> QED
      BY <2>2, <2>3
  <1>3. CASE LoopStep \/ \E c \in Channels : Construct(c) \/ Release(c)
    <2>1. UNCHANGED <<events_, in_interest_list_, kernel>>
      BY <1>3 DEF LoopStep, handle_events, LevelChanges, wait, Interrupted, CallbackReturns,
                  TasksDone, Construct, Release, channelVars
    <2> QED
      BY <2>1, Zenon DEF InterestAgrees
  <1>4. CASE UNCHANGED vars
    BY <1>4, Zenon DEF vars, channelVars, InterestAgrees
  <1> QED
    BY <1>1, <1>2, <1>3, <1>4 DEF Next, LoopStep

\* The invariant holds always.
LEMMA InvHolds == Spec => []IInv
  BY InitInv, StepInv, PTL DEF Spec

\* The types hold, and no channel of a batch is destroyed before it is handled,
\* also when epoll_ctl fails and when the user drops the last reference.
THEOREM TypeCorrect == Spec => []TypeOK
  <1>1. IInv => TypeOK
    BY DEF IInv
  <1> QED
    BY <1>1, InvHolds, PTL

\* in_interest_list_ tells whether epoll has the channel, whichever calls of
\* epoll_ctl have failed.
THEOREM ListedMeansWatchedHolds == Spec => []ListedMeansWatched
  <1>1. IInv => ListedMeansWatched
    BY DEF IInv
  <1> QED
    BY <1>1, InvHolds, PTL

\* If epoll_ctl does not fail, the kernel watches every channel exactly for its
\* events_ and in_interest_list_ tells so.
THEOREM InterestAgreesHolds ==
  ASSUME ~CtlFails
  PROVE  Spec => []InterestAgrees
  <1>1. TypeOK /\ InterestAgrees /\ [Next]_vars => InterestAgrees'
    BY StepAgrees
  <1> QED
    BY <1>1, InitInv, TypeCorrect, PTL DEF Spec

===============================================================================
