--------------------------- MODULE ConnectionLife ---------------------------
(***************************************************************************)
(* What a TcpServer promises about each connection, whatever loops and     *)
(* threads take part: it is accepted, announced, heard from, announced as  *)
(* over, and reclaimed, in this order.  A connection that was accepted is  *)
(* announced, and one that is over is reclaimed.                           *)
(***************************************************************************)
EXTENDS Sequences

CONSTANT Conns

VARIABLES
  life,     \* of each connection: "absent", "accepted", "up", "over" or "gone"
  told      \* what its callbacks were told, repeated messages counted once

vars == <<life, told>>

Init ==
  /\ life = [c \in Conns |-> "absent"]
  /\ told = [c \in Conns |-> <<>>]

Tell(c, e) == told' = [told EXCEPT ![c] = Append(@, e)]

Accept(c) ==
  /\ life[c] = "absent"
  /\ life' = [life EXCEPT ![c] = "accepted"]
  /\ UNCHANGED told

Announce(c) ==
  /\ life[c] = "accepted"
  /\ life' = [life EXCEPT ![c] = "up"]
  /\ Tell(c, "up")

HearFirst(c) ==
  /\ life[c] = "up" /\ told[c] = <<"up">>
  /\ Tell(c, "message")
  /\ UNCHANGED life

End(c) ==
  /\ life[c] = "up"
  /\ life' = [life EXCEPT ![c] = "over"]
  /\ Tell(c, "down")

\* The last references to several connections may go at once.
Reclaim(S) ==
  /\ S # {}
  /\ \A c \in S : life[c] = "over"
  /\ life' = [c \in Conns |-> IF c \in S THEN "gone" ELSE life[c]]
  /\ UNCHANGED told

Next ==
  \/ \E c \in Conns : Accept(c) \/ Announce(c) \/ HearFirst(c) \/ End(c)
  \/ \E S \in SUBSET Conns : Reclaim(S)

Fairness ==
  \A c \in Conns :
    /\ WF_vars(Announce(c))
    /\ WF_vars(\E S \in SUBSET Conns : c \in S /\ Reclaim(S))

\* The order of a life, without the promise that it goes on
OrderSpec == Init /\ [][Next]_vars

Spec == OrderSpec /\ Fairness
=============================================================================
