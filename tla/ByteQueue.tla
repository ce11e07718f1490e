------------------------------- MODULE ByteQueue -------------------------------
(***************************************************************************)
(* What a Buffer (buffer.h) promises to its users: a queue of bytes.       *)
(* Bytes are added at the back (append, read_fd) or at the front           *)
(* (prepend) and leave at the front (retrieve, retrieve_all) or at the     *)
(* back (unwrite).  Where they are stored, and when they are moved, does   *)
(* not show.                                                               *)
(***************************************************************************)
EXTENDS Naturals, Sequences

CONSTANTS
  Buffers,    \* the buffers
  Chunks      \* what is added in one call

VARIABLE queue   \* the readable bytes of every buffer

vars == queue

Init == queue = [x \in Buffers |-> <<>>]

Append_(x, chunk) == queue' = [queue EXCEPT ![x] = @ \o chunk]

Prepend(x, chunk) == queue' = [queue EXCEPT ![x] = chunk \o @]

Retrieve(x, n) == queue' = [queue EXCEPT ![x] = SubSeq(@, n + 1, Len(@))]

Unwrite(x, n) == queue' = [queue EXCEPT ![x] = SubSeq(@, 1, Len(@) - n)]

Swap(x, y) == queue' = [queue EXCEPT ![x] = queue[y], ![y] = queue[x]]

Next ==
  \E x \in Buffers :
    \/ \E chunk \in Chunks : Append_(x, chunk) \/ Prepend(x, chunk)
    \/ \E n \in 0..Len(queue[x]) : Retrieve(x, n) \/ Unwrite(x, n)
    \/ \E y \in Buffers : Swap(x, y)

Spec == Init /\ [][Next]_vars

================================================================================
