--------------------------- MODULE TcpConnection ---------------------------
(***************************************************************************)
(* wuduo/tcp_connection.{h,cpp} and the part of wuduo/channel.cpp a        *)
(* connection uses: the members of one TcpConnection as a record, and each *)
(* of its methods as an operator from the record before the call to the    *)
(* record after it.  TcpServer composes them with the loops that call them *)
(* and with the tasks and callbacks they start.                            *)
(*                                                                         *)
(* A byte is known by the thread that called send and by its number among  *)
(* the bytes this thread gave to send, counted when send is called: a      *)
(* buffer or the wire is a sequence of bytes.  One send is MessageUnits    *)
(* bytes.  events is the set of the channel's events_, {} meaning that the *)
(* channel is not in the interest list (every epoll_ctl succeeds).         *)
(***************************************************************************)
EXTENDS Naturals, Sequences

CONSTANT MessageUnits
ASSUME MessageUnitsAssumption == MessageUnits \in Nat \ {0}

States == {"kConnecting", "kConnected", "kDisconnecting", "kDisconnected"}

\* The threads that call send: that of the connection's loop, and another one.
Senders == {"loop", "other"}

Numbered(s, n) == [by |-> s, nr |-> n]

\* What the user's callbacks were told, repeated messages counted once.
Note(notices, e) ==
  IF notices # <<>> /\ notices[Len(notices)] = e THEN notices ELSE Append(notices, e)

\* A member record before the constructor ran.
NoConnection ==
  [state |-> "none", loop |-> 0, events |-> {}, output |-> <<>>, wire |-> <<>>,
   sent |-> [s \in Senders |-> 0], half_closed |-> FALSE, notices |-> <<>>, closed |-> 0]

\* The constructor.
Constructed(l) == [NoConnection EXCEPT !.state = "kConnecting", !.loop = l]

\* Channel: the interest of the socket in the loop's epoller.
enable_reading(events) == events \cup {"IN"}
enable_writing(events) == events \cup {"OUT"}
disable_writing(events) == events \ {"OUT"}
disable_all(events) == {}

is_writing(r) == "OUT" \in r.events

\* established: enable_reading, then the connection callback.
established(r) ==
  [r EXCEPT !.state = "kConnected",
            !.events = enable_reading(@),
            !.notices = Note(@, "up")]

\* Announces the end whatever has been announced before.
MutantDestroyed(r) ==
  [r EXCEPT !.state = "kDisconnected", !.events = {}, !.notices = Append(@, "down")]

\* destroyed: a second way down, for a connection nobody closed.
destroyed(r) ==
  IF r.state = "kConnected"
  THEN [r EXCEPT !.state = "kDisconnected",
                 !.events = disable_all(@),
                 !.notices = Append(@, "down")]
  ELSE r

\* Leaves the channel in the interest list.
MutantHandleClose(r) ==
  [r EXCEPT !.state = "kDisconnected", !.notices = Append(@, "down"), !.closed = @ + 1]

\* handle_close, up to the close callback, which TcpServer composes.
handle_close(r) ==
  [r EXCEPT !.state = "kDisconnected",
            !.events = disable_all(@),
            !.notices = Append(@, "down"),
            !.closed = @ + 1]

\* The assertion at the head of handle_close, and the test of force_close.
Closable(r) == r.state \in {"kConnected", "kDisconnecting"}

Disconnecting(r) == [r EXCEPT !.state = "kDisconnecting"]

\* The bytes of the next send of s, and its call.
Message(r, s) == [i \in 1..MessageUnits |-> Numbered(s, r.sent[s] + i)]

Given(r, s) == [r EXCEPT !.sent[s] = @ + MessageUnits]

WritesDirectly(r) == ~is_writing(r) /\ r.output = <<>>

\* Tries the socket first even when older bytes are waiting.
MutantSendInLoop(r, message, n) ==
  IF r.state = "kDisconnected" THEN r
  ELSE [r EXCEPT !.wire = @ \o SubSeq(message, 1, n),
                 !.output = @ \o SubSeq(message, n + 1, MessageUnits),
                 !.events = IF n < MessageUnits THEN @ \cup {"OUT"} ELSE @]

\* Buffers the rest without asking for EPOLLOUT.
MutantSendNoEnable(r, message, n) ==
  LET taken == IF WritesDirectly(r) THEN n ELSE 0
  IN IF r.state = "kDisconnected" THEN r
     ELSE [r EXCEPT !.wire = @ \o SubSeq(message, 1, taken),
                    !.output = @ \o SubSeq(message, taken + 1, MessageUnits)]

\* send_in_loop when the kernel would take n bytes of a direct write (0 when
\* it fails): the rest is buffered and EPOLLOUT enabled.
send_in_loop(r, message, n) ==
  LET taken == IF WritesDirectly(r) THEN n ELSE 0
  IN IF r.state = "kDisconnected" THEN r
     ELSE [r EXCEPT !.wire = @ \o SubSeq(message, 1, taken),
                    !.output = @ \o SubSeq(message, taken + 1, MessageUnits),
                    !.events = IF taken < MessageUnits THEN enable_writing(@) ELSE @]

\* send called in the loop thread
SentInLoop(r, n) == send_in_loop(Given(r, "loop"), Message(r, "loop"), n)

\* Whether the socket still takes output after a write that took n of count
\* bytes: the send queue may be full also when all of them went in.
RoomAfter(n, count) == IF n = count THEN BOOLEAN ELSE {FALSE}

\* The task of shutdown: SHUT_WR unless output is pending.
shutdown_in_loop(r) == IF is_writing(r) THEN r ELSE [r EXCEPT !.half_closed = TRUE]

\* shutdown called in the loop thread.
shutdown(r) ==
  IF r.state = "kConnected" THEN shutdown_in_loop(Disconnecting(r)) ELSE r

\* Stops waiting for EPOLLOUT after the first write.
MutantHandleWrite(r, n) ==
  [r EXCEPT !.wire = @ \o SubSeq(r.output, 1, n),
            !.output = SubSeq(@, n + 1, Len(@)),
            !.events = @ \ {"OUT"}]

\* handle_write when the channel is writing and the kernel takes n > 0 bytes.
handle_write(r, n) ==
  LET w == [r EXCEPT !.wire = @ \o SubSeq(r.output, 1, n),
                     !.output = SubSeq(@, n + 1, Len(@)),
                     !.events = IF n = Len(r.output) THEN disable_writing(@) ELSE @]
  IN IF r.state = "kDisconnecting" THEN shutdown(w) ELSE w
=============================================================================
