------------------------------- MODULE HttpServer -------------------------------
(***************************************************************************)
(* wuduo/http/http_server.cpp and http_response.{h,cpp} on one connection: *)
(* a client that asks, the socket that delivers what it asks in any        *)
(* pieces, the message callback with its parser (HttpContext), the file    *)
(* that is read for the answer, and the TcpConnection that sends it.       *)
(*                                                                         *)
(* Connections share nothing but files, so one stands for all.  Each level *)
(* of the recursion of parse_request and each system call is a step; the   *)
(* client and the owner of the files go on in between.  An answer is one   *)
(* message of TcpConnection, whole or waiting in output_buffer_.           *)
(***************************************************************************)
EXTENDS HttpContext, TcpConnection

CONSTANTS
  Requests,       \* what the client may ask: records as in HttpSession
  Files,          \* the names in the directory of the server
  MaxRequests,    \* bound: how many requests the client asks
  MaxAhead,       \* how many of them it asks before it has their answers
  MaxSize,        \* bound: the length of a file
  FileChanges     \* whether a file may change while it is read

ASSUME HttpAssumption ==
  /\ MaxRequests \in Nat
  /\ MaxAhead \in Nat
  /\ MaxSize \in Nat
  /\ FileChanges \in BOOLEAN

\* The header lines of the records of HttpSession, and the records
Fields == [name : STRING, value : STRING, number : Int]

ASSUME RequestsAssumption ==
  Requests \subseteq [line : [words : Seq(STRING), target : STRING, query : BOOLEAN],
                      headers : Seq(Fields), body : Nat]

VARIABLES
  asked,          \* history: the requests
  network,        \* what the client has sent and the server not read
  finished,       \* whether the client has closed its end
  room,           \* whether the socket takes more output
  size,           \* of each file
  in_buffer_,
  context,        \* the HttpContext of the connection
  conn,           \* its TcpConnection
  response,       \* the HttpResponse of the current request
  answers,        \* history: the answers given to the connection
  at,             \* where the io loop is
  fault           \* the assertion that failed, if any

clientVars == <<asked, network, finished, room, size>>
vars == <<clientVars, in_buffer_, context, conn, response, answers, at, fault>>

\* The constructor; close_connection_ is also what the Connection header says.
NewResponse(close) ==
  [status |-> 404, entity |-> <<>>, close |-> close, st_size |-> 0, fd |-> FALSE]

\* The connection callback has set the context.
Init ==
  /\ asked = <<>>
  /\ network = <<>>
  /\ finished = FALSE
  /\ room = TRUE
  /\ size \in [Files -> 0..MaxSize]
  /\ in_buffer_ = <<>>
  /\ context = NewContext
  /\ conn = established(Constructed(1))
  /\ response = NewResponse(TRUE)
  /\ answers = <<>>
  /\ at = "wait"
  /\ fault = "none"

-------------------------------------------------------------------------------
(* The client and the file system *)

Ask(r) ==
  /\ ~finished
  /\ Len(asked) < MaxRequests
  /\ Len(asked) < Len(answers) + MaxAhead
  /\ asked' = Append(asked, r)
  /\ network' = network \o Encode(r)
  /\ UNCHANGED <<finished, room, size, in_buffer_, context, conn, response, answers, at, fault>>

Finish ==
  /\ ~finished
  /\ finished' = TRUE
  /\ UNCHANGED <<asked, network, room, size, in_buffer_, context, conn, response, answers,
                 at, fault>>

ClientReads ==
  /\ ~room
  /\ room' = TRUE
  /\ UNCHANGED <<asked, network, finished, size, in_buffer_, context, conn, response, answers,
                 at, fault>>

Rewrite(f) ==
  /\ FileChanges \/ at # "read"
  /\ \E n \in 0..MaxSize : size' = [size EXCEPT ![f] = n]
  /\ UNCHANGED <<asked, network, finished, room, in_buffer_, context, conn, response, answers,
                 at, fault>>

-------------------------------------------------------------------------------
(* The connection, between two messages *)

\* TcpConnection::handle_read, which enters on_message
handle_read ==
  /\ at = "wait"
  /\ "IN" \in conn.events
  /\ \E n \in 1..Len(network) :
       /\ in_buffer_' = in_buffer_ \o SubSeq(network, 1, n)
       /\ network' = SubSeq(network, n + 1, Len(network))
  /\ at' = "parse"
  /\ UNCHANGED <<asked, finished, room, size, context, conn, response, answers, fault>>

\* TcpConnection::handle_read at the end of the stream
ReadEnd ==
  /\ at = "wait"
  /\ finished /\ network = <<>>
  /\ at' = "closed"
  /\ conn' = handle_close(Disconnecting(conn))
  /\ UNCHANGED <<clientVars, in_buffer_, context, response, answers, fault>>

HandleWrite ==
  /\ at = "wait"
  /\ is_writing(conn) /\ room
  /\ \E n \in 1..Len(conn.output) :
       /\ conn' = handle_write(conn, n)
       /\ room' \in RoomAfter(n, Len(conn.output))
  /\ UNCHANGED <<asked, network, finished, size, in_buffer_, context, response, answers, at,
                 fault>>

-------------------------------------------------------------------------------
(* HttpContext::parse_request *)

Parsing(phase) == at = "parse" /\ context.phase = phase

\* It returns, and on_message goes on at p.
ParseReturns(p) ==
  /\ at' = p
  /\ UNCHANGED <<clientVars, in_buffer_, context, conn, response, answers, fault>>

WaitForLine ==
  /\ Parsing("kRequestLine") \/ Parsing("kHeaderLines")
  /\ ~HasLine(in_buffer_)
  /\ ParseReturns("wait")

\* Parsing goes on in the next phase with what is left of the buffer.
ParseOn(phase, request, buf) ==
  /\ context' = [phase |-> phase, request |-> request]
  /\ in_buffer_' = buf
  /\ UNCHANGED <<clientVars, conn, response, answers, at>>

FirstLineIs(kind) == HasLine(in_buffer_) /\ TextIs(kind, LineOf(in_buffer_))

RejectRequestLine ==
  /\ Parsing("kRequestLine")
  /\ HasLine(in_buffer_)
  /\ FirstLineIs("line") =>
       LET l == LineOf(in_buffer_)[1].line IN LineSafe(l) /\ ~IsRequestLine(l)
  /\ ParseReturns("bad")

\* The assertion at its end wants something behind the line.
TakeRequestLine ==
  /\ Parsing("kRequestLine")
  /\ FirstLineIs("line")
  /\ LET l == LineOf(in_buffer_)[1].line
     IN /\ ~LineSafe(l) \/ IsRequestLine(l)
        /\ IF LineSafe(l) /\ AfterLine(in_buffer_) # <<>>
           THEN /\ UNCHANGED fault
                /\ ParseOn("kHeaderLines", set_request_line_from(context.request, l),
                           AfterLine(in_buffer_))
           ELSE /\ fault' = IF LineSafe(l) THEN "parse_request" ELSE "RequestLine::from"
                /\ UNCHANGED <<clientVars, in_buffer_, context, conn, response, answers, at>>

EndHeaders ==
  /\ Parsing("kHeaderLines")
  /\ HasLine(in_buffer_) /\ LineOf(in_buffer_) = <<>>
  /\ ParseOn("kEntityBody", context.request, AfterLine(in_buffer_))
  /\ UNCHANGED fault

RejectHeader ==
  /\ Parsing("kHeaderLines")
  /\ HasLine(in_buffer_) /\ LineOf(in_buffer_) # <<>>
  /\ FirstLineIs("header") => ~IsHeader(context.request, LineOf(in_buffer_)[1].header)
  /\ ParseReturns("bad")

TakeHeader ==
  /\ Parsing("kHeaderLines")
  /\ FirstLineIs("header")
  /\ LET h == LineOf(in_buffer_)[1].header
     IN /\ IsHeader(context.request, h)
        /\ ParseOn("kHeaderLines", add_header_from(context.request, h), AfterLine(in_buffer_))
  /\ UNCHANGED fault

\* parsing_completed() holds: on_message goes on with the answer.
CompletedWith(buf) ==
  /\ context' = [context EXCEPT !.phase = "kCompleted"]
  /\ in_buffer_' = buf
  /\ response' = [NewResponse(is_close_connection(context.request)) EXCEPT !.status = 200]
  /\ at' = "open"
  /\ UNCHANGED <<clientVars, conn, answers, fault>>

NoBody ==
  /\ Parsing("kEntityBody")
  /\ context.request.method # "POST"
  /\ CompletedWith(in_buffer_)

RejectBody ==
  /\ Parsing("kEntityBody")
  /\ context.request.method = "POST"
  /\ BodyLength(context.request) < 0
  /\ ParseReturns("bad")

WaitForBody ==
  /\ Parsing("kEntityBody")
  /\ context.request.method = "POST"
  /\ BodyLength(context.request) > Len(in_buffer_)
  /\ ParseReturns("wait")

\* retrieve_all, whatever follows the body
TakeBody ==
  /\ Parsing("kEntityBody")
  /\ context.request.method = "POST"
  /\ BodyLength(context.request) \in 0..Len(in_buffer_)
  /\ CompletedWith(<<>>)

-------------------------------------------------------------------------------
(* HttpResponse *)

\* Keeps what was read of the file.
MutantErrorMessage(r, code) == [r EXCEPT !.status = code, !.entity = @ \o <<"page">>]

error_message_with(r, code) == [r EXCEPT !.status = code, !.entity = <<"page">>]

\* ::close(fd)
Closed(r) == [r EXCEPT !.fd = FALSE]

\* The message: status line, headers and entity_body_
ResponseMessage(r) ==
  [status |-> r.status, body |-> r.entity, length |-> Len(r.entity), close |-> r.close]

Analyse(p, r) ==
  /\ at' = p
  /\ response' = r
  /\ UNCHANGED <<clientVars, in_buffer_, context, conn, answers>>

Found == ~context.request.path.rooted /\ context.request.path.name \in Files

open ==
  /\ at = "open"
  /\ \/ Found /\ Analyse("fstat", [response EXCEPT !.fd = TRUE])
     \/ Analyse("respond", error_message_with(response, 404))
  /\ UNCHANGED fault

fstat ==
  /\ at = "fstat"
  /\ \/ Analyse("read", [response EXCEPT !.st_size = size[context.request.path.name]])
     \/ Analyse("respond", error_message_with(Closed(response), 404))
  /\ UNCHANGED fault

\* One turn of the loop around read_fd, which returns 0 at the end of the file
read ==
  /\ at = "read"
  /\ LET f == context.request.path.name
         left == size[f] - Len(response.entity)
     IN \E n \in IF left > 0 THEN 1..left ELSE {0} :
          LET entity == response.entity \o [i \in 1..n |-> f]
          IN IF Len(entity) < response.st_size
             THEN UNCHANGED fault /\ Analyse("read", [response EXCEPT !.entity = entity])
             ELSE IF Len(entity) = response.st_size
             THEN UNCHANGED fault
                  /\ Analyse("respond", Closed([response EXCEPT !.entity = entity]))
             ELSE fault' = "analyse" /\ Analyse("read", [response EXCEPT !.entity = entity])

\* Returns without closing the descriptor.
MutantReadFails ==
  /\ at = "read"
  /\ Analyse("respond", error_message_with(response, 404))
  /\ UNCHANGED fault

\* A directory, or a failing disk
ReadFails ==
  /\ at = "read"
  /\ Analyse("respond", error_message_with(Closed(response), 404))
  /\ UNCHANGED fault

-------------------------------------------------------------------------------
(* HttpServer::on_message, after the parser *)

\* send, and shutdown if the answer is the last one: nothing, unless kConnected
Send(r) ==
  IF conn.state = "kConnected"
  THEN \E n \in IF room THEN 1..MessageUnits ELSE {0} :
         LET c == SentInLoop(conn, n)
         IN /\ conn' = IF r.close THEN shutdown(c) ELSE c
            /\ room' \in IF WritesDirectly(conn) THEN RoomAfter(n, MessageUnits) ELSE {room}
            /\ answers' = Append(answers, ResponseMessage(r))
  ELSE UNCHANGED <<conn, room, answers>>

BadRequest ==
  /\ at = "bad"
  /\ Send(error_message_with(NewResponse(TRUE), 400))
  /\ at' = "wait"
  /\ UNCHANGED <<asked, network, finished, size, in_buffer_, context, response, fault>>

Respond ==
  /\ at = "respond"
  /\ Send(response)
  /\ context' = reset(context)
  /\ at' = "wait"
  /\ UNCHANGED <<asked, network, finished, size, in_buffer_, response, fault>>

-------------------------------------------------------------------------------

ParseRequest ==
  \/ WaitForLine \/ RejectRequestLine \/ TakeRequestLine
  \/ EndHeaders \/ RejectHeader \/ TakeHeader
  \/ NoBody \/ RejectBody \/ WaitForBody \/ TakeBody

OnMessage == ParseRequest \/ open \/ fstat \/ read \/ BadRequest \/ Respond

Environment ==
  \/ \E r \in Requests : Ask(r)
  \/ Finish
  \/ ClientReads
  \/ \E f \in Files : Rewrite(f)

\* A failed assertion aborts the program.
Next ==
  /\ fault = "none"
  /\ handle_read \/ ReadEnd \/ HandleWrite \/ OnMessage \/ ReadFails \/ Environment

\* The io loop is scheduled and handles what is ready; no disk has to fail.
Fairness ==
  /\ WF_vars(fault = "none" /\ OnMessage)
  /\ WF_vars(fault = "none" /\ handle_read)

Spec == Init /\ [][Next]_vars /\ Fairness

-------------------------------------------------------------------------------
(* Properties *)

Places == {"wait", "parse", "bad", "open", "fstat", "read", "respond", "closed"}
Phases == {"kRequestLine", "kHeaderLines", "kEntityBody", "kCompleted"}

\* The type of the state.  A completed context is reset before the connection
\* waits for more.
TypeOK ==
  /\ asked \in Seq(Requests)
  /\ finished \in BOOLEAN /\ room \in BOOLEAN
  /\ size \in [Files -> 0..MaxSize]
  /\ conn.state \in States
  /\ context.phase \in Phases
  /\ context.phase = "kCompleted" <=> at \in {"open", "fstat", "read", "respond"}
  /\ response.status \in {200, 404}
  /\ at \in Places
  /\ fault \in {"none", "parse_request", "RequestLine::from", "analyse"}

\* analyse never mixes: an answer 200 has the file as it is, an answer 404 has the
\* error page and no byte of a file that could be read only in part.
ResponseWhole ==
  at = "respond" =>
    IF response.status = 200
    THEN LET f == context.request.path.name
         IN response.entity = [i \in 1..response.st_size |-> f]
    ELSE response.entity = <<"page">>

\* However analyse ends, the descriptor is closed.
DescriptorClosed == response.fd => at \in {"fstat", "read"}

\* "assert(buf->readable_bytes() > (pos_cr_lf + 2))" (http_context.cpp:22), and the
\* other assertions of the parser and of analyse, hold.
NoAssertFails == fault = "none"

Session == INSTANCE HttpSession WITH broken <- fault # "none"

\* In whatever pieces the requests arrive, they are answered one by one, in
\* order, each with its own answer, and none is left waiting.
ImplementsSession == Session!Spec

===============================================================================
