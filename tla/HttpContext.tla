------------------------------ MODULE HttpContext ------------------------------
(***************************************************************************)
(* wuduo/http/http_context.{h,cpp} and http_request.{h,cpp}: a request on  *)
(* the wire, an HttpContext as a record, and the operators its parser is   *)
(* made of.  HttpServer has the parser's steps.                            *)
(*                                                                         *)
(* What arrives is a sequence of symbols: the text of a line, which the    *)
(* parser looks at only as a whole, CR, LF and the bytes of a body.  A cut *)
(* inside a text is the same to the parser as one before it.  Requests are *)
(* the records of HttpSession.                                             *)
(***************************************************************************)
EXTENDS Integers, Sequences

CR == [kind |-> "CR"]
LF == [kind |-> "LF"]
Byte == [kind |-> "byte"]
Line(l) == [kind |-> "line", line |-> l]
Header(h) == [kind |-> "header", header |-> h]

\* A request on the wire
Encode(r) ==
  <<Line(r.line), CR, LF>>
    \o [i \in 1..(3 * Len(r.headers)) |->
          CASE i % 3 = 1 -> Header(r.headers[(i + 2) \div 3])
            [] i % 3 = 2 -> CR
            [] OTHER -> LF]
    \o <<CR, LF>>
    \o [i \in 1..r.body |-> Byte]

-------------------------------------------------------------------------------
(* HttpRequest *)

\* The constructor
NewRequest == [method |-> "kUnknown", path |-> [rooted |-> FALSE, name |-> ""], headers |-> {}]

Methods == {"GET", "HEAD", "POST"}

\* Whether RequestLine::from gets to its end: the assertions that a line does not
\* stop right after its first or second space, and std::string, which throws for
\* a url without even a slash.
LineSafe(l) ==
  /\ Len(l.words) \in {2, 3} => l.words[Len(l.words)] # ""
  /\ Len(l.words) >= 3 /\ l.words[1] \in Methods => l.words[2] # ""

\* RequestLine::from
IsRequestLine(l) ==
  /\ Len(l.words) = 3
  /\ l.words[1] \in Methods
  /\ l.words[3] \in {"HTTP/1.0", "HTTP/1.1"}

\* The path keeps its slash if a query follows, and then names a file in the
\* root of the file system.
path(l) ==
  IF l.query THEN [rooted |-> TRUE, name |-> l.target]
  ELSE [rooted |-> FALSE, name |-> IF l.target = "" THEN "index.html" ELSE l.target]

set_request_line_from(request, l) ==
  [request EXCEPT !.method = l.words[1], !.path = path(l)]

HasHeader(request, name) == \E h \in request.headers : h.name = name

get_header(request, name) == CHOOSE h \in request.headers : h.name = name

\* What add_header_from accepts: a colon, a value, and a name that is new
IsHeader(request, h) == h.name # "" /\ h.value # "" /\ ~HasHeader(request, h.name)

add_header_from(request, h) == [request EXCEPT !.headers = @ \cup {h}]

is_close_connection(request) ==
  HasHeader(request, "Connection") =>
    get_header(request, "Connection").value \notin {"keep-alive", "Keep-Alive"}

-------------------------------------------------------------------------------
(* HttpContext *)

NewContext == [phase |-> "kRequestLine", request |-> NewRequest]

\* Leaves the headers of the last request.
MutantReset(context) == [context EXCEPT !.phase = "kRequestLine"]

\* Forgets the phase.
MutantResetRequest(context) == [context EXCEPT !.request = NewRequest]

reset(context) == [context EXCEPT !.phase = "kRequestLine", !.request = NewRequest]

\* Where messages.find("\r\n") may stop, counted from 1
LineEnds(buf) == {i \in 1..(Len(buf) - 1) : buf[i] = CR /\ buf[i + 1] = LF}

HasLine(buf) == LineEnds(buf) # {}

FirstEnd(buf) == CHOOSE i \in LineEnds(buf) : \A j \in LineEnds(buf) : i <= j

LineOf(buf) == SubSeq(buf, 1, FirstEnd(buf) - 1)

\* What is left after retrieve(pos_cr_lf + 2)
AfterLine(buf) == SubSeq(buf, FirstEnd(buf) + 2, Len(buf))

\* A line of the buffer is one text: no client of the model lets something else
\* run into a line.
TextIs(kind, line) == Len(line) = 1 /\ line[1].kind = kind

\* What stoll makes of Content-length, -1 without one
BodyLength(request) ==
  IF HasHeader(request, "Content-length")
  THEN get_header(request, "Content-length").number ELSE -1

===============================================================================
