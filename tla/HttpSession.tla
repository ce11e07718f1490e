------------------------------ MODULE HttpSession ------------------------------
(***************************************************************************)
(* What an HttpServer promises to a client on one connection: requests are *)
(* answered one by one, in the order in which they were asked, each with   *)
(* what it asked for, until an answer ends the connection.  In which       *)
(* pieces the requests arrive does not show.                               *)
(*                                                                         *)
(* A request is a record: its first line (the words, what follows the      *)
(* slash of the url, whether there is a query), its header lines (name,    *)
(* value, and the number the value stands for, -1 if none) and the length  *)
(* of its body.  An empty name stands for a header line without a colon.   *)
(***************************************************************************)
EXTENDS Integers, Sequences

CONSTANTS
  Requests,     \* what a client may ask
  Files,        \* the names that can be opened
  MaxSize       \* bound: the length of a file

VARIABLES
  asked,        \* every request so far
  answers,      \* every answer so far
  broken        \* whether the server has failed

vars == <<asked, answers, broken>>

WellFormed(r) ==
  /\ Len(r.line.words) = 3
  /\ r.line.words[1] \in {"GET", "HEAD", "POST"}
  /\ r.line.words[3] \in {"HTTP/1.0", "HTTP/1.1"}
  /\ \A i \in DOMAIN r.headers : r.headers[i].name # "" /\ r.headers[i].value # ""
  /\ \A i, j \in DOMAIN r.headers : r.headers[i].name = r.headers[j].name => i = j
  /\ r.line.words[1] = "POST" =>
       \E i \in DOMAIN r.headers :
         r.headers[i].name = "Content-length" /\ r.headers[i].number >= 0

\* The body is as long as the request says.
Framed(r) ==
  WellFormed(r) =>
    IF r.line.words[1] = "POST"
    THEN \E i \in DOMAIN r.headers :
           r.headers[i].name = "Content-length" /\ r.headers[i].number = r.body
    ELSE r.body = 0

KeepsAlive(r) ==
  \E i \in DOMAIN r.headers :
    /\ r.headers[i].name = "Connection"
    /\ r.headers[i].value \in {"keep-alive", "Keep-Alive"}

Wanted(r) == IF r.line.target = "" THEN "index.html" ELSE r.line.target

ErrorPage == <<"page">>

\* A file of n bytes, each named after the file it is from.
Bytes(f, n) == [i \in 1..n |-> f]

Answer(status, body, close) ==
  [status |-> status, body |-> body, length |-> Len(body), close |-> close]

\* The answers to a request.  A file that is there may still be unreadable; with
\* a query, the file is looked for in the root of the file system.
RightAnswers(r) ==
  IF WellFormed(r)
  THEN {Answer(404, ErrorPage, ~KeepsAlive(r))} \cup
       IF Wanted(r) \in Files /\ ~r.line.query
       THEN {Answer(200, Bytes(Wanted(r), n), ~KeepsAlive(r)) : n \in 0..MaxSize}
       ELSE {}
  ELSE {Answer(400, ErrorPage, TRUE)}

Init ==
  /\ asked = <<>>
  /\ answers = <<>>
  /\ broken = FALSE

Ask ==
  /\ \E r \in Requests : asked' = Append(asked, r)
  /\ UNCHANGED <<answers, broken>>

Over == \E i \in 1..Len(answers) : answers[i].close

AnswerNext ==
  /\ ~broken
  /\ ~Over
  /\ Len(answers) < Len(asked)
  /\ \E a \in RightAnswers(asked[Len(answers) + 1]) : answers' = Append(answers, a)
  /\ UNCHANGED <<asked, broken>>

Break ==
  /\ broken' = TRUE
  /\ UNCHANGED <<asked, answers>>

Next == Ask \/ AnswerNext \/ Break

\* The order of the answers, without the promise that there is one
OrderSpec == Init /\ [][Next]_vars

Spec == OrderSpec /\ WF_vars(AnswerNext)

===============================================================================
