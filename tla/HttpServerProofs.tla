--------------------------- MODULE HttpServerProofs ---------------------------
(***************************************************************************)
(* Theorems about HttpServer, for any requests, files and sizes, and       *)
(* whether or not files change while they are read: how an answer is made, *)
(* and that requests are answered as HttpSession says.                     *)
(***************************************************************************)
EXTENDS HttpServer, SequenceTheorems, TLAPS

Analysing == {"open", "fstat", "read", "respond"}

\* What the bodies of answers are made of
Units == Files \cup {"page"}

\* The records have the fields that are assigned one by one.
Shape ==
  /\ "phase" \in DOMAIN context
  /\ "state" \in DOMAIN conn
  /\ {"status", "entity", "st_size", "fd"} \subseteq DOMAIN response
  /\ response.entity \in Seq(Units)
  /\ response.st_size \in Nat

Wanted == context.request.path.name

\* On its way to an answer analyse has bytes of the wanted file only.
Reading ==
  /\ at \in {"open", "fstat"} => response.entity = <<>>
  /\ at \in {"open", "fstat", "read"} => response.status = 200
  /\ at \in {"fstat", "read"} => Wanted \in Files
  /\ at = "read" => response.entity = [i \in 1..Len(response.entity) |-> Wanted]

IInv == TypeOK /\ Shape /\ Reading /\ DescriptorClosed /\ ResponseWhole

-------------------------------------------------------------------------------
\* Bytes of one file behind bytes of the same file
LEMMA ConstantConcat ==
  ASSUME NEW v, NEW m \in Nat, NEW n \in Nat
  PROVE  [i \in 1..m |-> v] \o [i \in 1..n |-> v] = [i \in 1..(m + n) |-> v]
  OBVIOUS

\* A sequence of one value has the length of its domain.
LEMMA ConstantLen ==
  ASSUME NEW V, NEW v \in V, NEW n \in Nat
  PROVE  /\ [i \in 1..n |-> v] \in Seq(V)
         /\ Len([i \in 1..n |-> v]) = n
  OBVIOUS

\* The invariant holds when the connection callback has set the context.
LEMMA InitIInv == Init => IInv
<1> SUFFICES ASSUME Init PROVE IInv
  OBVIOUS
<1>1. /\ response.status = 404 /\ response.entity = <<>> /\ response.st_size = 0
      /\ {"status", "entity", "st_size", "fd"} \subseteq DOMAIN response
  BY DEF Init, NewResponse
<1>2. response.fd = FALSE
  BY DEF Init, NewResponse
<1>3. conn.state \in States /\ "state" \in DOMAIN conn
  BY DEF Init, established, Constructed, NoConnection, States
<1>4. context.phase = "kRequestLine" /\ "phase" \in DOMAIN context
  BY DEF Init, NewContext
<1>5. finished \in BOOLEAN /\ room \in BOOLEAN
  BY Zenon DEF Init
<1>6. /\ asked \in Seq(Requests) /\ size \in [Files -> 0..MaxSize]
      /\ at = "wait" /\ fault = "none"
  BY DEF Init
<1>7. TypeOK
<2>1. response.status \in {200, 404} /\ at \in Places /\ context.phase \in Phases
  BY <1>1, <1>4, <1>6 DEF Places, Phases
<2>2. context.phase = "kCompleted" <=> at \in {"open", "fstat", "read", "respond"}
  BY <1>4, <1>6
<2>3. fault \in {"none", "parse_request", "RequestLine::from", "analyse"}
  BY <1>6
<2> QED
  BY <2>1, <2>2, <2>3, <1>3, <1>5, <1>6, Zenon DEF TypeOK
<1>8. Shape
  BY <1>1, <1>2, <1>3, <1>4 DEF Shape
<1>9. Reading /\ ResponseWhole
  BY <1>6 DEF Reading, ResponseWhole
<1>10. DescriptorClosed
  BY <1>2 DEF DescriptorClosed
<1> QED
  BY <1>7, <1>8, <1>9, <1>10 DEF IInv

-------------------------------------------------------------------------------
(* The three parts of the state *)

ClientTypes ==
  /\ asked \in Seq(Requests)
  /\ finished \in BOOLEAN /\ room \in BOOLEAN
  /\ size \in [Files -> 0..MaxSize]

\* Whether a connection record can be changed member by member
IsConn(c) == c.state \in States /\ "state" \in DOMAIN c

\* The methods of TcpConnection lead from one state of State to another.
LEMMA ConnMethods ==
  ASSUME NEW c, IsConn(c), NEW n
  PROVE  /\ IsConn(Disconnecting(c))
         /\ IsConn(handle_close(c))
         /\ IsConn(shutdown(c))
         /\ IsConn(SentInLoop(c, n))
<1>1. IsConn(Disconnecting(c))
  BY DEF IsConn, Disconnecting, States
<1>2. IsConn(handle_close(c))
  BY DEF IsConn, handle_close, States
<1>3. IsConn(shutdown(c))
  BY <1>1 DEF IsConn, shutdown, shutdown_in_loop, Disconnecting, States
<1>4. IsConn(SentInLoop(c, n))
  <2>1. IsConn(Given(c, "loop"))
    BY DEF IsConn, Given
  <2>2. ASSUME NEW g, IsConn(g), NEW m PROVE IsConn(send_in_loop(g, m, n))
    BY <2>2 DEF IsConn, send_in_loop
  <2> QED
    BY <2>1, <2>2 DEF SentInLoop
<1> QED
  BY <1>1, <1>2, <1>3, <1>4

\* So does handle_write.
LEMMA HandleWriteConn ==
  ASSUME NEW c, IsConn(c), NEW n
  PROVE  IsConn(handle_write(c, n))
<1> DEFINE w == [c EXCEPT !.wire = @ \o SubSeq(c.output, 1, n),
                          !.output = SubSeq(@, n + 1, Len(@)),
                          !.events = IF n = Len(c.output) THEN disable_writing(@) ELSE @]
<1>1. IsConn(w)
  BY DEF IsConn
<1>2. handle_write(c, n) = IF c.state = "kDisconnecting" THEN shutdown(w) ELSE w
  BY DEF handle_write
<1> HIDE DEF w
<1> QED
  BY <1>1, <1>2, ConnMethods

\* The connection keeps its shape in every step.
LEMMA ConnStep ==
  ASSUME IsConn(conn), Next
  PROVE  IsConn(conn')
<1>1. CASE ReadEnd
  BY <1>1, ConnMethods DEF ReadEnd
<1>2. CASE HandleWrite
  BY <1>2, HandleWriteConn DEF HandleWrite
<1>3. ASSUME NEW r, Send(r) PROVE IsConn(conn')
  BY <1>3, ConnMethods DEF Send
<1>4. CASE BadRequest \/ Respond
  BY <1>3, <1>4 DEF BadRequest, Respond
<1>5. CASE UNCHANGED conn
  BY <1>5
<1>6. CASE handle_read \/ Environment
  BY <1>6, <1>5 DEF handle_read, Environment, Ask, Finish, ClientReads, Rewrite
<1>7. CASE ParseRequest
  BY <1>7, <1>5 DEF ParseRequest, WaitForLine, RejectRequestLine, TakeRequestLine, EndHeaders,
       RejectHeader, TakeHeader, NoBody, RejectBody, WaitForBody, TakeBody, ParseReturns,
       ParseOn, CompletedWith
<1>8. CASE open \/ fstat \/ read \/ ReadFails
  BY <1>8, <1>5 DEF open, fstat, read, ReadFails, Analyse
<1> QED
  BY <1>1, <1>2, <1>4, <1>6, <1>7, <1>8 DEF Next, OnMessage

\* The clients and the files keep their types in every step.
LEMMA ClientStep ==
  ASSUME ClientTypes, Next
  PROVE  ClientTypes'
<1>1. CASE UNCHANGED clientVars
  BY <1>1 DEF ClientTypes, clientVars
<1>2. ASSUME UNCHANGED <<asked, finished, size>>, room' \in BOOLEAN
      PROVE  ClientTypes'
  BY <1>2 DEF ClientTypes
<1>3. CASE HandleWrite
  BY <1>3, <1>2 DEF HandleWrite, RoomAfter
<1>4. ASSUME NEW r, Send(r) PROVE room' \in BOOLEAN
  BY <1>4 DEF Send, ClientTypes, RoomAfter
<1>5. CASE BadRequest \/ Respond
  BY <1>5, <1>4, <1>2 DEF BadRequest, Respond
<1>6. CASE handle_read
  BY <1>6, <1>2 DEF handle_read, ClientTypes
<1>7. CASE Environment
  <2>1. CASE \E r \in Requests : Ask(r)
    BY <2>1 DEF Ask, ClientTypes
  <2>2. CASE Finish
    BY <2>2 DEF Finish, ClientTypes
  <2>3. CASE ClientReads
    BY <2>3, <1>2 DEF ClientReads
  <2>4. CASE \E f \in Files : Rewrite(f)
    BY <2>4 DEF Rewrite, ClientTypes
  <2> QED
    BY <1>7, <2>1, <2>2, <2>3, <2>4 DEF Environment
<1>8. CASE ReadEnd
  BY <1>8, <1>1 DEF ReadEnd
<1>9. CASE ParseRequest
  BY <1>9, <1>1 DEF ParseRequest, WaitForLine, RejectRequestLine, TakeRequestLine, EndHeaders,
       RejectHeader, TakeHeader, NoBody, RejectBody, WaitForBody, TakeBody, ParseReturns,
       ParseOn, CompletedWith
<1>10. CASE open \/ fstat \/ read \/ ReadFails
  BY <1>10, <1>1 DEF open, fstat, read, ReadFails, Analyse
<1> QED
  BY <1>3, <1>5, <1>6, <1>7, <1>8, <1>9, <1>10 DEF Next, OnMessage

-------------------------------------------------------------------------------
(* The message callback *)

Faults == {"none", "parse_request", "RequestLine::from", "analyse"}

IsResponse(r) ==
  /\ {"status", "entity", "st_size", "fd"} \subseteq DOMAIN r
  /\ r.entity \in Seq(Units)
  /\ r.st_size \in Nat
  /\ r.status \in {200, 404}

Main ==
  /\ "phase" \in DOMAIN context /\ context.phase \in Phases
  /\ context.phase = "kCompleted" <=> at \in Analysing
  /\ at \in Places /\ fault \in Faults
  /\ IsResponse(response)
  /\ Reading
  /\ ResponseWhole

\* The invariant, taken apart as the steps need it
LEMMA IInvParts == IInv <=> ClientTypes /\ IsConn(conn) /\ Main /\ DescriptorClosed
<1>1. TypeOK /\ Shape <=>
        /\ ClientTypes /\ IsConn(conn)
        /\ "phase" \in DOMAIN context /\ context.phase \in Phases
        /\ context.phase = "kCompleted" <=> at \in Analysing
        /\ at \in Places /\ fault \in Faults
        /\ IsResponse(response)
  BY Zenon DEF TypeOK, Shape, ClientTypes, IsConn, IsResponse, Analysing, Faults
<1> QED
  BY <1>1, Zenon DEF IInv, Main

\* A step that ends outside of analyse and leaves the last response alone
LEMMA Idle ==
  ASSUME Main, at' \in Places \ Analysing, fault' \in Faults, UNCHANGED response,
         "phase" \in DOMAIN context', context.phase' \in Phases \ {"kCompleted"}
  PROVE  Main'
  BY DEF Main, Reading, ResponseWhole, Analysing, IsResponse

\* A step that changes nothing analyse looks at
LEMMA Same ==
  ASSUME Main, UNCHANGED <<context, response, at, fault>>
  PROVE  Main'
  BY DEF Main, Reading, ResponseWhole, Wanted, IsResponse

\* A level of parse_request ends outside of analyse, or enters it afresh.
LEMMA ParseStep ==
  ASSUME Main, ParseRequest, fault = "none"
  PROVE  Main'
<1>1. at = "parse" /\ context.phase # "kCompleted"
  BY DEF ParseRequest, WaitForLine, RejectRequestLine, TakeRequestLine, EndHeaders,
       RejectHeader, TakeHeader, NoBody, RejectBody, WaitForBody, TakeBody, Parsing
<1>2. ASSUME NEW p \in {"wait", "bad"}, ParseReturns(p) PROVE Main'
  BY <1>1, <1>2, Idle DEF ParseReturns, Main, Places, Analysing
<1>3. ASSUME NEW ph \in {"kHeaderLines", "kEntityBody"}, NEW r, NEW b, ParseOn(ph, r, b),
             UNCHANGED fault
      PROVE  Main'
  BY <1>1, <1>3, Idle DEF ParseOn, Main, Places, Analysing, Phases
<1>4. ASSUME NEW b, CompletedWith(b) PROVE Main'
  <2>1. /\ context' = [context EXCEPT !.phase = "kCompleted"]
        /\ at' = "open" /\ fault' = fault
        /\ response'.status = 200 /\ response'.entity = <<>> /\ response'.st_size = 0
        /\ {"status", "entity", "st_size", "fd"} \subseteq DOMAIN response'
    BY <1>4 DEF CompletedWith, NewResponse
  <2>2. "phase" \in DOMAIN context' /\ context'.phase = "kCompleted"
    BY <2>1 DEF Main
  <2>3. IsResponse(response')
    BY <2>1 DEF IsResponse
  <2> QED
    BY <2>1, <2>2, <2>3 DEF Main, Reading, ResponseWhole, Places, Phases, Analysing
<1>5. CASE TakeRequestLine
  <2>1. CASE fault' = fault /\ \E r, b : ParseOn("kHeaderLines", r, b)
    BY <2>1, <1>3
  <2>2. CASE /\ fault' \in {"parse_request", "RequestLine::from"}
             /\ UNCHANGED <<context, response, at>>
    BY <2>2, <1>1, Idle DEF Main, Places, Analysing, Faults
  <2> QED
    BY <1>5, <2>1, <2>2 DEF TakeRequestLine
<1>6. CASE WaitForLine \/ RejectRequestLine \/ RejectHeader \/ RejectBody \/ WaitForBody
  BY <1>6, <1>2 DEF WaitForLine, RejectRequestLine, RejectHeader, RejectBody, WaitForBody
<1>7. CASE EndHeaders \/ TakeHeader
  BY <1>7, <1>3 DEF EndHeaders, TakeHeader
<1>8. CASE NoBody \/ TakeBody
  BY <1>8, <1>4 DEF NoBody, TakeBody
<1> QED
  BY <1>5, <1>6, <1>7, <1>8 DEF ParseRequest

\* error_message_with makes a whole error page out of any response.
LEMMA ErrorPage ==
  ASSUME NEW r, IsResponse(r), NEW code \in {200, 404}
  PROVE  LET e == error_message_with(r, code)
         IN IsResponse(e) /\ e.status = code /\ e.entity = <<"page">>
  BY DEF IsResponse, error_message_with, Units

\* So does it after the descriptor is closed.
LEMMA ClosedResponse ==
  ASSUME NEW r, IsResponse(r)
  PROVE  /\ IsResponse(Closed(r)) /\ Closed(r).fd = FALSE
         /\ Closed(r).status = r.status /\ Closed(r).entity = r.entity
         /\ Closed(r).st_size = r.st_size
  BY DEF IsResponse, Closed

\* Every failure of analyse ends with the error page.
LEMMA FailStep ==
  ASSUME Main, at \in Analysing, NEW r, r = response \/ r = Closed(response),
         Analyse("respond", error_message_with(r, 404)), UNCHANGED fault
  PROVE  Main'
<1>1. /\ at' = "respond" /\ UNCHANGED <<context, fault>>
      /\ response' = error_message_with(r, 404)
      /\ IsResponse(r)
  BY ClosedResponse DEF Analyse, Main
<1>2. IsResponse(response') /\ response'.status = 404 /\ response'.entity = <<"page">>
  BY <1>1, ErrorPage DEF Main
<1> QED
  BY <1>1, <1>2 DEF Main, Reading, ResponseWhole, Analysing, Places

\* open finds the file or ends with the error page.
LEMMA OpenStep ==
  ASSUME Main, open
  PROVE  Main'
<1>1. CASE Found /\ Analyse("fstat", [response EXCEPT !.fd = TRUE])
  <2>1. /\ at = "open" /\ at' = "fstat" /\ UNCHANGED <<context, fault>>
        /\ response' = [response EXCEPT !.fd = TRUE]
    BY <1>1 DEF open, Analyse
  <2>2. /\ IsResponse(response')
        /\ response'.entity = response.entity /\ response'.status = response.status
    BY <2>1 DEF Main, IsResponse
  <2>3. Wanted' \in Files
    BY <1>1, <2>1 DEF Found, Wanted
  <2> QED
    BY <2>1, <2>2, <2>3 DEF Main, Reading, ResponseWhole, Analysing, Places
<1> QED
  BY <1>1, FailStep DEF open, Analysing

\* fstat takes the size, before the first byte is read.
LEMMA FstatStep ==
  ASSUME ClientTypes, Main, fstat
  PROVE  Main'
<1>1. CASE Analyse("read", [response EXCEPT !.st_size = size[Wanted]])
  <2>1. /\ at = "fstat" /\ at' = "read" /\ UNCHANGED <<context, fault>>
        /\ response' = [response EXCEPT !.st_size = size[Wanted]]
    BY <1>1 DEF fstat, Analyse
  <2>2. size[Wanted] \in Nat
    BY <2>1, HttpAssumption DEF ClientTypes, Main, Reading
  <2>3. /\ IsResponse(response')
        /\ response'.entity = response.entity /\ response'.status = response.status
    BY <2>1, <2>2 DEF Main, IsResponse
  <2>4. response'.entity = <<>> /\ response'.status = 200 /\ Wanted' \in Files
    BY <2>1, <2>3 DEF Main, Reading, Wanted
  <2>5. response'.entity = [i \in 1..Len(response'.entity) |-> Wanted']
    BY <2>4
  <2> QED
    BY <2>1, <2>3, <2>4, <2>5 DEF Main, Reading, ResponseWhole, Analysing, Places
<1> QED
  BY <1>1, FailStep DEF fstat, Analysing, Wanted

\* A turn of the loop appends bytes of the wanted file, and leaves the loop with
\* exactly st_size of them.
LEMMA ReadStep ==
  ASSUME ClientTypes, Main, read
  PROVE  Main'
<1> DEFINE f == Wanted
           left == size[f] - Len(response.entity)
<1>1. at = "read" /\ f \in Files /\ size[f] \in Nat /\ Len(response.entity) \in Nat
  BY HttpAssumption DEF read, ClientTypes, Main, Reading, IsResponse
<1>2. PICK n \in IF left > 0 THEN 1..left ELSE {0} :
        LET entity == response.entity \o [i \in 1..n |-> f]
        IN IF Len(entity) < response.st_size
           THEN UNCHANGED fault /\ Analyse("read", [response EXCEPT !.entity = entity])
           ELSE IF Len(entity) = response.st_size
           THEN UNCHANGED fault
                /\ Analyse("respond", Closed([response EXCEPT !.entity = entity]))
           ELSE fault' = "analyse" /\ Analyse("read", [response EXCEPT !.entity = entity])
  BY DEF read, Wanted
<1> DEFINE m == Len(response.entity)
           entity == response.entity \o [i \in 1..n |-> f]
<1>3. n \in Nat
  BY <1>1, <1>2
<1>4. response.entity = [i \in 1..m |-> f]
  BY <1>1 DEF Main, Reading
<1>5. entity = [i \in 1..(m + n) |-> f]
  BY <1>1, <1>3, <1>4, ConstantConcat
<1>6. entity \in Seq(Units) /\ Len(entity) = m + n
  <2>1. m + n \in Nat /\ f \in Units
    BY <1>1, <1>3 DEF Units
  <2> HIDE DEF f, m, entity
  <2> QED
    BY <1>5, <2>1, ConstantLen
<1>7. /\ UNCHANGED context
      /\ fault' \in Faults
      /\ \/ at' = "read" /\ response' = [response EXCEPT !.entity = entity]
         \/ /\ at' = "respond" /\ Len(entity) = response.st_size
            /\ response' = Closed([response EXCEPT !.entity = entity])
  BY <1>2 DEF Analyse, Main, Faults
<1>8. Wanted' = f
  BY <1>7 DEF Wanted
<1> HIDE DEF f, m, entity
<1>9. /\ IsResponse(response') /\ response'.entity = entity
      /\ response'.status = 200 /\ response'.st_size = response.st_size
  <2>1. IsResponse(response) /\ response.status = 200
    BY <1>1 DEF Main, Reading
  <2>2. CASE response' = [response EXCEPT !.entity = entity]
    BY <1>6, <2>1, <2>2 DEF IsResponse
  <2>3. CASE response' = Closed([response EXCEPT !.entity = entity])
    <3> DEFINE r == [response EXCEPT !.entity = entity]
    <3>1. /\ IsResponse(r) /\ r.entity = entity
          /\ r.status = 200 /\ r.st_size = response.st_size
      BY <1>6, <2>1 DEF IsResponse
    <3>2. response' = Closed(r)
      BY <2>3
    <3> HIDE DEF r
    <3>3. /\ IsResponse(Closed(r)) /\ Closed(r).status = r.status
          /\ Closed(r).entity = r.entity /\ Closed(r).st_size = r.st_size
      BY <3>1, ClosedResponse
    <3> QED
      BY <3>1, <3>2, <3>3
  <2> QED
    BY <1>7, <2>2, <2>3
<1>10. CASE at' = "read"
  <2>1. response'.entity = [i \in 1..Len(response'.entity) |-> Wanted']
    <3>1. Len(response'.entity) = m + n
      BY <1>6, <1>9
    <3>2. response'.entity = [i \in 1..(m + n) |-> Wanted']
      BY <1>5, <1>8, <1>9
    <3> QED
      BY <3>1, <3>2
  <2>2. Wanted' \in Files
    BY <1>1, <1>8
  <2> QED
    BY <1>1, <1>7, <1>9, <1>10, <2>1, <2>2
       DEF Main, Reading, ResponseWhole, Analysing, Places
<1>11. CASE at' = "respond" /\ Len(entity) = response.st_size
  <2>1. entity = [i \in 1..response'.st_size |-> Wanted']
    <3>1. response'.st_size = m + n
      BY <1>6, <1>9, <1>11
    <3> QED
      BY <1>5, <1>8, <3>1
  <2> QED
    BY <1>1, <1>7, <1>9, <1>11, <2>1
       DEF Main, Reading, ResponseWhole, Wanted, Analysing, Places
<1> QED
  BY <1>7, <1>10, <1>11

\* Every step of the connection and its message callback
LEMMA MainStep ==
  ASSUME ClientTypes, Main, Next
  PROVE  Main'
<1>1. fault = "none"
  BY DEF Next
<1>2. CASE HandleWrite \/ Environment
  BY <1>2, Same DEF HandleWrite, Environment, Ask, Finish, ClientReads, Rewrite
<1>3. CASE handle_read \/ ReadEnd \/ BadRequest
  BY <1>3, Idle DEF handle_read, ReadEnd, BadRequest, Main, Places, Analysing
<1>4. CASE Respond
  <2>1. /\ at' = "wait" /\ UNCHANGED <<response, fault>>
        /\ "phase" \in DOMAIN context' /\ context'.phase = "kRequestLine"
    BY <1>4 DEF Respond, reset, Main
  <2> QED
    BY <2>1, Idle DEF Main, Places, Analysing, Phases
<1>5. CASE ReadFails
  BY <1>5, FailStep DEF ReadFails, Analysing
<1> QED
  BY <1>1, <1>2, <1>3, <1>4, <1>5, ParseStep, OpenStep, FstatStep, ReadStep DEF Next, OnMessage

\* Outside of fstat and read there is no descriptor, and only open makes one.
LEMMA DescriptorStep ==
  ASSUME Main, DescriptorClosed, Next
  PROVE  DescriptorClosed'
<1>1. CASE UNCHANGED response /\ at \notin {"fstat", "read"}
  BY <1>1 DEF DescriptorClosed
<1>2. CASE UNCHANGED <<response, at>>
  BY <1>2 DEF DescriptorClosed
<1>3. CASE response'.fd = FALSE
  BY <1>3 DEF DescriptorClosed
<1>4. CASE at' \in {"fstat", "read"}
  BY <1>4 DEF DescriptorClosed
<1>5. CASE Environment \/ HandleWrite
  BY <1>5, <1>2 DEF HandleWrite, Environment, Ask, Finish, ClientReads, Rewrite
<1>6. CASE handle_read \/ ReadEnd \/ BadRequest \/ Respond
  BY <1>6, <1>1 DEF handle_read, ReadEnd, BadRequest, Respond
<1>7. CASE ParseRequest
  <2>1. CASE NoBody \/ TakeBody
    <3>1. response'.fd = FALSE
      BY <2>1 DEF NoBody, TakeBody, CompletedWith, NewResponse
    <3> QED
      BY <3>1, <1>3
  <2>2. CASE ~(NoBody \/ TakeBody)
    BY <1>7, <2>2, <1>1 DEF ParseRequest, WaitForLine, RejectRequestLine, TakeRequestLine,
         EndHeaders, RejectHeader, TakeHeader, RejectBody, WaitForBody, Parsing, ParseReturns,
         ParseOn
  <2> QED
    BY <2>1, <2>2
<1>8. ASSUME NEW r, IsResponse(r), r.fd = FALSE, Analyse("respond", error_message_with(r, 404))
      PROVE  DescriptorClosed'
  <2>1. response'.fd = FALSE
    BY <1>8 DEF Analyse, error_message_with, IsResponse
  <2> QED
    BY <2>1, <1>3
<1>9. CASE open
  <2>1. IsResponse(response) /\ response.fd = FALSE
    BY <1>9 DEF open, Main, IsResponse, DescriptorClosed
  <2> QED
    BY <1>9, <1>4, <1>8, <2>1 DEF open, Analyse
<1>10. CASE fstat \/ ReadFails
  <2>1. IsResponse(Closed(response)) /\ Closed(response).fd = FALSE
    BY ClosedResponse DEF Main
  <2> QED
    BY <1>10, <1>4, <1>8, <2>1 DEF fstat, ReadFails, Analyse
<1>11. CASE read
  <2>1. at' = "read" \/ response'.fd = FALSE
    <3>1. \/ at' = "read"
          \/ \E e : response' = Closed([response EXCEPT !.entity = e])
      BY <1>11 DEF read, Analyse
    <3>2. "fd" \in DOMAIN response
      BY DEF Main, IsResponse
    <3> QED
      BY <3>1, <3>2 DEF Closed
  <2> QED
    BY <2>1, <1>3, <1>4
<1> QED
  BY <1>5, <1>6, <1>7, <1>9, <1>10, <1>11 DEF Next, OnMessage

-------------------------------------------------------------------------------
(* Theorems *)

\* The invariant is inductive.
LEMMA Inductive == IInv /\ [Next]_vars => IInv'
<1> SUFFICES ASSUME IInv, [Next]_vars PROVE IInv'
  OBVIOUS
<1>1. ClientTypes /\ IsConn(conn) /\ Main /\ DescriptorClosed
  BY IInvParts
<1>2. CASE Next
  <2>1. ClientTypes' /\ IsConn(conn)' /\ Main' /\ DescriptorClosed'
    BY <1>1, <1>2, ClientStep, ConnStep, MainStep, DescriptorStep DEF IsConn
  <2>2. (IInv <=> ClientTypes /\ IsConn(conn) /\ Main /\ DescriptorClosed)'
    BY IInvParts, PTL
  <2> QED
    BY <2>1, <2>2
<1>3. CASE UNCHANGED vars
  BY <1>3 DEF IInv, TypeOK, Shape, Reading, Wanted, DescriptorClosed, ResponseWhole, vars,
       clientVars
<1> QED
  BY <1>2, <1>3

\* and so holds in every state.
LEMMA Invariance == Spec => []IInv
  BY InitIInv, Inductive, PTL DEF Spec

\* The state has its type: in particular on_message never leaves a completed context
\* behind, and never waits for more while it has one.
THEOREM TypeCorrect == Spec => []TypeOK
<1>1. IInv => TypeOK
  BY DEF IInv
<1> QED
  BY <1>1, Invariance, PTL

\* Every answer analyse gives is a whole file or the error page alone, however the
\* reads are cut, fail, or meet a file that changes.
THEOREM ResponseWholeHolds == Spec => []ResponseWhole
<1>1. IInv => ResponseWhole
  BY DEF IInv
<1> QED
  BY <1>1, Invariance, PTL

\* analyse closes the descriptor on every way out.
THEOREM DescriptorClosedHolds == Spec => []DescriptorClosed
<1>1. IInv => DescriptorClosed
  BY DEF IInv
<1> QED
  BY <1>1, Invariance, PTL

-------------------------------------------------------------------------------
(* HttpSession: how far a request has got is read off the phase of the parser, and what is *)
(* left of it is in the buffer and on its way through the network.                         *)

Symbols ==
  {CR, LF, Byte} \cup {Line(r.line) : r \in Requests} \cup {Header(h) : h \in Fields}

Replies == [status : {200, 400, 404}, body : Seq(Units), length : Nat, close : BOOLEAN]

\* What the parser has not taken
Left == in_buffer_ \o network

\* A request behind its first line and k header lines
Rest(r, k) == SubSeq(Encode(r), 3 * k + 4, Len(Encode(r)))

FirstHeaders(r, k) == {r.headers[i] : i \in 1..k}

\* What the parser has made of them
Taken(r, k) ==
  [method |-> r.line.words[1], path |-> path(r.line), headers |-> FirstHeaders(r, k)]

Parsed(r, k) ==
  /\ context.request = Taken(r, k)
  /\ IsRequestLine(r.line)
  /\ \A i \in 1..k : r.headers[i].name # "" /\ r.headers[i].value # ""
  /\ \A i, j \in 1..k : r.headers[i].name = r.headers[j].name => i = j

\* How far the parser is with the request r
Progress(r) ==
  /\ context.phase = "kRequestLine" => context.request = NewRequest /\ Left = Encode(r)
  /\ context.phase = "kHeaderLines" =>
       \E k \in 0..Len(r.headers) : Parsed(r, k) /\ Left = Rest(r, k)
  /\ context.phase = "kEntityBody" => Parsed(r, Len(r.headers)) /\ Len(Left) = r.body
  /\ context.phase = "kCompleted" =>
       /\ Parsed(r, Len(r.headers)) /\ Session!WellFormed(r) /\ Left = <<>>
       /\ response.close = ~Session!KeepsAlive(r)
  /\ at = "bad" => ~Session!WellFormed(r)

\* There is no request to answer.
Resting ==
  context.phase = "kRequestLine" /\ context.request = NewRequest /\ Left = <<>> /\ at = "wait"

\* While answers are sent: nothing is left of a request that was answered, and the one
\* that was not is on its way through the parser.
OneByOne ==
  conn.state = "kConnected" =>
    /\ in_buffer_ \in Seq(Symbols) /\ network \in Seq(Symbols)
    /\ IF Len(asked) = Len(answers) THEN Resting ELSE Progress(asked[Len(asked)])

\* A file is served only if the request names it.
Serving ==
  /\ at \in {"fstat", "read"} \/ (at = "respond" /\ response.status = 200) => Found
  /\ at = "read" \/ (at = "respond" /\ response.status = 200) => response.st_size \in 0..MaxSize

SessionTypes ==
  /\ answers \in Seq(Replies)
  /\ DOMAIN context = {"phase", "request"}
  /\ "close" \in DOMAIN response /\ response.close \in BOOLEAN

Counted == Len(answers) <= Len(asked) /\ Len(asked) <= Len(answers) + 1

EndedByAnswer == Session!Over => conn.state # "kConnected"

SessionInv ==
  /\ IInv
  /\ SessionTypes
  /\ Counted
  /\ EndedByAnswer
  /\ OneByOne
  /\ Serving

\* A function on 1..m is a sequence of length m.
LEMMA FunctionIsSeq ==
  ASSUME NEW S, NEW m \in Nat, NEW f \in [1..m -> S]
  PROVE  f \in Seq(S) /\ Len(f) = m
  OBVIOUS

\* A request on the wire: its first line, each header line, an empty line and the body
LEMMA EncodeLayout ==
  ASSUME NEW r \in Requests
  PROVE  LET n == Len(r.headers)
             e == Encode(r)
         IN /\ n \in Nat /\ r.body \in Nat
            /\ e \in Seq(Symbols)
            /\ Len(e) = 3 * n + 5 + r.body
            /\ e[1] = Line(r.line) /\ e[2] = CR /\ e[3] = LF
            /\ \A k \in 0..(n - 1) : /\ e[3 * k + 4] = Header(r.headers[k + 1])
                                     /\ e[3 * k + 5] = CR /\ e[3 * k + 6] = LF
            /\ e[3 * n + 4] = CR /\ e[3 * n + 5] = LF
<1> DEFINE n == Len(r.headers)
           b == r.body
           first == <<Line(r.line), CR, LF>>
           symbol(i) == CASE i % 3 = 1 -> Header(r.headers[(i + 2) \div 3])
                          [] i % 3 = 2 -> CR
                          [] OTHER -> LF
           lines == [i \in 1..(3 * n) |-> symbol(i)]
           empty == <<CR, LF>>
           body == [i \in 1..b |-> Byte]
<1>1. n \in Nat /\ b \in Nat /\ r.headers \in Seq(Fields)
  BY RequestsAssumption
<1>2. CR \in Symbols /\ LF \in Symbols /\ Byte \in Symbols /\ Line(r.line) \in Symbols
  BY DEF Symbols
<1>3. \A k \in 0..(n - 1) : Header(r.headers[k + 1]) \in Symbols
  BY <1>1 DEF Symbols
<1>4. first \in Seq(Symbols) /\ Len(first) = 3
  BY <1>2
<1>5. empty \in Seq(Symbols) /\ Len(empty) = 2
  BY <1>2
<1>6. body \in Seq(Symbols) /\ Len(body) = b
  BY <1>1, <1>2, ConstantLen
<1>7. \A i \in 1..(3 * n) : symbol(i) \in Symbols
  <2>1. SUFFICES ASSUME NEW i \in 1..(3 * n) PROVE symbol(i) \in Symbols
    OBVIOUS
  <2>2. i % 3 = 1 => (i + 2) \div 3 \in 1..n
    BY <1>1
  <2>3. i % 3 = 1 => Header(r.headers[(i + 2) \div 3]) \in Symbols
    BY <1>1, <2>2 DEF Symbols
  <2>4. i % 3 = 1 => symbol(i) = Header(r.headers[(i + 2) \div 3])
    OBVIOUS
  <2>5. i % 3 # 1 => symbol(i) \in {CR, LF}
    OBVIOUS
  <2> QED
    BY <1>2, <2>3, <2>4, <2>5
<1>8. lines \in Seq(Symbols) /\ Len(lines) = 3 * n
  <2> HIDE DEF symbol
  <2>1. 3 * n \in Nat /\ lines \in [1..(3 * n) -> Symbols]
    BY <1>1, <1>7
  <2> QED
    BY <2>1, FunctionIsSeq
<1>9. \A k \in 0..(n - 1) : /\ lines[3 * k + 1] = Header(r.headers[k + 1])
                            /\ lines[3 * k + 2] = CR /\ lines[3 * k + 3] = LF
  <2>1. SUFFICES ASSUME NEW k \in 0..(n - 1)
                 PROVE  /\ lines[3 * k + 1] = Header(r.headers[k + 1])
                        /\ lines[3 * k + 2] = CR /\ lines[3 * k + 3] = LF
    OBVIOUS
  <2>2. /\ (3 * k + 1) % 3 = 1 /\ (3 * k + 2) % 3 = 2 /\ (3 * k + 3) % 3 = 0
        /\ (3 * k + 1 + 2) \div 3 = k + 1
    BY <1>1
  <2>3. 3 * k + 1 \in 1..(3 * n) /\ 3 * k + 2 \in 1..(3 * n) /\ 3 * k + 3 \in 1..(3 * n)
    BY <1>1
  <2>4. symbol(3 * k + 1) = Header(r.headers[k + 1])
    BY <2>2
  <2>5. symbol(3 * k + 2) = CR /\ symbol(3 * k + 3) = LF
    BY <2>2
  <2> HIDE DEF symbol
  <2> QED
    BY <2>3, <2>4, <2>5
<1>10. Encode(r) = first \o lines \o empty \o body
  BY DEF Encode
<1> HIDE DEF lines, body, n, b
<1> DEFINE head == first \o lines
<1>11. /\ head \in Seq(Symbols) /\ Len(head) = 3 * n + 3
       /\ head[1] = Line(r.line) /\ head[2] = CR /\ head[3] = LF
       /\ \A i \in 1..(3 * n) : head[i + 3] = lines[i]
  BY <1>1, <1>4, <1>8
<1> HIDE DEF head
<1> DEFINE heads == head \o empty
<1>12. /\ heads \in Seq(Symbols) /\ Len(heads) = 3 * n + 5
       /\ \A i \in 1..(3 * n + 3) : heads[i] = head[i]
       /\ heads[3 * n + 4] = CR /\ heads[3 * n + 5] = LF
  BY <1>1, <1>5, <1>11
<1> HIDE DEF heads
<1>13. /\ heads \o body \in Seq(Symbols) /\ Len(heads \o body) = 3 * n + 5 + b
       /\ \A i \in 1..(3 * n + 5) : (heads \o body)[i] = heads[i]
  BY <1>1, <1>6, <1>12
<1>14. Encode(r) = heads \o body
  BY <1>10 DEF head, heads
<1>15. /\ Encode(r)[1] = Line(r.line) /\ Encode(r)[2] = CR /\ Encode(r)[3] = LF
       /\ Encode(r)[3 * n + 4] = CR /\ Encode(r)[3 * n + 5] = LF
  BY <1>1, <1>11, <1>12, <1>13, <1>14
<1>16. ASSUME NEW k \in 0..(n - 1)
       PROVE  /\ Encode(r)[3 * k + 4] = Header(r.headers[k + 1])
              /\ Encode(r)[3 * k + 5] = CR /\ Encode(r)[3 * k + 6] = LF
  <2>1. ASSUME NEW i \in 1..(3 * n) PROVE Encode(r)[i + 3] = lines[i]
    <3>1. i + 3 \in 1..(3 * n + 3) /\ i + 3 \in 1..(3 * n + 5)
      BY <1>1
    <3>2. Encode(r)[i + 3] = heads[i + 3] /\ heads[i + 3] = head[i + 3]
      BY <3>1, <1>12, <1>13, <1>14
    <3> QED
      BY <3>2, <1>11
  <2>2. 3 * k + 1 \in 1..(3 * n) /\ 3 * k + 2 \in 1..(3 * n) /\ 3 * k + 3 \in 1..(3 * n)
    BY <1>1
  <2>3. /\ Encode(r)[3 * k + 1 + 3] = lines[3 * k + 1]
        /\ Encode(r)[3 * k + 2 + 3] = lines[3 * k + 2]
        /\ Encode(r)[3 * k + 3 + 3] = lines[3 * k + 3]
    BY <2>1, <2>2
  <2>4. 3 * k + 1 + 3 = 3 * k + 4 /\ 3 * k + 2 + 3 = 3 * k + 5 /\ 3 * k + 3 + 3 = 3 * k + 6
    BY <1>1
  <2> QED
    BY <1>9, <2>3, <2>4
<1> QED
  BY <1>1, <1>13, <1>14, <1>15, <1>16 DEF n, b

\* What is left of a sequence without its first elements
LEMMA SuffixOf ==
  ASSUME NEW S, NEW s \in Seq(S), NEW m \in 1..(Len(s) + 1)
  PROVE  /\ SubSeq(s, m, Len(s)) \in Seq(S)
         /\ Len(SubSeq(s, m, Len(s))) = Len(s) - m + 1
         /\ \A i \in 1..(Len(s) - m + 1) : SubSeq(s, m, Len(s))[i] = s[m + i - 1]
<1>1. Len(s) \in Nat /\ \A i \in m..Len(s) : s[i] \in S
  BY ElementOfSeq, LenProperties
<1> DEFINE n == Len(s)
           t == SubSeq(s, m, n)
<1>2. m \in Int /\ n \in Int /\ m <= n + 1
  BY <1>1
<1>3. /\ t \in Seq(S) /\ Len(t) = (IF m <= n THEN n - m + 1 ELSE 0)
      /\ \A i \in 1..(n - m + 1) : t[i] = s[m + i - 1]
  <2> HIDE DEF n
  <2> QED
    BY <1>1, <1>2, SubSeqProperties DEF n
<1> HIDE DEF n, t
<1>4. Len(t) = n - m + 1
  BY <1>2, <1>3
<1> QED
  BY <1>3, <1>4 DEF n, t

\* Taking from the front of what has arrived takes from the front of the whole.
LEMMA SuffixConcat ==
  ASSUME NEW S, NEW s \in Seq(S), NEW t \in Seq(S), NEW m \in 1..(Len(s) + 1)
  PROVE  SubSeq(s, m, Len(s)) \o t = SubSeq(s \o t, m, Len(s \o t))
<1> DEFINE u == s \o t
           a == SubSeq(s, m, Len(s))
           b == SubSeq(u, m, Len(u))
<1>1. Len(s) \in Nat /\ Len(t) \in Nat
  BY LenProperties
<1>2. /\ u \in Seq(S) /\ Len(u) = Len(s) + Len(t)
      /\ \A i \in 1..(Len(s) + Len(t)) : u[i] = IF i <= Len(s) THEN s[i] ELSE t[i - Len(s)]
  BY ConcatProperties
<1>3. /\ a \in Seq(S) /\ Len(a) = Len(s) - m + 1
      /\ \A i \in 1..(Len(s) - m + 1) : a[i] = s[m + i - 1]
  BY SuffixOf
<1> HIDE DEF u
<1>4. m \in 1..(Len(u) + 1)
  BY <1>1, <1>2
<1>5. /\ b \in Seq(S) /\ Len(b) = Len(u) - m + 1
      /\ \A i \in 1..(Len(u) - m + 1) : b[i] = u[m + i - 1]
  BY <1>2, <1>4, SuffixOf
<1> HIDE DEF a, b
<1> DEFINE c == a \o t
<1>6. /\ c \in Seq(S) /\ Len(c) = Len(a) + Len(t)
      /\ \A i \in 1..(Len(a) + Len(t)) : c[i] = IF i <= Len(a) THEN a[i] ELSE t[i - Len(a)]
  BY <1>3, ConcatProperties
<1> HIDE DEF c
<1>7. Len(c) = Len(b)
  BY <1>1, <1>2, <1>3, <1>5, <1>6
<1>8. ASSUME NEW i \in 1..Len(c) PROVE c[i] = b[i]
  <2>1. /\ i \in 1..(Len(u) - m + 1) /\ m + i - 1 \in 1..(Len(s) + Len(t))
        /\ i \in 1..(Len(a) + Len(t))
    BY <1>1, <1>2, <1>3, <1>6
  <2>2. b[i] = u[m + i - 1]
    BY <1>5, <2>1
  <2>3. CASE i <= Len(a)
    <3>1. m + i - 1 <= Len(s) /\ i \in 1..(Len(s) - m + 1)
      BY <1>1, <1>3, <2>3
    <3>2. c[i] = a[i] /\ a[i] = s[m + i - 1]
      BY <1>3, <1>6, <2>1, <2>3, <3>1
    <3>3. u[m + i - 1] = s[m + i - 1]
      BY <1>2, <2>1, <3>1
    <3> QED
      BY <2>2, <3>2, <3>3
  <2>4. CASE ~(i <= Len(a))
    <3>1. ~(m + i - 1 <= Len(s)) /\ i - Len(a) = m + i - 1 - Len(s)
      BY <1>1, <1>3, <2>4
    <3>2. c[i] = t[i - Len(a)]
      BY <1>6, <2>1, <2>4
    <3>3. u[m + i - 1] = t[m + i - 1 - Len(s)]
      BY <1>2, <2>1, <3>1
    <3> QED
      BY <2>2, <3>1, <3>2, <3>3
  <2> QED
    BY <2>3, <2>4
<1>9. c = b
  BY <1>5, <1>6, <1>7, <1>8, SeqEqual
<1> QED
  BY <1>9 DEF a, b, c, u

\* A sequence of one element
LEMMA OneElement ==
  ASSUME NEW S, NEW s \in Seq(S), Len(s) = 1
  PROVE  s = <<s[1]>>
  OBVIOUS

\* buf has arrived of s.
Arrived(s, buf, more) == buf \in Seq(Symbols) /\ more \in Seq(Symbols) /\ s = buf \o more

\* s starts with a line that has a text, or with an empty line.
StartsWithText(s) == Len(s) >= 3 /\ s[1] # CR /\ s[2] = CR /\ s[3] = LF
StartsEmpty(s) == Len(s) >= 2 /\ s[1] = CR /\ s[2] = LF

\* find("\r\n") in what has arrived of a line with a text: it stops behind the text.
LEMMA CutText ==
  ASSUME NEW s, NEW buf, NEW more, Arrived(s, buf, more), StartsWithText(s), HasLine(buf)
  PROVE  /\ LineOf(buf) = <<s[1]>>
         /\ AfterLine(buf) \in Seq(Symbols)
         /\ AfterLine(buf) \o more = SubSeq(s, 4, Len(s))
<1> USE DEF Arrived, StartsWithText
<1>1. PICK i \in 1..(Len(buf) - 1) : buf[i] = CR /\ buf[i + 1] = LF
  BY DEF HasLine, LineEnds
<1>2. \A j \in 1..Len(buf) : s[j] = buf[j]
  OBVIOUS
<1>3. i # 1
  BY <1>1, <1>2
<1>4. Len(buf) >= 3 /\ Len(buf) \in Nat
  BY <1>1, <1>3
<1>5. 2 \in LineEnds(buf) /\ 1 \notin LineEnds(buf)
  BY <1>2, <1>4 DEF LineEnds
<1>6. LineEnds(buf) \subseteq Nat \ {0}
  BY <1>4 DEF LineEnds
<1>7. FirstEnd(buf) = 2
  <2>1. \A j \in LineEnds(buf) : 2 <= j
    BY <1>5, <1>6
  <2>2. \A e \in LineEnds(buf) : (\A j \in LineEnds(buf) : e <= j) => e = 2
    BY <1>5, <1>6
  <2> QED
    BY <1>5, <2>1, <2>2 DEF FirstEnd
<1>8. LineOf(buf) = <<s[1]>>
  <2>1. LineOf(buf) = SubSeq(buf, 1, 1)
    BY <1>7 DEF LineOf
  <2>2. \A j \in 1..1 : buf[j] \in Symbols
    BY <1>4, ElementOfSeq
  <2>3. /\ SubSeq(buf, 1, 1) \in Seq(Symbols) /\ Len(SubSeq(buf, 1, 1)) = 1
        /\ SubSeq(buf, 1, 1)[1] = buf[1]
    BY <2>2, SubSeqProperties
  <2>4. SubSeq(buf, 1, 1) = <<SubSeq(buf, 1, 1)[1]>>
    BY <2>3, OneElement
  <2> QED
    BY <1>2, <1>4, <2>1, <2>3, <2>4
<1>9. AfterLine(buf) = SubSeq(buf, 4, Len(buf))
  BY <1>7 DEF AfterLine
<1>10. 4 \in 1..(Len(buf) + 1)
  BY <1>4
<1>11. /\ SubSeq(buf, 4, Len(buf)) \in Seq(Symbols)
       /\ SubSeq(buf, 4, Len(buf)) \o more = SubSeq(s, 4, Len(s))
  BY <1>10, SuffixOf, SuffixConcat
<1> QED
  BY <1>8, <1>9, <1>11

\* The same at an empty line
LEMMA CutEmpty ==
  ASSUME NEW s, NEW buf, NEW more, Arrived(s, buf, more), StartsEmpty(s), HasLine(buf)
  PROVE  /\ LineOf(buf) = <<>>
         /\ AfterLine(buf) \in Seq(Symbols)
         /\ AfterLine(buf) \o more = SubSeq(s, 3, Len(s))
<1> USE DEF Arrived, StartsEmpty
<1>1. PICK i \in 1..(Len(buf) - 1) : buf[i] = CR /\ buf[i + 1] = LF
  BY DEF HasLine, LineEnds
<1>2. \A j \in 1..Len(buf) : s[j] = buf[j]
  OBVIOUS
<1>4. Len(buf) >= 2 /\ Len(buf) \in Nat
  BY <1>1
<1>5. 1 \in LineEnds(buf)
  BY <1>2, <1>4 DEF LineEnds
<1>6. LineEnds(buf) \subseteq Nat \ {0}
  BY <1>4 DEF LineEnds
<1>7. FirstEnd(buf) = 1
  <2>1. \A j \in LineEnds(buf) : 1 <= j
    BY <1>5, <1>6
  <2>2. \A e \in LineEnds(buf) : (\A j \in LineEnds(buf) : e <= j) => e = 1
    BY <1>5, <1>6
  <2> QED
    BY <1>5, <2>1, <2>2 DEF FirstEnd
<1>8. LineOf(buf) = <<>>
  BY <1>4, <1>7 DEF LineOf
<1>9. AfterLine(buf) = SubSeq(buf, 3, Len(buf))
  BY <1>7 DEF AfterLine
<1>10. 3 \in 1..(Len(buf) + 1)
  BY <1>4
<1>11. /\ SubSeq(buf, 3, Len(buf)) \in Seq(Symbols)
       /\ SubSeq(buf, 3, Len(buf)) \o more = SubSeq(s, 3, Len(s))
  BY <1>10, SuffixOf, SuffixConcat
<1> QED
  BY <1>8, <1>9, <1>11

\* The line a request shows after its first line and k headers, and what is behind it
LEMMA RestLayout ==
  ASSUME NEW r \in Requests, NEW k \in 0..Len(r.headers)
  PROVE  LET n == Len(r.headers)
             s == Rest(r, k)
         IN /\ s \in Seq(Symbols) /\ Len(s) = 3 * (n - k) + 2 + r.body
            /\ k < n => /\ s[1] = Header(r.headers[k + 1]) /\ s[2] = CR /\ s[3] = LF
                        /\ SubSeq(s, 4, Len(s)) = Rest(r, k + 1)
            /\ k = n => /\ s[1] = CR /\ s[2] = LF
                        /\ Len(SubSeq(s, 3, Len(s))) = r.body
<1> DEFINE n == Len(r.headers)
           e == Encode(r)
           s == Rest(r, k)
<1>1. /\ n \in Nat /\ r.body \in Nat
      /\ e \in Seq(Symbols)
      /\ Len(e) = 3 * n + 5 + r.body
      /\ \A i \in 0..(n - 1) : /\ e[3 * i + 4] = Header(r.headers[i + 1])
                               /\ e[3 * i + 5] = CR /\ e[3 * i + 6] = LF
      /\ e[3 * n + 4] = CR /\ e[3 * n + 5] = LF
  BY EncodeLayout
<1>2. k \in Nat /\ k <= n
  BY <1>1
<1>3. /\ s = SubSeq(e, 3 * k + 4, Len(e))
      /\ Rest(r, k + 1) = SubSeq(e, 3 * k + 7, Len(e))
  BY <1>2 DEF Rest
<1> HIDE DEF e, s, n
<1>4. /\ s \in Seq(Symbols) /\ Len(s) = 3 * (n - k) + 2 + r.body
      /\ \A i \in 1..(3 * (n - k) + 2 + r.body) : s[i] = e[3 * k + 3 + i]
  <2>1. 3 * k + 4 \in 1..(Len(e) + 1)
    BY <1>1, <1>2
  <2>2. /\ s \in Seq(Symbols) /\ Len(s) = Len(e) - (3 * k + 4) + 1
        /\ \A i \in 1..(Len(e) - (3 * k + 4) + 1) : s[i] = e[3 * k + 4 + i - 1]
    BY <1>1, <1>3, <2>1, SuffixOf
  <2>3. Len(e) - (3 * k + 4) + 1 = 3 * (n - k) + 2 + r.body
    BY <1>1, <1>2
  <2>4. ASSUME NEW i \in 1..(3 * (n - k) + 2 + r.body) PROVE s[i] = e[3 * k + 3 + i]
    <3>1. s[i] = e[3 * k + 4 + i - 1] /\ 3 * k + 4 + i - 1 = 3 * k + 3 + i
      BY <1>1, <1>2, <2>2, <2>3
    <3> QED
      BY <3>1
  <2> QED
    BY <2>2, <2>3, <2>4
<1>5. ASSUME k < n
      PROVE  /\ s[1] = Header(r.headers[k + 1]) /\ s[2] = CR /\ s[3] = LF
             /\ SubSeq(s, 4, Len(s)) = Rest(r, k + 1)
  <2>1. s[1] = e[3 * k + 4] /\ s[2] = e[3 * k + 5] /\ s[3] = e[3 * k + 6]
    BY <1>1, <1>2, <1>4, <1>5
  <2>2. k \in 0..(n - 1)
    BY <1>1, <1>2, <1>5
  <2>3. SubSeq(s, 4, Len(s)) = SubSeq(e, 3 * k + 7, Len(e))
    <3> DEFINE a == SubSeq(s, 4, Len(s))
               b == SubSeq(e, 3 * k + 7, Len(e))
    <3>1. 4 \in 1..(Len(s) + 1) /\ 3 * k + 7 \in 1..(Len(e) + 1)
      BY <1>1, <1>2, <1>4, <1>5
    <3>2. /\ a \in Seq(Symbols) /\ Len(a) = Len(s) - 4 + 1
          /\ \A i \in 1..(Len(s) - 4 + 1) : a[i] = s[4 + i - 1]
      BY <1>4, <3>1, SuffixOf
    <3>3. /\ b \in Seq(Symbols) /\ Len(b) = Len(e) - (3 * k + 7) + 1
          /\ \A i \in 1..(Len(e) - (3 * k + 7) + 1) : b[i] = e[3 * k + 7 + i - 1]
      BY <1>1, <3>1, SuffixOf
    <3> HIDE DEF a, b
    <3>4. Len(a) = Len(b)
      BY <1>1, <1>2, <1>4, <3>2, <3>3
    <3>5. ASSUME NEW i \in 1..Len(a) PROVE a[i] = b[i]
      <4>1. /\ i \in 1..(Len(s) - 4 + 1) /\ i \in 1..(Len(e) - (3 * k + 7) + 1)
            /\ 4 + i - 1 \in 1..(3 * (n - k) + 2 + r.body)
        BY <1>1, <1>2, <1>4, <3>2, <3>3, <3>4
      <4>2. a[i] = s[4 + i - 1] /\ b[i] = e[3 * k + 7 + i - 1]
        BY <3>2, <3>3, <4>1
      <4>3. s[4 + i - 1] = e[3 * k + 3 + (4 + i - 1)]
        BY <1>4, <4>1
      <4>4. 3 * k + 3 + (4 + i - 1) = 3 * k + 7 + i - 1
        BY <1>2, <4>1
      <4> QED
        BY <4>2, <4>3, <4>4
    <3>6. a = b
      BY <3>2, <3>3, <3>4, <3>5, SeqEqual
    <3> QED
      BY <3>6 DEF a, b
  <2> QED
    BY <1>1, <1>3, <2>1, <2>2, <2>3
<1>6. ASSUME k = n
      PROVE  s[1] = CR /\ s[2] = LF /\ Len(SubSeq(s, 3, Len(s))) = r.body
  <2>1. s[1] = e[3 * n + 4] /\ s[2] = e[3 * n + 5]
    <3>1. 1 \in 1..(3 * (n - k) + 2 + r.body) /\ 2 \in 1..(3 * (n - k) + 2 + r.body)
      BY <1>1, <1>2, <1>6
    <3>2. s[1] = e[3 * k + 3 + 1] /\ s[2] = e[3 * k + 3 + 2]
      BY <1>4, <3>1
    <3>3. 3 * k + 3 + 1 = 3 * n + 4 /\ 3 * k + 3 + 2 = 3 * n + 5
      BY <1>1, <1>6
    <3> QED
      BY <3>2, <3>3
  <2>2. Len(SubSeq(s, 3, Len(s))) = r.body
    <3>1. 3 \in 1..(Len(s) + 1) /\ Len(s) - 3 + 1 = r.body
      BY <1>1, <1>2, <1>4, <1>6
    <3> QED
      BY <1>4, <3>1, SuffixOf
  <2> QED
    BY <1>1, <2>1, <2>2
<1> QED
  BY <1>4, <1>5, <1>6 DEF n, s

\* A text is no CR.
LEMMA TextIsNoCR ==
  ASSUME NEW x
  PROVE  Line(x) # CR /\ Header(x) # CR
  BY DEF Line, Header, CR

\* The invariant holds before the first request.
LEMMA SessionInit == Init => SessionInv
<1> SUFFICES ASSUME Init PROVE SessionInv
  OBVIOUS
<1>1. IInv
  BY InitIInv
<1>2. /\ asked = <<>> /\ answers = <<>> /\ network = <<>> /\ in_buffer_ = <<>>
      /\ context = NewContext /\ response = NewResponse(TRUE) /\ at = "wait"
  BY DEF Init
<1>3. SessionTypes
  BY <1>2 DEF SessionTypes, NewContext, NewResponse
<1>4. Counted
  BY <1>2 DEF Counted
<1>5. EndedByAnswer
  BY <1>2 DEF EndedByAnswer, Session!Over
<1>6. OneByOne
  <2>1. Left = <<>>
    BY <1>2 DEF Left
  <2>2. Resting
    BY <1>2, <2>1 DEF Resting, NewContext
  <2> QED
    BY <1>2, <2>2 DEF OneByOne
<1>7. Serving
  BY <1>2 DEF Serving
<1> QED
  BY <1>1, <1>3, <1>4, <1>5, <1>6, <1>7 DEF SessionInv

-------------------------------------------------------------------------------
(* The parser on its way through a request *)

\* The sequence of length 0
LEMMA LenZero ==
  ASSUME NEW S, NEW s \in Seq(S), Len(s) = 0
  PROVE  s = <<>>
  OBVIOUS

\* What has arrived is at most what there is.
LEMMA LeftParts ==
  ASSUME in_buffer_ \in Seq(Symbols), network \in Seq(Symbols)
  PROVE  /\ Left \in Seq(Symbols)
         /\ Len(in_buffer_) \in Nat /\ Len(network) \in Nat
         /\ Len(Left) = Len(in_buffer_) + Len(network)
         /\ Len(Left) = 0 => in_buffer_ = <<>> /\ network = <<>>
<1>1. /\ Left \in Seq(Symbols) /\ Len(Left) = Len(in_buffer_) + Len(network)
      /\ Len(in_buffer_) \in Nat /\ Len(network) \in Nat
  BY ConcatProperties, LenProperties DEF Left
<1>2. ASSUME Len(Left) = 0 PROVE in_buffer_ = <<>> /\ network = <<>>
  <2> DEFINE m == Len(in_buffer_)
             n == Len(network)
  <2>1. m \in Nat /\ n \in Nat /\ m + n = 0
    BY <1>1, <1>2
  <2> HIDE DEF m, n
  <2>2. m = 0 /\ n = 0
    BY <2>1
  <2> QED
    BY <2>2, LenZero DEF m, n
<1> QED
  BY <1>1, <1>2

\* The first line of a request, if it has arrived
LEMMA AtRequestLine ==
  ASSUME NEW r \in Requests, in_buffer_ \in Seq(Symbols), network \in Seq(Symbols),
         Left = Encode(r), HasLine(in_buffer_)
  PROVE  /\ FirstLineIs("line") /\ LineOf(in_buffer_)[1].line = r.line
         /\ AfterLine(in_buffer_) \in Seq(Symbols)
         /\ AfterLine(in_buffer_) \o network = Rest(r, 0)
<1> DEFINE e == Encode(r)
<1>1. /\ Len(r.headers) \in Nat /\ r.body \in Nat /\ Len(e) = 3 * Len(r.headers) + 5 + r.body
      /\ e[1] = Line(r.line) /\ e[2] = CR /\ e[3] = LF
  BY EncodeLayout
<1>2. Arrived(e, in_buffer_, network) /\ Rest(r, 0) = SubSeq(e, 4, Len(e))
  BY DEF Arrived, Left, Rest
<1> HIDE DEF e
<1>3. StartsWithText(e)
  BY <1>1, TextIsNoCR DEF StartsWithText
<1>4. /\ LineOf(in_buffer_) = <<e[1]>>
      /\ AfterLine(in_buffer_) \in Seq(Symbols)
      /\ AfterLine(in_buffer_) \o network = SubSeq(e, 4, Len(e))
  BY <1>2, <1>3, CutText
<1>5. LineOf(in_buffer_) = <<Line(r.line)>>
  BY <1>1, <1>4
<1>6. FirstLineIs("line") /\ LineOf(in_buffer_)[1].line = r.line
  BY <1>5 DEF FirstLineIs, TextIs, Line
<1> QED
  BY <1>2, <1>4, <1>6, Zenon

\* A header line, if it has arrived, or the empty line
LEMMA AtHeaderLine ==
  ASSUME NEW r \in Requests, NEW k \in 0..Len(r.headers),
         in_buffer_ \in Seq(Symbols), network \in Seq(Symbols),
         Left = Rest(r, k), HasLine(in_buffer_)
  PROVE  /\ AfterLine(in_buffer_) \in Seq(Symbols)
         /\ k < Len(r.headers) =>
              /\ FirstLineIs("header") /\ LineOf(in_buffer_)[1].header = r.headers[k + 1]
              /\ LineOf(in_buffer_) # <<>>
              /\ AfterLine(in_buffer_) \o network = Rest(r, k + 1)
         /\ k = Len(r.headers) =>
              /\ LineOf(in_buffer_) = <<>>
              /\ Len(AfterLine(in_buffer_) \o network) = r.body
<1> DEFINE n == Len(r.headers)
           s == Rest(r, k)
<1>1. n \in Nat /\ r.body \in Nat /\ k \in Nat /\ k <= n
  BY RequestsAssumption
<1>2. /\ s \in Seq(Symbols) /\ Len(s) = 3 * (n - k) + 2 + r.body
      /\ k < n => /\ s[1] = Header(r.headers[k + 1]) /\ s[2] = CR /\ s[3] = LF
                  /\ SubSeq(s, 4, Len(s)) = Rest(r, k + 1)
      /\ k = n => /\ s[1] = CR /\ s[2] = LF
                  /\ Len(SubSeq(s, 3, Len(s))) = r.body
  BY RestLayout
<1> HIDE DEF s, n
<1>3. Arrived(s, in_buffer_, network)
  BY DEF Arrived, Left, s
<1>4. CASE k < n
  <2>1. StartsWithText(s)
    BY <1>1, <1>2, <1>4, TextIsNoCR DEF StartsWithText
  <2>2. /\ LineOf(in_buffer_) = <<s[1]>>
        /\ AfterLine(in_buffer_) \in Seq(Symbols)
        /\ AfterLine(in_buffer_) \o network = SubSeq(s, 4, Len(s))
    BY <1>3, <2>1, CutText
  <2>3. LineOf(in_buffer_) = <<Header(r.headers[k + 1])>>
    BY <1>2, <1>4, <2>2
  <2>4. /\ FirstLineIs("header") /\ LineOf(in_buffer_)[1].header = r.headers[k + 1]
        /\ LineOf(in_buffer_) # <<>>
    BY <2>3 DEF FirstLineIs, TextIs, Header
  <2>5. AfterLine(in_buffer_) \o network = Rest(r, k + 1)
    BY <1>2, <1>4, <2>2
  <2>6. ~(k = n)
    BY <1>1, <1>4
  <2> QED
    BY <2>2, <2>4, <2>5, <2>6, Zenon DEF n
<1>5. CASE k = n
  <2>1. StartsEmpty(s)
    BY <1>1, <1>2, <1>5 DEF StartsEmpty
  <2>2. /\ LineOf(in_buffer_) = <<>>
        /\ AfterLine(in_buffer_) \in Seq(Symbols)
        /\ AfterLine(in_buffer_) \o network = SubSeq(s, 3, Len(s))
    BY <1>3, <2>1, CutEmpty
  <2>3. Len(AfterLine(in_buffer_) \o network) = r.body
    BY <1>2, <1>5, <2>2
  <2>4. ~(k < n)
    BY <1>1, <1>5
  <2> QED
    BY <2>2, <2>3, <2>4, Zenon DEF n
<1> QED
  BY <1>1, <1>4, <1>5

\* The headers of the request are found by their names.
LEMMA TakenHeaders ==
  ASSUME NEW r \in Requests, NEW k \in 0..Len(r.headers), Parsed(r, k)
  PROVE  /\ \A x : HasHeader(context.request, x) <=> \E i \in 1..k : r.headers[i].name = x
         /\ \A i \in 1..k : get_header(context.request, r.headers[i].name) = r.headers[i]
<1>1. context.request.headers = {r.headers[i] : i \in 1..k}
  <2>1. context.request = Taken(r, k)
    BY DEF Parsed
  <2>2. Taken(r, k).headers = FirstHeaders(r, k)
    BY DEF Taken
  <2> QED
    BY <2>1, <2>2, Zenon DEF FirstHeaders
<1>2. ASSUME NEW i \in 1..k
      PROVE  get_header(context.request, r.headers[i].name) = r.headers[i]
  <2> DEFINE x == r.headers[i].name
  <2>1. \A h \in context.request.headers : h.name = x => h = r.headers[i]
    BY <1>1 DEF Parsed
  <2>2. r.headers[i] \in context.request.headers
    BY <1>1
  <2> HIDE <1>1
  <2> QED
    BY <2>1, <2>2 DEF get_header
<1> QED
  BY <1>1, <1>2 DEF HasHeader

\* What add_header_from refuses is wrong with the request.
LEMMA HeaderRefused ==
  ASSUME NEW r \in Requests, NEW k \in 0..(Len(r.headers) - 1), Parsed(r, k),
         ~IsHeader(context.request, r.headers[k + 1])
  PROVE  ~Session!WellFormed(r)
<1>1. /\ k \in Nat /\ k \in 0..Len(r.headers) /\ DOMAIN r.headers = 1..Len(r.headers)
      /\ k + 1 \in DOMAIN r.headers /\ \A i \in 1..k : i \in DOMAIN r.headers /\ i # k + 1
  BY RequestsAssumption
<1>2. HasHeader(context.request, r.headers[k + 1].name) =>
        \E i \in 1..k : r.headers[i].name = r.headers[k + 1].name
  BY <1>1, TakenHeaders
<1> QED
  BY <1>1, <1>2, Zenon DEF IsHeader, Session!WellFormed

\* What it takes is one header more.
LEMMA HeaderAccepted ==
  ASSUME NEW r \in Requests, NEW k \in 0..(Len(r.headers) - 1), Parsed(r, k),
         IsHeader(context.request, r.headers[k + 1]),
         context'.request = add_header_from(context.request, r.headers[k + 1])
  PROVE  Parsed(r, k + 1)'
<1>1. /\ k \in Nat /\ k \in 0..Len(r.headers)
      /\ 1..(k + 1) = (1..k) \cup {k + 1} /\ k + 1 \notin 1..k
  BY RequestsAssumption
<1>2. /\ r.headers[k + 1].name # "" /\ r.headers[k + 1].value # ""
      /\ \A i \in 1..k : r.headers[i].name # r.headers[k + 1].name
  BY <1>1, TakenHeaders, Zenon DEF IsHeader
<1>3. context'.request = Taken(r, k + 1)
  <2> DEFINE a == FirstHeaders(r, k)
             b == FirstHeaders(r, k + 1)
             q == context.request
  <2>1. q = Taken(r, k)
    BY DEF Parsed
  <2>2. b = a \cup {r.headers[k + 1]}
    BY <1>1, Zenon DEF FirstHeaders
  <2>3. q.headers = a
    BY <2>1 DEF Taken
  <2>4. add_header_from(q, r.headers[k + 1]) = [q EXCEPT !.headers = b]
    BY <2>2, <2>3, Zenon DEF add_header_from
  <2> HIDE DEF a, b, q
  <2>5. [q EXCEPT !.headers = b] =
          [method |-> r.line.words[1], path |-> path(r.line), headers |-> b]
    <3>1. q = [method |-> r.line.words[1], path |-> path(r.line), headers |-> a]
      BY <2>1 DEF Taken, a
    <3> QED
      BY <3>1
  <2> QED
    BY <2>4, <2>5, Zenon DEF Taken, b, q
<1>4. \A i \in 1..(k + 1) : r.headers[i].name # "" /\ r.headers[i].value # ""
  BY <1>1, <1>2, Zenon DEF Parsed
<1>5. \A i, j \in 1..(k + 1) : r.headers[i].name = r.headers[j].name => i = j
  <2>1. \A i, j \in 1..k : r.headers[i].name = r.headers[j].name => i = j
    BY DEF Parsed
  <2> QED
    BY <1>1, <1>2, <2>1, Zenon
<1> QED
  BY <1>3, <1>4, <1>5 DEF Parsed

\* A request whose lines were all taken is as HttpSession wants it if, for POST, there is a
\* Content-length, and then it wants the connection kept exactly if its header says so.
LEMMA AllTaken ==
  ASSUME NEW r \in Requests, Parsed(r, Len(r.headers)), Session!Framed(r)
  PROVE  /\ context.request.method = "POST" /\ BodyLength(context.request) < 0 =>
              ~Session!WellFormed(r)
         /\ context.request.method # "POST" => Session!WellFormed(r) /\ r.body = 0
         /\ context.request.method = "POST" /\ BodyLength(context.request) >= 0 =>
              Session!WellFormed(r) /\ r.body = BodyLength(context.request)
         /\ is_close_connection(context.request) <=> ~Session!KeepsAlive(r)
<1> DEFINE n == Len(r.headers)
           q == context.request
           len == "Content-length"
<1>1. /\ n \in Nat /\ n \in 0..n /\ DOMAIN r.headers = 1..n
      /\ \A i \in 1..n : r.headers[i].number \in Int
  <2>1. r.headers \in Seq(Fields)
    BY RequestsAssumption
  <2>2. n \in Nat /\ DOMAIN r.headers = 1..n /\ \A i \in 1..n : r.headers[i] \in Fields
    BY <2>1, LenProperties, ElementOfSeq
  <2>3. \A h \in Fields : h.number \in Int
    BY DEF Fields
  <2> QED
    BY <2>2, <2>3
<1>2. /\ \A x : HasHeader(q, x) <=> \E i \in 1..n : r.headers[i].name = x
      /\ \A i \in 1..n : get_header(q, r.headers[i].name) = r.headers[i]
  BY <1>1, TakenHeaders
<1>3. q.method = r.line.words[1]
  <2>1. q = Taken(r, n)
    BY DEF Parsed
  <2> QED
    BY <2>1 DEF Taken
<1>4. /\ Len(r.line.words) = 3
      /\ r.line.words[1] \in {"GET", "HEAD", "POST"}
      /\ r.line.words[3] \in {"HTTP/1.0", "HTTP/1.1"}
      /\ \A i \in DOMAIN r.headers : r.headers[i].name # "" /\ r.headers[i].value # ""
      /\ \A i, j \in DOMAIN r.headers : r.headers[i].name = r.headers[j].name => i = j
  BY <1>1 DEF Parsed, IsRequestLine, Methods
<1> HIDE DEF n, q
<1>5. Session!WellFormed(r) <=>
        (q.method = "POST" => \E i \in 1..n : r.headers[i].name = len /\ r.headers[i].number >= 0)
  BY <1>1, <1>3, <1>4, Zenon DEF Session!WellFormed
<1>6. ASSUME NEW i \in 1..n, r.headers[i].name = len
      PROVE  BodyLength(q) = r.headers[i].number
  BY <1>2, <1>6 DEF BodyLength
<1>7. (\A i \in 1..n : r.headers[i].name # len) => BodyLength(q) = -1
  BY <1>2, Zenon DEF BodyLength
<1>8. ASSUME Session!WellFormed(r)
      PROVE  IF q.method = "POST"
             THEN \E i \in 1..n : r.headers[i].name = len /\ r.headers[i].number = r.body
             ELSE r.body = 0
  BY <1>1, <1>3, <1>8, Zenon DEF Session!Framed
<1>9. ASSUME q.method = "POST", BodyLength(q) < 0 PROVE ~Session!WellFormed(r)
  BY <1>1, <1>5, <1>6, <1>9
<1>10. ASSUME q.method # "POST" PROVE Session!WellFormed(r) /\ r.body = 0
  BY <1>5, <1>8, <1>10
<1>11. ASSUME q.method = "POST", BodyLength(q) >= 0
       PROVE  Session!WellFormed(r) /\ r.body = BodyLength(q)
  <2>1. \E i \in 1..n : r.headers[i].name = len
    BY <1>7, <1>11
  <2>2. Session!WellFormed(r)
    BY <1>5, <1>6, <1>11, <2>1
  <2> QED
    BY <1>6, <1>8, <1>11, <2>2
<1>12. is_close_connection(q) <=> ~Session!KeepsAlive(r)
  <2>1. ASSUME NEW i \in 1..n, r.headers[i].name = "Connection"
        PROVE  get_header(q, "Connection") = r.headers[i]
    BY <1>2, <2>1
  <2> QED
    BY <1>1, <1>2, <2>1, Zenon DEF is_close_connection, Session!KeepsAlive
<1> QED
  BY <1>9, <1>10, <1>11, <1>12 DEF q

\* A step that leaves the context, what is left to parse and the way the answer ends
LEMMA ProgressKept ==
  ASSUME NEW r, Progress(r), UNCHANGED context, Left' = Left, response'.close = response.close,
         at' = "bad" => at = "bad" \/ ~Session!WellFormed(r)
  PROVE  Progress(r)'
<1>1. \A k : Parsed(r, k)' <=> Parsed(r, k)
  BY DEF Parsed
<1> QED
  BY <1>1 DEF Progress

\* The first line is refused only if it is wrong, and taken as it is.
LEMMA RequestLineProgress ==
  ASSUME NEW r \in Requests, Progress(r), in_buffer_ \in Seq(Symbols), network \in Seq(Symbols),
         Parsing("kRequestLine"), HasLine(in_buffer_)
  PROVE  /\ RejectRequestLine => Progress(r)'
         /\ TakeRequestLine => Progress(r)' /\ in_buffer_' \in Seq(Symbols)
<1>1. at = "parse" /\ context.phase = "kRequestLine"
  BY DEF Parsing
<1>2. context.request = NewRequest /\ Left = Encode(r)
  BY <1>1 DEF Progress
<1>3. /\ FirstLineIs("line") /\ LineOf(in_buffer_)[1].line = r.line
      /\ AfterLine(in_buffer_) \in Seq(Symbols)
      /\ AfterLine(in_buffer_) \o network = Rest(r, 0)
  BY <1>2, AtRequestLine
<1>4. ASSUME RejectRequestLine PROVE Progress(r)'
  <2>1. ~IsRequestLine(r.line)
    BY <1>3, <1>4 DEF RejectRequestLine
  <2>2. ~Session!WellFormed(r)
    BY <2>1, Zenon DEF IsRequestLine, Methods, Session!WellFormed
  <2>3. UNCHANGED <<context, in_buffer_, network, response>>
    BY <1>4 DEF RejectRequestLine, ParseReturns, clientVars
  <2> QED
    BY <2>2, <2>3, ProgressKept DEF Left
<1>5. ASSUME TakeRequestLine PROVE Progress(r)' /\ in_buffer_' \in Seq(Symbols)
  <2>1. CASE UNCHANGED <<context, in_buffer_, network, response, at>>
    BY <2>1, ProgressKept DEF Left
  <2>2. CASE /\ ParseOn("kHeaderLines", set_request_line_from(context.request, r.line),
                         AfterLine(in_buffer_))
             /\ IsRequestLine(r.line)
    <3>1. /\ context' = [phase |-> "kHeaderLines",
                         request |-> set_request_line_from(NewRequest, r.line)]
          /\ in_buffer_' = AfterLine(in_buffer_) /\ network' = network /\ at' = "parse"
      BY <1>1, <1>2, <2>2 DEF ParseOn, clientVars
    <3>2. FirstHeaders(r, 0) = {}
      BY DEF FirstHeaders
    <3>3. set_request_line_from(NewRequest, r.line) = Taken(r, 0)
      <4> DEFINE m == r.line.words[1]
                 p == path(r.line)
                 a == FirstHeaders(r, 0)
      <4>1. set_request_line_from(NewRequest, r.line) = [NewRequest EXCEPT !.method = m, !.path = p]
        BY DEF set_request_line_from
      <4>2. Taken(r, 0) = [method |-> m, path |-> p, headers |-> a]
        BY DEF Taken
      <4> HIDE DEF m, p, a
      <4>3. a = {}
        BY <3>2 DEF a
      <4>4. ASSUME NEW u, NEW v, NEW w
            PROVE  [[method |-> u, path |-> v, headers |-> w] EXCEPT !.method = m, !.path = p] =
                     [method |-> m, path |-> p, headers |-> w]
        <5> DEFINE f == [method |-> u, path |-> v, headers |-> w]
                   g == [method |-> m, path |-> p, headers |-> w]
                   h == [f EXCEPT !.method = m, !.path = p]
        <5>1. DOMAIN h = {"method", "path", "headers"} /\ DOMAIN g = {"method", "path", "headers"}
          OBVIOUS
        <5>2. h.method = m /\ h.path = p /\ h.headers = w
          OBVIOUS
        <5>3. g.method = m /\ g.path = p /\ g.headers = w
          OBVIOUS
        <5>4. h = [i \in {"method", "path", "headers"} |-> h[i]]
          OBVIOUS
        <5>5. g = [i \in {"method", "path", "headers"} |-> g[i]]
          OBVIOUS
        <5> HIDE DEF h, g
        <5>6. h = g
          BY <5>1, <5>2, <5>3, <5>4, <5>5
        <5> QED
          BY <5>6 DEF h, g
      <4> QED
        BY <4>1, <4>2, <4>3, <4>4, Zenon DEF NewRequest
    <3>4. Parsed(r, 0)'
      BY <2>2, <3>1, <3>3 DEF Parsed
    <3>5. Left' = Rest(r, 0)
      BY <1>3, <3>1 DEF Left
    <3>6. 0 \in 0..Len(r.headers)
      BY RequestsAssumption
    <3>7. context'.phase = "kHeaderLines"
      BY <3>1
    <3> QED
      BY <1>3, <3>1, <3>4, <3>5, <3>6, <3>7 DEF Progress
  <2> QED
    BY <1>3, <1>5, <2>1, <2>2 DEF TakeRequestLine, clientVars
<1> QED
  BY <1>4, <1>5

\* Header lines are refused only if they are wrong, taken one by one, and end with the
\* empty line.
LEMMA HeaderProgress ==
  ASSUME NEW r \in Requests, Progress(r), in_buffer_ \in Seq(Symbols), network \in Seq(Symbols),
         Parsing("kHeaderLines"), HasLine(in_buffer_)
  PROVE  /\ RejectHeader => Progress(r)'
         /\ TakeHeader \/ EndHeaders => Progress(r)' /\ in_buffer_' \in Seq(Symbols)
<1>1. at = "parse" /\ context.phase = "kHeaderLines"
  BY DEF Parsing
<1>2. PICK k \in 0..Len(r.headers) : Parsed(r, k) /\ Left = Rest(r, k)
  BY <1>1 DEF Progress
<1> DEFINE n == Len(r.headers)
<1>3. n \in Nat /\ k \in Nat /\ k <= n
  BY <1>2, RequestsAssumption
<1>4. /\ AfterLine(in_buffer_) \in Seq(Symbols)
      /\ k < n => /\ FirstLineIs("header") /\ LineOf(in_buffer_)[1].header = r.headers[k + 1]
                  /\ LineOf(in_buffer_) # <<>>
                  /\ AfterLine(in_buffer_) \o network = Rest(r, k + 1)
      /\ k = n => /\ LineOf(in_buffer_) = <<>>
                  /\ Len(AfterLine(in_buffer_) \o network) = r.body
  BY <1>2, AtHeaderLine
<1> HIDE DEF n
<1>5. CASE k < n
  <2>1. k \in 0..(n - 1) /\ k + 1 \in 0..n
    BY <1>3, <1>5
  <2>2. ASSUME RejectHeader PROVE Progress(r)'
    <3>1. ~IsHeader(context.request, r.headers[k + 1])
      BY <1>4, <1>5, <2>2 DEF RejectHeader
    <3>2. ~Session!WellFormed(r)
      BY <1>2, <2>1, <3>1, HeaderRefused DEF n
    <3>3. UNCHANGED <<context, in_buffer_, network, response>>
      BY <2>2 DEF RejectHeader, ParseReturns, clientVars
    <3> QED
      BY <3>2, <3>3, ProgressKept DEF Left
  <2>3. ASSUME TakeHeader PROVE Progress(r)' /\ in_buffer_' \in Seq(Symbols)
    <3>1. /\ IsHeader(context.request, r.headers[k + 1])
          /\ ParseOn("kHeaderLines", add_header_from(context.request, r.headers[k + 1]),
                     AfterLine(in_buffer_))
      BY <1>4, <1>5, <2>3 DEF TakeHeader
    <3>2. /\ context'.phase = "kHeaderLines"
          /\ context'.request = add_header_from(context.request, r.headers[k + 1])
          /\ in_buffer_' = AfterLine(in_buffer_) /\ network' = network /\ at' = "parse"
      BY <1>1, <3>1 DEF ParseOn, clientVars
    <3>3. Parsed(r, k + 1)'
      BY <1>2, <2>1, <3>1, <3>2, HeaderAccepted DEF n
    <3>4. Left' = Rest(r, k + 1)
      BY <1>4, <1>5, <3>2 DEF Left
    <3> QED
      BY <1>4, <2>1, <3>2, <3>3, <3>4 DEF Progress, n
  <2>4. ~EndHeaders
    BY <1>4, <1>5 DEF EndHeaders
  <2> QED
    BY <2>2, <2>3, <2>4
<1>6. CASE k = n
  <2>1. ~RejectHeader /\ ~TakeHeader
    BY <1>4, <1>6 DEF RejectHeader, TakeHeader, FirstLineIs, TextIs
  <2>2. ASSUME EndHeaders PROVE Progress(r)' /\ in_buffer_' \in Seq(Symbols)
    <3>1. /\ context'.phase = "kEntityBody" /\ context'.request = context.request
          /\ in_buffer_' = AfterLine(in_buffer_) /\ network' = network /\ at' = "parse"
      BY <1>1, <2>2 DEF EndHeaders, ParseOn, clientVars
    <3>2. Parsed(r, n)'
      BY <1>2, <1>6, <3>1 DEF Parsed
    <3>3. Len(Left') = r.body
      BY <1>4, <1>6, <3>1 DEF Left
    <3> QED
      BY <1>4, <3>1, <3>2, <3>3 DEF Progress, n
  <2> QED
    BY <2>1, <2>2
<1> QED
  BY <1>3, <1>5, <1>6

\* The body is waited for, and then the answer begins with nothing left of the request.
LEMMA BodyProgress ==
  ASSUME NEW r \in Requests, Session!Framed(r), Progress(r), DOMAIN context = {"phase", "request"},
         in_buffer_ \in Seq(Symbols), network \in Seq(Symbols), Parsing("kEntityBody")
  PROVE  /\ RejectBody => Progress(r)'
         /\ NoBody \/ TakeBody => Progress(r)' /\ in_buffer_' \in Seq(Symbols)
<1> DEFINE q == context.request
           n == Len(r.headers)
<1>1. at = "parse" /\ context.phase = "kEntityBody"
  BY DEF Parsing
<1>2. Parsed(r, n) /\ Len(Left) = r.body
  BY <1>1 DEF Progress
<1>3. /\ q.method = "POST" /\ BodyLength(q) < 0 => ~Session!WellFormed(r)
      /\ q.method # "POST" => Session!WellFormed(r) /\ r.body = 0
      /\ q.method = "POST" /\ BodyLength(q) >= 0 =>
           Session!WellFormed(r) /\ r.body = BodyLength(q)
      /\ is_close_connection(q) <=> ~Session!KeepsAlive(r)
  BY <1>2, AllTaken
<1>4. /\ Len(in_buffer_) \in Nat /\ Len(network) \in Nat
      /\ Len(Left) = Len(in_buffer_) + Len(network)
      /\ Len(Left) = 0 => in_buffer_ = <<>> /\ network = <<>>
  BY LeftParts
<1>5. ASSUME RejectBody PROVE Progress(r)'
  <2>1. ~Session!WellFormed(r)
    BY <1>3, <1>5 DEF RejectBody
  <2>2. UNCHANGED <<context, in_buffer_, network, response>>
    BY <1>5 DEF RejectBody, ParseReturns, clientVars
  <2> QED
    BY <2>1, <2>2, ProgressKept DEF Left
<1>6. ASSUME NEW buf, CompletedWith(buf), Session!WellFormed(r), buf = <<>>, network = <<>>
      PROVE  Progress(r)' /\ in_buffer_' \in Seq(Symbols)
  <2>1. /\ context'.phase = "kCompleted" /\ context'.request = q
        /\ in_buffer_' = <<>> /\ network' = <<>> /\ at' = "open"
    BY <1>6 DEF CompletedWith, clientVars
  <2>2. response'.close = is_close_connection(q)
    BY <1>6 DEF CompletedWith, NewResponse
  <2>3. Parsed(r, n)'
    BY <1>2, <2>1 DEF Parsed
  <2>4. Left' = <<>>
    BY <2>1 DEF Left
  <2>5. response'.close = ~Session!KeepsAlive(r)
    BY <1>3, <2>2, Zenon DEF is_close_connection, Session!KeepsAlive
  <2>6. in_buffer_' \in Seq(Symbols)
    BY <2>1
  <2> QED
    BY <1>6, <2>1, <2>3, <2>4, <2>5, <2>6 DEF Progress, n
<1>7. ASSUME NoBody PROVE Progress(r)' /\ in_buffer_' \in Seq(Symbols)
  <2>1. Session!WellFormed(r) /\ r.body = 0
    BY <1>3, <1>7 DEF NoBody
  <2>2. in_buffer_ = <<>> /\ network = <<>>
    BY <1>2, <1>4, <2>1
  <2> QED
    BY <1>6, <1>7, <2>1, <2>2 DEF NoBody
<1>8. ASSUME TakeBody PROVE Progress(r)' /\ in_buffer_' \in Seq(Symbols)
  <2>1. /\ q.method = "POST" /\ BodyLength(q) \in 0..Len(in_buffer_)
    BY <1>8 DEF TakeBody
  <2>2. Session!WellFormed(r) /\ r.body = BodyLength(q)
    BY <1>3, <1>4, <2>1
  <2>3. Len(network) = 0
    <3> DEFINE i == Len(in_buffer_)
               m == Len(network)
               b == r.body
    <3>1. i \in Nat /\ m \in Nat /\ b = i + m /\ b \in 0..i
      BY <1>2, <1>4, <2>1, <2>2
    <3> HIDE DEF i, m, b
    <3>2. m = 0
      BY <3>1
    <3> QED
      BY <3>2 DEF m
  <2>4. network = <<>>
    BY <2>3, LenZero
  <2> QED
    BY <1>6, <1>8, <2>2, <2>4 DEF TakeBody
<1> QED
  BY <1>5, <1>7, <1>8

\* Each level of parse_request goes on with the request.
LEMMA ParseProgress ==
  ASSUME NEW r \in Requests, Session!Framed(r), Progress(r), DOMAIN context = {"phase", "request"},
         in_buffer_ \in Seq(Symbols), network \in Seq(Symbols), ParseRequest
  PROVE  Progress(r)' /\ in_buffer_' \in Seq(Symbols) /\ network' \in Seq(Symbols)
<1>1. network' = network
  BY DEF ParseRequest, WaitForLine, RejectRequestLine, TakeRequestLine, EndHeaders,
       RejectHeader, TakeHeader, NoBody, RejectBody, WaitForBody, TakeBody, ParseReturns,
       ParseOn, CompletedWith, clientVars
<1>2. CASE WaitForLine \/ WaitForBody
  <2>1. UNCHANGED <<context, in_buffer_, network, response>> /\ at' = "wait"
    BY <1>2 DEF WaitForLine, WaitForBody, ParseReturns, clientVars
  <2> QED
    BY <2>1, ProgressKept DEF Left
<1>3. CASE RejectRequestLine \/ RejectHeader \/ RejectBody
  <2>1. in_buffer_' = in_buffer_
    BY <1>3 DEF RejectRequestLine, RejectHeader, RejectBody, ParseReturns
  <2>2. CASE RejectRequestLine
    BY <2>2, <2>1, <1>1, RequestLineProgress DEF RejectRequestLine
  <2>3. CASE RejectHeader
    BY <2>3, <2>1, <1>1, HeaderProgress DEF RejectHeader
  <2>4. CASE RejectBody
    BY <2>4, <2>1, <1>1, BodyProgress DEF RejectBody
  <2> QED
    BY <1>3, <2>2, <2>3, <2>4
<1>4. CASE TakeRequestLine
  BY <1>4, <1>1, RequestLineProgress DEF TakeRequestLine, FirstLineIs
<1>5. CASE TakeHeader \/ EndHeaders
  BY <1>5, <1>1, HeaderProgress DEF TakeHeader, EndHeaders, FirstLineIs
<1>6. CASE NoBody \/ TakeBody
  BY <1>6, <1>1, BodyProgress DEF NoBody, TakeBody
<1> QED
  BY <1>2, <1>3, <1>4, <1>5, <1>6 DEF ParseRequest

-------------------------------------------------------------------------------
(* The invariant, part by part *)

\* shutdown leads out of kConnected, and send_in_loop does not change the state.
LEMMA SendEnds ==
  ASSUME IsConn(conn), NEW q, Send(q)
  PROVE  /\ conn.state # "kConnected" => UNCHANGED <<conn, answers>>
         /\ conn.state = "kConnected" => /\ answers' = Append(answers, ResponseMessage(q))
                                         /\ q.close => conn'.state # "kConnected"
<1>1. ASSUME NEW n, NEW c, c = SentInLoop(conn, n)
      PROVE  shutdown(c).state # "kConnected"
  <2>1. IsConn(c) /\ IsConn(Disconnecting(c))
    BY <1>1, ConnMethods
  <2>2. Disconnecting(c).state = "kDisconnecting"
    BY <2>1 DEF IsConn, Disconnecting
  <2>3. shutdown_in_loop(Disconnecting(c)).state = "kDisconnecting"
    BY <2>1, <2>2 DEF shutdown_in_loop, IsConn
  <2> QED
    BY <2>3 DEF shutdown
<1> QED
  BY <1>1 DEF Send

\* handle_write leaves kConnected alone.
LEMMA WriteState ==
  ASSUME NEW c, IsConn(c), NEW n, c.state # "kConnected"
  PROVE  handle_write(c, n).state # "kConnected"
<1> DEFINE w == [c EXCEPT !.wire = @ \o SubSeq(c.output, 1, n),
                          !.output = SubSeq(@, n + 1, Len(@)),
                          !.events = IF n = Len(c.output) THEN disable_writing(@) ELSE @]
<1>1. IsConn(w) /\ w.state = c.state
  BY DEF IsConn
<1>2. handle_write(c, n) = IF c.state = "kDisconnecting" THEN shutdown(w) ELSE w
  BY DEF handle_write
<1> HIDE DEF w
<1>3. shutdown(w).state # "kConnected"
  <2>1. IsConn(Disconnecting(w)) /\ Disconnecting(w).state = "kDisconnecting"
    BY <1>1, ConnMethods DEF IsConn, Disconnecting
  <2> QED
    BY <1>1, <2>1 DEF shutdown, shutdown_in_loop, IsConn
<1> QED
  BY <1>1, <1>2, <1>3

\* The answer q is sent; if it is the last one, the connection is shut down.
Sent(q) ==
  /\ answers' = Append(answers, ResponseMessage(q))
  /\ q.close => conn'.state # "kConnected"

ErrorResponse == error_message_with(NewResponse(TRUE), 400)

\* Only a step that sends an answer changes answers.
LEMMA AnswersStep ==
  ASSUME IsConn(conn), Next
  PROVE  \/ UNCHANGED answers /\ (conn'.state = "kConnected" => conn.state = "kConnected")
         \/ /\ conn.state = "kConnected"
            /\ (BadRequest /\ Sent(ErrorResponse)) \/ (Respond /\ Sent(response))
<1>1. CASE UNCHANGED <<conn, answers>>
  BY <1>1
<1>2. CASE ReadEnd
  <2>1. handle_close(Disconnecting(conn)).state = "kDisconnected"
    BY ConnMethods DEF IsConn, handle_close
  <2> QED
    BY <1>2, <2>1 DEF ReadEnd
<1>3. CASE HandleWrite
  BY <1>3, WriteState DEF HandleWrite
<1>4. CASE BadRequest \/ Respond
  <2>1. ASSUME NEW q, Send(q), conn.state = "kConnected" PROVE Sent(q)
    BY <2>1, SendEnds DEF Sent
  <2>2. ASSUME NEW q, Send(q), conn.state # "kConnected" PROVE UNCHANGED <<conn, answers>>
    BY <2>2, SendEnds
  <2>3. (BadRequest /\ Send(ErrorResponse)) \/ (Respond /\ Send(response))
    <3>1. BadRequest => Send(ErrorResponse)
      BY Zenon DEF BadRequest, ErrorResponse
    <3>2. Respond => Send(response)
      BY Zenon DEF Respond
    <3> QED
      BY <1>4, <3>1, <3>2, Zenon
  <2>4. CASE conn.state = "kConnected"
    BY <2>1, <2>3, <2>4
  <2>5. CASE conn.state # "kConnected"
    <3>1. UNCHANGED <<conn, answers>>
      BY <2>2, <2>3, <2>5
    <3> QED
      BY <1>1, <3>1
  <2> QED
    BY <2>4, <2>5
<1>5. CASE handle_read \/ Environment
  BY <1>5, <1>1 DEF handle_read, Environment, Ask, Finish, ClientReads, Rewrite
<1>6. CASE ParseRequest
  BY <1>6, <1>1 DEF ParseRequest, WaitForLine, RejectRequestLine, TakeRequestLine, EndHeaders,
       RejectHeader, TakeHeader, NoBody, RejectBody, WaitForBody, TakeBody, ParseReturns,
       ParseOn, CompletedWith
<1>7. CASE open \/ fstat \/ read \/ ReadFails
  BY <1>7, <1>1 DEF open, fstat, read, ReadFails, Analyse
<1> QED
  BY <1>2, <1>3, <1>4, <1>5, <1>6, <1>7 DEF Next, OnMessage

\* Only Ask changes asked.
LEMMA AskedStep ==
  ASSUME Next
  PROVE  UNCHANGED asked \/ \E r \in Requests : Ask(r)
<1>1. CASE handle_read \/ ReadEnd \/ HandleWrite \/ BadRequest \/ Respond
  BY <1>1 DEF handle_read, ReadEnd, HandleWrite, BadRequest, Respond, clientVars
<1>2. CASE Environment
  BY <1>2 DEF Environment, Finish, ClientReads, Rewrite
<1>3. CASE ParseRequest
  BY <1>3 DEF ParseRequest, WaitForLine, RejectRequestLine, TakeRequestLine, EndHeaders,
       RejectHeader, TakeHeader, NoBody, RejectBody, WaitForBody, TakeBody, ParseReturns,
       ParseOn, CompletedWith, clientVars
<1>4. CASE open \/ fstat \/ read \/ ReadFails
  BY <1>4 DEF open, fstat, read, ReadFails, Analyse, clientVars
<1> QED
  BY <1>1, <1>2, <1>3, <1>4 DEF Next, OnMessage

\* The response of the request being answered keeps its close_connection_.
LEMMA CloseKept ==
  ASSUME "close" \in DOMAIN response, open \/ fstat \/ read \/ ReadFails
  PROVE  "close" \in DOMAIN response' /\ response'.close = response.close
<1>1. ASSUME NEW code, \/ response' = error_message_with(response, code)
                       \/ response' = error_message_with(Closed(response), code)
      PROVE  "close" \in DOMAIN response' /\ response'.close = response.close
  BY <1>1 DEF error_message_with, Closed
<1>2. CASE open \/ fstat \/ ReadFails
  BY <1>2, <1>1 DEF open, fstat, ReadFails, Analyse
<1>3. CASE read
  <2>1. \E e : \/ response' = [response EXCEPT !.entity = e]
               \/ response' = Closed([response EXCEPT !.entity = e])
    BY <1>3 DEF read, Analyse
  <2> QED
    BY <2>1 DEF Closed
<1> QED
  BY <1>2, <1>3

\* The request that is not answered yet
LEMMA CurrentRequest ==
  ASSUME IInv, SessionTypes, Counted, Len(asked) # Len(answers)
  PROVE  /\ Len(asked) = Len(answers) + 1
         /\ asked[Len(asked)] \in Requests
<1>1. asked \in Seq(Requests) /\ answers \in Seq(Replies)
  BY DEF IInv, TypeOK, SessionTypes
<1> DEFINE m == Len(asked)
           n == Len(answers)
<1>2. m \in Nat /\ n \in Nat /\ n <= m /\ m <= n + 1 /\ m # n
  BY <1>1, LenProperties DEF Counted
<1> HIDE DEF m, n
<1>3. m = n + 1 /\ m \in 1..m
  BY <1>2
<1> QED
  BY <1>1, <1>3, ElementOfSeq DEF m, n

\* The answers to a well-formed request
LEMMA RightAnswerCases ==
  ASSUME NEW r, Session!WellFormed(r)
  PROVE  /\ Session!Answer(404, Session!ErrorPage, ~Session!KeepsAlive(r))
              \in Session!RightAnswers(r)
         /\ Session!Wanted(r) \in Files /\ ~r.line.query =>
              \A a \in {Session!Answer(200, Session!Bytes(Session!Wanted(r), n),
                                       ~Session!KeepsAlive(r)) : n \in 0..MaxSize} :
                a \in Session!RightAnswers(r)
<1> DEFINE page == Session!Answer(404, Session!ErrorPage, ~Session!KeepsAlive(r))
           files == {Session!Answer(200, Session!Bytes(Session!Wanted(r), n),
                                    ~Session!KeepsAlive(r)) : n \in 0..MaxSize}
           served == Session!Wanted(r) \in Files /\ ~r.line.query
<1>1. Session!RightAnswers(r) = {page} \cup IF served THEN files ELSE {}
  BY Zenon DEF Session!RightAnswers
<1> HIDE DEF page, files, served
<1>2. page \in Session!RightAnswers(r) /\ (served => files \subseteq Session!RightAnswers(r))
  BY <1>1
<1> QED
  BY <1>2, Zenon DEF page, files, served

\* What analyse made is an answer to the request.
LEMMA AnalysedRight ==
  ASSUME IInv, SessionTypes, Serving, NEW r \in Requests, Progress(r), at = "respond"
  PROVE  ResponseMessage(response) \in Session!RightAnswers(r) \cap Replies
<1> DEFINE a == ResponseMessage(response)
<1>1. /\ Parsed(r, Len(r.headers)) /\ Session!WellFormed(r)
      /\ response.close = ~Session!KeepsAlive(r)
  BY DEF Progress, IInv, TypeOK
<1>2. /\ response.status \in {200, 404} /\ response.entity \in Seq(Units)
      /\ response.close \in BOOLEAN
  BY DEF IInv, TypeOK, Shape, SessionTypes
<1>4. a \in Replies
  <2>1. Len(response.entity) \in Nat
    BY <1>2, LenProperties
  <2> QED
    BY <1>2, <2>1 DEF ResponseMessage, Replies
<1>5. CASE response.status = 404
  <2>1. response.entity = Session!ErrorPage
    BY <1>5 DEF IInv, ResponseWhole, Session!ErrorPage
  <2>2. a = Session!Answer(404, Session!ErrorPage, ~Session!KeepsAlive(r))
    BY <1>1, <1>5, <2>1, Zenon DEF ResponseMessage, Session!Answer
  <2> HIDE DEF a
  <2>3. a \in Session!RightAnswers(r)
    BY <1>1, <2>2, RightAnswerCases
  <2> QED
    BY <1>4, <2>3, Zenon DEF a
<1>6. CASE response.status = 200
  <2>1. Found /\ response.st_size \in 0..MaxSize
    BY <1>6 DEF Serving
  <2>2. context.request.path = path(r.line)
    <3>1. context.request = Taken(r, Len(r.headers))
      BY <1>1 DEF Parsed
    <3> QED
      BY <3>1 DEF Taken
  <2>3. ~r.line.query /\ context.request.path.name = Session!Wanted(r)
    <3>1. CASE r.line.query
      <4>1. path(r.line).rooted = TRUE
        BY <3>1 DEF path
      <4> QED
        BY <2>1, <2>2, <4>1 DEF Found
    <3>2. CASE ~r.line.query
      <4>1. path(r.line).name = Session!Wanted(r)
        BY <3>2 DEF path, Session!Wanted
      <4> QED
        BY <2>2, <3>2, <4>1
    <3> QED
      BY <3>1, <3>2
  <2>4. Session!Wanted(r) \in Files
    BY <2>1, <2>3 DEF Found
  <2>5. response.entity = Session!Bytes(Session!Wanted(r), response.st_size)
    BY <1>6, <2>3 DEF IInv, ResponseWhole, Session!Bytes
  <2>6. a \in {Session!Answer(200, Session!Bytes(Session!Wanted(r), n), ~Session!KeepsAlive(r)) :
               n \in 0..MaxSize}
    <3>1. a = Session!Answer(200, Session!Bytes(Session!Wanted(r), response.st_size),
                             ~Session!KeepsAlive(r))
      BY <1>1, <1>6, <2>5, Zenon DEF ResponseMessage, Session!Answer
    <3> HIDE DEF a
    <3> QED
      BY <2>1, <3>1, Zenon
  <2>7. Session!WellFormed(r) /\ Session!Wanted(r) \in Files /\ ~r.line.query
    BY <1>1, <2>3, <2>4
  <2> HIDE DEF a
  <2>8. a \in Session!RightAnswers(r)
    BY <2>6, <2>7, RightAnswerCases
  <2> QED
    BY <1>4, <2>8, Zenon DEF a
<1> QED
  BY <1>2, <1>5, <1>6

\* The page for a bad request is the only answer to it.
LEMMA BadRight ==
  ASSUME NEW r, ~Session!WellFormed(r)
  PROVE  /\ ResponseMessage(ErrorResponse) \in Session!RightAnswers(r) \cap Replies
         /\ ResponseMessage(ErrorResponse).close = TRUE /\ ErrorResponse.close = TRUE
<1>1. /\ ErrorResponse.status = 400 /\ ErrorResponse.entity = <<"page">>
      /\ ErrorResponse.close = TRUE
  BY DEF ErrorResponse, error_message_with, NewResponse
<1>2. ResponseMessage(ErrorResponse) = Session!Answer(400, Session!ErrorPage, TRUE)
  BY <1>1, Zenon DEF ResponseMessage, Session!Answer, Session!ErrorPage
<1>3. ResponseMessage(ErrorResponse) \in Session!RightAnswers(r)
  BY <1>2, Zenon DEF Session!RightAnswers
<1>4. <<"page">> \in Seq(Units) /\ Len(<<"page">>) = 1
  BY DEF Units
<1>5. ResponseMessage(ErrorResponse) \in Replies
  BY <1>1, <1>4 DEF ResponseMessage, Replies
<1> QED
  BY <1>1, <1>3, <1>5 DEF ResponseMessage

\* Whatever is sent is a right answer to the oldest request that has none.
LEMMA AnswerRight ==
  ASSUME SessionInv, conn.state = "kConnected",
         (BadRequest /\ Sent(ErrorResponse)) \/ (Respond /\ Sent(response))
  PROVE  /\ Len(asked) = Len(answers) + 1
         /\ \E a \in Session!RightAnswers(asked[Len(answers) + 1]) \cap Replies :
              /\ answers' = Append(answers, a)
              /\ a.close => conn'.state # "kConnected"
<1>1. IInv /\ SessionTypes /\ Counted /\ OneByOne /\ Serving
  BY DEF SessionInv
<1>2. at \in {"bad", "respond"}
  BY DEF BadRequest, Respond
<1>3. Len(asked) # Len(answers)
  BY <1>1, <1>2 DEF OneByOne, Resting
<1>4. PICK r \in Requests : r = asked[Len(asked)]
  BY <1>1, <1>3, CurrentRequest
<1>5. Progress(r)
  BY <1>1, <1>3, <1>4 DEF OneByOne
<1>6. Len(asked) = Len(answers) + 1
  BY <1>1, <1>3, CurrentRequest
<1>7. \A q : ResponseMessage(q).close = q.close
  BY DEF ResponseMessage
<1>8. CASE BadRequest /\ Sent(ErrorResponse)
  <2>1. ~Session!WellFormed(r)
    BY <1>5, <1>8 DEF BadRequest, Progress
  <2> QED
    BY <1>4, <1>6, <1>8, <2>1, BadRight DEF Sent
<1>9. CASE Respond /\ Sent(response)
  <2>1. ResponseMessage(response) \in Session!RightAnswers(r) \cap Replies
    BY <1>1, <1>5, <1>9, AnalysedRight DEF Respond
  <2> QED
    BY <1>4, <1>6, <1>7, <1>9, <2>1 DEF Sent
<1> QED
  BY <1>8, <1>9

\* The context keeps its members, the response its close_connection_.
LEMMA TypesStep ==
  ASSUME SessionInv, Next
  PROVE  SessionTypes'
<1>1. SessionTypes /\ IsConn(conn)
  BY IInvParts DEF SessionInv
<1>2. answers' \in Seq(Replies)
  <2>1. CASE UNCHANGED answers
    BY <1>1, <2>1 DEF SessionTypes
  <2>2. CASE \E a \in Replies : answers' = Append(answers, a)
    BY <1>1, <2>2 DEF SessionTypes
  <2> QED
    BY <1>1, <2>1, <2>2, AnswersStep, AnswerRight
<1>3. ASSUME UNCHANGED <<context, response>> PROVE SessionTypes'
  BY <1>1, <1>2, <1>3 DEF SessionTypes
<1>4. CASE handle_read \/ ReadEnd \/ HandleWrite \/ BadRequest \/ Environment
  BY <1>4, <1>3 DEF handle_read, ReadEnd, HandleWrite, BadRequest, Environment, Ask, Finish,
       ClientReads, Rewrite
<1>5. CASE Respond
  <2>1. context' = reset(context) /\ UNCHANGED response
    BY <1>5 DEF Respond
  <2>2. DOMAIN reset(context) = DOMAIN context
    BY DEF reset
  <2> QED
    BY <1>1, <1>2, <2>1, <2>2 DEF SessionTypes
<1>6. CASE open \/ fstat \/ read \/ ReadFails
  <2>1. UNCHANGED context
    BY <1>6 DEF open, fstat, read, ReadFails, Analyse
  <2> QED
    BY <1>1, <1>2, <1>6, <2>1, CloseKept DEF SessionTypes
<1>7. CASE ParseRequest
  <2>1. CASE WaitForLine \/ RejectRequestLine \/ RejectHeader \/ RejectBody \/ WaitForBody
    BY <2>1, <1>3 DEF WaitForLine, RejectRequestLine, RejectHeader, RejectBody, WaitForBody,
         ParseReturns
  <2>2. ASSUME NEW ph, NEW q, NEW b, ParseOn(ph, q, b) PROVE SessionTypes'
    <3>1. DOMAIN context' = {"phase", "request"} /\ UNCHANGED response
      BY <2>2 DEF ParseOn
    <3> QED
      BY <1>1, <1>2, <3>1 DEF SessionTypes
  <2>3. CASE TakeRequestLine \/ EndHeaders \/ TakeHeader
    BY <2>3, <2>2, <1>3 DEF TakeRequestLine, EndHeaders, TakeHeader
  <2>4. ASSUME NEW b, CompletedWith(b) PROVE SessionTypes'
    <3>1. /\ DOMAIN context' = DOMAIN context
          /\ "close" \in DOMAIN response'
          /\ response'.close = is_close_connection(context.request)
      BY <2>4 DEF CompletedWith, NewResponse
    <3>2. is_close_connection(context.request) \in BOOLEAN
      BY Zenon DEF is_close_connection
    <3> QED
      BY <1>1, <1>2, <3>1, <3>2, Zenon DEF SessionTypes
  <2>5. CASE NoBody \/ TakeBody
    BY <2>4, <2>5 DEF NoBody, TakeBody
  <2> QED
    BY <1>7, <2>1, <2>3, <2>5 DEF ParseRequest
<1> QED
  BY <1>4, <1>5, <1>6, <1>7 DEF Next, OnMessage

\* No client is more than one request ahead.
LEMMA CountedStep ==
  ASSUME SessionInv, Next, MaxAhead <= 1
  PROVE  Counted'
<1> DEFINE m == Len(asked)
           n == Len(answers)
<1>1. asked \in Seq(Requests) /\ answers \in Seq(Replies) /\ IsConn(conn)
  BY IInvParts DEF SessionInv, IInv, TypeOK, SessionTypes
<1>2. m \in Nat /\ n \in Nat /\ n <= m /\ m <= n + 1
  BY <1>1, LenProperties DEF SessionInv, Counted
<1>3. CASE UNCHANGED <<asked, answers>>
  BY <1>2, <1>3 DEF Counted
<1>4. ASSUME NEW r \in Requests, Ask(r) PROVE Counted'
  <2>1. m < n + MaxAhead /\ Len(asked') = m + 1 /\ Len(answers') = n
    BY <1>1, <1>4 DEF Ask
  <2> HIDE DEF m, n
  <2>2. m + 1 <= n + 1 /\ n <= m + 1
    BY <1>2, <2>1, HttpAssumption
  <2> QED
    BY <2>1, <2>2 DEF Counted
<1>5. CASE UNCHANGED asked /\ \E a \in Replies : answers' = Append(answers, a) /\ m = n + 1
  <2>1. Len(asked') = m /\ Len(answers') = n + 1
    BY <1>1, <1>5
  <2> HIDE DEF m, n
  <2>2. n + 1 <= m /\ m <= n + 1 + 1
    BY <1>2, <1>5
  <2> QED
    BY <2>1, <2>2 DEF Counted
<1>6. \A r : Ask(r) => UNCHANGED answers
  BY DEF Ask
<1>7. BadRequest \/ Respond => UNCHANGED asked
  BY DEF BadRequest, Respond
<1> QED
  BY <1>1, <1>3, <1>4, <1>5, <1>7, AskedStep, AnswersStep, AnswerRight

\* After an answer that ends the connection no other is sent.
LEMMA EndedStep ==
  ASSUME SessionInv, Next
  PROVE  EndedByAnswer'
<1>1. answers \in Seq(Replies) /\ EndedByAnswer /\ IsConn(conn)
  BY IInvParts DEF SessionInv, SessionTypes
<1>2. CASE UNCHANGED answers /\ (conn'.state = "kConnected" => conn.state = "kConnected")
  BY <1>1, <1>2 DEF EndedByAnswer, Session!Over
<1>3. ASSUME conn.state = "kConnected", NEW a, answers' = Append(answers, a),
             a.close => conn'.state # "kConnected"
      PROVE  EndedByAnswer'
  <2>1. \A i \in 1..Len(answers) : ~answers[i].close
    BY <1>1, <1>3 DEF EndedByAnswer, Session!Over
  <2>2. /\ Len(answers) \in Nat /\ Len(answers') = Len(answers) + 1
        /\ \A i \in 1..Len(answers) : answers'[i] = answers[i]
        /\ answers'[Len(answers) + 1] = a
    BY <1>1, <1>3
  <2>3. ASSUME NEW i \in 1..Len(answers'), answers'[i].close PROVE conn'.state # "kConnected"
    <3>1. i \in 1..Len(answers) \/ i = Len(answers) + 1
      BY <2>2
    <3> QED
      BY <1>3, <2>1, <2>2, <2>3, <3>1
  <2> QED
    BY <2>3 DEF EndedByAnswer, Session!Over
<1> QED
  BY <1>1, <1>2, <1>3, AnswersStep, AnswerRight

\* Only open finds a file, and only fstat takes its size.
LEMMA ServingStep ==
  ASSUME SessionInv, Next
  PROVE  Serving'
<1>1. /\ Serving /\ size \in [Files -> 0..MaxSize] /\ IsResponse(response)
      /\ at = "parse" => at \notin Analysing
  BY IInvParts DEF SessionInv, IInv, TypeOK, Shape, IsResponse, Analysing
<1>2. CASE at' \in Places \ {"fstat", "read", "respond"}
  BY <1>2 DEF Serving
<1>3. CASE UNCHANGED <<context, response, at>>
  BY <1>1, <1>3 DEF Serving, Found
<1>4. CASE handle_read \/ ReadEnd \/ BadRequest \/ Respond
  BY <1>4, <1>2 DEF handle_read, ReadEnd, BadRequest, Respond, Places
<1>5. CASE HandleWrite \/ Environment
  BY <1>5, <1>3 DEF HandleWrite, Environment, Ask, Finish, ClientReads, Rewrite
<1>6. CASE ParseRequest
  <2>1. at = "parse"
    BY <1>6 DEF ParseRequest, WaitForLine, RejectRequestLine, TakeRequestLine, EndHeaders,
         RejectHeader, TakeHeader, NoBody, RejectBody, WaitForBody, TakeBody, Parsing
  <2>2. at' \in {"wait", "bad", "open"} \/ at' = at
    BY <1>6 DEF ParseRequest, WaitForLine, RejectRequestLine, TakeRequestLine, EndHeaders,
         RejectHeader, TakeHeader, NoBody, RejectBody, WaitForBody, TakeBody, ParseReturns,
         ParseOn, CompletedWith
  <2> QED
    BY <1>2, <2>1, <2>2 DEF Places
<1>7. ASSUME \/ Analyse("respond", error_message_with(response, 404))
             \/ Analyse("respond", error_message_with(Closed(response), 404))
      PROVE  Serving'
  <2>1. IsResponse(response) /\ IsResponse(Closed(response))
    BY <1>1, ClosedResponse
  <2>2. response'.status = 404 /\ at' = "respond"
    BY <2>1, <1>7, ErrorPage DEF Analyse
  <2> QED
    BY <2>2 DEF Serving
<1>8. CASE open /\ Found /\ Analyse("fstat", [response EXCEPT !.fd = TRUE])
  BY <1>8 DEF Analyse, Serving, Found
<1>9. CASE fstat /\ Analyse("read", [response EXCEPT !.st_size = size[context.request.path.name]])
  <2>1. Found /\ context' = context /\ at' = "read"
    BY <1>1, <1>9 DEF fstat, Analyse, Serving
  <2>2. response'.st_size = size[context.request.path.name]
    BY <1>1, <1>9 DEF Analyse, IsResponse
  <2> QED
    BY <1>1, <2>1, <2>2 DEF Serving, Found
<1>10. CASE read
  <2>1. /\ at = "read" /\ context' = context /\ at' \in {"read", "respond"}
        /\ \E e : \/ response' = [response EXCEPT !.entity = e]
                  \/ response' = Closed([response EXCEPT !.entity = e])
    BY <1>10 DEF read, Analyse
  <2>2. response'.st_size = response.st_size
    <3>1. ASSUME NEW e, response' = [response EXCEPT !.entity = e]
          PROVE  response'.st_size = response.st_size
      BY <1>1, <3>1 DEF IsResponse
    <3>2. ASSUME NEW e, response' = Closed([response EXCEPT !.entity = e])
          PROVE  response'.st_size = response.st_size
      BY <1>1, <3>2 DEF IsResponse, Closed
    <3> QED
      BY <2>1, <3>1, <3>2
  <2> QED
    BY <1>1, <2>1, <2>2 DEF Serving, Found
<1> QED
  BY <1>4, <1>5, <1>6, <1>7, <1>8, <1>9, <1>10 DEF Next, OnMessage, open, fstat, ReadFails

\* A read moves bytes from the network to the buffer, which changes nothing for the parser.
LEMMA ReadKeepsLeft ==
  ASSUME NEW a \in Seq(Symbols), NEW b \in Seq(Symbols), NEW n \in 1..Len(b)
  PROVE  /\ a \o SubSeq(b, 1, n) \in Seq(Symbols) /\ SubSeq(b, n + 1, Len(b)) \in Seq(Symbols)
         /\ (a \o SubSeq(b, 1, n)) \o SubSeq(b, n + 1, Len(b)) = a \o b
<1> DEFINE u == SubSeq(b, 1, n)
           v == SubSeq(b, n + 1, Len(b))
<1>1. Len(b) \in Nat /\ \A i \in 1..Len(b) : b[i] \in Symbols
  BY LenProperties, ElementOfSeq
<1>2. n \in 1..Len(b) /\ n + 1 \in 1..(Len(b) + 1)
  BY <1>1
<1>3. v \in Seq(Symbols)
  BY <1>2, SuffixOf
<1>4. u \in Seq(Symbols)
  <2>1. 1 \in Int /\ n \in Int /\ \A i \in 1..n : b[i] \in Symbols
    BY <1>1
  <2> QED
    BY <2>1, SubSeqProperties
<1>5. u \o v = b
  <2>1. 1 \in 1..(Len(b) + 1) /\ n \in (1 - 1)..Len(b) /\ Len(b) \in n..Len(b)
    BY <1>1
  <2>2. u \o v = SubSeq(b, 1, Len(b))
    BY <2>1, ConcatAdjacentSubSeq
  <2> QED
    BY <2>2, SubSeqFull
<1> HIDE DEF u, v
<1>6. (a \o u) \o v = a \o (u \o v)
  BY <1>3, <1>4
<1>7. a \o u \in Seq(Symbols)
  BY <1>4
<1> QED
  BY <1>3, <1>5, <1>6, <1>7 DEF u, v

\* A step that neither parses nor answers
LEMMA OneByOneKept ==
  ASSUME OneByOne, conn.state = "kConnected",
         UNCHANGED <<asked, answers, context>>, Left' = Left, response'.close = response.close,
         in_buffer_' \in Seq(Symbols), network' \in Seq(Symbols),
         at' = "bad" => at = "bad", Resting => at' = "wait"
  PROVE  OneByOne'
<1>1. CASE Len(asked) = Len(answers)
  <2>1. Resting
    BY <1>1 DEF OneByOne
  <2>2. Resting'
    BY <2>1 DEF Resting
  <2> QED
    BY <1>1, <2>2 DEF OneByOne
<1>2. CASE Len(asked) # Len(answers)
  <2>1. PICK r : r = asked[Len(asked)]
    OBVIOUS
  <2>2. Progress(r)
    BY <1>2, <2>1 DEF OneByOne
  <2>3. Progress(r)'
    BY <2>2, ProgressKept
  <2>4. r = asked'[Len(asked')]
    BY <2>1
  <2> QED
    BY <1>2, <2>3, <2>4 DEF OneByOne
<1> QED
  BY <1>1, <1>2

\* The answer ends the request: nothing is left of it.
LEMMA RespondRests ==
  ASSUME SessionInv, Respond, conn.state = "kConnected", Sent(response)
  PROVE  OneByOne'
<1>1. IInv /\ SessionTypes /\ Counted /\ OneByOne
  BY DEF SessionInv
<1>2. at = "respond" /\ context' = reset(context) /\ at' = "wait"
      /\ UNCHANGED <<asked, in_buffer_, network>>
  BY DEF Respond
<1>3. Len(asked) # Len(answers)
  BY <1>1, <1>2 DEF OneByOne, Resting
<1>4. Progress(asked[Len(asked)]) /\ Len(asked) = Len(answers) + 1
  BY <1>1, <1>3, CurrentRequest DEF OneByOne
<1>5. Left = <<>>
  BY <1>1, <1>2, <1>4 DEF Progress, IInv, TypeOK
<1>6. context'.phase = "kRequestLine" /\ context'.request = NewRequest
  <2>1. DOMAIN context = {"phase", "request"}
    BY <1>1 DEF SessionTypes
  <2> QED
    BY <1>2, <2>1 DEF reset
<1>7. Resting'
  BY <1>2, <1>5, <1>6 DEF Resting, Left
<1>8. Len(asked') = Len(answers')
  <2>1. answers \in Seq(Replies)
    BY <1>1 DEF SessionTypes
  <2> QED
    BY <1>2, <1>4, <2>1 DEF Sent
<1> QED
  BY <1>1, <1>2, <1>7, <1>8 DEF OneByOne

\* A new request comes when nothing is left of the last one.
LEMMA AskBegins ==
  ASSUME SessionInv, MaxAhead <= 1, NEW r \in Requests, Ask(r), conn.state = "kConnected"
  PROVE  OneByOne'
<1>1. IInv /\ SessionTypes /\ Counted /\ OneByOne
  BY DEF SessionInv
<1>2. asked \in Seq(Requests) /\ answers \in Seq(Replies)
  BY <1>1 DEF IInv, TypeOK, SessionTypes
<1>3. Len(asked) = Len(answers) /\ Len(asked) \in Nat
  <2> DEFINE m == Len(asked)
             n == Len(answers)
  <2>1. m \in Nat /\ n \in Nat /\ n <= m /\ m < n + MaxAhead
    BY <1>1, <1>2, LenProperties DEF Counted, Ask
  <2> HIDE DEF m, n
  <2>2. m = n
    BY <2>1, HttpAssumption
  <2> QED
    BY <2>1, <2>2 DEF m, n
<1>4. Resting /\ in_buffer_ \in Seq(Symbols) /\ network \in Seq(Symbols)
  BY <1>1, <1>3 DEF OneByOne
<1>5. in_buffer_ = <<>> /\ network = <<>>
  BY <1>4, LeftParts DEF Resting
<1>6. /\ asked' = Append(asked, r) /\ network' = network \o Encode(r)
      /\ UNCHANGED <<in_buffer_, context, response, answers, at>>
  BY DEF Ask
<1>7. Encode(r) \in Seq(Symbols)
  BY EncodeLayout
<1>8. network' = Encode(r) /\ Left' = Encode(r)
  BY <1>5, <1>6, <1>7, ConcatEmptySeq DEF Left
<1>9. Progress(r)'
  BY <1>4, <1>6, <1>8 DEF Progress, Resting
<1>10. Len(asked') = Len(asked) + 1 /\ asked'[Len(asked')] = r
  BY <1>2, <1>6
<1>11. Len(asked') # Len(answers')
  BY <1>3, <1>6, <1>10
<1>12. in_buffer_' \in Seq(Symbols) /\ network' \in Seq(Symbols)
  BY <1>4, <1>6, <1>7, <1>8
<1> QED
  BY <1>9, <1>10, <1>11, <1>12 DEF OneByOne

\* Every step keeps the requests in order.
LEMMA OneByOneStep ==
  ASSUME SessionInv, Next, MaxAhead <= 1, \A r \in Requests : Session!Framed(r)
  PROVE  OneByOne'
<1>1. /\ IInv /\ SessionTypes /\ Counted /\ OneByOne /\ IsConn(conn)
      /\ "close" \in DOMAIN response /\ DOMAIN context = {"phase", "request"}
  BY IInvParts DEF SessionInv, SessionTypes
<1>2. SUFFICES ASSUME conn'.state = "kConnected" PROVE OneByOne'
  BY DEF OneByOne
<1>3. conn.state = "kConnected"
  BY <1>1, <1>2, AnswersStep
<1>4. in_buffer_ \in Seq(Symbols) /\ network \in Seq(Symbols)
  BY <1>1, <1>3 DEF OneByOne
<1>5. CASE \E r \in Requests : Ask(r)
  BY <1>3, <1>5, AskBegins
<1>6. CASE Finish \/ ClientReads \/ (\E f \in Files : Rewrite(f)) \/ HandleWrite
  <2>1. /\ UNCHANGED <<asked, answers, context, in_buffer_, network, response, at>>
    BY <1>6 DEF Finish, ClientReads, Rewrite, HandleWrite
  <2> QED
    BY <1>1, <1>3, <1>4, <2>1, OneByOneKept DEF Left, Resting
<1>7. CASE handle_read
  <2>1. PICK n \in 1..Len(network) :
          /\ in_buffer_' = in_buffer_ \o SubSeq(network, 1, n)
          /\ network' = SubSeq(network, n + 1, Len(network))
    BY <1>7 DEF handle_read
  <2>2. /\ in_buffer_' \in Seq(Symbols) /\ network' \in Seq(Symbols)
        /\ in_buffer_' \o network' = in_buffer_ \o network
    BY <1>4, <2>1, ReadKeepsLeft
  <2>3. ~Resting
    <3>1. network # <<>>
      BY <2>1
    <3> QED
      BY <1>4, <3>1, LeftParts DEF Resting
  <2>4. UNCHANGED <<asked, answers, context, response>> /\ at' = "parse"
    BY <1>7 DEF handle_read
  <2> QED
    BY <1>1, <1>3, <2>2, <2>3, <2>4, OneByOneKept DEF Left
<1>8. CASE ReadEnd
  <2>1. handle_close(Disconnecting(conn)).state = "kDisconnected"
    BY <1>1, ConnMethods DEF IsConn, handle_close
  <2> QED
    BY <1>2, <1>8, <2>1 DEF ReadEnd
<1>9. CASE ParseRequest
  <2>1. at = "parse" /\ UNCHANGED <<asked, answers>>
    BY <1>9 DEF ParseRequest, WaitForLine, RejectRequestLine, TakeRequestLine, EndHeaders,
         RejectHeader, TakeHeader, NoBody, RejectBody, WaitForBody, TakeBody, Parsing,
         ParseReturns, ParseOn, CompletedWith, clientVars
  <2>2. Len(asked) # Len(answers)
    BY <1>1, <1>3, <2>1 DEF OneByOne, Resting
  <2>3. PICK r \in Requests : r = asked[Len(asked)]
    BY <1>1, <2>2, CurrentRequest
  <2>4. Progress(r)
    BY <1>1, <1>3, <2>2, <2>3 DEF OneByOne
  <2>5. Progress(r)' /\ in_buffer_' \in Seq(Symbols) /\ network' \in Seq(Symbols)
    BY <1>1, <1>4, <1>9, <2>4, ParseProgress
  <2>6. r = asked'[Len(asked')] /\ Len(asked') # Len(answers')
    BY <2>1, <2>2, <2>3
  <2> QED
    BY <2>5, <2>6 DEF OneByOne
<1>10. CASE open \/ fstat \/ read \/ ReadFails
  <2>1. /\ at \in {"open", "fstat", "read"} /\ at' \in {"fstat", "read", "respond"}
        /\ UNCHANGED <<asked, answers, context, in_buffer_, network>>
    BY <1>10 DEF open, fstat, read, ReadFails, Analyse, clientVars
  <2>2. response'.close = response.close
    BY <1>1, <1>10, CloseKept
  <2>3. ~Resting
    BY <2>1 DEF Resting
  <2> QED
    BY <1>1, <1>3, <1>4, <2>1, <2>2, <2>3, OneByOneKept DEF Left
<1>11. CASE BadRequest \/ Respond
  <2>1. (BadRequest /\ Sent(ErrorResponse)) \/ (Respond /\ Sent(response))
    <3>1. BadRequest => Send(ErrorResponse)
      BY Zenon DEF BadRequest, ErrorResponse
    <3>2. Respond => Send(response)
      BY Zenon DEF Respond
    <3>3. \A q : Send(q) => Sent(q)
      BY <1>1, <1>3, SendEnds DEF Sent
    <3> QED
      BY <1>11, <3>1, <3>2, <3>3, Zenon
  <2>2. ~Sent(ErrorResponse)
    <3>1. ErrorResponse.close = TRUE
      BY DEF ErrorResponse, error_message_with, NewResponse
    <3> QED
      BY <1>2, <3>1 DEF Sent
  <2> QED
    BY <1>3, <2>1, <2>2, RespondRests
<1> QED
  BY <1>5, <1>6, <1>7, <1>8, <1>9, <1>10, <1>11 DEF Next, OnMessage, Environment

\* The session invariant is inductive if clients wait for their answers and say how long
\* their bodies are.
LEMMA SessionAlways ==
  ASSUME MaxAhead <= 1, \A r \in Requests : Session!Framed(r)
  PROVE  Spec => []SessionInv
<1>1. SessionInv /\ [Next]_vars => SessionInv'
  <2>1. SUFFICES ASSUME SessionInv, [Next]_vars PROVE SessionInv'
    OBVIOUS
  <2>2. IInv'
    BY <2>1, Inductive DEF SessionInv
  <2>3. CASE Next
    <3>1. SessionTypes' /\ Counted' /\ EndedByAnswer' /\ OneByOne' /\ Serving'
      BY <2>1, <2>3, TypesStep, CountedStep, EndedStep, OneByOneStep, ServingStep
    <3> QED
      BY <2>2, <3>1 DEF SessionInv
  <2>4. CASE UNCHANGED vars
    <3>1. /\ UNCHANGED <<asked, network, in_buffer_, context, conn, response, answers, at>>
      BY <2>4 DEF vars, clientVars
    <3>2. SessionTypes' /\ Counted' /\ EndedByAnswer' /\ Serving'
      BY <2>1, <3>1
         DEF SessionInv, SessionTypes, Counted, EndedByAnswer, Session!Over, Serving, Found
    <3>3. OneByOne'
      <4>1. CASE conn.state = "kConnected"
        <5>1. in_buffer_' \in Seq(Symbols) /\ network' \in Seq(Symbols) /\ (Resting => at' = "wait")
          BY <2>1, <3>1, <4>1 DEF SessionInv, OneByOne, Resting
        <5> QED
          BY <2>1, <3>1, <4>1, <5>1, OneByOneKept DEF SessionInv, Left
      <4>2. CASE conn.state # "kConnected"
        BY <3>1, <4>2 DEF OneByOne
      <4> QED
        BY <4>1, <4>2
    <3> QED
      BY <2>2, <3>2, <3>3 DEF SessionInv
  <2> QED
    BY <2>1, <2>3, <2>4
<1> QED
  BY <1>1, SessionInit, PTL DEF Spec

\* Each step of the server is one of HttpSession, or does not show there.
LEMMA SessionStep ==
  ASSUME SessionInv, [Next]_vars
  PROVE  [Session!Next]_(Session!vars)
<1>1. CASE Next
  <2>1. fault = "none" /\ IsConn(conn) /\ EndedByAnswer
    BY <1>1, IInvParts DEF Next, SessionInv
  <2>2. CASE fault' # "none"
    <3>1. UNCHANGED <<asked, answers>>
      <4>1. ASSUME UNCHANGED fault PROVE FALSE
        BY <2>1, <2>2, <4>1
      <4>2. TakeRequestLine \/ read
        BY <1>1, <4>1 DEF Next, OnMessage, ParseRequest, Environment, handle_read, ReadEnd,
             HandleWrite, ReadFails, Ask, Finish, ClientReads, Rewrite, open, fstat, BadRequest,
             Respond, WaitForLine, RejectRequestLine, EndHeaders, RejectHeader, TakeHeader,
             NoBody, RejectBody, WaitForBody, TakeBody, ParseReturns, CompletedWith
      <4> QED
        BY <4>2 DEF TakeRequestLine, ParseOn, read, Analyse, clientVars
    <3>2. (fault' # "none") = TRUE
      BY <2>2
    <3> QED
      BY <3>1, <3>2, Zenon DEF Session!Next, Session!Break
  <2>3. CASE fault' = "none"
    <3>1. (fault' # "none") = (fault # "none") /\ ~(fault # "none")
      BY <2>1, <2>3
    <3>2. CASE UNCHANGED <<asked, answers>>
      BY <3>1, <3>2, Zenon DEF Session!vars
    <3>3. ASSUME NEW r \in Requests, Ask(r) PROVE Session!Next
      <4>1. asked' = Append(asked, r) /\ answers' = answers
        BY <3>3 DEF Ask
      <4> QED
        BY <3>1, <4>1, Zenon DEF Session!Next, Session!Ask
    <3>4. CASE /\ conn.state = "kConnected"
               /\ (BadRequest /\ Sent(ErrorResponse)) \/ (Respond /\ Sent(response))
      <4>1. /\ Len(asked) = Len(answers) + 1
            /\ \E a \in Session!RightAnswers(asked[Len(answers) + 1]) : answers' = Append(answers, a)
        BY <3>4, AnswerRight
      <4>2. ~Session!Over
        BY <2>1, <3>4 DEF EndedByAnswer
      <4>3. asked' = asked
        BY <3>4 DEF BadRequest, Respond
      <4>4. Len(answers) < Len(asked)
        <5>1. Len(answers) \in Nat
          BY LenProperties DEF SessionInv, SessionTypes
        <5> QED
          BY <4>1, <5>1
      <4> QED
        BY <3>1, <4>1, <4>2, <4>3, <4>4, Zenon DEF Session!Next, Session!AnswerNext
    <3>5. CASE UNCHANGED answers
      BY <1>1, <3>2, <3>3, <3>5, AskedStep
    <3> QED
      BY <1>1, <2>1, <3>4, <3>5, AnswersStep
  <2> QED
    BY <2>2, <2>3
<1>2. CASE UNCHANGED vars
  <2>1. UNCHANGED <<asked, answers, fault>>
    BY <1>2 DEF vars, clientVars
  <2> QED
    BY <2>1, Zenon DEF Session!vars
<1> QED
  BY <1>1, <1>2

\* If clients wait for their answers and send the bodies they announce, then, in whatever
\* pieces the requests arrive, each is answered once, in order, with what it asks for, and
\* nothing is sent after the answer that ends the connection: the safety part of
\* ImplementsSession.
THEOREM SessionInOrder ==
  ASSUME MaxAhead <= 1, \A r \in Requests : Session!Framed(r)
  PROVE  Spec => Session!OrderSpec
<1>1. Init => Session!Init
  <2>1. Init => asked = <<>> /\ answers = <<>> /\ (fault # "none") = FALSE
    BY DEF Init
  <2> QED
    BY <2>1, Zenon DEF Session!Init
<1>2. SessionInv /\ [Next]_vars => [Session!Next]_(Session!vars)
  BY SessionStep
<1>3. Spec => []SessionInv
  BY SessionAlways
<1> QED
  BY <1>1, <1>2, <1>3, PTL DEF Spec, Session!OrderSpec

===============================================================================
