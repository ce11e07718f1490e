------------------------------ MODULE MCHttpServer ------------------------------
(* Requests for TLC. *)
EXTENDS HttpServer

Request(words, target, query, headers, body) ==
  [line |-> [words |-> words, target |-> target, query |-> query],
   headers |-> headers, body |-> body]

Field(name, value, number) == [name |-> name, value |-> value, number |-> number]
KeepAlive == Field("Connection", "keep-alive", -1)

Get(target, query, headers) ==
  Request(<<"GET", "/", "HTTP/1.1">>, target, query, headers, 0)
Post(headers, body) == Request(<<"POST", "/", "HTTP/1.1">>, "", FALSE, headers, body)

\* What is right, and what is wrong in its first line, in a header or about its
\* body.  "ET" is the bad request of test/python/tcp_client.py.
MixedRequests ==
  { Get("", FALSE, <<KeepAlive>>),
    Get("lost", FALSE, <<>>),
    Get("index.html", TRUE, <<KeepAlive>>),
    Request(<<"ET", "/", "HTTP/1.1">>, "", FALSE, <<>>, 0),
    Request(<<"GET", "">>, "", FALSE, <<>>, 0),
    Get("", FALSE, <<KeepAlive, KeepAlive>>),
    Post(<<KeepAlive, Field("Content-length", "2", 2)>>, 2),
    Post(<<KeepAlive, Field("Content-length", "0", 0)>>, 0),
    Post(<<KeepAlive>>, 0) }

\* The theorem that ImplementsSession has for every client supposes this of the requests.
ASSUME FramedAssumption == \A r \in Requests : Session!Framed(r)

OneRequest == {Get("", FALSE, <<KeepAlive>>)}

===============================================================================
