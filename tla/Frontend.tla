------------------------------ MODULE Frontend ------------------------------
(***************************************************************************)
(* The CONNECT frontend (pkg/frontend/server.go) and the servers behind it *)
(* as RunWebhook sets them up (webhook.go), with WithMatchingHost          *)
(* (pkg/server/server.go) around each.                                     *)
(*                                                                         *)
(* A client connects to the frontend's socket and asks for a server by     *)
(* name.  The handler takes the connection over, puts it into the server's *)
(* queue and only then writes "200 Connected" to it.  The server accepts   *)
(* it and reads a TLS handshake and a request from it: from then on two    *)
(* goroutines hold the connection.  The client is the API server, which    *)
(* sends nothing before it has read the 200.                               *)
(***************************************************************************)
EXTENDS Webhooks

CONSTANTS
  Clients,     \* connections to the frontend
  Asks,        \* the CONNECT requests: [method, host, port]
  Messages,    \* the requests behind it: [sni, host, body]
  Capacity,    \* of a server's queue; 5 in the code
  MaxAsks      \* bound: requests on one connection that are refused

\* "HTTP/1.1 200 Connected".
Connected == Status(200)

Servers == {BackendServers[i] : i \in DOMAIN BackendServers}

ASSUME FrontendConstants ==
  /\ Capacity \in Nat \ {0} /\ MaxAsks \in Nat
  /\ None \notin Asks \cup Messages
  /\ \A m \in Messages :
       m.sni = "api" /\ m.host = "api" => m.body.path \in Seq(STRING)

VARIABLES
  backends,    \* the servers registered
  run,         \* Register and Run: "registering", "running", "nowhere"
  certOk,      \* the webhook server's certificate could be loaded
  asked,       \* the CONNECT request of each client
  client,      \* what each client does
  asks,        \* how often it has asked
  handler,     \* where ServeHTTP is with it
  place,       \* who holds its connection
  queue,       \* b.cs of each server
  inbox,       \* written to the client and not read
  sent,        \* its request to the server
  got          \* the answer it has read

vars == <<backends, run, certOk, asked, client, asks, handler, place, queue,
          inbox, sent, got>>

Init ==
  /\ backends = {} /\ run = "registering" /\ certOk \in BOOLEAN
  /\ asked = [c \in Clients |-> None]
  /\ client = [c \in Clients |-> "idle"]
  /\ asks = [c \in Clients |-> 0]
  /\ handler = [c \in Clients |-> "none"]
  /\ place = [c \in Clients |-> "frontend"]
  /\ queue = [b \in Servers |-> <<>>]
  /\ inbox = [c \in Clients |-> <<>>]
  /\ sent = [c \in Clients |-> None]
  /\ got = [c \in Clients |-> None]

-----------------------------------------------------------------------------
(* Registration *)

\* registerOne of the next server of the list; the certificate is loaded
\* beforehand and an error is kept for the handshakes.
Register ==
  /\ run = "registering"
  /\ \E i \in DOMAIN BackendServers :
       /\ BackendServers[i] \notin backends
       /\ \A j \in 1 .. i - 1 : BackendServers[j] \in backends
       /\ backends' = backends \cup {BackendServers[i]}
  /\ UNCHANGED <<run, certOk, asked, client, asks, handler, place, queue,
                 inbox, sent, got>>

\* Run: one goroutine for each server, and one that listens.  When that one
\* fails the others go on, and Run does not return.
Run ==
  /\ run = "registering" /\ backends = Servers
  /\ run' \in {"running", "nowhere"}
  /\ UNCHANGED <<backends, certOk, asked, client, asks, handler, place, queue,
                 inbox, sent, got>>

-----------------------------------------------------------------------------
(* frontend.ServeHTTP *)

Ask(c) ==
  /\ run = "running"
  /\ client[c] = "idle" /\ asks[c] <= MaxAsks
  /\ \E a \in Asks : asked' = [asked EXCEPT ![c] = a]
  /\ asks' = [asks EXCEPT ![c] = @ + 1]
  /\ client' = [client EXCEPT ![c] = "waiting"]
  /\ handler' = [handler EXCEPT ![c] = "route"]
  /\ UNCHANGED <<backends, run, certOk, place, queue, inbox, sent, got>>

\* A write to a client that has gone fails, and nobody looks.
Send(c, m) ==
  inbox' = IF client[c] = "gone" THEN inbox
                                 ELSE [inbox EXCEPT ![c] = Append(@, m)]

\* backendKey: the port is left out or 443.
KeyOk(a) == a.port \in {"", "443"}

\* What ServeHTTP answers before it takes the connection.
Refusal(a) ==
  CASE a.method # "CONNECT" -> 405
    [] a.method = "CONNECT" /\ ~KeyOk(a) -> 400
    [] a.method = "CONNECT" /\ KeyOk(a) /\ a.host \notin backends -> 502
    [] OTHER -> 0

\* Method, key and server; then Hijack, which leaves the connection to the
\* handler.
Route(c) ==
  /\ handler[c] = "route"
  /\ IF Refusal(asked[c]) # 0
       THEN /\ Send(c, Status(Refusal(asked[c])))
            /\ handler' = [handler EXCEPT ![c] = "none"]
            /\ UNCHANGED place
       ELSE /\ handler' = [handler EXCEPT ![c] = "add"]
            /\ place' = [place EXCEPT ![c] = "handler"]
            /\ UNCHANGED inbox
  /\ UNCHANGED <<backends, run, certOk, asked, client, asks, queue, sent, got>>

Server(c) == asked[c].host

\* Faulty variant: the 200 is written whether or not there is room.
AddConn_WriteFirst(c) ==
  /\ handler[c] = "add"
  /\ Send(c, Connected)
  /\ IF Len(queue[Server(c)]) < Capacity
       THEN /\ queue' = [queue EXCEPT ![Server(c)] = Append(@, c)]
            /\ place' = [place EXCEPT ![c] = "queue"]
            /\ handler' = [handler EXCEPT ![c] = "none"]
       ELSE /\ handler' = [handler EXCEPT ![c] = "close"]
            /\ UNCHANGED <<queue, place>>
  /\ UNCHANGED <<backends, run, certOk, asked, client, asks, sent, got>>

\* Faulty variant: a connection there is no room for is not closed.
AddConn_NoClose(c) ==
  /\ handler[c] = "add"
  /\ handler' = [handler EXCEPT ![c] = "write"]
  /\ IF Len(queue[Server(c)]) < Capacity
       THEN /\ queue' = [queue EXCEPT ![Server(c)] = Append(@, c)]
            /\ place' = [place EXCEPT ![c] = "queue"]
       ELSE UNCHANGED <<queue, place>>
  /\ UNCHANGED <<backends, run, certOk, asked, client, asks, inbox, sent, got>>

\* backend.AddConn: the select has a default, so a full queue fails at once.
AddConn(c) ==
  /\ handler[c] = "add"
  /\ IF Len(queue[Server(c)]) < Capacity
       THEN /\ queue' = [queue EXCEPT ![Server(c)] = Append(@, c)]
            /\ place' = [place EXCEPT ![c] = "queue"]
            /\ handler' = [handler EXCEPT ![c] = "write"]
       ELSE /\ handler' = [handler EXCEPT ![c] = "close"]
            /\ UNCHANGED <<queue, place>>
  /\ UNCHANGED <<backends, run, certOk, asked, client, asks, inbox, sent, got>>

CloseConn(c) ==
  /\ handler[c] = "close"
  /\ place' = [place EXCEPT ![c] = "closed"]
  /\ handler' = [handler EXCEPT ![c] = "write"]
  /\ UNCHANGED <<backends, run, certOk, asked, client, asks, queue, inbox,
                 sent, got>>

\* "200 Connected" is written in either case; on a closed connection the
\* write fails and nobody looks.
WriteConnected(c) ==
  /\ handler[c] = "write"
  /\ handler' = [handler EXCEPT ![c] = "none"]
  /\ IF place[c] = "closed" THEN UNCHANGED inbox ELSE Send(c, Connected)
  /\ UNCHANGED <<backends, run, certOk, asked, client, asks, place, queue,
                 sent, got>>

-----------------------------------------------------------------------------
(* The servers *)

\* Faulty variant: the servers accept from one queue.
Accept_Shared(b) ==
  /\ run # "registering"
  /\ \E d \in Servers :
       /\ queue[d] # <<>>
       /\ queue' = [queue EXCEPT ![d] = Tail(@)]
       /\ place' = [place EXCEPT ![Head(queue[d])] = b]
  /\ UNCHANGED <<backends, run, certOk, asked, client, asks, handler, inbox,
                 sent, got>>

\* backend.Accept.
Accept(b) ==
  /\ run # "registering"
  /\ queue[b] # <<>>
  /\ queue' = [queue EXCEPT ![b] = Tail(@)]
  /\ place' = [place EXCEPT ![Head(queue[b])] = b]
  /\ UNCHANGED <<backends, run, certOk, asked, client, asks, handler, inbox,
                 sent, got>>

\* Faulty variant: the Host header is not compared.
MatchingHost_SniOnly(b, m) ==
  IF m.sni # b THEN Status(502) ELSE Handler(b, m.body)

\* WithMatchingHost: server name and Host header are the server's own.
MatchingHost(b, m) ==
  IF m.sni # b \/ m.host # b THEN Status(502) ELSE Handler(b, m.body)

\* TLSCertificate: the pair was loaded, or failed to load, at registration.
Handshake(c) == certOk /\ client[c] # "gone"

\* The handshake and one request; without a handshake the server closes the
\* connection, and a panic closes it too.
ServeConn(b, c) ==
  /\ place[c] = b
  /\ client[c] \in {"sent", "gone"}
  /\ LET answer == IF Handshake(c) THEN MatchingHost(b, sent[c]) ELSE Panic
     IN  IF answer = Panic
           THEN place' = [place EXCEPT ![c] = "closed"] /\ UNCHANGED inbox
           ELSE Send(c, answer) /\ place' = [place EXCEPT ![c] = "answered"]
  /\ UNCHANGED <<backends, run, certOk, asked, client, asks, handler, queue,
                 sent, got>>

-----------------------------------------------------------------------------
(* The client *)

Read(c) ==
  /\ inbox[c] # <<>>
  /\ client[c] \in {"waiting", "sent"}
  /\ inbox' = [inbox EXCEPT ![c] = Tail(@)]
  /\ LET m == Head(inbox[c]) IN
     \/ /\ client[c] = "waiting" /\ m = Connected
        /\ client' = [client EXCEPT ![c] = "connected"]
        /\ UNCHANGED <<asked, got>>
     \/ /\ client[c] = "waiting" /\ m # Connected
        /\ client' = [client EXCEPT ![c] = "idle"]
        /\ asked' = [asked EXCEPT ![c] = None]
        /\ UNCHANGED got
     \/ /\ client[c] = "sent"
        /\ client' = [client EXCEPT ![c] = "done"]
        /\ got' = [got EXCEPT ![c] = m]
        /\ UNCHANGED asked
  /\ UNCHANGED <<backends, run, certOk, asks, handler, place, queue, sent>>

\* The other side has closed, and everything before that has been read.
ReadEnd(c) ==
  /\ place[c] = "closed" /\ inbox[c] = <<>>
  /\ client[c] \in {"waiting", "sent"}
  /\ client' = [client EXCEPT ![c] = "done"]
  /\ UNCHANGED <<backends, run, certOk, asked, asks, handler, place, queue,
                 inbox, sent, got>>

Request(c) ==
  /\ client[c] = "connected"
  /\ \E m \in Messages : sent' = [sent EXCEPT ![c] = m]
  /\ client' = [client EXCEPT ![c] = "sent"]
  /\ UNCHANGED <<backends, run, certOk, asked, asks, handler, place, queue,
                 inbox, got>>

\* The client gives up; net/http closes a connection it still holds.
GiveUp(c) ==
  /\ client[c] \in {"idle", "waiting", "connected", "sent"}
  /\ client' = [client EXCEPT ![c] = "gone"]
  /\ inbox' = [inbox EXCEPT ![c] = <<>>]
  /\ sent' = [sent EXCEPT ![c] = None]
  /\ UNCHANGED <<backends, run, certOk, asked, asks, handler, place, queue,
                 got>>

-----------------------------------------------------------------------------
Handling(c) == Route(c) \/ AddConn(c) \/ CloseConn(c) \/ WriteConnected(c)

Next ==
  \/ Register \/ Run
  \/ \E c \in Clients :
       \/ Ask(c) \/ Handling(c)
       \/ Read(c) \/ ReadEnd(c) \/ Request(c) \/ GiveUp(c)
  \/ \E b \in Servers : Accept(b)
  \/ \E b \in Servers, c \in Clients : ServeConn(b, c)

Spec == Init /\ [][Next]_vars

\* Goroutines run on; a client reads what it is sent and sends its request.
\* It need not ask, and may give up.
FairSpec ==
  /\ Spec
  /\ WF_vars(Register) /\ WF_vars(Run)
  /\ \A c \in Clients :
       /\ WF_vars(Handling(c)) /\ WF_vars(Read(c)) /\ WF_vars(ReadEnd(c))
       /\ WF_vars(Request(c))
       /\ \A b \in Servers : WF_vars(ServeConn(b, c))
  /\ \A b \in Servers : WF_vars(Accept(b))

-----------------------------------------------------------------------------
\* Type invariant; the handler has a connection from Hijack until it has
\* queued or closed it.
TypeOK ==
  /\ backends \subseteq Servers
  /\ run \in {"registering", "running", "nowhere"}
  /\ certOk \in BOOLEAN
  /\ asked \in [Clients -> Asks \cup {None}]
  /\ client \in [Clients -> {"idle", "waiting", "connected", "sent", "done",
                             "gone"}]
  /\ asks \in [Clients -> 0 .. MaxAsks + 1]
  /\ handler \in [Clients -> {"none", "route", "add", "close", "write"}]
  /\ place \in [Clients -> {"frontend", "handler", "queue", "answered",
                            "closed"} \cup Servers]
  /\ \A c \in Clients :
       handler[c] \in {"add", "close"} <=> place[c] = "handler"
  /\ \A b \in Servers :
       queue[b] \in Seq(Clients) /\ Len(queue[b]) <= Capacity
  /\ sent \in [Clients -> Messages \cup {None}]

\* Each connection is in the queue of the server its client asked for, once,
\* exactly while neither the handler nor a server has it: the handler that
\* still writes to it, and the server that may have accepted it already,
\* never lose it or both close it.
OneOwner ==
  \A c \in Clients :
    /\ \A b \in Servers :
         Cardinality({i \in DOMAIN queue[b] : queue[b][i] = c})
           = IF place[c] = "queue" /\ asked[c].host = b THEN 1 ELSE 0
    /\ place[c] \in Servers => asked[c].host = place[c]

\* A client that has read "200 Connected", or can, has its connection with
\* the server it asked for: it was never told so and then dropped because
\* the queue was full.
ConnectedIsOwned ==
  \A c \in Clients :
    client[c] = "connected" \/ (client[c] = "waiting" /\ Connected \in
        {inbox[c][i] : i \in DOMAIN inbox[c]})
      => place[c] \in {"queue", asked[c].host}

\* An answer with a body comes from the server the client named in all three
\* places, and is the one that server gives to the request it sent.
RightServer ==
  \A c \in Clients :
    got[c] # None /\ got[c].status \notin {404, 502} =>
      /\ asked[c].host = sent[c].sni /\ sent[c].sni = sent[c].host
      /\ got[c] = Handler(asked[c].host, sent[c].body)

\* What comes back through all this grants no more than it may: the builtin
\* authorizer lets the two -authnz users read one config map and leaves the
\* rest to the next authorizer, and the extension API answers a path with
\* objects of the group and the resource it names.
AnswersFit ==
  \A c \in Clients :
    got[c] # None /\ got[c].status = 200 =>
      LET body == sent[c].body  answer == got[c].body IN
      /\ asked[c].host = "authorization-webhook" =>
           /\ ~answer.denied
           /\ answer.allowed /\ ~body.masters =>
                /\ body.res.verb \in {"get", "list", "watch"}
                /\ body.res.resource = "configmaps"
                /\ body.res.name = "extension-apiserver-authentication"
      /\ asked[c].host = "api" /\ answer.gives \in {"list", "object"} =>
           \E g \in Groups :
             /\ body.path[2] = g.group /\ answer.kind = g.kind
             /\ ~g.namespaced => body.path[4] = g.resource

\* Every request to the frontend and every request behind it is answered, or
\* the client sees the connection end: no handler, queue or server keeps it.
Answered ==
  \A c \in Clients :
    /\ client[c] = "waiting" ~> client[c] # "waiting"
    /\ client[c] = "sent" ~> client[c] # "sent"
=============================================================================
