--------------------------- MODULE Frontend_proofs ---------------------------
(***************************************************************************)
(* Safety of the CONNECT frontend and of what its servers answer, for any  *)
(* number of clients, any requests, any capacity of the queues.            *)
(*                                                                         *)
(* The invariant follows a connection.  HandlerAt says which of ServeHTTP, *)
(* a queue and a server has it at each step of the handler; ClientAt says  *)
(* what its client can find in its inbox: nothing while the handler is     *)
(* busy, then a refusal, or the 200 with the connection already in the     *)
(* queue or beyond, or nothing and an end; GotAt that an answer read is    *)
(* the one of the server asked for.  Queues are the other half: who is in  *)
(* one is nowhere else, and who should be in one is there.                 *)
(***************************************************************************)
EXTENDS Frontend, FiniteSetTheorems, SequenceTheorems, TLAPS

\* The names BackendServers lists.
Names == {"api", "authentication-webhook", "authorization-webhook",
          "audit-webhook", "validating-webhook", "mutating-webhook"}

\* RunWebhook registers exactly these.
LEMMA ServerNames == Servers = Names
BY DEF Servers, BackendServers, Names

\* No server is named like a place a connection can be that is no server.
LEMMA Apart == Servers \cap {"frontend", "handler", "queue", "answered", "closed"} = {}
BY ServerNames DEF Names

\* An inbox of one message.
LEMMA OneMail ==
  ASSUME NEW m
  PROVE  /\ Append(<<>>, m) = <<m>> /\ Head(<<m>>) = m /\ Tail(<<m>>) = <<>>
         /\ <<m>> # <<>>
OBVIOUS

Refusals == {Status(405), Status(400), Status(502)}

\* The server it asked for has, or will have, the connection of c.
Owned(c) == place[c] \in {"queue"} \cup Servers

\* Who has the connection of c while ServeHTTP works on it.
HandlerAt(c) ==
  /\ handler[c] = "route" => place[c] = "frontend"
  /\ handler[c] \in {"add", "close"} <=> place[c] = "handler"
  /\ handler[c] = "write" => Owned(c) \/ place[c] = "closed"
  /\ place[c] # "frontend" => asked[c].host \in Servers
  /\ place[c] \in Servers => asked[c].host = place[c]

\* What the client of c is doing, what it may yet read, and what that means.
ClientAt(c) ==
  /\ client[c] = "idle" =>
       handler[c] = "none" /\ place[c] = "frontend" /\ inbox[c] = <<>>
  /\ client[c] = "waiting" =>
       \/ handler[c] # "none" /\ inbox[c] = <<>>
       \/ /\ handler[c] = "none" /\ place[c] = "frontend"
          /\ \E m \in Refusals : inbox[c] = <<m>>
       \/ handler[c] = "none" /\ Owned(c) /\ inbox[c] = <<Connected>>
       \/ handler[c] = "none" /\ place[c] = "closed" /\ inbox[c] = <<>>
  /\ client[c] = "connected" =>
       handler[c] = "none" /\ Owned(c) /\ inbox[c] = <<>>
  /\ client[c] = "sent" =>
       /\ handler[c] = "none" /\ sent[c] \in Messages
       /\ \/ (Owned(c) \/ place[c] = "closed") /\ inbox[c] = <<>>
          \/ /\ place[c] = "answered"
             /\ inbox[c] = <<MatchingHost(asked[c].host, sent[c])>>
  /\ client[c] = "done" => ~Owned(c) /\ place[c] \notin {"frontend", "handler"} /\ inbox[c] = <<>>
  /\ client[c] = "gone" => inbox[c] = <<>>

\* What it has read is what WithMatchingHost made of its own request.
GotAt(c) ==
  got[c] # None =>
    /\ client[c] = "done" /\ asked[c].host \in Servers
    /\ sent[c] \in Messages
    /\ got[c] = MatchingHost(asked[c].host, sent[c])

\* Everyone in the queue of b asked for b, is nowhere else and is there once.
QueueAt(b) ==
  /\ queue[b] \in Seq(Clients) /\ Len(queue[b]) <= Capacity
  /\ \A i \in 1 .. Len(queue[b]) :
       place[queue[b][i]] = "queue" /\ asked[queue[b][i]].host = b
  /\ \A i, j \in 1 .. Len(queue[b]) : queue[b][i] = queue[b][j] => i = j

\* And nobody who should be there is missing.
Queued(c) ==
  place[c] = "queue" =>
    \E i \in 1 .. Len(queue[asked[c].host]) : queue[asked[c].host][i] = c

Types ==
  /\ backends \subseteq Servers
  /\ run \in {"registering", "running", "nowhere"}
  /\ certOk \in BOOLEAN
  /\ asked \in [Clients -> Asks \cup {None}]
  /\ client \in [Clients -> {"idle", "waiting", "connected", "sent", "done",
                             "gone"}]
  /\ asks \in [Clients -> 0 .. MaxAsks + 1]
  /\ handler \in [Clients -> {"none", "route", "add", "close", "write"}]
  /\ place \in [Clients -> {"frontend", "handler", "queue", "answered",
                            "closed"} \cup Servers]
  /\ inbox = [c \in Clients |-> inbox[c]]
  /\ queue = [b \in Servers |-> queue[b]]
  /\ sent \in [Clients -> Messages \cup {None}]
  /\ got = [c \in Clients |-> got[c]]

Connections == \A c \in Clients : HandlerAt(c) /\ ClientAt(c) /\ GotAt(c)

Queues ==
  /\ \A b \in Servers : QueueAt(b)
  /\ \A c \in Clients : Queued(c)

Inv == Types /\ Connections /\ Queues

\* The invariant holds before anything is registered.
LEMMA InvInit == Init => Inv
<1> SUFFICES ASSUME Init PROVE Inv
  OBVIOUS
<1> USE FrontendConstants DEF Init
<1>1. Types
  BY DEF Types
<1>2. Connections
  BY Apart DEF Connections, HandlerAt, ClientAt, GotAt, Owned
<1>3. Queues
  BY DEF Queues, QueueAt, Queued
<1> QED BY <1>1, <1>2, <1>3 DEF Inv

\* A step that leaves the queues alone, and who is in them.
LEMMA QueuesKept ==
  ASSUME Types, Queues, UNCHANGED queue,
         \A d \in Clients : /\ place[d] = "queue" <=> place'[d] = "queue"
                            /\ place[d] = "queue" => asked'[d].host = asked[d].host
  PROVE  Queues'
<1>1. ASSUME NEW b \in Servers PROVE QueueAt(b)'
  <2>1. QueueAt(b)
    BY DEF Queues
  <2>2. \A i \in 1 .. Len(queue[b]) : queue[b][i] \in Clients
    BY <2>1 DEF QueueAt
  <2> QED BY <2>1, <2>2 DEF QueueAt
<1>2. ASSUME NEW c \in Clients PROVE Queued(c)'
  BY DEF Queues, Queued
<1> QED BY <1>1, <1>2 DEF Queues

\* Registration and the start of the servers: no client is served yet.
LEMMA InvRegister == ASSUME Inv, Register \/ Run PROVE Inv'
<1> USE DEF Inv, Register, Run
<1>1. Types'
  BY DEF Types, Servers
<1>2. Connections'
  BY DEF Connections, HandlerAt, ClientAt, GotAt, Owned
<1>3. Queues'
  BY QueuesKept
<1> QED BY <1>1, <1>2, <1>3

\* A client sends a request: the handler starts, with an empty inbox.
LEMMA InvAsk == ASSUME Inv, NEW c \in Clients, Ask(c) PROVE Inv'
<1> USE DEF Inv, Ask
<1>0. HandlerAt(c) /\ ClientAt(c) /\ GotAt(c)
  BY DEF Connections
<1>1. Types'
  BY FrontendConstants DEF Types
<1>2. Connections'
  <2> SUFFICES ASSUME NEW d \in Clients
               PROVE  HandlerAt(d)' /\ ClientAt(d)' /\ GotAt(d)'
    BY DEF Connections
  <2>1. HandlerAt(d) /\ ClientAt(d) /\ GotAt(d)
    BY DEF Connections
  <2>2. Owned(d)' = Owned(d)
    BY DEF Owned
  <2>3. CASE d = c
    BY <1>0, <2>2, <2>3, Apart DEF Types, HandlerAt, ClientAt, GotAt
  <2>4. CASE d # c
    BY <2>1, <2>2, <2>4 DEF Types, HandlerAt, ClientAt, GotAt
  <2> QED BY <2>3, <2>4
<1>3. Queues'
  BY <1>0, QueuesKept DEF Types, ClientAt
<1> QED BY <1>1, <1>2, <1>3

\* ServeHTTP refuses in three ways, and takes only what is registered.
LEMMA RefusalIs ==
  ASSUME NEW a
  PROVE  /\ Refusal(a) \in {0, 405, 400, 502}
         /\ Refusal(a) = 0 => a.host \in backends
BY DEF Refusal

\* ServeHTTP: a refusal goes to the inbox, or the connection to the handler.
LEMMA InvRoute == ASSUME Inv, NEW c \in Clients, Route(c) PROVE Inv'
<1> USE DEF Inv, Route
<1>0. HandlerAt(c) /\ ClientAt(c) /\ GotAt(c)
  BY DEF Connections
<1>1. Types'
  BY DEF Types, Send
<1>2. Connections'
  <2> SUFFICES ASSUME NEW d \in Clients
               PROVE  HandlerAt(d)' /\ ClientAt(d)' /\ GotAt(d)'
    BY DEF Connections
  <2>1. HandlerAt(d) /\ ClientAt(d) /\ GotAt(d)
    BY DEF Connections
  <2>2. CASE d # c
    BY <2>1, <2>2 DEF Types, HandlerAt, ClientAt, GotAt, Owned, Send
  <2>3. CASE d = c /\ Refusal(asked[c]) # 0
    <3>1. /\ client[c] \in {"waiting", "gone"} /\ place[c] = "frontend"
          /\ client[c] = "waiting" => inbox[c] = <<>>
      BY <1>0 DEF Types, HandlerAt, ClientAt
    <3>2. /\ client[c] = "waiting" =>
               inbox'[c] = <<Status(Refusal(asked[c]))>>
          /\ client[c] = "gone" => inbox'[c] = inbox[c]
      BY <2>3, <3>1, OneMail DEF Types, Send
    <3>3. Status(Refusal(asked[c])) \in Refusals
      BY <2>3, RefusalIs DEF Refusals
    <3> QED BY <1>0, <2>3, <3>1, <3>2, <3>3, Apart
            DEF Types, HandlerAt, ClientAt, GotAt
  <2>4. CASE d = c /\ Refusal(asked[c]) = 0
    <3>1. asked[c].host \in Servers
      BY <2>4, RefusalIs DEF Types
    <3> QED BY <1>0, <2>4, <3>1, Apart DEF Types, HandlerAt, ClientAt, GotAt
  <2> QED BY <2>2, <2>3, <2>4
<1>3. Queues'
  BY <1>0, QueuesKept DEF Types, HandlerAt
<1> QED BY <1>1, <1>2, <1>3

\* No room: the handler closes what it holds.
LEMMA InvCloseConn == ASSUME Inv, NEW c \in Clients, CloseConn(c) PROVE Inv'
<1> USE DEF Inv, CloseConn
<1>0. HandlerAt(c) /\ ClientAt(c) /\ GotAt(c)
  BY DEF Connections
<1>1. Types'
  BY DEF Types
<1>2. Connections'
  <2> SUFFICES ASSUME NEW d \in Clients
               PROVE  HandlerAt(d)' /\ ClientAt(d)' /\ GotAt(d)'
    BY DEF Connections
  <2>1. HandlerAt(d) /\ ClientAt(d) /\ GotAt(d)
    BY DEF Connections
  <2> QED BY <1>0, <2>1, Apart DEF Types, HandlerAt, ClientAt, GotAt, Owned
<1>3. Queues'
  BY <1>0, QueuesKept DEF Types, HandlerAt
<1> QED BY <1>1, <1>2, <1>3

\* The 200: whoever has the connection by now, the client finds it there.
LEMMA InvWriteConnected ==
  ASSUME Inv, NEW c \in Clients, WriteConnected(c)
  PROVE  Inv'
<1> USE DEF Inv, WriteConnected
<1>0. HandlerAt(c) /\ ClientAt(c) /\ GotAt(c)
  BY DEF Connections
<1>1. Types'
  BY DEF Types, Send
<1>2. Connections'
  <2> SUFFICES ASSUME NEW d \in Clients
               PROVE  HandlerAt(d)' /\ ClientAt(d)' /\ GotAt(d)'
    BY DEF Connections
  <2>1. HandlerAt(d) /\ ClientAt(d) /\ GotAt(d)
    BY DEF Connections
  <2>2. CASE d # c
    BY <2>1, <2>2 DEF Types, HandlerAt, ClientAt, GotAt, Owned, Send
  <2>3. CASE d = c
    <3>1. client[c] \in {"waiting", "gone", "done"}
      BY <1>0 DEF Types, HandlerAt, ClientAt
    <3>2. Owned(c)' = Owned(c)
      BY DEF Owned
    <3>3. client[c] = "waiting" => inbox[c] = <<>>
      BY <1>0 DEF ClientAt
    <3>4. \/ place[c] = "closed" /\ inbox'[c] = inbox[c]
          \/ Owned(c) /\ client[c] = "waiting" /\ inbox'[c] = <<Connected>>
          \/ Owned(c) /\ client[c] = "gone" /\ inbox'[c] = inbox[c]
      BY <1>0, <3>1, <3>3, OneMail DEF Types, HandlerAt, ClientAt, Send
    <3> QED BY <1>0, <2>3, <3>1, <3>2, <3>3, <3>4
            DEF Types, HandlerAt, ClientAt, GotAt
  <2> QED BY <2>2, <2>3
<1>3. Queues'
  BY <1>0, QueuesKept DEF Types, HandlerAt
<1> QED BY <1>1, <1>2, <1>3

\* The client sees the end.
LEMMA InvReadEnd == ASSUME Inv, NEW c \in Clients, ReadEnd(c) PROVE Inv'
<1> USE DEF Inv, ReadEnd
<1>0. HandlerAt(c) /\ ClientAt(c) /\ GotAt(c)
  BY DEF Connections
<1>1. Types'
  BY DEF Types
<1>2. Connections'
  <2> SUFFICES ASSUME NEW d \in Clients
               PROVE  HandlerAt(d)' /\ ClientAt(d)' /\ GotAt(d)'
    BY DEF Connections
  <2>1. HandlerAt(d) /\ ClientAt(d) /\ GotAt(d)
    BY DEF Connections
  <2> QED BY <1>0, <2>1, Apart DEF Types, HandlerAt, ClientAt, GotAt, Owned
<1>3. Queues'
  BY <1>0, QueuesKept DEF Types, HandlerAt
<1> QED BY <1>1, <1>2, <1>3

\* The client sends its request to the server.
LEMMA InvRequest == ASSUME Inv, NEW c \in Clients, Request(c) PROVE Inv'
<1> USE DEF Inv, Request
<1>0. HandlerAt(c) /\ ClientAt(c) /\ GotAt(c)
  BY DEF Connections
<1>1. Types'
  BY DEF Types
<1>2. Connections'
  <2> SUFFICES ASSUME NEW d \in Clients
               PROVE  HandlerAt(d)' /\ ClientAt(d)' /\ GotAt(d)'
    BY DEF Connections
  <2>1. HandlerAt(d) /\ ClientAt(d) /\ GotAt(d)
    BY DEF Connections
  <2>2. Owned(d)' = Owned(d)
    BY DEF Owned
  <2> QED BY <1>0, <2>1, <2>2 DEF Types, HandlerAt, ClientAt, GotAt
<1>3. Queues'
  BY <1>0, QueuesKept DEF Types
<1> QED BY <1>1, <1>2, <1>3

\* The client goes away at any time; its inbox goes with it.
LEMMA InvGiveUp == ASSUME Inv, NEW c \in Clients, GiveUp(c) PROVE Inv'
<1> USE DEF Inv, GiveUp
<1>0. HandlerAt(c) /\ ClientAt(c) /\ GotAt(c)
  BY DEF Connections
<1>1. Types'
  BY DEF Types
<1>2. Connections'
  <2> SUFFICES ASSUME NEW d \in Clients
               PROVE  HandlerAt(d)' /\ ClientAt(d)' /\ GotAt(d)'
    BY DEF Connections
  <2>1. HandlerAt(d) /\ ClientAt(d) /\ GotAt(d)
    BY DEF Connections
  <2>2. Owned(d)' = Owned(d)
    BY DEF Owned
  <2> QED BY <1>0, <2>1, <2>2 DEF Types, HandlerAt, ClientAt, GotAt
<1>3. Queues'
  BY <1>0, QueuesKept DEF Types
<1> QED BY <1>1, <1>2, <1>3

\* The client reads: its state tells a 200 from an answer of the server.
LEMMA InvRead == ASSUME Inv, NEW c \in Clients, Read(c) PROVE Inv'
<1> USE DEF Inv, Read
<1>0. HandlerAt(c) /\ ClientAt(c) /\ GotAt(c)
  BY DEF Connections
<1>1. Types'
  BY DEF Types
<1>r. Connected \notin Refusals
  BY DEF Connected, Refusals, Status
<1>2. \/ /\ client[c] = "waiting" /\ handler[c] = "none" /\ Owned(c)
         /\ client'[c] = "connected" /\ inbox'[c] = <<>>
         /\ UNCHANGED <<asked, got>>
      \/ /\ client[c] = "waiting" /\ handler[c] = "none"
         /\ place[c] = "frontend" /\ client'[c] = "idle" /\ inbox'[c] = <<>>
         /\ UNCHANGED got
      \/ /\ client[c] = "sent" /\ client'[c] = "done" /\ inbox'[c] = <<>>
         /\ handler[c] = "none" /\ place[c] = "answered"
         /\ got'[c] = MatchingHost(asked[c].host, sent[c])
         /\ UNCHANGED asked
  <2>1. CASE client[c] = "sent"
    <3>1. /\ handler[c] = "none" /\ place[c] = "answered"
          /\ inbox[c] = <<MatchingHost(asked[c].host, sent[c])>>
      BY <1>0, <2>1 DEF ClientAt
    <3>2. /\ Head(inbox[c]) = MatchingHost(asked[c].host, sent[c])
          /\ Tail(inbox[c]) = <<>>
      BY <3>1, OneMail
    <3>3. /\ client'[c] = "done" /\ got'[c] = Head(inbox[c])
          /\ inbox'[c] = Tail(inbox[c]) /\ UNCHANGED asked
      BY <2>1 DEF Types
    <3> QED BY <2>1, <3>1, <3>2, <3>3
  <2>2. CASE client[c] = "waiting"
    <3>1. \/ /\ handler[c] = "none" /\ place[c] = "frontend"
             /\ \E m \in Refusals : inbox[c] = <<m>>
          \/ handler[c] = "none" /\ Owned(c) /\ inbox[c] = <<Connected>>
      BY <1>0, <2>2 DEF ClientAt
    <3>2. \/ /\ handler[c] = "none" /\ place[c] = "frontend"
             /\ Head(inbox[c]) \in Refusals /\ Tail(inbox[c]) = <<>>
          \/ /\ handler[c] = "none" /\ Owned(c)
             /\ Head(inbox[c]) = Connected /\ Tail(inbox[c]) = <<>>
      BY <3>1, OneMail
    <3> QED BY <1>r, <2>2, <3>2 DEF Types
  <2> QED BY <2>1, <2>2
<1>3. Connections'
  <2> SUFFICES ASSUME NEW d \in Clients
               PROVE  HandlerAt(d)' /\ ClientAt(d)' /\ GotAt(d)'
    BY DEF Connections
  <2>1. HandlerAt(d) /\ ClientAt(d) /\ GotAt(d)
    BY DEF Connections
  <2>2. Owned(d)' = Owned(d) /\ Owned(c)' = Owned(c)
    BY DEF Owned
  <2>3. CASE d # c
    BY <2>1, <2>2, <2>3 DEF Types, HandlerAt, ClientAt, GotAt
  <2>4. CASE d = c
    <3>1. HandlerAt(c)'
      BY <1>0, <1>2, <2>2, Apart DEF HandlerAt
    <3>2. ClientAt(c)'
      BY <1>0, <1>2, <2>2, Apart DEF ClientAt, Owned
    <3>3. GotAt(c)'
      BY <1>0, <1>2, Apart DEF ClientAt, HandlerAt, GotAt
    <3> QED BY <2>4, <3>1, <3>2, <3>3
  <2> QED BY <2>3, <2>4
<1>4. Queues'
  <2>1. \A d \in Clients : d # c => asked'[d] = asked[d]
    BY DEF Types
  <2>2. place[c] = "queue" => asked'[c] = asked[c]
    BY <1>2
  <2>3. UNCHANGED <<queue, place>>
    OBVIOUS
  <2> QED BY <2>1, <2>2, <2>3, QueuesKept
<1> QED BY <1>1, <1>3, <1>4

\* A server answers, or closes after a failed handshake or a panic.
LEMMA InvServeConn ==
  ASSUME Inv, NEW b \in Servers, NEW c \in Clients, ServeConn(b, c)
  PROVE  Inv'
<1> USE DEF Inv, ServeConn
<1>0. HandlerAt(c) /\ ClientAt(c) /\ GotAt(c)
  BY DEF Connections
<1>1. Types'
  BY DEF Types, Send
<1>2. \/ place'[c] = "closed" /\ inbox'[c] = inbox[c]
      \/ /\ client[c] = "sent" /\ place'[c] = "answered"
         /\ inbox'[c] = <<MatchingHost(asked[c].host, sent[c])>>
  <2>1. asked[c].host = b
    BY <1>0 DEF HandlerAt
  <2>2. client[c] = "sent" => inbox[c] = <<>>
    BY <1>0, Apart DEF ClientAt
  <2>3. inbox = [d \in Clients |-> inbox[d]] /\ c \in Clients /\ place'[c] \in {"closed", "answered"}
        /\ (place'[c] = "closed" => inbox' = inbox)
    BY DEF Types
  <2>4. CASE client[c] = "sent" /\ place'[c] = "answered"
    <3>1. inbox' = [inbox EXCEPT ![c] = Append(@, MatchingHost(b, sent[c]))]
      BY <2>4 DEF Types, Send, Handshake
    <3> QED BY <2>1, <2>2, <2>3, <2>4, <3>1, OneMail
  <2>5. CASE client[c] = "gone"
    BY <2>5 DEF Types, Handshake
  <2> QED BY <2>3, <2>4, <2>5
<1>3. Connections'
  <2> SUFFICES ASSUME NEW d \in Clients
               PROVE  HandlerAt(d)' /\ ClientAt(d)' /\ GotAt(d)'
    BY DEF Connections
  <2>1. HandlerAt(d) /\ ClientAt(d) /\ GotAt(d)
    BY DEF Connections
  <2>3. CASE d # c
    <3>1. /\ place'[d] = place[d] /\ inbox'[d] = inbox[d]
          /\ UNCHANGED <<asked, client, handler, sent, got>>
      BY <2>3 DEF Types, Send
    <3> QED BY <2>1, <3>1 DEF HandlerAt, ClientAt, GotAt, Owned
  <2>4. CASE d = c
    <3>0. /\ UNCHANGED <<asked, client, handler, sent, got>>
          /\ handler[c] \in {"none", "write"} /\ asked[c].host \in Servers
          /\ handler[c] = "write" => client[c] = "gone"
          /\ place[c] \in Servers /\ client[c] \in {"sent", "gone"}
      BY <1>0, Apart DEF HandlerAt, Types, ClientAt
    <3> HIDE DEF ServeConn
    <3>1. HandlerAt(c)'
      BY <1>2, <3>0, Apart DEF HandlerAt
    <3>2. ClientAt(c)'
      BY <1>0, <1>2, <3>0, Apart DEF ClientAt, Owned
    <3>3. GotAt(c)'
      BY <1>0, <3>0 DEF GotAt
    <3> QED BY <2>4, <3>1, <3>2, <3>3
  <2> QED BY <2>3, <2>4
<1>4. Queues'
  <2>1. place[c] \in Servers /\ place'[c] \in {"closed", "answered"}
        /\ \A d \in Clients : d # c => place'[d] = place[d]
    BY DEF Types
  <2> QED BY <2>1, Apart, QueuesKept
<1> QED BY <1>1, <1>3, <1>4

\* What Append does.
LEMMA Appended ==
  ASSUME NEW S, NEW q \in Seq(S), NEW x \in S
  PROVE  /\ Append(q, x) \in Seq(S)
         /\ Len(Append(q, x)) = Len(q) + 1
         /\ \A i \in 1 .. Len(q) : Append(q, x)[i] = q[i]
         /\ Append(q, x)[Len(q) + 1] = x
OBVIOUS

\* What Head and Tail do.
LEMMA Taken ==
  ASSUME NEW S, NEW q \in Seq(S), q # <<>>
  PROVE  /\ Head(q) \in S /\ Head(q) = q[1]
         /\ Tail(q) \in Seq(S) /\ Len(q) >= 1
         /\ Len(Tail(q)) = Len(q) - 1
         /\ \A i \in 1 .. Len(q) - 1 : Tail(q)[i] = q[i + 1]
OBVIOUS

\* AddConn: the connection becomes the last of its queue, or stays.
LEMMA InvAddConn == ASSUME Inv, NEW c \in Clients, AddConn(c) PROVE Inv'
<1> USE DEF Inv, AddConn
<1>0. HandlerAt(c) /\ ClientAt(c) /\ GotAt(c)
  BY DEF Connections
<1>1. Types'
  BY DEF Types
<1>2. Connections'
  <2> SUFFICES ASSUME NEW d \in Clients
               PROVE  HandlerAt(d)' /\ ClientAt(d)' /\ GotAt(d)'
    BY DEF Connections
  <2>1. HandlerAt(d) /\ ClientAt(d) /\ GotAt(d)
    BY DEF Connections
  <2> QED BY <1>0, <2>1, Apart DEF Types, HandlerAt, ClientAt, GotAt, Owned
<1>3. CASE Len(queue[Server(c)]) >= Capacity
  <2>1. UNCHANGED <<queue, place, asked>>
    <3>1. queue[Server(c)] \in Seq(Clients) /\ Capacity \in Nat
      BY <1>0, FrontendConstants, Apart DEF HandlerAt, Queues, QueueAt, Server
    <3>2. Len(queue[Server(c)]) \in Nat
      BY <3>1
    <3>3. ~(Len(queue[Server(c)]) < Capacity)
      BY <1>3, <3>1, <3>2
    <3> QED BY <3>3
  <2> QED BY <1>1, <1>2, <2>1, QueuesKept
<1>4. CASE Len(queue[Server(c)]) < Capacity
  <2> DEFINE h == Server(c)  q == queue[h]
  <2>0. /\ h \in Servers /\ h = asked[c].host /\ q \in Seq(Clients)
        /\ place[c] = "handler" /\ Capacity \in Nat
        /\ Len(q) \in Nat
    <3>1. h \in Servers /\ h = asked[c].host /\ place[c] = "handler"
      BY <1>0, Apart DEF HandlerAt, Server
    <3>2. q \in Seq(Clients)
      BY <3>1 DEF Queues, QueueAt
    <3> HIDE DEF h, q
    <3> QED BY <3>1, <3>2, FrontendConstants
  <2>1. /\ queue' = [queue EXCEPT ![h] = Append(@, c)]
        /\ place' = [place EXCEPT ![c] = "queue"] /\ asked' = asked
        /\ queue = [b \in Servers |-> queue[b]]
        /\ place \in [Clients -> {"frontend", "handler", "queue", "answered",
                                  "closed"} \cup Servers]
    BY <1>4 DEF Types
  <2> HIDE DEF h
  <2>2. /\ queue'[h] \in Seq(Clients) /\ Len(queue'[h]) = Len(q) + 1
        /\ \A i \in 1 .. Len(q) : queue'[h][i] = q[i]
        /\ queue'[h][Len(q) + 1] = c
    BY <2>0, <2>1, Appended
  <2>3. ASSUME NEW b \in Servers PROVE QueueAt(b)'
    <3>0. QueueAt(b) /\ \A i \in 1 .. Len(queue[b]) : queue[b][i] \in Clients
      <4>1. QueueAt(b)
        BY DEF Queues
      <4> QED BY <4>1 DEF QueueAt
    <3>1. \A i \in 1 .. Len(queue[b]) :
            queue[b][i] # c /\ place'[queue[b][i]] = "queue"
      BY <2>0, <2>1, <3>0 DEF QueueAt
    <3>2. CASE b # h
      BY <2>1, <3>0, <3>1, <3>2 DEF QueueAt
    <3>3. CASE b = h
      <4>1. \A i \in 1 .. Len(queue'[h]) : i \in 1 .. Len(q) \/ i = Len(q) + 1
        BY <2>0, <2>2
      <4>2. Len(queue'[h]) <= Capacity
        BY <1>4, <2>0, <2>2 DEF h
      <4>3. \A i \in 1 .. Len(queue'[h]) :
              place'[queue'[h][i]] = "queue" /\ asked'[queue'[h][i]].host = h
        <5> SUFFICES ASSUME NEW i \in 1 .. Len(queue'[h])
                     PROVE  /\ place'[queue'[h][i]] = "queue"
                            /\ asked'[queue'[h][i]].host = h
          OBVIOUS
        <5>1. CASE i \in 1 .. Len(q)
          <6>1. queue'[h][i] = queue[b][i] /\ i \in 1 .. Len(queue[b])
            BY <2>2, <3>3, <5>1
          <6>2. place'[queue[b][i]] = "queue" /\ asked[queue[b][i]].host = b
            BY <3>0, <3>1, <6>1 DEF QueueAt
          <6> HIDE DEF q, AddConn
          <6> QED BY <2>1, <3>3, <6>1, <6>2
        <5>2. CASE i = Len(q) + 1
          <6>1. queue'[h][i] = c /\ place'[c] = "queue"
            BY <2>1, <2>2, <5>2
          <6> HIDE DEF q, AddConn
          <6> QED BY <2>0, <2>1, <6>1
        <5> QED BY <4>1, <5>1, <5>2
      <4>4. \A i, j \in 1 .. Len(queue'[h]) : queue'[h][i] = queue'[h][j] => i = j
        BY <2>2, <3>0, <3>1, <3>3, <4>1 DEF QueueAt
      <4> HIDE DEF q, AddConn
      <4> QED BY <2>2, <3>3, <4>2, <4>3, <4>4 DEF QueueAt
    <3> QED BY <3>2, <3>3
  <2>4. ASSUME NEW d \in Clients PROVE Queued(d)'
    <3>1. CASE d = c
      <4>1. Len(q) + 1 \in 1 .. Len(queue'[h])
        BY <2>0, <2>2
      <4>2. asked'[d].host = h
        BY <2>0, <2>1, <3>1
      <4> QED BY <2>2, <3>1, <4>1, <4>2 DEF Queued
    <3>2. CASE d # c /\ place'[d] = "queue"
      <4>1. place[d] = "queue"
        BY <2>1, <3>2
      <4>2. PICK i \in 1 .. Len(queue[asked[d].host]) : queue[asked[d].host][i] = d
        BY <4>1 DEF Queues, Queued
      <4>3. CASE asked[d].host = h
        <5>1. i \in 1 .. Len(queue'[h]) /\ queue'[h][i] = d
          BY <2>0, <2>2, <4>2, <4>3
        <5> QED BY <2>1, <4>3, <5>1 DEF Queued
      <4>4. CASE asked[d].host # h
        <5>1. queue'[asked[d].host] = queue[asked[d].host]
          <6>1. asked[d].host \in Servers
            BY <4>1 DEF Connections, HandlerAt
          <6> QED BY <2>1, <4>4, <6>1
        <5> QED BY <2>1, <4>2, <5>1 DEF Queued
      <4> QED BY <4>3, <4>4
    <3> QED BY <3>1, <3>2 DEF Queued
  <2> QED BY <1>1, <1>2, <2>3, <2>4 DEF Queues
<1>5. Len(queue[Server(c)]) < Capacity \/ Len(queue[Server(c)]) >= Capacity
  <2>1. queue[Server(c)] \in Seq(Clients) /\ Capacity \in Nat
    BY <1>0, FrontendConstants, Apart DEF HandlerAt, Queues, QueueAt, Server
  <2>2. Len(queue[Server(c)]) \in Nat
    BY <2>1
  <2> QED BY <2>1, <2>2
<1> QED BY <1>3, <1>4, <1>5

\* Accept: the head leaves the queue, and it was there once.
LEMMA InvAccept == ASSUME Inv, NEW b \in Servers, Accept(b) PROVE Inv'
<1> USE DEF Inv
<1> DEFINE q == queue[b]  c == Head(q)
<1>0. /\ q \in Seq(Clients) /\ Len(q) <= Capacity /\ q # <<>>
      /\ \A i \in 1 .. Len(q) : place[q[i]] = "queue" /\ asked[q[i]].host = b
      /\ \A i, j \in 1 .. Len(q) : q[i] = q[j] => i = j
  BY DEF Queues, QueueAt, Accept
<1>1. /\ queue' = [queue EXCEPT ![b] = Tail(q)]
      /\ place' = [place EXCEPT ![c] = b]
      /\ queue = [d \in Servers |-> queue[d]]
      /\ place \in [Clients -> {"frontend", "handler", "queue", "answered",
                                "closed"} \cup Servers]
      /\ UNCHANGED <<backends, run, certOk, asked, client, asks, handler,
                     inbox, sent, got>>
  BY DEF Accept, Types
<1> HIDE DEF q
<1>2. /\ c \in Clients /\ c = q[1] /\ Tail(q) \in Seq(Clients)
      /\ Len(q) \in Nat /\ Len(q) >= 1 /\ Len(Tail(q)) = Len(q) - 1
      /\ \A i \in 1 .. Len(q) - 1 : Tail(q)[i] = q[i + 1]
  BY <1>0, Taken
<1> HIDE DEF c
<1>3. place[c] = "queue" /\ asked[c].host = b
  BY <1>0, <1>2
<1>4. /\ queue'[b] = Tail(q)
      /\ \A d \in Servers : d # b => queue'[d] = queue[d]
      /\ place'[c] = b /\ \A d \in Clients : d # c => place'[d] = place[d]
  BY <1>1, <1>2
<1>5. \A i \in 1 .. Len(Tail(q)) :
        /\ i + 1 \in 1 .. Len(q) /\ Tail(q)[i] = q[i + 1] /\ q[i + 1] # c
        /\ q[i + 1] \in Clients
  BY <1>0, <1>2
<1>6. Types'
  BY <1>1, <1>2 DEF Types
<1>7. Connections'
  <2> SUFFICES ASSUME NEW d \in Clients
               PROVE  HandlerAt(d)' /\ ClientAt(d)' /\ GotAt(d)'
    BY DEF Connections
  <2>1. HandlerAt(d) /\ ClientAt(d) /\ GotAt(d)
    BY DEF Connections
  <2>2. UNCHANGED <<asked, client, handler, inbox, sent, got>>
    BY <1>1
  <2>3. CASE d # c
    BY <1>4, <2>1, <2>2, <2>3 DEF HandlerAt, ClientAt, GotAt, Owned
  <2>4. CASE d = c
    BY <1>3, <1>4, <2>1, <2>2, <2>4, Apart
       DEF HandlerAt, ClientAt, GotAt, Owned
  <2> QED BY <2>3, <2>4
<1>8. ASSUME NEW d \in Servers PROVE QueueAt(d)'
  <2>1. QueueAt(d)
    BY DEF Queues
  <2>2. CASE d # b
    <3>1. \A i \in 1 .. Len(queue[d]) : queue[d][i] \in Clients
      BY <2>1 DEF QueueAt
    <3>2. \A i \in 1 .. Len(queue[d]) : queue[d][i] # c
      BY <1>3, <2>1, <2>2 DEF QueueAt
    <3> QED BY <1>1, <1>4, <2>1, <2>2, <3>1, <3>2 DEF QueueAt
  <2>3. CASE d = b
    <3>1. Tail(q) \in Seq(Clients) /\ Len(Tail(q)) <= Capacity
      BY <1>0, <1>2, FrontendConstants
    <3>2. \A i \in 1 .. Len(Tail(q)) :
            place'[Tail(q)[i]] = "queue" /\ asked'[Tail(q)[i]].host = b
      BY <1>0, <1>1, <1>4, <1>5
    <3>3. \A i, j \in 1 .. Len(Tail(q)) : Tail(q)[i] = Tail(q)[j] => i = j
      <4> SUFFICES ASSUME NEW i \in 1 .. Len(Tail(q)),
                          NEW j \in 1 .. Len(Tail(q)), Tail(q)[i] = Tail(q)[j]
                   PROVE  i = j
        OBVIOUS
      <4>1. i + 1 = j + 1
        BY <1>0, <1>5
      <4> QED BY <4>1
    <3>4. queue'[d] = Tail(q)
      BY <1>4, <2>3
    <3>5. /\ queue'[d] \in Seq(Clients) /\ Len(queue'[d]) <= Capacity
          /\ \A i, j \in 1 .. Len(queue'[d]) :
               queue'[d][i] = queue'[d][j] => i = j
      BY <3>1, <3>3, <3>4
    <3>6. \A i \in 1 .. Len(queue'[d]) :
            place'[queue'[d][i]] = "queue" /\ asked'[queue'[d][i]].host = d
      BY <2>3, <3>2, <3>4
    <3> QED BY <3>5, <3>6 DEF QueueAt
  <2> QED BY <2>2, <2>3
<1>9. ASSUME NEW d \in Clients PROVE Queued(d)'
  <2>1. CASE d = c
    BY <1>4, <2>1, Apart DEF Queued
  <2>2. CASE d # c /\ place'[d] = "queue"
    <3>1. place[d] = "queue" /\ asked'[d] = asked[d]
      BY <1>1, <1>4, <2>2
    <3>2. PICK i \in 1 .. Len(queue[asked[d].host]) : queue[asked[d].host][i] = d
      BY <3>1 DEF Queues, Queued
    <3>3. asked[d].host \in Servers
      BY <3>1 DEF Connections, HandlerAt
    <3>4. CASE asked[d].host # b
      BY <1>4, <3>1, <3>2, <3>3, <3>4 DEF Queued
    <3>5. CASE asked[d].host = b
      <4>1. i \in 1 .. Len(q) /\ q[i] = d
        BY <3>2, <3>5 DEF q
      <4>2. i # 1
        BY <1>2, <2>2, <4>1
      <4>3. i - 1 \in 1 .. Len(Tail(q)) /\ Tail(q)[i - 1] = d
        BY <1>2, <4>1, <4>2
      <4> QED BY <1>4, <3>1, <3>5, <4>3 DEF Queued
    <3> QED BY <3>4, <3>5
  <2> QED BY <2>1, <2>2 DEF Queued
<1> QED BY <1>6, <1>7, <1>8, <1>9 DEF Queues

\* Nothing happens.
LEMMA InvStutter == ASSUME Inv, UNCHANGED vars PROVE Inv'
<1> USE DEF Inv, vars
<1>1. Types'
  BY DEF Types
<1>2. Connections'
  BY DEF Connections, HandlerAt, ClientAt, GotAt, Owned
<1>3. Queues'
  BY QueuesKept
<1> QED BY <1>1, <1>2, <1>3

\* Every step keeps the invariant.
LEMMA InvStep == ASSUME Inv, [Next]_vars PROVE Inv'
<1>1. CASE Register \/ Run
  BY <1>1, InvRegister
<1>2. ASSUME NEW c \in Clients, Ask(c) \/ Handling(c) \/ Read(c) \/ ReadEnd(c)
                                \/ Request(c) \/ GiveUp(c)
      PROVE  Inv'
  BY <1>2, InvAsk, InvRoute, InvAddConn, InvCloseConn, InvWriteConnected,
     InvRead, InvReadEnd, InvRequest, InvGiveUp DEF Handling
<1>3. ASSUME NEW b \in Servers, Accept(b) PROVE Inv'
  BY <1>3, InvAccept
<1>4. ASSUME NEW b \in Servers, NEW c \in Clients, ServeConn(b, c) PROVE Inv'
  BY <1>4, InvServeConn
<1>5. CASE UNCHANGED vars
  BY <1>5, InvStutter
<1> QED BY <1>1, <1>2, <1>3, <1>4, <1>5 DEF Next

\* The invariant holds in every behaviour.
LEMMA SpecInv == Spec => []Inv
<1>1. Inv /\ [Next]_vars => Inv'
  BY InvStep
<1> QED BY <1>1, InvInit, PTL DEF Spec

\* Type correctness; queues never exceed Capacity, and the handler has the
\* connection from Hijack until it is queued or closed.
THEOREM TypeCorrect == Spec => []TypeOK
<1>1. Inv => TypeOK
  BY DEF Inv, Types, Connections, HandlerAt, Queues, QueueAt, TypeOK
<1> QED BY <1>1, SpecInv, PTL

\* A hijacked connection is held once: by the handler, by one queue, or by the
\* server that accepted it, and that is the server its client named.
THEOREM EachConnectionHasOneOwner == Spec => []OneOwner
<1>1. ASSUME Inv PROVE OneOwner
  <2> SUFFICES ASSUME NEW c \in Clients
               PROVE  /\ \A b \in Servers :
                           Cardinality({i \in DOMAIN queue[b] : queue[b][i] = c})
                             = IF place[c] = "queue" /\ asked[c].host = b
                               THEN 1 ELSE 0
                      /\ place[c] \in Servers => asked[c].host = place[c]
    BY DEF OneOwner
  <2>1. ASSUME NEW b \in Servers
        PROVE  Cardinality({i \in DOMAIN queue[b] : queue[b][i] = c})
                 = IF place[c] = "queue" /\ asked[c].host = b THEN 1 ELSE 0
    <3> DEFINE at == {i \in DOMAIN queue[b] : queue[b][i] = c}
    <3>1. /\ \A i \in 1 .. Len(queue[b]) :
               place[queue[b][i]] = "queue" /\ asked[queue[b][i]].host = b
          /\ \A i, j \in 1 .. Len(queue[b]) : queue[b][i] = queue[b][j] => i = j
          /\ queue[b] \in Seq(Clients)
      BY <1>1 DEF Inv, Queues, QueueAt
    <3>2. DOMAIN queue[b] = 1 .. Len(queue[b])
      BY <3>1
    <3>3. CASE place[c] = "queue" /\ asked[c].host = b
      <4>1. PICK i \in 1 .. Len(queue[b]) : queue[b][i] = c
        BY <1>1, <3>3 DEF Inv, Queues, Queued
      <4>2. at = {i}
        BY <3>1, <3>2, <4>1
      <4> HIDE DEF at
      <4>3. Cardinality(at) = 1
        BY <4>2, FS_Singleton
      <4> QED BY <3>3, <4>3 DEF at
    <3>4. CASE ~(place[c] = "queue" /\ asked[c].host = b)
      <4>1. at = {}
        BY <3>1, <3>2, <3>4
      <4> HIDE DEF at
      <4>2. Cardinality(at) = 0
        BY <4>1, FS_EmptySet
      <4> QED BY <3>4, <4>2 DEF at
    <3> QED BY <3>3, <3>4
  <2>2. place[c] \in Servers => asked[c].host = place[c]
    BY <1>1 DEF Inv, Connections, HandlerAt
  <2> QED BY <2>1, <2>2
<1> QED BY <1>1, SpecInv, PTL

\* A 200 is not a refusal.
LEMMA ConnectedIsNoRefusal == Connected \notin Refusals
BY DEF Connected, Refusals, Status

\* A client that reads "200 Connected" has a connection that is in its server's
\* queue or accepted: AddConn comes before the write, and a connection there was
\* no room for is closed before it.
THEOREM ConnectedHasItsServer == Spec => []ConnectedIsOwned
<1>1. ASSUME Inv PROVE ConnectedIsOwned
  <2> SUFFICES ASSUME NEW c \in Clients,
                      client[c] = "connected"
                        \/ (client[c] = "waiting" /\ Connected \in
                              {inbox[c][i] : i \in DOMAIN inbox[c]})
               PROVE  place[c] \in {"queue", asked[c].host}
    BY DEF ConnectedIsOwned
  <2>1. HandlerAt(c) /\ ClientAt(c)
    BY <1>1 DEF Inv, Connections
  <2>2. CASE client[c] = "connected"
    BY <2>1, <2>2 DEF HandlerAt, ClientAt, Owned
  <2>3. CASE /\ client[c] = "waiting"
             /\ Connected \in {inbox[c][i] : i \in DOMAIN inbox[c]}
    <3>1. inbox[c] # <<>>
      BY <2>3
    <3>2. ASSUME NEW m \in Refusals, inbox[c] = <<m>> PROVE FALSE
      <4>1. m = Connected
        BY <2>3, <3>2
      <4> QED BY <4>1, ConnectedIsNoRefusal
    <3>3. Owned(c)
      BY <2>1, <2>3, <3>1, <3>2 DEF ClientAt
    <3> QED BY <2>1, <3>3 DEF HandlerAt, Owned
  <2> QED BY <2>2, <2>3
<1> QED BY <1>1, SpecInv, PTL

\* WithMatchingHost passes on what carries the server's own name twice.
LEMMA Matched ==
  ASSUME NEW b, NEW m, NEW a, a = MatchingHost(b, m), a.status # 502
  PROVE  m.sni = b /\ m.host = b /\ a = Handler(b, m.body)
BY DEF MatchingHost, Status

\* An answer other than 404 and 502 is that of the server named in the CONNECT,
\* the TLS server name and the Host header at once.
THEOREM AnswerFromRightServer == Spec => []RightServer
<1>1. ASSUME Inv PROVE RightServer
  <2> SUFFICES ASSUME NEW c \in Clients, got[c] # None,
                      got[c].status \notin {404, 502}
               PROVE  /\ asked[c].host = sent[c].sni /\ sent[c].sni = sent[c].host
                      /\ got[c] = Handler(asked[c].host, sent[c].body)
    BY DEF RightServer
  <2>1. got[c] = MatchingHost(asked[c].host, sent[c])
    BY <1>1 DEF Inv, Connections, GotAt
  <2> QED BY <2>1, Matched
<1> QED BY <1>1, SpecInv, PTL

\* builtinAuthorizer denies nothing, and allows a user outside system:masters
\* only to read the one config map.
LEMMA AuthorizeFits ==
  ASSUME NEW body, NEW a, a = Authorize(body), a.status = 200
  PROVE  /\ ~a.body.denied
         /\ a.body.allowed /\ ~body.masters =>
              /\ body.res.verb \in {"get", "list", "watch"}
              /\ body.res.resource = "configmaps"
              /\ body.res.name = "extension-apiserver-authentication"
<1>1. a.body = [allowed |-> Allowed(body), denied |-> FALSE]
  BY DEF Authorize, OK, Status
<1>2. a.body.allowed = Allowed(body) /\ a.body.denied = FALSE
  BY <1>1
<1> QED BY <1>2 DEF Allowed

\* A path of three segments and one more.
LEMMA JoinAt ==
  ASSUME NEW x, NEW y, NEW z, NEW u, NEW p, p = <<x, y, z>> \o <<u>>
  PROVE  Len(p) = 4 /\ p[2] = y /\ p[4] = u
OBVIOUS

\* A path of three segments and two more.
LEMMA JoinTwoAt ==
  ASSUME NEW x, NEW y, NEW z, NEW u, NEW v, NEW p, p = <<x, y, z>> \o <<u, v>>
  PROVE  Len(p) = 5 /\ p[2] = y /\ p[4] = u
OBVIOUS

\* A pattern of the mux.
LEMMA Fields ==
  ASSUME NEW x, NEW y, NEW z, NEW p, p = [path |-> x, gives |-> y, of |-> z]
  PROVE  p.path = x /\ p.gives = y /\ p.of = z
OBVIOUS

\* A longer path keeps its second segment.
LEMMA LongerAt ==
  ASSUME NEW S, NEW s \in Seq(S), NEW t \in Seq(S), Len(s) >= 4
  PROVE  Len(s \o t) \in Nat /\ Len(s \o t) >= 4 /\ (s \o t)[2] = s[2]
OBVIOUS

\* Group.Install: a pattern that gives objects has the group in second place
\* and, outside a namespace, the resource in fourth.
LEMMA PatternAt ==
  ASSUME NEW g \in Groups, NEW p \in GroupPatterns(g),
         p.gives \in {"list", "object"}
  PROVE  /\ p.of = g /\ Len(p.path) \in Nat /\ Len(p.path) >= 4
         /\ p.path[2] = g.group
         /\ ~g.namespaced => p.path[4] = g.resource
<1>1. \/ p = [path |-> Under(g) \o <<g.resource>>, gives |-> "list", of |-> g]
      \/ p = [path |-> Namespaced(g) \o <<g.resource>>, gives |-> "list",
              of |-> g] /\ g.namespaced
      \/ p = [path |-> Namespaced(g) \o <<Any, Any>>, gives |-> "object",
              of |-> g] /\ g.namespaced
      \/ p = [path |-> Under(g) \o <<g.resource, Any>>, gives |-> "object",
              of |-> g]
  <2> DEFINE oa == [path |-> <<"openapi", "v3">> \o Under(g), gives |-> "openapi",
                    of |-> g]
             rs == [path |-> Under(g), gives |-> "resources", of |-> g]
  <2>1. p # oa /\ p # rs
    <3>1. oa.gives = "openapi" /\ rs.gives = "resources"
      OBVIOUS
    <3> QED BY <3>1
  <2> QED BY <2>1 DEF GroupPatterns
<1> DEFINE S == {"apis", g.group, g.version, g.resource, "namespaces", Any}
<1>2. /\ Len(Namespaced(g)) = 5 /\ Namespaced(g)[2] = g.group
      /\ Namespaced(g) \in Seq(S)
  <2>1. /\ Len(Namespaced(g)) = 5 /\ Namespaced(g)[2] = g.group
    BY JoinTwoAt DEF Namespaced, Under
  <2>2. Under(g) \in Seq(S) /\ <<"namespaces", Any>> \in Seq(S)
    BY DEF Under
  <2> QED BY <2>1, <2>2, ConcatProperties DEF Namespaced
<1>3. CASE p = [path |-> Under(g) \o <<g.resource>>, gives |-> "list", of |-> g]
  <2>1. p.of = g /\ p.path = <<"apis", g.group, g.version>> \o <<g.resource>>
    BY <1>3, Fields DEF Under
  <2>2. Len(p.path) = 4 /\ p.path[2] = g.group /\ p.path[4] = g.resource
    BY <2>1, JoinAt
  <2> QED BY <2>1, <2>2
<1>4. CASE p = [path |-> Under(g) \o <<g.resource, Any>>, gives |-> "object",
                of |-> g]
  <2>1. p.of = g /\ p.path = <<"apis", g.group, g.version>> \o <<g.resource, Any>>
    BY <1>4, Fields DEF Under
  <2>2. Len(p.path) = 5 /\ p.path[2] = g.group /\ p.path[4] = g.resource
    BY <2>1, JoinTwoAt
  <2> QED BY <2>1, <2>2
<1>5. ASSUME NEW t \in Seq(S), g.namespaced, p.of = g, p.path = Namespaced(g) \o t
      PROVE  /\ p.of = g /\ Len(p.path) \in Nat /\ Len(p.path) >= 4
             /\ p.path[2] = g.group
             /\ ~g.namespaced => p.path[4] = g.resource
  <2> HIDE DEF S
  <2> DEFINE n == Namespaced(g)
  <2>1. n \in Seq(S) /\ Len(n) >= 4 /\ n[2] = g.group
    BY <1>2
  <2> HIDE DEF n
  <2>2. Len(n \o t) \in Nat /\ Len(n \o t) >= 4 /\ (n \o t)[2] = n[2]
    BY <2>1, LongerAt
  <2>3. p.path = n \o t
    BY <1>5 DEF n
  <2> QED BY <1>5, <2>1, <2>2, <2>3
<1>6. <<g.resource>> \in Seq(S) /\ <<Any, Any>> \in Seq(S)
  OBVIOUS
<1> HIDE DEF S
<1>7. CASE /\ p = [path |-> Namespaced(g) \o <<g.resource>>, gives |-> "list",
                   of |-> g]
           /\ g.namespaced
  <2>1. p.of = g /\ p.path = Namespaced(g) \o <<g.resource>>
    BY <1>7, Fields
  <2> QED BY <1>5, <1>6, <1>7, <2>1
<1>8. CASE /\ p = [path |-> Namespaced(g) \o <<Any, Any>>, gives |-> "object",
                   of |-> g]
           /\ g.namespaced
  <2>1. p.of = g /\ p.path = Namespaced(g) \o <<Any, Any>>
    BY <1>8, Fields
  <2> QED BY <1>5, <1>6, <1>8, <2>1
<1> QED BY <1>1, <1>3, <1>4, <1>7, <1>8

\* The mux answers a path with objects of the group and resource in it,
\* whichever of the matching patterns it takes.
LEMMA ServeFits ==
  ASSUME NEW body, body.path \in Seq(STRING), NEW a, a = Serve(body),
         a.status = 200, a.body.gives \in {"list", "object"}
  PROVE  \E g \in Groups :
           /\ body.path[2] = g.group /\ a.body.kind = g.kind
           /\ ~g.namespaced => body.path[4] = g.resource
<1> DEFINE found == {p \in Patterns : Matches(p.path, body.path)}
           p == CHOOSE q \in found : TRUE
<1>1. /\ found # {}
      /\ a = OK([gives |-> p.gives, kind |-> p.of.kind])
  <2>1. OK([gives |-> "groups"]).body.gives \notin {"list", "object"}
    BY DEF OK
  <2>2. OK([gives |-> "paths"]).body.gives \notin {"list", "object"}
    BY DEF OK
  <2>3. OK([gives |-> "nothing"]).body.gives \notin {"list", "object"}
    BY DEF OK
  <2>4. Status(404).status # 200
    BY DEF Status
  <2>5. Serve(body) \in
          {OK([gives |-> "groups"]), OK([gives |-> "paths"]), Status(404)}
        \/ /\ found # {}
           /\ Serve(body) \in {OK([gives |-> "nothing"]),
                               OK([gives |-> p.gives, kind |-> p.of.kind])}
    BY DEF Serve
  <2> HIDE DEF found, p
  <2> QED BY <2>1, <2>2, <2>3, <2>4, <2>5
<1>2. p \in found
  BY <1>1
<1> HIDE DEF p
<1>3. p \in Patterns /\ Matches(p.path, body.path)
  BY <1>2
<1>4. a.body.gives = p.gives /\ a.body.kind = p.of.kind
  BY <1>1 DEF OK
<1>5. PICK g \in Groups : p \in GroupPatterns(g)
  BY <1>3 DEF Patterns
<1>6. /\ p.of = g /\ Len(p.path) \in Nat /\ Len(p.path) >= 4
      /\ p.path[2] = g.group
      /\ ~g.namespaced => p.path[4] = g.resource
  BY <1>4, <1>5, PatternAt
<1>7. g.group # Any /\ g.resource # Any
  <2>1. /\ g.group \in {"api.runkube.internal", "example-b.runkube.internal"}
        /\ g.resource \in {"buckets", "examplesb"}
    BY DEF Groups
  <2> QED BY <2>1 DEF Any
<1>8. 2 \in DOMAIN body.path /\ 4 \in DOMAIN body.path
  BY <1>3, <1>6 DEF Matches
<1>9. body.path[2] = g.group /\ (~g.namespaced => body.path[4] = g.resource)
  BY <1>3, <1>6, <1>7, <1>8 DEF Matches
<1> QED BY <1>4, <1>6, <1>9

\* An answer of the authorizer grants a user outside system:masters no more
\* than reading the one config map, and an answer of the extension API with
\* objects in it has the kind of the group in the path.
THEOREM AnswersGrantNoMore == Spec => []AnswersFit
<1>1. ASSUME Inv PROVE AnswersFit
  <2> SUFFICES ASSUME NEW c \in Clients, got[c] # None, got[c].status = 200
               PROVE  LET body == sent[c].body  answer == got[c].body IN
                      /\ asked[c].host = "authorization-webhook" =>
                           /\ ~answer.denied
                           /\ answer.allowed /\ ~body.masters =>
                                /\ body.res.verb \in {"get", "list", "watch"}
                                /\ body.res.resource = "configmaps"
                                /\ body.res.name
                                     = "extension-apiserver-authentication"
                      /\ asked[c].host = "api"
                           /\ answer.gives \in {"list", "object"} =>
                           \E g \in Groups :
                             /\ body.path[2] = g.group /\ answer.kind = g.kind
                             /\ ~g.namespaced => body.path[4] = g.resource
    BY DEF AnswersFit
  <2>1. /\ got[c] = MatchingHost(asked[c].host, sent[c])
        /\ sent[c] \in Messages
    BY <1>1 DEF Inv, Connections, GotAt
  <2>2. /\ sent[c].sni = asked[c].host /\ sent[c].host = asked[c].host
        /\ got[c] = Handler(asked[c].host, sent[c].body)
    BY <2>1, Matched
  <2>3. CASE asked[c].host = "authorization-webhook"
    <3>1. got[c] = Authorize(sent[c].body)
      BY <2>2, <2>3 DEF Handler
    <3> QED BY <2>3, <3>1, AuthorizeFits
  <2>4. CASE asked[c].host = "api"
    <3>1. got[c] = Serve(sent[c].body)
      BY <2>2, <2>4 DEF Handler
    <3>2. sent[c].body.path \in Seq(STRING)
      BY <2>1, <2>2, <2>4, FrontendConstants
    <3> QED BY <2>4, <3>1, <3>2, ServeFits
  <2> QED BY <2>3, <2>4
<1> QED BY <1>1, SpecInv, PTL
=============================================================================
