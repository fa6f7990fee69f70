------------------------------ MODULE Forwarder ------------------------------
(***************************************************************************)
(* The sandbox's way out (pkg/sandbox/proxy.go): one CONNECT request to    *)
(* the Forwarder.  Requests share nothing, so one is enough.               *)
(*                                                                         *)
(* ServeHTTP dials the server, takes the client's connection over and      *)
(* copies in both directions, one goroutine each.  A copy is named for the *)
(* end it reads from.  The first that ends closes both connections, while  *)
(* the other may hold a chunk, wait for data or wait for room.             *)
(*                                                                         *)
(* The ends and TCP are modelled from their use.  Closing a connection     *)
(* with nothing unread lets the other side read what is on its way.        *)
(* Otherwise, or when data meets a closed end, the connection is reset:    *)
(* then some of what is on its way may never arrive.                       *)
(***************************************************************************)
EXTENDS Naturals, Sequences, SequencesExt

CONSTANTS
  MaxSent,    \* bound: chunks each end sends
  Buffer      \* chunks on their way in one direction of a connection

ASSUME ForwarderConstants ==
  MaxSent \in Nat \ {0} /\ Buffer \in Nat \ {0}

Ends == {"client", "server"}
Other(e) == CHOOSE x \in Ends : x # e

\* Chunks are numbered; a status line is a chunk too.
NoChunk == 0
Chunks == 1 .. MaxSent
Statuses == {200, 405, 503}

VARIABLES
  handler,    \* where ServeHTTP is
  peer,       \* what each end does
  conn,       \* clientConn and destConn
  broken,     \* connections that were reset
  toFwd,      \* sent by an end and not read by the forwarder
  toEnd,      \* written to an end and not read there
  copy, held, \* the copy from each end, and the chunk it holds
  sent,       \* how many chunks each end has sent
  got,        \* what each end has read
  sawEnd      \* an end has read to the end of its connection

net == <<broken, toFwd, toEnd>>
ends == <<peer, sent, got, sawEnd>>
vars == <<handler, conn, net, copy, held, ends>>

Init ==
  /\ handler = "none"
  /\ peer = [e \in Ends |-> "none"]
  /\ conn = [e \in Ends |-> "none"]
  /\ broken = [e \in Ends |-> FALSE]
  /\ toFwd = [e \in Ends |-> <<>>] /\ toEnd = [e \in Ends |-> <<>>]
  /\ copy = [e \in Ends |-> "none"] /\ held = [e \in Ends |-> NoChunk]
  /\ sent = [e \in Ends |-> 0] /\ got = [e \in Ends |-> <<>>]
  /\ sawEnd = [e \in Ends |-> FALSE]

-----------------------------------------------------------------------------
(* The ends *)

Ask ==
  /\ handler = "none"
  /\ handler' \in {"dial", "refuse"}     \* CONNECT, or another method
  /\ peer' = [peer EXCEPT !["client"] = "waiting"]
  /\ UNCHANGED <<conn, net, copy, held, sent, got, sawEnd>>

\* A client sends nothing before it has read the 200: Hijack's buffered
\* reader, which ServeHTTP ignores, is empty.
Send(e) ==
  /\ peer[e] = "open" /\ ~broken[e] /\ sent[e] < MaxSent
  /\ sent' = [sent EXCEPT ![e] = @ + 1]
  /\ \/ /\ conn[e] = "open" /\ Len(toFwd[e]) < Buffer
        /\ toFwd' = [toFwd EXCEPT ![e] = Append(@, sent[e] + 1)]
        /\ UNCHANGED <<broken, toEnd>>
     \/ /\ conn[e] = "closed"
        /\ broken' = [broken EXCEPT ![e] = TRUE]
        /\ \E q \in Prefixes(toEnd[e]) : toEnd' = [toEnd EXCEPT ![e] = q]
        /\ UNCHANGED toFwd
  /\ UNCHANGED <<handler, conn, copy, held, peer, got, sawEnd>>

Receive(e) ==
  /\ peer[e] \in {"waiting", "open"} /\ toEnd[e] # <<>>
  /\ got' = [got EXCEPT ![e] = Append(@, Head(toEnd[e]))]
  /\ toEnd' = [toEnd EXCEPT ![e] = Tail(@)]
  /\ peer' = [peer EXCEPT ![e] = IF @ = "open" \/ Head(toEnd[e]) = 200
                                   THEN "open" ELSE "refused"]
  /\ UNCHANGED <<handler, conn, broken, toFwd, copy, held, sent, sawEnd>>

\* End of file, or the error of a reset: the end closes its side.
ReadEnd(e) ==
  /\ peer[e] \in {"waiting", "open"} /\ toEnd[e] = <<>>
  /\ conn[e] = "closed" \/ broken[e]
  /\ peer' = [peer EXCEPT ![e] = "closed"]
  /\ sawEnd' = [sawEnd EXCEPT ![e] = TRUE]
  /\ UNCHANGED <<handler, conn, net, copy, held, sent, got>>

\* An end closes its side, or its process dies.
Leave(e) ==
  /\ peer[e] \in {"waiting", "open"}
  /\ peer' = [peer EXCEPT ![e] = "closed"]
  /\ IF toEnd[e] = <<>> THEN UNCHANGED net
     ELSE /\ broken' = [broken EXCEPT ![e] = TRUE]
          /\ toEnd' = [toEnd EXCEPT ![e] = <<>>]
          /\ \E q \in Prefixes(toFwd[e]) : toFwd' = [toFwd EXCEPT ![e] = q]
  /\ UNCHANGED <<handler, conn, copy, held, sent, got, sawEnd>>

-----------------------------------------------------------------------------
(* Forwarder.ServeHTTP.  The filter is SingleHost, which never fails. *)

\* http.Error: the connection stays with net/http.
Answer(status) ==
  /\ handler' = "returned"
  /\ toEnd' = IF peer["client"] = "closed" THEN toEnd
              ELSE [toEnd EXCEPT !["client"] = Append(@, status)]
  /\ UNCHANGED <<conn, broken, toFwd, copy, held, ends>>

Refuse == handler = "refuse" /\ Answer(405)

\* DialContext; it also fails when the client has left.
Dial ==
  /\ handler = "dial"
  /\ \/ Answer(503)
     \/ /\ handler' = "hijack"
        /\ conn' = [conn EXCEPT !["server"] = "open"]
        /\ peer' = [peer EXCEPT !["server"] = "open"]
        /\ UNCHANGED <<net, copy, held, sent, got, sawEnd>>

\* Faulty variant: the second copy waits for the first.
Hijack_InTurn ==
  /\ handler = "hijack"
  /\ handler' = "copying"
  /\ conn' = [conn EXCEPT !["client"] = "open"]
  /\ toEnd' = IF peer["client"] = "closed" THEN toEnd
              ELSE [toEnd EXCEPT !["client"] = Append(@, 200)]
  /\ copy' = [copy EXCEPT !["client"] = "read"]
  /\ UNCHANGED <<broken, toFwd, held, ends>>

\* WriteHeader and Hijack, which sends the header; then both copies start.
Hijack ==
  /\ handler = "hijack"
  /\ handler' = "copying"
  /\ conn' = [conn EXCEPT !["client"] = "open"]
  /\ toEnd' = IF peer["client"] = "closed" THEN toEnd
              ELSE [toEnd EXCEPT !["client"] = Append(@, 200)]
  /\ copy' = [e \in Ends |-> "read"]
  /\ UNCHANGED <<broken, toFwd, held, ends>>

-----------------------------------------------------------------------------
(* transfer, with io.Copy's loop *)

\* Faulty variant: data that comes together with the end is dropped.
ReadChunk_DropsLast(e) ==
  /\ copy[e] = "read"
  /\ \/ /\ conn[e] = "open" /\ toFwd[e] # <<>>
        /\ held' = [held EXCEPT ![e] = Head(toFwd[e])]
        /\ toFwd' = [toFwd EXCEPT ![e] = Tail(@)]
        /\ copy' = [copy EXCEPT ![e] = IF peer[e] = "closed" THEN "source"
                                                             ELSE "write"]
     \/ /\ \/ conn[e] = "closed"
           \/ toFwd[e] = <<>> /\ (broken[e] \/ peer[e] = "closed")
        /\ copy' = [copy EXCEPT ![e] = "source"]
        /\ UNCHANGED <<held, toFwd>>
  /\ UNCHANGED <<handler, conn, broken, toEnd, ends>>

\* Read: data, the end, an error, or the other copy has closed the source.
ReadChunk(e) ==
  /\ copy[e] = "read"
  /\ \/ /\ conn[e] = "open" /\ toFwd[e] # <<>>
        /\ held' = [held EXCEPT ![e] = Head(toFwd[e])]
        /\ toFwd' = [toFwd EXCEPT ![e] = Tail(@)]
        /\ copy' = [copy EXCEPT ![e] = "write"]
     \/ /\ \/ conn[e] = "closed"
           \/ toFwd[e] = <<>> /\ (broken[e] \/ peer[e] = "closed")
        /\ copy' = [copy EXCEPT ![e] = "source"]
        /\ UNCHANGED <<held, toFwd>>
  /\ UNCHANGED <<handler, conn, broken, toEnd, ends>>

\* Write waits for room.  The first write to an end that has closed still
\* succeeds and resets the connection.
WriteChunk(e) ==
  LET d == Other(e) IN
  /\ copy[e] = "write"
  /\ held' = [held EXCEPT ![e] = NoChunk]
  /\ \/ /\ conn[d] = "closed" \/ broken[d]
        /\ copy' = [copy EXCEPT ![e] = "source"]
        /\ UNCHANGED net
     \/ /\ conn[d] = "open" /\ ~broken[d] /\ peer[d] # "closed"
        /\ Len(toEnd[d]) < Buffer
        /\ copy' = [copy EXCEPT ![e] = "read"]
        /\ toEnd' = [toEnd EXCEPT ![d] = Append(@, held[e])]
        /\ UNCHANGED <<broken, toFwd>>
     \/ /\ conn[d] = "open" /\ ~broken[d] /\ peer[d] = "closed"
        /\ copy' = [copy EXCEPT ![e] = "read"]
        /\ broken' = [broken EXCEPT ![d] = TRUE]
        /\ \E q \in Prefixes(toFwd[d]) : toFwd' = [toFwd EXCEPT ![d] = q]
        /\ UNCHANGED toEnd
  /\ UNCHANGED <<handler, conn, ends>>

\* Close of clientConn or destConn; a second one is an error nobody sees.
Close(x) ==
  /\ conn' = [conn EXCEPT ![x] = "closed"]
  /\ IF conn[x] = "closed" \/ toFwd[x] = <<>> THEN UNCHANGED net
     ELSE /\ broken' = [broken EXCEPT ![x] = TRUE]
          /\ toFwd' = [toFwd EXCEPT ![x] = <<>>]
          /\ \E q \in Prefixes(toEnd[x]) : toEnd' = [toEnd EXCEPT ![x] = q]

\* The deferred calls run last to first.
CloseSource(e) ==
  /\ copy[e] = "source"
  /\ Close(e)
  /\ copy' = [copy EXCEPT ![e] = "destination"]
  /\ UNCHANGED <<handler, held, ends>>

\* Faulty variant: each copy closes only what it has read from.
CloseDestination_Not(e) ==
  /\ copy[e] = "destination"
  /\ copy' = [copy EXCEPT ![e] = "done"]
  /\ UNCHANGED <<handler, conn, net, held, ends>>

\* ServeHTTP returns with the copy from the server; the other goroutine
\* may outlive it.
CloseDestination(e) ==
  /\ copy[e] = "destination"
  /\ Close(Other(e))
  /\ copy' = [copy EXCEPT ![e] = "done"]
  /\ handler' = IF e = "server" THEN "returned" ELSE handler
  /\ UNCHANGED <<held, ends>>

Transfer(e) ==
  ReadChunk(e) \/ WriteChunk(e) \/ CloseSource(e) \/ CloseDestination(e)

-----------------------------------------------------------------------------
ServeHTTP == Refuse \/ Dial \/ Hijack

Next ==
  \/ Ask \/ ServeHTTP
  \/ \E e \in Ends : \/ Send(e) \/ Receive(e) \/ ReadEnd(e) \/ Leave(e)
                     \/ Transfer(e)

Spec == Init /\ [][Next]_vars

\* Goroutines run on, and an end that stays reads what comes.
FairSpec ==
  /\ Spec
  /\ WF_vars(ServeHTTP)
  /\ \A e \in Ends : WF_vars(Transfer(e)) /\ WF_vars(Receive(e))

-----------------------------------------------------------------------------
\* Type invariant; both directions are copied as soon as the client's
\* connection is the handler's, and a chunk is held only between a read and
\* the write after it.
TypeOK ==
  /\ handler \in {"none", "refuse", "dial", "hijack", "copying", "returned"}
  /\ peer \in [Ends -> {"none", "waiting", "open", "refused", "closed"}]
  /\ conn \in [Ends -> {"none", "open", "closed"}]
  /\ broken \in [Ends -> BOOLEAN]
  /\ \A e \in Ends :
       /\ toFwd[e] \in Seq(Chunks) /\ Len(toFwd[e]) <= Buffer
       /\ toEnd[e] \in Seq(Chunks \cup Statuses) /\ Len(toEnd[e]) <= Buffer
       /\ copy[e] \in {"none", "read", "write", "source", "destination",
                       "done"}
       /\ copy[e] = "none" <=> conn["client"] = "none"
       /\ held[e] \in Chunks <=> copy[e] = "write"
  /\ sent \in [Ends -> 0 .. MaxSent] /\ sawEnd \in [Ends -> BOOLEAN]

\* What e would have read if nothing were lost.
Sent(e) ==
  (IF e = "client" THEN <<200>> ELSE <<>>)
    \o [i \in 1 .. sent[Other(e)] |-> i]

\* An end reads what the other has sent, in order and from the first chunk
\* on, and the client reads the 200 before all of it.  When an end has read
\* to the end of its connection, and all it had sent itself has arrived, it
\* has read everything: a side that says its last word and closes is heard,
\* although the copy of its silence closes both connections.
Delivered ==
  \A e \in Ends :
    /\ peer[e] # "refused" => IsPrefix(got[e], Sent(e))
    /\ sawEnd[e] /\ got[Other(e)] = Sent(Other(e)) => got[e] = Sent(e)

\* When either side has closed, the forwarder closes both connections: no
\* copy stays behind, waiting for a side that does not speak.
TunnelEnds ==
  \A e \in Ends :
    peer[e] = "closed" ~> \A x \in Ends : conn[x] # "open"
=============================================================================
