-------------------------- MODULE Forwarder_proofs --------------------------
(***************************************************************************)
(* What the Forwarder delivers, for any number of chunks and any buffers:  *)
(* an end reads what the other has sent, in order, and all of it when it   *)
(* reads to the end of its connection and nothing of its own was lost.     *)
(*                                                                         *)
(* The argument.  What flows to an end is one stream: read by it, on the   *)
(* way to it, held by the copy, not read by the copy yet.  Its items have  *)
(* consecutive numbers, and as long as its connections are whole there is  *)
(* no gap at all (Stream); what is lost once stays lost (Grew).            *)
(* Delivered needs more: why an end may read an end of file.  Each copy    *)
(* that ends, and each reset, has an excuse for either end e (EndsWell):   *)
(* something of what e sent is lost, or e was written all there is and its *)
(* other side has closed, or e has left by itself.  An excuse is never     *)
(* taken back: a reset that takes away what was written to e also loses    *)
(* something of what e has sent.                                           *)
(***************************************************************************)
EXTENDS Forwarder, SequenceTheorems, TLAPS

\* There are two ends.
LEMMA Others ==
  ASSUME NEW e \in Ends
  PROVE  /\ Other(e) \in Ends /\ Other(e) # e /\ Other(Other(e)) = e
         /\ \A x \in Ends : x = e \/ x = Other(e)
         /\ e = "client" => Other(e) = "server"
         /\ e = "server" => Other(e) = "client"
<1>1. \A x, y \in Ends : x # y => Other(x) = y
  <2> SUFFICES ASSUME NEW x \in Ends, NEW y \in Ends, x # y
               PROVE  Other(x) = y
    OBVIOUS
  <2>1. \A z \in Ends : z # x => z = y
    BY DEF Ends
  <2> QED BY <2>1 DEF Other
<1> QED BY <1>1 DEF Ends

-----------------------------------------------------------------------------
(* Sequences: a chunk more, a chunk less, a tail cut off.                  *)

LEMMA Appended ==
  ASSUME NEW S, NEW q \in Seq(S), NEW x \in S
  PROVE  /\ Append(q, x) \in Seq(S)
         /\ Len(Append(q, x)) = Len(q) + 1
         /\ \A i \in 1 .. Len(q) : Append(q, x)[i] = q[i]
         /\ Append(q, x)[Len(q) + 1] = x
OBVIOUS

LEMMA Taken ==
  ASSUME NEW S, NEW q \in Seq(S), q # <<>>
  PROVE  /\ Head(q) \in S /\ Head(q) = q[1]
         /\ Tail(q) \in Seq(S) /\ Len(q) >= 1
         /\ Len(Tail(q)) = Len(q) - 1
         /\ \A i \in 1 .. Len(q) - 1 : Tail(q)[i] = q[i + 1]
OBVIOUS

LEMMA Cut ==
  ASSUME NEW S, NEW q \in Seq(S), NEW p \in Prefixes(q)
  PROVE  /\ p \in Seq(S) /\ Len(p) <= Len(q)
         /\ \A i \in 1 .. Len(p) : p[i] = q[i]
<1>1. PICK l \in 0 .. Len(q) : p = SubSeq(q, 1, l)
  BY DEF Prefixes
<1>2. \A i \in 1 .. l : q[i] \in S
  OBVIOUS
<1>3. p \in Seq(S) /\ Len(p) = l /\ \A i \in 1 .. l : p[i] = q[i]
  BY <1>1, <1>2
<1> QED BY <1>1, <1>3

LEMMA Empty ==
  ASSUME NEW S, NEW q \in Seq(S)
  PROVE  /\ Len(q) \in Nat /\ DOMAIN q = 1 .. Len(q)
         /\ q = <<>> <=> Len(q) = 0
OBVIOUS

-----------------------------------------------------------------------------
(* Types, and what cannot be yet in the early stages of the request.       *)

\* What the i-th item of the stream to e is: the 200 comes first.
Item(e, i) == IF e = "client" THEN IF i = 1 THEN 200 ELSE i - 1 ELSE i
First(e) == IF e = "client" THEN 1 ELSE 0

\* ServeHTTP answered 405 or 503.
Refused == handler = "returned" /\ conn["client"] = "none"

Bytes == Chunks \cup Statuses
Copying == {"none", "read", "write", "source", "destination", "done"}

Types ==
  /\ handler \in {"none", "refuse", "dial", "hijack", "copying", "returned"}
  /\ peer \in [Ends -> {"none", "waiting", "open", "refused", "closed"}]
  /\ conn \in [Ends -> {"none", "open", "closed"}]
  /\ broken \in [Ends -> BOOLEAN]
  /\ toFwd \in [Ends -> Seq(Chunks)] /\ toEnd \in [Ends -> Seq(Bytes)]
  /\ got \in [Ends -> Seq(Bytes)]
  /\ copy \in [Ends -> Copying]
  /\ held \in [Ends -> Chunks \cup {NoChunk}]
  /\ sent \in [Ends -> 0 .. MaxSent] /\ sawEnd \in [Ends -> BOOLEAN]

Sizes ==
  \A e \in Ends :
    /\ Len(toFwd[e]) <= Buffer /\ Len(toEnd[e]) <= Buffer
    /\ copy[e] = "none" <=> conn["client"] = "none"
    /\ held[e] \in Chunks <=> copy[e] = "write"

\* Before the server is dialled and before the client's connection is taken.
Unborn ==
  /\ handler \in {"none", "refuse", "dial", "hijack"} => conn["client"] = "none"
  /\ handler \in {"none", "refuse", "dial"} \/ Refused <=> conn["server"] = "none"
  /\ conn["server"] = "none" <=> peer["server"] = "none"
  /\ handler = "none" => peer["client"] = "none"
  /\ peer["server"] \notin {"waiting", "refused"}
  /\ conn["server"] = "none" => toFwd["server"] = <<>>
  /\ conn["client"] = "none" =>
       /\ conn["server"] # "closed" /\ ~broken["server"]
       /\ sent["client"] = 0 /\ toFwd["client"] = <<>>
       /\ toEnd["server"] = <<>> /\ got["server"] = <<>>
       /\ ~sawEnd["client"] /\ peer["client"] # "open"
       /\ broken["client"] => peer["client"] = "closed"

\* The client hears the status first, and nothing after a refusal.
Unanswered ==
  /\ conn["client"] = "none" /\ ~Refused =>
       /\ got["client"] = <<>> /\ toEnd["client"] = <<>>
       /\ ~broken["client"]
  /\ peer["client"] \in {"none", "waiting"} => got["client"] = <<>>
  /\ Refused =>
       /\ Len(got["client"]) + Len(toEnd["client"]) <= 1
       /\ peer["client"] # "refused" => got["client"] = <<>>
       /\ \A i \in 1 .. Len(toEnd["client"]) : toEnd["client"][i] # 200

Shape == Types /\ Sizes /\ Unborn /\ Unanswered

LEMMA ShapeInit == Init => Shape
<1> SUFFICES ASSUME Init PROVE Shape
  OBVIOUS
<1> USE ForwarderConstants DEF Init, Ends
<1>1. Types BY DEF Types, Copying
<1>2. Sizes BY DEF Sizes, Chunks, NoChunk
<1>3. Unborn BY DEF Unborn, Refused
<1>4. Unanswered BY DEF Unanswered, Refused
<1> QED BY <1>1, <1>2, <1>3, <1>4 DEF Shape

LEMMA ShapeAsk == ASSUME Shape, Ask PROVE Shape'
<1> USE DEF Shape, Ask, net
<1>1. Types' BY DEF Types, Ends
<1>2. Sizes' BY DEF Types, Sizes, Unborn, Ends
<1>3. Unborn' BY DEF Types, Unborn, Refused, Ends
<1>4. Unanswered' BY DEF Types, Unborn, Unanswered, Refused, Ends
<1> QED BY <1>1, <1>2, <1>3, <1>4

LEMMA ShapeAnswer ==
  ASSUME Shape, NEW status \in {405, 503}, handler \in {"refuse", "dial"},
         Answer(status)
  PROVE  Shape'
<1> USE DEF Shape, Answer, ends
<1>0. conn["client"] = "none" /\ ~Refused /\ "client" \in Ends
  BY DEF Unborn, Refused, Ends
<1>1. /\ Append(toEnd["client"], status) \in Seq(Bytes)
      /\ Len(Append(toEnd["client"], status)) = 1
      /\ Append(toEnd["client"], status)[1] = status
  BY <1>0, Appended DEF Types, Unanswered, Bytes, Statuses
<1>2. Types' BY <1>0, <1>1 DEF Types
<1>3. Sizes'
  BY <1>0, <1>1, ForwarderConstants DEF Types, Sizes
<1>4. Unborn' BY <1>0 DEF Types, Unborn, Refused, Ends
<1>5. Unanswered' BY <1>0, <1>1 DEF Types, Unborn, Unanswered, Refused, Ends
<1> QED BY <1>2, <1>3, <1>4, <1>5

LEMMA ShapeDial == ASSUME Shape, Dial PROVE Shape'
<1>1. CASE Answer(503)
  BY <1>1, ShapeAnswer DEF Dial
<1>2. CASE ~Answer(503)
  <2> USE <1>2 DEF Shape, Dial, net
  <2>1. Types' BY DEF Types, Ends
  <2>2. Sizes' BY DEF Types, Sizes, Unborn, Ends
  <2>3. Unborn' BY DEF Types, Unborn, Refused, Ends
  <2>4. Unanswered' BY DEF Types, Unborn, Unanswered, Refused, Ends
  <2> QED BY <2>1, <2>2, <2>3, <2>4
<1> QED BY <1>1, <1>2

LEMMA ShapeHijack == ASSUME Shape, Hijack PROVE Shape'
<1> USE DEF Shape, Hijack, ends
<1>0. conn["client"] = "none" /\ ~Refused /\ "client" \in Ends
  BY DEF Unborn, Refused, Ends
<1>1. /\ Append(toEnd["client"], 200) \in Seq(Bytes)
      /\ Len(Append(toEnd["client"], 200)) = 1
  BY <1>0, Appended DEF Types, Unanswered, Bytes, Statuses
<1>2. Types' BY <1>0, <1>1 DEF Types, Copying
<1>3. Sizes'
  BY <1>0, <1>1, ForwarderConstants DEF Types, Sizes, Ends
<1>4. Unborn' BY <1>0 DEF Types, Unborn, Refused, Ends
<1>5. Unanswered' BY <1>0, <1>1 DEF Types, Unborn, Unanswered, Refused, Ends
<1> QED BY <1>2, <1>3, <1>4, <1>5

LEMMA ShapeSend == ASSUME Shape, NEW e \in Ends, Send(e) PROVE Shape'
<1> USE DEF Shape, Send
<1>0. /\ conn["client"] # "none" \/ e = "server"
      /\ sent[e] + 1 \in Chunks
  BY ForwarderConstants DEF Types, Unborn, Ends, Chunks
<1>1. CASE conn[e] = "open" /\ Len(toFwd[e]) < Buffer
           /\ toFwd' = [toFwd EXCEPT ![e] = Append(@, sent[e] + 1)]
           /\ UNCHANGED <<broken, toEnd>>
  <2>1. /\ Append(toFwd[e], sent[e] + 1) \in Seq(Chunks)
        /\ Len(Append(toFwd[e], sent[e] + 1)) = Len(toFwd[e]) + 1
        /\ Len(toFwd[e]) \in Nat
    BY <1>0, Appended DEF Types
  <2>2. Types' BY <1>1, <1>0, <2>1 DEF Types, Chunks
  <2>3. Sizes' BY <1>1, <2>1, ForwarderConstants DEF Types, Sizes
  <2>4. Unborn' BY <1>1, <1>0 DEF Types, Unborn, Refused, Ends
  <2>5. Unanswered' BY <1>1 DEF Types, Unanswered, Refused
  <2> QED BY <2>2, <2>3, <2>4, <2>5
<1>2. ASSUME conn[e] = "closed", NEW q \in Prefixes(toEnd[e]),
             broken' = [broken EXCEPT ![e] = TRUE],
             toEnd' = [toEnd EXCEPT ![e] = q], UNCHANGED toFwd
      PROVE  Shape'
  <2>1. q \in Seq(Bytes) /\ Len(q) <= Len(toEnd[e]) /\ Len(q) \in Nat
        /\ Len(toEnd[e]) \in Nat
    BY Cut DEF Types
  <2>0. conn["client"] # "none"
    BY <1>2, <1>0 DEF Unborn
  <2>2. Types' BY <1>2, <1>0, <2>1 DEF Types, Chunks
  <2>3. Sizes' BY <1>2, <2>1, ForwarderConstants DEF Types, Sizes
  <2>4. Unborn' BY <1>2, <2>0 DEF Types, Unborn, Refused, Ends
  <2>5. Unanswered' BY <1>2, <2>0 DEF Types, Unanswered, Refused
  <2> QED BY <2>2, <2>3, <2>4, <2>5
<1> QED BY <1>1, <1>2

LEMMA ShapeReceive == ASSUME Shape, NEW e \in Ends, Receive(e) PROVE Shape'
<1> USE DEF Shape, Receive
<1>1. /\ Head(toEnd[e]) \in Bytes /\ Head(toEnd[e]) = toEnd[e][1]
      /\ Tail(toEnd[e]) \in Seq(Bytes)
      /\ Len(Tail(toEnd[e])) = Len(toEnd[e]) - 1 /\ Len(toEnd[e]) \in Nat
      /\ \A i \in 1 .. Len(toEnd[e]) - 1 : Tail(toEnd[e])[i] = toEnd[e][i + 1]
      /\ Len(toEnd[e]) >= 1
  BY Taken DEF Types
<1>2. /\ Append(got[e], Head(toEnd[e])) \in Seq(Bytes)
      /\ Len(Append(got[e], Head(toEnd[e]))) = Len(got[e]) + 1
      /\ Len(got[e]) \in Nat
  BY <1>1, Appended DEF Types
<1>3. Types' BY <1>1, <1>2 DEF Types
<1>4. Sizes' BY <1>1, ForwarderConstants DEF Types, Sizes
<1>0. e = "client" /\ conn["client"] = "none" => Refused /\ peer[e] = "waiting"
  BY DEF Types, Unborn, Unanswered
<1>5. Unborn' BY <1>0 DEF Types, Unborn, Unanswered, Refused, Ends
<1>6. Unanswered'
  <2>1. CASE e = "client" /\ Refused
    <3>1. /\ Head(toEnd[e]) # 200 /\ peer[e] = "waiting"
          /\ Len(got'[e]) = Len(got[e]) + 1 /\ Len(toEnd'[e]) = Len(toEnd[e]) - 1
          /\ Len(got[e]) + Len(toEnd[e]) <= 1
      BY <2>1, <1>0, <1>1, <1>2 DEF Types, Unborn, Unanswered, Refused
    <3>2. Refused' /\ peer'["client"] = "refused"
      BY <2>1, <3>1 DEF Types, Refused
    <3> DEFINE m == Len(got[e])  n == Len(toEnd[e])
    <3>3. m \in Nat /\ n \in Nat /\ n >= 1 /\ m + n <= 1
      BY <3>1, <1>1, <1>2
    <3>4. Len(got'[e]) = m + 1 /\ Len(toEnd'[e]) = n - 1
      BY <3>1
    <3> HIDE DEF Receive, Shape, m, n
    <3>5. Len(got'[e]) = 1 /\ Len(toEnd'[e]) = 0
      BY <3>3, <3>4
    <3> QED BY <2>1, <3>2, <3>5 DEF Unanswered
  <2>3. CASE e = "client" /\ ~Refused
    <3>1. /\ conn["client"] # "none" /\ peer'["client"] \in {"open", "refused"}
          /\ UNCHANGED <<handler, conn>>
      BY <2>3, <1>0, <1>1 DEF Types
    <3> QED BY <2>3, <3>1 DEF Unanswered, Refused
  <2>2. CASE e # "client"
    BY <2>2, <1>0, <1>1, <1>2, <1>3 DEF Types, Unborn, Unanswered, Refused, Ends
  <2> QED BY <2>1, <2>2, <2>3
<1> QED BY <1>3, <1>4, <1>5, <1>6

LEMMA ShapeReadEnd == ASSUME Shape, NEW e \in Ends, ReadEnd(e) PROVE Shape'
<1> USE DEF Shape, ReadEnd, net
<1>1. Types' BY DEF Types
<1>2. Sizes' BY DEF Types, Sizes
<1>3. Unborn' BY DEF Types, Unborn, Unanswered, Refused, Ends
<1>4. Unanswered' BY DEF Types, Unanswered, Refused, Ends
<1> QED BY <1>1, <1>2, <1>3, <1>4

LEMMA ShapeLeave == ASSUME Shape, NEW e \in Ends, Leave(e) PROVE Shape'
<1> USE DEF Shape, Leave
<1>1. CASE toEnd[e] = <<>>
  <2> USE <1>1 DEF net
  <2>1. Types' BY DEF Types
  <2>2. Sizes' BY DEF Types, Sizes
  <2>3. Unborn' BY DEF Types, Unborn, Refused, Ends
  <2>4. Unanswered' BY DEF Types, Unanswered, Refused, Ends
  <2> QED BY <2>1, <2>2, <2>3, <2>4
<1>2. ASSUME toEnd[e] # <<>>, NEW q \in Prefixes(toFwd[e]),
             broken' = [broken EXCEPT ![e] = TRUE],
             toEnd' = [toEnd EXCEPT ![e] = <<>>],
             toFwd' = [toFwd EXCEPT ![e] = q]
      PROVE  Shape'
  <2>1. /\ q \in Seq(Chunks) /\ Len(q) <= Len(toFwd[e]) /\ Len(q) \in Nat
        /\ Len(toFwd[e]) \in Nat /\ toFwd[e] = <<>> => q = <<>>
    BY Cut, Empty DEF Types
  <2>2. Types' BY <1>2, <2>1 DEF Types
  <2>3. Sizes' BY <1>2, <2>1, ForwarderConstants DEF Types, Sizes
  <2>4. Unborn' BY <1>2, <2>1 DEF Types, Unborn, Refused, Ends
  <2>5. Unanswered' BY <1>2, <2>1 DEF Types, Unborn, Unanswered, Refused, Ends
  <2> QED BY <2>2, <2>3, <2>4, <2>5
<1> QED BY <1>1, <1>2

LEMMA ShapeReadChunk == ASSUME Shape, NEW e \in Ends, ReadChunk(e) PROVE Shape'
<1> USE DEF Shape, ReadChunk, ends
<1>1. CASE /\ conn[e] = "open" /\ toFwd[e] # <<>>
           /\ held' = [held EXCEPT ![e] = Head(toFwd[e])]
           /\ toFwd' = [toFwd EXCEPT ![e] = Tail(@)]
           /\ copy' = [copy EXCEPT ![e] = "write"]
  <2>1. /\ Head(toFwd[e]) \in Chunks /\ Tail(toFwd[e]) \in Seq(Chunks)
        /\ Len(Tail(toFwd[e])) = Len(toFwd[e]) - 1 /\ Len(toFwd[e]) \in Nat
    BY <1>1, Taken DEF Types
  <2>2. Types'
    <3>1. toFwd' \in [Ends -> Seq(Chunks)] BY <1>1, <2>1 DEF Types
    <3>2. held' \in [Ends -> Chunks \cup {NoChunk}] BY <1>1, <2>1 DEF Types
    <3>3. copy' \in [Ends -> Copying] BY <1>1 DEF Types, Copying
    <3> QED BY <1>1, <3>1, <3>2, <3>3 DEF Types
  <2>3. Sizes'
    <3>1. ASSUME NEW x \in Ends
          PROVE  Len(toFwd'[x]) <= Buffer /\ Len(toEnd'[x]) <= Buffer
      <4>1. Len(toFwd[e]) <= Buffer /\ Len(toFwd[e]) - 1 <= Buffer
        BY <2>1, ForwarderConstants DEF Sizes
      <4>2. Len(toFwd'[e]) <= Buffer
        BY <1>1, <2>1, <4>1 DEF Types
      <4> QED BY <1>1, <4>2 DEF Types, Sizes
    <3>2. ASSUME NEW x \in Ends
          PROVE  /\ copy'[x] = "none" <=> conn'["client"] = "none"
                 /\ held'[x] \in Chunks <=> copy'[x] = "write"
      BY <1>1, <2>1 DEF Types, Sizes
    <3> QED BY <3>1, <3>2 DEF Sizes
  <2>4. Unborn' BY <1>1, <2>1 DEF Types, Sizes, Unborn, Refused, Ends
  <2>5. Unanswered' BY <1>1 DEF Types, Unanswered, Refused
  <2> QED BY <2>2, <2>3, <2>4, <2>5
<1>2. CASE copy' = [copy EXCEPT ![e] = "source"] /\ UNCHANGED <<held, toFwd>>
  <2>1. Types' BY <1>2 DEF Types, Copying
  <2>2. Sizes' BY <1>2 DEF Types, Sizes
  <2>3. Unborn' BY <1>2 DEF Types, Unborn, Refused
  <2>4. Unanswered' BY <1>2 DEF Types, Unanswered, Refused
  <2> QED BY <2>1, <2>2, <2>3, <2>4
<1> QED BY <1>1, <1>2

LEMMA ShapeWriteChunk == ASSUME Shape, NEW e \in Ends, WriteChunk(e) PROVE Shape'
<1> DEFINE d == Other(e)
<1> USE DEF Shape, WriteChunk, ends
<1>0. /\ d \in Ends /\ conn["client"] # "none" /\ held[e] \in Chunks
      /\ NoChunk \notin Chunks
  BY Others DEF Sizes, NoChunk, Chunks
<1> HIDE DEF d
<1>1. CASE copy' = [copy EXCEPT ![e] = "source"] /\ UNCHANGED net
  <2> USE <1>1 DEF net
  <2>1. Types' BY <1>0 DEF Types, Copying
  <2>2. Sizes' BY <1>0 DEF Types, Sizes
  <2>3. Unborn' BY <1>0 DEF Types, Unborn, Refused
  <2>4. Unanswered' BY <1>0 DEF Types, Unanswered, Refused
  <2> QED BY <2>1, <2>2, <2>3, <2>4
<1>2. CASE /\ Len(toEnd[d]) < Buffer /\ copy' = [copy EXCEPT ![e] = "read"]
           /\ toEnd' = [toEnd EXCEPT ![d] = Append(@, held[e])]
           /\ UNCHANGED <<broken, toFwd>>
  <2>1. /\ Append(toEnd[d], held[e]) \in Seq(Bytes)
        /\ Len(Append(toEnd[d], held[e])) = Len(toEnd[d]) + 1
        /\ Len(toEnd[d]) \in Nat
    BY <1>0, Appended DEF Types, Bytes
  <2>2. Types'
    <3>1. toEnd' \in [Ends -> Seq(Bytes)] BY <1>0, <1>2, <2>1 DEF Types
    <3>2. held' \in [Ends -> Chunks \cup {NoChunk}] BY <1>2 DEF Types
    <3>3. copy' \in [Ends -> Copying] BY <1>2 DEF Types, Copying
    <3> QED BY <1>2, <3>1, <3>2, <3>3 DEF Types
  <2>3. Sizes'
    <3>1. ASSUME NEW x \in Ends
          PROVE  Len(toFwd'[x]) <= Buffer /\ Len(toEnd'[x]) <= Buffer
      BY <1>0, <1>2, <2>1, ForwarderConstants DEF Types, Sizes
    <3>2. ASSUME NEW x \in Ends
          PROVE  /\ copy'[x] = "none" <=> conn'["client"] = "none"
                 /\ held'[x] \in Chunks <=> copy'[x] = "write"
      BY <1>0, <1>2, <2>1 DEF Types, Sizes
    <3> QED BY <3>1, <3>2 DEF Sizes
  <2>4. Unborn' BY <1>0, <1>2 DEF Types, Unborn, Refused
  <2>5. Unanswered' BY <1>0, <1>2 DEF Types, Unanswered, Refused
  <2> QED BY <2>2, <2>3, <2>4, <2>5
<1>3. ASSUME copy' = [copy EXCEPT ![e] = "read"], NEW q \in Prefixes(toFwd[d]),
             broken' = [broken EXCEPT ![d] = TRUE],
             toFwd' = [toFwd EXCEPT ![d] = q], UNCHANGED toEnd,
             conn[d] = "open"
      PROVE  Shape'
  <2>1. /\ q \in Seq(Chunks) /\ Len(q) <= Len(toFwd[d]) /\ Len(q) \in Nat
        /\ Len(toFwd[d]) \in Nat /\ toFwd[d] = <<>> => q = <<>>
    BY <1>0, Cut, Empty DEF Types
  <2>2. Types' BY <1>0, <1>3, <2>1 DEF Types, Copying
  <2>3. Sizes'
    <3>1. ASSUME NEW x \in Ends
          PROVE  Len(toFwd'[x]) <= Buffer /\ Len(toEnd'[x]) <= Buffer
      BY <1>0, <1>3, <2>1, ForwarderConstants DEF Types, Sizes
    <3>2. ASSUME NEW x \in Ends
          PROVE  /\ copy'[x] = "none" <=> conn'["client"] = "none"
                 /\ held'[x] \in Chunks <=> copy'[x] = "write"
      BY <1>0, <1>3 DEF Types, Sizes
    <3> QED BY <3>1, <3>2 DEF Sizes
  <2>4. Unborn' BY <1>0, <1>3, <2>1 DEF Types, Unborn, Refused
  <2>5. Unanswered' BY <1>0, <1>3 DEF Types, Unanswered, Refused
  <2> QED BY <2>2, <2>3, <2>4, <2>5
<1> QED BY <1>1, <1>2, <1>3 DEF d

LEMMA ShapeClose ==
  ASSUME Shape, NEW x \in Ends, NEW e \in Ends, Close(x),
         copy[e] \in {"source", "destination"},
         NEW l \in {"destination", "done"}, copy' = [copy EXCEPT ![e] = l],
         handler' \in {handler, "returned"}, UNCHANGED <<held, ends>>
  PROVE  Shape'
<1> USE DEF Shape, Close, ends
<1>0. conn["client"] # "none" /\ conn["server"] # "none"
  BY DEF Sizes, Unborn, Refused
<1>1. CASE UNCHANGED net
  <2> USE <1>0, <1>1 DEF net
  <2>1. Types' BY DEF Types, Copying
  <2>2. Sizes' BY DEF Types, Sizes
  <2>3. Unborn' BY DEF Types, Unborn, Refused
  <2>4. Unanswered' BY DEF Types, Unanswered, Refused
  <2> QED BY <2>1, <2>2, <2>3, <2>4
<1>2. ASSUME NEW q \in Prefixes(toEnd[x]),
             broken' = [broken EXCEPT ![x] = TRUE],
             toFwd' = [toFwd EXCEPT ![x] = <<>>],
             toEnd' = [toEnd EXCEPT ![x] = q]
      PROVE  Shape'
  <2>1. /\ q \in Seq(Bytes) /\ Len(q) <= Len(toEnd[x]) /\ Len(q) \in Nat
        /\ Len(toEnd[x]) \in Nat
    BY Cut, Empty DEF Types
  <2>2. Types' BY <1>0, <1>2, <2>1 DEF Types, Copying
  <2>3. Sizes' BY <1>0, <1>2, <2>1, ForwarderConstants DEF Types, Sizes
  <2>4. Unborn' BY <1>0, <1>2, <2>1 DEF Types, Unborn, Refused
  <2>5. Unanswered' BY <1>0, <1>2 DEF Types, Unanswered, Refused
  <2> QED BY <2>2, <2>3, <2>4, <2>5
<1> QED BY <1>1, <1>2

LEMMA ShapeStep == Shape /\ [Next]_vars => Shape'
<1> SUFFICES ASSUME Shape, [Next]_vars PROVE Shape'
  OBVIOUS
<1>1. CASE UNCHANGED vars
  BY <1>1 DEF vars, net, ends, Shape, Types, Sizes, Unborn, Unanswered, Refused
<1>2. CASE Ask \/ ServeHTTP
  BY <1>2, ShapeAsk, ShapeAnswer, ShapeDial, ShapeHijack DEF ServeHTTP, Refuse
<1>3. ASSUME NEW e \in Ends, Send(e) \/ Receive(e) \/ ReadEnd(e) \/ Leave(e)
      PROVE  Shape'
  BY <1>3, ShapeSend, ShapeReceive, ShapeReadEnd, ShapeLeave
<1>4. ASSUME NEW e \in Ends, Transfer(e) PROVE Shape'
  <2>1. CASE ReadChunk(e) \/ WriteChunk(e)
    BY <2>1, ShapeReadChunk, ShapeWriteChunk
  <2>2. CASE CloseSource(e)
    BY <2>2, ShapeClose DEF CloseSource
  <2>3. CASE CloseDestination(e)
    BY <2>3, ShapeClose, Others DEF CloseDestination
  <2> QED BY <1>4, <2>1, <2>2, <2>3 DEF Transfer
<1> QED BY <1>1, <1>2, <1>3, <1>4 DEF Next

-----------------------------------------------------------------------------
(* The stream to e, whose source is Other(e), stage by stage.              *)

\* The client's status line is still to be written.
Coming(e) ==
  IF e = "client" /\ conn["client"] = "none" /\ ~Refused THEN 1 ELSE 0
InHand(e) == IF copy[Other(e)] = "write" THEN 1 ELSE 0
HasRead(e) == Len(got[e])
OnTheWay(e) == Len(toEnd[e])
Unread(e) == Len(toFwd[e])

\* How many items have left the copy, are before the unread ones, are there
\* in all stages, and were sent.
Written(e) == HasRead(e) + OnTheWay(e)
Before(e) == Written(e) + Coming(e) + InHand(e)
Arriving(e) == Before(e) + Unread(Other(e))
Total(e) == First(e) + sent[Other(e)]

Ended == {"source", "destination", "done"}

\* Nothing has interrupted the connection to e.
Flowing(e) == conn[e] # "closed" /\ ~broken[e] /\ peer[e] # "closed"

\* Read, or on its way: the first items, in order.
InOrder(e) ==
  /\ peer[e] # "refused" =>
       \A i \in 1 .. Len(got[e]) : got[e][i] = Item(e, i)
  /\ ~(e = "client" /\ Refused) =>
       \A i \in 1 .. Len(toEnd[e]) : toEnd[e][i] = Item(e, Len(got[e]) + i)
  /\ peer[e] = "refused" => e = "client" /\ Refused

\* The chunks behind the copy carry on where what was written stops.
Contiguous(e) ==
  /\ copy[Other(e)] = "write" => held[Other(e)] + First(e) = Before(e)
  /\ copy[Other(e)] \notin Ended =>
       \A i \in 1 .. Len(toFwd[Other(e)]) :
         toFwd[Other(e)][i] + First(e) = Before(e) + i

\* Nothing is missing as long as the source's connection is whole too.
Whole(e) ==
  conn[Other(e)] # "closed" /\ ~broken[Other(e)] /\ copy[Other(e)] \notin Ended
    => Arriving(e) = Total(e)

Stream(e) ==
  /\ Arriving(e) <= Total(e)
  /\ InOrder(e)
  /\ Flowing(e) => Contiguous(e) /\ Whole(e)

\* What is missing does not become less.
Grew(e) == Total(e)' - Arriving(e)' >= Total(e) - Arriving(e)

Nats ==
  \A e \in Ends :
    /\ HasRead(e) \in Nat /\ OnTheWay(e) \in Nat
    /\ Unread(e) \in Nat /\ sent[e] \in Nat
    /\ Coming(e) \in {0, 1} /\ InHand(e) \in {0, 1} /\ First(e) \in {0, 1}
    /\ Written(e) \in Nat /\ Before(e) \in Nat /\ Arriving(e) \in Nat
    /\ Total(e) \in Nat

LEMMA ShapeNats == Shape => Nats
<1> SUFFICES ASSUME Shape, NEW e \in Ends PROVE Nats!(e)
  BY DEF Nats
<1>1. /\ HasRead(e) \in Nat /\ OnTheWay(e) \in Nat
      /\ \A x \in Ends : Unread(x) \in Nat /\ sent[x] \in Nat
  BY Empty, ForwarderConstants DEF Shape, Types, HasRead, OnTheWay, Unread
<1>2. Coming(e) \in {0, 1} /\ InHand(e) \in {0, 1} /\ First(e) \in {0, 1}
  BY DEF Coming, InHand, First
<1>3. Written(e) \in Nat
  BY <1>1 DEF Written
<1>4. Before(e) \in Nat
  BY <1>2, <1>3 DEF Before
<1> QED BY <1>1, <1>2, <1>3, <1>4, Others DEF Arriving, Total

LEMMA ShapeNatsNext == Shape' => Nats'
BY ShapeNats, PTL

LEMMA StreamInit == Init => \A e \in Ends : Stream(e)
<1> SUFFICES ASSUME Init, NEW e \in Ends PROVE Stream(e)
  OBVIOUS
<1> USE DEF Init
<1>0. Other(e) \in Ends
  BY Others
<1>1. HasRead(e) = 0 /\ OnTheWay(e) = 0 /\ Unread(Other(e)) = 0
      /\ InHand(e) = 0 /\ Coming(e) = First(e) /\ sent[Other(e)] = 0
  BY <1>0 DEF HasRead, OnTheWay, Unread, InHand, Coming, First, Refused, Ends
<1>2. First(e) \in {0, 1}
  BY DEF First
<1>3. Arriving(e) = Total(e)
  BY <1>1, <1>2 DEF Arriving, Before, Written, Total
<1>4. InOrder(e)
  BY DEF InOrder
<1>5. Contiguous(e)
  BY <1>0 DEF Contiguous, Ended
<1>6. Arriving(e) <= Total(e)
  BY <1>1, <1>2, <1>3 DEF Total
<1> QED BY <1>3, <1>4, <1>5, <1>6 DEF Stream, Whole

\* A stream nothing is added to, some of which may be lost.
Fewer(p, q) == Len(p) <= Len(q) /\ \A i \in 1 .. Len(p) : p[i] = q[i]

Loses(e, d) ==
  /\ got'[e] = got[e] /\ Coming(e)' = Coming(e)
  /\ e = "client" => Refused' = Refused
  /\ peer'[e] = "refused" <=> peer[e] = "refused"
  /\ Flowing(e)' => Flowing(e)
  /\ Fewer(toEnd'[e], toEnd[e])
  /\ toEnd'[e] = toEnd[e] \/ ~Flowing(e)'
  /\ copy'[d] = "write" => copy[d] = "write" /\ held'[d] = held[d]
  /\ copy[d] = "write" => copy'[d] = "write" \/ ~Flowing(e)' \/ copy'[d] \in Ended
  /\ copy[d] \in Ended => copy'[d] \in Ended
  /\ Fewer(toFwd'[d], toFwd[d])
  /\ \/ toFwd'[d] = toFwd[d] /\ sent'[d] = sent[d]
     \/ broken'[d]
     \/ conn'[d] = "closed"
  /\ sent'[d] >= sent[d]
  /\ broken[d] => broken'[d]
  /\ conn[d] = "closed" => conn'[d] = "closed"

LEMMA StreamLoses ==
  ASSUME Shape, Shape', NEW e \in Ends, Stream(e), Loses(e, Other(e))
  PROVE  Stream(e)' /\ Grew(e)
<1> DEFINE d == Other(e)
<1>0. d \in Ends
  BY Others
<1>n. Nats /\ Nats'
  BY ShapeNats, ShapeNatsNext
<1>1. /\ InHand(e)' <= InHand(e) /\ HasRead(e)' = HasRead(e)
      /\ OnTheWay(e)' <= OnTheWay(e) /\ Unread(d)' <= Unread(d)
      /\ sent'[d] >= sent[d] /\ Coming(e)' = Coming(e)
  BY DEF Loses, InHand, HasRead, OnTheWay, Unread, Fewer
<1>2. /\ \A f \in {e, d} :
           HasRead(f) \in Nat /\ OnTheWay(f) \in Nat /\ Unread(f) \in Nat
             /\ sent[f] \in Nat /\ InHand(f) \in {0, 1} /\ Coming(f) \in {0, 1}
      /\ (\A f \in {e, d} :
           HasRead(f) \in Nat /\ OnTheWay(f) \in Nat /\ Unread(f) \in Nat
             /\ sent[f] \in Nat /\ InHand(f) \in {0, 1} /\ Coming(f) \in {0, 1})'
      /\ First(e) \in {0, 1} /\ First(e)' = First(e)
  BY <1>0, <1>n DEF Nats, First
<1>3. Arriving(e)' <= Arriving(e) /\ Total(e) <= Total(e)'
  BY <1>1, <1>2 DEF Arriving, Before, Written, Total
<1>4. Grew(e) /\ Arriving(e)' <= Total(e)'
  BY <1>3, <1>n DEF Nats, Grew, Stream
<1>5. InOrder(e)'
  <2>1. \A i \in 1 .. OnTheWay(e)' : i \in 1 .. OnTheWay(e)
    BY <1>1, <1>2
  <2>2. \A i \in 1 .. Len(toEnd'[e]) :
          i \in 1 .. Len(toEnd[e]) /\ toEnd'[e][i] = toEnd[e][i]
    BY <2>1 DEF OnTheWay, Loses, Fewer
  <2>3. peer'[e] = "refused" <=> peer[e] = "refused"
    BY DEF Loses
  <2> QED BY <2>2, <2>3 DEF Stream, InOrder, Loses
<1>6. ASSUME Flowing(e)' PROVE Contiguous(e)' /\ Whole(e)'
  <2>1. OnTheWay(e)' = OnTheWay(e) /\ Contiguous(e) /\ Whole(e)
    BY <1>6 DEF Loses, Stream, OnTheWay
  <2>2. CASE copy'[d] \notin Ended
    <3>1. InHand(e)' = InHand(e) /\ Before(e)' = Before(e)
      BY <1>6, <1>1, <2>1, <2>2 DEF Loses, InHand, Before, Written
    <3>2. Contiguous(e)'
      <4>1. copy'[d] = "write" => held'[d] + First(e) = Before(e)'
        BY <2>1, <3>1 DEF Loses, Contiguous
      <4>2. \A i \in 1 .. Unread(d)' : i \in 1 .. Unread(d)
        BY <1>1, <1>2
      <4>3. \A i \in 1 .. Len(toFwd'[d]) :
              toFwd'[d][i] + First(e) = Before(e)' + i
        BY <2>1, <2>2, <3>1, <4>2 DEF Loses, Contiguous, Fewer, Unread
      <4> QED BY <1>2, <4>1, <4>3 DEF Contiguous
    <3>3. Whole(e)'
      <4>1. ASSUME conn'[d] # "closed" /\ ~broken'[d]
            PROVE  Arriving(e)' = Total(e)'
        <5>1. toFwd'[d] = toFwd[d] /\ sent'[d] = sent[d] /\ Whole(e)
              /\ conn[d] # "closed" /\ ~broken[d] /\ copy[d] \notin Ended
          BY <2>1, <2>2, <4>1 DEF Loses
        <5> QED BY <5>1, <3>1, <1>2 DEF Whole, Arriving, Total, Unread
      <4> QED BY <4>1 DEF Whole
    <3> QED BY <3>2, <3>3
  <2>3. CASE copy'[d] \in Ended
    BY <2>3 DEF Contiguous, Whole, Ended
  <2> QED BY <2>2, <2>3
<1> QED BY <1>4, <1>5, <1>6 DEF Stream

LEMMA FewerSelf ==
  ASSUME Shape
  PROVE  \A x \in Ends : Fewer(toEnd[x], toEnd[x]) /\ Fewer(toFwd[x], toFwd[x])
<1> SUFFICES ASSUME NEW S, NEW q \in Seq(S) PROVE Fewer(q, q)
  BY DEF Shape, Types
<1> QED BY DEF Fewer

LEMMA FewerCut ==
  ASSUME NEW S, NEW q \in Seq(S)
  PROVE  Fewer(<<>>, q) /\ \A p \in Prefixes(q) : Fewer(p, q)
<1>1. ASSUME NEW p \in Prefixes(q) PROVE Fewer(p, q)
  BY Cut DEF Fewer
<1>2. Fewer(<<>>, q)
  BY Empty DEF Fewer
<1> QED BY <1>1, <1>2

-----------------------------------------------------------------------------
(* Each action keeps both streams.                                         *)

Streams == \A x \in Ends : Stream(x)
StreamsGrow == \A x \in Ends : Stream(x)' /\ Grew(x)

LEMMA StreamAsk == ASSUME Shape, Shape', Streams, Ask PROVE StreamsGrow
<1> SUFFICES ASSUME NEW x \in Ends PROVE Loses(x, Other(x))
  BY StreamLoses DEF Streams, StreamsGrow
<1>1. Refused' = Refused /\ Coming(x)' = Coming(x)
  BY DEF Ask, Refused, Coming
<1>2. peer'[x] # "refused" /\ (peer[x] = "refused" => peer'[x] = peer[x])
  BY DEF Ask, Shape, Types, Unborn, Ends
<1> QED BY <1>1, <1>2, FewerSelf, Others
        DEF Loses, Ask, net, Flowing, Shape, Types, Unborn, Ends

LEMMA StreamDial ==
  ASSUME Shape, Shape', Streams, Dial, ~Answer(503)
  PROVE  StreamsGrow
<1> SUFFICES ASSUME NEW x \in Ends PROVE Loses(x, Other(x))
  BY StreamLoses DEF Streams, StreamsGrow
<1>0. "server" \in Ends /\ "client" # "server" /\ Other(x) \in Ends
  BY Others DEF Ends
<1>1. Refused' = Refused /\ Coming(x)' = Coming(x)
  BY DEF Dial, Refused, Coming, Shape, Types, Unborn, Ends
<1>2. peer'[x] = "refused" <=> peer[x] = "refused"
  BY <1>0 DEF Dial, Shape, Types, Unborn
<1>3. Flowing(x)' => Flowing(x)
  BY <1>0 DEF Dial, Shape, Types, Unborn, net, Flowing
<1>4. conn[Other(x)] = "closed" => conn'[Other(x)] = "closed"
  <2>1. conn["server"] = "none" /\ conn \in [Ends -> {"none", "open", "closed"}]
    BY DEF Dial, Shape, Types, Unborn
  <2>2. conn' = [conn EXCEPT !["server"] = "open"]
    BY DEF Dial
  <2> HIDE DEF Shape, Dial
  <2> QED BY <1>0, <2>1, <2>2
<1> QED BY <1>0, <1>1, <1>2, <1>3, <1>4, FewerSelf
        DEF Loses, Dial, net, Shape, Types

\* The only item of a stream to the client that has not begun.
LEMMA StreamAnswer ==
  ASSUME Shape, Shape', Streams, NEW status \in {405, 503},
         handler \in {"refuse", "dial"}, Answer(status)
  PROVE  StreamsGrow
<1> USE DEF Answer, ends
<1>0. /\ "server" \in Ends /\ "client" \in Ends /\ "client" # "server"
      /\ Other("client") = "server" /\ Other("server") = "client"
      /\ conn["client"] = "none" /\ conn["server"] = "none" /\ ~Refused /\ Refused'
  BY Others DEF Ends, Shape, Unborn, Refused
<1>n. Nats /\ Nats'
  BY ShapeNats, ShapeNatsNext
<1>1. Stream("server")' /\ Grew("server")
  <2>1. Loses("server", "client")
    <3>1. toEnd'["server"] = toEnd["server"]
      BY <1>0 DEF Shape, Types
    <3>2. /\ Coming("server")' = Coming("server")
          /\ Flowing("server")' = Flowing("server")
      BY <1>0 DEF Coming, Flowing
    <3>3. sent' = sent /\ sent["client"] \in Nat
      BY <1>0, <1>n DEF Nats
    <3> QED BY <1>0, <3>1, <3>2, <3>3, FewerSelf DEF Loses
  <2> QED BY <1>0, <2>1, StreamLoses DEF Streams
<1>2. Arriving("client")' <= Arriving("client") /\ Total("client")' = Total("client")
  <2>1. Coming("client") = 1 /\ Coming("client")' = 0
    BY <1>0 DEF Coming
  <2>2. toEnd["client"] = <<>> /\ Len(toEnd'["client"]) \in {0, 1}
    BY <1>0, Appended DEF Shape, Types, Unanswered, Bytes, Statuses
  <2>3. OnTheWay("client") = 0 /\ OnTheWay("client")' \in {0, 1}
    BY <2>2 DEF OnTheWay
  <2>4. /\ HasRead("client")' = HasRead("client")
        /\ Unread("server")' = Unread("server")
        /\ InHand("client")' = InHand("client")
        /\ Total("client")' = Total("client")
    BY <1>0 DEF HasRead, Unread, InHand, Total, First
  <2>5. /\ HasRead("client") \in Nat /\ Unread("server") \in Nat
        /\ InHand("client") \in {0, 1}
    BY <1>0, <1>n DEF Nats
  <2> QED BY <1>0, <2>1, <2>3, <2>4, <2>5 DEF Arriving, Before, Written
<1>3. Stream("client")' /\ Grew("client")
  <2>1. Arriving("client")' <= Total("client")' /\ Grew("client")
    <3>1. /\ Arriving("client") <= Total("client")
          /\ Arriving("client") \in Nat /\ Arriving("client")' \in Nat
          /\ Total("client") \in Nat
      BY <1>0, <1>n DEF Streams, Stream, Nats
    <3> QED BY <1>2, <3>1 DEF Grew
  <2>2. InOrder("client")'
    BY <1>0 DEF InOrder, Streams, Stream
  <2>3. Contiguous("client")'
    BY <1>0, FewerSelf DEF Contiguous, Shape, Sizes, Unborn
  <2>4. Flowing("client")' => Whole("client")'
    <3>1. ASSUME Flowing("client")', ~broken["server"], copy["server"] \notin Ended
          PROVE  Arriving("client")' = Total("client")'
      <4>1. Flowing("client") /\ Whole("client")
        BY <1>0, <3>1 DEF Flowing, Streams, Stream
      <4>2. Arriving("client") = Total("client")
        BY <1>0, <3>1, <4>1 DEF Whole
      <4>3. OnTheWay("client")' = 1 /\ OnTheWay("client") = 0
        BY <1>0, <3>1, Appended
           DEF OnTheWay, Flowing, Shape, Types, Unanswered, Bytes, Statuses
      <4>4. Coming("client") = 1 /\ Coming("client")' = 0
        BY <1>0 DEF Coming
      <4>5. /\ HasRead("client")' = HasRead("client")
            /\ Unread("server")' = Unread("server")
            /\ InHand("client")' = InHand("client")
        BY <1>0 DEF HasRead, Unread, InHand
      <4>6. /\ HasRead("client") \in Nat /\ Unread("server") \in Nat
            /\ InHand("client") \in {0, 1}
        BY <1>0, <1>n DEF Nats
      <4> HIDE DEF Answer
      <4>7. Before("client")' = Before("client")
        BY <4>3, <4>4, <4>5, <4>6 DEF Before, Written
      <4> QED BY <1>0, <1>2, <4>2, <4>5, <4>7 DEF Arriving
    <3> QED BY <1>0, <3>1 DEF Whole
  <2> QED BY <2>1, <2>2, <2>3, <2>4 DEF Stream
<1> QED BY <1>0, <1>1, <1>3, Others DEF StreamsGrow, Ends

\* The 200 is the first item of the stream to the client.
LEMMA StreamHijack ==
  ASSUME Shape, Shape', Streams, Hijack
  PROVE  StreamsGrow
<1> USE DEF Hijack, ends
<1>0. /\ "server" \in Ends /\ "client" \in Ends /\ "client" # "server"
      /\ Other("client") = "server" /\ Other("server") = "client"
      /\ conn["client"] = "none" /\ conn'["client"] = "open"
      /\ ~Refused /\ ~Refused'
      /\ conn'["server"] = conn["server"] /\ sent' = sent /\ toFwd' = toFwd
      /\ got' = got /\ peer' = peer /\ broken' = broken /\ held' = held
      /\ copy["client"] = "none" /\ copy["server"] = "none"
      /\ copy'["client"] = "read" /\ copy'["server"] = "read"
      /\ sent["client"] \in Nat
  BY Others DEF Ends, Shape, Types, Sizes, Unborn, Refused
<1>n. Nats /\ Nats'
  BY ShapeNats, ShapeNatsNext
<1>1. Stream("server")' /\ Grew("server")
  <2>1. Loses("server", "client")
    <3>1. toEnd'["server"] = toEnd["server"]
      BY <1>0 DEF Shape, Types
    <3>2. /\ Coming("server")' = Coming("server")
          /\ Flowing("server")' = Flowing("server")
      BY <1>0 DEF Coming, Flowing
    <3> HIDE DEF Hijack
    <3> QED BY <1>0, <3>1, <3>2, FewerSelf DEF Loses, Ended
  <2> QED BY <1>0, <2>1, StreamLoses DEF Streams
<1>2. /\ Coming("client") = 1 /\ Coming("client")' = 0
      /\ HasRead("client")' = HasRead("client")
      /\ Unread("server")' = Unread("server")
      /\ InHand("client")' = 0 /\ InHand("client") = 0
      /\ Total("client")' = Total("client")
  BY <1>0 DEF Coming, HasRead, Unread, InHand, Total, First
<1>3. /\ OnTheWay("client") = 0 /\ OnTheWay("client")' \in {0, 1}
      /\ peer["client"] # "closed" => OnTheWay("client")' = 1
      /\ \A i \in 1 .. Len(toEnd'["client"]) : i = 1 /\ toEnd'["client"][i] = 200
  <2>1. toEnd["client"] = <<>>
    BY <1>0 DEF Shape, Unanswered
  <2>2. CASE peer["client"] = "closed"
    BY <2>1, <2>2 DEF OnTheWay
  <2>3. CASE peer["client"] # "closed"
    <3>1. /\ toEnd'["client"] = Append(toEnd["client"], 200)
          /\ toEnd["client"] \in Seq(Bytes) /\ 200 \in Bytes
      BY <1>0, <2>3 DEF Shape, Types, Bytes, Statuses
    <3>2. Len(toEnd'["client"]) = 1 /\ toEnd'["client"][1] = 200
      BY <2>1, <3>1, Appended
    <3> QED BY <2>1, <2>3, <3>2 DEF OnTheWay
  <2> QED BY <2>2, <2>3
<1>4. /\ Arriving("client")' <= Arriving("client")
      /\ peer["client"] # "closed" =>
           /\ Before("client")' = Before("client")
           /\ Arriving("client")' = Arriving("client")
  <2>1. HasRead("client") \in Nat /\ Unread("server") \in Nat
    BY <1>0, <1>n DEF Nats
  <2> QED BY <1>0, <1>2, <1>3, <2>1 DEF Arriving, Before, Written
<1>5. Stream("client")' /\ Grew("client")
  <2>1. Arriving("client")' <= Total("client")' /\ Grew("client")
    <3>1. /\ Arriving("client") <= Total("client")
          /\ Arriving("client") \in Nat /\ Arriving("client")' \in Nat
          /\ Total("client") \in Nat
      BY <1>0, <1>n DEF Streams, Stream, Nats
    <3> QED BY <1>2, <1>4, <3>1 DEF Grew
  <2>2. InOrder("client")'
    <3>1. peer["client"] # "refused" /\ got["client"] = <<>>
      BY <1>0 DEF Streams, Stream, InOrder, Shape, Unanswered
    <3>2. \A i \in 1 .. Len(toEnd'["client"]) :
            toEnd'["client"][i] = Item("client", Len(got["client"]) + i)
      BY <1>3, <3>1 DEF Item
    <3> QED BY <1>0, <3>1, <3>2 DEF InOrder
  <2>3. ASSUME Flowing("client")' PROVE Contiguous("client")' /\ Whole("client")'
    <3>1. /\ Contiguous("client") /\ Whole("client")
          /\ peer["client"] # "closed"
      BY <1>0, <2>3 DEF Flowing, Streams, Stream
    <3> HIDE DEF Hijack
    <3>2. Contiguous("client")'
      BY <1>0, <1>2, <1>4, <3>1 DEF Contiguous, Ended, First
    <3>3. Whole("client")'
      BY <1>0, <1>2, <1>4, <3>1 DEF Whole, Ended
    <3> QED BY <3>2, <3>3
  <2> QED BY <2>1, <2>2, <2>3 DEF Stream
<1> QED BY <1>0, <1>1, <1>5, Others DEF StreamsGrow, Ends

LEMMA StreamReadEnd ==
  ASSUME Shape, Shape', Streams, NEW e \in Ends, ReadEnd(e)
  PROVE  StreamsGrow
<1> SUFFICES ASSUME NEW x \in Ends PROVE Loses(x, Other(x))
  BY StreamLoses DEF Streams, StreamsGrow
<1> USE DEF ReadEnd, net
<1>0. Other(x) \in Ends /\ sent[Other(x)] \in Nat
  BY Others, ForwarderConstants DEF Shape, Types
<1>1. Coming(x)' = Coming(x) /\ Refused' = Refused
  BY DEF Coming, Refused
<1>2. /\ peer'[x] = "refused" <=> peer[x] = "refused"
      /\ Flowing(x)' => Flowing(x)
  <2>1. /\ peer \in [Ends -> {"none", "waiting", "open", "refused", "closed"}]
        /\ peer[e] \in {"waiting", "open"}
        /\ peer' = [peer EXCEPT ![e] = "closed"]
        /\ UNCHANGED <<conn, broken>>
    BY DEF Shape, Types
  <2> HIDE DEF ReadEnd
  <2> QED BY <2>1 DEF Flowing
<1> QED BY <1>0, <1>1, <1>2, FewerSelf DEF Loses

LEMMA StreamLeave ==
  ASSUME Shape, Shape', Streams, NEW e \in Ends, Leave(e)
  PROVE  StreamsGrow
<1> SUFFICES ASSUME NEW x \in Ends PROVE Loses(x, Other(x))
  BY StreamLoses DEF Streams, StreamsGrow
<1> USE DEF Leave
<1>0. Other(x) \in Ends /\ sent[Other(x)] \in Nat
  BY Others, ForwarderConstants DEF Shape, Types
<1>1. Coming(x)' = Coming(x) /\ Refused' = Refused
  BY DEF Coming, Refused
<1>2. /\ peer'[x] = "refused" <=> peer[x] = "refused"
      /\ x = e => ~Flowing(x)'
  BY DEF Shape, Types, Flowing
<1>3. CASE toEnd[e] = <<>>
  <2>1. Flowing(x)' => Flowing(x)
    BY <1>3 DEF Flowing, Shape, Types, net
  <2> QED BY <1>0, <1>1, <1>2, <1>3, <2>1, FewerSelf DEF Loses, net
<1>4. ASSUME NEW q \in Prefixes(toFwd[e]),
             broken' = [broken EXCEPT ![e] = TRUE],
             toEnd' = [toEnd EXCEPT ![e] = <<>>],
             toFwd' = [toFwd EXCEPT ![e] = q]
      PROVE  Loses(x, Other(x))
  <2>1. Flowing(x)' => Flowing(x)
    BY <1>4 DEF Flowing, Shape, Types
  <2>2. Fewer(q, toFwd[e]) /\ Fewer(<<>>, toEnd[e])
    BY FewerCut DEF Shape, Types
  <2>3. /\ Fewer(toEnd'[x], toEnd[x])
        /\ toEnd'[x] = toEnd[x] \/ ~Flowing(x)'
    BY <1>2, <1>4, <2>2, FewerSelf DEF Shape, Types
  <2>4. /\ Fewer(toFwd'[Other(x)], toFwd[Other(x)])
        /\ \/ toFwd'[Other(x)] = toFwd[Other(x)]
           \/ broken'[Other(x)]
        /\ broken[Other(x)] => broken'[Other(x)]
    BY <1>0, <1>4, <2>2, FewerSelf DEF Shape, Types
  <2> QED BY <1>0, <1>1, <1>2, <2>1, <2>3, <2>4 DEF Loses
<1> QED BY <1>3, <1>4

LEMMA StreamClose ==
  ASSUME Shape, Shape', Streams, NEW y \in Ends, NEW e \in Ends, Close(y),
         copy[e] \in {"source", "destination"},
         NEW l \in {"destination", "done"}, copy' = [copy EXCEPT ![e] = l],
         handler' \in {handler, "returned"}, UNCHANGED <<held, ends>>
  PROVE  StreamsGrow
<1> SUFFICES ASSUME NEW x \in Ends PROVE Loses(x, Other(x))
  BY StreamLoses DEF Streams, StreamsGrow
<1>0. Other(x) \in Ends /\ sent[Other(x)] \in Nat
  BY Others, ShapeNats DEF Nats
<1> USE DEF Close, ends
<1>1. Coming(x)' = Coming(x) /\ Refused' = Refused
  <2>1. conn["client"] # "none" /\ conn'["client"] # "none"
    <3>1. copy \in [Ends -> Copying] /\ copy[e] # "none" /\ copy'[e] # "none"
      BY DEF Shape, Types
    <3> QED BY <3>1 DEF Shape, Sizes
  <2> QED BY <2>1 DEF Coming, Refused
<1>2. /\ x = y => ~Flowing(x)'
      /\ conn[Other(x)] = "closed" => conn'[Other(x)] = "closed"
      /\ y = Other(x) => conn'[Other(x)] = "closed"
  BY <1>0 DEF Shape, Types, Flowing
<1>3. /\ copy'[Other(x)] = "write" => copy[Other(x)] = "write"
      /\ copy[Other(x)] = "write" => copy'[Other(x)] = "write"
      /\ copy[Other(x)] \in Ended => copy'[Other(x)] \in Ended
  BY <1>0 DEF Shape, Types, Ended
<1>4. CASE UNCHANGED net
  <2>1. Flowing(x)' => Flowing(x)
    BY <1>4 DEF Flowing, Shape, Types, net
  <2> QED BY <1>0, <1>1, <1>2, <1>3, <1>4, <2>1, FewerSelf DEF Loses, net
<1>5. ASSUME NEW q \in Prefixes(toEnd[y]),
             broken' = [broken EXCEPT ![y] = TRUE],
             toFwd' = [toFwd EXCEPT ![y] = <<>>],
             toEnd' = [toEnd EXCEPT ![y] = q]
      PROVE  Loses(x, Other(x))
  <2>1. Flowing(x)' => Flowing(x)
    BY <1>5 DEF Flowing, Shape, Types
  <2>2. Fewer(q, toEnd[y]) /\ Fewer(<<>>, toFwd[y])
    BY FewerCut DEF Shape, Types
  <2>3. /\ Fewer(toEnd'[x], toEnd[x])
        /\ toEnd'[x] = toEnd[x] \/ ~Flowing(x)'
    BY <1>2, <1>5, <2>2, FewerSelf DEF Shape, Types
  <2>4. /\ Fewer(toFwd'[Other(x)], toFwd[Other(x)])
        /\ \/ toFwd'[Other(x)] = toFwd[Other(x)]
           \/ broken'[Other(x)]
        /\ broken[Other(x)] => broken'[Other(x)]
    BY <1>0, <1>5, <2>2, FewerSelf DEF Shape, Types
  <2> QED BY <1>0, <1>1, <1>2, <1>3, <2>1, <2>3, <2>4 DEF Loses
<1> QED BY <1>4, <1>5

\* A step that takes nothing from a stream and adds nothing to it.
LEMMA StreamKept ==
  ASSUME Shape, Shape', NEW x \in Ends, Stream(x),
         UNCHANGED <<handler, conn, peer, broken>>,
         got'[x] = got[x], toEnd'[x] = toEnd[x],
         copy'[Other(x)] = copy[Other(x)], held'[Other(x)] = held[Other(x)],
         toFwd'[Other(x)] = toFwd[Other(x)], sent'[Other(x)] = sent[Other(x)]
  PROVE  Stream(x)' /\ Grew(x)
<1>0. Other(x) \in Ends /\ sent[Other(x)] \in Nat
  BY Others, ForwarderConstants DEF Shape, Types
<1>1. Coming(x)' = Coming(x) /\ Refused' = Refused /\ Flowing(x)' = Flowing(x)
  BY DEF Coming, Refused, Flowing
<1>2. Loses(x, Other(x))
  BY <1>0, <1>1, FewerSelf DEF Loses, Ended
<1> QED BY <1>2, StreamLoses

LEMMA StreamSend ==
  ASSUME Shape, Shape', Streams, NEW e \in Ends, Send(e)
  PROVE  StreamsGrow
<1> DEFINE d == Other(e)
<1>0. d \in Ends /\ d # e /\ Other(d) = e /\ \A x \in Ends : x = e \/ x = d
  BY Others
<1>n. Nats /\ Nats'
  BY ShapeNats, ShapeNatsNext
<1> HIDE DEF d
<1>s. sent' = [sent EXCEPT ![e] = @ + 1] /\ UNCHANGED <<handler, copy, held, peer, got, conn>>
  BY DEF Send
<1>t. sent'[e] = sent[e] + 1 /\ sent'[d] = sent[d] /\ sent[e] \in Nat /\ sent[d] \in Nat
  BY <1>0, <1>s, <1>n DEF Nats, Shape, Types
<1>c. \A x \in Ends : Coming(x)' = Coming(x) /\ InHand(x)' = InHand(x)
                      /\ HasRead(x)' = HasRead(x)
  BY <1>s DEF Coming, InHand, HasRead, Refused
<1>1. CASE /\ conn[e] = "open"
           /\ toFwd' = [toFwd EXCEPT ![e] = Append(@, sent[e] + 1)]
           /\ UNCHANGED <<broken, toEnd>>
  <2>1. toFwd'[d] = toFwd[d] /\ toFwd'[e] = Append(toFwd[e], sent[e] + 1)
    BY <1>0, <1>1 DEF Shape, Types
  <2>2. Stream(e)' /\ Grew(e)
    <3>1. Other(e) = d
      BY DEF d
    <3> QED BY <1>0, <1>1, <1>s, <1>t, <2>1, <3>1, StreamKept DEF Streams
  <2>3. /\ Unread(e)' = Unread(e) + 1 /\ toFwd'[e][Unread(e) + 1] = sent[e] + 1
        /\ \A i \in 1 .. Unread(e) : toFwd'[e][i] = toFwd[e][i]
    <3>1. sent[e] + 1 \in Chunks /\ toFwd[e] \in Seq(Chunks)
      BY <1>t, <1>s, ForwarderConstants DEF Shape, Types, Send, Chunks
    <3> QED BY <2>1, <3>1, Appended DEF Unread
  <2>4. /\ Before(d)' = Before(d) /\ Arriving(d)' = Arriving(d) + 1
        /\ Total(d)' = Total(d) + 1
    <3>1. Before(d)' = Before(d)
      BY <1>0, <1>1, <1>c DEF Before, Written, OnTheWay
    <3>2. Arriving(d)' = Arriving(d) + 1
      BY <1>0, <1>n, <2>3, <3>1 DEF Arriving, Nats
    <3>3. Total(d)' = Total(d) + 1
      <4>1. First(d) \in {0, 1} /\ First(d)' = First(d)
        BY DEF First
      <4> QED BY <1>0, <1>t, <4>1 DEF Total
    <3> QED BY <3>1, <3>2, <3>3
  <2>5. Stream(d)' /\ Grew(d)
    <3>n. /\ Arriving(d) \in Nat /\ Total(d) \in Nat /\ Arriving(d) <= Total(d)
          /\ Before(d) \in Nat /\ Unread(e) \in Nat /\ First(d) \in {0, 1}
      BY <1>0, <1>n DEF Nats, Streams, Stream
    <3>1. Grew(d) /\ Arriving(d)' <= Total(d)'
      BY <2>4, <3>n DEF Grew
    <3>2. InOrder(d)'
      <4>1. InOrder(d) /\ Refused' = Refused
        BY <1>0, <1>s DEF Streams, Stream, Refused
      <4> QED BY <1>s, <1>1, <4>1 DEF InOrder
    <3>3. ASSUME Flowing(d)' PROVE Contiguous(d)' /\ Whole(d)'
      <4>1. Contiguous(d) /\ Whole(d)
        BY <1>0, <1>s, <1>1, <3>3 DEF Flowing, Streams, Stream
      <4>2. Whole(d)'
        BY <1>0, <1>s, <1>1, <2>4, <4>1 DEF Whole
      <4>3. ASSUME copy[e] \notin Ended
            PROVE  \A i \in 1 .. Unread(e)' :
                     toFwd'[e][i] + First(d) = Before(d)' + i
        <5>1. ~broken[e]
          BY DEF Send
        <5>2. Before(d) + Unread(e) = First(d) + sent[e]
          BY <1>0, <1>1, <4>1, <4>3, <5>1 DEF Whole, Arriving, Total
        <5>3. \A i \in 1 .. Unread(e) : toFwd[e][i] + First(d) = Before(d) + i
          BY <1>0, <4>1, <4>3 DEF Contiguous, Unread
        <5>4. toFwd'[e][Unread(e) + 1] + First(d) = Before(d) + (Unread(e) + 1)
          BY <1>t, <2>3, <3>n, <5>2
        <5>5. \A i \in 1 .. Unread(e)' : i \in 1 .. Unread(e) \/ i = Unread(e) + 1
          BY <2>3, <3>n
        <5> QED BY <2>3, <2>4, <5>3, <5>4, <5>5
      <4>4. Contiguous(d)'
        <5>1. First(d)' = First(d)
          BY DEF First
        <5> QED BY <1>0, <1>s, <2>4, <4>1, <4>3, <5>1 DEF Contiguous, Unread
      <4> QED BY <4>2, <4>4
    <3> QED BY <3>1, <3>2, <3>3 DEF Stream
  <2> QED BY <1>0, <2>2, <2>5 DEF StreamsGrow
<1>2. ASSUME NEW q \in Prefixes(toEnd[e]),
             conn[e] = "closed",
             broken' = [broken EXCEPT ![e] = TRUE],
             toEnd' = [toEnd EXCEPT ![e] = q], UNCHANGED toFwd
      PROVE  StreamsGrow
  <2> SUFFICES ASSUME NEW x \in Ends PROVE Loses(x, Other(x))
    BY StreamLoses DEF Streams, StreamsGrow
  <2>1. Coming(x)' = Coming(x) /\ Refused' = Refused /\ Other(x) \in Ends
    BY <1>0, <1>s, Others DEF Coming, Refused
  <2>2. /\ Flowing(x)' => Flowing(x)
        /\ x = e => ~Flowing(x)'
    BY <1>2, <1>s DEF Flowing, Shape, Types
  <2>3. /\ Fewer(toEnd'[x], toEnd[x])
        /\ toEnd'[x] = toEnd[x] \/ ~Flowing(x)'
    BY <1>2, <2>2, FewerSelf, FewerCut DEF Shape, Types
  <2>4. /\ sent'[Other(x)] = sent[Other(x)] \/ broken'[Other(x)]
        /\ broken[Other(x)] => broken'[Other(x)]
        /\ sent'[Other(x)] >= sent[Other(x)]
    <3>1. broken \in [Ends -> BOOLEAN]
      BY DEF Shape, Types
    <3>2. Other(x) = e \/ Other(x) = d
      BY <1>0, <2>1
    <3> QED BY <1>0, <1>2, <1>t, <2>1, <3>1, <3>2
  <2> QED BY <1>s, <1>2, <2>1, <2>2, <2>3, <2>4, FewerSelf DEF Loses
<1>3. \/ /\ conn[e] = "open"
         /\ toFwd' = [toFwd EXCEPT ![e] = Append(@, sent[e] + 1)]
         /\ UNCHANGED <<broken, toEnd>>
      \/ \E q \in Prefixes(toEnd[e]) :
           /\ conn[e] = "closed"
           /\ broken' = [broken EXCEPT ![e] = TRUE]
           /\ toEnd' = [toEnd EXCEPT ![e] = q]
           /\ UNCHANGED toFwd
  BY DEF Send
<1> QED BY <1>1, <1>2, <1>3

LEMMA StreamReceive ==
  ASSUME Shape, Shape', Streams, NEW e \in Ends, Receive(e)
  PROVE  StreamsGrow
<1> DEFINE d == Other(e)
<1>0. d \in Ends /\ d # e /\ Other(d) = e /\ Other(e) = d
      /\ \A x \in Ends : x = e \/ x = d
  BY Others
<1>n. Nats /\ Nats'
  BY ShapeNats, ShapeNatsNext
<1> HIDE DEF d
<1>s. /\ UNCHANGED <<handler, conn, broken, toFwd, copy, held, sent>>
      /\ peer[e] \in {"waiting", "open"} /\ toEnd[e] # <<>>
      /\ toEnd[e] \in Seq(Bytes) /\ got[e] \in Seq(Bytes)
      /\ got'[e] = Append(got[e], Head(toEnd[e]))
      /\ toEnd'[e] = Tail(toEnd[e])
      /\ peer'[e] = IF peer[e] = "open" \/ Head(toEnd[e]) = 200
                      THEN "open" ELSE "refused"
      /\ toEnd'[d] = toEnd[d] /\ got'[d] = got[d] /\ peer'[d] = peer[d]
      /\ Flowing(e)' = Flowing(e) /\ Flowing(d)' = Flowing(d)
  <2>1. /\ toEnd \in [Ends -> Seq(Bytes)] /\ got \in [Ends -> Seq(Bytes)]
        /\ peer \in [Ends -> {"none", "waiting", "open", "refused", "closed"}]
    BY DEF Shape, Types
  <2> QED BY <1>0, <2>1 DEF Receive, Flowing
<1>1. Refused' = Refused /\ \A x \in Ends : Coming(x)' = Coming(x)
  BY <1>s DEF Coming, Refused
<1>2. Stream(d)' /\ Grew(d)
  <2>1. sent[e] \in Nat
    BY <1>n DEF Nats
  <2> HIDE DEF Receive
  <2>2. Loses(d, e)
    BY <1>0, <1>s, <1>1, <2>1, FewerSelf DEF Loses
  <2> QED BY <1>0, <2>2, StreamLoses DEF Streams
<1>3. /\ HasRead(e)' = HasRead(e) + 1 /\ OnTheWay(e)' = OnTheWay(e) - 1
      /\ got'[e][HasRead(e) + 1] = toEnd[e][1]
      /\ \A i \in 1 .. HasRead(e) : got'[e][i] = got[e][i]
      /\ OnTheWay(e) >= 1
      /\ \A i \in 1 .. OnTheWay(e) - 1 : toEnd'[e][i] = toEnd[e][i + 1]
  <2>1. /\ Head(toEnd[e]) \in Bytes /\ Head(toEnd[e]) = toEnd[e][1]
        /\ Len(toEnd'[e]) = Len(toEnd[e]) - 1 /\ Len(toEnd[e]) >= 1
        /\ \A i \in 1 .. Len(toEnd[e]) - 1 : toEnd'[e][i] = toEnd[e][i + 1]
    BY <1>s, Taken
  <2>2. /\ Len(got'[e]) = Len(got[e]) + 1
        /\ \A i \in 1 .. Len(got[e]) : got'[e][i] = got[e][i]
        /\ got'[e][Len(got[e]) + 1] = toEnd[e][1]
    BY <1>s, <2>1, Appended
  <2> QED BY <2>1, <2>2 DEF HasRead, OnTheWay
<1>4. /\ Before(e)' = Before(e) /\ Arriving(e)' = Arriving(e)
      /\ Total(e)' = Total(e) /\ Arriving(e) <= Total(e)
  <2>1. Written(e)' = Written(e)
    BY <1>3, <1>n DEF Nats, Written
  <2>2. InHand(e)' = InHand(e) /\ Unread(d)' = Unread(d)
    BY <1>s DEF InHand, Unread
  <2> QED BY <1>0, <1>s, <1>1, <2>1, <2>2
          DEF Before, Arriving, Total, First, Streams, Stream
<1>5. InOrder(e)'
  <2>0. InOrder(e)
    BY DEF Streams, Stream
  <2>1. CASE e = "client" /\ Refused
    <3>1. /\ peer[e] = "waiting" /\ Head(toEnd[e]) # 200
      <4>1. peer["client"] # "open"
        BY <2>1 DEF Shape, Unborn, Refused
      <4>2. Head(toEnd[e]) = toEnd[e][1] /\ 1 \in 1 .. Len(toEnd[e])
        BY <1>s, Taken
      <4>3. \A i \in 1 .. Len(toEnd["client"]) : toEnd["client"][i] # 200
        BY <2>1 DEF Shape, Unanswered
      <4> QED BY <1>s, <2>1, <4>1, <4>2, <4>3
    <3> QED BY <1>s, <1>1, <2>1, <3>1 DEF InOrder
  <2>2. CASE ~(e = "client" /\ Refused)
    <3>1. \A i \in 1 .. OnTheWay(e) : toEnd[e][i] = Item(e, HasRead(e) + i)
      BY <2>0, <2>2 DEF InOrder, OnTheWay, HasRead
    <3>2. \A i \in 1 .. HasRead(e) : got[e][i] = Item(e, i)
      BY <1>s, <2>0 DEF InOrder, HasRead
    <3>3. toEnd[e][1] = Item(e, HasRead(e) + 1)
      BY <1>3, <1>n, <3>1 DEF Nats
    <3>4. \A i \in 1 .. HasRead(e)' : got'[e][i] = Item(e, i)
      BY <1>3, <1>n, <3>2, <3>3 DEF Nats
    <3>5. \A i \in 1 .. OnTheWay(e)' : toEnd'[e][i] = Item(e, HasRead(e)' + i)
      <4>1. ASSUME NEW i \in 1 .. OnTheWay(e)'
            PROVE  toEnd'[e][i] = Item(e, HasRead(e)' + i)
        <5>1. OnTheWay(e) \in Nat /\ HasRead(e) \in Nat
          BY <1>n DEF Nats
        <5>2. i \in 1 .. OnTheWay(e) - 1 /\ i + 1 \in 1 .. OnTheWay(e)
          BY <1>3, <5>1
        <5>3. toEnd[e][i + 1] = Item(e, HasRead(e) + (i + 1))
          BY <3>1, <5>2
        <5>4. HasRead(e) + (i + 1) = HasRead(e)' + i
          BY <1>3, <5>1
        <5> QED BY <1>3, <5>2, <5>3, <5>4
      <4> QED BY <4>1
    <3>6. peer'[e] # "refused"
      <4>1. CASE peer[e] = "open"
        BY <1>s, <4>1
      <4>2. CASE peer[e] = "waiting"
        <5>1. e = "client"
          BY <4>2 DEF Shape, Unborn, Ends
        <5>2. got[e] = <<>>
          BY <4>2, <5>1 DEF Shape, Unanswered
        <5>3. HasRead(e) = 0 /\ Head(toEnd[e]) = toEnd[e][1]
          BY <1>s, <5>2, Taken DEF HasRead
        <5> QED BY <1>s, <3>3, <5>1, <5>3 DEF Item
      <4> QED BY <1>s, <4>1, <4>2
    <3> QED BY <2>2, <1>1, <3>4, <3>5, <3>6 DEF InOrder, HasRead, OnTheWay
  <2> QED BY <2>1, <2>2
<1>6. ASSUME Flowing(e)' PROVE Contiguous(e)' /\ Whole(e)'
  <2>1. Contiguous(e) /\ Whole(e)
    BY <1>s, <1>6 DEF Streams, Stream
  <2> QED BY <1>0, <1>s, <1>4, <2>1 DEF Contiguous, Whole, First
<1>7. Stream(e)' /\ Grew(e)
  <2>1. Total(e) \in Nat /\ Arriving(e) \in Nat
    BY <1>n DEF Nats
  <2> QED BY <1>4, <1>5, <1>6, <2>1 DEF Stream, Grew
<1> QED BY <1>0, <1>2, <1>7 DEF StreamsGrow

LEMMA StreamReadChunk ==
  ASSUME Shape, Shape', Streams, NEW e \in Ends, ReadChunk(e)
  PROVE  StreamsGrow
<1> DEFINE d == Other(e)
<1>0. d \in Ends /\ d # e /\ Other(d) = e /\ Other(e) = d
      /\ \A x \in Ends : x = e \/ x = d
  BY Others
<1>n. Nats /\ Nats'
  BY ShapeNats, ShapeNatsNext
<1> HIDE DEF d
<1>s. /\ UNCHANGED <<handler, conn, broken, toEnd, peer, sent, got>>
      /\ copy[e] = "read"
      /\ toFwd[e] \in Seq(Chunks)
      /\ \A x \in Ends : Coming(x)' = Coming(x) /\ Flowing(x)' = Flowing(x)
      /\ Refused' = Refused
      /\ copy'[d] = copy[d] /\ held'[d] = held[d] /\ toFwd'[d] = toFwd[d]
  <2>1. /\ copy \in [Ends -> Copying] /\ toFwd \in [Ends -> Seq(Chunks)]
        /\ held \in [Ends -> Chunks \cup {NoChunk}]
    BY DEF Shape, Types
  <2> QED BY <1>0, <2>1 DEF ReadChunk, ends, Coming, Flowing, Refused
<1>1. CASE /\ conn[e] = "open" /\ toFwd[e] # <<>>
           /\ held'[e] = Head(toFwd[e]) /\ toFwd'[e] = Tail(toFwd[e])
           /\ copy'[e] = "write"
  <2>1. Stream(e)' /\ Grew(e)
    BY <1>0, <1>s, <1>1, StreamKept DEF Streams
  <2>2. /\ Unread(e)' = Unread(e) - 1 /\ Unread(e) >= 1
        /\ held'[e] = toFwd[e][1]
        /\ \A i \in 1 .. Unread(e) - 1 : toFwd'[e][i] = toFwd[e][i + 1]
    BY <1>s, <1>1, Taken DEF Unread
  <2>3. /\ Before(d)' = Before(d) + 1 /\ Arriving(d)' = Arriving(d)
        /\ Total(d)' = Total(d) /\ First(d)' = First(d)
    <3>1. InHand(d) = 0 /\ InHand(d)' = 1
      BY <1>0, <1>s, <1>1 DEF InHand
    <3>2. Written(d)' = Written(d) /\ Total(d)' = Total(d) /\ First(d)' = First(d)
      BY <1>0, <1>s DEF Written, HasRead, OnTheWay, Total, First
    <3>3. Written(d) \in Nat /\ Coming(d) \in {0, 1} /\ Unread(e) \in Nat
      BY <1>0, <1>n DEF Nats
    <3> QED BY <1>0, <1>s, <2>2, <3>1, <3>2, <3>3 DEF Before, Arriving
  <2>4. Stream(d)' /\ Grew(d)
    <3>1. /\ Arriving(d) \in Nat /\ Total(d) \in Nat /\ Arriving(d) <= Total(d)
          /\ Before(d) \in Nat /\ Unread(e) \in Nat
      BY <1>0, <1>n DEF Nats, Streams, Stream
    <3>2. Grew(d) /\ Arriving(d)' <= Total(d)'
      BY <2>3, <3>1 DEF Grew
    <3>3. InOrder(d)'
      BY <1>0, <1>s DEF Streams, Stream, InOrder
    <3>4. ASSUME Flowing(d)' PROVE Contiguous(d)' /\ Whole(d)'
      <4>1. Contiguous(d) /\ Whole(d)
        BY <1>0, <1>s, <3>4 DEF Streams, Stream
      <4>2. \A i \in 1 .. Unread(e) : toFwd[e][i] + First(d) = Before(d) + i
        BY <1>0, <1>s, <4>1 DEF Contiguous, Unread, Ended
      <4>3. held'[e] + First(d)' = Before(d)'
        BY <2>2, <2>3, <3>1, <4>2
      <4>4. ASSUME NEW i \in 1 .. Unread(e)'
            PROVE  toFwd'[e][i] + First(d)' = Before(d)' + i
        <5>1. i \in 1 .. Unread(e) - 1 /\ i + 1 \in 1 .. Unread(e)
          BY <2>2, <3>1
        <5>2. toFwd[e][i + 1] + First(d) = Before(d) + (i + 1)
          BY <4>2, <5>1
        <5> QED BY <2>2, <2>3, <3>1, <5>1, <5>2
      <4>5. Contiguous(d)'
        BY <1>0, <4>3, <4>4 DEF Contiguous, Unread
      <4>6. Whole(d)'
        BY <1>0, <1>s, <2>3, <4>1 DEF Whole, Ended
      <4> QED BY <4>5, <4>6
    <3> QED BY <3>2, <3>3, <3>4 DEF Stream
  <2> QED BY <1>0, <2>1, <2>4 DEF StreamsGrow
<1>2. CASE copy'[e] = "source" /\ UNCHANGED <<held, toFwd>>
  <2> SUFFICES ASSUME NEW x \in Ends PROVE Loses(x, Other(x))
    BY StreamLoses DEF Streams, StreamsGrow
  <2>1. Other(x) \in Ends /\ sent[Other(x)] \in Nat
    BY <1>n, Others DEF Nats
  <2>2. /\ copy'[Other(x)] = copy[Other(x)]
           \/ (copy[Other(x)] = "read" /\ copy'[Other(x)] = "source")
        /\ UNCHANGED <<held, toFwd>>
    BY <1>0, <1>s, <1>2, <2>1
  <2> HIDE DEF ReadChunk
  <2> QED BY <1>s, <2>1, <2>2, FewerSelf DEF Loses, Ended
<1>3. \/ /\ conn[e] = "open" /\ toFwd[e] # <<>>
         /\ held'[e] = Head(toFwd[e]) /\ toFwd'[e] = Tail(toFwd[e])
         /\ copy'[e] = "write"
      \/ copy'[e] = "source" /\ UNCHANGED <<held, toFwd>>
  <2>1. /\ copy \in [Ends -> Copying] /\ toFwd \in [Ends -> Seq(Chunks)]
        /\ held \in [Ends -> Chunks \cup {NoChunk}]
    BY DEF Shape, Types
  <2> QED BY <2>1 DEF ReadChunk
<1> QED BY <1>1, <1>2, <1>3

LEMMA StreamWriteChunk ==
  ASSUME Shape, Shape', Streams, NEW e \in Ends, WriteChunk(e)
  PROVE  StreamsGrow
<1> DEFINE d == Other(e)
<1>0. d \in Ends /\ d # e /\ Other(d) = e /\ Other(e) = d
      /\ \A x \in Ends : x = e \/ x = d
  BY Others
<1>n. Nats /\ Nats'
  BY ShapeNats, ShapeNatsNext
<1>k. \/ /\ copy'[e] = "source" /\ UNCHANGED net
      \/ /\ conn[d] = "open" /\ ~broken[d] /\ peer[d] # "closed"
         /\ copy'[e] = "read" /\ toEnd'[d] = Append(toEnd[d], held[e])
         /\ toEnd'[e] = toEnd[e] /\ UNCHANGED <<broken, toFwd>>
      \/ /\ peer[d] = "closed" /\ copy'[e] = "read"
         /\ broken' = [broken EXCEPT ![d] = TRUE]
         /\ UNCHANGED toEnd
         /\ \E q \in Prefixes(toFwd[d]) : toFwd' = [toFwd EXCEPT ![d] = q]
  <2>1. copy \in [Ends -> Copying] /\ toEnd \in [Ends -> Seq(Bytes)]
    BY DEF Shape, Types
  <2> QED BY <1>0, <2>1 DEF WriteChunk
<1>s. /\ UNCHANGED <<handler, conn, peer, sent, got>>
      /\ copy[e] = "write" /\ held[e] \in Chunks
      /\ copy'[d] = copy[d] /\ held'[d] = held[d]
      /\ \A x \in Ends : Coming(x)' = Coming(x) /\ Coming(x) = 0
      /\ Refused' = Refused /\ ~Refused
  <2>1. /\ copy \in [Ends -> Copying] /\ copy[e] = "write"
        /\ held \in [Ends -> Chunks \cup {NoChunk}]
        /\ conn["client"] # "none" /\ held[e] \in Chunks
    BY DEF Shape, Types, Sizes, WriteChunk
  <2> QED BY <1>0, <2>1 DEF WriteChunk, ends, Coming, Refused
<1> HIDE DEF d
<1>1. CASE copy'[e] = "source" /\ UNCHANGED net
  <2> SUFFICES ASSUME NEW x \in Ends PROVE Loses(x, Other(x))
    BY StreamLoses DEF Streams, StreamsGrow
  <2>1. /\ Other(x) \in Ends /\ sent[Other(x)] \in Nat
        /\ Flowing(x)' = Flowing(x)
    BY <1>n, <1>s, <1>1, Others DEF Nats, net, Flowing
  <2>2. \/ copy'[Other(x)] = copy[Other(x)] /\ held'[Other(x)] = held[Other(x)]
        \/ copy[Other(x)] = "write" /\ copy'[Other(x)] = "source"
    BY <1>0, <1>s, <1>1, <2>1
  <2> QED BY <1>s, <1>1, <2>1, <2>2, FewerSelf DEF Loses, Ended, net
<1>2. CASE /\ conn[d] = "open" /\ ~broken[d] /\ peer[d] # "closed"
           /\ copy'[e] = "read" /\ toEnd'[d] = Append(toEnd[d], held[e])
           /\ toEnd'[e] = toEnd[e] /\ UNCHANGED <<broken, toFwd>>
  <2>1. Stream(e)' /\ Grew(e)
    BY <1>0, <1>s, <1>2, StreamKept DEF Streams
  <2>2. /\ OnTheWay(d)' = OnTheWay(d) + 1
        /\ toEnd'[d][OnTheWay(d) + 1] = held[e]
        /\ \A i \in 1 .. OnTheWay(d) : toEnd'[d][i] = toEnd[d][i]
    <3>1. toEnd[d] \in Seq(Bytes) /\ held[e] \in Bytes
      BY <1>0, <1>s DEF Shape, Types, Bytes
    <3> QED BY <1>2, <3>1, Appended DEF OnTheWay
  <2>3. /\ HasRead(d) \in Nat /\ OnTheWay(d) \in Nat /\ Unread(e) \in Nat
        /\ HasRead(d)' = HasRead(d) /\ Unread(e)' = Unread(e)
        /\ First(d) \in {0, 1} /\ First(d)' = First(d)
        /\ Total(d)' = Total(d) /\ Total(d) \in Nat
        /\ InHand(d) = 1 /\ InHand(d)' = 0
        /\ Coming(d) = 0 /\ Coming(d)' = 0
    <3>1. /\ HasRead(d) \in Nat /\ OnTheWay(d) \in Nat /\ Unread(e) \in Nat
          /\ First(d) \in {0, 1} /\ Total(d) \in Nat
      BY <1>0, <1>n DEF Nats
    <3>2. HasRead(d)' = HasRead(d) /\ Unread(e)' = Unread(e)
      BY <1>s, <1>2 DEF HasRead, Unread
    <3>3. First(d)' = First(d) /\ Total(d)' = Total(d)
      BY <1>s DEF First, Total
    <3>4. InHand(d) = 1 /\ InHand(d)' = 0
      BY <1>0, <1>s, <1>2 DEF InHand
    <3> QED BY <1>0, <1>s, <3>1, <3>2, <3>3, <3>4
  <2>4. /\ Before(d)' = Before(d) /\ Arriving(d)' = Arriving(d)
        /\ Before(d) = HasRead(d) + OnTheWay(d) + 1
        /\ Before(d) \in Nat /\ Arriving(d) \in Nat
    BY <1>0, <2>2, <2>3 DEF Before, Written, Arriving
  <2>5. Stream(d)' /\ Grew(d)
    <3>0. Stream(d) /\ Flowing(d) /\ Flowing(d)'
      BY <1>0, <1>s, <1>2 DEF Streams, Flowing
    <3>1. Arriving(d)' <= Total(d)' /\ Grew(d)
      BY <2>3, <2>4, <3>0 DEF Stream, Grew
    <3>2. held[e] + First(d) = Before(d)
      BY <1>0, <1>s, <3>0 DEF Stream, Contiguous
    <3>3. held[e] = Item(d, HasRead(d) + (OnTheWay(d) + 1))
      <4>1. held[e] \in Nat /\ held[e] >= 1
        BY <1>s, ForwarderConstants DEF Chunks
      <4>2. \/ d = "client" /\ First(d) = 1
            \/ d # "client" /\ First(d) = 0
        BY DEF First
      <4> HIDE DEF WriteChunk
      <4>3. held[e] + First(d) = HasRead(d) + OnTheWay(d) + 1
        BY <2>4, <3>2
      <4> QED BY <2>3, <4>1, <4>2, <4>3 DEF Item
    <3>4. InOrder(d)'
      <4>1. InOrder(d)
        BY <3>0 DEF Stream
      <4>2. \A i \in 1 .. OnTheWay(d) : toEnd[d][i] = Item(d, HasRead(d) + i)
        BY <1>s, <4>1 DEF InOrder, OnTheWay, HasRead
      <4>3. \A i \in 1 .. OnTheWay(d)' : i \in 1 .. OnTheWay(d) \/ i = OnTheWay(d) + 1
        BY <2>2, <2>3
      <4>4. \A i \in 1 .. OnTheWay(d)' : toEnd'[d][i] = Item(d, HasRead(d)' + i)
        BY <2>2, <2>3, <3>3, <4>2, <4>3
      <4> QED BY <1>s, <4>1, <4>4 DEF InOrder, OnTheWay, HasRead
    <3>5. Contiguous(d)'
      BY <1>0, <1>s, <1>2, <2>3, <2>4, <3>0 DEF Stream, Contiguous, Ended
    <3>6. Whole(d)'
      BY <1>0, <1>s, <1>2, <2>3, <2>4, <3>0 DEF Stream, Whole, Ended
    <3> QED BY <3>1, <3>4, <3>5, <3>6 DEF Stream
  <2> QED BY <1>0, <2>1, <2>5 DEF StreamsGrow
<1>3. ASSUME peer[d] = "closed", copy'[e] = "read",
             broken' = [broken EXCEPT ![d] = TRUE],
             UNCHANGED toEnd,
             NEW q \in Prefixes(toFwd[d]),
             toFwd' = [toFwd EXCEPT ![d] = q]
      PROVE  StreamsGrow
  <2> SUFFICES ASSUME NEW x \in Ends PROVE Loses(x, Other(x))
    BY StreamLoses DEF Streams, StreamsGrow
  <2>1. /\ Other(x) \in Ends /\ sent[Other(x)] \in Nat
        /\ Flowing(x)' => Flowing(x)
        /\ x = d => ~Flowing(x)'
    BY <1>n, <1>s, <1>3, Others DEF Nats, Flowing, Shape, Types
  <2>2. \/ copy'[Other(x)] = copy[Other(x)] /\ held'[Other(x)] = held[Other(x)]
        \/ copy'[Other(x)] = "read" /\ copy[Other(x)] = "write" /\ x = d
    BY <1>0, <1>s, <1>3, <2>1
  <2>3. /\ Fewer(toFwd'[Other(x)], toFwd[Other(x)])
        /\ toFwd'[Other(x)] = toFwd[Other(x)] \/ broken'[Other(x)]
        /\ broken[Other(x)] => broken'[Other(x)]
    <3>1. Fewer(q, toFwd[d])
      BY <1>0, FewerCut DEF Shape, Types
    <3> QED BY <1>0, <1>3, <2>1, <3>1, FewerSelf DEF Shape, Types
  <2> HIDE DEF WriteChunk
  <2> QED BY <1>s, <1>3, <2>1, <2>2, <2>3, FewerSelf DEF Loses, Ended
<1> QED BY <1>k, <1>1, <1>2, <1>3

LEMMA StreamStep ==
  ASSUME Shape, Shape', Streams, Next
  PROVE  StreamsGrow
<1>1. CASE Ask \/ ServeHTTP
  BY <1>1, StreamAsk, StreamAnswer, StreamDial, StreamHijack
     DEF ServeHTTP, Refuse, Dial
<1>2. ASSUME NEW e \in Ends, Send(e) \/ Receive(e) \/ ReadEnd(e) \/ Leave(e)
      PROVE  StreamsGrow
  BY <1>2, StreamSend, StreamReceive, StreamReadEnd, StreamLeave
<1>3. ASSUME NEW e \in Ends, Transfer(e) PROVE StreamsGrow
  <2>1. CASE ReadChunk(e) \/ WriteChunk(e)
    BY <2>1, StreamReadChunk, StreamWriteChunk
  <2>2. CASE CloseSource(e)
    BY <2>2, StreamClose DEF CloseSource
  <2>3. CASE CloseDestination(e)
    BY <2>3, StreamClose, Others DEF CloseDestination
  <2> QED BY <1>3, <2>1, <2>2, <2>3 DEF Transfer
<1> QED BY <1>1, <1>2, <1>3 DEF Next

-----------------------------------------------------------------------------
(* Why copies end and connections are reset.                               *)

Ending == \E x \in Ends : copy[x] \in Ended
Lost(e) == Arriving(e) < Total(e)
Finished(e) == peer[Other(e)] = "closed" /\ Written(e) = Total(e)
Left(e) == peer[e] = "closed" /\ ~sawEnd[e]
Excused(e) == Lost(Other(e)) \/ Finished(e) \/ Left(e)

\* An end that has read to the end has read all that came.
Heard(e) ==
  sawEnd[e] => /\ toEnd[e] = <<>> /\ peer[e] = "closed"
               /\ conn[e] = "closed" \/ broken[e]

EndsWell ==
  /\ Ending => \A e \in Ends : Excused(e)
  /\ \A e \in Ends :
       /\ conn[e] = "closed" => Ending
       /\ broken[e] => Excused(e) /\ (Ending \/ Lost(e))
       /\ Heard(e)

LEMMA EndsWellInit == Init => EndsWell
BY DEF Init, EndsWell, Ending, Ended, Heard

\* What no step undoes.
Final(x) ==
  /\ peer[x] = "closed" =>
       peer'[x] = "closed" /\ sent'[x] = sent[x] /\ sawEnd'[x] = sawEnd[x]
  /\ copy[x] \in Ended => copy'[x] \in Ended
  /\ conn[x] = "closed" => conn'[x] = "closed"
  /\ broken[x] => broken'[x]

LEMMA FinalStep == ASSUME Shape, Next PROVE \A x \in Ends : Final(x)
<1> SUFFICES ASSUME NEW x \in Ends PROVE Final(x)
  OBVIOUS
<1>t. /\ peer \in [Ends -> {"none", "waiting", "open", "refused", "closed"}]
      /\ conn \in [Ends -> {"none", "open", "closed"}]
      /\ broken \in [Ends -> BOOLEAN] /\ copy \in [Ends -> Copying]
      /\ DOMAIN sent = Ends /\ DOMAIN sawEnd = Ends
  BY DEF Shape, Types
<1>u. /\ handler = "none" => peer["client"] = "none"
      /\ handler = "dial" => conn["server"] = "none" /\ peer["server"] = "none"
      /\ handler = "hijack" => conn["client"] = "none" /\ \A y \in Ends : copy[y] = "none"
  BY DEF Shape, Unborn, Sizes
<1>1. CASE Ask
  BY <1>1, <1>t, <1>u DEF Ask, net, Final
<1>2. ASSUME NEW status, Answer(status) PROVE Final(x)
  BY <1>2 DEF Answer, ends, Final
<1>3. CASE Dial /\ ~Answer(503)
  BY <1>3, <1>t, <1>u DEF Dial, net, Final
<1>4. CASE Hijack
  <2>1. conn["client"] = "none" /\ copy[x] = "none"
    BY <1>4, <1>u DEF Hijack
  <2> QED BY <1>4, <1>t, <2>1 DEF Hijack, ends, Final, Ended
<1>5. ASSUME NEW e \in Ends, Send(e) PROVE Final(x)
  BY <1>5, <1>t DEF Send, Final
<1>6. ASSUME NEW e \in Ends, Receive(e) PROVE Final(x)
  BY <1>6, <1>t DEF Receive, Final
<1>7. ASSUME NEW e \in Ends, ReadEnd(e) PROVE Final(x)
  BY <1>7, <1>t DEF ReadEnd, net, Final
<1>8. ASSUME NEW e \in Ends, Leave(e) PROVE Final(x)
  BY <1>8, <1>t DEF Leave, net, Final
<1>9. ASSUME NEW e \in Ends, ReadChunk(e) PROVE Final(x)
  BY <1>9, <1>t DEF ReadChunk, ends, Final, Ended
<1>10. ASSUME NEW e \in Ends, WriteChunk(e) PROVE Final(x)
  BY <1>10, <1>t DEF WriteChunk, ends, net, Final, Ended
<1>11. ASSUME NEW e \in Ends, NEW y \in Ends, Close(y), NEW l \in Ended,
              copy' = [copy EXCEPT ![e] = l], UNCHANGED ends
       PROVE  Final(x)
  BY <1>11, <1>t DEF Close, ends, net, Final
<1>12. ASSUME NEW e \in Ends, CloseSource(e) \/ CloseDestination(e) PROVE Final(x)
  BY <1>11, <1>12, Others DEF CloseSource, CloseDestination, Ended, ends
<1> QED BY <1>1, <1>2, <1>3, <1>4, <1>5, <1>6, <1>7, <1>8, <1>9, <1>10, <1>12
        DEF Next, ServeHTTP, Refuse, Dial, Transfer

LEMMA LostKept ==
  ASSUME Shape, Shape', StreamsGrow, NEW e \in Ends, Lost(e)
  PROVE  Lost(e)'
<1>1. /\ Arriving(e) \in Nat /\ Total(e) \in Nat
      /\ Arriving(e)' \in Nat /\ Total(e)' \in Nat
  BY ShapeNats, ShapeNatsNext DEF Nats
<1> QED BY <1>1 DEF StreamsGrow, Grew, Lost

\* Where something is lost.
LEMMA LostNow ==
  ASSUME Shape, Shape', Streams, NEW e \in Ends,
         \/ Arriving(e)' < Arriving(e) /\ Total(e)' = Total(e)
         \/ Arriving(e)' = Arriving(e) /\ Total(e)' = Total(e) + 1
  PROVE  Lost(e)'
<1>1. /\ Arriving(e) \in Nat /\ Total(e) \in Nat /\ Arriving(e) <= Total(e)
      /\ Arriving(e)' \in Nat /\ Total(e)' \in Nat
  BY ShapeNats, ShapeNatsNext DEF Nats, Streams, Stream
<1> QED BY <1>1 DEF Lost

LEMMA SendLoses ==
  ASSUME Shape, Shape', Streams, NEW e \in Ends, Send(e), conn[e] = "closed"
  PROVE  Lost(Other(e))'
<1> DEFINE d == Other(e)
<1>0. d \in Ends /\ d # e /\ Other(d) = e
  BY Others
<1>n. Nats
  BY ShapeNats
<1> HIDE DEF d
<1>1. /\ UNCHANGED <<handler, conn, copy, held, peer, got, toFwd>>
      /\ sent'[e] = sent[e] + 1 /\ toEnd'[d] = toEnd[d]
  <2>1. toEnd \in [Ends -> Seq(Bytes)] /\ DOMAIN sent = Ends
    BY DEF Shape, Types
  <2> QED BY <1>0, <2>1 DEF Send
<1>2. Arriving(d)' = Arriving(d)
  BY <1>0, <1>1 DEF Arriving, Before, Written, HasRead, OnTheWay, Unread, Coming,
                    InHand, Refused
<1>3. Total(d)' = Total(d) + 1
  <2>1. sent[e] \in Nat /\ First(d) \in {0, 1} /\ First(d)' = First(d)
    BY <1>n DEF Nats, First
  <2> QED BY <1>0, <1>1, <2>1 DEF Total
<1> QED BY <1>0, <1>2, <1>3, LostNow DEF d

LEMMA LeaveLoses ==
  ASSUME Shape, Shape', Streams, NEW e \in Ends, Leave(e), toEnd[e] # <<>>
  PROVE  Lost(e)'
<1> DEFINE d == Other(e)
<1>0. d \in Ends /\ d # e /\ Other(e) = d
  BY Others
<1>n. Nats
  BY ShapeNats
<1> HIDE DEF d
<1>1. /\ UNCHANGED <<handler, conn, copy, held, sent, got>>
      /\ toFwd'[d] = toFwd[d] /\ toEnd'[e] = <<>>
  <2>1. toEnd \in [Ends -> Seq(Bytes)] /\ DOMAIN toFwd = Ends
    BY DEF Shape, Types
  <2> QED BY <1>0, <2>1 DEF Leave
<1>2. OnTheWay(e)' = 0 /\ OnTheWay(e) > 0
  BY <1>1, Empty DEF OnTheWay, Shape, Types
<1>3. /\ HasRead(e)' = HasRead(e) /\ Coming(e)' = Coming(e)
      /\ InHand(e)' = InHand(e) /\ Unread(d)' = Unread(d)
      /\ Total(e)' = Total(e)
  BY <1>0, <1>1 DEF HasRead, Coming, InHand, Unread, Total, First, Refused
<1>4. /\ HasRead(e) \in Nat /\ OnTheWay(e) \in Nat /\ Unread(d) \in Nat
      /\ Coming(e) \in {0, 1} /\ InHand(e) \in {0, 1}
  BY <1>0, <1>n DEF Nats
<1>5. Arriving(e)' < Arriving(e)
  BY <1>0, <1>2, <1>3, <1>4 DEF Arriving, Before, Written
<1> QED BY <1>3, <1>5, LostNow

LEMMA ResetLoses ==
  ASSUME Shape, Shape', Streams, NEW e \in Ends, WriteChunk(e),
         copy'[e] = "read", UNCHANGED toEnd
  PROVE  Lost(Other(e))'
<1> DEFINE d == Other(e)
<1>0. d \in Ends /\ d # e /\ Other(d) = e
  BY Others
<1>n. Nats
  BY ShapeNats
<1>1. /\ UNCHANGED <<handler, conn, sent, got>> /\ copy[e] = "write"
      /\ toFwd'[e] = toFwd[e]
  <2>1. DOMAIN toFwd = Ends /\ toEnd \in [Ends -> Seq(Bytes)]
    BY DEF Shape, Types
  <2> QED BY <1>0, <2>1 DEF WriteChunk, ends, net
<1> HIDE DEF d
<1>2. /\ HasRead(d)' = HasRead(d) /\ Coming(d)' = Coming(d)
      /\ OnTheWay(d)' = OnTheWay(d) /\ Unread(e)' = Unread(e)
      /\ InHand(d) = 1 /\ InHand(d)' = 0 /\ Total(d)' = Total(d)
  BY <1>0, <1>1 DEF HasRead, Coming, InHand, Unread, OnTheWay, Total, First, Refused
<1>3. /\ HasRead(d) \in Nat /\ OnTheWay(d) \in Nat /\ Unread(e) \in Nat
      /\ Coming(d) \in {0, 1}
  BY <1>0, <1>n DEF Nats
<1>4. Arriving(d)' < Arriving(d)
  BY <1>0, <1>2, <1>3 DEF Arriving, Before, Written
<1> QED BY <1>0, <1>2, <1>4, LostNow DEF d

LEMMA CloseLoses ==
  ASSUME Shape, Shape', Streams, NEW y \in Ends, NEW e \in Ends, Close(y),
         copy[e] \in {"source", "destination"},
         NEW l \in {"destination", "done"}, copy' = [copy EXCEPT ![e] = l],
         handler' \in {handler, "returned"}, UNCHANGED <<held, ends>>,
         conn[y] # "closed", toFwd[y] # <<>>
  PROVE  Lost(Other(y))'
<1> DEFINE d == Other(y)
<1>0. d \in Ends /\ d # y /\ Other(d) = y
  BY Others
<1>n. Nats
  BY ShapeNats
<1> HIDE DEF d
<1>1. /\ toFwd'[y] = <<>> /\ toEnd'[d] = toEnd[d]
      /\ copy'[y] = "write" <=> copy[y] = "write"
      /\ conn["client"] # "none" /\ conn'["client"] # "none"
  <2>1. /\ DOMAIN toFwd = Ends /\ toEnd \in [Ends -> Seq(Bytes)]
        /\ copy \in [Ends -> Copying]
    BY DEF Shape, Types
  <2>2. conn["client"] # "none" /\ conn'["client"] # "none"
    <3>1. copy[e] # "none" /\ copy'[e] # "none"
      BY <2>1
    <3> QED BY <3>1 DEF Shape, Sizes
  <2> QED BY <1>0, <2>1, <2>2 DEF Close
<1>2. Unread(y)' = 0 /\ Unread(y) > 0
  BY <1>1, Empty DEF Unread, Shape, Types
<1>3. /\ HasRead(d)' = HasRead(d) /\ Coming(d)' = Coming(d)
      /\ OnTheWay(d)' = OnTheWay(d)
      /\ InHand(d)' = InHand(d) /\ Total(d)' = Total(d)
  BY <1>0, <1>1 DEF HasRead, Coming, InHand, OnTheWay, Total, First, ends
<1>4. /\ HasRead(d) \in Nat /\ OnTheWay(d) \in Nat /\ Unread(y) \in Nat
      /\ Coming(d) \in {0, 1} /\ InHand(d) \in {0, 1}
  BY <1>0, <1>n DEF Nats
<1>5. Arriving(d)' < Arriving(d)
  BY <1>0, <1>2, <1>3, <1>4 DEF Arriving, Before, Written
<1> QED BY <1>0, <1>3, <1>5, LostNow DEF d

LEMMA FinishedKept ==
  ASSUME Shape, Shape', Streams, StreamsGrow, EndsWell, Next,
         NEW e \in Ends, Finished(e)
  PROVE  Excused(e)'
<1> DEFINE d == Other(e)
<1>0. d \in Ends /\ d # e /\ Other(d) = e /\ Other(e) = d
      /\ \A x \in Ends : x = e \/ x = d
  BY Others
<1> HIDE DEF d
<1>n. Nats
  BY ShapeNats
<1>t. /\ toEnd \in [Ends -> Seq(Bytes)] /\ got \in [Ends -> Seq(Bytes)]
      /\ peer[d] = "closed" /\ peer'[d] = "closed" /\ sent'[d] = sent[d]
      /\ Written(e) = Total(e) /\ Total(e)' = Total(e)
  <2>1. Final(d)
    BY <1>0, FinalStep
  <2> QED BY <1>0, <2>1 DEF Final, Finished, Shape, Types, Total, First
<1>f. ASSUME Written(e)' = Written(e) PROVE Excused(e)'
  BY <1>0, <1>t, <1>f DEF Finished, Excused
<1>k. ASSUME got'[e] = got[e], toEnd'[e] = toEnd[e] PROVE Excused(e)'
  BY <1>k, <1>f DEF Written, HasRead, OnTheWay
<1>1. CASE Ask
  BY <1>1, <1>k DEF Ask, net
<1>2. ASSUME NEW status, handler \in {"refuse", "dial"}, Answer(status)
      PROVE  Excused(e)'
  <2>1. e # "client"
    BY <1>0, <1>2, <1>t, Others DEF Shape, Unborn, Ends
  <2> QED BY <1>2, <1>k, <1>t, <2>1 DEF Answer, ends
<1>3. CASE Dial /\ ~Answer(503)
  BY <1>3, <1>k DEF Dial, net
<1>4. CASE Hijack
  <2>1. CASE e = "client"
    <3>1. got[e] = <<>> /\ toEnd[e] = <<>>
      BY <1>4, <2>1 DEF Hijack, Shape, Unborn, Unanswered, Refused
    <3>2. HasRead(e) = 0 /\ OnTheWay(e) = 0
      BY <3>1 DEF HasRead, OnTheWay
    <3>3. First(e) = 1 /\ sent[d] \in Nat
      BY <1>0, <1>n, <2>1 DEF First, Nats
    <3>4. Written(e) = 0 /\ Total(e) > 0
      BY <1>0, <3>2, <3>3 DEF Written, Total
    <3> QED BY <1>t, <3>4
  <2>2. CASE e # "client"
    BY <1>4, <1>k, <1>t, <2>2 DEF Hijack, ends
  <2> QED BY <2>1, <2>2
<1>5. ASSUME NEW x \in Ends, Send(x) PROVE Excused(e)'
  <2>1. CASE x = e /\ conn[e] = "closed"
    BY <1>0, <1>5, <2>1, SendLoses DEF Excused
  <2>2. CASE ~(x = e /\ conn[e] = "closed")
    <3>1. got'[e] = got[e] /\ toEnd'[e] = toEnd[e]
      BY <1>5, <1>t, <2>2 DEF Send
    <3> QED BY <1>k, <3>1
  <2> QED BY <2>1, <2>2
<1>6. ASSUME NEW x \in Ends, Receive(x) PROVE Excused(e)'
  <2>1. CASE x = e
    <3>1. /\ got'[e] = Append(got[e], Head(toEnd[e])) /\ toEnd'[e] = Tail(toEnd[e])
          /\ toEnd[e] # <<>> /\ toEnd[e] \in Seq(Bytes) /\ got[e] \in Seq(Bytes)
      BY <1>6, <1>t, <2>1 DEF Receive
    <3>2. HasRead(e)' = HasRead(e) + 1 /\ OnTheWay(e)' = OnTheWay(e) - 1
      <4>1. Head(toEnd[e]) \in Bytes /\ Len(Tail(toEnd[e])) = Len(toEnd[e]) - 1
        BY <3>1, Taken
      <4> QED BY <3>1, <4>1, Appended DEF HasRead, OnTheWay
    <3>3. HasRead(e) \in Nat /\ OnTheWay(e) \in Nat
      BY <1>n DEF Nats
    <3>4. Written(e)' = Written(e)
      BY <3>2, <3>3 DEF Written
    <3> QED BY <1>f, <3>4
  <2>2. CASE x # e
    <3>1. got'[e] = got[e] /\ toEnd'[e] = toEnd[e]
      BY <1>6, <1>t, <2>2 DEF Receive
    <3> QED BY <1>k, <3>1
  <2> QED BY <2>1, <2>2
<1>7. ASSUME NEW x \in Ends, ReadEnd(x) PROVE Excused(e)'
  BY <1>7, <1>k DEF ReadEnd, net
<1>8. ASSUME NEW x \in Ends, Leave(x) PROVE Excused(e)'
  <2>1. CASE x = e
    <3>1. peer'[e] = "closed" /\ sawEnd'[e] = sawEnd[e] /\ ~sawEnd[e]
      <4>1. peer[e] # "closed" /\ DOMAIN peer = Ends
        BY <1>8, <2>1 DEF Leave, Shape, Types
      <4> QED BY <1>8, <2>1, <4>1 DEF Leave, EndsWell, Heard
    <3> QED BY <3>1 DEF Excused, Left
  <2>2. CASE x # e
    <3>1. got'[e] = got[e] /\ toEnd'[e] = toEnd[e]
      BY <1>8, <1>t, <2>2 DEF Leave, net
    <3> QED BY <1>k, <3>1
  <2> QED BY <2>1, <2>2
<1>9. ASSUME NEW x \in Ends, ReadChunk(x) PROVE Excused(e)'
  BY <1>9, <1>k DEF ReadChunk, ends
<1>10. ASSUME NEW x \in Ends, WriteChunk(x) PROVE Excused(e)'
  <2>1. x # d
    <3> SUFFICES ASSUME copy[d] = "write" PROVE FALSE
      BY <1>10 DEF WriteChunk
    <3>1. InHand(e) = 1
      BY <1>0 DEF InHand
    <3>2. /\ Written(e) \in Nat /\ Coming(e) \in {0, 1} /\ Unread(d) \in Nat
          /\ Arriving(e) <= Total(e)
      BY <1>0, <1>n DEF Nats, Streams, Stream
    <3> QED BY <1>0, <1>t, <3>1, <3>2 DEF Arriving, Before
  <2>2. Other(x) = d
    BY <1>0, <2>1
  <2>3. got'[e] = got[e] /\ toEnd'[e] = toEnd[e]
    BY <1>0, <1>10, <1>t, <2>2 DEF WriteChunk, ends, net
  <2> QED BY <1>k, <2>3
<1>11. ASSUME NEW x \in Ends, NEW y \in Ends, Close(y),
              copy[x] \in {"source", "destination"},
              NEW l \in {"destination", "done"}, copy' = [copy EXCEPT ![x] = l],
              handler' \in {handler, "returned"}, UNCHANGED <<held, ends>>
       PROVE  Excused(e)'
  <2>1. CASE y = e /\ conn[y] # "closed" /\ toFwd[y] # <<>>
    BY <1>11, <2>1, CloseLoses DEF Excused
  <2>2. CASE ~(y = e /\ conn[y] # "closed" /\ toFwd[y] # <<>>)
    <3>1. got'[e] = got[e] /\ toEnd'[e] = toEnd[e]
      BY <1>11, <1>t, <2>2 DEF Close, net, ends
    <3> QED BY <1>k, <3>1
  <2> QED BY <2>1, <2>2
<1>12. ASSUME NEW x \in Ends, CloseSource(x) PROVE Excused(e)'
  BY <1>11, <1>12 DEF CloseSource
<1>13. ASSUME NEW x \in Ends, CloseDestination(x) PROVE Excused(e)'
  BY <1>11, <1>13, Others DEF CloseDestination
<1> QED BY <1>1, <1>2, <1>3, <1>4, <1>5, <1>6, <1>7, <1>8, <1>9, <1>10, <1>12, <1>13
        DEF Next, ServeHTTP, Refuse, Dial, Transfer

LEMMA ExcusedKept ==
  ASSUME Shape, Shape', Streams, StreamsGrow, EndsWell, Next,
         NEW e \in Ends, Excused(e)
  PROVE  Excused(e)'
<1>1. CASE Lost(Other(e))
  BY <1>1, Others, LostKept DEF Excused
<1>2. CASE Finished(e)
  BY <1>2, FinishedKept
<1>3. CASE Left(e)
  BY <1>3, FinalStep DEF Final, Left, Excused
<1> QED BY <1>1, <1>2, <1>3 DEF Excused

\* A copy ends: whatever made it end excuses both ends.
LEMMA EndingBegins ==
  ASSUME Shape, Streams, EndsWell, Next, ~Ending, Ending'
  PROVE  \A x \in Ends : Excused(x)
<1>n. Nats
  BY ShapeNats
<1>c. \A x \in Ends : copy[x] \notin Ended /\ conn[x] # "closed"
  BY DEF Ending, EndsWell
<1>t. copy \in [Ends -> Copying]
  BY DEF Shape, Types
<1>b. ASSUME NEW e \in Ends, broken[e]
      PROVE  Excused(e) /\ Excused(Other(e))
  <2>1. Excused(e) /\ Lost(e)
    BY <1>b DEF EndsWell
  <2> QED BY <2>1, Others DEF Excused
<1>1. ASSUME NEW e \in Ends, ReadChunk(e), copy'[e] = "source"
      PROVE  \A x \in Ends : Excused(x)
  <2> DEFINE d == Other(e)
  <2>0. d \in Ends /\ d # e /\ Other(d) = e /\ Other(e) = d
        /\ \A x \in Ends : x = e \/ x = d
    BY Others
  <2> HIDE DEF d
  <2>1. /\ copy[e] = "read" /\ toFwd[e] = <<>>
        /\ broken[e] \/ peer[e] = "closed"
    BY <1>1, <1>c, <1>t DEF ReadChunk
  <2>2. CASE broken[e] \/ broken[d]
    BY <1>b, <2>0, <2>2
  <2>3. CASE ~broken[e] /\ ~broken[d]
    <3>1. Left(e)
      BY <1>c, <2>1, <2>3 DEF Left, EndsWell, Heard
    <3>2. Excused(d)
      <4>1. CASE peer[d] = "closed"
        BY <1>c, <2>0, <2>3, <4>1 DEF Excused, Left, EndsWell, Heard
      <4>2. CASE peer[d] # "closed"
        <5>1. Arriving(d) = Total(d)
          BY <1>c, <2>0, <2>3, <4>2 DEF Streams, Stream, Flowing, Whole
        <5>2. InHand(d) = 0 /\ Unread(e) = 0 /\ Coming(d) = 0
          <6>1. conn["client"] # "none"
            BY <2>1 DEF Shape, Sizes
          <6> QED BY <2>0, <2>1, <6>1 DEF InHand, Unread, Coming
        <5>3. Written(d) \in Nat
          BY <1>n, <2>0 DEF Nats
        <5>4. Written(d) = Total(d)
          BY <2>0, <5>1, <5>2, <5>3 DEF Arriving, Before
        <5> QED BY <2>0, <2>1, <2>3, <5>4 DEF Excused, Finished
      <4> QED BY <4>1, <4>2
    <3> QED BY <2>0, <3>1, <3>2 DEF Excused
  <2> QED BY <2>2, <2>3
<1>2. ASSUME NEW e \in Ends, WriteChunk(e), copy'[e] = "source"
      PROVE  \A x \in Ends : Excused(x)
  <2>1. Other(e) \in Ends /\ Other(Other(e)) = e
        /\ \A x \in Ends : x = e \/ x = Other(e)
    BY Others
  <2>2. broken[Other(e)]
    BY <1>2, <1>c, <1>t, <2>1 DEF WriteChunk
  <2> QED BY <1>b, <2>1, <2>2
<1>3. PICK y \in Ends : copy'[y] \in Ended
  BY DEF Ending
<1>4. copy' # copy
  BY <1>c, <1>3
<1>5. CASE Ask \/ ServeHTTP
  <2>1. CASE Hijack
    BY <1>3, <2>1 DEF Hijack, Ended
  <2> QED BY <1>4, <1>5, <2>1 DEF Ask, ServeHTTP, Refuse, Dial, Answer
<1>6. ASSUME NEW e \in Ends, Send(e) \/ Receive(e) \/ ReadEnd(e) \/ Leave(e)
      PROVE  FALSE
  BY <1>4, <1>6 DEF Send, Receive, ReadEnd, Leave
<1>7. ASSUME NEW e \in Ends, Transfer(e) PROVE \A x \in Ends : Excused(x)
  <2>1. ~CloseSource(e) /\ ~CloseDestination(e)
    BY <1>c DEF CloseSource, CloseDestination, Ended
  <2>2. CASE ReadChunk(e)
    <3>1. copy'[e] = "source"
      BY <1>c, <1>t, <1>3, <2>2 DEF ReadChunk, Ended
    <3> QED BY <1>1, <2>2, <3>1
  <2>3. CASE WriteChunk(e)
    <3>1. copy'[e] = "source"
      BY <1>c, <1>t, <1>3, <2>3 DEF WriteChunk, Ended
    <3> QED BY <1>2, <2>3, <3>1
  <2> QED BY <1>7, <2>1, <2>2, <2>3 DEF Transfer
<1> QED BY <1>5, <1>6, <1>7 DEF Next

\* A connection is reset: either both copies are ending, or what was on its
\* way to the end is lost, and the end has left.
LEMMA BrokenBegins ==
  ASSUME Shape, Shape', Streams, StreamsGrow, EndsWell, Next,
         NEW x \in Ends, ~broken[x], broken'[x]
  PROVE  Excused(x)' /\ (Ending \/ Lost(x)')
<1>t. /\ peer \in [Ends -> {"none", "waiting", "open", "refused", "closed"}]
      /\ broken \in [Ends -> BOOLEAN]
  BY DEF Shape, Types
<1>0. broken' # broken
  OBVIOUS
<1>1. ASSUME NEW e \in Ends, Send(e)
      PROVE  Excused(x)' /\ (Ending \/ Lost(x)')
  <2>1. x = e /\ conn[e] = "closed"
    BY <1>1, <1>t DEF Send
  <2> QED BY <1>1, <2>1, SendLoses DEF Excused, EndsWell
<1>2. ASSUME NEW e \in Ends, Leave(e)
      PROVE  Excused(x)' /\ (Ending \/ Lost(x)')
  <2>1. x = e /\ toEnd[e] # <<>> /\ peer[e] # "closed" /\ peer'[e] = "closed"
        /\ sawEnd' = sawEnd
    BY <1>2, <1>t DEF Leave, net
  <2>2. Left(x)'
    BY <2>1 DEF Left, EndsWell, Heard
  <2> QED BY <1>2, <2>1, <2>2, LeaveLoses DEF Excused
<1>3. ASSUME NEW e \in Ends, WriteChunk(e)
      PROVE  Excused(x)' /\ (Ending \/ Lost(x)')
  <2>1. /\ x = Other(e) /\ conn[x] = "open" /\ peer[x] = "closed"
        /\ copy'[e] = "read" /\ UNCHANGED <<toEnd, peer, sawEnd>>
    <3>1. copy \in [Ends -> Copying]
      BY DEF Shape, Types
    <3> QED BY <1>3, <1>t, <3>1 DEF WriteChunk, net, ends
  <2>2. Left(x)'
    BY <2>1 DEF Left, EndsWell, Heard
  <2> QED BY <1>3, <2>1, <2>2, ResetLoses DEF Excused
<1>4. ASSUME NEW e \in Ends, copy[e] \in Ended
      PROVE  Excused(x)' /\ (Ending \/ Lost(x)')
  BY <1>4, ExcusedKept DEF Ending, EndsWell
<1>5. ~Ask /\ ~ServeHTTP
  BY <1>0 DEF Ask, ServeHTTP, Refuse, Dial, Hijack, Answer, net
<1>6. \A e \in Ends : ~Receive(e) /\ ~ReadEnd(e) /\ ~ReadChunk(e)
  BY <1>0 DEF Receive, ReadEnd, ReadChunk, net
<1> QED BY <1>1, <1>2, <1>3, <1>4, <1>5, <1>6
        DEF Next, Transfer, CloseSource, CloseDestination, Ended

\* Nothing arrives where the end has been read.
LEMMA HeardStep ==
  ASSUME Shape, EndsWell, Next, NEW x \in Ends
  PROVE  Heard(x)'
<1>t. /\ toEnd \in [Ends -> Seq(Bytes)] /\ sawEnd \in [Ends -> BOOLEAN]
      /\ peer \in [Ends -> {"none", "waiting", "open", "refused", "closed"}]
  BY DEF Shape, Types
<1>f. Final(x)
  BY FinalStep
<1>1. CASE \E e \in Ends : ReadEnd(e) /\ e = x
  BY <1>1, <1>t DEF ReadEnd, net, Heard
<1>2. CASE ~\E e \in Ends : ReadEnd(e) /\ e = x
  <2> SUFFICES ASSUME sawEnd'[x] PROVE Heard(x)'
    BY DEF Heard
  <2>1. sawEnd[x]
    <3>1. CASE sawEnd' = sawEnd
      BY <3>1
    <3>2. CASE \E e \in Ends : ReadEnd(e)
      BY <1>2, <1>t, <3>2 DEF ReadEnd
    <3>3. CASE sawEnd' # sawEnd
      <4>1. ~Ask /\ ~ServeHTTP
        BY <3>3 DEF Ask, ServeHTTP, Refuse, Dial, Hijack, Answer, ends
      <4>2. \A e \in Ends : ~Send(e) /\ ~Receive(e) /\ ~Leave(e) /\ ~Transfer(e)
        BY <3>3 DEF Send, Receive, Leave, Transfer, ReadChunk, WriteChunk,
                    CloseSource, CloseDestination, ends
      <4> QED BY <3>2, <4>1, <4>2 DEF Next
    <3> QED BY <3>1, <3>3
  <2>2. /\ toEnd[x] = <<>> /\ peer[x] = "closed"
        /\ conn[x] = "closed" \/ broken[x]
    BY <2>1 DEF EndsWell, Heard
  <2>3. \A q \in Prefixes(toEnd[x]) : q = <<>>
    <3>1. ASSUME NEW q \in Prefixes(toEnd[x]) PROVE q = <<>>
      <4>1. q \in Seq(Bytes) /\ Len(q) <= 0
        BY <1>t, <2>2, Cut
      <4> QED BY <4>1, Empty
    <3> QED BY <3>1
  <2>4. toEnd'[x] = <<>>
    <3>1. CASE Ask \/ ServeHTTP
      BY <1>t, <2>2, <3>1
         DEF Ask, ServeHTTP, Refuse, Dial, Hijack, Answer, net
    <3>2. ASSUME NEW e \in Ends, Send(e) \/ Receive(e) \/ ReadEnd(e) \/ Leave(e)
          PROVE  toEnd'[x] = <<>>
      BY <1>t, <2>2, <2>3, <3>2 DEF Send, Receive, ReadEnd, Leave, net
    <3>3. ASSUME NEW e \in Ends, ReadChunk(e) PROVE toEnd'[x] = <<>>
      BY <2>2, <3>3 DEF ReadChunk
    <3>4. ASSUME NEW e \in Ends, WriteChunk(e) PROVE toEnd'[x] = <<>>
      BY <1>t, <2>2, <3>4 DEF WriteChunk, net
    <3>5. ASSUME NEW e \in Ends, Close(e) PROVE toEnd'[x] = <<>>
      BY <1>t, <2>2, <2>3, <3>5 DEF Close, net
    <3> QED BY <3>1, <3>2, <3>3, <3>4, <3>5, Others
            DEF Next, Transfer, CloseSource, CloseDestination
  <2> QED BY <1>f, <2>2, <2>4 DEF Final, Heard
<1> QED BY <1>1, <1>2

LEMMA EndsWellStep ==
  ASSUME Shape, Shape', Streams, StreamsGrow, EndsWell, Next
  PROVE  EndsWell'
<1>1. ASSUME Ending PROVE Ending'
  BY <1>1, FinalStep DEF Ending, Final
<1>2. ASSUME Ending', NEW e \in Ends PROVE Excused(e)'
  BY <1>2, EndingBegins, ExcusedKept DEF EndsWell
<1>3. ASSUME NEW e \in Ends, conn'[e] = "closed" PROVE Ending'
  <2>1. CASE conn[e] = "closed"
    BY <1>1, <2>1 DEF EndsWell
  <2>2. CASE conn[e] # "closed"
    <3>1. conn' # conn /\ conn \in [Ends -> {"none", "open", "closed"}]
      BY <1>3, <2>2 DEF Shape, Types
    <3>2. ~Ask /\ ~ServeHTTP
      BY <1>3, <2>2, <3>1 DEF Ask, ServeHTTP, Refuse, Dial, Hijack, Answer
    <3>3. \A x \in Ends : ~Send(x) /\ ~Receive(x) /\ ~ReadEnd(x) /\ ~Leave(x)
                          /\ ~ReadChunk(x) /\ ~WriteChunk(x)
      BY <3>1 DEF Send, Receive, ReadEnd, Leave, ReadChunk, WriteChunk
    <3>4. PICK x \in Ends : CloseSource(x) \/ CloseDestination(x)
      BY <3>2, <3>3 DEF Next, Transfer
    <3> QED BY <1>1, <3>4 DEF CloseSource, CloseDestination, Ending, Ended
  <2> QED BY <2>1, <2>2
<1>4. ASSUME NEW e \in Ends, broken'[e]
      PROVE  Excused(e)' /\ (Ending' \/ Lost(e)')
  <2>1. CASE broken[e]
    BY <1>1, <2>1, ExcusedKept, LostKept DEF EndsWell
  <2>2. CASE ~broken[e]
    BY <1>1, <1>4, <2>2, BrokenBegins
  <2> QED BY <2>1, <2>2
<1> QED BY <1>2, <1>3, <1>4, HeardStep DEF EndsWell

-----------------------------------------------------------------------------
(* The inductive invariant, and the theorems.                              *)

Inv == Shape /\ Streams /\ EndsWell

LEMMA InvInit == Init => Inv
BY ShapeInit, StreamInit, EndsWellInit DEF Inv, Streams

LEMMA InvStep == Inv /\ [Next]_vars => Inv'
<1> SUFFICES ASSUME Inv, [Next]_vars PROVE Inv'
  OBVIOUS
<1>1. Shape'
  BY ShapeStep DEF Inv
<1>2. CASE Next
  <2>1. StreamsGrow
    BY <1>1, <1>2, StreamStep DEF Inv
  <2>2. EndsWell'
    BY <1>1, <1>2, <2>1, EndsWellStep DEF Inv
  <2> QED BY <1>1, <2>1, <2>2 DEF Inv, Streams, StreamsGrow
<1>3. CASE UNCHANGED vars
  <2>1. /\ Streams' = Streams /\ EndsWell' = EndsWell
    BY <1>3 DEF vars, net, ends, Streams, Stream, EndsWell, Ending, Excused, Lost,
       Finished, Left, Heard, Arriving, Before, Written, HasRead, OnTheWay, Unread,
       Coming, InHand, Total, First, Refused, InOrder, Contiguous, Whole, Flowing
  <2> QED BY <1>1, <2>1 DEF Inv
<1> QED BY <1>2, <1>3

LEMMA SpecInv == Spec => []Inv
BY InvInit, InvStep, PTL DEF Spec

LEMMA SameSeq ==
  ASSUME NEW S, NEW p \in Seq(S), NEW q \in Seq(S), Len(p) = Len(q),
         \A i \in 1 .. Len(p) : p[i] = q[i]
  PROVE  p = q
OBVIOUS

LEMMA SentItems ==
  ASSUME Shape, NEW e \in Ends
  PROVE  /\ Sent(e) \in Seq(Nat) /\ Len(Sent(e)) = Total(e)
         /\ \A i \in 1 .. Total(e) : Sent(e)[i] = Item(e, i)
<1> DEFINE n == sent[Other(e)]  s == [i \in 1 .. n |-> i]
<1>1. n \in Nat
  BY Others, ForwarderConstants DEF Shape, Types
<1> HIDE DEF n
<1>2. s \in Seq(Nat) /\ Len(s) = n /\ \A i \in 1 .. n : s[i] = i
  BY <1>1
<1>3. Total(e) = First(e) + n
  BY DEF Total, n
<1>4. CASE e = "client"
  <2>1. Sent(e) = <<200>> \o s
    BY <1>4 DEF Sent, n
  <2> HIDE DEF s
  <2>2. /\ <<200>> \o s \in Seq(Nat) /\ Len(<<200>> \o s) = 1 + n
        /\ (<<200>> \o s)[1] = 200
        /\ \A i \in 2 .. 1 + n : (<<200>> \o s)[i] = s[i - 1]
    BY <1>1, <1>2
  <2>3. \A i \in 2 .. 1 + n : s[i - 1] = i - 1
    BY <1>1, <1>2
  <2>4. Total(e) = 1 + n
    BY <1>3, <1>4 DEF First
  <2>5. ASSUME NEW i \in 1 .. 1 + n PROVE (<<200>> \o s)[i] = Item(e, i)
    <3>1. CASE i = 1
      BY <1>4, <2>2, <3>1 DEF Item
    <3>2. CASE i # 1
      <4>1. i \in 2 .. 1 + n
        BY <1>1, <3>2
      <4> QED BY <1>4, <2>2, <2>3, <3>2, <4>1 DEF Item
    <3> QED BY <3>1, <3>2
  <2>6. Len(<<200>> \o s) = Total(e)
    BY <1>1, <2>2, <2>4
  <2>7. \A i \in 1 .. Total(e) : (<<200>> \o s)[i] = Item(e, i)
    BY <2>4, <2>5
  <2> QED BY <2>1, <2>2, <2>6, <2>7
<1>5. CASE e # "client"
  <2>1. Sent(e) = <<>> \o s
    BY <1>5 DEF Sent, n
  <2> HIDE DEF s
  <2>2. <<>> \o s = s
    BY <1>2
  <2> QED BY <1>1, <1>2, <1>3, <1>5, <2>1, <2>2 DEF First, Item
<1> QED BY <1>4, <1>5

LEMMA InvDelivered == Inv => Delivered
<1> SUFFICES ASSUME Inv, NEW e \in Ends
             PROVE  /\ peer[e] # "refused" => IsPrefix(got[e], Sent(e))
                    /\ sawEnd[e] /\ got[Other(e)] = Sent(Other(e)) =>
                         got[e] = Sent(e)
  BY DEF Delivered
<1> DEFINE d == Other(e)
<1>0. d \in Ends
  BY Others
<1>s. Shape /\ Nats /\ Stream(e) /\ EndsWell
  BY ShapeNats DEF Inv, Streams
<1>t. /\ Sent(e) \in Seq(Nat) /\ Len(Sent(e)) = Total(e)
      /\ \A i \in 1 .. Total(e) : Sent(e)[i] = Item(e, i)
      /\ Len(Sent(d)) = Total(d)
  BY <1>0, <1>s, SentItems
<1>g. got[e] \in Seq(Nat) /\ HasRead(e) \in Nat /\ Total(e) \in Nat
  <2>1. Bytes \subseteq Nat
    BY ForwarderConstants DEF Bytes, Chunks, Statuses
  <2>2. got[e] \in Seq(Bytes)
    BY <1>s DEF Shape, Types
  <2>3. got[e] \in Seq(Nat)
    BY <2>1, <2>2, SeqMonotonic
  <2> QED BY <1>s, <2>3 DEF Nats
<1>h. \A x \in Ends : HasRead(x) <= Arriving(x)
  <2> SUFFICES ASSUME NEW x \in Ends PROVE HasRead(x) <= Arriving(x)
    OBVIOUS
  <2>1. /\ HasRead(x) \in Nat /\ OnTheWay(x) \in Nat /\ Unread(Other(x)) \in Nat
        /\ Coming(x) \in {0, 1} /\ InHand(x) \in {0, 1}
    BY <1>s, Others DEF Nats
  <2> QED BY <2>1 DEF Arriving, Before, Written
<1>l. HasRead(e) <= Total(e)
  <2>1. Arriving(e) \in Nat /\ Arriving(e) <= Total(e)
    BY <1>s DEF Nats, Stream
  <2> QED BY <1>g, <1>h, <2>1
<1>i. ASSUME peer[e] # "refused"
      PROVE  \A i \in 1 .. HasRead(e) : got[e][i] = Sent(e)[i]
  <2>1. \A i \in 1 .. HasRead(e) : got[e][i] = Item(e, i) /\ i \in 1 .. Total(e)
    BY <1>s, <1>g, <1>l, <1>i DEF Stream, InOrder, HasRead
  <2> QED BY <1>t, <2>1
<1>1. ASSUME peer[e] # "refused" PROVE IsPrefix(got[e], Sent(e))
  <2>1. Len(got[e]) <= Len(Sent(e)) /\ \A i \in 1 .. Len(got[e]) : got[e][i] = Sent(e)[i]
    BY <1>l, <1>t, <1>i, <1>1 DEF HasRead
  <2> DEFINE a == SubSeq(got[e], 1, Len(got[e]))
             b == SubSeq(Sent(e), 1, Len(got[e]))
  <2>2. a = b
    BY <1>g, <1>t, <2>1
  <2> QED BY <2>1, <2>2 DEF IsPrefix
<1>2. ASSUME sawEnd[e], got[d] = Sent(d) PROVE got[e] = Sent(e)
  <2>1. Excused(e) /\ ~Left(e) /\ peer[e] = "closed" /\ toEnd[e] = <<>>
    BY <1>s, <1>2 DEF EndsWell, Heard, Left
  <2>2. ~Lost(d)
    <3>1. HasRead(d) = Total(d)
      BY <1>2, <1>t DEF HasRead
    <3>2. HasRead(d) <= Arriving(d) /\ Arriving(d) \in Nat /\ Total(d) \in Nat
      BY <1>0, <1>h, <1>s DEF Nats
    <3> QED BY <3>1, <3>2 DEF Lost
  <2>3. Written(e) = Total(e)
    BY <2>1, <2>2 DEF Excused, Finished
  <2>4. HasRead(e) = Total(e)
    <3>1. OnTheWay(e) = 0
      BY <2>1 DEF OnTheWay
    <3> QED BY <1>g, <2>3, <3>1 DEF Written
  <2>5. Len(got[e]) = Len(Sent(e)) /\ \A i \in 1 .. Len(got[e]) : got[e][i] = Sent(e)[i]
    BY <1>i, <1>t, <2>1, <2>4 DEF HasRead
  <2> QED BY <1>g, <1>t, <2>5, SameSeq
<1> QED BY <1>1, <1>2

\* Every variable stays in its type: a chunk is held exactly between a read
\* and the write after it, and both copies start with the Hijack.
THEOREM TypeCorrect == Spec => []TypeOK
<1>1. Inv => TypeOK
  BY DEF Inv, Shape, Types, Sizes, TypeOK, Bytes, Copying
<1> QED BY <1>1, SpecInv, PTL

\* Each end reads a prefix of what the other has sent; it reads all of it
\* when it reads to the end of its connection and all it has sent itself has
\* arrived: closing both connections after one direction has ended never
\* drops a last word.
THEOREM AllDelivered == Spec => []Delivered
BY InvDelivered, SpecInv, PTL
=============================================================================
