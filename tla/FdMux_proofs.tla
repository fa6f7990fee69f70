---------------------------- MODULE FdMux_proofs ----------------------------
(***************************************************************************)
(* Proofs about fdchan, for any number of requesters, handlers and         *)
(* requests and any queue capacities: first the types of its variables.    *)
(***************************************************************************)
EXTENDS FdMux, TLAPS

-----------------------------------------------------------------------------
(* Queues of frames.                                                       *)

LEMMA AppendFrames ==
  ASSUME NEW S, NEW q \in Seq(S), NEW f \in S
  PROVE  /\ Append(q, f) \in Seq(S)
         /\ Len(Append(q, f)) = Len(q) + 1
         /\ \A g \in Frames(Append(q, f)) : g \in Frames(q) \/ g = f
<1>1. Append(q, f) \in Seq(S) /\ Len(Append(q, f)) = Len(q) + 1
  OBVIOUS
<1>2. \A i \in 1 .. Len(q) : Append(q, f)[i] = q[i]
  OBVIOUS
<1>3. Append(q, f)[Len(q) + 1] = f
  OBVIOUS
<1>4. ASSUME NEW i \in DOMAIN Append(q, f)
      PROVE  Append(q, f)[i] \in Frames(q) \/ Append(q, f)[i] = f
  <2>1. i \in 1 .. Len(q) + 1
    BY <1>1
  <2>2. CASE i \in 1 .. Len(q)
    BY <2>2, <1>2 DEF Frames
  <2>3. CASE i = Len(q) + 1
    BY <2>3, <1>3
  <2> QED BY <2>1, <2>2, <2>3
<1> QED BY <1>1, <1>4 DEF Frames

LEMMA TailFrames ==
  ASSUME NEW S, NEW q \in Seq(S), q # <<>>
  PROVE  /\ Head(q) \in S /\ Head(q) \in Frames(q)
         /\ Tail(q) \in Seq(S)
         /\ \A n \in Nat : Len(q) <= n => Len(Tail(q)) <= n
         /\ Frames(Tail(q)) \subseteq Frames(q)
<1>1. Len(q) \in Nat /\ Len(q) >= 1 /\ Head(q) = q[1]
  OBVIOUS
<1>2. Tail(q) \in Seq(S) /\ Len(Tail(q)) = Len(q) - 1
  BY <1>1
<1>3. \A i \in 1 .. Len(q) - 1 : Tail(q)[i] = q[i + 1]
  BY <1>1
<1>4. ASSUME NEW i \in DOMAIN Tail(q) PROVE Tail(q)[i] \in Frames(q)
  <2>1. i \in 1 .. Len(q) - 1 /\ i + 1 \in DOMAIN q
    BY <1>1, <1>2
  <2> QED BY <2>1, <1>3 DEF Frames
<1>5. Head(q) \in Frames(q) /\ Head(q) \in S
  BY <1>1 DEF Frames
<1>6. \A n \in Nat : Len(q) <= n => Len(Tail(q)) <= n
  BY <1>1, <1>2
<1> QED BY <1>2, <1>4, <1>5, <1>6 DEF Frames

-----------------------------------------------------------------------------
(* Types.  A step changes one side of the socket and the queues; the parts *)
(* of TypeOK it leaves alone carry over.                                   *)

ParentType ==
  /\ nextSeq \in 0 .. MaxSeq
  /\ rpc \in [Requesters -> InCall \cup {"idle", "answered", "failed"}]
  /\ seq \in [Requesters -> 0 .. nextSeq]
  /\ asked \in [Requesters -> Data \cup {NoData}]
  /\ got \in [Requesters -> Data \cup {NoData}]
  /\ sessions \subseteq 1 .. nextSeq
  /\ ch \in [Seqs -> Data \cup {"empty", "closed"}]

LoopType ==
  /\ ploop \in {"read", "deliver", "reset", "ended"}
  /\ IF ploop = "deliver" THEN phand \in Frame ELSE phand = NoFrame
  /\ pconn \in BOOLEAN /\ childHeld \in BOOLEAN
  /\ pclose \in {"open", "conn", "wait", "closed"}

QueueType ==
  /\ down \in Seq(Frame) /\ up \in Seq(Frame) /\ inbound \in Seq(Frame)
  /\ Len(down) <= WireCap /\ Len(up) <= WireCap /\ Len(inbound) <= InboundCap

ChildType ==
  /\ alive \in BOOLEAN /\ cconn \in BOOLEAN
  /\ cclose \in {"open", "wait", "closed"}
  /\ cloop \in {"read", "push", "ended"}
  /\ IF cloop = "push" THEN chand \in Frame ELSE chand = NoFrame

HandlerType ==
  /\ hpc \in [Handlers -> {"idle", "handle", "responded", "stopped"}]
  /\ \A h \in Handlers : IF hpc[h] \in {"handle", "responded"}
                           THEN hreq[h] \in Frame ELSE hreq[h] = NoFrame

\* A requester between its first step and its last holds a number and a
\* question.
CallType ==
  \A r \in Requesters : rpc[r] # "idle" => seq[r] # 0 /\ asked[r] \in Data

\* hreq has a value for every handler: TypeOK speaks of each value only.
Types ==
  /\ ParentType /\ LoopType /\ QueueType /\ ChildType /\ HandlerType
  /\ CallType /\ DOMAIN hreq = Handlers

LEMMA TypesAreTypes == Types => TypeOK
BY DEF Types, TypeOK, ParentType, LoopType, QueueType, ChildType, HandlerType

LEMMA TypesInit == Init => Types
<1> SUFFICES ASSUME Init PROVE Types
  OBVIOUS
<1> USE ConstantsOK DEF Init, InitWith
<1>1. ParentType BY DEF ParentType, InCall, Seqs
<1>2. LoopType BY DEF LoopType
<1>3. QueueType BY DEF QueueType
<1>4. ChildType BY DEF ChildType
<1>5. HandlerType BY DEF HandlerType
<1>6. CallType BY DEF CallType
<1> QED BY <1>1, <1>2, <1>3, <1>4, <1>5, <1>6 DEF Types

LEMMA TypesRequester ==
  ASSUME Types, NEW r \in Requesters, Requester(r)
  PROVE  Types'
<1> USE DEF Types
<1>0. LoopType' /\ ChildType' /\ HandlerType' /\ (DOMAIN hreq = Handlers)'
  BY DEF Requester, Register, Write, Undo, Result, LoopType, ChildType,
         HandlerType, pend, cend, child
<1>1. CASE Register(r)
  <2>1. seq[r] \in 1 .. nextSeq
    BY <1>1 DEF Register, ParentType, CallType
  <2>2. ParentType' /\ CallType'
    BY <1>1, <2>1 DEF Register, Goto, ParentType, CallType, InCall
  <2>3. QueueType' BY <1>1 DEF Register, QueueType, child
  <2> QED BY <1>0, <2>2, <2>3
<1>2. CASE Write(r)
  <2>1. ParentType' /\ CallType'
    BY <1>2 DEF Write, Goto, ParentType, CallType, InCall
  <2>2. QueueType'
    <3>1. CASE UNCHANGED down
      BY <1>2, <3>1 DEF Write, QueueType, child
    <3>2. ASSUME NEW size \in Sizes, Len(down) < WireCap,
                 down' = Append(down, [seq |-> seq[r], data |-> asked[r],
                                       size |-> size])
          PROVE  QueueType'
      <4>1. [seq |-> seq[r], data |-> asked[r], size |-> size] \in Frame
        BY <1>2, ConstantsOK DEF Write, ParentType, CallType, Frame, Seqs
      <4>2. down' \in Seq(Frame) /\ Len(down') = Len(down) + 1
        BY <3>2, <4>1, AppendFrames DEF QueueType
      <4> QED BY <1>2, <3>2, <4>2, ConstantsOK DEF Write, QueueType, child
    <3> QED BY <1>2, <3>1, <3>2 DEF Write
  <2> QED BY <1>0, <2>1, <2>2
<1>3. CASE Undo(r)
  <2>1. ParentType' /\ CallType'
    BY <1>3 DEF Undo, Goto, ParentType, CallType, InCall
  <2>2. QueueType' BY <1>3 DEF Undo, QueueType, child
  <2> QED BY <1>0, <2>1, <2>2
<1>4. CASE Result(r)
  <2>1. seq[r] \in Seqs
    BY <1>4, ConstantsOK DEF Result, ParentType, CallType, Seqs
  <2>2. ParentType' /\ CallType'
    BY <1>4, <2>1 DEF Result, Goto, ParentType, CallType, InCall
  <2>3. QueueType' BY <1>4 DEF Result, QueueType, child
  <2> QED BY <1>0, <2>2, <2>3
<1> QED BY <1>1, <1>2, <1>3, <1>4 DEF Requester

LEMMA TypesRequest ==
  ASSUME Types, NEW r \in Requesters, NEW d \in Data, Request(r, d)
  PROVE  Types'
<1> USE DEF Types
<1>1. LoopType' /\ ChildType' /\ HandlerType' /\ (DOMAIN hreq = Handlers)'
      /\ QueueType'
  BY DEF Request, LoopType, ChildType, HandlerType, QueueType, pend, cend, child
<1>2. nextSeq' = nextSeq + 1 /\ nextSeq' \in 0 .. MaxSeq
  BY ConstantsOK DEF Request, ParentType
<1>3. ParentType' /\ CallType'
  BY <1>2 DEF Request, Goto, ParentType, CallType, InCall
<1> QED BY <1>1, <1>3

LEMMA TypesParent ==
  ASSUME Types,
         ParentLoop \/ ReleaseHandle \/ ParentClose \/ ParentCloseConn
           \/ ParentClosed
  PROVE  Types'
<1> USE DEF Types
<1>0. ChildType' /\ HandlerType' /\ (DOMAIN hreq = Handlers)'
  BY DEF ParentLoop, ParentRead, Deliver, Reset, ReleaseHandle, ParentClose,
         ParentCloseConn, ParentClosed, ChildType, HandlerType, cend, child
<1>1. CASE ParentRead
  <2>1. ParentType' /\ CallType'
    BY <1>1 DEF ParentRead, parent, ParentType, CallType
  <2>2. CASE UNCHANGED <<phand, up>> /\ ploop' = "reset"
    BY <1>0, <1>1, <2>1, <2>2 DEF ParentRead, LoopType, QueueType, child
  <2>3. CASE up # <<>> /\ up' = Tail(up)
    <3>1. Head(up) \in Frame /\ up' \in Seq(Frame) /\ Len(up') <= WireCap
      BY <2>3, TailFrames, ConstantsOK DEF QueueType
    <3>2. QueueType'
      BY <1>1, <2>3, <3>1 DEF ParentRead, QueueType, child
    <3>3. LoopType'
      BY <1>1, <2>3, <3>1 DEF ParentRead, LoopType
    <3> QED BY <1>0, <2>1, <3>2, <3>3
  <2> QED BY <1>1, <2>2, <2>3 DEF ParentRead
<1>2. CASE Deliver
  <2>1. phand \in Frame /\ phand.data \in Data
    BY <1>2 DEF Deliver, LoopType, Frame
  <2>2. ParentType' /\ CallType'
    BY <1>2, <2>1 DEF Deliver, ParentType, CallType
  <2>3. LoopType' /\ QueueType'
    BY <1>2 DEF Deliver, LoopType, QueueType, child
  <2> QED BY <1>0, <2>2, <2>3
<1>3. CASE Reset
  <2>1. ParentType' /\ CallType'
    BY <1>3 DEF Reset, ParentType, CallType
  <2>2. LoopType' /\ QueueType'
    BY <1>3 DEF Reset, LoopType, QueueType, child
  <2> QED BY <1>0, <2>1, <2>2
<1>4. CASE ReleaseHandle \/ ParentClose \/ ParentCloseConn \/ ParentClosed
  <2>1. ParentType' /\ CallType' /\ QueueType'
    BY <1>4 DEF ReleaseHandle, ParentClose, ParentCloseConn, ParentClosed,
                ParentType, CallType, QueueType, parent, child
  <2>2. LoopType'
    BY <1>4 DEF ReleaseHandle, ParentClose, ParentCloseConn, ParentClosed,
                LoopType
  <2> QED BY <1>0, <2>1, <2>2
<1> QED BY <1>1, <1>2, <1>3, <1>4 DEF ParentLoop

LEMMA TypesChild ==
  ASSUME Types, ChildLoop \/ ChildClose \/ ChildClosed \/ ChildDies
  PROVE  Types'
<1> USE DEF Types
<1>0. ParentType' /\ CallType' /\ LoopType'
  BY DEF ChildLoop, ChildRead, Push, ChildClose, ChildClosed, ChildDies,
         ParentType, CallType, LoopType, parent, pend
<1>1. CASE ChildRead
  <2>1. HandlerType' /\ (DOMAIN hreq = Handlers)'
    BY <1>1 DEF ChildRead, HandlerType
  <2>2. CASE UNCHANGED <<chand, down>> /\ cloop' = "ended"
    BY <1>0, <1>1, <2>1, <2>2 DEF ChildRead, ChildType, QueueType, cend
  <2>3. CASE down # <<>> /\ down' = Tail(down)
    <3>1. /\ Head(down) \in Frame /\ down' \in Seq(Frame)
          /\ Len(down') <= WireCap
      BY <2>3, TailFrames, ConstantsOK DEF QueueType
    <3>2. QueueType'
      BY <1>1, <2>3, <3>1 DEF ChildRead, QueueType
    <3>3. ChildType'
      BY <1>1, <2>3, <3>1 DEF ChildRead, ChildType, cend
    <3> QED BY <1>0, <2>1, <3>2, <3>3
  <2> QED BY <1>1, <2>2, <2>3 DEF ChildRead
<1>2. CASE Push
  <2>1. HandlerType' /\ (DOMAIN hreq = Handlers)' /\ ChildType'
    BY <1>2 DEF Push, HandlerType, ChildType, cend
  <2>2. inbound' \in Seq(Frame) /\ Len(inbound') = Len(inbound) + 1
    BY <1>2, AppendFrames DEF Push, QueueType, ChildType
  <2>3. QueueType'
    BY <1>2, <2>2, ConstantsOK DEF Push, QueueType
  <2> QED BY <1>0, <2>1, <2>3
<1>3. CASE ChildClose \/ ChildClosed \/ ChildDies
  <2>1. HandlerType' /\ (DOMAIN hreq = Handlers)' /\ QueueType'
    BY <1>3 DEF ChildClose, ChildClosed, ChildDies, HandlerType, QueueType, child
  <2>2. ChildType'
    BY <1>3 DEF ChildClose, ChildClosed, ChildDies, ChildType, child
  <2> QED BY <1>0, <2>1, <2>2
<1> QED BY <1>1, <1>2, <1>3 DEF ChildLoop

LEMMA TypesRespond ==
  ASSUME Types, NEW h \in Handlers, NEW d \in Data, Respond(h, d)
  PROVE  Types'
<1> USE DEF Types
<1>1. ParentType' /\ CallType' /\ LoopType' /\ ChildType'
  <2>1. UNCHANGED <<parent, pend, cend, cloop, chand>>
    BY DEF Respond
  <2> QED BY <2>1 DEF ParentType, CallType, LoopType, ChildType, parent,
                      pend, cend
<1>2. HandlerType' /\ (DOMAIN hreq = Handlers)'
  BY DEF Respond, HandlerType
<1>3. hreq[h] \in Frame
  BY DEF Respond, HandlerType
<1>4. QueueType'
  <2>1. CASE UNCHANGED up
    BY <2>1 DEF Respond, QueueType
  <2>2. ASSUME NEW size \in Sizes, Len(up) < WireCap,
               up' = Append(up, [seq |-> hreq[h].seq, data |-> d,
                                 size |-> size])
        PROVE  QueueType'
    <3>1. [seq |-> hreq[h].seq, data |-> d, size |-> size] \in Frame
      BY <1>3 DEF Frame
    <3>2. up' \in Seq(Frame) /\ Len(up') = Len(up) + 1
      BY <2>2, <3>1, AppendFrames DEF QueueType
    <3> QED BY <2>2, <3>2, ConstantsOK DEF Respond, QueueType
  <2> QED BY <2>1, <2>2 DEF Respond
<1> QED BY <1>1, <1>2, <1>4

LEMMA TypesHandler ==
  ASSUME Types, NEW h \in Handlers, Handler(h)
  PROVE  Types'
<1> USE DEF Types
<1>0. ParentType' /\ CallType' /\ LoopType' /\ ChildType'
  <2>1. UNCHANGED <<parent, pend, cend, cloop, chand>>
    BY DEF Handler, HandleRequest, Answer, Respond, Handled
  <2> QED BY <2>1 DEF ParentType, CallType, LoopType, ChildType, parent,
                      pend, cend
<1>1. CASE HandleRequest(h)
  <2>1. CASE UNCHANGED <<inbound, hreq>> /\ hpc' = [hpc EXCEPT ![h] = "stopped"]
    BY <1>0, <1>1, <2>1 DEF HandleRequest, HandlerType, QueueType
  <2>2. CASE /\ inbound # <<>> /\ inbound' = Tail(inbound)
             /\ hreq' = [hreq EXCEPT ![h] = Head(inbound)]
             /\ hpc' = [hpc EXCEPT ![h] = "handle"]
    <3>1. /\ Head(inbound) \in Frame /\ inbound' \in Seq(Frame)
          /\ Len(inbound') <= InboundCap
      BY <2>2, TailFrames, ConstantsOK DEF QueueType
    <3>2. QueueType'
      BY <1>1, <2>2, <3>1 DEF HandleRequest, QueueType
    <3>3. HandlerType' /\ (DOMAIN hreq = Handlers)'
      BY <2>2, <3>1 DEF HandlerType
    <3> QED BY <1>0, <3>2, <3>3
  <2> QED BY <1>1, <2>1, <2>2 DEF HandleRequest
<1>2. CASE Answer(h)
  <2>1. hreq[h].data \in Data
    BY <1>2 DEF Answer, Respond, HandlerType, Frame
  <2> QED BY <1>2, <2>1, TypesRespond DEF Answer
<1>3. CASE Handled(h)
  BY <1>0, <1>3 DEF Handled, HandlerType, QueueType
<1> QED BY <1>1, <1>2, <1>3 DEF Handler

LEMMA TypesStep == Types /\ [Next]_vars => Types'
<1> SUFFICES ASSUME Types, [Next]_vars PROVE Types'
  OBVIOUS
<1>1. CASE UNCHANGED vars
  BY <1>1 DEF Types, ParentType, LoopType, QueueType, ChildType, HandlerType,
              CallType, vars, parent, pend, cend, child
<1> QED
  BY <1>1, TypesRequester, TypesRequest, TypesParent, TypesChild, TypesHandler
     DEF Next

\* Types: every variable of both multiplexers keeps the range that
\* fdchan.go's types and maps give it; no queue exceeds its capacity.
THEOREM TypeCorrect == Spec => []TypeOK
<1>1. Init => Types BY TypesInit
<1>2. Types /\ [Next]_vars => Types' BY TypesStep
<1> QED BY <1>1, <1>2, TypesAreTypes, PTL DEF Spec

-----------------------------------------------------------------------------
(***************************************************************************)
(* Requests and answers pair up in fdchan: SessionsAwaited and OwnAnswer,  *)
(* for any number of requesters, handlers and requests, any queue          *)
(* capacities, either side closing and the child dying at any moment.      *)
(*                                                                         *)
(* The argument.  Sequence numbers are given out once, so two requesters   *)
(* never hold the same one (Distinct), and the channel of a number that is *)
(* not registered yet is empty (Fresh).  A frame, wherever it is, says     *)
(* what the call with its number asked (Truthful); so what is sent on a    *)
(* session's channel answers the call that waits there (Channels).         *)
(***************************************************************************)

Distinct == \A q, r \in Requesters : seq[q] = seq[r] /\ seq[q] # 0 => q = r

Fresh ==
  /\ \A s \in Seqs : s > nextSeq => ch[s] = "empty"
  /\ \A r \in Requesters :
       rpc[r] = "register" => ch[seq[r]] = "empty" /\ seq[r] \notin sessions

Told(f) ==
  /\ f.seq <= nextSeq
  /\ f.seq # 0 => \A r \in Requesters : seq[r] = f.seq => f.data = asked[r]

Truthful ==
  /\ \A f \in Frames(down) : Told(f)
  /\ \A f \in Frames(up) : Told(f)
  /\ \A f \in Frames(inbound) : Told(f)
  /\ Told(phand) /\ Told(chand)
  /\ \A h \in Handlers : Told(hreq[h])

Channels ==
  \A r \in Requesters :
    seq[r] # 0 /\ ch[seq[r]] \in Data => ch[seq[r]] = asked[r]

Calls == Distinct /\ Fresh /\ Channels /\ SessionsAwaited /\ OwnAnswer
MuxInv == Types /\ Calls /\ Truthful

LEMMA MuxInit == Init => MuxInv
<1> SUFFICES ASSUME Init PROVE MuxInv
  OBVIOUS
<1>1. Types BY TypesInit
<1> USE ConstantsOK DEF Init, InitWith
<1>2. Calls
  BY DEF Calls, Distinct, Fresh, Channels, SessionsAwaited, OwnAnswer
<1>3. Told(NoFrame)
  BY DEF Told, NoFrame
<1>4. Frames(<<>>) = {}
  BY DEF Frames
<1>5. Truthful
  BY <1>3, <1>4 DEF Truthful
<1> QED BY <1>1, <1>2, <1>5 DEF MuxInv

-----------------------------------------------------------------------------
(* Frames move, and none of them changes: as long as no call begins, what  *)
(* was told stays told.                                                    *)

LEMMA ToldStays ==
  ASSUME NEW f, Told(f), UNCHANGED <<nextSeq, seq, asked>>
  PROVE  Told(f)'
BY DEF Told

LEMMA CallsFrame ==
  ASSUME Calls, UNCHANGED parent
  PROVE  Calls'
BY DEF Calls, Distinct, Fresh, Channels, SessionsAwaited, OwnAnswer, parent, Seqs

LEMMA CallsRequester ==
  ASSUME MuxInv, NEW r \in Requesters, Requester(r)
  PROVE  Calls'
<1> USE DEF MuxInv, Calls
<1>0. /\ Distinct' /\ nextSeq' = nextSeq /\ seq' = seq /\ asked' = asked
      /\ seq[r] \in Seqs
  BY ConstantsOK DEF Requester, Register, Write, Undo, Result, Distinct, Types,
                     ParentType, CallType, Seqs
<1>1. CASE Register(r)
  <2>1. Fresh'
    BY <1>1, <1>0 DEF Register, Goto, Fresh, Distinct, Types, ParentType, CallType
  <2>2. Channels' /\ OwnAnswer'
    BY <1>1 DEF Register, Goto, Channels, OwnAnswer, Types, ParentType
  <2>3. SessionsAwaited'
    BY <1>1 DEF Register, Goto, SessionsAwaited, Fresh, Types, ParentType
  <2> QED BY <1>0, <2>1, <2>2, <2>3
<1>2. CASE Write(r) \/ Undo(r)
  <2>0. /\ UNCHANGED <<ch, got>> /\ rpc[r] \in {"write", "undo"}
        /\ \/ sessions' = sessions /\ rpc' = [rpc EXCEPT ![r] = "undo"]
           \/ sessions' = sessions /\ rpc' = [rpc EXCEPT ![r] = "wait"]
           \/ /\ sessions' = sessions \ {seq[r]}
              /\ rpc' = [rpc EXCEPT ![r] = "failed"]
    BY <1>2 DEF Write, Undo, Goto
  <2>1. Fresh'
    BY <1>0, <2>0 DEF Fresh, Types, ParentType
  <2>2. Channels' /\ OwnAnswer'
    BY <1>0, <2>0 DEF Channels, OwnAnswer, Types, ParentType
  <2>3. SessionsAwaited'
    <3> SUFFICES ASSUME NEW s \in sessions'
                 PROVE  /\ ch'[s] = "empty"
                        /\ \E q \in Requesters :
                             seq'[q] = s /\ rpc'[q] \in {"write", "undo", "wait"}
      BY DEF SessionsAwaited
    <3>1. s \in sessions /\ (s = seq[r] => rpc'[r] \in {"undo", "wait"})
      BY <2>0 DEF Types, ParentType
    <3>2. PICK q \in Requesters :
            seq[q] = s /\ rpc[q] \in {"write", "undo", "wait"}
      BY <3>1 DEF SessionsAwaited
    <3>3. rpc'[q] \in {"write", "undo", "wait"}
      BY <2>0, <3>1, <3>2 DEF Types, ParentType
    <3> QED BY <1>0, <2>0, <3>1, <3>2, <3>3 DEF SessionsAwaited
  <2> QED BY <1>0, <2>1, <2>2, <2>3
<1>3. CASE Result(r)
  <2>0. /\ sessions' = sessions /\ seq[r] \notin sessions
        /\ ch \in [Seqs -> Data \cup {"empty", "closed"}]
        /\ rpc \in [Requesters -> InCall \cup {"idle", "answered", "failed"}]
        /\ got \in [Requesters -> Data \cup {NoData}]
    <3>1. sessions' = sessions /\ ch[seq[r]] # "empty"
      BY <1>3 DEF Result
    <3>2. \A s \in sessions : ch[s] = "empty"
      BY DEF SessionsAwaited
    <3> QED BY <3>1, <3>2 DEF Types, ParentType
  <2>1. CASE /\ ch[seq[r]] = "closed" /\ UNCHANGED <<got, ch>>
             /\ rpc' = [rpc EXCEPT ![r] = "failed"]
    <3>1. Fresh' /\ Channels' /\ OwnAnswer'
      BY <1>0, <2>0, <2>1 DEF Fresh, Channels, OwnAnswer
    <3>2. SessionsAwaited'
      BY <1>0, <2>0, <2>1 DEF SessionsAwaited
    <3> QED BY <1>0, <3>1, <3>2
  <2>2. CASE /\ ch[seq[r]] # "closed"
             /\ got' = [got EXCEPT ![r] = ch[seq[r]]]
             /\ ch' = [ch EXCEPT ![seq[r]] = "empty"]
             /\ rpc' = [rpc EXCEPT ![r] = "answered"]
    <3>1. ch[seq[r]] = asked[r]
      BY <1>0, <1>3, <2>0, <2>2, ConstantsOK DEF Result, Channels, Seqs
    <3>2. \A s \in Seqs : ch'[s] = IF s = seq[r] THEN "empty" ELSE ch[s]
      BY <2>0, <2>2
    <3>3. Fresh'
      <4>1. \A q \in Requesters : rpc'[q] = "register" => rpc[q] = "register"
        BY <2>0, <2>2
      <4>2. \A q \in Requesters : rpc[q] = "register" => seq[q] \in Seqs
        BY ConstantsOK DEF Types, ParentType, CallType, Seqs
      <4> QED BY <1>0, <2>0, <3>2, <4>1, <4>2 DEF Fresh
    <3>4. Channels'
      <4>1. \A q \in Requesters : seq[q] # 0 => seq[q] \in Seqs
        BY ConstantsOK DEF Types, ParentType, Seqs
      <4> QED BY <1>0, <3>2, <4>1, ConstantsOK DEF Channels
    <3>5. OwnAnswer'
      BY <1>0, <2>0, <2>2, <3>1 DEF OwnAnswer
    <3>6. SessionsAwaited'
      <4>1. ASSUME NEW s \in sessions PROVE s \in Seqs
        <5>1. s \in 1 .. nextSeq /\ nextSeq \in 0 .. MaxSeq
          BY DEF Types, ParentType
        <5> QED BY <5>1, ConstantsOK DEF Seqs
      <4>2. \A q \in Requesters : q # r => rpc'[q] = rpc[q]
        BY <2>0, <2>2
      <4> QED BY <1>0, <2>0, <3>2, <4>1, <4>2 DEF SessionsAwaited
    <3> QED BY <1>0, <3>3, <3>4, <3>5, <3>6
  <2> QED BY <1>3, <2>1, <2>2 DEF Result, Goto
<1> QED BY <1>1, <1>2, <1>3 DEF Requester

LEMMA CallsRequest ==
  ASSUME MuxInv, NEW r \in Requesters, NEW d \in Data, Request(r, d)
  PROVE  Calls' /\ Truthful'
<1> USE DEF MuxInv
<1>1. /\ nextSeq \in Nat /\ nextSeq' = nextSeq + 1 /\ nextSeq' \in Seqs
      /\ seq' = [seq EXCEPT ![r] = nextSeq + 1]
      /\ asked' = [asked EXCEPT ![r] = d]
      /\ rpc' = [rpc EXCEPT ![r] = "register"]
      /\ UNCHANGED <<ch, sessions, got>>
  BY ConstantsOK DEF Request, Goto, Types, ParentType, Seqs
<1>2. \A q \in Requesters : seq[q] \in 0 .. nextSeq
  BY DEF Types, ParentType
<1>3. Distinct'
  BY <1>1, <1>2 DEF Calls, Distinct, Types, ParentType
<1>4. ch[nextSeq + 1] = "empty" /\ nextSeq + 1 \notin sessions
  BY <1>1 DEF Calls, Fresh, Types, ParentType
<1>5. Fresh'
  BY <1>1, <1>4 DEF Calls, Fresh, Types, ParentType, Seqs
<1>6. Channels'
  BY <1>1, <1>4, ConstantsOK DEF Calls, Channels, Types, ParentType
<1>7. SessionsAwaited' /\ OwnAnswer'
  BY <1>1 DEF Request, Calls, SessionsAwaited, OwnAnswer, Types, ParentType
<1>8. ASSUME NEW f, Told(f), f.seq \in 0 .. MaxSeq PROVE Told(f)'
  BY <1>1, <1>2, <1>8 DEF Told, Types, ParentType
<1>9. /\ \A f \in Frames(down) \cup Frames(up) \cup Frames(inbound) :
           f.seq \in 0 .. MaxSeq
      /\ phand.seq \in 0 .. MaxSeq /\ chand.seq \in 0 .. MaxSeq
      /\ \A h \in Handlers : hreq[h].seq \in 0 .. MaxSeq
  <2>1. \A f \in Frame : f.seq \in 0 .. MaxSeq
    BY ConstantsOK DEF Frame, Seqs
  <2>2. NoFrame.seq \in 0 .. MaxSeq
    BY ConstantsOK DEF NoFrame
  <2>3. \A f \in Frames(down) \cup Frames(up) \cup Frames(inbound) : f \in Frame
    BY DEF Frames, Types, QueueType
  <2>4. phand \in Frame \cup {NoFrame} /\ chand \in Frame \cup {NoFrame}
    BY DEF Types, LoopType, ChildType
  <2>5. \A h \in Handlers : hreq[h] \in Frame \cup {NoFrame}
    BY DEF Types, HandlerType
  <2> QED BY <2>1, <2>2, <2>3, <2>4, <2>5
<1>10. Truthful'
  <2>1. UNCHANGED <<down, up, inbound, phand, chand, hreq>>
    BY DEF Request, pend, child
  <2>2. \A f : Told(f) /\ f.seq \in 0 .. MaxSeq => Told(f)'
    BY <1>8
  <2> QED BY <2>1, <2>2, <1>9 DEF Truthful
<1> QED BY <1>3, <1>5, <1>6, <1>7, <1>10 DEF Calls

LEMMA CallsParent ==
  ASSUME MuxInv, ParentLoop
  PROVE  Calls'
<1> USE DEF MuxInv, Calls
<1>1. CASE ParentRead
  BY <1>1, CallsFrame DEF ParentRead
<1>2. CASE Deliver
  <2>0. phand \in Frame /\ phand.seq \in Seqs /\ phand.data \in Data
    BY <1>2 DEF Deliver, Types, LoopType, Frame
  <2>1. CASE phand.seq \notin sessions
    BY <1>2, <2>1, CallsFrame DEF Deliver, parent
  <2>2. CASE phand.seq \in sessions
    <3>1. /\ UNCHANGED <<nextSeq, rpc, seq, asked, got>>
          /\ sessions' = sessions \ {phand.seq}
          /\ ch' = [ch EXCEPT ![phand.seq] = phand.data]
          /\ phand.seq <= nextSeq /\ phand.seq # 0
      BY <1>2, <2>0, <2>2 DEF Deliver, Types, ParentType, Seqs
    <3>2. Distinct' /\ OwnAnswer'
      BY <3>1 DEF Distinct, OwnAnswer
    <3>3. Fresh'
      BY <3>1, <2>2, ConstantsOK DEF Fresh, Types, ParentType, Seqs
    <3>4. Channels'
      BY <3>1, <2>0 DEF Channels, Truthful, Told, Types, ParentType
    <3>5. SessionsAwaited'
      BY <3>1 DEF SessionsAwaited, Types, ParentType
    <3> QED BY <3>2, <3>3, <3>4, <3>5
  <2> QED BY <2>1, <2>2
<1>3. CASE Reset
  <2>1. Distinct' /\ OwnAnswer' /\ SessionsAwaited'
    BY <1>3 DEF Reset, Distinct, OwnAnswer, SessionsAwaited
  <2>2. Fresh'
    <3>1. \A s \in sessions : s \in 1 .. nextSeq
      BY DEF Types, ParentType
    <3>2. \A r \in Requesters : rpc[r] = "register" => seq[r] \in Seqs
      BY ConstantsOK DEF Types, ParentType, CallType, Seqs
    <3> QED BY <1>3, <3>1, <3>2 DEF Reset, Fresh, Types, ParentType, Seqs
  <2>3. Channels'
    <3>1. \A r \in Requesters : seq[r] # 0 => seq[r] \in Seqs
      BY ConstantsOK DEF Types, ParentType, Seqs
    <3> QED BY <1>3, <3>1, ConstantsOK DEF Reset, Channels
  <2> QED BY <2>1, <2>2, <2>3
<1> QED BY <1>1, <1>2, <1>3 DEF ParentLoop

-----------------------------------------------------------------------------
(* Truthful, while frames move.                                            *)

LEMMA TruthWrite ==
  ASSUME MuxInv, NEW r \in Requesters, Requester(r)
  PROVE  Truthful'
<1> USE DEF MuxInv
<1>1. UNCHANGED <<nextSeq, seq, asked, up, inbound, phand, chand, hreq>>
  BY DEF Requester, Register, Write, Undo, Result, pend, child
<1>2. \A f : Told(f) => Told(f)'
  BY <1>1, ToldStays
<1>3. \A f \in Frames(down') : Told(f)
  <2>1. CASE down' = down
    BY <2>1 DEF Truthful
  <2>2. ASSUME NEW size \in Sizes, Write(r),
               down' = Append(down, [seq |-> seq[r], data |-> asked[r],
                                     size |-> size])
        PROVE  \A f \in Frames(down') : Told(f)
    <3> DEFINE new == [seq |-> seq[r], data |-> asked[r], size |-> size]
    <3>1. new \in Frame
      BY <2>2, ConstantsOK DEF Write, Types, ParentType, CallType, Frame, Seqs
    <3>2. Told(new)
      BY <2>2 DEF Told, Calls, Distinct, Types, ParentType
    <3>3. \A f \in Frames(down') : f \in Frames(down) \/ f = new
      BY <2>2, <3>1, AppendFrames DEF Types, QueueType
    <3> QED BY <3>2, <3>3 DEF Truthful
  <2> QED BY <2>1, <2>2 DEF Requester, Register, Write, Undo, Result
<1> QED BY <1>1, <1>2, <1>3 DEF Truthful

LEMMA TruthParent ==
  ASSUME MuxInv,
         ParentLoop \/ ReleaseHandle \/ ParentClose \/ ParentCloseConn
           \/ ParentClosed
  PROVE  Truthful'
<1> USE DEF MuxInv
<1>1. UNCHANGED <<nextSeq, seq, asked, down, inbound, chand, hreq>>
  BY DEF ParentLoop, ParentRead, Deliver, Reset, ReleaseHandle, ParentClose,
         ParentCloseConn, ParentClosed, parent, child
<1>2. \A f : Told(f) => Told(f)'
  BY <1>1, ToldStays
<1>3. (\A f \in Frames(up') : Told(f)) /\ Told(phand')
  <2>1. CASE up' = up /\ phand' = phand
    BY <2>1 DEF Truthful
  <2>2. CASE ParentRead /\ up # <<>> /\ up' = Tail(up)
    <3>1. Head(up) \in Frames(up) /\ Frames(up') \subseteq Frames(up)
      BY <2>2, TailFrames DEF Types, QueueType
    <3>2. phand' = Head(up) \/ phand' = phand
      BY <2>2 DEF ParentRead
    <3> QED BY <3>1, <3>2 DEF Truthful
  <2>3. CASE up' = up /\ phand' = NoFrame
    BY <2>3 DEF Truthful, Told, NoFrame, Types, ParentType
  <2> QED BY <2>1, <2>2, <2>3 DEF ParentLoop, ParentRead, Deliver, Reset,
             ReleaseHandle, ParentClose, ParentCloseConn, ParentClosed
<1> QED BY <1>1, <1>2, <1>3 DEF Truthful

LEMMA TruthChild ==
  ASSUME MuxInv, ChildLoop \/ ChildClose \/ ChildClosed \/ ChildDies
  PROVE  Truthful'
<1> USE DEF MuxInv
<1>1. UNCHANGED <<nextSeq, seq, asked, up, phand, hreq>>
  BY DEF ChildLoop, ChildRead, Push, ChildClose, ChildClosed, ChildDies,
         parent, pend, child
<1>2. \A f : Told(f) => Told(f)'
  BY <1>1, ToldStays
<1>3. /\ \A f \in Frames(down') : Told(f)
      /\ \A f \in Frames(inbound') : Told(f)
      /\ Told(chand')
  <2>1. CASE UNCHANGED <<down, inbound, chand>>
    BY <2>1 DEF Truthful
  <2>2. CASE ChildRead /\ down # <<>> /\ down' = Tail(down)
    <3>1. Head(down) \in Frames(down) /\ Frames(down') \subseteq Frames(down)
      BY <2>2, TailFrames DEF Types, QueueType
    <3>2. (chand' = Head(down) \/ chand' = chand) /\ inbound' = inbound
      BY <2>2 DEF ChildRead
    <3> QED BY <3>1, <3>2 DEF Truthful
  <2>3. CASE Push
    <3>1. chand \in Frame
      BY <2>3 DEF Push, Types, ChildType
    <3>2. \A f \in Frames(inbound') : f \in Frames(inbound) \/ f = chand
      BY <2>3, <3>1, AppendFrames DEF Push, Types, QueueType
    <3>3. chand' = NoFrame /\ down' = down
      BY <2>3 DEF Push
    <3> QED BY <3>2, <3>3 DEF Truthful, Told, NoFrame, Types, ParentType
  <2> QED BY <2>1, <2>2, <2>3 DEF ChildLoop, ChildRead, ChildClose, ChildClosed,
             ChildDies, child
<1> QED BY <1>1, <1>2, <1>3 DEF Truthful

LEMMA TruthHandler ==
  ASSUME MuxInv, NEW h \in Handlers, Handler(h)
  PROVE  Truthful'
<1> USE DEF MuxInv
<1>1. UNCHANGED <<nextSeq, seq, asked, down, phand, chand>>
  BY DEF Handler, HandleRequest, Answer, Respond, Handled, parent, pend
<1>2. \A f : Told(f) => Told(f)'
  BY <1>1, ToldStays
<1>3. /\ \A f \in Frames(up') : Told(f)
      /\ \A f \in Frames(inbound') : Told(f)
      /\ \A g \in Handlers : Told(hreq'[g])
  <2>1. CASE UNCHANGED <<up, inbound, hreq>>
    BY <2>1 DEF Truthful
  <2>2. CASE /\ inbound # <<>> /\ inbound' = Tail(inbound) /\ up' = up
             /\ hreq' = [hreq EXCEPT ![h] = Head(inbound)]
    <3>1. /\ Head(inbound) \in Frames(inbound)
          /\ Frames(inbound') \subseteq Frames(inbound)
      BY <2>2, TailFrames DEF Types, QueueType
    <3> QED BY <2>2, <3>1 DEF Truthful, Types
  <2>3. ASSUME Answer(h), NEW size \in Sizes,
               up' = Append(up, [seq |-> hreq[h].seq, data |-> hreq[h].data,
                                 size |-> size])
        PROVE  /\ \A f \in Frames(up') : Told(f)
               /\ UNCHANGED <<inbound, hreq>>
    <3> DEFINE new == [seq |-> hreq[h].seq, data |-> hreq[h].data,
                       size |-> size]
    <3>1. hreq[h] \in Frame
      BY <2>3 DEF Answer, Respond, Types, HandlerType
    <3>2. new \in Frame
      BY <3>1 DEF Frame
    <3>3. Told(hreq[h]) => Told(new)
      BY DEF Told
    <3>4. \A f \in Frames(up') : f \in Frames(up) \/ f = new
      BY <2>3, <3>2, AppendFrames DEF Types, QueueType
    <3>5. UNCHANGED <<inbound, hreq>>
      BY <2>3 DEF Answer, Respond
    <3> QED BY <3>3, <3>4, <3>5 DEF Truthful
  <2>4. CASE Handled(h)
    BY <2>4 DEF Handled, Truthful, Told, NoFrame, Types, ParentType
  <2>5. CASE HandleRequest(h)
    BY <2>5, <2>1, <2>2 DEF HandleRequest
  <2>6. CASE Answer(h)
    <3>1. CASE UNCHANGED up
      BY <2>1, <2>6, <3>1 DEF Answer, Respond
    <3>2. CASE \E size \in Sizes :
                 up' = Append(up, [seq |-> hreq[h].seq, data |-> hreq[h].data,
                                   size |-> size])
      BY <2>3, <2>6, <3>2 DEF Truthful
    <3> QED BY <2>6, <3>1, <3>2 DEF Answer, Respond
  <2> QED BY <2>4, <2>5, <2>6 DEF Handler
<1> QED BY <1>1, <1>2, <1>3 DEF Truthful

LEMMA MuxStep == MuxInv /\ [Next]_vars => MuxInv'
<1> SUFFICES ASSUME MuxInv, [Next]_vars PROVE Calls' /\ Truthful'
  BY TypesStep DEF MuxInv
<1>1. CASE UNCHANGED vars
  BY <1>1, CallsFrame
     DEF MuxInv, Truthful, Told, vars, parent, pend, child
<1>2. CASE \E r \in Requesters : Requester(r)
  BY <1>2, CallsRequester, TruthWrite
<1>3. CASE \E r \in Requesters : \E d \in Data : Request(r, d)
  BY <1>3, CallsRequest
<1>4. CASE \E h \in Handlers : Handler(h)
  <2>1. UNCHANGED parent
    BY <1>4 DEF Handler, HandleRequest, Answer, Respond, Handled
  <2> QED BY <1>4, <2>1, CallsFrame, TruthHandler DEF MuxInv
<1>5. CASE ParentLoop
  BY <1>5, CallsParent, TruthParent
<1>6. CASE ReleaseHandle \/ ParentClose \/ ParentCloseConn \/ ParentClosed
  <2>1. UNCHANGED parent
    BY <1>6 DEF ReleaseHandle, ParentClose, ParentCloseConn, ParentClosed
  <2> QED BY <1>6, <2>1, CallsFrame, TruthParent DEF MuxInv
<1>7. CASE ChildLoop \/ ChildClose \/ ChildClosed \/ ChildDies
  <2>1. UNCHANGED parent
    BY <1>7 DEF ChildLoop, ChildRead, Push, ChildClose, ChildClosed, ChildDies
  <2> QED BY <1>7, <2>1, CallsFrame, TruthChild DEF MuxInv
<1> QED BY <1>1, <1>2, <1>3, <1>4, <1>5, <1>6, <1>7 DEF Next

\* Sessions: every key of mux.sessions is awaited by a Request under way and
\* has an open, empty channel, so readLoop's send never blocks with
\* sessionsMu held and no channel is closed twice.
THEOREM SessionsPaired == Spec => []SessionsAwaited
<1>1. MuxInv => SessionsAwaited BY DEF MuxInv, Calls
<1> QED BY <1>1, MuxInit, MuxStep, PTL DEF Spec

\* Answers: a Request returns what was said about its own request, for
\* handlers that answer what they were asked.
THEOREM AnswersMatch == Spec => []OwnAnswer
<1>1. MuxInv => OwnAnswer BY DEF MuxInv, Calls
<1> QED BY <1>1, MuxInit, MuxStep, PTL DEF Spec

-----------------------------------------------------------------------------
(* One copy of a request: nothing the child does makes a second one, and a *)
(* call that has not written yet has none (Unsent).                        *)

Unique(q) == \A i, j \in DOMAIN q : q[i].seq = q[j].seq => i = j
Unsent(s) == \E r \in Requesters : rpc[r] \in {"register", "write"} /\ seq[r] = s

Once ==
  /\ OneCopy
  /\ \A f \in Frames(Pending) : ~Unsent(f.seq)
  /\ \A h \in Handlers : hreq[h].seq # 0 => ~Unsent(hreq[h].seq)

LEMMA UniqueAppend ==
  ASSUME NEW S, NEW q \in Seq(S), NEW x \in S, Unique(q),
         \A f \in Frames(q) : f.seq # x.seq
  PROVE  Unique(Append(q, x))
BY DEF Unique, Frames

LEMMA UniqueTail ==
  ASSUME NEW S, NEW q \in Seq(S), q # <<>>, Unique(q)
  PROVE  Unique(Tail(q)) /\ \A f \in Frames(Tail(q)) : f.seq # Head(q).seq
BY DEF Unique, Frames

\* A frame that readWire cannot decode is lost.
LEMMA UniqueLost ==
  ASSUME NEW S, NEW p \in Seq(S), NEW q \in Seq(S), q # <<>>, Unique(p \o q)
  PROVE  /\ Unique(p \o Tail(q))
         /\ \A f \in Frames(p \o Tail(q)) : f \in Frames(p \o q)
<1> DEFINE At(i) == IF i <= Len(p) THEN i ELSE i + 1
<1>1. ASSUME NEW i \in DOMAIN (p \o Tail(q))
      PROVE  At(i) \in DOMAIN (p \o q) /\ (p \o Tail(q))[i] = (p \o q)[At(i)]
  OBVIOUS
<1>2. ASSUME NEW i \in DOMAIN (p \o Tail(q)), NEW j \in DOMAIN (p \o Tail(q)),
             At(i) = At(j)
      PROVE  i = j
  BY <1>2
<1> HIDE DEF At
<1>3. ASSUME NEW i \in DOMAIN (p \o Tail(q)), NEW j \in DOMAIN (p \o Tail(q)),
             (p \o Tail(q))[i].seq = (p \o Tail(q))[j].seq
      PROVE  i = j
  <2>1. (p \o q)[At(i)].seq = (p \o q)[At(j)].seq
    BY <1>1, <1>3
  <2>2. At(i) \in DOMAIN (p \o q) /\ At(j) \in DOMAIN (p \o q)
    BY <1>1
  <2>3. At(i) = At(j) BY <2>1, <2>2 DEF Unique
  <2> QED BY <1>2, <2>3
<1>4. Unique(p \o Tail(q)) BY <1>3 DEF Unique
<1>5. \A f \in Frames(p \o Tail(q)) : f \in Frames(p \o q)
  BY <1>1 DEF Frames
<1> QED BY <1>4, <1>5

LEMMA Moves ==
  ASSUME NEW S, NEW p \in Seq(S), NEW m \in Seq(S), NEW q \in Seq(S), NEW x \in S
  PROVE  /\ Append(p, x) \o <<>> \o q = p \o <<x>> \o q
         /\ q # <<>> => p \o <<Head(q)>> \o Tail(q) = p \o <<>> \o q
         /\ p # <<>> => Tail(p) \o m \o q = Tail(p \o m \o q)
         /\ p # <<>> => Head(p \o m \o q) = Head(p) /\ p \o m \o q # <<>>
         /\ p \o m \o Append(q, x) = Append(p \o m \o q, x)
<1>1. Append(p, x) \o <<>> \o q = p \o <<x>> \o q
  OBVIOUS
<1>2. q # <<>> => p \o <<Head(q)>> \o Tail(q) = p \o <<>> \o q
  OBVIOUS
<1>3. p # <<>> => Tail(p) \o m \o q = Tail(p \o m \o q)
  OBVIOUS
<1>4. p # <<>> => Head(p \o m \o q) = Head(p) /\ p \o m \o q # <<>>
  OBVIOUS
<1>5. p \o m \o Append(q, x) = Append(p \o m \o q, x)
  OBVIOUS
<1> QED BY <1>1, <1>2, <1>3, <1>4, <1>5

LEMMA PendingType ==
  ASSUME MuxInv
  PROVE  /\ Pending \in Seq(Frame)
         /\ \A f \in Frames(Pending) : f.seq \in 1 .. nextSeq
<1> USE DEF MuxInv
<1> DEFINE m == IF cloop = "push" THEN <<chand>> ELSE <<>>
<1>1. inbound \in Seq(Frame) /\ down \in Seq(Frame)
  BY DEF Types, QueueType
<1>2. cloop = "push" => chand \in Frame
  BY DEF Types, ChildType
<1>3. m \in Seq(Frame) /\ \A i \in DOMAIN m : m[i] = chand
  BY <1>2
<1> HIDE DEF m
<1>4. inbound \o m \in Seq(Frame)
  BY <1>1, <1>3
<1>5. ASSUME NEW i \in DOMAIN (inbound \o m)
      PROVE  Told((inbound \o m)[i])
  <2>1. (inbound \o m)[i] \in Frames(inbound) \/ (inbound \o m)[i] = chand
    BY <1>1, <1>3 DEF Frames
  <2> QED BY <2>1 DEF Truthful
<1>6. (inbound \o m) \o down \in Seq(Frame)
  BY <1>1, <1>4
<1>7. ASSUME NEW i \in DOMAIN ((inbound \o m) \o down)
      PROVE  Told(((inbound \o m) \o down)[i])
  <2>1. CASE i \in DOMAIN (inbound \o m)
    BY <1>1, <1>4, <1>5, <2>1
  <2>2. CASE i \notin DOMAIN (inbound \o m)
    <3>1. ((inbound \o m) \o down)[i] \in Frames(down)
      BY <1>1, <1>4, <2>2 DEF Frames
    <3> QED BY <3>1 DEF Truthful
  <2> QED BY <2>1, <2>2
<1>8. Pending = (inbound \o m) \o down
  BY DEF Pending, m
<1>9. \A f \in Frames(Pending) : Told(f) /\ f \in Frame
  BY <1>6, <1>7, <1>8 DEF Frames
<1> QED
  BY <1>6, <1>8, <1>9, ConstantsOK DEF Told, Frame, Seqs, Types, ParentType

\* A step that moves no request and lets none become unsent.
LEMMA OnceFrame ==
  ASSUME Once, UNCHANGED <<Pending, hreq>>, \A s : Unsent(s)' => Unsent(s)
  PROVE  Once'
BY DEF Once, OneCopy, Frames

LEMMA OnceRequest ==
  ASSUME MuxInv, Once, NEW r \in Requesters, NEW d \in Data, Request(r, d)
  PROVE  Once'
<1>1. /\ nextSeq \in Nat /\ UNCHANGED <<Pending, hreq>>
      /\ seq' = [seq EXCEPT ![r] = nextSeq + 1]
      /\ rpc' = [rpc EXCEPT ![r] = "register"]
      /\ DOMAIN seq = Requesters /\ DOMAIN rpc = Requesters
  BY ConstantsOK DEF Request, Goto, MuxInv, Types, ParentType, Pending, pend,
                     child
<1>2. \A s : Unsent(s)' => Unsent(s) \/ s = nextSeq + 1
  BY <1>1 DEF Unsent
<1>3. \A f \in Frames(Pending) : f.seq # nextSeq + 1
  BY <1>1, PendingType
<1>4. \A h \in Handlers : hreq[h].seq # nextSeq + 1
  <2>1. \A h \in Handlers : hreq[h].seq <= nextSeq
    BY DEF MuxInv, Truthful, Told
  <2>2. \A h \in Handlers : hreq[h].seq \in Nat
    BY ConstantsOK DEF MuxInv, Types, HandlerType, Frame, NoFrame, Seqs
  <2> QED BY <1>1, <2>1, <2>2
<1> QED BY <1>1, <1>2, <1>3, <1>4 DEF Once, OneCopy, Frames

LEMMA OnceRequester ==
  ASSUME MuxInv, Once, NEW r \in Requesters, Requester(r)
  PROVE  Once'
<1>1. /\ DOMAIN rpc = Requesters
      /\ UNCHANGED <<seq, inbound, cloop, chand, hreq>>
  BY DEF Requester, Register, Write, Undo, Result, MuxInv, Types, ParentType,
         child
<1>2. CASE down' = down
  <2>1. \A s : Unsent(s)' => Unsent(s)
    BY <1>1 DEF Requester, Register, Write, Undo, Result, Goto, Unsent
  <2>2. UNCHANGED Pending BY <1>1, <1>2 DEF Pending
  <2> QED BY <1>1, <2>1, <2>2, OnceFrame
<1>3. ASSUME NEW size \in Sizes, Write(r), rpc' = [rpc EXCEPT ![r] = "wait"],
             down' = Append(down, [seq |-> seq[r], data |-> asked[r],
                                   size |-> size])
      PROVE  Once'
  <2> DEFINE new == [seq |-> seq[r], data |-> asked[r], size |-> size]
             m == IF cloop = "push" THEN <<chand>> ELSE <<>>
  <2>1. new \in Frame /\ rpc[r] = "write" /\ seq[r] # 0
    BY <1>3, ConstantsOK
       DEF Write, MuxInv, Types, ParentType, CallType, Frame, Seqs
  <2>2. inbound \in Seq(Frame) /\ down \in Seq(Frame) /\ m \in Seq(Frame)
    BY DEF MuxInv, Types, QueueType, ChildType
  <2>3. Pending \in Seq(Frame) BY PendingType
  <2>4. Pending = inbound \o m \o down /\ Pending' = inbound \o m \o down'
    BY <1>1 DEF Pending
  <2> HIDE DEF new, m
  <2>5. down' = Append(down, new) BY <1>3 DEF new
  <2>6. Pending' = Append(Pending, new)
    BY <2>1, <2>2, <2>4, <2>5, Moves
  <2>7. new.seq = seq[r] BY DEF new
  <2>8. Unsent(new.seq) BY <2>1, <2>7 DEF Unsent
  <2>9. \A f \in Frames(Pending) : f.seq # new.seq
    BY <2>8 DEF Once
  <2>10. Unique(Pending)'
    BY <2>1, <2>3, <2>6, <2>9, UniqueAppend DEF Once, OneCopy, Unique
  <2>11. \A f \in Frames(Pending)' : f \in Frames(Pending) \/ f = new
    BY <2>1, <2>3, <2>6, AppendFrames DEF Frames
  <2>12. \A s : Unsent(s)' => Unsent(s) /\ s # new.seq
    BY <1>1, <1>3, <2>1, <2>7 DEF Unsent, MuxInv, Calls, Distinct
  <2>13. \A h \in Handlers : hreq[h].seq # new.seq
    BY <2>1, <2>7, <2>8 DEF Once
  <2>14. OneCopy'
    BY <1>1, <2>10, <2>11, <2>13 DEF Once, OneCopy, Unique
  <2>15. \A h \in Handlers : hreq'[h].seq = hreq[h].seq
    BY <1>1
  <2> QED BY <2>11, <2>12, <2>14, <2>15 DEF Once
<1> QED BY <1>2, <1>3 DEF Requester, Register, Write, Undo, Result, Goto

\* The parent's other steps touch no request.
LEMMA OnceParent ==
  ASSUME Once,
         ParentLoop \/ ReleaseHandle \/ ParentClose \/ ParentCloseConn
           \/ ParentClosed \/ ChildClose \/ ChildClosed \/ ChildDies
  PROVE  Once'
<1>1. UNCHANGED <<rpc, seq, inbound, cloop, chand, down, hreq>>
  BY DEF ParentLoop, ParentRead, Deliver, Reset, ReleaseHandle, ParentClose,
         ParentCloseConn, ParentClosed, ChildClose, ChildClosed, ChildDies,
         parent, child
<1> QED BY <1>1, OnceFrame DEF Unsent, Pending

LEMMA OnceChild ==
  ASSUME MuxInv, Once, ChildLoop
  PROVE  Once'
<1>1. UNCHANGED <<rpc, seq, hreq>> /\ \A s : Unsent(s)' <=> Unsent(s)
  BY DEF ChildLoop, ChildRead, Push, parent, Unsent
<1>2. inbound \in Seq(Frame) /\ down \in Seq(Frame) /\ <<>> \in Seq(Frame)
  BY DEF MuxInv, Types, QueueType
<1>3. CASE Push
  <2>1. chand \in Frame BY <1>3 DEF Push, MuxInv, Types, ChildType
  <2>2. Pending = inbound \o <<chand>> \o down
    BY <1>3 DEF Push, Pending
  <2>3. Pending' = Append(inbound, chand) \o <<>> \o down
    BY <1>3 DEF Push, Pending
  <2>4. Pending' = Pending BY <1>2, <2>1, <2>2, <2>3, Moves
  <2> QED BY <1>1, <2>4, OnceFrame
<1>4. CASE ChildRead
  <2>1. Pending = inbound \o <<>> \o down /\ inbound' = inbound
    BY <1>4 DEF ChildRead, Pending
  <2>2. CASE down' = down /\ cloop' = "ended"
    <3>1. Pending' = Pending
      BY <1>4, <2>1, <2>2 DEF ChildRead, Pending
    <3> QED BY <1>1, <3>1, OnceFrame
  <2>3. CASE down # <<>> /\ down' = Tail(down) /\ chand' = Head(down)
             /\ cloop' = "push"
    <3>1. Pending' = inbound \o <<Head(down)>> \o Tail(down)
      BY <2>1, <2>3 DEF Pending
    <3>2. Head(down) \in Frame BY <1>2, <2>3
    <3>3. Pending' = Pending BY <1>2, <2>1, <2>3, <3>1, <3>2, Moves
    <3> QED BY <1>1, <3>3, OnceFrame
  <2>4. CASE down # <<>> /\ down' = Tail(down) /\ cloop' = "ended"
    <3>1. Pending = inbound \o down BY <1>2, <2>1
    <3>2. Pending' = inbound \o <<>> \o Tail(down)
      BY <2>1, <2>4 DEF Pending
    <3>3. Pending' = inbound \o Tail(down) BY <1>2, <2>4, <3>2
    <3>4. Unique(Pending) BY DEF Once, OneCopy, Unique
    <3>5. Unique(inbound \o Tail(down)) /\
          \A f \in Frames(inbound \o Tail(down)) : f \in Frames(Pending)
      BY <1>2, <2>4, <3>1, <3>4, UniqueLost
    <3>6. Unique(Pending)' /\ \A f \in Frames(Pending)' : f \in Frames(Pending)
      BY <3>3, <3>5 DEF Unique, Frames
    <3> QED BY <1>1, <3>6 DEF Once, OneCopy, Unique
  <2> QED BY <1>4, <2>2, <2>3, <2>4 DEF ChildRead
<1> QED BY <1>3, <1>4 DEF ChildLoop

LEMMA OnceHandler ==
  ASSUME MuxInv, Once, NEW h \in Handlers, Handler(h)
  PROVE  Once'
<1>1. /\ UNCHANGED <<rpc, seq, down, cloop, chand>> /\ DOMAIN hreq = Handlers
      /\ \A s : Unsent(s)' <=> Unsent(s)
  BY DEF Handler, HandleRequest, Answer, Respond, Handled, parent, Unsent,
         MuxInv, Types
<1>2. CASE UNCHANGED <<inbound, hreq>>
  <2>1. UNCHANGED Pending BY <1>1, <1>2 DEF Pending
  <2> QED BY <1>1, <1>2, <2>1, OnceFrame
<1>3. CASE inbound' = inbound /\ hreq' = [hreq EXCEPT ![h] = NoFrame]
  <2>1. UNCHANGED Pending BY <1>1, <1>3 DEF Pending
  <2>2. \A f \in Frames(Pending) : f.seq # 0
    BY PendingType
  <2> QED BY <1>1, <1>3, <2>1, <2>2 DEF Once, OneCopy, Frames, NoFrame
<1>4. CASE /\ inbound # <<>> /\ inbound' = Tail(inbound)
           /\ hreq' = [hreq EXCEPT ![h] = Head(inbound)]
  <2> DEFINE m == IF cloop = "push" THEN <<chand>> ELSE <<>>
             x == Head(inbound)
  <2>1. inbound \in Seq(Frame) /\ down \in Seq(Frame) /\ m \in Seq(Frame)
    BY DEF MuxInv, Types, QueueType, ChildType
  <2>2. x \in Frame BY <1>4, <2>1
  <2>3. Pending = inbound \o m \o down /\ Pending' = Tail(inbound) \o m \o down
    BY <1>1, <1>4 DEF Pending
  <2>4. Pending \in Seq(Frame) BY PendingType
  <2> HIDE DEF m
  <2>5. Pending' = Tail(Pending) /\ Head(Pending) = x /\ Pending # <<>>
    BY <1>4, <2>1, <2>2, <2>3, Moves
  <2> HIDE DEF x
  <2>6. x \in Frames(Pending) /\ Frames(Tail(Pending)) \subseteq Frames(Pending)
    BY <2>4, <2>5, TailFrames
  <2>7. Unique(Pending) BY DEF Once, OneCopy, Unique
  <2>8. Unique(Pending)' /\ \A f \in Frames(Pending)' :
                              f \in Frames(Pending) /\ f.seq # x.seq
    <3>1. Unique(Tail(Pending)) /\ \A f \in Frames(Tail(Pending)) : f.seq # x.seq
      BY <2>4, <2>5, <2>7, UniqueTail
    <3> QED BY <2>5, <2>6, <3>1 DEF Unique, Frames
  <2>9. \A g \in Handlers : hreq'[g] = IF g = h THEN x ELSE hreq[g]
    BY <1>1, <1>4 DEF x
  <2> QED BY <1>1, <2>6, <2>8, <2>9 DEF Once, OneCopy, Unique
<1> QED BY <1>2, <1>3, <1>4 DEF Handler, HandleRequest, Answer, Respond, Handled

LEMMA OnceStep == MuxInv /\ Once /\ [Next]_vars => Once'
<1> SUFFICES ASSUME MuxInv, Once, [Next]_vars PROVE Once'
  OBVIOUS
<1>1. CASE UNCHANGED vars
  BY <1>1, OnceFrame DEF vars, parent, child, Pending, Unsent
<1> QED BY <1>1, OnceRequest, OnceRequester, OnceParent, OnceChild, OnceHandler
        DEF Next

\* One copy: a request is in one place only, so no two handlers of the child
\* get the same one, whatever frames are lost and whoever closes or dies.
THEOREM NoDuplicates == Spec => []OneCopy
<1>1. Init => Once
  <2> SUFFICES ASSUME Init PROVE Once
    OBVIOUS
  <2>1. Pending = <<>> \o <<>> \o <<>> /\ hreq = [h \in Handlers |-> NoFrame]
    BY DEF Init, InitWith, Pending
  <2>2. Pending = <<>> BY <2>1
  <2>3. Frames(Pending) = {} BY <2>2 DEF Frames
  <2> QED BY <2>1, <2>2, <2>3 DEF Once, OneCopy, NoFrame
<1>2. Once => OneCopy BY DEF Once
<1> QED BY <1>1, <1>2, MuxInit, MuxStep, OnceStep, PTL DEF Spec
=============================================================================
