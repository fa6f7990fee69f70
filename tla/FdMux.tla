------------------------------- MODULE FdMux -------------------------------
(***************************************************************************)
(* pkg/sandbox/fdchan: requests and responses multiplexed over one UNIX    *)
(* socket between a Parent and a Child process.                            *)
(*                                                                         *)
(* Parent.Request may be called by many goroutines (Requesters), and       *)
(* Child.HandleRequest too (Handlers).  Each side has a readLoop goroutine.*)
(* A step is what happens under one mutex or in one system call.  The      *)
(* child never sends requests and the parent never answers any (the API    *)
(* offers neither), so each mux has only the half that is used.            *)
(*                                                                         *)
(* The socket is two queues of frames.  The child's end is open while the  *)
(* child has its connection or the parent still holds Parent.childFile.    *)
(* What descriptors travel with a frame is left out.                       *)
(***************************************************************************)
EXTENDS Naturals, Sequences

CONSTANTS
  Requesters,   \* goroutines of the parent that call Request
  Handlers,     \* goroutines of the child that call HandleRequest
  Data,         \* what requests say
  NoData,       \* nothing said yet
  Sizes,        \* "small" frames, and "large" ones that one Read may cut
  MaxSeq,       \* bound: requests made
  WireCap,      \* frames a socket buffer takes before a write blocks
  InboundCap    \* capacity of inboundRx (128 in the code)

ASSUME ConstantsOK ==
  /\ Sizes \subseteq {"small", "large"}
  /\ NoData \notin Data /\ Data \cap {"empty", "closed"} = {}
  /\ MaxSeq \in Nat /\ WireCap \in Nat \ {0} /\ InboundCap \in Nat \ {0}

VARIABLES
  \* the parent
  nextSeq,      \* mux.nextSeq
  rpc,          \* where each requester is in Request
  seq,          \* the sequence number of its request
  asked,        \* what it asked
  got,          \* what it was answered
  sessions,     \* keys of mux.sessions
  ch,           \* the session's channel: "empty", "closed" or its Result
  ploop, phand, \* the parent's readLoop and the frame it has read
  pconn,        \* the parent's connection is open
  childHeld,    \* Parent.childFile is open
  pclose,       \* where Parent.Close is
  \* the socket
  down, up,     \* frames to the child and to the parent
  \* the child
  alive,        \* the child process runs
  cconn,        \* the child's connection is open
  cloop, chand, \* the child's readLoop and the frame it has read
  inbound,      \* mux.inboundRx
  hpc, hreq,    \* where each handler is, and its request
  cclose        \* where Child.Close is

parent == <<nextSeq, rpc, seq, asked, got, sessions, ch>>
pend == <<ploop, phand, pconn, childHeld, pclose>>
cend == <<alive, cconn, cclose>>
child == <<cloop, chand, inbound, hpc, hreq>>
vars == <<parent, pend, down, up, cend, child>>

Seqs == 1 .. MaxSeq
Frame == [seq : Seqs, data : Data, size : Sizes]
NoFrame == [seq |-> 0]

\* newMux on both sides, in a child that has started already or not yet.
InitWith(started) ==
  /\ nextSeq = 0
  /\ rpc = [r \in Requesters |-> "idle"]
  /\ seq = [r \in Requesters |-> 0]
  /\ asked = [r \in Requesters |-> NoData]
  /\ got = [r \in Requesters |-> NoData]
  /\ sessions = {}
  /\ ch = [s \in Seqs |-> "empty"]
  /\ ploop = "read" /\ phand = NoFrame
  /\ pconn = TRUE /\ childHeld = TRUE /\ pclose = "open"
  /\ down = <<>> /\ up = <<>>
  /\ alive = started /\ cconn = started /\ cclose = "open"
  /\ cloop = "read" /\ chand = NoFrame
  /\ inbound = <<>>
  /\ hpc = [h \in Handlers |-> "idle"]
  /\ hreq = [h \in Handlers |-> NoFrame]

Init == InitWith(TRUE)

\* Somebody still holds the child's end of the socket.
ChildEnd == cconn \/ childHeld

Goto(r, label) == rpc' = [rpc EXCEPT ![r] = label]

-----------------------------------------------------------------------------
(* Parent.Request.                                                         *)

\* atomic.AddUint64(&m.nextSeq, 1)
Request(r, d) ==
  /\ rpc[r] \in {"idle", "answered", "failed"}
  /\ nextSeq < MaxSeq
  /\ nextSeq' = nextSeq + 1
  /\ seq' = [seq EXCEPT ![r] = nextSeq']
  /\ asked' = [asked EXCEPT ![r] = d]
  /\ Goto(r, "register")
  /\ UNCHANGED <<got, sessions, ch, pend, down, up, cend, child>>

Register(r) ==
  /\ rpc[r] = "register"
  /\ sessions' = sessions \cup {seq[r]}
  /\ Goto(r, "write")
  /\ UNCHANGED <<nextSeq, seq, asked, got, ch, pend, down, up, cend, child>>

\* writeWire under writeMu: an error if either end is closed; otherwise it
\* blocks while the socket buffer is full.
Write(r) ==
  /\ rpc[r] = "write"
  /\ \/ /\ ~pconn \/ ~ChildEnd
        /\ Goto(r, "undo")
        /\ UNCHANGED down
     \/ /\ pconn /\ ChildEnd
        /\ Len(down) < WireCap
        /\ \E size \in Sizes :
             down' = Append(down, [seq |-> seq[r], data |-> asked[r],
                                   size |-> size])
        /\ Goto(r, "wait")
  /\ UNCHANGED <<nextSeq, seq, asked, got, sessions, ch,
                 pend, up, cend, child>>

\* Faulty variant: a failed write leaves its session behind.
Undo_KeepsSession(r) ==
  /\ rpc[r] = "undo"
  /\ Goto(r, "failed")
  /\ UNCHANGED <<nextSeq, seq, asked, got, sessions, ch,
                 pend, down, up, cend, child>>

\* The write failed: delete(m.sessions, seq).
Undo(r) ==
  /\ rpc[r] = "undo"
  /\ sessions' = sessions \ {seq[r]}
  /\ Goto(r, "failed")
  /\ UNCHANGED <<nextSeq, seq, asked, got, ch, pend, down, up, cend, child>>

\* res, ok := <-resChan
Result(r) ==
  /\ rpc[r] = "wait"
  /\ ch[seq[r]] # "empty"
  /\ IF ch[seq[r]] = "closed"
       THEN Goto(r, "failed") /\ UNCHANGED <<got, ch>>
       ELSE /\ got' = [got EXCEPT ![r] = ch[seq[r]]]
            /\ ch' = [ch EXCEPT ![seq[r]] = "empty"]
            /\ Goto(r, "answered")
  /\ UNCHANGED <<nextSeq, seq, asked, sessions, pend, down, up, cend, child>>

-----------------------------------------------------------------------------
(* The parent's readLoop.                                                  *)

\* readWire succeeds, or fails: the connection is closed, or at its end, or
\* one conn.Read did not return the whole body of a large frame.
ParentRead ==
  /\ ploop = "read"
  /\ \/ /\ ~pconn \/ (up = <<>> /\ ~ChildEnd)
        /\ ploop' = "reset"
        /\ UNCHANGED <<phand, up>>
     \/ /\ pconn /\ up # <<>>
        /\ up' = Tail(up)
        /\ \/ phand' = Head(up) /\ ploop' = "deliver"
           \/ Head(up).size = "large" /\ ploop' = "reset" /\ UNCHANGED phand
  /\ UNCHANGED <<parent, pconn, childHeld, pclose, down, cend, child>>

\* Faulty variant: a response goes to the oldest session.
Deliver_Oldest ==
  /\ ploop = "deliver"
  /\ \/ /\ sessions = {}
        /\ UNCHANGED <<sessions, ch>>
     \/ \E s \in sessions :
          /\ \A t \in sessions : s <= t
          /\ sessions' = sessions \ {s}
          /\ ch' = [ch EXCEPT ![s] = phand.data]
  /\ phand' = NoFrame
  /\ ploop' = "read"
  /\ UNCHANGED <<nextSeq, rpc, seq, asked, got, pconn, childHeld, pclose,
                 down, up, cend, child>>

\* Faulty variant: the session stays in the map after its answer.
Deliver_KeepsSession ==
  /\ ploop = "deliver"
  /\ phand.seq \in sessions => ch[phand.seq] = "empty"
  /\ IF phand.seq \in sessions
       THEN ch' = [ch EXCEPT ![phand.seq] = phand.data]
       ELSE UNCHANGED ch
  /\ phand' = NoFrame
  /\ ploop' = "read"
  /\ UNCHANGED <<nextSeq, rpc, seq, asked, got, sessions,
                 pconn, childHeld, pclose, down, up, cend, child>>

\* Under sessionsMu: a response of no session is dropped.  The send on the
\* session's channel, of capacity one, must find it empty.
Deliver ==
  /\ ploop = "deliver"
  /\ IF phand.seq \in sessions
       THEN /\ ch[phand.seq] = "empty"
            /\ sessions' = sessions \ {phand.seq}
            /\ ch' = [ch EXCEPT ![phand.seq] = phand.data]
       ELSE UNCHANGED <<sessions, ch>>
  /\ phand' = NoFrame
  /\ ploop' = "read"
  /\ UNCHANGED <<nextSeq, rpc, seq, asked, got, pconn, childHeld, pclose,
                 down, up, cend, child>>

\* Faulty variant: the loop ends without closing the sessions.
Reset_Nothing ==
  /\ ploop = "reset"
  /\ ploop' = "ended"
  /\ UNCHANGED <<parent, phand, pconn, childHeld, pclose,
                 down, up, cend, child>>

\* Under sessionsMu: close every session's channel; then close(m.done).
Reset ==
  /\ ploop = "reset"
  /\ ch' = [s \in Seqs |-> IF s \in sessions THEN "closed" ELSE ch[s]]
  /\ sessions' = {}
  /\ ploop' = "ended"
  /\ UNCHANGED <<nextSeq, rpc, seq, asked, got, phand, pconn, childHeld,
                 pclose, down, up, cend, child>>

-----------------------------------------------------------------------------
(* Closing the parent's side.                                              *)

\* closeChildHandle, or the garbage collector closing a File nobody
\* refers to any more (sandbox.Run makes a second File of the descriptor).
ReleaseHandle ==
  /\ childHeld
  /\ childHeld' = FALSE
  /\ UNCHANGED <<parent, ploop, phand, pconn, pclose, down, up, cend, child>>

\* Parent.Close: childFile.Close, conn.Close, <-m.done.
ParentClose ==
  /\ pclose = "open"
  /\ childHeld' = FALSE
  /\ pclose' = "conn"
  /\ UNCHANGED <<parent, ploop, phand, pconn, down, up, cend, child>>

ParentCloseConn ==
  /\ pclose = "conn"
  /\ pconn' = FALSE
  /\ pclose' = "wait"
  /\ UNCHANGED <<parent, ploop, phand, childHeld, down, up, cend, child>>

ParentClosed ==
  /\ pclose = "wait"
  /\ ploop = "ended"
  /\ pclose' = "closed"
  /\ UNCHANGED <<parent, ploop, phand, pconn, childHeld,
                 down, up, cend, child>>

-----------------------------------------------------------------------------
(* The child's readLoop.                                                   *)

ChildRead ==
  /\ alive /\ cloop = "read"
  /\ \/ /\ ~cconn \/ (down = <<>> /\ ~pconn)
        /\ cloop' = "ended"
        /\ UNCHANGED <<chand, down>>
     \/ /\ cconn /\ down # <<>>
        /\ down' = Tail(down)
        /\ \/ chand' = Head(down) /\ cloop' = "push"
           \/ Head(down).size = "large" /\ cloop' = "ended" /\ UNCHANGED chand
  /\ UNCHANGED <<parent, pend, up, cend, inbound, hpc, hreq>>

\* Faulty variant: the frame stays in the reader's hand.
Push_Twice ==
  /\ alive /\ cloop = "push"
  /\ Len(inbound) < InboundCap
  /\ inbound' = Append(inbound, chand)
  /\ \/ chand' = NoFrame /\ cloop' = "read"
     \/ UNCHANGED <<chand, cloop>>
  /\ UNCHANGED <<parent, pend, down, up, cend, hpc, hreq>>

\* m.inboundRx <- msg blocks while the queue is full.
Push ==
  /\ alive /\ cloop = "push"
  /\ Len(inbound) < InboundCap
  /\ inbound' = Append(inbound, chand)
  /\ chand' = NoFrame
  /\ cloop' = "read"
  /\ UNCHANGED <<parent, pend, down, up, cend, hpc, hreq>>

-----------------------------------------------------------------------------
(* Child.HandleRequest and the responder it returns.                       *)

\* select: a queued request or m.done, whichever Go picks.
HandleRequest(h) ==
  /\ alive /\ hpc[h] = "idle"
  /\ \/ /\ inbound # <<>>
        /\ inbound' = Tail(inbound)
        /\ hreq' = [hreq EXCEPT ![h] = Head(inbound)]
        /\ hpc' = [hpc EXCEPT ![h] = "handle"]
     \/ /\ cloop = "ended"
        /\ hpc' = [hpc EXCEPT ![h] = "stopped"]
        /\ UNCHANGED <<inbound, hreq>>
  /\ UNCHANGED <<parent, pend, down, up, cend, cloop, chand>>

\* The responder may be called more than once.
Respond(h, d) ==
  /\ alive /\ hpc[h] \in {"handle", "responded"}
  /\ hpc' = [hpc EXCEPT ![h] = "responded"]
  /\ \/ (~cconn \/ ~pconn) /\ UNCHANGED up
     \/ /\ cconn /\ pconn
        /\ Len(up) < WireCap
        /\ \E size \in Sizes :
             up' = Append(up, [seq |-> hreq[h].seq, data |-> d, size |-> size])
  /\ UNCHANGED <<parent, pend, down, cend, cloop, chand, inbound, hreq>>

Handled(h) ==
  /\ alive /\ hpc[h] = "responded"
  /\ hpc' = [hpc EXCEPT ![h] = "idle"]
  /\ hreq' = [hreq EXCEPT ![h] = NoFrame]
  /\ UNCHANGED <<parent, pend, down, up, cend, cloop, chand, inbound>>

-----------------------------------------------------------------------------
(* The end of the child.                                                   *)

\* Child.Close: conn.Close, <-m.done.
ChildClose ==
  /\ alive /\ cclose = "open"
  /\ cconn' = FALSE
  /\ cclose' = "wait"
  /\ UNCHANGED <<parent, pend, down, up, alive, child>>

ChildClosed ==
  /\ alive /\ cclose = "wait"
  /\ cloop = "ended"
  /\ cclose' = "closed"
  /\ UNCHANGED <<parent, pend, down, up, alive, cconn, child>>

\* The process dies: the kernel closes its descriptors.
ChildDies ==
  /\ alive
  /\ alive' = FALSE
  /\ cconn' = FALSE
  /\ UNCHANGED <<parent, pend, down, up, cclose, child>>

-----------------------------------------------------------------------------
Requester(r) == Register(r) \/ Write(r) \/ Undo(r) \/ Result(r)
ParentLoop == ParentRead \/ Deliver \/ Reset
ChildLoop == ChildRead \/ Push

\* What a handler answers is up to the program; here, what it was asked.
Answer(h) == hreq[h] # NoFrame /\ Respond(h, hreq[h].data)

Handler(h) == HandleRequest(h) \/ Answer(h) \/ Handled(h)

Next ==
  \/ \E r \in Requesters : Requester(r) \/ \E d \in Data : Request(r, d)
  \/ \E h \in Handlers : Handler(h)
  \/ ParentLoop \/ ReleaseHandle
  \/ ParentClose \/ ParentCloseConn \/ ParentClosed
  \/ ChildLoop \/ ChildClose \/ ChildClosed \/ ChildDies

Spec == Init /\ [][Next]_vars

\* Goroutines that can run do, a handler eventually calls its responder
\* and the next HandleRequest, and Go collects garbage every two minutes
\* at the latest.  Nobody has to close anything, and no process has to die.
Fairness ==
  /\ \A r \in Requesters : WF_vars(Requester(r))
  /\ \A h \in Handlers : /\ WF_vars(HandleRequest(h))
                         /\ SF_vars(Answer(h))
                         /\ WF_vars(Handled(h))
  /\ WF_vars(ParentLoop) /\ WF_vars(ChildLoop)
  /\ WF_vars(ParentCloseConn \/ ParentClosed) /\ WF_vars(ChildClosed)
  /\ WF_vars(ReleaseHandle)

FairSpec == Spec /\ Fairness

-----------------------------------------------------------------------------
(* What the types are.                                                     *)

InCall == {"register", "write", "undo", "wait"}
Frames(q) == {q[i] : i \in DOMAIN q}

\* Type invariant: sequence numbers are those given out so far, a loop
\* holds a frame exactly between its read and its delivery.
TypeOK ==
  /\ nextSeq \in 0 .. MaxSeq
  /\ rpc \in [Requesters -> InCall \cup {"idle", "answered", "failed"}]
  /\ seq \in [Requesters -> 0 .. nextSeq]
  /\ asked \in [Requesters -> Data \cup {NoData}]
  /\ got \in [Requesters -> Data \cup {NoData}]
  /\ sessions \subseteq 1 .. nextSeq
  /\ ch \in [Seqs -> Data \cup {"empty", "closed"}]
  /\ ploop \in {"read", "deliver", "reset", "ended"}
  /\ IF ploop = "deliver" THEN phand \in Frame ELSE phand = NoFrame
  /\ pconn \in BOOLEAN /\ childHeld \in BOOLEAN
  /\ pclose \in {"open", "conn", "wait", "closed"}
  /\ down \in Seq(Frame) /\ up \in Seq(Frame) /\ inbound \in Seq(Frame)
  /\ Len(down) <= WireCap /\ Len(up) <= WireCap /\ Len(inbound) <= InboundCap
  /\ alive \in BOOLEAN /\ cconn \in BOOLEAN
  /\ cclose \in {"open", "wait", "closed"}
  /\ cloop \in {"read", "push", "ended"}
  /\ IF cloop = "push" THEN chand \in Frame ELSE chand = NoFrame
  /\ hpc \in [Handlers -> {"idle", "handle", "responded", "stopped"}]
  /\ \A h \in Handlers : IF hpc[h] \in {"handle", "responded"}
                           THEN hreq[h] \in Frame ELSE hreq[h] = NoFrame

-----------------------------------------------------------------------------
(* Sessions.                                                               *)

\* Every session belongs to a call that is still under way, and its channel
\* is open and empty: the loop's send, made with sessionsMu held, cannot
\* block, no channel is closed twice, and a call that failed leaves nothing.
SessionsAwaited ==
  \A s \in sessions :
    /\ ch[s] = "empty"
    /\ \E r \in Requesters : seq[r] = s /\ rpc[r] \in {"write", "undo", "wait"}

\* A call returns the answer to its own request, whatever order the
\* handlers answer in and however often.
OwnAnswer == \A r \in Requesters : rpc[r] = "answered" => got[r] = asked[r]

\* The requests the child has not handed to a handler, oldest first.
Pending == inbound \o (IF cloop = "push" THEN <<chand>> ELSE <<>>) \o down

\* A request is in one place only: no two handlers get the same one.
OneCopy ==
  /\ \A i, j \in DOMAIN Pending : Pending[i].seq = Pending[j].seq => i = j
  /\ \A h \in Handlers : \A f \in Frames(Pending) : hreq[h].seq # f.seq
  /\ \A h, g \in Handlers : hreq[h].seq = hreq[g].seq /\ hreq[h].seq # 0 => h = g

\* Every call returns: with its answer, or with an error when the child
\* dies or either side closes, also if it begins after the readLoop ended.
CallsEnd ==
  \A r \in Requesters : rpc[r] = "register" ~> rpc[r] \in {"answered", "failed"}

\* A call made after the parent's multiplexer has terminated returns, as
\* HandleRequest does with "channel multiplexer terminated" (fdchan.go:193).
LateCallsEnd ==
  \A r \in Requesters :
    rpc[r] = "register" /\ ploop = "ended" ~> rpc[r] \in {"answered", "failed"}

\* Both Close calls return: a readLoop that is delivering, or is blocked on
\* a full inboundRx, gets back to its read.
CloseReturns ==
  /\ pclose = "conn" ~> pclose = "closed"
  /\ cclose = "wait" ~> cclose = "closed" \/ ~alive
=============================================================================
