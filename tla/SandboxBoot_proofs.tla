-------------------------- MODULE SandboxBoot_proofs --------------------------
(***************************************************************************)
(* Safety of starting a sandbox, for any payload, any command, and any     *)
(* other users of the multiplexers: what Run hears is what it waits for,   *)
(* and the command finds everything in place.                              *)
(*                                                                         *)
(* The argument has two halves.  The frames carry knowledge: each request  *)
(* on its way to the child is one Run has made, and one that says          *)
(* "complete" was made after the proxy was started (Downward); each answer *)
(* with the number of the call under way is the answer to it (Upward).     *)
(* The invariant of FdMux_proofs says the same of answers that repeat the  *)
(* question, and of a child that is alive or has closed the socket; here   *)
(* the answers differ, and the command keeps the socket of a program that  *)
(* is gone.  And the set-up is a cursor in Steps (Progress): without an    *)
(* error, what is done and what is left make up the whole.                 *)
(***************************************************************************)
EXTENDS SandboxBoot, FdMux_proofs, SequenceTheorems

\* The goroutines of Sandbox.Run and of run() exist.
LEMMA RunChild == Run \in Requesters /\ Child \in Handlers
BY BootConstants DEF Run, Child

\* What steps there are.
StepNames == {"hostname", "proc", "cgroup2", "dev", "devpts", "tmp", "bind",
              "write", "other", "/etc", "lo", "pivot"}

\* Steps is a sequence of them.
LEMMA StepsSeq == Steps \in Seq(StepNames)
<1>1. /\ <<"hostname", "proc", "cgroup2", "dev", "devpts", "tmp">> \in Seq(StepNames)
      /\ <<"/etc", "lo", "pivot">> \in Seq(StepNames)
  BY DEF StepNames
<1>2. Payload \in Seq(StepNames)
  <2>1. {"bind", "write", "other"} \subseteq StepNames
    BY DEF StepNames
  <2> QED BY <2>1, BootConstants
<1> QED BY <1>1, <1>2, ConcatProperties DEF Steps

-----------------------------------------------------------------------------
\* What run() answers.
Reply(d) == IF d = "proxy-listener" THEN "proxy-listener-fd" ELSE "completed"

\* A request on its way to run().
Asks(f) ==
  /\ f.seq <= nextSeq /\ f.data \in {"proxy-listener", "complete"}
  /\ f.data = "complete" => proxy
  /\ f.seq = seq[Run] => f.data = asked[Run]

\* An answer on its way to Run.
Answers(f) ==
  f.seq <= nextSeq /\ (f.seq = seq[Run] => f.data = Reply(asked[Run]))

\* Wherever a request is: in the socket, the queue, the hand of the readLoop or
\* of run().
Downward ==
  /\ \A f \in Frames(down) : Asks(f)
  /\ \A f \in Frames(inbound) : Asks(f)
  /\ cloop = "push" => Asks(chand)
  /\ hpc[Child] \in {"handle", "responded"} => Asks(hreq[Child])

\* Wherever an answer is; the channels of numbers not given out are empty.
Upward ==
  /\ \A f \in Frames(up) : Answers(f)
  /\ ploop = "deliver" => Answers(phand)
  /\ \A s \in Seqs : s > nextSeq => ch[s] = "empty"
  /\ rpc[Run] # "idle" /\ ch[seq[Run]] \notin {"empty", "closed"} =>
       ch[seq[Run]] = Reply(asked[Run])
  /\ rpc[Run] = "answered" => got[Run] = Reply(asked[Run])

\* Only Run gives out numbers, and asks for two things.
Caller ==
  /\ seq[Run] = nextSeq
  /\ rpc[Run] # "idle" => /\ asked[Run] \in {"proxy-listener", "complete"}
                          /\ asked[Run] = "complete" => proxy

Pairing == Downward /\ Upward /\ Caller

\* What Run has asked, at each line; past the listener, the proxy runs.
Parenting ==
  /\ ppc \in {"start", "listener", "listening", "complete", "completing",
              "wait", "returned"}
  /\ ret \in {"none", "nil", "error"} /\ proxy \in BOOLEAN
  /\ ppc = "listening" => rpc[Run] # "idle" /\ asked[Run] = "proxy-listener"
  /\ ppc = "completing" => rpc[Run] # "idle" /\ asked[Run] = "complete"
  /\ ppc \in {"complete", "completing", "wait"} => proxy

\* What is done is the beginning of Steps, what is left is the end of it.
Progress ==
  /\ lastError \in BOOLEAN
  /\ done \in Seq(StepNames) /\ left \in Seq(StepNames)
  /\ Len(done) + Len(left) <= Len(Steps)
  /\ \A i \in 1 .. Len(done) : done[i] = Steps[i]
  /\ \A i \in 1 .. Len(left) : left[i] = Steps[Len(Steps) - Len(left) + i]
  /\ ~lastError => Len(done) + Len(left) = Len(Steps)

\* run() sets up after "complete" and executes after everything else.
Childing ==
  /\ cpc \in {"none", "new", "receive", "serve", "served", "mount", "setup",
              "command", "failed", "exited"}
  /\ cpc = "serve" => hpc[Child] \in {"handle", "responded"}
  /\ cpc \in {"mount", "setup", "command"} => proxy
  /\ cpc = "command" => ~lastError /\ left = <<>>

BootInv == Types /\ Pairing /\ Parenting /\ Progress /\ Childing

\* Run has not started anything.
LEMMA BootInvInit == BootInit => BootInv
<1> SUFFICES ASSUME BootInit PROVE BootInv
  OBVIOUS
<1> USE ConstantsOK, RunChild DEF BootInit, InitWith
<1>1. Types
  <2>1. ParentType BY DEF ParentType, InCall, Seqs
  <2>2. LoopType BY DEF LoopType
  <2>3. QueueType BY DEF QueueType
  <2>4. ChildType BY DEF ChildType
  <2>5. HandlerType BY DEF HandlerType
  <2>6. CallType BY DEF CallType
  <2> QED BY <2>1, <2>2, <2>3, <2>4, <2>5, <2>6 DEF Types
<1>2. Pairing
  <2>1. Frames(<<>>) = {}
    BY DEF Frames
  <2>2. seq[Run] = 0 /\ rpc[Run] = "idle" /\ hpc[Child] = "idle"
    OBVIOUS
  <2>3. Downward
    BY <2>1, <2>2 DEF Downward
  <2>4. Upward
    BY <2>1, <2>2 DEF Upward
  <2> QED BY <2>2, <2>3, <2>4 DEF Pairing, Caller
<1>3. Parenting /\ Childing
  BY DEF Parenting, Childing
<1>4. Progress
  <2>1. Len(Steps) \in Nat
    BY StepsSeq
  <2>2. \A i \in 1 .. Len(Steps) : Len(Steps) - Len(Steps) + i = i
    BY <2>1
  <2>3. /\ left = Steps /\ done = <<>> /\ lastError = FALSE
        /\ <<>> \in Seq(StepNames) /\ Len(<<>>) = 0
    OBVIOUS
  <2> HIDE DEF BootInit, InitWith
  <2>4. Len(done) = 0 /\ \A i \in 1 .. Len(done) : done[i] = Steps[i]
    BY <2>3
  <2>5. \A i \in 1 .. Len(left) : left[i] = Steps[Len(Steps) - Len(left) + i]
    BY <2>2, <2>3
  <2>6. Len(done) + Len(left) = Len(Steps)
    BY <2>1, <2>3
  <2>7. done \in Seq(StepNames) /\ left \in Seq(StepNames)
    BY <2>3, StepsSeq
  <2>8. lastError \in BOOLEAN
    BY <2>3
  <2>9. Len(done) + Len(left) <= Len(Steps)
    BY <2>1, <2>6
  <2> QED BY <2>4, <2>5, <2>6, <2>7, <2>8, <2>9 DEF Progress
<1> QED BY <1>1, <1>2, <1>3, <1>4 DEF BootInv

-----------------------------------------------------------------------------
\* Steps that touch no frame.
LEMMA PairKept ==
  ASSUME Pairing, proxy => proxy',
         UNCHANGED <<parent, down, up, ploop, phand, child>>
  PROVE  Pairing'
<1> USE DEF Pairing, parent, child
<1>1. \A f : Asks(f) => Asks(f)'
  BY DEF Asks
<1>2. \A f : Answers(f) => Answers(f)'
  BY DEF Answers
<1>3. Downward'
  BY <1>1 DEF Downward, Frames
<1>4. Upward'
  BY <1>2 DEF Upward, Frames
<1>5. Caller'
  BY DEF Caller
<1> QED BY <1>3, <1>4, <1>5

\* Steps that leave Run where it is.
LEMMA ParentingKept ==
  ASSUME Parenting, UNCHANGED <<ppc, ret, proxy, asked>>,
         rpc[Run] # "idle" => rpc'[Run] # "idle"
  PROVE  Parenting'
BY DEF Parenting

\* Steps outside the set-up.
LEMMA ProgressKept ==
  ASSUME Progress, UNCHANGED <<lastError, done, left>>
  PROVE  Progress'
BY DEF Progress

\* Exec, Exit and StartProcess change who is alive.
LEMMA TypesKept ==
  ASSUME Types, UNCHANGED <<parent, pend, down, up, cclose, child>>,
         alive' \in BOOLEAN, cconn' \in BOOLEAN
  PROVE  Types'
<1> USE DEF Types
<1>1. ParentType' /\ CallType'
  BY DEF ParentType, CallType, parent
<1>2. LoopType'
  BY DEF LoopType, pend
<1>3. QueueType' /\ ChildType' /\ HandlerType' /\ DOMAIN hreq' = Handlers
  BY DEF QueueType, ChildType, HandlerType, child
<1> QED BY <1>1, <1>2, <1>3

\* Steps outside the multiplexers.
LEMMA MuxTypes == ASSUME Types, UNCHANGED mux PROVE Types'
BY TypesStep DEF mux

\* Run asks.
LEMMA PairAsk ==
  ASSUME Types, Pairing, NEW d \in {"proxy-listener", "complete"},
         Request(Run, d), UNCHANGED proxy, d = "complete" => proxy
  PROVE  Pairing'
<1> USE RunChild DEF Pairing
<1>1. /\ nextSeq \in Nat /\ nextSeq' = nextSeq + 1 /\ nextSeq' <= MaxSeq
      /\ seq'[Run] = nextSeq' /\ asked'[Run] = d /\ rpc'[Run] = "register"
      /\ UNCHANGED <<down, up, ploop, phand, cloop, chand, inbound, hpc, hreq,
                     ch, got>>
  BY ConstantsOK DEF Request, Goto, Types, ParentType, pend, child
<1>2. \A f \in Frame : Asks(f) => Asks(f)'
  BY <1>1 DEF Asks, Frame, Seqs
<1>3. \A f \in Frame : Answers(f) => Answers(f)'
  BY <1>1 DEF Answers, Frame, Seqs
<1>4. Frames(down) \subseteq Frame /\ Frames(inbound) \subseteq Frame
      /\ Frames(up) \subseteq Frame
  BY DEF Types, QueueType, Frames
<1>5. Downward'
  <2>1. cloop = "push" => chand \in Frame
    BY DEF Types, ChildType
  <2>2. hpc[Child] \in {"handle", "responded"} => hreq[Child] \in Frame
    BY DEF Types, HandlerType
  <2>3. \A f \in Frames(down) : Asks(f)'
    BY <1>2, <1>4 DEF Downward
  <2>4. \A f \in Frames(inbound) : Asks(f)'
    BY <1>2, <1>4 DEF Downward
  <2> QED BY <1>1, <1>2, <2>1, <2>2, <2>3, <2>4 DEF Downward
<1>6. Upward'
  <2>1. ploop = "deliver" => phand \in Frame
    BY DEF Types, LoopType
  <2>2. \A f \in Frames(up) : Answers(f)'
    BY <1>3, <1>4 DEF Upward
  <2>3. ch'[seq'[Run]] = "empty" /\ \A s \in Seqs : s > nextSeq' => ch'[s] = "empty"
    BY <1>1 DEF Upward, Seqs
  <2> QED BY <1>1, <1>3, <2>1, <2>2, <2>3 DEF Upward
<1>7. Caller'
  BY <1>1 DEF Caller
<1> QED BY <1>5, <1>6, <1>7

\* Request goes on: the frame says what Run asks; what comes out of the channel
\* is the reply.
LEMMA PairRequester ==
  ASSUME Types, Pairing, Requester(Run), UNCHANGED proxy
  PROVE  Pairing' /\ (rpc[Run] # "idle" /\ rpc'[Run] # "idle") /\ UNCHANGED asked
<1> USE RunChild DEF Pairing
<1>0. /\ rpc[Run] # "idle" /\ rpc'[Run] # "idle"
      /\ UNCHANGED <<nextSeq, seq, asked, up, ploop, phand, cloop, chand,
                     inbound, hpc, hreq>>
  BY DEF Requester, Register, Write, Undo, Result, Goto, Types, ParentType,
         pend, child
<1>1. \A f : Asks(f) => Asks(f)'
  BY <1>0 DEF Asks
<1>2. \A f : Answers(f) => Answers(f)'
  BY <1>0 DEF Answers
<1>3. Downward'
  <2>1. \A f \in Frames(down') : f \in Frames(down)
                                 \/ (f.seq = seq[Run] /\ f.data = asked[Run])
    <3>1. CASE UNCHANGED down
      <4>1. Frames(down') = Frames(down)
        BY <3>1 DEF Frames
      <4> QED BY <4>1
    <3>2. ASSUME NEW size \in Sizes,
                 down' = Append(down, [seq |-> seq[Run], data |-> asked[Run],
                                       size |-> size])
          PROVE  \A f \in Frames(down') : f \in Frames(down)
                                 \/ (f.seq = seq[Run] /\ f.data = asked[Run])
      <4> DEFINE f == [seq |-> seq[Run], data |-> asked[Run], size |-> size]
      <4>1. f.seq = seq[Run] /\ f.data = asked[Run]
        OBVIOUS
      <4>2. f \in Frame /\ down \in Seq(Frame)
        BY <1>0, <3>2, ConstantsOK DEF Types, ParentType, CallType, QueueType, Frame, Seqs
      <4>3. down' = Append(down, f)
        BY <3>2
      <4> HIDE DEF f
      <4>4. \A g \in Frames(down') : g \in Frames(down) \/ g = f
        BY <4>2, <4>3, AppendFrames
      <4> QED BY <4>1, <4>4
    <3>3. UNCHANGED down \/ \E size \in Sizes :
            down' = Append(down, [seq |-> seq[Run], data |-> asked[Run],
                                  size |-> size])
      BY DEF Requester, Register, Write, Undo, Result
    <3> QED BY <3>1, <3>2, <3>3
  <2>2. \A f : f.seq = seq[Run] /\ f.data = asked[Run] => Asks(f)
    BY <1>0 DEF Asks, Caller, Types, ParentType
  <2>3. \A f \in Frames(down') : Asks(f)'
    BY <1>1, <2>1, <2>2 DEF Downward
  <2> QED BY <1>0, <1>1, <2>3 DEF Downward, Frames
<1>4. Upward'
  <2>1. CASE Result(Run)
    <3>1. /\ seq[Run] \in Seqs /\ seq[Run] <= nextSeq
      BY <1>0, ConstantsOK DEF Types, ParentType, CallType, Seqs
    <3>2. CASE ch[seq[Run]] = "closed"
      <4>1. UNCHANGED <<ch, got>> /\ rpc'[Run] = "failed"
        BY <2>1, <3>2 DEF Result, Goto, Types, ParentType
      <4> QED BY <1>0, <1>2, <4>1 DEF Upward, Frames
    <3>3. CASE ch[seq[Run]] # "closed"
      <4>1. /\ ch'[seq[Run]] = "empty" /\ got'[Run] = Reply(asked[Run])
            /\ \A s \in Seqs : ch[s] = "empty" => ch'[s] = "empty"
        BY <1>0, <2>1, <3>1, <3>3 DEF Result, Types, ParentType, Upward
      <4> QED BY <1>0, <1>2, <4>1 DEF Upward, Frames
    <3> QED BY <3>2, <3>3
  <2>2. CASE Register(Run) \/ Write(Run) \/ Undo(Run)
    <3>1. UNCHANGED <<ch, got>> /\ rpc'[Run] # "answered"
      BY <2>2 DEF Register, Write, Undo, Goto, Types, ParentType
    <3> QED BY <1>0, <1>2, <3>1 DEF Upward, Frames
  <2> QED BY <2>1, <2>2 DEF Requester
<1>5. Caller'
  BY <1>0 DEF Caller
<1> QED BY <1>0, <1>3, <1>4, <1>5

\* The parent's readLoop: an answer moves from the socket to its channel.
LEMMA PairParent ==
  ASSUME Types, Pairing, ParentLoop, UNCHANGED proxy
  PROVE  Pairing' /\ UNCHANGED <<rpc, asked>>
<1> USE RunChild DEF Pairing
<1>0. UNCHANGED <<nextSeq, seq, asked, rpc, got, down, cloop, chand, inbound,
                  hpc, hreq>>
  BY DEF ParentLoop, ParentRead, Deliver, Reset, parent, child
<1>1. \A f : Asks(f) => Asks(f)'
  BY <1>0 DEF Asks
<1>2. \A f : Answers(f) => Answers(f)'
  BY <1>0 DEF Answers
<1>3. Downward'
  BY <1>0, <1>1 DEF Downward, Frames
<1>4. Caller'
  BY <1>0 DEF Caller
<1>5. Upward'
  <2>1. CASE ParentRead
    <3>1. UNCHANGED ch
      BY <2>1 DEF ParentRead, parent
    <3>2. CASE UNCHANGED <<phand, up>> /\ ploop' = "reset"
      BY <1>0, <1>2, <3>1, <3>2 DEF Upward, Frames
    <3>3. CASE up # <<>> /\ up' = Tail(up)
               /\ (ploop' = "deliver" => phand' = Head(up))
      <4>1. Head(up) \in Frames(up) /\ Frames(up') \subseteq Frames(up)
        BY <3>3, TailFrames DEF Types, QueueType
      <4> QED BY <1>0, <1>2, <3>1, <3>3, <4>1 DEF Upward
    <3> QED BY <2>1, <3>2, <3>3 DEF ParentRead
  <2>2. CASE Deliver
    <3>1. Answers(phand) /\ phand.seq <= nextSeq
      BY <2>2 DEF Deliver, Upward, Answers
    <3>2. UNCHANGED up /\ ploop' = "read"
      BY <2>2 DEF Deliver
    <3>3. \/ UNCHANGED ch
          \/ /\ phand.seq \in Seqs
             /\ ch' = [ch EXCEPT ![phand.seq] = phand.data]
      BY <2>2 DEF Deliver, Types, LoopType, Frame
    <3>4. \A s \in Seqs : s > nextSeq => ch'[s] = "empty"
      <4>1. \A s \in Seqs : s > nextSeq => ch[s] = "empty" /\ s # phand.seq
        BY <3>1 DEF Types, ParentType, Upward, Seqs
      <4>2. \A s \in Seqs : s # phand.seq => ch'[s] = ch[s]
        BY <3>3 DEF Types, ParentType
      <4> QED BY <4>1, <4>2
    <3>5. rpc[Run] # "idle" /\ ch'[seq[Run]] \notin {"empty", "closed"} =>
            ch'[seq[Run]] = Reply(asked[Run])
      <4>1. rpc[Run] # "idle" => seq[Run] \in Seqs
        BY ConstantsOK DEF Types, ParentType, CallType, Seqs
      <4> QED BY <3>1, <3>3, <4>1 DEF Types, ParentType, Upward, Answers
    <3> QED BY <1>0, <1>2, <3>2, <3>4, <3>5 DEF Upward, Frames
  <2>3. CASE Reset
    <3>1. \A s \in Seqs : ch'[s] = ch[s] \/ (ch'[s] = "closed" /\ s <= nextSeq)
      BY <2>3 DEF Reset, Types, ParentType, Seqs
    <3>2. UNCHANGED up /\ ploop' = "ended"
      BY <2>3 DEF Reset
    <3>3. rpc[Run] # "idle" => seq[Run] \in Seqs
      BY ConstantsOK DEF Types, ParentType, CallType, Seqs
    <3>4. \A s \in Seqs : s > nextSeq => ch'[s] = "empty"
      BY <3>1 DEF Upward, Types, ParentType, Seqs
    <3> QED BY <1>0, <1>2, <3>1, <3>2, <3>3, <3>4 DEF Upward, Frames
  <2> QED BY <2>1, <2>2, <2>3 DEF ParentLoop
<1> QED BY <1>0, <1>3, <1>4, <1>5

\* The child's readLoop: a request moves from the socket to the queue.
LEMMA PairChildLoop ==
  ASSUME Types, Pairing, ChildLoop, UNCHANGED proxy
  PROVE  Pairing' /\ UNCHANGED <<rpc, asked, hpc>>
<1> USE RunChild DEF Pairing
<1>0. UNCHANGED <<nextSeq, seq, asked, rpc, got, ch, up, ploop, phand, hpc, hreq>>
  BY DEF ChildLoop, ChildRead, Push, parent, pend
<1>1. \A f : Asks(f) => Asks(f)'
  BY <1>0 DEF Asks
<1>2. \A f : Answers(f) => Answers(f)'
  BY <1>0 DEF Answers
<1>3. Upward'
  BY <1>0, <1>2 DEF Upward, Frames
<1>4. Caller'
  BY <1>0 DEF Caller
<1>5. Downward'
  <2>1. CASE ChildRead
    <3>1. UNCHANGED inbound
      BY <2>1 DEF ChildRead
    <3>2. CASE UNCHANGED down /\ cloop' = "ended"
      BY <1>0, <1>1, <3>1, <3>2 DEF Downward, Frames
    <3>3. CASE down # <<>> /\ down' = Tail(down)
               /\ (cloop' = "push" => chand' = Head(down))
      <4>1. Head(down) \in Frames(down) /\ Frames(down') \subseteq Frames(down)
        BY <3>3, TailFrames DEF Types, QueueType
      <4>2. Frames(inbound') = Frames(inbound)
        BY <3>1 DEF Frames
      <4> QED BY <1>0, <1>1, <3>3, <4>1, <4>2 DEF Downward
    <3> QED BY <2>1, <3>2, <3>3 DEF ChildRead
  <2>2. CASE Push
    <3>1. /\ UNCHANGED down /\ cloop' = "read" /\ cloop = "push"
          /\ inbound' = Append(inbound, chand)
      BY <2>2 DEF Push
    <3>2. \A f \in Frames(inbound') : f \in Frames(inbound) \/ f = chand
      BY <3>1, AppendFrames DEF Types, QueueType, ChildType
    <3>3. Asks(chand) /\ Frames(down') = Frames(down)
      BY <3>1 DEF Downward, Frames
    <3> QED BY <1>0, <1>1, <3>1, <3>2, <3>3 DEF Downward
  <2> QED BY <2>1, <2>2 DEF ChildLoop
<1> QED BY <1>0, <1>3, <1>4, <1>5

\* run() takes a request, or is done with it.
LEMMA PairHandle ==
  ASSUME Types, Pairing, HandleRequest(Child) \/ Handled(Child), UNCHANGED proxy
  PROVE  Pairing' /\ UNCHANGED <<rpc, asked>>
<1> USE RunChild DEF Pairing
<1>0. UNCHANGED <<nextSeq, seq, asked, rpc, got, ch, up, down, ploop, phand,
                  cloop, chand>>
  BY DEF HandleRequest, Handled, parent, pend
<1>1. \A f : Asks(f) => Asks(f)'
  BY <1>0 DEF Asks
<1>2. \A f : Answers(f) => Answers(f)'
  BY <1>0 DEF Answers
<1>3. Upward'
  BY <1>0, <1>2 DEF Upward, Frames
<1>4. Caller'
  BY <1>0 DEF Caller
<1>5. Downward'
  <2>1. CASE HandleRequest(Child) /\ inbound' = Tail(inbound) /\ inbound # <<>>
             /\ hreq' = [hreq EXCEPT ![Child] = Head(inbound)]
    <3>1. /\ Head(inbound) \in Frames(inbound)
          /\ Frames(inbound') \subseteq Frames(inbound)
      BY <2>1, TailFrames DEF Types, QueueType
    <3>2. hreq'[Child] = Head(inbound)
      BY <2>1 DEF Types
    <3>3. Frames(down') = Frames(down)
      BY <1>0 DEF Frames
    <3> QED BY <1>0, <1>1, <3>1, <3>2, <3>3 DEF Downward
  <2>2. CASE UNCHANGED inbound /\ hpc'[Child] \notin {"handle", "responded"}
    BY <1>0, <1>1, <2>2 DEF Downward, Frames
  <2>3. HandleRequest(Child) =>
          \/ /\ inbound' = Tail(inbound) /\ inbound # <<>>
             /\ hreq' = [hreq EXCEPT ![Child] = Head(inbound)]
          \/ UNCHANGED inbound /\ hpc'[Child] = "stopped"
    BY DEF HandleRequest, Types, HandlerType
  <2>4. Handled(Child) => UNCHANGED inbound /\ hpc'[Child] = "idle"
    BY DEF Handled, Types, HandlerType
  <2> QED BY <2>1, <2>2, <2>3, <2>4
<1> QED BY <1>0, <1>3, <1>4, <1>5

\* run() answers what it was asked.
LEMMA PairRespond ==
  ASSUME Types, Pairing, UNCHANGED proxy, NEW d, Respond(Child, d),
         d = Reply(hreq[Child].data)
  PROVE  Pairing' /\ UNCHANGED <<rpc, asked>>
<1> USE RunChild DEF Pairing
<1>0. /\ hpc[Child] \in {"handle", "responded"}
      /\ UNCHANGED <<nextSeq, seq, asked, rpc, got, ch, down, ploop, phand,
                     cloop, chand, inbound, hreq>>
  BY DEF Respond, parent, pend
<1>1. \A f : Asks(f) => Asks(f)'
  BY <1>0 DEF Asks
<1>2. \A f : Answers(f) => Answers(f)'
  BY <1>0 DEF Answers
<1>3. Asks(hreq[Child])
  BY <1>0 DEF Downward
<1>4. Downward'
  BY <1>0, <1>1, <1>3 DEF Downward, Frames
<1>5. Caller'
  BY <1>0 DEF Caller
<1>6. \A f \in Frames(up') : Answers(f)
  <2>1. CASE UNCHANGED up
    <3>1. Frames(up') = Frames(up)
      BY <2>1 DEF Frames
    <3> QED BY <3>1 DEF Upward
  <2>2. ASSUME NEW size \in Sizes,
               up' = Append(up, [seq |-> hreq[Child].seq, data |-> d,
                                 size |-> size])
        PROVE  \A f \in Frames(up') : Answers(f)
    <3> DEFINE f == [seq |-> hreq[Child].seq, data |-> d, size |-> size]
    <3>1. f.seq = hreq[Child].seq /\ f.data = d
      OBVIOUS
    <3>2. up \in Seq(Frame \cup {f}) /\ f \in Frame \cup {f}
      BY DEF Types, QueueType
    <3>3. up' = Append(up, f)
      BY <2>2
    <3> HIDE DEF f
    <3>4. \A g \in Frames(up') : g \in Frames(up) \/ g = f
      BY <3>2, <3>3, AppendFrames
    <3>5. Answers(f)
      BY <1>3, <3>1 DEF Asks, Answers
    <3> QED BY <3>4, <3>5 DEF Upward
  <2>3. UNCHANGED up \/ \E size \in Sizes :
          up' = Append(up, [seq |-> hreq[Child].seq, data |-> d, size |-> size])
    BY DEF Respond
  <2> QED BY <2>1, <2>2, <2>3
<1>7. Upward'
  BY <1>0, <1>2, <1>6 DEF Upward
<1> QED BY <1>0, <1>4, <1>5, <1>7

-----------------------------------------------------------------------------
(* The steps of Run.                                                       *)

\* Run reacts; it never meets an answer it does not expect.
LEMMA ParentStep ==
  ASSUME BootInv, StartProcess \/ GotListener \/ GotCompleted \/ WaitProcess
  PROVE  BootInv'
<1> USE DEF BootInv
<1>1. UNCHANGED <<parent, pend, down, up, cclose, child, done, left, lastError>>
      /\ (cpc' = cpc \/ cpc' = "new")
      /\ alive' \in BOOLEAN /\ cconn' \in BOOLEAN
  BY DEF StartProcess, GotListener, GotCompleted, WaitProcess, mux, vars, cend,
         Types, ChildType
<1>2. Types'
  BY <1>1, TypesKept
<1>3. Parenting' /\ (proxy => proxy')
  <2>1. CASE StartProcess
    BY <2>1 DEF StartProcess, RunReturn, Parenting
  <2>2. CASE GotListener
    <3>1. rpc[Run] = "answered" => got[Run] = "proxy-listener-fd"
      BY <2>2 DEF GotListener, Pairing, Upward, Reply, Parenting
    <3> QED BY <2>2, <3>1 DEF GotListener, RunReturn, Parenting
  <2>3. CASE GotCompleted
    <3>1. rpc[Run] = "answered" => got[Run] = "completed"
      BY <2>3 DEF GotCompleted, Pairing, Upward, Reply, Parenting
    <3> QED BY <2>3, <3>1 DEF GotCompleted, RunReturn, Parenting
  <2>4. CASE WaitProcess
    BY <2>4 DEF WaitProcess, RunReturn, Parenting
  <2> QED BY <2>1, <2>2, <2>3, <2>4
<1>4. Pairing'
  BY <1>1, <1>3, PairKept DEF pend
<1>5. Progress'
  BY <1>1, ProgressKept
<1>6. Childing'
  BY <1>1, <1>3 DEF Childing, child
<1> QED BY <1>2, <1>3, <1>4, <1>5, <1>6

\* Run asks for the listener, and when it has it for completion.
LEMMA AskStep ==
  ASSUME BootInv, AskListener \/ AskComplete
  PROVE  BootInv'
<1> USE RunChild DEF BootInv
<1>1. PICK d \in {"proxy-listener", "complete"} :
        /\ Request(Run, d) /\ (d = "complete" => proxy)
        /\ ppc' = IF d = "complete" THEN "completing" ELSE "listening"
        /\ UNCHANGED <<ret, proxy, cpc, done, left, lastError>>
  BY DEF AskListener, AskComplete, Parenting
<1>2. Types'
  BY <1>1, TypesRequest, BootConstants
<1>3. Pairing'
  BY <1>1, PairAsk
<1>4. /\ rpc'[Run] # "idle" /\ asked'[Run] = d
      /\ UNCHANGED hpc
  BY <1>1 DEF Request, Goto, Types, ParentType, child
<1>5. Parenting'
  BY <1>1, <1>4 DEF Parenting
<1>6. Progress'
  BY <1>1, ProgressKept
<1>7. Childing'
  BY <1>1, <1>4 DEF Childing
<1> QED BY <1>2, <1>3, <1>5, <1>6, <1>7

-----------------------------------------------------------------------------
(* The goroutines of the multiplexers.                                     *)

\* Goroutines of the multiplexers, and the garbage collector.
LEMMA MuxStepKeeps ==
  ASSUME BootInv, Mux \/ CollectHandle
  PROVE  BootInv'
<1> USE RunChild DEF BootInv
<1>1. /\ Requester(Run) \/ ParentLoop \/ ChildLoop \/ ReleaseHandle
      /\ UNCHANGED boot
  BY DEF Mux, CollectHandle
<1>2. Types'
  BY <1>1, TypesRequester, TypesParent, TypesChild
<1>3. UNCHANGED <<ppc, ret, proxy, cpc, done, left, lastError>>
  BY <1>1 DEF boot
<1>4. /\ Pairing' /\ UNCHANGED asked
      /\ rpc[Run] # "idle" => rpc'[Run] # "idle"
  <2>1. CASE ReleaseHandle
    <3>1. UNCHANGED <<parent, down, up, ploop, phand, child>>
      BY <2>1 DEF ReleaseHandle
    <3> QED BY <1>3, <3>1, PairKept DEF parent
  <2> QED BY <1>1, <1>3, <2>1, PairRequester, PairParent, PairChildLoop
<1>5. UNCHANGED hpc
  BY <1>1 DEF Requester, Register, Write, Undo, Result, ParentLoop, ParentRead,
              Deliver, Reset, ChildLoop, ChildRead, Push, ReleaseHandle, child
<1>6. Parenting'
  BY <1>3, <1>4, ParentingKept
<1>7. Progress'
  BY <1>3, ProgressKept
<1>8. Childing'
  BY <1>3, <1>5 DEF Childing
<1> QED BY <1>2, <1>4, <1>6, <1>7, <1>8

-----------------------------------------------------------------------------
(* The steps of run().                                                     *)

\* The process ends, in whatever way.
LEMMA ExitStep == ASSUME BootInv, Exit PROVE BootInv'
<1> USE DEF BootInv, Exit
<1>1. Types'
  BY TypesKept
<1>2. Pairing'
  BY PairKept DEF pend
<1>3. Parenting'
  BY ParentingKept DEF parent
<1>4. Progress'
  BY ProgressKept
<1>5. Childing'
  BY DEF Childing
<1> QED BY <1>1, <1>2, <1>3, <1>4, <1>5

\* Steps of run() that nobody else sees.
LEMMA LocalStep ==
  ASSUME BootInv, MountRoot \/ Exec \/ (NewChild /\ cpc' = "receive")
  PROVE  BootInv'
<1> USE DEF BootInv
<1>1. /\ UNCHANGED <<parent, pend, down, up, cconn, cclose, child>>
      /\ UNCHANGED <<ppc, ret, proxy, done, left, lastError>>
      /\ alive' \in BOOLEAN /\ cconn' \in BOOLEAN
  BY DEF MountRoot, Exec, NewChild, Exit, mux, vars, cend, Types, ChildType
<1>2. Types'
  BY <1>1, TypesKept
<1>3. Pairing'
  BY <1>1, PairKept DEF pend
<1>4. Parenting'
  BY <1>1, ParentingKept DEF parent
<1>5. Progress'
  BY <1>1, ProgressKept
<1>6. Childing'
  BY <1>1 DEF Childing, MountRoot, Exec, NewChild
<1> QED BY <1>2, <1>3, <1>4, <1>5, <1>6

\* HandleRequest and the end of the loop's body.
LEMMA ReceiveStep == ASSUME BootInv, Receive \/ Again PROVE BootInv'
<1> USE RunChild DEF BootInv
<1>1. /\ HandleRequest(Child) \/ Handled(Child)
      /\ UNCHANGED <<ppc, ret, proxy, done, left, lastError>>
  BY DEF Receive, Again
<1>2. Types'
  BY <1>1, TypesHandler DEF Handler
<1>3. Pairing' /\ UNCHANGED <<rpc, asked>>
  BY <1>1, PairHandle
<1>4. Parenting'
  BY <1>1, <1>3, ParentingKept
<1>5. Progress'
  BY <1>1, ProgressKept
<1>6. Childing'
  <2>1. hpc'[Child] \in {"idle", "handle", "responded", "stopped"}
    BY <1>2 DEF Types, HandlerType
  <2>2. CASE Receive
    <3>1. hpc'[Child] \in {"handle", "stopped"}
      BY <2>2 DEF Receive, HandleRequest, Types, HandlerType
    <3> QED BY <1>1, <2>2, <3>1 DEF Receive, Childing
  <2>3. CASE Again
    BY <1>1, <2>3 DEF Again, Childing
  <2> QED BY <1>1, <2>2, <2>3
<1> QED BY <1>2, <1>3, <1>4, <1>5, <1>6

\* The switch on the command: only "complete" leads to the set-up.
LEMMA ServeStep == ASSUME BootInv, Serve PROVE BootInv'
<1> USE RunChild DEF BootInv
<1>1. /\ cpc = "serve" /\ Asks(hreq[Child])
      /\ UNCHANGED <<ppc, ret, proxy, done, left, lastError>>
  BY DEF Serve, Childing, Pairing, Downward
<1>2. \/ UNCHANGED mux /\ cpc' = "failed"
      \/ /\ Respond(Child, Reply(hreq[Child].data))
         /\ cpc' \in {"served", "mount", "failed"}
         /\ cpc' = "mount" => hreq[Child].data = "complete"
  BY DEF Serve, Responded, Reply
<1>3. CASE UNCHANGED mux /\ cpc' = "failed"
  <2>1. UNCHANGED <<parent, pend, down, up, cconn, cclose, child>>
        /\ alive' \in BOOLEAN /\ cconn' \in BOOLEAN
    BY <1>3 DEF mux, vars, cend, Types, ChildType
  <2>2. Types'
    BY <2>1, TypesKept
  <2>3. Pairing'
    BY <1>1, <2>1, PairKept DEF pend
  <2>4. Parenting'
    BY <1>1, <2>1, ParentingKept DEF parent
  <2>5. Childing'
    BY <1>3 DEF Childing
  <2> QED BY <1>1, <2>2, <2>3, <2>4, <2>5, ProgressKept
<1>4. CASE /\ Respond(Child, Reply(hreq[Child].data))
           /\ cpc' \in {"served", "mount", "failed"}
           /\ cpc' = "mount" => hreq[Child].data = "complete"
  <2>1. Reply(hreq[Child].data) \in Data
    BY BootConstants DEF Reply
  <2>2. Types'
    BY <1>4, <2>1, TypesRespond
  <2>3. Pairing' /\ UNCHANGED <<rpc, asked>>
    BY <1>1, <1>4, PairRespond
  <2>4. Parenting'
    BY <1>1, <2>3, ParentingKept
  <2>5. cpc' = "mount" => proxy'
    BY <1>1, <1>4 DEF Asks
  <2>6. Childing'
    BY <1>4, <2>5 DEF Childing
  <2> QED BY <1>1, <2>2, <2>3, <2>4, <2>6, ProgressKept
<1> QED BY <1>2, <1>3, <1>4

\* What Append does.
LEMMA Appended ==
  ASSUME NEW S, NEW q \in Seq(S), NEW x \in S
  PROVE  /\ Append(q, x) \in Seq(S)
         /\ Len(Append(q, x)) = Len(q) + 1
         /\ \A i \in 1 .. Len(q) : Append(q, x)[i] = q[i]
         /\ Append(q, x)[Len(q) + 1] = x
OBVIOUS

\* What Head and Tail do.
LEMMA Taken ==
  ASSUME NEW S, NEW q \in Seq(S), q # <<>>
  PROVE  /\ Head(q) \in S /\ Head(q) = q[1]
         /\ Tail(q) \in Seq(S) /\ Len(q) >= 1
         /\ Len(Tail(q)) = Len(q) - 1
         /\ \A i \in 1 .. Len(q) - 1 : Tail(q)[i] = q[i + 1]
OBVIOUS

\* A step of the set-up moves the cursor, or leaves an error.
LEMMA SetUpStep == ASSUME BootInv, Step PROVE BootInv'
<1> USE DEF BootInv
<1>1. /\ UNCHANGED mux /\ UNCHANGED <<ppc, ret, proxy, cpc>>
      /\ cpc = "setup" /\ left # <<>> /\ left' = Tail(left)
  BY DEF Step
<1>2. Types'
  BY <1>1, MuxTypes
<1>3. UNCHANGED <<parent, pend, down, up, child>>
  BY <1>1 DEF mux, vars
<1>4. Pairing'
  BY <1>1, <1>3, PairKept DEF pend
<1>5. Parenting'
  BY <1>1, <1>3, ParentingKept DEF parent
<1>6. Childing'
  BY <1>1 DEF Childing
<1>7. Progress'
  <2> DEFINE n == Len(Steps)  d == Len(done)  l == Len(left)
  <2>1. n \in Nat /\ d \in Nat /\ l \in Nat
    BY StepsSeq DEF Progress
  <2>2. /\ left' \in Seq(StepNames) /\ l >= 1 /\ Len(left') = l - 1
        /\ \A i \in 1 .. l - 1 : left'[i] = left[i + 1]
        /\ Head(left) = left[1] /\ Head(left) \in StepNames
    BY <1>1, Taken DEF Progress
  <2>3. /\ d + l <= n /\ (~lastError => d + l = n)
        /\ \A i \in 1 .. l : left[i] = Steps[n - l + i]
        /\ \A i \in 1 .. d : done[i] = Steps[i]
        /\ done \in Seq(StepNames)
    BY DEF Progress
  <2>4. \/ UNCHANGED done /\ lastError' = TRUE
        \/ ~lastError /\ lastError' = lastError /\ done' = Append(done, Head(left))
    BY DEF Step, Progress
  <2> HIDE DEF n, d, l
  <2>5. \A i \in 1 .. Len(left') : left'[i] = Steps[n - Len(left') + i]
    <3> SUFFICES ASSUME NEW i \in 1 .. Len(left')
                 PROVE  left'[i] = Steps[n - Len(left') + i]
      OBVIOUS
    <3>1. i \in 1 .. l - 1 /\ i + 1 \in 1 .. l
          /\ n - Len(left') + i = n - l + (i + 1)
      BY <2>1, <2>2
    <3>2. left'[i] = left[i + 1] /\ left[i + 1] = Steps[n - l + (i + 1)]
      BY <2>2, <2>3, <3>1
    <3> QED BY <3>1, <3>2
  <2>6. CASE UNCHANGED done /\ lastError' = TRUE
    <3>1. Len(done') = d /\ d + Len(left') <= n
      BY <2>1, <2>2, <2>3, <2>6 DEF d
    <3>2. \A i \in 1 .. Len(done') : done'[i] = Steps[i]
      BY <2>3, <2>6, <3>1
    <3> QED BY <2>2, <2>3, <2>5, <2>6, <3>1, <3>2 DEF Progress, n
  <2>7. CASE ~lastError /\ lastError' = lastError /\ done' = Append(done, Head(left))
    <3>1. /\ done' \in Seq(StepNames) /\ Len(done') = d + 1
          /\ \A i \in 1 .. d : done'[i] = done[i]
          /\ done'[d + 1] = Head(left)
      BY <2>2, <2>3, <2>7, Appended DEF d
    <3>2. Len(done') + Len(left') = n
      <4>1. d + l = n
        BY <2>3, <2>7
      <4>2. Len(done') = d + 1 /\ Len(left') = l - 1
        BY <2>2, <3>1
      <4> QED BY <2>1, <4>1, <4>2
    <3>3. Head(left) = Steps[d + 1]
      <4>1. 1 \in 1 .. l /\ n - l + 1 = d + 1
        BY <2>1, <2>2, <2>3, <2>7
      <4> QED BY <2>2, <2>3, <4>1
    <3>4. \A i \in 1 .. Len(done') : done'[i] = Steps[i]
      <4>1. \A i \in 1 .. Len(done') : i \in 1 .. d \/ i = d + 1
        BY <2>1, <3>1
      <4> QED BY <2>3, <3>1, <3>3, <4>1
    <3>5. Len(done') + Len(left') <= n /\ lastError' \in BOOLEAN
      BY <2>1, <2>7, <3>2 DEF Progress
    <3> QED BY <2>2, <2>5, <3>1, <3>2, <3>4, <3>5 DEF Progress, n
  <2> QED BY <2>4, <2>6, <2>7
<1> QED BY <1>2, <1>4, <1>5, <1>6, <1>7

\* Nothing happens.
LEMMA StutterStep == ASSUME BootInv, UNCHANGED bootVars PROVE BootInv'
<1> USE DEF BootInv, bootVars, boot
<1>1. Types'
  BY MuxTypes
<1>2. UNCHANGED <<parent, pend, down, up, child>>
  BY DEF mux, vars
<1>3. Pairing'
  BY <1>2, PairKept DEF pend
<1>4. Parenting'
  BY <1>2, ParentingKept DEF parent
<1>5. Progress'
  BY ProgressKept
<1>6. Childing'
  BY <1>2 DEF Childing, child
<1> QED BY <1>1, <1>3, <1>4, <1>5, <1>6

\* Every step keeps the invariant.
LEMMA BootInvStep == ASSUME BootInv, [BootNext]_bootVars PROVE BootInv'
<1>1. CASE RunMain
  BY <1>1, ParentStep, AskStep DEF RunMain
<1>2. CASE ChildMain
  <2>1. NewChild => Exit \/ (NewChild /\ cpc' = "receive")
    BY DEF NewChild
  <2> QED BY <1>2, <2>1, ExitStep, LocalStep, ReceiveStep, ServeStep, SetUpStep
          DEF ChildMain, Fail, CommandEnds
<1>3. CASE Killed
  BY <1>3, ExitStep DEF Killed
<1>4. CASE Mux \/ CollectHandle
  BY <1>4, MuxStepKeeps
<1>5. CASE UNCHANGED bootVars
  BY <1>5, StutterStep
<1> QED BY <1>1, <1>2, <1>3, <1>4, <1>5 DEF BootNext

\* The invariant holds in every behaviour.
LEMMA BootSpecInv == BootSpec => []BootInv
<1>1. BootInv /\ [BootNext]_bootVars => BootInv'
  BY BootInvStep
<1> QED BY <1>1, BootInvInit, PTL DEF BootSpec

\* Type correctness; Run's two comparisons with the expected response never
\* fail, so it never returns "unexpected response".
THEOREM BootTypeCorrect == BootSpec => []BootTypeOK
<1>1. ASSUME BootInv PROVE BootTypeOK
  <2>1. TypeOK
    BY <1>1, TypesAreTypes DEF BootInv
  <2>2. /\ ppc \in {"start", "listener", "listening", "complete", "completing",
                    "wait", "returned"}
        /\ ret \in {"none", "nil", "error"}
        /\ proxy \in BOOLEAN /\ lastError \in BOOLEAN
        /\ cpc \in {"none", "new", "receive", "serve", "served", "mount",
                    "setup", "command", "failed", "exited"}
    BY <1>1 DEF BootInv, Parenting, Progress, Childing
  <2>3. Len(Steps) \in Nat /\ Len(done) \in Nat /\ Len(left) \in Nat
        /\ DOMAIN Steps = 1 .. Len(Steps) /\ DOMAIN done = 1 .. Len(done)
        /\ DOMAIN left = 1 .. Len(left)
    BY <1>1, StepsSeq DEF BootInv, Progress
  <2> DEFINE n == Len(Steps)  d == Len(done)  l == Len(left)
  <2>n. n \in Nat /\ d \in Nat /\ l \in Nat
    BY <2>3
  <2>s. /\ d + l <= n
        /\ \A i \in 1 .. d : done[i] = Steps[i]
        /\ \A i \in 1 .. l : left[i] = Steps[n - l + i]
    BY <1>1 DEF BootInv, Progress
  <2>i. /\ \A i \in 1 .. d : i \in 1 .. n
        /\ \A i \in 1 .. l : n - l + i \in 1 .. n
    <3> HIDE DEF n, d, l
    <3> QED BY <2>n, <2>s
  <2>4. Frames(done) \subseteq Frames(Steps)
    <3>1. \A i \in 1 .. Len(done) : i \in 1 .. Len(Steps) /\ done[i] = Steps[i]
      BY <2>s, <2>i
    <3> QED BY <2>3, <3>1 DEF Frames
  <2>5. Frames(left) \subseteq Frames(Steps)
    <3>1. \A i \in 1 .. Len(left) :
            /\ Len(Steps) - Len(left) + i \in 1 .. Len(Steps)
            /\ left[i] = Steps[Len(Steps) - Len(left) + i]
      BY <2>s, <2>i
    <3> QED BY <2>3, <3>1 DEF Frames
  <2> QED BY <2>1, <2>2, <2>4, <2>5 DEF BootTypeOK
<1> QED BY <1>1, BootSpecInv, PTL

\* The command runs only when every step of the set-up has succeeded, in order,
\* and the parent serves the egress proxy.
THEOREM CommandIsConfined == BootSpec => []CommandConfined
<1>1. ASSUME BootInv, cpc = "command" PROVE done = Steps /\ proxy
  <2>1. ~lastError /\ left = <<>> /\ proxy
    BY <1>1 DEF BootInv, Childing
  <2>2. /\ done \in Seq(StepNames) /\ Len(done) + Len(left) = Len(Steps)
        /\ \A i \in 1 .. Len(done) : done[i] = Steps[i]
    BY <1>1, <2>1 DEF BootInv, Progress
  <2>3. Len(done) = Len(Steps)
    BY <2>1, <2>2, StepsSeq
  <2>4. done = Steps
    BY <2>2, <2>3, StepsSeq, SeqEqual
  <2> QED BY <2>1, <2>4
<1>2. BootInv => CommandConfined
  BY <1>1 DEF CommandConfined
<1> QED BY <1>2, BootSpecInv, PTL
=============================================================================
