---------------------------- MODULE CriRefinement ----------------------------
(***************************************************************************)
(* CriRuntime implements CriAtomic.  The store a client can observe is the *)
(* one outside b.mu; while some handler is inside, it is the store as it   *)
(* was when that handler took b.mu, which the history variable "before"    *)
(* remembers.  "before" never restricts a step of CriRuntime.              *)
(***************************************************************************)
EXTENDS CriRuntime

VARIABLE before

hvars == <<vars, before>>

HInit == Init /\ before = store

HNext ==
  /\ Next
  /\ before' = IF mu = NoCaller /\ mu' # NoCaller THEN store ELSE before

HSpec == HInit /\ [][HNext]_hvars

HFairSpec == HSpec /\ Fairness

Seen == IF mu = NoCaller THEN store ELSE before

Phase(c) ==
  CASE pc[c] = "idle" -> "idle"
    [] pc[c] = "done" -> "answered"
    [] \/ pc[c] \in {"select", "relock"}
       \/ At(c, "unlock", "PullImage") -> "committed"
    [] OTHER -> "called"

\* The reply counts once it is out: b.mu is free again.
Given(c) == IF pc[c] = "done" THEN reply[c] ELSE NoReply

Atomic == INSTANCE CriAtomic WITH
  phase <- [c \in Callers |-> Phase(c)],
  reply <- [c \in Callers |-> Given(c)],
  sandboxes <- [k \in DOMAIN Seen[1] |-> Seen[1][k].p],
  containers <- [k \in DOMAIN Seen[2] |->
                   [sb |-> Seen[2][k].sb, state |-> Seen[2][k].p]],
  images <- DOMAIN Seen[3]

\* Refinement: every call of BuiltinCRIRuntime takes effect at one instant;
\* no client sees a NOTREADY sandbox on its way up, a half-stopped
\* sandbox, or two views of one object that disagree.
Linearizable == Atomic!Spec
=============================================================================
