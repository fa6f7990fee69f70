------------------------------ MODULE CriAtomic ------------------------------
(***************************************************************************)
(* What a client of the container runtime is promised: every call takes    *)
(* effect at one instant between its start and its answer.  No clock, no   *)
(* lock, no intermediate state; an object has one state, an image is       *)
(* there or is not.  CriRefinement shows that CriRuntime implements this   *)
(* for requests that name what they are about.                             *)
(***************************************************************************)
CONSTANTS Callers, SandboxIds, ContainerIds, Requests, NoReq, NoReply

VARIABLES
  phase,       \* per caller: idle, called, committed, answered
  req, reply,  \* per caller
  sandboxes,   \* id -> state
  containers,  \* id -> [sb, state]
  images       \* set of names

vars == <<phase, req, reply, sandboxes, containers, images>>

Init ==
  /\ phase = [c \in Callers |-> "idle"]
  /\ req = [c \in Callers |-> NoReq]
  /\ reply = [c \in Callers |-> NoReply]
  /\ sandboxes = [i \in {} |-> "READY"]
  /\ containers = [i \in {} |-> "CREATED"]
  /\ images = {}

To(c, p) == phase' = [phase EXCEPT ![c] = p]

Answer(c, code, view) ==
  /\ To(c, "answered")
  /\ reply' = [reply EXCEPT ![c] = [code |-> code, view |-> view]]

Asked(c, op) == phase[c] = "called" /\ req[c].op = op

Refuse(c, code) ==
  Answer(c, code, {}) /\ UNCHANGED <<sandboxes, containers, images>>

Set(m, k, v) == [x \in DOMAIN m \cup {k} |-> IF x = k THEN v ELSE m[x]]
Without(m, k) == [x \in DOMAIN m \ {k} |-> m[x]]
Children(sb) == {k \in DOMAIN containers : containers[k].sb = sb}

Call(c, r) ==
  /\ phase[c] = "idle"
  /\ To(c, "called")
  /\ req' = [req EXCEPT ![c] = r]
  /\ UNCHANGED <<reply, sandboxes, containers, images>>

\* A new sandbox is READY from the first moment anyone can see it.
RunPodSandbox(c) ==
  /\ Asked(c, "RunPodSandbox")
  /\ \E i \in SandboxIds :
       \/ i \in DOMAIN sandboxes /\ Refuse(c, "AlreadyExists")
       \/ /\ i \notin DOMAIN sandboxes
          /\ sandboxes' = Set(sandboxes, i, "READY")
          /\ Answer(c, "OK", {})
          /\ UNCHANGED <<containers, images>>

\* Sandbox and containers change state together.
StopPodSandbox(c) ==
  /\ Asked(c, "StopPodSandbox")
  /\ req[c].id \in DOMAIN sandboxes
  /\ sandboxes' = [sandboxes EXCEPT ![req[c].id] = "NOTREADY"]
  /\ containers' = [k \in DOMAIN containers |->
                      IF k \in Children(req[c].id)
                        THEN [containers[k] EXCEPT !.state = "EXITED"]
                        ELSE containers[k]]
  /\ Answer(c, "OK", {})
  /\ UNCHANGED images

RemovePodSandbox(c) ==
  /\ Asked(c, "RemovePodSandbox")
  /\ req[c].id \in DOMAIN sandboxes
  /\ \/ Children(req[c].id) # {} /\ Refuse(c, "InvalidArgument")
     \/ /\ Children(req[c].id) = {}
        /\ sandboxes' = Without(sandboxes, req[c].id)
        /\ Answer(c, "OK", {})
        /\ UNCHANGED <<containers, images>>

\* Sandbox and image are there at the instant the container appears.
CreateContainer(c) ==
  /\ Asked(c, "CreateContainer")
  /\ req[c].id \in DOMAIN sandboxes
  /\ \/ req[c].img \notin images /\ Refuse(c, "NotFound")
     \/ /\ req[c].img \in images
        /\ \E i \in ContainerIds :
             \/ i \in DOMAIN containers /\ Refuse(c, "AlreadyExists")
             \/ /\ i \notin DOMAIN containers
                /\ containers' = Set(containers, i, [sb |-> req[c].id,
                                                     state |-> "CREATED"])
                /\ Answer(c, "OK", {})
                /\ UNCHANGED <<sandboxes, images>>

\* Any container can be started or stopped, in whatever state it is.
SetContainer(c, op, state) ==
  /\ Asked(c, op)
  /\ req[c].id \in DOMAIN containers
  /\ containers' = [containers EXCEPT ![req[c].id].state = state]
  /\ Answer(c, "OK", {})
  /\ UNCHANGED <<sandboxes, images>>

RemoveContainer(c) ==
  /\ Asked(c, "RemoveContainer")
  /\ req[c].id \in DOMAIN containers
  /\ containers' = Without(containers, req[c].id)
  /\ Answer(c, "OK", {})
  /\ UNCHANGED <<sandboxes, images>>

NotFound(c) ==
  /\ \/ /\ \/ Asked(c, "StopPodSandbox") \/ Asked(c, "RemovePodSandbox")
           \/ Asked(c, "CreateContainer") \/ Asked(c, "PodSandboxStatus")
        /\ req[c].id \notin DOMAIN sandboxes
     \/ /\ \/ Asked(c, "StartContainer") \/ Asked(c, "StopContainer")
           \/ Asked(c, "RemoveContainer") \/ Asked(c, "ContainerStatus")
        /\ req[c].id \notin DOMAIN containers
  /\ Refuse(c, "NotFound")

\* The image is there before the client knows: the answer may say that the
\* call was cancelled all the same.
PullImage(c) ==
  /\ Asked(c, "PullImage")
  /\ images' = images \cup {req[c].img}
  /\ To(c, "committed")
  /\ UNCHANGED <<reply, sandboxes, containers>>

AnswerPull(c) ==
  /\ phase[c] = "committed"
  /\ \E code \in {"OK", "Canceled"} : Refuse(c, code)

RemoveImage(c) ==
  /\ Asked(c, "RemoveImage")
  /\ images' = images \ {req[c].img}
  /\ Answer(c, "OK", {})
  /\ UNCHANGED <<sandboxes, containers>>

\* A read answers with one state of the store.
Read(c) ==
  /\ \/ /\ Asked(c, "PodSandboxStatus") /\ req[c].id \in DOMAIN sandboxes
        /\ Answer(c, "OK", {<<req[c].id, sandboxes[req[c].id]>>})
     \/ /\ Asked(c, "ContainerStatus") /\ req[c].id \in DOMAIN containers
        /\ Answer(c, "OK", {<<req[c].id, containers[req[c].id].state>>})
     \/ /\ Asked(c, "ListPodSandbox")
        /\ Answer(c, "OK", {<<i, sandboxes[i]>> : i \in DOMAIN sandboxes})
     \/ /\ Asked(c, "ListContainers")
        /\ Answer(c, "OK",
                  {<<i, containers[i].state>> : i \in DOMAIN containers})
     \/ /\ Asked(c, "ImageStatus")
        /\ Answer(c, "OK", IF req[c].img \in images
                             THEN {<<req[c].img, "present">>} ELSE {})
  /\ UNCHANGED <<sandboxes, containers, images>>

Collect(c) ==
  /\ phase[c] = "answered"
  /\ To(c, "idle")
  /\ req' = [req EXCEPT ![c] = NoReq]
  /\ reply' = [reply EXCEPT ![c] = NoReply]
  /\ UNCHANGED <<sandboxes, containers, images>>

Serve(c) ==
  /\ \/ RunPodSandbox(c) \/ StopPodSandbox(c) \/ RemovePodSandbox(c)
     \/ CreateContainer(c) \/ RemoveContainer(c) \/ NotFound(c) \/ Read(c)
     \/ SetContainer(c, "StartContainer", "RUNNING")
     \/ SetContainer(c, "StopContainer", "EXITED")
     \/ PullImage(c) \/ AnswerPull(c) \/ RemoveImage(c)
  /\ UNCHANGED req

Next == \E c \in Callers :
          (\E r \in Requests : Call(c, r)) \/ Serve(c) \/ Collect(c)

Spec == Init /\ [][Next]_vars
=============================================================================
