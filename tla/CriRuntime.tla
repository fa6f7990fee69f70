----------------------------- MODULE CriRuntime -----------------------------
(***************************************************************************)
(* The in-memory container runtime: BuiltinCRIRuntime (pkg/cri/cri.go) on  *)
(* top of its store and simulated clock (pkg/cri/model/model.go).          *)
(*                                                                         *)
(* Every gRPC call runs in a goroutine of its own (a member of Callers)    *)
(* and takes b.mu.  A call that needs time hands a callback to the         *)
(* simulator goroutine and blocks, still holding b.mu, until the callback  *)
(* has run.  The store has a mutex r.mu of its own, held only for          *)
(* straight-line code: each section under r.mu is one step here, and       *)
(* everything between two such sections can interleave.                    *)
(*                                                                         *)
(* A Go map is a function whose DOMAIN is the set of keys present.         *)
(***************************************************************************)
EXTENDS Naturals

CONSTANTS
  Callers,       \* goroutines that run RPC handlers
  SandboxIds,    \* ids uniqID can make for sandboxes (any time of day)
  ContainerIds,  \* ids uniqID can make for containers
  Uids,          \* non-empty pod uids
  Images,        \* non-empty image names
  EmptyId,       \* the empty string, as an id, a uid or an image name
  NilImage,      \* a request without an ImageSpec
  NoCaller,      \* b.mu is free
  Requests,      \* the requests callers may send
  Delay          \* ticks a simulated operation takes (10 in the code)

SlowOps == {"RunPodSandbox", "StopPodSandbox", "StartContainer",
            "StopContainer", "PullImage"}
FastOps == {"RemovePodSandbox", "CreateContainer", "RemoveContainer",
            "RemoveImage", "PodSandboxStatus", "ContainerStatus",
            "ListPodSandbox", "ListContainers", "ImageStatus"}

SandboxKeys == SandboxIds \cup {EmptyId}
ContainerKeys == ContainerIds \cup {EmptyId}
ImageSpecs == Images \cup {EmptyId, NilImage}

\* What the handlers read of a request: "id" is the sandbox id, the
\* container id or (RunPodSandbox) the pod uid; "img" the ImageSpec.
Request == [op : SlowOps \cup FastOps,
            id : SandboxKeys \cup ContainerKeys \cup Uids,
            img : ImageSpecs]

\* p is what List calls show, s what Status calls show.
SandboxRec == [id : SandboxIds, p : {"NOTREADY", "READY"},
               s : {"NOTREADY", "READY"}]
ContainerStates == {"CREATED", "RUNNING", "EXITED"}
ContainerRec == [id : ContainerIds, sb : SandboxIds,
                 p : ContainerStates, s : ContainerStates]

ASSUME ConstantsOK ==
  /\ Requests \subseteq Request
  /\ Delay \in Nat \ {0}
  /\ NoCaller \notin Callers
  /\ EmptyId \notin SandboxIds \cup ContainerIds \cup Images \cup Uids
  /\ NilImage \notin Images \cup {EmptyId}

VARIABLES
  \* the handlers
  mu,          \* holder of b.mu
  pc,          \* where each caller is
  req,         \* the request each caller handles
  id,          \* the id captured by the handler (sbid or scid)
  reply,       \* what the handler is about to return or has returned
  \* the store
  sandboxes, containers, images,
  \* the simulator
  events,      \* queued: ticks left before the target tick, and whose
  toRun,       \* due at the current tick, not yet run
  simpc,       \* where the simulator goroutine is
  running,     \* whose callback runs
  obj,         \* the clone a callback got from the store
  todo,        \* the container clones StopPodSandbox's callback goes through
  closed       \* callers whose done channel is closed

store == <<sandboxes, containers, images>>
sim == <<events, toRun, simpc, running, obj, todo, closed>>
rpc == <<pc, req, id, reply>>
vars == <<mu, rpc, store, sim>>

NoReply == [code |-> "none", view |-> {}]
NoObj == [id |-> EmptyId]
NoReq == [op |-> "none", id |-> EmptyId, img |-> NilImage]

-----------------------------------------------------------------------------
(* The store: Go maps of clones, looked up with filters.                   *)

\* m[k] = v
Put(m, k, v) ==
  [x \in DOMAIN m \cup {k} |-> IF x = k THEN v ELSE m[x]]

\* delete(m, k)
Delete(m, k) == [x \in DOMAIN m \ {k} |-> m[x]]

\* The keys whose object passes a filter on Id: the filter looks at the
\* object's own id, and an empty id filters nothing.
WithId(m, i) == {k \in DOMAIN m : i = EmptyId \/ m[k].id = i}

\* GetImage: an empty name filters nothing, a stored nil spec passes any.
ImagesNamed(name) ==
  {k \in DOMAIN images : name = EmptyId \/ images[k] \in {name, NilImage}}

\* ImageSpec.GetImage(): the name, empty for a nil spec.
NameOf(spec) == IF spec = NilImage THEN EmptyId ELSE spec

ContainersOf(sbid) == {k \in DOMAIN containers : containers[k].sb = sbid}

-----------------------------------------------------------------------------
Init ==
  /\ mu = NoCaller
  /\ pc = [c \in Callers |-> "idle"]
  /\ req = [c \in Callers |-> NoReq]
  /\ id = [c \in Callers |-> EmptyId]
  /\ reply = [c \in Callers |-> NoReply]
  /\ sandboxes = [k \in {} |-> NoObj]
  /\ containers = [k \in {} |-> NoObj]
  /\ images = [k \in {} |-> NilImage]
  /\ events = {}
  /\ toRun = {}
  /\ simpc = "tick"
  /\ running = NoCaller
  /\ obj = NoObj
  /\ todo = {}
  /\ closed = {}

Goto(c, label) == pc' = [pc EXCEPT ![c] = label]

Return(c, code, view) ==
  /\ Goto(c, "unlock")
  /\ reply' = [reply EXCEPT ![c] = [code |-> code, view |-> view]]

At(c, label, op) == pc[c] = label /\ req[c].op = op

-----------------------------------------------------------------------------
(* The frame of every handler: b.mu.Lock(); defer b.mu.Unlock().           *)

Call(c, r) ==
  /\ pc[c] = "idle"
  /\ Goto(c, "lock")
  /\ req' = [req EXCEPT ![c] = r]
  /\ UNCHANGED <<mu, id, reply, store, sim>>

Acquire(c) ==
  /\ pc[c] = "lock"
  /\ mu = NoCaller
  /\ mu' = c
  /\ Goto(c, "enter")
  /\ UNCHANGED <<req, id, reply, store, sim>>

Unlock(c) ==
  /\ pc[c] = "unlock"
  /\ mu' = NoCaller
  /\ Goto(c, "done")
  /\ UNCHANGED <<req, id, reply, store, sim>>

\* The client has the reply and may call again.
Collect(c) ==
  /\ pc[c] = "done"
  /\ Goto(c, "idle")
  /\ req' = [req EXCEPT ![c] = NoReq]
  /\ id' = [id EXCEPT ![c] = EmptyId]
  /\ reply' = [reply EXCEPT ![c] = NoReply]
  /\ UNCHANGED <<mu, store, sim>>

-----------------------------------------------------------------------------
(* Runtime.Enqueue: queue the callback, then block on its done channel.    *)

\* Faulty variant: b.mu is given up while the caller waits.
Enqueue_Unlocked(c) ==
  /\ pc[c] = "enqueue"
  /\ events' = events \cup {[left |-> Delay, by |-> c]}
  /\ mu' = NoCaller
  /\ Goto(c, "wait")
  /\ UNCHANGED <<req, id, reply, store,
                 toRun, simpc, running, obj, todo, closed>>

Enqueue(c) ==
  /\ pc[c] = "enqueue"
  /\ events' = events \cup {[left |-> Delay, by |-> c]}
  /\ Goto(c, "wait")
  /\ UNCHANGED <<mu, req, id, reply, store,
                 toRun, simpc, running, obj, todo, closed>>

\* Faulty variant: Enqueue returns the channel and nobody waits for it.
Woken_AtOnce(c) ==
  /\ pc[c] = "wait"
  /\ IF req[c].op = "PullImage"
       THEN Goto(c, "release") /\ UNCHANGED reply
       ELSE Return(c, "OK", {})
  /\ UNCHANGED <<mu, req, id, store, sim>>

\* <-done
Woken(c) ==
  /\ pc[c] = "wait"
  /\ c \in closed
  /\ closed' = closed \ {c}
  /\ IF req[c].op = "PullImage"
       THEN Goto(c, "release") /\ UNCHANGED reply
       ELSE Return(c, "OK", {})
  /\ UNCHANGED <<mu, req, id, store, events, toRun, simpc, running, obj, todo>>

-----------------------------------------------------------------------------
(* Sandbox handlers.                                                       *)

RunPodSandbox(c) ==
  /\ At(c, "enter", "RunPodSandbox")
  /\ \/ /\ req[c].id = EmptyId
        /\ Return(c, "InvalidArgument", {})
        /\ UNCHANGED id
     \/ /\ req[c].id # EmptyId
        /\ \E sbid \in SandboxIds :
             \/ /\ WithId(sandboxes, sbid) # {}
                /\ Return(c, "AlreadyExists", {})
                /\ UNCHANGED id
             \/ /\ WithId(sandboxes, sbid) = {}
                /\ id' = [id EXCEPT ![c] = sbid]
                /\ Goto(c, "add")
                /\ UNCHANGED reply
  /\ UNCHANGED <<mu, req, store, sim>>

AddSandbox(c) ==
  /\ At(c, "add", "RunPodSandbox")
  /\ sandboxes' = Put(sandboxes, id[c],
                      [id |-> id[c], p |-> "NOTREADY", s |-> "NOTREADY"])
  /\ Goto(c, "enqueue")
  /\ UNCHANGED <<mu, req, id, reply, containers, images, sim>>

\* The id is not checked for emptiness.
StopPodSandbox(c) ==
  /\ At(c, "enter", "StopPodSandbox")
  /\ \/ /\ WithId(sandboxes, req[c].id) = {}
        /\ Return(c, "NotFound", {})
        /\ UNCHANGED id
     \/ /\ WithId(sandboxes, req[c].id) # {}
        /\ id' = [id EXCEPT ![c] = req[c].id]
        /\ Goto(c, "enqueue")
        /\ UNCHANGED reply
  /\ UNCHANGED <<mu, req, store, sim>>

RemovePodSandbox(c) ==
  /\ At(c, "enter", "RemovePodSandbox")
  /\ \/ /\ req[c].id = EmptyId
        /\ Return(c, "InvalidArgument", {})
     \/ /\ req[c].id # EmptyId
        /\ WithId(sandboxes, req[c].id) = {}
        /\ Return(c, "NotFound", {})
     \/ /\ req[c].id # EmptyId
        /\ WithId(sandboxes, req[c].id) # {}
        /\ Goto(c, "children")
        /\ UNCHANGED reply
  /\ UNCHANGED <<mu, req, id, store, sim>>

\* Faulty variant: only a RUNNING container keeps its sandbox.
CheckChildren_RunningOnly(c) ==
  /\ At(c, "children", "RemovePodSandbox")
  /\ LET live == {k \in ContainersOf(req[c].id) : containers[k].p = "RUNNING"}
     IN \/ live # {} /\ Return(c, "InvalidArgument", {})
        \/ live = {} /\ Goto(c, "remove") /\ UNCHANGED reply
  /\ UNCHANGED <<mu, req, id, store, sim>>

CheckChildren(c) ==
  /\ At(c, "children", "RemovePodSandbox")
  /\ \/ /\ ContainersOf(req[c].id) # {}
        /\ Return(c, "InvalidArgument", {})
     \/ /\ ContainersOf(req[c].id) = {}
        /\ Goto(c, "remove")
        /\ UNCHANGED reply
  /\ UNCHANGED <<mu, req, id, store, sim>>

RemoveSandbox(c) ==
  /\ At(c, "remove", "RemovePodSandbox")
  /\ sandboxes' = Delete(sandboxes, req[c].id)
  /\ Return(c, "OK", {})
  /\ UNCHANGED <<mu, req, id, containers, images, sim>>

-----------------------------------------------------------------------------
(* Container handlers.                                                     *)

CreateContainer(c) ==
  /\ At(c, "enter", "CreateContainer")
  /\ \/ /\ req[c].id = EmptyId
        /\ Return(c, "InvalidArgument", {})
     \/ /\ req[c].id # EmptyId
        /\ WithId(sandboxes, req[c].id) = {}
        /\ Return(c, "NotFound", {})
     \/ /\ req[c].id # EmptyId
        /\ WithId(sandboxes, req[c].id) # {}
        /\ Goto(c, "image")
        /\ UNCHANGED reply
  /\ UNCHANGED <<mu, req, id, store, sim>>

CheckImage(c) ==
  /\ At(c, "image", "CreateContainer")
  /\ \/ /\ ImagesNamed(NameOf(req[c].img)) = {}
        /\ Return(c, "NotFound", {})
     \/ /\ ImagesNamed(NameOf(req[c].img)) # {}
        /\ Goto(c, "exists")
        /\ UNCHANGED reply
  /\ UNCHANGED <<mu, req, id, store, sim>>

\* Faulty variant: an Unlock before each return instead of a deferred one:
\* the panic leaves the handler with b.mu held.
CheckContainer_NoDefer(c) ==
  /\ At(c, "exists", "CreateContainer")
  /\ IF req[c].img = NilImage
       THEN /\ Goto(c, "done")
            /\ reply' = [reply EXCEPT ![c] = [code |-> "Internal", view |-> {}]]
            /\ UNCHANGED id
       ELSE \E scid \in ContainerIds :
              /\ WithId(containers, scid) = {}
              /\ id' = [id EXCEPT ![c] = scid]
              /\ Goto(c, "add")
              /\ UNCHANGED reply
  /\ UNCHANGED <<mu, req, store, sim>>

\* A nil ImageSpec panics when the record is built: the Recover
\* interceptor answers Internal, the deferred Unlock runs.
CheckContainer(c) ==
  /\ At(c, "exists", "CreateContainer")
  /\ \E scid \in ContainerIds :
       \/ /\ WithId(containers, scid) # {}
          /\ Return(c, "AlreadyExists", {})
          /\ UNCHANGED id
       \/ /\ WithId(containers, scid) = {}
          /\ req[c].img = NilImage
          /\ Return(c, "Internal", {})
          /\ UNCHANGED id
       \/ /\ WithId(containers, scid) = {}
          /\ req[c].img # NilImage
          /\ id' = [id EXCEPT ![c] = scid]
          /\ Goto(c, "add")
          /\ UNCHANGED reply
  /\ UNCHANGED <<mu, req, store, sim>>

\* Faulty variant: sbid for scid.
AddContainer_BySandbox(c) ==
  /\ At(c, "add", "CreateContainer")
  /\ containers' = Put(containers, req[c].id,
                       [id |-> id[c], sb |-> req[c].id,
                        p |-> "CREATED", s |-> "CREATED"])
  /\ Return(c, "OK", {})
  /\ UNCHANGED <<mu, req, id, sandboxes, images, sim>>

AddContainer(c) ==
  /\ At(c, "add", "CreateContainer")
  /\ containers' = Put(containers, id[c],
                       [id |-> id[c], sb |-> req[c].id,
                        p |-> "CREATED", s |-> "CREATED"])
  /\ Return(c, "OK", {})
  /\ UNCHANGED <<mu, req, id, sandboxes, images, sim>>

\* StartContainer and StopContainer differ in their callback only.
StartOrStopContainer(c) ==
  /\ At(c, "enter", "StartContainer") \/ At(c, "enter", "StopContainer")
  /\ \/ /\ WithId(containers, req[c].id) = {}
        /\ Return(c, "NotFound", {})
        /\ UNCHANGED id
     \/ /\ WithId(containers, req[c].id) # {}
        /\ id' = [id EXCEPT ![c] = req[c].id]
        /\ Goto(c, "enqueue")
        /\ UNCHANGED reply
  /\ UNCHANGED <<mu, req, store, sim>>

CheckRemoveContainer(c) ==
  /\ At(c, "enter", "RemoveContainer")
  /\ \/ /\ WithId(containers, req[c].id) = {}
        /\ Return(c, "NotFound", {})
     \/ /\ WithId(containers, req[c].id) # {}
        /\ Goto(c, "remove")
        /\ UNCHANGED reply
  /\ UNCHANGED <<mu, req, id, store, sim>>

RemoveContainer(c) ==
  /\ At(c, "remove", "RemoveContainer")
  /\ containers' = Delete(containers, req[c].id)
  /\ Return(c, "OK", {})
  /\ UNCHANGED <<mu, req, id, sandboxes, images, sim>>

-----------------------------------------------------------------------------
(* Image handlers.  PullImage gives b.mu up once its callback has run,     *)
(* chooses between the closed channel and a done context, and takes b.mu   *)
(* again for the deferred Unlock.                                          *)

PullImage(c) ==
  /\ At(c, "enter", "PullImage")
  /\ Goto(c, "enqueue")
  /\ UNCHANGED <<mu, req, id, reply, store, sim>>

Release(c) ==
  /\ pc[c] = "release"
  /\ mu' = NoCaller
  /\ Goto(c, "select")
  /\ UNCHANGED <<req, id, reply, store, sim>>

\* Faulty variant: a cancelled pull returns without taking b.mu again.
Select_NoRelock(c) ==
  /\ pc[c] = "select"
  /\ \E code \in {"OK", "Canceled"} :
       /\ reply' = [reply EXCEPT ![c] = [code |-> code, view |-> {}]]
       /\ Goto(c, IF code = "OK" THEN "relock" ELSE "unlock")
  /\ UNCHANGED <<mu, req, id, store, sim>>

Select(c) ==
  /\ pc[c] = "select"
  /\ \E code \in {"OK", "Canceled"} :
       reply' = [reply EXCEPT ![c] = [code |-> code, view |-> {}]]
  /\ Goto(c, "relock")
  /\ UNCHANGED <<mu, req, id, store, sim>>

Relock(c) ==
  /\ pc[c] = "relock"
  /\ mu = NoCaller
  /\ mu' = c
  /\ Goto(c, "unlock")
  /\ UNCHANGED <<req, id, reply, store, sim>>

RemoveImage(c) ==
  /\ At(c, "enter", "RemoveImage")
  /\ images' = Delete(images, NameOf(req[c].img))
  /\ Return(c, "OK", {})
  /\ UNCHANGED <<mu, req, id, sandboxes, containers, sim>>

-----------------------------------------------------------------------------
(* Reads.  A view is a set of <<id, state>>.                               *)

StatusView(m, k) == {<<m[k].id, m[k].s>>}
ListView(m) == {<<m[k].id, m[k].p>> : k \in DOMAIN m}

Status(c, op, m) ==
  /\ At(c, "enter", op)
  /\ \/ /\ WithId(m, req[c].id) = {}
        /\ Return(c, "NotFound", {})
     \/ \E k \in WithId(m, req[c].id) : Return(c, "OK", StatusView(m, k))
  /\ UNCHANGED <<mu, req, id, store, sim>>

PodSandboxStatus(c) == Status(c, "PodSandboxStatus", sandboxes)
ContainerStatus(c) == Status(c, "ContainerStatus", containers)

List(c, op, m) ==
  /\ At(c, "enter", op)
  /\ Return(c, "OK", ListView(m))
  /\ UNCHANGED <<mu, req, id, store, sim>>

ListPodSandbox(c) == List(c, "ListPodSandbox", sandboxes)
ListContainers(c) == List(c, "ListContainers", containers)

\* An unknown image is an empty reply, not an error.
ImageStatus(c) ==
  /\ At(c, "enter", "ImageStatus")
  /\ \/ /\ ImagesNamed(NameOf(req[c].img)) = {}
        /\ Return(c, "OK", {})
     \/ \E k \in ImagesNamed(NameOf(req[c].img)) :
          Return(c, "OK", {<<NameOf(images[k]), "present">>})
  /\ UNCHANGED <<mu, req, id, store, sim>>

-----------------------------------------------------------------------------
(* The simulator goroutine.  Queue and batch are sets: their order never   *)
(* matters, at most one event exists (EventPerWaiter and LockHeld).        *)

\* Faulty variant: due events stay queued.
Tick_KeepsDue ==
  /\ simpc = "tick"
  /\ toRun' = {e.by : e \in {f \in events : f.left <= 1}}
  /\ events' = {[e EXCEPT !.left = @ - 1] : e \in events}
  /\ simpc' = IF toRun' = {} THEN "tick" ELSE "next"
  /\ UNCHANGED <<mu, rpc, store, running, obj, todo, closed>>

\* One tick of the clock: seq++, split the queue into due and remaining.
Tick ==
  /\ simpc = "tick"
  /\ toRun' = {e.by : e \in {f \in events : f.left <= 1}}
  /\ events' = {[e EXCEPT !.left = @ - 1] : e \in {f \in events : f.left > 1}}
  /\ simpc' = IF toRun' = {} THEN "tick" ELSE "next"
  /\ UNCHANGED <<mu, rpc, store, running, obj, todo, closed>>

Begin ==
  /\ simpc = "next"
  /\ \E c \in toRun :
       /\ running' = c
       /\ toRun' = toRun \ {c}
  /\ simpc' = "get"
  /\ UNCHANGED <<mu, rpc, store, events, obj, todo, closed>>

\* Faulty variant: PullImage's callback does not close done.
Finish_NotClosed ==
  /\ simpc = "close"
  /\ closed' = IF req[running].op = "PullImage" THEN closed
               ELSE closed \cup {running}
  /\ running' = NoCaller
  /\ simpc' = IF toRun = {} THEN "tick" ELSE "next"
  /\ UNCHANGED <<mu, rpc, store, events, toRun, obj, todo>>

\* close(done), and the next callback of the batch or the next tick.
Finish ==
  /\ simpc = "close"
  /\ closed' = closed \cup {running}
  /\ running' = NoCaller
  /\ simpc' = IF toRun = {} THEN "tick" ELSE "next"
  /\ UNCHANGED <<mu, rpc, store, events, toRun, obj, todo>>

-----------------------------------------------------------------------------
(* The callbacks: get a clone, change it, put it back; three sections of   *)
(* r.mu with nothing but b.mu to keep others out.                          *)

Op == req[running].op
Target == id[running]

SandboxOps == {"RunPodSandbox", "StopPodSandbox"}
NewState == CASE Op = "RunPodSandbox"  -> "READY"
              [] Op = "StopPodSandbox" -> "NOTREADY"
              [] Op = "StartContainer" -> "RUNNING"
              [] OTHER                 -> "EXITED"

\* Faulty variant: the Status view is forgotten.
WithState_ListOnly(o, state) == [o EXCEPT !.p = state]

WithState(o, state) == [o EXCEPT !.p = state, !.s = state]

AfterPut == IF Op = "StopPodSandbox" THEN "list" ELSE "close"

CallbackGet ==
  /\ simpc = "get"
  /\ Op # "PullImage"
  /\ LET m == IF Op \in SandboxOps THEN sandboxes ELSE containers
         found == WithId(m, Target)
     IN \/ found = {} /\ simpc' = AfterPut /\ UNCHANGED obj
        \/ \E k \in found : obj' = m[k] /\ simpc' = "put"
  /\ UNCHANGED <<mu, rpc, store, events, toRun, running, todo, closed>>

CallbackPut ==
  /\ simpc = "put"
  /\ IF Op \in SandboxOps
       THEN /\ sandboxes' = Put(sandboxes, Target, WithState(obj, NewState))
            /\ UNCHANGED containers
       ELSE /\ containers' = Put(containers, Target, WithState(obj, NewState))
            /\ UNCHANGED sandboxes
  /\ obj' = NoObj
  /\ simpc' = AfterPut
  /\ UNCHANGED <<mu, rpc, images, events, toRun, running, todo, closed>>

\* StopPodSandbox: the children are listed once, then exited one by one.
CallbackList ==
  /\ simpc = "list"
  /\ todo' = {containers[k] : k \in ContainersOf(Target)}
  /\ simpc' = "each"
  /\ UNCHANGED <<mu, rpc, store, events, toRun, running, obj, closed>>

CallbackExit ==
  /\ simpc = "each"
  /\ \E v \in todo :
       /\ containers' = Put(containers, v.id, WithState(v, "EXITED"))
       /\ todo' = todo \ {v}
  /\ UNCHANGED <<mu, rpc, sandboxes, images,
                 events, toRun, simpc, running, obj, closed>>

CallbackListed ==
  /\ simpc = "each"
  /\ todo = {}
  /\ simpc' = "close"
  /\ UNCHANGED <<mu, rpc, store, events, toRun, running, obj, todo, closed>>

CallbackPull ==
  /\ simpc = "get"
  /\ Op = "PullImage"
  /\ images' = Put(images, NameOf(req[running].img), req[running].img)
  /\ simpc' = "close"
  /\ UNCHANGED <<mu, rpc, sandboxes, containers,
                 events, toRun, running, obj, todo, closed>>

-----------------------------------------------------------------------------
Handler(c) ==
  \/ RunPodSandbox(c) \/ AddSandbox(c) \/ StopPodSandbox(c)
  \/ RemovePodSandbox(c) \/ CheckChildren(c) \/ RemoveSandbox(c)
  \/ CreateContainer(c) \/ CheckImage(c) \/ CheckContainer(c)
  \/ AddContainer(c) \/ StartOrStopContainer(c)
  \/ CheckRemoveContainer(c) \/ RemoveContainer(c)
  \/ PullImage(c) \/ Release(c) \/ Select(c) \/ RemoveImage(c)
  \/ PodSandboxStatus(c) \/ ContainerStatus(c) \/ ImageStatus(c)
  \/ ListPodSandbox(c) \/ ListContainers(c)
  \/ Enqueue(c) \/ Woken(c) \/ Unlock(c)

Callback ==
  \/ CallbackGet \/ CallbackPut \/ CallbackPull
  \/ CallbackList \/ CallbackExit \/ CallbackListed

Simulator == Tick \/ Begin \/ Callback \/ Finish

Next ==
  \/ \E c \in Callers :
       \/ \E r \in Requests : Call(c, r)
       \/ Acquire(c) \/ Handler(c) \/ Relock(c) \/ Collect(c)
  \/ Simulator

Spec == Init /\ [][Next]_vars

\* A goroutine that can run does; the ticker keeps ticking; a Go mutex
\* hands itself to a waiter that has been passed over (starvation mode).
Fairness ==
  /\ WF_vars(Simulator)
  /\ \A c \in Callers : /\ WF_vars(Handler(c))
                        /\ SF_vars(Acquire(c))
                        /\ SF_vars(Relock(c))

FairSpec == Spec /\ Fairness

-----------------------------------------------------------------------------
(* What the types are.                                                     *)

Labels == {"idle", "lock", "enter", "children", "image", "exists", "add",
           "remove", "enqueue", "wait", "release", "select", "relock",
           "unlock", "done"}
CallbackSteps == {"get", "put", "list", "each", "close"}
Codes == {"none", "OK", "InvalidArgument", "NotFound", "AlreadyExists",
          "Internal", "Canceled"}

MapType(m, keys, values) ==
  DOMAIN m \subseteq keys /\ \A k \in DOMAIN m : m[k] \in values

\* Type invariant: every variable stays in the range the Go types and the
\* handlers give it; map keys are ids the runtime made or the empty id.
TypeOK ==
  /\ mu \in Callers \cup {NoCaller}
  /\ pc \in [Callers -> Labels]
  /\ req \in [Callers -> Requests \cup {NoReq}]
  /\ id \in [Callers -> SandboxKeys \cup ContainerKeys]
  /\ DOMAIN reply = Callers /\ \A c \in Callers : reply[c].code \in Codes
  /\ MapType(sandboxes, SandboxKeys, SandboxRec)
  /\ MapType(containers, ContainerKeys, ContainerRec)
  /\ MapType(images, Images \cup {EmptyId}, ImageSpecs)
  /\ events \subseteq [left : 1 .. Delay, by : Callers]
  /\ toRun \subseteq Callers
  /\ simpc \in {"tick", "next"} \cup CallbackSteps
  /\ running \in Callers \cup {NoCaller}
  /\ simpc \in CallbackSteps => running \in Callers
  /\ obj \in SandboxRec \cup ContainerRec \cup {NoObj}
  /\ todo \subseteq ContainerRec
  /\ closed \subseteq Callers

-----------------------------------------------------------------------------
(* The two locks and the simulator.                                        *)

Inside(c) == pc[c] \in {"enter", "children", "image", "exists", "add",
                        "remove", "enqueue", "wait", "release", "unlock"}

\* Whoever is between Lock and Unlock of a handler holds b.mu, and b.mu is
\* held by nobody else: no two handlers overlap, and no deferred Unlock
\* (also the one after PullImage's own Unlock) finds the mutex free.
LockHeld == \A c \in Callers : Inside(c) <=> mu = c

\* Callers with an event that has not been handed back yet.
Queued == {e.by : e \in events}
InCallback == IF simpc \in CallbackSteps THEN {running} ELSE {}

\* A caller blocks on its done channel exactly while its event is queued,
\* due, running or just closed, and is in one of these places only.  With
\* LockHeld: callbacks never overlap a handler's body or each other.
EventPerWaiter ==
  /\ \A c \in Callers :
       pc[c] = "wait" <=> c \in Queued \cup toRun \cup InCallback \cup closed
  /\ \A c \in Queued : c \notin toRun \cup InCallback \cup closed
  /\ \A c \in toRun : c \notin InCallback \cup closed
  /\ \A c \in InCallback : c \notin closed
  /\ \A e, f \in events : e.by = f.by => e = f
  /\ simpc = "tick" => toRun = {}

-----------------------------------------------------------------------------
(* What the store must satisfy in every state, also in the middle of a     *)
(* handler or callback, when requests name what they are about.            *)

NamedRequests ==
  \A r \in Requests :
    r.op \in {"StopPodSandbox", "StartContainer", "StopContainer",
              "RemoveContainer"} => r.id # EmptyId

\* Also with unnamed requests: an object is stored under its own id, or
\* is the copy that an operation on the empty id leaves under the empty key.
KeysAreIds ==
  /\ \A k \in DOMAIN sandboxes : k \in {sandboxes[k].id, EmptyId}
  /\ \A k \in DOMAIN containers : k \in {containers[k].id, EmptyId}

\* Every container belongs to a sandbox that is still there:
\* RemovePodSandbox refuses a sandbox with containers, and neither a
\* CreateContainer nor a callback's write-back slips in between its check
\* and its delete.
NoDanglingContainer ==
  \A k \in DOMAIN containers : containers[k].sb \in DOMAIN sandboxes

\* When RemovePodSandbox or RemoveContainer is about to answer OK, no
\* lookup finds the object any more.
RemovedIsGone ==
  \A c \in Callers :
    pc[c] = "unlock" /\ reply[c].code = "OK" =>
      /\ req[c].op = "RemovePodSandbox" => WithId(sandboxes, req[c].id) = {}
      /\ req[c].op = "RemoveContainer" => WithId(containers, req[c].id) = {}

Both(o, state) == o.p = state /\ o.s = state

\* When a slow call is about to answer OK, the state it was asked for is in
\* the store, in both views; a stopped sandbox has no container left that
\* is not EXITED.
AckedStateHolds ==
  \A c \in Callers :
    pc[c] = "unlock" /\ reply[c].code = "OK" =>
      LET op == req[c].op IN
      /\ op = "RunPodSandbox" =>
           id[c] \in DOMAIN sandboxes /\ Both(sandboxes[id[c]], "READY")
      /\ op = "StopPodSandbox" =>
           /\ id[c] \in DOMAIN sandboxes
           /\ Both(sandboxes[id[c]], "NOTREADY")
           /\ \A k \in ContainersOf(id[c]) : Both(containers[k], "EXITED")
      /\ op = "StartContainer" =>
           id[c] \in DOMAIN containers /\ Both(containers[id[c]], "RUNNING")
      /\ op = "StopContainer" =>
           id[c] \in DOMAIN containers /\ Both(containers[id[c]], "EXITED")

\* Only RunPodSandbox and CreateContainer bring a key into being: the
\* write-back of a clone never re-creates what a remove has deleted.
OnlyCreatesCreate ==
  /\ \A k \in DOMAIN sandboxes' \ DOMAIN sandboxes :
       \E c \in Callers : At(c, "add", "RunPodSandbox") /\ id[c] = k
  /\ \A k \in DOMAIN containers' \ DOMAIN containers :
       \E c \in Callers : At(c, "add", "CreateContainer") /\ id[c] = k

NoResurrection == [][OnlyCreatesCreate]_vars

\* Every call is answered, however many others compete for b.mu and hold
\* it for Delay ticks each.
CallsReturn == \A c \in Callers : pc[c] = "lock" ~> pc[c] = "done"
=============================================================================
