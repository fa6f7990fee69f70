-------------------------- MODULE CriRuntime_proofs --------------------------
(***************************************************************************)
(* Proofs about the container runtime, for any number of callers, ids and  *)
(* images, any requests and any delay.                                     *)
(*                                                                         *)
(* LockInv is inductive by itself: the two locks and the done channel make *)
(* handlers and callbacks exclude each other, whatever is in the store.    *)
(***************************************************************************)
EXTENDS CriRuntime, TLAPS

\* A handler that waits is one that enqueues.
SlowWaits ==
  \A c \in Callers :
    pc[c] \in {"enqueue", "wait"} => req[c].op \in SlowOps

\* What the lock argument needs of the types.
ControlOK ==
  /\ mu \in Callers \cup {NoCaller}
  /\ pc \in [Callers -> Labels]
  /\ events \subseteq [left : 1 .. Delay, by : Callers]
  /\ toRun \subseteq Callers
  /\ simpc \in {"tick", "next"} \cup CallbackSteps
  /\ running \in Callers \cup {NoCaller}
  /\ simpc \in CallbackSteps => running \in Callers
  /\ closed \subseteq Callers

LockInv == ControlOK /\ LockHeld /\ EventPerWaiter

\* Steps of a handler that leave the simulator alone and stay inside b.mu,
\* without starting or ending a wait.
InsideStep(c) ==
  /\ pc[c] \in {"enter", "children", "image", "exists", "add", "remove"}
  /\ \E l \in {"children", "image", "exists", "add", "remove",
               "enqueue", "unlock"} : Goto(c, l)
  /\ UNCHANGED <<mu, sim>>

\* A handler's work inside b.mu, step by step, is an InsideStep.
LEMMA HandlerIsInside ==
  ASSUME NEW c \in Callers,
         \/ RunPodSandbox(c) \/ AddSandbox(c) \/ StopPodSandbox(c)
         \/ RemovePodSandbox(c) \/ CheckChildren(c) \/ RemoveSandbox(c)
         \/ CreateContainer(c) \/ CheckImage(c) \/ CheckContainer(c)
         \/ AddContainer(c) \/ StartOrStopContainer(c)
         \/ CheckRemoveContainer(c) \/ RemoveContainer(c)
         \/ PullImage(c) \/ RemoveImage(c)
         \/ PodSandboxStatus(c) \/ ContainerStatus(c) \/ ImageStatus(c)
         \/ ListPodSandbox(c) \/ ListContainers(c)
  PROVE  InsideStep(c)
<1> USE DEF InsideStep, At, Return
<1>1. CASE RunPodSandbox(c) BY <1>1 DEF RunPodSandbox
<1>2. CASE AddSandbox(c) BY <1>2 DEF AddSandbox
<1>3. CASE StopPodSandbox(c) BY <1>3 DEF StopPodSandbox
<1>4. CASE RemovePodSandbox(c) BY <1>4 DEF RemovePodSandbox
<1>5. CASE CheckChildren(c) BY <1>5 DEF CheckChildren
<1>6. CASE RemoveSandbox(c) BY <1>6 DEF RemoveSandbox
<1>7. CASE CreateContainer(c) BY <1>7 DEF CreateContainer
<1>8. CASE CheckImage(c) BY <1>8 DEF CheckImage
<1>9. CASE CheckContainer(c) BY <1>9 DEF CheckContainer
<1>10. CASE AddContainer(c) BY <1>10 DEF AddContainer
<1>11. CASE StartOrStopContainer(c) BY <1>11 DEF StartOrStopContainer
<1>12. CASE CheckRemoveContainer(c) BY <1>12 DEF CheckRemoveContainer
<1>13. CASE RemoveContainer(c) BY <1>13 DEF RemoveContainer
<1>14. CASE PullImage(c) BY <1>14 DEF PullImage
<1>15. CASE RemoveImage(c) BY <1>15 DEF RemoveImage
<1>16. CASE PodSandboxStatus(c) BY <1>16 DEF PodSandboxStatus, Status
<1>17. CASE ContainerStatus(c) BY <1>17 DEF ContainerStatus, Status
<1>18. CASE ImageStatus(c) BY <1>18 DEF ImageStatus
<1>19. CASE ListPodSandbox(c) BY <1>19 DEF ListPodSandbox, List
<1>20. CASE ListContainers(c) BY <1>20 DEF ListContainers, List
<1> QED
  BY <1>1, <1>2, <1>3, <1>4, <1>5, <1>6, <1>7, <1>8, <1>9, <1>10, <1>11,
     <1>12, <1>13, <1>14, <1>15, <1>16, <1>17, <1>18, <1>19, <1>20

LEMMA LockInit == Init => LockInv
BY ConstantsOK
   DEF Init, LockInv, ControlOK, LockHeld, EventPerWaiter, Inside, Queued,
       InCallback, Labels, CallbackSteps

\* A step inside b.mu leaves everything LockInv speaks of as it was, but
\* for the label of a caller that is inside before and after.
LEMMA LockInside ==
  ASSUME LockInv, NEW c \in Callers, InsideStep(c)
  PROVE  LockInv'
BY DEF LockInv, ControlOK, LockHeld, EventPerWaiter, Inside, Queued,
       InCallback, Labels, InsideStep, Goto, sim

LEMMA LockFrame ==
  ASSUME LockInv, NEW c \in Callers,
         \/ \E r \in Requests : Call(c, r)
         \/ Acquire(c) \/ Unlock(c) \/ Release(c) \/ Select(c)
         \/ Relock(c) \/ Collect(c)
  PROVE  LockInv'
<1> USE ConstantsOK
    DEF LockInv, ControlOK, LockHeld, EventPerWaiter, Inside, Queued,
        InCallback, Labels, Goto, sim
<1>1. CASE \E r \in Requests : Call(c, r) BY <1>1 DEF Call
<1>2. CASE Acquire(c) BY <1>2 DEF Acquire
<1>3. CASE Unlock(c) BY <1>3 DEF Unlock
<1>4. CASE Release(c) BY <1>4 DEF Release
<1>5. CASE Select(c) BY <1>5 DEF Select
<1>6. CASE Relock(c) BY <1>6 DEF Relock
<1>7. CASE Collect(c) BY <1>7 DEF Collect
<1> QED BY <1>1, <1>2, <1>3, <1>4, <1>5, <1>6, <1>7

LEMMA LockWait ==
  ASSUME LockInv, NEW c \in Callers, Enqueue(c) \/ Woken(c)
  PROVE  LockInv'
<1> USE ConstantsOK
    DEF LockInv, ControlOK, LockHeld, EventPerWaiter, Inside, Queued,
        InCallback, Labels, Goto, Return
<1>1. CASE Enqueue(c)
  <2> DEFINE ev == [left |-> Delay, by |-> c]
  <2>1. events' = events \cup {ev} /\ ev.by = c /\ ev \in [left : 1 .. Delay, by : Callers]
    BY <1>1 DEF Enqueue
  <2> HIDE DEF ev
  <2>2. c \notin Queued \cup toRun \cup InCallback \cup closed
    BY <1>1 DEF Enqueue
  <2>3. Queued' = Queued \cup {c} /\ InCallback' = InCallback
    BY <1>1, <2>1 DEF Enqueue
  <2>4. ControlOK' BY <1>1, <2>1 DEF Enqueue
  <2>5. LockHeld' BY <1>1 DEF Enqueue
  <2>6. \A e, f \in events' : e.by = f.by => e = f
    BY <2>1, <2>2
  <2>7. EventPerWaiter'
    BY <1>1, <2>2, <2>3, <2>6 DEF Enqueue
  <2> QED BY <2>4, <2>5, <2>7
<1>2. CASE Woken(c) BY <1>2 DEF Woken
<1> QED BY <1>1, <1>2

LEMMA LockSimulator ==
  ASSUME LockInv, Simulator
  PROVE  LockInv'
<1> USE ConstantsOK
    DEF LockInv, ControlOK, LockHeld, EventPerWaiter, Inside, Queued,
        InCallback, Labels, CallbackSteps, rpc
<1>1. CASE Tick
  <2> DEFINE due == {f \in events : f.left <= 1}
             later == {f \in events : f.left > 1}
             Older(e) == [e EXCEPT !.left = @ - 1]
  <2>1. /\ toRun' = {e.by : e \in due}
        /\ events' = {Older(e) : e \in later}
        /\ UNCHANGED <<mu, rpc, running, closed>>
    BY <1>1 DEF Tick
  <2>2. simpc = "tick" /\ simpc' \in {"tick", "next"}
    BY <1>1 DEF Tick
  <2>3. \A e \in later : /\ Older(e).by = e.by
                        /\ Older(e) \in [left : 1 .. Delay, by : Callers]
    BY Z3
  <2> HIDE DEF Older
  <2>4. ControlOK'
    <3>1. toRun' \subseteq Callers BY <2>1
    <3>2. events' \subseteq [left : 1 .. Delay, by : Callers]
      BY <2>1, <2>3
    <3> QED BY <3>1, <3>2, <2>1, <2>2
  <2>5. LockHeld' BY <2>1
  <2>6. toRun = {} /\ (simpc' = "tick" => toRun' = {})
    BY <1>1, <2>2 DEF Tick
  <2>7. InCallback = {} /\ InCallback' = {}
    BY <2>2
  <2>8. Queued' = {e.by : e \in later}
    BY <2>1, <2>3
  <2>9. Queued = toRun' \cup Queued'
    BY <2>1, <2>8
  <2>10. EventPerWaiter'
    BY <2>1, <2>3, <2>6, <2>7, <2>8, <2>9
  <2> QED BY <2>4, <2>5, <2>10
<1>2. CASE Begin BY <1>2 DEF Begin
<1>3. CASE Callback
  BY <1>3 DEF Callback, CallbackGet, CallbackPut, CallbackPull, CallbackList,
     CallbackExit, CallbackListed, AfterPut
<1>4. CASE Finish BY <1>4 DEF Finish
<1> QED BY <1>1, <1>2, <1>3, <1>4 DEF Simulator

LEMMA LockStep == LockInv /\ [Next]_vars => LockInv'
<1> SUFFICES ASSUME LockInv, [Next]_vars PROVE LockInv'
  OBVIOUS
<1>1. CASE UNCHANGED vars
  BY <1>1 DEF vars, rpc, sim, LockInv, ControlOK, LockHeld, EventPerWaiter,
     Inside, Queued, InCallback
<1>2. CASE Simulator BY <1>2, LockSimulator
<1>3. ASSUME NEW c \in Callers,
             \/ \E r \in Requests : Call(c, r)
             \/ Acquire(c) \/ Handler(c) \/ Relock(c) \/ Collect(c)
      PROVE LockInv'
  BY <1>3, LockFrame, LockWait, LockInside, HandlerIsInside DEF Handler
<1> QED BY <1>1, <1>2, <1>3 DEF Next

\* The handlers of the runtime exclude each other, and every unlock finds
\* b.mu held by the goroutine that unlocks.
THEOREM MutualExclusion == Spec => []LockHeld
<1>1. LockInv => LockHeld BY DEF LockInv
<1> QED BY <1>1, LockInit, LockStep, PTL DEF Spec

\* Every event belongs to exactly one blocked caller.
THEOREM OneEventPerWaiter == Spec => []EventPerWaiter
<1>1. LockInv => EventPerWaiter BY DEF LockInv
<1> QED BY <1>1, LockInit, LockStep, PTL DEF Spec

-----------------------------------------------------------------------------
(***************************************************************************)
(* Proofs about the store of the container runtime for any requests, the   *)
(* malformed ones included: its types, and the keys objects are stored     *)
(* under.  Both rest on LockInv: the caller a callback works for waits,    *)
(* so what the callback was given stays as it is.                          *)
(***************************************************************************)

ContainerOps == {"StartContainer", "StopContainer"}

\* What a handler carries from one of its steps to the next.
HandlerTyped(c) ==
  /\ At(c, "add", "RunPodSandbox") => id[c] \in SandboxIds
  /\ \A l \in {"image", "exists", "add"} :
       At(c, l, "CreateContainer") => req[c].id \in SandboxIds
  /\ At(c, "add", "CreateContainer") => id[c] \in ContainerIds
  /\ pc[c] \in {"enqueue", "wait"} =>
       /\ req[c].op \in SlowOps
       /\ req[c].op \in SandboxOps => id[c] \in SandboxKeys
       /\ req[c].op \in ContainerOps => id[c] \in ContainerKeys
  /\ pc[c] \in {"release", "select", "relock"} => req[c].op = "PullImage"

\* The clone a callback holds is of the kind it will be stored as.
CallbackTyped ==
  simpc = "put" =>
    /\ Op # "PullImage"
    /\ obj \in IF Op \in SandboxOps THEN SandboxRec ELSE ContainerRec

TypeInv == TypeOK /\ (\A c \in Callers : HandlerTyped(c)) /\ CallbackTyped

\* The map helpers keep a map's type.
LEMMA PutType ==
  ASSUME NEW m, NEW keys, NEW values, MapType(m, keys, values),
         NEW k \in keys, NEW v \in values
  PROVE  MapType(Put(m, k, v), keys, values)
BY DEF MapType, Put

LEMMA DeleteType ==
  ASSUME NEW m, NEW keys, NEW values, MapType(m, keys, values), NEW k
  PROVE  MapType(Delete(m, k), keys, values)
BY DEF MapType, Delete

\* A lookup that succeeds with a non-empty id found an object of that id.
LEMMA FoundSandbox ==
  ASSUME TypeOK, NEW i, WithId(sandboxes, i) # {}
  PROVE  i \in SandboxKeys
BY DEF TypeOK, MapType, WithId, SandboxRec, SandboxKeys

LEMMA FoundContainer ==
  ASSUME TypeOK, NEW i, WithId(containers, i) # {}
  PROVE  i \in ContainerKeys
BY DEF TypeOK, MapType, WithId, ContainerRec, ContainerKeys

LEMMA TypeInit == Init => TypeInv
<1> SUFFICES ASSUME Init PROVE TypeInv
  OBVIOUS
<1> USE ConstantsOK DEF Init
<1>1. TypeOK
  BY DEF TypeOK, MapType, Labels, Codes, NoReply, SandboxKeys, CallbackSteps
<1>2. \A c \in Callers : HandlerTyped(c)
  BY DEF HandlerTyped, At
<1>3. CallbackTyped BY DEF CallbackTyped
<1> QED BY <1>1, <1>2, <1>3 DEF TypeInv

\* A running callback belongs to a caller that waits; no step of another
\* caller changes what that callback works for.
LEMMA CallbackKeepsType ==
  ASSUME TypeInv, LockInv, NEW c \in Callers, NEW r,
         req' = req \/ (pc[c] # "wait" /\ req' = [req EXCEPT ![c] = r]),
         UNCHANGED <<simpc, obj, running>>
  PROVE  CallbackTyped'
<1> SUFFICES ASSUME simpc = "put" PROVE req'[running] = req[running]
  BY DEF TypeInv, CallbackTyped, Op
<1>1. running \in Callers /\ pc[running] = "wait"
  BY DEF LockInv, ControlOK, EventPerWaiter, InCallback, CallbackSteps
<1> QED BY <1>1 DEF TypeInv, TypeOK

\* A handler's step leaves the other handlers' labels, ids and requests.
LEMMA OthersKeepType ==
  ASSUME TypeInv, NEW c \in Callers, NEW d \in Callers, c # d,
         pc'[d] = pc[d], req'[d] = req[d], id'[d] = id[d]
  PROVE  HandlerTyped(d)'
BY DEF TypeInv, HandlerTyped, At

\* The frame: calling, locking, unlocking, waiting, collecting.
LEMMA TypeFrame ==
  ASSUME TypeInv, LockInv, NEW c \in Callers,
         \/ \E r \in Requests : Call(c, r)
         \/ Acquire(c) \/ Unlock(c) \/ Release(c) \/ Select(c) \/ Relock(c)
         \/ Collect(c) \/ Enqueue(c) \/ Woken(c)
  PROVE  TypeInv'
<1> USE ConstantsOK
    DEF TypeOK, At, Goto, Return, Labels, Codes, sim, store
<1>1. CASE \E r \in Requests : Call(c, r)
  <2> PICK r \in Requests : Call(c, r) BY <1>1
  <2>1. TypeOK' BY DEF TypeInv, Call
  <2>2. CallbackTyped' BY CallbackKeepsType DEF Call
  <2>3. \A d \in Callers : HandlerTyped(d)'
    BY OthersKeepType DEF TypeInv, Call, HandlerTyped
  <2> QED BY <2>1, <2>2, <2>3 DEF TypeInv
<1>2. CASE Acquire(c)
  <2>1. TypeOK' BY <1>2 DEF TypeInv, Acquire
  <2>2. CallbackTyped' BY <1>2, CallbackKeepsType DEF Acquire
  <2>3. \A d \in Callers : HandlerTyped(d)'
    BY <1>2, OthersKeepType DEF TypeInv, Acquire, HandlerTyped
  <2> QED BY <2>1, <2>2, <2>3 DEF TypeInv
<1>3. CASE Unlock(c) \/ Release(c) \/ Select(c) \/ Relock(c)
  <2> USE DEF Unlock, Release, Select, Relock
  <2>1. TypeOK' BY <1>3 DEF TypeInv
  <2>2. CallbackTyped' BY <1>3, CallbackKeepsType
  <2>3. \A d \in Callers : HandlerTyped(d)'
    BY <1>3, OthersKeepType DEF TypeInv, HandlerTyped
  <2> QED BY <2>1, <2>2, <2>3 DEF TypeInv
<1>4. CASE Collect(c)
  <2>1. TypeOK' BY <1>4 DEF TypeInv, Collect, NoReply, SandboxKeys
  <2>2. CallbackTyped' BY <1>4, CallbackKeepsType DEF Collect
  <2>3. \A d \in Callers : HandlerTyped(d)'
    BY <1>4, OthersKeepType DEF TypeInv, Collect, HandlerTyped
  <2> QED BY <2>1, <2>2, <2>3 DEF TypeInv
<1>5. CASE Enqueue(c)
  <2>1. TypeOK' BY <1>5 DEF TypeInv, Enqueue
  <2>2. CallbackTyped' BY <1>5, CallbackKeepsType DEF Enqueue
  <2>3. \A d \in Callers : HandlerTyped(d)'
    BY <1>5, OthersKeepType DEF TypeInv, Enqueue, HandlerTyped
  <2> QED BY <2>1, <2>2, <2>3 DEF TypeInv
<1>6. CASE Woken(c)
  <2>1. TypeOK' BY <1>6 DEF TypeInv, Woken
  <2>2. CallbackTyped' BY <1>6, CallbackKeepsType DEF Woken
  <2>3. \A d \in Callers : HandlerTyped(d)'
    BY <1>6, OthersKeepType DEF TypeInv, Woken, HandlerTyped
  <2> QED BY <2>1, <2>2, <2>3 DEF TypeInv
<1> QED BY <1>1, <1>2, <1>3, <1>4, <1>5, <1>6

\* Handlers that only look at the store: checks and reads.
Check(c) ==
  \/ RunPodSandbox(c) \/ StopPodSandbox(c) \/ RemovePodSandbox(c)
  \/ CheckChildren(c) \/ CreateContainer(c) \/ CheckImage(c)
  \/ CheckContainer(c) \/ StartOrStopContainer(c) \/ CheckRemoveContainer(c)
  \/ PullImage(c) \/ PodSandboxStatus(c) \/ ContainerStatus(c)
  \/ ImageStatus(c) \/ ListPodSandbox(c) \/ ListContainers(c)

LEMMA TypeCheck ==
  ASSUME TypeInv, LockInv, NEW c \in Callers, Check(c)
  PROVE  TypeInv'
<1> USE ConstantsOK DEF At, Goto, Return
<1>1. UNCHANGED <<mu, req, store, sim>>
  BY DEF Check, RunPodSandbox, StopPodSandbox, RemovePodSandbox, CheckChildren,
     CreateContainer, CheckImage, CheckContainer, StartOrStopContainer,
     CheckRemoveContainer, PullImage, PodSandboxStatus, ContainerStatus, Status,
     ImageStatus, ListPodSandbox, ListContainers, List
<1>2. /\ pc' \in [Callers -> Labels]
      /\ id' \in [Callers -> SandboxKeys \cup ContainerKeys]
      /\ DOMAIN reply' = Callers /\ \A d \in Callers : reply'[d].code \in Codes
      /\ HandlerTyped(c)'
  <2> USE DEF TypeInv, TypeOK, Labels, Codes, HandlerTyped, SandboxKeys,
              ContainerKeys, SlowOps, SandboxOps, ContainerOps
  <2>1. CASE RunPodSandbox(c) BY <2>1 DEF RunPodSandbox
  <2>2. CASE StopPodSandbox(c) BY <2>2, FoundSandbox DEF StopPodSandbox
  <2>3. CASE RemovePodSandbox(c) BY <2>3 DEF RemovePodSandbox
  <2>4. CASE CheckChildren(c) BY <2>4 DEF CheckChildren
  <2>5. CASE CreateContainer(c) BY <2>5, FoundSandbox DEF CreateContainer
  <2>6. CASE CheckImage(c) BY <2>6 DEF CheckImage
  <2>7. CASE CheckContainer(c) BY <2>7 DEF CheckContainer
  <2>8. CASE StartOrStopContainer(c)
    BY <2>8, FoundContainer DEF StartOrStopContainer
  <2>9. CASE CheckRemoveContainer(c) BY <2>9 DEF CheckRemoveContainer
  <2>10. CASE PullImage(c) BY <2>10 DEF PullImage
  <2>11. CASE PodSandboxStatus(c) \/ ContainerStatus(c)
    BY <2>11 DEF PodSandboxStatus, ContainerStatus, Status
  <2>12. CASE ImageStatus(c) BY <2>12 DEF ImageStatus
  <2>13. CASE ListPodSandbox(c) \/ ListContainers(c)
    BY <2>13 DEF ListPodSandbox, ListContainers, List
  <2> QED
    BY <2>1, <2>2, <2>3, <2>4, <2>5, <2>6, <2>7, <2>8, <2>9, <2>10, <2>11,
       <2>12, <2>13 DEF Check
<1>3. \A d \in Callers \ {c} : pc'[d] = pc[d] /\ id'[d] = id[d]
  BY DEF TypeInv, TypeOK, Check, RunPodSandbox, StopPodSandbox,
     RemovePodSandbox, CheckChildren, CreateContainer, CheckImage,
     CheckContainer, StartOrStopContainer, CheckRemoveContainer, PullImage,
     PodSandboxStatus, ContainerStatus, Status, ImageStatus, ListPodSandbox,
     ListContainers, List
<1>4. TypeOK' BY <1>1, <1>2 DEF TypeInv, TypeOK, store, sim
<1>5. CallbackTyped' BY <1>1, CallbackKeepsType DEF sim
<1>6. \A d \in Callers : HandlerTyped(d)' BY <1>1, <1>2, <1>3, OthersKeepType
<1> QED BY <1>4, <1>5, <1>6 DEF TypeInv

\* Handlers that change the store.
Change(c) ==
  \/ AddSandbox(c) \/ RemoveSandbox(c) \/ AddContainer(c)
  \/ RemoveContainer(c) \/ RemoveImage(c)

LEMMA TypeChange ==
  ASSUME TypeInv, LockInv, NEW c \in Callers, Change(c)
  PROVE  TypeInv'
<1> USE ConstantsOK DEF Goto, Return
<1>1. UNCHANGED <<mu, req, id, sim>>
  BY DEF Change, AddSandbox, RemoveSandbox, AddContainer, RemoveContainer,
     RemoveImage
<1>2. /\ MapType(sandboxes, SandboxKeys, SandboxRec)'
      /\ MapType(containers, ContainerKeys, ContainerRec)'
      /\ MapType(images, Images \cup {EmptyId}, ImageSpecs)'
  <2> USE DEF TypeInv, TypeOK
  <2>1. CASE AddSandbox(c)
    <3>1. id[c] \in SandboxIds BY <2>1 DEF AddSandbox, HandlerTyped, At
    <3>2. [id |-> id[c], p |-> "NOTREADY", s |-> "NOTREADY"] \in SandboxRec
      BY <3>1 DEF SandboxRec
    <3> QED BY <2>1, <3>1, <3>2, PutType DEF AddSandbox, SandboxKeys
  <2>2. CASE RemoveSandbox(c) BY <2>2, DeleteType DEF RemoveSandbox
  <2>3. CASE AddContainer(c)
    <3>1. id[c] \in ContainerIds /\ req[c].id \in SandboxIds
      BY <2>3 DEF AddContainer, HandlerTyped, At
    <3>2. [id |-> id[c], sb |-> req[c].id, p |-> "CREATED", s |-> "CREATED"]
            \in ContainerRec
      BY <3>1 DEF ContainerRec, ContainerStates
    <3> QED BY <2>3, <3>1, <3>2, PutType DEF AddContainer, ContainerKeys
  <2>4. CASE RemoveContainer(c) BY <2>4, DeleteType DEF RemoveContainer
  <2>5. CASE RemoveImage(c) BY <2>5, DeleteType DEF RemoveImage
  <2> QED BY <2>1, <2>2, <2>3, <2>4, <2>5 DEF Change
<1>3. /\ pc' \in [Callers -> Labels]
      /\ DOMAIN reply' = Callers /\ \A d \in Callers : reply'[d].code \in Codes
      /\ HandlerTyped(c)'
      /\ \A d \in Callers \ {c} : pc'[d] = pc[d]
  BY DEF Change, AddSandbox, RemoveSandbox, AddContainer, RemoveContainer,
     RemoveImage, TypeInv, TypeOK, Labels, Codes, HandlerTyped, At, SlowOps,
     SandboxOps, ContainerOps, SandboxKeys
<1>4. TypeOK' BY <1>1, <1>2, <1>3 DEF TypeInv, TypeOK, sim
<1>5. CallbackTyped' BY <1>1, CallbackKeepsType DEF sim
<1>6. \A d \in Callers : HandlerTyped(d)' BY <1>1, <1>3, OthersKeepType
<1> QED BY <1>4, <1>5, <1>6 DEF TypeInv

\* The simulator: labels, ids and requests stay, so do the handlers' types.
LEMMA TypeSimulator ==
  ASSUME TypeInv, LockInv, LockInv', Simulator
  PROVE  TypeInv'
<1> USE DEF TypeInv
<1>1. UNCHANGED <<mu, rpc>>
  BY DEF Simulator, Callback, Tick, Begin, Finish, CallbackGet, CallbackPut,
     CallbackPull, CallbackList, CallbackExit, CallbackListed
<1>2. \A c \in Callers : HandlerTyped(c)'
  BY <1>1 DEF HandlerTyped, At, rpc
<1>3. /\ events' \subseteq [left : 1 .. Delay, by : Callers]
      /\ toRun' \subseteq Callers
      /\ simpc' \in {"tick", "next"} \cup CallbackSteps
      /\ running' \in Callers \cup {NoCaller}
      /\ simpc' \in CallbackSteps => running' \in Callers
      /\ closed' \subseteq Callers
  BY DEF LockInv, ControlOK
<1>4. ASSUME simpc \in CallbackSteps
      PROVE  /\ running \in Callers
             /\ Op \in SlowOps
             /\ Op \in SandboxOps => Target \in SandboxKeys
             /\ Op \in ContainerOps => Target \in ContainerKeys
  <2>1. running \in Callers /\ pc[running] = "wait"
    BY <1>4 DEF LockInv, ControlOK, EventPerWaiter, InCallback
  <2> QED BY <2>1 DEF HandlerTyped, Op, Target
<1>5. CASE Tick \/ Begin \/ Finish \/ CallbackListed
  <2>1. UNCHANGED <<obj, todo, store>> /\ simpc' # "put"
    BY <1>5 DEF Tick, Begin, Finish, CallbackListed
  <2>2. TypeOK' BY <2>1, <1>1, <1>3 DEF TypeOK, rpc, store
  <2> QED BY <1>2, <2>1, <2>2 DEF CallbackTyped
<1>6. CASE CallbackGet
  <2>1. UNCHANGED <<todo, store, running>> BY <1>6 DEF CallbackGet
  <2>2. Op' = Op BY <2>1, <1>1 DEF Op, rpc
  <2>3. \/ simpc' = AfterPut /\ obj' = obj
        \/ /\ simpc' = "put"
           /\ Op # "PullImage"
           /\ obj' \in IF Op \in SandboxOps THEN SandboxRec ELSE ContainerRec
    BY <1>6 DEF CallbackGet, WithId, TypeOK, MapType
  <2>4. TypeOK' BY <2>1, <2>3, <1>1, <1>3 DEF TypeOK, rpc, store
  <2> QED BY <1>2, <2>2, <2>3, <2>4 DEF CallbackTyped, AfterPut
<1>7. CASE CallbackPut
  <2>1. UNCHANGED <<images, todo, running>> /\ obj' = NoObj /\ simpc' # "put"
    BY <1>7 DEF CallbackPut, AfterPut
  <2>2. simpc \in CallbackSteps /\ simpc = "put"
    BY <1>7 DEF CallbackPut, CallbackSteps
  <2>3. CASE Op \in SandboxOps
    <3>1. obj \in SandboxRec /\ Target \in SandboxKeys
      BY <1>4, <2>2, <2>3 DEF CallbackTyped
    <3>2. NewState \in {"NOTREADY", "READY"}
      BY <2>3 DEF NewState, SandboxOps
    <3>3. WithState(obj, NewState) \in SandboxRec
      BY <3>1, <3>2 DEF WithState, SandboxRec
    <3>4. MapType(sandboxes', SandboxKeys, SandboxRec)
      BY <1>7, <2>3, <3>1, <3>3, PutType DEF CallbackPut, TypeOK
    <3>5. containers' = containers BY <1>7, <2>3 DEF CallbackPut
    <3>6. TypeOK' BY <1>1, <1>3, <2>1, <3>4, <3>5 DEF TypeOK, rpc
    <3> QED BY <1>2, <2>1, <3>6 DEF CallbackTyped
  <2>4. CASE Op \notin SandboxOps
    <3>1. obj \in ContainerRec /\ Op \in ContainerOps /\ Target \in ContainerKeys
      BY <1>4, <2>2, <2>4 DEF CallbackTyped, SlowOps, SandboxOps, ContainerOps
    <3>2. NewState \in ContainerStates
      BY <3>1 DEF NewState, ContainerOps, ContainerStates
    <3>3. WithState(obj, NewState) \in ContainerRec
      BY <3>1, <3>2 DEF WithState, ContainerRec
    <3>4. MapType(containers', ContainerKeys, ContainerRec)
      BY <1>7, <2>4, <3>1, <3>3, PutType DEF CallbackPut, TypeOK
    <3>5. sandboxes' = sandboxes BY <1>7, <2>4 DEF CallbackPut
    <3>6. TypeOK' BY <1>1, <1>3, <2>1, <3>4, <3>5 DEF TypeOK, rpc
    <3> QED BY <1>2, <2>1, <3>6 DEF CallbackTyped
  <2> QED BY <2>3, <2>4
<1>8. CASE CallbackPull
  <2>1. /\ UNCHANGED <<sandboxes, containers, obj, todo>>
        /\ simpc' # "put"
        /\ simpc \in CallbackSteps
    BY <1>8 DEF CallbackPull, CallbackSteps
  <2>2. req[running].img \in ImageSpecs
    <3>1. req[running] \in Requests \cup {NoReq} BY <1>4, <2>1 DEF TypeOK
    <3> QED BY <3>1, ConstantsOK DEF Request, NoReq, ImageSpecs
  <2>3. NameOf(req[running].img) \in Images \cup {EmptyId}
    BY <2>2 DEF NameOf, ImageSpecs
  <2>4. MapType(images', Images \cup {EmptyId}, ImageSpecs)
    BY <1>8, <2>2, <2>3, PutType DEF CallbackPull, TypeOK
  <2>5. TypeOK' BY <1>1, <1>3, <2>1, <2>4 DEF TypeOK, rpc
  <2> QED BY <1>2, <2>1, <2>5 DEF CallbackTyped
<1>9. CASE CallbackList
  <2>1. UNCHANGED <<store, obj>> /\ simpc' # "put" BY <1>9 DEF CallbackList
  <2>2. todo' \subseteq ContainerRec
    BY <1>9 DEF CallbackList, ContainersOf, TypeOK, MapType
  <2>3. TypeOK' BY <1>1, <1>3, <2>1, <2>2 DEF TypeOK, rpc, store
  <2> QED BY <1>2, <2>1, <2>3 DEF CallbackTyped
<1>10. CASE CallbackExit
  <2>1. UNCHANGED <<sandboxes, images, obj>> /\ simpc' # "put"
    BY <1>10 DEF CallbackExit
  <2>2. PICK v \in todo :
          /\ containers' = Put(containers, v.id, WithState(v, "EXITED"))
          /\ todo' = todo \ {v}
    BY <1>10 DEF CallbackExit
  <2>3. v.id \in ContainerKeys /\ WithState(v, "EXITED") \in ContainerRec
    BY DEF TypeOK, ContainerRec, ContainerKeys, ContainerStates, WithState
  <2>4. MapType(containers', ContainerKeys, ContainerRec)
    BY <2>2, <2>3, PutType DEF TypeOK
  <2>5. TypeOK' BY <1>1, <1>3, <2>1, <2>2, <2>4 DEF TypeOK, rpc
  <2> QED BY <1>2, <2>1, <2>5 DEF CallbackTyped
<1> QED
  BY <1>5, <1>6, <1>7, <1>8, <1>9, <1>10 DEF Simulator, Callback

LEMMA TypeStep == TypeInv /\ LockInv /\ LockInv' /\ [Next]_vars => TypeInv'
<1> SUFFICES ASSUME TypeInv, LockInv, LockInv', [Next]_vars PROVE TypeInv'
  OBVIOUS
<1>1. CASE UNCHANGED vars
  BY <1>1 DEF vars, rpc, sim, store, TypeInv, TypeOK, HandlerTyped, At,
     CallbackTyped, Op
<1>2. CASE Simulator BY <1>2, TypeSimulator
<1>3. ASSUME NEW c \in Callers,
             \/ \E r \in Requests : Call(c, r)
             \/ Acquire(c) \/ Handler(c) \/ Relock(c) \/ Collect(c)
      PROVE TypeInv'
  BY <1>3, TypeFrame, TypeCheck, TypeChange DEF Handler, Check, Change
<1> QED BY <1>1, <1>2, <1>3 DEF Next

\* Every variable keeps its type, for any requests.
THEOREM TypeCorrect == Spec => []TypeOK
<1>1. TypeInv => TypeOK BY DEF TypeInv
<1> QED
  BY <1>1, TypeInit, TypeStep, LockInit, LockStep, PTL DEF Spec

-----------------------------------------------------------------------------
(* Where objects are stored.                                               *)

\* The clone a callback is about to put back is the target's, or the target
\* is the empty key.
KeyInv == KeysAreIds /\ (simpc = "put" => Target \in {obj.id, EmptyId})

UnderOwnId(m) == \A k \in DOMAIN m : k \in {m[k].id, EmptyId}

LEMMA PutKeepsKeys ==
  ASSUME NEW m, NEW k, NEW v, UnderOwnId(m), k \in {v.id, EmptyId}
  PROVE  UnderOwnId(Put(m, k, v))
BY DEF UnderOwnId, Put

LEMMA DeleteKeepsKeys ==
  ASSUME NEW m, NEW k, UnderOwnId(m)
  PROVE  UnderOwnId(Delete(m, k))
BY DEF UnderOwnId, Delete

LEMMA KeyInit == Init => KeyInv
BY DEF Init, KeyInv, KeysAreIds

\* No handler's step changes what a running callback works for.
LEMMA KeyFrame ==
  ASSUME KeyInv, TypeInv, LockInv, NEW c \in Callers, NEW i,
         id' = id \/ (pc[c] # "wait" /\ id' = [id EXCEPT ![c] = i]),
         UNCHANGED <<simpc, obj, running>>,
         KeysAreIds'
  PROVE  KeyInv'
<1> SUFFICES ASSUME simpc = "put" PROVE id'[running] = id[running]
  BY DEF KeyInv, Target
<1>1. running \in Callers /\ pc[running] = "wait"
  BY DEF LockInv, ControlOK, EventPerWaiter, InCallback, CallbackSteps
<1> QED BY <1>1 DEF TypeInv, TypeOK

LEMMA KeyStep ==
  TypeInv /\ LockInv /\ KeyInv /\ [Next]_vars => KeyInv'
<1> SUFFICES ASSUME TypeInv, LockInv, KeyInv, [Next]_vars PROVE KeyInv'
  OBVIOUS
<1>0. UnderOwnId(sandboxes) /\ UnderOwnId(containers)
  BY DEF KeyInv, KeysAreIds, UnderOwnId
<1>1. CASE UNCHANGED vars
  BY <1>1 DEF vars, rpc, sim, store, KeyInv, KeysAreIds, Target
<1>2. CASE Simulator
  <2>1. CASE Tick \/ Begin \/ Finish \/ CallbackList \/ CallbackListed
    <3>1. UNCHANGED store /\ simpc' # "put"
      BY <2>1 DEF Tick, Begin, Finish, CallbackList, CallbackListed
    <3> QED BY <3>1 DEF KeyInv, KeysAreIds, store
  <2>2. CASE CallbackGet
    <3>1. UNCHANGED <<store, running, id>> BY <2>2 DEF CallbackGet, rpc
    <3>2. simpc' = "put" => Target \in {obj'.id, EmptyId}
      BY <2>2 DEF CallbackGet, AfterPut, WithId
    <3> QED BY <3>1, <3>2 DEF KeyInv, KeysAreIds, store, Target
  <2>3. CASE CallbackPut
    <3>1. simpc' # "put" BY <2>3 DEF CallbackPut, AfterPut
    <3>2. WithState(obj, NewState).id = obj.id
      <4>1. obj \in SandboxRec \cup ContainerRec
        BY <2>3 DEF CallbackPut, TypeInv, CallbackTyped
      <4> QED BY <4>1 DEF WithState, SandboxRec, ContainerRec
    <3>3. Target \in {WithState(obj, NewState).id, EmptyId}
      BY <2>3, <3>2 DEF KeyInv, CallbackPut
    <3>4. UnderOwnId(sandboxes') /\ UnderOwnId(containers')
      BY <2>3, <3>3, <1>0, PutKeepsKeys DEF CallbackPut
    <3> QED BY <3>1, <3>4 DEF KeyInv, KeysAreIds, UnderOwnId
  <2>4. CASE CallbackPull
    BY <2>4 DEF CallbackPull, KeyInv, KeysAreIds
  <2>5. CASE CallbackExit
    <3>1. PICK v \in todo :
            containers' = Put(containers, v.id, WithState(v, "EXITED"))
      BY <2>5 DEF CallbackExit
    <3>2. WithState(v, "EXITED").id = v.id
      BY DEF TypeInv, TypeOK, ContainerRec, WithState
    <3>3. UnderOwnId(containers') BY <1>0, <3>1, <3>2, PutKeepsKeys
    <3>4. UNCHANGED sandboxes /\ simpc' # "put" BY <2>5 DEF CallbackExit
    <3> QED BY <3>3, <3>4 DEF KeyInv, KeysAreIds, UnderOwnId
  <2> QED
    BY <1>2, <2>1, <2>2, <2>3, <2>4, <2>5 DEF Simulator, Callback
<1>3. ASSUME NEW c \in Callers,
             \/ \E r \in Requests : Call(c, r)
             \/ Acquire(c) \/ Handler(c) \/ Relock(c) \/ Collect(c)
      PROVE KeyInv'
  <2>1. CASE Change(c)
    <3>1. UNCHANGED <<id, simpc, obj, running>>
      BY <2>1 DEF Change, AddSandbox, RemoveSandbox, AddContainer,
         RemoveContainer, RemoveImage, sim
    <3>2. UnderOwnId(sandboxes') /\ UnderOwnId(containers')
      BY <2>1, <1>0, PutKeepsKeys, DeleteKeepsKeys
      DEF Change, AddSandbox, RemoveSandbox, AddContainer, RemoveContainer,
          RemoveImage
    <3> QED BY <3>1, <3>2, KeyFrame DEF KeysAreIds, UnderOwnId
  <2>2. CASE Check(c)
    <3>1. UNCHANGED <<store, simpc, obj, running>>
      BY <2>2 DEF Check, RunPodSandbox, StopPodSandbox, RemovePodSandbox,
         CheckChildren, CreateContainer, CheckImage, CheckContainer,
         StartOrStopContainer, CheckRemoveContainer, PullImage,
         PodSandboxStatus, ContainerStatus, Status, ImageStatus,
         ListPodSandbox, ListContainers, List, sim
    <3>2. \E i : id' = id \/ (pc[c] # "wait" /\ id' = [id EXCEPT ![c] = i])
      BY <2>2 DEF Check, RunPodSandbox, StopPodSandbox, RemovePodSandbox,
         CheckChildren, CreateContainer, CheckImage, CheckContainer,
         StartOrStopContainer, CheckRemoveContainer, PullImage,
         PodSandboxStatus, ContainerStatus, Status, ImageStatus,
         ListPodSandbox, ListContainers, List, At
    <3> QED BY <3>1, <3>2, KeyFrame DEF KeyInv, KeysAreIds, store
  <2>3. CASE \/ \E r \in Requests : Call(c, r)
             \/ Acquire(c) \/ Unlock(c) \/ Release(c) \/ Select(c)
             \/ Relock(c) \/ Collect(c) \/ Enqueue(c) \/ Woken(c)
    <3> USE DEF Call, Acquire, Unlock, Release, Select, Relock, Collect,
                Enqueue, Woken, sim, store
    <3>1. UNCHANGED <<sandboxes, containers, simpc, obj, running>> BY <2>3
    <3>2. id' = id \/ (pc[c] # "wait" /\ id' = [id EXCEPT ![c] = EmptyId])
      BY <2>3
    <3> QED BY <3>1, <3>2, KeyFrame DEF KeyInv, KeysAreIds
  <2> QED BY <1>3, <2>1, <2>2, <2>3 DEF Handler, Check, Change
<1> QED BY <1>1, <1>2, <1>3 DEF Next

\* An object is stored under its own id or under the empty key, for any
\* requests: what a handler or a callback writes, and where, never drift
\* apart between the lookup and the write.
THEOREM ObjectsUnderTheirIds == Spec => []KeysAreIds
<1>1. KeyInv => KeysAreIds BY DEF KeyInv
<1> QED
  BY <1>1, KeyInit, KeyStep, TypeInit, TypeStep, LockInit, LockStep, PTL
  DEF Spec

-----------------------------------------------------------------------------
(***************************************************************************)
(* Referential integrity of the store, for requests that name what they    *)
(* are about (NamedRequests).                                              *)
(*                                                                         *)
(* NoDanglingContainer is not inductive.  What is missing: a handler that  *)
(* has checked something still finds it so when it acts (HandlerSafe), and *)
(* the clones of a running callback still have their originals in the      *)
(* store (CallbackSafe).  Both hold because, by LockInv, nobody else is    *)
(* inside b.mu meanwhile.                                                  *)
(***************************************************************************)

OwnKeys ==
  /\ \A k \in DOMAIN sandboxes : sandboxes[k].id = k
  /\ \A k \in DOMAIN containers : containers[k].id = k

HandlerSafe(c) ==
  /\ \A l \in {"image", "exists", "add"} :
       At(c, l, "CreateContainer") => req[c].id \in DOMAIN sandboxes
  /\ At(c, "children", "RemovePodSandbox") => req[c].id # EmptyId
  /\ At(c, "remove", "RemovePodSandbox") =>
       req[c].id # EmptyId /\ ContainersOf(req[c].id) = {}
  /\ pc[c] \in {"enqueue", "wait"} =>
       /\ req[c].op \in SandboxOps => id[c] \in DOMAIN sandboxes
       /\ req[c].op \in ContainerOps => id[c] \in DOMAIN containers
  /\ pc[c] = "unlock" /\ reply[c].code = "OK" =>
       /\ req[c].op = "RemovePodSandbox" => WithId(sandboxes, req[c].id) = {}
       /\ req[c].op = "RemoveContainer" => WithId(containers, req[c].id) = {}

CallbackSafe ==
  /\ simpc = "put" =>
       /\ obj.id = Target
       /\ Op \notin SandboxOps => obj.sb \in DOMAIN sandboxes
  /\ simpc = "each" =>
       \A v \in todo : v.id \in DOMAIN containers /\ v.sb \in DOMAIN sandboxes

StoreInv ==
  /\ OwnKeys
  /\ NoDanglingContainer
  /\ \A c \in Callers : HandlerSafe(c)
  /\ CallbackSafe

LEMMA StoreInit == Init => StoreInv
BY ConstantsOK
   DEF Init, StoreInv, OwnKeys, NoDanglingContainer, HandlerSafe, CallbackSafe,
       At, NoReply

\* A named object is found under its own key or not at all.
LEMMA FoundUnderKey ==
  ASSUME OwnKeys, NEW i, i # EmptyId
  PROVE  /\ WithId(sandboxes, i) # {} => i \in DOMAIN sandboxes
         /\ WithId(containers, i) # {} => i \in DOMAIN containers
BY DEF OwnKeys, WithId

\* Keys are never the empty id.
LEMMA KeysNamed ==
  ASSUME TypeOK, OwnKeys
  PROVE  EmptyId \notin DOMAIN sandboxes /\ EmptyId \notin DOMAIN containers
BY ConstantsOK
   DEF TypeOK, OwnKeys, MapType, SandboxRec, ContainerRec

\* While a callback is past its lookup, its caller is the one that waits.
LEMMA CallbackCaller ==
  ASSUME LockInv, simpc \in CallbackSteps
  PROVE  running \in Callers /\ pc[running] = "wait" /\ mu = running
BY DEF LockInv, ControlOK, LockHeld, EventPerWaiter, InCallback, Inside

\* Nothing inside a handler's body or a callback changes while neither its
\* own labels nor the store do.
LEMMA QuietOthers ==
  ASSUME StoreInv, NEW d \in Callers, UNCHANGED <<sandboxes, containers>>,
         pc'[d] = pc[d], req'[d] = req[d], id'[d] = id[d], reply'[d] = reply[d]
  PROVE  HandlerSafe(d)'
BY DEF StoreInv, HandlerSafe, At, ContainersOf, WithId

LEMMA QuietCallback ==
  ASSUME StoreInv, TypeInv, LockInv, NEW c \in Callers, NEW r, NEW i,
         req' = req \/ (pc[c] # "wait" /\ req' = [req EXCEPT ![c] = r]),
         id' = id \/ (pc[c] # "wait" /\ id' = [id EXCEPT ![c] = i]),
         UNCHANGED <<simpc, obj, todo, running, sandboxes, containers>>
  PROVE  CallbackSafe'
<1> SUFFICES ASSUME simpc \in CallbackSteps
             PROVE req'[running] = req[running] /\ id'[running] = id[running]
  BY DEF StoreInv, CallbackSafe, Op, Target, CallbackSteps
<1> QED BY CallbackCaller DEF TypeInv, TypeOK

\* A handler that is not inside b.mu has nothing to keep.
LEMMA OutsideSafe ==
  ASSUME NEW d \in Callers, ~Inside(d)
  PROVE  HandlerSafe(d)
BY DEF Inside, HandlerSafe, At

LEMMA StoreFrame ==
  ASSUME StoreInv, TypeInv, LockInv, NEW c \in Callers,
         \/ \E r \in Requests : Call(c, r)
         \/ Acquire(c) \/ Unlock(c) \/ Release(c) \/ Select(c) \/ Relock(c)
         \/ Collect(c) \/ Enqueue(c) \/ Woken(c)
  PROVE  StoreInv'
<1> USE DEF Call, Acquire, Unlock, Release, Select, Relock, Collect, Enqueue,
            Woken, Goto, Return, sim, store
<1>1. UNCHANGED <<sandboxes, containers, simpc, obj, todo, running>>
  OBVIOUS
<1>2. OwnKeys' /\ NoDanglingContainer'
  BY <1>1 DEF StoreInv, OwnKeys, NoDanglingContainer
<1>3. CallbackSafe'
  <2>1. CASE \E r \in Requests : Call(c, r) BY <2>1, QuietCallback
  <2>2. CASE Collect(c) BY <2>2, QuietCallback
  <2>3. CASE \/ Acquire(c) \/ Unlock(c) \/ Release(c) \/ Select(c)
             \/ Relock(c) \/ Enqueue(c) \/ Woken(c)
    BY <2>3, QuietCallback
  <2> QED BY <2>1, <2>2, <2>3
<1>4. \A d \in Callers \ {c} : HandlerSafe(d)'
  BY <1>1, QuietOthers DEF TypeInv, TypeOK
<1>5. HandlerSafe(c)'
  <2>1. CASE Relock(c)
    BY <2>1 DEF HandlerSafe, At, TypeInv, TypeOK, HandlerTyped
  <2>2. CASE Woken(c)
    BY <2>2 DEF HandlerSafe, At, TypeInv, TypeOK, HandlerTyped, SlowOps
  <2>3. CASE Enqueue(c)
    BY <2>3, <1>1 DEF StoreInv, HandlerSafe, At, TypeInv, TypeOK, SlowOps
  <2>4. CASE \/ \E r \in Requests : Call(c, r)
             \/ Acquire(c) \/ Unlock(c) \/ Release(c) \/ Select(c) \/ Collect(c)
    BY <2>4 DEF HandlerSafe, At, TypeInv, TypeOK
  <2> QED BY <2>1, <2>2, <2>3, <2>4
<1> QED BY <1>2, <1>3, <1>4, <1>5 DEF StoreInv

\* A check sees the store as it is: what it found is what it passes on.
LEMMA StoreCheck ==
  ASSUME StoreInv, TypeInv, LockInv, NamedRequests, NEW c \in Callers, Check(c)
  PROVE  StoreInv'
<1> USE DEF At, Goto, Return
<1>1. /\ UNCHANGED <<mu, req, store, sim>>
      /\ pc[c] # "wait"
      /\ id' = id \/ \E i : id' = [id EXCEPT ![c] = i]
  BY DEF Check, RunPodSandbox, StopPodSandbox, RemovePodSandbox, CheckChildren,
     CreateContainer, CheckImage, CheckContainer, StartOrStopContainer,
     CheckRemoveContainer, PullImage, PodSandboxStatus, ContainerStatus, Status,
     ImageStatus, ListPodSandbox, ListContainers, List
<1>2. OwnKeys' /\ NoDanglingContainer'
  BY <1>1 DEF StoreInv, OwnKeys, NoDanglingContainer, store
<1>3. CallbackSafe'
  BY <1>1, QuietCallback DEF sim, store
<1>4. \A d \in Callers \ {c} : HandlerSafe(d)'
  <2>1. \A d \in Callers \ {c} : /\ pc'[d] = pc[d]
                                 /\ id'[d] = id[d]
                                 /\ reply'[d] = reply[d]
    BY DEF TypeInv, TypeOK, Check, RunPodSandbox, StopPodSandbox,
       RemovePodSandbox, CheckChildren, CreateContainer, CheckImage,
       CheckContainer, StartOrStopContainer, CheckRemoveContainer, PullImage,
       PodSandboxStatus, ContainerStatus, Status, ImageStatus, ListPodSandbox,
       ListContainers, List
  <2> QED BY <1>1, <2>1, QuietOthers DEF store
<1>5. HandlerSafe(c)'
  <2>1. req[c] \in Requests \/ req[c] = NoReq BY DEF TypeInv, TypeOK
  <2> USE <1>1 DEF HandlerSafe, TypeInv, TypeOK, SandboxOps, ContainerOps,
                   store, ContainersOf
  <2>2. CASE RunPodSandbox(c) BY <2>2 DEF RunPodSandbox
  <2>3. CASE StopPodSandbox(c)
    <3>1. req[c].id # EmptyId
      BY <2>1, <2>3 DEF StopPodSandbox, NamedRequests, NoReq
    <3> QED BY <2>3, <3>1, FoundUnderKey DEF StopPodSandbox, StoreInv
  <2>4. CASE RemovePodSandbox(c) BY <2>4 DEF RemovePodSandbox
  <2>5. CASE CheckChildren(c) BY <2>5 DEF CheckChildren, StoreInv
  <2>6. CASE CreateContainer(c)
    BY <2>6, FoundUnderKey DEF CreateContainer, StoreInv
  <2>7. CASE CheckImage(c) BY <2>7 DEF CheckImage, StoreInv
  <2>8. CASE CheckContainer(c) BY <2>8 DEF CheckContainer, StoreInv
  <2>9. CASE StartOrStopContainer(c)
    <3>1. req[c].id # EmptyId
      BY <2>1, <2>9 DEF StartOrStopContainer, NamedRequests, NoReq
    <3> QED BY <2>9, <3>1, FoundUnderKey DEF StartOrStopContainer, StoreInv
  <2>10. CASE CheckRemoveContainer(c) BY <2>10 DEF CheckRemoveContainer
  <2>11. CASE PullImage(c) BY <2>11 DEF PullImage
  <2>12. CASE PodSandboxStatus(c) \/ ContainerStatus(c)
    BY <2>12 DEF PodSandboxStatus, ContainerStatus, Status
  <2>13. CASE ImageStatus(c) BY <2>13 DEF ImageStatus
  <2>14. CASE ListPodSandbox(c) \/ ListContainers(c)
    BY <2>14 DEF ListPodSandbox, ListContainers, List
  <2> QED
    BY <2>2, <2>3, <2>4, <2>5, <2>6, <2>7, <2>8, <2>9, <2>10, <2>11, <2>12,
       <2>13, <2>14 DEF Check
<1> QED BY <1>2, <1>3, <1>4, <1>5 DEF StoreInv

\* Whoever changes the store is alone inside b.mu.
LEMMA StoreChange ==
  ASSUME StoreInv, TypeInv, LockInv, NamedRequests, NEW c \in Callers, Change(c)
  PROVE  StoreInv'
<1> USE DEF At, Goto, Return
<1>1. /\ UNCHANGED <<mu, req, id, sim>>
      /\ pc[c] \in {"add", "remove", "enter"}
      /\ pc' = [pc EXCEPT ![c] = pc'[c]]
      /\ pc'[c] \in {"unlock", "enqueue"}
  BY DEF Change, AddSandbox, RemoveSandbox, AddContainer, RemoveContainer,
     RemoveImage, TypeInv, TypeOK
<1>2. mu = c /\ \A d \in Callers \ {c} : ~Inside(d) /\ ~Inside(d)'
  BY <1>1 DEF LockInv, LockHeld, Inside, TypeInv, TypeOK
<1>3. CallbackSafe'
  <2>1. simpc \notin CallbackSteps BY <1>1, <1>2, CallbackCaller
  <2> QED BY <2>1, <1>1 DEF CallbackSafe, CallbackSteps, sim
<1>4. \A d \in Callers \ {c} : HandlerSafe(d)'
  BY <1>2, OutsideSafe DEF HandlerSafe, Inside, At
<1>5. OwnKeys' /\ NoDanglingContainer' /\ HandlerSafe(c)'
  <2> USE <1>1 DEF StoreInv, HandlerSafe, TypeInv, TypeOK
  <2>1. CASE AddSandbox(c)
    <3>1. OwnKeys' BY <2>1 DEF AddSandbox, OwnKeys, Put
    <3>2. NoDanglingContainer'
      BY <2>1 DEF AddSandbox, NoDanglingContainer, Put
    <3>3. HandlerSafe(c)' BY <2>1 DEF AddSandbox, Put, ContainerOps
    <3> QED BY <3>1, <3>2, <3>3
  <2>2. CASE RemoveSandbox(c)
    <3>1. ContainersOf(req[c].id) = {} /\ req[c].id # EmptyId
      BY <2>2 DEF RemoveSandbox
    <3>2. OwnKeys' BY <2>2 DEF RemoveSandbox, OwnKeys, Delete
    <3>3. NoDanglingContainer'
      BY <2>2, <3>1 DEF RemoveSandbox, NoDanglingContainer, Delete, ContainersOf
    <3>4. WithId(sandboxes', req[c].id) = {}
      BY <2>2, <3>1 DEF RemoveSandbox, OwnKeys, Delete, WithId
    <3> QED BY <2>2, <3>2, <3>3, <3>4 DEF RemoveSandbox
  <2>3. CASE AddContainer(c)
    <3>1. OwnKeys' BY <2>3 DEF AddContainer, OwnKeys, Put
    <3>2. NoDanglingContainer'
      BY <2>3 DEF AddContainer, NoDanglingContainer, Put
    <3> QED BY <2>3, <3>1, <3>2 DEF AddContainer
  <2>4. CASE RemoveContainer(c)
    <3>1. req[c].id # EmptyId
      <4>1. req[c] \in Requests \/ req[c] = NoReq OBVIOUS
      <4> QED BY <2>4, <4>1 DEF RemoveContainer, NamedRequests, NoReq
    <3>2. OwnKeys' BY <2>4 DEF RemoveContainer, OwnKeys, Delete
    <3>3. NoDanglingContainer'
      BY <2>4 DEF RemoveContainer, NoDanglingContainer, Delete
    <3>4. WithId(containers', req[c].id) = {}
      BY <2>4, <3>1 DEF RemoveContainer, OwnKeys, Delete, WithId
    <3> QED BY <2>4, <3>2, <3>3, <3>4 DEF RemoveContainer
  <2>5. CASE RemoveImage(c)
    BY <2>5 DEF RemoveImage, OwnKeys, NoDanglingContainer
  <2> QED BY <2>1, <2>2, <2>3, <2>4, <2>5 DEF Change
<1> QED BY <1>3, <1>4, <1>5 DEF StoreInv

\* A callback's write-backs replace what is there by what came from there.
LEMMA StoreSimulator ==
  ASSUME StoreInv, TypeInv, LockInv, Simulator
  PROVE  StoreInv'
<1>1. UNCHANGED <<mu, rpc>>
  BY DEF Simulator, Callback, Tick, Begin, Finish, CallbackGet, CallbackPut,
     CallbackPull, CallbackList, CallbackExit, CallbackListed
<1>2. CASE Tick \/ Begin \/ Finish \/ CallbackListed \/ CallbackPull
  <2>1. UNCHANGED <<sandboxes, containers>> /\ simpc' \notin {"put", "each"}
    BY <1>2 DEF Tick, Begin, Finish, CallbackListed, CallbackPull, store
  <2> QED
    BY <1>1, <2>1 DEF StoreInv, OwnKeys, NoDanglingContainer, HandlerSafe,
       CallbackSafe, At, ContainersOf, WithId, rpc
<1>3. ASSUME simpc \in CallbackSteps
      PROVE  /\ running \in Callers /\ pc[running] = "wait"
             /\ Op \in SlowOps
             /\ Op \in SandboxOps => Target \in DOMAIN sandboxes
             /\ Op \in ContainerOps => Target \in DOMAIN containers
             /\ \A d \in Callers \ {running} : ~Inside(d)
  <2>1. running \in Callers /\ pc[running] = "wait" /\ mu = running
    BY <1>3, CallbackCaller
  <2>2. HandlerSafe(running) /\ HandlerTyped(running)
    BY <2>1 DEF StoreInv, TypeInv
  <2>3. \A d \in Callers \ {running} : ~Inside(d)
    BY <2>1 DEF LockInv, LockHeld
  <2> QED BY <2>1, <2>2, <2>3 DEF HandlerSafe, HandlerTyped, Op, Target
<1>4. ASSUME simpc \in CallbackSteps,
             DOMAIN sandboxes \subseteq DOMAIN sandboxes',
             DOMAIN containers \subseteq DOMAIN containers'
      PROVE  \A d \in Callers : HandlerSafe(d)'
  <2>1. \A d \in Callers \ {running} : ~Inside(d)'
    BY <1>1, <1>3, <1>4 DEF Inside, rpc
  <2>2. \A d \in Callers \ {running} : HandlerSafe(d)'
    BY <2>1 DEF HandlerSafe, Inside, At
  <2>3. ASSUME NEW d \in Callers, d = running PROVE HandlerSafe(d)'
    <3>1. pc[d] = "wait" /\ HandlerSafe(d)
      BY <1>3, <1>4, <2>3 DEF StoreInv
    <3> QED BY <1>1, <1>4, <3>1 DEF HandlerSafe, At, rpc
  <2> QED BY <2>2, <2>3
<1>5. CASE CallbackGet
  <2>1. /\ UNCHANGED <<store, running>>
        /\ simpc \in CallbackSteps
        /\ Op # "PullImage"
    BY <1>5 DEF CallbackGet, CallbackSteps
  <2>2. Op' = Op /\ Target' = Target BY <1>1, <2>1 DEF Op, Target, rpc
  <2>3. simpc' = "put" =>
          /\ obj'.id = Target
          /\ Op \notin SandboxOps => obj'.sb \in DOMAIN sandboxes
    <3>1. Target # EmptyId
      BY <1>3, <2>1, KeysNamed
      DEF StoreInv, TypeInv, SlowOps, SandboxOps, ContainerOps
    <3> QED
      BY <1>5, <3>1 DEF CallbackGet, AfterPut, WithId, StoreInv,
         NoDanglingContainer
  <2>4. simpc' # "each" BY <1>5 DEF CallbackGet, AfterPut
  <2>5. CallbackSafe' BY <2>1, <2>2, <2>3, <2>4 DEF CallbackSafe, store
  <2>6. OwnKeys' /\ NoDanglingContainer'
    BY <2>1 DEF StoreInv, OwnKeys, NoDanglingContainer, store
  <2>7. \A d \in Callers : HandlerSafe(d)' BY <1>4, <2>1 DEF store
  <2> QED BY <2>5, <2>6, <2>7 DEF StoreInv
<1>6. CASE CallbackPut
  <2>1. /\ simpc = "put" /\ simpc \in CallbackSteps
        /\ running' = running
        /\ simpc' \notin {"put", "each"}
    BY <1>6 DEF CallbackPut, CallbackSteps, AfterPut
  <2>2. CallbackSafe' BY <2>1 DEF CallbackSafe
  <2>3. obj.id = Target /\ (Op \notin SandboxOps => obj.sb \in DOMAIN sandboxes)
    BY <2>1 DEF StoreInv, CallbackSafe
  <2>4. CASE Op \in SandboxOps
    <3>1. /\ sandboxes' = Put(sandboxes, Target, WithState(obj, NewState))
          /\ containers' = containers
      BY <1>6, <2>4 DEF CallbackPut
    <3>2. WithState(obj, NewState).id = Target
      <4>1. obj \in SandboxRec BY <2>1, <2>4 DEF TypeInv, CallbackTyped
      <4> QED BY <4>1, <2>3 DEF WithState, SandboxRec
    <3>3. DOMAIN sandboxes' = DOMAIN sandboxes
      BY <1>3, <2>1, <2>4, <3>1 DEF Put
    <3>4. OwnKeys' BY <3>1, <3>2 DEF OwnKeys, Put, StoreInv
    <3>5. NoDanglingContainer'
      BY <3>1, <3>3 DEF NoDanglingContainer, StoreInv
    <3>6. \A d \in Callers : HandlerSafe(d)' BY <1>4, <2>1, <3>1, <3>3
    <3> QED BY <2>2, <3>4, <3>5, <3>6 DEF StoreInv
  <2>5. CASE Op \notin SandboxOps
    <3>1. /\ containers' = Put(containers, Target, WithState(obj, NewState))
          /\ sandboxes' = sandboxes
      BY <1>6, <2>5 DEF CallbackPut
    <3>2. /\ WithState(obj, NewState).id = Target
          /\ WithState(obj, NewState).sb \in DOMAIN sandboxes
      <4>1. obj \in ContainerRec BY <2>1, <2>5 DEF TypeInv, CallbackTyped
      <4> QED BY <4>1, <2>3, <2>5 DEF WithState, ContainerRec
    <3>3. DOMAIN containers \subseteq DOMAIN containers' BY <3>1 DEF Put
    <3>4. OwnKeys' BY <3>1, <3>2 DEF OwnKeys, Put, StoreInv
    <3>5. NoDanglingContainer'
      BY <3>1, <3>2 DEF NoDanglingContainer, StoreInv, Put
    <3>6. \A d \in Callers : HandlerSafe(d)' BY <1>4, <2>1, <3>1, <3>3
    <3> QED BY <2>2, <3>4, <3>5, <3>6 DEF StoreInv
  <2> QED BY <2>4, <2>5
<1>7. CASE CallbackList
  <2>1. /\ UNCHANGED <<store, running>>
        /\ simpc \in CallbackSteps
        /\ simpc' # "put"
        /\ todo' = {containers[k] : k \in ContainersOf(Target)}
    BY <1>7 DEF CallbackList, CallbackSteps
  <2>2. \A v \in todo' : v.id \in DOMAIN containers /\ v.sb \in DOMAIN sandboxes
    BY <2>1 DEF StoreInv, OwnKeys, NoDanglingContainer, ContainersOf
  <2>3. CallbackSafe' BY <2>1, <2>2 DEF CallbackSafe, store
  <2>4. OwnKeys' /\ NoDanglingContainer'
    BY <2>1 DEF StoreInv, OwnKeys, NoDanglingContainer, store
  <2>5. \A d \in Callers : HandlerSafe(d)' BY <1>4, <2>1 DEF store
  <2> QED BY <2>3, <2>4, <2>5 DEF StoreInv
<1>8. CASE CallbackExit
  <2>1. /\ UNCHANGED <<sandboxes, running, simpc>>
        /\ simpc = "each" /\ simpc \in CallbackSteps
    BY <1>8 DEF CallbackExit, CallbackSteps
  <2>2. PICK v \in todo :
          /\ containers' = Put(containers, v.id, WithState(v, "EXITED"))
          /\ todo' = todo \ {v}
    BY <1>8 DEF CallbackExit
  <2>3. /\ v.id \in DOMAIN containers
        /\ WithState(v, "EXITED").id = v.id
        /\ WithState(v, "EXITED").sb \in DOMAIN sandboxes
    <3>1. v \in ContainerRec BY DEF TypeInv, TypeOK
    <3> QED BY <2>1, <3>1 DEF StoreInv, CallbackSafe, WithState, ContainerRec
  <2>4. DOMAIN containers' = DOMAIN containers BY <2>2, <2>3 DEF Put
  <2>5. OwnKeys' BY <2>1, <2>2, <2>3 DEF StoreInv, OwnKeys, Put
  <2>6. NoDanglingContainer'
    BY <2>1, <2>2, <2>3 DEF StoreInv, NoDanglingContainer, Put
  <2>7. CallbackSafe' BY <2>1, <2>2, <2>4 DEF StoreInv, CallbackSafe
  <2>8. \A d \in Callers : HandlerSafe(d)' BY <1>4, <2>1, <2>4
  <2> QED BY <2>5, <2>6, <2>7, <2>8 DEF StoreInv
<1> QED BY <1>2, <1>5, <1>6, <1>7, <1>8 DEF Simulator, Callback

LEMMA StoreStep ==
  ASSUME NamedRequests
  PROVE  StoreInv /\ TypeInv /\ LockInv /\ [Next]_vars => StoreInv'
<1> SUFFICES ASSUME StoreInv, TypeInv, LockInv, [Next]_vars PROVE StoreInv'
  OBVIOUS
<1>1. CASE UNCHANGED vars
  BY <1>1 DEF vars, rpc, sim, store, StoreInv, OwnKeys, NoDanglingContainer,
     HandlerSafe, At, CallbackSafe, Op, Target, ContainersOf, WithId
<1>2. CASE Simulator BY <1>2, StoreSimulator
<1>3. ASSUME NEW c \in Callers,
             \/ \E r \in Requests : Call(c, r)
             \/ Acquire(c) \/ Handler(c) \/ Relock(c) \/ Collect(c)
      PROVE StoreInv'
  BY <1>3, StoreFrame, StoreCheck, StoreChange DEF Handler, Check, Change
<1> QED BY <1>1, <1>2, <1>3 DEF Next

\* No container outlives its sandbox, at any instant.
THEOREM ReferentialIntegrity ==
  ASSUME NamedRequests
  PROVE  Spec => []NoDanglingContainer
<1>1. StoreInv => NoDanglingContainer BY DEF StoreInv
<1>2. StoreInv /\ TypeInv /\ LockInv /\ [Next]_vars => StoreInv' BY StoreStep
<1> QED
  BY <1>1, <1>2, StoreInit, TypeInit, TypeStep, LockInit, LockStep, PTL
  DEF Spec

\* A remove that answers OK leaves nothing of that id to be found.
THEOREM RemoveRemoves ==
  ASSUME NamedRequests
  PROVE  Spec => []RemovedIsGone
<1>1. StoreInv => RemovedIsGone BY DEF StoreInv, HandlerSafe, RemovedIsGone
<1>2. StoreInv /\ TypeInv /\ LockInv /\ [Next]_vars => StoreInv' BY StoreStep
<1> QED
  BY <1>1, <1>2, StoreInit, TypeInit, TypeStep, LockInit, LockStep, PTL
  DEF Spec

\* A step that adds a key is the add of a create.
LEMMA CreatesOnly ==
  ASSUME StoreInv, TypeInv, LockInv, [Next]_vars
  PROVE  OnlyCreatesCreate
<1>1. CASE UNCHANGED vars BY <1>1 DEF vars, store, OnlyCreatesCreate
<1>2. CASE Simulator
  <2>1. \A k \in DOMAIN sandboxes' : k \in DOMAIN sandboxes
    <3>1. CASE CallbackPut
      <4>1. running \in Callers /\ pc[running] = "wait"
        BY <3>1, CallbackCaller DEF CallbackPut, CallbackSteps
      <4>2. Op \in SandboxOps => Target \in DOMAIN sandboxes
        BY <4>1 DEF StoreInv, HandlerSafe, Op, Target
      <4> QED BY <3>1, <4>2 DEF CallbackPut, Put
    <3>2. CASE ~CallbackPut
      BY <1>2, <3>2 DEF Simulator, Callback, Tick, Begin, Finish, CallbackGet,
         CallbackPull, CallbackList, CallbackExit, CallbackListed, store
    <3> QED BY <3>1, <3>2
  <2>2. \A k \in DOMAIN containers' : k \in DOMAIN containers
    <3>1. CASE CallbackPut
      <4>1. running \in Callers /\ pc[running] = "wait" /\ Op # "PullImage"
        BY <3>1, CallbackCaller
        DEF CallbackPut, CallbackSteps, TypeInv, CallbackTyped
      <4>2. Op \notin SandboxOps => Target \in DOMAIN containers
        BY <4>1 DEF StoreInv, HandlerSafe, TypeInv, HandlerTyped, Op, Target,
           SlowOps, SandboxOps, ContainerOps
      <4> QED BY <3>1, <4>2 DEF CallbackPut, Put
    <3>2. CASE CallbackExit
      BY <3>2 DEF CallbackExit, StoreInv, CallbackSafe, Put
    <3>3. CASE ~CallbackPut /\ ~CallbackExit
      BY <1>2, <3>3 DEF Simulator, Callback, Tick, Begin, Finish, CallbackGet,
         CallbackPull, CallbackList, CallbackListed, store
    <3> QED BY <3>1, <3>2, <3>3
  <2> QED BY <2>1, <2>2 DEF OnlyCreatesCreate
<1>3. ASSUME NEW c \in Callers,
             \/ \E r \in Requests : Call(c, r)
             \/ Acquire(c) \/ Handler(c) \/ Relock(c) \/ Collect(c)
      PROVE OnlyCreatesCreate
  <2>1. CASE Change(c)
    BY <2>1 DEF Change, AddSandbox, RemoveSandbox, AddContainer,
       RemoveContainer, RemoveImage, Put, Delete, OnlyCreatesCreate
  <2>2. CASE Check(c)
    <3>1. UNCHANGED store
      BY <2>2 DEF Check, RunPodSandbox, StopPodSandbox, RemovePodSandbox,
         CheckChildren, CreateContainer, CheckImage, CheckContainer,
         StartOrStopContainer, CheckRemoveContainer, PullImage,
         PodSandboxStatus, ContainerStatus, Status, ImageStatus,
         ListPodSandbox, ListContainers, List
    <3> QED BY <3>1 DEF store, OnlyCreatesCreate
  <2>3. CASE ~Change(c) /\ ~Check(c)
    <3>1. UNCHANGED store
      BY <1>3, <2>3 DEF Handler, Change, Check, Call, Acquire, Relock, Collect,
         Unlock, Release, Select, Enqueue, Woken
    <3> QED BY <3>1 DEF store, OnlyCreatesCreate
  <2> QED BY <2>1, <2>2, <2>3
<1> QED BY <1>1, <1>2, <1>3 DEF Next

\* What has been removed comes back by a create only, never by a callback.
THEOREM RemovedStaysRemoved ==
  ASSUME NamedRequests
  PROVE  Spec => NoResurrection
<1>1. StoreInv /\ TypeInv /\ LockInv /\ [Next]_vars => [OnlyCreatesCreate]_vars
  BY CreatesOnly
<1>2. StoreInv /\ TypeInv /\ LockInv /\ [Next]_vars => StoreInv' BY StoreStep
<1> QED
  BY <1>1, <1>2, StoreInit, TypeInit, TypeStep, LockInit, LockStep, PTL
  DEF Spec, NoResurrection

-----------------------------------------------------------------------------
(* What an OK promises.  The state a slow call was asked for is there when *)
(* its callback ends; from then until the caller has answered, mu is its   *)
(* own, and nobody else changes the store.                                 *)

Achieved(c) ==
  LET op == req[c].op IN
  /\ op = "RunPodSandbox" =>
       id[c] \in DOMAIN sandboxes /\ Both(sandboxes[id[c]], "READY")
  /\ op = "StopPodSandbox" =>
       /\ id[c] \in DOMAIN sandboxes
       /\ Both(sandboxes[id[c]], "NOTREADY")
       /\ \A k \in ContainersOf(id[c]) : Both(containers[k], "EXITED")
  /\ op = "StartContainer" =>
       id[c] \in DOMAIN containers /\ Both(containers[id[c]], "RUNNING")
  /\ op = "StopContainer" =>
       id[c] \in DOMAIN containers /\ Both(containers[id[c]], "EXITED")

AnswerSafe(c) ==
  c \in closed \/ (pc[c] = "unlock" /\ reply[c].code = "OK") => Achieved(c)

StopSafe ==
  /\ simpc = "close" => Achieved(running)
  /\ simpc \in {"list", "each"} =>
       /\ Op = "StopPodSandbox"
       /\ Target \in DOMAIN sandboxes /\ Both(sandboxes[Target], "NOTREADY")
  /\ simpc = "each" =>
       \A k \in ContainersOf(Target) :
         Both(containers[k], "EXITED") \/ containers[k] \in todo

AckInv == (\A c \in Callers : AnswerSafe(c)) /\ StopSafe

LEMMA AckInit == Init => AckInv
BY DEF Init, AckInv, AnswerSafe, StopSafe

LEMMA AchievedStays ==
  ASSUME NEW d \in Callers, Achieved(d), UNCHANGED <<sandboxes, containers>>,
         req'[d] = req[d], id'[d] = id[d]
  PROVE  Achieved(d)'
BY DEF Achieved, Both, ContainersOf

LEMMA StopStays ==
  ASSUME StopSafe, TypeInv, UNCHANGED <<sandboxes, containers, simpc, todo, running>>,
         simpc \in CallbackSteps =>
           req'[running] = req[running] /\ id'[running] = id[running]
  PROVE  StopSafe'
<1>1. CASE simpc \in CallbackSteps
  <2>1. running \in Callers BY <1>1 DEF TypeInv, TypeOK
  <2>2. Op' = Op /\ Target' = Target BY <1>1 DEF Op, Target
  <2>3. simpc = "close" => Achieved(running)'
    <3>1. ASSUME Achieved(running) PROVE Achieved(running)'
      BY <1>1, <2>1, <3>1 DEF Achieved, Both, ContainersOf
    <3> QED BY <3>1 DEF StopSafe
  <2> QED BY <2>2, <2>3 DEF StopSafe, ContainersOf, Both
<1>2. CASE simpc \notin CallbackSteps
  BY <1>2 DEF StopSafe, CallbackSteps
<1> QED BY <1>1, <1>2

\* Waiting callers, and only they, have a closed channel.
LEMMA ClosedWait ==
  ASSUME LockInv, NEW c \in Callers, c \in closed
  PROVE  pc[c] = "wait" /\ mu = c /\ (simpc \in CallbackSteps => c # running)
BY DEF LockInv, EventPerWaiter, LockHeld, Inside, InCallback

LEMMA AckFrame ==
  ASSUME AckInv, TypeInv, LockInv, NEW c \in Callers,
         \/ \E r \in Requests : Call(c, r)
         \/ Acquire(c) \/ Unlock(c) \/ Release(c) \/ Select(c) \/ Relock(c)
         \/ Collect(c) \/ Enqueue(c) \/ Woken(c)
  PROVE  AckInv'
<1> USE DEF Call, Acquire, Unlock, Release, Select, Relock, Collect, Enqueue,
            Woken, Goto, Return, sim, store
<1>1. /\ UNCHANGED <<sandboxes, containers, simpc, todo, running>>
      /\ closed' \subseteq closed
      /\ \A d \in Callers \ {c} : /\ pc'[d] = pc[d] /\ req'[d] = req[d]
                                  /\ id'[d] = id[d] /\ reply'[d] = reply[d]
  BY DEF TypeInv, TypeOK
<1>2. pc[c] = "wait" => UNCHANGED <<req, id>>
  OBVIOUS
<1>3. StopSafe'
  <2>1. simpc \in CallbackSteps =>
          req'[running] = req[running] /\ id'[running] = id[running]
    BY <1>1, <1>2, CallbackCaller
  <2> QED BY <1>1, <2>1, StopStays DEF AckInv
<1>4. \A d \in Callers \ {c} : AnswerSafe(d)'
  BY <1>1, AchievedStays DEF AckInv, AnswerSafe
<1>5. AnswerSafe(c)'
  <2>1. CASE Woken(c)
    <3>1. Achieved(c) BY <2>1 DEF AckInv, AnswerSafe
    <3>2. Achieved(c)' BY <1>1, <2>1, <3>1, AchievedStays
    <3> QED BY <3>2 DEF AnswerSafe
  <2>2. CASE Relock(c)
    <3>1. req'[c].op = "PullImage"
      BY <2>2 DEF TypeInv, HandlerTyped
    <3> QED BY <3>1 DEF AnswerSafe, Achieved
  <2>3. CASE \/ \E r \in Requests : Call(c, r)
             \/ Acquire(c) \/ Unlock(c) \/ Release(c) \/ Select(c)
             \/ Collect(c) \/ Enqueue(c)
    <3>1. pc[c] # "wait" /\ pc'[c] # "unlock"
      BY <2>3 DEF TypeInv, TypeOK
    <3>2. c \notin closed' BY <1>1, <3>1, ClosedWait
    <3> QED BY <3>1, <3>2 DEF AnswerSafe
  <2> QED BY <2>1, <2>2, <2>3
<1> QED BY <1>3, <1>4, <1>5 DEF AckInv

\* No handler answers OK to a slow call but by waiting for it.
LEMMA AckCheck ==
  ASSUME AckInv, TypeInv, LockInv, NEW c \in Callers, Check(c)
  PROVE  AckInv'
<1> USE DEF At, Goto, Return
<1>1. /\ UNCHANGED <<mu, req, store, sim>>
      /\ pc[c] # "wait"
      /\ pc' = [pc EXCEPT ![c] = pc'[c]]
      /\ id' = id \/ \E i : id' = [id EXCEPT ![c] = i]
      /\ reply' = reply \/ \E x : reply' = [reply EXCEPT ![c] = x]
  BY DEF Check, RunPodSandbox, StopPodSandbox, RemovePodSandbox, CheckChildren,
     CreateContainer, CheckImage, CheckContainer, StartOrStopContainer,
     CheckRemoveContainer, PullImage, PodSandboxStatus, ContainerStatus, Status,
     ImageStatus, ListPodSandbox, ListContainers, List, TypeInv, TypeOK
<1>2. /\ UNCHANGED <<sandboxes, containers, simpc, todo, running, closed>>
      /\ \A d \in Callers \ {c} : /\ pc'[d] = pc[d] /\ req'[d] = req[d]
                                  /\ id'[d] = id[d] /\ reply'[d] = reply[d]
  BY <1>1 DEF TypeInv, TypeOK, store, sim
<1>3. StopSafe'
  <2>1. simpc \in CallbackSteps =>
          req'[running] = req[running] /\ id'[running] = id[running]
    BY <1>1, <1>2, CallbackCaller
  <2> QED BY <1>2, <2>1, StopStays DEF AckInv
<1>4. \A d \in Callers \ {c} : AnswerSafe(d)'
  BY <1>2, AchievedStays DEF AckInv, AnswerSafe
<1>5. AnswerSafe(c)'
  <2>1. c \notin closed' BY <1>1, <1>2, ClosedWait
  <2>2. pc'[c] = "unlock" /\ reply'[c].code = "OK" =>
          req[c].op \notin SandboxOps \cup ContainerOps
    BY DEF Check, RunPodSandbox, StopPodSandbox, RemovePodSandbox,
       CheckChildren, CreateContainer, CheckImage, CheckContainer,
       StartOrStopContainer, CheckRemoveContainer, PullImage, PodSandboxStatus,
       ContainerStatus, Status, ImageStatus, ListPodSandbox, ListContainers,
       List, TypeInv, TypeOK, SandboxOps, ContainerOps
  <2> QED BY <1>1, <2>1, <2>2 DEF AnswerSafe, Achieved, SandboxOps, ContainerOps
<1> QED BY <1>3, <1>4, <1>5 DEF AckInv

\* Who changes the store is alone inside b.mu, and has nothing to promise.
LEMMA AckChange ==
  ASSUME AckInv, TypeInv, LockInv, NEW c \in Callers, Change(c)
  PROVE  AckInv'
<1> USE DEF At, Goto, Return
<1>1. /\ UNCHANGED <<mu, req, id, sim>>
      /\ pc[c] \in {"add", "remove", "enter"}
      /\ pc' = [pc EXCEPT ![c] = pc'[c]]
      /\ pc'[c] = "unlock" => req[c].op \notin SandboxOps \cup ContainerOps
  BY DEF Change, AddSandbox, RemoveSandbox, AddContainer, RemoveContainer,
     RemoveImage, TypeInv, TypeOK, SandboxOps, ContainerOps
<1>2. mu = c /\ \A d \in Callers \ {c} : ~Inside(d) /\ ~Inside(d)'
  BY <1>1 DEF LockInv, LockHeld, Inside, TypeInv, TypeOK
<1>3. \A d \in Callers : d \notin closed
  BY <1>1, <1>2, ClosedWait
<1>4. StopSafe'
  <2>1. simpc \notin CallbackSteps BY <1>1, <1>2, CallbackCaller
  <2> QED BY <2>1, <1>1 DEF StopSafe, CallbackSteps, sim
<1>5. \A d \in Callers : AnswerSafe(d)'
  <2>1. \A d \in Callers : d \notin closed' BY <1>1, <1>3 DEF sim
  <2>2. \A d \in Callers \ {c} : AnswerSafe(d)'
    BY <1>2, <2>1 DEF AnswerSafe, Inside
  <2>3. AnswerSafe(c)'
    BY <1>1, <2>1 DEF AnswerSafe, Achieved, SandboxOps, ContainerOps
  <2> QED BY <2>2, <2>3
<1> QED BY <1>4, <1>5 DEF AckInv

\* A step of the simulator that leaves what callers see alone, or changes
\* it for the caller it runs for.
LEMMA AckOthers ==
  ASSUME AckInv, LockInv, UNCHANGED <<mu, rpc>>, closed' = closed,
         \/ UNCHANGED <<sandboxes, containers>>
         \/ simpc \in CallbackSteps
  PROVE  \A d \in Callers : AnswerSafe(d)'
<1>1. CASE UNCHANGED <<sandboxes, containers>>
  BY <1>1, AchievedStays DEF AckInv, AnswerSafe, rpc
<1>2. CASE simpc \in CallbackSteps
  <2>1. running \in Callers /\ pc[running] = "wait" /\ mu = running
    BY <1>2, CallbackCaller
  <2>2. \A d \in Callers : pc[d] # "unlock"
    BY <2>1 DEF LockInv, LockHeld, Inside
  <2>3. \A d \in Callers : d \notin closed
    BY <1>2, <2>1, ClosedWait
  <2> QED BY <2>2, <2>3 DEF AnswerSafe, rpc
<1> QED BY <1>1, <1>2

LEMMA AckSimulator ==
  ASSUME AckInv, StoreInv, TypeInv, LockInv, Simulator
  PROVE  AckInv'
<1>1. UNCHANGED <<mu, rpc>>
  BY DEF Simulator, Callback, Tick, Begin, Finish, CallbackGet, CallbackPut,
     CallbackPull, CallbackList, CallbackExit, CallbackListed
<1>2. ASSUME simpc \in CallbackSteps
      PROVE  /\ running \in Callers
             /\ Op \in SandboxOps => Target \in DOMAIN sandboxes
             /\ Op \in ContainerOps => Target \in DOMAIN containers
             /\ Op \in SlowOps
  <2>1. running \in Callers /\ pc[running] = "wait"
    BY <1>2, CallbackCaller
  <2> QED BY <2>1 DEF StoreInv, HandlerSafe, TypeInv, HandlerTyped, Op, Target
<1>3. CASE Tick \/ Begin
  <2>1. UNCHANGED <<sandboxes, containers, closed>>
        /\ simpc' \in {"tick", "next", "get"}
    BY <1>3 DEF Tick, Begin, store
  <2> QED BY <1>1, <2>1, AckOthers DEF AckInv, StopSafe
<1>4. CASE Finish
  <2>1. /\ UNCHANGED <<sandboxes, containers>> /\ simpc' \in {"tick", "next"}
        /\ closed' = closed \cup {running} /\ Achieved(running)
    BY <1>4 DEF Finish, store, AckInv, StopSafe
  <2>2. \A d \in Callers : AnswerSafe(d)'
    BY <1>1, <2>1, AchievedStays DEF AckInv, AnswerSafe, rpc
  <2> QED BY <2>1, <2>2 DEF AckInv, StopSafe
<1>5. CASE CallbackGet
  <2>1. /\ UNCHANGED <<store, running, closed>>
        /\ simpc \in CallbackSteps /\ Op # "PullImage"
    BY <1>5 DEF CallbackGet, CallbackSteps
  <2>2. simpc' = "put"
    <3>1. Op \in SandboxOps \/ Op \in ContainerOps
      BY <1>2, <2>1 DEF SlowOps, SandboxOps, ContainerOps
    <3>2. WithId(IF Op \in SandboxOps THEN sandboxes ELSE containers, Target) # {}
      BY <1>2, <2>1, <3>1 DEF WithId, StoreInv, OwnKeys
    <3> QED BY <1>5, <3>2 DEF CallbackGet
  <2> QED BY <1>1, <2>1, <2>2, AckOthers DEF AckInv, StopSafe, store
<1>6. CASE CallbackPull
  <2>1. /\ UNCHANGED <<sandboxes, containers, running, closed>>
        /\ simpc' = "close" /\ Op = "PullImage"
    BY <1>6 DEF CallbackPull
  <2>2. Achieved(running)'
    BY <1>1, <2>1 DEF Achieved, Op, rpc
  <2> QED BY <1>1, <2>1, <2>2, AckOthers DEF AckInv, StopSafe
<1>7. CASE CallbackPut
  <2>1. /\ simpc = "put" /\ simpc \in CallbackSteps /\ simpc' = AfterPut
        /\ UNCHANGED <<running, closed>>
    BY <1>7 DEF CallbackPut, CallbackSteps
  <2>2. Op' = Op /\ Target' = Target /\ Op \in SlowOps /\ Op # "PullImage"
    BY <1>1, <1>2, <2>1 DEF Op, Target, rpc, TypeInv, CallbackTyped
  <2>3. \A d \in Callers : AnswerSafe(d)'
    BY <1>1, <2>1, AckOthers
  <2>4. CASE Op \in SandboxOps
    <3>1. sandboxes' = Put(sandboxes, Target, WithState(obj, NewState))
      BY <1>7, <2>4 DEF CallbackPut
    <3>2. obj \in SandboxRec BY <2>1, <2>4 DEF TypeInv, CallbackTyped
    <3>3. Both(WithState(obj, NewState), NewState)
      BY <3>2 DEF Both, WithState, SandboxRec
    <3>4. Target \in DOMAIN sandboxes' /\ Both(sandboxes'[Target], NewState)
      BY <3>1, <3>3 DEF Put
    <3>5. CASE Op = "RunPodSandbox"
      <4>1. simpc' = "close" /\ NewState = "READY"
        BY <2>1, <3>5 DEF AfterPut, NewState
      <4>2. Achieved(running)'
        BY <2>2, <3>4, <3>5, <4>1 DEF Achieved, Op, Target, Both
      <4> QED BY <2>3, <4>1, <4>2 DEF AckInv, StopSafe
    <3>6. CASE Op = "StopPodSandbox"
      <4>1. simpc' = "list" /\ NewState = "NOTREADY"
        BY <2>1, <3>6 DEF AfterPut, NewState
      <4> QED BY <2>2, <2>3, <3>4, <3>6, <4>1 DEF AckInv, StopSafe, Both
    <3> QED BY <2>4, <3>5, <3>6 DEF SandboxOps
  <2>5. CASE Op \notin SandboxOps
    <3>1. containers' = Put(containers, Target, WithState(obj, NewState))
      BY <1>7, <2>5 DEF CallbackPut
    <3>2. obj \in ContainerRec BY <2>1, <2>5 DEF TypeInv, CallbackTyped
    <3>3. Both(WithState(obj, NewState), NewState)
      BY <3>2 DEF Both, WithState, ContainerRec
    <3>4. Target \in DOMAIN containers' /\ Both(containers'[Target], NewState)
      BY <3>1, <3>3 DEF Put
    <3>5. simpc' = "close" /\ Op \in ContainerOps
      BY <2>1, <2>2, <2>5 DEF AfterPut, SandboxOps, ContainerOps, SlowOps
    <3>6. NewState = IF Op = "StartContainer" THEN "RUNNING" ELSE "EXITED"
      BY <3>5 DEF NewState, ContainerOps
    <3>7. Achieved(running)'
      BY <2>2, <3>4, <3>5, <3>6 DEF Achieved, Op, Target, Both, ContainerOps
    <3> QED BY <2>3, <3>5, <3>7 DEF AckInv, StopSafe
  <2> QED BY <2>4, <2>5
<1>8. CASE CallbackList
  <2>1. /\ UNCHANGED <<store, running, closed>>
        /\ simpc = "list" /\ simpc \in CallbackSteps /\ simpc' = "each"
        /\ todo' = {containers[k] : k \in ContainersOf(Target)}
    BY <1>8 DEF CallbackList, CallbackSteps
  <2>2. Op' = Op /\ Target' = Target /\ ContainersOf(Target)' = ContainersOf(Target)
    BY <1>1, <2>1 DEF Op, Target, rpc, ContainersOf, store
  <2>3. StopSafe'
    BY <2>1, <2>2 DEF AckInv, StopSafe, store, Both
  <2> QED BY <1>1, <2>1, <2>3, AckOthers DEF AckInv, store
<1>9. CASE CallbackExit
  <2>1. /\ UNCHANGED <<sandboxes, running, simpc, closed>>
        /\ simpc = "each" /\ simpc \in CallbackSteps
    BY <1>9 DEF CallbackExit, CallbackSteps
  <2>2. PICK v \in todo :
          /\ containers' = Put(containers, v.id, WithState(v, "EXITED"))
          /\ todo' = todo \ {v}
    BY <1>9 DEF CallbackExit
  <2>3. Op' = Op /\ Target' = Target
    BY <1>1, <2>1 DEF Op, Target, rpc
  <2>4. v \in ContainerRec BY DEF TypeInv, TypeOK
  <2>5. Both(WithState(v, "EXITED"), "EXITED")
    BY <2>4 DEF WithState, ContainerRec, Both
  <2>6. ASSUME NEW k \in DOMAIN containers', containers'[k].sb = Target
        PROVE  Both(containers'[k], "EXITED") \/ containers'[k] \in todo'
    <3>1. CASE k = v.id BY <2>2, <2>5, <3>1 DEF Put
    <3>2. CASE k # v.id
      <4>1. k \in DOMAIN containers /\ containers'[k] = containers[k]
        BY <2>2, <3>2 DEF Put
      <4>2. Both(containers[k], "EXITED") \/ containers[k] \in todo
        BY <2>1, <2>6, <4>1 DEF AckInv, StopSafe, ContainersOf
      <4>3. containers[k] # v BY <3>2, <4>1 DEF StoreInv, OwnKeys
      <4> QED BY <2>2, <4>1, <4>2, <4>3
    <3> QED BY <3>1, <3>2
  <2>7. StopSafe'
    BY <2>1, <2>3, <2>6 DEF AckInv, StopSafe, ContainersOf, Both
  <2> QED BY <1>1, <2>1, <2>7, AckOthers DEF AckInv
<1>10. CASE CallbackListed
  <2>1. /\ UNCHANGED <<sandboxes, containers, running, closed>> /\ todo = {}
        /\ simpc = "each" /\ simpc' = "close"
    BY <1>10 DEF CallbackListed, store
  <2>2. Achieved(running)
    BY <2>1 DEF AckInv, StopSafe, Achieved, Op, Target
  <2>3. running \in Callers BY <1>2, <2>1 DEF CallbackSteps
  <2>4. Achieved(running)'
    BY <1>1, <2>1, <2>2, <2>3 DEF Achieved, rpc, ContainersOf, Both
  <2> QED BY <1>1, <2>1, <2>4, AckOthers DEF AckInv, StopSafe
<1> QED BY <1>3, <1>4, <1>5, <1>6, <1>7, <1>8, <1>9, <1>10 DEF Simulator, Callback

LEMMA AckStep == AckInv /\ StoreInv /\ TypeInv /\ LockInv /\ [Next]_vars => AckInv'
<1> SUFFICES ASSUME AckInv, StoreInv, TypeInv, LockInv, [Next]_vars PROVE AckInv'
  OBVIOUS
<1>1. CASE UNCHANGED vars
  BY <1>1 DEF vars, rpc, sim, store, AckInv, AnswerSafe, StopSafe, Achieved,
     Both, ContainersOf, Op, Target
<1>2. CASE Simulator BY <1>2, AckSimulator
<1>3. ASSUME NEW c \in Callers,
             \/ \E r \in Requests : Call(c, r)
             \/ Acquire(c) \/ Handler(c) \/ Relock(c) \/ Collect(c)
      PROVE AckInv'
  BY <1>3, AckFrame, AckCheck, AckChange DEF Handler, Check, Change
<1> QED BY <1>1, <1>2, <1>3 DEF Next

\* An OK means what it says: when a slow call is about to answer, the state
\* it was asked for is in the store, in both views, for requests that name
\* their object.
THEOREM OkMeansDone ==
  ASSUME NamedRequests
  PROVE  Spec => []AckedStateHolds
<1>1. AckInv => AckedStateHolds
  BY DEF AckInv, AnswerSafe, Achieved, AckedStateHolds
<1>2. StoreInv /\ TypeInv /\ LockInv /\ [Next]_vars => StoreInv' BY StoreStep
<1> QED
  BY <1>1, <1>2, AckInit, AckStep, StoreInit, TypeInit, TypeStep, LockInit,
     LockStep, PTL
  DEF Spec
=============================================================================
