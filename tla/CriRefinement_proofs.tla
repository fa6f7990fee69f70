------------------------ MODULE CriRefinement_proofs ------------------------
(***************************************************************************)
(* CriRuntime implements CriAtomic, for any number of callers, ids and     *)
(* images and any delay, when requests name what they are about.           *)
(*                                                                         *)
(* RefInv says what the holder of b.mu has done so far: how the store it   *)
(* has made differs from the one it found (before).  When it unlocks, the  *)
(* difference and the reply are those of one operation of CriAtomic.       *)
(***************************************************************************)
EXTENDS CriRefinement, CriRuntime_proofs

\* Every request names the sandbox, container, pod or image it is about.
AllNamed ==
  \A r \in Requests :
    /\ r.op \in {"RunPodSandbox", "StopPodSandbox", "RemovePodSandbox",
                 "CreateContainer", "StartContainer", "StopContainer",
                 "RemoveContainer", "PodSandboxStatus", "ContainerStatus"} =>
         r.id # EmptyId
    /\ r.op \in {"CreateContainer", "PullImage", "RemoveImage",
                 "ImageStatus"} => r.img \in Images

\* Between any two steps an object's two views agree, and an image is
\* stored under its own name.
ViewsAgree ==
  /\ \A k \in DOMAIN sandboxes : sandboxes[k].s = sandboxes[k].p
  /\ \A k \in DOMAIN containers : containers[k].s = containers[k].p
  /\ \A k \in DOMAIN images : k \in Images /\ images[k] = k

-----------------------------------------------------------------------------
(* How the store can differ from the one the holder of b.mu found.         *)

SandboxesKept == sandboxes = before[1]
ContainersKept == containers = before[2]
ImagesKept == images = before[3]
Untouched == SandboxesKept /\ ContainersKept /\ ImagesKept

\* m is old, but for what it has at i.
KeptBut(m, old, i) == \A k \in DOMAIN old \ {i} : m[k] = old[k]

SandboxMade(i, state) ==
  /\ i \in SandboxIds /\ i \notin DOMAIN before[1]
  /\ DOMAIN sandboxes = DOMAIN before[1] \cup {i}
  /\ KeptBut(sandboxes, before[1], i)
  /\ sandboxes[i].p = state
  /\ ContainersKept /\ ImagesKept

SandboxStopped(i) ==
  /\ i \in DOMAIN before[1]
  /\ DOMAIN sandboxes = DOMAIN before[1]
  /\ KeptBut(sandboxes, before[1], i)
  /\ sandboxes[i].p = "NOTREADY"
  /\ ImagesKept

\* The containers of sandbox i have exited, but for the clones in left.
ContainersExited(i, left) ==
  /\ DOMAIN containers = DOMAIN before[2]
  /\ \A k \in DOMAIN before[2] :
       /\ containers[k].sb = before[2][k].sb
       /\ before[2][k].sb # i => containers[k] = before[2][k]
       /\ before[2][k].sb = i =>
            containers[k].p = "EXITED" \/ \E v \in left : v.id = k
  /\ \A v \in left :
       v.id \in DOMAIN before[2] /\ v = before[2][v.id] /\ v.sb = i

SandboxRemoved(i) ==
  /\ i \in DOMAIN before[1]
  /\ \A k \in DOMAIN before[2] : before[2][k].sb # i
  /\ DOMAIN sandboxes = DOMAIN before[1] \ {i}
  /\ KeptBut(sandboxes, before[1], i)
  /\ ContainersKept /\ ImagesKept

ContainerMade(i, sb) ==
  /\ i \in ContainerIds /\ i \notin DOMAIN before[2]
  /\ DOMAIN containers = DOMAIN before[2] \cup {i}
  /\ KeptBut(containers, before[2], i)
  /\ containers[i].sb = sb /\ containers[i].p = "CREATED"
  /\ SandboxesKept /\ ImagesKept

ContainerSet(i, state) ==
  /\ i \in DOMAIN before[2]
  /\ DOMAIN containers = DOMAIN before[2]
  /\ KeptBut(containers, before[2], i)
  /\ containers[i].sb = before[2][i].sb /\ containers[i].p = state
  /\ SandboxesKept /\ ImagesKept

ContainerRemoved(i) ==
  /\ i \in DOMAIN before[2]
  /\ DOMAIN containers = DOMAIN before[2] \ {i}
  /\ KeptBut(containers, before[2], i)
  /\ SandboxesKept /\ ImagesKept

ImagePulled(n) ==
  /\ DOMAIN images = DOMAIN before[3] \cup {n}
  /\ SandboxesKept /\ ContainersKept

ImageRemoved(n) ==
  /\ DOMAIN images = DOMAIN before[3] \ {n}
  /\ SandboxesKept /\ ContainersKept

-----------------------------------------------------------------------------
(* What the holder of b.mu has done, by where it is.                       *)

Replies(c, code, view) == reply[c] = [code |-> code, view |-> view]

\* The checks a handler has behind it.
Checked(c) ==
  LET i == req[c].id IN
  /\ At(c, "add", "RunPodSandbox") => id[c] \notin DOMAIN before[1]
  /\ \A l \in {"children", "remove"} :
       At(c, l, "RemovePodSandbox") => i \in DOMAIN before[1]
  /\ \A l \in {"exists", "add"} :
       At(c, l, "CreateContainer") => req[c].img \in DOMAIN before[3]
  /\ At(c, "add", "CreateContainer") => id[c] \notin DOMAIN before[2]
  /\ At(c, "remove", "RemoveContainer") => i \in DOMAIN before[2]

\* A slow call before its callback is queued.
Queueing(c) ==
  LET i == id[c]
      op == req[c].op
  IN
  /\ op \in SlowOps
  /\ op = "RunPodSandbox" => SandboxMade(i, "NOTREADY")
  /\ op = "StopPodSandbox" => i = req[c].id /\ i \in DOMAIN before[1]
  /\ op \in ContainerOps => i = req[c].id /\ i \in DOMAIN before[2]
  /\ op # "RunPodSandbox" => Untouched

\* The callback of c has made its change to the object it is about.
Acted(c) == c \in closed \/ simpc = "close"

\* A slow call while it waits: the change is made by its callback.
Waiting(c) ==
  LET i == id[c]
      op == req[c].op
      state == IF op = "StartContainer" THEN "RUNNING" ELSE "EXITED"
  IN
  /\ op \in SlowOps
  /\ op = "RunPodSandbox" =>
       SandboxMade(i, IF Acted(c) THEN "READY" ELSE "NOTREADY")
  /\ op = "StopPodSandbox" =>
       /\ i = req[c].id /\ i \in DOMAIN before[1]
       /\ Acted(c) => SandboxStopped(i) /\ ContainersExited(i, {})
       /\ simpc = "list" => SandboxStopped(i) /\ ContainersKept
       /\ simpc = "each" => SandboxStopped(i) /\ ContainersExited(i, todo)
       /\ ~Acted(c) /\ simpc \notin {"list", "each"} => Untouched
  /\ op \in ContainerOps =>
       /\ i = req[c].id /\ i \in DOMAIN before[2]
       /\ Acted(c) => ContainerSet(i, state)
       /\ ~Acted(c) => Untouched
       /\ simpc = "put" => obj = containers[i]
  /\ op = "PullImage" =>
       IF Acted(c) THEN ImagePulled(req[c].img) ELSE Untouched

\* A call that is about to answer: store, before and reply are those of
\* one operation of CriAtomic.
Ran(c) ==
  \E i \in SandboxIds :
    \/ i \in DOMAIN before[1] /\ Untouched /\ Replies(c, "AlreadyExists", {})
    \/ SandboxMade(i, "READY") /\ Replies(c, "OK", {})

Stopped(c) ==
  /\ SandboxStopped(req[c].id) /\ ContainersExited(req[c].id, {})
  /\ Replies(c, "OK", {})

RemovedSandbox(c) ==
  \/ /\ req[c].id \in DOMAIN before[1]
     /\ \E k \in DOMAIN before[2] : before[2][k].sb = req[c].id
     /\ Untouched /\ Replies(c, "InvalidArgument", {})
  \/ SandboxRemoved(req[c].id) /\ Replies(c, "OK", {})

Created(c) ==
  /\ req[c].id \in DOMAIN before[1]
  /\ \/ /\ req[c].img \notin DOMAIN before[3]
        /\ Untouched /\ Replies(c, "NotFound", {})
     \/ /\ req[c].img \in DOMAIN before[3]
        /\ \E i \in ContainerIds :
             \/ /\ i \in DOMAIN before[2]
                /\ Untouched /\ Replies(c, "AlreadyExists", {})
             \/ ContainerMade(i, req[c].id) /\ Replies(c, "OK", {})

Missing(c) ==
  /\ \/ /\ req[c].op \in {"StopPodSandbox", "RemovePodSandbox",
                          "CreateContainer", "PodSandboxStatus"}
        /\ req[c].id \notin DOMAIN before[1]
     \/ /\ req[c].op \in {"StartContainer", "StopContainer",
                          "RemoveContainer", "ContainerStatus"}
        /\ req[c].id \notin DOMAIN before[2]
  /\ Untouched /\ Replies(c, "NotFound", {})

StatesOf(m) == {<<k, m[k].p>> : k \in DOMAIN m}

ReadDone(c) ==
  LET i == req[c].id
      n == req[c].img
  IN
  /\ Untouched
  /\ \/ /\ req[c].op = "PodSandboxStatus" /\ i \in DOMAIN before[1]
        /\ Replies(c, "OK", {<<i, before[1][i].p>>})
     \/ /\ req[c].op = "ContainerStatus" /\ i \in DOMAIN before[2]
        /\ Replies(c, "OK", {<<i, before[2][i].p>>})
     \/ /\ req[c].op = "ListPodSandbox"
        /\ Replies(c, "OK", StatesOf(before[1]))
     \/ /\ req[c].op = "ListContainers"
        /\ Replies(c, "OK", StatesOf(before[2]))
     \/ /\ req[c].op = "ImageStatus"
        /\ Replies(c, "OK", IF n \in DOMAIN before[3] THEN {<<n, "present">>}
                                                      ELSE {})

PullAnswered(c) == Replies(c, "OK", {}) \/ Replies(c, "Canceled", {})

Served(c) ==
  LET op == req[c].op
      i == req[c].id
  IN
  \/ op = "RunPodSandbox" /\ Ran(c)
  \/ op = "StopPodSandbox" /\ Stopped(c)
  \/ op = "RemovePodSandbox" /\ RemovedSandbox(c)
  \/ op = "CreateContainer" /\ Created(c)
  \/ op = "StartContainer" /\ ContainerSet(i, "RUNNING") /\ Replies(c, "OK", {})
  \/ op = "StopContainer" /\ ContainerSet(i, "EXITED") /\ Replies(c, "OK", {})
  \/ op = "RemoveContainer" /\ ContainerRemoved(i) /\ Replies(c, "OK", {})
  \/ op = "RemoveImage" /\ ImageRemoved(req[c].img) /\ Replies(c, "OK", {})
  \/ op = "PullImage" /\ Untouched /\ PullAnswered(c)
  \/ Missing(c)
  \/ ReadDone(c)

Work == {"enter", "children", "image", "exists", "add", "remove"}

Progress(c) ==
  /\ pc[c] \in Work => Untouched /\ Checked(c)
  /\ pc[c] = "enqueue" => Queueing(c)
  /\ pc[c] = "wait" => Waiting(c)
  /\ pc[c] = "release" => ImagePulled(req[c].img)
  /\ pc[c] = "relock" => PullAnswered(c)
  /\ pc[c] = "unlock" => Served(c)

RefInv == ViewsAgree /\ \A c \in Callers : Progress(c)

-----------------------------------------------------------------------------
(* RefInv is inductive.                                                    *)

LEMMA NamedAll == AllNamed => NamedRequests
BY DEF AllNamed, NamedRequests

\* A caller's request, once it has one.
LEMMA Asking ==
  ASSUME AllNamed, TypeInv, NEW c \in Callers
  PROVE  /\ req[c].op \in {"RunPodSandbox", "StopPodSandbox",
                 "RemovePodSandbox", "CreateContainer", "StartContainer",
                 "StopContainer", "RemoveContainer", "PodSandboxStatus",
                 "ContainerStatus"} => req[c].id # EmptyId
         /\ req[c].op \in {"CreateContainer", "PullImage", "RemoveImage",
                 "ImageStatus"} =>
              req[c].img \in Images /\ NameOf(req[c].img) = req[c].img
<1>1. req[c] \in Requests \/ req[c] = NoReq BY DEF TypeInv, TypeOK
<1>2. CASE req[c] \in Requests
  <2>1. req[c].img \in Images => req[c].img # NilImage BY ConstantsOK
  <2> QED BY <1>2, <2>1 DEF AllNamed, NameOf
<1>3. CASE req[c] = NoReq BY <1>3 DEF NoReq
<1> QED BY <1>1, <1>2, <1>3

\* A named object is found at its own key only, a named image too.
LEMMA Lookup ==
  ASSUME OwnKeys, NEW i, i # EmptyId
  PROVE  /\ WithId(sandboxes, i) = {i} \cap DOMAIN sandboxes
         /\ WithId(containers, i) = {i} \cap DOMAIN containers
BY DEF OwnKeys, WithId

LEMMA LookupImage ==
  ASSUME ViewsAgree, NEW n \in Images
  PROVE  ImagesNamed(n) = {n} \cap DOMAIN images
BY ConstantsOK DEF ViewsAgree, ImagesNamed

\* What changes nothing of the store.
Passive(c) ==
  \/ \E r \in Requests : Call(c, r)
  \/ Acquire(c) \/ Relock(c) \/ Collect(c) \/ Select(c) \/ Release(c)
  \/ Unlock(c) \/ Enqueue(c) \/ Woken(c) \/ Check(c)

LEMMA PassiveStore ==
  ASSUME NEW c \in Callers, Passive(c)
  PROVE  UNCHANGED store
BY DEF Passive, Check, Call, Acquire, Relock, Collect, Select, Release, Unlock,
   Enqueue, Woken, RunPodSandbox, StopPodSandbox, RemovePodSandbox,
   CheckChildren, CreateContainer, CheckImage, CheckContainer,
   StartOrStopContainer, CheckRemoveContainer, PullImage, PodSandboxStatus,
   ContainerStatus, Status, ImageStatus, ListPodSandbox, ListContainers, List

LEMMA ViewsInit == Init => ViewsAgree
BY DEF Init, ViewsAgree

LEMMA ViewsStep ==
  ASSUME AllNamed, TypeInv, LockInv, ViewsAgree, [Next]_vars
  PROVE  ViewsAgree'
<1>1. CASE UNCHANGED store BY <1>1 DEF store, ViewsAgree
<1>2. ASSUME NEW c \in Callers, Change(c) PROVE ViewsAgree'
  <2>1. CASE AddSandbox(c) BY <2>1 DEF AddSandbox, Put, ViewsAgree
  <2>2. CASE RemoveSandbox(c) BY <2>2 DEF RemoveSandbox, Delete, ViewsAgree
  <2>3. CASE AddContainer(c) BY <2>3 DEF AddContainer, Put, ViewsAgree
  <2>4. CASE RemoveContainer(c)
    BY <2>4 DEF RemoveContainer, Delete, ViewsAgree
  <2>5. CASE RemoveImage(c) BY <2>5 DEF RemoveImage, Delete, ViewsAgree
  <2> QED BY <1>2, <2>1, <2>2, <2>3, <2>4, <2>5 DEF Change
<1>3. CASE CallbackPut
  <2>1. /\ obj \in IF Op \in SandboxOps THEN SandboxRec ELSE ContainerRec
        /\ images' = images
    BY <1>3 DEF CallbackPut, TypeInv, CallbackTyped
  <2>2. WithState(obj, NewState).s = WithState(obj, NewState).p
    BY <2>1 DEF WithState, SandboxRec, ContainerRec
  <2> HIDE DEF NewState
  <2> QED BY <1>3, <2>1, <2>2 DEF CallbackPut, Put, ViewsAgree
<1>4. CASE CallbackExit
  <2>1. PICK v \in todo :
          containers' = Put(containers, v.id, WithState(v, "EXITED"))
    BY <1>4 DEF CallbackExit
  <2>2. v \in ContainerRec BY DEF TypeInv, TypeOK
  <2>3. WithState(v, "EXITED").s = WithState(v, "EXITED").p
    BY <2>2 DEF WithState, ContainerRec
  <2>4. UNCHANGED <<sandboxes, images>> BY <1>4 DEF CallbackExit
  <2> QED BY <2>1, <2>3, <2>4 DEF Put, ViewsAgree
<1>5. CASE CallbackPull
  <2>1. running \in Callers BY <1>5, CallbackCaller DEF CallbackPull, CallbackSteps
  <2>2. req[running].img \in Images /\ NameOf(req[running].img) = req[running].img
    BY <1>5, <2>1, Asking DEF CallbackPull, Op
  <2> QED BY <1>5, <2>2 DEF CallbackPull, Put, ViewsAgree
<1>6. CASE Tick \/ Begin \/ Finish \/ CallbackGet \/ CallbackList \/ CallbackListed
  <2>1. UNCHANGED store
    BY <1>6 DEF Tick, Begin, Finish, CallbackGet, CallbackList, CallbackListed
  <2> QED BY <1>1, <2>1
<1>7. CASE UNCHANGED vars BY <1>1, <1>7 DEF vars
<1>8. ASSUME NEW c \in Callers, Passive(c) PROVE ViewsAgree'
  BY <1>1, <1>8, PassiveStore
<1> QED
  BY <1>2, <1>3, <1>4, <1>5, <1>6, <1>7, <1>8
  DEF Next, Simulator, Callback, Handler, Passive, Check, Change

\* What the history variable does in a step.
Remembers == before' = IF mu = NoCaller /\ mu' # NoCaller THEN store ELSE before

\* What Progress speaks of, but for the simulator.
Still(d) ==
  /\ UNCHANGED <<sandboxes, containers, images, before>>
  /\ pc'[d] = pc[d] /\ req'[d] = req[d] /\ id'[d] = id[d]
  /\ reply'[d] = reply[d]

LEMMA ServedStays ==
  ASSUME NEW d \in Callers, Served(d), Still(d)
  PROVE  Served(d)'
<1>1. CASE req[d].op = "RunPodSandbox" /\ Ran(d)
  BY <1>1 DEF Served, Still, Ran, Untouched, SandboxesKept, ContainersKept,
     ImagesKept, SandboxMade, KeptBut, Replies
<1>2. CASE req[d].op = "StopPodSandbox" /\ Stopped(d)
  BY <1>2 DEF Served, Still, Stopped, ImagesKept, SandboxStopped,
     ContainersExited, KeptBut, Replies
<1>3. CASE req[d].op = "RemovePodSandbox" /\ RemovedSandbox(d)
  BY <1>3 DEF Served, Still, RemovedSandbox, Untouched, SandboxesKept,
     ContainersKept, ImagesKept, SandboxRemoved, KeptBut, Replies
<1>4. CASE req[d].op = "CreateContainer" /\ Created(d)
  BY <1>4 DEF Served, Still, Created, Untouched, SandboxesKept,
     ContainersKept, ImagesKept, ContainerMade, KeptBut, Replies
<1>5. CASE \/ /\ req[d].op = "StartContainer"
              /\ ContainerSet(req[d].id, "RUNNING") /\ Replies(d, "OK", {})
           \/ /\ req[d].op = "StopContainer"
              /\ ContainerSet(req[d].id, "EXITED") /\ Replies(d, "OK", {})
  BY <1>5 DEF Served, Still, ContainerSet, SandboxesKept, ImagesKept, KeptBut,
     Replies
<1>6. CASE \/ /\ req[d].op = "RemoveContainer"
              /\ ContainerRemoved(req[d].id) /\ Replies(d, "OK", {})
           \/ /\ req[d].op = "RemoveImage"
              /\ ImageRemoved(req[d].img) /\ Replies(d, "OK", {})
  BY <1>6 DEF Served, Still, ContainerRemoved, ImageRemoved, SandboxesKept,
     ContainersKept, ImagesKept, KeptBut, Replies
<1>7. CASE \/ req[d].op = "PullImage" /\ Untouched /\ PullAnswered(d)
           \/ Missing(d)
  BY <1>7 DEF Served, Still, Untouched, PullAnswered, Missing, SandboxesKept,
     ContainersKept, ImagesKept, Replies
<1>8. CASE ReadDone(d)
  BY <1>8 DEF Served, Still, Untouched, ReadDone, StatesOf, SandboxesKept,
     ContainersKept, ImagesKept, Replies
<1> QED BY <1>1, <1>2, <1>3, <1>4, <1>5, <1>6, <1>7, <1>8 DEF Served

LEMMA WaitingStays ==
  ASSUME NEW d \in Callers, Waiting(d), Still(d), todo' = todo,
         Acted(d)' <=> Acted(d),
         \A l \in {"list", "each"} : simpc' = l <=> simpc = l,
         simpc' = "put" /\ req[d].op \in ContainerOps => obj' = containers[id[d]]
  PROVE  Waiting(d)'
<1> USE DEF Waiting, Still
<1> HIDE DEF Acted
<1>2. req[d].op = "RunPodSandbox" =>
        SandboxMade(id[d], IF Acted(d) THEN "READY" ELSE "NOTREADY")'
  BY DEF SandboxMade, KeptBut, ContainersKept, ImagesKept
<1>3. ASSUME req[d].op = "StopPodSandbox"
      PROVE  /\ (SandboxStopped(id[d])' <=> SandboxStopped(id[d]))
             /\ (ContainersExited(id[d], {})' <=> ContainersExited(id[d], {}))
             /\ (ContainersExited(id[d], todo)' <=> ContainersExited(id[d], todo))
             /\ (ContainersKept' <=> ContainersKept)
  BY DEF SandboxStopped, KeptBut, ImagesKept, ContainersExited, ContainersKept
<1>4. Untouched' <=> Untouched
  BY DEF Untouched, SandboxesKept, ContainersKept, ImagesKept
<1>5. \A s \in {"RUNNING", "EXITED"} :
        ContainerSet(id[d], s)' <=> ContainerSet(id[d], s)
  BY DEF ContainerSet, KeptBut, SandboxesKept, ImagesKept
<1>6. ImagePulled(req[d].img)' <=> ImagePulled(req[d].img)
  BY DEF ImagePulled, SandboxesKept, ContainersKept
<1> QED BY <1>2, <1>3, <1>4, <1>5, <1>6

LEMMA ProgressStays ==
  ASSUME NEW d \in Callers, Progress(d), Still(d),
         pc[d] = "wait" => UNCHANGED <<simpc, obj, todo, closed>>
  PROVE  Progress(d)'
<1> USE DEF Progress, Still
<1>1. (Untouched' <=> Untouched) /\ (Checked(d)' <=> Checked(d))
  BY DEF Untouched, SandboxesKept, ContainersKept, ImagesKept, Checked, At
<1>2. Queueing(d)' <=> Queueing(d)
  BY <1>1 DEF Queueing, SandboxMade, KeptBut, ContainersKept, ImagesKept
<1>3. ImagePulled(req[d].img)' <=> ImagePulled(req[d].img)
  BY DEF ImagePulled, SandboxesKept, ContainersKept
<1>4. PullAnswered(d)' <=> PullAnswered(d)
  BY DEF PullAnswered, Replies
<1>5. ASSUME pc[d] = "wait", Waiting(d) PROVE Waiting(d)'
  <2>1. /\ Acted(d)' <=> Acted(d)
        /\ simpc = "put" /\ req[d].op \in ContainerOps => obj = containers[id[d]]
    BY <1>5 DEF Acted, Waiting
  <2> QED BY <1>5, <2>1, WaitingStays
<1> QED BY <1>1, <1>2, <1>3, <1>4, <1>5, ServedStays

\* A handler outside b.mu has nothing to show but its reply.
LEMMA OutsideProgress ==
  ASSUME NEW d \in Callers, Progress(d), ~Inside(d), pc'[d] = pc[d],
         reply'[d] = reply[d]
  PROVE  Progress(d)'
BY DEF Progress, Inside, Work, PullAnswered, Replies

LEMMA RefInit == HInit => RefInv
<1> SUFFICES ASSUME HInit PROVE RefInv
  OBVIOUS
<1>1. ViewsAgree BY ViewsInit DEF HInit
<1>2. \A c \in Callers : Progress(c) BY DEF HInit, Init, Progress, Work
<1> QED BY <1>1, <1>2 DEF RefInv

\* The checks of a handler: what they find, they find in the store the
\* holder of b.mu began with.
LEMMA ProgressCheck ==
  ASSUME AllNamed, TypeInv, LockInv, StoreInv, RefInv, NEW c \in Callers,
         Check(c), before' = before
  PROVE  Progress(c)'
<1> USE DEF At, Goto, Return, RefInv
<1>1. UNCHANGED <<req, store>> /\ pc[c] \in Work
  BY DEF Check, RunPodSandbox, StopPodSandbox, RemovePodSandbox, CheckChildren,
     CreateContainer, CheckImage, CheckContainer, StartOrStopContainer,
     CheckRemoveContainer, PullImage, PodSandboxStatus, ContainerStatus, Status,
     ImageStatus, ListPodSandbox, ListContainers, List, Work
<1>2. Untouched /\ Untouched' /\ Checked(c)
  BY <1>1 DEF Progress, Untouched, SandboxesKept, ContainersKept, ImagesKept,
     store
<1>3. /\ pc \in [Callers -> Labels] /\ DOMAIN reply = Callers
      /\ DOMAIN id = Callers /\ OwnKeys /\ HandlerSafe(c)
      /\ before[1] = sandboxes /\ before[2] = containers /\ before[3] = images
      /\ UNCHANGED <<sandboxes, containers, images, req>>
  BY <1>1, <1>2 DEF TypeInv, TypeOK, StoreInv, Untouched, SandboxesKept,
     ContainersKept, ImagesKept, store
<1> HIDE DEF RefInv
<1>4. CASE RunPodSandbox(c)
  <2>1. req[c].id # EmptyId BY <1>4, Asking DEF RunPodSandbox
  <2>2. PICK sbid \in SandboxIds :
          \/ /\ WithId(sandboxes, sbid) # {}
             /\ Return(c, "AlreadyExists", {})
          \/ /\ WithId(sandboxes, sbid) = {}
             /\ id' = [id EXCEPT ![c] = sbid]
             /\ Goto(c, "add")
    BY <1>4, <2>1 DEF RunPodSandbox
  <2>3. WithId(sandboxes, sbid) = {sbid} \cap DOMAIN sandboxes
    BY <1>3, Lookup, ConstantsOK
  <2>4. CASE WithId(sandboxes, sbid) # {}
    <3>1. Ran(c)' BY <1>2, <1>3, <2>2, <2>3, <2>4 DEF Ran, Replies
    <3> QED
      BY <1>3, <1>4, <2>2, <2>4, <3>1 DEF Progress, Served, Work, RunPodSandbox
  <2>5. CASE WithId(sandboxes, sbid) = {}
    <3>1. pc'[c] = "add" /\ id'[c] \notin DOMAIN before[1]
      BY <1>3, <2>2, <2>3, <2>5
    <3>2. Checked(c)' BY <1>3, <1>4, <3>1 DEF Checked, RunPodSandbox
    <3> QED BY <1>2, <3>1, <3>2 DEF Progress, Work
  <2> QED BY <2>4, <2>5
<1>5. CASE StopPodSandbox(c)
  <2>1. req[c].id # EmptyId BY <1>5, Asking DEF StopPodSandbox
  <2>2. WithId(sandboxes, req[c].id) = {req[c].id} \cap DOMAIN sandboxes
    BY <1>3, <2>1, Lookup
  <2>3. CASE pc'[c] = "unlock"
    <3>1. Missing(c)'
      BY <1>2, <1>3, <1>5, <2>2, <2>3 DEF Missing, Replies, StopPodSandbox
    <3> QED BY <2>3, <3>1 DEF Progress, Served, Work
  <2>4. CASE pc'[c] = "enqueue"
    <3>1. Queueing(c)'
      BY <1>2, <1>3, <1>5, <2>2, <2>4
      DEF Queueing, StopPodSandbox, SlowOps, ContainerOps
    <3> QED BY <2>4, <3>1 DEF Progress, Work
  <2> QED BY <1>3, <1>5, <2>3, <2>4 DEF StopPodSandbox
<1>6. CASE RemovePodSandbox(c)
  <2>1. req[c].id # EmptyId BY <1>6, Asking DEF RemovePodSandbox
  <2>2. WithId(sandboxes, req[c].id) = {req[c].id} \cap DOMAIN sandboxes
    BY <1>3, <2>1, Lookup
  <2>3. CASE pc'[c] = "unlock"
    <3>1. Missing(c)'
      BY <1>2, <1>3, <1>6, <2>1, <2>2, <2>3
      DEF Missing, Replies, RemovePodSandbox
    <3> QED BY <2>3, <3>1 DEF Progress, Served, Work
  <2>4. CASE pc'[c] = "children"
    <3>1. Checked(c)'
      BY <1>3, <1>6, <2>1, <2>2, <2>4 DEF Checked, RemovePodSandbox
    <3> QED BY <1>2, <2>4, <3>1 DEF Progress, Work
  <2> QED BY <1>3, <1>6, <2>3, <2>4 DEF RemovePodSandbox
<1>7. CASE CheckChildren(c)
  <2>1. req[c].op = "RemovePodSandbox" /\ req[c].id \in DOMAIN before[1]
    BY <1>2, <1>7 DEF CheckChildren, Checked
  <2>2. CASE pc'[c] = "unlock"
    <3>1. RemovedSandbox(c)'
      BY <1>2, <1>3, <1>7, <2>1, <2>2
      DEF RemovedSandbox, Replies, CheckChildren, ContainersOf
    <3> QED BY <1>3, <2>1, <2>2, <3>1 DEF Progress, Served, Work
  <2>3. CASE pc'[c] = "remove"
    <3>1. Checked(c)' BY <1>3, <2>1, <2>3 DEF Checked
    <3> QED BY <1>2, <2>3, <3>1 DEF Progress, Work
  <2> QED BY <1>3, <1>7, <2>2, <2>3 DEF CheckChildren
<1>8. CASE CreateContainer(c)
  <2>1. req[c].id # EmptyId BY <1>8, Asking DEF CreateContainer
  <2>2. WithId(sandboxes, req[c].id) = {req[c].id} \cap DOMAIN sandboxes
    BY <1>3, <2>1, Lookup
  <2>3. CASE pc'[c] = "unlock"
    <3>1. Missing(c)'
      BY <1>2, <1>3, <1>8, <2>1, <2>2, <2>3
      DEF Missing, Replies, CreateContainer
    <3> QED BY <2>3, <3>1 DEF Progress, Served, Work
  <2>4. CASE pc'[c] = "image"
    <3>1. Checked(c)' BY <1>3, <1>8, <2>4 DEF Checked, CreateContainer
    <3> QED BY <1>2, <2>4, <3>1 DEF Progress, Work
  <2> QED BY <1>3, <1>8, <2>3, <2>4 DEF CreateContainer
<1>9. CASE CheckImage(c)
  <2>1. req[c].img \in Images /\ NameOf(req[c].img) = req[c].img
    BY <1>9, Asking DEF CheckImage
  <2>2. ImagesNamed(NameOf(req[c].img)) = {req[c].img} \cap DOMAIN images
    BY <2>1, LookupImage DEF RefInv
  <2>3. req[c].op = "CreateContainer" /\ req[c].id \in DOMAIN before[1]
    BY <1>3, <1>9 DEF CheckImage, HandlerSafe
  <2>4. CASE pc'[c] = "unlock"
    <3>1. Created(c)'
      BY <1>2, <1>3, <1>9, <2>2, <2>3, <2>4 DEF Created, Replies, CheckImage
    <3> QED BY <1>3, <2>3, <2>4, <3>1 DEF Progress, Served, Work
  <2>5. CASE pc'[c] = "exists"
    <3>1. Checked(c)'
      BY <1>3, <1>9, <2>2, <2>3, <2>5 DEF Checked, CheckImage
    <3> QED BY <1>2, <2>5, <3>1 DEF Progress, Work
  <2> QED BY <1>3, <1>9, <2>4, <2>5 DEF CheckImage
<1>10. CASE CheckContainer(c)
  <2>1. req[c].img \in Images /\ req[c].img # NilImage
    BY <1>10, Asking, ConstantsOK DEF CheckContainer
  <2>2. /\ req[c].op = "CreateContainer" /\ req[c].id \in DOMAIN before[1]
        /\ req[c].img \in DOMAIN before[3]
    BY <1>2, <1>3, <1>10 DEF CheckContainer, HandlerSafe, Checked
  <2>3. PICK scid \in ContainerIds :
          \/ /\ WithId(containers, scid) # {}
             /\ Return(c, "AlreadyExists", {})
          \/ /\ WithId(containers, scid) = {}
             /\ id' = [id EXCEPT ![c] = scid]
             /\ Goto(c, "add")
    BY <1>10, <2>1 DEF CheckContainer
  <2>4. WithId(containers, scid) = {scid} \cap DOMAIN containers
    BY <1>3, Lookup, ConstantsOK
  <2>5. CASE WithId(containers, scid) # {}
    <3>1. pc'[c] = "unlock" /\ Replies(c, "AlreadyExists", {})'
      BY <1>3, <2>3, <2>5 DEF Replies
    <3>2. Created(c)' BY <1>2, <1>3, <2>2, <2>4, <2>5, <3>1 DEF Created
    <3> QED BY <1>3, <2>2, <3>1, <3>2 DEF Progress, Served, Work
  <2>6. CASE WithId(containers, scid) = {}
    <3>1. pc'[c] = "add" /\ id'[c] \notin DOMAIN before[2]
      BY <1>3, <2>3, <2>4, <2>6
    <3>2. Checked(c)' BY <1>3, <2>2, <3>1 DEF Checked
    <3> QED BY <1>2, <3>1, <3>2 DEF Progress, Work
  <2> QED BY <2>5, <2>6
<1>11. CASE StartOrStopContainer(c)
  <2>1. req[c].id # EmptyId /\ req[c].op \in ContainerOps
    BY <1>11, Asking DEF StartOrStopContainer, ContainerOps
  <2>2. WithId(containers, req[c].id) = {req[c].id} \cap DOMAIN containers
    BY <1>3, <2>1, Lookup
  <2>3. CASE pc'[c] = "unlock"
    <3>1. Missing(c)'
      BY <1>2, <1>3, <1>11, <2>1, <2>2, <2>3
      DEF Missing, Replies, StartOrStopContainer
    <3> QED BY <2>3, <3>1 DEF Progress, Served, Work
  <2>4. CASE pc'[c] = "enqueue"
    <3>1. Queueing(c)'
      BY <1>2, <1>3, <1>11, <2>1, <2>2, <2>4
      DEF Queueing, StartOrStopContainer, SlowOps, ContainerOps
    <3> QED BY <2>4, <3>1 DEF Progress, Work
  <2> QED BY <1>3, <1>11, <2>3, <2>4 DEF StartOrStopContainer
<1>12. CASE CheckRemoveContainer(c)
  <2>1. req[c].id # EmptyId BY <1>12, Asking DEF CheckRemoveContainer
  <2>2. WithId(containers, req[c].id) = {req[c].id} \cap DOMAIN containers
    BY <1>3, <2>1, Lookup
  <2>3. CASE pc'[c] = "unlock"
    <3>1. Missing(c)'
      BY <1>2, <1>3, <1>12, <2>2, <2>3
      DEF Missing, Replies, CheckRemoveContainer
    <3> QED BY <2>3, <3>1 DEF Progress, Served, Work
  <2>4. CASE pc'[c] = "remove"
    <3>1. Checked(c)'
      BY <1>3, <1>12, <2>2, <2>4 DEF Checked, CheckRemoveContainer
    <3> QED BY <1>2, <2>4, <3>1 DEF Progress, Work
  <2> QED BY <1>3, <1>12, <2>3, <2>4 DEF CheckRemoveContainer
<1>13. CASE PullImage(c)
  <2>1. Queueing(c)'
    BY <1>2, <1>3, <1>13 DEF Queueing, PullImage, SlowOps, ContainerOps
  <2> QED BY <1>3, <1>13, <2>1 DEF Progress, Work, PullImage
<1>14. CASE PodSandboxStatus(c)
  <2>1. /\ At(c, "enter", "PodSandboxStatus")
        /\ \/ /\ WithId(sandboxes, req[c].id) = {}
              /\ Return(c, "NotFound", {})
           \/ \E k \in WithId(sandboxes, req[c].id) :
                Return(c, "OK", StatusView(sandboxes, k))
    BY <1>14 DEF PodSandboxStatus, Status
  <2>2. WithId(sandboxes, req[c].id) = {req[c].id} \cap DOMAIN sandboxes
    BY <1>3, <2>1, Asking, Lookup
  <2>3. CASE WithId(sandboxes, req[c].id) = {}
    <3>1. Missing(c)'
      BY <1>2, <1>3, <2>1, <2>2, <2>3 DEF Missing, Replies
    <3> QED BY <1>3, <2>1, <2>3, <3>1 DEF Progress, Served, Work
  <2>4. CASE WithId(sandboxes, req[c].id) # {}
    <3> DEFINE i == req[c].id
    <3>1. i \in DOMAIN sandboxes /\ Return(c, "OK", StatusView(sandboxes, i))
      BY <2>1, <2>2, <2>4
    <3>2. StatusView(sandboxes, i) = {<<i, before[1][i].p>>}
      BY <1>3, <3>1 DEF StatusView, OwnKeys, RefInv, ViewsAgree
    <3>3. pc'[c] = "unlock" /\ Replies(c, "OK", {<<i, before[1][i].p>>})'
      BY <1>3, <3>1, <3>2 DEF Replies
    <3>4. ReadDone(c)' BY <1>2, <1>3, <2>1, <3>1, <3>3 DEF ReadDone
    <3> QED BY <3>3, <3>4 DEF Progress, Served, Work
  <2> QED BY <2>3, <2>4
<1>15. CASE ContainerStatus(c)
  <2>1. /\ At(c, "enter", "ContainerStatus")
        /\ \/ /\ WithId(containers, req[c].id) = {}
              /\ Return(c, "NotFound", {})
           \/ \E k \in WithId(containers, req[c].id) :
                Return(c, "OK", StatusView(containers, k))
    BY <1>15 DEF ContainerStatus, Status
  <2>2. WithId(containers, req[c].id) = {req[c].id} \cap DOMAIN containers
    BY <1>3, <2>1, Asking, Lookup
  <2>3. CASE WithId(containers, req[c].id) = {}
    <3>1. Missing(c)'
      BY <1>2, <1>3, <2>1, <2>2, <2>3 DEF Missing, Replies
    <3> QED BY <1>3, <2>1, <2>3, <3>1 DEF Progress, Served, Work
  <2>4. CASE WithId(containers, req[c].id) # {}
    <3> DEFINE i == req[c].id
    <3>1. i \in DOMAIN containers /\ Return(c, "OK", StatusView(containers, i))
      BY <2>1, <2>2, <2>4
    <3>2. StatusView(containers, i) = {<<i, before[2][i].p>>}
      BY <1>3, <3>1 DEF StatusView, OwnKeys, RefInv, ViewsAgree
    <3>3. pc'[c] = "unlock" /\ Replies(c, "OK", {<<i, before[2][i].p>>})'
      BY <1>3, <3>1, <3>2 DEF Replies
    <3>4. ReadDone(c)' BY <1>2, <1>3, <2>1, <3>1, <3>3 DEF ReadDone
    <3> QED BY <3>3, <3>4 DEF Progress, Served, Work
  <2> QED BY <2>3, <2>4
<1>16. CASE ListPodSandbox(c)
  <2>1. ListView(sandboxes) = StatesOf(before[1])
    BY <1>3 DEF ListView, StatesOf, OwnKeys
  <2>2. pc'[c] = "unlock" /\ Replies(c, "OK", StatesOf(before[1]))'
    BY <1>3, <1>16, <2>1 DEF ListPodSandbox, List, Replies
  <2>3. ReadDone(c)'
    BY <1>2, <1>3, <1>16, <2>2 DEF ReadDone, ListPodSandbox, List
  <2> QED BY <2>2, <2>3 DEF Progress, Served, Work
<1>17. CASE ListContainers(c)
  <2>1. ListView(containers) = StatesOf(before[2])
    BY <1>3 DEF ListView, StatesOf, OwnKeys
  <2>2. pc'[c] = "unlock" /\ Replies(c, "OK", StatesOf(before[2]))'
    BY <1>3, <1>17, <2>1 DEF ListContainers, List, Replies
  <2>3. ReadDone(c)'
    BY <1>2, <1>3, <1>17, <2>2 DEF ReadDone, ListContainers, List
  <2> QED BY <2>2, <2>3 DEF Progress, Served, Work
<1>18. CASE ImageStatus(c)
  <2> DEFINE n == req[c].img
             view == IF n \in DOMAIN before[3] THEN {<<n, "present">>} ELSE {}
  <2>1. n \in Images /\ NameOf(n) = n /\ n # NilImage
    BY <1>18, Asking, ConstantsOK DEF ImageStatus
  <2>2. ImagesNamed(NameOf(n)) = {n} \cap DOMAIN images
    BY <2>1, LookupImage DEF RefInv
  <2>3. \A k \in ImagesNamed(NameOf(n)) : NameOf(images[k]) = n
    BY <2>1, <2>2 DEF RefInv, ViewsAgree
  <2>4. Return(c, "OK", view)
    BY <1>3, <1>18, <2>2, <2>3 DEF ImageStatus
  <2>5. pc'[c] = "unlock" /\ Replies(c, "OK", view)'
    BY <1>3, <2>4 DEF Replies
  <2>6. ReadDone(c)' BY <1>2, <1>3, <1>18, <2>5 DEF ReadDone, ImageStatus
  <2> QED BY <2>5, <2>6 DEF Progress, Served, Work
<1> QED
  BY <1>4, <1>5, <1>6, <1>7, <1>8, <1>9, <1>10, <1>11, <1>12, <1>13, <1>14,
     <1>15, <1>16, <1>17, <1>18 DEF Check

\* The changes a handler makes itself.
LEMMA ProgressChange ==
  ASSUME AllNamed, TypeInv, LockInv, StoreInv, RefInv, NEW c \in Callers,
         Change(c), before' = before
  PROVE  Progress(c)'
<1> USE DEF At, Goto, Return
<1>1. UNCHANGED <<req, id>> /\ pc[c] \in Work
  BY DEF Change, AddSandbox, RemoveSandbox, AddContainer, RemoveContainer,
     RemoveImage, Work
<1>2. Progress(c) BY DEF RefInv
<1>3. /\ pc \in [Callers -> Labels] /\ DOMAIN reply = Callers
      /\ HandlerSafe(c) /\ HandlerTyped(c) /\ Checked(c)
      /\ before[1] = sandboxes /\ before[2] = containers /\ before[3] = images
  BY <1>1, <1>2 DEF TypeInv, TypeOK, StoreInv, Progress, Untouched,
     SandboxesKept, ContainersKept, ImagesKept
<1> USE DEF KeptBut, SandboxesKept, ContainersKept, ImagesKept
<1>4. CASE AddSandbox(c)
  <2>1. id[c] \in SandboxIds /\ id[c] \notin DOMAIN sandboxes
    BY <1>3, <1>4 DEF AddSandbox, HandlerTyped, Checked
  <2>2. SandboxMade(id[c], "NOTREADY")'
    BY <1>1, <1>3, <1>4, <2>1 DEF AddSandbox, Put, SandboxMade
  <2>3. Queueing(c)'
    BY <1>1, <1>4, <2>2 DEF Queueing, AddSandbox, SlowOps, ContainerOps
  <2> QED BY <1>3, <1>4, <2>3 DEF AddSandbox, Progress, Work
<1>5. CASE RemoveSandbox(c)
  <2>1. req[c].id \in DOMAIN sandboxes /\ ContainersOf(req[c].id) = {}
    BY <1>3, <1>5 DEF RemoveSandbox, HandlerSafe, Checked
  <2>2. SandboxRemoved(req[c].id)'
    BY <1>1, <1>3, <1>5, <2>1
    DEF RemoveSandbox, Delete, SandboxRemoved, ContainersOf
  <2>3. pc'[c] = "unlock" /\ Replies(c, "OK", {})'
    BY <1>3, <1>5 DEF RemoveSandbox, Replies
  <2>4. RemovedSandbox(c)' BY <1>1, <2>2, <2>3 DEF RemovedSandbox
  <2> QED
    BY <1>1, <1>5, <2>3, <2>4 DEF RemoveSandbox, Progress, Served, Work
<1>6. CASE AddContainer(c)
  <2>1. /\ id[c] \in ContainerIds /\ id[c] \notin DOMAIN containers
        /\ req[c].id \in DOMAIN sandboxes /\ req[c].img \in DOMAIN images
    BY <1>3, <1>6 DEF AddContainer, HandlerTyped, HandlerSafe, Checked
  <2>2. ContainerMade(id[c], req[c].id)'
    BY <1>1, <1>3, <1>6, <2>1 DEF AddContainer, Put, ContainerMade
  <2>3. pc'[c] = "unlock" /\ Replies(c, "OK", {})'
    BY <1>3, <1>6 DEF AddContainer, Replies
  <2>4. Created(c)' BY <1>1, <1>3, <2>1, <2>2, <2>3 DEF Created
  <2> QED
    BY <1>1, <1>6, <2>3, <2>4 DEF AddContainer, Progress, Served, Work
<1>7. CASE RemoveContainer(c)
  <2>1. req[c].id \in DOMAIN containers
    BY <1>3, <1>7 DEF RemoveContainer, Checked
  <2>2. ContainerRemoved(req[c].id)'
    BY <1>1, <1>3, <1>7, <2>1 DEF RemoveContainer, Delete, ContainerRemoved
  <2>3. pc'[c] = "unlock" /\ Replies(c, "OK", {})'
    BY <1>3, <1>7 DEF RemoveContainer, Replies
  <2> QED
    BY <1>1, <1>7, <2>2, <2>3 DEF RemoveContainer, Progress, Served, Work
<1>8. CASE RemoveImage(c)
  <2>1. NameOf(req[c].img) = req[c].img BY <1>8, Asking DEF RemoveImage
  <2>2. ImageRemoved(req[c].img)'
    BY <1>1, <1>3, <1>8, <2>1 DEF RemoveImage, Delete, ImageRemoved
  <2>3. pc'[c] = "unlock" /\ Replies(c, "OK", {})'
    BY <1>3, <1>8 DEF RemoveImage, Replies
  <2> QED
    BY <1>1, <1>8, <2>2, <2>3 DEF RemoveImage, Progress, Served, Work
<1> QED BY <1>4, <1>5, <1>6, <1>7, <1>8 DEF Change

\* What a slow call has achieved when its callback is done is what it
\* answers for.
LEMMA WokenServed ==
  ASSUME NEW c \in Callers, Waiting(c), Acted(c), req[c].op # "PullImage",
         reply'[c] = [code |-> "OK", view |-> {}],
         UNCHANGED <<sandboxes, containers, images, before, req>>
  PROVE  Served(c)'
<1>1. Replies(c, "OK", {})' BY DEF Replies
<1> USE DEF KeptBut, SandboxesKept, ContainersKept, ImagesKept
<1>2. CASE req[c].op = "RunPodSandbox"
  <2>1. SandboxMade(id[c], "READY") BY <1>2 DEF Waiting
  <2>2. Ran(c)' BY <1>1, <2>1 DEF Ran, SandboxMade
  <2> QED BY <1>2, <2>2 DEF Served
<1>3. CASE req[c].op = "StopPodSandbox"
  <2>1. SandboxStopped(req[c].id) /\ ContainersExited(req[c].id, {})
    BY <1>3 DEF Waiting
  <2>2. SandboxStopped(req[c].id)' BY <2>1 DEF SandboxStopped
  <2>3. ContainersExited(req[c].id, {})' BY <2>1 DEF ContainersExited
  <2>4. Stopped(c)' BY <1>1, <2>2, <2>3 DEF Stopped
  <2> QED BY <1>3, <2>4 DEF Served
<1>4. CASE req[c].op \in ContainerOps
  <2>1. ContainerSet(req[c].id,
          IF req[c].op = "StartContainer" THEN "RUNNING" ELSE "EXITED")
    BY <1>4 DEF Waiting
  <2>2. ContainerSet(req[c].id,
          IF req[c].op = "StartContainer" THEN "RUNNING" ELSE "EXITED")'
    BY <2>1 DEF ContainerSet
  <2> QED BY <1>1, <1>4, <2>2 DEF Served, ContainerOps
<1> QED BY <1>2, <1>3, <1>4 DEF Waiting, SlowOps, ContainerOps

\* The frame of a handler.
LEMMA ProgressFrame ==
  ASSUME AllNamed, TypeInv, LockInv, StoreInv, RefInv, NEW c \in Callers,
         Remembers,
         \/ \E r \in Requests : Call(c, r)
         \/ Acquire(c) \/ Unlock(c) \/ Release(c) \/ Select(c) \/ Relock(c)
         \/ Collect(c) \/ Enqueue(c) \/ Woken(c)
  PROVE  Progress(c)'
<1>1. /\ pc \in [Callers -> Labels] /\ DOMAIN reply = Callers
      /\ Progress(c) /\ HandlerTyped(c) /\ NoCaller \notin Callers
  BY ConstantsOK DEF TypeInv, TypeOK, RefInv
<1>2. Inside(c) => before' = before
  BY <1>1 DEF Remembers, LockInv, LockHeld
<1> USE DEF Goto
<1>3. CASE \/ \E r \in Requests : Call(c, r)
           \/ Unlock(c) \/ Release(c) \/ Collect(c)
  BY <1>1, <1>3 DEF Call, Unlock, Release, Collect, Progress, Work
<1>4. CASE Acquire(c)
  <2>1. UNCHANGED store /\ before' = store /\ pc'[c] = "enter"
    BY <1>1, <1>4 DEF Acquire, Remembers
  <2>2. Untouched'
    BY <2>1 DEF store, Untouched, SandboxesKept, ContainersKept, ImagesKept
  <2>3. Checked(c)' BY <2>1 DEF Checked, At
  <2> QED BY <2>1, <2>2, <2>3 DEF Progress, Work
<1>5. CASE Select(c)
  <2>1. pc'[c] = "relock" /\ PullAnswered(c)'
    BY <1>1, <1>5 DEF Select, PullAnswered, Replies
  <2> QED BY <2>1 DEF Progress, Work
<1>6. CASE Relock(c)
  <2>1. /\ UNCHANGED store /\ before' = store /\ pc'[c] = "unlock"
        /\ req[c].op = "PullImage" /\ req' = req
    BY <1>1, <1>6 DEF Relock, Remembers, HandlerTyped
  <2>2. Untouched'
    BY <2>1 DEF store, Untouched, SandboxesKept, ContainersKept, ImagesKept
  <2>3. PullAnswered(c)'
    BY <1>1, <1>6 DEF Relock, Progress, PullAnswered, Replies
  <2> QED BY <2>1, <2>2, <2>3 DEF Progress, Served, Work
<1>7. CASE Enqueue(c)
  <2>1. /\ pc[c] = "enqueue" /\ pc'[c] = "wait" /\ Queueing(c)
        /\ UNCHANGED <<sandboxes, containers, images, req, id,
                       simpc, obj, closed>>
    BY <1>1, <1>7 DEF Enqueue, store, Progress
  <2>2. before' = before BY <1>2, <2>1 DEF Inside
  <2>3. simpc \notin CallbackSteps /\ c \notin closed
    <3>1. mu = c BY <2>1 DEF LockInv, LockHeld, Inside
    <3> QED BY <2>1, <3>1, CallbackCaller, ClosedWait
  <2>4. ~Acted(c)' /\ simpc' \notin {"put", "list", "each"}
    BY <2>1, <2>3 DEF Acted, CallbackSteps
  <2>5. Waiting(c)'
    BY <2>1, <2>2, <2>4
    DEF Queueing, Waiting, Untouched, SandboxMade, KeptBut, SandboxesKept,
        ContainersKept, ImagesKept, SlowOps, ContainerOps
  <2> QED BY <2>1, <2>5 DEF Progress, Work
<1>8. CASE Woken(c)
  <2>1. /\ pc[c] = "wait" /\ Waiting(c) /\ Acted(c)
        /\ UNCHANGED <<sandboxes, containers, images, req>>
    BY <1>1, <1>8 DEF Woken, store, Progress, Acted
  <2>2. before' = before BY <1>2, <2>1 DEF Inside
  <2>3. CASE req[c].op = "PullImage"
    <3>1. pc'[c] = "release" BY <1>1, <1>8, <2>3 DEF Woken
    <3>2. ImagePulled(req[c].img)'
      BY <2>1, <2>2, <2>3
      DEF Waiting, ImagePulled, SandboxesKept, ContainersKept
    <3> QED BY <3>1, <3>2 DEF Progress, Work
  <2>4. CASE req[c].op # "PullImage"
    <3>1. pc'[c] = "unlock" /\ reply'[c] = [code |-> "OK", view |-> {}]
      BY <1>1, <1>8, <2>4 DEF Woken, Return
    <3>2. Served(c)' BY <2>1, <2>2, <2>4, <3>1, WokenServed
    <3> QED BY <3>1, <3>2 DEF Progress, Work
  <2> QED BY <2>3, <2>4
<1> QED BY <1>3, <1>4, <1>5, <1>6, <1>7, <1>8

\* The steps of c leave what the others have done.
LEMMA ProgressOthers ==
  ASSUME TypeInv, LockInv, RefInv, Remembers,
         NEW c \in Callers, NEW d \in Callers \ {c},
         \/ \E r \in Requests : Call(c, r)
         \/ Acquire(c) \/ Handler(c) \/ Relock(c) \/ Collect(c)
  PROVE  Progress(d)'
<1>1. Passive(c) \/ Change(c)
  BY DEF Handler, Passive, Check, Change
<1>2. /\ pc'[d] = pc[d] /\ req'[d] = req[d] /\ id'[d] = id[d]
      /\ reply'[d] = reply[d]
  <2> USE DEF TypeInv, TypeOK, Goto, Return
  <2>1. CASE Change(c)
    BY <2>1 DEF Change, AddSandbox, RemoveSandbox, AddContainer,
       RemoveContainer, RemoveImage
  <2>2. CASE Check(c)
    BY <2>2 DEF Check, RunPodSandbox, StopPodSandbox, RemovePodSandbox,
       CheckChildren, CreateContainer, CheckImage, CheckContainer,
       StartOrStopContainer, CheckRemoveContainer, PullImage, PodSandboxStatus,
       ContainerStatus, Status, ImageStatus, ListPodSandbox, ListContainers, List
  <2>3. CASE \/ \E r \in Requests : Call(c, r)
             \/ Acquire(c) \/ Unlock(c) \/ Release(c) \/ Select(c)
             \/ Relock(c) \/ Collect(c) \/ Enqueue(c) \/ Woken(c)
    BY <2>3 DEF Call, Acquire, Unlock, Release, Select, Relock, Collect,
       Enqueue, Woken
  <2> QED BY <1>1, <2>1, <2>2, <2>3 DEF Passive
<1>3. Progress(d) BY DEF RefInv
<1>4. CASE ~Inside(d) BY <1>2, <1>3, <1>4, OutsideProgress
<1>5. CASE Inside(d)
  <2>1. mu = d /\ mu # NoCaller /\ ~Inside(c)
    BY <1>5, ConstantsOK DEF LockInv, LockHeld
  <2>2. before' = before BY <2>1 DEF Remembers
  <2>3. (\E r \in Requests : Call(c, r)) \/ Select(c) \/ Collect(c)
    <3>1. pc[c] \notin {"enter", "children", "image", "exists", "add",
                        "remove", "enqueue", "wait", "release", "unlock"}
      BY <2>1 DEF Inside
    <3>2. ~Change(c)
      BY <3>1 DEF Change, AddSandbox, RemoveSandbox, AddContainer,
         RemoveContainer, RemoveImage, At
    <3>3. ~Check(c)
      BY <3>1 DEF Check, RunPodSandbox, StopPodSandbox, RemovePodSandbox,
         CheckChildren, CreateContainer, CheckImage, CheckContainer,
         StartOrStopContainer, CheckRemoveContainer, PullImage,
         PodSandboxStatus, ContainerStatus, Status, ImageStatus,
         ListPodSandbox, ListContainers, List, At
    <3>4. ~(Acquire(c) \/ Relock(c))
      BY <2>1 DEF Acquire, Relock
    <3>5. ~(Unlock(c) \/ Release(c) \/ Enqueue(c) \/ Woken(c))
      BY <3>1 DEF Unlock, Release, Enqueue, Woken
    <3> QED BY <1>1, <3>2, <3>3, <3>4, <3>5 DEF Passive
  <2>4. UNCHANGED <<sandboxes, containers, images, simpc, obj, todo, closed>>
    BY <2>3 DEF Call, Select, Collect, store, sim
  <2> QED BY <1>2, <1>3, <2>2, <2>4, ProgressStays DEF Still
<1> QED BY <1>4, <1>5

\* The callback of a waiting call makes the change the call is about.
LEMMA ProgressCallback ==
  ASSUME AllNamed, TypeInv, LockInv, StoreInv, RefInv, AckInv,
         NEW c \in Callers, c = running,
         Callback \/ Finish, before' = before
  PROVE  Waiting(c)'
<1> DEFINE i == id[c]
<1>1. simpc \in CallbackSteps /\ UNCHANGED rpc
  BY DEF Callback, CallbackGet, CallbackPut, CallbackPull, CallbackList,
     CallbackExit, CallbackListed, Finish, CallbackSteps
<1>2. pc[c] = "wait" /\ c \notin closed
  BY <1>1, CallbackCaller, ClosedWait
<1>3. /\ Waiting(c) /\ HandlerSafe(c) /\ HandlerTyped(c) /\ OwnKeys
      /\ Op = req[c].op /\ Target = i
  BY <1>2 DEF RefInv, Progress, StoreInv, TypeInv, Op, Target
<1>4. /\ pc' = pc /\ req' = req /\ id' = id /\ reply' = reply
      /\ Op \in SlowOps
  BY <1>1, <1>3 DEF rpc, Waiting
<1>5. /\ Op \in SandboxOps => i \in DOMAIN sandboxes
      /\ Op \in ContainerOps => i \in DOMAIN containers
      /\ i \in DOMAIN sandboxes \/ i \in DOMAIN containers => i # EmptyId
  BY <1>2, <1>3, KeysNamed DEF HandlerSafe, TypeInv
<1> HIDE DEF i
<1>6. CASE Finish
  <2>1. /\ simpc = "close" /\ simpc' \in {"tick", "next"} /\ todo' = todo
        /\ closed' = closed \cup {c} /\ UNCHANGED <<store, obj>>
    BY <1>6 DEF Finish
  <2>2. Acted(c) /\ Acted(c)' BY <2>1 DEF Acted
  <2>3. Still(c) BY <1>4, <2>1 DEF Still, store
  <2> QED BY <1>3, <2>1, <2>2, <2>3, WaitingStays
<1>7. CASE CallbackGet
  <2> DEFINE m == IF Op \in SandboxOps THEN sandboxes ELSE containers
  <2>1. /\ simpc = "get" /\ Op # "PullImage"
        /\ UNCHANGED <<store, todo, closed>>
        /\ \/ WithId(m, i) = {}
           \/ \E k \in WithId(m, i) : obj' = m[k] /\ simpc' = "put"
    BY <1>3, <1>7 DEF CallbackGet
  <2>2. i \in DOMAIN m /\ WithId(m, i) = {i} \cap DOMAIN m
    BY <1>3, <1>4, <1>5, <2>1, Lookup
    DEF SlowOps, SandboxOps, ContainerOps
  <2>3. obj' = m[i] /\ simpc' = "put" BY <2>1, <2>2
  <2>4. ~Acted(c) /\ ~Acted(c)' BY <1>2, <2>1, <2>3 DEF Acted
  <2>5. Still(c) BY <1>4, <2>1 DEF Still, store
  <2>6. req[c].op \in ContainerOps => obj' = containers[id[c]]
    BY <1>3, <2>3 DEF ContainerOps, SandboxOps, i
  <2> QED BY <1>3, <2>1, <2>3, <2>4, <2>5, <2>6, WaitingStays
<1> USE DEF KeptBut, SandboxesKept, ContainersKept, ImagesKept
<1>8. CASE CallbackPut
  <2> DEFINE new == WithState(obj, NewState)
  <2>1. /\ simpc = "put" /\ simpc' = AfterPut /\ images' = images
        /\ closed' = closed /\ Op # "PullImage"
        /\ obj \in IF Op \in SandboxOps THEN SandboxRec ELSE ContainerRec
    BY <1>8 DEF CallbackPut, TypeInv, CallbackTyped
  <2>2. /\ new.p = NewState
        /\ Op \in ContainerOps => new.sb = obj.sb
    BY <2>1
    DEF WithState, SandboxRec, ContainerRec, SandboxOps, ContainerOps
  <2>3. IF Op \in SandboxOps
          THEN sandboxes' = Put(sandboxes, i, new) /\ containers' = containers
          ELSE containers' = Put(containers, i, new) /\ sandboxes' = sandboxes
    BY <1>3, <1>8 DEF CallbackPut
  <2>4. ~Acted(c) BY <1>2, <2>1 DEF Acted
  <2> HIDE DEF new
  <2>5. CASE Op = "RunPodSandbox"
    <3>1. Acted(c)' /\ NewState = "READY"
      BY <2>1, <2>5 DEF AfterPut, Acted, NewState
    <3>2. SandboxMade(i, "NOTREADY") BY <1>3, <2>4, <2>5 DEF Waiting, i
    <3>3. SandboxMade(i, "READY")'
      BY <1>4, <2>1, <2>2, <2>3, <2>5, <3>1, <3>2
      DEF SandboxMade, Put, SandboxOps, i
    <3> QED
      BY <1>3, <1>4, <2>5, <3>1, <3>3 DEF Waiting, SlowOps, ContainerOps, i
  <2>6. CASE Op = "StopPodSandbox"
    <3>1. /\ simpc' = "list" /\ ~Acted(c)' /\ NewState = "NOTREADY"
      BY <1>2, <2>1, <2>6 DEF AfterPut, Acted, NewState
    <3>2. Untouched /\ i = req[c].id /\ i \in DOMAIN before[1]
      BY <1>3, <2>1, <2>4, <2>6 DEF Waiting, i
    <3>3. SandboxStopped(i)' /\ ContainersKept'
      BY <1>4, <2>1, <2>2, <2>3, <2>6, <3>1, <3>2
      DEF Untouched, SandboxStopped, Put, SandboxOps, i
    <3> QED
      BY <1>3, <1>4, <2>6, <3>1, <3>2, <3>3
      DEF Waiting, SlowOps, ContainerOps, i
  <2>7. CASE Op \in ContainerOps
    <3>1. Acted(c)' /\ simpc' = "close" /\ Op \notin SandboxOps
      BY <2>1, <2>7 DEF AfterPut, Acted, ContainerOps, SandboxOps
    <3> DEFINE state == IF req[c].op = "StartContainer" THEN "RUNNING"
                                                       ELSE "EXITED"
    <3>2. NewState = state /\ state' = state
      BY <1>3, <1>4, <2>7 DEF NewState, ContainerOps
    <3>3. /\ Untouched /\ i = req[c].id /\ i \in DOMAIN before[2]
          /\ obj = containers[i]
      BY <1>3, <2>1, <2>4, <2>7 DEF Waiting, i
    <3>4. new.sb = before[2][i].sb BY <2>2, <2>7, <3>3 DEF Untouched
    <3> HIDE DEF state
    <3>5. ContainerSet(i, state)'
      BY <1>4, <2>1, <2>2, <2>3, <2>7, <3>1, <3>2, <3>3, <3>4
      DEF Untouched, ContainerSet, Put, i
    <3> QED
      BY <1>3, <1>4, <2>1, <2>7, <3>1, <3>3, <3>5
      DEF Waiting, ContainerOps, i, state
  <2> QED
    BY <1>4, <2>1, <2>5, <2>6, <2>7 DEF SlowOps, ContainerOps
<1>9. CASE CallbackPull
  <2>1. /\ simpc = "get" /\ simpc' = "close" /\ Op = "PullImage"
        /\ UNCHANGED <<sandboxes, containers, closed>>
        /\ images' = Put(images, NameOf(req[c].img), req[c].img)
    BY <1>9 DEF CallbackPull
  <2>2. ~Acted(c) /\ Acted(c)' BY <1>2, <2>1 DEF Acted
  <2>3. Untouched /\ NameOf(req[c].img) = req[c].img
    BY <1>3, <2>1, <2>2, Asking DEF Waiting
  <2>4. ImagePulled(req[c].img)'
    BY <1>4, <2>1, <2>3 DEF Untouched, ImagePulled, Put
  <2> QED
    BY <1>3, <1>4, <2>1, <2>2, <2>4 DEF Waiting, SlowOps, ContainerOps
<1>10. CASE CallbackList
  <2>1. /\ simpc = "list" /\ simpc' = "each" /\ UNCHANGED <<store, closed>>
        /\ todo' = {containers[k] : k \in ContainersOf(i)}
    BY <1>3, <1>10 DEF CallbackList
  <2>2. Op = "StopPodSandbox" BY <2>1 DEF AckInv, StopSafe
  <2>3. ~Acted(c) /\ ~Acted(c)' BY <1>2, <2>1 DEF Acted
  <2>4. /\ i = req[c].id /\ i \in DOMAIN before[1]
        /\ SandboxStopped(i) /\ ContainersKept
    BY <1>3, <2>1, <2>2 DEF Waiting, i
  <2>5. SandboxStopped(i)'
    BY <1>4, <2>1, <2>4 DEF SandboxStopped, store, i
  <2>6. \A k \in DOMAIN containers : containers[k].sb = i =>
          \E v \in todo' : v.id = k
    BY <1>3, <2>1 DEF ContainersOf, OwnKeys
  <2>7. \A v \in todo' :
          v.id \in DOMAIN containers /\ v = containers[v.id] /\ v.sb = i
    BY <1>3, <2>1 DEF ContainersOf, OwnKeys
  <2>8. ContainersExited(i, todo)'
    BY <1>4, <2>1, <2>4, <2>6, <2>7 DEF ContainersExited, store, i
  <2> QED
    BY <1>3, <1>4, <2>1, <2>2, <2>3, <2>4, <2>5, <2>8
    DEF Waiting, ContainerOps, i
<1>11. CASE CallbackExit
  <2>1. PICK v \in todo :
          /\ containers' = Put(containers, v.id, WithState(v, "EXITED"))
          /\ todo' = todo \ {v}
    BY <1>11 DEF CallbackExit
  <2>2. /\ simpc = "each" /\ UNCHANGED <<sandboxes, images, simpc, closed>>
    BY <1>11 DEF CallbackExit
  <2>3. Op = "StopPodSandbox" BY <2>2 DEF AckInv, StopSafe
  <2>4. ~Acted(c) /\ ~Acted(c)' BY <1>2, <2>2 DEF Acted
  <2>5. /\ i = req[c].id /\ i \in DOMAIN before[1]
        /\ SandboxStopped(i) /\ ContainersExited(i, todo)
    BY <1>3, <2>2, <2>3 DEF Waiting, i
  <2>6. SandboxStopped(i)'
    BY <1>4, <2>2, <2>5 DEF SandboxStopped, i
  <2> DEFINE new == WithState(v, "EXITED")
  <2>7. new.sb = i /\ new.p = "EXITED" /\ v.id \in DOMAIN before[2]
        /\ before[2][v.id].sb = i
    <3>1. v \in ContainerRec BY DEF TypeInv, TypeOK
    <3>2. new.sb = v.sb /\ new.p = "EXITED"
      BY <3>1 DEF ContainerRec, WithState
    <3> QED BY <2>5, <3>2 DEF ContainersExited
  <2> HIDE DEF new
  <2>8. DOMAIN containers' = DOMAIN before[2]
    BY <2>1, <2>5, <2>7 DEF ContainersExited, Put
  <2>9. ASSUME NEW k \in DOMAIN before[2]
        PROVE  /\ containers'[k].sb = before[2][k].sb
               /\ before[2][k].sb # i => containers'[k] = before[2][k]
               /\ before[2][k].sb = i =>
                    containers'[k].p = "EXITED" \/ \E w \in todo' : w.id = k
    <3>1. CASE k = v.id BY <2>1, <2>7, <3>1 DEF Put, new
    <3>2. CASE k # v.id
      <4>1. containers'[k] = containers[k]
        BY <2>1, <2>5, <3>2 DEF ContainersExited, Put
      <4>2. \A w \in todo : w.id = k => w \in todo' BY <2>1, <3>2
      <4> QED BY <2>5, <4>1, <4>2 DEF ContainersExited
    <3> QED BY <3>1, <3>2
  <2>10. ContainersExited(i, todo)'
    BY <1>4, <2>1, <2>5, <2>8, <2>9 DEF ContainersExited, i
  <2> QED
    BY <1>3, <1>4, <2>2, <2>3, <2>4, <2>5, <2>6, <2>10
    DEF Waiting, ContainerOps, i
<1>12. CASE CallbackListed
  <2>1. /\ simpc = "each" /\ simpc' = "close" /\ todo = {}
        /\ UNCHANGED <<store, closed>>
    BY <1>12 DEF CallbackListed
  <2>2. Op = "StopPodSandbox" BY <2>1 DEF AckInv, StopSafe
  <2>3. Acted(c)' BY <2>1 DEF Acted
  <2>4. /\ i = req[c].id /\ i \in DOMAIN before[1]
        /\ SandboxStopped(i) /\ ContainersExited(i, {})
    BY <1>3, <2>1, <2>2 DEF Waiting, i
  <2>5. SandboxStopped(i)'
    BY <1>4, <2>1, <2>4 DEF SandboxStopped, store, i
  <2>6. ContainersExited(i, {})'
    BY <1>4, <2>1, <2>4 DEF ContainersExited, store, i
  <2> QED
    BY <1>3, <1>4, <2>1, <2>2, <2>3, <2>4, <2>5, <2>6
    DEF Waiting, ContainerOps, i
<1> QED
  BY <1>6, <1>7, <1>8, <1>9, <1>10, <1>11, <1>12 DEF Callback

LEMMA RefStep ==
  ASSUME AllNamed
  PROVE  TypeInv /\ LockInv /\ StoreInv /\ AckInv /\ RefInv /\ [HNext]_hvars
           => RefInv'
<1> SUFFICES ASSUME TypeInv, LockInv, StoreInv, AckInv, RefInv, [HNext]_hvars
             PROVE  RefInv'
  OBVIOUS
<1>1. ViewsAgree' BY ViewsStep DEF RefInv, HNext, hvars
<1>2. CASE UNCHANGED hvars
  <2>1. \A d \in Callers : Still(d) /\ UNCHANGED <<simpc, obj, todo, closed>>
    BY <1>2 DEF hvars, vars, rpc, sim, store, Still
  <2> QED BY <1>1, <2>1, ProgressStays DEF RefInv
<1>3. ASSUME NEW c \in Callers, Remembers,
             \/ \E r \in Requests : Call(c, r)
             \/ Acquire(c) \/ Handler(c) \/ Relock(c) \/ Collect(c)
      PROVE  RefInv'
  <2>1. Progress(c)'
    <3>1. CASE Check(c) \/ Change(c)
      <4>1. Inside(c)
        BY <3>1 DEF Inside, At, Check, Change, AddSandbox, RemoveSandbox,
           AddContainer, RemoveContainer, RemoveImage, RunPodSandbox,
           StopPodSandbox, RemovePodSandbox, CheckChildren, CreateContainer,
           CheckImage, CheckContainer, StartOrStopContainer,
           CheckRemoveContainer, PullImage, PodSandboxStatus, ContainerStatus,
           Status, ImageStatus, ListPodSandbox, ListContainers, List
      <4>2. mu # NoCaller
        BY <4>1, ConstantsOK DEF LockInv, LockHeld
      <4>3. before' = before BY <1>3, <4>2 DEF Remembers
      <4> QED BY <3>1, <4>3, ProgressCheck, ProgressChange
    <3>2. CASE ~(Check(c) \/ Change(c))
      BY <1>3, <3>2, ProgressFrame DEF Handler, Check, Change
    <3> QED BY <3>1, <3>2
  <2>2. \A d \in Callers \ {c} : Progress(d)' BY <1>3, ProgressOthers
  <2> QED BY <1>1, <2>1, <2>2 DEF RefInv
<1>4. CASE Simulator /\ Remembers
  <2>1. UNCHANGED <<mu, rpc>>
    BY <1>4 DEF Simulator, Callback, Tick, Begin, Finish, CallbackGet,
       CallbackPut, CallbackPull, CallbackList, CallbackExit, CallbackListed
  <2>2. before' = before BY <1>4, <2>1 DEF Remembers
  <2>3. \A d \in Callers : /\ pc'[d] = pc[d] /\ req'[d] = req[d]
                           /\ id'[d] = id[d] /\ reply'[d] = reply[d]
    BY <2>1 DEF rpc
  <2>4. CASE Tick \/ Begin
    <3>1. /\ UNCHANGED <<store, obj, todo, closed>>
          /\ simpc \in {"tick", "next"} /\ simpc' \in {"tick", "next", "get"}
      BY <2>4 DEF Tick, Begin
    <3>2. ASSUME NEW d \in Callers PROVE Progress(d)'
      <4>1. Still(d) BY <2>2, <2>3, <3>1 DEF Still, store
      <4>2. Progress(d) BY DEF RefInv
      <4>3. CASE pc[d] = "wait"
        <5>1. Acted(d)' <=> Acted(d) BY <3>1 DEF Acted
        <5>2. Waiting(d)' BY <3>1, <4>1, <4>2, <4>3, <5>1, WaitingStays DEF Progress
        <5> QED BY <2>3, <4>3, <5>2 DEF Progress, Work
      <4>4. CASE pc[d] # "wait" BY <4>1, <4>2, <4>4, ProgressStays
      <4> QED BY <4>3, <4>4
    <3> QED BY <1>1, <3>2 DEF RefInv
  <2>5. CASE Callback \/ Finish
    <3>1. simpc \in CallbackSteps
      BY <2>5 DEF Callback, CallbackGet, CallbackPut, CallbackPull,
         CallbackList, CallbackExit, CallbackListed, Finish, CallbackSteps
    <3>2. running \in Callers /\ pc[running] = "wait" /\ mu = running
      BY <3>1, CallbackCaller
    <3>3. ASSUME NEW d \in Callers PROVE Progress(d)'
      <4>1. CASE d = running
        <5>1. Waiting(d)' BY <2>2, <2>5, <4>1, ProgressCallback
        <5> QED BY <2>3, <3>2, <4>1, <5>1 DEF Progress, Work
      <4>2. CASE d # running
        <5>1. ~Inside(d) /\ Progress(d)
          BY <3>2, <4>2 DEF LockInv, LockHeld, RefInv
        <5> QED BY <2>3, <5>1, OutsideProgress
      <4> QED BY <4>1, <4>2
    <3> QED BY <1>1, <3>3 DEF RefInv
  <2> QED BY <1>4, <2>4, <2>5 DEF Simulator
<1> QED BY <1>2, <1>3, <1>4 DEF HNext, Next, Remembers

-----------------------------------------------------------------------------
(* Every step is one operation of CriAtomic, or none.                      *)

\* What CriAtomic sees of the store.
SandboxView(m) == [k \in DOMAIN m |-> m[k].p]
ContainerView(m) == [k \in DOMAIN m |-> [sb |-> m[k].sb, state |-> m[k].p]]

SeenIs(sbs, cts, ims) == Seen[1] = sbs /\ Seen[2] = cts /\ Seen[3] = ims

LEMMA SeenStore ==
  /\ mu = NoCaller => SeenIs(sandboxes, containers, images)
  /\ mu # NoCaller => SeenIs(before[1], before[2], before[3])
BY DEF Seen, SeenIs, store

\* c leaves b.mu: its reply is out, and so is the store.
Answering(c, from) ==
  /\ Phase(c) = from /\ Phase(c)' = "answered" /\ Given(c)' = reply[c]
  /\ \A d \in Callers \ {c} : Phase(d)' = Phase(d) /\ Given(d)' = Given(d)
  /\ req' = req
  /\ SeenIs(before[1], before[2], before[3])
  /\ SeenIs(sandboxes, containers, images)'
  /\ UNCHANGED store

LEMMA AtomicAnswer ==
  ASSUME NEW c \in Callers, NEW from, NEW code, NEW view,
         Answering(c, from), Replies(c, code, view)
  PROVE  Atomic!Answer(c, code, view)
<1> USE DEF Answering, Replies
<1>1. [d \in Callers |-> Phase(d)']
        = [[d \in Callers |-> Phase(d)] EXCEPT ![c] = "answered"]
  OBVIOUS
<1>2. [d \in Callers |-> Given(d)']
        = [[d \in Callers |-> Given(d)]
             EXCEPT ![c] = [code |-> code, view |-> view]]
  OBVIOUS
<1> QED BY <1>1, <1>2 DEF Atomic!Answer, Atomic!To

LEMMA AtomicRefuse ==
  ASSUME NEW c \in Callers, NEW from, NEW code, Answering(c, from), Untouched,
         Replies(c, code, {})
  PROVE  Atomic!Refuse(c, code)
<1>1. Atomic!Answer(c, code, {}) BY AtomicAnswer
<1>2. Seen'[1] = Seen[1] /\ Seen'[2] = Seen[2] /\ Seen'[3] = Seen[3]
  BY DEF Answering, SeenIs, Untouched, SandboxesKept, ContainersKept,
     ImagesKept, store
<1> HIDE DEF Seen
<1> QED BY <1>1, <1>2 DEF Atomic!Refuse

LEMMA AtomicRun ==
  ASSUME NEW c \in Callers, Answering(c, "called"),
         req[c].op = "RunPodSandbox", Ran(c)
  PROVE  Atomic!RunPodSandbox(c)
<1>1. Atomic!Asked(c, "RunPodSandbox") BY DEF Answering, Atomic!Asked
<1>2. PICK i \in SandboxIds :
        \/ i \in DOMAIN before[1] /\ Untouched /\ Replies(c, "AlreadyExists", {})
        \/ SandboxMade(i, "READY") /\ Replies(c, "OK", {})
  BY DEF Ran
<1>3. CASE i \in DOMAIN before[1] /\ Untouched /\ Replies(c, "AlreadyExists", {})
  <2>1. Atomic!Refuse(c, "AlreadyExists") BY <1>3, AtomicRefuse
  <2> QED
    BY <1>1, <1>3, <2>1 DEF Atomic!RunPodSandbox, Answering, SeenIs
<1>4. CASE SandboxMade(i, "READY") /\ Replies(c, "OK", {})
  <2>1. Atomic!Answer(c, "OK", {}) BY <1>4, AtomicAnswer
  <2>2. i \notin DOMAIN Seen[1] /\ Seen'[2] = Seen[2] /\ Seen'[3] = Seen[3]
    BY <1>4 DEF Answering, SeenIs, SandboxMade, ContainersKept, ImagesKept, store
  <2>3. [k \in DOMAIN Seen'[1] |-> Seen'[1][k].p]
          = Atomic!Set([k \in DOMAIN Seen[1] |-> Seen[1][k].p], i, "READY")
    BY <1>4 DEF Answering, SeenIs, SandboxMade, KeptBut, Atomic!Set, store
  <2> HIDE DEF Seen
  <2> QED BY <1>1, <2>1, <2>2, <2>3 DEF Atomic!RunPodSandbox
<1> QED BY <1>2, <1>3, <1>4

LEMMA AtomicStop ==
  ASSUME NEW c \in Callers, Answering(c, "called"),
         req[c].op = "StopPodSandbox", Stopped(c)
  PROVE  Atomic!StopPodSandbox(c)
<1> DEFINE i == req[c].id
<1>1. Atomic!Asked(c, "StopPodSandbox") BY DEF Answering, Atomic!Asked
<1>2. Atomic!Answer(c, "OK", {}) BY AtomicAnswer DEF Stopped
<1>3. i \in DOMAIN Seen[1] /\ Seen'[3] = Seen[3]
  BY DEF Answering, SeenIs, Stopped, SandboxStopped, ImagesKept, store
<1>4. [k \in DOMAIN Seen'[1] |-> Seen'[1][k].p]
        = [[k \in DOMAIN Seen[1] |-> Seen[1][k].p] EXCEPT ![i] = "NOTREADY"]
  BY DEF Answering, SeenIs, Stopped, SandboxStopped, KeptBut, store
<1> DEFINE old == [k \in DOMAIN Seen[2] |->
                     [sb |-> Seen[2][k].sb, state |-> Seen[2][k].p]]
           new == [k \in DOMAIN Seen'[2] |->
                     [sb |-> Seen'[2][k].sb, state |-> Seen'[2][k].p]]
<1>5. new = [k \in DOMAIN old |->
               IF k \in {x \in DOMAIN old : old[x].sb = i}
                 THEN [old[k] EXCEPT !.state = "EXITED"] ELSE old[k]]
  <2>1. DOMAIN new = DOMAIN old
    BY DEF Answering, SeenIs, Stopped, ContainersExited, store
  <2>2. ASSUME NEW k \in DOMAIN old
        PROVE  /\ old[k].sb = i =>
                    new[k] = [old[k] EXCEPT !.state = "EXITED"]
               /\ old[k].sb # i => new[k] = old[k]
    BY DEF Answering, SeenIs, Stopped, ContainersExited, store
  <2> HIDE DEF new, old
  <2>3. new = [k \in DOMAIN new |-> new[k]] BY DEF new
  <2> QED BY <2>1, <2>2, <2>3
<1> HIDE DEF Seen
<1> QED
  BY <1>1, <1>2, <1>3, <1>4, <1>5
  DEF Atomic!StopPodSandbox, Atomic!Children, Answering

LEMMA AtomicRemoveSandbox ==
  ASSUME NEW c \in Callers, Answering(c, "called"),
         req[c].op = "RemovePodSandbox", RemovedSandbox(c)
  PROVE  Atomic!RemovePodSandbox(c)
<1> DEFINE i == req[c].id
<1>1. Atomic!Asked(c, "RemovePodSandbox") BY DEF Answering, Atomic!Asked
<1>2. i \in DOMAIN Seen[1]
  BY DEF Answering, SeenIs, RemovedSandbox, SandboxRemoved
<1>3. CASE /\ \E k \in DOMAIN before[2] : before[2][k].sb = i
           /\ Untouched /\ Replies(c, "InvalidArgument", {})
  <2>1. Atomic!Refuse(c, "InvalidArgument") BY <1>3, AtomicRefuse
  <2>2. Atomic!Children(i) # {}
    BY <1>3 DEF Answering, SeenIs, Atomic!Children
  <2> HIDE DEF Seen
  <2> QED BY <1>1, <1>2, <2>1, <2>2 DEF Atomic!RemovePodSandbox
<1>4. CASE SandboxRemoved(i) /\ Replies(c, "OK", {})
  <2>1. Atomic!Answer(c, "OK", {}) BY <1>4, AtomicAnswer
  <2>2. Atomic!Children(i) = {}
    BY <1>4 DEF Answering, SeenIs, SandboxRemoved, Atomic!Children
  <2>3. Seen'[2] = Seen[2] /\ Seen'[3] = Seen[3]
    BY <1>4 DEF Answering, SeenIs, SandboxRemoved, ContainersKept, ImagesKept,
       store
  <2>4. [k \in DOMAIN Seen'[1] |-> Seen'[1][k].p]
          = Atomic!Without([k \in DOMAIN Seen[1] |-> Seen[1][k].p], i)
    BY <1>4 DEF Answering, SeenIs, SandboxRemoved, KeptBut, Atomic!Without, store
  <2> HIDE DEF Seen
  <2> QED
    BY <1>1, <1>2, <2>1, <2>2, <2>3, <2>4 DEF Atomic!RemovePodSandbox
<1> QED BY <1>3, <1>4 DEF RemovedSandbox

LEMMA AtomicCreate ==
  ASSUME NEW c \in Callers, Answering(c, "called"),
         req[c].op = "CreateContainer", Created(c)
  PROVE  Atomic!CreateContainer(c)
<1> DEFINE i == req[c].id
           n == req[c].img
<1>1. Atomic!Asked(c, "CreateContainer") BY DEF Answering, Atomic!Asked
<1>2. i \in DOMAIN Seen[1] BY DEF Answering, SeenIs, Created
<1>3. CASE n \notin DOMAIN before[3] /\ Untouched /\ Replies(c, "NotFound", {})
  <2>1. Atomic!Refuse(c, "NotFound") BY <1>3, AtomicRefuse
  <2>2. n \notin DOMAIN Seen[3] BY <1>3 DEF Answering, SeenIs
  <2> HIDE DEF Seen
  <2> QED BY <1>1, <1>2, <2>1, <2>2 DEF Atomic!CreateContainer
<1>4. ASSUME n \in DOMAIN before[3], NEW k \in ContainerIds,
             \/ k \in DOMAIN before[2] /\ Untouched
                /\ Replies(c, "AlreadyExists", {})
             \/ ContainerMade(k, i) /\ Replies(c, "OK", {})
      PROVE  Atomic!CreateContainer(c)
  <2>1. n \in DOMAIN Seen[3] BY <1>4 DEF Answering, SeenIs
  <2>2. CASE k \in DOMAIN before[2] /\ Untouched
             /\ Replies(c, "AlreadyExists", {})
    <3>1. Atomic!Refuse(c, "AlreadyExists") BY <2>2, AtomicRefuse
    <3>2. k \in DOMAIN Seen[2] BY <2>2 DEF Answering, SeenIs
    <3> HIDE DEF Seen
    <3> QED BY <1>1, <1>2, <2>1, <3>1, <3>2 DEF Atomic!CreateContainer
  <2>3. CASE ContainerMade(k, i) /\ Replies(c, "OK", {})
    <3>1. Atomic!Answer(c, "OK", {}) BY <2>3, AtomicAnswer
    <3>2. /\ k \notin DOMAIN Seen[2]
          /\ Seen'[1] = Seen[1] /\ Seen'[3] = Seen[3]
      BY <2>3 DEF Answering, SeenIs, ContainerMade, SandboxesKept, ImagesKept,
         store
    <3>3. [x \in DOMAIN Seen'[2] |->
             [sb |-> Seen'[2][x].sb, state |-> Seen'[2][x].p]]
            = Atomic!Set([x \in DOMAIN Seen[2] |->
                            [sb |-> Seen[2][x].sb, state |-> Seen[2][x].p]],
                         k, [sb |-> i, state |-> "CREATED"])
      BY <2>3 DEF Answering, SeenIs, ContainerMade, KeptBut, Atomic!Set, store
    <3> HIDE DEF Seen
    <3> QED
      BY <1>1, <1>2, <1>4, <2>1, <3>1, <3>2, <3>3 DEF Atomic!CreateContainer
  <2> QED BY <1>4, <2>2, <2>3
<1> QED BY <1>3, <1>4 DEF Created

LEMMA AtomicSet ==
  ASSUME NEW c \in Callers, Answering(c, "called"), NEW op, NEW state,
         req[c].op = op, ContainerSet(req[c].id, state), Replies(c, "OK", {})
  PROVE  Atomic!SetContainer(c, op, state)
<1> DEFINE i == req[c].id
<1>1. Atomic!Asked(c, op) BY DEF Answering, Atomic!Asked
<1>2. Atomic!Answer(c, "OK", {}) BY AtomicAnswer
<1>3. /\ i \in DOMAIN Seen[2]
      /\ Seen'[1] = Seen[1] /\ Seen'[3] = Seen[3]
  BY DEF Answering, SeenIs, ContainerSet, SandboxesKept, ImagesKept, store
<1> DEFINE old == [k \in DOMAIN Seen[2] |->
                     [sb |-> Seen[2][k].sb, state |-> Seen[2][k].p]]
           new == [k \in DOMAIN Seen'[2] |->
                     [sb |-> Seen'[2][k].sb, state |-> Seen'[2][k].p]]
<1>4. new = [old EXCEPT ![i].state = state]
  <2>1. DOMAIN new = DOMAIN old /\ i \in DOMAIN old
    BY DEF Answering, SeenIs, ContainerSet, store
  <2>2. \A k \in DOMAIN old \ {i} : new[k] = old[k]
    BY DEF Answering, SeenIs, ContainerSet, KeptBut, store
  <2>3. new[i] = [old[i] EXCEPT !.state = state]
    BY DEF Answering, SeenIs, ContainerSet, store
  <2>4. old = [k \in DOMAIN old |-> old[k]] /\ new = [k \in DOMAIN new |-> new[k]]
    OBVIOUS
  <2> HIDE DEF old, new
  <2> QED BY <2>1, <2>2, <2>3, <2>4
<1> HIDE DEF Seen
<1> QED BY <1>1, <1>2, <1>3, <1>4 DEF Atomic!SetContainer

LEMMA AtomicRemoveContainer ==
  ASSUME NEW c \in Callers, Answering(c, "called"),
         req[c].op = "RemoveContainer", ContainerRemoved(req[c].id),
         Replies(c, "OK", {})
  PROVE  Atomic!RemoveContainer(c)
<1> DEFINE i == req[c].id
<1>1. Atomic!Asked(c, "RemoveContainer") BY DEF Answering, Atomic!Asked
<1>2. Atomic!Answer(c, "OK", {}) BY AtomicAnswer
<1>3. /\ i \in DOMAIN Seen[2]
      /\ Seen'[1] = Seen[1] /\ Seen'[3] = Seen[3]
  BY DEF Answering, SeenIs, ContainerRemoved, SandboxesKept, ImagesKept, store
<1>4. [x \in DOMAIN Seen'[2] |->
         [sb |-> Seen'[2][x].sb, state |-> Seen'[2][x].p]]
        = Atomic!Without([x \in DOMAIN Seen[2] |->
                            [sb |-> Seen[2][x].sb, state |-> Seen[2][x].p]], i)
  BY DEF Answering, SeenIs, ContainerRemoved, KeptBut, Atomic!Without, store
<1> HIDE DEF Seen
<1> QED BY <1>1, <1>2, <1>3, <1>4 DEF Atomic!RemoveContainer

LEMMA AtomicRemoveImage ==
  ASSUME NEW c \in Callers, Answering(c, "called"),
         req[c].op = "RemoveImage", ImageRemoved(req[c].img),
         Replies(c, "OK", {})
  PROVE  Atomic!RemoveImage(c)
<1>1. Atomic!Asked(c, "RemoveImage") BY DEF Answering, Atomic!Asked
<1>2. Atomic!Answer(c, "OK", {}) BY AtomicAnswer
<1>3. /\ DOMAIN Seen'[3] = DOMAIN Seen[3] \ {req[c].img}
      /\ Seen'[1] = Seen[1] /\ Seen'[2] = Seen[2]
  BY DEF Answering, SeenIs, ImageRemoved, SandboxesKept, ContainersKept, store
<1> HIDE DEF Seen
<1> QED BY <1>1, <1>2, <1>3 DEF Atomic!RemoveImage

LEMMA AtomicMissing ==
  ASSUME NEW c \in Callers, Answering(c, "called"), Missing(c)
  PROVE  Atomic!NotFound(c)
<1>1. Atomic!Refuse(c, "NotFound") BY AtomicRefuse DEF Missing
<1>2. \A op : req[c].op = op => Atomic!Asked(c, op)
  BY DEF Answering, Atomic!Asked
<1>3. DOMAIN Seen[1] = DOMAIN before[1] /\ DOMAIN Seen[2] = DOMAIN before[2]
  BY DEF Answering, SeenIs
<1> HIDE DEF Seen
<1> QED BY <1>1, <1>2, <1>3 DEF Missing, Atomic!NotFound

LEMMA AtomicRead ==
  ASSUME NEW c \in Callers, Answering(c, "called"), ReadDone(c)
  PROVE  Atomic!Read(c)
<1> DEFINE i == req[c].id
           n == req[c].img
<1>1. \A op : req[c].op = op => Atomic!Asked(c, op)
  BY DEF Answering, Atomic!Asked
<1>2. Seen'[1] = Seen[1] /\ Seen'[2] = Seen[2] /\ Seen'[3] = Seen[3]
  BY DEF Answering, SeenIs, ReadDone, Untouched, SandboxesKept, ContainersKept,
     ImagesKept, store
<1>3. Seen[1] = before[1] /\ Seen[2] = before[2] /\ Seen[3] = before[3]
  BY DEF Answering, SeenIs
<1>4. CASE /\ req[c].op = "PodSandboxStatus" /\ i \in DOMAIN before[1]
           /\ Replies(c, "OK", {<<i, before[1][i].p>>})
  <2>1. Atomic!Answer(c, "OK", {<<i, before[1][i].p>>})
    BY <1>4, AtomicAnswer
  <2> HIDE DEF Seen
  <2> QED BY <1>1, <1>2, <1>3, <1>4, <2>1 DEF Atomic!Read
<1>5. CASE /\ req[c].op = "ContainerStatus" /\ i \in DOMAIN before[2]
           /\ Replies(c, "OK", {<<i, before[2][i].p>>})
  <2>1. Atomic!Answer(c, "OK", {<<i, before[2][i].p>>})
    BY <1>5, AtomicAnswer
  <2> HIDE DEF Seen
  <2> QED BY <1>1, <1>2, <1>3, <1>5, <2>1 DEF Atomic!Read
<1>6. CASE req[c].op = "ListPodSandbox" /\ Replies(c, "OK", StatesOf(before[1]))
  <2>1. Atomic!Answer(c, "OK", StatesOf(before[1])) BY <1>6, AtomicAnswer
  <2> DEFINE view == [k \in DOMAIN Seen[1] |-> Seen[1][k].p]
  <2>2. StatesOf(before[1]) = {<<k, view[k]>> : k \in DOMAIN view}
    BY <1>3 DEF StatesOf
  <2> HIDE DEF Seen
  <2> QED BY <1>1, <1>2, <1>6, <2>1, <2>2 DEF Atomic!Read
<1>7. CASE req[c].op = "ListContainers" /\ Replies(c, "OK", StatesOf(before[2]))
  <2>1. Atomic!Answer(c, "OK", StatesOf(before[2])) BY <1>7, AtomicAnswer
  <2> DEFINE view == [k \in DOMAIN Seen[2] |->
                        [sb |-> Seen[2][k].sb, state |-> Seen[2][k].p]]
  <2>2. StatesOf(before[2]) = {<<k, view[k].state>> : k \in DOMAIN view}
    BY <1>3 DEF StatesOf
  <2> HIDE DEF Seen
  <2> QED BY <1>1, <1>2, <1>7, <2>1, <2>2 DEF Atomic!Read
<1>8. CASE /\ req[c].op = "ImageStatus"
           /\ Replies(c, "OK", IF n \in DOMAIN before[3]
                                 THEN {<<n, "present">>} ELSE {})
  <2>1. Atomic!Answer(c, "OK", IF n \in DOMAIN before[3]
                                 THEN {<<n, "present">>} ELSE {})
    BY <1>8, AtomicAnswer
  <2> HIDE DEF Seen
  <2> QED BY <1>1, <1>2, <1>3, <1>8, <2>1 DEF Atomic!Read
<1> QED BY <1>4, <1>5, <1>6, <1>7, <1>8 DEF ReadDone

LEMMA AtomicUnlock ==
  ASSUME TypeInv, LockInv, RefInv, NEW c \in Callers, Unlock(c), Remembers
  PROVE  Atomic!Serve(c)
<1>1. /\ pc[c] = "unlock" /\ mu = c /\ mu' = NoCaller /\ mu # NoCaller
      /\ pc' = [pc EXCEPT ![c] = "done"] /\ Served(c)
      /\ UNCHANGED <<req, id, reply, store>>
  BY ConstantsOK
  DEF Unlock, Goto, LockInv, LockHeld, Inside, RefInv, Progress
<1>2. SeenIs(before[1], before[2], before[3]) BY <1>1, SeenStore
<1>3. SeenIs(sandboxes, containers, images)' BY <1>1 DEF Seen, SeenIs, store
<1>4. /\ Phase(c)' = "answered" /\ Given(c)' = reply[c]
      /\ \A d \in Callers \ {c} : Phase(d)' = Phase(d) /\ Given(d)' = Given(d)
  BY <1>1 DEF Phase, Given, At, TypeInv, TypeOK
<1>5. CASE req[c].op = "PullImage"
  <2>1. Phase(c) = "committed" BY <1>1, <1>5 DEF Phase, At
  <2>2. Answering(c, "committed") BY <1>1, <1>2, <1>3, <1>4, <2>1 DEF Answering
  <2>3. Untouched /\ PullAnswered(c)
    BY <1>1, <1>5 DEF Served, Missing, ReadDone
  <2>4. PICK code \in {"OK", "Canceled"} : Replies(c, code, {})
    BY <2>3 DEF PullAnswered
  <2>5. Atomic!Refuse(c, code) BY <2>2, <2>3, <2>4, AtomicRefuse
  <2>6. Atomic!AnswerPull(c) BY <2>1, <2>5 DEF Atomic!AnswerPull
  <2> QED BY <1>1, <2>6 DEF Atomic!Serve
<1>6. CASE req[c].op # "PullImage"
  <2>1. Phase(c) = "called" BY <1>1, <1>6 DEF Phase, At
  <2>2. Answering(c, "called") BY <1>1, <1>2, <1>3, <1>4, <2>1 DEF Answering
  <2>3. \/ Atomic!RunPodSandbox(c) \/ Atomic!StopPodSandbox(c)
        \/ Atomic!RemovePodSandbox(c) \/ Atomic!CreateContainer(c)
        \/ Atomic!SetContainer(c, "StartContainer", "RUNNING")
        \/ Atomic!SetContainer(c, "StopContainer", "EXITED")
        \/ Atomic!RemoveContainer(c) \/ Atomic!RemoveImage(c)
        \/ Atomic!NotFound(c) \/ Atomic!Read(c)
    BY <1>1, <1>6, <2>2, AtomicRun, AtomicStop, AtomicRemoveSandbox,
       AtomicCreate, AtomicSet, AtomicRemoveContainer, AtomicRemoveImage,
       AtomicMissing, AtomicRead
    DEF Served
  <2> QED BY <1>1, <2>3 DEF Atomic!Serve
<1> QED BY <1>5, <1>6

\* A pull takes effect when PullImage gives b.mu up for the first time.
LEMMA AtomicPull ==
  ASSUME TypeInv, LockInv, RefInv, NEW c \in Callers, Release(c), Remembers
  PROVE  Atomic!Serve(c)
<1>1. /\ pc[c] = "release" /\ mu = c /\ mu' = NoCaller /\ mu # NoCaller
      /\ pc' = [pc EXCEPT ![c] = "select"] /\ ImagePulled(req[c].img)
      /\ req[c].op = "PullImage" /\ UNCHANGED <<req, id, reply, store>>
  BY ConstantsOK
  DEF Release, Goto, LockInv, LockHeld, Inside, RefInv, Progress, TypeInv,
      HandlerTyped
<1>2. SeenIs(before[1], before[2], before[3]) BY <1>1, SeenStore
<1>3. SeenIs(sandboxes, containers, images)' BY <1>1 DEF Seen, SeenIs, store
<1>4. /\ Phase(c) = "called" /\ Phase(c)' = "committed"
      /\ \A d \in Callers \ {c} : Phase(d)' = Phase(d)
      /\ \A d \in Callers : Given(d)' = Given(d)
  BY <1>1 DEF Phase, Given, At, TypeInv, TypeOK
<1>5. [d \in Callers |-> Phase(d)']
        = [[d \in Callers |-> Phase(d)] EXCEPT ![c] = "committed"]
  BY <1>4
<1>6. [d \in Callers |-> Given(d)'] = [d \in Callers |-> Given(d)]
  BY <1>4
<1>7. /\ DOMAIN Seen'[3] = DOMAIN Seen[3] \cup {req[c].img}
      /\ Seen'[1] = Seen[1] /\ Seen'[2] = Seen[2]
  BY <1>1, <1>2, <1>3
  DEF SeenIs, ImagePulled, SandboxesKept, ContainersKept, store
<1>8. Atomic!Asked(c, "PullImage") BY <1>1, <1>4 DEF Atomic!Asked
<1>9. Atomic!PullImage(c)
  BY <1>5, <1>6, <1>7, <1>8 DEF Atomic!PullImage, Atomic!To
<1> QED BY <1>1, <1>9 DEF Atomic!Serve

\* What CriAtomic sees does not change.
Hidden ==
  /\ \A d \in Callers : Phase(d)' = Phase(d) /\ Given(d)' = Given(d)
  /\ req' = req
  /\ Seen'[1] = Seen[1] /\ Seen'[2] = Seen[2] /\ Seen'[3] = Seen[3]

LEMMA HiddenStutters == Hidden => UNCHANGED Atomic!vars
<1> SUFFICES ASSUME Hidden PROVE UNCHANGED Atomic!vars
  OBVIOUS
<1>1. [d \in Callers |-> Phase(d)'] = [d \in Callers |-> Phase(d)]
  BY DEF Hidden
<1>2. [d \in Callers |-> Given(d)'] = [d \in Callers |-> Given(d)]
  BY DEF Hidden
<1> HIDE DEF Seen
<1> QED BY <1>1, <1>2 DEF Hidden, Atomic!vars

\* Work inside b.mu is hidden.
LEMMA HiddenInside ==
  ASSUME TypeInv, LockInv, RefInv, NEW c \in Callers, Remembers,
         Check(c) \/ Change(c) \/ Enqueue(c) \/ Woken(c)
  PROVE  Hidden
<1>1. /\ pc[c] \in Work \cup {"enqueue", "wait"}
      /\ UNCHANGED <<mu, req>>
      /\ \A d \in Callers \ {c} : pc'[d] = pc[d] /\ reply'[d] = reply[d]
      /\ pc'[c] \in Work \cup {"enqueue", "wait", "release", "unlock"}
      /\ pc'[c] = "unlock" => req[c].op # "PullImage"
  <2> USE DEF Work, At, Goto, Return, TypeInv, TypeOK
  <2>1. CASE Change(c)
    BY <2>1 DEF Change, AddSandbox, RemoveSandbox, AddContainer,
       RemoveContainer, RemoveImage
  <2>2. CASE Check(c)
    BY <2>2 DEF Check, RunPodSandbox, StopPodSandbox, RemovePodSandbox,
       CheckChildren, CreateContainer, CheckImage, CheckContainer,
       StartOrStopContainer, CheckRemoveContainer, PullImage, PodSandboxStatus,
       ContainerStatus, Status, ImageStatus, ListPodSandbox, ListContainers, List
  <2>3. CASE Enqueue(c) BY <2>3 DEF Enqueue
  <2>4. CASE Woken(c) BY <2>4 DEF Woken
  <2> QED BY <2>1, <2>2, <2>3, <2>4
<1>2. mu = c /\ mu # NoCaller
  BY <1>1, ConstantsOK DEF LockInv, LockHeld, Inside, Work
<1>3. Seen' = Seen BY <1>1, <1>2 DEF Seen, Remembers
<1>4. \A d \in Callers : Phase(d)' = Phase(d) /\ Given(d)' = Given(d)
  BY <1>1 DEF Phase, Given, At, Work
<1> QED BY <1>1, <1>3, <1>4 DEF Hidden

\* So are taking b.mu, and what happens outside it.
LEMMA HiddenFrame ==
  ASSUME TypeInv, LockInv, NEW c \in Callers, Remembers,
         Acquire(c) \/ Relock(c) \/ Select(c)
  PROVE  Hidden
<1>1. /\ req' = req /\ UNCHANGED store
      /\ \A d \in Callers \ {c} : pc'[d] = pc[d] /\ reply'[d] = reply[d]
  BY DEF Acquire, Relock, Select, Goto, TypeInv, TypeOK
<1>2. Seen' = Seen
  <2>1. CASE Acquire(c) \/ Relock(c)
    BY <2>1, ConstantsOK DEF Acquire, Relock, Seen, Remembers
  <2>2. CASE Select(c)
    BY <2>2 DEF Select, Seen, Remembers
  <2> QED BY <2>1, <2>2
<1>3. Phase(c)' = Phase(c) /\ Given(c)' = Given(c)
  BY DEF Acquire, Relock, Select, Goto, Phase, Given, At, TypeInv, TypeOK,
     HandlerTyped
<1>4. \A d \in Callers \ {c} : Phase(d)' = Phase(d) /\ Given(d)' = Given(d)
  BY <1>1 DEF Phase, Given, At
<1> QED BY <1>1, <1>2, <1>3, <1>4 DEF Hidden

LEMMA HiddenSimulator ==
  ASSUME LockInv, Remembers, Simulator
  PROVE  Hidden
<1>1. UNCHANGED <<mu, rpc>>
  BY DEF Simulator, Callback, Tick, Begin, Finish, CallbackGet, CallbackPut,
     CallbackPull, CallbackList, CallbackExit, CallbackListed
<1>2. mu = NoCaller => UNCHANGED store
  <2>1. CASE simpc \in CallbackSteps BY <2>1, CallbackCaller, ConstantsOK
  <2>2. CASE simpc \notin CallbackSteps
    BY <2>2 DEF Simulator, Callback, Tick, Begin, Finish, CallbackGet,
       CallbackPut, CallbackPull, CallbackList, CallbackExit, CallbackListed,
       CallbackSteps
  <2> QED BY <2>1, <2>2
<1>3. Seen' = Seen BY <1>1, <1>2 DEF Seen, Remembers
<1>4. \A d \in Callers : Phase(d)' = Phase(d) /\ Given(d)' = Given(d)
  BY <1>1 DEF rpc, Phase, Given, At
<1> QED BY <1>1, <1>3, <1>4 DEF Hidden, rpc

LEMMA AtomicCall ==
  ASSUME TypeInv, NEW c \in Callers, NEW r \in Requests, Call(c, r), Remembers
  PROVE  Atomic!Call(c, r)
<1>1. /\ Phase(c) = "idle" /\ Phase(c)' = "called"
      /\ \A d \in Callers \ {c} : Phase(d)' = Phase(d)
      /\ \A d \in Callers : Given(d)' = Given(d)
      /\ req' = [req EXCEPT ![c] = r]
  BY DEF Call, Goto, Phase, Given, At, TypeInv, TypeOK
<1>2. Seen' = Seen BY DEF Call, Seen, Remembers
<1>3. [d \in Callers |-> Phase(d)']
        = [[d \in Callers |-> Phase(d)] EXCEPT ![c] = "called"]
  BY <1>1
<1>4. [d \in Callers |-> Given(d)'] = [d \in Callers |-> Given(d)]
  BY <1>1
<1> HIDE DEF Seen
<1> QED BY <1>1, <1>2, <1>3, <1>4 DEF Atomic!Call, Atomic!To

LEMMA AtomicCollect ==
  ASSUME TypeInv, NEW c \in Callers, Collect(c), Remembers
  PROVE  Atomic!Collect(c)
<1>1. /\ Phase(c) = "answered" /\ Phase(c)' = "idle" /\ Given(c)' = NoReply
      /\ \A d \in Callers \ {c} : Phase(d)' = Phase(d) /\ Given(d)' = Given(d)
      /\ req' = [req EXCEPT ![c] = NoReq]
  BY DEF Collect, Goto, Phase, Given, At, TypeInv, TypeOK
<1>2. Seen' = Seen BY DEF Collect, Seen, Remembers
<1>3. [d \in Callers |-> Phase(d)']
        = [[d \in Callers |-> Phase(d)] EXCEPT ![c] = "idle"]
  BY <1>1
<1>4. [d \in Callers |-> Given(d)']
        = [[d \in Callers |-> Given(d)] EXCEPT ![c] = NoReply]
  BY <1>1
<1> HIDE DEF Seen
<1> QED BY <1>1, <1>2, <1>3, <1>4 DEF Atomic!Collect, Atomic!To

LEMMA AtomicInit == HInit => Atomic!Init
<1> SUFFICES ASSUME HInit PROVE Atomic!Init
  OBVIOUS
<1>1. /\ \A c \in Callers : Phase(c) = "idle" /\ Given(c) = NoReply
      /\ req = [c \in Callers |-> NoReq]
      /\ DOMAIN Seen[1] = {} /\ DOMAIN Seen[2] = {} /\ DOMAIN Seen[3] = {}
  BY DEF HInit, Init, Phase, Given, Seen, store, At
<1> HIDE DEF Seen
<1> QED BY <1>1 DEF Atomic!Init

LEMMA AtomicStep ==
  TypeInv /\ LockInv /\ RefInv /\ [HNext]_hvars => [Atomic!Next]_(Atomic!vars)
<1> SUFFICES ASSUME TypeInv, LockInv, RefInv, [HNext]_hvars
             PROVE  Atomic!Next \/ UNCHANGED Atomic!vars
  OBVIOUS
<1>1. CASE UNCHANGED hvars
  <2>1. Hidden
    BY <1>1 DEF hvars, vars, rpc, store, Hidden, Phase, Given, At, Seen
  <2> QED BY <2>1, HiddenStutters
<1>2. CASE Simulator /\ Remembers BY <1>2, HiddenSimulator, HiddenStutters
<1>3. ASSUME NEW c \in Callers, Remembers,
             \/ \E r \in Requests : Call(c, r)
             \/ Acquire(c) \/ Handler(c) \/ Relock(c) \/ Collect(c)
      PROVE  Atomic!Next \/ UNCHANGED Atomic!vars
  <2>1. CASE \E r \in Requests : Call(c, r)
    BY <1>3, <2>1, AtomicCall DEF Atomic!Next
  <2>2. CASE Collect(c) BY <1>3, <2>2, AtomicCollect DEF Atomic!Next
  <2>3. CASE Unlock(c) BY <1>3, <2>3, AtomicUnlock DEF Atomic!Next
  <2>4. CASE Release(c) BY <1>3, <2>4, AtomicPull DEF Atomic!Next
  <2>5. CASE Acquire(c) \/ Relock(c) \/ Select(c)
    BY <1>3, <2>5, HiddenFrame, HiddenStutters
  <2>6. CASE Check(c) \/ Change(c) \/ Enqueue(c) \/ Woken(c)
    BY <1>3, <2>6, HiddenInside, HiddenStutters
  <2> QED
    BY <1>3, <2>1, <2>2, <2>3, <2>4, <2>5, <2>6 DEF Handler, Check, Change
<1> QED BY <1>1, <1>2, <1>3 DEF HNext, Next, Remembers

\* Every call of the runtime takes effect at one instant, for requests that
\* name what they are about: CriRuntime implements CriAtomic.
THEOREM RuntimeIsLinearizable ==
  ASSUME AllNamed
  PROVE  HSpec => Linearizable
<1>1. HInit => Init BY DEF HInit
<1>2. [HNext]_hvars => [Next]_vars BY DEF HNext, hvars
<1>3. TypeInv /\ LockInv /\ StoreInv /\ AckInv /\ RefInv /\ [HNext]_hvars
        => RefInv'
  BY RefStep
<1>4. StoreInv /\ TypeInv /\ LockInv /\ [Next]_vars => StoreInv'
  BY NamedAll, StoreStep
<1> QED
  BY <1>1, <1>2, <1>3, <1>4, RefInit, LockInit, LockStep, TypeInit, TypeStep,
     StoreInit, AckInit, AckStep, AtomicInit, AtomicStep, PTL
  DEF HSpec, Linearizable, Atomic!Spec
=============================================================================
