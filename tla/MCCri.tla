-------------------------------- MODULE MCCri --------------------------------
(* Small instances of the container runtime for TLC. *)
EXTENDS CriRuntime, TLC

On(ops, ids) == [op : ops, id : ids, img : {NilImage}]
WithImage(ops, ids, specs) == [op : ops, id : ids, img : specs]

\* What a kubelet sends: every request names its object.
MCWrites ==
  On({"RunPodSandbox"}, Uids)
    \cup On({"StopPodSandbox", "RemovePodSandbox"}, SandboxIds)
    \cup WithImage({"CreateContainer"}, SandboxIds, Images)
    \cup On({"StartContainer", "StopContainer", "RemoveContainer"},
            ContainerIds)
    \cup WithImage({"PullImage", "RemoveImage"}, {EmptyId}, Images)

MCReads ==
  On({"PodSandboxStatus"}, SandboxIds)
    \cup On({"ContainerStatus"}, ContainerIds)
    \cup WithImage({"ImageStatus"}, {EmptyId}, Images)
    \cup On({"ListPodSandbox", "ListContainers"}, {EmptyId})

MCRequests == MCWrites \cup MCReads

\* The same calls with ids, names and specs left out.
MCUnnamed ==
  On({"RunPodSandbox"}, Uids \cup {EmptyId})
    \cup On({"StopPodSandbox", "RemovePodSandbox"}, SandboxKeys)
    \cup WithImage({"CreateContainer"}, SandboxKeys, ImageSpecs)
    \cup On({"StartContainer", "StopContainer", "RemoveContainer"},
            ContainerKeys)
    \cup WithImage({"PullImage", "RemoveImage"}, {EmptyId}, ImageSpecs)
    \cup MCReads

Symmetry ==
  Permutations(Callers) \cup Permutations(SandboxIds)
    \cup Permutations(ContainerIds)
=============================================================================
