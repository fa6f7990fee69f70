--------------------------- MODULE MCSandboxBoot ---------------------------
(* SandboxBoot with one payload item of each kind. *)
EXTENDS SandboxBoot

MCPayload == <<"bind", "write", "other">>
=============================================================================
