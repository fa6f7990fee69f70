---------------------------- MODULE SandboxBoot ----------------------------
(***************************************************************************)
(* Starting a sandbox (pkg/sandbox/sandbox.go): Sandbox.Run in the parent  *)
(* starts a child process and talks to it over the fdchan socket; run() in *)
(* the child answers two requests, sets the sandbox up and executes the    *)
(* configured command.                                                     *)
(*                                                                         *)
(* The socket is FdMux with one requester (Run) and one handler (run).     *)
(* "alive" means that the child runs this program; executing the command   *)
(* ends that, but not the process, which keeps the socket: descriptor 3 is *)
(* inherited.  "cconn" stays true until the process is gone.               *)
(***************************************************************************)
EXTENDS FdMux

CONSTANTS
  Payload,      \* types of the configured payload items
  HasCommand    \* config.Command is not empty

\* "other" is any type that the switch on it does not know.
ASSUME BootConstants ==
  /\ Requesters # {} /\ Handlers # {}
  /\ {"proxy-listener", "proxy-listener-fd", "complete", "completed"}
       \subseteq Data
  /\ Payload \in Seq({"bind", "write", "other"})
  /\ HasCommand \in BOOLEAN

VARIABLES
  ppc,          \* where Sandbox.Run is
  ret,          \* what it returned: "none", "nil", "error" or "unexpected"
  proxy,        \* the egress proxy serves the sandbox's listener
  cpc,          \* where run() is
  done,         \* set-up steps that succeeded, in order
  left,         \* set-up steps still to come
  lastError     \* s.lastError # nil

boot == <<ppc, ret, proxy, cpc, done, left, lastError>>
mux == vars
bootVars == <<mux, boot>>

Run == CHOOSE r \in Requesters : TRUE
Child == CHOOSE h \in Handlers : TRUE

\* What run() does between the first mount and the check of lastError.
Steps ==
  <<"hostname", "proc", "cgroup2", "dev", "devpts", "tmp">>
  \o Payload \o <<"/etc", "lo", "pivot">>

BootInit ==
  /\ InitWith(FALSE)
  /\ ppc = "start" /\ ret = "none" /\ proxy = FALSE
  /\ cpc = "none" /\ done = <<>> /\ left = Steps /\ lastError = FALSE

-----------------------------------------------------------------------------
(* Sandbox.Run.                                                            *)

RunReturn(r) == ppc' = "returned" /\ ret' = r

StartProcess ==
  /\ ppc = "start"
  /\ \/ /\ RunReturn("error")
        /\ UNCHANGED <<cpc, alive, cconn>>
     \/ /\ ppc' = "listener" /\ cpc' = "new"
        /\ alive' = TRUE /\ cconn' = TRUE
        /\ UNCHANGED ret
  /\ UNCHANGED <<parent, pend, down, up, cclose, child,
                 proxy, done, left, lastError>>

AskListener ==
  /\ ppc = "listener"
  /\ Request(Run, "proxy-listener")
  /\ ppc' = "listening"
  /\ UNCHANGED <<ret, proxy, cpc, done, left, lastError>>

\* sandboxProxyListener after its Request; net.FileListener may fail.
GotListener ==
  /\ ppc = "listening"
  /\ \/ rpc[Run] = "failed" /\ RunReturn("error") /\ UNCHANGED proxy
     \/ /\ rpc[Run] = "answered"
        /\ got[Run] # "proxy-listener-fd"
        /\ RunReturn("unexpected")
        /\ UNCHANGED proxy
     \/ /\ rpc[Run] = "answered"
        /\ got[Run] = "proxy-listener-fd"
        /\ \/ RunReturn("error") /\ UNCHANGED proxy
           \/ ppc' = "complete" /\ proxy' = TRUE /\ UNCHANGED ret
  /\ UNCHANGED <<mux, cpc, done, left, lastError>>

AskComplete ==
  /\ ppc = "complete"
  /\ Request(Run, "complete")
  /\ ppc' = "completing"
  /\ UNCHANGED <<ret, proxy, cpc, done, left, lastError>>

GotCompleted ==
  /\ ppc = "completing"
  /\ \/ rpc[Run] = "failed" /\ RunReturn("error")
     \/ /\ rpc[Run] = "answered"
        /\ got[Run] # "completed"
        /\ RunReturn("unexpected")
     \/ /\ rpc[Run] = "answered"
        /\ got[Run] = "completed"
        /\ ppc' = "wait"
        /\ UNCHANGED ret
  /\ UNCHANGED <<mux, proxy, cpc, done, left, lastError>>

\* proc.Wait: the exit status is logged, not returned.
WaitProcess ==
  /\ ppc = "wait"
  /\ cpc = "exited"
  /\ RunReturn("nil")
  /\ UNCHANGED <<mux, proxy, cpc, done, left, lastError>>

-----------------------------------------------------------------------------
(* run() in the child.                                                     *)

\* An error makes MustInit exit; a signal may end the process at any time.
Exit ==
  /\ cpc' = "exited"
  /\ alive' = FALSE /\ cconn' = FALSE
  /\ UNCHANGED <<parent, pend, down, up, cclose, child,
                 ppc, ret, proxy, done, left, lastError>>

Killed == cpc \notin {"none", "exited"} /\ Exit

NewChild ==
  /\ cpc = "new"
  /\ \/ Exit
     \/ cpc' = "receive" /\ UNCHANGED <<mux, ppc, ret, proxy,
                                        done, left, lastError>>

Receive ==
  /\ cpc = "receive"
  /\ HandleRequest(Child)
  /\ cpc' = IF hpc'[Child] = "stopped" THEN "failed" ELSE "serve"
  /\ UNCHANGED <<ppc, ret, proxy, done, left, lastError>>

\* Faulty variant: every request is answered like the first.
Serve_Ping ==
  /\ cpc = "serve"
  /\ Respond(Child, "completed")
  /\ cpc' = IF hreq[Child].data = "complete" THEN "mount" ELSE "served"
  /\ UNCHANGED <<ppc, ret, proxy, done, left, lastError>>

\* The responder fails on a closed connection.
Responded(label) == cpc' = IF cconn /\ pconn THEN label ELSE "failed"

\* The switch on the command; startProxy may fail to listen.
Serve ==
  /\ cpc = "serve"
  /\ \/ /\ hreq[Child].data = "proxy-listener"
        /\ \/ cpc' = "failed" /\ UNCHANGED mux
           \/ Respond(Child, "proxy-listener-fd") /\ Responded("served")
     \/ /\ hreq[Child].data = "complete"
        /\ Respond(Child, "completed")
        /\ Responded("mount")
  /\ UNCHANGED <<ppc, ret, proxy, done, left, lastError>>

Again ==
  /\ cpc = "served"
  /\ Handled(Child)
  /\ cpc' = "receive"
  /\ UNCHANGED <<ppc, ret, proxy, done, left, lastError>>

\* The tmpfs that becomes the root.
MountRoot ==
  /\ cpc = "mount"
  /\ cpc' \in {"setup", "failed"}
  /\ UNCHANGED <<mux, ppc, ret, proxy, done, left, lastError>>

\* Faulty variant: a step clears the error of the one before.
Step_Overwrites ==
  /\ cpc = "setup" /\ left # <<>>
  /\ \/ lastError' = TRUE /\ UNCHANGED done
     \/ lastError' = FALSE /\ done' = Append(done, Head(left))
  /\ left' = Tail(left)
  /\ UNCHANGED <<mux, ppc, ret, proxy, cpc>>

\* setHostname, mount, bind, write, linkUp, pivot: nothing if a step before
\* failed, otherwise success or an error that stays.  A payload item of a
\* type the switch does not know is passed over.
Step ==
  /\ cpc = "setup" /\ left # <<>>
  /\ \/ lastError /\ UNCHANGED <<done, lastError>>
     \/ ~lastError /\ Head(left) # "other" /\ lastError' = TRUE /\ UNCHANGED done
     \/ ~lastError /\ done' = Append(done, Head(left)) /\ UNCHANGED lastError
  /\ left' = Tail(left)
  /\ UNCHANGED <<mux, ppc, ret, proxy, cpc>>

\* The check of lastError, then the command, which replaces the program.
Exec ==
  /\ cpc = "setup" /\ left = <<>>
  /\ \/ cpc' = "failed" /\ UNCHANGED alive
     \/ ~lastError /\ HasCommand /\ cpc' = "command" /\ alive' = FALSE
  /\ UNCHANGED <<parent, pend, down, up, cconn, cclose, child,
                 ppc, ret, proxy, done, left, lastError>>

Fail == cpc = "failed" /\ Exit
CommandEnds == cpc = "command" /\ Exit

-----------------------------------------------------------------------------
RunMain ==
  \/ StartProcess \/ AskListener \/ GotListener
  \/ AskComplete \/ GotCompleted \/ WaitProcess

ChildMain ==
  \/ NewChild \/ Receive \/ Serve \/ Again \/ MountRoot \/ Step \/ Exec
  \/ Fail \/ CommandEnds

\* The goroutines of both multiplexers, and the parent's garbage collector.
Mux ==
  /\ Requester(Run) \/ ParentLoop \/ ChildLoop
  /\ UNCHANGED boot

CollectHandle == ppc # "start" /\ ReleaseHandle /\ UNCHANGED boot

BootNext == RunMain \/ ChildMain \/ Killed \/ Mux \/ CollectHandle

BootSpec == BootInit /\ [][BootNext]_bootVars

\* As in FdMux; and the command ends.
BootFairness ==
  /\ WF_bootVars(RunMain) /\ WF_bootVars(ChildMain)
  /\ WF_bootVars(Requester(Run) /\ UNCHANGED boot)
  /\ WF_bootVars(ParentLoop /\ UNCHANGED boot)
  /\ WF_bootVars(ChildLoop /\ UNCHANGED boot)
  /\ WF_bootVars(CollectHandle)

FairBootSpec == BootSpec /\ BootFairness

-----------------------------------------------------------------------------
\* Type invariant of what Run and run() add to FdMux; Run never meets a
\* response it does not expect.
BootTypeOK ==
  /\ TypeOK
  /\ ppc \in {"start", "listener", "listening", "complete", "completing",
              "wait", "returned"}
  /\ ret \in {"none", "nil", "error"}
  /\ proxy \in BOOLEAN /\ lastError \in BOOLEAN
  /\ cpc \in {"none", "new", "receive", "serve", "served", "mount", "setup",
              "command", "failed", "exited"}
  /\ \A s \in {done, left} : Frames(s) \subseteq Frames(Steps)

\* The command runs only in a sandbox whose every set-up step succeeded, in
\* order, and whose egress proxy is served by the parent.
CommandConfined == cpc = "command" => done = Steps /\ proxy

\* Once the process has started, Run returns: whatever fails in the child,
\* at whatever step, the parent does not wait for an answer for ever.
RunReturns == ppc = "listener" ~> ppc = "returned"
=============================================================================
