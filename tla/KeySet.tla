------------------------------- MODULE KeySet -------------------------------
(***************************************************************************)
(* The key sets of a control plane and the plugins that use them           *)
(* (plugins.go): jwksRef, the KMS plugin and the JWT signer.               *)
(*                                                                         *)
(* ControlPlane.Init writes the two key sets one after the other, each     *)
(* only when it cannot be read.  The plugins are processes of their own:   *)
(* they read their key set once, keep it in memory and serve on an         *)
(* abstract socket, which one process at a time can hold.  The API server  *)
(* keeps what they have made: values sealed by the KMS plugin, tokens      *)
(* signed by the signer, and the public key it fetched last.  Any process  *)
(* may be killed between two steps, and a system call may fail.            *)
(***************************************************************************)
EXTENDS Naturals, Sequences

CONSTANTS
  Procs,       \* processes that run a plugin
  SetOf,       \* the key set each of them reads
  Keys,        \* bound: keys that are ever generated
  NoKey,       \* nothing in memory
  Absent,      \* no such file
  Empty,       \* a file created and not written
  MaxKills,    \* bound: processes that are killed
  MaxFaults    \* bound: system calls that fail

\* The order of the two Write calls in Init.
KeySets == <<"encryption", "serviceaccount">>
SetNames == {"encryption", "serviceaccount"}

ASSUME KeySetConstants ==
  /\ SetOf \in [Procs -> SetNames]
  /\ NoKey \notin Keys /\ Absent \notin Keys /\ Empty \notin Keys
  /\ Absent # Empty
  /\ MaxKills \in Nat /\ MaxFaults \in Nat

VARIABLES
  keyFile,          \* the file of each key set
  pc, idx,          \* where Init is, and in which of its Write calls
  jwk,              \* the key that Write has generated
  failed,           \* one of the Write calls has returned an error
  proc, jwks,       \* the plugin processes and the key each has read
  sealed,           \* keys that values in the API server's store need
  issued,           \* keys that tokens in use were signed with
  fetched,          \* the public key the API server verifies tokens with
  misread,          \* key sets that could not be opened though they exist
  kills, faults

disk == <<keyFile, misread>>
init == <<pc, idx, jwk, failed>>
plugins == <<proc, jwks>>
made == <<sealed, issued, fetched>>
vars == <<disk, init, plugins, made, kills, faults>>

Init ==
  /\ keyFile = [s \in SetNames |-> Absent]
  /\ pc = "down" /\ idx = 1 /\ jwk = NoKey /\ failed = FALSE
  /\ proc = [p \in Procs |-> "off"] /\ jwks = [p \in Procs |-> NoKey]
  /\ sealed = {} /\ issued = {} /\ fetched = NoKey
  /\ misread = {} /\ kills = 0 /\ faults = 0

InUse ==
  {keyFile[s] : s \in SetNames} \cup {jwks[p] : p \in Procs}
    \cup sealed \cup issued \cup {fetched, jwk}

\* rand.Read and ecdsa.GenerateKey: a key nobody has.
NewKey == CHOOSE k \in Keys \ InUse : TRUE

\* A system call fails.
Fault == faults < MaxFaults /\ faults' = faults + 1

-----------------------------------------------------------------------------
(* ControlPlane.Init *)

S == KeySets[idx]

Start ==
  /\ pc = "down"
  /\ pc' = "read" /\ idx' = 1 /\ failed' = FALSE
  /\ UNCHANGED <<disk, jwk, plugins, made, kills, faults>>

Generate ==
  /\ Keys \ InUse # {}
  /\ jwk' = NewKey
  /\ pc' = "open"
  /\ UNCHANGED idx

\* Faulty variant: the key set is renewed at every start.
ReadOrGenerate_Always ==
  /\ pc = "read" /\ idx <= Len(KeySets)
  /\ Generate
  /\ UNCHANGED <<misread, faults, keyFile, failed, plugins, made, kills>>

\* jwksRef.Write up to the new key.  A key set that can be read is left
\* alone.  Whatever error Read returns, a key is generated: for a missing
\* file, for one that does not decode, and for one that exists but could
\* not be opened just now.
ReadOrGenerate ==
  /\ pc = "read" /\ idx <= Len(KeySets)
  /\ \/ /\ keyFile[S] \in Keys
        /\ idx' = idx + 1
        /\ UNCHANGED <<misread, faults, pc, jwk>>
     \/ /\ keyFile[S] \notin Keys
        /\ Generate
        /\ UNCHANGED <<misread, faults>>
     \/ /\ keyFile[S] \in Keys
        /\ Fault
        /\ misread' = misread \cup {S}
        /\ Generate
  /\ UNCHANGED <<keyFile, failed, plugins, made, kills>>

\* Write returns an error: the next call is made all the same.
WriteFails ==
  /\ Fault
  /\ failed' = TRUE
  /\ pc' = "read" /\ idx' = idx + 1 /\ jwk' = NoKey
  /\ UNCHANGED keyFile

\* Faulty variant: the file must not exist yet (O_EXCL).
OpenFile_Excl ==
  /\ pc = "open"
  /\ \/ /\ keyFile[S] = Absent
        /\ pc' = "encode"
        /\ keyFile' = [keyFile EXCEPT ![S] = Empty]
        /\ UNCHANGED <<idx, jwk, failed, faults>>
     \/ /\ keyFile[S] # Absent
        /\ failed' = TRUE
        /\ pc' = "read" /\ idx' = idx + 1 /\ jwk' = NoKey
        /\ UNCHANGED <<keyFile, faults>>
     \/ WriteFails
  /\ UNCHANGED <<misread, plugins, made, kills>>

\* os.OpenFile without O_TRUNC: a new file is empty, an existing one keeps
\* what it holds until it is overwritten.
OpenFile ==
  /\ pc = "open"
  /\ \/ /\ pc' = "encode"
        /\ keyFile' = [keyFile EXCEPT ![S] = IF @ = Absent THEN Empty ELSE @]
        /\ UNCHANGED <<idx, jwk, failed, faults>>
     \/ WriteFails
  /\ UNCHANGED <<misread, plugins, made, kills>>

\* The encoder writes the key set in one call; both sets have one length.
Encode ==
  /\ pc = "encode"
  /\ \/ /\ keyFile' = [keyFile EXCEPT ![S] = jwk]
        /\ pc' = "read" /\ idx' = idx + 1 /\ jwk' = NoKey
        /\ UNCHANGED <<failed, faults>>
     \/ WriteFails
  /\ UNCHANGED <<misread, plugins, made, kills>>

\* Faulty variant: an error of a Write call is lost.
Finish_Anyway ==
  /\ pc = "read" /\ idx > Len(KeySets)
  /\ pc' = "up"
  /\ UNCHANGED <<disk, idx, jwk, failed, plugins, made, kills, faults>>

\* The errors of the calls are looked at when all have been made.
Finish ==
  /\ pc = "read" /\ idx > Len(KeySets)
  /\ pc' = IF failed THEN "down" ELSE "up"
  /\ UNCHANGED <<disk, idx, jwk, failed, plugins, made, kills, faults>>

InitStep == Start \/ ReadOrGenerate \/ OpenFile \/ Encode \/ Finish

\* The process is killed, during Init or after it.
KillInit ==
  /\ pc # "down" /\ kills < MaxKills
  /\ kills' = kills + 1
  /\ pc' = "down" /\ jwk' = NoKey
  /\ UNCHANGED <<disk, idx, failed, plugins, made, faults>>

-----------------------------------------------------------------------------
(* RunKMSPlugin and RunJWTSigner *)

KMS(p) == SetOf[p] = "encryption"
Holds(p) == proc[p] \in {"listening", "serving"}
SocketFree(p) == \A q \in Procs : SetOf[q] = SetOf[p] => ~Holds(q)

\* A plugin whose Read or Listen fails returns the error and exits.
Exits(p) ==
  /\ proc' = [proc EXCEPT ![p] = "off"]
  /\ jwks' = [jwks EXCEPT ![p] = NoKey]

\* jwksRef.Read; the KMS plugin is listening by then, the signer is not.
ReadKeys(p) ==
  /\ proc[p] = IF KMS(p) THEN "listening" ELSE "off"
  /\ \/ /\ keyFile[SetOf[p]] \in Keys
        /\ proc' = [proc EXCEPT ![p] = IF KMS(p) THEN "serving" ELSE "loaded"]
        /\ jwks' = [jwks EXCEPT ![p] = keyFile[SetOf[p]]]
        /\ UNCHANGED faults
     \/ /\ keyFile[SetOf[p]] \notin Keys
        /\ Exits(p)
        /\ UNCHANGED faults
     \/ Fault /\ Exits(p)
  /\ UNCHANGED <<disk, init, made, kills>>

\* Faulty variant: the socket is taken over from the process that holds it.
Listen_Takeover(p) ==
  /\ proc[p] = IF KMS(p) THEN "off" ELSE "loaded"
  /\ proc' = [proc EXCEPT ![p] = IF KMS(p) THEN "listening" ELSE "serving"]
  /\ UNCHANGED <<disk, init, jwks, made, kills, faults>>

\* net.Listen on the abstract socket fails while another process holds it.
Listen(p) ==
  /\ proc[p] = IF KMS(p) THEN "off" ELSE "loaded"
  /\ \/ /\ SocketFree(p)
        /\ proc' = [proc EXCEPT ![p] = IF KMS(p) THEN "listening" ELSE "serving"]
        /\ UNCHANGED jwks
     \/ ~SocketFree(p) /\ Exits(p)
  /\ UNCHANGED <<disk, init, made, kills, faults>>

KillPlugin(p) ==
  /\ proc[p] # "off" /\ kills < MaxKills
  /\ kills' = kills + 1
  /\ Exits(p)
  /\ UNCHANGED <<disk, init, made, faults>>

-----------------------------------------------------------------------------
(* The calls of the API server *)

\* kms.Encrypt and jwtsigner.Sign look the default key up; without exactly
\* one they answer "one key expected".
Encrypt(p) ==
  /\ KMS(p) /\ proc[p] = "serving" /\ jwks[p] # NoKey
  /\ sealed' = sealed \cup {jwks[p]}
  /\ UNCHANGED <<disk, init, plugins, issued, fetched, kills, faults>>

Sign(p) ==
  /\ ~KMS(p) /\ proc[p] = "serving" /\ jwks[p] # NoKey
  /\ issued' = issued \cup {jwks[p]}
  /\ UNCHANGED <<disk, init, plugins, sealed, fetched, kills, faults>>

\* jwtsigner.FetchKeys: the API server replaces the key it had.
FetchKeys(p) ==
  /\ ~KMS(p) /\ proc[p] = "serving"
  /\ fetched' = jwks[p]
  /\ UNCHANGED <<disk, init, plugins, sealed, issued, kills, faults>>

\* kms.Decrypt of a value sealed with k.
Decrypts(p, k) == jwks[p] = k

-----------------------------------------------------------------------------
Plugin(p) == ReadKeys(p) \/ Listen(p)

Next ==
  \/ InitStep \/ KillInit
  \/ \E p \in Procs :
       Plugin(p) \/ KillPlugin(p) \/ Encrypt(p) \/ Sign(p) \/ FetchKeys(p)

Spec == Init /\ [][Next]_vars

\* Init and the plugins run on and are started again when they have ended.
FairSpec ==
  /\ Spec
  /\ WF_vars(InitStep)
  /\ \A p \in Procs : WF_vars(ReadKeys(p)) /\ WF_vars(Listen(p))

-----------------------------------------------------------------------------
\* Type invariant; a process that serves, or is about to, has its key.
TypeOK ==
  /\ keyFile \in [SetNames -> Keys \cup {Absent, Empty}]
  /\ pc \in {"down", "read", "open", "encode", "up"}
  /\ idx \in 1 .. Len(KeySets) + 1
  /\ jwk \in Keys \cup {NoKey}
  /\ pc \in {"open", "encode"} => jwk \in Keys /\ idx <= Len(KeySets)
  /\ failed \in BOOLEAN
  /\ proc \in [Procs -> {"off", "listening", "loaded", "serving"}]
  /\ jwks \in [Procs -> Keys \cup {NoKey}]
  /\ \A p \in Procs : proc[p] \in {"loaded", "serving"} => jwks[p] \in Keys
  /\ sealed \subseteq Keys /\ issued \subseteq Keys
  /\ fetched \in Keys \cup {NoKey}
  /\ misread \subseteq SetNames
  /\ kills \in 0 .. MaxKills /\ faults \in 0 .. MaxFaults

Serving(p) == proc[p] = "serving"

\* What the KMS plugin has sealed can be decrypted by the process that
\* serves now, and by any started later from the file: whatever was killed
\* in between, in Init or in a plugin.  Only an Init that could not open a
\* key set that was there loses values.
Decryptable ==
  "encryption" \notin misread =>
    \A k \in sealed :
      /\ keyFile["encryption"] = k
      /\ \A p \in Procs : KMS(p) /\ Serving(p) => Decrypts(p, k)

\* A token verifies against whatever public key the API server has fetched
\* since, from this signer process or from another.
TokensVerify ==
  "serviceaccount" \notin misread =>
    \A k \in issued :
      /\ fetched \in {k, NoKey}
      /\ \A p \in Procs : ~KMS(p) /\ Serving(p) => jwks[p] = k

\* While a process answers requests, no other one holds its socket: a client
\* cannot be answered from two key sets, whichever of listening and reading
\* comes first.
OneServer ==
  \A p \in Procs : Serving(p) =>
    \A q \in Procs \ {p} : SetOf[q] = SetOf[p] => ~Holds(q)

\* When Init has returned nil, both key sets can be read.
InitEstablishes == pc = "up" => \A s \in SetNames : keyFile[s] \in Keys

\* After the last kill and the last failed call both plugins come to serve
\* and stay: no file that a kill has left behind stands in the way.
Available ==
  \A s \in SetNames : <>[](\E p \in Procs : SetOf[p] = s /\ Serving(p))
=============================================================================
