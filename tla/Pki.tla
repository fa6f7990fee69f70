-------------------------------- MODULE Pki --------------------------------
(***************************************************************************)
(* The certificates of a control plane: pkiRef and CA (pki.go), as used by *)
(* ControlPlane.Init and setupNode (controlplane.go).                      *)
(*                                                                         *)
(* Init goes through the requests in order.  The signer of a request is    *)
(* initialised when it is first needed and kept in caMap.  Every pkiRef is *)
(* a certificate file and a key file.  os.WriteFile truncates, then writes;*)
(* the process may be killed between any two steps and started again; the  *)
(* clock may make any certificate on disk expire.                          *)
(*                                                                         *)
(* A certificate is the key it certifies and the key that signed it.  A    *)
(* generated key is one that no file holds and nobody has in memory.       *)
(***************************************************************************)
EXTENDS Naturals, Sequences

CONSTANTS
  CAs,          \* names of certificate authorities
  Leaves,       \* the requests, in order: [name, signer]
  Keys,         \* bound: keys in use at a time
  Absent,       \* no such file
  Torn,         \* a file truncated and not written
  NoKey,        \* p.key = nil
  NoName,       \* no pkiRef
  MaxCrashes    \* bound: times the process is killed

LeafNames == {Leaves[i].name : i \in DOMAIN Leaves}
Names == CAs \cup LeafNames
Cert == [pub : Keys, by : Keys, valid : BOOLEAN]

ASSUME ConstantsOK ==
  /\ Leaves \in Seq([name : LeafNames, signer : CAs])
  /\ LeafNames \cap CAs = {}
  /\ \A i, j \in DOMAIN Leaves : Leaves[i].name = Leaves[j].name => i = j
  /\ MaxCrashes \in Nat
  /\ Absent # Torn /\ Absent \notin Keys \cup Cert /\ Torn \notin Keys \cup Cert
  /\ NoKey \notin Keys /\ NoName \notin Names

VARIABLES
  certFile, keyFile,  \* the files of each name
  pc,                 \* where Init is
  idx,                \* the request it is at
  cur,                \* the pkiRef it works on
  key, cert,          \* p.key and p.cert of that pkiRef
  caMap,              \* keys of the authorities initialised so far
  crashes

files == <<certFile, keyFile>>
vars == <<files, pc, idx, cur, key, cert, caMap, crashes>>

NoCA == [ca \in {} |-> NoKey]

Init ==
  /\ certFile = [f \in Names |-> Absent]
  /\ keyFile = [f \in Names |-> Absent]
  /\ pc = "down"
  /\ idx = 1 /\ cur = NoName /\ key = NoKey /\ cert = Absent /\ caMap = NoCA
  /\ crashes = 0

\* The process is gone, and its memory with it.
Gone ==
  /\ pc' = "down"
  /\ idx' = 1 /\ cur' = NoName /\ key' = NoKey /\ cert' = Absent /\ caMap' = NoCA
  /\ UNCHANGED files

Leaf == Leaves[idx]

Valid(f) == certFile[f] \in Cert /\ certFile[f].valid
Expired(f) == certFile[f] \in Cert /\ ~certFile[f].valid

Start ==
  /\ pc = "down"
  /\ pc' = "pick"
  /\ UNCHANGED <<files, idx, cur, key, cert, caMap, crashes>>

\* The next request, or the authority it needs first, or the end.
Pick ==
  /\ pc = "pick"
  /\ \/ /\ idx > Len(Leaves)
        /\ pc' = "done"
        /\ UNCHANGED <<cur, key, cert>>
     \/ /\ idx <= Len(Leaves)
        /\ cur' = IF Leaf.signer \in DOMAIN caMap THEN Leaf.name ELSE Leaf.signer
        /\ key' = NoKey /\ cert' = Absent
        /\ pc' = "read"
  /\ UNCHANGED <<files, idx, caMap, crashes>>

\* Faulty variant: the read ends after any certificate, expired or not.
Read_CertOnly ==
  /\ pc = "read"
  /\ \/ certFile[cur] = Torn /\ pc' = "failed" /\ UNCHANGED key
     \/ certFile[cur] \in Cert /\ pc' = "generate" /\ UNCHANGED key
     \/ /\ certFile[cur] = Absent
        /\ \/ keyFile[cur] = Torn /\ pc' = "failed" /\ UNCHANGED key
           \/ keyFile[cur] = Absent /\ pc' = "generate" /\ UNCHANGED key
           \/ keyFile[cur] \in Keys /\ pc' = "generate" /\ key' = keyFile[cur]
  /\ UNCHANGED <<files, idx, cur, cert, caMap, crashes>>

\* Faulty variant: a valid pair of files is left as it is.
Read_KeepsPair ==
  /\ pc = "read"
  /\ \/ certFile[cur] = Torn /\ pc' = "failed" /\ UNCHANGED key
     \/ Expired(cur) /\ pc' = "generate" /\ UNCHANGED key
     \/ /\ certFile[cur] = Absent \/ Valid(cur)
        /\ \/ keyFile[cur] = Torn /\ pc' = "failed" /\ UNCHANGED key
           \/ keyFile[cur] = Absent /\ pc' = "generate" /\ UNCHANGED key
           \/ /\ keyFile[cur] \in Keys /\ key' = keyFile[cur]
              /\ pc' = IF Valid(cur) THEN "written" ELSE "generate"
  /\ UNCHANGED <<files, idx, cur, cert, caMap, crashes>>

\* pkiRef.Read: the certificate is parsed and never kept; an expired one
\* ends the read before the key is loaded; a file without a PEM block is an
\* error (for an authority, the caller then dereferences a nil CA).
Read ==
  /\ pc = "read"
  /\ \/ certFile[cur] = Torn /\ pc' = "failed" /\ UNCHANGED key
     \/ Expired(cur) /\ pc' = "generate" /\ UNCHANGED key
     \/ /\ certFile[cur] = Absent \/ Valid(cur)
        /\ \/ keyFile[cur] = Torn /\ pc' = "failed" /\ UNCHANGED key
           \/ keyFile[cur] = Absent /\ pc' = "generate" /\ UNCHANGED key
           \/ keyFile[cur] \in Keys /\ pc' = "generate" /\ key' = keyFile[cur]
  /\ UNCHANGED <<files, idx, cur, cert, caMap, crashes>>

InUse ==
  {keyFile[f] : f \in Names} \cup {caMap[ca] : ca \in DOMAIN caMap}
    \cup UNION {{certFile[f].pub, certFile[f].by} :
                  f \in {g \in Names : certFile[g] \in Cert}}

\* ecdsa.GenerateKey; which unused one it is does not matter.
NewKey == CHOOSE k \in Keys \ InUse : TRUE

\* CA.Init signs with its own key, Certificate with the signer's.
Generate ==
  /\ pc = "generate"
  /\ key # NoKey \/ Keys \ InUse # {}
  /\ key' = IF key = NoKey THEN NewKey ELSE key
  /\ cert' = [pub |-> key', valid |-> TRUE,
              by |-> IF cur \in CAs THEN key' ELSE caMap[Leaf.signer]]
  /\ pc' = "openCert"
  /\ UNCHANGED <<files, idx, cur, caMap, crashes>>

\* pkiRef.Write: the certificate, then the key; each file is truncated
\* first.
OpenCert ==
  /\ pc = "openCert"
  /\ certFile' = [certFile EXCEPT ![cur] = Torn]
  /\ pc' = "putCert"
  /\ UNCHANGED <<keyFile, idx, cur, key, cert, caMap, crashes>>

PutCert ==
  /\ pc = "putCert"
  /\ certFile' = [certFile EXCEPT ![cur] = cert]
  /\ pc' = "openKey"
  /\ UNCHANGED <<keyFile, idx, cur, key, cert, caMap, crashes>>

OpenKey ==
  /\ pc = "openKey"
  /\ keyFile' = [keyFile EXCEPT ![cur] = Torn]
  /\ pc' = "putKey"
  /\ UNCHANGED <<certFile, idx, cur, key, cert, caMap, crashes>>

PutKey ==
  /\ pc = "putKey"
  /\ keyFile' = [keyFile EXCEPT ![cur] = key]
  /\ pc' = "written"
  /\ UNCHANGED <<certFile, idx, cur, key, cert, caMap, crashes>>

\* Faulty variant: the authority is not kept in caMap.
Written_NotKept ==
  /\ pc = "written"
  /\ idx' = IF cur \in CAs THEN idx ELSE idx + 1
  /\ pc' = "pick"
  /\ UNCHANGED <<files, cur, key, cert, caMap, crashes>>

\* An authority is kept in caMap; a request is done.
Written ==
  /\ pc = "written"
  /\ IF cur \in CAs
       THEN /\ caMap' = [f \in DOMAIN caMap \cup {cur} |->
                           IF f = cur THEN key ELSE caMap[f]]
            /\ UNCHANGED idx
       ELSE idx' = idx + 1 /\ UNCHANGED caMap
  /\ pc' = "pick"
  /\ UNCHANGED <<files, cur, key, cert, crashes>>

-----------------------------------------------------------------------------
\* The process is started again: after the control plane was stopped, after
\* Init returned an error or panicked, or after it was killed.
Stop ==
  /\ pc \in {"done", "failed"}
  /\ Gone
  /\ UNCHANGED crashes

Crash ==
  /\ pc \notin {"down", "done", "failed"}
  /\ crashes < MaxCrashes
  /\ crashes' = crashes + 1
  /\ Gone

Expire ==
  /\ \E f \in Names :
       /\ Valid(f)
       /\ certFile' = [certFile EXCEPT ![f].valid = FALSE]
  /\ UNCHANGED <<keyFile, pc, idx, cur, key, cert, caMap, crashes>>

Step ==
  \/ Start \/ Pick \/ Read \/ Generate
  \/ OpenCert \/ PutCert \/ OpenKey \/ PutKey \/ Written

Next == Step \/ Stop \/ Crash \/ Expire

Spec == Init /\ [][Next]_vars

-----------------------------------------------------------------------------
\* Type invariant: only the file being written can be newly torn, and an
\* authority in caMap is one.
TypeOK ==
  /\ certFile \in [Names -> Cert \cup {Absent, Torn}]
  /\ keyFile \in [Names -> Keys \cup {Absent, Torn}]
  /\ pc \in {"down", "pick", "read", "generate", "openCert", "putCert",
             "openKey", "putKey", "written", "done", "failed"}
  /\ idx \in 1 .. Len(Leaves) + 1
  /\ cur \in Names \cup {NoName}
  /\ key \in Keys \cup {NoKey}
  /\ cert \in Cert \cup {Absent}
  /\ DOMAIN caMap \subseteq CAs /\ \A ca \in DOMAIN caMap : caMap[ca] \in Keys
  /\ crashes \in 0 .. MaxCrashes

\* The files of one name fit each other and certify key k, signed by s.
Pair(f, k, s) ==
  /\ keyFile[f] = k
  /\ certFile[f] \in Cert /\ certFile[f].pub = k /\ certFile[f].by = s

\* When Init has returned nil, every request has a certificate for the key
\* beside it that verifies against the authority on disk, whatever crashes
\* and expiries came before.
Chain ==
  pc = "done" =>
    \A i \in DOMAIN Leaves :
      LET ca == Leaves[i].signer IN
      /\ Pair(ca, keyFile[ca], keyFile[ca])
      /\ Pair(Leaves[i].name, keyFile[Leaves[i].name], keyFile[ca])

\* A name with a readable key gets a new one only when its certificate has
\* expired: a restart or a crash never rotates an authority that is valid.
KeyKept ==
  [][pc = "generate" /\ keyFile[cur] \in Keys /\ key' \in Keys \ {keyFile[cur]}
       => Expired(cur)]_vars

TornFile == \E f \in Names : Torn \in {certFile[f], keyFile[f]}

\* Once the process is no longer killed, a restart completes Init, from
\* whatever mixture of old and new files a crash has left: only a certificate
\* or a key that was cut off in the middle of its write, and stays so,
\* prevents it.  Under the fairness of ControlPlane, whose configuration
\* files Init replaces without reading them, cut off or not.
RecoversUnlessTorn == []<>(pc = "done") \/ <>[]TornFile
=============================================================================
