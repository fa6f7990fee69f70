------------------------- MODULE ControlPlane_proofs -------------------------
(***************************************************************************)
(* Proofs about ControlPlane.Init: the certificates (Pki), and then the    *)
(* files made from them.  Every step of ControlPlane is one of Pki or      *)
(* leaves the certificates alone, so that the theorems of the first part   *)
(* hold in the second.                                                     *)
(***************************************************************************)
EXTENDS ControlPlane, TLAPS

-----------------------------------------------------------------------------
(***************************************************************************)
(* Whenever ControlPlane.Init has returned, the files form valid chains:   *)
(* for any authorities and requests, any number of crashes, at any step,   *)
(* and any expiries before.                                                *)
(*                                                                         *)
(* The argument.  An authority that is in caMap is not written again in    *)
(* this run, so its two files hold the key of caMap, self-signed (Kept).   *)
(* A request that is done is not written again either, and its certificate *)
(* is signed with that same key (Issued).  While Init works, it works on   *)
(* an authority that is not in caMap yet, or on the request at idx whose   *)
(* signer is (AtWork), with a certificate that fits the key it holds.      *)
(***************************************************************************)

Working == {"read", "generate", "openCert", "putCert", "openKey", "putKey",
            "written"}
Made == {"openCert", "putCert", "openKey", "putKey", "written"}

Signer == IF cur \in CAs THEN key ELSE caMap[Leaf.signer]

AtWork ==
  /\ idx \in Nat \ {0}
  /\ pc \in Working =>
       /\ idx \in DOMAIN Leaves
       /\ \/ cur = Leaf.signer /\ cur \notin DOMAIN caMap
          \/ cur = Leaf.name /\ Leaf.signer \in DOMAIN caMap
  /\ pc \in Made =>
       /\ key \in Keys /\ cert \in Cert /\ cert.pub = key /\ cert.by = Signer
  /\ pc \in {"openKey", "putKey", "written"} =>
       /\ certFile[cur] \in Cert
       /\ certFile[cur].pub = key /\ certFile[cur].by = Signer
  /\ pc = "written" => keyFile[cur] = key
  /\ pc = "done" => idx > Len(Leaves)

Kept ==
  \A ca \in DOMAIN caMap :
    ca \in CAs /\ caMap[ca] \in Keys /\ Pair(ca, caMap[ca], caMap[ca])

Issued ==
  \A i \in DOMAIN Leaves :
    i < idx =>
      /\ Leaves[i].signer \in DOMAIN caMap
      /\ Pair(Leaves[i].name, keyFile[Leaves[i].name], caMap[Leaves[i].signer])

FileType ==
  /\ certFile \in [Names -> Cert \cup {Absent, Torn}]
  /\ keyFile \in [Names -> Keys \cup {Absent, Torn}]
  /\ key \in Keys \cup {NoKey}

ChainInv == FileType /\ AtWork /\ Kept /\ Issued

LEMMA ElementOfSeq ==
  ASSUME NEW S, NEW q \in Seq(S), NEW i \in DOMAIN q
  PROVE  q[i] \in S
OBVIOUS

LEMMA RequestsTyped ==
  /\ \A i \in DOMAIN Leaves :
       /\ Leaves[i].signer \in CAs
       /\ Leaves[i].name \in LeafNames /\ Leaves[i].name \notin CAs
  /\ DOMAIN Leaves = 1 .. Len(Leaves) /\ Len(Leaves) \in Nat
  /\ CAs \subseteq Names /\ LeafNames \subseteq Names
<1>1. DOMAIN Leaves = 1 .. Len(Leaves) /\ Len(Leaves) \in Nat
  BY ConstantsOK
<1>2. ASSUME NEW i \in DOMAIN Leaves
      PROVE  /\ Leaves[i].signer \in CAs
             /\ Leaves[i].name \in LeafNames /\ Leaves[i].name \notin CAs
  <2>1. Leaves[i] \in [name : LeafNames, signer : CAs]
    BY ConstantsOK, ElementOfSeq
  <2> QED BY <2>1, ConstantsOK
<1> QED BY <1>1, <1>2 DEF Names

LEMMA ChainInit == Init => ChainInv
BY DEF Init, ChainInv, FileType, AtWork, Kept, Issued, NoCA, Working, Made

\* The process starts from nothing.
LEMMA ChainGone ==
  ASSUME ChainInv, Gone
  PROVE  ChainInv'
BY DEF ChainInv, Gone, files, FileType, AtWork, Kept, Issued, NoCA, Working, Made

\* A step that writes no file and keeps caMap and idx keeps what is done.
LEMMA DoneStays ==
  ASSUME Kept, Issued, UNCHANGED <<files, caMap, idx>>
  PROVE  Kept' /\ Issued'
BY DEF Kept, Issued, Pair, files

\* A step that writes the files of cur only, too: cur is not done.
LEMMA OthersStay ==
  ASSUME ChainInv, pc \in Working, UNCHANGED <<caMap, idx, cur>>,
         \A f \in Names \ {cur} :
           certFile'[f] = certFile[f] /\ keyFile'[f] = keyFile[f]
  PROVE  Kept' /\ Issued'
<1>1. \A ca \in DOMAIN caMap : ca \in CAs /\ ca # cur
  BY RequestsTyped DEF ChainInv, AtWork, Kept, Leaf, Working
<1>2. \A i \in DOMAIN Leaves : i < idx => Leaves[i].name # cur
  BY RequestsTyped, ConstantsOK DEF ChainInv, AtWork, Leaf
<1>3. Kept'
  BY <1>1, RequestsTyped DEF ChainInv, Kept, Pair
<1>4. Issued'
  BY <1>1, <1>2, RequestsTyped DEF ChainInv, Issued, Pair
<1> QED BY <1>3, <1>4

LEMMA CurIsName ==
  ASSUME ChainInv, pc \in Working
  PROVE  cur \in Names
BY RequestsTyped DEF ChainInv, AtWork, Leaf

LEMMA ChainStep ==
  ASSUME ChainInv, Step
  PROVE  ChainInv'
<1> USE DEF ChainInv
<1>1. CASE Start
  <2>1. Kept' /\ Issued' BY <1>1, DoneStays DEF Start
  <2>2. FileType' /\ AtWork'
    BY <1>1 DEF Start, files, FileType, AtWork, Working, Made
  <2> QED BY <2>1, <2>2
<1>2. CASE Pick
  <2>1. Kept' /\ Issued' BY <1>2, DoneStays DEF Pick
  <2>2. FileType'
    BY <1>2 DEF Pick, files, FileType
  <2>3. AtWork'
    BY <1>2, RequestsTyped DEF Pick, AtWork, Leaf, Working, Made
  <2> QED BY <2>1, <2>2, <2>3
<1>3. CASE Read
  <2>1. Kept' /\ Issued' BY <1>3, DoneStays DEF Read
  <2>2. FileType'
    BY <1>3 DEF Read, files, FileType
  <2>3. AtWork'
    BY <1>3 DEF Read, AtWork, Leaf, Working, Made
  <2> QED BY <2>1, <2>2, <2>3
<1>4. CASE Generate
  <2>1. Kept' /\ Issued' BY <1>4, DoneStays DEF Generate
  <2>2. key' \in Keys
    BY <1>4 DEF Generate, NewKey, FileType
  <2>3. FileType'
    BY <1>4, <2>2 DEF Generate, files, FileType
  <2>4. Signer' \in Keys /\ cert' = [pub |-> key', valid |-> TRUE, by |-> Signer']
    BY <1>4, <2>2, RequestsTyped
       DEF Generate, Signer, Leaf, AtWork, Kept, Working
  <2>5. cert' \in Cert /\ cert'.pub = key' /\ cert'.by = Signer'
    BY <2>2, <2>4 DEF Cert
  <2>6. AtWork'
    BY <1>4, <2>2, <2>5 DEF Generate, AtWork, Leaf, Working, Made
  <2> QED BY <2>1, <2>3, <2>6
<1>5. CASE OpenCert \/ PutCert
  <2>1. pc \in Working BY <1>5 DEF OpenCert, PutCert, Working
  <2>2. cur \in Names BY <2>1, CurIsName
  <2>3. Kept' /\ Issued'
    BY <1>5, <2>1, OthersStay DEF OpenCert, PutCert, FileType
  <2>4. FileType'
    BY <1>5 DEF OpenCert, PutCert, FileType, AtWork, Made
  <2>5. AtWork'
    BY <1>5, <2>2
       DEF OpenCert, PutCert, AtWork, Signer, Leaf, Working, Made, FileType
  <2> QED BY <2>3, <2>4, <2>5
<1>6. CASE OpenKey \/ PutKey
  <2>1. pc \in Working BY <1>6 DEF OpenKey, PutKey, Working
  <2>2. cur \in Names BY <2>1, CurIsName
  <2>3. Kept' /\ Issued'
    BY <1>6, <2>1, OthersStay DEF OpenKey, PutKey, FileType
  <2>4. FileType'
    BY <1>6 DEF OpenKey, PutKey, FileType, AtWork, Made
  <2>5. AtWork'
    BY <1>6, <2>2
       DEF OpenKey, PutKey, AtWork, Signer, Leaf, Working, Made, FileType
  <2> QED BY <2>3, <2>4, <2>5
<1>7. CASE Written
  <2>1. FileType' BY <1>7 DEF Written, files, FileType
  <2>2. pc \in Working /\ idx \in DOMAIN Leaves BY <1>7 DEF Written, Working, AtWork
  <2>3. CASE cur \in CAs
    <3>1. /\ caMap' = [f \in DOMAIN caMap \cup {cur} |->
                         IF f = cur THEN key ELSE caMap[f]]
          /\ UNCHANGED <<files, idx>> /\ pc' = "pick"
      BY <1>7, <2>3 DEF Written
    <3>2. cur \notin DOMAIN caMap /\ key \in Keys /\ Pair(cur, key, key)
      BY <1>7, <2>2, <2>3, RequestsTyped
         DEF Written, AtWork, Signer, Pair, Leaf, Working, Made
    <3>3. Kept' /\ Issued'
      BY <2>3, <3>1, <3>2 DEF Kept, Issued, Pair, files
    <3>4. AtWork'
      BY <3>1 DEF AtWork, Working, Made
    <3> QED BY <2>1, <3>3, <3>4
  <2>4. CASE cur \notin CAs
    <3>1. idx' = idx + 1 /\ UNCHANGED <<files, caMap>> /\ pc' = "pick"
      BY <1>7, <2>4 DEF Written
    <3>2. /\ cur = Leaf.name /\ Leaf.signer \in DOMAIN caMap
          /\ Pair(cur, keyFile[cur], caMap[Leaf.signer])
      BY <1>7, <2>2, <2>4, RequestsTyped
         DEF Written, AtWork, Signer, Pair, Leaf, Working, Made
    <3>3. \A i \in DOMAIN Leaves : i < idx' => i < idx \/ i = idx
      BY <3>1, RequestsTyped DEF AtWork
    <3>4. Kept' /\ Issued'
      BY <3>1, <3>2, <3>3 DEF Kept, Issued, Pair, Leaf, files
    <3>5. AtWork'
      BY <3>1 DEF AtWork, Working, Made
    <3> QED BY <2>1, <3>4, <3>5
  <2> QED BY <2>3, <2>4
<1> QED BY <1>1, <1>2, <1>3, <1>4, <1>5, <1>6, <1>7 DEF Step

LEMMA ChainExpire ==
  ASSUME ChainInv, Expire
  PROVE  ChainInv'
<1> USE DEF ChainInv
<1>1. PICK f \in Names :
        /\ certFile[f] \in Cert
        /\ certFile' = [certFile EXCEPT ![f].valid = FALSE]
  BY DEF Expire, Valid
<1>2. UNCHANGED <<keyFile, pc, idx, cur, key, cert, caMap>>
  BY DEF Expire
<1>3. /\ certFile' \in [Names -> Cert \cup {Absent, Torn}]
      /\ \A g \in Names :
           certFile[g] \in Cert =>
             /\ certFile'[g] \in Cert
             /\ certFile'[g].pub = certFile[g].pub
             /\ certFile'[g].by = certFile[g].by
  BY <1>1 DEF FileType, Cert
<1>4. FileType' BY <1>2, <1>3 DEF FileType
<1>5. Kept' /\ Issued'
  BY <1>2, <1>3, RequestsTyped DEF Kept, Issued, Pair
<1>6. AtWork'
  BY <1>2, <1>3, CurIsName DEF AtWork, Signer, Leaf, Working, Made
<1> QED BY <1>4, <1>5, <1>6

LEMMA ChainNext == ChainInv /\ [Next]_vars => ChainInv'
<1> SUFFICES ASSUME ChainInv, [Next]_vars PROVE ChainInv'
  OBVIOUS
<1>1. CASE Stop \/ Crash
  BY <1>1, ChainGone DEF Stop, Crash
<1>2. CASE UNCHANGED vars
  BY <1>2 DEF vars, files, ChainInv, FileType, AtWork, Kept, Issued, Pair,
              Signer, Leaf
<1> QED BY <1>1, <1>2, ChainStep, ChainExpire DEF Next

\* Chains: when Init has returned nil, the certificate of every request fits
\* the key beside it and is signed by the authority whose files are on disk.
THEOREM ChainsAreValid == Spec => []Chain
<1>1. ChainInv => Chain
  BY RequestsTyped DEF ChainInv, AtWork, Kept, Issued, Chain, Pair
<1> QED BY <1>1, ChainInit, ChainNext, PTL DEF Spec

-----------------------------------------------------------------------------
\* What Read has found: unless the certificate has expired, a readable key
\* is in p.key when Init comes to generate.
ReadKey ==
  pc = "generate" /\ keyFile[cur] \in Keys => key = keyFile[cur] \/ Expired(cur)

LEMMA ReadKeyStep == ReadKey /\ [Next]_vars => ReadKey'
<1> SUFFICES ASSUME ReadKey, [Next]_vars PROVE ReadKey'
  OBVIOUS
<1>1. CASE Read
  BY <1>1, ConstantsOK DEF Read, ReadKey, Expired, Valid, files
<1>2. CASE Expire
  BY <1>2 DEF Expire, ReadKey, Expired, Valid, Cert
<1>3. CASE UNCHANGED vars
  BY <1>3 DEF vars, files, ReadKey, Expired
<1>4. CASE Stop \/ Crash
  BY <1>4 DEF Stop, Crash, Gone, ReadKey
<1>5. CASE Step /\ ~Read
  BY <1>5 DEF Step, Start, Pick, Generate, OpenCert, PutCert, OpenKey, PutKey,
              Written, ReadKey
<1> QED BY <1>1, <1>2, <1>3, <1>4, <1>5 DEF Next

\* Keys: Init replaces a readable key only when its certificate has expired.
THEOREM ValidKeysStay == Spec => KeyKept
<1>1. Init => ReadKey
  BY DEF Init, ReadKey
<1>2. ASSUME ReadKey, [Next]_vars, pc = "generate", keyFile[cur] \in Keys,
             key' \in Keys \ {keyFile[cur]}
      PROVE  Expired(cur)
  <2>1. CASE key' = key
    BY <1>2, <2>1 DEF ReadKey
  <2>2. CASE Generate
    BY <1>2, <2>2, ConstantsOK DEF Generate, ReadKey
  <2>3. CASE Gone
    BY <1>2, <2>3, ConstantsOK DEF Gone
  <2> QED
    BY <1>2, <2>1, <2>2, <2>3
       DEF Next, Step, Stop, Crash, Expire, Start, Pick, Read, OpenCert, PutCert,
           OpenKey, PutKey, Written, vars
<1> QED BY <1>1, <1>2, ReadKeyStep, PTL DEF Spec, KeyKept

-----------------------------------------------------------------------------
\* Types: only the file being written can be newly torn, and what caMap holds
\* is the key of an authority.
THEOREM TypeCorrect == Spec => []TypeOK
<1> DEFINE Pcs == {"down", "pick", "read", "generate", "openCert", "putCert",
                   "openKey", "putKey", "written", "done", "failed"}
           Rest == /\ pc \in Pcs /\ cert \in Cert \cup {Absent}
                   /\ idx \in 1 .. Len(Leaves) + 1
                   /\ cur \in Names \cup {NoName}
                   /\ DOMAIN caMap \subseteq CAs /\ crashes \in 0 .. MaxCrashes
<1>1. Init => ChainInv /\ Rest
  BY ChainInit, ConstantsOK DEF Init, NoCA
<1>2. ASSUME ChainInv, Rest, [Next]_vars PROVE Rest'
  <2>1. CASE Stop \/ Crash
    BY <1>2, <2>1, ConstantsOK DEF Stop, Crash, Gone, NoCA
  <2>2. CASE Expire
    BY <1>2, <2>2 DEF Expire
  <2>3. CASE UNCHANGED vars
    BY <1>2, <2>3 DEF vars
  <2>4. CASE Written
    <3>1. pc \in Working /\ idx \in DOMAIN Leaves
      BY <1>2, <2>4 DEF Written, Working, ChainInv, AtWork
    <3>2. idx + 1 \in 1 .. Len(Leaves) + 1
      BY <3>1, RequestsTyped
    <3> QED BY <1>2, <2>4, <3>2 DEF Written
  <2>5. CASE Pick
    <3>1. idx <= Len(Leaves) => idx \in DOMAIN Leaves
      BY <1>2, RequestsTyped
    <3>2. idx <= Len(Leaves) => Leaf.signer \in Names /\ Leaf.name \in Names
      BY <3>1, RequestsTyped DEF Leaf
    <3> QED BY <1>2, <2>5, <3>2 DEF Pick
  <2>6. CASE Generate
    <3>1. cert' \in Cert
      BY <1>2, <2>6, ChainStep DEF Generate, Step, ChainInv, AtWork, Made
    <3> QED BY <1>2, <2>6, <3>1 DEF Generate
  <2>7. CASE Step /\ ~Written /\ ~Pick /\ ~Generate
    BY <1>2, <2>7 DEF Step, Start, Read, OpenCert, PutCert, OpenKey, PutKey
  <2> QED BY <1>2, <2>1, <2>2, <2>3, <2>4, <2>5, <2>6, <2>7 DEF Next
<1>3. ChainInv /\ Rest => TypeOK
  BY DEF ChainInv, FileType, Kept, TypeOK
<1> QED
  <2> HIDE DEF Rest
  <2> QED BY <1>1, <1>2, <1>3, ChainNext, PTL DEF Spec

-----------------------------------------------------------------------------
(***************************************************************************)
(* Whenever ControlPlane.Init has returned nil, the files it has made from *)
(* the certificates hold what is on disk, for any requests, crashes and    *)
(* expiries; and at any time a kubeconfig names a key that fits its        *)
(* certificate.                                                            *)
(*                                                                         *)
(* The argument.  Every step is one of Pki, or leaves the certificates     *)
(* alone, so what is proved of Pki holds here.  A file is due when the     *)
(* requests that it waits for are done (Due); what it is made of is then   *)
(* settled: its authorities are in caMap and its own request is done, and  *)
(* neither is written again.  A due file is current, or waits in the queue *)
(* (CurrentInv), which holds nothing that is not due (QueueInv).           *)
(***************************************************************************)

LEMMA PkiStep == [CPNext]_cpVars => [Next]_vars
BY DEF CPNext, CPStep, Certificates, OpenConf, PutConf, AddService, ConfFails,
       CPCrash, CPStop, CPExpire, cpVars, Next

\* The configuration files change nothing about the certificates: the
\* control plane implements Pki, whose theorems hold of it.
THEOREM ImplementsPki == CPSpec => Spec
<1>1. CPInit => Init
  BY DEF CPInit
<1> QED BY <1>1, PkiStep, PTL DEF CPSpec, Spec

-----------------------------------------------------------------------------
(* Sequences of files. *)

LEMMA SeqSetConcat ==
  ASSUME NEW S, NEW p \in Seq(S), NEW q \in Seq(S)
  PROVE  p \o q \in Seq(S) /\ SeqSet(p \o q) = SeqSet(p) \cup SeqSet(q)
<1>1. p \o q \in Seq(S) OBVIOUS
<1>2. ASSUME NEW i \in DOMAIN (p \o q)
      PROVE  (p \o q)[i] \in SeqSet(p) \cup SeqSet(q)
  BY DEF SeqSet
<1>3. ASSUME NEW i \in DOMAIN p PROVE p[i] \in SeqSet(p \o q)
  <2>1. i \in DOMAIN (p \o q) /\ (p \o q)[i] = p[i] OBVIOUS
  <2> QED BY <2>1 DEF SeqSet
<1>4. ASSUME NEW i \in DOMAIN q PROVE q[i] \in SeqSet(p \o q)
  <2>1. /\ Len(p) + i \in DOMAIN (p \o q)
        /\ (p \o q)[Len(p) + i] = q[i]
    OBVIOUS
  <2> QED BY <2>1 DEF SeqSet
<1> QED BY <1>1, <1>2, <1>3, <1>4 DEF SeqSet

LEMMA SeqSetTail ==
  ASSUME NEW S, NEW q \in Seq(S), q # <<>>
  PROVE  /\ Head(q) \in SeqSet(q) /\ Tail(q) \in Seq(S)
         /\ SeqSet(q) = {Head(q)} \cup SeqSet(Tail(q))
         /\ \A k \in DOMAIN Tail(q) : k + 1 \in DOMAIN q /\ Tail(q)[k] = q[k + 1]
         /\ Len(Tail(q)) = Len(q) - 1
<1>1. /\ Len(Tail(q)) = Len(q) - 1 /\ Tail(q) \in Seq(S)
      /\ \A k \in DOMAIN Tail(q) : k + 1 \in DOMAIN q /\ Tail(q)[k] = q[k + 1]
      /\ 1 \in DOMAIN q /\ Head(q) = q[1]
  OBVIOUS
<1>2. ASSUME NEW i \in DOMAIN q
      PROVE  q[i] \in {Head(q)} \cup SeqSet(Tail(q))
  <2>1. CASE i # 1
    <3>1. i - 1 \in DOMAIN Tail(q) /\ Tail(q)[i - 1] = q[i] BY <2>1
    <3> QED BY <3>1 DEF SeqSet
  <2> QED BY <1>1, <2>1
<1>3. ASSUME NEW i \in DOMAIN Tail(q) PROVE Tail(q)[i] \in SeqSet(q)
  BY <1>1 DEF SeqSet
<1>4. Head(q) \in SeqSet(q)
  BY <1>1 DEF SeqSet
<1>5. SeqSet(q) = {Head(q)} \cup SeqSet(Tail(q))
  BY <1>2, <1>3, <1>4 DEF SeqSet
<1> QED BY <1>1, <1>4, <1>5

LEMMA SeqSetSmall ==
  ASSUME NEW S, NEW x \in S
  PROVE  /\ <<>> \in Seq(S) /\ SeqSet(<<>>) = {}
         /\ <<x>> \in Seq(S) /\ SeqSet(<<x>>) = {x} /\ Len(<<x>>) = 1
BY DEF SeqSet

\* The files of the slice: the names differ where it matters.
LEMMA StaticFiles ==
  /\ Statics \in Seq(SeqSet(Statics))
  /\ Service \in SeqSet(Statics) /\ Objects \notin SeqSet(Statics)
  /\ Objects # Service
  /\ SeqSet(Extensions) \subseteq SeqSet(Statics) \ {Service}
  /\ SeqSet(Extensions) \cap SeqSet(Admission) = {}
  /\ SeqSet(Admission) \subseteq SeqSet(Statics)
<1> DEFINE Last == <<"encryption-provider-config", "api-service">>
           E == {"authentication-token-webhook", "authorization-webhook",
                 "audit-webhook"}
           T == {"egress-selector-config", "authentication-config",
                 "authorization-config", "admission-config", "audit-policy"}
           A == {"validating/static.json", "mutating/static.json"}
           L == {"encryption-provider-config", "api-service"}
           F == E \cup T \cup A \cup L
<1>1. Extensions \in Seq(F) /\ SeqSet(Extensions) = E
  BY DEF SeqSet, Extensions
<1>2. Texts \in Seq(F) /\ SeqSet(Texts) = T
  BY DEF SeqSet, Texts
<1>3. Admission \in Seq(F) /\ SeqSet(Admission) = A
  BY DEF SeqSet, Admission
<1>4. Last \in Seq(F) /\ SeqSet(Last) = L
  BY DEF SeqSet
<1>5. /\ Service \in L /\ Objects \notin F /\ Objects # Service
      /\ Service \notin E /\ E \cap A = {}
  BY DEF Service, Objects
<1> DEFINE ET == Extensions \o Texts
           ETA == ET \o Admission
<1>6. Statics = ETA \o Last
  BY DEF Statics
<1> HIDE DEF Last, E, T, A, L, F
<1>7. ET \in Seq(F) /\ SeqSet(ET) = E \cup T
  BY <1>1, <1>2, SeqSetConcat
<1> HIDE DEF ET
<1>8. ETA \in Seq(F) /\ SeqSet(ETA) = E \cup T \cup A
  BY <1>3, <1>7, SeqSetConcat
<1> HIDE DEF ETA
<1>9. Statics \in Seq(F) /\ SeqSet(Statics) = E \cup T \cup A \cup L
  BY <1>4, <1>6, <1>8, SeqSetConcat
<1>10. SeqSet(Statics) = F
  BY <1>9 DEF F
<1> QED BY <1>1, <1>3, <1>5, <1>9, <1>10

LEMMA Constants ==
  /\ {APIServer, APIClient, WebhookServer} \subseteq CAs
  /\ ExtensionClient \in LeafNames \ Nodes
  /\ LeafNames \cap (SeqSet(Statics) \cup {Objects}) = {}
  /\ ClientConfs \subseteq LeafNames
  /\ SeqSet(Extensions) \subseteq Confs
  /\ Requests \subseteq DOMAIN Leaves
  /\ \E i \in Requests : Leaves[i].signer = WebhookServer
  /\ Absent \notin Data /\ Torn \notin Data /\ NoKey \notin Data
BY ControlPlaneConstants, StaticFiles
   DEF ClientConfs, LeafNames, Requests, Confs

-----------------------------------------------------------------------------
(* What a file is made of, once it is due. *)

Finished(f) == \E i \in DOMAIN Leaves : i < idx /\ Leaves[i].name = f
RequestsDone == \A i \in Requests : i < idx

Due(c) ==
  IF c = Objects THEN idx > Len(Leaves)
  ELSE IF c \in SeqSet(Statics) THEN RequestsDone
  ELSE Finished(c)

Settled(f) == f \in DOMAIN caMap \/ Finished(f)

LEMMA SettledStays ==
  ASSUME ChainInv, [Next]_vars, NEW f \in Names, Settled(f)
  PROVE  CertData(f)' = CertData(f) /\ KeyData(f)' = KeyData(f)
<1>1. CASE pc \in Working /\ Step
  <2>1. f # cur
    BY <1>1, RequestsTyped, ConstantsOK
       DEF ChainInv, AtWork, Kept, Leaf, Working, Settled, Finished
  <2>2. certFile'[f] = certFile[f] /\ keyFile'[f] = keyFile[f]
    BY <1>1, <2>1
       DEF Step, Start, Pick, Read, Generate, OpenCert, PutCert, OpenKey,
           PutKey, Written, files, ChainInv, FileType
  <2> QED BY <2>2 DEF CertData, KeyData
<1>2. CASE Expire
  <2>1. PICK g \in Names :
          certFile[g] \in Cert
          /\ certFile' = [certFile EXCEPT ![g].valid = FALSE]
    BY <1>2 DEF Expire, Valid
  <2>2. keyFile' = keyFile BY <1>2 DEF Expire
  <2>3. /\ certFile[f] \in Cert <=> certFile'[f] \in Cert
        /\ certFile[f] \in Cert => /\ certFile'[f].pub = certFile[f].pub
                                   /\ certFile'[f].by = certFile[f].by
    BY <2>1 DEF ChainInv, FileType, Cert
  <2> QED BY <2>2, <2>3 DEF CertData, KeyData
<1>3. CASE UNCHANGED files
  BY <1>3 DEF files, CertData, KeyData
<1>4. (pc \in Working /\ Step) \/ Expire \/ UNCHANGED files
  BY DEF Next, Step, Stop, Crash, Gone, vars, Start, Pick, Working, Read,
         Generate, OpenCert, PutCert, OpenKey, PutKey, Written
<1> QED BY <1>1, <1>2, <1>3, <1>4

\* The authority of a finished request is in caMap, and its files fit.
LEMMA FinishedFits ==
  ASSUME ChainInv, NEW f, Finished(f)
  PROVE  /\ certFile[f] \in Cert /\ keyFile[f] \in Keys
         /\ certFile[f].pub = keyFile[f]
BY DEF ChainInv, Issued, Pair, Finished, Cert

LEMMA RequestsDoneSettled ==
  ASSUME ChainInv, RequestsDone
  PROVE  Settled(WebhookServer) /\ Settled(ExtensionClient)
<1>1. PICK i \in Requests : Leaves[i].signer = WebhookServer
  BY Constants
<1>2. WebhookServer \in DOMAIN caMap
  BY <1>1, Constants DEF RequestsDone, ChainInv, Issued
<1>3. PICK j \in DOMAIN Leaves : Leaves[j].name = ExtensionClient
  BY Constants DEF LeafNames
<1>4. j \in Requests
  BY <1>3, Constants DEF Requests
<1> QED BY <1>2, <1>3, <1>4 DEF RequestsDone, Settled, Finished

LEMMA ExtensionClientFinished ==
  ASSUME RequestsDone
  PROVE  Finished(ExtensionClient)
<1>1. PICK j \in DOMAIN Leaves : Leaves[j].name = ExtensionClient
  BY Constants DEF LeafNames
<1> QED BY <1>1, Constants DEF RequestsDone, Finished, Requests

LEMMA ClientSettled ==
  ASSUME ChainInv, NEW c \in ClientConfs, Finished(c)
  PROVE  Settled(APIServer)
<1>1. PICK i \in DOMAIN Leaves : Leaves[i].name = c /\ i < idx
  BY DEF Finished
<1>2. PICK k \in DOMAIN Leaves : Leaves[k].name = c /\ Leaves[k].signer = APIClient
  BY DEF ClientConfs
<1>3. i = k
  BY <1>1, <1>2, ConstantsOK
<1>4. PICK j \in Requests : j < i /\ Leaves[j].signer = APIServer
  BY <1>2, <1>3, ControlPlaneConstants
<1>5. j < idx /\ j \in DOMAIN Leaves
  BY <1>1, <1>4, Constants, RequestsTyped DEF ChainInv, AtWork
<1> QED BY <1>4, <1>5 DEF ChainInv, Issued, Settled

LEMMA AllDone ==
  ASSUME ChainInv, idx > Len(Leaves)
  PROVE  RequestsDone
BY Constants, RequestsTyped DEF RequestsDone, ChainInv, AtWork

LEMMA BundleStays ==
  ASSUME ChainInv, [Next]_vars, RequestsDone
  PROVE  Bundle(WebhookServer)' = Bundle(WebhookServer)
<1>1. WebhookServer \in Names BY Constants DEF Names
<1> QED BY <1>1, RequestsDoneSettled, SettledStays DEF Bundle

\* What a due file is made of does not change.
LEMMA ContentStays ==
  ASSUME ChainInv, [Next]_vars, NEW c \in Confs, Due(c)
  PROVE  Content(c)' = Content(c)
<1>1. /\ WebhookServer \in Names /\ ExtensionClient \in Names
      /\ APIServer \in Names /\ ClientConfs \subseteq Names
  BY Constants DEF Names
<1>2. CASE c \in ClientConfs
  <2>1. Finished(c) BY <1>2, Constants DEF Due
  <2>2. Settled(APIServer) /\ Settled(c)
    BY <1>2, <2>1, ClientSettled DEF Settled
  <2>3. Kubeconfig(APIServer, c)' = Kubeconfig(APIServer, c)
    BY <1>1, <1>2, <2>2, SettledStays DEF Kubeconfig
  <2> QED BY <1>2, <2>3 DEF Content
<1>3. CASE c \notin ClientConfs
  <2>1. RequestsDone
    BY <1>3, AllDone DEF Due, Confs
  <2>2. /\ Bundle(WebhookServer)' = Bundle(WebhookServer)
        /\ Kubeconfig(WebhookServer, ExtensionClient)'
             = Kubeconfig(WebhookServer, ExtensionClient)
    BY <1>1, <2>1, RequestsDoneSettled, SettledStays, BundleStays DEF Kubeconfig
  <2>3. CASE c \in SeqSet(Extensions)
    <3>1. c # Objects /\ c \notin SeqSet(Admission)
      BY <2>3, StaticFiles
    <3> QED BY <1>3, <2>2, <2>3, <3>1 DEF Content
  <2>4. CASE c \in SeqSet(Admission) \cup {Objects}
    <3>1. c \notin SeqSet(Extensions)
      BY <2>4, StaticFiles
    <3> QED BY <1>3, <2>2, <2>4, <3>1 DEF Content
  <2>5. CASE c \notin SeqSet(Extensions) \cup SeqSet(Admission) \cup {Objects}
    BY <1>3, <2>5 DEF Content, Text
  <2> QED BY <2>3, <2>4, <2>5
<1> QED BY <1>2, <1>3

-----------------------------------------------------------------------------
(* The invariant. *)

Files == Confs \cup {Service}

QueueInv ==
  /\ \A c \in SeqSet(queue) : Due(c)
  /\ ~err => \A k \in DOMAIN queue : queue[k] = Objects => k = Len(queue)
  /\ opened => Head(queue) # Service /\ (err => Lenient(Head(queue)))
  /\ pc = "done" => ~err
  /\ pc = "down" => idx = 1

CurrentInv ==
  ~err =>
    /\ RequestsDone /\ Service \notin SeqSet(queue) =>
         objects = Bundle(WebhookServer)
    /\ \A c \in Confs :
         Due(c) /\ c \notin SeqSet(queue) => conf[c] = Content(c)

CPInv == ChainInv /\ CPTypeOK /\ QueueInv /\ CurrentInv /\ IdentitiesMatch

\* When Init begins, nothing is due.
LEMMA NothingDue ==
  ASSUME idx = 1
  PROVE  ~RequestsDone /\ \A c : ~Due(c)
BY Constants, RequestsTyped DEF RequestsDone, Due, Finished

LEMMA ContentIsData ==
  ASSUME NEW c
  PROVE  Content(c) \in Data /\ Bundle(WebhookServer) \in Data
BY DEF Content, Kubeconfig, Bundle, Text, Data, CertData, KeyData, Cert

LEMMA CPInitInv == CPInit => CPInv
<1> SUFFICES ASSUME CPInit PROVE CPInv
  OBVIOUS
<1>1. ChainInv BY ChainInit DEF CPInit
<1>2. idx = 1 /\ pc = "down" BY DEF CPInit, Init
<1>3. SeqSet(queue) = {} /\ queue = <<>> BY DEF CPInit, SeqSet
<1>4. CPTypeOK
  <2>1. conf \in [Confs -> Data \cup {Absent, Torn}]
    BY DEF CPInit
  <2>2. queue \in Seq(Confs \cup {Service}) /\ expiries \in 0 .. MaxExpiries
    BY ControlPlaneConstants DEF CPInit
  <2> QED BY <1>3, <2>1, <2>2 DEF CPInit, CPTypeOK
<1>5. QueueInv
  BY <1>2, <1>3 DEF CPInit, QueueInv
<1>6. CurrentInv
  BY <1>2, NothingDue DEF CurrentInv
<1>7. IdentitiesMatch
  BY Constants DEF CPInit, IdentitiesMatch, Confs
<1> QED BY <1>1, <1>4, <1>5, <1>6, <1>7 DEF CPInv

\* The files after a request.
LEMMA AfterRequest ==
  ASSUME NEW i \in DOMAIN Leaves
  PROVE  LET q == ConfsAfter(i) IN
         /\ q \in Seq(Files)
         /\ SeqSet(q) =
              (IF Leaves[i].signer = APIClient THEN {Leaves[i].name} ELSE {})
              \cup (IF i \in Requests /\ i + 1 \notin Requests
                      THEN SeqSet(Statics) ELSE {})
              \cup (IF i = Len(Leaves) THEN {Objects} ELSE {})
         /\ \A k \in DOMAIN q : q[k] = Objects => k = Len(q)
<1> DEFINE A == IF Leaves[i].signer = APIClient THEN <<Leaves[i].name>> ELSE <<>>
           B == IF i \in Requests /\ i + 1 \notin Requests THEN Statics ELSE <<>>
           C == IF i = Len(Leaves) THEN <<Objects>> ELSE <<>>
           AB == A \o B
           SA == IF Leaves[i].signer = APIClient THEN {Leaves[i].name} ELSE {}
           SB == IF i \in Requests /\ i + 1 \notin Requests
                   THEN SeqSet(Statics) ELSE {}
           SC == IF i = Len(Leaves) THEN {Objects} ELSE {}
<1>1. ConfsAfter(i) = AB \o C BY DEF ConfsAfter
<1>2. A \in Seq(Files) /\ SeqSet(A) = SA
  <2>1. Leaves[i].signer = APIClient => Leaves[i].name \in Files
    BY DEF Files, Confs, ClientConfs
  <2>2. Service \in Files BY DEF Files
  <2> QED BY <2>1, <2>2, SeqSetSmall
<1>3. B \in Seq(Files) /\ SeqSet(B) = SB
  <2>1. <<>> \in Seq(Files) /\ SeqSet(<<>>) = {} BY DEF SeqSet
  <2>2. SeqSet(Statics) \subseteq Files BY DEF Files, Confs
  <2>3. Statics \in Seq(Files) BY <2>2, StaticFiles
  <2> QED BY <2>1, <2>3
<1>4. C \in Seq(Files) /\ SeqSet(C) = SC /\ Len(C) \in {0, 1}
  <2>1. Objects \in Files /\ Len(<<>>) = 0 BY DEF Files, Confs
  <2> QED BY <2>1, SeqSetSmall
<1>5. Objects \notin SA \cup SB
  BY Constants, StaticFiles DEF LeafNames
<1> HIDE DEF A, B, C, SA, SB, SC
<1>6. AB \in Seq(Files) /\ SeqSet(AB) = SA \cup SB
  BY <1>2, <1>3, SeqSetConcat
<1> HIDE DEF AB
<1>7. AB \o C \in Seq(Files) /\ SeqSet(AB \o C) = SA \cup SB \cup SC
  BY <1>4, <1>6, SeqSetConcat
<1>8. ASSUME NEW k \in DOMAIN (AB \o C), (AB \o C)[k] = Objects
      PROVE  k = Len(AB \o C)
  <2>1. k \notin DOMAIN AB
    BY <1>4, <1>5, <1>6, <1>8 DEF SeqSet
  <2>2. Len(AB \o C) = Len(AB) + Len(C) /\ k \in 1 .. Len(AB \o C)
    BY <1>4, <1>6
  <2>3. DOMAIN AB = 1 .. Len(AB) /\ Len(AB) \in Nat BY <1>6
  <2>4. Len(C) = 0 \/ Len(C) = 1 BY <1>4
  <2> HIDE DEF C
  <2>5. k > Len(AB) BY <2>1, <2>2, <2>3, <2>4
  <2>6. k \in Nat /\ k <= Len(AB) + Len(C) BY <2>2
  <2>7. \A a, l, n \in Nat : l > a /\ l <= a + n /\ (n = 0 \/ n = 1) => l = a + n
    OBVIOUS
  <2>8. Len(C) \in Nat BY <2>4
  <2>9. k = Len(AB) + Len(C) BY <2>3, <2>4, <2>5, <2>6, <2>7, <2>8
  <2> QED BY <2>2, <2>9
<1> QED BY <1>1, <1>7, <1>8 DEF SA, SB, SC

-----------------------------------------------------------------------------
(* The steps. *)

\* A step that writes no configuration file and leaves the queue as it is.
LEMMA QuietStep ==
  ASSUME CPInv, [Next]_vars, UNCHANGED <<conf, queue, opened, err, objects, idx>>,
         pc' = "done" => ~err, pc' # "down", queue # <<>> => pc' = "pick",
         expiries' \in 0 .. MaxExpiries
  PROVE  CPInv'
<1> USE DEF CPInv
<1>1. ChainInv' BY ChainNext
<1>2. CPTypeOK' BY DEF CPTypeOK
<1>3. (\A c : Due(c)' <=> Due(c)) /\ (RequestsDone' <=> RequestsDone)
      /\ SeqSet(queue)' = SeqSet(queue)
  BY DEF Due, Finished, RequestsDone, SeqSet
<1>4. QueueInv' BY <1>3 DEF QueueInv, Lenient
<1>5. CurrentInv'
  BY <1>3, ContentStays, BundleStays DEF CurrentInv
<1>6. IdentitiesMatch' BY DEF IdentitiesMatch
<1> QED BY <1>1, <1>2, <1>4, <1>5, <1>6

LEMMA RequestWritten ==
  ASSUME CPInv, CPNext, Certificates, pc = "written", cur \in LeafNames
  PROVE  CPInv'
<1> USE DEF CPInv
<1>1. ChainInv' BY PkiStep, ChainNext
<1>2. /\ Written /\ queue = <<>> /\ ~err /\ ~opened
      /\ queue' = ConfsAfter(idx)
      /\ UNCHANGED <<conf, opened, err, objects, expiries>>
  BY DEF Certificates, Refused, Step, Start, Pick, Read, Generate, OpenCert,
         PutCert, OpenKey, PutKey, CPTypeOK
<1>3. idx \in DOMAIN Leaves /\ cur \notin CAs
  BY ConstantsOK DEF ChainInv, AtWork, Working
<1>4. /\ idx' = idx + 1 /\ pc' = "pick" /\ UNCHANGED files
      /\ cur = Leaves[idx].name
  BY <1>2, <1>3, RequestsTyped DEF Written, ChainInv, AtWork, Working, Leaf
<1>5. idx \in Nat \ {0} /\ idx <= Len(Leaves) /\ DOMAIN Leaves = 1 .. Len(Leaves)
      /\ Len(Leaves) \in Nat
  BY <1>3, RequestsTyped
<1> DEFINE Last == idx \in Requests /\ idx + 1 \notin Requests
           Q == ConfsAfter(idx)
<1>6. /\ Q \in Seq(Files)
      /\ SeqSet(Q) =
           (IF Leaves[idx].signer = APIClient THEN {Leaves[idx].name} ELSE {})
           \cup (IF Last THEN SeqSet(Statics) ELSE {})
           \cup (IF idx = Len(Leaves) THEN {Objects} ELSE {})
      /\ \A k \in DOMAIN Q : Q[k] = Objects => k = Len(Q)
  BY <1>3, AfterRequest
<1>7. SeqSet(queue)' = SeqSet(Q) /\ SeqSet(queue) = {}
  BY <1>2 DEF SeqSet
<1> HIDE DEF Q
\* The requests before the nodes are done exactly when the last of them is.
<1>8. RequestsDone' <=> RequestsDone \/ Last
  <2>1. ASSUME Last, NEW j \in Requests PROVE j < idx + 1
    <3>1. j \in DOMAIN Leaves BY Constants
    <3>2. CASE idx + 1 \in DOMAIN Leaves
      <4>1. Leaves[idx + 1].name \in Nodes BY <2>1, <3>2 DEF Requests
      <4> QED BY <3>2, <4>1, ControlPlaneConstants
    <3>3. CASE idx + 1 \notin DOMAIN Leaves BY <1>5, <3>1, <3>3
    <3> QED BY <3>2, <3>3
  <2>2. ASSUME RequestsDone' , ~Last PROVE RequestsDone
    <3>1. \A j \in Requests : j < idx + 1 BY <1>4, <2>2 DEF RequestsDone
    <3>2. idx + 1 \notin Requests BY <1>5, <3>1
    <3>3. idx \notin Requests BY <2>2, <3>2
    <3>4. \A j \in Requests : j \in DOMAIN Leaves BY Constants
    <3> QED BY <1>5, <3>1, <3>3, <3>4 DEF RequestsDone
  <2>3. ASSUME RequestsDone PROVE RequestsDone'
    <3>1. \A j \in Requests : j \in DOMAIN Leaves BY Constants
    <3> QED BY <1>4, <1>5, <2>3, <3>1 DEF RequestsDone
  <2> QED BY <1>4, <2>1, <2>2, <2>3 DEF RequestsDone
<1>9. \A f : Finished(f)' <=> Finished(f) \/ f = Leaves[idx].name
  <2>1. \A i \in DOMAIN Leaves : i < idx' <=> i < idx \/ i = idx
    BY <1>4, <1>5
  <2> QED BY <1>3, <2>1 DEF Finished
<1>10. idx' > Len(Leaves) <=> idx = Len(Leaves)
  <2>1. \A a, n \in Nat : a <= n => (a + 1 > n <=> a = n) OBVIOUS
  <2> QED BY <1>4, <1>5, <2>1
<1>11. \A c \in SeqSet(Q) : Due(c)'
  <2>1. Leaves[idx].name \notin SeqSet(Statics) \cup {Objects}
    BY <1>3, RequestsTyped, Constants
  <2>2. Objects \notin SeqSet(Statics) BY StaticFiles
  <2> QED BY <1>6, <1>8, <1>9, <1>10, <2>1, <2>2 DEF Due
<1>12. ASSUME NEW c \in Confs, Due(c)', c \notin SeqSet(Q) PROVE Due(c)
  <2>1. CASE c = Objects
    BY <1>6, <1>10, <1>12, <2>1 DEF Due
  <2>2. CASE c # Objects /\ c \in SeqSet(Statics)
    BY <1>6, <1>8, <1>12, <2>2 DEF Due
  <2>3. CASE c # Objects /\ c \notin SeqSet(Statics)
    <3>1. PICK k \in DOMAIN Leaves :
            Leaves[k].name = c /\ Leaves[k].signer = APIClient
      BY <2>3 DEF Confs, ClientConfs
    <3>2. c # Leaves[idx].name
      BY <1>3, <1>6, <1>12, <3>1, ConstantsOK
    <3> QED BY <1>9, <1>12, <2>3, <3>2 DEF Due
  <2> QED BY <2>1, <2>2, <2>3
<1>13. \A c : Content(c)' = Content(c) /\ Bundle(WebhookServer)' = Bundle(WebhookServer)
  BY <1>4 DEF files, Content, Kubeconfig, Bundle, Text, CertData, KeyData
<1>14. CPTypeOK'
  BY <1>2, <1>4, <1>6 DEF CPTypeOK, Files, Q
<1>15. QueueInv'
  BY <1>2, <1>4, <1>6, <1>7, <1>11 DEF QueueInv, Q
<1>16. CurrentInv'
  <2>1. ASSUME RequestsDone', Service \notin SeqSet(Q)
        PROVE  objects' = Bundle(WebhookServer)'
    <3>1. RequestsDone BY <1>6, <1>8, <2>1, StaticFiles
    <3> QED BY <1>2, <1>7, <1>13, <3>1 DEF CurrentInv
  <2>2. ASSUME NEW c \in Confs, Due(c)', c \notin SeqSet(Q)
        PROVE  conf'[c] = Content(c)'
    <3>1. Due(c) BY <1>12, <2>2
    <3> QED BY <1>2, <1>7, <1>13, <3>1 DEF CurrentInv
  <2> QED BY <1>7, <2>1, <2>2 DEF CurrentInv
<1>17. IdentitiesMatch'
  BY <1>2 DEF IdentitiesMatch
<1> QED BY <1>1, <1>14, <1>15, <1>16, <1>17

LEMMA CertificatesStep ==
  ASSUME CPInv, CPNext, Certificates, ~(pc = "written" /\ cur \in LeafNames)
  PROVE  CPInv'
<1> USE DEF CPInv
<1>1. Step /\ queue = <<>> /\ ~err /\ queue' = <<>>
      /\ UNCHANGED <<conf, opened, err, expiries>>
  BY DEF Certificates, Refused
<1>2. [Next]_vars BY PkiStep
<1>3. idx' = idx /\ pc' # "down"
  <2>1. CASE Written
    <3>1. pc \in Working BY <2>1 DEF Written, Working
    <3>2. cur \in CAs BY <2>1, <3>1, CurIsName DEF Names, Written
    <3> QED BY <2>1, <3>2 DEF Written
  <2>2. CASE ~Written
    BY <1>1, <2>2 DEF Step, Start, Pick, Read, Generate, OpenCert, PutCert,
                      OpenKey, PutKey
  <2> QED BY <2>1, <2>2
<1>4. CASE pc # "down"
  <2>1. objects' = objects BY <1>4 DEF Certificates
  <2>2. expiries' \in 0 .. MaxExpiries BY <1>1 DEF CPTypeOK
  <2> QED BY <1>1, <1>2, <1>3, <2>1, <2>2, QuietStep
<1>5. CASE pc = "down"
  <2>1. idx' = 1 /\ objects' = NoKey
    BY <1>3, <1>5 DEF Certificates, QueueInv
  <2>2. pc' = "pick"
    BY <1>1, <1>5 DEF Step, Start, Pick, Read, Generate, OpenCert, PutCert,
                      OpenKey, PutKey, Written
  <2>3. ChainInv' BY <1>2, ChainNext
  <2>4. CPTypeOK' BY <1>1, <2>1 DEF CPTypeOK
  <2>5. SeqSet(queue)' = {} /\ ~opened' BY <1>1 DEF SeqSet, CPTypeOK
  <2>6. QueueInv' BY <1>1, <2>1, <2>2, <2>5 DEF QueueInv
  <2>7. ~RequestsDone' /\ \A c : ~Due(c)'
    BY <2>1, Constants, RequestsTyped DEF RequestsDone, Due, Finished
  <2>8. CurrentInv' BY <2>7 DEF CurrentInv
  <2>9. IdentitiesMatch' BY <1>1 DEF IdentitiesMatch
  <2> QED BY <2>3, <2>4, <2>6, <2>8, <2>9
<1> QED BY <1>4, <1>5

LEMMA OpenConfStep ==
  ASSUME CPInv, CPNext, OpenConf
  PROVE  CPInv'
<1> USE DEF CPInv
<1>1. ChainInv' BY PkiStep, ChainNext
<1> DEFINE h == Head(queue)
<1>2. /\ queue # <<>> /\ queue \in Seq(Files)
      /\ conf' = [conf EXCEPT ![h] = Torn] /\ opened' = TRUE
      /\ UNCHANGED <<vars, queue, err, objects, expiries>>
      /\ err => Lenient(h)
  BY DEF OpenConf, Refused, CPTypeOK, Files
<1>3. h \in SeqSet(queue) /\ h # Service
  BY <1>2, SeqSetTail DEF OpenConf
<1>4. h \in Confs
  <2>1. h \in Files BY <1>2
  <2> QED BY <1>3, <2>1 DEF Files
<1>5. conf' \in [Confs -> Data \cup {Absent, Torn}] /\ conf'[h] = Torn
      /\ \A c \in Confs \ {h} : conf'[c] = conf[c]
  BY <1>2, <1>4 DEF CPTypeOK
<1>6. /\ SeqSet(queue)' = SeqSet(queue) /\ (RequestsDone' <=> RequestsDone)
      /\ \A c : (Due(c)' <=> Due(c)) /\ Content(c)' = Content(c)
      /\ Bundle(WebhookServer)' = Bundle(WebhookServer)
  BY <1>2 DEF vars, files, Due, Finished, RequestsDone, SeqSet, Content,
              Kubeconfig, Bundle, Text, CertData, KeyData
<1> HIDE DEF h
<1>7. CPTypeOK' BY <1>2, <1>5 DEF CPTypeOK, vars, h
<1>8. QueueInv' BY <1>2, <1>3, <1>6 DEF QueueInv, Lenient, vars, h
<1>9. CurrentInv' BY <1>2, <1>3, <1>5, <1>6 DEF CurrentInv
<1>10. IdentitiesMatch'
  BY <1>5, Constants DEF IdentitiesMatch, Confs
<1> QED BY <1>1, <1>7, <1>8, <1>9, <1>10

\* What a file that is due holds names a key that fits its certificate.
LEMMA DueFits ==
  ASSUME ChainInv, NEW c \in ClientConfs \cup SeqSet(Extensions), Due(c)
  PROVE  Content(c).cert # <<>> /\ Content(c).cert[1] = Content(c).key
<1>1. ASSUME NEW f, Finished(f)
      PROVE  CertData(f) # <<>> /\ CertData(f)[1] = KeyData(f)
  BY <1>1, FinishedFits DEF CertData, KeyData
<1>2. CASE c \in ClientConfs
  <2>1. Finished(c) BY <1>2, Constants DEF Due
  <2>2. Content(c) = Kubeconfig(APIServer, c)
    <3>1. c \notin SeqSet(Statics) \cup {Objects} BY <1>2, Constants
    <3> QED BY <1>2, <3>1, StaticFiles DEF Content
  <2> QED BY <1>1, <2>1, <2>2 DEF Kubeconfig
<1>3. CASE c \notin ClientConfs
  <2>1. c \in SeqSet(Extensions) /\ c \in SeqSet(Statics) /\ c # Objects
        /\ c \notin SeqSet(Admission)
    BY <1>3, StaticFiles
  <2>2. RequestsDone BY <2>1 DEF Due
  <2>3. Content(c) = Kubeconfig(WebhookServer, ExtensionClient)
    BY <1>3, <2>1 DEF Content
  <2> QED BY <1>1, <2>2, <2>3, ExtensionClientFinished DEF Kubeconfig
<1> QED BY <1>2, <1>3

LEMMA PutConfStep ==
  ASSUME CPInv, CPNext, PutConf
  PROVE  CPInv'
<1> USE DEF CPInv
<1>1. ChainInv' BY PkiStep, ChainNext
<1> DEFINE h == Head(queue)
           new == IF h = Objects THEN objects ELSE Content(h)
<1>2. /\ opened /\ queue # <<>> /\ queue \in Seq(Files)
      /\ conf' = [conf EXCEPT ![h] = new] /\ opened' = FALSE
      /\ queue' = Tail(queue)
      /\ UNCHANGED <<vars, err, objects, expiries>>
  BY DEF PutConf, CPTypeOK, Files
<1>3. /\ h \in SeqSet(queue) /\ Tail(queue) \in Seq(Files)
      /\ SeqSet(queue) = {h} \cup SeqSet(Tail(queue))
      /\ \A k \in DOMAIN Tail(queue) :
           k + 1 \in DOMAIN queue /\ Tail(queue)[k] = queue[k + 1]
      /\ Len(Tail(queue)) = Len(queue) - 1
  BY <1>2, SeqSetTail
<1>4. h \in Confs /\ Due(h)
  <2>1. h \in Files BY <1>2
  <2>2. h # Service BY <1>2 DEF QueueInv
  <2> QED BY <1>3, <2>1, <2>2 DEF Files, QueueInv
\* The objects of the syncer come last, after the API service.
<1>5. new = Content(h)
  <2>1. CASE h = Objects
    <3>1. ~err
      BY <1>2, <2>1, StaticFiles DEF QueueInv, Lenient
    <3>2. queue[1] = Objects /\ 1 \in DOMAIN queue
      BY <1>2, <2>1
    <3>3. 1 = Len(queue) BY <3>1, <3>2 DEF QueueInv
    <3>4. Service \notin SeqSet(queue)
      BY <1>2, <2>1, <3>2, <3>3, StaticFiles DEF SeqSet
    <3>5. RequestsDone BY <1>4, <2>1, AllDone DEF Due
    <3>6. Content(Objects) = Bundle(WebhookServer)
      BY Constants, StaticFiles DEF Content
    <3> QED BY <2>1, <3>1, <3>4, <3>5, <3>6 DEF CurrentInv
  <2> QED BY <2>1
<1> HIDE DEF new
<1>6. conf' \in [Confs -> Data \cup {Absent, Torn}] /\ conf'[h] = Content(h)
      /\ \A c \in Confs \ {h} : conf'[c] = conf[c]
  BY <1>2, <1>4, <1>5, ContentIsData DEF CPTypeOK
<1>7. /\ SeqSet(queue)' = SeqSet(Tail(queue)) /\ (RequestsDone' <=> RequestsDone)
      /\ \A c : (Due(c)' <=> Due(c)) /\ Content(c)' = Content(c)
      /\ Bundle(WebhookServer)' = Bundle(WebhookServer)
  BY <1>2 DEF vars, files, Due, Finished, RequestsDone, SeqSet, Content,
              Kubeconfig, Bundle, Text, CertData, KeyData
<1>8. CPTypeOK' BY <1>2, <1>3, <1>6 DEF CPTypeOK, vars, Files
<1>9. QueueInv'
  <2>1. ASSUME ~err, NEW k \in DOMAIN Tail(queue), Tail(queue)[k] = Objects
        PROVE  k = Len(Tail(queue))
    <3>1. k + 1 = Len(queue) BY <1>3, <2>1 DEF QueueInv
    <3> QED BY <1>2, <1>3, <3>1
  <2> QED BY <1>2, <1>3, <1>7, <2>1 DEF QueueInv, vars
<1>10. h # Service
  BY <1>2 DEF QueueInv
<1>11. CurrentInv'
  <2>1. ASSUME ~err, RequestsDone, Service \notin SeqSet(Tail(queue))
        PROVE  objects = Bundle(WebhookServer)
    BY <1>3, <1>10, <2>1 DEF CurrentInv
  <2>2. ASSUME ~err, NEW c \in Confs, Due(c), c \notin SeqSet(Tail(queue))
        PROVE  conf'[c] = Content(c)
    BY <1>3, <1>6, <2>2 DEF CurrentInv
  <2> QED BY <1>2, <1>7, <2>1, <2>2 DEF CurrentInv
<1>12. IdentitiesMatch'
  <2>1. ASSUME NEW c \in ClientConfs \cup SeqSet(Extensions), conf'[c] \in Data
        PROVE  conf'[c].cert # <<>> /\ conf'[c].cert[1] = conf'[c].key
    <3>1. c \in Confs BY Constants DEF Confs
    <3>2. CASE c = h BY <1>4, <1>6, <3>2, DueFits
    <3>3. CASE c # h BY <1>6, <2>1, <3>1, <3>3 DEF IdentitiesMatch
    <3> QED BY <3>2, <3>3
  <2> QED BY <2>1 DEF IdentitiesMatch
<1> QED BY <1>1, <1>8, <1>9, <1>11, <1>12

LEMMA AddServiceStep ==
  ASSUME CPInv, CPNext, AddService
  PROVE  CPInv'
<1> USE DEF CPInv
<1>1. ChainInv' BY PkiStep, ChainNext
<1>2. /\ queue # <<>> /\ queue \in Seq(Files) /\ Head(queue) = Service
      /\ objects' = Bundle(WebhookServer) /\ queue' = Tail(queue)
      /\ UNCHANGED <<vars, conf, opened, err, expiries>>
  BY DEF AddService, CPTypeOK, Files
<1>3. /\ Tail(queue) \in Seq(Files)
      /\ SeqSet(queue) = {Service} \cup SeqSet(Tail(queue))
      /\ \A k \in DOMAIN Tail(queue) :
           k + 1 \in DOMAIN queue /\ Tail(queue)[k] = queue[k + 1]
      /\ Len(Tail(queue)) = Len(queue) - 1
  BY <1>2, SeqSetTail
<1>4. /\ SeqSet(queue)' = SeqSet(Tail(queue)) /\ (RequestsDone' <=> RequestsDone)
      /\ \A c : (Due(c)' <=> Due(c)) /\ Content(c)' = Content(c)
      /\ Bundle(WebhookServer)' = Bundle(WebhookServer)
  BY <1>2 DEF vars, files, Due, Finished, RequestsDone, SeqSet, Content,
              Kubeconfig, Bundle, Text, CertData, KeyData
<1>5. ~opened BY <1>2 DEF QueueInv
<1>6. CPTypeOK'
  BY <1>2, <1>3, <1>5, ContentIsData DEF CPTypeOK, vars, Files
<1>7. QueueInv'
  <2>1. ASSUME ~err, NEW k \in DOMAIN Tail(queue), Tail(queue)[k] = Objects
        PROVE  k = Len(Tail(queue))
    <3>1. k + 1 = Len(queue) BY <1>3, <2>1 DEF QueueInv
    <3> QED BY <1>2, <1>3, <3>1
  <2> QED BY <1>2, <1>3, <1>4, <1>5, <2>1 DEF QueueInv, vars
<1>8. CurrentInv'
  <2>1. ASSUME ~err, NEW c \in Confs, Due(c), c \notin SeqSet(Tail(queue))
        PROVE  conf[c] = Content(c)
    <3>1. c # Service
      BY StaticFiles, Constants, ControlPlaneConstants DEF Confs
    <3> QED BY <1>3, <2>1, <3>1 DEF CurrentInv
  <2> QED BY <1>2, <1>4, <2>1 DEF CurrentInv
<1>9. IdentitiesMatch' BY <1>2 DEF IdentitiesMatch
<1> QED BY <1>1, <1>6, <1>7, <1>8, <1>9

LEMMA ConfFailsStep ==
  ASSUME CPInv, CPNext, ConfFails
  PROVE  CPInv'
<1> USE DEF CPInv
<1>1. ChainInv' BY PkiStep, ChainNext
<1>2. /\ queue # <<>> /\ queue \in Seq(Files) /\ err' = TRUE /\ opened' = FALSE
      /\ queue' \in {SubSeq(queue, 3, Len(queue)), Tail(queue)}
      /\ UNCHANGED <<vars, conf, objects, expiries>>
  BY DEF ConfFails, CPTypeOK, Files
<1>3. queue' \in Seq(Files) /\ SeqSet(queue)' \subseteq SeqSet(queue)
  <2>1. CASE queue' = Tail(queue)
    BY <1>2, <2>1, SeqSetTail DEF SeqSet
  <2>2. CASE queue' = SubSeq(queue, 3, Len(queue))
    <3>1. /\ queue' \in Seq(Files)
          /\ \A k \in DOMAIN queue' : k + 2 \in DOMAIN queue /\ queue'[k] = queue[k + 2]
      BY <1>2, <2>2
    <3> QED BY <3>1 DEF SeqSet
  <2> QED BY <1>2, <2>1, <2>2
<1>4. pc = "pick" BY <1>2 DEF CPTypeOK
<1>5. \A c : Due(c)' <=> Due(c)
  BY <1>2 DEF vars, Due, Finished, RequestsDone
<1>6. CPTypeOK' BY <1>2, <1>3, <1>4 DEF CPTypeOK, vars, Files
<1>7. QueueInv' BY <1>2, <1>3, <1>4, <1>5 DEF QueueInv, vars
<1>8. CurrentInv' BY <1>2 DEF CurrentInv
<1>9. IdentitiesMatch' BY <1>2 DEF IdentitiesMatch
<1> QED BY <1>1, <1>6, <1>7, <1>8, <1>9

LEMMA ForgetStep ==
  ASSUME CPInv, CPNext, CPCrash \/ CPStop
  PROVE  CPInv'
<1> USE DEF CPInv
<1>1. ChainInv' BY PkiStep, ChainNext
<1>2. /\ idx' = 1 /\ pc' = "down" /\ queue' = <<>> /\ opened' = FALSE
      /\ err' = FALSE /\ objects' = NoKey /\ UNCHANGED <<conf, expiries>>
  BY DEF CPCrash, CPStop, Crash, Stop, Gone, Forget
<1>3. SeqSet(queue)' = {} BY <1>2 DEF SeqSet
<1>4. ~RequestsDone' /\ \A c : ~Due(c)'
  BY <1>2, Constants, RequestsTyped DEF RequestsDone, Due, Finished
<1>5. CPTypeOK'
  <2>1. <<>> \in Seq(Confs \cup {Service}) OBVIOUS
  <2>2. queue' \in Seq(Confs \cup {Service}) /\ (queue # <<>> => pc = "pick")'
    BY <1>2, <2>1
  <2>3. conf' \in [Confs -> Data \cup {Absent, Torn}] /\ expiries' \in 0 .. MaxExpiries
    BY <1>2 DEF CPTypeOK
  <2> QED BY <1>2, <2>2, <2>3 DEF CPTypeOK
<1>6. QueueInv' BY <1>2, <1>3 DEF QueueInv
<1>7. CurrentInv' BY <1>4 DEF CurrentInv
<1>8. IdentitiesMatch' BY <1>2 DEF IdentitiesMatch
<1> QED BY <1>1, <1>5, <1>6, <1>7, <1>8

LEMMA CPNextInv == CPInv /\ [CPNext]_cpVars => CPInv'
<1> SUFFICES ASSUME CPInv, [CPNext]_cpVars PROVE CPInv'
  OBVIOUS
<1> USE DEF CPInv
<1>1. CASE CPExpire
  <2>1. /\ UNCHANGED <<conf, queue, opened, err, objects, idx, pc>>
        /\ expiries' = expiries + 1 /\ expiries < MaxExpiries /\ Expire
    BY <1>1 DEF CPExpire, Expire, memory
  <2>2. expiries' \in 0 .. MaxExpiries
    BY <2>1, ControlPlaneConstants DEF CPTypeOK
  <2>3. [Next]_vars BY PkiStep
  <2>4. CASE pc # "down"
    BY <2>1, <2>2, <2>3, <2>4, QuietStep DEF CPTypeOK, QueueInv
  <2>5. CASE pc = "down"
    <3>1. ChainInv' BY <2>3, ChainNext
    <3>2. CPTypeOK' BY <2>1, <2>2 DEF CPTypeOK
    <3>3. idx' = 1 /\ SeqSet(queue)' = {} /\ queue = <<>> /\ ~opened
      BY <2>1, <2>5 DEF QueueInv, SeqSet, CPTypeOK
    <3>4. ~RequestsDone' /\ \A c : ~Due(c)'
      BY <3>3, Constants, RequestsTyped DEF RequestsDone, Due, Finished
    <3>5. QueueInv' /\ CurrentInv' /\ IdentitiesMatch'
      BY <2>1, <2>5, <3>3, <3>4 DEF QueueInv, CurrentInv, IdentitiesMatch
    <3> QED BY <3>1, <3>2, <3>5
  <2> QED BY <2>4, <2>5
<1>2. CASE UNCHANGED cpVars
  <2>1. UNCHANGED <<vars, conf, queue, opened, err, objects, expiries>>
    BY <1>2 DEF cpVars, memory
  <2>2. ChainInv' BY <2>1, ChainNext
  <2>3. (\A c : (Due(c)' <=> Due(c)) /\ Content(c)' = Content(c))
        /\ (RequestsDone' <=> RequestsDone) /\ SeqSet(queue)' = SeqSet(queue)
        /\ Bundle(WebhookServer)' = Bundle(WebhookServer)
    BY <2>1 DEF vars, files, Due, Finished, RequestsDone, SeqSet, Content,
                Kubeconfig, Bundle, Text, CertData, KeyData
  <2>4. CPTypeOK' BY <2>1 DEF CPTypeOK, vars
  <2>5. QueueInv' BY <2>1, <2>3 DEF QueueInv, Lenient, vars
  <2>6. CurrentInv' BY <2>1, <2>3 DEF CurrentInv
  <2>7. IdentitiesMatch' BY <2>1 DEF IdentitiesMatch
  <2> QED BY <2>2, <2>4, <2>5, <2>6, <2>7
<1>3. CASE CPNext
  BY <1>1, <1>3, RequestWritten, CertificatesStep, OpenConfStep, PutConfStep,
     AddServiceStep, ConfFailsStep, ForgetStep DEF CPNext, CPStep
<1> QED BY <1>2, <1>3

-----------------------------------------------------------------------------
\* Types: every variable keeps its type, and files wait only between two
\* requests, for any requests, crashes and expiries.
THEOREM CPTypeCorrect == CPSpec => []CPTypeOK
<1>1. CPInv => CPTypeOK
  BY DEF CPInv
<1> QED BY <1>1, CPInitInv, CPNextInv, PTL DEF CPSpec

\* Current files: when Init has returned nil, every kubeconfig and bundle
\* holds the certificates and the key that are on disk now, whatever was
\* rotated or cut off before.
THEOREM ConfigurationCurrent == CPSpec => []ConfsCurrent
<1>1. CPInv => ConfsCurrent
  <2> SUFFICES ASSUME CPInv, pc = "done" PROVE \A c \in Confs : conf[c] = Content(c)
    BY DEF ConfsCurrent
  <2> USE DEF CPInv
  <2>1. queue = <<>> /\ ~err BY DEF CPTypeOK, QueueInv
  <2>2. SeqSet(queue) = {} BY <2>1 DEF SeqSet
  <2>3. idx > Len(Leaves) BY DEF ChainInv, AtWork
  <2>4. RequestsDone BY <2>3, AllDone
  <2>5. \A c \in ClientConfs : Finished(c)
    BY <2>3, RequestsTyped DEF ClientConfs, Finished, ChainInv, AtWork
  <2>6. \A c \in Confs : Due(c)
    BY <2>3, <2>4, <2>5 DEF Due, Confs
  <2> QED BY <2>1, <2>2, <2>6 DEF CurrentInv
<1> QED BY <1>1, CPInitInv, CPNextInv, PTL DEF CPSpec

\* Identities: a kubeconfig that can be read at all names a key that fits its
\* certificate, at any time.
THEOREM IdentitiesFit == CPSpec => []IdentitiesMatch
<1>1. CPInv => IdentitiesMatch
  BY DEF CPInv
<1> QED BY <1>1, CPInitInv, CPNextInv, PTL DEF CPSpec
=============================================================================
