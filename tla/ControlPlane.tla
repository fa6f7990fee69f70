---------------------------- MODULE ControlPlane ----------------------------
(***************************************************************************)
(* ControlPlane.Init and setupNode (controlplane.go): the certificates of  *)
(* Pki and the files made from them.                                       *)
(*                                                                         *)
(* A kubeconfig holds a copy of an authority's certificate and of a        *)
(* client's certificate and key, read from the files at the moment it is   *)
(* written; the admission webhooks and the API service hold a copy of the  *)
(* webhook authority's.  Init writes the kubeconfig of a client right      *)
(* after its certificate, the other files when all requests are done, then *)
(* those of the nodes, and last what the syncer has collected.  It reads   *)
(* none of them back.                                                      *)
(***************************************************************************)
EXTENDS Pki

CONSTANTS
  APIServer, APIClient, WebhookServer,   \* authorities
  ExtensionClient,                       \* the request of that name
  Nodes,                                 \* the requests of setupNode
  MaxExpiries                            \* bound: certificates that expire

Requests == {i \in DOMAIN Leaves : Leaves[i].name \notin Nodes}

\* The files of the slice in Init, in order: kubeconfigs of the API server
\* for its webhooks, plain text, and the two admission webhooks.
Extensions ==
  <<"authentication-token-webhook", "authorization-webhook", "audit-webhook">>
Texts ==
  <<"egress-selector-config", "authentication-config",
    "authorization-config", "admission-config", "audit-policy">>
Admission == <<"validating/static.json", "mutating/static.json">>
Statics ==
  Extensions \o Texts \o Admission
    \o <<"encryption-provider-config", "api-service">>

\* makeAPIService gives its objects to the syncer; their file comes last.
Service == "api-service"
Objects == "syncer.objects"

SeqSet(q) == {q[i] : i \in DOMAIN q}
ClientConfs == {Leaves[i].name : i \in {j \in DOMAIN Leaves :
                                          Leaves[j].signer = APIClient}}
Confs == ClientConfs \cup (SeqSet(Statics) \ {Service}) \cup {Objects}

Data == [ca : {<<>>} \cup Keys \X Keys, cert : {<<>>} \cup Keys \X Keys,
         key : Keys \cup {NoKey}]

\* The requests of the nodes come after all others.  The API server's own
\* certificate is requested before that of its first client, and one from
\* the webhook authority before the nodes.  A node has a name of its own.
ASSUME ControlPlaneConstants ==
  /\ {APIServer, APIClient, WebhookServer} \subseteq CAs
  /\ ExtensionClient \in LeafNames \ Nodes
  /\ Nodes \subseteq LeafNames
  /\ LeafNames \cap (SeqSet(Statics) \cup {Objects}) = {}
  /\ \A i \in DOMAIN Leaves : Leaves[i].name \in Nodes =>
       /\ Leaves[i].signer = APIClient
       /\ \A j \in Requests : j < i
  /\ \A i \in DOMAIN Leaves : Leaves[i].signer = APIClient =>
       \E j \in Requests : j < i /\ Leaves[j].signer = APIServer
  /\ \E i \in Requests : Leaves[i].signer = WebhookServer
  /\ Absent \notin Data /\ Torn \notin Data /\ NoKey \notin Data
  /\ MaxExpiries \in Nat

VARIABLES
  conf,      \* what each file holds
  queue,     \* files to write before the next request
  opened,    \* the first of them is truncated
  err,       \* an element of the slice is an error
  objects,   \* c.syncer
  expiries

memory == <<queue, opened, err, objects>>
cpVars == <<vars, conf, memory, expiries>>

CPInit ==
  /\ Init
  /\ conf = [c \in Confs |-> Absent]
  /\ queue = <<>> /\ opened = FALSE /\ err = FALSE /\ objects = NoKey
  /\ expiries = 0

-----------------------------------------------------------------------------
\* CertBase64String and KeyBase64String: empty when there is nothing to read.
CertData(f) ==
  IF certFile[f] \in Cert THEN <<certFile[f].pub, certFile[f].by>> ELSE <<>>
KeyData(f) == IF keyFile[f] \in Keys THEN keyFile[f] ELSE NoKey

Bundle(ca) == [ca |-> CertData(ca), cert |-> <<>>, key |-> NoKey]
Kubeconfig(ca, f) ==
  [ca |-> CertData(ca), cert |-> CertData(f), key |-> KeyData(f)]
Text == [ca |-> <<>>, cert |-> <<>>, key |-> NoKey]

\* What a file is made of.
Content(c) ==
  CASE c \in ClientConfs -> Kubeconfig(APIServer, c)
    [] c \in SeqSet(Extensions) -> Kubeconfig(WebhookServer, ExtensionClient)
    [] c \in SeqSet(Admission) \cup {Objects} -> Bundle(WebhookServer)
    [] OTHER -> Text

\* Faulty variant: the kubeconfig is made before its certificate.
ConfsAfter_Early(i) ==
  (IF i < Len(Leaves) /\ Leaves[i + 1].signer = APIClient
     THEN <<Leaves[i + 1].name>> ELSE <<>>)
  \o (IF i \in Requests /\ i + 1 \notin Requests THEN Statics ELSE <<>>)
  \o (IF i = Len(Leaves) THEN <<Objects>> ELSE <<>>)

\* Faulty variant: a kubeconfig that exists is not written again.
ConfsAfter_Once(i) ==
  (IF Leaves[i].signer = APIClient /\ conf[Leaves[i].name] = Absent
     THEN <<Leaves[i].name>> ELSE <<>>)
  \o (IF i \in Requests /\ i + 1 \notin Requests THEN Statics ELSE <<>>)
  \o (IF i = Len(Leaves) THEN <<Objects>> ELSE <<>>)

\* The files written after request i.
ConfsAfter(i) ==
  (IF Leaves[i].signer = APIClient THEN <<Leaves[i].name>> ELSE <<>>)
  \o (IF i \in Requests /\ i + 1 \notin Requests THEN Statics ELSE <<>>)
  \o (IF i = Len(Leaves) THEN <<Objects>> ELSE <<>>)

Lenient(c) == c \in SeqSet(Statics)

\* The errors of the slice are looked at when all its elements are there.
Refused == err /\ (queue = <<>> \/ ~Lenient(Head(queue)))

\* A step of the certificates, when no file is waiting.
Certificates ==
  /\ queue = <<>> /\ ~Refused
  /\ Step
  /\ queue' = IF pc = "written" /\ cur \in LeafNames THEN ConfsAfter(idx)
                                                     ELSE <<>>
  /\ objects' = IF pc = "down" THEN NoKey ELSE objects
  /\ UNCHANGED <<conf, opened, err, expiries>>

\* Config.Write, KubeConfig.Write and WriteObject: os.WriteFile truncates...
OpenConf ==
  /\ queue # <<>> /\ ~opened /\ ~Refused
  /\ Head(queue) # Service
  /\ conf' = [conf EXCEPT ![Head(queue)] = Torn]
  /\ opened' = TRUE
  /\ UNCHANGED <<vars, queue, err, objects, expiries>>

\* ... and writes.  What the syncer has collected may be older.
PutConf ==
  /\ opened
  /\ conf' = [conf EXCEPT ![Head(queue)] =
                IF Head(queue) = Objects THEN objects
                                         ELSE Content(Head(queue))]
  /\ opened' = FALSE
  /\ queue' = Tail(queue)
  /\ UNCHANGED <<vars, err, objects, expiries>>

\* makeAPIService and Syncer.Add.
AddService ==
  /\ queue # <<>> /\ ~Refused
  /\ Head(queue) = Service
  /\ objects' = Bundle(WebhookServer)
  /\ queue' = Tail(queue)
  /\ UNCHANGED <<vars, conf, opened, err, expiries>>

\* Faulty variant: the process goes, its requests stay.
Forget_Not == opened' = FALSE /\ err' = FALSE /\ UNCHANGED <<queue, objects>>

\* The process is gone; a file it was writing stays as it is.
Forget == queue' = <<>> /\ opened' = FALSE /\ err' = FALSE /\ objects' = NoKey

\* A write, or the read of a bundle, fails.  In the slice the functions that
\* follow are called all the same, except that the second admission webhook
\* is not written after the first has failed.  (Bound: one fails in a run.)
ConfFails ==
  /\ queue # <<>> /\ ~err /\ Lenient(Head(queue))
  /\ crashes < MaxCrashes
  /\ err' = TRUE /\ opened' = FALSE
  /\ queue' = IF Head(queue) = Admission[1] THEN SubSeq(queue, 3, Len(queue))
                                            ELSE Tail(queue)
  /\ UNCHANGED <<vars, conf, objects, expiries>>

\* Init returns the error, or another kubeconfig cannot be written, or the
\* process is killed.
CPCrash == Crash /\ Forget /\ UNCHANGED <<conf, expiries>>

CPStop == Stop /\ Forget /\ UNCHANGED <<conf, expiries>>

CPExpire ==
  /\ expiries < MaxExpiries
  /\ expiries' = expiries + 1
  /\ Expire
  /\ UNCHANGED <<conf, memory>>

CPStep == Certificates \/ OpenConf \/ PutConf \/ AddService

CPNext == CPStep \/ ConfFails \/ CPCrash \/ CPStop \/ CPExpire

CPSpec == CPInit /\ [][CPNext]_cpVars

\* Init runs on, and returns an error it has met; it is started again.
CPFairSpec ==
  /\ CPSpec
  /\ WF_cpVars(CPStep) /\ WF_cpVars(CPStop) /\ WF_cpVars(Refused /\ CPCrash)

-----------------------------------------------------------------------------
\* Type invariant; files wait only between two requests.
CPTypeOK ==
  /\ conf \in [Confs -> Data \cup {Absent, Torn}]
  /\ queue \in Seq(Confs \cup {Service})
  /\ queue # <<>> => pc = "pick"
  /\ opened \in BOOLEAN /\ err \in BOOLEAN
  /\ opened => queue # <<>> /\ conf[Head(queue)] = Torn
  /\ objects \in Data \cup {NoKey}
  /\ expiries \in 0 .. MaxExpiries

\* When Init has returned nil, every file holds what is on disk now: the
\* authority that signed the server's certificate, and the client's own
\* certificate and key, whatever was rotated or cut off before.
ConfsCurrent == pc = "done" => \A c \in Confs : conf[c] = Content(c)

\* A kubeconfig that can be read at all names a key that fits its
\* certificate, at any time: also while Init is replacing it, and after a
\* kill between the certificate and the key.
IdentitiesMatch ==
  \A c \in ClientConfs \cup SeqSet(Extensions) :
    conf[c] \in Data => conf[c].cert # <<>> /\ conf[c].cert[1] = conf[c].key
=============================================================================
