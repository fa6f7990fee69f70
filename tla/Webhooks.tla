------------------------------ MODULE Webhooks ------------------------------
(***************************************************************************)
(* What the servers behind the frontend answer: the webhooks of webhook.go *)
(* and pkg/webhook, and the extension API of pkg/kapi.  Constant           *)
(* definitions; Frontend brings requests to them.                          *)
(*                                                                         *)
(* An answer is a status and, for 200, what was decided or returned.       *)
(***************************************************************************)
EXTENDS Naturals, Sequences, FiniteSets

CONSTANTS
  Garbage,      \* a body that does not decode
  NilRequest,   \* an admission review without a request
  NoResource,   \* a review of a path that is not a resource's
  None          \* nothing

Status(n) == [status |-> n, body |-> None]
OK(body) == [status |-> 200, body |-> body]

\* The handler panics: net/http closes the connection.
Panic == Status(0)

-----------------------------------------------------------------------------
(* Authorizer: SubjectAccessReview *)

ApiServer == "system:apiserver"
Authnz == {"system:controller-manager-authnz", "system:scheduler-authnz"}

\* Faulty variant: a mismatch is forgotten when a later condition holds.
Allowed_LastWins(s) ==
  \/ s.user = ApiServer /\ s.masters
  \/ s.user \in Authnz /\ s.res # NoResource /\ s.res.group = ""
       /\ s.res.subresource = ""

\* builtinAuthorizer: it allows or has no opinion, and never denies.
Allowed(s) ==
  \/ s.user = ApiServer /\ s.masters
  \/ /\ s.user \in Authnz
     /\ s.res # NoResource
     /\ s.res.verb \in {"get", "watch", "list"}
     /\ s.res.name = "extension-apiserver-authentication"
     /\ s.res.resource = "configmaps"
     /\ s.res.group = "" /\ s.res.subresource = ""

Authorize(body) ==
  IF body = Garbage THEN Status(400)
  ELSE OK([allowed |-> Allowed(body), denied |-> FALSE])

-----------------------------------------------------------------------------
(* Authenticator, Auditor and Admitter *)

\* builtinAuthenticator knows no token.
Authenticate(body) ==
  IF body = Garbage THEN Status(400) ELSE OK([authenticated |-> FALSE])

\* builtinAuditor accepts every event.
Audit(body) == IF body = Garbage THEN Status(400) ELSE OK(None)

\* builtinAdmitter allows everything; the answer carries the request's uid.
\* Without a request the handler reads through a nil pointer.
Admit(body) ==
  CASE body = Garbage -> Status(400)
    [] body = NilRequest -> Panic
    [] OTHER -> OK([allowed |-> TRUE, uid |-> body.uid])

-----------------------------------------------------------------------------
(* kapi.Service: the paths of a ServeMux, as sequences of segments *)

\* defaultAPIGroups.
Groups ==
  {[group |-> "api.runkube.internal", version |-> "v1",
    kind |-> "Bucket", resource |-> "buckets", namespaced |-> FALSE],
   [group |-> "example-b.runkube.internal", version |-> "v1",
    kind |-> "ExampleB", resource |-> "examplesb", namespaced |-> TRUE]}

Any == "{}"   \* a wildcard

Under(g) == <<"apis", g.group, g.version>>
Namespaced(g) == Under(g) \o <<"namespaces", Any>>

\* Group.Install.  {resources} is not a placeholder that rurl replaces: it
\* stays a wildcard of the mux.
GroupPatterns(g) ==
  {[path |-> <<"openapi", "v3">> \o Under(g), gives |-> "openapi", of |-> g],
   [path |-> Under(g), gives |-> "resources", of |-> g],
   [path |-> Under(g) \o <<g.resource>>, gives |-> "list", of |-> g]}
  \cup
  (IF g.namespaced
   THEN {[path |-> Namespaced(g) \o <<g.resource>>, gives |-> "list", of |-> g],
         [path |-> Namespaced(g) \o <<Any, Any>>, gives |-> "object", of |-> g]}
   ELSE {[path |-> Under(g) \o <<g.resource, Any>>, gives |-> "object", of |-> g]})

Patterns == UNION {GroupPatterns(g) : g \in Groups}

Matches(pattern, path) ==
  /\ Len(pattern) = Len(path)
  /\ \A i \in DOMAIN path : pattern[i] \in {Any, path[i]}

\* The mux serves the pattern that matches; everything else is the catch-all
\* of Service.install.  A watch returns an empty stream when it has slept.
Serve(body) ==
  LET found == {p \in Patterns : Matches(p.path, body.path)} IN
  CASE body.path = <<"apis">> -> OK([gives |-> "groups"])
    [] body.method = "GET" /\ Len(body.path) = 2 /\ body.path[1] = "openapi"
         -> OK([gives |-> "paths"])
    [] body.method = "GET" /\ found # {} ->
         LET p == CHOOSE q \in found : TRUE IN
         IF p.gives = "list" /\ body.watch THEN OK([gives |-> "nothing"])
         ELSE OK([gives |-> p.gives, kind |-> p.of.kind])
    [] OTHER -> Status(404)

-----------------------------------------------------------------------------
\* The servers of RunWebhook, in order of registration.
BackendServers ==
  <<"api", "authentication-webhook", "authorization-webhook",
    "audit-webhook", "validating-webhook", "mutating-webhook">>

Handler(b, body) ==
  CASE b = "api" -> Serve(body)
    [] b = "authentication-webhook" -> Authenticate(body)
    [] b = "authorization-webhook" -> Authorize(body)
    [] b = "audit-webhook" -> Audit(body)
    [] b \in {"validating-webhook", "mutating-webhook"} -> Admit(body)
=============================================================================
