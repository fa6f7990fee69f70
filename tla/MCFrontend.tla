----------------------------- MODULE MCFrontend -----------------------------
(* Frontend with two clients and queues of one connection. *)
EXTENDS Frontend

Connect(h, p) == [method |-> "CONNECT", host |-> h, port |-> p]

MCAsks == {Connect("authorization-webhook", ""), Connect("api", "443"),
           Connect("api", "80"), Connect("elsewhere", ""),
           Connect("validating-webhook", ""),
           [method |-> "GET", host |-> "api", port |-> ""]}

To(b, body) == [sni |-> b, host |-> b, body |-> body]

Review(user, masters, verb) ==
  [user |-> user, masters |-> masters,
   res |-> [verb |-> verb, group |-> "", resource |-> "configmaps",
            subresource |-> "", name |-> "extension-apiserver-authentication"]]

Get(path, watch) == [method |-> "GET", path |-> path, watch |-> watch]

Buckets == <<"apis", "api.runkube.internal", "v1", "buckets">>
Examples == <<"apis", "example-b.runkube.internal", "v1", "namespaces", "ns">>

MCMessages ==
  {To("authorization-webhook", b) :
     b \in {Garbage,
            Review("system:apiserver", TRUE, "delete"),
            Review("system:scheduler-authnz", FALSE, "watch"),
            Review("system:scheduler-authnz", FALSE, "delete")}}
  \cup {To("api", b) :
     b \in {Get(Buckets, TRUE),
            Get(SubSeq(Buckets, 1, 3) \o <<"other", "b">>, FALSE),
            Get(Examples \o <<"examplesb", "e">>, FALSE)}}
  \cup {[sni |-> "authorization-webhook", host |-> "audit-webhook",
         body |-> Garbage],
        To("validating-webhook", NilRequest)}
=============================================================================
