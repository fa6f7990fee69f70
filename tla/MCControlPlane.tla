--------------------------- MODULE MCControlPlane ---------------------------
(* ControlPlane with one request for each purpose, in the order of Init. *)
EXTENDS ControlPlane

MCLeaves == << [name |-> "webhook-server", signer |-> "webhookserver"],
               [name |-> "apiserver-extension-client", signer |-> "apiserver"],
               [name |-> "system-admin", signer |-> "apiclient"],
               [name |-> "node1", signer |-> "apiclient"] >>

MCKeys == 1 .. 17
=============================================================================
