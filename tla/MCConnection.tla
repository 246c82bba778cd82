---------------------------- MODULE MCConnection ----------------------------
(* Half keys and meetings for Connection: of three half keys two share the   *)
(* key and two the iv; of all meetings those whose outgoing end is in "net1".*)
EXTENDS Connection

MCSecret == {[key |-> "k1", iv |-> "v1"], [key |-> "k1", iv |-> "v2"], [key |-> "k2", iv |-> "v2"]}
NearSetups == {f \in [Ends -> Setup] : f["out"].net = "net1"}
=============================================================================
