-------------------------------- MODULE Flood --------------------------------
(***************************************************************************)
(* What the mesh promises to the services above it: a broadcast reaches a   *)
(* node at most once, and only over a link from a node that has it; it is   *)
(* not handed back to its origin; an answer is handed to the origin, and    *)
(* comes from a node that got the broadcast.                                *)
(***************************************************************************)
CONSTANTS Node, Link, Guid

VARIABLES
  drawn,     \* [Node -> SUBSET Guid]: broadcasts a node originated
  reached,   \* [Node -> SUBSET Guid]: broadcasts a node was handed
  answered   \* answers handed to an origin
vars == <<drawn, reached, answered>>

Init ==
  /\ drawn = [n \in Node |-> {}]
  /\ reached = [n \in Node |-> {}]
  /\ answered = {}

Originate(n, g) ==
  /\ \A o \in Node : g \notin drawn[o] /\ g \notin reached[o]
  /\ drawn' = [drawn EXCEPT ![n] = @ \cup {g}]
  /\ UNCHANGED <<reached, answered>>

Reach(n, p, g) ==
  /\ <<n, p>> \in Link
  /\ g \in drawn[p] \cup reached[p]
  /\ g \notin drawn[n] \cup reached[n]
  /\ reached' = [reached EXCEPT ![n] = @ \cup {g}]
  /\ UNCHANGED <<drawn, answered>>

Answer(n, g, from) ==
  /\ g \in drawn[n] /\ g \in reached[from]
  /\ answered' = answered \cup {[at |-> n, guid |-> g, from |-> from]}
  /\ UNCHANGED <<drawn, reached>>

Next ==
  \E n, p \in Node, g \in Guid : Originate(n, g) \/ Reach(n, p, g) \/ Answer(n, g, p)

Spec == Init /\ [][Next]_vars
=============================================================================
