------------------------------ MODULE RecentIds ------------------------------
(***************************************************************************)
(* What a route table promises to the routing code: it remembers the last  *)
(* NumRoutes message ids it was told about, and nothing else.              *)
(***************************************************************************)
EXTENDS Sequences

CONSTANT Id
VARIABLE recent     \* the remembered ids, oldest first

Remember(id) == recent' = Append(Tail(recent), id)

Next == \E id \in Id : Remember(id)
Spec == [][Next]_recent
=============================================================================
