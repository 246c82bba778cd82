------------------------------- MODULE MCMesh -------------------------------
(* A network for Mesh with two ways between three nodes and one way only to *)
(* the fourth.                                                              *)
EXTENDS Mesh

CONSTANTS n1, n2, n3, n4

Both(E) == E \cup {<<e[2], e[1]>> : e \in E}
RingAndTail == Both({<<n1, n2>>, <<n2, n3>>, <<n1, n3>>, <<n3, n4>>})
=============================================================================
