------------------------------ MODULE MCFileDB ------------------------------
(* FileDB with a directory inside another and a file in the outer one.        *)
EXTENDS FileDB
CONSTANTS a, b, x, y, v1, v2
MCParent == [d \in Dir |-> IF d = b THEN a ELSE NoDir]
MCInit ==
  /\ Init
  /\ files[a] = [n \in Name |-> IF n = x THEN v1 ELSE Absent]
  /\ files[b][x] \in {Absent, v1} /\ files[b][y] = Absent
MCSpec == MCInit /\ [][Next]_vars
=============================================================================
