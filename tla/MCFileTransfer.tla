--------------------------- MODULE MCFileTransfer ---------------------------
(* Files for FileTransfer: one; two of one length; and a shorter one besides. *)
EXTENDS FileTransfer, TLC

CONSTANTS x3, y3, z1

OneVersion == {x3}
OneSize == [v \in OneVersion |-> 3]
TwoVersions == {x3, y3}
TwoSizes == [v \in TwoVersions |-> 3]
ThreeVersions == {x3, y3, z1}
ThreeSizes == [v \in ThreeVersions |-> IF v = z1 THEN 1 ELSE 3]

\* The two files of one length may change places.
SameLength == Permutations({x3, y3})
=============================================================================
