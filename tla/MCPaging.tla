------------------------------ MODULE MCPaging ------------------------------
(* The instances of Paging that TLC checks; terminals are interchangeable.  *)
EXTENDS Paging, TLC

AllPages == Page
TwoKinds == {"zero", "file"}
NoKinds == {}
Symmetry == Permutations(Tasks)
=============================================================================
