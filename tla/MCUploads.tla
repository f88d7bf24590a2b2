------------------------------ MODULE MCUploads ------------------------------
(* Instances of Uploads for TLC: all files belong to one user.             *)
EXTENDS Uploads, TLC

MCOwner == [f \in 1..MaxFiles |-> CHOOSE u \in Users : TRUE]
Symmetry == Permutations(Requests)
=============================================================================
