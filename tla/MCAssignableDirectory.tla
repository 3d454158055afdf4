------------------------ MODULE MCAssignableDirectory ------------------------
(* Small instances of AssignableDirectory. Users, sign-ins and reads each  *)
(* play the same part, so each may be permuted.                            *)
EXTENDS AssignableDirectory, TLC

Symmetry ==
    Permutations(Users) \cup Permutations(SignIns) \cup Permutations(Reads)
=============================================================================
