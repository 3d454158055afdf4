----------------------------- MODULE MCCaseWork -----------------------------
(* Small instances of CaseWork. The requests play the same part and so do  *)
(* the users, so both may be permuted in the runs without liveness.        *)
EXTENDS CaseWork, TLC

Symmetry == Permutations(Users) \cup Permutations(Requests)

\* The controls whose handlers make every sequence of calls there is.
LivenessKinds == {"decide", "extend", "selfAssign", "query"}

\* The controls that take a case over, and the one that must not.
TakeoverKinds == {"decide", "selfAssign"}

ConfirmKinds == {"confirm"}
=============================================================================
