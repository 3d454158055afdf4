------------------------- MODULE DeterminationProofs -------------------------
(***************************************************************************)
(* What follows from Determination, for any requests: proved here once,    *)
(* and so of every module that implements it.                              *)
(***************************************************************************)
EXTENDS Determination, TLAPS

\* There is an outcome exactly in the stages that have one.
OutcomeOfStage ==
    /\ stage \in {"open", "determined", "applied", "withdrawn"}
    /\ outcome # "none" <=> stage \in {"determined", "applied"}

IInv == OutcomeOfStage /\ DeterminedOnce

\* The strengthened invariant holds of every state a determination can reach.
THEOREM StagesAgree == Spec => []IInv
<1>1. Init => IInv
  BY DEF Init, IInv, OutcomeOfStage, DeterminedOnce
<1>2. IInv /\ [Next]_vars => IInv'
  <2> SUFFICES ASSUME IInv, [Next]_vars PROVE IInv'
    OBVIOUS
  <2> USE DEF IInv, OutcomeOfStage, DeterminedOnce
  <2>1. CASE UNCHANGED vars
    BY <2>1 DEF vars
  <2>2. ASSUME NEW r \in Requests, Promise(r) \/ File(r) PROVE IInv'
    BY <2>2 DEF Promise, File
  <2>3. ASSUME NEW r \in Requests, Determine(r) PROVE IInv'
    BY <2>3 DEF Determine
  <2>4. CASE Apply \/ Withdraw
    BY <2>4 DEF Apply, Withdraw
  <2> QED BY <2>1, <2>2, <2>3, <2>4 DEF Next
<1> QED BY <1>1, <1>2, PTL DEF Spec

\* However many requests ask for it, one determines a case at most.
THEOREM DeterminesOnce == Spec => []DeterminedOnce
<1>1. IInv => DeterminedOnce
  BY DEF IInv
<1> QED BY <1>1, StagesAgree, PTL

\* An outcome is never replaced: nothing determines a case that has one.
THEOREM OutcomesStand == Spec => OutcomeStands
<1>1. IInv /\ [Next]_vars => [Stands]_vars
  BY DEF IInv, OutcomeOfStage, Next, Promise, File, Determine, Apply, Withdraw,
         Stands, vars
<1>2. Spec => [][Next]_vars
  BY PTL DEF Spec
<1> QED BY <1>1, <1>2, StagesAgree, PTL DEF OutcomeStands
=============================================================================
