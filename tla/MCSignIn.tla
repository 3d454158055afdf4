------------------------------ MODULE MCSignIn ------------------------------
(* Small instance of SignIn: a caseworker and a support user share a       *)
(* browser with two tabs.                                                  *)
EXTENDS SignIn, TLC

Symmetry == Permutations(Tabs)
=============================================================================
