-------------------------- MODULE MCConcurrentLogin --------------------------
(* A small instance of ConcurrentLogin. The tabs are those of one session's *)
(* browser: what a tab does changes nothing that another session's tabs, or *)
(* its sign-in, look at. The other sessions play the same part.             *)
EXTENDS ConcurrentLogin, TLC

CONSTANT Browsed    \* the session whose tabs are looked at

TabsOfBrowsed == [q \in Tabs |-> Browsed]

Symmetry == Permutations(Sessions \ {Browsed}) \cup Permutations(Tabs)

\* After a failure of the registry the clock stops one instant short of its bound:
\* what is said of a troubled registry is about the order of its calls alone.
TroubleIsShort == trouble => now < MaxTime
=============================================================================
