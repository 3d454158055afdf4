---------------------------- MODULE Determination ----------------------------
(***************************************************************************)
(* What a determination promises, whoever makes it and however many case   *)
(* workers try (work-items/re-accreditation/decision/service.js and        *)
(* states.js): an open case is determined at most once, by a request that  *)
(* has its promised rationale on file; the outcome is then applied and     *)
(* never another one; and only an open case can be withdrawn.              *)
(***************************************************************************)
CONSTANT Requests

VARIABLES
    stage,      \* "open", "determined", "applied" or "withdrawn"
    outcome,    \* what was determined, "none" while nothing was
    owed,       \* the requests that promised a rationale
    onFile,     \* those whose rationale is on file
    by          \* the requests that determined the case

vars == <<stage, outcome, owed, onFile, by>>

Init ==
    /\ stage \in {"open", "determined", "applied", "withdrawn"}
    /\ IF stage \in {"determined", "applied"}
       THEN outcome \in {"approved", "rejected"}
       ELSE outcome = "none"
    /\ owed = {}
    /\ onFile = {}
    /\ by = {}

Promise(r) ==
    /\ r \notin by
    /\ owed' = owed \cup {r}
    /\ UNCHANGED <<stage, outcome, onFile, by>>

File(r) ==
    /\ r \in owed
    /\ onFile' = onFile \cup {r}
    /\ UNCHANGED <<stage, outcome, owed, by>>

Determine(r) ==
    /\ stage = "open"
    /\ r \in owed => r \in onFile
    /\ stage' = "determined"
    /\ outcome' \in {"approved", "rejected"}
    /\ by' = by \cup {r}
    /\ UNCHANGED <<owed, onFile>>

Apply ==
    /\ stage = "determined"
    /\ stage' = "applied"
    /\ UNCHANGED <<outcome, owed, onFile, by>>

Withdraw ==
    /\ stage = "open"
    /\ stage' = "withdrawn"
    /\ UNCHANGED <<outcome, owed, onFile, by>>

Next ==
    \/ \E r \in Requests : Promise(r) \/ File(r) \/ Determine(r)
    \/ Apply
    \/ Withdraw

Spec == Init /\ [][Next]_vars

-----------------------------------------------------------------------------
\* An application is determined once: of all the requests that ask for it, one
\* determines the case at most, and a determined case is never open again nor
\* withdrawn.
DeterminedOnce ==
    /\ \A r, q \in by : r = q
    /\ by # {} => stage \in {"determined", "applied"}

\* An outcome, once there is one, is never another, and neither is the request
\* it came from.
Stands == outcome # "none" => outcome' = outcome /\ by' = by

OutcomeStands == [][Stands]_vars
=============================================================================
