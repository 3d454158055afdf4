----------------------------- MODULE Corrections -----------------------------
(***************************************************************************)
(* What the correction forms of a case promise together, as one writer     *)
(* would keep it: a deadline moves by whole days, of a case whose clock    *)
(* has started, to a day the floor of that moment admits; a payment date   *)
(* is replaced, never first set, while the case is open, by one that is    *)
(* then allowed; the codes of a site become codes its material admits, one *)
(* of which can stand alone. Each touches nothing else of the case, except *)
(* that codes may bring back the site they are given to, and a closed case *)
(* is never open again.                                                    *)
(***************************************************************************)
EXTENDS EditRules

VARIABLES
    now,   \* the current instant
    case   \* the work item

vars == <<now, case>>

Init ==
    /\ case.open /\ case.selected
    /\ (case.due = NoClock) = (case.startedAt = NoClock)
    /\ case.startedAt <= now
    /\ case.payment <= UtcDay(now)

MoveDeadline ==
    /\ case.startedAt # NoClock
    /\ case' = [case EXCEPT !.due = case'.due]
    /\ (case'.due - case.due) % 2 = 0
    /\ UkCalendarDay(case'.due) >= DeadlineFloor(case.startedAt, now)
    /\ UNCHANGED now

CorrectPayment ==
    /\ case.open
    /\ case.payment # NoPayment
    /\ case' = [case EXCEPT !.payment = case'.payment]
    /\ case'.payment \in Days
    /\ case'.payment <= UtcDay(now)
    /\ \E floor \in BackendPaymentFloors(UtcDay(now)) : case'.payment >= floor
    /\ UNCHANGED now

CorrectCodes ==
    /\ case' = [case EXCEPT !.codes = case'.codes, !.selected = case'.selected]
    /\ case.selected => case'.selected
    /\ case'.codes \subseteq ApplicableCodes(case.material)
    /\ case'.codes \cap (AllCodes \ RequiringAccompaniment) # {}
    /\ UNCHANGED now

Close ==
    /\ case.open
    /\ case' = [case EXCEPT !.open = FALSE]
    /\ UNCHANGED now

RemoveSite ==
    /\ case.selected
    /\ case' = [case EXCEPT !.selected = FALSE]
    /\ UNCHANGED now

Tick ==
    /\ now' = now + 1
    /\ UNCHANGED case

Next ==
    \/ MoveDeadline
    \/ CorrectPayment
    \/ CorrectCodes
    \/ Close
    \/ RemoveSite
    \/ Tick

Spec == Init /\ [][Next]_vars
=============================================================================
