------------------------------ MODULE Lifecycle ------------------------------
(***************************************************************************)
(* The re-accreditation work item type as the frontend declares it         *)
(* (work-items/re-accreditation/module.js), the type-agnostic engine that  *)
(* reads the declaration (work-items/core/engine.js), and the gates that   *)
(* decide which control a case worker is offered on a case.                *)
(*                                                                         *)
(* A case is seen through two fields of the backend's DTO: its stateId s   *)
(* and its originStateId o, the state a case parked in "updated" goes back *)
(* to (in any other state o is s itself).                                  *)
(***************************************************************************)
EXTENDS FiniteSets

TerminalStates == {"approved", "rejected", "withdrawn"}

PendingContactStates == {"approved-pending-contact", "rejected-pending-contact"}

States ==
    {"submitted", "duly-made", "assessment-started", "assessment-in-progress",
     "awaiting-decision", "queried", "updated"}
        \cup PendingContactStates \cup TerminalStates

-----------------------------------------------------------------------------
(* The declared transitions, as <<actionId, fromStateId, toStateId>>.      *)

QueryTransitions ==
    {<<"query-during-duly-making", "submitted", "queried">>,
     <<"query-during-duly-made", "duly-made", "queried">>,
     <<"query-during-assessment", "assessment-in-progress", "queried">>,
     <<"query-during-decision", "awaiting-decision", "queried">>}

ResumeTransitions ==
    {<<"resume-during-duly-making", "queried", "updated">>,
     <<"resume-during-duly-made", "queried", "assessment-in-progress">>,
     <<"resume-during-assessment", "queried", "updated">>,
     <<"resume-during-decision", "queried", "updated">>}

ContinueReviewTransitions ==
    {<<"continue-review-during-duly-making", "updated", "submitted">>,
     <<"continue-review-during-duly-made", "updated", "duly-made">>,
     <<"continue-review-during-assessment", "updated", "assessment-in-progress">>,
     <<"continue-review-during-decision", "updated", "awaiting-decision">>}

\* Faulty variants of the next two sets, used by no specification: a withdrawal
\* left open after the determination, and a refusal confirmed as an approval.
LateWithdrawTransitions ==
    {<<"withdraw", "submitted", "withdrawn">>,
     <<"withdraw-during-decision", "awaiting-decision", "withdrawn">>,
     <<"withdraw-during-contact", "approved-pending-contact", "withdrawn">>}

CrossedDeterminationTransitions ==
    {<<"submit-for-decision", "assessment-in-progress", "awaiting-decision">>,
     <<"make-determination-approved", "awaiting-decision", "approved-pending-contact">>,
     <<"make-determination-rejected", "awaiting-decision", "rejected-pending-contact">>,
     <<"confirm-contact-approved", "approved-pending-contact", "approved">>,
     <<"confirm-contact-rejected", "rejected-pending-contact", "approved">>}

WithdrawTransitions ==
    {<<"withdraw", "submitted", "withdrawn">>,
     <<"withdraw-during-duly-made", "duly-made", "withdrawn">>,
     <<"withdraw-during-assessment", "assessment-in-progress", "withdrawn">>,
     <<"withdraw-during-decision", "awaiting-decision", "withdrawn">>,
     <<"withdraw-during-query", "queried", "withdrawn">>,
     <<"withdraw-during-updated", "updated", "withdrawn">>}

DeterminationTransitions ==
    {<<"submit-for-decision", "assessment-in-progress", "awaiting-decision">>,
     <<"make-determination-approved", "awaiting-decision", "approved-pending-contact">>,
     <<"make-determination-rejected", "awaiting-decision", "rejected-pending-contact">>,
     <<"confirm-contact-approved", "approved-pending-contact", "approved">>,
     <<"confirm-contact-rejected", "rejected-pending-contact", "rejected">>}

DulyMakeTransition == <<"duly-make", "submitted", "duly-made">>

\* The one transition marked startsOnSelfAssign.
StartTransition == <<"start-assessment", "duly-made", "assessment-started">>

ExtendTransition ==
    <<"sla-extend", "assessment-in-progress", "assessment-in-progress">>

Transitions ==
    QueryTransitions \cup ResumeTransitions \cup ContinueReviewTransitions
        \cup WithdrawTransitions \cup DeterminationTransitions
        \cup {DulyMakeTransition, StartTransition, ExtendTransition}

Named(ts) == {t[1] : t \in ts}

\* Declared callerInvocable: false. The frontend never draws these.
NonInvocable ==
    Named(ResumeTransitions \cup ContinueReviewTransitions
            \cup DeterminationTransitions \cup {DulyMakeTransition})

\* The backend's second copies of four actions, which the declaration cannot
\* repeat because the frontend requires action ids to be unique.
SecondTransitions ==
    {<<"submit-for-decision", "assessment-started", "awaiting-decision">>,
     <<"query-during-assessment", "assessment-started", "queried">>,
     <<"withdraw-during-assessment", "assessment-started", "withdrawn">>,
     <<"sla-extend", "queried", "queried">>}

\* The backend's third sla-extend, which only the deadline endpoint applies.
DeadlineTransition ==
    <<"sla-extend", "assessment-started", "assessment-in-progress">>

BackendTransitions == Transitions \cup SecondTransitions \cup {DeadlineTransition}

-----------------------------------------------------------------------------
(* The engine (work-items/core/engine.js).                                 *)

\* The backend's projection of the actions a caller may invoke on a case.
AvailableActions(s) ==
    IF s \in TerminalStates THEN {}
    ELSE Named({t \in BackendTransitions \ {DeadlineTransition} : t[2] = s})
            \ NonInvocable

\* resolveSelfAssignTransition(type, workItem) # null: the from-state match is
\* what keeps "Assign to yourself" a plain assignment everywhere else.
StartsFrom(s) == s \notin TerminalStates /\ StartTransition[2] = s

\* resolveSelfAssignLandingState: where the start goes.
LandingState == StartTransition[3]

-----------------------------------------------------------------------------
(* A faulty gate, used by no specification: it shows that a property       *)
(* would notice the landing state of the start left out.                   *)

FaultyDecisionEntryStates ==
    {t[2] : t \in {u \in Transitions :
        u[1] \in {"make-determination-approved", "make-determination-rejected",
                  "submit-for-decision", "start-assessment"}}}

-----------------------------------------------------------------------------
(* The gates: which control is offered on a case in state s with origin o. *)

\* Where a determination may be logged from, read off the declaration: the
\* outcomes' own from-state, the earlier hop's, and both ends of the start.
DecisionEntryStates ==
    {t[2] : t \in {u \in Transitions :
        u[1] \in {"make-determination-approved", "make-determination-rejected",
                  "submit-for-decision", "start-assessment"}}}
        \cup {LandingState}

\* evaluateLogDecisionEligibility
CanLogDecision(s) == s \notin TerminalStates /\ s \in DecisionEntryStates

\* evaluateDulyMakeEligibility: the declared from-state, or a waypoint that
\* would discharge into it.
CanDulyMake(s, o) ==
    /\ s \notin TerminalStates
    /\ DulyMakeTransition[2] \in {s, o}

\* isContinueReviewState and not isPreDulyMadeWaypoint
CanContinueReview(s, o) ==
    /\ s \in {t[2] : t \in ContinueReviewTransitions}
    /\ o # DulyMakeTransition[2]

\* Faulty variant of CanChangeDueDate, used by no specification: offered while the
\* case is open and undetermined, whether or not the backend declares it there.
EagerCanChangeDueDate(s) == s \notin TerminalStates \cup PendingContactStates

\* canChangeDueDateFor, and hidden once a determination has been made.
CanChangeDueDate(s) ==
    /\ s \notin PendingContactStates
    /\ \/ "sla-extend" \in AvailableActions(s)
       \/ StartsFrom(s)
       \/ s = LandingState

\* hasQueryAction: any projected query-* action.
CanQuery(s) == AvailableActions(s) \cap Named(QueryTransitions) # {}

\* isPendingContact: step 2 of the determination is the only way on.
CanConfirmContact(s) == s \in PendingContactStates

FormKinds ==
    {"decide", "extend", "query", "dulyMake", "continue", "confirm",
     "selfAssign", "assign", "unassign"}

\* buildAssignmentViewModel: nothing on a closed case; claiming it is for a
\* caller u who is not its holder h, and not while contact is awaited.
CanAssign(s) == s \notin TerminalStates

CanSelfAssign(s, h, u) == CanAssign(s) /\ u # h /\ s \notin PendingContactStates

\* The controls a freshly loaded detail page draws for user u on a case in
\* state s, with origin o and holder h.
Offered(k, s, o, h, u) ==
    \/ k = "decide" /\ CanLogDecision(s)
    \/ k = "extend" /\ CanChangeDueDate(s)
    \/ k = "query" /\ CanQuery(s)
    \/ k = "dulyMake" /\ CanDulyMake(s, o)
    \/ k = "continue" /\ CanContinueReview(s, o)
    \/ k = "confirm" /\ CanConfirmContact(s)
    \/ k = "selfAssign" /\ CanSelfAssign(s, h, u)
    \/ k \in {"assign", "unassign"} /\ CanAssign(s)
=============================================================================
