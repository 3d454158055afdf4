--------------------------- MODULE CaseWorkProofs ---------------------------
(***************************************************************************)
(* Proofs about CaseWork, for any number of users and requests.            *)
(*                                                                         *)
(* The case by itself comes first: each call the backend takes keeps its   *)
(* fields consistent and undoes no assessment. Then the types. Then the    *)
(* inductive invariant, RequestOK and RefusalIsTrue of every request: what *)
(* is known of a handler and its calls at each of its steps. One lemma per *)
(* action shows that the request it concerns stays as it should be, and    *)
(* UntouchedGood that the others do, as the only thing they share with it  *)
(* is a case whose assessment never comes undone. The properties follow.   *)
(***************************************************************************)
EXTENDS CaseWork, TLAPS

\* What a submitted form can hold: only a determination promises a note.
LEMMA FormFacts ==
    ASSUME NEW f \in Forms
    PROVE  /\ f.kind \in Kinds
           /\ f.user \in Users
           /\ f.to \in Users \cup {NoOne}
           /\ f.kind = "decide" => f.outcome \in Outcomes
           /\ f.note \in BOOLEAN
           /\ f.note => f.kind = "decide"
<1>1. PICK k \in Kinds, u \in Users : f \in FormsOf(k, u)
  BY DEF Forms
<1>2. QED
  BY <1>1 DEF FormsOf

\* The one declared start leads out of duly-made.
LEMMA StartMove ==
    ASSUME Move({StartTransition[1]})
    PROVE  state = "duly-made" /\ state' = "assessment-started"
BY DEF Move, BackendTransitions, Transitions, SecondTransitions,
       DeadlineTransition, QueryTransitions, ResumeTransitions,
       ContinueReviewTransitions, WithdrawTransitions,
       DeterminationTransitions, DulyMakeTransition, StartTransition,
       ExtendTransition

\* A deadline change moves a case only by starting its assessment on.
LEMMA ExtendMove ==
    ASSUME Move({"sla-extend"})
    PROVE  \/ state \in {"assessment-in-progress", "queried"} /\ state' = state
           \/ state = "assessment-started" /\ state' = "assessment-in-progress"
BY DEF Move, BackendTransitions, Transitions, SecondTransitions,
       DeadlineTransition, QueryTransitions, ResumeTransitions,
       ContinueReviewTransitions, WithdrawTransitions,
       DeterminationTransitions, DulyMakeTransition, StartTransition,
       ExtendTransition

\* The states a query is raised from, which it parks the case out of.
LEMMA QueryMove ==
    ASSUME Move(Named(QueryTransitions))
    PROVE  /\ state \in {"submitted", "duly-made", "assessment-started",
                         "assessment-in-progress", "awaiting-decision"}
           /\ state' = "queried"
BY DEF Move, Named, BackendTransitions, Transitions, SecondTransitions,
       DeadlineTransition, QueryTransitions, ResumeTransitions,
       ContinueReviewTransitions, WithdrawTransitions,
       DeterminationTransitions, DulyMakeTransition, StartTransition,
       ExtendTransition

\* A withdrawal is declared from no state past the determination.
LEMMA WithdrawMove ==
    ASSUME Move(Named(WithdrawTransitions))
    PROVE  /\ state \in {"submitted", "duly-made", "assessment-started",
                         "assessment-in-progress", "awaiting-decision",
                         "queried", "updated"}
           /\ state' = "withdrawn"
BY DEF Move, Named, BackendTransitions, Transitions, SecondTransitions,
       DeadlineTransition, QueryTransitions, ResumeTransitions,
       ContinueReviewTransitions, WithdrawTransitions,
       DeterminationTransitions, DulyMakeTransition, StartTransition,
       ExtendTransition

-----------------------------------------------------------------------------
(* The case: its type, its consistency, and the point of no return.        *)

CaseGood ==
    /\ state \in States
    /\ origin \in Origins \cup {"none"}
    /\ holder \in Users \cup {NoOne}
    /\ querier \in Users \cup {NoOne}
    /\ clock \in BOOLEAN
    /\ CaseOK

StaysBegun == Begun(state, origin) => Begun(state', origin')

\* The states a parked case can go back to.
LEMMA OriginValues ==
    Origins = {"submitted", "duly-made", "assessment-in-progress", "awaiting-decision"}
BY DEF Origins, QueryTransitions

\* The states of a case, spelt out.
LEMMA StateValues ==
    States = {"submitted", "duly-made", "assessment-started",
              "assessment-in-progress", "awaiting-decision", "queried", "updated",
              "approved-pending-contact", "rejected-pending-contact",
              "approved", "rejected", "withdrawn"}
BY DEF States, PendingContactStates, TerminalStates

\* The states the backend takes a determination from.
LEMMA DecidableValues ==
    DecidableStates \subseteq
        {"assessment-in-progress", "assessment-started", "awaiting-decision"}
<1>1. SUFFICES ASSUME NEW t \in BackendTransitions,
                      t[1] \in {"submit-for-decision", "make-determination-approved"}
               PROVE  t[2] \in {"assessment-in-progress", "assessment-started",
                                "awaiting-decision"}
  BY DEF DecidableStates, Leaves
<1>2. QED
  BY <1>1 DEF BackendTransitions, Transitions, SecondTransitions,
       DeadlineTransition, QueryTransitions, ResumeTransitions,
       ContinueReviewTransitions, WithdrawTransitions,
       DeterminationTransitions, DulyMakeTransition, StartTransition,
       ExtendTransition

\* A contact confirmation applies the outcome that was determined.
LEMMA FinalValues ==
    ASSUME NEW s, NEW t \in FinalOf(s)
    PROVE  \/ s = "approved-pending-contact" /\ t = "approved"
           \/ s = "rejected-pending-contact" /\ t = "rejected"
BY DEF FinalOf, DeterminationTransitions, PendingContactStates

\* A step that leaves the case alone keeps it good.
LEMMA UnchangedCase ==
    ASSUME CaseGood, UNCHANGED case
    PROVE  CaseGood' /\ StaysBegun
BY DEF CaseGood, CaseOK, StaysBegun, Begun, case

\* An assignment keeps the case good.
LEMMA AssignCase ==
    ASSUME CaseGood, NEW r, form[r] \in Forms \cup {NoForm}, TakeAssign(r)
    PROVE  CaseGood' /\ StaysBegun
<1>1. form[r].to \in Users \cup {NoOne}
  BY FormFacts DEF NoForm
<1>2. QED
  BY <1>1 DEF CaseGood, CaseOK, StaysBegun, Begun, TakeAssign

\* A start keeps the case good and begins its assessment.
LEMMA StartCase ==
    ASSUME CaseGood, NEW r, TakeStart(r)
    PROVE  CaseGood' /\ StaysBegun /\ Begun(state', origin')
BY StartMove, StateValues DEF CaseGood, CaseOK, StaysBegun, Begun, TakeStart, ParkedStates

\* A determination keeps the case good.
LEMMA DecisionCase ==
    ASSUME CaseGood, NEW r, form[r] \in Forms \cup {NoForm}, TakeDecision(r)
    PROVE  CaseGood' /\ StaysBegun
<1>1. form[r].outcome \in {"approved", "rejected"}
  BY FormFacts DEF NoForm, TakeDecision, Outcomes
<1>2. state' \in {"approved-pending-contact", "rejected-pending-contact"}
  BY <1>1 DEF TakeDecision, Pending
<1>3. QED
  BY <1>2, StateValues, DecidableValues
     DEF CaseGood, CaseOK, StaysBegun, Begun, TakeDecision, ParkedStates

\* A deadline change keeps the case good.
LEMMA ExtendCase ==
    ASSUME CaseGood, NEW r, TakeExtend(r)
    PROVE  CaseGood' /\ StaysBegun
<1>1. CASE UNCHANGED state
  BY <1>1 DEF CaseGood, CaseOK, StaysBegun, Begun, TakeExtend
<1>2. CASE state = "assessment-started" /\ state' = "assessment-in-progress"
  BY <1>2, StateValues
     DEF CaseGood, CaseOK, StaysBegun, Begun, TakeExtend, ParkedStates
<1>3. QED
  BY <1>1, <1>2, ExtendMove DEF TakeExtend

\* A query keeps the case good: it notes the origin and the querier.
LEMMA QueryCase ==
    ASSUME CaseGood, NEW r, form[r] \in Forms \cup {NoForm}, TakeQuery(r)
    PROVE  CaseGood' /\ StaysBegun
<1>1. form[r].user \in Users
  BY FormFacts DEF NoForm, TakeQuery
<1>2. /\ state \in {"submitted", "duly-made", "assessment-started",
                    "assessment-in-progress", "awaiting-decision"}
      /\ state' = "queried"
  BY QueryMove DEF TakeQuery
<1>3. origin' = IF state = "assessment-started" THEN "assessment-in-progress" ELSE state
  BY DEF TakeQuery, OriginOf, LandingState, StartTransition
<1>4. QED
  BY <1>1, <1>2, <1>3, StateValues, OriginValues
     DEF CaseGood, CaseOK, StaysBegun, Begun, TakeQuery, ParkedStates

\* Duly making keeps the case good and starts its clock.
LEMMA DulyMakeCase ==
    ASSUME CaseGood, NEW r, TakeDulyMake(r)
    PROVE  CaseGood' /\ StaysBegun
<1>1. /\ state = "submitted" \/ (state = "updated" /\ origin = "submitted")
      /\ state' = "duly-made"
      /\ origin' = "none"
  BY DEF TakeDulyMake, DulyMakeTransition, WireOrigin
<1>2. QED
  BY <1>1, StateValues
     DEF CaseGood, CaseOK, StaysBegun, Begun, TakeDulyMake, ParkedStates

\* Continue review keeps the case good: it goes back to its origin.
LEMMA ContinueCase ==
    ASSUME CaseGood, NEW r, TakeContinue(r)
    PROVE  CaseGood' /\ StaysBegun
<1>1. /\ state = "updated"
      /\ state' = origin
      /\ origin' = "none"
      /\ origin \in {"submitted", "assessment-in-progress", "awaiting-decision"}
  BY OriginValues DEF TakeContinue, CaseGood, CaseOK, ParkedStates
<1>2. QED
  BY <1>1, StateValues
     DEF CaseGood, CaseOK, StaysBegun, Begun, TakeContinue, ParkedStates

\* A contact confirmation keeps the case good.
LEMMA ConfirmCase ==
    ASSUME CaseGood, NEW r, TakeConfirm(r)
    PROVE  CaseGood' /\ StaysBegun
BY FinalValues, StateValues
   DEF CaseGood, CaseOK, StaysBegun, Begun, TakeConfirm, ParkedStates

\* Whatever call the backend takes keeps the case good, and a start begins it.
LEMMA TakeCase ==
    ASSUME CaseGood, NEW r, NEW op, form[r] \in Forms \cup {NoForm}, Take(r, op)
    PROVE  /\ CaseGood'
           /\ StaysBegun
           /\ op = "start" => Begun(state', origin')
BY UnchangedCase, AssignCase, StartCase, DecisionCase, ExtendCase, QueryCase,
   DulyMakeCase, ContinueCase, ConfirmCase DEF Take, TakeNote

\* The operator's answer to a query keeps the case good.
LEMMA ResubmitCase ==
    ASSUME CaseGood, Resubmit
    PROVE  CaseGood' /\ StaysBegun
BY StateValues, OriginValues
   DEF CaseGood, CaseOK, StaysBegun, Begun, Resubmit, ParkedStates, calls, handlers

\* A withdrawal keeps the case good.
LEMMA WithdrawCase ==
    ASSUME CaseGood, Withdraw
    PROVE  CaseGood' /\ StaysBegun
<1>1. state' = "withdrawn" /\ origin' = "none"
  BY WithdrawMove DEF Withdraw
<1>2. QED
  BY <1>1, StateValues
     DEF CaseGood, CaseOK, StaysBegun, Begun, Withdraw, ParkedStates

-----------------------------------------------------------------------------
(* A step of a request: what of the case and of the others it leaves alone.*)

\* Every step keeps the case good and undoes no assessment.
LEMMA CaseNext ==
    ASSUME TypeOK, CaseOK, [Next]_vars
    PROVE  CaseGood' /\ StaysBegun
<1>0. CaseGood
  BY DEF TypeOK, CaseGood
<1>1. CASE UNCHANGED vars
  BY <1>0, <1>1, UnchangedCase DEF vars, case
<1>2. ASSUME NEW r \in Requests, HandlerStep(r)
      PROVE  CaseGood' /\ StaysBegun
  <2>1. UNCHANGED case
    BY <1>2 DEF HandlerStep, OpenPage, Submit, Read, ReadFails, Receive, TimeOut
  <2>2. QED
    BY <1>0, <2>1, UnchangedCase
<1>3. ASSUME NEW r \in Requests, BackendStep(r)
      PROVE  CaseGood' /\ StaysBegun
  <2>1. form[r] \in Forms \cup {NoForm}
    BY DEF TypeOK
  <2>2. PICK op \in Ops : Accept(r, op) \/ Replay(r, op) \/ Refuse(r, op)
    BY <1>3 DEF BackendStep
  <2>3. CASE Accept(r, op)
    BY <1>0, <2>1, <2>3, TakeCase DEF Accept
  <2>4. CASE Replay(r, op) \/ Refuse(r, op)
    BY <1>0, <2>4, UnchangedCase DEF Replay, Refuse
  <2>5. QED
    BY <2>2, <2>3, <2>4
<1>4. CASE Resubmit
  BY <1>0, <1>4, ResubmitCase
<1>5. CASE Withdraw
  BY <1>0, <1>5, WithdrawCase
<1>6. CASE Finished
  BY <1>1, <1>6 DEF Finished
<1>7. QED
  BY <1>1, <1>2, <1>3, <1>4, <1>5, <1>6 DEF Next

-----------------------------------------------------------------------------
(* The handlers' decisions.                                                *)

\* The reasons a handler stops at its read.
LEMMA RefusalValues ==
    ASSUME NEW f, NEW s, NEW c
    PROVE  Refusal(f, s, c) \in
             {"already-decided", "cannot-decide", "invalid", "redirected", "nothing"}
BY DEF Refusal

\* A handler's first call: who assigns, starts, posts a note or acts at once.
LEMMA FirstCallValues ==
    ASSUME NEW f, NEW s, NEW held
    PROVE  /\ FirstCall(f, s, held) \in {"assign", "start", "note", "act"}
           /\ f.kind \in StartingKinds =>
                 /\ FirstCall(f, s, held) = "assign" => ~held
                 /\ FirstCall(f, s, held) \in {"assign", "start"} <=> StartsFrom(s)
           /\ FirstCall(f, s, held) = "assign" =>
                 f.kind = "selfAssign" \/ f.kind \in StartingKinds
           /\ FirstCall(f, s, held) = "start" => f.kind \in StartingKinds /\ held
           /\ FirstCall(f, s, held) = "act" => ~f.note
           /\ FirstCall(f, s, held) = "note" => f.note
BY DEF FirstCall, Work, StartingKinds

\* A handler's next call: a note and an act come only after a start.
LEMMA NextCallValues ==
    ASSUME NEW f, NEW s, NEW op \in Ops
    PROVE  /\ NextCall(f, s, op) \in {"start", "note", "act", "done"}
           /\ op = "act" => NextCall(f, s, op) = "done"
           /\ NextCall(f, s, op) = "start" => op = "assign"
           /\ NextCall(f, s, op) = "note" => op = "start" /\ f.note
           /\ NextCall(f, s, op) = "act" => op = "note" \/ (op = "start" /\ ~f.note)
BY DEF NextCall, Work, StartingKinds, Ops

\* The banners of a call that failed.
LEMMA WhatToldValues ==
    ASSUME NEW f, NEW op, NEW res
    PROVE  WhatTold(f, op, res) \in
             {"not-started", "note-failed", "conflict", "nothing-changed",
              "invalid", "failed"}
BY DEF WhatTold

\* The sentences about the start a banner can open with.
LEMMA FirstToldValues ==
    ASSUME NEW f, NEW s, NEW held, NEW op, NEW res
    PROVE  FirstTold(f, s, held, op, res) \in
             {"nothing", "started", "assigned-and-started", "not-assigned",
              "not-started", "assigned-not-started"}
BY DEF FirstTold

\* A banner is a message.
LEMMA SayTyped ==
    ASSUME NEW what \in {"nothing", "done", "already-decided", "cannot-decide",
                         "unread", "redirected", "not-started", "note-failed",
                         "conflict", "invalid", "failed", "nothing-changed"},
           NEW first \in {"nothing", "started", "assigned-and-started",
                          "not-assigned", "not-started", "assigned-not-started"}
    PROVE  Say(what, first) \in Messages
BY DEF Say, Messages

\* What a determination or an extension goes on to work on has begun.
LEMMA ReadBegun ==
    ASSUME CaseGood, NEW f, f.kind \in StartingKinds,
           Refusal(f, state, clock) = "nothing", ~StartsFrom(state)
    PROVE  Begun(state, origin)
<1>1. CASE f.kind = "decide"
  <2>1. CanLogDecision(state)
    BY <1>1 DEF Refusal
  <2>2. state \in {"assessment-in-progress", "assessment-started",
                   "awaiting-decision", "duly-made"}
    BY <2>1 DEF CanLogDecision, DecisionEntryStates, LandingState, StartTransition,
         Transitions, QueryTransitions, ResumeTransitions,
         ContinueReviewTransitions, WithdrawTransitions,
         DeterminationTransitions, DulyMakeTransition, ExtendTransition
  <2>3. state # "duly-made"
    BY DEF StartsFrom, StartTransition, TerminalStates
  <2>4. QED
    BY <2>2, <2>3 DEF Begun, ParkedStates
<1>2. CASE f.kind = "extend"
  <2>1. clock
    BY <1>2 DEF Refusal
  <2>2. state # "duly-made"
    BY DEF StartsFrom, StartTransition, TerminalStates
  <2>3. QED
    BY <2>1, <2>2 DEF CaseGood, CaseOK, Begun, ParkedStates
<1>3. QED
  BY <1>1, <1>2 DEF StartingKinds

-----------------------------------------------------------------------------
(* Type correctness.                                                       *)

HandlerTypeOK ==
    /\ served \subseteq Requests \X Ops
    /\ late \subseteq Requests \X Ops
    /\ form \in [Requests -> Forms \cup {NoForm}]
    /\ pc \in [Requests -> Steps]
    /\ reply \in [Requests -> Replies]
    /\ seen \in [Requests -> Sights]
    /\ told \in [Requests -> Messages]

\* Going on after an answered call keeps the handlers' types.
LEMMA ProceedTyped ==
    ASSUME TypeOK, NEW r \in Requests, NEW res, pc[r] \in Ops, Proceed(r, res)
    PROVE  pc' \in [Requests -> Steps] /\ told' \in [Requests -> Messages]
<1> DEFINE f == form[r]
           next == NextCall(f, seen[r].state, pc[r])
           what == WhatTold(f, pc[r], res)
           first == FirstTold(f, seen[r].state, seen[r].held, pc[r], res)
<1>1. next \in Steps
  BY NextCallValues DEF Steps, Ops
<1>2. Say(what, first) \in Messages /\ Say("done", "nothing") \in Messages
  <2>1. what \in {"not-started", "note-failed", "conflict", "nothing-changed",
                  "invalid", "failed"}
    BY WhatToldValues
  <2>2. first \in {"nothing", "started", "assigned-and-started", "not-assigned",
                   "not-started", "assigned-not-started"}
    BY FirstToldValues
  <2> HIDE DEF what, first
  <2>3. QED
    BY <2>1, <2>2, SayTyped
<1>3. \/ pc' = [pc EXCEPT ![r] = "done"] /\ told' = [told EXCEPT ![r] = Say(what, first)]
      \/ pc' = [pc EXCEPT ![r] = "done"] /\ told' = [told EXCEPT ![r] = Say("done", "nothing")]
      \/ pc' = [pc EXCEPT ![r] = next] /\ told' = told
  BY DEF Proceed, Finish
<1> HIDE DEF next, what, first
<1>4. QED
  BY <1>1, <1>2, <1>3 DEF TypeOK, Steps

\* A handler's step keeps the handlers' types.
LEMMA HandlerTyped ==
    ASSUME TypeOK, NEW r \in Requests, HandlerStep(r)
    PROVE  HandlerTypeOK'
<1> USE DEF TypeOK, HandlerTypeOK, calls
<1>1. CASE OpenPage(r)
  <2>1. PICK u \in Users, k \in Kinds :
          \E f \in FormsOf(k, u) : form' = [form EXCEPT ![r] = f]
    BY <1>1 DEF OpenPage
  <2>2. PICK f \in FormsOf(k, u) : form' = [form EXCEPT ![r] = f]
    BY <2>1
  <2>3. f \in Forms
    BY <2>2 DEF Forms
  <2>4. QED
    BY <1>1, <2>2, <2>3 DEF OpenPage, Steps
<1>2. CASE Submit(r)
  BY <1>2 DEF Submit, FirstStep, Steps, Ops
<1>3. CASE Read(r)
  <2> DEFINE refusal == Refusal(form[r], state, clock)
             next == FirstCall(form[r], state, holder # NoOne)
  <2>1. next \in Steps
    BY FirstCallValues DEF Steps, Ops
  <2>2. Say(refusal, "nothing") \in Messages
    BY RefusalValues, SayTyped
  <2>3. [state |-> state, held |-> holder # NoOne] \in Sights
    BY DEF Sights
  <2>4. \/ pc' = [pc EXCEPT ![r] = next] /\ told' = told
        \/ pc' = [pc EXCEPT ![r] = "done"] /\ told' = [told EXCEPT ![r] = Say(refusal, "nothing")]
    BY <1>3 DEF Read, Finish
  <2>5. /\ seen' = [seen EXCEPT ![r] = [state |-> state, held |-> holder # NoOne]]
        /\ UNCHANGED <<served, late, form, reply>>
    BY <1>3 DEF Read
  <2> HIDE DEF refusal, next
  <2>6. QED
    BY <2>1, <2>2, <2>3, <2>4, <2>5 DEF Steps
<1>4. CASE ReadFails(r)
  <2> DEFINE next == FirstCall(form[r], "unread", FALSE)
  <2>1. next \in Steps
    BY FirstCallValues DEF Steps, Ops
  <2>2. Say("unread", "nothing") \in Messages
    BY SayTyped
  <2>3. \/ pc' = [pc EXCEPT ![r] = next] /\ told' = told
        \/ pc' = [pc EXCEPT ![r] = "done"] /\ told' = [told EXCEPT ![r] = Say("unread", "nothing")]
    BY <1>4 DEF ReadFails, Finish
  <2>4. UNCHANGED <<served, late, form, reply, seen>>
    BY <1>4 DEF ReadFails
  <2> HIDE DEF next
  <2>5. QED
    BY <2>1, <2>2, <2>3, <2>4 DEF Steps
<1>5. CASE Receive(r)
  <2>1. pc' \in [Requests -> Steps] /\ told' \in [Requests -> Messages]
    BY <1>5, ProceedTyped DEF Receive
  <2>2. QED
    BY <1>5, <2>1 DEF Receive, Replies
<1>6. CASE TimeOut(r)
  <2>1. pc' \in [Requests -> Steps] /\ told' \in [Requests -> Messages]
    BY <1>6, ProceedTyped DEF TimeOut
  <2>2. late' \subseteq Requests \X Ops
    <3>1. <<r, pc[r]>> \in Requests \X Ops
      BY <1>6 DEF TimeOut
    <3>2. late' = late \/ late' = late \cup {<<r, pc[r]>>}
      BY <1>6 DEF TimeOut
    <3>3. QED
      BY <3>1, <3>2
  <2>3. /\ reply' = [reply EXCEPT ![r] = "none"]
        /\ UNCHANGED <<served, form, seen>>
    BY <1>6 DEF TimeOut
  <2>4. QED
    BY <2>1, <2>2, <2>3 DEF Replies
<1>7. QED
  BY <1>1, <1>2, <1>3, <1>4, <1>5, <1>6 DEF HandlerStep

\* A served or refused call keeps the handlers' types.
LEMMA BackendTyped ==
    ASSUME TypeOK, NEW r \in Requests, NEW op \in Ops,
           Accept(r, op) \/ Replay(r, op) \/ Refuse(r, op)
    PROVE  HandlerTypeOK'
BY DEF TypeOK, HandlerTypeOK, Accept, Replay, Refuse, Answer, Replies

\* Every step keeps every type.
LEMMA TypeNext ==
    ASSUME TypeOK, CaseOK, [Next]_vars
    PROVE  TypeOK' /\ CaseOK'
<1>1. HandlerTypeOK'
  <2>1. CASE UNCHANGED <<calls, handlers>>
    BY <2>1 DEF TypeOK, HandlerTypeOK, calls, handlers
  <2>2. ASSUME NEW r \in Requests, BackendStep(r)
        PROVE  HandlerTypeOK'
    BY <2>2, BackendTyped DEF BackendStep
  <2>3. QED
    BY <2>1, <2>2, HandlerTyped
       DEF Next, Resubmit, Withdraw, Finished, vars, calls, handlers
<1>2. QED
  BY <1>1, CaseNext DEF TypeOK, HandlerTypeOK, CaseGood

\* The initial states have every type.
LEMMA TypeInit == Init => TypeOK /\ CaseOK
<1> SUFFICES ASSUME Init PROVE TypeOK /\ CaseOK
  OBVIOUS
<1>1. CaseGood
  BY StateValues DEF Init, CaseInit, CaseGood, CaseOK, ParkedStates
<1>2. HandlerTypeOK
  BY SayTyped DEF Init, HandlerTypeOK, Steps, Replies, Sights, Unread, Silence
<1>3. QED
  BY <1>1, <1>2 DEF TypeOK, CaseGood, HandlerTypeOK

\* Every variable keeps its type and the fields of the case agree, in every
\* behaviour and for any number of case workers and requests.
THEOREM TypeCorrect == Spec => [](TypeOK /\ CaseOK)
<1>1. Init => TypeOK /\ CaseOK
  BY TypeInit
<1>2. (TypeOK /\ CaseOK) /\ [Next]_vars => (TypeOK /\ CaseOK)'
  BY TypeNext
<1>3. QED
  BY <1>1, <1>2, PTL DEF Spec

\* The case's fields agree: a parked case knows where it was parked, a queried
\* one who queried it, and the clock runs from duly making on.
THEOREM CaseFieldsAgree == Spec => []CaseOK
  BY TypeCorrect, PTL

-----------------------------------------------------------------------------
(* The inductive invariant: each request's own part, and what it is told.  *)

RefusalIsTrue(r) == told[r].what \in NothingRecorded => ~Issued(r, "act")

\* What a banner says of the start is so, and a banner after a start tells of it.
StartIsTold(r) ==
    /\ told[r].first \in {"started", "assigned-and-started"} => <<r, "start">> \in served
    /\ told[r].first \in {"assigned-not-started", "assigned-and-started"} =>
          <<r, "assign">> \in served
    /\ /\ form[r].kind \in StartingKinds
       /\ Issued(r, "start")
       /\ told[r].what \in {"note-failed", "conflict", "failed"}
       => told[r].first # "nothing"

RequestGood(r) == RequestOK(r) /\ RefusalIsTrue(r) /\ StartIsTold(r)

IInv ==
    /\ TypeOK
    /\ CaseOK
    /\ \A r \in Requests : RequestGood(r)

\* What a step leaves alone for a request it is not a step of.
Untouched(r) ==
    /\ form'[r] = form[r]
    /\ pc'[r] = pc[r]
    /\ reply'[r] = reply[r]
    /\ seen'[r] = seen[r]
    /\ told'[r] = told[r]
    /\ \A op \in Ops : /\ <<r, op>> \in served' <=> <<r, op>> \in served
                       /\ <<r, op>> \in late' <=> <<r, op>> \in late

\* A request no step concerns stays as it should be.
LEMMA UntouchedGood ==
    ASSUME NEW r \in Requests, RequestGood(r), StaysBegun, Untouched(r)
    PROVE  RequestGood(r)'
BY DEF RequestGood, RefusalIsTrue, RequestOK, FreshAhead, FormOnPage,
       ReplyToAwaited, ActIsAnswered, NoteIsFirst, StartIsFirst, ToldAtEnd,
       AssignsUnheld, StartIsKnown, ServedOnce, Outstanding, Awaited, Ahead, StartIsTold, Issued, StaysBegun, Untouched, Ops

\* A handler's step is a step of its own request only.
LEMMA HandlerFrame ==
    ASSUME TypeOK, NEW r \in Requests, NEW q \in Requests \ {r}, HandlerStep(r)
    PROVE  Untouched(q)
<1> USE DEF Untouched, calls, TypeOK
<1>1. CASE OpenPage(r) \/ Submit(r)
  BY <1>1 DEF OpenPage, Submit
<1>2. CASE Read(r) \/ ReadFails(r)
  BY <1>2 DEF Read, ReadFails, Finish
<1>3. CASE Receive(r)
  BY <1>3 DEF Receive, Proceed, Finish
<1>4. CASE TimeOut(r)
  BY <1>4 DEF TimeOut, Proceed, Finish
<1>5. QED
  BY <1>1, <1>2, <1>3, <1>4 DEF HandlerStep

\* Serving a request's call concerns no other request but through the case.
LEMMA BackendFrame ==
    ASSUME TypeOK, NEW r \in Requests, NEW q \in Requests \ {r}, NEW op \in Ops,
           Accept(r, op) \/ Replay(r, op) \/ Refuse(r, op)
    PROVE  Untouched(q)
BY DEF TypeOK, Untouched, Accept, Replay, Refuse, Answer

\* A request that has made no call and is making none is as it should be.
LEMMA NoCallGood ==
    ASSUME NEW r \in Requests, form'[r] \in Forms, reply'[r] = "none",
           pc'[r] \in {"page", "read", "done"},
           \A op \in Ops : ~Issued(r, op)',
           pc'[r] # "done" => told'[r] = Silence,
           told'[r].first = "nothing"
    PROVE  RequestGood(r)'
<1>1. \A op \in Ops : <<r, op>> \notin served' /\ <<r, op>> \notin late'
  BY DEF Issued
<1>2. FreshAhead(r)' /\ ServedOnce(r)' /\ ReplyToAwaited(r)'
  BY <1>1 DEF FreshAhead, ServedOnce, ReplyToAwaited, Outstanding, Awaited, Issued,
              Ahead, Ops
<1>3. FormOnPage(r)' /\ ActIsAnswered(r)' /\ NoteIsFirst(r)' /\ StartIsFirst(r)'
  BY <1>1 DEF FormOnPage, ActIsAnswered, NoteIsFirst, StartIsFirst, Issued, Ops
<1>4. ToldAtEnd(r)' /\ AssignsUnheld(r)' /\ StartIsKnown(r)'
  BY <1>1 DEF ToldAtEnd, AssignsUnheld, StartIsKnown, Issued, Ops
<1>5. RefusalIsTrue(r)' /\ StartIsTold(r)'
  BY <1>1 DEF RefusalIsTrue, StartIsTold, Issued, Ops
<1>6. QED
  BY <1>2, <1>3, <1>4, <1>5 DEF RequestGood, RequestOK

\* So is one at its first call, when that is the call its read and form allow.
LEMMA FirstCallGood ==
    ASSUME NEW r \in Requests, form'[r] \in Forms, reply'[r] = "none",
           told'[r] = Silence, pc'[r] \in Ops,
           \A op \in Ops : ~Issued(r, op)',
           pc'[r] = "note" => form'[r].note,
           pc'[r] = "act" => ~form'[r].note,
           pc'[r] = "assign" =>
               \/ form'[r].kind \in {"assign", "unassign", "selfAssign"}
               \/ form'[r].kind \in StartingKinds /\ ~seen'[r].held,
           pc'[r] = "start" => form'[r].kind \in StartingKinds /\ seen'[r].held,
           form'[r].kind \in StartingKinds =>
               (pc'[r] \in {"assign", "start"} <=> StartsFrom(seen'[r].state)),
           form'[r].kind \in StartingKinds /\ pc'[r] \in {"note", "act"} =>
               Begun(state', origin')
    PROVE  RequestGood(r)'
<1>1. \A op \in Ops : <<r, op>> \notin served' /\ <<r, op>> \notin late'
  BY DEF Issued
<1>2. FreshAhead(r)' /\ ServedOnce(r)' /\ ReplyToAwaited(r)'
  BY <1>1 DEF FreshAhead, ServedOnce, ReplyToAwaited, Outstanding, Awaited, Issued,
              Ahead, Ops
<1>3. FormOnPage(r)' /\ ActIsAnswered(r)' /\ NoteIsFirst(r)' /\ StartIsFirst(r)'
  BY <1>1 DEF FormOnPage, ActIsAnswered, NoteIsFirst, StartIsFirst, Issued, Ops
<1>4. ToldAtEnd(r)' /\ AssignsUnheld(r)' /\ StartIsKnown(r)'
  <2>1. form'[r].kind \in StartingKinds => form'[r].kind # "selfAssign"
    BY DEF StartingKinds
  <2>2. QED
    BY <1>1, <2>1 DEF ToldAtEnd, AssignsUnheld, StartIsKnown, Issued, Ops
<1>5. RefusalIsTrue(r)' /\ StartIsTold(r)'
  BY <1>1 DEF RefusalIsTrue, StartIsTold, Issued, Ops, Silence, Say
<1>6. QED
  BY <1>2, <1>3, <1>4, <1>5 DEF RequestGood, RequestOK

\* So is one whose call failed, given up on or not, if its banner does not deny
\* an act that may be done.
LEMMA FailGood ==
    ASSUME NEW r \in Requests, NEW res, RequestGood(r),
           pc[r] \in Ops, pc'[r] = "done", reply'[r] = "none",
           form'[r] = form[r], seen'[r] = seen[r],
           told'[r] = Say(WhatTold(form[r], pc[r], res),
                          FirstTold(form[r], seen[r].state, seen[r].held, pc[r], res)),
           UNCHANGED <<served, state, origin>>,
           \A op \in Ops : <<r, op>> \in late' =>
               <<r, op>> \in late \/ (op = pc[r] /\ reply[r] = "none"),
           WhatTold(form[r], pc[r], res) \in NothingRecorded => ~Issued(r, "act")'
    PROVE  RequestGood(r)'
<1> DEFINE what == WhatTold(form[r], pc[r], res)
           first == FirstTold(form[r], seen[r].state, seen[r].held, pc[r], res)
<1>1. form[r] \in Forms
  BY DEF RequestGood, RequestOK, FormOnPage, Ops
<1>2. told'[r].what = what /\ told'[r].first = first
  BY DEF Say
<1>3. /\ form[r].note => form[r].kind = "decide"
      /\ pc[r] = "note" => form[r].note
  BY <1>1, FormFacts DEF RequestGood, RequestOK, NoteIsFirst
<1>4. /\ first \in {"started", "assigned-and-started"} =>
            form[r].kind \in StartingKinds /\ pc[r] \in {"note", "act"}
              /\ StartsFrom(seen[r].state)
      /\ first \in {"assigned-not-started", "assigned-and-started"} =>
            \/ pc[r] = "start" /\ (form[r].kind = "selfAssign" \/ ~seen[r].held)
            \/ /\ pc[r] \in {"note", "act"} /\ form[r].kind \in StartingKinds
               /\ StartsFrom(seen[r].state) /\ ~seen[r].held
      /\ /\ form[r].kind \in StartingKinds /\ StartsFrom(seen[r].state)
         /\ what \in {"note-failed", "conflict", "failed"}
         => first # "nothing"
  BY <1>3 DEF FirstTold, WhatTold, CheckedKinds, StartingKinds, Ops
<1>5. \A op \in Ops : Issued(r, op)' => Issued(r, op) \/ op = pc[r]
  BY DEF Issued
<1> HIDE DEF what, first
<1>6. FreshAhead(r)' /\ ServedOnce(r)' /\ ReplyToAwaited(r)'
  BY DEF RequestGood, RequestOK, FreshAhead, ServedOnce, ReplyToAwaited,
         Outstanding, Awaited, Ahead, Ops
<1>7. FormOnPage(r)' /\ ActIsAnswered(r)' /\ NoteIsFirst(r)' /\ ToldAtEnd(r)'
  BY <1>1, <1>5 DEF RequestGood, RequestOK, FormOnPage, ActIsAnswered,
                    NoteIsFirst, ToldAtEnd, Ops
<1>8. StartIsFirst(r)' /\ AssignsUnheld(r)'
  BY <1>5 DEF RequestGood, RequestOK, StartIsFirst, AssignsUnheld, Begun, Ops
<1>9. StartIsKnown(r)'
  BY <1>5 DEF RequestGood, RequestOK, StartIsKnown, Ops
<1>10. RefusalIsTrue(r)'
  BY <1>2 DEF RefusalIsTrue, what
<1>11. StartIsTold(r)'
  <2>1. first \in {"started", "assigned-and-started"} => <<r, "start">> \in served
    BY <1>4 DEF RequestGood, RequestOK, StartIsKnown
  <2>2. first \in {"assigned-not-started", "assigned-and-started"} =>
            <<r, "assign">> \in served
    BY <1>4 DEF RequestGood, RequestOK, StartIsKnown, Issued
  <2>3. form[r].kind \in StartingKinds /\ Issued(r, "start")' => StartsFrom(seen[r].state)
    BY <1>5 DEF RequestGood, RequestOK, StartIsKnown, Ops
  <2>4. QED
    BY <1>2, <1>4, <2>1, <2>2, <2>3 DEF StartIsTold
<1>12. QED
  BY <1>6, <1>7, <1>8, <1>9, <1>10, <1>11 DEF RequestGood, RequestOK

\* What is so of a request before its handler's read is over.
LEMMA BeforeRead ==
    ASSUME NEW r \in Requests, RequestGood(r), pc[r] \in {"idle", "page", "read"}
    PROVE  /\ \A op \in Ops : ~Issued(r, op)
           /\ reply[r] = "none" /\ told[r] = Silence
           /\ pc[r] # "idle" => form[r] \in Forms
BY DEF RequestGood, RequestOK, FreshAhead, Ahead, FormOnPage, ReplyToAwaited,
       ToldAtEnd, Ops

\* A page that is opened has made no call.
LEMMA OpenPageGood ==
    ASSUME TypeOK, NEW r \in Requests, RequestGood(r), OpenPage(r)
    PROVE  RequestGood(r)'
<1>1. PICK u \in Users, k \in Kinds :
        \E f \in FormsOf(k, u) : form' = [form EXCEPT ![r] = f]
  BY DEF OpenPage
<1>2. form'[r] \in Forms
  BY <1>1 DEF TypeOK, Forms
<1>3. /\ pc[r] = "idle" /\ pc'[r] = "page"
      /\ reply'[r] = reply[r] /\ told'[r] = told[r]
      /\ UNCHANGED <<served, late>>
  BY DEF OpenPage, TypeOK, calls
<1>4. QED
  BY <1>2, <1>3, BeforeRead, NoCallGood DEF Issued, Silence, Say

\* A form that is submitted goes to its read, or to the one call it makes.
LEMMA SubmitGood ==
    ASSUME TypeOK, NEW r \in Requests, RequestGood(r), Submit(r)
    PROVE  RequestGood(r)'
<1>1. /\ pc[r] = "page"
      /\ reply'[r] = reply[r] /\ told'[r] = told[r] /\ form'[r] = form[r]
      /\ UNCHANGED <<served, late>>
  BY DEF Submit, TypeOK, calls
<1>2. /\ \A op \in Ops : ~Issued(r, op)'
      /\ reply'[r] = "none" /\ told'[r] = Silence /\ form'[r] \in Forms
  BY <1>1, BeforeRead DEF Issued
<1>3. CASE form[r].kind \in ReadingKinds
  BY <1>2, <1>3, NoCallGood DEF Submit, FirstStep, TypeOK, Silence, Say
<1>4. CASE form[r].kind \notin ReadingKinds
  <2>1. /\ pc'[r] \in {"assign", "act"}
        /\ pc'[r] = "assign" => form[r].kind \in {"assign", "unassign"}
    BY <1>4 DEF Submit, FirstStep, TypeOK
  <2>2. form[r].kind \notin StartingKinds /\ ~form[r].note
    BY <1>1, <1>2, <1>4, FormFacts DEF ReadingKinds, StartingKinds
  <2>3. QED
    BY <1>1, <1>2, <2>1, <2>2, FirstCallGood DEF Ops
<1>5. QED
  BY <1>3, <1>4

\* A handler that stops at its read has made no call, and one that goes on makes
\* the first call its read allows.
LEMMA ReadGood ==
    ASSUME TypeOK, CaseOK, NEW r \in Requests, RequestGood(r), Read(r)
    PROVE  RequestGood(r)'
<1> DEFINE refusal == Refusal(form[r], state, clock)
           next == FirstCall(form[r], state, holder # NoOne)
<1>1. /\ pc[r] = "read" /\ form'[r] = form[r] /\ reply'[r] = reply[r]
      /\ seen'[r].held = (holder # NoOne) /\ seen'[r].state = state
      /\ UNCHANGED <<served, late, state, origin>>
  BY DEF Read, TypeOK, calls, case
<1>2. /\ \A op \in Ops : ~Issued(r, op)'
      /\ reply'[r] = "none" /\ told[r] = Silence /\ form'[r] \in Forms
  BY <1>1, BeforeRead DEF Issued
<1>3. CASE refusal # "nothing"
  <2>1. pc'[r] = "done" /\ told'[r].first = "nothing"
    BY <1>3 DEF Read, Finish, Say, TypeOK
  <2>2. QED
    BY <1>2, <2>1, NoCallGood
<1>4. CASE refusal = "nothing"
  <2>1. pc'[r] = next /\ told'[r] = told[r]
    BY <1>4 DEF Read, TypeOK
  <2>2. /\ next \in Ops
        /\ form[r].kind \in StartingKinds =>
              /\ next = "assign" => holder = NoOne
              /\ next \in {"assign", "start"} <=> StartsFrom(state)
        /\ next = "assign" =>
              form[r].kind = "selfAssign" \/ form[r].kind \in StartingKinds
        /\ next = "start" => form[r].kind \in StartingKinds /\ holder # NoOne
        /\ next = "act" => ~form[r].note
        /\ next = "note" => form[r].note
    BY FirstCallValues DEF Ops
  <2>3. form[r].kind \in StartingKinds /\ next \in {"note", "act"} =>
            Begun(state, origin)
    BY <1>4, <2>2, ReadBegun DEF TypeOK, CaseGood
  <2> HIDE DEF next
  <2>4. QED
    BY <1>1, <1>2, <2>1, <2>2, <2>3, FirstCallGood DEF Begun
<1>5. QED
  BY <1>3, <1>4

\* A failed read stops, or leads to a first call that starts nothing.
LEMMA ReadFailsGood ==
    ASSUME TypeOK, NEW r \in Requests, RequestGood(r), ReadFails(r)
    PROVE  RequestGood(r)'
<1> DEFINE next == FirstCall(form[r], "unread", FALSE)
<1>1. /\ pc[r] = "read" /\ form'[r] = form[r] /\ reply'[r] = reply[r]
      /\ UNCHANGED <<served, late>>
  BY DEF ReadFails, TypeOK, calls
<1>2. /\ \A op \in Ops : ~Issued(r, op)'
      /\ reply'[r] = "none" /\ told[r] = Silence /\ form'[r] \in Forms
  BY <1>1, BeforeRead DEF Issued
<1>3. CASE form[r].kind \in FailClosedKinds
  <2>1. pc'[r] = "done" /\ told'[r].first = "nothing"
    BY <1>3 DEF ReadFails, Finish, Say, TypeOK
  <2>2. QED
    BY <1>2, <2>1, NoCallGood
<1>4. CASE form[r].kind \notin FailClosedKinds
  <2>1. pc'[r] = next /\ told'[r] = told[r]
    BY <1>4 DEF ReadFails, TypeOK
  <2>2. form[r].kind \notin StartingKinds
    BY <1>4 DEF FailClosedKinds, StartingKinds
  <2>3. /\ next \in Ops
        /\ next = "assign" =>
              form[r].kind = "selfAssign" \/ form[r].kind \in StartingKinds
        /\ next = "start" => form[r].kind \in StartingKinds
        /\ next = "act" => ~form[r].note
        /\ next = "note" => form[r].note
    BY FirstCallValues DEF Ops
  <2> HIDE DEF next
  <2>4. QED
    BY <1>1, <1>2, <2>1, <2>2, <2>3, FirstCallGood
<1>5. QED
  BY <1>3, <1>4

\* An awaited call that ends well leads to the next one.
LEMMA ReceiveGood ==
    ASSUME TypeOK, NEW r \in Requests, RequestGood(r), Receive(r)
    PROVE  RequestGood(r)'
<1> DEFINE next == NextCall(form[r], seen[r].state, pc[r])
<1>1. /\ pc[r] \in Ops /\ reply[r] # "none" /\ reply'[r] = "none"
      /\ form'[r] = form[r] /\ seen'[r] = seen[r]
      /\ UNCHANGED <<served, late, state, origin>>
  BY DEF Receive, TypeOK, calls, case
<1>2. form[r] \in Forms /\ told[r] = Silence
  BY <1>1 DEF RequestGood, RequestOK, FormOnPage, ToldAtEnd, Ops
<1>3. CASE reply[r] # "ok"
  <2>1. /\ pc'[r] = "done"
        /\ told'[r] = Say(WhatTold(form[r], pc[r], reply[r]),
                          FirstTold(form[r], seen[r].state, seen[r].held, pc[r], reply[r]))
    BY <1>3 DEF Receive, Proceed, Finish, TypeOK
  <2>2. ~Issued(r, "act")'
    BY <1>1, <1>3 DEF RequestGood, RequestOK, ActIsAnswered, FreshAhead, Ahead,
                      Issued, Ops
  <2>3. QED
    BY <1>1, <2>1, <2>2, FailGood
<1>4. CASE reply[r] = "ok" /\ next = "done"
  <2>1. pc'[r] = "done" /\ told'[r].what = "done" /\ told'[r].first = "nothing"
    BY <1>4 DEF Receive, Proceed, Finish, Say, TypeOK
  <2>2. FreshAhead(r)' /\ ServedOnce(r)' /\ ReplyToAwaited(r)'
    BY <1>1, <2>1 DEF RequestGood, RequestOK, FreshAhead, ServedOnce, ReplyToAwaited,
                      Outstanding, Awaited, Ahead, Ops
  <2>3. FormOnPage(r)' /\ ActIsAnswered(r)' /\ NoteIsFirst(r)' /\ ToldAtEnd(r)'
    BY <1>1, <1>2, <2>1 DEF RequestGood, RequestOK, FormOnPage, ActIsAnswered,
                            NoteIsFirst, ToldAtEnd, Issued
  <2>4. StartIsFirst(r)' /\ AssignsUnheld(r)' /\ StartIsKnown(r)'
    BY <1>1, <2>1 DEF RequestGood, RequestOK, StartIsFirst, AssignsUnheld,
                      StartIsKnown, Issued, Begun
  <2>5. RefusalIsTrue(r)' /\ StartIsTold(r)'
    BY <2>1 DEF RefusalIsTrue, StartIsTold, NothingRecorded
  <2>6. QED
    BY <2>2, <2>3, <2>4, <2>5 DEF RequestGood, RequestOK
<1>5. CASE reply[r] = "ok" /\ next # "done"
  <2>1. pc'[r] = next /\ told'[r] = told[r]
    BY <1>5 DEF Receive, Proceed, TypeOK
  <2>2. /\ next \in {"start", "note", "act"} /\ pc[r] # "act"
        /\ next = "start" => pc[r] = "assign"
        /\ next = "note" => pc[r] = "start" /\ form[r].note
        /\ next = "act" => pc[r] = "note" \/ (pc[r] = "start" /\ ~form[r].note)
    BY <1>1, <1>5, NextCallValues
  <2>3. next \in Ahead(pc[r]) /\ Ahead(next) \subseteq Ahead(pc[r])
    BY <1>1, <2>2 DEF Ahead, Ops
  <2>4. /\ <<r, pc[r]>> \in served
        /\ ~Issued(r, next) /\ \A op \in Ahead(next) : ~Issued(r, op)
    BY <1>1, <1>5, <2>2, <2>3
       DEF RequestGood, RequestOK, ReplyToAwaited, FreshAhead
  <2>5. /\ form[r].kind \in StartingKinds /\ next \in {"note", "act"} =>
              Begun(state, origin)
        /\ form[r].kind \in StartingKinds /\ next = "start" => StartsFrom(seen[r].state)
        /\ form[r].kind \in StartingKinds /\ next \in {"note", "act"}
             /\ StartsFrom(seen[r].state) => <<r, "start">> \in served
    BY <2>2, <2>4 DEF RequestGood, RequestOK, StartIsFirst, StartIsKnown
  <2> HIDE DEF next
  <2>6. FreshAhead(r)' /\ ServedOnce(r)' /\ ReplyToAwaited(r)'
    BY <1>1, <2>1, <2>2, <2>4
       DEF RequestGood, RequestOK, FreshAhead, ServedOnce, ReplyToAwaited,
           Outstanding, Awaited, Issued, Ops
  <2>7. FormOnPage(r)' /\ ActIsAnswered(r)' /\ ToldAtEnd(r)'
    BY <1>1, <1>2, <2>1, <2>2, <2>4
       DEF FormOnPage, ActIsAnswered, ToldAtEnd, Issued
  <2>8. NoteIsFirst(r)'
    BY <1>1, <2>1, <2>2, <2>4 DEF RequestGood, RequestOK, NoteIsFirst, Issued
  <2>9. StartIsFirst(r)' /\ AssignsUnheld(r)' /\ StartIsKnown(r)'
    BY <1>1, <2>1, <2>2, <2>4, <2>5
       DEF RequestGood, RequestOK, StartIsFirst, AssignsUnheld, StartIsKnown,
           Issued, Begun
  <2>10. RefusalIsTrue(r)' /\ StartIsTold(r)'
    BY <1>2, <2>1 DEF RefusalIsTrue, StartIsTold, Silence, Say, NothingRecorded
  <2>11. QED
    BY <2>6, <2>7, <2>8, <2>9, <2>10 DEF RequestGood, RequestOK
<1>6. QED
  BY <1>3, <1>4, <1>5

\* A call given up on ends the request, and no banner of a call given up on
\* claims that nothing was recorded.
LEMMA TimeOutGood ==
    ASSUME TypeOK, NEW r \in Requests, RequestGood(r), TimeOut(r)
    PROVE  RequestGood(r)'
<1>1. /\ pc[r] \in Ops /\ reply'[r] = "none" /\ pc'[r] = "done"
      /\ form'[r] = form[r] /\ seen'[r] = seen[r]
      /\ told'[r] = Say(WhatTold(form[r], pc[r], "unavailable"),
                        FirstTold(form[r], seen[r].state, seen[r].held, pc[r],
                                  "unavailable"))
      /\ UNCHANGED <<served, state, origin>>
  BY DEF TimeOut, Proceed, Finish, TypeOK, case
<1>2. \A op \in Ops : <<r, op>> \in late' =>
          <<r, op>> \in late \/ (op = pc[r] /\ reply[r] = "none")
  BY DEF TimeOut
<1>3. WhatTold(form[r], pc[r], "unavailable") \in NothingRecorded => pc[r] # "act"
  BY DEF WhatTold, NothingRecorded, StartingKinds
<1>4. pc[r] # "act" => ~Issued(r, "act")'
  BY <1>1, <1>2 DEF RequestGood, RequestOK, FreshAhead, Ahead, Issued, Ops
<1>5. QED
  BY <1>1, <1>2, <1>3, <1>4, FailGood

\* A served call was on its way, so whatever had to come before it had come.
LEMMA AcceptGood ==
    ASSUME TypeOK, CaseOK, NEW r \in Requests, NEW op \in Ops, RequestGood(r),
           Accept(r, op)
    PROVE  RequestGood(r)'
<1>1. /\ StaysBegun
      /\ op = "start" => Begun(state', origin')
  BY TakeCase DEF Accept, TypeOK, CaseGood
<1>2. /\ form'[r] = form[r] /\ pc'[r] = pc[r]
      /\ seen'[r] = seen[r] /\ told'[r] = told[r]
      /\ served' = served \cup {<<r, op>>}
      /\ late' = late \ {<<r, op>>}
      /\ reply'[r] = IF Awaited(r, op) THEN "ok" ELSE reply[r]
  BY DEF Accept, Answer, TypeOK
<1>3. Awaited(r, op) \/ Issued(r, op)
  BY DEF Accept, Outstanding, Issued
<1>4. op \notin Ahead(pc[r])
  BY <1>3 DEF RequestGood, RequestOK, FreshAhead, Awaited, Ahead, Ops
<1>5. /\ pc[r] \notin {"idle", "page", "read"} /\ form[r] \in Forms
      /\ op = "act" => pc[r] \notin {"assign", "start", "note"}
  BY <1>4 DEF RequestGood, RequestOK, FormOnPage, Ahead, Ops
<1>6. op = "act" /\ pc[r] = "act" => Awaited(r, op)
  BY DEF RequestGood, RequestOK, ActIsAnswered, Accept, Outstanding
<1>7. FreshAhead(r)'
  BY <1>2, <1>4 DEF RequestGood, RequestOK, FreshAhead, Issued
<1>8. ServedOnce(r)' /\ ReplyToAwaited(r)'
  BY <1>2 DEF RequestGood, RequestOK, ServedOnce, ReplyToAwaited, Outstanding, Awaited
<1>9. FormOnPage(r)' /\ ActIsAnswered(r)' /\ ToldAtEnd(r)'
  BY <1>2, <1>5, <1>6
     DEF RequestGood, RequestOK, FormOnPage, ActIsAnswered, ToldAtEnd, Awaited
<1>10. NoteIsFirst(r)'
  BY <1>2, <1>3 DEF RequestGood, RequestOK, NoteIsFirst, Issued, Awaited
<1>11. StartIsFirst(r)'
  BY <1>1, <1>2, <1>3
     DEF RequestGood, RequestOK, StartIsFirst, Issued, Awaited, StaysBegun
<1>12. AssignsUnheld(r)' /\ StartIsKnown(r)'
  BY <1>2, <1>3 DEF RequestGood, RequestOK, AssignsUnheld, StartIsKnown, Issued, Awaited
<1>13. RefusalIsTrue(r)'
  <2>1. op = "act" => told[r].what \notin NothingRecorded
    BY <1>3 DEF RequestGood, RequestOK, RefusalIsTrue, ToldAtEnd, Awaited, Silence,
                Say, NothingRecorded
  <2>2. QED
    BY <1>2, <2>1 DEF RequestGood, RefusalIsTrue, Issued
<1>14. StartIsTold(r)'
  <2>1. pc[r] # "done" => told[r].what = "nothing"
    BY DEF RequestGood, RequestOK, ToldAtEnd, Silence, Say
  <2>2. pc[r] = "done" => Issued(r, op)
    BY <1>3 DEF Awaited, Ops
  <2>3. QED
    BY <1>2, <2>1, <2>2 DEF RequestGood, StartIsTold, Issued
<1>15. QED
  BY <1>7, <1>8, <1>9, <1>10, <1>11, <1>12, <1>13, <1>14 DEF RequestGood, RequestOK

\* A call that did nothing leaves its request as it should be.
LEMMA ReplayOrRefuseGood ==
    ASSUME TypeOK, NEW r \in Requests, NEW op \in Ops, RequestGood(r),
           Replay(r, op) \/ Refuse(r, op)
    PROVE  RequestGood(r)'
<1>1. /\ form'[r] = form[r] /\ pc'[r] = pc[r]
      /\ seen'[r] = seen[r] /\ told'[r] = told[r]
      /\ late' = late \ {<<r, op>>}
      /\ UNCHANGED <<served, state, origin>>
  BY DEF Replay, Refuse, Answer, TypeOK, case
<1>2. \/ reply'[r] = reply[r]
      \/ Awaited(r, op) /\ reply'[r] \in {"conflict", "invalid", "server"}
      \/ Awaited(r, op) /\ op = "act" /\ reply'[r] = "ok"
  BY DEF Replay, Refuse, Answer, IsReplay, TypeOK
<1>3. \A o \in Ops : Issued(r, o)' => Issued(r, o)
  BY <1>1 DEF Issued
<1>4. FreshAhead(r)' /\ FormOnPage(r)' /\ ToldAtEnd(r)'
  BY <1>1, <1>3 DEF RequestGood, RequestOK, FreshAhead, FormOnPage, ToldAtEnd, Ahead, Ops
<1>5. ServedOnce(r)' /\ ReplyToAwaited(r)'
  BY <1>1, <1>2 DEF RequestGood, RequestOK, ServedOnce, ReplyToAwaited, Outstanding, Awaited
<1>6. ActIsAnswered(r)'
  BY <1>1, <1>2 DEF RequestGood, RequestOK, ActIsAnswered, ServedOnce, Outstanding,
                    Awaited, Ops
<1>7. NoteIsFirst(r)' /\ StartIsFirst(r)' /\ AssignsUnheld(r)' /\ StartIsKnown(r)'
  BY <1>1, <1>3 DEF RequestGood, RequestOK, NoteIsFirst, StartIsFirst, AssignsUnheld,
                    StartIsKnown, Begun, Ops
<1>8. RefusalIsTrue(r)' /\ StartIsTold(r)'
  BY <1>1, <1>3 DEF RequestGood, RefusalIsTrue, StartIsTold, Ops
<1>9. QED
  BY <1>4, <1>5, <1>6, <1>7, <1>8 DEF RequestGood, RequestOK

\* The inductive invariant holds at first.
LEMMA RequestsInit == Init => IInv
BY TypeInit
   DEF Init, IInv, RequestGood, RefusalIsTrue, RequestOK, FreshAhead,
       FormOnPage, ReplyToAwaited, ActIsAnswered, NoteIsFirst, StartIsFirst,
       ToldAtEnd, AssignsUnheld, StartIsKnown, ServedOnce, Outstanding, Awaited, Ahead,
       StartIsTold, Issued, Ops, NoForm, Silence, Say,
       NothingRecorded, StartingKinds

\* Every step keeps the inductive invariant.
LEMMA RequestsNext ==
    ASSUME IInv, [Next]_vars
    PROVE  IInv'
<1>1. (TypeOK /\ CaseOK)' /\ StaysBegun
  BY TypeNext, CaseNext DEF IInv
<1>2. ASSUME NEW q \in Requests PROVE RequestGood(q)'
  <2>0. TypeOK /\ CaseOK /\ RequestGood(q)
    BY DEF IInv
  <2>1. CASE UNCHANGED <<calls, handlers>>
    <3>1. Untouched(q)
      BY <2>1 DEF Untouched, calls, handlers
    <3>2. QED
      BY <2>0, <1>1, <3>1, UntouchedGood
  <2>2. ASSUME NEW r \in Requests, HandlerStep(r) PROVE RequestGood(q)'
    <3>1. CASE r # q
      BY <2>0, <1>1, <2>2, <3>1, HandlerFrame, UntouchedGood
    <3>2. CASE r = q
      BY <2>0, <2>2, <3>2, OpenPageGood, SubmitGood, ReadGood, ReadFailsGood,
         ReceiveGood, TimeOutGood DEF HandlerStep
    <3>3. QED
      BY <3>1, <3>2
  <2>3. ASSUME NEW r \in Requests, BackendStep(r) PROVE RequestGood(q)'
    <3>1. PICK op \in Ops : Accept(r, op) \/ Replay(r, op) \/ Refuse(r, op)
      BY <2>3 DEF BackendStep
    <3>2. CASE r # q
      BY <2>0, <1>1, <3>1, <3>2, BackendFrame, UntouchedGood
    <3>3. CASE r = q
      BY <2>0, <3>1, <3>3, AcceptGood, ReplayOrRefuseGood
    <3>4. QED
      BY <3>2, <3>3
  <2>4. QED
    BY <2>1, <2>2, <2>3
       DEF Next, Resubmit, Withdraw, Finished, vars, calls, handlers
<1>3. QED
  BY <1>1, <1>2 DEF IInv

\* What is so of every request at every step of its handler, for any number of
\* requests and users: the inductive invariant.
THEOREM RequestsCorrect == Spec => []IInv
<1>1. IInv /\ [Next]_vars => IInv'
  BY RequestsNext
<1>2. QED
  BY <1>1, RequestsInit, PTL DEF Spec

-----------------------------------------------------------------------------
(* The properties.                                                         *)

\* Every handler makes its calls in order, whatever the others do.
THEOREM HandlersInOrder == Spec => []HandlersOK
<1>1. IInv => HandlersOK
  BY DEF IInv, HandlersOK, RequestGood
<1>2. QED
  BY <1>1, RequestsCorrect, PTL

\* No determination is on record without the rationale it promised.
THEOREM RationaleFirst == Spec => []RationaleOnFile
<1>1. IInv => RationaleOnFile
  BY DEF IInv, RequestGood, RequestOK, NoteIsFirst, Issued, RationaleOnFile
<1>2. QED
  BY <1>1, RequestsCorrect, PTL

\* No case worker is told that nothing was recorded when it was or may yet be.
THEOREM RefusalsTold == Spec => []RefusalsAreTrue
<1>1. IInv => RefusalsAreTrue
  BY DEF IInv, RequestGood, RefusalIsTrue, Issued, RefusalsAreTrue
<1>2. QED
  BY <1>1, RequestsCorrect, PTL

\* No determination or deadline change is on its way to a case not started.
THEOREM StartBeforeWork == Spec => []NoWorkBeforeStart
<1>1. IInv => NoWorkBeforeStart
  BY DEF IInv, RequestGood, RequestOK, StartIsFirst, Issued, NoWorkBeforeStart,
         Outstanding, Awaited
<1>2. QED
  BY <1>1, RequestsCorrect, PTL

\* Assessment once begun is never undone.
THEOREM NeverBack == Spec => NeverBackBeforeAssessment
<1>1. TypeOK /\ CaseOK /\ [Next]_vars =>
        [Begun(state, origin) => Begun(state', origin')]_vars
  BY CaseNext DEF StaysBegun
<1>2. QED
  BY <1>1, TypeCorrect, PTL DEF Spec, NeverBackBeforeAssessment

-----------------------------------------------------------------------------
(* A determination, once recorded, stands.                                 *)

StaysDecided ==
    \A o \in Outcomes :
        /\ state \in {Pending[o], o} => state' \in {Pending[o], o}
        /\ state = o => state' = o

\* No call the backend takes turns a determination into another.
LEMMA TakeDecided ==
    ASSUME NEW r, NEW op, Take(r, op), CaseGood
    PROVE  StaysDecided
<1> USE DEF StaysDecided, Outcomes, Pending
<1>1. CASE UNCHANGED state
  BY <1>1
<1>2. CASE TakeStart(r)
  BY <1>2, StartMove DEF TakeStart
<1>3. CASE TakeDecision(r)
  BY <1>3, DecidableValues DEF TakeDecision
<1>4. CASE TakeExtend(r)
  BY <1>4, ExtendMove DEF TakeExtend
<1>5. CASE TakeQuery(r)
  BY <1>5, QueryMove DEF TakeQuery
<1>6. CASE TakeDulyMake(r)
  <2>1. state \in {"submitted", "updated"}
    BY <1>6 DEF TakeDulyMake, WireOrigin, DulyMakeTransition
  <2>2. QED
    BY <2>1
<1>7. CASE TakeContinue(r)
  BY <1>7 DEF TakeContinue
<1>8. CASE TakeConfirm(r)
  BY <1>8, FinalValues DEF TakeConfirm
<1>9. QED
  BY <1>1, <1>2, <1>3, <1>4, <1>5, <1>6, <1>7, <1>8
     DEF Take, TakeAssign, TakeNote, case

\* No step turns a determination into another.
LEMMA NextDecided ==
    ASSUME IInv, [Next]_vars
    PROVE  StaysDecided
<1>1. CASE UNCHANGED state
  BY <1>1 DEF StaysDecided
<1>2. ASSUME NEW r \in Requests, BackendStep(r) PROVE StaysDecided
  BY <1>1, <1>2, TakeDecided
     DEF IInv, TypeOK, CaseGood, BackendStep, Accept, Replay, Refuse, case
<1>3. CASE Resubmit
  BY <1>3 DEF Resubmit, StaysDecided, Outcomes, Pending
<1>4. CASE Withdraw
  BY <1>4, WithdrawMove DEF Withdraw, StaysDecided, Outcomes, Pending
<1>5. ASSUME NEW r \in Requests, HandlerStep(r) PROVE UNCHANGED state
  BY <1>5 DEF HandlerStep, OpenPage, Submit, Read, ReadFails, Receive, TimeOut, case
<1>6. QED
  BY <1>1, <1>2, <1>3, <1>4, <1>5 DEF Next, Finished, vars

\* The form of a request whose act was served is the one it was served with.
LEMMA ServedForm ==
    ASSUME IInv, [Next]_vars, NEW r \in Requests, <<r, "act">> \in served
    PROVE  form'[r] = form[r]
<1>1. pc[r] # "idle"
  BY DEF IInv, RequestGood, RequestOK, FreshAhead, Ahead, Ops, Issued
<1>2. CASE UNCHANGED handlers
  BY <1>2 DEF handlers
<1>3. ASSUME NEW q \in Requests, HandlerStep(q) PROVE form'[r] = form[r]
  BY <1>1, <1>3
     DEF IInv, TypeOK, HandlerStep, OpenPage, Submit, Read, ReadFails, Receive, TimeOut
<1>4. ASSUME NEW q \in Requests, BackendStep(q) PROVE form'[r] = form[r]
  BY <1>4 DEF BackendStep, Accept, Replay, Refuse, Answer
<1>5. QED
  BY <1>2, <1>3, <1>4 DEF Next, Resubmit, Withdraw, Finished, vars, handlers

\* Only a served act of a determination puts it on record.
LEMMA NewlyServed ==
    ASSUME IInv, [Next]_vars, NEW r \in Requests, NEW op \in Ops,
           <<r, op>> \in served' \ served
    PROVE  Accept(r, op)
<1>1. PICK q \in Requests : BackendStep(q)
  BY DEF Next, HandlerStep, OpenPage, Submit, Read, ReadFails, Receive, TimeOut,
         Resubmit, Withdraw, Finished, vars, calls
<1>2. PICK p \in Ops : Accept(q, p)
  BY <1>1 DEF BackendStep, Replay, Refuse
<1>3. served' = served \cup {<<q, p>>}
  BY <1>2 DEF Accept
<1>4. q = r /\ p = op
  BY <1>3
<1>5. QED
  BY <1>2, <1>4

\* However the requests interleave, no recorded determination is undone or
\* turned into another.
THEOREM DecisionsStand == Spec => []DecisionStands
<1>1. Init => DecisionStands
  BY DEF Init, DecisionStands
<1>2. IInv /\ DecisionStands /\ [Next]_vars => DecisionStands'
  <2> SUFFICES ASSUME IInv, DecisionStands, [Next]_vars,
                      NEW r \in Requests, form'[r].kind = "decide",
                      <<r, "act">> \in served'
               PROVE  state' \in {Pending[form'[r].outcome], form'[r].outcome}
    BY DEF DecisionStands, DecidedAs
  <2>1. CASE <<r, "act">> \in served
    <3>1. form'[r] = form[r]
      BY <2>1, ServedForm
    <3>2. form[r].outcome \in Outcomes
      BY <3>1, FormFacts DEF IInv, TypeOK, NoForm
    <3>3. state \in {Pending[form[r].outcome], form[r].outcome}
      BY <2>1, <3>1 DEF DecisionStands, DecidedAs
    <3>4. StaysDecided
      BY NextDecided
    <3>5. QED
      BY <3>1, <3>2, <3>3, <3>4 DEF StaysDecided
  <2>2. CASE <<r, "act">> \notin served
    <3>1. Accept(r, "act")
      BY <2>2, NewlyServed DEF Ops
    <3>2. form'[r] = form[r]
      BY <3>1 DEF Accept, Answer
    <3>3. TakeDecision(r)
      BY <3>1, <3>2 DEF Accept, Take, TakeExtend, TakeQuery, TakeDulyMake,
                        TakeContinue, TakeConfirm
    <3>4. QED
      BY <3>2, <3>3 DEF TakeDecision
  <2>3. QED
    BY <2>1, <2>2
<1>3. QED
  BY <1>1, <1>2, RequestsCorrect, PTL DEF Spec

-----------------------------------------------------------------------------
(* The start of a case is reported.                                        *)

\* What a banner says of the start and of the assignment was done, and a submit
\* that fails after its start says that it started the case.
THEOREM StartsTold == Spec => []StartIsReported
<1>1. IInv => StartIsReported
  BY DEF IInv, RequestGood, RequestOK, StartIsFirst, StartIsTold, StartIsReported, Issued
<1>2. QED
  BY <1>1, RequestsCorrect, PTL

-----------------------------------------------------------------------------
(* What a success banner says is so.                                       *)

\* A handler is at a step that a form of its kind takes.
StepFits(r) ==
    /\ pc[r] = "read" => form[r].kind \in ReadingKinds
    /\ pc[r] = "assign" =>
          form[r].kind \in {"assign", "unassign", "selfAssign"} \cup StartingKinds
    /\ pc[r] = "start" => form[r].kind \in StartingKinds \cup {"selfAssign"}
    /\ pc[r] \in {"note", "act"} =>
          form[r].kind \notin {"assign", "unassign", "selfAssign"}

\* An act is answered ok when it was taken, or is a replay.
ActAnswered(r) ==
    reply[r] = "ok" /\ pc[r] = "act" =>
        /\ form[r].kind \in CheckedKinds => <<r, "act">> \in served
        /\ form[r].kind = "decide" => DecidedAs(r)
        /\ form[r].kind = "confirm" => state \in {"approved", "rejected"}

\* What is so of a request whose user is told that it is done.
Successful(r) ==
    /\ form[r].kind \in {"assign", "unassign", "selfAssign"} => <<r, "assign">> \in served
    /\ form[r].kind \in StartingKinds \cup {"selfAssign"} /\ StartsFrom(seen[r].state) =>
          <<r, "start">> \in served
    /\ form[r].kind \in CheckedKinds => <<r, "act">> \in served
    /\ form[r].kind = "decide" => DecidedAs(r)
    /\ form[r].note => <<r, "note">> \in served
    /\ form[r].kind = "confirm" => state \in {"approved", "rejected"}

SuccessGood(r) ==
    /\ StepFits(r)
    /\ ActAnswered(r)
    /\ told[r].what = "done" => Successful(r)

\* A determination stays the one it is, and an applied one stays applied.
StaysApplied ==
    /\ state \in {"approved", "rejected"} => state' \in {"approved", "rejected"}
    /\ \A o \in Outcomes : state \in {Pending[o], o} => state' \in {Pending[o], o}

\* What a determination's form chose stays what the case was determined as.
LEMMA StaysDecidedAs ==
    ASSUME TypeOK, NEW r \in Requests, StaysApplied, form[r].kind = "decide",
           form'[r] = form[r], DecidedAs(r)
    PROVE  DecidedAs(r)'
<1>1. form[r].outcome \in Outcomes
  BY FormFacts DEF TypeOK, NoForm
<1>2. QED
  BY <1>1 DEF StaysApplied, DecidedAs

LEMMA NextApplied ==
    ASSUME IInv, [Next]_vars
    PROVE  StaysApplied
BY NextDecided DEF StaysApplied, StaysDecided, Outcomes

\* A request no step concerns stays as it is told to be.
LEMMA UntouchedSuccess ==
    ASSUME TypeOK, NEW r \in Requests, SuccessGood(r), StaysApplied, Untouched(r)
    PROVE  SuccessGood(r)'
<1>1. StepFits(r)'
  BY DEF SuccessGood, StepFits, Untouched
<1>2. ActAnswered(r)'
  BY StaysDecidedAs DEF SuccessGood, ActAnswered, Untouched, StaysApplied, Ops
<1>3. (told[r].what = "done" => Successful(r))'
  BY StaysDecidedAs DEF SuccessGood, Successful, Untouched, StaysApplied, Ops
<1>4. QED
  BY <1>1, <1>2, <1>3 DEF SuccessGood

\* A call that ends a handler with success completes what its form asked for.
LEMMA EndsInSuccess ==
    ASSUME TypeOK, NEW r \in Requests, RequestGood(r), SuccessGood(r),
           pc[r] \in Ops, reply[r] = "ok",
           NextCall(form[r], seen[r].state, pc[r]) = "done"
    PROVE  Successful(r)
<1>0. form[r].note => form[r].kind = "decide"
  BY FormFacts DEF TypeOK, NoForm
<1>1. CASE pc[r] = "act"
  <2>1. form[r].kind \in StartingKinds /\ StartsFrom(seen[r].state) => <<r, "start">> \in served
    BY <1>1 DEF RequestGood, RequestOK, StartIsKnown
  <2>2. form[r].note => <<r, "note">> \in served
    BY <1>1 DEF RequestGood, RequestOK, NoteIsFirst
  <2>3. QED
    BY <1>1, <2>1, <2>2 DEF SuccessGood, StepFits, ActAnswered, Successful
<1>2. CASE pc[r] = "assign"
  <2>1. <<r, "assign">> \in served
    BY <1>2 DEF RequestGood, RequestOK, ReplyToAwaited
  <2>2. /\ form[r].kind \notin StartingKinds
        /\ form[r].kind = "selfAssign" => ~StartsFrom(seen[r].state)
    BY <1>2 DEF NextCall
  <2>3. form[r].kind \in {"assign", "unassign", "selfAssign"}
    BY <1>2, <2>2 DEF SuccessGood, StepFits
  <2>4. QED
    BY <1>0, <2>1, <2>2, <2>3 DEF Successful, StartingKinds, CheckedKinds
<1>3. CASE pc[r] = "start"
  <2>1. <<r, "start">> \in served
    BY <1>3 DEF RequestGood, RequestOK, ReplyToAwaited
  <2>2. form[r].kind \notin StartingKinds
    BY <1>3 DEF NextCall, Work
  <2>3. form[r].kind = "selfAssign"
    BY <1>3, <2>2 DEF SuccessGood, StepFits
  <2>4. <<r, "assign">> \in served
    BY <1>3, <2>3 DEF RequestGood, RequestOK, StartIsKnown
  <2>5. QED
    BY <1>0, <2>1, <2>3, <2>4 DEF Successful, StartingKinds, CheckedKinds
<1>4. CASE pc[r] = "note"
  BY <1>4 DEF NextCall
<1>5. QED
  BY <1>1, <1>2, <1>3, <1>4 DEF Ops

\* An answer or an abandoned call takes the handler to a step its form takes, and
\* to the report of a success only after the last call of its work succeeded.
LEMMA ProceedSuccess ==
    ASSUME TypeOK, NEW r \in Requests, RequestGood(r), SuccessGood(r), NEW res,
           res = "ok" => reply[r] = "ok", pc[r] \in Ops, Proceed(r, res),
           reply'[r] = "none", UNCHANGED <<state, served, form, seen>>
    PROVE  SuccessGood(r)'
<1> DEFINE next == NextCall(form[r], seen[r].state, pc[r])
           what == WhatTold(form[r], pc[r], res)
           first == FirstTold(form[r], seen[r].state, seen[r].held, pc[r], res)
<1>1. /\ res # "ok" => Finish(r, what, first)
      /\ res = "ok" /\ next = "done" => Finish(r, "done", "nothing")
      /\ res = "ok" /\ next # "done" => pc' = [pc EXCEPT ![r] = next] /\ UNCHANGED told
  BY DEF Proceed
<1>2. /\ next \in {"start", "note", "act", "done"}
      /\ next = "start" => form[r].kind \in StartingKinds \cup {"selfAssign"}
      /\ next \in {"note", "act"} =>
            pc[r] = "note" \/ form[r].kind \in StartingKinds
  BY NextCallValues DEF NextCall, Work, Ops
<1>3. what # "done"
  BY WhatToldValues
<1>4. next = "done" /\ res = "ok" => Successful(r)
  BY EndsInSuccess
<1>5. told[r] = Silence
  BY DEF RequestGood, RequestOK, ToldAtEnd, Ops
<1>5a. Successful(r) => Successful(r)'
  BY DEF Successful, DecidedAs
<1> HIDE DEF next, what, first
<1>6. CASE pc'[r] = "done" /\ (told'[r].what = "done" => next = "done" /\ res = "ok")
  BY <1>4, <1>5a, <1>6 DEF SuccessGood, StepFits, ActAnswered
<1>7. CASE pc'[r] = next /\ next # "done" /\ told'[r] = told[r]
  <2>1. form[r].kind \notin {"assign", "unassign", "selfAssign"} \/ pc'[r] = "start"
    BY <1>2, <1>7 DEF SuccessGood, StepFits, StartingKinds
  <2>2. QED
    BY <1>2, <1>5, <1>7, <2>1
       DEF SuccessGood, StepFits, ActAnswered, Silence, Say
<1>8. CASE res # "ok"
  <2>1. pc'[r] = "done" /\ told'[r].what = what
    BY <1>1, <1>8 DEF Finish, TypeOK, Say
  <2>2. QED
    BY <1>3, <1>6, <2>1
<1>9. CASE res = "ok" /\ next = "done"
  BY <1>1, <1>6, <1>9 DEF Finish, TypeOK
<1>10. CASE res = "ok" /\ next # "done"
  BY <1>1, <1>7, <1>10 DEF TypeOK
<1>11. QED
  BY <1>8, <1>9, <1>10

\* A handler's step leaves its own request as it is told to be.
LEMMA HandlerSuccess ==
    ASSUME TypeOK, NEW r \in Requests, RequestGood(r), SuccessGood(r), HandlerStep(r)
    PROVE  SuccessGood(r)'
<1>1. CASE OpenPage(r)
  <2>1. pc'[r] = "page" /\ told'[r] = Silence
    BY <1>1, BeforeRead DEF OpenPage, TypeOK
  <2>2. QED
    BY <2>1 DEF SuccessGood, StepFits, ActAnswered, Silence, Say
<1>2. CASE Submit(r)
  <2>1. /\ pc'[r] = FirstStep(form[r].kind) /\ form'[r] = form[r]
        /\ told'[r] = Silence /\ reply'[r] = "none"
    BY <1>2, BeforeRead DEF Submit, TypeOK
  <2>2. QED
    BY <2>1 DEF FirstStep, SuccessGood, StepFits, ActAnswered, Silence, Say, ReadingKinds
<1>3. CASE Read(r) \/ ReadFails(r)
  <2>1. /\ reply'[r] = "none" /\ form'[r] = form[r] /\ told[r] = Silence
        /\ form[r].kind \in ReadingKinds
    BY <1>3, BeforeRead DEF Read, ReadFails, SuccessGood, StepFits
  <2>2. \/ pc'[r] = "done" /\ told'[r].what # "done"
        \/ /\ told'[r] = told[r]
           /\ \E s, held : pc'[r] = FirstCall(form[r], s, held)
    <3>1. CASE Read(r) /\ Refusal(form[r], state, clock) = "nothing"
      BY <3>1 DEF Read, TypeOK
    <3>2. CASE Read(r) /\ Refusal(form[r], state, clock) # "nothing"
      <4>1. Finish(r, Refusal(form[r], state, clock), "nothing")
        BY <3>2 DEF Read
      <4>2. /\ pc'[r] = "done"
            /\ told'[r] = Say(Refusal(form[r], state, clock), "nothing")
        BY <4>1 DEF Finish, TypeOK
      <4>3. Refusal(form[r], state, clock) # "done"
        BY RefusalValues
      <4>4. QED
        BY <4>2, <4>3 DEF Say
    <3>3. CASE ReadFails(r) /\ form[r].kind \in FailClosedKinds
      BY <3>3 DEF ReadFails, Finish, Say, TypeOK
    <3>4. CASE ReadFails(r) /\ form[r].kind \notin FailClosedKinds
      BY <3>4 DEF ReadFails, TypeOK
    <3>5. QED
      BY <1>3, <3>1, <3>2, <3>3, <3>4
  <2>3. CASE pc'[r] = "done" /\ told'[r].what # "done"
    BY <2>3 DEF SuccessGood, StepFits, ActAnswered
  <2>4. ASSUME NEW s, NEW held, pc'[r] = FirstCall(form[r], s, held), told'[r] = told[r]
        PROVE  SuccessGood(r)'
    <3>1. /\ pc'[r] \in {"assign", "start", "note", "act"}
          /\ pc'[r] = "assign" => form[r].kind \in {"selfAssign"} \cup StartingKinds
          /\ pc'[r] = "start" => form[r].kind \in StartingKinds
          /\ pc'[r] \in {"note", "act"} => form[r].kind # "selfAssign"
      BY <2>4, FirstCallValues DEF FirstCall, StartingKinds
    <3>2. QED
      BY <2>1, <2>4, <3>1
         DEF SuccessGood, StepFits, ActAnswered, Silence, Say, ReadingKinds
  <2>5. QED
    BY <2>2, <2>3, <2>4
<1>4. CASE Receive(r)
  BY <1>4, ProceedSuccess DEF Receive, TypeOK, case, calls
<1>5. CASE TimeOut(r)
  BY <1>5, ProceedSuccess DEF TimeOut, TypeOK, case
<1>6. QED
  BY <1>1, <1>2, <1>3, <1>4, <1>5 DEF HandlerStep

\* An act that is answered ok was taken just then, or is a replay.
LEMMA BackendSuccess ==
    ASSUME IInv, NEW r \in Requests, SuccessGood(r), NEW op \in Ops,
           Accept(r, op) \/ Replay(r, op) \/ Refuse(r, op), StaysApplied
    PROVE  SuccessGood(r)'
<1>1. /\ UNCHANGED <<form, pc, seen, told>>
      /\ \A o \in Ops : <<r, o>> \in served => <<r, o>> \in served'
  BY DEF Accept, Replay, Refuse, Answer
<1>2. StepFits(r)' /\ (told[r].what = "done" => Successful(r))'
  BY <1>1, StaysDecidedAs DEF IInv, SuccessGood, StepFits, Successful, StaysApplied, Ops
<1>3. ASSUME reply'[r] = "ok", pc[r] = "act" PROVE ActAnswered(r)'
  <2>1. CASE reply'[r] = reply[r]
    BY <1>1, <1>3, <2>1, StaysDecidedAs DEF IInv, SuccessGood, ActAnswered, StaysApplied, Ops
  <2>2. CASE reply'[r] # reply[r]
    <3>1. op = "act" /\ ~Refuse(r, op)
      BY <1>3, <2>2 DEF Accept, Replay, Refuse, Answer, Awaited, IInv, TypeOK
    <3>2. CASE Accept(r, op)
      <4>1. <<r, "act">> \in served'
        BY <3>1, <3>2 DEF Accept
      <4>2. form[r].kind = "confirm" => TakeConfirm(r)
        BY <3>1, <3>2 DEF Accept, Take, TakeDecision, TakeExtend, TakeQuery,
                          TakeDulyMake, TakeContinue
      <4>3. form[r].kind = "confirm" => state' \in {"approved", "rejected"}
        BY <4>2, FinalValues DEF TakeConfirm
      <4>4. form[r].kind = "decide" => TakeDecision(r)
        BY <3>1, <3>2 DEF Accept, Take, TakeExtend, TakeQuery, TakeDulyMake,
                          TakeContinue, TakeConfirm
      <4>5. form[r].kind = "decide" => DecidedAs(r)'
        BY <1>1, <4>4 DEF TakeDecision, DecidedAs
      <4>6. QED
        BY <1>1, <4>1, <4>3, <4>5 DEF ActAnswered
    <3>3. CASE Replay(r, op)
      BY <1>1, <3>3 DEF Replay, IsReplay, ActAnswered, DecidedAs, CheckedKinds, case
    <3>4. QED
      BY <3>1, <3>2, <3>3
  <2>3. QED
    BY <2>1, <2>2
<1>4. ActAnswered(r)'
  BY <1>1, <1>3 DEF ActAnswered
<1>5. QED
  BY <1>2, <1>4 DEF SuccessGood

\* Every step leaves every request as its user is told.
LEMMA SuccessNext ==
    ASSUME IInv, [Next]_vars, \A r \in Requests : SuccessGood(r)
    PROVE  \A r \in Requests : SuccessGood(r)'
<1>1. StaysApplied
  BY NextApplied
<1>2. ASSUME NEW r \in Requests, HandlerStep(r), NEW q \in Requests
      PROVE  SuccessGood(q)'
  BY <1>1, <1>2, HandlerSuccess, HandlerFrame, UntouchedSuccess DEF IInv
<1>3. ASSUME NEW r \in Requests, BackendStep(r), NEW q \in Requests
      PROVE  SuccessGood(q)'
  <2>1. PICK op \in Ops : Accept(r, op) \/ Replay(r, op) \/ Refuse(r, op)
    BY <1>3 DEF BackendStep
  <2>2. QED
    BY <1>1, <2>1, BackendSuccess, BackendFrame, UntouchedSuccess DEF IInv
<1>4. ASSUME UNCHANGED <<calls, handlers>>, NEW q \in Requests PROVE SuccessGood(q)'
  BY <1>1, <1>4, UntouchedSuccess DEF IInv, Untouched, calls, handlers
<1>5. QED
  BY <1>2, <1>3, <1>4 DEF Next, Resubmit, Withdraw, Finished, vars, calls, handlers

\* What the case worker is told was done was done: by the very form they sent, or
\* for a determination as that form asked for it and with the note it carried.
THEOREM SuccessesAreTrue == Spec => []SuccessIsTrue
<1> DEFINE SInv == \A r \in Requests : SuccessGood(r)
<1>1. Init => SInv
  BY DEF Init, SuccessGood, StepFits, ActAnswered, Silence, Say
<1>2. IInv /\ SInv /\ [Next]_vars => SInv'
  BY SuccessNext
<1>3. SInv => SuccessIsTrue
  BY DEF SuccessGood, Successful, SuccessIsTrue
<1> HIDE DEF SInv
<1>4. QED
  BY <1>1, <1>2, <1>3, RequestsCorrect, PTL DEF Spec

-----------------------------------------------------------------------------
(* A holder who was seen is kept.                                          *)

\* A call that hands the case over is an explicit one, or a submit's that read
\* the case as unassigned.
LEMMA HandsOver ==
    ASSUME IInv, NEW r \in Requests, NEW op \in Ops, Accept(r, op), holder' # holder
    PROVE  MayReassign(r)
<1>1. CASE op = "assign" /\ TakeAssign(r)
  <2>1. pc[r] = "assign" \/ Issued(r, "assign")
    BY <1>1 DEF Accept, Outstanding, Awaited, Issued
  <2>2. QED
    BY <2>1 DEF IInv, RequestGood, RequestOK, AssignsUnheld, MayReassign
<1>2. CASE TakeQuery(r)
  BY <1>2 DEF TakeQuery, MayReassign
<1>3. QED
  BY <1>1, <1>2 DEF Accept, Take, TakeStart, TakeNote, TakeDecision, TakeExtend,
                    TakeDulyMake, TakeContinue, TakeConfirm, case

\* A colleague who was seen to hold a case keeps it.
THEOREM HolderKept == Spec => HolderSeenIsKept
<1>1. IInv /\ [Next]_vars => [KeepsSeenHolder]_vars
  <2> SUFFICES ASSUME IInv, Next, holder' # holder PROVE KeepsSeenHolder
    BY DEF vars, KeepsSeenHolder
  <2>1. CASE Resubmit
    BY <2>1 DEF Resubmit, KeepsSeenHolder
  <2>2. ASSUME NEW r \in Requests, BackendStep(r) PROVE KeepsSeenHolder
    <3>1. PICK op \in Ops : Accept(r, op)
      BY <2>2 DEF BackendStep, Replay, Refuse, case
    <3>2. <<r, op>> \notin served
      BY <3>1 DEF IInv, RequestGood, RequestOK, ServedOnce, Accept
    <3>3. served' = served \cup {<<r, op>>}
      BY <3>1 DEF Accept
    <3>4. MayReassign(r)
      BY <3>1, HandsOver
    <3>5. QED
      BY <3>2, <3>3, <3>4 DEF KeepsSeenHolder
  <2>3. ASSUME NEW r \in Requests PROVE ~HandlerStep(r)
    BY DEF HandlerStep, OpenPage, Submit, Read, ReadFails, Receive, TimeOut, case
  <2>4. QED
    BY <2>1, <2>2, <2>3 DEF KeepsSeenHolder, Next, Withdraw, Finished, vars
<1>2. QED
  BY <1>1, RequestsCorrect, PTL DEF Spec, HolderSeenIsKept

-----------------------------------------------------------------------------
(* CaseWork implements Determination.                                      *)

\* The case's stage and outcome, and what the requests owe and have done.
LEMMA DeterminationStep ==
    ASSUME IInv, Next
    PROVE  [D!Next]_(D!vars)
<1> DEFINE owed == {r \in Requests : form[r].note}
           onFile == {r \in Requests : <<r, "note">> \in served}
           by == {r \in Requests : form[r].kind = "decide" /\ <<r, "act">> \in served}
<1>1. CASE UNCHANGED <<state, form, served>>
  BY <1>1 DEF D!vars, Stage, Determined
<1>2. CASE Withdraw
  <2>1. D!Withdraw
    BY <1>2, WithdrawMove DEF Withdraw, D!Withdraw, Stage, Determined,
         PendingContactStates, calls, handlers
  <2>2. QED
    BY <2>1 DEF D!Next
<1>3. CASE Resubmit
  BY <1>3 DEF Resubmit, D!vars, Stage, Determined, PendingContactStates, calls, handlers
<1>4. ASSUME NEW r \in Requests, OpenPage(r) PROVE [D!Next]_(D!vars)
  <2>1. /\ \A q \in Requests \ {r} : form'[q] = form[q]
        /\ form[r] = NoForm /\ <<r, "act">> \notin served
        /\ UNCHANGED <<state, served>>
    BY <1>4 DEF OpenPage, IInv, TypeOK, RequestGood, RequestOK, FormOnPage,
                FreshAhead, Ahead, Issued, Ops, case, calls
  <2>2. UNCHANGED <<Stage, Determined>> /\ onFile' = onFile /\ by' = by /\ r \notin by
    BY <2>1 DEF Stage, Determined
  <2>3. owed' = owed \/ owed' = owed \cup {r}
    BY <2>1 DEF NoForm
  <2>4. QED
    BY <2>2, <2>3 DEF D!Next, D!Promise, D!vars
<1>5. ASSUME NEW r \in Requests, NEW op \in Ops, Accept(r, op)
      PROVE  [D!Next]_(D!vars)
  <2>1. /\ served' = served \cup {<<r, op>>} /\ form' = form
        /\ Outstanding(r, op) /\ <<r, op>> \notin served /\ Take(r, op)
    BY <1>5 DEF Accept, Answer, IInv, RequestGood, RequestOK, ServedOnce
  <2>2. CASE op \in {"assign", "start"}
    <3>1. onFile' = onFile /\ by' = by /\ owed' = owed
      BY <2>1, <2>2
    <3>2. UNCHANGED <<Stage, Determined>>
      BY <2>1, <2>2, StartMove DEF Take, TakeAssign, TakeStart, Stage, Determined,
           PendingContactStates
    <3>3. QED
      BY <3>1, <3>2 DEF D!vars
  <2>3. CASE op = "note"
    <3>1. r \in owed
      BY <2>1, <2>3 DEF Outstanding, Awaited, IInv, RequestGood, RequestOK,
                        NoteIsFirst, Issued
    <3>2. onFile' = onFile \cup {r} /\ by' = by /\ owed' = owed
      BY <2>1, <2>3
    <3>3. UNCHANGED <<Stage, Determined>>
      BY <2>1, <2>3 DEF Take, TakeNote, case, Stage, Determined
    <3>4. QED
      BY <3>1, <3>2, <3>3 DEF D!Next, D!File
  <2>4. CASE op = "act" /\ form[r].kind = "decide"
    <3>1. TakeDecision(r) /\ form[r].outcome \in Outcomes
      BY <2>1, <2>4, FormFacts DEF Take, TakeExtend, TakeQuery, TakeDulyMake,
           TakeContinue, TakeConfirm, IInv, TypeOK, NoForm
    <3>2. r \in owed => r \in onFile
      BY <2>1, <2>4 DEF Outstanding, Awaited, IInv, RequestGood, RequestOK,
                        NoteIsFirst, Issued
    <3>3. by' = by \cup {r} /\ onFile' = onFile /\ owed' = owed
      BY <2>1, <2>4
    <3>4. Stage = "open" /\ Stage' = "determined" /\ Determined' \in Outcomes
      BY <3>1, DecidableValues DEF TakeDecision, Stage, Determined, Pending, Outcomes,
           PendingContactStates
    <3>5. QED
      BY <3>2, <3>3, <3>4 DEF D!Next, D!Determine, Outcomes
  <2>5. CASE op = "act" /\ form[r].kind # "decide"
    <3>1. by' = by /\ onFile' = onFile /\ owed' = owed
      BY <2>1, <2>5
    <3>2. CASE TakeConfirm(r)
      <4>1. Stage = "determined" /\ Stage' = "applied" /\ Determined' = Determined
        BY <3>2, FinalValues DEF TakeConfirm, Stage, Determined, PendingContactStates
      <4>2. QED
        BY <3>1, <4>1 DEF D!Next, D!Apply
    <3>3. CASE TakeExtend(r) \/ TakeQuery(r) \/ TakeDulyMake(r) \/ TakeContinue(r)
      <4>1. UNCHANGED <<Stage, Determined>>
        BY <3>3, ExtendMove, QueryMove, OriginValues
           DEF TakeExtend, TakeQuery, TakeDulyMake, TakeContinue, Stage, Determined,
               PendingContactStates, DulyMakeTransition, WireOrigin, IInv, CaseOK,
               ParkedStates
      <4>2. QED
        BY <3>1, <4>1 DEF D!vars
    <3>4. QED
      BY <2>1, <2>5, <3>2, <3>3 DEF Take, TakeDecision
  <2>6. QED
    BY <2>2, <2>3, <2>4, <2>5 DEF Ops
<1>6. ASSUME NEW r \in Requests, HandlerStep(r), ~OpenPage(r)
      PROVE  UNCHANGED <<state, form, served>>
  BY <1>6 DEF HandlerStep, Submit, Read, ReadFails, Receive, TimeOut, case, calls
<1>7. ASSUME NEW r \in Requests, NEW op \in Ops, Replay(r, op) \/ Refuse(r, op)
      PROVE  UNCHANGED <<state, form, served>>
  BY <1>7 DEF Replay, Refuse, Answer, case
<1>8. QED
  BY <1>1, <1>2, <1>3, <1>4, <1>5, <1>6, <1>7 DEF Next, BackendStep, Finished, vars

\* However the requests interleave, and whatever is lost or late, the case is
\* determined as Determination says.
THEOREM Refinement == Spec => ImplementsDetermination
<1>1. Init => D!Init
  BY StateValues DEF Init, CaseInit, D!Init, Stage, Determined, NoForm,
       PendingContactStates
<1>2. IInv /\ [Next]_vars => [D!Next]_(D!vars)
  <2>1. ASSUME UNCHANGED vars PROVE UNCHANGED D!vars
    BY <2>1 DEF vars, D!vars, Stage, Determined
  <2>2. QED
    BY <2>1, DeterminationStep
<1>3. QED
  BY <1>1, <1>2, RequestsCorrect, PTL DEF Spec, D!Spec, ImplementsDetermination

\* The theorems of Determination, of the case as CaseWork presents it.
DP == INSTANCE DeterminationProofs WITH
        stage <- Stage,
        outcome <- Determined,
        owed <- {r \in Requests : form[r].note},
        onFile <- {r \in Requests : <<r, "note">> \in served},
        by <- {r \in Requests : form[r].kind = "decide" /\ <<r, "act">> \in served}

\* What CaseWork implements is the specification those theorems are about.
LEMMA SameSpecification == D!Spec => DP!Spec
<1>1. D!Init => DP!Init
  BY DEF D!Init, DP!Init
<1>2. [D!Next]_(D!vars) => [DP!Next]_(DP!vars)
  BY DEF D!Next, DP!Next, D!vars, DP!vars, D!Promise, DP!Promise, D!File, DP!File,
         D!Determine, DP!Determine, D!Apply, DP!Apply, D!Withdraw, DP!Withdraw
<1>3. QED
  BY <1>1, <1>2, PTL DEF D!Spec, DP!Spec

\* Of all the forms that determine a case the backend takes one at most.
THEOREM OneDecides == Spec => []DecidedOnce
<1>1. DP!DeterminedOnce => D!DeterminedOnce
  BY DEF D!DeterminedOnce, DP!DeterminedOnce
<1>2. QED
  BY <1>1, Refinement, SameSpecification, DP!DeterminesOnce, PTL
     DEF DecidedOnce, ImplementsDetermination

\* The outcome of a case is never replaced, and neither is the request that it
\* came from.
THEOREM OutcomeOfCaseStands == Spec => D!OutcomeStands
<1>1. [DP!Stands]_(DP!vars) => [D!Stands]_(D!vars)
  BY DEF D!Stands, DP!Stands, D!vars, DP!vars
<1>2. QED
  BY <1>1, Refinement, SameSpecification, DP!OutcomesStand, PTL
     DEF ImplementsDetermination, D!OutcomeStands, DP!OutcomeStands

-----------------------------------------------------------------------------
(* No handler comes back to a step.                                        *)

\* A step that moves request r on, and changes no other request.
LEMMA OneMoves ==
    ASSUME TypeOK, NEW r \in Requests, HandlerStep(r),
           StepsLeft[pc'[r]] < StepsLeft[pc[r]]
    PROVE  MovesOn
<1>1. \A p \in Steps : StepsLeft[p] \in Nat
  BY DEF StepsLeft, Steps, Ops
<1>2. pc'[r] # pc[r]
  BY <1>1 DEF TypeOK
<1>3. QED
  BY <1>2, HandlerFrame DEF MovesOn, Untouched

\* An answered or abandoned call is followed by a later one, or by the end.
LEMMA ProceedMoves ==
    ASSUME TypeOK, NEW r \in Requests, NEW res, pc[r] \in Ops, Proceed(r, res)
    PROVE  StepsLeft[pc'[r]] < StepsLeft[pc[r]]
<1> DEFINE next == NextCall(form[r], seen[r].state, pc[r])
<1>1. pc'[r] \in {"done", next}
  BY DEF Proceed, Finish, TypeOK
<1>2. /\ next \in {"start", "note", "act", "done"}
      /\ pc[r] = "act" => next = "done"
      /\ next = "start" => pc[r] = "assign"
      /\ next = "note" => pc[r] = "start"
      /\ next = "act" => pc[r] \in {"note", "start"}
  BY NextCallValues
<1> HIDE DEF next
<1>3. QED
  BY <1>1, <1>2 DEF StepsLeft, Steps, Ops

\* Every step of a handler is a step forward.
LEMMA HandlerMoves ==
    ASSUME TypeOK, NEW r \in Requests, HandlerStep(r)
    PROVE  StepsLeft[pc'[r]] < StepsLeft[pc[r]]
<1>1. CASE OpenPage(r)
  BY <1>1 DEF OpenPage, TypeOK, StepsLeft, Steps, Ops
<1>2. CASE Submit(r)
  BY <1>2 DEF Submit, FirstStep, TypeOK, StepsLeft, Steps, Ops
<1>3. CASE Read(r) \/ ReadFails(r)
  <2>1. \E s, held : pc'[r] \in {"done", FirstCall(form[r], s, held)}
    <3>1. CASE Read(r)
      BY <3>1 DEF Read, Finish, TypeOK
    <3>2. CASE ReadFails(r)
      BY <3>2 DEF ReadFails, Finish, TypeOK
    <3>3. QED
      BY <1>3, <3>1, <3>2
  <2>2. pc'[r] \in {"assign", "start", "note", "act", "done"}
    BY <2>1, FirstCallValues
  <2>3. pc[r] = "read"
    BY <1>3 DEF Read, ReadFails
  <2>4. QED
    BY <2>2, <2>3 DEF StepsLeft, Steps, Ops
<1>4. CASE Receive(r)
  BY <1>4, ProceedMoves DEF Receive
<1>5. CASE TimeOut(r)
  BY <1>5, ProceedMoves DEF TimeOut
<1>6. QED
  BY <1>1, <1>2, <1>3, <1>4, <1>5 DEF HandlerStep

\* No handler comes back to a step it has left, and what it has read and told
\* changes only as it moves.
THEOREM HandlersMoveOn == Spec => NeverRetries
<1>1. TypeOK /\ [Next]_vars => [MovesOn]_vars
  <2> SUFFICES ASSUME TypeOK, Next PROVE MovesOn
    BY DEF vars, MovesOn
  <2>1. ASSUME NEW r \in Requests, HandlerStep(r) PROVE MovesOn
    BY <2>1, HandlerMoves, OneMoves
  <2>2. CASE UNCHANGED <<pc, seen, told>>
    BY <2>2 DEF MovesOn
  <2>3. ASSUME NEW r \in Requests, BackendStep(r) PROVE UNCHANGED <<pc, seen, told>>
    BY <2>3 DEF BackendStep, Accept, Replay, Refuse, Answer
  <2>4. QED
    BY <2>1, <2>2, <2>3 DEF Next, Resubmit, Withdraw, Finished, vars, handlers
<1>2. QED
  BY <1>1, TypeCorrect, PTL DEF Spec, NeverRetries

-----------------------------------------------------------------------------
(* No case is stuck.                                                       *)

\* The backend takes a determination from every state of the assessment.
LEMMA DecidableCovers ==
    {"assessment-started", "assessment-in-progress", "awaiting-decision"}
        \subseteq DecidableStates
<1>1. ASSUME NEW t \in BackendTransitions,
             t[1] \in {"submit-for-decision", "make-determination-approved"}
      PROVE  t[2] \in DecidableStates
  BY <1>1 DEF DecidableStates, Leaves
<1>2. /\ <<"submit-for-decision", "assessment-in-progress", "awaiting-decision">>
            \in BackendTransitions
      /\ <<"submit-for-decision", "assessment-started", "awaiting-decision">>
            \in BackendTransitions
      /\ <<"make-determination-approved", "awaiting-decision",
           "approved-pending-contact">> \in BackendTransitions
  BY DEF BackendTransitions, Transitions, SecondTransitions, DeterminationTransitions
<1>3. QED
  BY <1>1, <1>2

\* A determined case that waits for its applicant can be confirmed.
LEMMA PendingIsFinal ==
    ASSUME NEW s \in PendingContactStates
    PROVE  FinalOf(s) # {}
<1>1. ASSUME NEW t \in DeterminationTransitions, t[2] = s PROVE t[3] \in FinalOf(s)
  BY <1>1 DEF FinalOf
<1>2. /\ <<"confirm-contact-approved", "approved-pending-contact", "approved">>
            \in DeterminationTransitions
      /\ <<"confirm-contact-rejected", "rejected-pending-contact", "rejected">>
            \in DeterminationTransitions
  BY DEF DeterminationTransitions
<1>3. QED
  BY <1>1, <1>2 DEF PendingContactStates

\* The states a determination may be logged from.
LEMMA EntryValues ==
    DecisionEntryStates \subseteq
        {"duly-made", "assessment-started", "assessment-in-progress", "awaiting-decision"}
BY DEF DecisionEntryStates, LandingState, StartTransition, Transitions, QueryTransitions,
       ResumeTransitions, ContinueReviewTransitions, WithdrawTransitions,
       DeterminationTransitions, DulyMakeTransition, ExtendTransition

\* The backend takes a deadline change from these states.
LEMMA DeadlineCovers ==
    {"assessment-in-progress", "queried", "assessment-started"} \subseteq Leaves({"sla-extend"})
<1>1. ASSUME NEW t \in BackendTransitions, t[1] = "sla-extend"
      PROVE  t[2] \in Leaves({"sla-extend"})
  BY <1>1 DEF Leaves
<1>2. /\ <<"sla-extend", "assessment-in-progress", "assessment-in-progress">>
            \in BackendTransitions
      /\ <<"sla-extend", "queried", "queried">> \in BackendTransitions
      /\ <<"sla-extend", "assessment-started", "assessment-in-progress">>
            \in BackendTransitions
  BY DEF BackendTransitions, Transitions, SecondTransitions, DeadlineTransition,
         ExtendTransition
<1>3. QED
  BY <1>1, <1>2

\* An action that is projected for a case is declared from its state.
LEMMA ProjectedLeaves ==
    ASSUME NEW s, NEW a \in AvailableActions(s), NEW as, a \in as
    PROVE  s \in Leaves(as)
BY DEF AvailableActions, Named, Leaves

\* A projected deadline change is one of these two.
LEMMA ProjectedDeadline ==
    ASSUME NEW s, "sla-extend" \in AvailableActions(s)
    PROVE  s \in {"assessment-in-progress", "queried"}
<1>1. PICK t \in BackendTransitions \ {DeadlineTransition} : t[1] = "sla-extend" /\ t[2] = s
  BY DEF AvailableActions, Named
<1>2. QED
  BY <1>1 DEF BackendTransitions, Transitions, SecondTransitions, DeadlineTransition,
       QueryTransitions, ResumeTransitions, ContinueReviewTransitions,
       WithdrawTransitions, DeterminationTransitions, DulyMakeTransition,
       StartTransition, ExtendTransition

\* The states a determination may be logged from are not closed, and the
\* backend takes it there once the assessment has started.
LEMMA DecideLeadsOn ==
    ASSUME state \in {"duly-made", "assessment-started", "assessment-in-progress",
                      "awaiting-decision"}
    PROVE  LeadsOn("decide")
<1>1. state \notin TerminalStates
  BY DEF TerminalStates
<1>2. state \in DecisionEntryStates
  <2>1. ASSUME NEW t \in Transitions,
               t[1] \in {"make-determination-approved", "make-determination-rejected",
                         "submit-for-decision", "start-assessment"}
        PROVE  t[2] \in DecisionEntryStates
    BY <2>1 DEF DecisionEntryStates
  <2>2. /\ <<"submit-for-decision", "assessment-in-progress", "awaiting-decision">>
              \in Transitions
        /\ <<"make-determination-approved", "awaiting-decision",
             "approved-pending-contact">> \in Transitions
        /\ <<"start-assessment", "duly-made", "assessment-started">> \in Transitions
    BY DEF Transitions, StartTransition, DeterminationTransitions
  <2>3. "assessment-started" \in DecisionEntryStates
    BY DEF DecisionEntryStates, LandingState, StartTransition
  <2>4. /\ "assessment-in-progress" \in DecisionEntryStates
        /\ "awaiting-decision" \in DecisionEntryStates
        /\ "duly-made" \in DecisionEntryStates
    BY <2>1, <2>2
  <2>5. QED
    BY <2>3, <2>4
<1>3. \E u \in Users : Offered("decide", state, WireOrigin, holder, u)
  <2>1. PICK u \in Users : TRUE
    BY UsersAssumption
  <2>2. Offered("decide", state, WireOrigin, holder, u)
    BY <1>1, <1>2 DEF Offered, CanLogDecision
  <2>3. QED
    BY <2>2
<1>4. {"assessment-started", "assessment-in-progress", "awaiting-decision"}
          \subseteq DecidableStates
  BY DecidableCovers
<1>5. (IF StartsFrom(state) THEN LandingState ELSE state) \in DecidableStates
  BY <1>1, <1>4 DEF StartsFrom, StartTransition, LandingState
<1>6. QED
  BY <1>3, <1>5 DEF LeadsOn, TakesNow, StartingKinds

\* Every open case that waits for a case worker has a control that leads on.
THEOREM OneWay == Spec => []OneWayOn
<1>1. ASSUME CaseGood PROVE OneWayOn
  <2>1. CASE state \in {"duly-made", "assessment-started", "assessment-in-progress",
                        "awaiting-decision"}
    BY <2>1, DecideLeadsOn
       DEF OneWayOn, LeadsOn, TakesNow, StartingKinds, WireOrigin, DulyMakeTransition
  <2>2. CASE state = "submitted"
    <3>1. LeadsOn("dulyMake") /\ ~LeadsOn("continue")
      BY <2>2, UsersAssumption
         DEF LeadsOn, TakesNow, StartingKinds, Offered, CanDulyMake, WireOrigin, DulyMakeTransition,
             TerminalStates
    <3>2. QED
      BY <3>1 DEF OneWayOn
  <2>3. CASE state = "updated" /\ origin = "submitted"
    <3>1. LeadsOn("dulyMake") /\ ~LeadsOn("continue")
      BY <2>3, UsersAssumption
         DEF LeadsOn, TakesNow, StartingKinds, Offered, CanDulyMake, CanContinueReview, WireOrigin,
             DulyMakeTransition, TerminalStates
    <3>2. QED
      BY <3>1 DEF OneWayOn
  <2>4. CASE state = "updated" /\ origin # "submitted"
    <3>1. LeadsOn("continue")
      BY <2>4, UsersAssumption
         DEF LeadsOn, TakesNow, StartingKinds, Offered, CanContinueReview, WireOrigin, DulyMakeTransition,
             ContinueReviewTransitions
    <3>2. ~LeadsOn("dulyMake")
      BY <2>4 DEF LeadsOn, TakesNow, StartingKinds, WireOrigin, DulyMakeTransition
    <3>3. QED
      BY <3>1, <3>2 DEF OneWayOn
  <2>5. CASE state \in PendingContactStates
    <3>1. FinalOf(state) # {}
      BY <2>5, PendingIsFinal
    <3>2. LeadsOn("confirm")
      BY <2>5, <3>1, UsersAssumption DEF LeadsOn, TakesNow, StartingKinds, Offered, CanConfirmContact
    <3>3. ~LeadsOn("dulyMake")
      BY <2>5 DEF LeadsOn, TakesNow, StartingKinds, WireOrigin, DulyMakeTransition, PendingContactStates
    <3>4. QED
      BY <3>2, <3>3 DEF OneWayOn
  <2>6. CASE state \in TerminalStates \cup {"queried"}
    BY <2>6 DEF OneWayOn, LeadsOn, TakesNow, StartingKinds, TerminalStates
  <2>7. QED
    BY <1>1, <2>1, <2>2, <2>3, <2>4, <2>5, <2>6, StateValues
       DEF CaseGood, TerminalStates, PendingContactStates
<1>2. TypeOK /\ CaseOK => OneWayOn
  BY <1>1 DEF TypeOK, CaseGood
<1>3. QED
  BY <1>2, TypeCorrect, PTL

-----------------------------------------------------------------------------
(* The gates and the backend agree.                                        *)

\* A deadline change is offered where the backend takes one, but for a case that
\* has no deadline yet.
LEMMA DeadlineOffered ==
    ASSUME CaseGood, CanChangeDueDate(state)
    PROVE  TakesNow("extend") \/ (state = "queried" /\ ~clock)
<1>1. state \in {"assessment-in-progress", "queried", "duly-made", "assessment-started"}
  BY ProjectedDeadline DEF CanChangeDueDate, StartsFrom, StartTransition, LandingState
<1>2. state # "queried" => clock
  BY <1>1 DEF CaseGood, CaseOK, ParkedStates
<1>3. (IF StartsFrom(state) THEN LandingState ELSE state) \in Leaves({"sla-extend"})
  BY <1>1, DeadlineCovers DEF StartsFrom, LandingState, StartTransition, TerminalStates
<1>4. QED
  BY <1>2, <1>3 DEF TakesNow, StartingKinds

\* A control that a page draws is one the backend takes of the case as it was
\* drawn, whatever history the case has.
THEOREM OffersTaken == Spec => []OffersAreTaken
<1>1. ASSUME CaseGood, NEW k \in FormKinds, NEW u,
             Offered(k, state, WireOrigin, holder, u)
      PROVE  TakesNow(k) \/ (k = "extend" /\ state = "queried" /\ ~clock)
  <2>1. CASE k = "decide"
    <3>1. state \in {"duly-made", "assessment-started", "assessment-in-progress",
                     "awaiting-decision"}
      BY <1>1, <2>1, EntryValues DEF Offered, CanLogDecision
    <3>2. QED
      BY <2>1, <3>1, DecidableCovers
         DEF TakesNow, StartingKinds, StartsFrom, LandingState, StartTransition,
             TerminalStates
  <2>2. CASE k = "extend"
    BY <1>1, <2>2, DeadlineOffered DEF Offered
  <2>3. CASE k = "query"
    BY <1>1, <2>3, ProjectedLeaves DEF Offered, CanQuery, TakesNow
  <2>4. CASE k = "dulyMake"
    BY <1>1, <2>4 DEF Offered, CanDulyMake, TakesNow, WireOrigin, DulyMakeTransition
  <2>5. CASE k = "continue"
    BY <1>1, <2>5 DEF Offered, CanContinueReview, TakesNow, ContinueReviewTransitions
  <2>6. CASE k = "confirm"
    BY <1>1, <2>6, PendingIsFinal DEF Offered, CanConfirmContact, TakesNow
  <2>7. CASE k \in {"assign", "unassign", "selfAssign"}
    BY <1>1, <2>7 DEF Offered, CanAssign, CanSelfAssign, TakesNow
  <2>8. QED
    BY <2>1, <2>2, <2>3, <2>4, <2>5, <2>6, <2>7 DEF FormKinds
<1>2. TypeOK /\ CaseOK => OffersAreTaken
  BY <1>1 DEF TypeOK, CaseGood, OffersAreTaken
<1>3. QED
  BY <1>2, TypeCorrect, PTL
=============================================================================
