------------------------------ MODULE CaseWork ------------------------------
(***************************************************************************)
(* Case workers acting on one re-accreditation case.                       *)
(*                                                                         *)
(* A Request is one pass of a case worker through a control of the detail  *)
(* page: the page is opened, its form is submitted, and the handler then   *)
(* makes up to four calls to the backend, one at a time, awaiting each.    *)
(* The backend serves one call at a time but any request's call may be     *)
(* served between two steps of another's handler. A call the handler gave  *)
(* up on (postJson's timer, a lost connection) is not recalled: the        *)
(* backend may have served it already, may serve it later, or never.       *)
(*                                                                         *)
(* The backend (management-be) is external: its half is the part of it the *)
(* frontend's declarations and comments rely on.                           *)
(***************************************************************************)
EXTENDS Lifecycle, Naturals

CONSTANTS
    Users,      \* the regulators' user ids
    NoOne,      \* the holder of an unassigned case
    Requests,   \* the submissions under way or yet to come
    Kinds       \* the controls they may be of

ASSUME UsersAssumption == Users # {} /\ NoOne \notin Users
ASSUME KindsAssumption == Kinds \subseteq FormKinds

VARIABLES
    state, origin,  \* the case's stateId, and where a parked case goes back to
    holder,         \* assignedToId
    querier,        \* who raised the query a queried case is parked on
    clock,          \* the SLA clock is running: slaStartedAt and slaDueDate
    served,         \* the calls that changed the case
    late,           \* calls given up on that the backend has not served
    form,           \* the submitted form of each request
    pc,             \* the step a request's handler is at
    reply,          \* the backend's answer to the awaited call
    seen,           \* what the handler's own read of the case said
    told            \* what the user was told in the end

case == <<state, origin, holder, querier, clock>>
calls == <<served, late>>
handlers == <<form, pc, reply, seen, told>>
vars == <<state, origin, holder, querier, clock, served, late,
          form, pc, reply, seen, told>>

-----------------------------------------------------------------------------
(* The values the variables take.                                          *)

Outcomes == {"approved", "rejected"}

\* targetStateForOutcome
Pending == [approved |-> "approved-pending-contact",
            rejected |-> "rejected-pending-contact"]

\* A query parks a case; these are the states it can be raised from.
ParkedStates == {"queried", "updated"}

Origins == {t[2] : t \in QueryTransitions}

\* The calls a handler makes after its read, in the order it makes them.
Ops == {"assign", "start", "note", "act"}

Steps == {"idle", "page", "read", "done"} \cup Ops

Replies == {"none", "ok", "conflict", "invalid", "server"}

\* A decision carries an outcome and may carry a rationale; an assignment
\* names its assignee.
FormsOf(k, u) ==
    [kind : {k}, user : {u},
     to : IF k = "assign" THEN Users ELSE IF k = "unassign" THEN {NoOne} ELSE {u},
     outcome : IF k = "decide" THEN Outcomes ELSE {"none"},
     note : IF k = "decide" THEN BOOLEAN ELSE {FALSE}]

NoForm == [kind |-> "none", user |-> NoOne, to |-> NoOne,
           outcome |-> "none", note |-> FALSE]

Forms == UNION {FormsOf(k, u) : k \in Kinds, u \in Users}

Sights == [state : States \cup {"unread"}, held : BOOLEAN]

Unread == [state |-> "unread", held |-> FALSE]

\* The answer, and the sentence about the start of the case put before it.
Messages ==
    [what : {"nothing", "done", "already-decided", "cannot-decide", "unread",
             "redirected", "not-started", "note-failed", "conflict", "invalid",
             "failed", "nothing-changed"},
     first : {"nothing", "started", "assigned-and-started", "not-assigned",
              "not-started", "assigned-not-started"}]

Say(what, first) == [what |-> what, first |-> first]

Silence == Say("nothing", "nothing")

\* originStateId as the DTO carries it: the stored origin in the waypoint, the
\* state itself anywhere else.
WireOrigin == IF state = "updated" THEN origin ELSE state

-----------------------------------------------------------------------------
(* Faulty variants of the handlers, each a plausible slip in the code it   *)
(* stands for. No specification uses them: each shows that a property      *)
(* would notice.                                                           *)

\* The note left out of the determination.
UnreasonedWork(f) == "act"

\* Always assign before a start, as "Assign to yourself" does.
TakeoverFirstCall(f, s, held) ==
    CASE f.kind \in {"decide", "extend"} /\ StartsFrom(s) -> "assign"
      [] f.kind = "selfAssign" -> "assign"
      [] OTHER -> IF f.note THEN "note" ELSE "act"

\* The start forgotten: straight to the work.
StartlessFirstCall(f, s, held) ==
    CASE f.kind = "selfAssign" -> "assign"
      [] OTHER -> IF f.note THEN "note" ELSE "act"

\* After a start, the determination first and its note last.
NoteLastNextCall(f, s, op) ==
    CASE op = "assign" /\ StartsFrom(s) -> "start"
      [] op = "start" /\ f.kind \in {"decide", "extend"} -> "act"
      [] op = "act" /\ f.note -> "note"
      [] OTHER -> "done"

\* A failed determination or extension reported as if nothing came before it.
BareFirstTold(f, s, held, op, res) ==
    CASE f.kind \in {"decide", "extend"} /\ op = "assign" -> "not-assigned"
      [] f.kind \in {"decide", "extend"} /\ op = "start" ->
            IF held THEN "not-started" ELSE "assigned-not-started"
      [] OTHER -> "nothing"

\* The timer cleared as soon as the call is sent: only an answer ends the wait.
TimerlessTimeOut(r) ==
    /\ reply[r] = "server"
    /\ pc' = [pc EXCEPT ![r] = "done"]
    /\ UNCHANGED <<case, calls, form, reply, seen, told>>

\* Every answer to a query waits for Continue review, even one to a query
\* raised while the case was duly made.
WaypointResubmit ==
    /\ state = "queried"
    /\ state' = "updated"
    /\ querier' = NoOne
    /\ UNCHANGED <<origin, holder, clock, calls, handlers>>

\* The origin of a case that has continued kept on it.
StickyTakeContinue(r) ==
    /\ form[r].kind = "continue"
    /\ state = "updated"
    /\ state' = origin
    /\ UNCHANGED <<origin, holder, querier, clock>>

\* A queried started case remembered under its own state.
OwnOriginOf(s) == s

-----------------------------------------------------------------------------
(* The handlers' decisions.                                                *)

\* The handlers that read the case before they act.
ReadingKinds == {"decide", "extend", "query", "confirm", "selfAssign"}

\* Of those, the ones that do not go on when the read fails.
FailClosedKinds == {"decide", "extend", "confirm"}

\* The submits that run ensureAssessmentStarted before their own call.
StartingKinds == {"decide", "extend"}

\* The acts whose dates, durations or reasons the backend may reject, which
\* redraws their form.
CheckedKinds == {"extend", "query", "dulyMake"}

\* Where a submit begins: with its read, or at once with its only call.
FirstStep(k) ==
    IF k \in ReadingKinds THEN "read"
    ELSE IF k \in {"assign", "unassign"} THEN "assign"
    ELSE "act"

\* Why a handler that read state s and clock c stops there, if it does.
Refusal(f, s, c) ==
    CASE f.kind = "decide" /\ s \in TerminalStates -> "already-decided"
      [] f.kind = "decide" /\ s \notin TerminalStates /\ ~CanLogDecision(s) ->
            "cannot-decide"
      [] f.kind = "extend" /\ ~c -> "invalid"
      [] f.kind = "confirm" /\ ~CanConfirmContact(s) -> "redirected"
      [] OTHER -> "nothing"

\* recordWorkItemDecision: the note, when there is one, goes first.
Work(f) == IF f.note THEN "note" ELSE "act"

\* The first call after a read. A case somebody holds is not assigned again
\* on the way to a start, and only a case that has yet to start is started.
FirstCall(f, s, held) ==
    CASE f.kind \in StartingKinds /\ StartsFrom(s) ->
            IF held THEN "start" ELSE "assign"
      [] f.kind = "selfAssign" -> "assign"
      [] OTHER -> Work(f)

\* The call after a successful op, or "done".
NextCall(f, s, op) ==
    CASE op = "assign" /\ f.kind \in StartingKinds -> "start"
      [] op = "assign" /\ f.kind = "selfAssign" /\ StartsFrom(s) -> "start"
      [] op = "start" /\ f.kind \in StartingKinds -> Work(f)
      [] op = "note" -> "act"
      [] OTHER -> "done"

\* describeStartSuccess and describeStartFailure: what the banner of a failed
\* op says first. A rejected extension is redrawn as a form, without it.
FirstTold(f, s, held, op, res) ==
    CASE f.kind \in StartingKinds /\ op = "assign" -> "not-assigned"
      [] f.kind \in StartingKinds /\ op = "start" ->
            IF held THEN "not-started" ELSE "assigned-not-started"
      [] f.kind = "selfAssign" /\ op = "start" -> "assigned-not-started"
      [] /\ f.kind \in StartingKinds
         /\ op \in {"note", "act"}
         /\ StartsFrom(s)
         /\ ~(f.kind = "extend" /\ res = "invalid") ->
            IF held THEN "started" ELSE "assigned-and-started"
      [] OTHER -> "nothing"

\* Faulty variant of WhatTold, used by no specification: a conflict taken for the
\* answer to a call that was made before.
GenerousWhatTold(f, op, res) == IF res = "conflict" THEN "done" ELSE "failed"

\* The banner itself.
WhatTold(f, op, res) ==
    IF f.kind \in StartingKinds /\ op \in {"assign", "start"} THEN "not-started"
    ELSE IF op = "note" THEN "note-failed"
    ELSE IF res = "conflict" THEN "conflict"
    ELSE IF f.kind = "confirm" THEN "nothing-changed"
    ELSE IF f.kind \in CheckedKinds /\ res = "invalid" THEN "invalid"
    ELSE "failed"

-----------------------------------------------------------------------------
(* The backend: what it does to the case when it accepts a call.           *)

\* The case follows one of the declared transitions with these action ids.
Move(actions) ==
    \E t \in BackendTransitions :
        t[1] \in actions /\ t[2] = state /\ state' = t[3]

\* A started case that is queried goes back to the assessment.
OriginOf(s) == IF s = LandingState THEN "assessment-in-progress" ELSE s

\* The states from which the backend declares one of these actions.
Leaves(actions) == {t[2] : t \in {u \in BackendTransitions : u[1] \in actions}}

\* Faulty variant of DecidableStates, used by no specification: a determined case
\* that waits for its applicant to be contacted takes another determination.
LateDecidableStates ==
    Leaves({"submit-for-decision", "make-determination-approved"}) \cup PendingContactStates

DecidableStates == Leaves({"submit-for-decision", "make-determination-approved"})

ContinueStates == {t[3] : t \in ContinueReviewTransitions}

FinalOf(s) == {t[3] : t \in {u \in DeterminationTransitions :
    u[2] = s /\ s \in PendingContactStates}}

\* Both assign and unassign: a closed case is refused, and any other is
\* handed to the assignee, whoever holds it.
TakeAssign(r) ==
    /\ state \notin TerminalStates
    /\ holder' = form[r].to
    /\ UNCHANGED <<state, origin, querier, clock>>

TakeStart(r) ==
    /\ Move({StartTransition[1]})
    /\ UNCHANGED <<origin, holder, querier, clock>>

TakeNote(r) == UNCHANGED case

\* Both hops of a determination in one call.
TakeDecision(r) ==
    /\ form[r].kind = "decide"
    /\ state \in DecidableStates
    /\ state' = Pending[form[r].outcome]
    /\ UNCHANGED <<origin, holder, querier, clock>>

\* SlaService.ExtendAsync wants a clock and has no terminal-state check.
TakeExtend(r) ==
    /\ form[r].kind = "extend"
    /\ clock
    /\ \/ Move({"sla-extend"})
       \/ state \in TerminalStates /\ UNCHANGED state
    /\ UNCHANGED <<origin, holder, querier, clock>>

\* Raising a query assigns the case to the querier.
TakeQuery(r) ==
    /\ form[r].kind = "query"
    /\ Move(Named(QueryTransitions))
    /\ origin' = OriginOf(state)
    /\ querier' = form[r].user
    /\ holder' = form[r].user
    /\ UNCHANGED clock

TakeDulyMake(r) ==
    /\ form[r].kind = "dulyMake"
    /\ WireOrigin = DulyMakeTransition[2]
    /\ state' = DulyMakeTransition[3]
    /\ origin' = "none"
    /\ clock' = TRUE
    /\ UNCHANGED <<holder, querier>>

\* The backend works out where an updated case continues.
TakeContinue(r) ==
    /\ form[r].kind = "continue"
    /\ state = "updated"
    /\ state' = origin
    /\ origin' = "none"
    /\ UNCHANGED <<holder, querier, clock>>

TakeConfirm(r) ==
    /\ form[r].kind = "confirm"
    /\ state' \in FinalOf(state)
    /\ UNCHANGED <<origin, holder, querier, clock>>

Take(r, op) ==
    \/ op = "assign" /\ TakeAssign(r)
    \/ op = "start" /\ TakeStart(r)
    \/ op = "note" /\ TakeNote(r)
    \/ op = "act" /\ \/ TakeDecision(r)
                     \/ TakeExtend(r)
                     \/ TakeQuery(r)
                     \/ TakeDulyMake(r)
                     \/ TakeContinue(r)
                     \/ TakeConfirm(r)

\* The case has been determined as r's form has it, its applicant contacted or not.
DecidedAs(r) == state \in {Pending[form[r].outcome], form[r].outcome}

\* The calls answered ok without effect because they have been done already, by
\* this request's own late call or by another's. A case that is decided takes no
\* other outcome, but a repeat of the one it has is not an error.
IsReplay(r, op) ==
    /\ op = "act"
    /\ \/ form[r].kind = "decide" /\ DecidedAs(r)
       \/ form[r].kind = "continue" /\ state \in ContinueStates
       \/ form[r].kind = "confirm" /\ state \in {"approved", "rejected"}

\* A call the case's state refuses (409). A note is never refused.
IsRefused(r, op) ==
    \/ op = "assign" /\ state \in TerminalStates
    \/ op = "start" /\ state # StartTransition[2]
    \/ /\ op = "act"
       /\ CASE form[r].kind = "decide"   -> state \notin DecidableStates /\ ~DecidedAs(r)
            [] form[r].kind = "extend"   -> state \notin Leaves({"sla-extend"})
            [] form[r].kind = "query"    -> state \notin Leaves(Named(QueryTransitions))
            [] form[r].kind = "dulyMake" -> WireOrigin # DulyMakeTransition[2]
            [] form[r].kind = "continue" -> state \notin {"updated"} \cup ContinueStates
            [] form[r].kind = "confirm"  -> state \notin
                    PendingContactStates \cup {"approved", "rejected"}
            [] OTHER -> FALSE

-----------------------------------------------------------------------------
(* Serving a call: one the handler awaits, or one it has given up on.      *)

Awaited(r, op) == pc[r] = op /\ reply[r] = "none"

Outstanding(r, op) == Awaited(r, op) \/ <<r, op>> \in late

\* The backend disposes of r's call; a handler that still waits gets res.
Answer(r, op, res) ==
    /\ late' = late \ {<<r, op>>}
    /\ reply' = IF Awaited(r, op) THEN [reply EXCEPT ![r] = res] ELSE reply
    /\ UNCHANGED <<form, pc, seen, told>>

Accept(r, op) ==
    /\ Outstanding(r, op)
    /\ Take(r, op)
    /\ served' = served \cup {<<r, op>>}
    /\ Answer(r, op, "ok")

Replay(r, op) ==
    /\ Outstanding(r, op)
    /\ IsReplay(r, op)
    /\ Answer(r, op, "ok")
    /\ UNCHANGED <<case, served>>

\* A conflict, rejected data, or a failure that wrote nothing.
Refuse(r, op) ==
    /\ Outstanding(r, op)
    /\ \/ IsRefused(r, op) /\ Answer(r, op, "conflict")
       \/ /\ op = "act" /\ form[r].kind \in CheckedKinds
          /\ Answer(r, op, "invalid")
       \/ Answer(r, op, "server")
    /\ UNCHANGED <<case, served>>

-----------------------------------------------------------------------------
(* The handlers.                                                           *)

Finish(r, what, first) ==
    /\ pc' = [pc EXCEPT ![r] = "done"]
    /\ told' = [told EXCEPT ![r] = Say(what, first)]

\* A case worker opens a page whose control the case offers at that moment.
OpenPage(r) ==
    /\ pc[r] = "idle"
    /\ \E u \in Users, k \in Kinds :
          /\ Offered(k, state, WireOrigin, holder, u)
          /\ \E f \in FormsOf(k, u) : form' = [form EXCEPT ![r] = f]
    /\ pc' = [pc EXCEPT ![r] = "page"]
    /\ UNCHANGED <<case, calls, reply, seen, told>>

\* The form is posted, however long after: the case may have moved on.
Submit(r) ==
    /\ pc[r] = "page"
    /\ pc' = [pc EXCEPT ![r] = FirstStep(form[r].kind)]
    /\ UNCHANGED <<case, calls, form, reply, seen, told>>

\* The handler's read of the case, and what it decides on it.
Read(r) ==
    /\ pc[r] = "read"
    /\ seen' = [seen EXCEPT ![r] = [state |-> state, held |-> holder # NoOne]]
    /\ LET refusal == Refusal(form[r], state, clock) IN
          IF refusal = "nothing"
          THEN /\ pc' = [pc EXCEPT ![r] = FirstCall(form[r], state, holder # NoOne)]
               /\ UNCHANGED told
          ELSE Finish(r, refusal, "nothing")
    /\ UNCHANGED <<case, calls, form, reply>>

\* The read fails: a determination, a deadline change and a confirmation stop;
\* a query is sent all the same, and a claim becomes a plain assignment.
ReadFails(r) ==
    /\ pc[r] = "read"
    /\ IF form[r].kind \in FailClosedKinds
       THEN Finish(r, "unread", "nothing")
       ELSE /\ pc' = [pc EXCEPT ![r] = FirstCall(form[r], "unread", FALSE)]
            /\ UNCHANGED told
    /\ UNCHANGED <<case, calls, form, reply, seen>>

\* The awaited call came back as res: the next call, or the end.
Proceed(r, res) ==
    LET f == form[r]
        s == seen[r].state
        op == pc[r]
    IN  IF res # "ok"
        THEN Finish(r, WhatTold(f, op, res), FirstTold(f, s, seen[r].held, op, res))
        ELSE IF NextCall(f, s, op) = "done"
        THEN Finish(r, "done", "nothing")
        ELSE /\ pc' = [pc EXCEPT ![r] = NextCall(f, s, op)]
             /\ UNCHANGED told

Receive(r) ==
    /\ pc[r] \in Ops
    /\ reply[r] # "none"
    /\ Proceed(r, reply[r])
    /\ reply' = [reply EXCEPT ![r] = "none"]
    /\ UNCHANGED <<case, calls, form, seen>>

\* postJson gives up: its timer fires or the connection breaks. The call may
\* have been served, its answer lost, or may still be served.
TimeOut(r) ==
    /\ pc[r] \in Ops
    /\ late' = IF reply[r] = "none" THEN late \cup {<<r, pc[r]>>} ELSE late
    /\ Proceed(r, "unavailable")
    /\ reply' = [reply EXCEPT ![r] = "none"]
    /\ UNCHANGED <<case, served, form, seen>>

-----------------------------------------------------------------------------
(* The operator, who answers queries and may withdraw.                     *)

\* A case queried while duly made has its payment and its clock settled: it
\* goes straight to assessment, back in the hands of the querier.
Resubmit ==
    /\ state = "queried"
    /\ IF origin = "duly-made"
       THEN /\ state' = "assessment-in-progress"
            /\ origin' = "none"
            /\ holder' = querier
       ELSE /\ state' = "updated"
            /\ UNCHANGED <<origin, holder>>
    /\ querier' = NoOne
    /\ UNCHANGED <<clock, calls, handlers>>

Withdraw ==
    /\ Move(Named(WithdrawTransitions))
    /\ origin' = "none"
    /\ querier' = NoOne
    /\ UNCHANGED <<holder, clock, calls, handlers>>

-----------------------------------------------------------------------------
(* The specification.                                                      *)

\* A case as an earlier history may have left it: a parked one knows where it
\* came from and a queried one by whom, and the clock runs from duly making.
CaseInit ==
    /\ state \in States
    /\ IF state \in ParkedStates THEN origin \in Origins ELSE origin = "none"
    /\ state = "updated" => origin # "duly-made"
    /\ IF state = "queried" THEN querier \in Users ELSE querier = NoOne
    /\ holder \in Users \cup {NoOne}
    /\ clock \in BOOLEAN
    /\ state # "withdrawn" => clock = ("submitted" \notin {state, origin})

Init ==
    /\ CaseInit
    /\ served = {}
    /\ late = {}
    /\ form = [r \in Requests |-> NoForm]
    /\ pc = [r \in Requests |-> "idle"]
    /\ reply = [r \in Requests |-> "none"]
    /\ seen = [r \in Requests |-> Unread]
    /\ told = [r \in Requests |-> Silence]

\* Every request has run its course or cannot be begun any more.
Finished ==
    /\ \A r \in Requests : pc[r] \in {"idle", "done"}
    /\ UNCHANGED vars

BackendStep(r) ==
    \E op \in Ops : Accept(r, op) \/ Replay(r, op) \/ Refuse(r, op)

HandlerStep(r) ==
    OpenPage(r) \/ Submit(r) \/ Read(r) \/ ReadFails(r) \/ Receive(r) \/ TimeOut(r)

Next ==
    \/ \E r \in Requests : HandlerStep(r) \/ BackendStep(r)
    \/ Resubmit
    \/ Withdraw
    \/ Finished

Spec == Init /\ [][Next]_vars

\* A handler that is running runs on, and every call it awaits has a timer.
\* Nothing is assumed of the users, the operator or the backend.
Fairness ==
    \A r \in Requests :
        /\ WF_vars(Read(r) \/ ReadFails(r))
        /\ WF_vars(Receive(r) \/ TimeOut(r))

FairSpec == Spec /\ Fairness

-----------------------------------------------------------------------------
(* What the code promises.                                                 *)

\* Every variable has its type, and the fields of the case that the backend
\* keeps together agree: a parked case has an origin, a queried one a querier,
\* and the clock runs from duly making on.
TypeOK ==
    /\ state \in States
    /\ origin \in Origins \cup {"none"}
    /\ holder \in Users \cup {NoOne}
    /\ querier \in Users \cup {NoOne}
    /\ clock \in BOOLEAN
    /\ served \subseteq Requests \X Ops
    /\ late \subseteq Requests \X Ops
    /\ form \in [Requests -> Forms \cup {NoForm}]
    /\ pc \in [Requests -> Steps]
    /\ reply \in [Requests -> Replies]
    /\ seen \in [Requests -> Sights]
    /\ told \in [Requests -> Messages]

CaseOK ==
    /\ IF state \in ParkedStates THEN origin \in Origins ELSE origin = "none"
    /\ state = "updated" => origin # "duly-made"
    /\ IF state = "queried" THEN querier \in Users ELSE querier = NoOne
    /\ state # "withdrawn" => clock = ("submitted" \notin {state, origin})

\* Assessment has begun: the case has left "submitted" and "duly-made" for
\* good. A query raised while duly made resumes into the assessment.
Begun(s, o) ==
    /\ s \notin {"submitted", "duly-made"}
    /\ s \in ParkedStates => o # "submitted"

\* A decision is never recorded with its stated reason missing: the note of a
\* determination is on file when the determination is, whatever was lost or
\* abandoned on the way (decision/service.js posts it first).
RationaleOnFile ==
    \A r \in Requests :
        form[r].note /\ <<r, "act">> \in served => <<r, "note">> \in served

\* A recorded determination stands: no later submit, stale page, late call or
\* withdrawal turns it into another outcome or undoes it, so a replayed form
\* does not decide an application twice.
DecisionStands ==
    \A r \in Requests :
        form[r].kind = "decide" /\ <<r, "act">> \in served => DecidedAs(r)

\* The banners that tell a case worker nothing was recorded, changed or sent
\* are true, and stay true: the request's call did not reach the backend and
\* is not still on its way there.
NothingRecorded ==
    {"already-decided", "cannot-decide", "unread", "redirected", "not-started",
     "note-failed", "conflict", "invalid"}

RefusalsAreTrue ==
    \A r \in Requests :
        told[r].what \in NothingRecorded => <<r, "act">> \notin served \cup late

\* ensureAssessmentStarted reports partial failure, never rolls it back: what
\* the banner says was started or assigned was, for good; and when the work
\* that follows a start fails on a banner, the banner says so first.
StartIsReported ==
    \A r \in Requests :
        /\ told[r].first \in {"started", "assigned-and-started"} =>
              <<r, "start">> \in served /\ Begun(state, origin)
        /\ told[r].first \in {"assigned-not-started", "assigned-and-started"} =>
              <<r, "assign">> \in served
        /\ /\ form[r].kind \in StartingKinds
           /\ <<r, "start">> \in served
           /\ told[r].what \in {"note-failed", "conflict", "failed"}
           => told[r].first # "nothing"

\* The banners that report a success are true, and stay true. The case was
\* handed over, started, extended, queried or duly made by this very request. A
\* determination reported as recorded is the one the case has, with the note of
\* this request on file, although it may have been recorded by another request
\* that chose the same outcome; and an applicant reported as contacted is one whose
\* determination has been applied, by this request or another. A review reported
\* as continued may be another's too, and the case may have moved on since.
SuccessIsTrue ==
    \A r \in Requests :
        told[r].what = "done" =>
            /\ form[r].kind \in {"assign", "unassign", "selfAssign"} =>
                  <<r, "assign">> \in served
            /\ form[r].kind \in StartingKinds \cup {"selfAssign"}
               /\ StartsFrom(seen[r].state) => <<r, "start">> \in served
            /\ form[r].kind \in CheckedKinds => <<r, "act">> \in served
            /\ form[r].kind = "decide" => DecidedAs(r)
            /\ form[r].note => <<r, "note">> \in served
            /\ form[r].kind = "confirm" => state \in {"approved", "rejected"}

\* A determination or a deadline change is only ever on its way to a case
\* that has been started, however old the read it was decided on: the backend
\* refuses both on a Duly made case.
NoWorkBeforeStart ==
    \A r \in Requests :
        form[r].kind \in StartingKinds /\ Outstanding(r, "act") =>
            Begun(state, origin)

\* Assessment once begun is never undone: no query, answer, Continue review
\* or stale Duly make takes the case back to before its start.
NeverBackBeforeAssessment == [][Begun(state, origin) => Begun(state', origin')]_vars

\* The backend takes what control k asks of the case as it is, after the start
\* that its submit may make.
TakesNow(k) ==
    LET s == IF k \in StartingKinds /\ StartsFrom(state) THEN LandingState ELSE state
    IN  CASE k = "decide"   -> s \in DecidableStates
          [] k = "extend"   -> clock /\ s \in Leaves({"sla-extend"})
          [] k = "query"    -> state \in Leaves(Named(QueryTransitions))
          [] k = "dulyMake" -> WireOrigin = DulyMakeTransition[2]
          [] k = "continue" -> state = "updated"
          [] k = "confirm"  -> FinalOf(state) # {}
          [] OTHER          -> state \notin TerminalStates

\* The gates of the page and the backend agree, wherever a case's history has
\* taken it: a control offered on a page is one that the backend takes, unless
\* the case moves in between. The exception is the deadline of a case that was
\* queried before it was duly made, which has none: its control is offered with
\* the others of a queried case, and no date is accepted there.
OffersAreTaken ==
    \A k \in FormKinds, u \in Users :
        Offered(k, state, WireOrigin, holder, u) =>
            TakesNow(k) \/ (k = "extend" /\ state = "queried" /\ ~clock)

\* Control k is offered to somebody, and the backend takes what it asks.
LeadsOn(k) ==
    /\ \E u \in Users : Offered(k, state, WireOrigin, holder, u)
    /\ TakesNow(k)

\* Every open case that is not waiting for the operator offers a control that
\* leads on and that the backend will take, and a case in the waypoint offers
\* exactly one of Duly make and Continue review.
OneWayOn ==
    /\ state \notin TerminalStates \cup {"queried"} =>
          \E k \in {"decide", "dulyMake", "continue", "confirm"} : LeadsOn(k)
    /\ ~(LeadsOn("dulyMake") /\ LeadsOn("continue"))

MayReassign(r) ==
    \/ form[r].kind \in {"assign", "unassign", "selfAssign", "query"}
    \/ ~seen[r].held

KeepsSeenHolder ==
    holder # NoOne /\ holder' # holder =>
        \/ state = "queried" /\ state' = "assessment-in-progress"
        \/ \E r \in Requests : MayReassign(r) /\ served' # served
              /\ served' \ served \subseteq {r} \X Ops

\* A colleague who was seen to hold a case keeps it. The holder of a held
\* case changes only by an explicit assignment, by raising a query, by the
\* operator's answer to one, or by a submit that read the case as unassigned.
HolderSeenIsKept == [][KeepsSeenHolder]_vars

\* Every submitted form gets an answer, whatever the backend does.
EveryRequestAnswered ==
    \A r \in Requests : pc[r] \in {"read"} \cup Ops ~> pc[r] = "done"

-----------------------------------------------------------------------------
(* Why they hold: what is so of a request at every step of its handler.    *)

Issued(r, op) == <<r, op>> \in served \cup late

\* The calls that a handler at step p may have yet to make.
Ahead(p) ==
    CASE p \in {"idle", "page", "read"} -> Ops
      [] p = "assign" -> Ops \ {"assign"}
      [] p = "start" -> {"note", "act"}
      [] p = "note" -> {"act"}
      [] OTHER -> {}

\* No call leaves before its turn.
FreshAhead(r) == \A op \in Ahead(pc[r]) : ~Issued(r, op)

\* And none is served twice.
ServedOnce(r) == \A op \in Ops : Outstanding(r, op) => <<r, op>> \notin served

\* The form is filled in when the page is opened.
FormOnPage(r) == IF pc[r] = "idle" THEN form[r] = NoForm ELSE form[r] \in Forms

\* An answer is to the awaited call, and only an act is ever ok unserved.
ReplyToAwaited(r) ==
    /\ reply[r] # "none" => pc[r] \in Ops
    /\ reply[r] = "ok" /\ pc[r] # "act" => <<r, pc[r]>> \in served

\* The act that fails with an answer did nothing.
ActIsAnswered(r) ==
    /\ pc[r] = "act" => <<r, "act">> \notin late
    /\ pc[r] = "act" /\ <<r, "act">> \in served => reply[r] = "ok"

\* Only a promised note is posted, and it is on file before the act is called.
NoteIsFirst(r) ==
    /\ pc[r] = "note" \/ Issued(r, "note") => form[r].note
    /\ form[r].note /\ (pc[r] = "act" \/ Issued(r, "act")) => <<r, "note">> \in served

\* A served start has begun the assessment, and so had whatever the read of a
\* determination or an extension saw, when they go on to their work.
StartIsFirst(r) ==
    /\ <<r, "start">> \in served => Begun(state, origin)
    /\ form[r].kind \in StartingKinds /\ (pc[r] \in {"note", "act"} \/ Issued(r, "act")) =>
          Begun(state, origin)

\* Nobody is told anything before the end.
ToldAtEnd(r) == pc[r] # "done" => told[r] = Silence

\* An assignment is asked for, or made on the way to the start of a case that
\* was read as unassigned.
AssignsUnheld(r) ==
    pc[r] = "assign" \/ Issued(r, "assign") =>
        \/ form[r].kind \in {"assign", "unassign", "selfAssign"}
        \/ form[r].kind \in StartingKinds /\ ~seen[r].held

\* A handler knows from its read whether its submit starts the case, and by
\* the step it is at what has been done of it.
StartIsKnown(r) ==
    /\ form[r].kind \in StartingKinds =>
          /\ pc[r] \in {"assign", "start"} \/ Issued(r, "assign") \/ Issued(r, "start") =>
                StartsFrom(seen[r].state)
          /\ pc[r] \in {"note", "act"} /\ StartsFrom(seen[r].state) =>
                <<r, "start">> \in served
    /\ /\ pc[r] = "start" \/ Issued(r, "start")
       /\ form[r].kind = "selfAssign" \/ ~seen[r].held
       => <<r, "assign">> \in served

RequestOK(r) ==
    /\ FreshAhead(r)
    /\ ServedOnce(r)
    /\ FormOnPage(r)
    /\ ReplyToAwaited(r)
    /\ ActIsAnswered(r)
    /\ NoteIsFirst(r)
    /\ StartIsFirst(r)
    /\ ToldAtEnd(r)
    /\ AssignsUnheld(r)
    /\ StartIsKnown(r)

\* Each handler makes its calls in order, each one knowing how the one before
\* it ended, however its calls and the others' are served: the part of the
\* inductive invariant that is about the requests.
HandlersOK == \A r \in Requests : RequestOK(r)

-----------------------------------------------------------------------------
(* Two things the comments say of the handlers that the interleavings and  *)
(* the lost answers refute.                                                *)

\* ensure-assessment-started.js: the caller is assigned "ONLY if it is
\* unassigned ... submitting a decision must not silently take over" a
\* colleague's case. The check and the assignment are two calls.
NoSilentTakeover ==
    [][\A r \in Requests :
          form[r].kind \in StartingKinds /\ <<r, "assign">> \in served' \ served =>
              holder \in {NoOne, form[r].user}]_vars

\* confirm-contact/controller.js: "Nothing has been changed. Try again."
NothingChangedIsTrue ==
    \A r \in Requests :
        told[r].what = "nothing-changed" => <<r, "act">> \notin served

-----------------------------------------------------------------------------
(* The case as a determination.                                            *)

Stage ==
    IF state \in PendingContactStates THEN "determined"
    ELSE IF state \in {"approved", "rejected"} THEN "applied"
    ELSE IF state = "withdrawn" THEN "withdrawn"
    ELSE "open"

Determined ==
    IF state \in {"approved", "approved-pending-contact"} THEN "approved"
    ELSE IF state \in {"rejected", "rejected-pending-contact"} THEN "rejected"
    ELSE "none"

D == INSTANCE Determination WITH
        stage <- Stage,
        outcome <- Determined,
        owed <- {r \in Requests : form[r].note},
        onFile <- {r \in Requests : <<r, "note">> \in served},
        by <- {r \in Requests : form[r].kind = "decide" /\ <<r, "act">> \in served}

\* However the requests interleave, the case is determined as Determination
\* says.
ImplementsDetermination == D!Spec

\* Of all the forms that determine a case, on stale pages or sent again after a
\* lost answer, the backend takes one at most.
DecidedOnce == D!DeterminedOnce

\* The calls and decisions a handler at step p may have before it, and what it
\* has before it after a step that moves it.
StepsLeft ==
    [p \in Steps |->
        CASE p = "idle" -> 7 [] p = "page" -> 6 [] p = "read" -> 5
          [] p = "assign" -> 4 [] p = "start" -> 3 [] p = "note" -> 2
          [] p = "act" -> 1 [] p = "done" -> 0]

MovesOn ==
    \A r \in Requests :
        /\ pc'[r] # pc[r] => StepsLeft[pc'[r]] < StepsLeft[pc[r]]
        /\ pc'[r] = pc[r] => told'[r] = told[r] /\ seen'[r] = seen[r]

\* No handler comes back to a step: whatever fails or is answered late, it makes
\* each call at most once and nothing retries by itself, so that a submitted
\* form is a read and four calls away from its answer at the most. This is the
\* half of EveryRequestAnswered that needs no fairness.
NeverRetries == [][MovesOn]_vars
=============================================================================
