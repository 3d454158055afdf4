------------------------------ MODULE CaseEdits ------------------------------
(***************************************************************************)
(* The forms that correct a case under assessment, filled in by several    *)
(* regulators at once: the determination deadline, the payment date and    *)
(* the codes of an overseas site. A form is drawn from one reading of the  *)
(* case, checked on submission against another (the payment date against   *)
(* none), and its change is one call to the backend. A call given up on by *)
(* its timer may still be served: that is a tab left waiting, while the    *)
(* regulator tries again in another one.                                   *)
(*                                                                         *)
(* The three parts of the case are disjoint, in the code and in the        *)
(* backend's endpoints, so that a behaviour edits one of them. Starting    *)
(* the assessment before a deadline is changed is in CaseWork.             *)
(***************************************************************************)
EXTENDS EditRules

CONSTANTS
    Tabs,       \* the pages the regulators have open
    Parts,      \* which of "deadline", "payment", "codes" may be edited
    Starts,     \* the instants at which the SLA clock may have started
    Target,     \* the target duration, in days
    Materials,  \* what the application is about
    CodeSets    \* the codes a site may carry and a form may tick

ASSUME PartsAssumption == Parts \subseteq {"deadline", "payment", "codes"}

ASSUME StartsAssumption == Starts \subseteq 0..(2 * MaxDay + 1) /\ Target \in Nat

ASSUME CodeSetsAssumption == \A codes \in CodeSets : codes \subseteq AllCodes

VARIABLES
    part,  \* what this behaviour edits
    now,   \* the current instant
    case,  \* the work item
    form   \* the form each tab shows, or the call it waits for

vars == <<part, now, case, form>>

-----------------------------------------------------------------------------
Entries ==
    IF part = "codes" THEN CodeSets ELSE Days \cup {Blank, Unreal}

Closed == [is |-> "closed"]

Drawn == [is |-> "drawn"]

\* The body of a call; "on", "from" and "there" record, for the properties only,
\* the instant and the due date its form was checked against, and whether the
\* site was on the application then.
Call(typed, days) ==
    [is |-> "call", typed |-> typed, days |-> days, on |-> now, from |-> case.due,
     there |-> case.selected]

\* The date the whole of evaluateChangePaymentDateEligibility hangs on.
CanChangePaymentDate == case.open /\ case.payment # NoPayment

\* findSite: a site the operator removed is not found.
SiteFound == case.selected

-----------------------------------------------------------------------------
\* GET: the deadline's form has no gate of its own.
Open(r) ==
    /\ form[r] = Closed
    /\ part = "payment" => CanChangePaymentDate
    /\ part = "codes" => SiteFound
    /\ form' = [form EXCEPT ![r] = Drawn]
    /\ UNCHANGED <<part, now, case>>

Leave(r) ==
    /\ form[r].is = "drawn"
    /\ form' = [form EXCEPT ![r] = Closed]
    /\ UNCHANGED <<part, now, case>>

\* Faulty variant of Fault, used by no specification: the site is looked for when
\* the form is drawn, and not again.
BlindFault(entry) ==
    CASE part = "deadline" ->
            ValidateDeadline(entry, case.due, case.startedAt, now)
      [] part = "payment" -> ValidatePayment(entry, now)
      [] part = "codes" -> ValidateCodes(entry, case.material)

\* What is wrong with an entry, by the case as the POST reads it.
Fault(entry) ==
    CASE part = "deadline" ->
            ValidateDeadline(entry, case.due, case.startedAt, now)
      [] part = "payment" -> ValidatePayment(entry, now)
      [] part = "codes" ->
            IF ~SiteFound THEN "not found" ELSE ValidateCodes(entry, case.material)

Sent(entry) ==
    Call(entry, IF part = "deadline" THEN AdditionalDays(entry, case.due) ELSE 0)

\* POST: an entry at fault is told at once on the same form, any other is sent.
\* A site that is gone has a page of its own.
Submit(r, entry) ==
    /\ form[r].is = "drawn"
    /\ form' = [form EXCEPT ![r] =
            CASE Fault(entry) = "ok" -> Sent(entry)
              [] Fault(entry) = "not found" -> Closed
              [] OTHER -> Drawn]
    /\ UNCHANGED <<part, now, case>>

-----------------------------------------------------------------------------
\* External: the answers the backend may give to a call. It moves the deadline of
\* a closed case as it does that of an open one. Of a site's codes it is only
\* said that it has rules of its own, one of which, an interim site for R12 and
\* R13, the form does not check: it may refuse any, and take them for a site that
\* has been removed.
Replies(call) ==
    CASE part = "deadline" ->
            {IF BackendTakesDeadline(case.due, case.startedAt, call.days, now)
               THEN "ok" ELSE "invalid"}
      [] part = "payment" ->
            IF ~CanChangePaymentDate THEN {"conflict"}
            ELSE {IF floor <= call.typed /\ call.typed <= UtcDay(now)
                    THEN "ok" ELSE "invalid" : floor \in BackendPaymentFloors(UtcDay(now))}
      [] part = "codes" -> {"ok", "invalid", "conflict", "not-found"}

TakeDeadline(call) == [case EXCEPT !.due = Extended(case.due, call.days)]

TakePayment(call) == [case EXCEPT !.payment = call.typed]

\* Codes written to a site that was removed may bring it back.
TakeCodes(call, there) == [case EXCEPT !.codes = call.typed, !.selected = there]

\* The cases a call that is taken may leave.
Taken(call) ==
    CASE part = "deadline" -> {TakeDeadline(call)}
      [] part = "payment" -> {TakePayment(call)}
      [] part = "codes" -> {TakeCodes(call, there) : there \in {case.selected, TRUE}}

Serve(r) ==
    /\ form[r].is = "call"
    /\ \E reply \in Replies(form[r]) :
        /\ case' \in IF reply = "ok" THEN Taken(form[r]) ELSE {case}
        /\ form' = [form EXCEPT ![r] = [is |-> "reply", reply |-> reply]]
    /\ UNCHANGED <<part, now>>

\* The page the answer leads to: the form again with the date at fault, or the
\* case, or its list of sites, with a banner, as when the timer ends the wait.
Answer(r) ==
    /\ form[r].is = "reply"
    /\ form' = [form EXCEPT ![r] =
            IF form[r].reply = "invalid" /\ part # "codes" THEN Drawn ELSE Closed]
    /\ UNCHANGED <<part, now, case>>

-----------------------------------------------------------------------------
\* External: time, the end of the case, and the operator's own edits.
Tick ==
    /\ now < 2 * MaxDay + 1
    /\ now' = now + 1
    /\ UNCHANGED <<part, case, form>>

CloseCase ==
    /\ case.open
    /\ case' = [case EXCEPT !.open = FALSE]
    /\ UNCHANGED <<part, now, form>>

RemoveSite ==
    /\ part = "codes"
    /\ case.selected
    /\ case' = [case EXCEPT !.selected = FALSE]
    /\ UNCHANGED <<part, now, form>>

\* A case that was only submitted, one whose clock started when it was duly
\* made, one with a payment date, and one with a site its operator chose.
Submitted ==
    [open |-> TRUE, startedAt |-> NoClock, due |-> NoClock, payment |-> NoPayment,
     material |-> "none", codes |-> {}, selected |-> TRUE]

Clocked(s) == [Submitted EXCEPT !.startedAt = s, !.due = Extended(s, Target)]

Paid(day) == [Submitted EXCEPT !.payment = day]

Recycling(material, codes) ==
    [Submitted EXCEPT !.material = material, !.codes = codes]

CaseInit ==
    CASE part = "deadline" ->
            {Submitted} \cup {Clocked(s) : s \in {x \in Starts : x <= now}}
      [] part = "payment" ->
            {Submitted} \cup {Paid(d) : d \in {x \in Days : x <= UtcDay(now)}}
      [] part = "codes" -> {Recycling(m, s) : m \in Materials, s \in CodeSets}

Init ==
    /\ part \in Parts
    /\ now \in {i \in 0..(2 * MaxDay + 1) : YearBefore[UtcDay(i)] >= 0}
    /\ case \in CaseInit
    /\ form = [r \in Tabs |-> Closed]

TabStep(r) ==
    \/ Open(r) \/ Leave(r) \/ Serve(r) \/ Answer(r)
    \/ \E entry \in Entries : Submit(r, entry)

Next ==
    \/ \E r \in Tabs : TabStep(r)
    \/ Tick \/ CloseCase \/ RemoveSite

Spec == Init /\ [][Next]_vars

-----------------------------------------------------------------------------
Calls ==
    [is : {"call"}, typed : Entries, days : Int, on : 0..(2 * MaxDay + 1),
     from : Int, there : BOOLEAN]

Answers == [is : {"reply"}, reply : {"ok", "invalid", "conflict", "not-found"}]

\* The variables have their types, and a case has a due date exactly when its
\* clock has started.
TypeOK ==
    /\ part \in Parts
    /\ now \in 0..(2 * MaxDay + 1)
    /\ case \in [open : BOOLEAN, startedAt : Int, due : Int, payment : Int,
                 material : Materials \cup {"none"}, codes : SUBSET AllCodes,
                 selected : BOOLEAN]
    /\ (case.due = NoClock) = (case.startedAt = NoClock)
    /\ form \in [Tabs -> {Closed, Drawn} \cup Calls \cup Answers]

\* A due date that is one day in UTC and another in London, before the move or
\* after, is exempted: it does not land there (see README).
LandsWhereTyped(call, reply) ==
    (part = "deadline" /\ reply = "ok"
        /\ case.due = call.from /\ UkCalendarDay(case.due) = UtcDay(case.due)
        /\ UkCalendarDay(case'.due) = UtcDay(case'.due))
    => UkCalendarDay(case'.due) = call.typed

ServedLands == \A r \in Tabs : Serve(r) => LandsWhereTyped(form[r], form'[r].reply)

\* A deadline moved from the due date its form was checked against lands on the
\* very date that was typed: the sign and the number of days survive the detour
\* through a duration.
DeadlineLandsWhereTyped == [][ServedLands]_vars

\* The earliest date the deadline's form names when it refuses one is a date
\* it would take, and the backend with it: the regulator who follows the
\* message is not refused again, unless that date is already the deadline.
NamedFloorIsAccepted ==
    (part = "deadline" /\ case.due # NoClock) =>
        LET floor == DeadlineFloor(case.startedAt, now) IN
        /\ ValidateDeadline(floor, case.due, case.startedAt, now) \in {"ok", "same"}
        /\ BackendTakesDeadline(case.due, case.startedAt,
                                AdditionalDays(floor, case.due), now)

\* A call the backend would find invalid was overtaken on its way.
RefusedOnlyIfOvertaken(call) ==
    "invalid" \in Replies(call) =>
        \/ UkCalendarDay(call.on) # UkCalendarDay(now)
        \/ case.due # call.from

\* A deadline the frontend has checked, the backend does not find invalid, unless
\* it was moved in between or a day has passed: the frontend's one floor, on the
\* date that was typed, lets nothing through that either of the backend's two
\* refuses of the date the duration comes to.
BothSidesAgree ==
    \A r \in Tabs :
        part = "deadline" /\ form[r].is = "call" => RefusedOnlyIfOvertaken(form[r])

SiteWritten == case'.codes # case.codes \/ (case'.selected /\ ~case.selected)

CodesChangeSoundly ==
    SiteWritten =>
        /\ case'.codes \subseteq ApplicableCodes(case.material)
        /\ case'.codes \cap {"R3", "R4", "R5"} # {}
        /\ \E r \in Tabs : Serve(r) /\ form[r].there

\* Whatever two regulators and an operator make of it, and whatever the backend
\* checks, the codes of a site change only into codes the material admits, at
\* least one of them able to stand alone; and a form drawn before the site was
\* removed but submitted after it neither changes them nor brings the site back.
\* A site removed between a form's check and its call may be written (see README).
CodesStaySound == [][CodesChangeSoundly]_vars

C == INSTANCE Corrections

\* However old the page a form was drawn on, and whatever happened between its
\* check and its call, what becomes of the case is what Corrections allows: as
\* if each correction had been checked and made at once.
ImplementsCorrections == C!Spec
=============================================================================
