--------------------------- MODULE CaseEditsProofs ---------------------------
(***************************************************************************)
(* Proofs about CaseEdits, for any calendar, any number of tabs, and any   *)
(* codes a form may tick. A call on its way was checked when it was sent:  *)
(* the invariant keeps what the check said, in terms of the instant and    *)
(* the due date the call carries, since the start of the clock and the     *)
(* material never change afterwards.                                       *)
(***************************************************************************)
EXTENDS CaseEdits, TLAPS

\* What the check of a deadline said.
DeadlineChecked(call, startedAt) ==
    /\ startedAt # NoClock
    /\ call.from \in Int
    /\ call.on \in 0..(2 * MaxDay + 1)
    /\ call.typed \in Days
    /\ call.typed >= DeadlineFloor(startedAt, call.on)
    /\ call.days = AdditionalDays(call.typed, call.from)

\* What the check of a payment date said of the date: the backend says the rest.
PaymentChecked(call) == call.typed \in Days

\* What the check of a site's codes said, and of the site.
CodesChecked(call, material) ==
    /\ call.typed \in CodeSets
    /\ ValidateCodes(call.typed, material) = "ok"
    /\ call.there

Checked(call, edited, startedAt, material) ==
    /\ edited = "deadline" => DeadlineChecked(call, startedAt)
    /\ edited = "payment" => PaymentChecked(call)
    /\ edited = "codes" => CodesChecked(call, material)

CallsAreChecked ==
    \A r \in Tabs : form[r].is = "call" =>
        Checked(form[r], part, case.startedAt, case.material)

\* A clock, when there is one, started on a day of the calendar.
ClockInCalendar == case.startedAt = NoClock \/ case.startedAt \in 0..(2 * MaxDay + 1)

IInv == TypeOK /\ ClockInCalendar /\ CallsAreChecked

-----------------------------------------------------------------------------
(* The calendar.                                                           *)

\* Days of an instant.
LEMMA DaysOf ==
    ASSUME NEW instant \in Int
    PROVE  /\ UtcDay(instant) \in Int
           /\ 2 * UtcDay(instant) <= instant
           /\ instant <= 2 * UtcDay(instant) + 1
           /\ UkCalendarDay(instant) \in Int
           /\ UkCalendarDay(instant) >= UtcDay(instant)
           /\ UkCalendarDay(instant) <= UtcDay(instant) + 1
  BY DEF UtcDay, UkCalendarDay

\* A day of the calendar is a first of January or has one before it.
LEMMA YearsBegin ==
    ASSUME NEW day \in 0..(MaxDay + 1)
    PROVE  YearFloor(day) \in NewYears /\ YearFloor(day) \in Int /\ YearFloor(day) <= day
<1> DEFINE begins(n) == n <= day /\ \A m \in NewYears : m <= day => m <= n
<1>1. \E n \in NewYears : begins(n)
  BY YearsAssumption
<1>2. YearFloor(day) = CHOOSE n \in NewYears : begins(n)
  BY DEF YearFloor
<1> HIDE DEF begins
<1>3. YearFloor(day) \in NewYears /\ begins(YearFloor(day))
  BY <1>1, <1>2, Zenon
<1>4. NewYears \subseteq Int
  BY CalendarAssumption
<1> QED BY <1>3, <1>4 DEF begins

\* The London day of an instant of the calendar has a year.
LEMMA LondonDays ==
    ASSUME NEW instant \in 0..(2 * MaxDay + 1)
    PROVE  UkCalendarDay(instant) \in 0..(MaxDay + 1)
<1>1. MaxDay \in Int /\ instant \in Int /\ 0 <= instant /\ instant <= 2 * MaxDay + 1
  BY CalendarAssumption
<1>2. /\ UtcDay(instant) \in Int /\ UkCalendarDay(instant) \in Int
      /\ 2 * UtcDay(instant) <= instant /\ instant <= 2 * UtcDay(instant) + 1
      /\ UkCalendarDay(instant) >= UtcDay(instant)
      /\ UkCalendarDay(instant) <= UtcDay(instant) + 1
  BY <1>1, DaysOf
<1> QED BY <1>1, <1>2

\* Moving an instant by days moves its day by as many.
LEMMA Moved ==
    ASSUME NEW due \in Int, NEW days \in Int
    PROVE  /\ Extended(due, days) \in Int
           /\ UtcDay(Extended(due, days)) = UtcDay(due) + days
  BY DEF Extended, UtcDay

\* A date sent as a duration comes back as the same date in UTC.
LEMMA Landed ==
    ASSUME NEW due \in Int, NEW typed \in Int
    PROVE  /\ AdditionalDays(typed, due) \in Int
           /\ UtcDay(Extended(due, AdditionalDays(typed, due))) = typed
<1>1. UtcDay(due) \in Int
  BY DaysOf
<1>2. AdditionalDays(typed, due) \in Int
  BY <1>1 DEF AdditionalDays
<1> QED BY <1>1, <1>2, Moved DEF AdditionalDays

\* The floor is one of its two bounds, and above both.
LEMMA FloorOfBoth ==
    ASSUME NEW startedAt \in 0..(2 * MaxDay + 1), NEW at \in 0..(2 * MaxDay + 1)
    PROVE  /\ DeadlineFloor(startedAt, at) \in Int
           /\ DeadlineFloor(startedAt, at) >= UkCalendarDay(startedAt)
           /\ DeadlineFloor(startedAt, at) >= YearFloor(UkCalendarDay(at))
<1>1. UkCalendarDay(startedAt) \in Int /\ UkCalendarDay(at) \in 0..(MaxDay + 1)
  BY CalendarAssumption, LondonDays
<1>2. YearFloor(UkCalendarDay(at)) \in Int
  BY <1>1, YearsBegin
<1> QED BY <1>1, <1>2 DEF DeadlineFloor

\* A date at or above the floor, sent as a duration from the due date it is
\* then moved from, is one the backend takes.
LEMMA FloorTaken ==
    ASSUME NEW due \in Int, NEW startedAt \in 0..(2 * MaxDay + 1),
           NEW at \in 0..(2 * MaxDay + 1), NEW typed \in Int,
           typed >= DeadlineFloor(startedAt, at)
    PROVE  BackendTakesDeadline(due, startedAt, AdditionalDays(typed, due), at)
<1> DEFINE moved == Extended(due, AdditionalDays(typed, due))
<1>1. moved \in Int /\ UtcDay(moved) = typed
  BY Landed, Moved
<1>2. UkCalendarDay(moved) \in Int /\ UkCalendarDay(moved) >= typed
  BY <1>1, DaysOf
<1>3. UkCalendarDay(startedAt) \in Int /\ YearFloor(UkCalendarDay(at)) \in Int
  BY CalendarAssumption, DaysOf, LondonDays, YearsBegin
<1> QED BY <1>2, <1>3, FloorOfBoth DEF BackendTakesDeadline

\* What a deadline's check lets through.
LEMMA DeadlinePassed ==
    ASSUME NEW typed \in Days \cup {Blank, Unreal}, NEW due, NEW startedAt, NEW at,
           ValidateDeadline(typed, due, startedAt, at) = "ok"
    PROVE  /\ typed \in Days /\ due # NoClock
           /\ ~(typed < DeadlineFloor(startedAt, at))
  BY CalendarAssumption DEF ValidateDeadline

\* What a payment date's check lets through.
LEMMA PaymentPassed ==
    ASSUME NEW typed \in Days \cup {Blank, Unreal}, NEW at,
           ValidatePayment(typed, at) = "ok"
    PROVE  typed \in Days
  BY CalendarAssumption DEF ValidatePayment

-----------------------------------------------------------------------------
(* The steps.                                                              *)

\* What is sent was checked against the case as it is.
LEMMA SentIsChecked ==
    ASSUME IInv, NEW entry \in Entries, Fault(entry) = "ok"
    PROVE  /\ Sent(entry) \in Calls
           /\ Checked(Sent(entry), part, case.startedAt, case.material)
<1> DEFINE c == Sent(entry)
<1>1. /\ c.is = "call" /\ c.typed = entry /\ c.on = now /\ c.from = case.due
      /\ c.days = IF part = "deadline" THEN AdditionalDays(entry, case.due) ELSE 0
      /\ c = [is |-> c.is, typed |-> c.typed, days |-> c.days, on |-> c.on,
              from |-> c.from, there |-> c.there]
      /\ c.there = case.selected /\ c.there \in BOOLEAN
  BY DEF Sent, Call, IInv, TypeOK
<1>2. /\ now \in 0..(2 * MaxDay + 1) /\ now \in Int /\ case.due \in Int
      /\ case.startedAt \in Int /\ (case.due = NoClock <=> case.startedAt = NoClock)
      /\ part \in {"deadline", "payment", "codes"}
  BY CalendarAssumption, PartsAssumption DEF IInv, TypeOK
<1> HIDE DEF c
<1>3. CASE part = "deadline"
  <2>1. /\ entry \in Days /\ case.due # NoClock
        /\ ~(entry < DeadlineFloor(case.startedAt, now))
    BY <1>3, DeadlinePassed DEF Fault, Entries
  <2>2. case.startedAt \in 0..(2 * MaxDay + 1) /\ entry \in Int
    BY <1>2, <2>1, CalendarAssumption DEF IInv, ClockInCalendar, Days
  <2>3. entry >= DeadlineFloor(case.startedAt, now)
    BY <1>2, <2>1, <2>2, FloorOfBoth
  <2>4. c.days \in Int
    BY <1>1, <1>2, <1>3, <2>2, Landed
  <2>5. c \in Calls
    BY <1>1, <1>2, <2>4 DEF Calls
  <2> QED BY <1>1, <1>2, <1>3, <2>1, <2>3, <2>5 DEF Checked, DeadlineChecked, c
<1>4. CASE part = "payment"
  <2>1. entry \in Days
    BY <1>4, PaymentPassed DEF Fault, Entries
  <2>2. c \in Calls
    BY <1>1, <1>2, <1>4 DEF Calls
  <2> QED BY <1>1, <1>4, <2>1, <2>2 DEF Checked, PaymentChecked, c
<1>5. CASE part = "codes"
  <2>1. entry \in CodeSets /\ ValidateCodes(entry, case.material) = "ok"
        /\ case.selected
    BY <1>5 DEF Fault, Entries, SiteFound
  <2>2. c \in Calls
    BY <1>1, <1>2, <1>5 DEF Calls
  <2> QED BY <1>1, <1>5, <2>1, <2>2 DEF Checked, CodesChecked, c
<1> QED BY <1>2, <1>3, <1>4, <1>5

\* A step that leaves alone what is edited, the start of the clock and the
\* material keeps the calls checked, if those it makes are.
LEMMA StaysChecked ==
    ASSUME IInv, part' = part, case'.startedAt = case.startedAt,
           case'.material = case.material,
           \A r \in Tabs : form'[r] = form[r] \/ form'[r].is # "call"
               \/ Checked(form'[r], part, case.startedAt, case.material)
    PROVE  CallsAreChecked' /\ ClockInCalendar'
  BY DEF IInv, CallsAreChecked, ClockInCalendar

Cases ==
    [open : BOOLEAN, startedAt : Int, due : Int, payment : Int,
     material : Materials \cup {"none"}, codes : SUBSET AllCodes,
     selected : BOOLEAN]

\* A case that keeps its type, its clock's start and its material.
KeptBy(after) ==
    /\ after \in Cases
    /\ after.startedAt = case.startedAt /\ after.material = case.material
    /\ (after.due = NoClock) = (after.startedAt = NoClock)

\* No clock is before every day.
LEMMA BeforeAll == UkCalendarDay(NoClock) < 0
<1>1. NoClock \in Int /\ NoClock = -1
  BY DEF NoClock
<1>2. /\ UtcDay(NoClock) \in Int /\ 2 * UtcDay(NoClock) <= NoClock
      /\ UtcDay(NoClock) \notin 0..MaxDay
  <2>1. UtcDay(NoClock) \in Int /\ 2 * UtcDay(NoClock) <= NoClock
    BY <1>1, DaysOf
  <2> QED BY <1>1, <2>1
<1>3. UtcDay(NoClock) \notin SummerDays
  BY <1>2, CalendarAssumption
<1>4. UkCalendarDay(NoClock) = UtcDay(NoClock)
  BY <1>3 DEF UkCalendarDay
<1> QED BY <1>1, <1>2, <1>4

\* The answer a call gets is one the backend may give, and only one that is taken
\* changes the case.
LEMMA Served ==
    ASSUME IInv, NEW r \in Tabs, Serve(r)
    PROVE  \E reply \in {"ok", "invalid", "conflict", "not-found"} :
              /\ form[r].is = "call" /\ UNCHANGED <<part, now>>
              /\ reply \in Replies(form[r])
              /\ form' = [form EXCEPT ![r] = [is |-> "reply", reply |-> reply]]
              /\ reply = "ok" => case' \in Taken(form[r])
              /\ reply # "ok" => case' = case
<1>1. Replies(form[r]) \subseteq {"ok", "invalid", "conflict", "not-found"}
  BY PartsAssumption DEF Replies, IInv, TypeOK
<1> QED BY <1>1 DEF Serve

\* What the backend has made sure of when it takes a call, and what it leaves.
LEMMA WhatIsTaken ==
    ASSUME NEW r \in Tabs, "ok" \in Replies(form[r]), NEW after \in Taken(form[r])
    PROVE  /\ part = "deadline" =>
                 /\ after = [case EXCEPT !.due = Extended(case.due, form[r].days)]
                 /\ BackendTakesDeadline(case.due, case.startedAt, form[r].days, now)
           /\ part = "payment" =>
                 /\ after = [case EXCEPT !.payment = form[r].typed]
                 /\ CanChangePaymentDate /\ form[r].typed <= UtcDay(now)
                 /\ \E floor \in BackendPaymentFloors(UtcDay(now)) : floor <= form[r].typed
           /\ part = "codes" =>
                 \E there \in {case.selected, TRUE} :
                    after = [case EXCEPT !.codes = form[r].typed, !.selected = there]
<1>1. CASE part = "deadline"
  BY <1>1 DEF Replies, Taken, TakeDeadline
<1>2. CASE part = "payment"
  <2>1. CanChangePaymentDate
    BY <1>2 DEF Replies
  <2>2. PICK floor \in BackendPaymentFloors(UtcDay(now)) :
            floor <= form[r].typed /\ form[r].typed <= UtcDay(now)
    BY <1>2, <2>1 DEF Replies
  <2> QED BY <1>2, <2>1, <2>2 DEF Taken, TakePayment
<1>3. CASE part = "codes"
  BY <1>3 DEF Taken, TakeCodes
<1> QED BY <1>1, <1>2, <1>3

\* What the backend makes of a call leaves a case of its type.
LEMMA TakenType ==
    ASSUME IInv, NEW r \in Tabs, form[r].is = "call", "ok" \in Replies(form[r]),
           NEW after \in Taken(form[r])
    PROVE  KeptBy(after)
<1> DEFINE call == form[r]
<1>1. /\ case \in Cases /\ (case.due = NoClock) = (case.startedAt = NoClock)
      /\ Checked(call, part, case.startedAt, case.material)
      /\ part \in {"deadline", "payment", "codes"} /\ now \in 0..(2 * MaxDay + 1)
      /\ case.due \in Int /\ case.startedAt \in Int
  BY PartsAssumption DEF IInv, TypeOK, CallsAreChecked, Cases
<1>3. CASE part = "deadline"
  <2> DEFINE moved == Extended(case.due, call.days)
  <2>1. after = [case EXCEPT !.due = moved]
    BY <1>3, WhatIsTaken
  <2>2. BackendTakesDeadline(case.due, case.startedAt, call.days, now)
    BY <1>3, WhatIsTaken
  <2>3. /\ case.startedAt # NoClock /\ call.from \in Int /\ call.typed \in Int
        /\ call.days = AdditionalDays(call.typed, call.from)
    BY <1>1, <1>3, CalendarAssumption DEF Checked, DeadlineChecked, Days
  <2>4. call.days \in Int
    BY <2>3, Landed
  <2>5. moved \in Int
    BY <1>1, <2>4, Moved
  <2>6. case.startedAt \in 0..(2 * MaxDay + 1)
    BY <2>3 DEF IInv, ClockInCalendar
  <2>7. UkCalendarDay(moved) \in Int /\ UkCalendarDay(moved) >= 0
    <3>1. UkCalendarDay(case.startedAt) \in Int /\ UkCalendarDay(case.startedAt) >= 0
      BY <2>6, LondonDays, CalendarAssumption
    <3>2. UkCalendarDay(moved) \in Int
      BY <2>5, DaysOf
    <3> QED BY <2>2, <3>1, <3>2 DEF BackendTakesDeadline
  <2> HIDE DEF moved
  <2>8. moved # NoClock
    <3>1. NoClock \in Int /\ UkCalendarDay(NoClock) \in Int
      BY DaysOf DEF NoClock
    <3> QED BY <2>7, <3>1, BeforeAll
  <2> QED BY <1>1, <2>1, <2>3, <2>5, <2>8 DEF KeptBy, Cases
<1>4. CASE part = "payment"
  <2>1. after = [case EXCEPT !.payment = call.typed]
    BY <1>4, WhatIsTaken
  <2>2. call.typed \in Int
    BY <1>1, <1>4, CalendarAssumption DEF Checked, PaymentChecked, Days
  <2> QED BY <1>1, <2>1, <2>2 DEF KeptBy, Cases
<1>5. CASE part = "codes"
  <2>1. PICK there \in {case.selected, TRUE} :
            after = [case EXCEPT !.codes = call.typed, !.selected = there]
    BY <1>5, WhatIsTaken
  <2>2. call.typed \subseteq AllCodes /\ there \in BOOLEAN
    BY <1>1, <1>5, CodeSetsAssumption DEF Checked, CodesChecked, Cases
  <2> QED BY <1>1, <2>1, <2>2 DEF KeptBy, Cases
<1> QED BY <1>1, <1>3, <1>4, <1>5

\* A tab that shows no call, or one just checked, keeps the form's type.
LEMMA FormKept ==
    ASSUME IInv, NEW r \in Tabs, NEW shown,
           shown \in {Closed, Drawn} \cup Answers
             \/ (shown \in Calls
                 /\ Checked(shown, part, case.startedAt, case.material)),
           form' = [form EXCEPT ![r] = shown], UNCHANGED <<part, now, case>>
    PROVE  IInv'
<1>1. shown \in {Closed, Drawn} \cup Answers =>  shown.is # "call"
  BY DEF Closed, Drawn, Answers
<1>2. form \in [Tabs -> {Closed, Drawn} \cup Calls \cup Answers]
  BY DEF IInv, TypeOK
<1>3. form' \in [Tabs -> {Closed, Drawn} \cup Calls \cup Answers]
  <2> HIDE DEF IInv
  <2> QED BY <1>2
<1>4. \A t \in Tabs : form'[t] = form[t] \/ form'[t].is # "call"
        \/ Checked(form'[t], part, case.startedAt, case.material)
  <2> TAKE t \in Tabs
  <2>1. form'[t] = IF t = r THEN shown ELSE form[t]
    BY <1>2
  <2> QED BY <1>1, <2>1
<1>5. Calls' = Calls /\ Answers' = Answers /\ Closed' = Closed /\ Drawn' = Drawn
  BY DEF Calls, Entries, Answers, Closed, Drawn
<1>6. TypeOK'
  <2>1. form' \in [Tabs -> {Closed', Drawn'} \cup Calls' \cup Answers']
    BY <1>3, <1>5
  <2> QED BY <2>1 DEF IInv, TypeOK
<1> QED BY <1>4, <1>6, StaysChecked DEF IInv

\* A form left alone keeps its type when the case keeps its own.
LEMMA CaseKept ==
    ASSUME IInv, UNCHANGED <<part, form>>, KeptBy(case'),
           now' \in 0..(2 * MaxDay + 1)
    PROVE  IInv'
<1>1. Calls' = Calls /\ Answers' = Answers /\ Closed' = Closed /\ Drawn' = Drawn
  BY DEF Calls, Entries, Answers, Closed, Drawn
<1>2. TypeOK'
  BY <1>1 DEF IInv, TypeOK, KeptBy, Cases
<1> QED BY <1>2, StaysChecked DEF IInv, KeptBy

LEMMA CaseIsKept == ASSUME IInv PROVE KeptBy(case)
  BY DEF IInv, TypeOK, KeptBy, Cases

LEMMA ServeKeeps ==
    ASSUME IInv, NEW r \in Tabs, Serve(r)
    PROVE  IInv'
<1>0. PICK reply \in {"ok", "invalid", "conflict", "not-found"} :
              /\ form[r].is = "call" /\ UNCHANGED <<part, now>>
              /\ reply \in Replies(form[r])
              /\ form' = [form EXCEPT ![r] = [is |-> "reply", reply |-> reply]]
              /\ reply = "ok" => case' \in Taken(form[r])
              /\ reply # "ok" => case' = case
  BY Served
<1> DEFINE answer == [is |-> "reply", reply |-> reply]
<1>1. UNCHANGED <<part, now>> /\ form' = [form EXCEPT ![r] = answer]
  BY <1>0
<1>2. KeptBy(case')
  BY <1>0, TakenType, CaseIsKept
<1>3. answer \in Answers /\ answer.is # "call"
  BY DEF Answers
<1> HIDE DEF answer
<1>4. form \in [Tabs -> {Closed, Drawn} \cup Calls \cup Answers]
  BY DEF IInv, TypeOK
<1>5. form' \in [Tabs -> {Closed, Drawn} \cup Calls \cup Answers]
  BY <1>1, <1>3, <1>4
<1>6. \A t \in Tabs : form'[t] = form[t] \/ form'[t].is # "call"
  <2> TAKE t \in Tabs
  <2>1. form'[t] = IF t = r THEN answer ELSE form[t]
    BY <1>1, <1>4
  <2> QED BY <1>3, <2>1
<1>7. Calls' = Calls /\ Answers' = Answers /\ Closed' = Closed /\ Drawn' = Drawn
  BY <1>1 DEF Calls, Entries, Answers, Closed, Drawn
<1>8. TypeOK'
  <2>1. form' \in [Tabs -> {Closed', Drawn'} \cup Calls' \cup Answers']
    BY <1>5, <1>7
  <2> QED BY <1>1, <1>2, <2>1 DEF IInv, TypeOK, KeptBy, Cases
<1> QED BY <1>1, <1>2, <1>6, <1>8, StaysChecked DEF IInv, KeptBy

LEMMA SubmitKeeps ==
    ASSUME IInv, NEW r \in Tabs, NEW entry \in Entries, Submit(r, entry)
    PROVE  IInv'
<1>1. CASE Fault(entry) = "ok"
  <2>1. form' = [form EXCEPT ![r] = Sent(entry)] /\ UNCHANGED <<part, now, case>>
    BY <1>1 DEF Submit
  <2> QED BY <1>1, <2>1, SentIsChecked, FormKept
<1>2. CASE Fault(entry) = "not found"
  <2>1. form' = [form EXCEPT ![r] = Closed] /\ UNCHANGED <<part, now, case>>
    BY <1>2 DEF Submit
  <2> QED BY <2>1, FormKept
<1>3. CASE Fault(entry) # "ok" /\ Fault(entry) # "not found"
  <2>1. form' = [form EXCEPT ![r] = Drawn] /\ UNCHANGED <<part, now, case>>
    BY <1>3 DEF Submit
  <2> QED BY <2>1, FormKept
<1> QED BY <1>1, <1>2, <1>3

-----------------------------------------------------------------------------
LEMMA InitHolds == Init => IInv
<1> SUFFICES ASSUME Init PROVE IInv
  OBVIOUS
<1>1. MaxDay \in Nat /\ Target \in Nat
      /\ Starts \subseteq 0..(2 * MaxDay + 1) /\ NoClock = -1 /\ NoPayment = -1
      /\ part \in Parts /\ part \in {"deadline", "payment", "codes"}
  BY CalendarAssumption, StartsAssumption, PartsAssumption
     DEF Init, NoClock, NoPayment
<1>2. now \in 0..(2 * MaxDay + 1)
  BY <1>1 DEF Init
<1>3. form = [r \in Tabs |-> Closed]
  BY DEF Init
<1>4. case \in CaseInit
  BY DEF Init
<1>5. case \in Cases /\ (case.due = NoClock) = (case.startedAt = NoClock)
      /\ ClockInCalendar
  <2>1. CASE case = Submitted
    BY <1>1, <2>1 DEF Cases, ClockInCalendar, Submitted
  <2>2. CASE part = "deadline" /\ case # Submitted
    <3>1. PICK s \in Starts : case = Clocked(s)
      BY <1>4, <2>2 DEF CaseInit
    <3>2. s \in 0..(2 * MaxDay + 1) /\ Extended(s, Target) \in Int
          /\ Extended(s, Target) >= 0
      BY <1>1 DEF Extended
    <3>3. case = [open |-> TRUE, startedAt |-> s, due |-> Extended(s, Target),
                  payment |-> NoPayment, material |-> "none", codes |-> {},
                  selected |-> TRUE]
      BY <3>1 DEF Clocked, Submitted
    <3>4. s \in Int /\ s >= 0
      BY <1>1, <3>2
    <3>5. case.due = Extended(s, Target) /\ case.startedAt = s
      BY <3>3
    <3>6. case \in Cases
      BY <1>1, <3>2, <3>3, <3>4 DEF Cases
    <3> QED BY <1>1, <3>2, <3>4, <3>5, <3>6 DEF ClockInCalendar
  <2>3. CASE part = "payment" /\ case # Submitted
    <3>1. PICK d \in Days : case = Paid(d)
      BY <1>4, <2>3 DEF CaseInit
    <3>2. case = [open |-> TRUE, startedAt |-> NoClock, due |-> NoClock,
                  payment |-> d, material |-> "none", codes |-> {},
                  selected |-> TRUE]
      BY <3>1 DEF Paid, Submitted
    <3>3. d \in Int
      BY <1>1 DEF Days
    <3>4. case \in Cases
      BY <1>1, <3>2, <3>3 DEF Cases
    <3> QED BY <3>2, <3>4 DEF ClockInCalendar
  <2>4. CASE part = "codes"
    <3>1. case \in {Recycling(m, s) : m \in Materials, s \in CodeSets}
      BY <1>4, <2>4 DEF CaseInit
    <3>2. PICK m \in Materials, s \in CodeSets : case = Recycling(m, s)
      BY <3>1
    <3>3. s \subseteq AllCodes
      BY CodeSetsAssumption
    <3>4. case = [open |-> TRUE, startedAt |-> NoClock, due |-> NoClock,
                  payment |-> NoPayment, material |-> m, codes |-> s,
                  selected |-> TRUE]
      BY <3>2 DEF Recycling, Submitted
    <3>5. case \in Cases
      BY <1>1, <3>3, <3>4 DEF Cases
    <3> QED BY <3>4, <3>5 DEF ClockInCalendar
  <2> QED BY <1>1, <2>1, <2>2, <2>3, <2>4
<1>6. CallsAreChecked
  BY <1>3 DEF CallsAreChecked, Closed
<1> QED BY <1>1, <1>2, <1>3, <1>5, <1>6 DEF IInv, TypeOK, Cases

LEMMA StepKeeps ==
    ASSUME IInv, [Next]_vars
    PROVE  IInv'
<1>1. CASE UNCHANGED vars
  <2>1. UNCHANGED <<part, form>> /\ case' = case /\ now' = now
    BY <1>1 DEF vars
  <2>2. now' \in 0..(2 * MaxDay + 1)
    BY <2>1 DEF IInv, TypeOK
  <2> QED BY <2>1, <2>2, CaseIsKept, CaseKept
<1>2. ASSUME NEW r \in Tabs, TabStep(r) PROVE IInv'
  <2>1. CASE Open(r)
    <3>1. form' = [form EXCEPT ![r] = Drawn] /\ UNCHANGED <<part, now, case>>
      BY <2>1 DEF Open
    <3> QED BY <3>1, FormKept
  <2>2. CASE Leave(r)
    <3>1. form' = [form EXCEPT ![r] = Closed] /\ UNCHANGED <<part, now, case>>
      BY <2>2 DEF Leave
    <3> QED BY <3>1, FormKept
  <2>3. CASE Serve(r)
    BY <2>3, ServeKeeps
  <2>4. CASE Answer(r)
    <3>1. PICK shown \in {Closed, Drawn} :
            form' = [form EXCEPT ![r] = shown] /\ UNCHANGED <<part, now, case>>
      BY <2>4 DEF Answer
    <3> QED BY <3>1, FormKept
  <2>5. ASSUME NEW entry \in Entries, Submit(r, entry) PROVE IInv'
    BY <2>5, SubmitKeeps
  <2> QED BY <1>2, <2>1, <2>2, <2>3, <2>4, <2>5 DEF TabStep
<1>3. CASE Tick
  <2>1. now \in Nat /\ now < 2 * MaxDay + 1 /\ now' = now + 1
        /\ UNCHANGED <<part, form>> /\ case' = case
    BY <1>3 DEF Tick, IInv, TypeOK
  <2>2. now' \in 0..(2 * MaxDay + 1)
    BY <2>1, CalendarAssumption
  <2> QED BY <2>1, <2>2, CaseIsKept, CaseKept
<1>4. CASE CloseCase
  <2>1. UNCHANGED <<part, form>> /\ now' = now
        /\ case' = [case EXCEPT !.open = FALSE]
    BY <1>4 DEF CloseCase
  <2>2. now' \in 0..(2 * MaxDay + 1)
    BY <2>1 DEF IInv, TypeOK
  <2>3. KeptBy(case')
    BY <2>1, CaseIsKept DEF KeptBy, Cases
  <2> QED BY <2>1, <2>2, <2>3, CaseKept
<1>5. CASE RemoveSite
  <2>1. UNCHANGED <<part, form>> /\ now' = now
        /\ case' = [case EXCEPT !.selected = FALSE]
    BY <1>5 DEF RemoveSite
  <2>2. now' \in 0..(2 * MaxDay + 1)
    BY <2>1 DEF IInv, TypeOK
  <2>3. KeptBy(case')
    BY <2>1, CaseIsKept DEF KeptBy, Cases
  <2> QED BY <2>1, <2>2, <2>3, CaseKept
<1> QED BY <1>1, <1>2, <1>3, <1>4, <1>5 DEF Next

\* Every call on its way was checked against the clock and the material the
\* case still has, at the instant and with the due date it carries.
THEOREM EditsAreChecked == Spec => []IInv
<1>1. Init => IInv
  BY InitHolds
<1>2. IInv /\ [Next]_vars => IInv'
  BY StepKeeps
<1> QED BY <1>1, <1>2, PTL DEF Spec

\* The variables keep their types, and a due date never parts from its clock.
THEOREM TypeCorrect == Spec => []TypeOK
<1>1. IInv => TypeOK
  BY DEF IInv
<1> QED BY <1>1, EditsAreChecked, PTL

-----------------------------------------------------------------------------
\* The floor itself passes both sides.
LEMMA FloorPasses ==
    ASSUME IInv, part = "deadline", case.due # NoClock
    PROVE  LET floor == DeadlineFloor(case.startedAt, now) IN
           /\ ValidateDeadline(floor, case.due, case.startedAt, now) \in {"ok", "same"}
           /\ BackendTakesDeadline(case.due, case.startedAt,
                                   AdditionalDays(floor, case.due), now)
<1> DEFINE floor == DeadlineFloor(case.startedAt, now)
<1>1. /\ now \in 0..(2 * MaxDay + 1) /\ case.due \in Int
      /\ case.startedAt \in 0..(2 * MaxDay + 1)
  BY DEF IInv, TypeOK, ClockInCalendar
<1>2. floor \in Int
  BY <1>1, FloorOfBoth
<1>3. BackendTakesDeadline(case.due, case.startedAt, AdditionalDays(floor, case.due), now)
  <2>1. floor >= DeadlineFloor(case.startedAt, now)
    BY <1>2
  <2> HIDE DEF floor
  <2> QED BY <1>1, <1>2, <2>1, FloorTaken
<1>4. ValidateDeadline(floor, case.due, case.startedAt, now) \in {"ok", "same"}
  <2>1. floor # Blank /\ floor # Unreal /\ ~(floor < DeadlineFloor(case.startedAt, now))
    BY <1>2, CalendarAssumption
  <2> QED BY <2>1 DEF ValidateDeadline
<1> QED BY <1>3, <1>4

\* A deadline found invalid by the backend was overtaken.
LEMMA DeadlineOvertaken ==
    ASSUME IInv, NEW r \in Tabs, form[r].is = "call", part = "deadline",
           "invalid" \in Replies(form[r]),
           UkCalendarDay(form[r].on) = UkCalendarDay(now), case.due = form[r].from
    PROVE  FALSE
<1> DEFINE call == form[r]
<1>1. DeadlineChecked(call, case.startedAt)
  BY DEF IInv, CallsAreChecked, Checked
<1>2. ~BackendTakesDeadline(case.due, case.startedAt, call.days, now)
  BY DEF Replies
<1>3. /\ now \in 0..(2 * MaxDay + 1) /\ case.due \in Int /\ call.typed \in Int
      /\ case.startedAt \in 0..(2 * MaxDay + 1)
      /\ call.days = AdditionalDays(call.typed, case.due)
  BY <1>1, CalendarAssumption
     DEF IInv, TypeOK, ClockInCalendar, DeadlineChecked, Days
<1>4. DeadlineFloor(case.startedAt, now) = DeadlineFloor(case.startedAt, call.on)
  BY DEF DeadlineFloor
<1>5. call.typed >= DeadlineFloor(case.startedAt, now)
  BY <1>1, <1>4 DEF DeadlineChecked
<1> HIDE DEF call
<1> QED BY <1>2, <1>3, <1>5, FloorTaken

\* A deadline the backend takes lands on the day that was typed.
LEMMA Lands ==
    ASSUME IInv, NEW r \in Tabs, Serve(r)
    PROVE  LandsWhereTyped(form[r], form'[r].reply)
<1>0. PICK reply \in {"ok", "invalid", "conflict", "not-found"} :
              /\ reply \in Replies(form[r])
              /\ form' = [form EXCEPT ![r] = [is |-> "reply", reply |-> reply]]
              /\ reply = "ok" => case' \in Taken(form[r])
  BY Served
<1> SUFFICES ASSUME part = "deadline", form'[r].reply = "ok",
                    case.due = form[r].from,
                    UkCalendarDay(case'.due) = UtcDay(case'.due)
             PROVE  UkCalendarDay(case'.due) = form[r].typed
  BY DEF LandsWhereTyped
<1>1. DeadlineChecked(form[r], case.startedAt)
  BY DEF Serve, IInv, CallsAreChecked, Checked
<1>2. case \in Cases /\ form \in [Tabs -> {Closed, Drawn} \cup Calls \cup Answers]
  BY DEF IInv, TypeOK, Cases
<1>3. reply = "ok"
  BY <1>0, <1>2
<1>4. case' = [case EXCEPT !.due = Extended(case.due, form[r].days)]
  BY <1>0, <1>3, WhatIsTaken
<1>5. case'.due = Extended(case.due, form[r].days)
  BY <1>2, <1>4 DEF Cases
<1>6. form[r].typed \in Int /\ case.due \in Int
      /\ form[r].days = AdditionalDays(form[r].typed, case.due)
  BY <1>1, <1>2, CalendarAssumption DEF DeadlineChecked, Days, Cases
<1> QED BY <1>5, <1>6, Landed

\* A site is written only by a call that was checked, when the site was there.
LEMMA CodesMove ==
    ASSUME IInv, [Next]_vars
    PROVE  CodesChangeSoundly
<1> SUFFICES ASSUME SiteWritten
             PROVE  /\ case'.codes \subseteq ApplicableCodes(case.material)
                    /\ case'.codes \cap {"R3", "R4", "R5"} # {}
                    /\ \E r \in Tabs : Serve(r) /\ form[r].there
  BY DEF CodesChangeSoundly
<1>1. case \in Cases /\ part \in {"deadline", "payment", "codes"}
  BY PartsAssumption DEF IInv, TypeOK, Cases
<1>2. PICK r \in Tabs : Serve(r)
  <2>1. CASE \E t \in Tabs : TabStep(t) /\ ~Serve(t)
    BY <2>1 DEF TabStep, Open, Leave, Submit, Answer, SiteWritten
  <2>2. CASE Tick \/ CloseCase \/ RemoveSite \/ UNCHANGED vars
    BY <1>1, <2>2 DEF Tick, CloseCase, RemoveSite, vars, Cases, SiteWritten
  <2> QED BY <2>1, <2>2 DEF Next
<1>3. form[r].is = "call" /\ "ok" \in Replies(form[r]) /\ case' \in Taken(form[r])
  BY <1>2, Served DEF SiteWritten
<1>5. part = "codes"
  <2>1. CASE part = "deadline"
    <3>1. case' = [case EXCEPT !.due = Extended(case.due, form[r].days)]
      BY <1>3, <2>1, WhatIsTaken
    <3> QED BY <1>1, <3>1 DEF Cases, SiteWritten
  <2>2. CASE part = "payment"
    <3>1. case' = [case EXCEPT !.payment = form[r].typed]
      BY <1>3, <2>2, WhatIsTaken
    <3> QED BY <1>1, <3>1 DEF Cases, SiteWritten
  <2> QED BY <1>1, <2>1, <2>2
<1>7. PICK there \in {case.selected, TRUE} :
          case' = [case EXCEPT !.codes = form[r].typed, !.selected = there]
  BY <1>3, <1>5, WhatIsTaken
<1>8. case'.codes = form[r].typed
  BY <1>1, <1>7 DEF Cases
<1>9. CodesChecked(form[r], case.material)
  BY <1>3, <1>5 DEF IInv, CallsAreChecked, Checked
<1>10. /\ form[r].typed \subseteq ApplicableCodes(case.material)
       /\ ~RequiresAccompanyingCode(form[r].typed) /\ form[r].typed # {}
       /\ form[r].typed \subseteq AllCodes /\ form[r].there
  BY <1>9, CodeSetsAssumption DEF CodesChecked, ValidateCodes
<1>11. form[r].typed \cap {"R3", "R4", "R5"} # {}
  BY <1>10 DEF RequiresAccompanyingCode, RequiringAccompaniment, AllCodes
<1> QED BY <1>2, <1>8, <1>10, <1>11

\* The earliest date a refusal names would be taken, by the form and by the
\* backend.
THEOREM FloorsAreAccepted == Spec => []NamedFloorIsAccepted
<1>1. IInv => NamedFloorIsAccepted
  BY FloorPasses DEF NamedFloorIsAccepted
<1> QED BY <1>1, EditsAreChecked, PTL

\* A deadline the form has checked, the backend does not find invalid, unless it
\* was overtaken.
THEOREM SidesAgree == Spec => []BothSidesAgree
<1>1. IInv => BothSidesAgree
  BY DeadlineOvertaken DEF BothSidesAgree, RefusedOnlyIfOvertaken
<1> QED BY <1>1, EditsAreChecked, PTL

\* A deadline lands on the date that was typed.
THEOREM DeadlinesLand == Spec => DeadlineLandsWhereTyped
<1>1. IInv /\ [Next]_vars => ServedLands
  BY Lands DEF ServedLands
<1> QED BY <1>1, EditsAreChecked, PTL DEF Spec, DeadlineLandsWhereTyped

\* A site is written only with codes that are sound for its material, and only by
\* a call whose check found it there.
THEOREM CodesAreSound == Spec => CodesStaySound
<1>1. IInv /\ [Next]_vars => CodesChangeSoundly
  BY CodesMove
<1> QED BY <1>1, EditsAreChecked, PTL DEF Spec, CodesStaySound

-----------------------------------------------------------------------------
(* CaseEdits implements Corrections.                                       *)

\* Both modules go by the same rules.
LEMMA SameFloor ==
    ASSUME NEW startedAt, NEW at
    PROVE  C!DeadlineFloor(startedAt, at) = DeadlineFloor(startedAt, at)
<1>1. ASSUME NEW instant PROVE C!UkCalendarDay(instant) = UkCalendarDay(instant)
  BY DEF C!UkCalendarDay, UkCalendarDay, C!UtcDay, UtcDay
<1>2. ASSUME NEW day PROVE C!YearFloor(day) = YearFloor(day)
  BY Zenon DEF C!YearFloor, YearFloor
<1> QED BY <1>1, <1>2 DEF C!DeadlineFloor, DeadlineFloor

\* A deadline the backend moves goes to a day the floor of that moment admits,
\* whatever the form was checked against.
LEMMA DeadlineMoves ==
    ASSUME IInv, NEW r \in Tabs, Serve(r), "ok" \in Replies(form[r]),
           case' \in Taken(form[r]), part = "deadline"
    PROVE  C!MoveDeadline
<1> DEFINE moved == Extended(case.due, form[r].days)
<1>1. /\ case \in Cases /\ case.due \in Int /\ now \in 0..(2 * MaxDay + 1)
      /\ DeadlineChecked(form[r], case.startedAt)
  BY DEF IInv, TypeOK, Cases, Serve, CallsAreChecked, Checked
<1>2. case' = [case EXCEPT !.due = moved] /\ now' = now
  BY WhatIsTaken DEF Serve
<1>3. BackendTakesDeadline(case.due, case.startedAt, form[r].days, now)
  BY WhatIsTaken
<1>4. case.startedAt # NoClock /\ case.startedAt \in 0..(2 * MaxDay + 1)
  BY <1>1 DEF DeadlineChecked, IInv, ClockInCalendar
<1>5. form[r].days \in Int
  <2>1. /\ form[r].from \in Int /\ form[r].typed \in Int
        /\ form[r].days = AdditionalDays(form[r].typed, form[r].from)
    BY <1>1, CalendarAssumption DEF DeadlineChecked, Days
  <2> QED BY <2>1, Landed
<1>6. moved \in Int /\ (moved - case.due) % 2 = 0
  BY <1>1, <1>5 DEF Extended
<1>7. UkCalendarDay(moved) >= DeadlineFloor(case.startedAt, now)
  BY <1>3 DEF BackendTakesDeadline, DeadlineFloor
<1> HIDE DEF moved
<1>8. case'.due = moved /\ case' = [case EXCEPT !.due = case'.due]
  BY <1>1, <1>2 DEF Cases
<1>9. UkCalendarDay(case'.due) = C!UkCalendarDay(case'.due)
  BY DEF C!UkCalendarDay, UkCalendarDay, C!UtcDay, UtcDay
<1> QED BY <1>2, <1>4, <1>6, <1>7, <1>8, <1>9, SameFloor
        DEF C!MoveDeadline, C!NoClock, NoClock

\* A payment date the backend takes replaces another, of an open case.
LEMMA PaymentCorrected ==
    ASSUME IInv, NEW r \in Tabs, Serve(r), "ok" \in Replies(form[r]),
           case' \in Taken(form[r]), part = "payment"
    PROVE  C!CorrectPayment
<1>1. case \in Cases /\ PaymentChecked(form[r])
  BY DEF IInv, TypeOK, Cases, Serve, CallsAreChecked, Checked
<1>2. case' = [case EXCEPT !.payment = form[r].typed] /\ now' = now
  BY WhatIsTaken DEF Serve
<1>3. /\ CanChangePaymentDate /\ form[r].typed <= UtcDay(now)
      /\ \E floor \in BackendPaymentFloors(UtcDay(now)) : floor <= form[r].typed
  BY WhatIsTaken
<1>4. case'.payment = form[r].typed /\ case' = [case EXCEPT !.payment = case'.payment]
  BY <1>1, <1>2 DEF Cases
<1>5. C!UtcDay(now) = UtcDay(now) /\ C!Days = Days
      /\ C!BackendPaymentFloors(UtcDay(now)) = BackendPaymentFloors(UtcDay(now))
  BY DEF C!UtcDay, UtcDay, C!Days, Days, C!BackendPaymentFloors, BackendPaymentFloors
<1>6. UtcDay(now) \in Days /\ BackendPaymentFloors(UtcDay(now)) \subseteq Int
      /\ form[r].typed \in Int
  <2>1. UtcDay(now) \in Days
    BY CalendarAssumption DEF IInv, TypeOK, UtcDay, Days
  <2>2. YearBefore[UtcDay(now)] \in Int
    BY <2>1, YearBeforeAssumption
  <2> QED BY <1>1, <2>1, <2>2, CalendarAssumption
          DEF BackendPaymentFloors, PaymentChecked, Days
<1>7. \E floor \in C!BackendPaymentFloors(C!UtcDay(now)) : case'.payment >= floor
  BY <1>3, <1>4, <1>5, <1>6
<1> QED BY <1>1, <1>2, <1>3, <1>4, <1>5, <1>7
        DEF C!CorrectPayment, CanChangePaymentDate, PaymentChecked,
            C!NoPayment, NoPayment

\* The codes a site is given were checked against the material it has.
LEMMA CodesCorrected ==
    ASSUME IInv, NEW r \in Tabs, Serve(r), "ok" \in Replies(form[r]),
           case' \in Taken(form[r]), part = "codes"
    PROVE  C!CorrectCodes
<1>1. case \in Cases /\ CodesChecked(form[r], case.material)
  BY DEF IInv, TypeOK, Cases, Serve, CallsAreChecked, Checked
<1>2. PICK there \in {case.selected, TRUE} :
          case' = [case EXCEPT !.codes = form[r].typed, !.selected = there]
  BY WhatIsTaken
<1>3. now' = now
  BY DEF Serve
<1>4. /\ case'.codes = form[r].typed /\ case'.selected = there
      /\ case' = [case EXCEPT !.codes = case'.codes, !.selected = case'.selected]
  BY <1>1, <1>2 DEF Cases
<1>5. /\ form[r].typed \subseteq ApplicableCodes(case.material)
      /\ ~RequiresAccompanyingCode(form[r].typed) /\ form[r].typed # {}
      /\ form[r].typed \subseteq AllCodes
  BY <1>1, CodeSetsAssumption DEF CodesChecked, ValidateCodes
<1>6. form[r].typed \cap (AllCodes \ RequiringAccompaniment) # {}
  BY <1>5 DEF RequiresAccompanyingCode
<1>7. C!ApplicableCodes(case.material) = ApplicableCodes(case.material)
  BY DEF C!ApplicableCodes, ApplicableCodes, C!AllCodes, AllCodes,
         C!RequiringAccompaniment, RequiringAccompaniment
<1>8. case.selected => case'.selected
  BY <1>4
<1> QED BY <1>3, <1>4, <1>5, <1>6, <1>7, <1>8
        DEF C!CorrectCodes, C!AllCodes, AllCodes,
            C!RequiringAccompaniment, RequiringAccompaniment

\* Every step corrects the case as Corrections does, or leaves it alone.
LEMMA CorrectionsStep ==
    ASSUME IInv, [Next]_vars
    PROVE  [C!Next]_(C!vars)
<1>1. ASSUME NEW r \in Tabs, TabStep(r) PROVE [C!Next]_(C!vars)
  <2>1. CASE Serve(r)
    <3>1. CASE case' = case
      BY <2>1, <3>1 DEF Serve, C!vars
    <3>2. CASE "ok" \in Replies(form[r]) /\ case' \in Taken(form[r])
      <4>1. part \in {"deadline", "payment", "codes"}
        BY PartsAssumption DEF IInv, TypeOK
      <4> QED BY <2>1, <3>2, <4>1, DeadlineMoves, PaymentCorrected, CodesCorrected
              DEF C!Next
    <3> QED BY <2>1, <3>1, <3>2, Served
  <2>2. CASE ~Serve(r)
    BY <1>1, <2>2 DEF TabStep, Open, Leave, Submit, Answer, C!vars
  <2> QED BY <2>1, <2>2
<1>2. CASE Tick
  BY <1>2 DEF Tick, C!Next, C!Tick
<1>3. CASE CloseCase
  BY <1>3 DEF CloseCase, C!Next, C!Close
<1>4. CASE RemoveSite
  BY <1>4 DEF RemoveSite, C!Next, C!RemoveSite
<1>5. CASE UNCHANGED vars
  BY <1>5 DEF vars, C!vars
<1> QED BY <1>1, <1>2, <1>3, <1>4, <1>5 DEF Next

\* A case its forms begin with is one that corrections begin with.
LEMMA CorrectionsBegin == Init => C!Init
<1> SUFFICES ASSUME Init PROVE C!Init
  OBVIOUS
<1>1. /\ MaxDay \in Nat /\ Target \in Nat
      /\ Starts \subseteq 0..(2 * MaxDay + 1) /\ NoClock = -1 /\ NoPayment = -1
      /\ part \in {"deadline", "payment", "codes"} /\ now \in Nat
      /\ case \in CaseInit
  BY CalendarAssumption, StartsAssumption, PartsAssumption
     DEF Init, NoClock, NoPayment
<1>2. UtcDay(now) \in Nat
  BY <1>1 DEF UtcDay
<1> DEFINE Begins == /\ case.open /\ case.selected
                     /\ (case.due = NoClock) = (case.startedAt = NoClock)
                     /\ case.startedAt <= now
                     /\ case.payment <= UtcDay(now)
<1>3. Begins
  <2>1. CASE case = Submitted
    BY <1>1, <1>2, <2>1 DEF Submitted
  <2>2. CASE part = "deadline" /\ case # Submitted
    <3>1. PICK s \in Starts : case = Clocked(s) /\ s <= now
      BY <1>1, <2>2 DEF CaseInit
    <3>2. case = [open |-> TRUE, startedAt |-> s, due |-> Extended(s, Target),
                  payment |-> NoPayment, material |-> "none", codes |-> {},
                  selected |-> TRUE]
      BY <3>1 DEF Clocked, Submitted
    <3>3. s \in Nat /\ Extended(s, Target) \in Nat
      BY <1>1 DEF Extended
    <3> QED BY <1>1, <1>2, <3>1, <3>2, <3>3
  <2>3. CASE part = "payment" /\ case # Submitted
    <3>1. PICK d \in Days : case = Paid(d) /\ d <= UtcDay(now)
      BY <1>1, <2>3 DEF CaseInit
    <3>2. case = [open |-> TRUE, startedAt |-> NoClock, due |-> NoClock,
                  payment |-> d, material |-> "none", codes |-> {},
                  selected |-> TRUE]
      BY <3>1 DEF Paid, Submitted
    <3> QED BY <1>1, <3>1, <3>2
  <2>4. CASE part = "codes"
    <3>1. case \in {Recycling(m, s) : m \in Materials, s \in CodeSets}
      BY <1>1, <2>4 DEF CaseInit
    <3>2. PICK m \in Materials, s \in CodeSets : case = Recycling(m, s)
      BY <3>1
    <3>3. case = [open |-> TRUE, startedAt |-> NoClock, due |-> NoClock,
                  payment |-> NoPayment, material |-> m, codes |-> s,
                  selected |-> TRUE]
      BY <3>2 DEF Recycling, Submitted
    <3> QED BY <1>1, <1>2, <3>3
  <2> QED BY <1>1, <2>1, <2>2, <2>3, <2>4
<1> QED BY <1>3 DEF C!Init, C!NoClock, NoClock, C!UtcDay, UtcDay

\* However stale the pages the corrections are made on, they are made as if each
\* had been checked and made at once.
THEOREM CorrectedAtOnce == Spec => ImplementsCorrections
<1>1. IInv /\ [Next]_vars => [C!Next]_(C!vars)
  BY CorrectionsStep
<1> QED BY <1>1, CorrectionsBegin, EditsAreChecked, PTL
        DEF Spec, C!Spec, ImplementsCorrections
=============================================================================
