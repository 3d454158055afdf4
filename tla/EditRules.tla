------------------------------ MODULE EditRules ------------------------------
(***************************************************************************)
(* The rules of the three forms that correct a case under assessment: the  *)
(* determination deadline (routes/work-items/sla.service.js), the payment  *)
(* date (duly-making/payment-date.js, change-payment-date/) and the        *)
(* recycling operation codes of an overseas site                           *)
(* (recycling-operations.schema.js).                                       *)
(*                                                                         *)
(* Days are counted from a first of January. An instant is 2d in the first *)
(* twenty-three hours of day d in UTC and 2d + 1 in the last one, which in *)
(* the summer is already the next day in London.                           *)
(***************************************************************************)
EXTENDS Integers

CONSTANTS
    MaxDay,         \* bounds the days of the calendar
    SummerDays,     \* the days whose last hour is in British Summer Time
    NewYears,       \* the firsts of January
    YearBefore,     \* the day MAX_AGE_MONTHS before each, as setUTCMonth has it
    Blank, Unreal   \* boxes left empty, and boxes that hold no real date

ASSUME CalendarAssumption ==
    /\ MaxDay \in Nat
    /\ SummerDays \subseteq 0..MaxDay
    /\ NewYears \subseteq 0..MaxDay
    /\ 0 \in NewYears
    /\ Blank \notin Int /\ Unreal \notin Int /\ Blank # Unreal

Days == 0..MaxDay

\* The 29th of February has no day a year before it: setUTCMonth rolls it on to
\* the first of March, which the day after it has as well.
ASSUME YearBeforeAssumption == YearBefore \in [Days -> Int]

\* Every day is in a year, which began on the latest first of January.
ASSUME YearsAssumption ==
    \A day \in 0..(MaxDay + 1) : \E n \in NewYears :
        n <= day /\ \A m \in NewYears : m <= day => m <= n

UtcDay(instant) == instant \div 2

AtMidnight(day) == 2 * day

UkCalendarDay(instant) ==
    IF instant % 2 = 1 /\ UtcDay(instant) \in SummerDays
      THEN UtcDay(instant) + 1
      ELSE UtcDay(instant)

-----------------------------------------------------------------------------
(* The determination deadline. NoClock stands for a case whose SLA clock   *)
(* has not started.                                                        *)

NoClock == -1

\* The first of January of the year a day is in.
YearFloor(day) ==
    CHOOSE n \in NewYears : n <= day /\ \A m \in NewYears : m <= day => m <= n

\* Faulty variant of DeadlineFloor, used by no specification: the earlier bound.
EarlierFloor(startedAt, now) ==
    LET dulyMade == UkCalendarDay(startedAt)
        year == YearFloor(UkCalendarDay(now))
    IN  IF year >= dulyMade THEN dulyMade ELSE year

\* The later of the date the case was duly made and the first of January. The
\* refusal names the one that won.
DeadlineFloor(startedAt, now) ==
    LET dulyMade == UkCalendarDay(startedAt)
        year == YearFloor(UkCalendarDay(now))
    IN  IF year >= dulyMade THEN year ELSE dulyMade

\* Faulty variant of ValidateDeadline, used by no specification: the day before
\* the earliest allowed passes.
LaxValidateDeadline(typed, due, startedAt, now) ==
    IF typed = Blank THEN "required"
    ELSE IF typed = Unreal THEN "unreal"
    ELSE IF due = NoClock THEN "no clock"
    ELSE IF typed < DeadlineFloor(startedAt, now) - 1 THEN "below the floor"
    ELSE IF typed = UtcDay(due) THEN "same"
    ELSE "ok"

\* Faulty variant of ValidateDeadline, used by no specification: no answer of its
\* own for a case whose clock has not started.
ClocklessValidateDeadline(typed, due, startedAt, now) ==
    IF typed = Blank THEN "required"
    ELSE IF typed = Unreal THEN "unreal"
    ELSE IF typed < DeadlineFloor(startedAt, now) THEN "below the floor"
    ELSE IF typed = UtcDay(due) THEN "same"
    ELSE "ok"

ValidateDeadline(typed, due, startedAt, now) ==
    IF typed = Blank THEN "required"
    ELSE IF typed = Unreal THEN "unreal"
    ELSE IF due = NoClock THEN "no clock"
    ELSE IF typed < DeadlineFloor(startedAt, now) THEN "below the floor"
    ELSE IF typed = UtcDay(due) THEN "same"
    ELSE "ok"

\* Faulty variant of AdditionalDays, used by no specification: the sign of a
\* backward move is lost.
UnsignedAdditionalDays(typed, due) ==
    IF typed < UtcDay(due) THEN UtcDay(due) - typed ELSE typed - UtcDay(due)

\* The duration sent in place of the date, signed.
AdditionalDays(typed, due) == typed - UtcDay(due)

Extended(due, days) == due + 2 * days

\* External: management-be moves the due date by the days it is sent, and
\* floors what comes out on its London date, by both bounds.
BackendTakesDeadline(due, startedAt, days, now) ==
    /\ UkCalendarDay(Extended(due, days)) >= UkCalendarDay(startedAt)
    /\ UkCalendarDay(Extended(due, days)) >= YearFloor(UkCalendarDay(now))

-----------------------------------------------------------------------------
(* The payment date, with UTC's today on both sides of the wire. NoPayment *)
(* stands for a case that has none yet.                                    *)

NoPayment == -1

ValidatePayment(typed, now) ==
    IF typed = Blank THEN "required"
    ELSE IF typed = Unreal THEN "invalid"
    ELSE IF typed > UtcDay(now) THEN "in future"
    ELSE IF typed < YearBefore[UtcDay(now)] THEN "too old"
    ELSE "ok"

\* External: the backend's floor is twelve months back as well. Nothing here says
\* where it puts the floor of a day that has no day a year before it: on the
\* first of March, or on the last of February.
BackendPaymentFloors(today) ==
    IF today + 1 \in Days /\ YearBefore[today + 1] = YearBefore[today]
      THEN {YearBefore[today] - 1, YearBefore[today]}
      ELSE {YearBefore[today]}

-----------------------------------------------------------------------------
(* The recycling operation codes of a site.                                *)

AllCodes == {"R3", "R4", "R5", "R12", "R13"}

RequiringAccompaniment == {"R12", "R13"}

ApplicableCodes(material) ==
    CASE material \in {"aluminium", "steel"} -> {"R4"} \cup RequiringAccompaniment
      [] material = "fibre" -> {"R3", "R5"} \cup RequiringAccompaniment
      [] material = "glass" -> {"R5"} \cup RequiringAccompaniment
      [] material \in {"paper", "plastic", "wood"} -> {"R3"} \cup RequiringAccompaniment
      [] OTHER -> AllCodes

RequiresAccompanyingCode(codes) ==
    codes \cap RequiringAccompaniment # {} /\ codes \subseteq RequiringAccompaniment

\* Faulty variant of ValidateCodes, used by no specification: an accompanying
\* code may stand alone.
LaxValidateCodes(codes, material) ==
    IF codes = {} \/ ~(codes \subseteq ApplicableCodes(material))
      THEN "select one"
      ELSE "ok"

ValidateCodes(codes, material) ==
    IF codes = {} \/ ~(codes \subseteq ApplicableCodes(material)) THEN "select one"
    ELSE IF RequiresAccompanyingCode(codes) THEN "accompany"
    ELSE "ok"
=============================================================================
