------------------------------- MODULE ValueOrder -------------------------------
(***************************************************************************)
(* How the values of a result are compared when it is filtered or sorted   *)
(* (core/src/result_view.rs): decimals by their digits, integers with      *)
(* reals, dates by a day number, times and timestamps by seconds and the   *)
(* digits of a fraction.  A comparison is -1, 0 or 1, or VoInvalid.        *)
(***************************************************************************)
EXTENDS Integers, Sequences, FiniteSets
LOCAL INSTANCE SequencesExt
LOCAL INSTANCE FiniteSetsExt

CONSTANTS
    VoCases,        \* the values that are compared: records [sort, lefts, rights]
    VoBits          \* the width of an integer (64)

VARIABLES voCase, voAnswer

voVars == <<voCase, voAnswer>>

VoInvalid == 2
VoPending == 3
Sign(n) == IF n < 0 THEN -1 ELSE IF n > 0 THEN 1 ELSE 0
\* Ordering::then_with: the second decides where the first is equal.
Then(first, second) == IF first # 0 THEN first ELSE second
Reversed(negative, order) == IF negative THEN -order ELSE order

-----------------------------------------------------------------------------
(* Digits. *)

Digit(digits, i) == IF i <= Len(digits) THEN digits[i] ELSE 0
\* The first position where two sequences of digits differ decides; the shorter is filled with zeros.
CompareDigits(left, right) ==
    LET differ == {i \in 1 .. Max({Len(left), Len(right)}) : Digit(left, i) # Digit(right, i)} IN
    IF differ = {} THEN 0 ELSE Sign(Digit(left, Min(differ)) - Digit(right, Min(differ)))

Zeros(digits) == \A i \in DOMAIN digits : digits[i] = 0
Leading(digits) == IF Zeros(digits) THEN Len(digits) ELSE Min({i \in DOMAIN digits : digits[i] # 0}) - 1
Untrailed(digits) ==
    IF Zeros(digits) THEN <<>> ELSE SubSeq(digits, 1, Max({i \in DOMAIN digits : digits[i] # 0}))

\* A decimal is [negative, whole, fraction, exponent] with whole and fraction of digits.
Parse(decimal) ==
    LET all == decimal.whole \o decimal.fraction
        digits == Untrailed(SubSeq(all, Leading(all) + 1, Len(all)))
    IN  [negative |-> decimal.negative /\ digits # <<>>, digits |-> digits,
         point |-> IF digits = <<>> THEN 0 ELSE Len(decimal.whole) + decimal.exponent - Leading(all)]

CompareDecimals(left, right) ==
    LET a == Parse(left)  b == Parse(right) IN
    IF left.whole \o left.fraction = <<>> \/ right.whole \o right.fraction = <<>> THEN VoInvalid
    ELSE IF a.negative # b.negative THEN Reversed(a.negative, 1)
    ELSE Reversed(a.negative, Then(Sign(a.point - b.point), CompareDigits(a.digits, b.digits)))

\* An integer with a real in halves.
Truncated(halves) == IF halves < 0 THEN -((-halves) \div 2) ELSE halves \div 2
CompareReal(integer, halves) ==
    IF halves >= 2 * 2 ^ (VoBits - 1) THEN -1
    ELSE IF halves < -2 * 2 ^ (VoBits - 1) THEN 1
    ELSE Then(Sign(integer - Truncated(halves)), -Sign(halves - 2 * Truncated(halves)))

-----------------------------------------------------------------------------
(* Dates and times. *)

Leap(year) == year % 4 = 0 /\ (year % 100 # 0 \/ year % 400 = 0)
DaysIn(year, month) ==
    CASE month \in {1, 3, 5, 7, 8, 10, 12} -> 31
      [] month \in {4, 6, 9, 11} -> 30
      [] month = 2 -> IF Leap(year) THEN 29 ELSE 28
      [] OTHER -> 0
ValidDate(date) == date.day \in 1 .. DaysIn(date.year, date.month)

\* As it would be if January and February did not count with the year before.
DayNumberByYear(date) ==
    LET year == date.year
        era == year \div 400
        ofEra == year - era * 400
        month == date.month + (IF date.month > 2 THEN -3 ELSE 9)
        ofYear == (153 * month + 2) \div 5 + date.day - 1
    IN  era * 146097 + ofEra * 365 + ofEra \div 4 - ofEra \div 100 + ofYear - 719468

\* Days since 1970-01-01, in years that begin with March and eras of 400 of them.
DayNumber(date) ==
    LET year == date.year - (IF date.month <= 2 THEN 1 ELSE 0)
        era == year \div 400
        ofEra == year - era * 400
        month == date.month + (IF date.month > 2 THEN -3 ELSE 9)
        ofYear == (153 * month + 2) \div 5 + date.day - 1
    IN  era * 146097 + ofEra * 365 + ofEra \div 4 - ofEra \div 100 + ofYear - 719468

CompareDates(left, right) ==
    IF ValidDate(left) /\ ValidDate(right) THEN Sign(DayNumber(left) - DayNumber(right)) ELSE VoInvalid

\* A time is [negative, hours, minutes, seconds, fraction]; one of zero length has no sign.
Seconds(time) == time.hours * 3600 + time.minutes * 60 + time.seconds
Negative(time) == time.negative /\ ~(Seconds(time) = 0 /\ Untrailed(time.fraction) = <<>>)
ValidTime(time, duration) ==
    time.minutes <= 59 /\ time.seconds <= 59 /\ (duration \/ (time.hours <= 23 /\ ~time.negative))

CompareTimes(left, right) ==
    IF ~ValidTime(left, TRUE) \/ ~ValidTime(right, TRUE) THEN VoInvalid
    ELSE IF Negative(left) # Negative(right) THEN Reversed(Negative(left), 1)
    ELSE Reversed(Negative(left),
            Then(Sign(Seconds(left) - Seconds(right)), CompareDigits(left.fraction, right.fraction)))

\* A timestamp is [date, time, aware, offset], the offset in minutes.
Instant(stamp) == DayNumber(stamp.date) * 86400 + Seconds(stamp.time) - (IF stamp.aware THEN stamp.offset * 60 ELSE 0)
ValidStamp(stamp) == ValidDate(stamp.date) /\ ValidTime(stamp.time, FALSE)
CompareStamps(left, right) ==
    IF ~ValidStamp(left) \/ ~ValidStamp(right) \/ left.aware # right.aware THEN VoInvalid
    ELSE Then(Sign(Instant(left) - Instant(right)), CompareDigits(left.time.fraction, right.time.fraction))

Compare(case) ==
    CASE case.sort = "decimal" -> CompareDecimals(case.left, case.right)
      [] case.sort = "real" -> CompareReal(case.left, case.right)
      [] case.sort = "date" -> CompareDates(case.left, case.right)
      [] case.sort = "time" -> CompareTimes(case.left, case.right)
      [] case.sort = "timestamp" -> CompareStamps(case.left, case.right)

VoInit ==
    /\ \E c \in VoCases : \E left \in c.lefts, right \in c.rights :
            voCase = [sort |-> c.sort, left |-> left, right |-> right]
    /\ voAnswer = VoPending

VoCompare == voAnswer = VoPending /\ voAnswer' = Compare(voCase) /\ UNCHANGED voCase
VoNext == VoCompare
VoSpec == VoInit /\ [][VoNext]_voVars

-----------------------------------------------------------------------------
(* The numbers that values stand for. *)

Natural(digits) == FoldLeft(LAMBDA n, digit : 10 * n + digit, 0, digits)
\* In units of a power of ten below every last digit of the cases.
Scaled(decimal) ==
    Natural(decimal.whole \o decimal.fraction) * 10 ^ (4 + decimal.exponent - Len(decimal.fraction))
    * (IF decimal.negative THEN -1 ELSE 1)
\* The days of the calendar from the first one of 1600.
Ordinal(date) ==
    365 * (date.year - 1600) + Cardinality({y \in 1600 .. date.year - 1 : Leap(y)})
    + MapThenSumSet(LAMBDA m : DaysIn(date.year, m), 1 .. date.month - 1) + date.day - 1
Fraction(digits) == Natural(digits) * 10 ^ (2 - Len(digits))
Length(time) == (Seconds(time) * 100 + Fraction(time.fraction)) * (IF time.negative THEN -1 ELSE 1)
OrderOfStamps(left, right) ==
    LET days == Ordinal(left.date) - Ordinal(right.date)
        minutes(s) == IF s.aware THEN s.offset ELSE 0
        seconds == Seconds(left.time) - Seconds(right.time) - 60 * (minutes(left) - minutes(right))
    IN  Sign((days * 86400 + seconds) * 100 + Fraction(left.time.fraction) - Fraction(right.time.fraction))
Digitless(decimal) == decimal.whole \o decimal.fraction = <<>>

\* decimal_cmp gives zero the point of 0.1, and so takes it for more than any value from 0 to 0.1.
ZeroBesideSmall(left, right) ==
    \E zero, small \in {left, right} : Zeros(zero.whole \o zero.fraction) /\ ~Parse(small).negative /\ Parse(small).point < 0

\* Values are ordered as the numbers, days and instants they stand for, and what is none of them is
\* refused (cmp, parse_date, parse_time, parse_timestamp, decimal_cmp); but for one known defect.
VoOrdersTruly ==
    voAnswer # VoPending /\ (voCase.sort = "decimal" => ~ZeroBesideSmall(voCase.left, voCase.right)) =>
        LET left == voCase.left  right == voCase.right IN
        voAnswer =
            CASE voCase.sort = "decimal" ->
                    IF Digitless(left) \/ Digitless(right) THEN VoInvalid ELSE Sign(Scaled(left) - Scaled(right))
              [] voCase.sort = "real" -> Sign(2 * left - right)
              [] voCase.sort = "date" ->
                    IF ValidDate(left) /\ ValidDate(right) THEN Sign(Ordinal(left) - Ordinal(right)) ELSE VoInvalid
              [] voCase.sort = "time" -> Sign(Length(left) - Length(right))
              [] voCase.sort = "timestamp" ->
                    IF left.aware # right.aware THEN VoInvalid ELSE OrderOfStamps(left, right)

VoTypeOK == voAnswer \in -1 .. VoPending
=============================================================================
