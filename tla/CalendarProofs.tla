--------------------------- MODULE CalendarProofs ---------------------------
(***************************************************************************)
(* time.rs, for every date of the calendar and every timestamp: the closed *)
(* formula of days_from_civil advances by one from each day to the next,   *)
(* so that it counts days as the calendar does, in every year; and what    *)
(* parse_xsd_datetime returns shows the fields it was given.               *)
(*                                                                         *)
(* The formula counts from the first of March, with January and February   *)
(* in the year before.  Its day number is the days of the years before     *)
(* that one, and the days since its first.                                 *)
(***************************************************************************)
EXTENDS XsdTime, TLAPS

(* Days of the years before the year s, which starts in March. *)
YearStart(s) == 365 * s + s \div 4 - s \div 100 + s \div 400

(* The year, counted from March, that a month belongs to, and the days of   *)
(* that year before it.                                                     *)
Shifted(year, month) == IF month <= 2 THEN year - 1 ELSE year
MonthStart(month) == (153 * (IF month > 2 THEN month - 3 ELSE month + 9) + 2) \div 5

(* The days before the epoch: those before the first of January of 1970. *)
Epoch == 719468

(* A year's era of 400 years, and its number in it. *)
EraOf(s) == s \div 400
YearOfEra(s) == s - EraOf(s) * 400

-----------------------------------------------------------------------------
(* The era is the floor of the quotient, also of a negative year. *)
LEMMA Era ==
  ASSUME NEW s \in Int
  PROVE  TruncDiv(IF s >= 0 THEN s ELSE s - 399, 400) = EraOf(s)
<1>1. CASE s >= 0
  BY <1>1 DEF TruncDiv, EraOf
<1>2. CASE s < 0
  BY <1>2 DEF TruncDiv, EraOf
<1> QED BY <1>1, <1>2

(* Quarters and centuries of an era add up to those of all years. *)
LEMMA EraSums ==
  ASSUME NEW s \in Int
  PROVE  /\ EraOf(s) \in Int /\ YearOfEra(s) \in 0 .. 399
         /\ EraOf(s) * 146097 + YearOfEra(s) * 365
              + YearOfEra(s) \div 4 - YearOfEra(s) \div 100 = YearStart(s)
<1> DEFINE era == EraOf(s)
           yoe == YearOfEra(s)
<1>1. era \in Int /\ yoe \in 0 .. 399 /\ s = 400 * era + yoe
  BY DEF EraOf, YearOfEra
<1>2. s \div 400 = era
  BY DEF EraOf
<1> HIDE DEF era, yoe
<1>3. s \div 4 = 100 * era + yoe \div 4
  BY <1>1
<1>4. s \div 100 = 4 * era + yoe \div 100
  BY <1>1
<1>5. era * 146097 + yoe * 365 + yoe \div 4 - yoe \div 100 = YearStart(s)
  BY <1>1, <1>2, <1>3, <1>4 DEF YearStart
<1> QED BY <1>1, <1>5 DEF era, yoe

(* The closed formula, without eras. *)
LEMMA ClosedFormula ==
  ASSUME NEW year \in Int, NEW month \in 1 .. 12, NEW day \in Int
  PROVE  days_from_civil(year, month, day) =
           YearStart(Shifted(year, month)) + MonthStart(month) + day - 1 - Epoch
<1> DEFINE s == Shifted(year, month)
           era == EraOf(s)
           yoe == YearOfEra(s)
<1>1. s \in Int
  BY DEF Shifted
<1>2. /\ yoe \in 0 .. 399 /\ era \in Int
      /\ era * 146097 + yoe * 365 + yoe \div 4 - yoe \div 100 = YearStart(s)
  BY <1>1, EraSums
<1>3. TruncDiv(IF s >= 0 THEN s ELSE s - 399, 400) = era
  BY <1>1, Era
<1>4. /\ TruncDiv(yoe, 4) = yoe \div 4 /\ TruncDiv(yoe, 100) = yoe \div 100
  BY <1>2 DEF TruncDiv
<1>5. TruncDiv(153 * (IF month > 2 THEN month - 3 ELSE month + 9) + 2, 5)
        = MonthStart(month)
  BY DEF TruncDiv, MonthStart
<1>6. days_from_civil(year, month, day) =
        LET e == TruncDiv(IF s >= 0 THEN s ELSE s - 399, 400)
            o == s - e * 400
            doe == o * 365 + TruncDiv(o, 4) - TruncDiv(o, 100)
              + (TruncDiv(153 * (IF month > 2 THEN month - 3 ELSE month + 9) + 2, 5)
                   + day - 1)
        IN  e * 146097 + doe - 719468
  BY DEF days_from_civil, Shifted
<1>7. days_from_civil(year, month, day) =
        era * 146097
          + (yoe * 365 + yoe \div 4 - yoe \div 100 + (MonthStart(month) + day - 1))
          - 719468
  BY <1>3, <1>4, <1>5, <1>6 DEF YearOfEra
<1>8. MonthStart(month) \in Int
  BY DEF MonthStart
<1> HIDE DEF s, era, yoe
<1> QED BY <1>2, <1>7, <1>8, SMT DEF s, Epoch

-----------------------------------------------------------------------------
(* The years that start in March differ by a leap day where the calendar    *)
(* has one.                                                                 *)
LEMMA LeapYears ==
  ASSUME NEW year \in Int
  PROVE  YearStart(year) = YearStart(year - 1) + IF Leap(year) THEN 366 ELSE 365
<1>1. year \div 4 = (year - 1) \div 4 + IF year % 4 = 0 THEN 1 ELSE 0
  OBVIOUS
<1>2. year \div 100 = (year - 1) \div 100 + IF year % 100 = 0 THEN 1 ELSE 0
  OBVIOUS
<1>3. year \div 400 = (year - 1) \div 400 + IF year % 400 = 0 THEN 1 ELSE 0
  OBVIOUS
<1>4. /\ year % 100 = 0 => year % 4 = 0
      /\ year % 400 = 0 => year % 100 = 0
  OBVIOUS
<1>5. YearStart(year) - YearStart(year - 1) =
        365 + (year \div 4 - (year - 1) \div 4)
            - (year \div 100 - (year - 1) \div 100)
            + (year \div 400 - (year - 1) \div 400)
  BY DEF YearStart
<1> QED BY <1>1, <1>2, <1>3, <1>4, <1>5 DEF YearStart, Leap

(* The first of a month is the day after the last of the month before. *)
LEMMA NextMonth ==
  ASSUME NEW year \in Int, NEW month \in 1 .. 11
  PROVE  days_from_civil(year, month + 1, 1) =
           days_from_civil(year, month, MonthLength(year, month)) + 1
<1>1. /\ MonthLength(year, month) \in Int /\ YearStart(year) \in Int
      /\ YearStart(year - 1) \in Int /\ Epoch \in Int
  BY SMT DEF MonthLength, YearStart, Epoch
<1>2. /\ days_from_civil(year, month + 1, 1) =
           YearStart(Shifted(year, month + 1)) + MonthStart(month + 1) + 1 - 1 - Epoch
      /\ days_from_civil(year, month, MonthLength(year, month)) =
           YearStart(Shifted(year, month)) + MonthStart(month)
             + MonthLength(year, month) - 1 - Epoch
  <2>1. month \in 1 .. 12 /\ month + 1 \in 1 .. 12
    OBVIOUS
  <2>2. days_from_civil(year, month + 1, 1) =
          YearStart(Shifted(year, month + 1)) + MonthStart(month + 1) + 1 - 1 - Epoch
    BY <2>1, ClosedFormula
  <2>3. days_from_civil(year, month, MonthLength(year, month)) =
          YearStart(Shifted(year, month)) + MonthStart(month)
            + MonthLength(year, month) - 1 - Epoch
    BY <1>1, <2>1, ClosedFormula
  <2> QED BY <2>2, <2>3
<1>3. CASE month = 2
  <2>1. Shifted(year, 3) = year /\ Shifted(year, 2) = year - 1
    BY DEF Shifted
  <2>2. MonthStart(3) = 0 /\ MonthStart(2) = 337
    BY DEF MonthStart
  <2>3. MonthLength(year, 2) = IF Leap(year) THEN 29 ELSE 28
    BY DEF MonthLength
  <2> QED BY <1>1, <1>2, <1>3, <2>1, <2>2, <2>3, LeapYears
<1>4. CASE month # 2
  <2>1. Shifted(year, month + 1) = Shifted(year, month)
        /\ Shifted(year, month) \in {year, year - 1}
    BY <1>4 DEF Shifted
  <2>2. MonthStart(month + 1) = MonthStart(month) + MonthLength(year, month)
    BY <1>4 DEF MonthStart, MonthLength
  <2>3. MonthStart(month) \in Int
    BY DEF MonthStart
  <2> QED BY <1>1, <1>2, <2>1, <2>2, <2>3
<1> QED BY <1>3, <1>4

LEMMA NextYear ==
  ASSUME NEW year \in Int
  PROVE  days_from_civil(year + 1, 1, 1) = days_from_civil(year, 12, 31) + 1
<1>1. Shifted(year + 1, 1) = year /\ Shifted(year, 12) = year
  BY DEF Shifted
<1>2. MonthStart(1) = 306 /\ MonthStart(12) = 275
  BY DEF MonthStart
<1>3. YearStart(year) \in Int /\ Epoch \in Int
  BY SMT DEF YearStart, Epoch
<1> QED BY <1>1, <1>2, <1>3, ClosedFormula

(* Within a month, and past it, days are counted on. *)
LEMMA DaysOfMonth ==
  ASSUME NEW year \in Int, NEW month \in 1 .. 12, NEW day \in Int, NEW other \in Int
  PROVE  /\ days_from_civil(year, month, day) \in Int
         /\ days_from_civil(year, month, other) =
              days_from_civil(year, month, day) + other - day
<1>1. MonthStart(month) \in Int /\ YearStart(Shifted(year, month)) \in Int
  BY DEF MonthStart, YearStart, Shifted
<1>2. Epoch \in Int
  BY SMT DEF Epoch
<1>3. \A t \in Int : days_from_civil(year, month, t) =
        YearStart(Shifted(year, month)) + MonthStart(month) + t - 1 - Epoch
  BY ClosedFormula
<1> QED BY <1>1, <1>2, <1>3

-----------------------------------------------------------------------------
(* The known dates have the formula's numbers. *)
OriginsAgree == \A o \in Origins : days_from_civil(o[1], o[2], o[3]) = o[4]

IInv == TypeOK /\ FormulaCountsDays

LEMMA MonthLengths ==
  ASSUME NEW year \in Int, NEW month \in 1 .. 12
  PROVE  MonthLength(year, month) \in 28 .. 31 /\ MonthLength(year, 12) = 31
BY DEF MonthLength

LEMMA TomorrowCounts == IInv /\ Tomorrow => IInv'
<1> SUFFICES ASSUME IInv, Tomorrow PROVE IInv'
  OBVIOUS
<1> USE DEF IInv, TypeOK, IsPage, FormulaCountsDays
<1>1. n' = n + 1 /\ n \in Int /\ days_from_civil(y, m, d) = n
      /\ y \in Int /\ m \in 1 .. 12 /\ d \in 1 .. MonthLength(y, m)
      /\ MonthLength(y, m) \in 28 .. 31
  BY MonthLengths DEF Tomorrow
<1>2. CASE d < MonthLength(y, m) /\ d' = d + 1 /\ UNCHANGED <<y, m>>
  <2>1. d \in Int /\ d + 1 \in Int /\ y \in Int /\ m \in 1 .. 12
    BY <1>1
  <2>2. days_from_civil(y, m, d + 1) = days_from_civil(y, m, d) + (d + 1) - d
    BY ONLY <2>1, DaysOfMonth
  <2> QED BY <1>1, <1>2, <2>2
<1>3. CASE d = MonthLength(y, m) /\ m < 12 /\ y' = y /\ m' = m + 1 /\ d' = 1
  <2>1. m \in 1 .. 11 /\ m + 1 \in 1 .. 12
    BY <1>1, <1>3
  <2>2. days_from_civil(y, m + 1, 1) = n + 1 /\ MonthLength(y, m + 1) \in 28 .. 31
    BY <1>1, <1>3, <2>1, NextMonth, MonthLengths
  <2> QED BY <1>1, <1>3, <2>1, <2>2
<1>4. CASE d = MonthLength(y, m) /\ m = 12 /\ y' = y + 1 /\ m' = 1 /\ d' = 1
  <2>1. days_from_civil(y + 1, 1, 1) = n + 1 /\ MonthLength(y + 1, 1) \in 28 .. 31
    BY <1>1, <1>4, NextYear, MonthLengths
  <2> QED BY <1>1, <1>4, <2>1
<1> QED BY <1>2, <1>3, <1>4 DEF Tomorrow

LEMMA YesterdayCounts == IInv /\ Yesterday => IInv'
<1> SUFFICES ASSUME IInv, Yesterday PROVE IInv'
  OBVIOUS
<1> USE DEF IInv, TypeOK, IsPage, FormulaCountsDays
<1>1. n' = n - 1 /\ n \in Int /\ days_from_civil(y, m, d) = n
      /\ y \in Int /\ m \in 1 .. 12 /\ d \in 1 .. MonthLength(y, m)
      /\ MonthLength(y, m) \in 28 .. 31
  BY MonthLengths DEF Yesterday
<1>2. CASE d > 1 /\ d' = d - 1 /\ UNCHANGED <<y, m>>
  <2>1. d \in Int /\ d - 1 \in Int /\ y \in Int /\ m \in 1 .. 12
    BY <1>1
  <2>2. days_from_civil(y, m, d - 1) = days_from_civil(y, m, d) + (d - 1) - d
    BY ONLY <2>1, DaysOfMonth
  <2> QED BY <1>1, <1>2, <2>2
<1>3. CASE d = 1 /\ m > 1 /\ y' = y /\ m' = m - 1 /\ d' = MonthLength(y, m - 1)
  <2>1. m - 1 \in 1 .. 11 /\ (m - 1) + 1 = m
    BY <1>1, <1>3
  <2>2. MonthLength(y, m - 1) \in 28 .. 31
    BY <1>1, <2>1, MonthLengths
  <2>3. n = days_from_civil(y, m - 1, MonthLength(y, m - 1)) + 1
    BY <1>1, <1>3, <2>1, NextMonth
  <2>4. days_from_civil(y, m - 1, MonthLength(y, m - 1)) \in Int
    <3>1. MonthLength(y, m - 1) \in Int /\ m - 1 \in 1 .. 12
      BY <1>1, <2>1, <2>2
    <3> QED BY <1>1, <3>1, DaysOfMonth
  <2> QED BY <1>1, <1>3, <2>1, <2>2, <2>3, <2>4
<1>4. CASE d = 1 /\ m = 1 /\ y' = y - 1 /\ m' = 12 /\ d' = 31
  <2>1. y - 1 \in Int /\ (y - 1) + 1 = y /\ MonthLength(y - 1, 12) = 31
    BY <1>1, MonthLengths
  <2>2. n = days_from_civil(y - 1, 12, 31) + 1
    BY <1>1, <1>4, <2>1, NextYear
  <2>3. days_from_civil(y - 1, 12, 31) \in Int
    BY <1>1, DaysOfMonth
  <2> QED BY <1>1, <1>4, <2>1, <2>2, <2>3
<1> QED BY <1>2, <1>3, <1>4 DEF Yesterday

(* From dates it numbers right, the formula numbers every day of every year *)
(* as the calendar counts them, leap years and years below 0 included.      *)
THEOREM FormulaIsExact ==
  ASSUME OriginsAgree
  PROVE  Spec => [](TypeOK /\ FormulaCountsDays)
<1>1. Init => IInv
  BY CalendarAssumption
     DEF OriginsAgree, Init, IInv, TypeOK, IsPage, FormulaCountsDays
<1>2. IInv /\ [Next]_vars => IInv'
  <2>1. IInv /\ UNCHANGED vars => IInv'
    BY DEF IInv, TypeOK, IsPage, FormulaCountsDays, vars
  <2> QED BY <2>1, TomorrowCounts, YesterdayCounts DEF Next
<1>3. IInv => TypeOK /\ FormulaCountsDays
  BY DEF IInv
<1> QED BY <1>1, <1>2, <1>3, PTL DEF Spec

(* The epoch is such a date. *)
LEMMA EpochAgrees ==
  ASSUME Origins = {<<1970, 1, 1, 0>>}
  PROVE  OriginsAgree
<1>1. Shifted(1970, 1) = 1969 /\ MonthStart(1) = 306 /\ YearStart(1969) = 719162
  BY SMT DEF Shifted, MonthStart, YearStart
<1>2. days_from_civil(1970, 1, 1) = 719162 + 306 + 1 - 1 - 719468
  BY <1>1, ClosedFormula, SMT DEF Epoch
<1>3. days_from_civil(1970, 1, 1) = 0
  BY <1>2, SMT
<1> QED BY <1>3, SMT DEF OriginsAgree

-----------------------------------------------------------------------------
(* The last digit of a number, and the others. *)
LEMMA LastDigit ==
  ASSUME NEW q \in Nat, NEW g \in 0 .. 9
  PROVE  (10 * q + g) \div 10 = q /\ (10 * q + g) % 10 = g
OBVIOUS

(* The number that six digits make. *)
Decimal(p) ==
  100000 * p[1] + 10000 * p[2] + 1000 * p[3] + 100 * p[4] + 10 * p[5] + p[6]

(* It is below a million. *)
LEMMA SixDigitNumber ==
  ASSUME NEW p \in [1 .. 6 -> 0 .. 9]
  PROVE  Decimal(p) \in 0 .. SecondMicros - 1
<1> DEFINE a == p[1]
           b == p[2]
           c == p[3]
           e == p[4]
           f == p[5]
           g == p[6]
           v == Decimal(p)
<1>1. /\ a \in 0 .. 9 /\ b \in 0 .. 9 /\ c \in 0 .. 9
      /\ e \in 0 .. 9 /\ f \in 0 .. 9 /\ g \in 0 .. 9
  OBVIOUS
<1>2. v = 100000 * a + 10000 * b + 1000 * c + 100 * e + 10 * f + g
  BY SMT DEF Decimal
<1>3. SecondMicros = 1000000
  BY SMT DEF SecondMicros
<1> HIDE DEF a, b, c, e, f, g, v
<1>4. v \in Int /\ 0 <= v /\ v < SecondMicros /\ SecondMicros \in Int
  BY <1>1, <1>2, <1>3, SMT
<1>5. v \in 0 .. SecondMicros - 1
  BY <1>4
<1> QED BY <1>5 DEF v

(* Its digits are read back by dividing. *)
LEMMA SixDigits ==
  ASSUME NEW p \in [1 .. 6 -> 0 .. 9], NEW i \in 1 .. 6
  PROVE  (Decimal(p) \div Place[i]) % 10 = p[i]
<1> DEFINE a == p[1]
           b == p[2]
           c == p[3]
           e == p[4]
           f == p[5]
           g == p[6]
           v == Decimal(p)
           q5 == 10 * a + b
           q4 == 10 * q5 + c
           q3 == 10 * q4 + e
           q2 == 10 * q3 + f
<1>1. /\ a \in 0 .. 9 /\ b \in 0 .. 9 /\ c \in 0 .. 9
      /\ e \in 0 .. 9 /\ f \in 0 .. 9 /\ g \in 0 .. 9
  OBVIOUS
<1>2. v = 100000 * a + 10000 * b + 1000 * c + 100 * e + 10 * f + g
  BY SMT DEF Decimal
<1>3. /\ Place[1] = 100000 /\ Place[2] = 10000 /\ Place[3] = 1000
      /\ Place[4] = 100 /\ Place[5] = 10 /\ Place[6] = 1
  BY SMT DEF Place
<1> HIDE DEF a, b, c, e, f, g, v
<1>4. q5 \in Nat /\ q4 \in Nat /\ q3 \in Nat /\ q2 \in Nat
  BY <1>1, SMT
<1>5. v \div 100000 = a
  <2> DEFINE r == 10000 * b + 1000 * c + 100 * e + 10 * f + g
  <2>1. v = 100000 * a + r
    BY <1>1, <1>2, SMT
  <2>2. r \in Int /\ 0 <= r /\ r < 100000
    BY <1>1, SMT
  <2> HIDE DEF r
  <2> QED BY <1>1, <2>1, <2>2, SMT
<1>6. v \div 10000 = q5
  <2> DEFINE r == 1000 * c + 100 * e + 10 * f + g
  <2>1. v = 10000 * q5 + r
    BY <1>1, <1>2, SMT
  <2>2. r \in Int /\ 0 <= r /\ r < 10000
    BY <1>1, SMT
  <2> HIDE DEF q5, r
  <2> QED BY <1>4, <2>1, <2>2, SMT
<1>7. v \div 1000 = q4
  BY <1>1, <1>2, SMT
<1>8. v \div 100 = q3
  BY <1>1, <1>2, SMT
<1>9. v \div 10 = q2
  BY <1>1, <1>2, SMT
<1>10. v \div 1 = v /\ v = 10 * q2 + g
  BY <1>1, <1>2, SMT
<1>11. (v \div Place[1]) % 10 = a
  BY <1>1, <1>3, <1>5, SMT
<1> HIDE DEF q5
<1>12. (v \div 10000) % 10 = b
  BY <1>1, <1>6, LastDigit, SMT DEF q5
<1>13. (v \div 1000) % 10 = c
  BY <1>1, <1>4, <1>7, LastDigit, SMT
<1> HIDE DEF q4
<1>14. (v \div 100) % 10 = e
  BY <1>1, <1>4, <1>8, LastDigit, SMT
<1> HIDE DEF q3
<1>15. (v \div 10) % 10 = f
  BY <1>1, <1>4, <1>9, LastDigit, SMT
<1> HIDE DEF q2
<1>16. (v \div 1) % 10 = g
  BY <1>1, <1>4, <1>10, LastDigit, SMT
<1>17. CASE i = 1
  BY <1>11, <1>17, SMT DEF a, v
<1>18. CASE i = 2
  BY <1>3, <1>12, <1>18, SMT DEF b, v
<1>19. CASE i = 3
  BY <1>3, <1>13, <1>19, SMT DEF c, v
<1>20. CASE i = 4
  BY <1>3, <1>14, <1>20, SMT DEF e, v
<1>21. CASE i = 5
  BY <1>3, <1>15, <1>21, SMT DEF f, v
<1>22. CASE i = 6
  BY <1>3, <1>16, <1>22, SMT DEF g, v
<1>23. i = 1 \/ i = 2 \/ i = 3 \/ i = 4 \/ i = 5 \/ i = 6
  OBVIOUS
<1> QED BY <1>17, <1>18, <1>19, <1>20, <1>21, <1>22, <1>23

(* What is no more than nine is a digit. *)
LEMMA SmallNumber ==
  ASSUME NEW x \in Nat, ~ x > 9
  PROVE  x \in 0 .. 9
OBVIOUS

(* The digit of a fraction at a place, zero past its end. *)
Digit(frac, k) == IF k <= Len(frac) THEN frac[k] ELSE 0

(* It is a digit. *)
LEMMA DigitType ==
  ASSUME NEW frac \in Seq(Nat), \A k \in DOMAIN frac : ~ frac[k] > 9, NEW i \in 1 .. 6
  PROVE  Digit(frac, i) \in 0 .. 9
<1>1. CASE i <= Len(frac)
  <2>1. i \in DOMAIN frac /\ frac[i] \in Nat
    BY <1>1
  <2>2. ~ frac[i] > 9
    BY <2>1, Zenon
  <2>3. Digit(frac, i) = frac[i]
    BY <1>1 DEF Digit
  <2>4. frac[i] \in 0 .. 9
    BY <2>1, <2>2, SmallNumber, Zenon
  <2> QED BY <2>3, <2>4, Zenon
<1>2. CASE ~ i <= Len(frac)
  BY <1>2 DEF Digit
<1> QED BY <1>1, <1>2

(* The microseconds are the first six digits of the fraction. *)
LEMMA Microseconds ==
  ASSUME NEW frac \in Seq(Nat), \A k \in DOMAIN frac : ~ frac[k] > 9
  PROVE  /\ MicrosFrac(frac) \in 0 .. SecondMicros - 1
         /\ \A i \in 1 .. 6 : (MicrosFrac(frac) \div Place[i]) % 10 = Digit(frac, i)
<1> DEFINE p == [k \in 1 .. 6 |-> Digit(frac, k)]
<1>1. MicrosFrac(frac) = Decimal(p)
  BY SMT DEF MicrosFrac, Digit, Decimal
<1>2. p \in [1 .. 6 -> 0 .. 9]
  BY DigitType
<1>3. \A i \in 1 .. 6 : p[i] = Digit(frac, i)
  OBVIOUS
<1> HIDE DEF p
<1>4. Decimal(p) \in 0 .. SecondMicros - 1
  BY <1>2, SixDigitNumber
<1>5. \A i \in 1 .. 6 : (Decimal(p) \div Place[i]) % 10 = p[i]
  BY <1>2, SixDigits
<1> QED BY <1>1, <1>3, <1>4, <1>5, Zenon

-----------------------------------------------------------------------------
(* Division leaves a remainder. *)
LEMMA Division ==
  ASSUME NEW a \in Int, NEW k \in Nat, k > 0
  PROVE  /\ a \div k \in Int /\ a % k \in 0 .. k - 1
         /\ (a \div k) * k + (a % k) = a
<1>1. a \div k \in Int /\ a % k \in 0 .. k - 1
  BY SMT
<1>2. (a \div k) * k + (a % k) = a
  BY SMT
<1> QED BY <1>1, <1>2

(* The fields of a stamp tried on a page. *)
LEMMA StampFields ==
  ASSUME TypeOK, NEW s \in Stamps
  PROVE  /\ s.year = y /\ s.month \in Int /\ s.day \in Int
         /\ s.month \in 1 .. 12 => s.month = m
         /\ s.hour \in Int /\ s.minute \in Int /\ s.second \in Int
         /\ s.frac \in Seq(Nat)
         /\ s.zone \in [sign : {"none", "Z", "+", "-", "junk"}, oh : Int, om : Int]
<1>1. PICK month \in Months, day \in Days,
           c \in Clocks, frac \in Fractions, zone \in Zones :
        s = [year |-> y, month |-> month, day |-> day,
             hour |-> c[1], minute |-> c[2], second |-> c[3],
             frac |-> frac, zone |-> zone]
  BY DEF Stamps
<1>2. day \in Int /\ month \in Int /\ (month \in 1 .. 12 => month = m)
  BY DEF Days, Months, TypeOK, IsPage
<1>3. c[1] \in Int /\ c[2] \in Int /\ c[3] \in Int
  BY StampAssumption
<1>4. frac \in Seq(Nat)
  BY StampAssumption
<1>5. zone \in [sign : {"none", "Z", "+", "-", "junk"}, oh : Int, om : Int]
  BY StampAssumption
<1> QED BY <1>1, <1>2, <1>3, <1>4, <1>5

(* An offset is a number of seconds. *)
LEMMA Offset ==
  ASSUME NEW zone \in [sign : {"none", "Z", "+", "-", "junk"}, oh : Int, om : Int]
  PROVE  OffsetSecs(zone) \in Int
<1>1. zone.oh \in Int /\ zone.om \in Int
  OBVIOUS
<1> QED BY <1>1 DEF OffsetSecs

(* The instant the parser computes of a stamp, and that it returns it, and  *)
(* nothing else, unless it refuses the stamp.                               *)
Seconds(s) == Clock(s) - OffsetSecs(s.zone)
Instant(s) ==
  <<days_from_civil(s.year, s.month, s.day) + Seconds(s) \div DaySeconds,
    Seconds(s) % DaySeconds, MicrosFrac(s.frac)>>

LEMMA Parsed ==
  ASSUME NEW s
  PROVE  parse_xsd_datetime(s) = IF Rejected(s) THEN {} ELSE {Instant(s)}
BY Zenon DEF parse_xsd_datetime, Instant, Seconds

(* On its page and past it, a day's number is as far from the page's. *)
LEMMA DaysPast ==
  ASSUME IInv, NEW day \in Int
  PROVE  /\ days_from_civil(y, m, day) \in Int
         /\ n + day - d = days_from_civil(y, m, day)
<1>1. /\ y \in Int /\ m \in 1 .. 12 /\ d \in Int
      /\ n \in Int /\ days_from_civil(y, m, d) = n
  BY DEF IInv, TypeOK, IsPage, FormulaCountsDays
<1> DEFINE start == YearStart(Shifted(y, m)) + MonthStart(m) - 1 - Epoch
<1>2. start \in Int
  <2>1. MonthStart(m) \in Int /\ YearStart(Shifted(y, m)) \in Int
    BY <1>1 DEF MonthStart, YearStart, Shifted
  <2>2. Epoch \in Int
    BY SMT DEF Epoch
  <2> QED BY <2>1, <2>2
<1>3. \A a \in Int : days_from_civil(y, m, a) = start + a
  <2>1. MonthStart(m) \in Int /\ YearStart(Shifted(y, m)) \in Int
    BY <1>1 DEF MonthStart, YearStart, Shifted
  <2>2. Epoch \in Int
    BY SMT DEF Epoch
  <2>3. \A a \in Int : days_from_civil(y, m, a) =
          YearStart(Shifted(y, m)) + MonthStart(m) + a - 1 - Epoch
    BY <1>1, ClosedFormula
  <2> QED BY <2>1, <2>2, <2>3
<1> HIDE DEF start
<1>4. days_from_civil(y, m, day) = start + day /\ n = start + d
  BY <1>1, <1>3
<1> QED BY <1>1, <1>2, <1>4

(* What the parser returns shows the fields it was given. *)
LEMMA Carried ==
  ASSUME IInv, NEW s \in Stamps, NEW t \in parse_xsd_datetime(s)
  PROVE  Shows(t, s)
<1> DEFINE clock == Clock(s)
           off == OffsetSecs(s.zone)
           secs == Seconds(s)
           day == s.day
           days == days_from_civil(y, m, day)
<1>1. ~ Rejected(s) /\ t = Instant(s)
  BY Parsed, Zenon
<1>2. /\ s.year = y /\ s.month = m /\ day \in Int
      /\ s.hour \in Int /\ s.minute \in Int /\ s.second \in Int
      /\ s.frac \in Seq(Nat) /\ off \in Int
  <2>1. s.month \in 1 .. 12
    BY <1>1, Zenon DEF Rejected
  <2> QED BY <2>1, StampFields, Offset DEF IInv
<1>3. clock \in Int
  BY <1>2 DEF Clock
<1>4. secs = clock - off
  BY Zenon DEF Seconds
<1>5. t[1] = days + secs \div DaySeconds /\ t[2] = secs % DaySeconds
      /\ t[3] = MicrosFrac(s.frac)
  BY <1>1, <1>2 DEF Instant
<1> HIDE DEF clock, off, secs, day
<1>6. days \in Int /\ n + day - d = days
  BY <1>2, DaysPast
<1>7. \A k \in DOMAIN s.frac : ~ s.frac[k] > 9
  BY <1>1, Zenon DEF Rejected
<1>8. /\ MicrosFrac(s.frac) \in 0 .. SecondMicros - 1
      /\ \A k \in 1 .. 6 : (MicrosFrac(s.frac) \div Place[k]) % 10 = Digit(s.frac, k)
  BY <1>2, <1>7, Microseconds
<1> HIDE DEF days
<1>9. secs \in Int /\ secs + off = clock
  BY <1>2, <1>3, <1>4
<1> DEFINE q == secs \div DaySeconds
           r == secs % DaySeconds
<1>10. q \in Int /\ r \in 0 .. DaySeconds - 1 /\ q * DaySeconds + r = secs
  <2>1. DaySeconds \in Nat /\ DaySeconds > 0
    BY SMT DEF DaySeconds
  <2> QED BY <1>9, <2>1, Division
<1> HIDE DEF q, r
<1>11. t[1] - (n + day - d) = q
  BY <1>5, <1>6, <1>10 DEF q
<1>12. (t[1] - (n + day - d)) * DaySeconds + t[2] = q * DaySeconds + r
  BY <1>5, <1>11, Zenon DEF r
<1>13. (t[1] - (n + day - d)) * DaySeconds + t[2] + off = clock
  BY <1>9, <1>10, <1>12, Zenon
<1>14. /\ t[2] \in 0 .. DaySeconds - 1 /\ t[3] \in 0 .. SecondMicros - 1
       /\ \A k \in 1 .. 6 : (t[3] \div Place[k]) % 10 = Digit(s.frac, k)
  BY <1>5, <1>8, <1>10, Zenon DEF r
<1> QED BY <1>2, <1>13, <1>14, SMT DEF Shows, Digit, off, clock, day

(* A legal timestamp passes every check. *)
LEMMA LegalAccepted ==
  ASSUME TypeOK, NEW s \in Stamps, XsdLegal(s)
  PROVE  ~ Rejected(s)
<1>1. s.month \in 1 .. 12 /\ s.day \in 1 .. 31
  <2>1. s.year \in Int /\ s.month \in 1 .. 12 /\ s.day \in 1 .. MonthLength(s.year, s.month)
    BY DEF XsdLegal, IsPage
  <2>2. MonthLength(s.year, s.month) \in 28 .. 31
    BY <2>1, MonthLengths
  <2> QED BY <2>1, <2>2
<1>2. /\ ~ s.hour > 23 /\ ~ s.minute > 59 /\ ~ s.second > 60
  BY DEF XsdLegal
<1>3. ASSUME NEW k \in DOMAIN s.frac PROVE ~ s.frac[k] > 9
  <2>1. s.frac[k] \in 0 .. 9
    BY DEF XsdLegal
  <2> QED BY <2>1
<1>4. s.zone.sign # "junk" /\ ~ s.zone.oh > 23 /\ ~ s.zone.om > 59
  BY DEF XsdLegal
<1> QED BY <1>1, <1>2, <1>3, <1>4, Zenon DEF Rejected

(* From dates the formula numbers right, every timestamp the format allows, *)
(* in every year, zone and fraction, is accepted and names its instant.     *)
THEOREM LegalStampsNameInstants ==
  ASSUME OriginsAgree
  PROVE  Spec => []StampsNameInstants
<1>1. IInv => StampsNameInstants
  <2> SUFFICES ASSUME IInv, NEW s \in Stamps, XsdLegal(s)
               PROVE  \E t \in parse_xsd_datetime(s) : Shows(t, s)
    BY DEF StampsNameInstants
  <2>1. ~ Rejected(s)
    BY LegalAccepted DEF IInv
  <2>2. PICK t : t \in parse_xsd_datetime(s)
    BY <2>1, Parsed, Zenon
  <2> QED BY <2>2, Carried
<1>2. Spec => []IInv
  BY FormulaIsExact, PTL DEF IInv
<1> QED BY <1>1, <1>2, PTL

(* A stamp is refused exactly when a field is out of its range. *)
LEMMA RefusedOutOfRange ==
  ASSUME TypeOK, NEW s \in Stamps
  PROVE  Rejected(s) <=> ~ InRange(s)
<1>1. /\ s.hour \in Int /\ s.minute \in Int /\ s.second \in Int
      /\ s.frac \in Seq(Nat)
      /\ s.zone \in [sign : {"none", "Z", "+", "-", "junk"}, oh : Int, om : Int]
  BY StampFields
<1>2. \A k \in DOMAIN s.frac : s.frac[k] \in 0 .. 9 <=> ~ s.frac[k] > 9
  <2>1. \A x \in Nat : x \in 0 .. 9 <=> ~ x > 9
    OBVIOUS
  <2>2. \A k \in DOMAIN s.frac : s.frac[k] \in Nat
    <3> DEFINE frac == s.frac
    <3>1. frac \in Seq(Nat)
      BY <1>1
    <3> HIDE DEF frac
    <3>2. \A k \in DOMAIN frac : frac[k] \in Nat
      BY <3>1
    <3> QED BY <3>2 DEF frac
  <2> QED BY <2>1, <2>2, Zenon
<1>3. /\ s.hour < 24 <=> ~ s.hour > 23
      /\ s.minute < 60 <=> ~ s.minute > 59
      /\ s.second <= 60 <=> ~ s.second > 60
  BY <1>1
<1>4. /\ s.zone.oh < 24 <=> ~ s.zone.oh > 23
      /\ s.zone.om < 60 <=> ~ s.zone.om > 59
      /\ s.zone.sign \in {"none", "Z", "+", "-", "junk"}
  <2> DEFINE oh == s.zone.oh
             om == s.zone.om
  <2>1. oh \in Int /\ om \in Int /\ s.zone.sign \in {"none", "Z", "+", "-", "junk"}
    BY <1>1
  <2> HIDE DEF oh, om
  <2>2. (oh < 24 <=> ~ oh > 23) /\ (om < 60 <=> ~ om > 59)
    BY <2>1
  <2> QED BY <2>1, <2>2 DEF oh, om
<1>5. (\/ s.zone.sign \in {"+", "-"} /\ (s.zone.oh > 23 \/ s.zone.om > 59)
       \/ s.zone.sign = "junk")
      <=> ~ (\/ s.zone.sign \in {"none", "Z"}
             \/ s.zone.sign \in {"+", "-"} /\ s.zone.oh < 24 /\ s.zone.om < 60)
  <2> DEFINE sign == s.zone.sign
             fits == s.zone.oh < 24 /\ s.zone.om < 60
  <2>1. fits <=> ~ (s.zone.oh > 23 \/ s.zone.om > 59)
    BY <1>4
  <2>2. /\ sign = "junk" => sign \notin {"none", "Z"} /\ sign \notin {"+", "-"}
        /\ sign \in {"none", "Z"} => sign \notin {"+", "-"}
        /\ sign \in {"none", "Z"} \/ sign \in {"+", "-"} \/ sign = "junk"
    BY <1>4
  <2> HIDE DEF sign, fits
  <2>3. ((sign \in {"+", "-"} /\ ~ fits) \/ sign = "junk")
        <=> ~ (sign \in {"none", "Z"} \/ (sign \in {"+", "-"} /\ fits))
    BY <2>2, Zenon
  <2> QED BY <2>1, <2>3, Zenon DEF sign, fits
<1> QED BY <1>2, <1>3, <1>5, Zenon DEF Rejected, InRange

(* From dates the formula numbers right, in every year, zone and fraction:  *)
(* what is no legal timestamp is refused when a field is out of its range,  *)
(* and else carried as far past a date that exists as its fields say.       *)
THEOREM OtherStampsAreCarried ==
  ASSUME OriginsAgree
  PROVE  Spec => []RefusedOrCarried
<1>1. IInv => RefusedOrCarried
  <2>1. ASSUME IInv, NEW s \in Stamps, InRange(s)
        PROVE  \E t \in parse_xsd_datetime(s) : Shows(t, s)
    <3>1. ~ Rejected(s)
      BY <2>1, RefusedOutOfRange DEF IInv
    <3>2. PICK t : t \in parse_xsd_datetime(s)
      BY <3>1, Parsed, Zenon
    <3> QED BY <2>1, <3>2, Carried
  <2>2. ASSUME IInv, NEW s \in Stamps, ~ InRange(s)
        PROVE  parse_xsd_datetime(s) = {}
    <3>1. Rejected(s)
      BY <2>2, RefusedOutOfRange DEF IInv
    <3> QED BY <3>1, Parsed, Zenon
  <2> QED BY <2>1, <2>2 DEF RefusedOrCarried
<1>2. Spec => []IInv
  BY FormulaIsExact, PTL DEF IInv
<1> QED BY <1>1, <1>2, PTL
=============================================================================
