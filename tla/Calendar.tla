------------------------------ MODULE Calendar ------------------------------
(***************************************************************************)
(* time.rs: days_from_civil, against the calendar itself.  The behavior    *)
(* turns the pages of the proleptic Gregorian calendar, one day forward or *)
(* back from a known date, and counts them; the closed formula must give   *)
(* the count on every page, on both sides of year 0 and of every leap rule. *)
(***************************************************************************)
EXTENDS Integers

CONSTANTS
  Origins,     \* dates whose day number is known: <<year, month, day, number>>
  MaxDays      \* bound on the distance from the nearest of them

(* Rust's / on i64 truncates towards zero. *)
TruncDiv(a, b) == IF a >= 0 THEN a \div b ELSE - ((- a) \div b)

(* Defect: the era of a negative year is truncated, not floored. *)
days_from_civil_Truncated(year, m, d) ==
  LET y == IF m <= 2 THEN year - 1 ELSE year
      era == TruncDiv(y, 400)
      yoe == y - era * 400
      doy == TruncDiv(153 * (IF m > 2 THEN m - 3 ELSE m + 9) + 2, 5) + d - 1
      doe == yoe * 365 + TruncDiv(yoe, 4) - TruncDiv(yoe, 100) + doy
  IN  era * 146097 + doe - 719468

days_from_civil(year, m, d) ==
  LET y == IF m <= 2 THEN year - 1 ELSE year
      era == TruncDiv(IF y >= 0 THEN y ELSE y - 399, 400)
      yoe == y - era * 400
      doy == TruncDiv(153 * (IF m > 2 THEN m - 3 ELSE m + 9) + 2, 5) + d - 1
      doe == yoe * 365 + TruncDiv(yoe, 4) - TruncDiv(yoe, 100) + doy
  IN  era * 146097 + doe - 719468

-----------------------------------------------------------------------------
(* The calendar's own rules. *)
Leap(y) == (y % 4 = 0 /\ y % 100 # 0) \/ y % 400 = 0

MonthLength(y, m) ==
  IF m = 2 THEN (IF Leap(y) THEN 29 ELSE 28)
  ELSE IF m \in {4, 6, 9, 11} THEN 30 ELSE 31

IsPage(y, m, d) == y \in Int /\ m \in 1 .. 12 /\ d \in 1 .. MonthLength(y, m)

ASSUME CalendarAssumption ==
  /\ \A o \in Origins : IsPage(o[1], o[2], o[3]) /\ o[4] \in Int
  /\ MaxDays \in Nat

VARIABLES y, m, d,   \* the page
          n          \* its day number, counted

vars == <<y, m, d, n>>

Init == \E o \in Origins : y = o[1] /\ m = o[2] /\ d = o[3] /\ n = o[4]

(* The bound on the exploration. *)
InReach(number) == \E o \in Origins : number - o[4] \in - MaxDays .. MaxDays

Tomorrow ==
  /\ n' = n + 1
  /\ InReach(n')
  /\ \/ d < MonthLength(y, m) /\ d' = d + 1 /\ UNCHANGED <<y, m>>
     \/ d = MonthLength(y, m) /\ m < 12 /\ y' = y /\ m' = m + 1 /\ d' = 1
     \/ d = MonthLength(y, m) /\ m = 12 /\ y' = y + 1 /\ m' = 1 /\ d' = 1

Yesterday ==
  /\ n' = n - 1
  /\ InReach(n')
  /\ \/ d > 1 /\ d' = d - 1 /\ UNCHANGED <<y, m>>
     \/ d = 1 /\ m > 1 /\ y' = y /\ m' = m - 1 /\ d' = MonthLength(y, m - 1)
     \/ d = 1 /\ m = 1 /\ y' = y - 1 /\ m' = 12 /\ d' = 31

Next == Tomorrow \/ Yesterday

Spec == Init /\ [][Next]_vars

-----------------------------------------------------------------------------
(* Type invariant: a page of the calendar, and an integer. *)
TypeOK == IsPage(y, m, d) /\ n \in Int

(* The closed formula numbers every day as the calendar counts them, the    *)
(* truncating division of negative years included (time.rs:90-99).          *)
FormulaCountsDays == days_from_civil(y, m, d) = n
=============================================================================
