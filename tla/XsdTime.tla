------------------------------ MODULE XsdTime -------------------------------
(***************************************************************************)
(* time.rs: parse_xsd_datetime, on every page of Calendar.                 *)
(*                                                                         *)
(* A stamp is a string cut at the columns the parser looks at; one that is *)
(* too short, or without '-', 'T' and ':' in their columns, is refused     *)
(* before anything is read of it, and left out here.                       *)
(*   year .. second   the numbers read from the fields: str::parse takes a *)
(*           sign, so that "-1" is a number                                *)
(*   frac    the characters after the point up to the zone, as digits; a   *)
(*           number over 9 is a character that is no digit                 *)
(*   zone    what follows: "none", "Z" (with anything after it), "junk",   *)
(*           or "+" and "-" with the hours and minutes of the offset       *)
(* An instant is <<day, second of the day, microsecond>> in UTC: the       *)
(* number of microseconds the parser returns, in mixed radix.              *)
(***************************************************************************)
EXTENDS Calendar, Sequences

CONSTANTS
  Clocks,      \* times of day to try: <<hour, minute, second>>
  Fractions,   \* fractions of a second: sequences of digits
  Zones        \* zones: [sign, oh, om]

ASSUME StampAssumption ==
  /\ Clocks \subseteq Int \X Int \X Int
  /\ Fractions \subseteq Seq(Nat)
  /\ Zones \subseteq [sign : {"none", "Z", "+", "-", "junk"}, oh : Int, om : Int]

DaySeconds == 86400
SecondMicros == 1000000

-----------------------------------------------------------------------------
(* The first six digits, zeros after the last. *)
MicrosFrac(frac) ==
  LET digit(k) == IF k <= Len(frac) THEN frac[k] ELSE 0
  IN  100000 * digit(1) + 10000 * digit(2) + 1000 * digit(3)
        + 100 * digit(4) + 10 * digit(5) + digit(6)

OffsetSecs(zone) ==
  LET mag == zone.oh * 3600 + zone.om * 60
  IN  IF zone.sign = "+" THEN mag ELSE IF zone.sign = "-" THEN - mag ELSE 0

(* The time of day, in seconds. *)
Clock(s) == s.hour * 3600 + s.minute * 60 + s.second

(* Defect: hour 24 passes, and is the next day's midnight or later. *)
Rejected_HourOff(s) ==
  \/ s.month \notin 1 .. 12
  \/ s.day \notin 1 .. 31
  \/ s.hour > 24
  \/ s.minute > 59
  \/ s.second > 60
  \/ \E k \in DOMAIN s.frac : s.frac[k] > 9
  \/ s.zone.sign \in {"+", "-"} /\ (s.zone.oh > 23 \/ s.zone.om > 59)
  \/ s.zone.sign = "junk"

(* The early returns. *)
Rejected(s) ==
  \/ s.month \notin 1 .. 12
  \/ s.day \notin 1 .. 31
  \/ s.hour > 23
  \/ s.minute > 59
  \/ s.second > 60
  \/ \E k \in DOMAIN s.frac : s.frac[k] > 9
  \/ s.zone.sign \in {"+", "-"} /\ (s.zone.oh > 23 \/ s.zone.om > 59)
  \/ s.zone.sign = "junk"

(* Defect: the offset is added. *)
parse_xsd_datetime_OffsetAdded(s) ==
  LET secs == Clock(s) + OffsetSecs(s.zone)
      days == days_from_civil(s.year, s.month, s.day)
  IN  IF Rejected(s) THEN {}
      ELSE {<<days + secs \div DaySeconds, secs % DaySeconds, MicrosFrac(s.frac)>>}

parse_xsd_datetime(s) ==
  LET secs == Clock(s) - OffsetSecs(s.zone)
      days == days_from_civil(s.year, s.month, s.day)
  IN  IF Rejected(s) THEN {}
      ELSE {<<days + secs \div DaySeconds, secs % DaySeconds, MicrosFrac(s.frac)>>}

-----------------------------------------------------------------------------
(* The stamps tried on the present page: on the first and last day of a     *)
(* month, with the day before the first and those up to 32 that the month   *)
(* lacks; in January and December, in the month the year lacks as well.     *)
Days == IF d = 1 THEN {0, 1} ELSE d .. 32

Months ==
  {m} \cup (IF m = 1 THEN {0} ELSE {}) \cup (IF m = 12 THEN {13} ELSE {})

Stamps ==
  IF d \notin {1, MonthLength(y, m)} THEN {}
  ELSE {[year |-> y, month |-> month, day |-> day,
         hour |-> c[1], minute |-> c[2], second |-> c[3],
         frac |-> frac, zone |-> zone] :
          month \in Months, day \in Days,
          c \in Clocks, frac \in Fractions, zone \in Zones}

(* xs:dateTime with a year of four digits, but for 24:00:00. *)
XsdLegal(s) ==
  /\ s.year \in 0 .. 9999
  /\ IsPage(s.year, s.month, s.day)
  /\ s.hour \in 0 .. 23 /\ s.minute \in 0 .. 59 /\ s.second \in 0 .. 59
  /\ \A k \in DOMAIN s.frac : s.frac[k] \in 0 .. 9
  /\ s.zone.sign \in {"none", "Z", "+", "-"}
  /\ s.zone.oh \in 0 .. 14 /\ s.zone.om \in 0 .. 59

(* The weights of the digits of a microsecond. *)
Place == <<100000, 10000, 1000, 100, 10, 1>>

(* The instant t, shown in the stamp's zone, is the stamp: on the page of   *)
(* its month, or as far from it as its fields overrun it, down to the       *)
(* microsecond.                                                             *)
Shows(t, s) ==
  LET sinceMidnight == (t[1] - (n + s.day - d)) * DaySeconds + t[2]
  IN  /\ s.year = y /\ s.month = m
      /\ t[2] \in 0 .. DaySeconds - 1
      /\ sinceMidnight + OffsetSecs(s.zone) = Clock(s)
      /\ t[3] \in 0 .. SecondMicros - 1
      /\ \A k \in 1 .. 6 :
           (t[3] \div Place[k]) % 10 = IF k <= Len(s.frac) THEN s.frac[k] ELSE 0

(* Every legal timestamp is accepted and names the instant the calendar     *)
(* counts to, whatever its zone: offsets that cross midnight, the end of a  *)
(* month, of February in and out of leap years and of a year included       *)
(* (time.rs:10-88).                                                         *)
StampsNameInstants ==
  \A s \in {s \in Stamps : XsdLegal(s)} :
    \E t \in parse_xsd_datetime(s) : Shows(t, s)

(* No field, on its own, is past what some timestamp shows in it. *)
InRange(s) ==
  /\ s.month \in 1 .. 12 /\ s.day \in 1 .. 31
  /\ s.hour < 24 /\ s.minute < 60 /\ s.second <= 60
  /\ \A k \in DOMAIN s.frac : s.frac[k] \in 0 .. 9
  /\ \/ s.zone.sign \in {"none", "Z"}
     \/ s.zone.sign \in {"+", "-"} /\ s.zone.oh < 24 /\ s.zone.om < 60

(* Of the stamps that are no legal timestamp, one with a field past its     *)
(* range is refused, and every other (a day the month lacks, a negative     *)
(* hour, second 60) is carried: the instant is just as many days, hours or  *)
(* seconds past a date that exists as the fields say, never a wrapped or    *)
(* clipped one (time.rs:31-36, 47-49, 66-87).                               *)
RefusedOrCarried ==
  \A s \in {s \in Stamps : ~ XsdLegal(s)} :
    IF InRange(s) THEN \E t \in parse_xsd_datetime(s) : Shows(t, s)
                  ELSE parse_xsd_datetime(s) = {}

(* time.rs:8-9 says the result is None if the string "is not a well-formed  *)
(* timestamp": what is read would be a date of the calendar and a time no   *)
(* earlier than midnight, whatever one thinks of leap seconds and of zones. *)
OnlyTimestampsAreRead ==
  \A s \in Stamps :
    parse_xsd_datetime(s) # {} =>
      /\ IsPage(s.year, s.month, s.day)
      /\ s.hour \in 0 .. 23 /\ s.minute \in 0 .. 59 /\ s.second \in 0 .. 60
=============================================================================
