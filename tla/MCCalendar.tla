----------------------------- MODULE MCCalendar -----------------------------
(* Three stretches of the calendar: around the epoch (1838 to 2101: the     *)
(* leap year 2000, the common years 1900 and 2100), around year 0 (where    *)
(* the shifted year changes sign), and around the era that starts in -400.  *)
(* Timestamps with a value on each side of each check of the parser; the    *)
(* months and days are those of XsdTime's Months and Days.                  *)
EXTENDS XsdTime

KnownDates ==
  {<<1970, 1, 1, 0>>, <<0, 1, 1, -719528>>, <<-400, 3, 1, -719468 - 146097>>}

TriedClocks ==
  {<<0, 0, 0>>, <<23, 59, 59>>, <<23, 59, 60>>, <<0, 0, 61>>, <<24, 0, 0>>,
   <<-1, 30, 0>>, <<12, 60, 0>>, <<0, -1, -9>>}

TriedFractions == {<<>>, <<5>>, <<0, 0, 0, 0, 1, 2, 9>>, <<1, 10>>}

Zone(sign, oh, om) == [sign |-> sign, oh |-> oh, om |-> om]

TriedZones ==
  {Zone("none", 0, 0), Zone("Z", 0, 0), Zone("+", 2, 0), Zone("-", 14, 30), Zone("+", 23, 59),
   Zone("+", -1, 0), Zone("+", 24, 0), Zone("+", 0, 60), Zone("junk", 0, 0)}

(* For the dates that do not exist, everything else as plain as it can be. *)
FromTheEpoch == {<<1970, 1, 1, 0>>}
Noon == {<<12, 0, 0>>}
NoFraction == {<<>>}
Utc == {Zone("Z", 0, 0)}
=============================================================================
