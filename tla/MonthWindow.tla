----------------------------- MODULE MonthWindow -----------------------------
(***************************************************************************)
(* The month that the unloading dates of a footprint file must fall in, as *)
(* dataModelSchema computes it with JavaScript dates.  Instants are        *)
(* minutes, UTC, as are local times, counted as if they were UTC.  A time  *)
(* zone is its standard offset, what daylight saving adds to it, both in   *)
(* minutes, and its summers, each from one instant to another.             *)
(***************************************************************************)
EXTENDS Integers

Leap(y) == y % 4 = 0 /\ (y % 100 # 0 \/ y % 400 = 0)

DaysBefore == <<0, 31, 59, 90, 120, 151, 181, 212, 243, 273, 304, 334>>

(* The number of a day; month 13 and day 32 roll over, as in JavaScript.   *)
DayNumber(y, m, d) ==
    LET year == y + (m - 1) \div 12
        month == ((m - 1) % 12) + 1
        past == year - 1
    IN  365 * past + past \div 4 - past \div 100 + past \div 400
          + DaysBefore[month] + (IF month > 2 /\ Leap(year) THEN 1 ELSE 0) + d

Day == 1440

Midnight(y, m, d) == Day * DayNumber(y, m, d)

(* The month, of the year y or the one before, that a day is in.           *)
MonthOf(day, y) ==
    CHOOSE c \in [year : {y - 1, y}, month : 1 .. 12] :
        /\ DayNumber(c.year, c.month, 1) <= day
        /\ day < DayNumber(c.year, c.month + 1, 1)

-----------------------------------------------------------------------------
Summer(t, zone) == \E s \in zone.summer : s.from <= t /\ t < s.to

Offset(t, zone) == zone.standard + (IF Summer(t, zone) THEN zone.saving ELSE 0)

(* The instant of a local time: the first of two where clocks go back, by  *)
(* the offset before where they go forward.                                *)
Instant(local, zone) ==
    LET early == local - zone.standard - zone.saving
    IN  IF Summer(early, zone) THEN early ELSE early + zone.saving

(* The end of what is before a local time, by the same choice.             *)
EndBefore(local, zone) ==
    LET early == local - zone.standard - zone.saving
    IN  IF \E s \in zone.summer : s.from < early /\ early <= s.to
        THEN early ELSE early + zone.saving

-----------------------------------------------------------------------------
(* `${year}-0${month}-01` is an ISO date: midnight UTC.                    *)
FirstDayOfMonth(y, m) == Midnight(y, m, 1)

(* `${year}-${month}-01` is one only if the month has two digits.  If not, *)
(* it is read as midnight where the process runs.                          *)
Parsed(y, m, zone) ==
    IF m >= 10 THEN Midnight(y, m, 1) ELSE Instant(Midnight(y, m, 1), zone)

(* Mutant: the month is not added.                                         *)
SameMonth(t, y, zone) == t

(* setMonth(getMonth() + 1), on the date and time of the zone: the offset  *)
(* at the end may be another than at the start.                            *)
AddMonth(t, y, zone) ==
    LET local == t + Offset(t, zone)
        day == local \div Day
        c == MonthOf(day, y)
        date == day - DayNumber(c.year, c.month, 1) + 1
    IN  Instant(Midnight(c.year, c.month + 1, date) + (local % Day), zone)

(* A millisecond is taken off, on the local time as well, and the last one *)
(* belongs to the month: dates before LastDayOfMonth are accepted.         *)
LastDayOfMonth(y, m, zone) ==
    LET t == AddMonth(Parsed(y, m, zone), y, zone)
    IN  EndBefore(t + Offset(t, zone), zone)

=============================================================================
