------------------------------- MODULE TimeUtil -------------------------------
(***************************************************************************)
(* rc_server/CTimeUtil: AddSec and GetTimeByFormat, as functions.  A date  *)
(* YYYYMMDDHHMISS is a record [year, mon, day, sec], with the seconds of   *)
(* the day; seconds since year 0 are pairs <<days, seconds>>, which fit in *)
(* TLC's integers.  No summer time, as where the program runs.             *)
(***************************************************************************)
EXTENDS Integers, Sequences

DaySec == 86400

-----------------------------------------------------------------------------
(* mktime and localtime_r *)

Leap(y) == (y % 4 = 0 /\ y % 100 # 0) \/ y % 400 = 0

\* Days of a year before month m, counted from 0.
Before(y, m) ==
  <<0, 31, 59, 90, 120, 151, 181, 212, 243, 273, 304, 334>>[m + 1]
    + (IF m > 1 /\ Leap(y) THEN 1 ELSE 0)

DayOfNewYear(y) == 365 * y + (y + 3) \div 4 - (y + 99) \div 100 + (y + 399) \div 400

\* A tm with a month or a day out of range is normalised.
mktime(tm) ==
  LET y == tm.year + 1900 + tm.mon \div 12
      m == tm.mon % 12
  IN  <<DayOfNewYear(y) + Before(y, m) + tm.day - 1, tm.sec>>

localtime(t) ==
  LET guess == t[1] \div 366
      y == CHOOSE y \in guess .. guess + 12 :
             DayOfNewYear(y) <= t[1] /\ t[1] < DayOfNewYear(y + 1)
      d == t[1] - DayOfNewYear(y)
      m == CHOOSE m \in 0 .. 11 :
             Before(y, m) <= d /\ (m < 11 => d < Before(y, m + 1))
  IN  [year |-> y - 1900, mon |-> m, day |-> d - Before(y, m) + 1, sec |-> t[2]]

\* The days of month m, counted from 0, of year y; month 12 is the next January.
MonthLength(y, m) ==
  LET first(n) == mktime([year |-> y - 1900, mon |-> n, day |-> 1, sec |-> 0])
  IN  first(m + 1)[1] - first(m)[1]

Later(t, sec) == <<t[1] + (t[2] + sec) \div DaySec, (t[2] + sec) % DaySec>>

-----------------------------------------------------------------------------
(* CTimeUtil *)

\* Mutant: January's month 0 is printed as it is.
DecemberMutant(tm) == tm

\* What AddSec does after localtime_r, for the month 0.
December(tm) == IF tm.mon = 0 THEN [tm EXCEPT !.mon = 12, !.year = @ - 1] ELSE tm

\* AddSec hands year and month to mktime as they are printed, so that a date
\* is moved 1900 years and one month up; the result is moved back by printing.
AddSec(date, sec) == December(localtime(Later(mktime(date), sec)))

\* GetSec takes the two off.
GetSec(date) == mktime([date EXCEPT !.year = @ - 1900, !.mon = @ - 1])

\* GetTimeByFormat: the letters, in the order of the tests, and where dateTmp
\* has their digits.
Fields == <<<<"Y", "Y", "Y", "Y">>, <<"M", "M">>, <<"D", "D">>,
            <<"H", "H">>, <<"M", "I">>, <<"S", "S">>>>
Offset == <<1, 5, 7, 9, 11, 13>>

\* strncasecmp: a letter of a field may also be the small one.
Small == [Y |-> "y", M |-> "m", D |-> "d", H |-> "h", I |-> "i", S |-> "s"]
Spells(s, f) ==
  /\ Len(s) = Len(Fields[f])
  /\ \A j \in DOMAIN s : s[j] \in {Fields[f][j], Small[Fields[f][j]]}

Replace(s, i, f, dateTmp) ==
  [j \in DOMAIN s |-> IF j \in i .. i + Len(Fields[f]) - 1
                        THEN dateTmp[Offset[f] + j - i] ELSE s[j]]

\* The loop over strbuf: behind a field it goes on at the field's last digit.
RECURSIVE Scan(_, _, _)
Scan(s, i, dateTmp) ==
  IF i > Len(s) THEN s
  ELSE LET here == {f \in DOMAIN Fields :
                      /\ i + Len(Fields[f]) - 1 <= Len(s)
                      /\ Spells(SubSeq(s, i, i + Len(Fields[f]) - 1), f)}
       IN  IF here = {} THEN Scan(s, i + 1, dateTmp)
           ELSE LET f == CHOOSE f \in here : \A g \in here : f <= g
                IN  Scan(Replace(s, i, f, dateTmp), i + Len(Fields[f]) - 1, dateTmp)

GetTimeByFormat(format, dateTmp) == Scan(format, 1, dateTmp)

=============================================================================
