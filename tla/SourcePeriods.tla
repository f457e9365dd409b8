--------------------------- MODULE SourcePeriods ---------------------------
(***************************************************************************)
(* The dates the handlers compute (collector/handlers): the period they    *)
(* ask a source for, and the year of a deadline that is written without    *)
(* one.  A day is a number, 0 for 1970-01-01; an instant is an hour, in    *)
(* UTC.  The calendar is right from 1970 to 2099.                          *)
(***************************************************************************)
EXTENDS Integers

\* ----------------------------------------------------------- JavaScript's calendar
Leap(year) == year % 4 = 0
YearStart(year) == 365 * (year - 1970) + (year - 1969) \div 4
DaysBefore == <<0, 31, 59, 90, 120, 151, 181, 212, 243, 273, 304, 334>>
MonthStart(year, month) ==
  YearStart(year) + DaysBefore[month] + (IF Leap(year) /\ month > 2 THEN 1 ELSE 0)

\* Date.UTC: months from 1; a month or day outside its range runs over.
DateUTC(year, month, date) ==
  MonthStart(year + (month - 1) \div 12, ((month - 1) % 12) + 1) + date - 1

Year(day) ==
  CHOOSE y \in (1970 + day \div 366)..(1970 + day \div 365) :
    YearStart(y) <= day /\ day < YearStart(y + 1)
Month(day) ==
  LET year == Year(day)
  IN CHOOSE m \in 1..12 : MonthStart(year, m) <= day /\ day < DateUTC(year, m + 1, 1)
DateOf(day) == day - MonthStart(Year(day), Month(day)) + 1
Weekday(day) == (day + 4) % 7   \* 0 for Sunday

Civil(day) == <<Year(day), Month(day), DateOf(day)>>
DayOf(hour) == hour \div 24

\* ------------------------------------------------------------------- Product Hunt
periodStart(period, now) ==
  LET pacific == DayOf(now - 7)
      date == IF period = "weekly" THEN DateOf(pacific) - ((Weekday(pacific) + 6) % 7) ELSE 1
  IN 24 * DateUTC(Year(pacific), IF period = "yearly" THEN 1 ELSE Month(pacific), date) + 7

\* ------------------------------------------------------ Hugging Face, Indie Hackers
\* Mutant: the year of the week is the year of the day.
makePreviousPeriodKey_DaysYear(period, now) ==
  LET day == DayOf(now)
      thursday == day - 7 + 4 - (IF Weekday(day) = 0 THEN 7 ELSE Weekday(day))
  IN IF period = "month"
     THEN <<Year(MonthStart(Year(day), Month(day)) - 1), Month(MonthStart(Year(day), Month(day)) - 1)>>
     ELSE <<Year(day - 7), (thursday - YearStart(Year(thursday)) + 7) \div 7>>

makePreviousPeriodKey(period, now) ==
  LET day == DayOf(now)
      month == DateUTC(Year(day), Month(day) - 1, 1)
      lastWeek == DateUTC(Year(day), Month(day), DateOf(day) - 7)
      thursday == lastWeek + 4 - (IF Weekday(lastWeek) = 0 THEN 7 ELSE Weekday(lastWeek))
  IN IF period = "month" THEN <<Year(month), Month(month)>>
     ELSE <<Year(thursday), (thursday - YearStart(Year(thursday)) + 7) \div 7>>

makePreviousWeekMonday(now) ==
  LET lastWeek == DateUTC(Year(DayOf(now)), Month(DayOf(now)), DateOf(DayOf(now)) - 7)
  IN lastWeek - ((Weekday(lastWeek) + 6) % 7)

\* ------------------------------------------------------------------------- Saramin
toKoreanDateString(now) == Civil(DayOf(now + 9))

\* Strings YYYY-MM-DD are compared.
IsEarlier(a, b) ==
  \/ a[1] < b[1]
  \/ a[1] = b[1] /\ a[2] < b[2]
  \/ a[1] = b[1] /\ a[2] = b[2] /\ a[3] < b[3]

\* "~ 10/30": the date in the current year, or in the next one when it has passed by
\* more than 30 days.
parseDeadline(month, date, now) ==
  LET today == toKoreanDateString(now)
      candidate == <<today[1], month, date>>
      monthAgo == toKoreanDateString(now - 30 * 24)
  IN IF IsEarlier(candidate, monthAgo) THEN <<today[1] + 1, month, date>> ELSE candidate

\* ------------------------------------------------------------- reference definitions
Monday(day) == day - ((Weekday(day) + 6) % 7)

\* ISO 8601: week 1 is the week of 4 January.
IsoWeek(day) ==
  LET first(y) == Monday(DateUTC(y, 1, 4))
      year == CHOOSE y \in {Year(day) - 1, Year(day), Year(day) + 1} :
                first(y) <= day /\ day < first(y + 1)
  IN <<year, (Monday(day) - first(year)) \div 7 + 1>>

\* The periods of a source whose days begin at 07:00 UTC.
Begins(period, hour) ==
  LET day == DayOf(hour)
  IN /\ hour % 24 = 7
     /\ CASE period = "weekly" -> Weekday(day) = 1
          [] period = "monthly" -> DateOf(day) = 1
          [] period = "yearly" -> DateOf(day) = 1 /\ Month(day) = 1
=============================================================================
