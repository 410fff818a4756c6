------------------------------- MODULE Calendar -------------------------------
(***************************************************************************)
(* The calendar of the library (src/lib/time.c).  A time is its day and    *)
(* the second of that day, what gmtime_r's two corrections for negative    *)
(* times make of it.  A struct tm is a record.                             *)
(***************************************************************************)
EXTENDS Integers, Sequences, SequencesExt, FiniteSetsExt

IsLeap(y) == (y % 4 = 0 /\ y % 100 # 0) \/ y % 400 = 0
YearDays(y) == IF IsLeap(y) THEN 366 ELSE 365
\* month_days, months from 0
MonthDays(leap, m) == CASE m = 1 -> IF leap THEN 29 ELSE 28 [] m \in {3, 5, 8, 10} -> 30 [] OTHER -> 31
DaysBefore(leap, mon) == FoldFunction(+, 0, [m \in 0 .. mon - 1 |-> MonthDays(leap, m)])

RECURSIVE YearOf(_, _)
\* Whole years are taken away from 1970 on; a day before stays in that year.
YearOf(year, days) == IF days < YearDays(year) THEN <<year, days>> ELSE YearOf(year + 1, days - YearDays(year))

\* Mutant: every month is as long as in a common year.
MonthOf_Slip(leap, yday) == Max({0} \cup {m \in 1 .. 11 : DaysBefore(FALSE, m) <= yday})
MonthOf(leap, yday) == Max({0} \cup {m \in 1 .. 11 : DaysBefore(leap, m) <= yday})

\* gmtime_r; localtime_r is the same.
GmTime(day, second) ==
    LET y == YearOf(1970, day)
        leap == IsLeap(y[1])
        mon == MonthOf(leap, y[2])
    IN  [sec |-> second % 60, min |-> (second \div 60) % 60, hour |-> second \div 3600, wday |-> (day + 4) % 7,
         year |-> y[1] - 1900, yday |-> y[2], mon |-> mon, mday |-> y[2] - DaysBefore(leap, mon) + 1]

\* mktime: the day and the seconds to add to it, and the tm filled in.
MkTime(tm) ==
    LET year == tm.year + 1900
        yday == DaysBefore(IsLeap(year), tm.mon) + tm.mday - 1
        day == FoldFunction(+, 0, [y \in 1970 .. year - 1 |-> YearDays(y)]) + yday
    IN  [day |-> day, second |-> tm.hour * 3600 + tm.min * 60 + tm.sec,
         tm |-> [tm EXCEPT !.wday = (day + 4) % 7, !.yday = yday]]

----------------------------------------------------------------------------
(* strftime.  A format is a sequence of ordinary characters and of         *)
(* conversions <<"%", c>>; a letter of a name is the name and its place.   *)

Digits(n, width) == [i \in 1 .. width |-> <<"digit", (n \div (10 ^ (width - i))) % 10>>]
Name(kind, n, length) == [i \in 1 .. length |-> <<kind, n, i>>]
WdayLength == <<6, 6, 7, 9, 8, 6, 8>>
MonLength == <<7, 8, 5, 5, 3, 4, 4, 6, 9, 7, 8, 8>>
Conversion(c, tm) ==
    CASE c = "Y" -> Digits(tm.year + 1900, 4)  [] c = "y" -> Digits((tm.year + 1900) % 100, 2)
      [] c = "m" -> Digits(tm.mon + 1, 2)      [] c = "d" -> Digits(tm.mday, 2)
      [] c = "H" -> Digits(tm.hour, 2)         [] c = "I" -> Digits(IF tm.hour % 12 = 0 THEN 12 ELSE tm.hour % 12, 2)
      [] c = "M" -> Digits(tm.min, 2)          [] c = "S" -> Digits(tm.sec, 2)
      [] c = "j" -> Digits(tm.yday + 1, 3)     [] c = "w" -> Digits(tm.wday, 1)
      [] c = "a" -> Name("wday", tm.wday, 3)   [] c = "A" -> Name("wday", tm.wday, WdayLength[tm.wday + 1])
      [] c = "b" -> Name("mon", tm.mon, 3)     [] c = "B" -> Name("mon", tm.mon, MonLength[tm.mon + 1])
      [] c = "p" -> Name(IF tm.hour < 12 THEN "AM" ELSE "PM", 0, 2)
      [] c = "%" -> <<<<"%">>>>                [] c = "z" -> <<>>
      [] OTHER -> <<<<"%">>, <<c>>>>
Text(item, tm) ==
    LET Join(cs, between) == FoldLeft(LAMBDA s, c : (IF s = <<>> THEN s ELSE Append(s, <<between>>)) \o Conversion(c, tm), <<>>, cs)
    IN  CASE Len(item) = 1 -> <<item>>
          [] item = <<"%", "x">> -> Join(<<"Y", "m", "d">>, "-")
          [] item = <<"%", "X">> -> Join(<<"H", "M", "S">>, ":")
          [] item = <<"%", "c">> -> Join(<<"a", "b", "d">>, " ") \o <<<<" ">>>> \o Join(<<"H", "M", "S">>, ":") \o <<<<" ">>>> \o Conversion("Y", tm)
          [] OTHER -> Conversion(item[2], tm)

\* What is in the buffer up to the zero, and what is returned.  A conversion
\* that does not fit is cut and ends it; an ordinary character is put in the
\* last byte too, and then overwritten with the zero.
StrFTime(max, format, tm) ==
    LET Put(r, item) ==
            LET text == Text(item, tm)
                pos == Len(r.s)
            IN  CASE r.cut \/ pos >= max -> r
                  [] ~r.cut /\ pos < max /\ Len(item) = 1 -> [r EXCEPT !.s = @ \o text]
                  [] OTHER -> IF pos + Len(text) >= max THEN [s |-> r.s \o SubSeq(text, 1, max - pos - 1), cut |-> TRUE]
                              ELSE [r EXCEPT !.s = @ \o text]
        all == FoldLeft(Put, [s |-> <<>>, cut |-> FALSE], format).s
    IN  IF max = 0 THEN [s |-> <<>>, code |-> 0] ELSE [s |-> SubSeq(all, 1, Min({Len(all), max - 1})), code |-> Len(all)]

----------------------------------------------------------------------------
(* Properties                                                              *)

\* The day number of a date of the Gregorian calendar, in closed form: March
\* begins the year.
DayNumber(y, m, d) ==
    LET yy == IF m <= 2 THEN y - 1 ELSE y
        yoe == yy % 400
        doy == (153 * ((m + 9) % 12) + 2) \div 5 + d - 1
    IN  (yy \div 400) * 146097 + yoe * 365 + yoe \div 4 - yoe \div 100 + doy - 719468

\* Broken down, a time from 1970 on is the date of the calendar; any time,
\* before 1970 as well (where the day of the month is 0 or less), comes back
\* when it is put together, with the day of the week and of the year.
TimeSound(day, second, tm, back) ==
    /\ day >= 0 => DayNumber(tm.year + 1900, tm.mon + 1, tm.mday) = day /\ tm.mday \in 1 .. MonthDays(IsLeap(tm.year + 1900), tm.mon)
    /\ day < 0 => tm.year = 70 /\ tm.mon = 0 /\ tm.mday = day + 1
    /\ back = [day |-> day, second |-> second, tm |-> tm]

\* The buffer holds as much of the text as fits, and the length is returned;
\* it is one too many when an ordinary character comes to the last byte.
FormatTimeSound(max, format, tm, out) ==
    LET whole == FoldLeft(LAMBDA s, item : s \o Text(item, tm), <<>>, format)
        fits == Max({0, Min({Len(whole), max - 1})})
    IN  /\ out.s = SubSeq(whole, 1, fits)
        /\ out.code # fits => out.code = max /\ fits = max - 1 /\ \E i \in DOMAIN format : format[i] = <<Last(SubSeq(whole, 1, max))[1]>>
=============================================================================
