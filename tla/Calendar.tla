------------------------------ MODULE Calendar ------------------------------
(* Dates: gmtime, mktime, strftime and strptime of user/libc/src/time.c, and *)
(* the decoding of the clock registers in modules/rtc/rtc.c.  A state is one *)
(* day and one time of it; days follow each other from chosen first days.    *)
(* A time_t is the pair of its day and its second of the day (64 bits in the *)
(* code, more than TLC's integers hold).  A printed date is a sequence of    *)
(* marks: a digit is <<"digit", n>>, a month or weekday name is the mark of  *)
(* its first three letters and, if it is longer, the mark of the rest.       *)
EXTENDS Integers, Sequences, FiniteSets

CONSTANTS
    FirstDays,  \* days since 1970-01-01 to begin from
    Span,       \* how many days to go on from there
    Seconds,    \* the times of day, in seconds
    Formats     \* sequences of strftime conversions that determine a date

VARIABLES day, gone, second

dayvars == <<day, gone, second>>

\* A bug: every century is a common year.
is_leap_not_400(y) == y % 4 = 0 /\ y % 100 # 0

is_leap_year(y) == (y % 4 = 0 /\ y % 100 # 0) \/ y % 400 = 0
DAYS_IN_MONTH(y) ==
    <<31, IF is_leap_year(y) THEN 29 ELSE 28, 31, 30, 31, 30, 31, 31, 30, 31, 30, 31>>

\* The days the year loops of gmtime and mktime have counted on reaching a year.
DaysBefore(year) ==
    365 * (year - 1970) + Cardinality({y \in 1970 .. year - 1 : is_leap_year(y)})

\* Whole years, then whole months, are taken off the days.
gmtime_year(days) ==
    LET y == CHOOSE y \in 1970 + days \div 366 .. 1970 + days \div 365 :
                 DaysBefore(y) <= days /\ days < DaysBefore(y + 1)
    IN [year |-> y, days |-> days - DaysBefore(y)]

RECURSIVE gmtime_month(_, _, _)
gmtime_month(days, y, m) ==
    IF days < DAYS_IN_MONTH(y)[m + 1] THEN [month |-> m, days |-> days]
    ELSE gmtime_month(days - DAYS_IN_MONTH(y)[m + 1], y, m + 1)

\* A bug: the weekday is counted from the start of the year.
gmtime_weekday(when) ==
    LET y == gmtime_year(when[1])
        m == gmtime_month(y.days, y.year, 0)
    IN [tm_year |-> y.year - 1900, tm_mon |-> m.month, tm_mday |-> m.days + 1,
        tm_hour |-> when[2] \div 3600, tm_min |-> (when[2] % 3600) \div 60,
        tm_sec |-> when[2] % 60, tm_wday |-> (y.days + 4) % 7, tm_yday |-> y.days]

gmtime(when) ==
    LET days    == IF when[1] < 0 THEN 0 ELSE when[1]
        rest    == IF when[1] < 0 THEN 0 ELSE when[2]
        y       == gmtime_year(days)
        m       == gmtime_month(y.days, y.year, 0)
    IN [tm_year |-> y.year - 1900, tm_mon |-> m.month, tm_mday |-> m.days + 1,
        tm_hour |-> rest \div 3600, tm_min |-> (rest % 3600) \div 60, tm_sec |-> rest % 60,
        tm_wday |-> (days + 4) % 7, tm_yday |-> y.days]

RECURSIVE months_before(_, _)
months_before(m, year) == IF m = 0 THEN 0 ELSE DAYS_IN_MONTH(year)[m] + months_before(m - 1, year)

\* A bug: the fields that follow from the date are left as they were.
mktime_stale(tm) ==
    LET year == tm.tm_year + 1900
        days == DaysBefore(year) + months_before(tm.tm_mon, year) + tm.tm_mday - 1
    IN [time |-> <<days, tm.tm_hour * 3600 + tm.tm_min * 60 + tm.tm_sec>>, tm |-> tm]

\* -1 before 1970; the derived fields are filled in from the result.
mktime(tm) ==
    LET year   == tm.tm_year + 1900
        days   == DaysBefore(year) + months_before(tm.tm_mon, year) + tm.tm_mday - 1
        result == <<days, tm.tm_hour * 3600 + tm.tm_min * 60 + tm.tm_sec>>
        again  == gmtime(result)
    IN IF year < 1970 THEN [time |-> <<-1, 86399>>, tm |-> tm]
       ELSE [time |-> result,
             tm   |-> [tm EXCEPT !.tm_wday = again.tm_wday, !.tm_yday = again.tm_yday]]

(***************************************************************************)
(* strftime and strptime                                                   *)
(***************************************************************************)
Digit(n) == <<"digit", n>>
RECURSIVE Number(_, _)
Number(n, width) ==
    IF width = 0 THEN <<>> ELSE Append(Number(n \div 10, width - 1), Digit(n % 10))
\* May has only three letters; every weekday has more.
Name(kind, i) ==
    IF kind = "month" /\ i = 4 THEN <<<<kind, i>>>> ELSE <<<<kind, i>>, <<"rest", i>>>>
Short(kind, i) == <<<<kind, i>>>>

strftime_piece(conversion, tm) ==
    CASE conversion = "Y" -> Number(tm.tm_year + 1900, 4)
      [] conversion = "y" -> Number((tm.tm_year + 1900) % 100, 2)
      [] conversion = "m" -> Number(tm.tm_mon + 1, 2)
      [] conversion = "d" -> Number(tm.tm_mday, 2)
      [] conversion = "H" -> Number(tm.tm_hour, 2)
      [] conversion = "M" -> Number(tm.tm_min, 2)
      [] conversion = "S" -> Number(tm.tm_sec, 2)
      [] conversion = "j" -> Number(tm.tm_yday + 1, 3)
      [] conversion = "B" -> Name("month", tm.tm_mon)
      [] conversion = "b" -> Short("month", tm.tm_mon)
      [] conversion = "A" -> Name("weekday", tm.tm_wday)
      [] conversion = "a" -> Short("weekday", tm.tm_wday)

RECURSIVE strftime(_, _)
strftime(format, tm) ==
    IF format = <<>> THEN <<>>
    ELSE strftime_piece(Head(format), tm) \o strftime(Tail(format), tm)

RECURSIVE digits_from(_, _, _, _)
digits_from(text, width, value, count) ==
    IF count < width /\ text # <<>> /\ Head(text)[1] = "digit"
    THEN digits_from(Tail(text), width, value * 10 + Head(text)[2], count + 1)
    ELSE [text |-> text, value |-> value, count |-> count]

strptime_number(text, width, low, high) ==
    LET read == digits_from(text, width, 0, 0)
    IN [ok |-> read.count > 0 /\ low <= read.value /\ read.value <= high,
        text |-> read.text, value |-> read.value]

\* A bug: a name is its first three letters, even when all of it is there.
strptime_short(text, kind) ==
    LET named == text # <<>> /\ Head(text)[1] = kind
    IN [ok |-> named, value |-> IF named THEN Head(text)[2] ELSE 0,
        text |-> IF named THEN Tail(text) ELSE text]

\* The full name if it is there, the first three letters otherwise.
strptime_name(text, kind) ==
    LET named == text # <<>> /\ Head(text)[1] = kind
        full  == IF named THEN Name(kind, Head(text)[2]) ELSE <<>>
        whole == named /\ Len(text) >= Len(full) /\ SubSeq(text, 1, Len(full)) = full
    IN [ok |-> named, value |-> IF named THEN Head(text)[2] ELSE 0,
        text |-> IF whole THEN SubSeq(text, Len(full) + 1, Len(text))
                 ELSE IF named THEN Tail(text) ELSE text]

Limits(c) ==
    CASE c = "Y" -> <<4, 0, 9999>> [] c = "y" -> <<2, 0, 99>> [] c = "m" -> <<2, 1, 12>>
      [] c = "d" -> <<2, 1, 31>>   [] c = "H" -> <<2, 0, 23>> [] c = "M" -> <<2, 0, 59>>
      [] c = "S" -> <<2, 0, 60>>   [] c = "j" -> <<3, 1, 366>>

Parsed(c, text) ==
    CASE c \in {"b", "B"} -> strptime_name(text, "month")
      [] c \in {"a", "A"} -> strptime_name(text, "weekday")
      [] OTHER -> strptime_number(text, Limits(c)[1], Limits(c)[2], Limits(c)[3])

Stored(c, value, out) ==
    CASE c = "Y" -> [out EXCEPT !.tm_year = value - 1900]
      [] c = "y" -> [out EXCEPT !.tm_year = IF value >= 69 THEN value ELSE value + 100]
      [] c = "m" -> [out EXCEPT !.tm_mon = value - 1]
      [] c = "d" -> [out EXCEPT !.tm_mday = value]
      [] c = "H" -> [out EXCEPT !.tm_hour = value]
      [] c = "M" -> [out EXCEPT !.tm_min = value]
      [] c = "S" -> [out EXCEPT !.tm_sec = value]
      [] c = "j" -> [out EXCEPT !.tm_yday = value - 1]
      [] c \in {"b", "B"} -> [out EXCEPT !.tm_mon = value]
      [] c \in {"a", "A"} -> [out EXCEPT !.tm_wday = value]

RECURSIVE strptime(_, _, _)
strptime(text, format, out) ==
    IF format = <<>> THEN [ok |-> TRUE, tm |-> out]
    ELSE LET read == Parsed(Head(format), text)
         IN IF ~read.ok THEN [ok |-> FALSE, tm |-> out]
            ELSE strptime(read.text, Tail(format), Stored(Head(format), read.value, out))

(***************************************************************************)
(* The clock driver                                                        *)
(***************************************************************************)
\* The year starts in March, so that the leap day is its last.
days_from_civil(year, month, mday) ==
    LET y   == IF month <= 2 THEN year - 1 ELSE year
        era == y \div 400
        yoe == y - era * 400
        doy == (153 * (month + (IF month > 2 THEN -3 ELSE 9)) + 2) \div 5 + mday - 1
        doe == yoe * 365 + yoe \div 4 - yoe \div 100 + doy
    IN era * 146097 + doe - 719468

from_bcd(value) == (value % 16) + (value \div 16) * 10

\* What rtc_read_epoch makes of the registers: binary or BCD, 24 or 12 hours with
\* a PM bit (128), two digits of year.
decode(raw, binary, twenty_four) ==
    LET field(v)  == IF binary THEN v ELSE from_bcd(v)
        pm        == ~twenty_four /\ raw.hour >= 128
        twelve    == field(raw.hour % 128)
        hour      == IF twenty_four THEN twelve
                     ELSE (IF twelve = 12 THEN 0 ELSE twelve) + (IF pm THEN 12 ELSE 0)
        year      == IF field(raw.year) >= 70 THEN 1900 + field(raw.year)
                     ELSE 2000 + field(raw.year)
        sane      == /\ field(raw.month) \in 1 .. 12 /\ field(raw.day) \in 1 .. 31
                     /\ hour <= 23 /\ field(raw.minute) <= 59 /\ field(raw.second) <= 60
    IN IF ~sane THEN <<-1, 86399>>
       ELSE <<days_from_civil(year, field(raw.month), field(raw.day)),
              hour * 3600 + field(raw.minute) * 60 + field(raw.second)>>

\* The chip's side: how it shows a date.
registers(tm, binary, twenty_four) ==
    LET field(v) == IF binary THEN v ELSE (v \div 10) * 16 + (v % 10)
        twelve   == IF tm.tm_hour % 12 = 0 THEN 12 ELSE tm.tm_hour % 12
    IN [second |-> field(tm.tm_sec), minute |-> field(tm.tm_min),
        hour   |-> IF twenty_four THEN field(tm.tm_hour)
                   ELSE field(twelve) + (IF tm.tm_hour >= 12 THEN 128 ELSE 0),
        day    |-> field(tm.tm_mday), month |-> field(tm.tm_mon + 1),
        year   |-> field((tm.tm_year + 1900) % 100)]

(***************************************************************************)
DayInit == day \in FirstDays /\ gone = 0 /\ second \in Seconds

NextDay == gone < Span /\ day' = day + 1 /\ gone' = gone + 1 /\ UNCHANGED second

Now == <<day, second>>
Date == gmtime(Now)

\* mktime undoes gmtime, whatever the derived fields held before, and fills them in.
TimesReturn ==
    LET tm == Date
    IN mktime([tm EXCEPT !.tm_wday = 0, !.tm_yday = 0]) = [time |-> Now, tm |-> tm]

\* The day after a date is the next date of the calendar: the day of the month and
\* the month roll over where they should, the weekday moves by one, and the day of
\* the year starts again only on the first of January.
DatesFollow ==
    LET today    == Date
        tomorrow == gmtime(<<day + 1, second>>)
        rolls    == today.tm_mday = DAYS_IN_MONTH(today.tm_year + 1900)[today.tm_mon + 1]
        newYear  == rolls /\ today.tm_mon = 11
    IN /\ tomorrow.tm_mday = IF rolls THEN 1 ELSE today.tm_mday + 1
       /\ tomorrow.tm_mon = IF rolls THEN (today.tm_mon + 1) % 12 ELSE today.tm_mon
       /\ tomorrow.tm_year = today.tm_year + (IF newYear THEN 1 ELSE 0)
       /\ tomorrow.tm_wday = (today.tm_wday + 1) % 7
       /\ tomorrow.tm_yday = IF newYear THEN 0 ELSE today.tm_yday + 1

\* strptime reads back what strftime printed with the same format, with no
\* separators between the fields, whenever the format determines the date
\* ("a date written the way strftime would have printed it"); two-digit years
\* only from 1969 to 2068.
DatesReadBack ==
    LET tm == Date
        blank == [f \in DOMAIN tm |-> 0]
    IN \A format \in Formats :
        LET has(cs) == \E i \in DOMAIN format : format[i] \in cs
            read == strptime(strftime(format, tm), format, blank)
        IN (has({"y"}) => tm.tm_year + 1900 <= 2068) =>
           /\ read.ok
           /\ has({"Y", "y"}) => read.tm.tm_year = tm.tm_year
           /\ has({"m", "b", "B"}) => read.tm.tm_mon = tm.tm_mon
           /\ has({"d"}) => read.tm.tm_mday = tm.tm_mday
           /\ has({"j"}) => read.tm.tm_yday = tm.tm_yday
           /\ has({"a", "A"}) => read.tm.tm_wday = tm.tm_wday
           /\ has({"S"}) => read.tm.tm_sec = tm.tm_sec

\* The driver gets the same second out of the registers as the calendar of libc
\* puts into them, in every mode the chip can be in, until the two-digit year
\* runs out in 2070.
ClocksAgree ==
    LET tm == Date
    IN tm.tm_year + 1900 < 2070 =>
        \A binary, twenty_four \in BOOLEAN :
            decode(registers(tm, binary, twenty_four), binary, twenty_four) = Now
=============================================================================
