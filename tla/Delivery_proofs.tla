-------------------------- MODULE Delivery_proofs ---------------------------
(***************************************************************************)
(* From log() to the count of the collector, for any messages, any number  *)
(* of calls and any behaviour of the network.                              *)
(*                                                                         *)
(* First the text of a record: a stamp shows the moment it was made of and *)
(* an escaped message comes back, so that parseRecord() undoes             *)
(* formatRecord() wherever a stamp can be made, and only there; and the    *)
(* stamps that parseTimestamp() takes are the dates of the calendar.       *)
(*                                                                         *)
(* Then the accounts: every line that is on its way is that of one call    *)
(* that has not failed and is not counted yet.  So what is counted was     *)
(* logged, and what failed is not counted.                                 *)
(***************************************************************************)
EXTENDS Delivery, LineReader_proofs, FiniteSetTheorems

-----------------------------------------------------------------------------
(* The calendar.                                                            *)

YearBegins(year) == DayNumber(year, 1, 1)

\* The number of a day of a year, with the table of the months read.
LEMMA YearBeginsAt ==
  ASSUME NEW y \in Int
  PROVE  YearBegins(y) = 365 * (y - 1970) + ((y - 1) \div 4 - (y - 1) \div 100 + (y - 1) \div 400) - 477
<1>1. DaysBefore[1] = 0
  BY DEF DaysBefore
<1>2. LeapsUntil(1970) = 477
  BY DEF LeapsUntil
<1>3. DayNumber(y, 1, 1) = 365 * (y - 1970) + LeapsUntil(y) - LeapsUntil(1970) + 0 + 0 + 1 - 1
  BY <1>1 DEF DayNumber
<1>4. LeapsUntil(y) = (y - 1) \div 4 - (y - 1) \div 100 + (y - 1) \div 400
  BY DEF LeapsUntil
<1>5. QED
  BY <1>2, <1>3, <1>4 DEF YearBegins

\* The years are 400 * 146097 / 400 days long on the average.
LEMMA YearBeginsAbout ==
  ASSUME NEW y \in Int
  PROVE  /\ YearBegins(y) \in Int
         /\ 146097 * (y - 1970) - 600 =< 400 * YearBegins(y)
         /\ 400 * YearBegins(y) =< 146097 * (y - 1970) + 600
<1> DEFINE a == (y - 1) \div 4
           b == (y - 1) \div 100
           c == (y - 1) \div 400
<1>1. /\ a \in Int /\ b \in Int /\ c \in Int
      /\ 4 * a =< y - 1 /\ y - 1 =< 4 * a + 3
      /\ 100 * b =< y - 1 /\ y - 1 =< 100 * b + 99
      /\ 400 * c =< y - 1 /\ y - 1 =< 400 * c + 399
  OBVIOUS
<1>2. YearBegins(y) = 365 * (y - 1970) + (a - b + c) - 477
  BY YearBeginsAt
<1> HIDE DEF a, b, c
<1>3. QED
  BY <1>1, <1>2

\* A year is longer than nothing.
LEMMA YearsAscend ==
  ASSUME NEW y \in Int, NEW z \in Int, y =< z
  PROVE  YearBegins(y) =< YearBegins(z)
<1>1. /\ (y - 1) \div 4 =< (z - 1) \div 4
      /\ (y - 1) \div 400 =< (z - 1) \div 400
      /\ (z - 1) \div 100 - (y - 1) \div 100 =< z - y
  OBVIOUS
<1> DEFINE a(x) == (x - 1) \div 4
           b(x) == (x - 1) \div 100
           c(x) == (x - 1) \div 400
<1>2. /\ YearBegins(y) = 365 * (y - 1970) + (a(y) - b(y) + c(y)) - 477
      /\ YearBegins(z) = 365 * (z - 1970) + (a(z) - b(z) + c(z)) - 477
  BY YearBeginsAt
<1>3. /\ a(y) \in Int /\ b(y) \in Int /\ c(y) \in Int
      /\ a(z) \in Int /\ b(z) \in Int /\ c(z) \in Int
      /\ a(y) =< a(z) /\ c(y) =< c(z) /\ b(z) - b(y) =< z - y
  BY <1>1
<1> HIDE DEF a, b, c
<1>4. QED
  BY <1>2, <1>3

IsYearOf(y, day) == YearBegins(y) =< day /\ day < YearBegins(y + 1)

\* gmtime_r() finds the year among three.
LEMMA YearFound ==
  ASSUME NEW day \in Int
  PROVE  LET about == 1970 + (400 * day) \div 146097
         IN  \E y \in (about - 1)..(about + 1) : IsYearOf(y, day)
<1> DEFINE about == 1970 + (400 * day) \div 146097
<1>1. /\ about \in Int
      /\ 146097 * (about - 1970) =< 400 * day /\ 400 * day < 146097 * (about - 1969)
  OBVIOUS
<1> HIDE DEF about
<1>2. /\ about - 1 \in (about - 1)..(about + 1) /\ (about - 1) + 1 = about
      /\ about \in (about - 1)..(about + 1)
      /\ about + 1 \in (about - 1)..(about + 1) /\ (about + 1) + 1 = about + 2
  BY <1>1
<1>3. /\ YearBegins(about - 1) \in Int /\ YearBegins(about) \in Int
      /\ YearBegins(about + 1) \in Int /\ YearBegins(about + 2) \in Int
      /\ 400 * YearBegins(about - 1) =< 146097 * ((about - 1) - 1970) + 600
      /\ 146097 * ((about + 2) - 1970) - 600 =< 400 * YearBegins(about + 2)
  BY <1>1, YearBeginsAbout
<1>4. YearBegins(about - 1) =< day /\ day < YearBegins(about + 2)
  BY <1>1, <1>3
<1>5. IsYearOf(about - 1, day) \/ IsYearOf(about, day) \/ IsYearOf(about + 1, day)
  BY <1>2, <1>3, <1>4 DEF IsYearOf
<1>6. QED
  BY <1>2, <1>5 DEF about

IsMonthOf(m, y, day) ==
    /\ DayNumber(y, m, 1) =< day
    /\ m < 12 => day < DayNumber(y, m + 1, 1)

\* ... and the month among twelve.
LEMMA MonthFound ==
  ASSUME NEW day \in Int, NEW y \in Int, YearBegins(y) =< day
  PROVE  \E m \in 1..12 : IsMonthOf(m, y, day)
<1> DEFINE Begins(m) == DayNumber(y, m, 1)
           T == {m \in Nat : 1 =< m /\ m =< 12 /\ day < Begins(m)}
<1>1. CASE T = {}
  <2>1. ~ (day < Begins(12))
    BY <1>1
  <2>2. Begins(12) \in Int
    <3>1. DaysBefore[12] = 334
      BY DEF DaysBefore
    <3>2. QED BY <3>1 DEF DayNumber, LeapsUntil
  <2>3. IsMonthOf(12, y, day)
    <3> HIDE DEF Begins
    <3>1. Begins(12) =< day
      BY <2>1, <2>2
    <3>2. QED BY <3>1 DEF IsMonthOf, Begins
  <2>4. QED BY <2>3
<1>2. CASE T # {}
  <2>1. T \in SUBSET Nat
    OBVIOUS
  <2>2. PICK x \in T : \A z \in T : x =< z
    <3> HIDE DEF T
    <3>1. QED BY <1>2, <2>1, LeastNumber
  <2>3. x # 1
    <3>1. YearBegins(y) \in Int
      BY YearBeginsAbout
    <3>2. x # 1 \/ day < YearBegins(y)
      BY DEF YearBegins
    <3> HIDE DEF T
    <3>3. QED BY <3>1, <3>2
  <2> DEFINE m == x - 1
  <2>4. m \in 1..12 /\ m < 12 /\ m + 1 = x /\ m \notin T
    BY <2>2, <2>3
  <2>5. Begins(m) \in Int
    <3>1. DaysBefore[m] \in Int
      BY <2>4 DEF DaysBefore
    <3>2. QED BY <3>1 DEF DayNumber, LeapsUntil
  <2> HIDE DEF Begins
  <2>6. Begins(m) =< day /\ day < Begins(m + 1)
    BY <2>4, <2>5
  <2>7. IsMonthOf(m, y, day)
    BY <2>6 DEF IsMonthOf, Begins
  <2>8. QED BY <2>4, <2>7
<1>3. QED
  BY <1>1, <1>2

Dates == [year : Int, month : 1..12, mday : Int, hour : Int, min : Int, sec : Int, millis : Int]

\* How far into a day a stamp is.
Clocked(stamp) == ((stamp.hour * 60 + stamp.min) * 60 + stamp.sec) * 1000 + stamp.millis

\* timegm() without a month to carry over.
LEMMA TimegmIs ==
  ASSUME NEW s, NEW y, NEW m, s.year + (s.month - 1) \div 12 = y, ((s.month - 1) % 12) + 1 = m
  PROVE  Timegm(s) = [day |-> DayNumber(y, m, s.mday) + Clocked(s) \div MsPerDay,
                      ms |-> Clocked(s) % MsPerDay]
BY SMT DEF Timegm, Clocked

\* The parts of a time.
LEMMA TimesAre ==
  ASSUME NEW t \in Times
  PROVE  /\ t.day \in Int /\ t.ms \in Nat /\ t.ms < MsPerDay
         /\ t = [day |-> t.day, ms |-> t.ms]
<1>1. MsPerDay \in Nat
  BY SMT DEF MsPerDay
<1>2. QED
  BY <1>1 DEF Times

\* The digits of a clock.
Millis == {n \in Nat : n < 1000}

ShownBy(ms, hour, min, sec, millis) ==
    /\ hour \in Int /\ min \in 0..59 /\ sec \in 0..59 /\ millis \in Millis
    /\ ((hour * 60 + min) * 60 + sec) * 1000 + millis = ms

\* gmtime_r() shows the moment that the digits make.
LEMMA ClockParts ==
  ASSUME NEW ms \in Nat
  PROVE  ShownBy(ms, ms \div 3600000, (ms \div 60000) % 60, (ms \div 1000) % 60, ms % 1000)
<1> DEFINE a == ms \div 1000
           b == ms \div 60000
           c == ms \div 3600000
           p == a \div 60
           q == b \div 60
<1>1. /\ a \in Int /\ b \in Int /\ c \in Int /\ p \in Int /\ q \in Int
      /\ ms = 1000 * a + (ms % 1000) /\ ms % 1000 \in Int /\ 0 =< ms % 1000 /\ ms % 1000 < 1000
  BY SMT
<1>2. /\ 60000 * b =< ms /\ ms < 60000 * b + 60000
      /\ 3600000 * c =< ms /\ ms < 3600000 * c + 3600000
  BY SMT
<1>3. /\ a % 60 = a - 60 * p /\ 60 * p =< a /\ a =< 60 * p + 59
      /\ b % 60 = b - 60 * q /\ 60 * q =< b /\ b =< 60 * q + 59
  <2> HIDE DEF a, b
  <2>1. QED BY <1>1, SMT
<1> DEFINE r == ms % 1000
<1>4. /\ ms = 1000 * a + r /\ r \in Int /\ 0 =< r /\ r < 1000
  BY <1>1
<1> HIDE DEF a, b, c, p, q, r
<1>5. p = b
  BY <1>1, <1>2, <1>3, <1>4, SMT
<1>6. q = c
  BY <1>1, <1>2, <1>3, <1>4, SMT
<1>7. /\ c \in Int /\ b % 60 \in 0..59 /\ a % 60 \in 0..59 /\ r \in Millis
      /\ ((c * 60 + (b % 60)) * 60 + (a % 60)) * 1000 + r = ms
  BY <1>1, <1>3, <1>4, <1>5, <1>6, SMT DEF Millis
<1>8. ShownBy(ms, c, b % 60, a % 60, r)
  BY <1>7, SMT DEF ShownBy
<1>9. QED
  BY <1>8, SMT DEF a, b, c, r

\* What gmtime_r() makes of a time.
LEMMA GmtimeIs ==
  ASSUME NEW t \in Times
  PROVE  LET s == Gmtime(t)
         IN  /\ s \in Dates
             /\ IsYearOf(s.year, t.day) /\ IsMonthOf(s.month, s.year, t.day)
             /\ s.mday = t.day - DayNumber(s.year, s.month, 1) + 1
             /\ Clocked(s) = t.ms
             /\ s.hour \in 0..23 /\ s.min \in 0..59 /\ s.sec \in 0..59 /\ s.millis \in Millis
<1> DEFINE about == 1970 + (400 * t.day) \div 146097
           Year(y) == DayNumber(y, 1, 1) =< t.day /\ t.day < DayNumber(y + 1, 1, 1)
           year == CHOOSE y \in (about - 1)..(about + 1) : Year(y)
           Month(m) == /\ DayNumber(year, m, 1) =< t.day
                       /\ m < 12 => t.day < DayNumber(year, m + 1, 1)
           month == CHOOSE m \in 1..12 : Month(m)
           s == [year |-> year, month |-> month, mday |-> t.day - DayNumber(year, month, 1) + 1,
                 hour |-> t.ms \div 3600000, min |-> (t.ms \div 60000) % 60,
                 sec |-> (t.ms \div 1000) % 60, millis |-> t.ms % 1000]
<1>1. t.day \in Int /\ t.ms \in Nat /\ t.ms < MsPerDay
  BY TimesAre
<1>2. Gmtime(t) = s
  BY SMT DEF Gmtime
<1>3. year \in Int /\ IsYearOf(year, t.day)
  <2>1. \E y \in (about - 1)..(about + 1) : IsYearOf(y, t.day)
    BY <1>1, YearFound
  <2>2. \E y \in (about - 1)..(about + 1) : Year(y)
    BY <2>1, SMT DEF IsYearOf, YearBegins
  <2> HIDE DEF Year
  <2>4. about \in Int
    BY <1>1, SMT
  <2> HIDE DEF about
  <2>3. year \in (about - 1)..(about + 1) /\ Year(year)
    BY <2>2, Zenon
  <2>5. QED BY <2>3, <2>4 DEF IsYearOf, YearBegins, Year
<1> HIDE DEF year
<1>4. month \in 1..12 /\ IsMonthOf(month, year, t.day)
  <2>1. YearBegins(year) =< t.day
    BY <1>3 DEF IsYearOf
  <2>2. \E m \in 1..12 : IsMonthOf(m, year, t.day)
    BY <1>1, <1>3, <2>1, MonthFound
  <2>3. \E m \in 1..12 : Month(m)
    BY <2>2, Zenon DEF IsMonthOf
  <2> HIDE DEF Month
  <2>4. month \in 1..12 /\ Month(month)
    BY <2>3, Zenon
  <2>5. QED BY <2>4, Zenon DEF Month, IsMonthOf
<1> HIDE DEF month
<1>5. DayNumber(year, month, 1) \in Int
  <2>1. DaysBefore[month] \in Int
    BY <1>4 DEF DaysBefore
  <2>2. QED BY <1>3, <2>1 DEF DayNumber, LeapsUntil
<1> DEFINE hour == t.ms \div 3600000
           min == (t.ms \div 60000) % 60
           sec == (t.ms \div 1000) % 60
           millis == t.ms % 1000
<1>6. /\ hour \in 0..23 /\ min \in 0..59 /\ sec \in 0..59 /\ millis \in Millis
      /\ ((hour * 60 + min) * 60 + sec) * 1000 + millis = t.ms
  <2>1. ShownBy(t.ms, hour, min, sec, millis)
    BY <1>1, ClockParts, SMT
  <2>2. hour \in 0..23
    BY <1>1, SMT DEF MsPerDay
  <2> HIDE DEF hour, min, sec, millis
  <2>3. QED BY <2>1, <2>2, SMT DEF ShownBy
<1> HIDE DEF hour, min, sec, millis
<1> DEFINE mday == t.day - DayNumber(year, month, 1) + 1
<1>7. mday \in Int
  BY <1>1, <1>5
<1> HIDE DEF mday
<1>8. s = [year |-> year, month |-> month, mday |-> mday, hour |-> hour, min |-> min,
           sec |-> sec, millis |-> millis]
  BY SMT DEF mday, hour, min, sec, millis
<1> HIDE DEF s
<1>9. /\ s.year = year /\ s.month = month /\ s.mday = mday /\ s.hour = hour
      /\ s.min = min /\ s.sec = sec /\ s.millis = millis
  BY <1>8
<1>10. s \in Dates
  BY <1>3, <1>4, <1>6, <1>7, <1>8 DEF Dates, Millis
<1>11. /\ s.mday = t.day - DayNumber(s.year, s.month, 1) + 1
       /\ Clocked(s) = t.ms
       /\ IsYearOf(s.year, t.day) /\ IsMonthOf(s.month, s.year, t.day)
       /\ s.hour \in 0..23 /\ s.min \in 0..59 /\ s.sec \in 0..59 /\ s.millis \in Millis
  BY <1>3, <1>4, <1>6, <1>9, SMT DEF mday, Clocked
<1>12. QED
  BY <1>2, <1>10, <1>11, SMTT(30)

\* The number of a day is a number, in any month.
LEMMA DayNumberType ==
  ASSUME NEW y \in Int, NEW m \in 1..12, NEW d \in Int
  PROVE  DayNumber(y, m, d) \in Int /\ DayNumber(y, m, d) = DayNumber(y, m, 1) + d - 1
<1>1. DaysBefore[m] \in Int
  BY DEF DaysBefore
<1>2. QED
  BY <1>1 DEF DayNumber, LeapsUntil

\* timegm() undoes gmtime_r().
LEMMA TimegmOfGmtime == ASSUME NEW t \in Times PROVE Timegm(Gmtime(t)) = t
<1> DEFINE s == Gmtime(t)
           ms == Clocked(s)
<1>1. /\ s \in Dates
      /\ s.mday = t.day - DayNumber(s.year, s.month, 1) + 1
      /\ ms = t.ms
  BY GmtimeIs
<1>2. t.day \in Int /\ t.ms \in Nat /\ t.ms < MsPerDay /\ t = [day |-> t.day, ms |-> t.ms]
  BY TimesAre
<1> HIDE DEF s
<1>3. s.year \in Int /\ s.month \in 1..12 /\ s.mday \in Int
  BY <1>1 DEF Dates
<1>4. s.year + (s.month - 1) \div 12 = s.year /\ ((s.month - 1) % 12) + 1 = s.month
  BY <1>3
<1>5. Timegm(s) = [day |-> DayNumber(s.year, s.month, s.mday) + ms \div MsPerDay,
                   ms |-> ms % MsPerDay]
  BY <1>4, TimegmIs
<1> HIDE DEF ms
<1>6. ms \div MsPerDay = 0 /\ ms % MsPerDay = t.ms
  BY <1>1, <1>2, SMT DEF MsPerDay
<1>7. DayNumber(s.year, s.month, s.mday) + 0 = t.day
  <2>1. /\ DayNumber(s.year, s.month, 1) \in Int
        /\ DayNumber(s.year, s.month, s.mday) = DayNumber(s.year, s.month, 1) + s.mday - 1
    <3>1. \A y \in Int, m \in 1..12, d \in Int :
             DayNumber(y, m, d) \in Int /\ DayNumber(y, m, d) = DayNumber(y, m, 1) + d - 1
      BY DayNumberType
    <3>2. 1 \in Int
      OBVIOUS
    <3>3. QED BY <1>3, <3>1, <3>2, Zenon
  <2>2. QED BY <1>1, <1>2, <2>1
<1>8. QED
  BY <1>2, <1>5, <1>6, <1>7, Zenon DEF s

\* A stamp of a time that has one shows that time; an unknown stamp shows none.
LEMMA StampTells ==
  ASSUME NEW t \in Times, NotLater(t, LastTime)
  PROVE  /\ IsStamp(StampOf(t)) <=> Stampable(t)
         /\ Stampable(t) => Timegm(StampOf(t)) = t
<1> DEFINE s == Gmtime(t)
<1>1. s.year \in Int /\ IsYearOf(s.year, t.day) /\ Timegm(s) = t
  BY GmtimeIs, TimegmOfGmtime, SMTT(30) DEF Dates
<1>2. t.day \in Int
  BY TimesAre
<1>3. StampOf(t) = IF -999 =< s.year /\ s.year =< 9999 THEN s ELSE UnknownStamp
  BY SMT DEF StampOf
<1>4. Stampable(t) <=> t.day >= 0 /\ s.year =< 9999
  BY SMT DEF Stampable
<1>5. s = Gmtime(t)
  OBVIOUS
<1> HIDE DEF s
<1>6. t.day >= 0 => s.year >= 1970
  <2>1. YearBegins(1970) = 0
    BY YearBeginsAt
  <2>2. s.year + 1 =< 1970 => YearBegins(s.year + 1) =< YearBegins(1970)
    BY <1>1, YearsAscend
  <2>3. YearBegins(s.year + 1) \in Int /\ t.day < YearBegins(s.year + 1)
    BY <1>1, YearBeginsAbout DEF IsYearOf
  <2>4. QED BY <1>1, <1>2, <2>1, <2>2, <2>3
<1>7. IsStamp(s) <=> s.year >= 0 /\ t.day >= 0
  BY <1>1, <1>5, Zenon DEF IsStamp
<1>8. ~ IsStamp(UnknownStamp)
  <2> DEFINE u == UnknownStamp
  <2>1. /\ u.year = 0 /\ u.month = 0 /\ u.mday = 0 /\ u.hour = 0 /\ u.min = 0 /\ u.sec = 0
        /\ u.millis = 0
    BY DEF UnknownStamp
  <2> HIDE DEF u
  <2>2. u.year + (u.month - 1) \div 12 = -1 /\ ((u.month - 1) % 12) + 1 = 12
    <3> DEFINE n == u.month - 1
               d == n \div 12
    <3>1. \A i \in Int : /\ i \div 12 \in Int /\ 12 * (i \div 12) =< i /\ i =< 12 * (i \div 12) + 11
                         /\ i % 12 = i - 12 * (i \div 12)
      BY SMT
    <3>2. n \in Int /\ n = -1
      BY <2>1
    <3> HIDE DEF n
    <3>3. d \in Int /\ 12 * d =< n /\ n =< 12 * d + 11 /\ n % 12 = n - 12 * d
      BY <3>1, <3>2
    <3> HIDE DEF d
    <3>4. d = -1 /\ n % 12 = 11
      BY <3>2, <3>3, SMT
    <3>5. u.year + d = -1 /\ (n % 12) + 1 = 12
      BY <2>1, <3>4
    <3>6. QED BY <3>5 DEF d, n
  <2>7. Clocked(u) = 0 /\ 0 \div MsPerDay = 0
    BY <2>1, SMT DEF MsPerDay, Clocked
  <2>3. Timegm(u) = [day |-> DayNumber(-1, 12, 0) + 0, ms |-> 0 % MsPerDay]
    <3>1. Timegm(u) = [day |-> DayNumber(-1, 12, u.mday) + Clocked(u) \div MsPerDay,
                       ms |-> Clocked(u) % MsPerDay]
      BY <2>2, TimegmIs
    <3>2. QED BY <2>1, <2>7, <3>1
  <2>4. DayNumber(-1, 12, 0) + 0 < 0
    <3>1. DaysBefore[12] = 334
      BY DEF DaysBefore
    <3>2. QED BY <3>1 DEF DayNumber, LeapsUntil, Leap
  <2>5. ~ (Timegm(u).day >= 0)
    <3> DEFINE d == DayNumber(-1, 12, 0) + 0
    <3>1. d \in Int /\ d < 0
      <4>1. DayNumber(-1, 12, 0) \in Int
        BY DayNumberType
      <4>2. QED BY <2>4, <4>1
    <3>2. Timegm(u).day = d
      BY <2>3
    <3> HIDE DEF d
    <3>3. QED BY <3>1, <3>2
  <2>6. QED BY <2>5, Zenon DEF IsStamp, u
<1>9. QED
  BY <1>1, <1>2, <1>3, <1>4, <1>6, <1>7, <1>8, SMT

-----------------------------------------------------------------------------
(* The dates of the calendar.                                               *)

LeapDay(year) == IF Leap(year) THEN 1 ELSE 0

\* A year has 365 days, and a leap year one more.
LEMMA YearLength ==
  ASSUME NEW y \in Int
  PROVE  YearBegins(y + 1) = YearBegins(y) + 365 + LeapDay(y)
<1>1. /\ y \div 4 = (y - 1) \div 4 + (IF y % 4 = 0 THEN 1 ELSE 0)
      /\ y \div 100 = (y - 1) \div 100 + (IF y % 100 = 0 THEN 1 ELSE 0)
      /\ y \div 400 = (y - 1) \div 400 + (IF y % 400 = 0 THEN 1 ELSE 0)
      /\ y % 400 = 0 => y % 100 = 0
      /\ y % 100 = 0 => y % 4 = 0
      /\ (y + 1) - 1 = y
  BY SMT
<1> DEFINE a(x) == x \div 4
           b(x) == x \div 100
           c(x) == x \div 400
<1>2. /\ YearBegins(y + 1) = 365 * ((y + 1) - 1970) + (a(y) - b(y) + c(y)) - 477
      /\ YearBegins(y) = 365 * (y - 1970) + (a(y - 1) - b(y - 1) + c(y - 1)) - 477
  <2>1. YearBegins(y) = 365 * (y - 1970) + (a(y - 1) - b(y - 1) + c(y - 1)) - 477
    BY YearBeginsAt
  <2> DEFINE z == y + 1
  <2>2. z \in Int /\ z - 1 = y
    OBVIOUS
  <2> HIDE DEF z
  <2>3. YearBegins(z) = 365 * (z - 1970)
          + ((z - 1) \div 4 - (z - 1) \div 100 + (z - 1) \div 400) - 477
    BY <2>2, YearBeginsAt
  <2>4. YearBegins(z) = 365 * (z - 1970) + (a(y) - b(y) + c(y)) - 477
    BY <2>2, <2>3
  <2>5. QED BY <2>1, <2>4 DEF z
<1>3. /\ a(y - 1) \in Int /\ b(y - 1) \in Int /\ c(y - 1) \in Int
      /\ a(y) = a(y - 1) + (IF y % 4 = 0 THEN 1 ELSE 0)
      /\ b(y) = b(y - 1) + (IF y % 100 = 0 THEN 1 ELSE 0)
      /\ c(y) = c(y - 1) + (IF y % 400 = 0 THEN 1 ELSE 0)
  BY <1>1, SMT
<1> HIDE DEF a, b, c
<1>4. CASE Leap(y)
  <2>1. a(y) - b(y) + c(y) = a(y - 1) - b(y - 1) + c(y - 1) + 1
    BY <1>1, <1>3, <1>4 DEF Leap
  <2>2. QED BY <1>2, <1>3, <1>4, <2>1 DEF LeapDay
<1>5. CASE ~ Leap(y)
  <2>1. a(y) - b(y) + c(y) = a(y - 1) - b(y - 1) + c(y - 1)
    BY <1>1, <1>3, <1>5 DEF Leap
  <2>2. QED BY <1>2, <1>3, <1>5, <2>1 DEF LeapDay
<1>6. QED
  BY <1>4, <1>5

\* The lines of the table of the months are some 367 / 12 days apart.
LEMMA MonthTable ==
  ASSUME NEW m \in 1..12
  PROVE  /\ DaysBefore[m] \in Nat
         /\ 367 * m - 397 =< 12 * DaysBefore[m] /\ 12 * DaysBefore[m] =< 367 * m - 362
BY DEF DaysBefore

\* Where a month begins.
LEMMA MonthBegins ==
  ASSUME NEW y \in Int, NEW m \in 1..12
  PROVE  /\ DayNumber(y, m, 1) = YearBegins(y) + DaysBefore[m] + (IF m > 2 THEN LeapDay(y) ELSE 0)
         /\ DaysBefore[m] \in Nat /\ YearBegins(y) \in Int /\ LeapDay(y) \in 0..1
<1>1. DaysBefore[m] \in Nat
  BY MonthTable
<1>2. YearBegins(y) \in Int /\ LeapDay(y) \in 0..1
  BY YearBeginsAbout DEF LeapDay
<1>3. LeapsUntil(y) \in Int /\ LeapsUntil(1970) \in Int /\ DaysBefore[1] = 0
  BY DEF LeapsUntil, DaysBefore
<1>4. DayNumber(y, m, 1) = YearBegins(y) + DaysBefore[m] + (IF m > 2 THEN LeapDay(y) ELSE 0)
  BY <1>1, <1>3 DEF DayNumber, YearBegins, LeapDay
<1>5. QED
  BY <1>1, <1>2, <1>4

\* The first day behind a month.
MonthEnds(y, m) == IF m = 12 THEN YearBegins(y + 1) ELSE DayNumber(y, m + 1, 1)

\* A month is as long as the calendar says.
LEMMA MonthLength ==
  ASSUME NEW y \in Int, NEW m \in 1..12
  PROVE  /\ MonthEnds(y, m) = DayNumber(y, m, 1) + DaysIn(y, m)
         /\ DayNumber(y, m, 1) \in Int /\ DaysIn(y, m) \in 28..31
<1> DEFINE B(k) == DaysBefore[k]
           L == LeapDay(y)
<1>1. DayNumber(y, m, 1) = YearBegins(y) + B(m) + (IF m > 2 THEN L ELSE 0)
      /\ YearBegins(y) \in Int /\ L \in 0..1 /\ B(m) \in Nat
  BY MonthBegins
<1>2. m < 12 => DayNumber(y, m + 1, 1) = YearBegins(y) + B(m + 1) + (IF m + 1 > 2 THEN L ELSE 0)
  BY MonthBegins
<1>3. YearBegins(y + 1) = YearBegins(y) + 365 + L
  BY YearLength
<1>4. DaysIn(y, m) = IF m \in {4, 6, 9, 11} THEN 30 ELSE IF m = 2 THEN 28 + L ELSE 31
  BY DEF DaysIn, LeapDay
<1>5. /\ B(1) = 0 /\ B(2) = 31 /\ B(3) = 59 /\ B(4) = 90 /\ B(5) = 120 /\ B(6) = 151
      /\ B(7) = 181 /\ B(8) = 212 /\ B(9) = 243 /\ B(10) = 273 /\ B(11) = 304 /\ B(12) = 334
  BY DEF DaysBefore
<1>6. m \in {1, 2, 3, 4, 5, 6, 7, 8, 9, 10, 11, 12}
  OBVIOUS
<1> HIDE DEF B, L
<1>7. IF m = 12 THEN 365 + L = B(m) + L + DaysIn(y, m)
      ELSE B(m + 1) + (IF m + 1 > 2 THEN L ELSE 0)
             = B(m) + (IF m > 2 THEN L ELSE 0) + DaysIn(y, m)
  BY <1>1, <1>4, <1>5, <1>6
<1>8. DaysIn(y, m) \in 28..31
  BY <1>1, <1>4
<1>9. CASE m = 12
  BY <1>1, <1>3, <1>7, <1>8, <1>9 DEF MonthEnds
<1>10. CASE m # 12
  <2>1. m < 12
    BY <1>10
  <2>2. B(m + 1) \in Int
    BY <1>5, <1>6, <2>1
  <2>3. QED BY <1>1, <1>2, <1>7, <1>8, <1>10, <2>1, <2>2 DEF MonthEnds
<1>11. QED
  BY <1>9, <1>10

\* The months of a year follow one another, ...
LEMMA MonthsAscend ==
  ASSUME NEW y \in Int, NEW m \in 1..12, NEW n \in 1..12, m < n
  PROVE  MonthEnds(y, m) =< DayNumber(y, n, 1)
<1>1. MonthEnds(y, m) = DayNumber(y, m + 1, 1) /\ m + 1 \in 1..12 /\ m + 1 =< n
  BY DEF MonthEnds
<1>2. CASE m + 1 = n
  <2>1. DayNumber(y, n, 1) \in Int
    BY MonthLength
  <2>2. QED BY <1>1, <1>2, <2>1
<1>3. CASE m + 1 < n
  <2> DEFINE k == m + 1
  <2>1. k \in 1..12 /\ k < n
    BY <1>1, <1>3
  <2> HIDE DEF k
  <2>2. /\ DayNumber(y, k, 1) = YearBegins(y) + DaysBefore[k] + (IF k > 2 THEN LeapDay(y) ELSE 0)
        /\ DaysBefore[k] \in Nat /\ YearBegins(y) \in Int /\ LeapDay(y) \in 0..1
    BY <2>1, MonthBegins
  <2>3. /\ DayNumber(y, n, 1) = YearBegins(y) + DaysBefore[n] + (IF n > 2 THEN LeapDay(y) ELSE 0)
        /\ DaysBefore[n] \in Nat
    BY MonthBegins
  <2>4. DaysBefore[k] =< DaysBefore[n]
    <3>1. 12 * DaysBefore[k] =< 367 * k - 362 /\ 367 * n - 397 =< 12 * DaysBefore[n]
      BY <2>1, MonthTable
    <3>2. QED BY <2>1, <2>2, <2>3, <3>1
  <2>5. DayNumber(y, k, 1) =< DayNumber(y, n, 1)
    BY <2>1, <2>2, <2>3, <2>4
  <2>6. QED BY <1>1, <2>5 DEF k
<1>4. QED
  BY <1>1, <1>2, <1>3

\* ... and fill it.
LEMMA MonthInYear ==
  ASSUME NEW y \in Int, NEW m \in 1..12
  PROVE  YearBegins(y) =< DayNumber(y, m, 1) /\ MonthEnds(y, m) =< YearBegins(y + 1)
<1>1. YearBegins(y) =< DayNumber(y, m, 1)
  <2>1. /\ DayNumber(y, m, 1) = YearBegins(y) + DaysBefore[m] + (IF m > 2 THEN LeapDay(y) ELSE 0)
        /\ DaysBefore[m] \in Nat /\ YearBegins(y) \in Int /\ LeapDay(y) \in 0..1
    BY MonthBegins
  <2>2. QED BY <2>1
<1>2. CASE m = 12
  <2>1. YearBegins(y + 1) \in Int
    BY YearBeginsAbout
  <2>2. QED BY <1>1, <1>2, <2>1 DEF MonthEnds
<1>3. CASE m # 12
  <2>1. m < 12 /\ 12 \in 1..12
    BY <1>3
  <2>2. MonthEnds(y, m) =< DayNumber(y, 12, 1)
    BY <2>1, MonthsAscend
  <2>3. YearBegins(y + 1) = DayNumber(y, 12, 1) + DaysIn(y, 12) /\ DaysIn(y, 12) \in 28..31
        /\ DayNumber(y, 12, 1) \in Int
    BY <2>1, MonthLength DEF MonthEnds
  <2>4. MonthEnds(y, m) \in Int
    <3>1. /\ MonthEnds(y, m) = DayNumber(y, m, 1) + DaysIn(y, m)
          /\ DayNumber(y, m, 1) \in Int /\ DaysIn(y, m) \in 28..31
      BY MonthLength
    <3>2. QED BY <3>1
  <2>5. QED BY <1>1, <2>2, <2>3, <2>4
<1>4. QED
  BY <1>2, <1>3

\* A day lies in one year and one month only.
LEMMA OneYear ==
  ASSUME NEW day \in Int, NEW y \in Int, NEW z \in Int, IsYearOf(y, day), IsYearOf(z, day)
  PROVE  y = z
<1>1. ASSUME NEW u \in Int, NEW v \in Int, IsYearOf(u, day), IsYearOf(v, day), u < v
      PROVE  FALSE
  <2>1. u + 1 \in Int /\ u + 1 =< v
    BY <1>1
  <2>2. YearBegins(u + 1) =< YearBegins(v)
    BY <2>1, YearsAscend
  <2>3. YearBegins(u + 1) \in Int /\ YearBegins(v) \in Int
    BY <1>1, <2>1, YearBeginsAbout, SMTT(30)
  <2>4. day < YearBegins(u + 1) /\ YearBegins(v) =< day
    BY <1>1 DEF IsYearOf
  <2>5. QED BY <2>2, <2>3, <2>4
<1>2. ~ (y < z) /\ ~ (z < y)
  BY <1>1
<1>3. QED
  BY <1>2

LEMMA OneMonth ==
  ASSUME NEW day \in Int, NEW y \in Int, NEW m \in 1..12, NEW n \in 1..12,
         IsMonthOf(m, y, day), IsMonthOf(n, y, day)
  PROVE  m = n
<1>1. ASSUME NEW u \in 1..12, NEW v \in 1..12, IsMonthOf(u, y, day), IsMonthOf(v, y, day), u < v
      PROVE  FALSE
  <2>1. MonthEnds(y, u) =< DayNumber(y, v, 1)
    BY <1>1, MonthsAscend
  <2>2. day < MonthEnds(y, u)
    BY <1>1 DEF IsMonthOf, MonthEnds
  <2>3. DayNumber(y, v, 1) =< day
    BY <1>1 DEF IsMonthOf
  <2>4. DayNumber(y, v, 1) \in Int
    BY MonthLength
  <2>5. MonthEnds(y, u) = DayNumber(y, u, 1) + DaysIn(y, u) /\ DayNumber(y, u, 1) \in Int
        /\ DaysIn(y, u) \in 28..31
    BY MonthLength
  <2>6. MonthEnds(y, u) \in Int
    BY <2>5
  <2>7. QED BY <2>1, <2>2, <2>3, <2>4, <2>6
<1>2. ~ (m < n) /\ ~ (n < m)
  BY <1>1
<1>3. QED
  BY <1>2

\* Digits that show the same moment are the same.
LEMMA OneClock ==
  ASSUME NEW ms, NEW h, NEW i, NEW s, NEW l, NEW h2, NEW i2, NEW s2, NEW l2
  PROVE  ShownBy(ms, h, i, s, l) /\ ShownBy(ms, h2, i2, s2, l2)
           => h = h2 /\ i = i2 /\ s = s2 /\ l = l2
<1> SUFFICES ASSUME ShownBy(ms, h, i, s, l), ShownBy(ms, h2, i2, s2, l2)
             PROVE  h = h2 /\ i = i2 /\ s = s2 /\ l = l2
  OBVIOUS
<1>0. /\ h \in Int /\ i \in 0..59 /\ s \in 0..59 /\ l \in Nat /\ l < 1000
      /\ h2 \in Int /\ i2 \in 0..59 /\ s2 \in 0..59 /\ l2 \in Nat /\ l2 < 1000
      /\ ((h * 60 + i) * 60 + s) * 1000 + l = ((h2 * 60 + i2) * 60 + s2) * 1000 + l2
  BY SMT DEF ShownBy, Millis
<1> DEFINE a == (h * 60 + i) * 60 + s
           b == (h2 * 60 + i2) * 60 + s2
           c == h * 60 + i
           d == h2 * 60 + i2
<1>1. a = b /\ l = l2
  <2>1. a \in Int /\ b \in Int /\ a * 1000 + l = b * 1000 + l2
    BY <1>0
  <2> HIDE DEF a, b
  <2>2. QED BY <1>0, <2>1, SMT
<1>2. c = d /\ s = s2
  <2>1. c \in Int /\ d \in Int /\ c * 60 + s = d * 60 + s2
    BY <1>0, <1>1
  <2> HIDE DEF c, d
  <2>2. QED BY <1>0, <2>1, SMT
<1>3. h = h2 /\ i = i2
  <2>1. h * 60 + i = h2 * 60 + i2
    BY <1>0, <1>2
  <2>2. QED BY <1>0, <2>1, SMT
<1>4. QED
  BY <1>1, <1>2, <1>3

\* The digits of a clock make a moment of a day.
LEMMA ClockInDay ==
  ASSUME NEW ms, NEW h, NEW i, NEW s, NEW l
  PROVE  h \in 0..23 /\ ShownBy(ms, h, i, s, l) => ms \in Nat /\ ms < MsPerDay
BY SMT DEF MsPerDay, ShownBy, Millis

-----------------------------------------------------------------------------
(* The stamps that parseTimestamp() takes.                                  *)

\* What the digits of a line can show; the four of the year are as good as any number.
Stamps == [year : Nat, month : 0..99, mday : 0..99, hour : 0..99, min : 0..99, sec : 0..99,
           millis : Millis]

\* The digits of a line, one by one.
LEMMA StampFields ==
  ASSUME NEW s \in Stamps
  PROVE  /\ s.year \in Nat /\ s.month \in 0..99 /\ s.mday \in 0..99
         /\ s.hour \in 0..99 /\ s.min \in 0..99 /\ s.sec \in 0..99 /\ s.millis \in Millis
         /\ s = [year |-> s.year, month |-> s.month, mday |-> s.mday, hour |-> s.hour,
                 min |-> s.min, sec |-> s.sec, millis |-> s.millis]
BY SMTT(30) DEF Stamps

\* timegm() gives a time.
LEMMA TimegmType == ASSUME NEW s \in Stamps PROVE Timegm(s) \in Times
<1> DEFINE y == s.year + (s.month - 1) \div 12
           m == ((s.month - 1) % 12) + 1
           c == Clocked(s)
<1>1. /\ s.year \in Int /\ s.month \in Int /\ s.mday \in Int
      /\ s.hour \in Int /\ s.min \in Int /\ s.sec \in Int /\ s.millis \in Int
  <2> HIDE DEF y, m, c
  <2>1. /\ s.year \in Nat /\ s.month \in 0..99 /\ s.mday \in 0..99
        /\ s.hour \in 0..99 /\ s.min \in 0..99 /\ s.sec \in 0..99 /\ s.millis \in Millis
    BY StampFields
  <2>2. QED BY <2>1 DEF Millis
<1>2. Timegm(s) = [day |-> DayNumber(y, m, s.mday) + c \div MsPerDay, ms |-> c % MsPerDay]
  BY TimegmIs
<1>3. y \in Int /\ m \in 1..12
  BY <1>1, SMT
<1>4. c \in Int
  BY <1>1, SMT DEF Clocked
<1> HIDE DEF y, m, c
<1>5. DayNumber(y, m, s.mday) \in Int
  BY <1>1, <1>3, DayNumberType
<1> DEFINE n == MsPerDay
<1>6. n \in Nat \ {0}
  BY SMT DEF MsPerDay
<1> HIDE DEF n
<1>7. c \div n \in Int /\ c % n \in 0..(n - 1)
  BY <1>4, <1>6
<1>8. QED
  BY <1>2, <1>5, <1>7 DEF Times, n

\* The first day of the clock is that of the year 1970.
LEMMA EpochYear ==
  ASSUME NEW y \in Int, NEW day \in Int, IsYearOf(y, day)
  PROVE  day >= 0 <=> y >= 1970
<1>1. YearBegins(1970) = 0 /\ YearBegins(y) \in Int /\ YearBegins(y + 1) \in Int
  <2>1. y + 1 \in Int
    OBVIOUS
  <2>2. YearBegins(1970) = 0
    BY YearBeginsAt
  <2>3. QED BY <2>1, <2>2, YearBeginsAbout
<1>2. YearBegins(y) =< day /\ day < YearBegins(y + 1)
  BY DEF IsYearOf
<1>3. CASE y >= 1970
  <2>1. YearBegins(1970) =< YearBegins(y)
    BY <1>3, YearsAscend
  <2>2. QED BY <1>1, <1>2, <1>3, <2>1
<1>4. CASE ~ (y >= 1970)
  <2>1. y + 1 \in Int /\ y + 1 =< 1970
    BY <1>4
  <2>2. YearBegins(y + 1) =< YearBegins(1970)
    BY <2>1, YearsAscend
  <2>3. QED BY <1>1, <1>2, <1>4, <2>2
<1>5. QED
  BY <1>3, <1>4

\* The days of a month are those that gmtime_r() finds in it.
LEMMA MonthHolds ==
  ASSUME NEW y \in Int, NEW m \in 1..12, NEW day \in Int
  PROVE  IsYearOf(y, day) /\ IsMonthOf(m, y, day)
           <=> day - DayNumber(y, m, 1) + 1 \in 1..DaysIn(y, m)
<1> DEFINE b == DayNumber(y, m, 1)
           e == MonthEnds(y, m)
           n == DaysIn(y, m)
<1>1. e = b + n /\ b \in Int /\ n \in 28..31
  BY MonthLength
<1>2. YearBegins(y) =< b /\ e =< YearBegins(y + 1)
  BY MonthInYear
<1>3. YearBegins(y) \in Int /\ YearBegins(y + 1) \in Int
  <2>1. y + 1 \in Int
    OBVIOUS
  <2>2. QED BY <2>1, YearBeginsAbout
<1>4. m < 12 => e = DayNumber(y, m + 1, 1)
  BY DEF MonthEnds
<1>5. m = 12 => e = YearBegins(y + 1)
  BY DEF MonthEnds
<1>6. IsMonthOf(m, y, day) <=> b =< day /\ (m < 12 => day < e)
  BY <1>4 DEF IsMonthOf
<1>7. IsYearOf(y, day) <=> YearBegins(y) =< day /\ day < YearBegins(y + 1)
  BY DEF IsYearOf
<1>8. m < 12 \/ m = 12
  OBVIOUS
<1> HIDE DEF b, e, n
<1>9. IsYearOf(y, day) /\ IsMonthOf(m, y, day) <=> b =< day /\ day < e
  BY <1>1, <1>2, <1>3, <1>5, <1>6, <1>7, <1>8
<1>10. b =< day /\ day < e <=> day - b + 1 \in 1..n
  BY <1>1
<1>11. QED
  BY <1>9, <1>10 DEF b, n

\* What gmtime_r() shows is a date, and one from 1970 on for a time from the epoch on.
LEMMA GmtimeIsDate ==
  ASSUME NEW t \in Times
  PROVE  IsDate(Gmtime(t)) /\ (t.day >= 0 <=> Gmtime(t).year >= 1970)
<1> DEFINE s == Gmtime(t)
<1>1. /\ s \in Dates
      /\ IsYearOf(s.year, t.day) /\ IsMonthOf(s.month, s.year, t.day)
      /\ s.mday = t.day - DayNumber(s.year, s.month, 1) + 1
      /\ s.hour \in 0..23 /\ s.min \in 0..59 /\ s.sec \in 0..59
  BY GmtimeIs
<1>2. t.day \in Int
  BY TimesAre
<1> HIDE DEF s
<1>3. s.year \in Int /\ s.month \in 1..12
  BY <1>1 DEF Dates
<1>4. s.mday \in 1..DaysIn(s.year, s.month)
  <2>1. t.day - DayNumber(s.year, s.month, 1) + 1 \in 1..DaysIn(s.year, s.month)
    BY <1>1, <1>2, <1>3, MonthHolds
  <2>2. QED BY <1>1, <2>1
<1>5. IsDate(s)
  BY <1>1, <1>3, <1>4, Zenon DEF IsDate
<1>6. t.day >= 0 <=> s.year >= 1970
  BY <1>1, <1>2, <1>3, EpochYear
<1>7. QED
  BY <1>5, <1>6 DEF s

\* timegm() of a date carries nothing over.
LEMMA TimegmOfDate ==
  ASSUME NEW s \in Stamps, IsDate(s)
  PROVE  /\ Timegm(s).day - DayNumber(s.year, s.month, 1) + 1 = s.mday
         /\ Timegm(s).ms = Clocked(s)
<1>1. /\ s.year \in Int /\ s.month \in 1..12 /\ s.mday \in Int
      /\ s.hour \in 0..23 /\ s.min \in 0..59 /\ s.sec \in 0..59 /\ s.millis \in Millis
  <2>1. /\ s.year \in Nat /\ s.month \in 0..99 /\ s.mday \in 0..99 /\ s.millis \in Millis
    BY StampFields
  <2>2. s.month \in 1..12 /\ s.hour \in 0..23 /\ s.min \in 0..59 /\ s.sec \in 0..59
    BY Zenon DEF IsDate
  <2>3. QED BY <2>1, <2>2
<1>2. s.year + (s.month - 1) \div 12 = s.year /\ ((s.month - 1) % 12) + 1 = s.month
  BY <1>1
<1> DEFINE c == Clocked(s)
           d == DayNumber(s.year, s.month, s.mday)
<1>3. Timegm(s) = [day |-> d + c \div MsPerDay, ms |-> c % MsPerDay]
  BY <1>2, TimegmIs
<1>4. c \in Nat /\ c < MsPerDay
  <2>1. s.hour \in 0..23 /\ ShownBy(c, s.hour, s.min, s.sec, s.millis)
    BY <1>1, SMTT(30) DEF ShownBy, Clocked
  <2> HIDE DEF c
  <2>2. QED BY <2>1, ClockInDay, Zenon
<1>5. d \in Int /\ DayNumber(s.year, s.month, 1) \in Int
      /\ d = DayNumber(s.year, s.month, 1) + s.mday - 1
  <2>1. \A y \in Int, m \in 1..12, i \in Int :
           DayNumber(y, m, i) \in Int /\ DayNumber(y, m, i) = DayNumber(y, m, 1) + i - 1
    BY DayNumberType
  <2>2. 1 \in Int
    OBVIOUS
  <2>3. QED BY <1>1, <2>1, <2>2, Zenon
<1> HIDE DEF c, d
<1>6. c \div MsPerDay = 0 /\ c % MsPerDay = c
  BY <1>4, SMT DEF MsPerDay
<1>7. Timegm(s) = [day |-> d + 0, ms |-> c]
  BY <1>3, <1>6
<1>8. Timegm(s).day = d + 0 /\ Timegm(s).ms = c
  BY <1>7
<1>9. QED
  BY <1>1, <1>5, <1>8 DEF c

\* gmtime_r() gives back the date that timegm() took.
LEMMA GmtimeOfTimegm ==
  ASSUME NEW s \in Stamps, IsDate(s)
  PROVE  Gmtime(Timegm(s)) = s
<1> DEFINE t == Timegm(s)
           g == Gmtime(t)
<1>1. t \in Times
  BY TimegmType
<1>2. t.day - DayNumber(s.year, s.month, 1) + 1 = s.mday /\ t.ms = Clocked(s)
  BY TimegmOfDate
<1> HIDE DEF t
<1>3. /\ g \in Dates
      /\ IsYearOf(g.year, t.day) /\ IsMonthOf(g.month, g.year, t.day)
      /\ g.mday = t.day - DayNumber(g.year, g.month, 1) + 1
      /\ Clocked(g) = t.ms
      /\ g.hour \in 0..23 /\ g.min \in 0..59 /\ g.sec \in 0..59 /\ g.millis \in Millis
  BY <1>1, GmtimeIs
<1> HIDE DEF g
<1>4. t.day \in Int
  BY <1>1, TimesAre
<1>5. /\ s.year \in Int /\ s.month \in 1..12 /\ s.mday \in 1..DaysIn(s.year, s.month)
      /\ s.hour \in Int /\ s.min \in 0..59 /\ s.sec \in 0..59 /\ s.millis \in Millis
  <2>1. s.year \in Nat /\ s.millis \in Millis
    BY StampFields
  <2>2. /\ s.month \in 1..12 /\ s.mday \in 1..DaysIn(s.year, s.month)
        /\ s.hour \in 0..23 /\ s.min \in 0..59 /\ s.sec \in 0..59
    BY Zenon DEF IsDate
  <2>3. s.year \in Int /\ s.hour \in Int
    BY <2>1, <2>2
  <2>4. QED BY <2>1, <2>2, <2>3, Zenon
<1>6. g.year \in Int /\ g.month \in 1..12 /\ g.hour \in Int
  BY <1>3 DEF Dates
<1>7. IsYearOf(s.year, t.day) /\ IsMonthOf(s.month, s.year, t.day)
  <2>1. t.day - DayNumber(s.year, s.month, 1) + 1 \in 1..DaysIn(s.year, s.month)
    BY <1>2, <1>5
  <2>2. QED BY <1>4, <1>5, <2>1, MonthHolds
<1>8. g.year = s.year
  BY <1>3, <1>4, <1>5, <1>6, <1>7, OneYear
<1>9. g.month = s.month
  <2>1. IsMonthOf(g.month, s.year, t.day)
    BY <1>3, <1>8, Zenon
  <2>2. QED BY <1>4, <1>5, <1>6, <1>7, <2>1, OneMonth
<1>10. g.mday = s.mday
  <2>1. g.mday = t.day - DayNumber(s.year, s.month, 1) + 1
    BY <1>3, <1>8, <1>9, Zenon
  <2>2. QED BY <1>2, <2>1, Zenon
<1>11. g.hour = s.hour /\ g.min = s.min /\ g.sec = s.sec /\ g.millis = s.millis
  <2>1. Clocked(g) = t.ms /\ Clocked(s) = t.ms
    BY <1>2, <1>3, Zenon
  <2>2. ShownBy(t.ms, g.hour, g.min, g.sec, g.millis)
    BY <1>3, <1>6, <2>1, SMTT(30) DEF ShownBy, Clocked
  <2>3. ShownBy(t.ms, s.hour, s.min, s.sec, s.millis)
    BY <1>5, <2>1, SMTT(30) DEF ShownBy, Clocked
  <2>4. QED BY <2>2, <2>3, OneClock, SMTT(30)
<1>12. g = [year |-> g.year, month |-> g.month, mday |-> g.mday, hour |-> g.hour,
            min |-> g.min, sec |-> g.sec, millis |-> g.millis]
  BY <1>3 DEF Dates
<1>13. s = [year |-> s.year, month |-> s.month, mday |-> s.mday, hour |-> s.hour,
            min |-> s.min, sec |-> s.sec, millis |-> s.millis]
  BY StampFields
<1>14. g = s
  BY <1>8, <1>9, <1>10, <1>11, <1>12, <1>13, Zenon
<1>15. QED
  BY <1>14 DEF g, t

\* parseTimestamp() takes the digits of a line for a stamp just when the calendar has
\* that date, from the year 1970 on, and the clock can hold it: comparing the fields
\* that gmtime_r() gives back with those that were read refuses a 30 February, an hour
\* 24 and a second 60, and no date beside.
THEOREM OnlyDatesAreStamps ==
  ASSUME NEW s \in Stamps
  PROVE  IsStamp(s) <=> s.year >= 1970 /\ IsDate(s) /\ NotLater(Timegm(s), LastTime)
<1> DEFINE t == Timegm(s)
           Early(year) == ~ (year >= 1970)
           Past(year) == year >= 0
<1>1. t \in Times
  BY TimegmType
<1>2. IsStamp(s) <=> Past(s.year) /\ t.day >= 0 /\ NotLater(t, LastTime) /\ Gmtime(t) = s
  BY Zenon DEF IsStamp
<1>3. Past(s.year)
  <2> HIDE DEF t
  <2>1. s.year \in Nat
    BY StampFields
  <2>2. QED BY <2>1
<1>4. IsDate(s) => Gmtime(t) = s
  BY GmtimeOfTimegm
<1> HIDE DEF t
<1>5. IsDate(Gmtime(t)) /\ (t.day >= 0 <=> ~ Early(Gmtime(t).year))
  BY <1>1, GmtimeIsDate
<1> HIDE DEF Early, Past
<1>6. IsStamp(s) <=> ~ Early(s.year) /\ IsDate(s) /\ NotLater(t, LastTime)
  BY <1>2, <1>3, <1>4, <1>5, Zenon
<1>7. QED
  BY <1>6, SMT DEF t, Early

-----------------------------------------------------------------------------
(* The message.                                                             *)

\* A character is a byte or a head, in any case a number.
LEMMA CharsAreNumbers == ASSUME NEW c \in Chars PROVE c \in Nat
<1>1. CASE c \in Heads
  BY <1>1, LogRecordAssumption
<1>2. CASE c \in 0..255
  BY <1>2
<1>3. QED
  BY <1>1, <1>2 DEF Chars

\* A byte is a character.
LEMMA SmallChars == ASSUME NEW c \in Nat, c < 256 PROVE c \in Chars
BY SMT DEF Chars

\* shortUnescape() undoes shortEscape().
LEMMA ShortBack ==
  ASSUME NEW b \in DOMAIN ShortEscape
  PROVE  /\ ShortEscape[b] \in DOMAIN ShortUnescape /\ ShortUnescape[ShortEscape[b]] = b
         /\ ShortEscape[b] \in Nat /\ ShortEscape[b] < 256 /\ ShortEscape[b] # LF
<1>1. DOMAIN ShortEscape = {92, 10, 13, 9} /\ DOMAIN ShortUnescape = {92, 110, 114, 116}
  BY DEF ShortEscape, ShortUnescape, Backslash, LF
<1>2. /\ ShortEscape[92] = 92 /\ ShortEscape[10] = 110 /\ ShortEscape[13] = 114 /\ ShortEscape[9] = 116
      /\ ShortUnescape[92] = 92 /\ ShortUnescape[110] = 10 /\ ShortUnescape[114] = 13
      /\ ShortUnescape[116] = 9
  BY SMT DEF ShortEscape, ShortUnescape, Backslash, LF
<1>3. QED
  BY <1>1, <1>2, SMT DEF LF

\* hexValue() undoes kHexDigits.
LEMMA HexBack ==
  ASSUME NEW v \in Nat, v < 16
  PROVE  /\ HexDigit(v) \in HexDigits /\ HexValue(HexDigit(v)) = v
         /\ HexDigit(v) \in Nat /\ HexDigit(v) < 256 /\ HexDigit(v) # LF
<1>1. CASE v < 10
  BY <1>1, SMT DEF HexDigit, HexDigits, HexValue, LF
<1>2. CASE v >= 10
  BY <1>2, SMT DEF HexDigit, HexDigits, HexValue, LF
<1>3. QED
  BY <1>1, <1>2

IsShort(b) == b \in DOMAIN ShortEscape /\ EscapeByte(b) = <<Backslash, ShortEscape[b]>>

IsHex(b) ==
    /\ b \in Nat /\ b < 128
    /\ EscapeByte(b) = <<Backslash, LetterX, HexDigit(b \div 16), HexDigit(b % 16)>>

IsPlain(b) == b # Backslash /\ b # LF /\ EscapeByte(b) = <<b>>

\* The three cases of escapeMessage().
LEMMA EscapeByteIs == ASSUME NEW b \in Chars PROVE IsShort(b) \/ IsHex(b) \/ IsPlain(b)
<1>1. CASE b \in DOMAIN ShortEscape
  BY <1>1 DEF EscapeByte, IsShort
<1>2. CASE b \notin DOMAIN ShortEscape /\ IsControl(b)
  <2>1. b \in Nat /\ b < 128
    BY <1>2, CharsAreNumbers DEF IsControl
  <2>2. EscapeByte(b) = <<Backslash, LetterX, HexDigit(b \div 16), HexDigit(b % 16)>>
    BY <1>2, Zenon DEF EscapeByte
  <2>3. QED BY <2>1, <2>2 DEF IsHex
<1>3. CASE b \notin DOMAIN ShortEscape /\ ~ IsControl(b)
  <2>1. DOMAIN ShortEscape = {Backslash, LF, 13, 9}
    BY DEF ShortEscape
  <2>2. b # Backslash /\ b # LF
    BY <1>3, <2>1
  <2>3. EscapeByte(b) = <<b>>
    BY <1>3, Zenon DEF EscapeByte
  <2>4. QED BY <2>2, <2>3 DEF IsPlain
<1>4. QED
  BY <1>1, <1>2, <1>3

\* A round of unescapeMessage() whose place is at what escapeMessage() made of a byte.
Shows(text, p, e) == p + Len(e) =< Len(text) + 1 /\ \A i \in 1..Len(e) : text[p + i - 1] = e[i]

\* It puts the byte out and goes on behind it.
LEMMA RoundUndoes ==
  ASSUME NEW text \in Seq(Chars), NEW p \in Nat \ {0}, NEW out, NEW b \in Chars,
         Shows(text, p, EscapeByte(b))
  PROVE  UnescapeRound(text, [at |-> p, out |-> out])
            = [at |-> p + Len(EscapeByte(b)), out |-> Append(out, b)]
<1> DEFINE s == [at |-> p, out |-> out]
           c(n) == IF s.at + n =< Len(text) THEN text[s.at + n] ELSE -1
           e == EscapeByte(b)
<1>1. s.at = p /\ s.out = out /\ Len(text) \in Nat /\ p \in Nat
  BY LenProperties
<1> HIDE DEF s
<1>2. UnescapeRound(text, s) =
        CASE s.at > Len(text) -> s
          [] c(0) = Backslash /\ c(1) \in DOMAIN ShortUnescape -> Put(s, 2, ShortUnescape[c(1)])
          [] c(0) = Backslash /\ c(1) = LetterX /\ c(2) \in HexDigits /\ c(3) \in HexDigits ->
                Put(s, 4, 16 * HexValue(c(2)) + HexValue(c(3)))
          [] OTHER -> Put(s, 1, c(0))
  BY DEF UnescapeRound
<1>3. \A n, x : Put(s, n, x) = [at |-> p + n, out |-> Append(out, x)]
  BY <1>1 DEF Put
<1>4. \A n \in Nat : n < Len(e) /\ Len(e) \in Nat => ~ (p > Len(text)) /\ c(n) = e[n + 1]
  <2> SUFFICES ASSUME NEW n \in Nat, n < Len(e), Len(e) \in Nat
               PROVE  ~ (p > Len(text)) /\ c(n) = e[n + 1]
    OBVIOUS
  <2>1. n + 1 \in 1..Len(e) /\ p + (n + 1) - 1 = p + n
    BY <1>1
  <2>2. p + Len(e) =< Len(text) + 1 /\ text[p + n] = e[n + 1]
    BY <2>1 DEF Shows
  <2>3. p + n =< Len(text) /\ ~ (p > Len(text))
    BY <1>1, <2>2
  <2>4. QED BY <1>1, <2>2, <2>3
<1> HIDE DEF c, e
<1>5. CASE IsShort(b)
  <2>1. e = <<Backslash, ShortEscape[b]>> /\ Len(e) = 2 /\ e[1] = Backslash /\ e[2] = ShortEscape[b]
    BY <1>5 DEF IsShort, e
  <2>2. ~ (p > Len(text)) /\ c(0) = Backslash /\ c(1) = ShortEscape[b]
    BY <1>4, <2>1
  <2>3. c(1) \in DOMAIN ShortUnescape /\ ShortUnescape[c(1)] = b
    BY <1>5, <2>2, ShortBack DEF IsShort
  <2>6. c(1) # LetterX
    BY <2>3 DEF LetterX, ShortUnescape, Backslash
  <2>4. UnescapeRound(text, s) = Put(s, 2, ShortUnescape[c(1)])
    BY <1>1, <1>2, <2>2, <2>3, <2>6
  <2>5. QED BY <1>3, <2>1, <2>3, <2>4, Zenon DEF e, s
<1>6. CASE IsHex(b)
  <2> DEFINE h == HexDigit(b \div 16)
             l == HexDigit(b % 16)
  <2>1. e = <<Backslash, LetterX, h, l>>
    BY <1>6 DEF IsHex, e
  <2>2. b \in Nat /\ b \div 16 \in Nat /\ b \div 16 < 16 /\ b % 16 \in Nat /\ b % 16 < 16
        /\ b = 16 * (b \div 16) + (b % 16)
    BY <1>6 DEF IsHex
  <2>3. h \in HexDigits /\ l \in HexDigits /\ HexValue(h) = b \div 16 /\ HexValue(l) = b % 16
    BY <2>2, HexBack
  <2> HIDE DEF h, l
  <2>4. Len(e) = 4 /\ e[1] = Backslash /\ e[2] = LetterX /\ e[3] = h /\ e[4] = l
    BY <2>1
  <2>5. ~ (p > Len(text)) /\ c(0) = Backslash /\ c(1) = LetterX /\ c(2) = h /\ c(3) = l
    BY <1>4, <2>4
  <2>6. LetterX \notin DOMAIN ShortUnescape
    BY DEF LetterX, ShortUnescape, Backslash
  <2>7. UnescapeRound(text, s) = Put(s, 4, 16 * HexValue(c(2)) + HexValue(c(3)))
    BY <1>1, <1>2, <2>3, <2>5, <2>6
  <2>8. 16 * HexValue(c(2)) + HexValue(c(3)) = b
    BY <2>2, <2>3, <2>5
  <2>9. QED BY <1>3, <2>4, <2>7, <2>8, Zenon DEF e, s
<1>7. CASE IsPlain(b)
  <2>1. e = <<b>> /\ Len(e) = 1 /\ e[1] = b
    BY <1>7 DEF IsPlain, e
  <2>2. ~ (p > Len(text)) /\ c(0) = b
    BY <1>4, <2>1
  <2>3. c(0) # Backslash
    BY <1>7, <2>2 DEF IsPlain
  <2>4. UnescapeRound(text, s) = Put(s, 1, c(0))
    BY <1>1, <1>2, <2>2, <2>3
  <2>5. QED BY <1>3, <2>1, <2>2, <2>4, Zenon DEF e, s
<1>8. QED
  BY <1>5, <1>6, <1>7, EscapeByteIs

\* What escapeMessage() makes of a byte has no newline.
LEMMA EscapeByteType ==
  ASSUME NEW b \in Chars
  PROVE  EscapeByte(b) \in Seq(Chars \ {LF}) /\ Len(EscapeByte(b)) \in Nat \ {0}
<1> DEFINE P == Chars \ {LF}
<1>1. Backslash \in P /\ LetterX \in P
  BY SmallChars, SMT DEF Backslash, LetterX, LF
<1>2. CASE IsShort(b)
  <2>1. ShortEscape[b] \in P
    BY <1>2, ShortBack, SmallChars DEF IsShort
  <2> HIDE DEF P
  <2>2. <<Backslash, ShortEscape[b]>> \in Seq(P)
    BY <1>1, <2>1
  <2>3. QED BY <1>2, <2>2 DEF IsShort, P
<1>3. CASE IsHex(b)
  <2> DEFINE h == HexDigit(b \div 16)
             l == HexDigit(b % 16)
  <2>1. b \in Nat /\ b \div 16 \in Nat /\ b \div 16 < 16 /\ b % 16 \in Nat /\ b % 16 < 16
    BY <1>3 DEF IsHex
  <2>2. h \in P /\ l \in P
    BY <2>1, HexBack, SmallChars
  <2> HIDE DEF P, h, l
  <2>3. <<Backslash, LetterX, h, l>> \in Seq(P)
    BY <1>1, <2>2
  <2>4. EscapeByte(b) = <<Backslash, LetterX, h, l>>
    BY <1>3 DEF IsHex, h, l
  <2>5. QED BY <2>3, <2>4 DEF P
<1>4. CASE IsPlain(b)
  <2>1. b \in P
    BY <1>4 DEF IsPlain
  <2> HIDE DEF P
  <2>2. QED BY <1>4, <2>1 DEF IsPlain, P
<1>5. QED
  BY <1>2, <1>3, <1>4, EscapeByteIs

\* escapeMessage() goes through the message from its first byte on.
LEMMA EscapeSteps ==
  ASSUME NEW m \in Seq(Chars)
  PROVE  \E f \in [0..Len(m) -> Seq(Chars \ {LF})] :
            /\ f[0] = << >>
            /\ \A n \in 1..Len(m) : f[n] = f[n - 1] \o EscapeByte(m[n])
            /\ Escape(m) = f[Len(m)]
<1> DEFINE N == Len(m)
           Solves(f) == f = [n \in 0..N |-> IF n = 0 THEN << >>
                                            ELSE f[n - 1] \o EscapeByte(m[n])]
           step == [n \in 1..N |-> [v \in Seq(Chars \ {LF}) |-> v \o EscapeByte(m[n])]]
           it == CHOOSE f : Solves(f)
<1>1. N \in Nat /\ \A n \in 1..N : m[n] \in Chars
  BY ElementOfSeq, LenProperties
<1>2. Escape(m) = it[N]
  BY DEF Escape
<1>0. << >> \in Seq(Chars \ {LF})
  OBVIOUS
<1>3. \A n \in 1..N, v \in Seq(Chars \ {LF}) : v \o EscapeByte(m[n]) \in Seq(Chars \ {LF})
  <2> SUFFICES ASSUME NEW n \in 1..N, NEW v \in Seq(Chars \ {LF})
               PROVE  v \o EscapeByte(m[n]) \in Seq(Chars \ {LF})
    OBVIOUS
  <2>1. EscapeByte(m[n]) \in Seq(Chars \ {LF})
    BY <1>1, EscapeByteType
  <2>2. QED BY <2>1, ConcatProperties
<1> HIDE DEF N
<1>4. \E f : Solves(f)
  <2>1. \A n \in 1..N, v \in Seq(Chars \ {LF}) : step[n][v] = v \o EscapeByte(m[n]) /\ step[n][v] \in Seq(Chars \ {LF})
    BY <1>3
  <2> HIDE DEF step
  <2>2. PICK f \in [0..N -> Seq(Chars \ {LF})] : f[0] = << >> /\ \A n \in 1..N : f[n] = step[n][f[n - 1]]
    <3>1. StaysIn(Seq(Chars \ {LF}), N, step)
      BY <2>1 DEF StaysIn
    <3>2. \E f \in [0..N -> Seq(Chars \ {LF})] : Iterates(f, << >>, N, step)
      BY <1>1, <1>0, <3>1, RecursionExists
    <3>3. QED BY <3>2 DEF Iterates
  <2>3. ASSUME NEW n \in 0..N
        PROVE  f[n] = IF n = 0 THEN << >> ELSE f[n - 1] \o EscapeByte(m[n])
    <3>1. CASE n = 0
      BY <2>2, <3>1
    <3>2. CASE n # 0
      <4>1. n \in 1..N /\ n - 1 \in 0..N
        BY <1>1, <3>2
      <4>2. f[n] = step[n][f[n - 1]] /\ f[n - 1] \in Seq(Chars \ {LF})
        BY <2>2, <3>2, <4>1
      <4>3. QED BY <2>1, <3>2, <4>1, <4>2
    <3>3. QED BY <3>1, <3>2
  <2> DEFINE g == [n \in 0..N |-> IF n = 0 THEN << >> ELSE f[n - 1] \o EscapeByte(m[n])]
  <2>4. f = g
    <3>1. \A n \in 0..N : f[n] = g[n]
      BY <2>3
    <3>2. f = [n \in 0..N |-> f[n]] /\ g = [n \in 0..N |-> g[n]]
      OBVIOUS
    <3> HIDE DEF g
    <3>3. QED BY <3>1, <3>2
  <2>5. Solves(f)
    BY <2>4
  <2>6. QED BY <2>5
<1>5. Solves(it)
  <2> HIDE DEF Solves
  <2>1. QED BY <1>4
<1> HIDE DEF it
<1>6. it[0] = << >> /\ \A n \in 1..N : it[n] = it[n - 1] \o EscapeByte(m[n])
  BY <1>1, <1>5
<1> DEFINE K == {n \in Nat : n =< N => it[n] \in Seq(Chars \ {LF})}
<1>7. 0 \in K
  BY <1>6, <1>0
<1>8. ASSUME NEW n \in Nat, n \in K PROVE n + 1 \in K
  <2> SUFFICES ASSUME n + 1 =< N PROVE it[n + 1] \in Seq(Chars \ {LF})
    OBVIOUS
  <2>1. n + 1 \in 1..N /\ (n + 1) - 1 = n /\ it[n] \in Seq(Chars \ {LF})
    BY <1>1, <1>8
  <2>2. it[n + 1] = it[n] \o EscapeByte(m[n + 1])
    BY <1>6, <2>1
  <2>3. QED BY <1>3, <2>1, <2>2
<1>9. Nat \subseteq K
  <2> HIDE DEF K
  <2>1. QED BY <1>7, <1>8, SetInduction
<1>10. it \in [0..N -> Seq(Chars \ {LF})]
  BY <1>1, <1>5, <1>9
<1>11. QED
  BY <1>2, <1>6, <1>10 DEF N

\* The output of escapeMessage() only grows.
Extends(longer, word) ==
    Len(word) =< Len(longer) /\ \A i \in 1..Len(word) : longer[i] = word[i]

\* A word and another behind it.
LEMMA ConcatExtends ==
  ASSUME NEW S, NEW word \in Seq(S), NEW more \in Seq(S)
  PROVE  /\ Extends(word \o more, word)
         /\ Len(word \o more) = Len(word) + Len(more)
         /\ \A i \in 1..Len(more) : (word \o more)[Len(word) + i] = more[i]
<1>1. Len(word) \in Nat /\ Len(more) \in Nat
  BY LenProperties
<1>2. /\ Len(word \o more) = Len(word) + Len(more)
      /\ \A i \in 1..Len(word) + Len(more) :
            (word \o more)[i] = IF i =< Len(word) THEN word[i] ELSE more[i - Len(word)]
  BY ConcatProperties
<1>3. \A i \in 1..Len(word) : (word \o more)[i] = word[i]
  BY <1>1, <1>2
<1>4. ASSUME NEW i \in 1..Len(more) PROVE (word \o more)[Len(word) + i] = more[i]
  <2>1. /\ Len(word) + i \in 1..Len(word) + Len(more) /\ ~ (Len(word) + i =< Len(word))
        /\ (Len(word) + i) - Len(word) = i
    BY <1>1
  <2>2. QED BY <1>2, <2>1
<1>5. QED
  BY <1>1, <1>2, <1>3, <1>4 DEF Extends

\* Behind the last byte a round does nothing.
LEMMA OneRoundMore ==
  ASSUME NEW text, NEW s, s.at > Len(text), s.at \in Nat, Len(text) \in Nat
  PROVE  UnescapeRound(text, s) = s
<1>1. ~ (s.at =< Len(text)) /\ s.at + 0 = s.at
  OBVIOUS
<1>2. -1 # Backslash
  BY DEF Backslash
<1>3. QED
  BY <1>1, <1>2 DEF UnescapeRound

\* A record's message comes back: unescapeMessage() undoes escapeMessage().
LEMMA UnescapeOfEscape == ASSUME NEW m \in Seq(Chars) PROVE Unescape(Escape(m)) = m
<1> DEFINE M == Len(m)
           P == Chars \ {LF}
           text == Escape(m)
           N == Len(text)
<1>1. M \in Nat /\ \A n \in 1..M : m[n] \in Chars
  BY ElementOfSeq, LenProperties
<1>2. PICK f \in [0..M -> Seq(P)] :
         f[0] = << >> /\ (\A n \in 1..M : f[n] = f[n - 1] \o EscapeByte(m[n])) /\ text = f[M]
  BY EscapeSteps
<1> HIDE DEF P, M, text, N
<1>3. P \subseteq Chars
  BY DEF P
<1>4. ASSUME NEW n \in 1..M
      PROVE  /\ n - 1 \in 0..M /\ n \in 0..M /\ f[n] = f[n - 1] \o EscapeByte(m[n])
             /\ f[n - 1] \in Seq(P) /\ EscapeByte(m[n]) \in Seq(P)
             /\ Len(f[n - 1]) \in Nat /\ Len(EscapeByte(m[n])) \in Nat \ {0}
             /\ Extends(f[n], f[n - 1])
             /\ Len(f[n]) = Len(f[n - 1]) + Len(EscapeByte(m[n]))
             /\ \A i \in 1..Len(EscapeByte(m[n])) : f[n][Len(f[n - 1]) + i] = EscapeByte(m[n])[i]
  <2>1. n - 1 \in 0..M /\ n \in 0..M
    BY <1>1
  <2>2. EscapeByte(m[n]) \in Seq(P) /\ Len(EscapeByte(m[n])) \in Nat \ {0}
    BY <1>1, EscapeByteType DEF P
  <2> DEFINE w == f[n - 1]
             e == EscapeByte(m[n])
  <2>3. w \in Seq(P) /\ e \in Seq(P) /\ f[n] = w \o e
    BY <1>2, <2>1, <2>2
  <2> HIDE DEF w, e
  <2>4. /\ Extends(w \o e, w)
        /\ Len(w \o e) = Len(w) + Len(e)
        /\ \A i \in 1..Len(e) : (w \o e)[Len(w) + i] = e[i]
    BY <2>3, ConcatExtends
  <2>5. /\ Extends(f[n], w) /\ Len(f[n]) = Len(w) + Len(e)
        /\ \A i \in 1..Len(e) : f[n][Len(w) + i] = e[i]
    BY <2>3, <2>4
  <2>6. Len(w) \in Nat
    BY <2>3, LenProperties
  <2>7. QED BY <2>1, <2>2, <2>3, <2>5, <2>6 DEF w, e
<1>5. \A n \in 0..M : f[n] \in Seq(P) /\ Len(f[n]) \in Nat
  BY <1>2, LenProperties
<1> DEFINE At(k) == Len(f[k]) + 1
           So(k) == SubSeq(m, 1, k)
           state(k) == [at |-> At(k), out |-> So(k)]
           K == {k \in Nat : k =< M => Len(f[k]) >= k}
<1>6. 0 \in K
  BY <1>1, <1>5
<1>7. ASSUME NEW k \in Nat, k \in K PROVE k + 1 \in K
  <2> SUFFICES ASSUME k + 1 =< M PROVE Len(f[k + 1]) >= k + 1
    OBVIOUS
  <2>1. k + 1 \in 1..M /\ (k + 1) - 1 = k /\ Len(f[k]) >= k
    BY <1>1, <1>7
  <2> DEFINE a == Len(f[k])
             b == Len(EscapeByte(m[k + 1]))
             c == Len(f[k + 1])
  <2>2. c = a + b /\ a \in Nat /\ b \in Nat \ {0}
    BY <1>4, <2>1
  <2>3. a >= k
    BY <2>1
  <2> HIDE DEF a, b, c
  <2>4. c >= k + 1
    BY <2>2, <2>3
  <2>5. QED BY <2>4 DEF c
<1>8. M =< N /\ N \in Nat
  <2>1. Nat \subseteq K
    <3> HIDE DEF K
    <3>1. QED BY <1>6, <1>7, SetInduction
  <2>3. M \in K
    <3> HIDE DEF K
    <3>1. QED BY <1>1, <2>1
  <2>4. M >= 0 /\ M \in 0..M
    BY <1>1
  <2>2. QED BY <1>2, <1>5, <2>3, <2>4 DEF N
<1>9. ASSUME NEW k \in 0..M PROVE Extends(text, f[k])
  <2> DEFINE J == {j \in Nat : k + j =< M => Extends(f[k + j], f[k])}
  <2>1. k \in Nat /\ k =< M
    BY <1>1
  <2>2. 0 \in J
    BY <1>5, <2>1 DEF Extends
  <2>3. ASSUME NEW j \in Nat, j \in J PROVE j + 1 \in J
    <3> SUFFICES ASSUME k + (j + 1) =< M PROVE Extends(f[k + (j + 1)], f[k])
      OBVIOUS
    <3>1. k + (j + 1) \in 1..M /\ (k + (j + 1)) - 1 = k + j /\ k + j =< M /\ k + j \in 0..M
      BY <1>1, <2>1
    <3>2. Extends(f[k + j], f[k])
      BY <2>3, <3>1
    <3>3. Extends(f[k + (j + 1)], f[k + j])
      BY <1>4, <3>1
    <3>4. Len(f[k + (j + 1)]) \in Nat /\ Len(f[k + j]) \in Nat /\ Len(f[k]) \in Nat
      BY <1>1, <1>5, <3>1
    <3>5. QED BY <3>2, <3>3, <3>4 DEF Extends
  <2>4. Nat \subseteq J
    <3> HIDE DEF J
    <3>1. QED BY <2>2, <2>3, SetInduction
  <2>5. M - k \in Nat /\ k + (M - k) = M
    BY <1>1, <2>1
  <2>6. M - k \in J
    <3> HIDE DEF J
    <3>1. QED BY <2>4, <2>5
  <2>7. Extends(f[k + (M - k)], f[k])
    BY <1>1, <2>5, <2>6
  <2>8. QED BY <1>2, <2>5, <2>7
<1>10. text \in Seq(Chars)
  <2>1. text \in Seq(P)
    BY <1>1, <1>2, <1>5
  <2>2. QED BY <1>3, <2>1, SeqMonotonic
<1>11. ASSUME NEW k \in Nat, k + 1 =< M
       PROVE  UnescapeRound(text, state(k)) = state(k + 1)
  <2> DEFINE e == EscapeByte(m[k + 1])
             p == Len(f[k]) + 1
  <2>1. k + 1 \in 1..M /\ (k + 1) - 1 = k /\ k + 1 \in 0..M /\ k \in 0..M
    BY <1>1, <1>11
  <2>2. /\ f[k + 1] = f[k] \o e /\ f[k] \in Seq(P) /\ e \in Seq(P)
        /\ Len(f[k]) \in Nat /\ Len(e) \in Nat \ {0}
    BY <1>4, <2>1
  <2>3. /\ Len(f[k + 1]) = Len(f[k]) + Len(e)
        /\ \A i \in 1..Len(e) : f[k + 1][Len(f[k]) + i] = e[i]
    BY <1>4, <2>1
  <2> HIDE DEF e
  <2>4. Extends(text, f[k + 1])
    BY <1>9, <2>1
  <2>5. Shows(text, p, e)
    <3>1. p + Len(e) =< Len(text) + 1
      BY <1>8, <2>2, <2>3, <2>4 DEF Extends, N
    <3>2. ASSUME NEW i \in 1..Len(e) PROVE text[p + i - 1] = e[i]
      <4>1. p + i - 1 = Len(f[k]) + i /\ Len(f[k]) + i \in 1..Len(f[k + 1])
        BY <2>2, <2>3
      <4>2. QED BY <2>3, <2>4, <4>1 DEF Extends
    <3>3. QED BY <3>1, <3>2 DEF Shows
  <2>6. p \in Nat \ {0} /\ m[k + 1] \in Chars
    BY <1>1, <2>1, <2>2
  <2>7. UnescapeRound(text, [at |-> p, out |-> So(k)])
          = [at |-> p + Len(e), out |-> Append(So(k), m[k + 1])]
    <3> DEFINE b == m[k + 1]
               o == So(k)
    <3>1. Shows(text, p, EscapeByte(b)) /\ b \in Chars
      BY <2>5, <2>6 DEF e
    <3> HIDE DEF p, b, o
    <3>2. UnescapeRound(text, [at |-> p, out |-> o])
            = [at |-> p + Len(EscapeByte(b)), out |-> Append(o, b)]
      BY <1>10, <2>6, <3>1, RoundUndoes
    <3>3. QED BY <3>2 DEF b, o, e
  <2>8. p + Len(e) = At(k + 1)
    BY <2>2, <2>3
  <2>9. So(k + 1) = Append(So(k), m[k + 1])
    <3>1. 1 \in 1..M
      BY <1>1, <1>11
    <3>2. So(k + 1) = So(k) \o <<m[k + 1]>>
      BY <2>1, <3>1, SubSeqRecursiveSecond DEF M
    <3>3. So(k) \in Seq(Chars) /\ m[k + 1] \in Chars
      <4>1. \A i \in 1..k : m[i] \in Chars
        BY <1>1, <1>11
      <4>2. QED BY <2>6, <4>1, SubSeqProperties
    <3>4. QED BY <3>2, <3>3, AppendIsConcat
  <2>10. QED BY <2>7, <2>8, <2>9
<1>12. UnescapeRound(text, state(M)) = state(M)
  <2>1. state(M).at > Len(text) /\ state(M).at \in Nat /\ Len(text) \in Nat
    BY <1>2, <1>8 DEF N
  <2> HIDE DEF state
  <2>2. QED BY <2>1, OneRoundMore
<1>13. Unescape(text) = state(M).out
  <2> DEFINE Base == [at |-> 1, out |-> << >>]
             Solves(h) == h = [n \in 0..N |-> IF n = 0 THEN Base ELSE UnescapeRound(text, h[n - 1])]
             it == CHOOSE h : Solves(h)
             in(n) == IF n =< M THEN n ELSE M
             g == [n \in 0..N |-> state(in(n))]
  <2>1. Unescape(text) = it[N].out
    BY DEF Unescape, N
  <2>2. state(0) = Base
    <3>1. At(0) = 1
      BY <1>2
    <3>2. So(0) = << >>
      BY SubSeqEmpty
    <3>3. QED BY <3>1, <3>2
  <2> HIDE DEF state, N, text, Base
  <2>3. \A n \in 0..N : g[n] = IF n = 0 THEN Base ELSE UnescapeRound(text, g[n - 1])
    <3> SUFFICES ASSUME NEW n \in 0..N
                 PROVE  g[n] = IF n = 0 THEN Base ELSE UnescapeRound(text, g[n - 1])
      OBVIOUS
    <3>1. CASE n = 0
      BY <1>1, <1>8, <2>2, <3>1
    <3>2. CASE n # 0
      <4>1. n - 1 \in 0..N /\ n - 1 \in Nat /\ (n - 1) + 1 = n /\ n \in Nat
        BY <1>8, <3>2
      <4>2. CASE n =< M
        <5>1. g[n] = state(n) /\ g[n - 1] = state(n - 1)
          BY <1>1, <4>1, <4>2
        <5>2. state(n) = UnescapeRound(text, state(n - 1))
          BY <1>11, <4>1, <4>2
        <5>3. QED BY <3>2, <5>1, <5>2
      <4>3. CASE n > M
        <5>1. g[n] = state(M) /\ g[n - 1] = state(M)
          BY <1>1, <4>1, <4>3
        <5>2. QED BY <1>12, <3>2, <5>1
      <4>4. QED BY <1>1, <4>1, <4>2, <4>3
    <3>3. QED BY <3>1, <3>2
  <2> DEFINE h == [n \in 0..N |-> IF n = 0 THEN Base ELSE UnescapeRound(text, g[n - 1])]
  <2>4. Solves(g)
    <3>1. g = [n \in 0..N |-> g[n]]
      OBVIOUS
    <3> HIDE DEF g
    <3>2. g = h
      BY <2>3, <3>1
    <3>3. QED BY <3>2
  <2>5. Solves(it)
    <3>1. \E x : Solves(x)
      <4> HIDE DEF g, Solves
      <4>1. QED BY <2>4
    <3> HIDE DEF Solves
    <3>2. QED BY <3>1
  <2> HIDE DEF it, g
  <2>6. it[0] = Base /\ \A n \in 1..N : it[n] = UnescapeRound(text, it[n - 1])
    BY <1>8, <2>5
  <2>7. g[0] = Base /\ \A n \in 1..N : g[n] = UnescapeRound(text, g[n - 1])
    BY <1>8, <2>3
  <2> DEFINE L == {n \in Nat : n =< N => it[n] = g[n]}
  <2>8. 0 \in L
    BY <2>6, <2>7
  <2>9. ASSUME NEW n \in Nat, n \in L PROVE n + 1 \in L
    <3> SUFFICES ASSUME n + 1 =< N PROVE it[n + 1] = g[n + 1]
      OBVIOUS
    <3>1. n + 1 \in 1..N /\ (n + 1) - 1 = n /\ it[n] = g[n]
      BY <1>8, <2>9
    <3>2. QED BY <2>6, <2>7, <3>1
  <2>10. Nat \subseteq L
    <3> HIDE DEF L
    <3>1. QED BY <2>8, <2>9, SetInduction
  <2>11. it[N] = g[N]
    BY <1>8, <2>10
  <2>12. g[N] = state(M)
    BY <1>1, <1>8 DEF g
  <2>13. QED BY <2>1, <2>11, <2>12
<1>14. So(M) = m
  BY SubSeqFull DEF M
<1>15. QED
  BY <1>13, <1>14 DEF text

\* What escapeMessage() makes of a message is a line without its end.
LEMMA EscapeType == ASSUME NEW m \in Seq(Chars) PROVE Escape(m) \in Seq(Chars \ {LF})
<1>1. PICK f \in [0..Len(m) -> Seq(Chars \ {LF})] : Escape(m) = f[Len(m)]
  BY EscapeSteps
<1>2. Len(m) \in 0..Len(m)
  BY LenProperties
<1>3. QED
  BY <1>1, <1>2

-----------------------------------------------------------------------------
(* The record.                                                              *)

\* A record that formatRecord() has a head for.
Formattable(r) ==
    /\ r \in [time : Times, level : {r.level}, message : Seq(Chars)]
    /\ NotLater(r.time, LastTime)
    /\ \E h \in Heads : HeadText[h] = [stamp |-> StampOf(r.time), level |-> r.level]

\* parseRecord() takes what formatRecord() writes exactly for the times that have a
\* stamp, and gives the same record back; none has a newline, whatever its message.
THEOREM RecordComesBack ==
  ASSUME NEW r, Formattable(r)
  PROVE  LET line == FormatRecord(r)
         IN  /\ line \in Seq(Chars \ {LF}) /\ line # << >>
             /\ IsRecord(line) <=> Stampable(r.time)
             /\ Stampable(r.time) => ParseRecord(line) = r
<1> DEFINE P == Chars \ {LF}
           text == [stamp |-> StampOf(r.time), level |-> r.level]
           head == CHOOSE h \in Heads : HeadText[h] = text
           e == Escape(r.message)
           line == FormatRecord(r)
<1>1. /\ r.time \in Times /\ r.message \in Seq(Chars) /\ NotLater(r.time, LastTime)
      /\ r = [time |-> r.time, level |-> r.level, message |-> r.message]
  BY DEF Formattable
<1>2. head \in Heads /\ HeadText[head] = text
  <2>1. \E h \in Heads : HeadText[h] = text
    BY DEF Formattable
  <2> HIDE DEF text
  <2>2. QED BY <2>1
<1>3. line = <<head>> \o e
  BY DEF FormatRecord
<1>4. e \in Seq(P) /\ Unescape(e) = r.message
  BY <1>1, EscapeType, UnescapeOfEscape
<1>5. text.stamp = StampOf(r.time) /\ text.level = r.level
  OBVIOUS
<1> HIDE DEF text, e, head
<1>6. head \in P
  <2>1. head \in Chars
    BY <1>2 DEF Chars
  <2>2. LF \in 0..255
    BY SMT DEF LF
  <2>3. head # LF
    BY <1>2, <2>2, LogRecordAssumption, Zenon
  <2>4. QED BY <2>1, <2>3
<1> HIDE DEF P, line
<1>7. line \in Seq(P) /\ line # << >> /\ line[1] = head /\ Tail(line) = e
  <2>1. <<head>> \in Seq(P) /\ Len(<<head>>) = 1 /\ <<head>>[1] = head
    BY <1>6
  <2>2. /\ line \in Seq(P) /\ Len(line) = 1 + Len(e)
        /\ \A i \in 1..1 + Len(e) : line[i] = IF i =< 1 THEN <<head>>[i] ELSE e[i - 1]
    BY <1>3, <1>4, <2>1, ConcatProperties
  <2>3. Len(e) \in Nat
    BY <1>4, LenProperties
  <2>4. line # << >> /\ line[1] = head
    BY <2>1, <2>2, <2>3
  <2>5. Tail(line) = e
    <3>1. /\ Tail(line) \in Seq(P) /\ Len(Tail(line)) = Len(line) - 1
          /\ \A i \in 1..Len(Tail(line)) : Tail(line)[i] = line[i + 1]
      BY <2>2, <2>4, HeadTailProperties
    <3>2. Len(Tail(line)) = Len(e)
      BY <2>2, <2>3, <3>1
    <3>3. \A i \in 1..Len(e) : Tail(line)[i] = e[i]
      BY <2>2, <2>3, <3>1, <3>2
    <3>4. QED BY <1>4, <3>1, <3>2, <3>3, SeqEqual
  <2>6. QED BY <2>2, <2>4, <2>5
<1>8. IsRecord(line) <=> IsStamp(StampOf(r.time))
  BY <1>2, <1>5, <1>7 DEF IsRecord, GoodHeads
<1>9. IsRecord(line) <=> Stampable(r.time)
  BY <1>1, <1>8, StampTells
<1>10. ASSUME Stampable(r.time) PROVE ParseRecord(line) = r
  <2>1. Timegm(StampOf(r.time)) = r.time
    BY <1>1, <1>10, StampTells
  <2>2. ParseRecord(line) = [time |-> Timegm(HeadText[line[1]].stamp),
                             level |-> HeadText[line[1]].level, message |-> Unescape(Tail(line))]
    BY DEF ParseRecord
  <2>3. /\ Timegm(HeadText[line[1]].stamp) = r.time /\ HeadText[line[1]].level = r.level
        /\ Unescape(Tail(line)) = r.message
    BY <1>2, <1>4, <1>5, <1>7, <2>1
  <2>4. QED BY <1>1, <2>2, <2>3
<1>11. QED
  BY <1>7, <1>9, <1>10 DEF P, line

-----------------------------------------------------------------------------
(* The records that are logged.                                             *)

Records == [time : Clock, level : Levels, message : Messages]

-----------------------------------------------------------------------------
(* The lines of the records.                                                *)

\* formatRecord() has a head for each of them.
LEMMA RecordsAreFormattable == ASSUME NEW r \in Records PROVE Formattable(r)
<1>1. /\ r.time \in Clock /\ r.level \in Levels /\ r.message \in Messages
      /\ r = [time |-> r.time, level |-> r.level, message |-> r.message]
  BY DEF Records
<1>2. r.time \in Times /\ NotLater(r.time, LastTime) /\ r.message \in Seq(Chars)
  BY <1>1, DeliveryAssumption
<1>3. r \in [time : Times, level : {r.level}, message : Seq(Chars)]
  BY <1>1, <1>2
<1>4. \E h \in Heads : HeadText[h] = [stamp |-> StampOf(r.time), level |-> r.level]
  <2>1. [stamp |-> StampOf(r.time), level |-> r.level] \in {HeadText[h] : h \in Heads}
    BY <1>1, DeliveryAssumption
  <2>2. QED BY <2>1
<1>5. QED
  BY <1>2, <1>3, <1>4 DEF Formattable

\* The line of a record is one for the LineReader, and for parseRecord() if it has
\* a stamp.
LEMMA LineOfRecord ==
  ASSUME NEW r \in Records
  PROVE  /\ FormatRecord(r) \in Seq(Letters) /\ FormatRecord(r) # << >>
         /\ IsRecord(FormatRecord(r)) <=> Stampable(r.time)
         /\ Stampable(r.time) => ParseRecord(FormatRecord(r)) = r
<1>1. Letters = Chars \ {LF}
  BY DeliveryAssumption
<1>2. QED
  BY <1>1, RecordsAreFormattable, RecordComesBack

-----------------------------------------------------------------------------
(* What the collector counts.                                               *)

Tallies == [counted : Seq(Records), malformed : Nat]

\* consume() of the line of a record.
LEMMA ConsumeRecord ==
  ASSUME NEW t \in Tallies, NEW r \in Records
  PROVE  LET new == ConsumeLine(t, FormatRecord(r))
         IN  /\ new \in Tallies
             /\ Stampable(r.time) => new.counted = Append(t.counted, r) /\ new.malformed = t.malformed
             /\ ~ Stampable(r.time) => new.counted = t.counted /\ new.malformed = t.malformed + 1
<1> DEFINE line == FormatRecord(r)
<1>1. /\ t.counted \in Seq(Records) /\ t.malformed \in Nat
      /\ t = [counted |-> t.counted, malformed |-> t.malformed]
  BY DEF Tallies
<1>2. line # << >> /\ (IsRecord(line) <=> Stampable(r.time))
      /\ (Stampable(r.time) => ParseRecord(line) = r)
  BY LineOfRecord
<1> HIDE DEF line
<1>3. CASE Stampable(r.time)
  <2>1. ConsumeLine(t, line) = [t EXCEPT !.counted = Append(@, r)]
    BY <1>2, <1>3 DEF ConsumeLine
  <2>2. Append(t.counted, r) \in Seq(Records)
    BY <1>1, AppendProperties
  <2>3. ConsumeLine(t, line) = [counted |-> Append(t.counted, r), malformed |-> t.malformed]
    BY <1>1, <2>1
  <2>4. QED BY <1>1, <1>3, <2>2, <2>3 DEF Tallies, line
<1>4. CASE ~ Stampable(r.time)
  <2>1. ConsumeLine(t, line) = [t EXCEPT !.malformed = @ + 1]
    BY <1>2, <1>4 DEF ConsumeLine
  <2>2. ConsumeLine(t, line) = [counted |-> t.counted, malformed |-> t.malformed + 1]
    BY <1>1, <2>1
  <2>3. QED BY <1>1, <1>4, <2>2 DEF Tallies, line
<1>5. QED
  BY <1>3, <1>4

\* run() passes the lines to consume() one by one.
LEMMA ConsumedSteps ==
  ASSUME NEW t \in Tallies, NEW lines, Len(lines) \in Nat,
         \A n \in 1..Len(lines) : \E r \in Records : lines[n] = FormatRecord(r)
  PROVE  \E f \in [0..Len(lines) -> Tallies] :
            /\ f[0] = t
            /\ \A n \in 1..Len(lines) : f[n] = ConsumeLine(f[n - 1], lines[n])
            /\ Consumed(t, lines) = f[Len(lines)]
<1> DEFINE N == Len(lines)
           Solves(f) == f = [n \in 0..N |-> IF n = 0 THEN t
                                            ELSE ConsumeLine(f[n - 1], lines[n])]
           step == [n \in 1..N |-> [v \in Tallies |-> ConsumeLine(v, lines[n])]]
           it == CHOOSE f : Solves(f)
<1>1. N \in Nat
  OBVIOUS
<1>2. Consumed(t, lines) = it[N]
  BY DEF Consumed
<1>0. t \in Tallies
  OBVIOUS
<1>3. \A n \in 1..N, v \in Tallies : ConsumeLine(v, lines[n]) \in Tallies
  <2> SUFFICES ASSUME NEW n \in 1..N, NEW v \in Tallies
               PROVE  ConsumeLine(v, lines[n]) \in Tallies
    OBVIOUS
  <2>1. PICK r \in Records : lines[n] = FormatRecord(r)
    OBVIOUS
  <2>2. QED BY <2>1, ConsumeRecord
<1> HIDE DEF N
<1>4. \E f : Solves(f)
  <2>1. \A n \in 1..N, v \in Tallies : step[n][v] = ConsumeLine(v, lines[n]) /\ step[n][v] \in Tallies
    BY <1>3
  <2> HIDE DEF step
  <2>2. PICK f \in [0..N -> Tallies] : f[0] = t /\ \A n \in 1..N : f[n] = step[n][f[n - 1]]
    <3>1. StaysIn(Tallies, N, step)
      BY <2>1 DEF StaysIn
    <3>2. \E f \in [0..N -> Tallies] : Iterates(f, t, N, step)
      BY <1>1, <1>0, <3>1, RecursionExists
    <3>3. QED BY <3>2 DEF Iterates
  <2>3. ASSUME NEW n \in 0..N
        PROVE  f[n] = IF n = 0 THEN t ELSE ConsumeLine(f[n - 1], lines[n])
    <3>1. CASE n = 0
      BY <2>2, <3>1
    <3>2. CASE n # 0
      <4>1. n \in 1..N /\ n - 1 \in 0..N
        BY <1>1, <3>2
      <4>2. f[n] = step[n][f[n - 1]] /\ f[n - 1] \in Tallies
        BY <2>2, <3>2, <4>1
      <4>3. QED BY <2>1, <3>2, <4>1, <4>2
    <3>3. QED BY <3>1, <3>2
  <2> DEFINE g == [n \in 0..N |-> IF n = 0 THEN t ELSE ConsumeLine(f[n - 1], lines[n])]
  <2>4. f = g
    <3>1. \A n \in 0..N : f[n] = g[n]
      BY <2>3
    <3>2. f = [n \in 0..N |-> f[n]] /\ g = [n \in 0..N |-> g[n]]
      OBVIOUS
    <3> HIDE DEF g
    <3>3. QED BY <3>1, <3>2
  <2>5. Solves(f)
    BY <2>4
  <2>6. QED BY <2>5
<1>5. Solves(it)
  <2> HIDE DEF Solves
  <2>1. QED BY <1>4
<1> HIDE DEF it
<1>6. it[0] = t /\ \A n \in 1..N : it[n] = ConsumeLine(it[n - 1], lines[n])
  BY <1>1, <1>5
<1> DEFINE K == {n \in Nat : n =< N => it[n] \in Tallies}
<1>7. 0 \in K
  BY <1>6, <1>0
<1>8. ASSUME NEW n \in Nat, n \in K PROVE n + 1 \in K
  <2> SUFFICES ASSUME n + 1 =< N PROVE it[n + 1] \in Tallies
    OBVIOUS
  <2>1. n + 1 \in 1..N /\ (n + 1) - 1 = n /\ it[n] \in Tallies
    BY <1>1, <1>8
  <2>2. it[n + 1] = ConsumeLine(it[n], lines[n + 1])
    BY <1>6, <2>1
  <2>3. QED BY <1>3, <2>1, <2>2
<1>9. Nat \subseteq K
  <2> HIDE DEF K
  <2>1. QED BY <1>7, <1>8, SetInduction
<1>10. it \in [0..N -> Tallies]
  BY <1>1, <1>5, <1>9
<1>11. QED
  BY <1>2, <1>6, <1>10 DEF N

\* A log: every call has a time of its own.
IsLog(log) ==
    /\ log \in Seq(Records)
    /\ \A i, j \in DOMAIN log : log[i].time = log[j].time => i = j

\* No frame is over the limit of the LineReader.
AllFit == \A r \in Records : Fits(FormatRecord(r))

Unstampable(log, k) == ~ Stampable(log[k].time)

\* What a tally may say after the calls log, of which those in ok have not failed and
\* those in due can still be counted: only calls of ok, once if nothing is repeated, and
\* what is malformed has a record without a stamp or a repeated datagram behind it.
Found(log, ok, tally) == \A i \in DOMAIN tally.counted : \E k \in ok : tally.counted[i] = log[k]

Once(log, tally, due) ==
    /\ \A i, j \in DOMAIN tally.counted : tally.counted[i] = tally.counted[j] => i = j
    /\ \A i \in DOMAIN tally.counted, k \in due : tally.counted[i] # log[k]

Blamed(log, ok, extra, tally, due) ==
    \E bad \in SUBSET ok :
        /\ \A k \in bad : Unstampable(log, k)
        /\ bad \cap due = {}
        /\ tally.malformed =< extra + Cardinality(bad)

Accounts(log, ok, via, extra, tally, due) ==
    /\ tally \in Tallies
    /\ Found(log, ok, tally)
    /\ via = "tcp" => Once(log, tally, due)
    /\ AllFit => Blamed(log, ok, extra, tally, due)

\* Of two calls that are not the same one, the records are not either.
LEMMA LogIsInjective ==
  ASSUME NEW log, IsLog(log), NEW i \in DOMAIN log, NEW j \in DOMAIN log, log[i] = log[j]
  PROVE  i = j
BY DEF IsLog

\* Calls are numbers, a finite set of them.
LEMMA CallsAreFinite ==
  ASSUME NEW log, IsLog(log), NEW S \in SUBSET (DOMAIN log)
  PROVE  IsFiniteSet(S) /\ Cardinality(S) \in Nat /\ S \subseteq Nat
<1>1. DOMAIN log = 1..Len(log) /\ Len(log) \in Nat
  BY LenProperties DEF IsLog
<1>2. IsFiniteSet(1..Len(log))
  BY <1>1, FS_Interval
<1>3. QED
  BY <1>1, <1>2, FS_Subset, FS_CardinalityType

Lengthens(log, log2) == DOMAIN log \subseteq DOMAIN log2 /\ \A k \in DOMAIN log : log2[k] = log[k]

\* More calls, of which some have not failed, change nothing of an account.
LEMMA AccountsLast ==
  ASSUME NEW log, NEW log2, IsLog(log2), Lengthens(log, log2),
         NEW ok \in SUBSET (DOMAIN log), NEW ok2 \in SUBSET (DOMAIN log2), ok \subseteq ok2,
         NEW due \in SUBSET ok, NEW due2, due2 \subseteq due \cup (ok2 \ ok),
         NEW via, NEW extra, NEW tally, Accounts(log, ok, via, extra, tally, due)
  PROVE  Accounts(log2, ok2, via, extra, tally, due2)
<1>1. /\ tally \in Tallies /\ Found(log, ok, tally)
      /\ via = "tcp" => Once(log, tally, due)
      /\ AllFit => Blamed(log, ok, extra, tally, due)
  BY DEF Accounts
<1>2. \A k \in ok : k \in ok2 /\ k \in DOMAIN log /\ k \in DOMAIN log2 /\ log2[k] = log[k]
  BY DEF Lengthens
<1>3. Found(log2, ok2, tally)
  BY <1>1, <1>2 DEF Found
<1>4. ASSUME Once(log, tally, due) PROVE Once(log2, tally, due2)
  <2>1. ASSUME NEW i \in DOMAIN tally.counted, NEW k \in due2
        PROVE  tally.counted[i] # log2[k]
    <3>1. PICK j \in ok : tally.counted[i] = log[j]
      BY <1>1 DEF Found
    <3>2. CASE k \in due
      BY <1>2, <1>4, <3>2 DEF Once
    <3>3. CASE k \in ok2 \ ok
      <4>1. k \in DOMAIN log2 /\ j \in DOMAIN log2 /\ k # j
        BY <1>2, <3>3
      <4>2. log2[k] # log2[j]
        BY <4>1, LogIsInjective
      <4>3. QED BY <1>2, <3>1, <4>2
    <3>4. QED BY <3>2, <3>3
  <2>2. QED BY <1>4, <2>1 DEF Once
<1>5. ASSUME Blamed(log, ok, extra, tally, due) PROVE Blamed(log2, ok2, extra, tally, due2)
  <2>1. PICK bad \in SUBSET ok :
           /\ \A k \in bad : Unstampable(log, k)
           /\ bad \cap due = {} /\ tally.malformed =< extra + Cardinality(bad)
    BY <1>5 DEF Blamed
  <2>2. bad \in SUBSET ok2 /\ bad \cap due2 = {}
    BY <2>1
  <2>3. \A k \in bad : Unstampable(log2, k)
    BY <1>2, <2>1 DEF Unstampable
  <2>4. QED BY <2>1, <2>2, <2>3 DEF Blamed
<1>6. QED
  BY <1>1, <1>3, <1>4, <1>5 DEF Accounts

\* A record that is due is counted, or is malformed, and is not due any more.
LEMMA CountOne ==
  ASSUME NEW log, IsLog(log), NEW ok \in SUBSET (DOMAIN log), NEW due \in SUBSET ok,
         NEW k \in due, NEW due2 \in SUBSET (due \ {k}),
         NEW via, NEW extra \in Nat, NEW tally, Accounts(log, ok, via, extra, tally, due)
  PROVE  Accounts(log, ok, via, extra, ConsumeLine(tally, FormatRecord(log[k])), due2)
<1> DEFINE r == log[k]
           new == ConsumeLine(tally, FormatRecord(r))
           C == tally.counted
<1>1. /\ tally \in Tallies /\ Found(log, ok, tally)
      /\ via = "tcp" => Once(log, tally, due)
      /\ AllFit => Blamed(log, ok, extra, tally, due)
  BY DEF Accounts
<1>2. k \in ok /\ k \in DOMAIN log /\ r \in Records
  BY ElementOfSeq, LenProperties DEF IsLog
<1>3. /\ new \in Tallies
      /\ Stampable(r.time) => new.counted = Append(C, r) /\ new.malformed = tally.malformed
      /\ ~ Stampable(r.time) => new.counted = C /\ new.malformed = tally.malformed + 1
  BY <1>1, <1>2, ConsumeRecord
<1> HIDE DEF new, r
<1>4. C \in Seq(Records) /\ tally.malformed \in Nat /\ DOMAIN C = 1..Len(C) /\ Len(C) \in Nat
  BY <1>1, LenProperties DEF Tallies
<1>5. /\ \A i \in 1..Len(C) : \E j \in ok : C[i] = log[j]
      /\ via = "tcp" => /\ \A i, j \in 1..Len(C) : C[i] = C[j] => i = j
                 /\ \A i \in 1..Len(C), j \in due : C[i] # log[j]
  BY <1>1, <1>4 DEF Found, Once
<1> HIDE DEF C
<1>6. CASE Stampable(r.time)
  <2> DEFINE more == Append(C, r)
  <2>1. /\ DOMAIN more = 1..(Len(C) + 1) /\ more[Len(C) + 1] = r
        /\ \A i \in 1..Len(C) : more[i] = C[i]
    BY <1>2, <1>4, AppendProperties, LenProperties
  <2>2. new.counted = more /\ new.malformed = tally.malformed
    BY <1>3, <1>6
  <2> HIDE DEF more
  <2>3. \A i \in 1..(Len(C) + 1) : i = Len(C) + 1 \/ i \in 1..Len(C)
    BY <1>4
  <2>4. Found(log, ok, new)
    <3> SUFFICES ASSUME NEW i \in DOMAIN more PROVE \E j \in ok : more[i] = log[j]
      BY <2>2 DEF Found
    <3>1. CASE i = Len(C) + 1
      BY <1>2, <2>1, <3>1 DEF r
    <3>2. CASE i \in 1..Len(C)
      BY <1>5, <2>1, <3>2
    <3>3. QED BY <2>1, <2>3, <3>1, <3>2
  <2>5. ASSUME via = "tcp" PROVE Once(log, new, due2)
    <3>1. \A i \in 1..Len(C) : C[i] # r
      BY <1>5, <2>5 DEF r
    <3>2. ASSUME NEW i \in DOMAIN more, NEW j \in DOMAIN more, more[i] = more[j] PROVE i = j
      <4>1. /\ i = Len(C) + 1 \/ i \in 1..Len(C)
            /\ j = Len(C) + 1 \/ j \in 1..Len(C)
        BY <2>1, <2>3
      <4>2. i \in 1..Len(C) => more[i] = C[i] /\ more[i] # r
        BY <2>1, <3>1
      <4>3. j \in 1..Len(C) => more[j] = C[j] /\ more[j] # r
        BY <2>1, <3>1
      <4>4. QED BY <1>5, <2>1, <2>5, <3>2, <4>1, <4>2, <4>3
    <3>3. ASSUME NEW i \in DOMAIN more, NEW j \in due2 PROVE more[i] # log[j]
      <4>1. CASE i \in 1..Len(C)
        BY <1>5, <2>1, <2>5, <4>1
      <4>2. CASE i = Len(C) + 1
        <5>1. j \in DOMAIN log /\ j # k
          BY <1>2
        <5>2. log[j] # log[k]
          BY <1>2, <5>1, LogIsInjective
        <5>3. QED BY <2>1, <4>2, <5>2 DEF r
      <4>3. QED BY <2>1, <2>3, <4>1, <4>2
    <3>4. QED BY <2>2, <3>2, <3>3 DEF Once
  <2>6. ASSUME AllFit PROVE Blamed(log, ok, extra, new, due2)
    BY <1>1, <2>2, <2>6 DEF Blamed
  <2>7. QED BY <1>3, <2>4, <2>5, <2>6 DEF Accounts, new, r
<1>7. CASE ~ Stampable(r.time)
  <2>1. new.counted = C /\ new.malformed = tally.malformed + 1
    BY <1>3, <1>7
  <2>2. Found(log, ok, new)
    BY <1>4, <1>5, <2>1 DEF Found
  <2>3. ASSUME via = "tcp" PROVE Once(log, new, due2)
    BY <1>4, <1>5, <2>1, <2>3 DEF Once
  <2>4. ASSUME AllFit PROVE Blamed(log, ok, extra, new, due2)
    <3>1. PICK bad \in SUBSET ok :
             /\ \A j \in bad : Unstampable(log, j)
             /\ bad \cap due = {} /\ tally.malformed =< extra + Cardinality(bad)
      BY <1>1, <2>4 DEF Blamed
    <3> DEFINE both == bad \cup {k}
    <3>2. IsFiniteSet(bad) /\ Cardinality(bad) \in Nat /\ k \notin bad
      BY <3>1, CallsAreFinite
    <3>3. Cardinality(both) = Cardinality(bad) + 1
      BY <3>2, FS_AddElement
    <3>4. /\ both \in SUBSET ok /\ both \cap due2 = {}
          /\ \A j \in both : Unstampable(log, j)
      BY <1>2, <1>7, <3>1 DEF Unstampable, r
    <3> HIDE DEF both
    <3>5. new.malformed =< extra + Cardinality(both)
      BY <1>4, <2>1, <3>1, <3>2, <3>3
    <3>6. QED BY <3>4, <3>5 DEF Blamed
  <2>5. QED BY <1>3, <2>2, <2>3, <2>4 DEF Accounts, new, r
<1>8. QED
  BY <1>6, <1>7

\* A datagram that comes once more may be counted again, or be malformed again.
LEMMA CountAgain ==
  ASSUME NEW via, via # "tcp", NEW log, IsLog(log), NEW ok \in SUBSET (DOMAIN log), NEW due, NEW k \in ok,
         NEW extra \in Nat, NEW tally, Accounts(log, ok, via, extra, tally, due)
  PROVE  Accounts(log, ok, via, extra + 1, ConsumeLine(tally, FormatRecord(log[k])), due)
<1> DEFINE r == log[k]
           new == ConsumeLine(tally, FormatRecord(r))
           C == tally.counted
<1>1. /\ tally \in Tallies /\ Found(log, ok, tally)
      /\ AllFit => Blamed(log, ok, extra, tally, due)
  BY DEF Accounts
<1>2. k \in DOMAIN log /\ r \in Records
  BY ElementOfSeq, LenProperties DEF IsLog
<1>3. /\ new \in Tallies
      /\ Stampable(r.time) => new.counted = Append(C, r) /\ new.malformed = tally.malformed
      /\ ~ Stampable(r.time) => new.counted = C /\ new.malformed = tally.malformed + 1
  BY <1>1, <1>2, ConsumeRecord
<1> HIDE DEF new, r
<1>4. C \in Seq(Records) /\ tally.malformed \in Nat /\ DOMAIN C = 1..Len(C) /\ Len(C) \in Nat
  BY <1>1, LenProperties DEF Tallies
<1>5. \A i \in 1..Len(C) : \E j \in ok : C[i] = log[j]
  BY <1>1, <1>4 DEF Found
<1> HIDE DEF C
<1>6. Found(log, ok, new)
  <2>1. CASE Stampable(r.time)
    <3> DEFINE more == Append(C, r)
    <3>1. /\ DOMAIN more = 1..(Len(C) + 1) /\ more[Len(C) + 1] = r
          /\ \A i \in 1..Len(C) : more[i] = C[i]
      BY <1>2, <1>4, AppendProperties, LenProperties
    <3>2. new.counted = more
      BY <1>3, <2>1
    <3> HIDE DEF more
    <3>3. \A i \in 1..(Len(C) + 1) : i = Len(C) + 1 \/ i \in 1..Len(C)
      BY <1>4
    <3> SUFFICES ASSUME NEW i \in DOMAIN more PROVE \E j \in ok : more[i] = log[j]
      BY <3>2 DEF Found
    <3>4. CASE i = Len(C) + 1
      BY <3>1, <3>4 DEF r
    <3>5. CASE i \in 1..Len(C)
      BY <1>5, <3>1, <3>5
    <3>6. QED BY <3>1, <3>3, <3>4, <3>5
  <2>2. CASE ~ Stampable(r.time)
    BY <1>3, <1>4, <1>5, <2>2 DEF Found
  <2>3. QED BY <2>1, <2>2
<1>7. ASSUME AllFit PROVE Blamed(log, ok, extra + 1, new, due)
  <2>1. PICK bad \in SUBSET ok :
           /\ \A j \in bad : Unstampable(log, j)
           /\ bad \cap due = {} /\ tally.malformed =< extra + Cardinality(bad)
    BY <1>1, <1>7 DEF Blamed
  <2>2. Cardinality(bad) \in Nat
    BY CallsAreFinite
  <2>3. new.malformed =< tally.malformed + 1 /\ new.malformed \in Nat
    BY <1>3, <1>4
  <2>4. new.malformed =< (extra + 1) + Cardinality(bad)
    BY <1>4, <2>1, <2>2, <2>3
  <2>5. QED BY <2>1, <2>4 DEF Blamed
<1>8. QED
  BY <1>3, <1>6, <1>7 DEF Accounts, new, r

\* Lines of different calls that are due are counted one by one.
LEMMA CountAll ==
  ASSUME NEW log, IsLog(log), NEW ok \in SUBSET (DOMAIN log), NEW due \in SUBSET ok,
         NEW lines, Len(lines) \in Nat, NEW c \in [1..Len(lines) -> due],
         \A i, j \in 1..Len(lines) : c[i] = c[j] => i = j,
         \A i \in 1..Len(lines) : lines[i] = FormatRecord(log[c[i]]),
         NEW due2 \in SUBSET due, \A i \in 1..Len(lines) : c[i] \notin due2,
         NEW via, NEW extra \in Nat, NEW tally, Accounts(log, ok, via, extra, tally, due)
  PROVE  Accounts(log, ok, via, extra, Consumed(tally, lines), due2)
<1> DEFINE N == Len(lines)
           left(n) == {k \in due : \A i \in 1..n : c[i] # k}
<1>1. \A n \in 1..N : \E r \in Records : lines[n] = FormatRecord(r)
  <2> SUFFICES ASSUME NEW n \in 1..N PROVE \E r \in Records : lines[n] = FormatRecord(r)
    OBVIOUS
  <2>1. log[c[n]] \in Records /\ lines[n] = FormatRecord(log[c[n]])
    BY ElementOfSeq, LenProperties DEF IsLog
  <2>2. QED BY <2>1
<1>2. tally \in Tallies
  BY DEF Accounts
<1>3. PICK f \in [0..N -> Tallies] :
         /\ f[0] = tally
         /\ \A n \in 1..N : f[n] = ConsumeLine(f[n - 1], lines[n])
         /\ Consumed(tally, lines) = f[N]
  BY <1>1, <1>2, ConsumedSteps
<1>4. N \in Nat
  OBVIOUS
<1>5. \A n \in 1..N : c[n] \in due /\ lines[n] = FormatRecord(log[c[n]])
  OBVIOUS
<1> HIDE DEF N
<1> DEFINE Done(n) == Accounts(log, ok, via, extra, f[n], left(n))
           K == {n \in Nat : n =< N => Done(n)}
<1>6. 0 \in K
  <2>1. left(0) = due
    OBVIOUS
  <2> HIDE DEF left
  <2>2. QED BY <1>3, <2>1
<1>7. ASSUME NEW n \in Nat, n \in K PROVE n + 1 \in K
  <2> SUFFICES ASSUME n + 1 =< N PROVE Done(n + 1)
    OBVIOUS
  <2> DEFINE k == c[n + 1]
  <2>1. n + 1 \in 1..N /\ (n + 1) - 1 = n /\ Done(n)
    BY <1>4, <1>7
  <2>2. k \in left(n)
    <3>1. \A i \in 1..n : i \in 1..N /\ i # n + 1
      BY <1>4
    <3>2. \A i \in 1..n : c[i] # k
      BY <2>1, <3>1 DEF N
    <3>3. QED BY <1>5, <2>1, <3>2
  <2>3. left(n + 1) \in SUBSET (left(n) \ {k})
    <3>1. \A i \in 1..n : i \in 1..(n + 1)
      OBVIOUS
    <3>2. n + 1 \in 1..(n + 1)
      OBVIOUS
    <3>3. QED BY <3>1, <3>2
  <2>4. f[n + 1] = ConsumeLine(f[n], FormatRecord(log[k])) /\ left(n) \in SUBSET ok
    BY <1>3, <1>5, <2>1
  <2> HIDE DEF left, k
  <2>5. Accounts(log, ok, via, extra, ConsumeLine(f[n], FormatRecord(log[k])), left(n + 1))
    BY <2>1, <2>2, <2>3, <2>4, CountOne
  <2>6. QED BY <2>4, <2>5
<1>8. Nat \subseteq K
  <2> HIDE DEF K
  <2>1. QED BY <1>6, <1>7, SetInduction
<1>9. Done(N)
  <2> HIDE DEF Done
  <2>1. QED BY <1>4, <1>8
<1>10. due2 \subseteq left(N) \cup (ok \ ok) /\ left(N) \in SUBSET ok
  BY DEF N
<1>11. Lengthens(log, log)
  BY DEF Lengthens
<1> HIDE DEF left
<1>12. Accounts(log, ok, via, extra, f[N], due2)
  BY <1>9, <1>10, <1>11, AccountsLast
<1>13. QED
  BY <1>3, <1>12

\* A line that was dropped is one more, if a frame can be over the limit at all.
LEMMA CountDrop ==
  ASSUME NEW log, NEW ok, NEW via, NEW extra, NEW tally, NEW due,
         Accounts(log, ok, via, extra, tally, due), NEW drops \in {0, 1}, AllFit => drops = 0
  PROVE  Accounts(log, ok, via, extra,
                  [counted |-> tally.counted, malformed |-> tally.malformed + drops], due)
<1> DEFINE new == [counted |-> tally.counted, malformed |-> tally.malformed + drops]
<1>1. /\ tally \in Tallies /\ Found(log, ok, tally)
      /\ via = "tcp" => Once(log, tally, due)
      /\ AllFit => Blamed(log, ok, extra, tally, due)
  BY DEF Accounts
<1>2. tally.counted \in Seq(Records) /\ tally.malformed \in Nat
  BY <1>1 DEF Tallies
<1>3. tally.malformed + drops \in Nat /\ (drops = 0 => tally.malformed + drops = tally.malformed)
  BY <1>2
<1>4. new \in Tallies /\ new.counted = tally.counted /\ new.malformed = tally.malformed + drops
  BY <1>2, <1>3 DEF Tallies
<1> HIDE DEF new
<1>5. Found(log, ok, new)
  BY <1>1, <1>4 DEF Found
<1>6. via = "tcp" => Once(log, new, due)
  BY <1>1, <1>4 DEF Once
<1>7. AllFit => Blamed(log, ok, extra, new, due)
  BY <1>1, <1>3, <1>4 DEF Blamed
<1>8. QED
  BY <1>4, <1>5, <1>6, <1>7 DEF Accounts, new

-----------------------------------------------------------------------------
(* A frame that is sent in pieces.                                          *)

\* A frame has the letters of its word, and a newline behind them.
LEMMA FrameLetters ==
  ASSUME NEW word \in Seq(Letters)
  PROVE  LET whole == Append(word, Newline)
         IN  /\ whole \in Seq(Bytes) /\ Len(whole) = Len(word) + 1 /\ Len(word) \in Nat
             /\ \A i \in 1..Len(word) : whole[i] \in Letters
             /\ whole[Len(word) + 1] = Newline
             /\ SubSeq(whole, 1, Len(word)) = word
<1> DEFINE whole == Append(word, Newline)
           N == Len(word)
<1>1. word \in Seq(Bytes) /\ Newline \in Bytes
  BY LettersAreBytes DEF Bytes
<1>2. /\ whole \in Seq(Bytes) /\ Len(whole) = N + 1
      /\ (\A i \in 1..N : whole[i] = word[i]) /\ whole[N + 1] = Newline
  BY <1>1, AppendProperties
<1>3. N \in Nat /\ \A i \in 1..N : word[i] \in Letters
  BY ElementOfSeq, LenProperties
<1> HIDE DEF whole
<1>4. SubSeq(whole, 1, N) = word
  <2> DEFINE part == SubSeq(whole, 1, N)
  <2>1. /\ part \in Seq(Letters) /\ Len(part) = IF 1 =< N THEN N - 1 + 1 ELSE 0
        /\ \A i \in 1..(N - 1 + 1) : part[i] = whole[1 + i - 1]
    BY <1>2, <1>3, SubSeqProperties
  <2> HIDE DEF part
  <2>2. Len(part) = N /\ \A i \in 1..N : part[i] = word[i]
    BY <1>2, <1>3, <2>1
  <2>3. part = word
    BY <2>1, <2>2, SeqEqual DEF N
  <2>4. QED BY <2>3 DEF part
<1>5. QED
  BY <1>2, <1>3, <1>4 DEF whole, N

\* What has been sent of a frame, and the next piece of it.
Sent(word, s) == SubSeq(Append(word, Newline), 1, s)
Piece(word, s, n) == SubSeq(Append(word, Newline), s + 1, s + n)

\* What a piece makes of the reading of a stream.
ReadPiece(z, new, word, s, n) ==
    /\ s + n =< Len(word) =>
          /\ new.lines = LinesOf(z) /\ new.kept = KeptLines(z)
          /\ new.rest = Sent(word, s + n) /\ Len(new.rest) =< Len(word)
    /\ s + n = Len(word) + 1 =>
          /\ new.lines = Append(LinesOf(z), word)
          /\ new.kept = IF Fits(word) THEN Append(KeptLines(z), word) ELSE KeptLines(z)
          /\ new.rest = << >>

\* A piece of a frame makes the line longer that has begun; the last one ends it.
LEMMA FramePiece ==
  ASSUME NEW z \in Seq(Bytes), NEW word \in Seq(Letters), NEW s \in 0..Len(word),
         NEW n \in 1..(Len(word) + 1 - s), Unfinished(z) = Sent(word, s)
  PROVE  /\ Piece(word, s, n) \in Seq(Bytes)
         /\ ReadPiece(z, CutUp(z \o Piece(word, s, n)), word, s, n)
<1> DEFINE whole == Append(word, Newline)
           N == Len(word)
           piece == SubSeq(whole, s + 1, s + n)
           cut == CutUp(z)
<1>1. /\ whole \in Seq(Bytes) /\ Len(whole) = N + 1 /\ N \in Nat
      /\ (\A i \in 1..N : whole[i] \in Letters) /\ whole[N + 1] = Newline
      /\ SubSeq(whole, 1, N) = word
  BY FrameLetters
<1>2. cut.rest = SubSeq(whole, 1, s) /\ LinesOf(z) = cut.lines /\ KeptLines(z) = cut.kept
  BY DEF Unfinished, LinesOf, KeptLines, Sent
<1>3. s \in 0..N /\ n \in 1..(N + 1 - s)
  OBVIOUS
<1> HIDE DEF whole, cut, N
<1>4. piece \in Seq(Bytes)
  <2>1. \A i \in (s + 1)..(s + n) : whole[i] \in Bytes
    BY <1>1, <1>3 DEF Bytes
  <2>2. s + 1 \in Int /\ s + n \in Int
    BY <1>1, <1>3
  <2>3. QED BY <2>1, <2>2, SubSeqProperties
<1>5. CASE s + n =< N
  <2>1. \A i \in (s + 1)..(s + n) : whole[i] \in Letters
    BY <1>1, <1>3, <1>5
  <2>2. piece \in Seq(Letters)
    <3>1. s + 1 \in Int /\ s + n \in Int
      BY <1>1, <1>3
    <3>2. QED BY <2>1, <3>1, SubSeqProperties
  <2>3. cut.rest \o piece = SubSeq(whole, 1, s + n)
    <3>1. 1 \in 1..(Len(whole) + 1) /\ s \in (1 - 1)..Len(whole) /\ s + n \in s..Len(whole)
      BY <1>1, <1>3, <1>5
    <3>2. SubSeq(whole, 1, s) \o SubSeq(whole, s + 1, s + n) = SubSeq(whole, 1, s + n)
      BY <1>1, <3>1, ConcatAdjacentSubSeq
    <3>3. QED BY <1>2, <3>2
  <2>4. Len(SubSeq(whole, 1, s + n)) =< N
    <3>1. \A i \in 1..(s + n) : whole[i] \in Letters
      BY <1>1, <1>3, <1>5
    <3>2. s + n \in Int
      BY <1>1, <1>3
    <3>3. Len(SubSeq(whole, 1, s + n)) = IF 1 =< s + n THEN s + n - 1 + 1 ELSE 0
      BY <3>1, <3>2, SubSeqProperties
    <3>4. QED BY <1>1, <1>3, <1>5, <3>3
  <2> HIDE DEF piece
  <2>5. /\ CutUp(z \o piece).lines = cut.lines /\ CutUp(z \o piece).kept = cut.kept
        /\ CutUp(z \o piece).rest = cut.rest \o piece
    BY <2>2, CutUpLetters DEF cut
  <2>6. ~ (s + n = N + 1)
    BY <1>1, <1>3, <1>5
  <2>7. QED BY <1>2, <1>4, <2>3, <2>4, <2>5, <2>6 DEF piece, whole, N, Piece, Sent, ReadPiece
<1>6. CASE s + n = N + 1
  <2> DEFINE w == SubSeq(whole, s + 1, N)
  <2>1. w \in Seq(Letters)
    <3>1. \A i \in (s + 1)..N : whole[i] \in Letters
      BY <1>1, <1>3
    <3>2. s + 1 \in Int /\ N \in Int
      BY <1>1, <1>3
    <3>3. QED BY <3>1, <3>2, SubSeqProperties
  <2>2. piece = w \o <<Newline>>
    <3>1. s + 1 \in 1..Len(whole) /\ s + n \in (s + 1)..Len(whole) /\ (s + n) - 1 = N
          /\ s + n = N + 1
      BY <1>1, <1>3, <1>6
    <3> HIDE DEF piece, w
    <3>2. SubSeq(whole, s + 1, s + n) = SubSeq(whole, s + 1, (s + n) - 1) \o <<whole[s + n]>>
      BY <1>1, <3>1, SubSeqRecursiveSecond
    <3>3. QED BY <1>1, <3>1, <3>2 DEF piece, w
  <2>3. cut.rest \o w = word
    <3>1. 1 \in 1..(Len(whole) + 1) /\ s \in (1 - 1)..Len(whole) /\ N \in s..Len(whole)
      BY <1>1, <1>3
    <3>2. SubSeq(whole, 1, s) \o SubSeq(whole, s + 1, N) = SubSeq(whole, 1, N)
      BY <1>1, <3>1, ConcatAdjacentSubSeq
    <3>3. QED BY <1>1, <1>2, <3>2
  <2> HIDE DEF w, piece
  <2>4. z \o piece = (z \o w) \o <<Newline>>
    <3>1. w \in Seq(Bytes) /\ <<Newline>> \in Seq(Bytes)
      BY <2>1, LettersAreBytes DEF Bytes
    <3>2. QED BY <2>2, <3>1, ConcatAssociative
  <2>5. LET new == CutUp((z \o w) \o <<Newline>>)
        IN  /\ new.lines = Append(cut.lines, cut.rest \o w)
            /\ new.kept = IF Fits(cut.rest \o w) THEN Append(cut.kept, cut.rest \o w)
                          ELSE cut.kept
            /\ new.rest = << >>
    BY <2>1, CutUpLine DEF cut
  <2>6. ~ (s + n =< N)
    BY <1>1, <1>3, <1>6
  <2>7. QED BY <1>2, <1>4, <2>3, <2>4, <2>5, <2>6 DEF piece, whole, N, Piece, Sent, ReadPiece
<1>7. s + n =< N \/ s + n = N + 1
  BY <1>1, <1>3
<1>8. QED
  BY <1>5, <1>6, <1>7 DEF N

-----------------------------------------------------------------------------
(* What a connection carries.                                               *)

WireType == [bytes : Seq(Bytes), closed : BOOLEAN, reader : Readers]

\* The lines are those of different calls of D, in the order of c.
Names(c, log, D, lines) ==
    /\ c \in [1..Len(lines) -> D]
    /\ \A i, j \in 1..Len(lines) : c[i] = c[j] => i = j
    /\ \A i \in 1..Len(lines) : lines[i] = FormatRecord(log[c[i]])

NoneDropped(x) == AllFit => DroppedLines(x) = 0

\* The reader has begun the line b, and with the bytes that are on their way x has lines
\* of the calls in D and, unless the connection is closed, rest behind them.
Has(wire, log, D, rest, b, x, c) ==
    /\ Remembers(wire.reader.pending, wire.reader.skipping, CutUp(b))
    /\ x = b \o wire.bytes
    /\ Names(c, log, D, LinesOf(x))
    /\ NoneDropped(x)
    /\ ~ wire.closed => Unfinished(x) = rest

Carries(wire, log, D, rest) ==
    /\ wire \in WireType
    /\ \E b \in Seq(Letters), x \in Seq(Bytes) : \E c : Has(wire, log, D, rest, b, x, c)

\* The fields of a connection to which a piece is sent, ...
LEMMA WireSent ==
  ASSUME NEW wire \in WireType, NEW v
  PROVE  [wire EXCEPT !.bytes = v]
           = [bytes |-> v, closed |-> wire.closed, reader |-> wire.reader]
<1>1. wire = [bytes |-> wire.bytes, closed |-> wire.closed, reader |-> wire.reader]
  BY DEF WireType
<1>2. QED
  BY <1>1

\* ... of one that the collector has read, ...
LEMMA WireFed ==
  ASSUME NEW wire \in WireType, NEW v, NEW r
  PROVE  [wire EXCEPT !.bytes = v, !.reader = r]
           = [bytes |-> v, closed |-> wire.closed, reader |-> r]
<1> DEFINE x == [wire EXCEPT !.bytes = v]
<1>1. [wire EXCEPT !.bytes = v, !.reader = r] = [x EXCEPT !.reader = r]
  BY Zenon
<1>2. x = [bytes |-> v, closed |-> wire.closed, reader |-> wire.reader]
  BY WireSent
<1> HIDE DEF x
<1>3. /\ x = [bytes |-> x.bytes, closed |-> x.closed, reader |-> x.reader]
      /\ x.bytes = v /\ x.closed = wire.closed /\ x.reader = wire.reader
  BY <1>2
<1>4. [x EXCEPT !.reader = r] = [bytes |-> v, closed |-> wire.closed, reader |-> r]
  BY <1>3
<1>5. QED
  BY <1>1, <1>4, Zenon DEF x

\* A connection on which nothing is on its way.
LEMMA NewCarries ==
  ASSUME NEW closed \in BOOLEAN, NEW log, NEW D, NEW rest, ~ closed => rest = << >>
  PROVE  Carries([bytes |-> << >>, closed |-> closed, reader |-> Fresh], log, D, rest)
<1> DEFINE w == [bytes |-> << >>, closed |-> closed, reader |-> Fresh]
<1>1. << >> \in Seq(Bytes) /\ << >> \in Seq(Letters) /\ << >> \o << >> = << >>
  OBVIOUS
<1>2. w \in WireType /\ w.bytes = << >> /\ w.closed = closed /\ w.reader = Fresh
  BY <1>1, FreshReader DEF WireType
<1> HIDE DEF w
<1>3. LinesOf(<< >>) = << >> /\ Unfinished(<< >>) = << >>
  BY CutUpEmpty DEF LinesOf, Unfinished, NothingYet
<1>4. Names(<< >>, log, D, << >>)
  BY DEF Names
<1>5. NoneDropped(<< >>)
  BY NothingCut DEF NoneDropped
<1>6. Remembers(w.reader.pending, w.reader.skipping, CutUp(<< >>))
  BY <1>2, FreshReader
<1>7. Has(w, log, D, rest, << >>, << >>, << >>)
  BY <1>1, <1>2, <1>3, <1>4, <1>5, <1>6 DEF Has
<1>8. QED
  BY <1>1, <1>2, <1>7 DEF Carries, w

\* Later calls change nothing of it, nor does a line that goes on elsewhere.
LEMMA CarriesLast ==
  ASSUME NEW log, NEW log2, Lengthens(log, log2), NEW D \in SUBSET (DOMAIN log),
         NEW D2, D \subseteq D2, NEW wire, NEW rest, NEW rest2, wire.closed \/ rest2 = rest,
         Carries(wire, log, D, rest)
  PROVE  Carries(wire, log2, D2, rest2)
<1>0. PICK b \in Seq(Letters), x \in Seq(Bytes) : \E c : Has(wire, log, D, rest, b, x, c)
  BY DEF Carries
<1>1. PICK c : Has(wire, log, D, rest, b, x, c)
  BY <1>0
<1>2. /\ Remembers(wire.reader.pending, wire.reader.skipping, CutUp(b)) /\ x = b \o wire.bytes
      /\ Names(c, log, D, LinesOf(x)) /\ NoneDropped(x)
      /\ ~ wire.closed => Unfinished(x) = rest2
  BY <1>1 DEF Has
<1>3. Names(c, log2, D2, LinesOf(x))
  BY <1>2 DEF Names, Lengthens
<1>4. Has(wire, log2, D2, rest2, b, x, c)
  BY <1>2, <1>3 DEF Has
<1>5. QED
  BY <1>4 DEF Carries

\* A connection breaks: the lines that remain are some of the first ones.
LEMMA CarriesPrefix ==
  ASSUME NEW wire, NEW log, NEW D, NEW rest, NEW rest2, NEW n \in 0..Len(wire.bytes),
         Carries(wire, log, D, rest)
  PROVE  Carries([wire EXCEPT !.bytes = SubSeq(@, 1, n), !.closed = TRUE], log, D, rest2)
<1> DEFINE left == SubSeq(wire.bytes, 1, n)
           lost == SubSeq(wire.bytes, n + 1, Len(wire.bytes))
           new == [wire EXCEPT !.bytes = SubSeq(@, 1, n), !.closed = TRUE]
<1>0. PICK b \in Seq(Letters), x \in Seq(Bytes) : \E c : Has(wire, log, D, rest, b, x, c)
  BY DEF Carries
<1>1. PICK c : Has(wire, log, D, rest, b, x, c)
  BY <1>0
<1>2. /\ Remembers(wire.reader.pending, wire.reader.skipping, CutUp(b)) /\ x = b \o wire.bytes
      /\ Names(c, log, D, LinesOf(x)) /\ NoneDropped(x)
  BY <1>1 DEF Has
<1>3. wire \in WireType /\ wire.bytes \in Seq(Bytes) /\ wire.reader \in Readers
  BY DEF Carries, WireType
<1>4. Len(wire.bytes) \in Nat /\ \A i \in 1..Len(wire.bytes) : wire.bytes[i] \in Bytes
  BY <1>3, ElementOfSeq, LenProperties
<1>5. left \in Seq(Bytes) /\ lost \in Seq(Bytes) /\ left \o lost = wire.bytes
  <2>1. left \in Seq(Bytes)
    BY <1>4, SubSeqProperties
  <2>2. lost \in Seq(Bytes)
    BY <1>4, SubSeqProperties
  <2>3. 1 \in 1..(Len(wire.bytes) + 1) /\ n \in (1 - 1)..Len(wire.bytes)
        /\ Len(wire.bytes) \in n..Len(wire.bytes)
    BY <1>4
  <2>4. left \o lost = SubSeq(wire.bytes, 1, Len(wire.bytes))
    BY <1>3, <2>3, ConcatAdjacentSubSeq
  <2>5. QED BY <1>3, <2>1, <2>2, <2>4, SubSeqFull
<1>6. new = [bytes |-> left, closed |-> TRUE, reader |-> wire.reader]
  <2>1. wire = [bytes |-> wire.bytes, closed |-> wire.closed, reader |-> wire.reader]
    BY <1>3 DEF WireType
  <2>2. new = [wire EXCEPT !.bytes = left, !.closed = TRUE]
    OBVIOUS
  <2> HIDE DEF left, new
  <2>3. QED BY <2>1, <2>2
<1> HIDE DEF left, lost, new
<1>7. new \in WireType /\ new.bytes = left /\ new.closed = TRUE /\ new.reader = wire.reader
  BY <1>3, <1>5, <1>6 DEF WireType
<1> DEFINE y == b \o left
<1>8. b \in Seq(Bytes) /\ y \in Seq(Bytes) /\ x = y \o lost
  <2>1. b \in Seq(Bytes)
    BY LettersAreBytes
  <2>2. y \in Seq(Bytes)
    BY <1>5, <2>1, ConcatProperties
  <2>3. b \o (left \o lost) = (b \o left) \o lost
    BY <1>5, <2>1, Regroup
  <2>4. QED BY <1>2, <1>5, <2>1, <2>2, <2>3
<1> HIDE DEF y
<1>9. ReadsOn(CutUp(x), CutUp(y), CutUp(Unfinished(y) \o lost))
  BY <1>5, <1>8, CutUpGoesOn
<1> DEFINE first == LinesOf(y)
           second == LinesOf(Unfinished(y) \o lost)
<1>10. /\ first \in Seq(Seq(Letters)) /\ second \in Seq(Seq(Letters))
       /\ LinesOf(x) = first \o second
  <2>1. Unfinished(y) \in Seq(Letters)
    BY <1>8, CutUpType DEF Unfinished, Cuts
  <2>2. Unfinished(y) \o lost \in Seq(Bytes)
    BY <1>5, <2>1, LettersAreBytes, ConcatProperties
  <2>3. CutUp(Unfinished(y) \o lost) \in Cuts /\ CutUp(y) \in Cuts
    BY <1>8, <2>2, CutUpType
  <2>4. QED BY <1>9, <2>3 DEF ReadsOn, Cuts, LinesOf
<1> HIDE DEF first, second
<1> DEFINE c2 == [i \in 1..Len(first) |-> c[i]]
<1>11. Names(c2, log, D, first)
  <2>1. /\ Len(LinesOf(x)) = Len(first) + Len(second)
        /\ Len(first) \in Nat /\ Len(second) \in Nat
        /\ \A i \in 1..(Len(first) + Len(second)) :
              LinesOf(x)[i] = IF i =< Len(first) THEN first[i] ELSE second[i - Len(first)]
    BY <1>10, ConcatProperties, LenProperties
  <2>2. \A i \in 1..Len(first) : /\ i \in 1..Len(LinesOf(x)) /\ LinesOf(x)[i] = first[i]
                                 /\ c2[i] = c[i]
    BY <2>1
  <2>3. /\ \A i \in 1..Len(LinesOf(x)) : c[i] \in D
        /\ \A i, j \in 1..Len(LinesOf(x)) : c[i] = c[j] => i = j
        /\ \A i \in 1..Len(LinesOf(x)) : LinesOf(x)[i] = FormatRecord(log[c[i]])
    BY <1>2 DEF Names
  <2>4. c2 \in [1..Len(first) -> D]
    BY <2>2, <2>3
  <2> HIDE DEF c2
  <2>5. QED BY <2>2, <2>3, <2>4 DEF Names
<1>12. NoneDropped(y)
  BY <1>2, <1>5, <1>8, DropsOfTheRest DEF NoneDropped
<1>13. Has(new, log, D, rest2, b, y, c2)
  BY <1>2, <1>7, <1>11, <1>12 DEF Has, y, first
<1>14. QED
  BY <1>7, <1>8, <1>13 DEF Carries, new

\* A stream of which nothing is dropped: every line is kept, and what has no end yet fits.
LEMMA AllKept ==
  ASSUME NEW z \in Seq(Bytes)
  PROVE  /\ LinesOf(z) \in Seq(Seq(Letters)) /\ KeptLines(z) \in Seq(Seq(Letters))
         /\ DroppedLines(z) = 0 <=> Len(LinesOf(z)) = Len(KeptLines(z)) /\ Fits(Unfinished(z))
<1> DEFINE l == Len(LinesOf(z))
           k == Len(KeptLines(z))
<1>1. LinesOf(z) \in Seq(Seq(Letters)) /\ KeptLines(z) \in Seq(Seq(Letters))
  BY CutUpType DEF Cuts, LinesOf, KeptLines
<1>2. l \in Nat /\ k \in Nat
  BY <1>1, LenProperties
<1>3. k =< l
  BY KeptAreLines DEF PickedBy
<1>4. DroppedLines(z) = l - k + (IF Fits(Unfinished(z)) THEN 0 ELSE 1)
  BY DEF DroppedLines
<1> HIDE DEF l, k
<1>5. DroppedLines(z) = 0 <=> l = k /\ Fits(Unfinished(z))
  BY <1>2, <1>3, <1>4
<1>6. QED
  BY <1>1, <1>5 DEF l, k

\* send() takes a piece of a frame: with the last one, there is one call more.
LEMMA CarriesPiece ==
  ASSUME NEW wire, NEW log, NEW D, NEW word \in Seq(Letters), NEW s \in 0..Len(word),
         NEW n \in 1..(Len(word) + 1 - s), ~ wire.closed, AllFit => Fits(word),
         Carries(wire, log, D, Sent(word, s)),
         NEW k, k \notin D, word = FormatRecord(log[k])
  PROVE  LET new == [wire EXCEPT !.bytes = @ \o Piece(word, s, n)]
         IN  /\ s + n =< Len(word) =>
                   Carries(new, log, D, Sent(word, s + n))
             /\ s + n = Len(word) + 1 => Carries(new, log, D \cup {k}, << >>)
<1> DEFINE piece == Piece(word, s, n)
           new == [wire EXCEPT !.bytes = @ \o piece]
           N == Len(word)
<1>1. PICK b \in Seq(Letters), x \in Seq(Bytes) :
         \E c : Has(wire, log, D, Sent(word, s), b, x, c)
  BY DEF Carries
<1>2. PICK c : Has(wire, log, D, Sent(word, s), b, x, c)
  BY <1>1
<1>3. /\ Remembers(wire.reader.pending, wire.reader.skipping, CutUp(b)) /\ x = b \o wire.bytes
      /\ Names(c, log, D, LinesOf(x)) /\ NoneDropped(x)
      /\ Unfinished(x) = Sent(word, s)
  BY <1>2 DEF Has
<1>4. /\ wire.bytes \in Seq(Bytes) /\ wire.reader \in Readers /\ wire.closed = FALSE
      /\ wire \in WireType
  BY DEF Carries, WireType
<1> DEFINE more == x \o piece
           cut == CutUp(more)
<1>17. piece \in Seq(Bytes) /\ ReadPiece(x, cut, word, s, n)
  BY <1>3, FramePiece
<1>5. /\ piece \in Seq(Bytes)
      /\ s + n =< N => /\ cut.lines = LinesOf(x) /\ cut.kept = KeptLines(x)
                       /\ cut.rest = Sent(word, s + n) /\ Len(cut.rest) =< N
      /\ s + n = N + 1 => /\ cut.lines = Append(LinesOf(x), word)
                          /\ cut.kept = IF Fits(word) THEN Append(KeptLines(x), word)
                                        ELSE KeptLines(x)
                          /\ cut.rest = << >>
  <2> HIDE DEF piece, cut
  <2>1. QED BY <1>17 DEF ReadPiece
<1> DEFINE all == wire.bytes \o piece
<1>6. new = [bytes |-> wire.bytes \o piece, closed |-> FALSE, reader |-> wire.reader]
  <2>1. new = [wire EXCEPT !.bytes = all] /\ all \in Seq(Bytes)
    BY <1>4, <1>5, ConcatProperties
  <2> HIDE DEF all, new
  <2>2. new = [bytes |-> all, closed |-> wire.closed, reader |-> wire.reader]
    BY <1>4, <2>1, WireSent
  <2>3. QED BY <1>4, <2>2 DEF all
<1> HIDE DEF piece, new, all
<1>7. b \in Seq(Bytes) /\ wire.bytes \o piece \in Seq(Bytes) /\ more \in Seq(Bytes)
  BY <1>4, <1>5, LettersAreBytes, ConcatProperties
<1>8. /\ new \in WireType /\ new.bytes = wire.bytes \o piece /\ ~ new.closed
      /\ new.reader = wire.reader
  BY <1>4, <1>6, <1>7 DEF WireType
<1>9. more = b \o new.bytes
  <2>1. b \o (wire.bytes \o piece) = (b \o wire.bytes) \o piece
    <3> DEFINE w == wire.bytes
    <3>1. w \in Seq(Bytes) /\ piece \in Seq(Bytes) /\ b \in Seq(Bytes)
      BY <1>4, <1>5, <1>7
    <3> HIDE DEF w, more, cut
    <3>2. b \o (w \o piece) = (b \o w) \o piece
      BY <3>1, Regroup
    <3>3. QED BY <3>2 DEF w
  <2>2. QED BY <1>3, <1>8, <2>1
<1> HIDE DEF more
<1>10. LinesOf(more) = cut.lines /\ KeptLines(more) = cut.kept /\ Unfinished(more) = cut.rest
  BY DEF LinesOf, KeptLines, Unfinished
<1> HIDE DEF cut
<1>11. /\ LinesOf(x) \in Seq(Seq(Letters)) /\ KeptLines(x) \in Seq(Seq(Letters))
       /\ AllFit => Len(LinesOf(x)) = Len(KeptLines(x))
  BY <1>3, AllKept DEF NoneDropped
<1>12. N \in Nat /\ Limit \in Nat /\ Fits(<< >>)
  BY LenProperties, LineReaderAssumption DEF Fits
<1>13. ASSUME s + n =< N PROVE Carries(new, log, D, Sent(word, s + n))
  <2>1. ASSUME AllFit PROVE DroppedLines(more) = 0
    <3>1. Fits(cut.rest)
      <4>1. cut.rest \in Seq(Letters)
        BY <1>7, CutUpType DEF Cuts, cut
      <4>2. Len(cut.rest) \in Nat /\ Len(cut.rest) =< N /\ N =< Limit
        BY <1>5, <1>13, <2>1, <4>1, LenProperties DEF Fits
      <4> HIDE DEF N
      <4>3. QED BY <1>12, <4>2 DEF Fits
    <3>2. Len(LinesOf(more)) = Len(KeptLines(more))
      BY <1>5, <1>10, <1>11, <1>13, <2>1
    <3>3. QED BY <1>7, <1>10, <3>1, <3>2, AllKept
  <2>2. NoneDropped(more)
    BY <2>1 DEF NoneDropped
  <2>3. Names(c, log, D, LinesOf(more)) /\ Unfinished(more) = Sent(word, s + n)
    BY <1>3, <1>5, <1>10, <1>13
  <2>4. Has(new, log, D, Sent(word, s + n), b, more, c)
    BY <1>3, <1>8, <1>9, <2>2, <2>3 DEF Has
  <2>5. QED BY <1>7, <1>8, <2>4 DEF Carries
<1>14. ASSUME s + n = N + 1 PROVE Carries(new, log, D \cup {k}, << >>)
  <2> DEFINE old == LinesOf(x)
             L == Len(old)
             d == [i \in 1..(L + 1) |-> IF i = L + 1 THEN k ELSE c[i]]
  <2>1. LinesOf(more) = Append(old, word) /\ Unfinished(more) = << >>
    BY <1>5, <1>10, <1>14
  <2>2. ASSUME AllFit PROVE DroppedLines(more) = 0
    <3>1. KeptLines(more) = Append(KeptLines(x), word)
      BY <1>5, <1>10, <1>14, <2>2
    <3>2. Len(LinesOf(more)) = Len(KeptLines(more))
      BY <1>11, <2>1, <2>2, <3>1, AppendProperties
    <3>3. QED BY <1>7, <1>12, <2>1, <3>2, AllKept
  <2>3. NoneDropped(more)
    BY <2>2 DEF NoneDropped
  <2>4. /\ L \in Nat /\ Len(LinesOf(more)) = L + 1
        /\ (\A i \in 1..L : LinesOf(more)[i] = old[i]) /\ LinesOf(more)[L + 1] = word
    BY <1>11, <2>1, AppendProperties, LenProperties
  <2>5. /\ \A i \in 1..L : c[i] \in D /\ c[i] # k
        /\ \A i, j \in 1..L : c[i] = c[j] => i = j
        /\ \A i \in 1..L : old[i] = FormatRecord(log[c[i]])
    <3>1. Names(c, log, D, old)
      BY <1>3
    <3>2. c \in [1..L -> D]
      BY <3>1 DEF Names
    <3> HIDE DEF L
    <3>3. \A i \in 1..L : c[i] \in D /\ c[i] # k
      BY <3>2
    <3>4. QED BY <3>1, <3>3 DEF Names, L
  <2> HIDE DEF L, old
  <2>6. /\ \A i \in 1..(L + 1) : i # L + 1 => i \in 1..L
        /\ L + 1 \in 1..(L + 1)
    BY <2>4
  <2>7. d \in [1..(L + 1) -> D \cup {k}]
    BY <2>5, <2>6
  <2>8. \A i \in 1..(L + 1) : d[i] = IF i = L + 1 THEN k ELSE c[i]
    OBVIOUS
  <2> HIDE DEF d
  <2>9. \A i, j \in 1..(L + 1) : d[i] = d[j] => i = j
    BY <2>5, <2>6, <2>8
  <2>10. ASSUME NEW i \in 1..(L + 1) PROVE LinesOf(more)[i] = FormatRecord(log[d[i]])
    <3>1. CASE i = L + 1
      BY <2>4, <2>8, <3>1
    <3>2. CASE i \in 1..L
      BY <2>4, <2>5, <2>6, <2>8, <3>2
    <3>3. QED BY <2>6, <3>1, <3>2
  <2>11. Names(d, log, D \cup {k}, LinesOf(more))
    BY <2>4, <2>7, <2>9, <2>10 DEF Names
  <2>12. Has(new, log, D \cup {k}, << >>, b, more, d)
    BY <1>3, <1>8, <1>9, <2>1, <2>3, <2>11 DEF Has
  <2>13. QED BY <1>7, <1>8, <2>12 DEF Carries
<1>16. QED
  BY <1>13, <1>14 DEF new, piece

\* The calls of a stream in two parts: those of the second are not those of the first.
SplitsInto(front, back, first, second, log, D) ==
    /\ Names(front, log, D, first) /\ Names(back, log, D, second)
    /\ \A i \in 1..Len(first), j \in 1..Len(second) : front[i] # back[j]

\* The calls of the lines of a stream are those of its two parts.
LEMMA NamesSplit ==
  ASSUME NEW first \in Seq(Seq(Letters)), NEW second \in Seq(Seq(Letters)),
         NEW log, NEW D, NEW c, Names(c, log, D, first \o second)
  PROVE  \E front, back : SplitsInto(front, back, first, second, log, D)
<1> DEFINE M == Len(first)
           N == Len(second)
           both == first \o second
           front == [i \in 1..M |-> c[i]]
           back == [i \in 1..N |-> c[M + i]]
<1>1. /\ M \in Nat /\ N \in Nat /\ Len(both) = M + N
      /\ \A i \in 1..(M + N) : both[i] = IF i =< M THEN first[i] ELSE second[i - M]
  BY ConcatProperties, LenProperties
<1>2. /\ c \in [1..(M + N) -> D]
      /\ \A i, j \in 1..(M + N) : c[i] = c[j] => i = j
      /\ \A i \in 1..(M + N) : both[i] = FormatRecord(log[c[i]])
  BY <1>1 DEF Names
<1> HIDE DEF M, N, both
<1>3. \A i \in 1..M : i \in 1..(M + N) /\ both[i] = first[i]
  BY <1>1
<1>4. \A i \in 1..N : M + i \in 1..(M + N) /\ both[M + i] = second[i]
  <2> SUFFICES ASSUME NEW i \in 1..N PROVE M + i \in 1..(M + N) /\ both[M + i] = second[i]
    OBVIOUS
  <2>1. M + i \in 1..(M + N) /\ ~ (M + i =< M) /\ (M + i) - M = i
    BY <1>1
  <2>2. QED BY <1>1, <2>1
<1>5. /\ front \in [1..M -> D] /\ \A i \in 1..M : front[i] = c[i]
  BY <1>2, <1>3
<1>6. /\ back \in [1..N -> D] /\ \A i \in 1..N : back[i] = c[M + i]
  BY <1>2, <1>4
<1>7. Names(front, log, D, first)
  <2> HIDE DEF front
  <2>1. \A i, j \in 1..M : front[i] = front[j] => i = j
    BY <1>2, <1>3, <1>5
  <2>2. \A i \in 1..M : first[i] = FormatRecord(log[front[i]])
    BY <1>2, <1>3, <1>5
  <2>3. QED BY <1>5, <2>1, <2>2 DEF Names, M
<1>8. Names(back, log, D, second)
  <2> HIDE DEF back
  <2>1. ASSUME NEW i \in 1..N, NEW j \in 1..N, back[i] = back[j] PROVE i = j
    <3>1. M + i = M + j
      BY <1>2, <1>4, <1>6, <2>1
    <3>2. QED BY <1>1, <3>1
  <2>2. \A i \in 1..N : second[i] = FormatRecord(log[back[i]])
    BY <1>2, <1>4, <1>6
  <2>3. QED BY <1>6, <2>1, <2>2 DEF Names, N
<1>9. ASSUME NEW i \in 1..M, NEW j \in 1..N PROVE front[i] # back[j]
  <2> HIDE DEF front, back
  <2>1. i # M + j
    BY <1>1
  <2>2. c[i] # c[M + j]
    BY <1>2, <1>3, <1>4, <2>1
  <2>3. QED BY <1>5, <1>6, <2>2
<1> HIDE DEF front, back
<1>10. QED
  BY <1>7, <1>8, <1>9, Zenon DEF M, N, SplitsInto

\* The lines that a reader keeps are of different calls as well.
LEMMA NamesPicked ==
  ASSUME NEW lines, NEW kept, NEW log, NEW D, NEW c, NEW e,
         Names(c, log, D, lines), PickedBy(e, kept, lines)
  PROVE  Names([i \in 1..Len(kept) |-> c[e[i]]], log, D, kept)
<1> DEFINE N == Len(lines)
           K == Len(kept)
           d == [i \in 1..K |-> c[e[i]]]
<1>1. /\ c \in [1..N -> D] /\ \A i, j \in 1..N : c[i] = c[j] => i = j
  BY DEF Names
<1>2. \A i \in 1..N : lines[i] = FormatRecord(log[c[i]])
  BY DEF Names
<1>3. e \in [1..K -> 1..N] /\ \A i, j \in 1..K : e[i] = e[j] => i = j
  BY DEF PickedBy
<1>4. \A i \in 1..K : kept[i] = lines[e[i]]
  BY DEF PickedBy
<1> HIDE DEF N, K
<1>5. d \in [1..K -> D] /\ \A i \in 1..K : d[i] = c[e[i]]
  BY <1>1, <1>3
<1> HIDE DEF d
<1>6. \A i, j \in 1..K : d[i] = d[j] => i = j
  BY <1>1, <1>3, <1>5
<1>7. \A i \in 1..K : kept[i] = FormatRecord(log[d[i]])
  BY <1>2, <1>3, <1>4, <1>5
<1>8. QED
  BY <1>5, <1>6, <1>7 DEF Names, K, d

\* What recv() of n bytes gives, and what it leaves of a connection.
Read(wire, n) == Feed(wire.reader, SubSeq(wire.bytes, 1, n))
Taken(wire, n) ==
    [wire EXCEPT !.bytes = SubSeq(wire.bytes, n + 1, Len(wire.bytes)), !.reader = Read(wire, n).reader]

\* The lines that come out are of calls of D, and the others are still to come.
ReadFrom(wire, n, log, D, rest) ==
    LET fed == Read(wire, n)
    IN  /\ Len(fed.lines) \in Nat /\ fed.complete \in BOOLEAN /\ (AllFit => fed.complete)
        /\ \E c : /\ Names(c, log, D, fed.lines)
                  /\ Carries(Taken(wire, n), log,
                             {k \in D : \A i \in 1..Len(fed.lines) : c[i] # k}, rest)

\* recv() of a chunk.
LEMMA CarriesFed ==
  ASSUME NEW wire, NEW log, NEW D, NEW rest, NEW n \in 1..Len(wire.bytes), n =< Limit,
         Carries(wire, log, D, rest)
  PROVE  ReadFrom(wire, n, log, D, rest)
<1> DEFINE chunk == SubSeq(wire.bytes, 1, n)
           others == SubSeq(wire.bytes, n + 1, Len(wire.bytes))
           fed == Feed(wire.reader, chunk)
           new == [wire EXCEPT !.bytes = others, !.reader = fed.reader]
<1>0. PICK b \in Seq(Letters), x \in Seq(Bytes) : \E c : Has(wire, log, D, rest, b, x, c)
  BY DEF Carries
<1>1. PICK d : Has(wire, log, D, rest, b, x, d)
  BY <1>0
<1>2. /\ Remembers(wire.reader.pending, wire.reader.skipping, CutUp(b)) /\ x = b \o wire.bytes
      /\ Names(d, log, D, LinesOf(x)) /\ NoneDropped(x)
      /\ ~ wire.closed => Unfinished(x) = rest
  BY <1>1 DEF Has
<1>3. /\ wire \in WireType /\ wire.bytes \in Seq(Bytes) /\ wire.reader \in Readers
      /\ wire.closed \in BOOLEAN
  BY DEF Carries, WireType
<1>4. Len(wire.bytes) \in Nat /\ \A i \in 1..Len(wire.bytes) : wire.bytes[i] \in Bytes
  BY <1>3, ElementOfSeq, LenProperties
<1>5. chunk \in Seq(Bytes) /\ others \in Seq(Bytes) /\ chunk \o others = wire.bytes
      /\ Len(chunk) =< Limit
  <2>1. chunk \in Seq(Bytes) /\ Len(chunk) = n
    BY <1>4, SubSeqProperties
  <2>2. others \in Seq(Bytes)
    BY <1>4, SubSeqProperties
  <2>3. 1 \in 1..(Len(wire.bytes) + 1) /\ n \in (1 - 1)..Len(wire.bytes)
        /\ Len(wire.bytes) \in n..Len(wire.bytes)
    BY <1>4
  <2>4. chunk \o others = SubSeq(wire.bytes, 1, Len(wire.bytes))
    BY <1>3, <2>3, ConcatAdjacentSubSeq
  <2>5. QED BY <1>3, <2>1, <2>2, <2>4, SubSeqFull
<1> HIDE DEF chunk, others
<1> DEFINE y == b \o chunk
           u == Unfinished(y)
           z == u \o others
<1>6. b \in Seq(Bytes) /\ y \in Seq(Bytes) /\ x = y \o others
  <2>1. b \in Seq(Bytes)
    BY LettersAreBytes
  <2>2. y \in Seq(Bytes)
    BY <1>5, <2>1, ConcatProperties
  <2>3. b \o (chunk \o others) = (b \o chunk) \o others
    BY <1>5, <2>1, Regroup
  <2>4. QED BY <1>2, <1>5, <2>1, <2>2, <2>3
<1>7. /\ fed.reader \in Readers /\ fed.lines \in Seq(Seq(Letters)) /\ fed.complete \in BOOLEAN
      /\ Remembers(fed.reader.pending, fed.reader.skipping, CutUp(y))
      /\ KeptLines(y) = KeptLines(b) \o fed.lines
      /\ DroppedLines(y) = DroppedLines(b) + (IF fed.complete THEN 0 ELSE 1)
  BY <1>2, <1>3, <1>5, <1>6, FeedCorrect, Zenon
<1> HIDE DEF y, fed, new
<1>8. u \in Seq(Letters) /\ u \in Seq(Bytes) /\ z \in Seq(Bytes)
  <2>1. u \in Seq(Letters)
    BY <1>6, CutUpType DEF Unfinished, Cuts
  <2> HIDE DEF u
  <2>2. QED BY <1>5, <2>1, LettersAreBytes, ConcatProperties
<1>9. ReadsOn(CutUp(x), CutUp(y), CutUp(z))
  BY <1>5, <1>6, CutUpGoesOn
<1> HIDE DEF u
<1>10. KeptLines(y) = fed.lines
  <2>1. KeptLines(b) = << >>
    BY CutUpWord DEF KeptLines
  <2>2. QED BY <1>7, <2>1, ConcatEmptySeq
<1>11. AllFit => fed.complete /\ DroppedLines(z) = 0
  <2> SUFFICES ASSUME AllFit PROVE fed.complete /\ DroppedLines(z) = 0
    OBVIOUS
  <2>1. DroppedLines(x) = 0
    BY <1>2 DEF NoneDropped
  <2>2. DroppedLines(y) = 0 /\ DroppedLines(z) = 0
    BY <1>5, <1>6, <2>1, DropsOfTheRest DEF u
  <2>3. DroppedLines(b) = 0
    BY <1>5, <1>6, <2>2, DropsOfTheRest DEF y
  <2>4. QED BY <1>7, <2>2, <2>3
<1> HIDE DEF z
<1> DEFINE first == LinesOf(y)
           second == LinesOf(z)
<1>12. /\ first \in Seq(Seq(Letters)) /\ second \in Seq(Seq(Letters))
       /\ LinesOf(x) = first \o second /\ Unfinished(x) = Unfinished(z)
  <2>1. CutUp(y) \in Cuts /\ CutUp(z) \in Cuts
    BY <1>6, <1>8, CutUpType
  <2>2. QED BY <1>9, <2>1 DEF ReadsOn, Cuts, LinesOf, Unfinished
<1>13. PICK e : PickedBy(e, fed.lines, first)
  BY <1>6, <1>10, KeptAreLines
<1> HIDE DEF first, second
<1>24. PICK front, back : SplitsInto(front, back, first, second, log, D)
  <2>1. Names(d, log, D, first \o second)
    BY <1>2, <1>12
  <2>2. first \in Seq(Seq(Letters)) /\ second \in Seq(Seq(Letters))
    BY <1>12
  <2>3. QED BY <2>1, <2>2, NamesSplit
<1>14. /\ Names(front, log, D, first) /\ Names(back, log, D, second)
       /\ \A i \in 1..Len(first), j \in 1..Len(second) : front[i] # back[j]
  BY <1>24 DEF SplitsInto
<1> DEFINE c == [i \in 1..Len(fed.lines) |-> front[e[i]]]
           D2 == {k \in D : \A i \in 1..Len(fed.lines) : c[i] # k}
<1>15. Names(c, log, D, fed.lines)
  BY <1>13, <1>14, NamesPicked
<1>16. Names(back, log, D2, second)
  <2>1. ASSUME NEW j \in 1..Len(second) PROVE back[j] \in D2
    <3>1. back[j] \in D
      BY <1>14 DEF Names
    <3>2. ASSUME NEW i \in 1..Len(fed.lines) PROVE c[i] # back[j]
      <4>1. e[i] \in 1..Len(first) /\ c[i] = front[e[i]]
        BY <1>13 DEF PickedBy
      <4>2. QED BY <1>14, <4>1
    <3>3. QED BY <3>1, <3>2
  <2>2. back \in [1..Len(second) -> D2]
    <3>1. back \in [1..Len(second) -> D]
      BY <1>14 DEF Names
    <3> HIDE DEF D2
    <3>2. QED BY <2>1, <3>1
  <2> HIDE DEF D2
  <2>3. QED BY <1>14, <2>2 DEF Names
<1>17. new = [bytes |-> others, closed |-> wire.closed, reader |-> fed.reader]
  <2> DEFINE h == fed.reader
  <2>1. new = [wire EXCEPT !.bytes = others, !.reader = h]
    BY DEF new
  <2> HIDE DEF h
  <2>2. [wire EXCEPT !.bytes = others, !.reader = h]
          = [bytes |-> others, closed |-> wire.closed, reader |-> h]
    <3>1. wire \in WireType
      BY <1>3
    <3> HIDE DEF c, D2
    <3>2. QED BY <3>1, WireFed
  <2>3. QED BY <2>1, <2>2 DEF h
<1>18. /\ new \in WireType /\ new.bytes = others /\ new.closed = wire.closed
       /\ new.reader = fed.reader
  BY <1>3, <1>5, <1>7, <1>17 DEF WireType
<1>19. Remembers(new.reader.pending, new.reader.skipping, CutUp(u))
  <2>1. CutUp(u).rest = CutUp(y).rest
    BY <1>8, CutUpWord DEF u, Unfinished
  <2>2. QED BY <1>7, <1>18, <2>1 DEF Remembers
<1>20. Has(new, log, D2, rest, u, z, back)
  <2>1. NoneDropped(z) /\ (~ new.closed => Unfinished(z) = rest) /\ z = u \o new.bytes
    BY <1>2, <1>11, <1>12, <1>18 DEF NoneDropped, z
  <2> HIDE DEF D2
  <2>2. QED BY <1>16, <1>19, <2>1 DEF Has, second
<1>21. Carries(new, log, D2, rest)
  <2> HIDE DEF D2
  <2>1. QED BY <1>8, <1>18, <1>20 DEF Carries
<1>22. Len(fed.lines) \in Nat
  BY <1>7, LenProperties
<1> HIDE DEF c
<1>23. QED
  BY <1>7, <1>11, <1>15, <1>21, <1>22, Zenon DEF ReadFrom, Read, Taken, fed, new, chunk, others

\* A connection that the sender closes.
LEMMA CarriesClosed ==
  ASSUME NEW wire, NEW log, NEW D, NEW rest, NEW rest2, Carries(wire, log, D, rest)
  PROVE  Carries([wire EXCEPT !.closed = TRUE], log, D, rest2)
<1> DEFINE new == [wire EXCEPT !.closed = TRUE]
<1>0. PICK b \in Seq(Letters), x \in Seq(Bytes) : \E c : Has(wire, log, D, rest, b, x, c)
  BY DEF Carries
<1>1. PICK c : Has(wire, log, D, rest, b, x, c)
  BY <1>0
<1>2. wire \in WireType
  BY DEF Carries
<1>3. /\ new \in WireType /\ new.closed = TRUE
      /\ new.bytes = wire.bytes /\ new.reader = wire.reader
  BY <1>2 DEF WireType
<1> HIDE DEF new
<1>4. Has(new, log, D, rest2, b, x, c)
  BY <1>1, <1>3 DEF Has
<1>5. QED
  BY <1>3, <1>4 DEF Carries, new

\* The collector forgets what a client has begun that has gone.
LEMMA CarriesEnd ==
  ASSUME NEW wire \in WireType, wire.bytes = << >>, wire.closed, NEW log, NEW D, NEW rest
  PROVE  Carries([wire EXCEPT !.reader = Fresh], log, D, rest)
<1> DEFINE new == [wire EXCEPT !.reader = Fresh]
<1>1. wire = [bytes |-> wire.bytes, closed |-> wire.closed, reader |-> wire.reader]
  BY DEF WireType
<1>2. wire.closed = TRUE
  BY DEF WireType
<1>3. new = [bytes |-> wire.bytes, closed |-> wire.closed, reader |-> Fresh]
  <2> DEFINE r == Fresh
  <2>1. new = [wire EXCEPT !.reader = r]
    OBVIOUS
  <2> HIDE DEF r, new
  <2>2. new = [bytes |-> wire.bytes, closed |-> wire.closed, reader |-> r]
    BY <1>1, <2>1
  <2>3. QED BY <2>2 DEF r
<1>4. new = [bytes |-> << >>, closed |-> TRUE, reader |-> Fresh]
  BY <1>2, <1>3
<1>5. Carries([bytes |-> << >>, closed |-> TRUE, reader |-> Fresh], log, D, rest)
  BY NewCarries
<1>6. QED
  BY <1>4, <1>5

-----------------------------------------------------------------------------
(* What may still be counted, and what has been.                            *)

\* The lines on connections and the datagrams are those of calls that are due; no two
\* connections have one of the same call.
Kept(log, due, D, ws, rest, dgs) ==
    /\ D \in [DOMAIN ws -> SUBSET due]
    /\ \A i, j \in DOMAIN ws : i # j => D[i] \cap D[j] = {}
    /\ \A k \in DOMAIN ws : Carries(ws[k], log, D[k], rest)
    /\ \A g \in dgs : \E k \in due : g = FrameOf(log[k])

Books(log, ok, ws, rest, dgs, via, extra, tally) ==
    \E due \in SUBSET ok : \E D : /\ Kept(log, due, D, ws, rest, dgs)
                                  /\ Accounts(log, ok, via, extra, tally, due)

\* Whatever a connection has carried, it does now.
Follows(w, w2, log, log2, ok, rest, rest2) ==
    \A E \in SUBSET ok : Carries(w, log, E, rest) => Carries(w2, log2, E, rest2)

\* Steps that bring nothing to the collector, and nothing new on its way.
LEMMA BooksLast ==
  ASSUME NEW log, NEW log2, IsLog(log2), Lengthens(log, log2),
         NEW ok \in SUBSET (DOMAIN log), NEW ok2 \in SUBSET (DOMAIN log2), ok \subseteq ok2,
         NEW ws, NEW ws2, NEW rest, NEW rest2,
         \A k \in DOMAIN ws2 :
            \/ k \in DOMAIN ws /\ Follows(ws[k], ws2[k], log, log2, ok, rest, rest2)
            \/ k \notin DOMAIN ws /\ Carries(ws2[k], log2, {}, rest2),
         NEW dgs, NEW via, NEW extra, NEW tally,
         Books(log, ok, ws, rest, dgs, via, extra, tally)
  PROVE  Books(log2, ok2, ws2, rest2, dgs, via, extra, tally)
<1>1. PICK due \in SUBSET ok : \E D : /\ Kept(log, due, D, ws, rest, dgs)
                                      /\ Accounts(log, ok, via, extra, tally, due)
  BY DEF Books
<1>2. PICK D : Kept(log, due, D, ws, rest, dgs) /\ Accounts(log, ok, via, extra, tally, due)
  BY <1>1
<1>3. /\ D \in [DOMAIN ws -> SUBSET due]
      /\ \A i, j \in DOMAIN ws : i # j => D[i] \cap D[j] = {}
      /\ \A k \in DOMAIN ws : Carries(ws[k], log, D[k], rest)
      /\ \A g \in dgs : \E k \in due : g = FrameOf(log[k])
  BY <1>2 DEF Kept
<1> DEFINE D2 == [k \in DOMAIN ws2 |-> IF k \in DOMAIN ws THEN D[k] ELSE {}]
<1>4. D2 \in [DOMAIN ws2 -> SUBSET due]
  BY <1>3
<1>5. \A k \in DOMAIN ws2 : D2[k] = IF k \in DOMAIN ws THEN D[k] ELSE {}
  OBVIOUS
<1> HIDE DEF D2
<1>6. ASSUME NEW i \in DOMAIN ws2, NEW j \in DOMAIN ws2, i # j PROVE D2[i] \cap D2[j] = {}
  BY <1>3, <1>5, <1>6
<1>7. ASSUME NEW k \in DOMAIN ws2 PROVE Carries(ws2[k], log2, D2[k], rest2)
  <2>1. CASE k \in DOMAIN ws
    <3>1. Follows(ws[k], ws2[k], log, log2, ok, rest, rest2)
      BY <2>1
    <3>2. D[k] \in SUBSET ok /\ Carries(ws[k], log, D[k], rest)
      BY <1>3, <2>1
    <3>3. QED BY <1>5, <2>1, <3>1, <3>2 DEF Follows
  <2>2. CASE k \notin DOMAIN ws
    BY <1>5, <2>2
  <2>3. QED BY <2>1, <2>2
<1>8. \A g \in dgs : \E k \in due : g = FrameOf(log2[k])
  BY <1>3 DEF Lengthens
<1>9. Kept(log2, due, D2, ws2, rest2, dgs)
  BY <1>4, <1>6, <1>7, <1>8 DEF Kept
<1>10. due \subseteq due \cup (ok2 \ ok)
  OBVIOUS
<1>11. Accounts(log2, ok2, via, extra, tally, due)
  BY <1>2, <1>10, AccountsLast
<1>12. due \in SUBSET ok2
  OBVIOUS
<1>13. QED
  BY <1>9, <1>11, <1>12 DEF Books

\* The last piece of a frame is taken: its call is due from now on.
LEMMA BooksSent ==
  ASSUME NEW log, IsLog(log), NEW ok \in SUBSET (DOMAIN log), NEW k \in DOMAIN log, k \notin ok,
         NEW ws, NEW l \in DOMAIN ws, NEW ws2, DOMAIN ws2 = DOMAIN ws, NEW rest, NEW rest2,
         \A E \in SUBSET ok : Carries(ws[l], log, E, rest) => Carries(ws2[l], log, E \cup {k}, rest2),
         \A j \in DOMAIN ws : j # l => ws2[j] = ws[j] /\ ws[j].closed,
         NEW dgs, NEW via, NEW extra, NEW tally,
         Books(log, ok, ws, rest, dgs, via, extra, tally)
  PROVE  Books(log, ok \cup {k}, ws2, rest2, dgs, via, extra, tally)
<1>1. PICK due \in SUBSET ok : \E D : /\ Kept(log, due, D, ws, rest, dgs)
                                      /\ Accounts(log, ok, via, extra, tally, due)
  BY DEF Books
<1>2. PICK D : Kept(log, due, D, ws, rest, dgs) /\ Accounts(log, ok, via, extra, tally, due)
  BY <1>1
<1>3. /\ D \in [DOMAIN ws -> SUBSET due]
      /\ \A i, j \in DOMAIN ws : i # j => D[i] \cap D[j] = {}
      /\ \A j \in DOMAIN ws : Carries(ws[j], log, D[j], rest)
      /\ \A g \in dgs : \E j \in due : g = FrameOf(log[j])
  BY <1>2 DEF Kept
<1> DEFINE due2 == due \cup {k}
           ok2 == ok \cup {k}
           D2 == [j \in DOMAIN ws2 |-> IF j = l THEN D[j] \cup {k} ELSE D[j]]
<1>4. D2 \in [DOMAIN ws2 -> SUBSET due2]
  BY <1>3
<1>5. \A j \in DOMAIN ws : D2[j] = (IF j = l THEN D[j] \cup {k} ELSE D[j]) /\ k \notin D[j]
  BY <1>3
<1> HIDE DEF D2
<1>6. ASSUME NEW i \in DOMAIN ws, NEW j \in DOMAIN ws, i # j PROVE D2[i] \cap D2[j] = {}
  <2>1. D[i] \cap D[j] = {} /\ k \notin D[i] /\ k \notin D[j]
    BY <1>3, <1>5, <1>6
  <2>2. D2[i] = (IF i = l THEN D[i] \cup {k} ELSE D[i])
    BY <1>5
  <2>3. D2[j] = (IF j = l THEN D[j] \cup {k} ELSE D[j])
    BY <1>5
  <2>4. CASE i = l
    <3>1. D2[i] = D[i] \cup {k} /\ D2[j] = D[j]
      BY <1>6, <2>2, <2>3, <2>4
    <3>2. QED BY <2>1, <3>1
  <2>5. CASE i # l
    <3>1. D2[i] = D[i] /\ D2[j] \subseteq D[j] \cup {k}
      BY <2>2, <2>3, <2>5
    <3>2. QED BY <2>1, <3>1
  <2>6. QED BY <2>4, <2>5
<1>7. ASSUME NEW j \in DOMAIN ws2 PROVE Carries(ws2[j], log, D2[j], rest2)
  <2>1. D[j] \in SUBSET ok /\ Carries(ws[j], log, D[j], rest) /\ j \in DOMAIN ws
    BY <1>3
  <2>2. CASE j = l
    BY <1>5, <2>1, <2>2
  <2>3. CASE j # l
    <3>1. ws2[j] = ws[j] /\ ws[j].closed /\ D2[j] = D[j]
      BY <1>5, <2>1, <2>3
    <3>2. Lengthens(log, log) /\ D[j] \in SUBSET (DOMAIN log) /\ D[j] \subseteq D[j]
      BY <2>1 DEF Lengthens
    <3>3. Carries(ws[j], log, D[j], rest2)
      BY <2>1, <3>1, <3>2, CarriesLast
    <3>4. QED BY <3>1, <3>3
  <2>4. QED BY <2>2, <2>3
<1>8. \A g \in dgs : \E j \in due2 : g = FrameOf(log[j])
  BY <1>3
<1>9. Kept(log, due2, D2, ws2, rest2, dgs)
  <2> HIDE DEF due2
  <2>1. QED BY <1>4, <1>6, <1>7, <1>8 DEF Kept
<1>10. /\ due2 \subseteq due \cup (ok2 \ ok) /\ ok \subseteq ok2 /\ ok2 \in SUBSET (DOMAIN log)
       /\ due2 \in SUBSET ok2 /\ Lengthens(log, log)
  BY DEF Lengthens
<1> HIDE DEF due2, ok2
<1>11. Accounts(log, ok2, via, extra, tally, due2)
  BY <1>2, <1>10, AccountsLast
<1>12. QED
  BY <1>9, <1>10, <1>11 DEF Books, ok2

\* A datagram is sent.
LEMMA BooksDatagram ==
  ASSUME NEW log, NEW log2, IsLog(log2), Lengthens(log, log2), NEW ok \in SUBSET (DOMAIN log),
         NEW k \in DOMAIN log2, k \notin ok, NEW ws, DOMAIN ws = {}, NEW rest,
         NEW dgs, NEW via, NEW extra, NEW tally,
         Books(log, ok, ws, rest, dgs, via, extra, tally)
  PROVE  Books(log2, ok \cup {k}, ws, rest, dgs \cup {FrameOf(log2[k])}, via, extra, tally)
<1>1. PICK due \in SUBSET ok : \E D : /\ Kept(log, due, D, ws, rest, dgs)
                                      /\ Accounts(log, ok, via, extra, tally, due)
  BY DEF Books
<1>2. PICK D : Kept(log, due, D, ws, rest, dgs) /\ Accounts(log, ok, via, extra, tally, due)
  BY <1>1
<1>3. /\ D \in [DOMAIN ws -> SUBSET due]
      /\ \A g \in dgs : \E j \in due : g = FrameOf(log[j])
  BY <1>2 DEF Kept
<1> DEFINE due2 == due \cup {k}
           ok2 == ok \cup {k}
           dgs2 == dgs \cup {FrameOf(log2[k])}
<1>4. D \in [DOMAIN ws -> SUBSET due2]
  BY <1>3
<1>5. \A g \in dgs2 : \E j \in due2 : g = FrameOf(log2[j])
  <2>1. \A j \in due : log2[j] = log[j]
    BY DEF Lengthens
  <2>2. QED BY <1>3, <2>1
<1>6. Kept(log2, due2, D, ws, rest, dgs2)
  <2> HIDE DEF due2, dgs2
  <2>1. QED BY <1>4, <1>5 DEF Kept
<1>7. /\ due2 \subseteq due \cup (ok2 \ ok) /\ ok \subseteq ok2 /\ ok2 \in SUBSET (DOMAIN log2)
      /\ due2 \in SUBSET ok2
  BY DEF Lengthens
<1> HIDE DEF due2, ok2, dgs2
<1>8. Accounts(log2, ok2, via, extra, tally, due2)
  BY <1>2, <1>7, AccountsLast
<1>9. QED
  BY <1>6, <1>7, <1>8 DEF Books, ok2, dgs2

\* The collector consumes the lines that a connection has brought.
LEMMA BooksFed ==
  ASSUME NEW log, IsLog(log), NEW ok \in SUBSET (DOMAIN log),
         NEW ws, NEW l \in DOMAIN ws, NEW ws2, DOMAIN ws2 = DOMAIN ws, NEW rest,
         NEW lines, Len(lines) \in Nat, NEW drops \in {0, 1}, AllFit => drops = 0,
         \A E \in SUBSET ok : Carries(ws[l], log, E, rest) =>
            \E c : /\ Names(c, log, E, lines)
                   /\ Carries(ws2[l], log, {k \in E : \A i \in 1..Len(lines) : c[i] # k}, rest),
         \A j \in DOMAIN ws : j # l => ws2[j] = ws[j],
         NEW via, NEW extra \in Nat, NEW tally,
         Books(log, ok, ws, rest, {}, via, extra, tally)
  PROVE  LET new == Consumed(tally, lines)
         IN  Books(log, ok, ws2, rest, {}, via, extra,
                   [counted |-> new.counted, malformed |-> new.malformed + drops])
<1>1. PICK due \in SUBSET ok : \E D : /\ Kept(log, due, D, ws, rest, {})
                                      /\ Accounts(log, ok, via, extra, tally, due)
  BY DEF Books
<1>2. PICK D : Kept(log, due, D, ws, rest, {}) /\ Accounts(log, ok, via, extra, tally, due)
  BY <1>1
<1>3. /\ D \in [DOMAIN ws -> SUBSET due]
      /\ \A i, j \in DOMAIN ws : i # j => D[i] \cap D[j] = {}
      /\ \A j \in DOMAIN ws : Carries(ws[j], log, D[j], rest)
  BY <1>2 DEF Kept
<1> DEFINE Left(c, S) == {k \in S : \A i \in 1..Len(lines) : c[i] # k}
<1>4. PICK c : Names(c, log, D[l], lines) /\ Carries(ws2[l], log, Left(c, D[l]), rest)
  <2>1. D[l] \in SUBSET ok /\ Carries(ws[l], log, D[l], rest)
    BY <1>3
  <2>2. QED BY <2>1
<1> DEFINE due2 == Left(c, due)
           D2 == [j \in DOMAIN ws2 |-> IF j = l THEN Left(c, D[j]) ELSE D[j]]
           new == Consumed(tally, lines)
<1>5. /\ c \in [1..Len(lines) -> D[l]]
      /\ \A i, j \in 1..Len(lines) : c[i] = c[j] => i = j
      /\ \A i \in 1..Len(lines) : lines[i] = FormatRecord(log[c[i]])
  BY <1>4 DEF Names
<1>6. ASSUME NEW j \in DOMAIN ws PROVE D2[j] \in SUBSET due2 /\ D2[j] \in SUBSET D[j]
  <2>1. CASE j = l
    BY <1>3, <2>1
  <2>2. CASE j # l
    <3>1. \A i \in 1..Len(lines) : c[i] \in D[l]
      BY <1>5
    <3>2. D[j] \cap D[l] = {} /\ D[j] \in SUBSET due
      BY <1>3, <2>2
    <3>3. QED BY <2>2, <3>1, <3>2
  <2>3. QED BY <2>1, <2>2
<1>7. D2 \in [DOMAIN ws2 -> SUBSET due2]
  <2> HIDE DEF due2
  <2>1. D2 = [j \in DOMAIN ws2 |-> D2[j]]
    OBVIOUS
  <2> HIDE DEF D2
  <2>2. QED BY <1>6, <2>1
<1>8. \A j \in DOMAIN ws : D2[j] = IF j = l THEN Left(c, D[j]) ELSE D[j]
  OBVIOUS
<1>9. due2 \in SUBSET due /\ \A i \in 1..Len(lines) : c[i] \notin due2
  OBVIOUS
<1> HIDE DEF D2, due2, Left
<1>10. \A i, j \in DOMAIN ws : i # j => D2[i] \cap D2[j] = {}
  BY <1>3, <1>6
<1>11. ASSUME NEW j \in DOMAIN ws2 PROVE Carries(ws2[j], log, D2[j], rest)
  <2>1. CASE j = l
    BY <1>4, <1>8, <2>1
  <2>2. CASE j # l
    BY <1>3, <1>8, <2>2
  <2>3. QED BY <2>1, <2>2
<1>12. Kept(log, due2, D2, ws2, rest, {})
  BY <1>7, <1>10, <1>11 DEF Kept
<1>13. c \in [1..Len(lines) -> due]
  BY <1>3, <1>5
<1>14. Accounts(log, ok, via, extra, new, due2)
  BY <1>2, <1>5, <1>9, <1>13, CountAll
<1> HIDE DEF new
<1>15. Accounts(log, ok, via, extra,
                [counted |-> new.counted, malformed |-> new.malformed + drops], due2)
  BY <1>14, CountDrop
<1>16. due2 \in SUBSET ok
  BY <1>9
<1>17. QED
  BY <1>12, <1>15, <1>16 DEF Books, new

\* A frame is one line, for the receiver of datagrams too.
LEMMA SplitFrame ==
  ASSUME NEW r \in Records PROVE SplitDatagram(FrameOf(r)) = <<FormatRecord(r)>>
<1> DEFINE word == FormatRecord(r)
           all == FrameOf(r)
<1>1. word \in Seq(Letters) /\ word \in Seq(Bytes) /\ Newline = LF /\ Newline \in Bytes
  BY LineOfRecord, LettersAreBytes, DeliveryAssumption DEF Bytes
<1>2. all = Append(word, Newline)
  BY <1>1 DEF FrameOf
<1> HIDE DEF word, all
<1>3. CutUp(all) = NextByte(CutUp(word), Newline)
  BY <1>1, <1>2, CutUpAppend
<1>4. CutUp(word).lines = << >> /\ CutUp(word).rest = word
  BY <1>1, CutUpWord
<1>5. LinesOf(all) = Append(<< >>, word) /\ Unfinished(all) = << >>
  BY <1>3, <1>4, OnNewline DEF LinesOf, Unfinished
<1>6. Append(<< >>, word) = <<word>> /\ <<word>> \o << >> = <<word>>
  OBVIOUS
<1>7. SplitDatagram(all) = <<word>>
  BY <1>5, <1>6 DEF SplitDatagram
<1>8. QED
  BY <1>7 DEF word, all

\* One line is consumed at once.
LEMMA ConsumedOne ==
  ASSUME NEW t \in Tallies, NEW r \in Records
  PROVE  /\ Consumed(t, <<FormatRecord(r)>>) = ConsumeLine(t, FormatRecord(r))
         /\ Consumed(t, <<FormatRecord(r)>>) \in Tallies
<1> DEFINE line == FormatRecord(r)
           lines == <<line>>
<1>1. Len(lines) = 1 /\ lines[1] = line
  OBVIOUS
<1> HIDE DEF lines
<1>2. \A n \in 1..Len(lines) : \E s \in Records : lines[n] = FormatRecord(s)
  BY <1>1
<1>3. PICK f \in [0..Len(lines) -> Tallies] :
         /\ f[0] = t
         /\ \A n \in 1..Len(lines) : f[n] = ConsumeLine(f[n - 1], lines[n])
         /\ Consumed(t, lines) = f[Len(lines)]
  BY <1>1, <1>2, ConsumedSteps
<1>4. f[1] = ConsumeLine(f[1 - 1], lines[1]) /\ 1 - 1 = 0 /\ f[1] \in Tallies
  BY <1>1, <1>3
<1>5. QED
  BY <1>1, <1>3, <1>4 DEF lines

\* A datagram comes, for the last time ...
LEMMA BooksReceived ==
  ASSUME NEW log, IsLog(log), NEW ok \in SUBSET (DOMAIN log), NEW ws, DOMAIN ws = {}, NEW rest,
         NEW dgs, NEW g \in dgs, NEW via, NEW extra \in Nat, NEW tally,
         Books(log, ok, ws, rest, dgs, via, extra, tally)
  PROVE  /\ Books(log, ok, ws, rest, dgs \ {g}, via, extra, Consumed(tally, SplitDatagram(g)))
         /\ Consumed(tally, SplitDatagram(g)) \in Tallies
<1>1. PICK due \in SUBSET ok : \E D : /\ Kept(log, due, D, ws, rest, dgs)
                                      /\ Accounts(log, ok, via, extra, tally, due)
  BY DEF Books
<1>2. PICK D : Kept(log, due, D, ws, rest, dgs) /\ Accounts(log, ok, via, extra, tally, due)
  BY <1>1
<1>3. D \in [DOMAIN ws -> SUBSET due] /\ \A h \in dgs : \E j \in due : h = FrameOf(log[j])
  BY <1>2 DEF Kept
<1>4. PICK k \in due : g = FrameOf(log[k])
  BY <1>3
<1> DEFINE due2 == {j \in due : FrameOf(log[j]) # g}
<1>5. log[k] \in Records /\ tally \in Tallies
  BY <1>2, ElementOfSeq, LenProperties DEF IsLog, Accounts
<1>6. /\ Consumed(tally, SplitDatagram(g)) = ConsumeLine(tally, FormatRecord(log[k]))
      /\ Consumed(tally, SplitDatagram(g)) \in Tallies
  BY <1>4, <1>5, SplitFrame, ConsumedOne
<1>7. due2 \in SUBSET (due \ {k}) /\ due2 \in SUBSET ok
  BY <1>4
<1>8. \A h \in dgs \ {g} : \E j \in due2 : h = FrameOf(log[j])
  BY <1>3
<1>9. D \in [DOMAIN ws -> SUBSET due2]
  BY <1>3
<1> HIDE DEF due2
<1>10. Kept(log, due2, D, ws, rest, dgs \ {g})
  BY <1>8, <1>9 DEF Kept
<1>11. Accounts(log, ok, via, extra, Consumed(tally, SplitDatagram(g)), due2)
  <2>1. Accounts(log, ok, via, extra, ConsumeLine(tally, FormatRecord(log[k])), due2)
    BY <1>2, <1>7, CountOne
  <2>2. QED BY <1>6, <2>1
<1>12. QED
  BY <1>6, <1>7, <1>10, <1>11 DEF Books

\* ... or not.
LEMMA BooksRepeated ==
  ASSUME NEW log, IsLog(log), NEW ok \in SUBSET (DOMAIN log), NEW ws, NEW rest,
         NEW dgs, NEW g \in dgs, NEW via, via # "tcp", NEW extra \in Nat, NEW tally,
         Books(log, ok, ws, rest, dgs, via, extra, tally)
  PROVE  /\ Books(log, ok, ws, rest, dgs, via, extra + 1, Consumed(tally, SplitDatagram(g)))
         /\ Consumed(tally, SplitDatagram(g)) \in Tallies
<1>1. PICK due \in SUBSET ok : \E D : /\ Kept(log, due, D, ws, rest, dgs)
                                      /\ Accounts(log, ok, via, extra, tally, due)
  BY DEF Books
<1>2. PICK D : Kept(log, due, D, ws, rest, dgs) /\ Accounts(log, ok, via, extra, tally, due)
  BY <1>1
<1>3. PICK k \in due : g = FrameOf(log[k])
  BY <1>2 DEF Kept
<1>4. log[k] \in Records /\ tally \in Tallies /\ k \in ok
  BY <1>2, ElementOfSeq, LenProperties DEF IsLog, Accounts
<1>5. /\ Consumed(tally, SplitDatagram(g)) = ConsumeLine(tally, FormatRecord(log[k]))
      /\ Consumed(tally, SplitDatagram(g)) \in Tallies
  BY <1>3, <1>4, SplitFrame, ConsumedOne
<1>6. Accounts(log, ok, via, extra + 1, Consumed(tally, SplitDatagram(g)), due)
  BY <1>2, <1>4, <1>5, CountAgain
<1>7. QED
  BY <1>2, <1>5, <1>6 DEF Books

-----------------------------------------------------------------------------
(* The invariant.                                                           *)

\* What has been sent of a line that has not ended yet.
Rest(f, s) == IF s = Len(f) THEN << >> ELSE SubSeq(f, 1, s)

\* The calls that have not failed, with one that has sent all that it had to send.
Succeeded(res, log, f, s) ==
    {k \in DOMAIN res : res[k]} \cup (IF f # << >> /\ s = Len(f) THEN {Len(log)} ELSE {})

\* Where log() and the sinks are.
Calls(log, res, f, s, l) ==
    /\ IsLog(log) /\ res \in Seq(BOOLEAN)
    /\ Len(log) = Len(res) + (IF f = << >> THEN 0 ELSE 1)
    /\ f # << >> => f = FrameOf(log[Len(log)]) /\ l # 0
    /\ s \in 0..Len(f) /\ f \in Seq(Bytes)

\* Only the connection that the sink has is open.
Connections(ws, l) ==
    /\ ws \in Seq(WireType) /\ l \in 0..Len(ws)
    /\ \A k \in DOMAIN ws : ~ ws[k].closed => k = l

ByProtocol(via, f, ws, dgs) ==
    /\ via \in {"tcp", "udp"}
    /\ via = "udp" => ws = << >> /\ f = << >>
    /\ via = "tcp" => dgs = {}

Tally == [counted |-> counted, malformed |-> malformed]

DeliveryInv ==
    /\ Calls(logged, result, frame, sent, link)
    /\ Connections(wires, link)
    /\ ByProtocol(protocol, frame, wires, datagrams)
    /\ repeats \in Nat
    /\ Books(logged, Succeeded(result, logged, frame, sent), wires, Rest(frame, sent),
             datagrams, protocol, repeats, Tally)

-----------------------------------------------------------------------------
(* The calls of log().                                                      *)

\* A frame is not empty.
LEMMA FrameType ==
  ASSUME NEW r \in Records
  PROVE  /\ FrameOf(r) \in Seq(Bytes) /\ FrameOf(r) # << >>
         /\ FrameOf(r) = Append(FormatRecord(r), Newline)
         /\ Len(FrameOf(r)) = Len(FormatRecord(r)) + 1 /\ Len(FormatRecord(r)) \in Nat
<1> DEFINE word == FormatRecord(r)
<1>1. word \in Seq(Letters) /\ Newline = LF
  BY LineOfRecord, DeliveryAssumption
<1>2. FrameOf(r) = Append(word, Newline)
  BY <1>1 DEF FrameOf
<1> HIDE DEF word
<1>3. /\ Append(word, Newline) \in Seq(Bytes) /\ Len(Append(word, Newline)) = Len(word) + 1
      /\ Len(word) \in Nat
  BY <1>1, FrameLetters
<1>4. Append(word, Newline) # << >>
  BY <1>3
<1>5. QED
  BY <1>2, <1>3, <1>4 DEF word

\* Between two calls.
LEMMA BetweenCalls ==
  ASSUME NEW log, NEW res, NEW s, NEW l, Calls(log, res, << >>, s, l)
  PROVE  /\ s = 0 /\ Len(log) = Len(res) /\ Len(log) \in Nat
         /\ DOMAIN log = 1..Len(log) /\ DOMAIN res = 1..Len(log)
         /\ Succeeded(res, log, << >>, s) = {k \in DOMAIN res : res[k]}
         /\ Succeeded(res, log, << >>, s) \in SUBSET (DOMAIN log)
         /\ Rest(<< >>, s) = << >>
<1>1. /\ log \in Seq(Records) /\ res \in Seq(BOOLEAN)
      /\ Len(log) = Len(res) + 0 /\ s \in 0..Len(<< >>) /\ Len(<< >>) = 0
  BY DEF Calls, IsLog
<1>2. /\ Len(log) \in Nat /\ Len(res) \in Nat
      /\ DOMAIN log = 1..Len(log) /\ DOMAIN res = 1..Len(res)
  BY <1>1, LenProperties
<1>3. s = 0 /\ Len(log) = Len(res)
  BY <1>1, <1>2
<1>4. Succeeded(res, log, << >>, s) = {k \in DOMAIN res : res[k]}
  BY DEF Succeeded
<1>5. Rest(<< >>, s) = << >>
  BY <1>1, <1>3 DEF Rest
<1>6. QED
  BY <1>2, <1>3, <1>4, <1>5

\* A call has its place behind the others.
LEMMA CallIsLast ==
  ASSUME NEW log, NEW res, NEW s, NEW l, Calls(log, res, << >>, s, l),
         NEW r \in Records, \A i \in DOMAIN log : log[i].time # r.time
  PROVE  LET log2 == Append(log, r)
         IN  /\ IsLog(log2) /\ Lengthens(log, log2)
             /\ Len(log2) = Len(log) + 1 /\ log2[Len(log2)] = r
             /\ Len(log2) \in DOMAIN log2 /\ Len(log2) \notin DOMAIN log
             /\ DOMAIN log2 = 1..(Len(log) + 1)
<1> DEFINE log2 == Append(log, r)
           N == Len(log)
<1>1. log \in Seq(Records) /\ \A i, j \in DOMAIN log : log[i].time = log[j].time => i = j
  BY DEF Calls, IsLog
<1>2. /\ log2 \in Seq(Records) /\ Len(log2) = N + 1 /\ log2[N + 1] = r
      /\ \A i \in 1..N : log2[i] = log[i]
      /\ N \in Nat /\ DOMAIN log = 1..N
  BY <1>1, AppendProperties, LenProperties
<1>3. DOMAIN log2 = 1..(N + 1)
  BY <1>2, LenProperties
<1> HIDE DEF log2, N
<1>4. \A i \in 1..(N + 1) : i = N + 1 \/ i \in 1..N
  BY <1>2
<1>5. ASSUME NEW i \in DOMAIN log2, NEW j \in DOMAIN log2, log2[i].time = log2[j].time PROVE i = j
  BY <1>1, <1>2, <1>3, <1>4, <1>5
<1>6. IsLog(log2)
  BY <1>2, <1>5 DEF IsLog
<1>7. Lengthens(log, log2)
  <2>1. \A i \in DOMAIN log : i \in DOMAIN log2
    BY <1>2, <1>3
  <2>2. QED BY <1>2, <2>1 DEF Lengthens
<1>8. N + 1 \in 1..(N + 1) /\ N + 1 \notin 1..N
  BY <1>2
<1>9. QED
  BY <1>2, <1>3, <1>6, <1>7, <1>8 DEF log2, N

\* It begins to send its frame, ...
LEMMA CallBegins ==
  ASSUME NEW log, NEW res, NEW s, NEW l, Calls(log, res, << >>, s, l),
         NEW r \in Records, \A i \in DOMAIN log : log[i].time # r.time,
         NEW l2, l2 # 0
  PROVE  /\ Calls(Append(log, r), res, FrameOf(r), 0, l2)
         /\ Succeeded(res, Append(log, r), FrameOf(r), 0) = Succeeded(res, log, << >>, s)
         /\ Rest(FrameOf(r), 0) = << >>
<1> DEFINE log2 == Append(log, r)
           F == FrameOf(r)
<1>1. /\ IsLog(log2) /\ Len(log2) = Len(log) + 1 /\ log2[Len(log2)] = r
  BY CallIsLast
<1>2. Len(log) = Len(res) /\ Len(log) \in Nat
      /\ Succeeded(res, log, << >>, s) = {k \in DOMAIN res : res[k]}
  BY BetweenCalls
<1>3. F \in Seq(Bytes) /\ F # << >> /\ Len(F) \in Nat /\ Len(F) # 0 /\ 0 \in 0..Len(F)
  <2>1. F \in Seq(Bytes) /\ F # << >> /\ Len(F) = Len(FormatRecord(r)) + 1
        /\ Len(FormatRecord(r)) \in Nat
    BY FrameType
  <2> HIDE DEF F
  <2>2. QED BY <2>1
<1>4. res \in Seq(BOOLEAN)
  BY DEF Calls
<1>5. F = FrameOf(log2[Len(log2)])
  BY <1>1
<1> HIDE DEF log2, F
<1>6. Calls(log2, res, F, 0, l2)
  BY <1>1, <1>2, <1>3, <1>4, <1>5 DEF Calls
<1>7. Succeeded(res, log2, F, 0) = {k \in DOMAIN res : res[k]}
  BY <1>3 DEF Succeeded
<1>8. Rest(F, 0) = << >>
  <2>1. SubSeq(F, 1, 0) = << >>
    BY SubSeqEmpty
  <2>2. QED BY <1>3, <2>1 DEF Rest
<1>9. QED
  BY <1>2, <1>6, <1>7, <1>8 DEF log2, F

\* ... or returns at once.
LEMMA CallReturns ==
  ASSUME NEW log, NEW res, NEW s, NEW l, Calls(log, res, << >>, s, l),
         NEW r \in Records, \A i \in DOMAIN log : log[i].time # r.time,
         NEW v \in BOOLEAN, NEW l2
  PROVE  /\ Calls(Append(log, r), Append(res, v), << >>, 0, l2)
         /\ Succeeded(Append(res, v), Append(log, r), << >>, 0)
              = Succeeded(res, log, << >>, s) \cup (IF v THEN {Len(Append(log, r))} ELSE {})
<1> DEFINE log2 == Append(log, r)
           res2 == Append(res, v)
           N == Len(res)
<1>1. IsLog(log2) /\ Len(log2) = Len(log) + 1
  BY CallIsLast
<1>2. Len(log) = N /\ Succeeded(res, log, << >>, s) = {k \in DOMAIN res : res[k]}
  BY BetweenCalls
<1>3. res \in Seq(BOOLEAN) /\ << >> \in Seq(Bytes)
  BY DEF Calls
<1>4. /\ res2 \in Seq(BOOLEAN) /\ Len(res2) = N + 1 /\ res2[N + 1] = v
      /\ \A i \in 1..N : res2[i] = res[i]
      /\ N \in Nat /\ DOMAIN res = 1..N
  BY <1>3, AppendProperties, LenProperties
<1>5. DOMAIN res2 = 1..(N + 1)
  BY <1>4, LenProperties
<1> HIDE DEF log2, res2, N
<1>6. Calls(log2, res2, << >>, 0, l2)
  <2>1. Len(log2) = Len(res2) + 0 /\ Len(<< >>) = 0 /\ 0 \in 0..0
    BY <1>1, <1>2, <1>4
  <2>2. QED BY <1>1, <1>3, <1>4, <2>1 DEF Calls
<1>7. Succeeded(res2, log2, << >>, 0) = {k \in DOMAIN res2 : res2[k]}
  BY DEF Succeeded
<1>8. {k \in DOMAIN res2 : res2[k]}
        = {k \in DOMAIN res : res[k]} \cup (IF v THEN {N + 1} ELSE {})
  <2>1. \A k \in 1..N : k \in 1..(N + 1) /\ k # N + 1
    BY <1>4
  <2>2. \A k \in 1..(N + 1) : k \in 1..N \/ k = N + 1
    BY <1>4
  <2>3. N + 1 \in 1..(N + 1)
    BY <1>4
  <2>4. \A k \in 1..N : res2[k] <=> res[k]
    BY <1>4
  <2>5. CASE v
    <3>1. res2[N + 1]
      BY <1>4, <2>5
    <3>2. QED BY <1>4, <1>5, <2>1, <2>2, <2>3, <2>4, <2>5, <3>1
  <2>6. CASE ~ v
    <3>1. ~ res2[N + 1]
      BY <1>4, <2>6
    <3>2. QED BY <1>4, <1>5, <2>1, <2>2, <2>3, <2>4, <2>6, <3>1
  <2>7. QED BY <2>5, <2>6
<1>9. N + 1 = Len(log2)
  BY <1>1, <1>2
<1>10. QED
  BY <1>2, <1>6, <1>7, <1>8, <1>9 DEF log2, res2

\* During a call.
LEMMA DuringCall ==
  ASSUME NEW log, NEW res, NEW f, NEW s, NEW l, Calls(log, res, f, s, l), f # << >>
  PROVE  /\ Len(log) \in DOMAIN log /\ log[Len(log)] \in Records
         /\ f = FrameOf(log[Len(log)]) /\ l # 0
         /\ Len(log) = Len(res) + 1 /\ Len(res) \in Nat
         /\ DOMAIN res = 1..Len(res) /\ DOMAIN log = 1..Len(log)
         /\ Len(f) \in Nat /\ s \in 0..Len(f)
         /\ Succeeded(res, log, f, s)
              = {k \in DOMAIN res : res[k]} \cup (IF s = Len(f) THEN {Len(log)} ELSE {})
<1>1. /\ log \in Seq(Records) /\ res \in Seq(BOOLEAN) /\ Len(log) = Len(res) + 1
      /\ f = FrameOf(log[Len(log)]) /\ l # 0 /\ s \in 0..Len(f) /\ f \in Seq(Bytes)
  BY DEF Calls, IsLog
<1>2. /\ Len(log) \in Nat /\ Len(res) \in Nat /\ Len(f) \in Nat
      /\ DOMAIN log = 1..Len(log) /\ DOMAIN res = 1..Len(res)
  BY <1>1, LenProperties
<1>3. Len(log) \in DOMAIN log
  BY <1>1, <1>2
<1>4. log[Len(log)] \in Records
  BY <1>1, <1>2, <1>3, ElementOfSeq
<1>5. Succeeded(res, log, f, s)
        = {k \in DOMAIN res : res[k]} \cup (IF s = Len(f) THEN {Len(log)} ELSE {})
  BY DEF Succeeded
<1>6. QED
  BY <1>1, <1>2, <1>3, <1>4, <1>5

\* What has not failed are calls.
LEMMA SucceededType ==
  ASSUME NEW log, NEW res, NEW f, NEW s, NEW l, Calls(log, res, f, s, l)
  PROVE  Succeeded(res, log, f, s) \in SUBSET (DOMAIN log)
<1>1. CASE f = << >>
  BY <1>1, BetweenCalls
<1>2. CASE f # << >>
  <2>1. /\ Len(log) \in DOMAIN log /\ Len(log) = Len(res) + 1 /\ Len(res) \in Nat
        /\ DOMAIN res = 1..Len(res) /\ DOMAIN log = 1..Len(log)
        /\ Succeeded(res, log, f, s)
              = {k \in DOMAIN res : res[k]} \cup (IF s = Len(f) THEN {Len(log)} ELSE {})
    BY <1>2, DuringCall
  <2>2. \A k \in 1..Len(res) : k \in 1..Len(log)
    BY <2>1
  <2>3. QED BY <2>1, <2>2
<1>3. QED
  BY <1>1, <1>2

\* The call has not succeeded before it has sent the whole frame.
LEMMA SendAdvances ==
  ASSUME NEW log, NEW res, NEW f, NEW s, NEW l, Calls(log, res, f, s, l), f # << >>,
         NEW n \in 1..(Len(f) - s)
  PROVE  /\ Calls(log, res, f, s + n, l)
         /\ Len(log) \notin Succeeded(res, log, f, s)
         /\ Succeeded(res, log, f, s + n)
              = Succeeded(res, log, f, s) \cup (IF s + n = Len(f) THEN {Len(log)} ELSE {})
         /\ Rest(f, s) = SubSeq(f, 1, s)
<1>1. /\ Len(log) = Len(res) + 1 /\ Len(res) \in Nat /\ DOMAIN res = 1..Len(res)
      /\ Len(f) \in Nat /\ s \in 0..Len(f)
      /\ Succeeded(res, log, f, s)
              = {k \in DOMAIN res : res[k]} \cup (IF s = Len(f) THEN {Len(log)} ELSE {})
  BY DuringCall
<1>2. s + n \in 0..Len(f) /\ s # Len(f)
  BY <1>1
<1>3. Calls(log, res, f, s + n, l)
  BY <1>2 DEF Calls
<1>4. Succeeded(res, log, f, s + n)
        = {k \in DOMAIN res : res[k]} \cup (IF s + n = Len(f) THEN {Len(log)} ELSE {})
  BY <1>3, DuringCall
<1>5. Len(log) \notin DOMAIN res
  BY <1>1
<1>6. Rest(f, s) = SubSeq(f, 1, s)
  BY <1>2 DEF Rest
<1>7. QED
  BY <1>1, <1>2, <1>3, <1>4, <1>5, <1>6

\* It returns whether it has sent the whole frame.
LEMMA CallEnds ==
  ASSUME NEW log, NEW res, NEW f, NEW s, NEW l, Calls(log, res, f, s, l), f # << >>,
         NEW v \in BOOLEAN, v <=> s = Len(f), NEW l2
  PROVE  /\ Calls(log, Append(res, v), << >>, 0, l2)
         /\ Succeeded(Append(res, v), log, << >>, 0) = Succeeded(res, log, f, s)
<1> DEFINE res2 == Append(res, v)
           N == Len(res)
<1>1. /\ Len(log) = N + 1 /\ N \in Nat /\ DOMAIN res = 1..N
      /\ Succeeded(res, log, f, s)
              = {k \in DOMAIN res : res[k]} \cup (IF v THEN {Len(log)} ELSE {})
  BY DuringCall
<1>2. IsLog(log) /\ res \in Seq(BOOLEAN) /\ << >> \in Seq(Bytes)
  BY DEF Calls
<1>3. /\ res2 \in Seq(BOOLEAN) /\ Len(res2) = N + 1 /\ res2[N + 1] = v
      /\ \A i \in 1..N : res2[i] = res[i]
  BY <1>2, AppendProperties
<1>4. DOMAIN res2 = 1..(N + 1)
  BY <1>3, LenProperties
<1> HIDE DEF res2, N
<1>5. Calls(log, res2, << >>, 0, l2)
  <2>1. Len(log) = Len(res2) + 0 /\ Len(<< >>) = 0 /\ 0 \in 0..0
    BY <1>1, <1>3
  <2>2. QED BY <1>2, <1>3, <2>1 DEF Calls
<1>6. Succeeded(res2, log, << >>, 0) = {k \in DOMAIN res2 : res2[k]}
  BY DEF Succeeded
<1>7. {k \in DOMAIN res2 : res2[k]}
        = {k \in DOMAIN res : res[k]} \cup (IF v THEN {N + 1} ELSE {})
  <2>1. \A k \in 1..N : k \in 1..(N + 1) /\ k # N + 1
    BY <1>1
  <2>2. \A k \in 1..(N + 1) : k \in 1..N \/ k = N + 1
    BY <1>1
  <2>3. N + 1 \in 1..(N + 1)
    BY <1>1
  <2>4. \A k \in 1..N : res2[k] <=> res[k]
    BY <1>3
  <2>5. CASE v
    <3>1. res2[N + 1]
      BY <1>3, <2>5
    <3>2. QED BY <1>1, <1>4, <2>1, <2>2, <2>3, <2>4, <2>5, <3>1
  <2>6. CASE ~ v
    <3>1. ~ res2[N + 1]
      BY <1>3, <2>6
    <3>2. QED BY <1>1, <1>4, <2>1, <2>2, <2>3, <2>4, <2>6, <3>1
  <2>7. QED BY <2>5, <2>6
<1>8. QED
  BY <1>1, <1>5, <1>6, <1>7 DEF res2

-----------------------------------------------------------------------------
(* The steps.                                                               *)

OkNow == Succeeded(result, logged, frame, sent)

\* What the invariant says between two calls, and what a new call adds to it.
LEMMA NewCall ==
  ASSUME DeliveryInv, NEW record \in Records, Format(record)
  PROVE  /\ Calls(logged, result, << >>, sent, link)
         /\ \A i \in DOMAIN logged : logged[i].time # record.time
         /\ frame = << >> /\ sent = 0 /\ Rest(<< >>, sent) = << >>
         /\ logged' = Append(logged, record)
         /\ IsLog(logged') /\ Lengthens(logged, logged')
         /\ Len(logged') \in DOMAIN logged' /\ Len(logged') \notin OkNow
         /\ logged'[Len(logged')] = record
         /\ OkNow \in SUBSET (DOMAIN logged) /\ OkNow \in SUBSET (DOMAIN logged')
         /\ protocol' = protocol /\ repeats' = repeats /\ counted' = counted
         /\ malformed' = malformed
<1>1. /\ frame = << >> /\ logged' = Append(logged, record)
      /\ \A i \in DOMAIN logged : logged[i].time # record.time
      /\ protocol' = protocol /\ repeats' = repeats /\ counted' = counted /\ malformed' = malformed
  BY DEF Format, Idle, collector
<1>2. Calls(logged, result, << >>, sent, link)
  BY <1>1 DEF DeliveryInv
<1>3. /\ IsLog(logged') /\ Lengthens(logged, logged')
      /\ Len(logged') \in DOMAIN logged' /\ Len(logged') \notin DOMAIN logged
      /\ logged'[Len(logged')] = record
  BY <1>1, <1>2, CallIsLast
<1>4. sent = 0 /\ Rest(<< >>, sent) = << >> /\ OkNow \in SUBSET (DOMAIN logged)
  BY <1>1, <1>2, BetweenCalls DEF OkNow
<1>5. OkNow \in SUBSET (DOMAIN logged')
  BY <1>3, <1>4 DEF Lengthens
<1>6. QED
  BY <1>1, <1>2, <1>3, <1>4, <1>5
\* A connection that is left alone carries what it has carried.
LEMMA FollowsItself ==
  ASSUME NEW log, NEW log2, Lengthens(log, log2), NEW ok \in SUBSET (DOMAIN log),
         NEW w, NEW rest, NEW rest2, w.closed \/ rest2 = rest
  PROVE  Follows(w, w, log, log2, ok, rest, rest2)
<1> SUFFICES ASSUME NEW E \in SUBSET ok, Carries(w, log, E, rest)
             PROVE  Carries(w, log2, E, rest2)
  BY DEF Follows
<1>1. E \in SUBSET (DOMAIN log) /\ E \subseteq E
  OBVIOUS
<1>2. QED
  BY <1>1, CarriesLast

\* No call more lengthens a log as well.
LEMMA LengthensItself == ASSUME NEW log PROVE Lengthens(log, log)
BY DEF Lengthens

\* The sink begins to send, on the connection that it has or on a new one.
LEMMA LogToStreamKeeps ==
  ASSUME DeliveryInv, NEW record \in Records, LogToStream(record)
  PROVE  DeliveryInv'
<1>1. /\ protocol = "tcp" /\ Format(record) /\ frame' = FrameOf(record) /\ sent' = 0
      /\ result' = result /\ datagrams' = datagrams
      /\ \/ link # 0 /\ link' = link /\ wires' = wires
         \/ /\ link = 0 /\ link' = Len(wires')
            /\ wires' = Append(wires, [bytes |-> << >>, closed |-> FALSE, reader |-> Fresh])
  BY DEF LogToStream
<1>2. /\ Calls(logged, result, << >>, sent, link)
      /\ \A i \in DOMAIN logged : logged[i].time # record.time
      /\ frame = << >> /\ sent = 0 /\ Rest(<< >>, sent) = << >>
      /\ logged' = Append(logged, record)
      /\ IsLog(logged') /\ Lengthens(logged, logged')
      /\ OkNow \in SUBSET (DOMAIN logged) /\ OkNow \in SUBSET (DOMAIN logged')
      /\ protocol' = protocol /\ repeats' = repeats /\ counted' = counted /\ malformed' = malformed
  BY <1>1, NewCall
<1>3. /\ wires \in Seq(WireType) /\ link \in 0..Len(wires)
      /\ \A k \in DOMAIN wires : ~ wires[k].closed => k = link
      /\ Len(wires) \in Nat /\ DOMAIN wires = 1..Len(wires)
  BY LenProperties DEF DeliveryInv, Connections
<1>4. Books(logged, OkNow, wires, << >>, datagrams, protocol, repeats, Tally)
  BY <1>2 DEF DeliveryInv, OkNow
<1> DEFINE new == [bytes |-> << >>, closed |-> FALSE, reader |-> Fresh]
<1>5. /\ Connections(wires', link') /\ link' # 0 /\ DOMAIN wires \subseteq DOMAIN wires'
      /\ \A k \in DOMAIN wires : wires'[k] = wires[k]
      /\ \A k \in DOMAIN wires' : k \notin DOMAIN wires => wires'[k] = new
  <2>1. CASE link # 0 /\ link' = link /\ wires' = wires
    BY <1>3, <2>1 DEF Connections
  <2>2. CASE link = 0 /\ link' = Len(wires') /\ wires' = Append(wires, new)
    <3>1. new \in WireType
      BY FreshReader DEF WireType
    <3>2. new.closed = FALSE
      OBVIOUS
    <3> HIDE DEF new
    <3>3. /\ wires' \in Seq(WireType) /\ Len(wires') = Len(wires) + 1
          /\ wires'[Len(wires) + 1] = new
          /\ \A k \in 1..Len(wires) : wires'[k] = wires[k]
      BY <1>3, <2>2, <3>1, AppendProperties
    <3>4. DOMAIN wires' = 1..(Len(wires) + 1)
      BY <3>3, LenProperties
    <3>5. \A k \in 1..(Len(wires) + 1) : k \in 1..Len(wires) \/ k = Len(wires) + 1
      BY <1>3
    <3>6. \A k \in 1..Len(wires) : wires[k].closed
      BY <1>3, <2>2
    <3>7. \A k \in DOMAIN wires' : ~ wires'[k].closed => k = link'
      BY <2>2, <3>3, <3>4, <3>5, <3>6
    <3>8. link' # 0 /\ link' \in 0..Len(wires')
      BY <1>3, <2>2, <3>3
    <3>9. DOMAIN wires \subseteq DOMAIN wires'
      BY <1>3, <3>4
    <3>10. QED BY <1>3, <3>3, <3>4, <3>5, <3>7, <3>8, <3>9 DEF Connections
  <2>3. QED BY <1>1, <2>1, <2>2
<1>6. /\ Calls(logged', result', frame', sent', link')
      /\ Succeeded(result', logged', frame', sent') = OkNow
      /\ Rest(frame', sent') = << >>
  BY <1>1, <1>2, <1>5, CallBegins DEF OkNow
<1>7. ByProtocol(protocol', frame', wires', datagrams')
  BY <1>1, <1>2 DEF DeliveryInv, ByProtocol
<1>8. repeats' \in Nat
  BY <1>2 DEF DeliveryInv
<1>9. ASSUME NEW k \in DOMAIN wires'
      PROVE  \/ k \in DOMAIN wires /\ Follows(wires[k], wires'[k], logged, logged', OkNow, << >>, << >>)
             \/ k \notin DOMAIN wires /\ Carries(wires'[k], logged', {}, << >>)
  <2>1. CASE k \in DOMAIN wires
    <3>1. Follows(wires[k], wires[k], logged, logged', OkNow, << >>, << >>)
      BY <1>2, FollowsItself
    <3>2. QED BY <1>5, <2>1, <3>1
  <2>2. CASE k \notin DOMAIN wires
    <3>1. wires'[k] = new
      BY <1>5, <2>2
    <3>2. Carries(new, logged', {}, << >>)
      BY NewCarries
    <3> HIDE DEF new
    <3>3. QED BY <2>2, <3>1, <3>2
  <2>3. QED BY <2>1, <2>2
<1> HIDE DEF new
<1>10. Books(logged', OkNow, wires', << >>, datagrams, protocol, repeats, Tally)
  BY <1>2, <1>4, <1>9, BooksLast
<1>11. Tally' = Tally
  BY <1>2 DEF Tally
<1>12. Books(logged', Succeeded(result', logged', frame', sent'), wires', Rest(frame', sent'),
             datagrams', protocol', repeats', Tally')
  BY <1>1, <1>2, <1>6, <1>10, <1>11
<1>13. QED
  BY <1>5, <1>6, <1>7, <1>8, <1>12 DEF DeliveryInv

\* log() fails before anything is sent.
LEMMA LogFailsKeeps ==
  ASSUME DeliveryInv, NEW record \in Records, LogToNobody(record) \/ LogRefused(record)
  PROVE  DeliveryInv'
<1>1. /\ Format(record) /\ frame' = frame /\ sent' = sent /\ link' = link /\ wires' = wires
      /\ result' = Append(result, FALSE) /\ datagrams' = datagrams
  BY DEF LogToNobody, LogRefused
<1>2. /\ Calls(logged, result, << >>, sent, link)
      /\ \A i \in DOMAIN logged : logged[i].time # record.time
      /\ frame = << >> /\ sent = 0 /\ Rest(<< >>, sent) = << >>
      /\ logged' = Append(logged, record)
      /\ IsLog(logged') /\ Lengthens(logged, logged')
      /\ OkNow \in SUBSET (DOMAIN logged) /\ OkNow \in SUBSET (DOMAIN logged')
      /\ protocol' = protocol /\ repeats' = repeats /\ counted' = counted /\ malformed' = malformed
  BY <1>1, NewCall
<1>3. Books(logged, OkNow, wires, << >>, datagrams, protocol, repeats, Tally)
  BY <1>2 DEF DeliveryInv, OkNow
<1>4. /\ Calls(logged', result', frame', sent', link')
      /\ Succeeded(result', logged', frame', sent') = OkNow
  <2> DEFINE v == FALSE
  <2>1. v \in BOOLEAN /\ result' = Append(result, v)
    BY <1>1
  <2>2. ~ v
    OBVIOUS
  <2> HIDE DEF v
  <2>3. /\ Calls(logged, result, << >>, sent, link)
        /\ \A i \in DOMAIN logged : logged[i].time # record.time
    BY <1>2
  <2>4. /\ Calls(Append(logged, record), Append(result, v), << >>, 0, link')
        /\ Succeeded(Append(result, v), Append(logged, record), << >>, 0)
             = Succeeded(result, logged, << >>, sent)
                 \cup (IF v THEN {Len(Append(logged, record))} ELSE {})
    BY <2>1, <2>3, CallReturns
  <2>5. /\ Calls(logged', result', << >>, 0, link')
        /\ Succeeded(result', logged', << >>, 0)
             = Succeeded(result, logged, << >>, sent) \cup (IF v THEN {Len(logged')} ELSE {})
    BY <1>2, <2>1, <2>4
  <2>6. QED BY <1>1, <1>2, <2>2, <2>5 DEF OkNow
<1>5. Rest(frame', sent') = << >>
  BY <1>1, <1>2
<1>6. \A k \in DOMAIN wires : Follows(wires[k], wires[k], logged, logged', OkNow, << >>, << >>)
  BY <1>2, FollowsItself
<1>7. Books(logged', OkNow, wires, << >>, datagrams, protocol, repeats, Tally)
  BY <1>2, <1>3, <1>6, BooksLast
<1>8. Tally' = Tally
  BY <1>2 DEF Tally
<1>9. Books(logged', Succeeded(result', logged', frame', sent'), wires', Rest(frame', sent'),
            datagrams', protocol', repeats', Tally')
  BY <1>1, <1>2, <1>4, <1>5, <1>7, <1>8
<1>10. /\ Connections(wires', link') /\ repeats' \in Nat
       /\ ByProtocol(protocol', frame', wires', datagrams')
  BY <1>1, <1>2 DEF DeliveryInv
<1>11. QED
  BY <1>4, <1>9, <1>10 DEF DeliveryInv

\* A datagram goes out.
LEMMA LogToDatagramKeeps ==
  ASSUME DeliveryInv, NEW record \in Records, LogToDatagram(record)
  PROVE  DeliveryInv'
<1>1. /\ Format(record) /\ frame' = frame /\ sent' = sent /\ link' = link /\ wires' = wires
      /\ result' = Append(result, TRUE) /\ protocol = "udp"
      /\ datagrams' = datagrams \cup {FrameOf(record)}
  BY DEF LogToDatagram
<1>2. /\ Calls(logged, result, << >>, sent, link)
      /\ \A i \in DOMAIN logged : logged[i].time # record.time
      /\ frame = << >> /\ sent = 0 /\ Rest(<< >>, sent) = << >>
      /\ logged' = Append(logged, record)
      /\ IsLog(logged') /\ Lengthens(logged, logged')
      /\ Len(logged') \in DOMAIN logged' /\ Len(logged') \notin OkNow
      /\ logged'[Len(logged')] = record
      /\ OkNow \in SUBSET (DOMAIN logged)
      /\ protocol' = protocol /\ repeats' = repeats /\ counted' = counted /\ malformed' = malformed
  BY <1>1, NewCall
<1>3. Books(logged, OkNow, wires, << >>, datagrams, protocol, repeats, Tally)
  BY <1>2 DEF DeliveryInv, OkNow
<1>4. /\ Calls(logged', result', frame', sent', link')
      /\ Succeeded(result', logged', frame', sent') = OkNow \cup {Len(logged')}
  <2> DEFINE v == TRUE
  <2>1. v \in BOOLEAN /\ result' = Append(result, v)
    BY <1>1
  <2>2. v
    OBVIOUS
  <2> HIDE DEF v
  <2>3. /\ Calls(logged, result, << >>, sent, link)
        /\ \A i \in DOMAIN logged : logged[i].time # record.time
    BY <1>2
  <2>4. /\ Calls(Append(logged, record), Append(result, v), << >>, 0, link')
        /\ Succeeded(Append(result, v), Append(logged, record), << >>, 0)
             = Succeeded(result, logged, << >>, sent)
                 \cup (IF v THEN {Len(Append(logged, record))} ELSE {})
    BY <2>1, <2>3, CallReturns
  <2>5. /\ Calls(logged', result', << >>, 0, link')
        /\ Succeeded(result', logged', << >>, 0)
             = Succeeded(result, logged, << >>, sent) \cup (IF v THEN {Len(logged')} ELSE {})
    BY <1>2, <2>1, <2>4
  <2>6. QED BY <1>1, <1>2, <2>2, <2>5 DEF OkNow
<1>5. Rest(frame', sent') = << >>
  BY <1>1, <1>2
<1>6. DOMAIN wires = {}
  <2>1. wires = << >>
    BY <1>1 DEF DeliveryInv, ByProtocol
  <2>2. QED BY <2>1
<1>7. Books(logged', OkNow \cup {Len(logged')}, wires, << >>,
            datagrams \cup {FrameOf(logged'[Len(logged')])}, protocol, repeats, Tally)
  BY <1>2, <1>3, <1>6, BooksDatagram
<1>8. Tally' = Tally
  BY <1>2 DEF Tally
<1>9. Books(logged', Succeeded(result', logged', frame', sent'), wires', Rest(frame', sent'),
            datagrams', protocol', repeats', Tally')
  BY <1>1, <1>2, <1>4, <1>5, <1>7, <1>8
<1>10. /\ Connections(wires', link') /\ repeats' \in Nat
       /\ ByProtocol(protocol', frame', wires', datagrams')
  BY <1>1, <1>2 DEF DeliveryInv, ByProtocol
<1>11. QED
  BY <1>4, <1>9, <1>10 DEF DeliveryInv
\* One connection is another one.
Rewired(ws2, l2, ws, k, w) ==
    /\ Connections(ws2, l2)
    /\ DOMAIN ws2 = DOMAIN ws /\ ws2[k] = w
    /\ \A j \in DOMAIN ws : j # k => ws2[j] = ws[j]

\* A connection changes, and stays closed if it is.
LEMMA WireChanges ==
  ASSUME NEW ws, NEW l, Connections(ws, l), NEW k \in DOMAIN ws, NEW w \in WireType,
         ~ w.closed => ~ ws[k].closed,
         NEW l2, l2 = l \/ (l2 = 0 /\ k = l /\ w.closed),
         NEW ws2, ws2 = [ws EXCEPT ![k] = w]
  PROVE  Rewired(ws2, l2, ws, k, w)
<1>1. /\ ws \in Seq(WireType) /\ l \in 0..Len(ws) /\ \A j \in DOMAIN ws : ~ ws[j].closed => j = l
      /\ Len(ws) \in Nat /\ DOMAIN ws = 1..Len(ws)
  BY LenProperties DEF Connections
<1>2. /\ ws2 \in Seq(WireType) /\ Len(ws2) = Len(ws)
      /\ \A j \in 1..Len(ws) : ws2[j] = IF j = k THEN w ELSE ws[j]
  BY <1>1, ExceptSeq
<1>3. DOMAIN ws2 = DOMAIN ws
  BY <1>1, <1>2, LenProperties
<1>4. ws2[k] = w /\ \A j \in DOMAIN ws : j # k => ws2[j] = ws[j]
  BY <1>1, <1>2
<1>5. ASSUME NEW j \in DOMAIN ws, ~ ws2[j].closed PROVE j = l2
  <2>1. ~ ws[j].closed
    BY <1>4, <1>5
  <2>2. j = l
    BY <1>1, <2>1
  <2>3. l2 = 0 /\ k = l /\ w.closed => FALSE
    BY <1>4, <1>5, <2>2
  <2>4. QED BY <2>2, <2>3
<1>6. l2 \in 0..Len(ws2)
  BY <1>1, <1>2
<1>7. Connections(ws2, l2)
  BY <1>2, <1>3, <1>5, <1>6 DEF Connections
<1>8. QED
  BY <1>3, <1>4, <1>7 DEF Rewired

\* What the invariant says during a call.
LEMMA Sending ==
  ASSUME DeliveryInv, ~ Idle
  PROVE  /\ Calls(logged, result, frame, sent, link) /\ frame # << >>
         /\ Connections(wires, link) /\ link \in DOMAIN wires
         /\ \A k \in DOMAIN wires : k # link => wires[k].closed
         /\ protocol = "tcp" /\ datagrams = {}
         /\ Len(logged) \in DOMAIN logged /\ logged[Len(logged)] \in Records
         /\ frame = FrameOf(logged[Len(logged)])
         /\ OkNow \in SUBSET (DOMAIN logged) /\ IsLog(logged)
         /\ Books(logged, OkNow, wires, Rest(frame, sent), datagrams, protocol, repeats, Tally)
<1>1. /\ Calls(logged, result, frame, sent, link) /\ frame # << >> /\ Connections(wires, link)
      /\ ByProtocol(protocol, frame, wires, datagrams)
      /\ Books(logged, OkNow, wires, Rest(frame, sent), datagrams, protocol, repeats, Tally)
  BY DEF DeliveryInv, Idle, OkNow
<1>2. /\ Len(logged) \in DOMAIN logged /\ logged[Len(logged)] \in Records
      /\ frame = FrameOf(logged[Len(logged)]) /\ link # 0
  BY <1>1, DuringCall
<1>3. OkNow \in SUBSET (DOMAIN logged)
  BY <1>1, SucceededType DEF OkNow
<1>4. IsLog(logged)
  BY <1>1 DEF Calls
<1>5. protocol = "tcp" /\ datagrams = {}
  BY <1>1 DEF ByProtocol
<1>6. /\ wires \in Seq(WireType) /\ link \in 0..Len(wires)
      /\ \A k \in DOMAIN wires : ~ wires[k].closed => k = link
  BY <1>1 DEF Connections
<1>7. DOMAIN wires = 1..Len(wires) /\ Len(wires) \in Nat
  BY <1>6, LenProperties
<1>8. link \in DOMAIN wires
  BY <1>2, <1>6, <1>7
<1>9. QED
  BY <1>1, <1>2, <1>3, <1>4, <1>5, <1>6, <1>8

\* A piece of a frame on a connection that is open.
LEMMA SendOnOpen ==
  ASSUME DeliveryInv, ~ Idle, NEW n \in 1..(Len(frame) - sent), ~ wires[link].closed
  PROVE  LET ws2 == [wires EXCEPT ![link].bytes = @ \o SubSeq(frame, sent + 1, sent + n)]
         IN  /\ Connections(ws2, link)
             /\ Books(logged, Succeeded(result, logged, frame, sent + n), ws2,
                      Rest(frame, sent + n), datagrams, protocol, repeats, Tally)
<1> DEFINE r == logged[Len(logged)]
           word == FormatRecord(r)
           N == Len(word)
           w == wires[link]
           piece == Piece(word, sent, n)
           new == [w EXCEPT !.bytes = @ \o piece]
           ws2 == [wires EXCEPT ![link].bytes = @ \o SubSeq(frame, sent + 1, sent + n)]
           K == Len(logged)
<1>1. /\ Calls(logged, result, frame, sent, link) /\ frame # << >>
      /\ Connections(wires, link) /\ link \in DOMAIN wires
      /\ \A k \in DOMAIN wires : k # link => wires[k].closed
      /\ K \in DOMAIN logged /\ r \in Records /\ frame = FrameOf(r)
      /\ OkNow \in SUBSET (DOMAIN logged) /\ IsLog(logged)
      /\ Books(logged, OkNow, wires, Rest(frame, sent), datagrams, protocol, repeats, Tally)
  BY Sending
<1>2. /\ frame = Append(word, Newline) /\ Len(frame) = N + 1 /\ N \in Nat /\ frame \in Seq(Bytes)
  BY <1>1, FrameType
<1>3. word \in Seq(Letters) /\ (AllFit => Fits(word))
  BY <1>1, LineOfRecord DEF AllFit
<1>4. /\ Calls(logged, result, frame, sent + n, link)
      /\ K \notin OkNow
      /\ Succeeded(result, logged, frame, sent + n)
           = OkNow \cup (IF sent + n = Len(frame) THEN {K} ELSE {})
      /\ Rest(frame, sent) = SubSeq(frame, 1, sent)
  BY <1>1, SendAdvances DEF OkNow
<1>5. sent \in 0..Len(frame) /\ sent + n \in 0..Len(frame)
  BY <1>1, <1>4 DEF Calls
<1>6. sent \in 0..N /\ n \in 1..(N + 1 - sent)
  BY <1>2, <1>5
<1>7. Rest(frame, sent) = Sent(word, sent) /\ SubSeq(frame, sent + 1, sent + n) = piece
  BY <1>2, <1>4 DEF Sent, Piece
<1> HIDE DEF word, N, K, piece
<1>8. w \in WireType /\ w.bytes \in Seq(Bytes) /\ w.closed = FALSE
  <2>1. w \in WireType
    BY <1>1, ElementOfSeq, LenProperties DEF Connections
  <2>2. QED BY <2>1 DEF WireType
<1>9. piece \in Seq(Bytes)
  <2>1. \A i \in (sent + 1)..(sent + n) : frame[i] \in Bytes
    <3>1. \A i \in (sent + 1)..(sent + n) : i \in 1..Len(frame)
      BY <1>2, <1>5
    <3>2. QED BY <1>2, <3>1, ElementOfSeq
  <2>2. sent + 1 \in Int /\ sent + n \in Int
    BY <1>2, <1>5
  <2>3. SubSeq(frame, sent + 1, sent + n) \in Seq(Bytes)
    BY <2>1, <2>2, SubSeqProperties
  <2>4. QED BY <1>7, <2>3
<1>10. ws2 = [wires EXCEPT ![link] = new]
  BY <1>7
<1>11. new \in WireType /\ new.closed = FALSE
  <2>1. new = [bytes |-> w.bytes \o piece, closed |-> w.closed, reader |-> w.reader]
    BY <1>8, WireSent
  <2>2. w.bytes \o piece \in Seq(Bytes)
    BY <1>8, <1>9, ConcatProperties
  <2> HIDE DEF new
  <2>3. QED BY <1>8, <2>1, <2>2 DEF WireType
<1>12. /\ Connections(ws2, link) /\ DOMAIN ws2 = DOMAIN wires /\ ws2[link] = new
       /\ \A j \in DOMAIN wires : j # link => ws2[j] = wires[j]
  <2> HIDE DEF ws2, new
  <2>1. ~ new.closed => ~ wires[link].closed
    OBVIOUS
  <2>2. Rewired(ws2, link, wires, link, new)
    BY <1>1, <1>10, <1>11, <2>1, WireChanges
  <2>3. QED BY <2>2 DEF Rewired
<1>13. ASSUME NEW E \in SUBSET OkNow, Carries(w, logged, E, Rest(frame, sent))
       PROVE  /\ sent + n =< N => Carries(new, logged, E, Sent(word, sent + n))
              /\ sent + n = N + 1 => Carries(new, logged, E \cup {K}, << >>)
  <2>1. K \notin E /\ word = FormatRecord(logged[K])
    BY <1>4 DEF word, K
  <2>2. Carries(w, logged, E, Sent(word, sent)) /\ ~ w.closed
    BY <1>7, <1>8, <1>13
  <2>3. sent \in 0..Len(word) /\ n \in 1..(Len(word) + 1 - sent)
    BY <1>6 DEF N
  <2> HIDE DEF w
  <2>4. /\ sent + n =< Len(word) => Carries(new, logged, E, Sent(word, sent + n))
        /\ sent + n = Len(word) + 1 => Carries(new, logged, E \cup {K}, << >>)
    BY <1>3, <2>1, <2>2, <2>3, CarriesPiece DEF piece
  <2>5. QED BY <2>4 DEF N
<1> HIDE DEF ws2, new
<1>14. CASE sent + n = Len(frame)
  <2>1. Rest(frame, sent + n) = << >> /\ sent + n = N + 1
    BY <1>2, <1>14 DEF Rest
  <2>2. Succeeded(result, logged, frame, sent + n) = OkNow \cup {K}
    BY <1>4, <1>14
  <2>3. \A E \in SUBSET OkNow : Carries(wires[link], logged, E, Rest(frame, sent))
                                  => Carries(ws2[link], logged, E \cup {K}, << >>)
    BY <1>12, <1>13, <2>1
  <2>4. \A j \in DOMAIN wires : j # link => ws2[j] = wires[j] /\ wires[j].closed
    BY <1>1, <1>12
  <2>5. Books(logged, OkNow \cup {K}, ws2, << >>, datagrams, protocol, repeats, Tally)
    BY <1>1, <1>4, <1>12, <2>3, <2>4, BooksSent
  <2>6. QED BY <1>12, <2>1, <2>2, <2>5 DEF ws2
<1>15. CASE sent + n # Len(frame)
  <2>1. Rest(frame, sent + n) = Sent(word, sent + n) /\ sent + n =< N
    BY <1>2, <1>5, <1>15 DEF Rest, Sent
  <2>2. Succeeded(result, logged, frame, sent + n) = OkNow
    BY <1>4, <1>15
  <2>3. ASSUME NEW j \in DOMAIN wires
        PROVE  Follows(wires[j], ws2[j], logged, logged, OkNow, Rest(frame, sent), Sent(word, sent + n))
    <3>1. CASE j = link
      <4> SUFFICES ASSUME NEW E \in SUBSET OkNow, Carries(w, logged, E, Rest(frame, sent))
                   PROVE  Carries(new, logged, E, Sent(word, sent + n))
        BY <1>12, <3>1 DEF Follows
      <4>1. QED BY <1>13, <2>1
    <3>2. CASE j # link
      <4>1. ws2[j] = wires[j] /\ wires[j].closed
        BY <1>1, <1>12, <3>2
      <4>2. Lengthens(logged, logged)
        BY LengthensItself
      <4>3. Follows(wires[j], wires[j], logged, logged, OkNow, Rest(frame, sent), Sent(word, sent + n))
        BY <1>1, <4>1, <4>2, FollowsItself
      <4>4. QED BY <4>1, <4>3
    <3>3. QED BY <3>1, <3>2
  <2>4. \A j \in DOMAIN ws2 :
           \/ j \in DOMAIN wires
              /\ Follows(wires[j], ws2[j], logged, logged, OkNow, Rest(frame, sent), Sent(word, sent + n))
           \/ j \notin DOMAIN wires /\ Carries(ws2[j], logged, {}, Sent(word, sent + n))
    BY <1>12, <2>3
  <2>5. Books(logged, OkNow, ws2, Sent(word, sent + n), datagrams, protocol, repeats, Tally)
    <3>1. Lengthens(logged, logged)
      BY LengthensItself
    <3>2. QED BY <1>1, <2>4, <3>1, BooksLast
  <2>6. QED BY <1>12, <2>1, <2>2, <2>5 DEF ws2
<1>16. QED
  BY <1>14, <1>15
\* send() takes some bytes; on a connection that is closed they get lost.
LEMMA SendSomeKeeps ==
  ASSUME DeliveryInv, SendSome
  PROVE  DeliveryInv'
<1>1. /\ ~ Idle /\ protocol' = protocol /\ logged' = logged /\ result' = result /\ frame' = frame
      /\ link' = link /\ datagrams' = datagrams /\ repeats' = repeats
      /\ counted' = counted /\ malformed' = malformed
  BY DEF SendSome, collector
<1>2. PICK n \in 1..(Len(frame) - sent) :
         /\ sent' = sent + n
         /\ wires' = IF wires[link].closed THEN wires
                     ELSE [wires EXCEPT ![link].bytes = @ \o SubSeq(frame, sent + 1, sent + n)]
  BY DEF SendSome
<1>3. /\ Calls(logged, result, frame, sent, link) /\ frame # << >>
      /\ Connections(wires, link) /\ link \in DOMAIN wires
      /\ \A k \in DOMAIN wires : k # link => wires[k].closed
      /\ protocol = "tcp" /\ datagrams = {}
      /\ OkNow \in SUBSET (DOMAIN logged) /\ IsLog(logged)
      /\ Books(logged, OkNow, wires, Rest(frame, sent), datagrams, protocol, repeats, Tally)
  BY <1>1, Sending
<1>4. /\ Calls(logged, result, frame, sent + n, link)
      /\ Succeeded(result, logged, frame, sent + n)
           = OkNow \cup (IF sent + n = Len(frame) THEN {Len(logged)} ELSE {})
  BY <1>3, SendAdvances DEF OkNow
<1> DEFINE ok2 == Succeeded(result, logged, frame, sent + n)
<1>5. Connections(wires', link) /\ Books(logged, ok2, wires', Rest(frame, sent + n),
                                         datagrams, protocol, repeats, Tally)
  <2>1. CASE ~ wires[link].closed
    <3>1. wires' = [wires EXCEPT ![link].bytes = @ \o SubSeq(frame, sent + 1, sent + n)]
      BY <1>2, <2>1
    <3>2. QED BY <1>1, <2>1, <3>1, SendOnOpen
  <2>2. CASE wires[link].closed
    <3>1. wires' = wires
      BY <1>2, <2>2
    <3>2. ok2 \in SUBSET (DOMAIN logged) /\ OkNow \subseteq ok2
      BY <1>4, SucceededType
    <3> HIDE DEF ok2
    <3>3. Lengthens(logged, logged)
      BY LengthensItself
    <3>4. \A k \in DOMAIN wires :
             Follows(wires[k], wires[k], logged, logged, OkNow, Rest(frame, sent), Rest(frame, sent + n))
      <4> SUFFICES ASSUME NEW k \in DOMAIN wires
                   PROVE  Follows(wires[k], wires[k], logged, logged, OkNow,
                                  Rest(frame, sent), Rest(frame, sent + n))
        OBVIOUS
      <4>1. wires[k].closed
        BY <1>3, <2>2
      <4>2. QED BY <1>3, <3>3, <4>1, FollowsItself
    <3>5. Books(logged, ok2, wires, Rest(frame, sent + n), datagrams, protocol, repeats, Tally)
      BY <1>3, <3>2, <3>3, <3>4, BooksLast
    <3>6. QED BY <1>3, <3>1, <3>5
  <2>3. QED BY <2>1, <2>2
<1>6. Tally' = Tally
  BY <1>1 DEF Tally
<1>7. ByProtocol(protocol', frame', wires', datagrams') /\ repeats' \in Nat
  BY <1>1, <1>3 DEF DeliveryInv, ByProtocol
<1>8. QED
  BY <1>1, <1>2, <1>4, <1>5, <1>6, <1>7 DEF DeliveryInv

\* It has taken the whole frame.
LEMMA SendDoneKeeps ==
  ASSUME DeliveryInv, SendDone
  PROVE  DeliveryInv'
<1>1. /\ ~ Idle /\ sent = Len(frame) /\ protocol' = protocol /\ logged' = logged
      /\ result' = Append(result, TRUE) /\ frame' = << >> /\ sent' = 0
      /\ link' = link /\ wires' = wires /\ datagrams' = datagrams /\ repeats' = repeats
      /\ counted' = counted /\ malformed' = malformed
  BY DEF SendDone, Returns, collector
<1>2. /\ Calls(logged, result, frame, sent, link) /\ frame # << >>
      /\ Books(logged, OkNow, wires, Rest(frame, sent), datagrams, protocol, repeats, Tally)
  BY <1>1, Sending
<1>3. Calls(logged', result', frame', sent', link') /\ Succeeded(result', logged', frame', sent') = OkNow
  <2> DEFINE v == TRUE
  <2>1. v \in BOOLEAN /\ result' = Append(result, v) /\ (v <=> sent = Len(frame))
    BY <1>1
  <2> HIDE DEF v
  <2>2. /\ Calls(logged, Append(result, v), << >>, 0, link)
        /\ Succeeded(Append(result, v), logged, << >>, 0) = Succeeded(result, logged, frame, sent)
    BY <1>2, <2>1, CallEnds
  <2>3. QED BY <1>1, <2>1, <2>2 DEF OkNow
<1>4. Rest(frame, sent) = << >> /\ Rest(frame', sent') = << >>
  <2>1. Rest(frame, sent) = << >>
    BY <1>1 DEF Rest
  <2>2. Rest(frame', sent') = << >>
    BY <1>1, <1>3, BetweenCalls
  <2>3. QED BY <2>1, <2>2
<1>5. Tally' = Tally
  BY <1>1 DEF Tally
<1>6. /\ ByProtocol(protocol', frame', wires', datagrams') /\ repeats' \in Nat
      /\ Connections(wires', link')
  BY <1>1 DEF DeliveryInv, ByProtocol
<1>7. Books(logged', Succeeded(result', logged', frame', sent'), wires', Rest(frame', sent'),
            datagrams', protocol', repeats', Tally')
  BY <1>1, <1>2, <1>3, <1>4, <1>5
<1>8. QED
  BY <1>3, <1>6, <1>7 DEF DeliveryInv

\* send() fails: the connection is closed, and the line that has begun has no end.
LEMMA SendFailsKeeps ==
  ASSUME DeliveryInv, SendFails
  PROVE  DeliveryInv'
<1>1. /\ ~ Idle /\ sent < Len(frame) /\ protocol' = protocol /\ logged' = logged
      /\ result' = Append(result, FALSE) /\ frame' = << >> /\ sent' = 0
      /\ link' = 0 /\ wires' = [wires EXCEPT ![link].closed = TRUE]
      /\ datagrams' = datagrams /\ repeats' = repeats
      /\ counted' = counted /\ malformed' = malformed
  BY DEF SendFails, Returns, collector
<1>2. /\ Calls(logged, result, frame, sent, link) /\ frame # << >>
      /\ Connections(wires, link) /\ link \in DOMAIN wires
      /\ \A k \in DOMAIN wires : k # link => wires[k].closed
      /\ protocol = "tcp" /\ datagrams = {}
      /\ OkNow \in SUBSET (DOMAIN logged) /\ IsLog(logged)
      /\ Books(logged, OkNow, wires, Rest(frame, sent), datagrams, protocol, repeats, Tally)
  BY <1>1, Sending
<1>3. /\ Calls(logged', result', frame', sent', link')
      /\ Succeeded(result', logged', frame', sent') = OkNow
  <2> DEFINE v == FALSE
  <2>0. sent # Len(frame)
    <3>1. Len(frame) \in Nat /\ sent \in 0..Len(frame)
      BY <1>2, DuringCall
    <3>2. QED BY <1>1, <3>1
  <2>1. v \in BOOLEAN /\ result' = Append(result, v) /\ (v <=> sent = Len(frame))
    BY <1>1, <2>0
  <2> HIDE DEF v
  <2>2. /\ Calls(logged, Append(result, v), << >>, 0, link')
        /\ Succeeded(Append(result, v), logged, << >>, 0) = Succeeded(result, logged, frame, sent)
    BY <1>2, <2>1, CallEnds
  <2>3. QED BY <1>1, <2>1, <2>2 DEF OkNow
<1>4. Rest(frame', sent') = << >>
  BY <1>1, <1>3, BetweenCalls
<1> DEFINE w == wires[link]
           new == [w EXCEPT !.closed = TRUE]
<1>5. w \in WireType
  BY <1>2, ElementOfSeq, LenProperties DEF Connections
<1>6. new \in WireType /\ new.closed
  BY <1>5 DEF WireType
<1>7. wires' = [wires EXCEPT ![link] = new]
  BY <1>1
<1>8. \A E \in SUBSET OkNow : Carries(w, logged, E, Rest(frame, sent)) => Carries(new, logged, E, << >>)
  BY CarriesClosed
<1> HIDE DEF new
<1>9. /\ Connections(wires', link') /\ DOMAIN wires' = DOMAIN wires /\ wires'[link] = new
      /\ \A j \in DOMAIN wires : j # link => wires'[j] = wires[j]
  <2> DEFINE l2 == 0
  <2>1. l2 = link \/ (l2 = 0 /\ link = link /\ new.closed)
    BY <1>6
  <2>2. ~ new.closed => ~ wires[link].closed
    BY <1>6
  <2>3. link' = l2
    BY <1>1
  <2> HIDE DEF l2
  <2>4. Rewired(wires', l2, wires, link, new)
    BY <1>2, <1>6, <1>7, <2>1, <2>2, WireChanges
  <2>5. QED BY <2>3, <2>4 DEF Rewired
<1>10. ASSUME NEW j \in DOMAIN wires
       PROVE  Follows(wires[j], wires'[j], logged, logged, OkNow, Rest(frame, sent), << >>)
  <2>1. CASE j = link
    BY <1>8, <1>9, <2>1 DEF Follows
  <2>2. CASE j # link
    <3>1. wires'[j] = wires[j] /\ wires[j].closed
      BY <1>2, <1>9, <2>2
    <3>2. Lengthens(logged, logged)
      BY LengthensItself
    <3>3. Follows(wires[j], wires[j], logged, logged, OkNow, Rest(frame, sent), << >>)
      BY <1>2, <3>1, <3>2, FollowsItself
    <3>4. QED BY <3>1, <3>3
  <2>3. QED BY <2>1, <2>2
<1>11. Books(logged, OkNow, wires', << >>, datagrams, protocol, repeats, Tally)
  <2>1. Lengthens(logged, logged)
    BY LengthensItself
  <2>2. \A j \in DOMAIN wires' :
           \/ j \in DOMAIN wires
              /\ Follows(wires[j], wires'[j], logged, logged, OkNow, Rest(frame, sent), << >>)
           \/ j \notin DOMAIN wires /\ Carries(wires'[j], logged, {}, << >>)
    BY <1>9, <1>10
  <2>3. QED BY <1>2, <2>1, <2>2, BooksLast
<1>12. Tally' = Tally
  BY <1>1 DEF Tally
<1>13. ByProtocol(protocol', frame', wires', datagrams') /\ repeats' \in Nat
  BY <1>1, <1>2 DEF DeliveryInv, ByProtocol
<1>14. Books(logged', Succeeded(result', logged', frame', sent'), wires', Rest(frame', sent'),
             datagrams', protocol', repeats', Tally')
  BY <1>1, <1>3, <1>4, <1>11, <1>12
<1>15. QED
  BY <1>3, <1>9, <1>13, <1>14 DEF DeliveryInv

\* What the invariant says when the network or the collector takes a step.
LEMMA Connected ==
  ASSUME DeliveryInv, NEW k \in DOMAIN wires
  PROVE  /\ Connections(wires, link) /\ wires[k] \in WireType
         /\ protocol = "tcp" /\ datagrams = {} /\ repeats \in Nat
         /\ OkNow \in SUBSET (DOMAIN logged) /\ IsLog(logged)
         /\ Books(logged, OkNow, wires, Rest(frame, sent), datagrams, protocol, repeats, Tally)
<1>1. /\ Calls(logged, result, frame, sent, link) /\ Connections(wires, link)
      /\ ByProtocol(protocol, frame, wires, datagrams) /\ repeats \in Nat
      /\ Books(logged, OkNow, wires, Rest(frame, sent), datagrams, protocol, repeats, Tally)
  BY DEF DeliveryInv, OkNow
<1>2. OkNow \in SUBSET (DOMAIN logged) /\ IsLog(logged)
  BY <1>1, SucceededType DEF OkNow, Calls
<1>3. wires[k] \in WireType
  BY <1>1, ElementOfSeq, LenProperties DEF Connections
<1>4. wires # << >>
  OBVIOUS
<1>5. protocol = "tcp" /\ datagrams = {}
  BY <1>1, <1>4 DEF ByProtocol
<1>6. QED
  BY <1>1, <1>2, <1>3, <1>5

\* Steps of a connection that bring nothing to the collector.
LEMMA WireKeeps ==
  ASSUME DeliveryInv, NEW k \in DOMAIN wires, NEW new \in WireType, ~ new.closed => ~ wires[k].closed,
         \A E \in SUBSET OkNow : Carries(wires[k], logged, E, Rest(frame, sent))
                                   => Carries(new, logged, E, Rest(frame, sent)),
         wires' = [wires EXCEPT ![k] = new],
         UNCHANGED <<protocol, sender, datagrams, repeats, collector>>
  PROVE  DeliveryInv'
<1>1. /\ protocol' = protocol /\ logged' = logged /\ result' = result /\ frame' = frame
      /\ sent' = sent /\ link' = link /\ datagrams' = datagrams /\ repeats' = repeats
      /\ counted' = counted /\ malformed' = malformed
  BY DEF sender, collector
<1>2. /\ Connections(wires, link) /\ protocol = "tcp" /\ datagrams = {} /\ repeats \in Nat
      /\ OkNow \in SUBSET (DOMAIN logged) /\ IsLog(logged)
      /\ Books(logged, OkNow, wires, Rest(frame, sent), datagrams, protocol, repeats, Tally)
  BY Connected
<1>3. /\ Connections(wires', link) /\ DOMAIN wires' = DOMAIN wires /\ wires'[k] = new
      /\ \A j \in DOMAIN wires : j # k => wires'[j] = wires[j]
  <2> DEFINE l2 == link
  <2>1. l2 = link \/ (l2 = 0 /\ k = link /\ new.closed)
    OBVIOUS
  <2> HIDE DEF l2
  <2>2. Rewired(wires', l2, wires, k, new)
    BY <1>2, <2>1, WireChanges
  <2>3. QED BY <2>2 DEF l2, Rewired
<1>4. Lengthens(logged, logged)
  BY LengthensItself
<1>5. ASSUME NEW j \in DOMAIN wires
      PROVE  Follows(wires[j], wires'[j], logged, logged, OkNow, Rest(frame, sent), Rest(frame, sent))
  <2>1. CASE j = k
    BY <1>3, <2>1 DEF Follows
  <2>2. CASE j # k
    <3>1. wires'[j] = wires[j]
      BY <1>3, <2>2
    <3>2. Follows(wires[j], wires[j], logged, logged, OkNow, Rest(frame, sent), Rest(frame, sent))
      BY <1>2, <1>4, FollowsItself
    <3>3. QED BY <3>1, <3>2
  <2>3. QED BY <2>1, <2>2
<1>6. Books(logged, OkNow, wires', Rest(frame, sent), datagrams, protocol, repeats, Tally)
  <2>1. \A j \in DOMAIN wires' :
           \/ j \in DOMAIN wires
              /\ Follows(wires[j], wires'[j], logged, logged, OkNow, Rest(frame, sent), Rest(frame, sent))
           \/ j \notin DOMAIN wires /\ Carries(wires'[j], logged, {}, Rest(frame, sent))
    BY <1>3, <1>5
  <2>2. QED BY <1>2, <1>4, <2>1, BooksLast
<1>7. Tally' = Tally
  BY <1>1 DEF Tally
<1>8. ByProtocol(protocol', frame', wires', datagrams') /\ repeats' \in Nat
  BY <1>1, <1>2 DEF ByProtocol
<1>9. Calls(logged', result', frame', sent', link')
  BY <1>1 DEF DeliveryInv
<1>10. Books(logged', Succeeded(result', logged', frame', sent'), wires', Rest(frame', sent'),
             datagrams', protocol', repeats', Tally')
  BY <1>1, <1>6, <1>7 DEF OkNow
<1>11. QED
  BY <1>1, <1>3, <1>8, <1>9, <1>10 DEF DeliveryInv

\* A connection breaks.
LEMMA BreakKeeps ==
  ASSUME DeliveryInv, NEW k \in DOMAIN wires, Break(k)
  PROVE  DeliveryInv'
<1> DEFINE w == wires[k]
<1>1. /\ ~ w.closed
      /\ UNCHANGED <<protocol, sender, datagrams, repeats, collector>>
  BY DEF Break
<1>2. PICK n \in 0..Len(w.bytes) :
         wires' = [wires EXCEPT ![k].bytes = SubSeq(@, 1, n), ![k].closed = TRUE]
  BY DEF Break
<1> DEFINE new == [w EXCEPT !.bytes = SubSeq(@, 1, n), !.closed = TRUE]
           left == SubSeq(w.bytes, 1, n)
<1>3. w \in WireType
  BY Connected
<1>4. left \in Seq(Bytes)
  <2>1. w.bytes \in Seq(Bytes)
    BY <1>3 DEF WireType
  <2>2. Len(w.bytes) \in Nat /\ \A i \in 1..Len(w.bytes) : w.bytes[i] \in Bytes
    BY <2>1, ElementOfSeq, LenProperties
  <2>3. QED BY <2>2, SubSeqProperties
<1>5. new = [bytes |-> left, closed |-> TRUE, reader |-> w.reader]
  <2>1. w = [bytes |-> w.bytes, closed |-> w.closed, reader |-> w.reader]
    BY <1>3 DEF WireType
  <2>2. new = [w EXCEPT !.bytes = left, !.closed = TRUE]
    OBVIOUS
  <2> HIDE DEF left, new, w
  <2>3. QED BY <2>1, <2>2
<1>6. new \in WireType /\ new.closed
  <2> HIDE DEF left, new
  <2>1. QED BY <1>3, <1>4, <1>5 DEF WireType
<1>7. wires' = [wires EXCEPT ![k] = new]
  BY <1>2
<1>8. \A E \in SUBSET OkNow : Carries(w, logged, E, Rest(frame, sent))
                                => Carries(new, logged, E, Rest(frame, sent))
  BY CarriesPrefix
<1> HIDE DEF new
<1>9. QED
  BY <1>1, <1>6, <1>7, <1>8, WireKeeps

\* The collector sees the end of a connection.
LEMMA ReceiveEndKeeps ==
  ASSUME DeliveryInv, NEW k \in DOMAIN wires, ReceiveEnd(k)
  PROVE  DeliveryInv'
<1> DEFINE w == wires[k]
           new == [w EXCEPT !.reader = Fresh]
<1>1. /\ w.bytes = << >> /\ w.closed /\ wires' = [wires EXCEPT ![k].reader = Fresh]
      /\ UNCHANGED <<protocol, sender, datagrams, repeats, collector>>
  BY DEF ReceiveEnd
<1>2. w \in WireType
  BY Connected
<1>3. \A E : Carries(new, logged, E, Rest(frame, sent))
  BY <1>1, <1>2, CarriesEnd
<1>4. new \in WireType
  BY <1>3 DEF Carries
<1>5. wires' = [wires EXCEPT ![k] = new]
  BY <1>1
<1>6. new.closed = w.closed
  <2> DEFINE r == Fresh
  <2>1. new = [w EXCEPT !.reader = r]
    OBVIOUS
  <2> HIDE DEF r, new
  <2>2. w = [bytes |-> w.bytes, closed |-> w.closed, reader |-> w.reader]
    BY <1>2 DEF WireType
  <2>3. QED BY <2>1, <2>2
<1> HIDE DEF new
<1>7. QED
  BY <1>1, <1>3, <1>4, <1>5, <1>6, WireKeeps
\* The collector receives bytes of a connection.
LEMMA ReceiveBytesKeeps ==
  ASSUME DeliveryInv, NEW k \in DOMAIN wires, ReceiveBytes(k)
  PROVE  DeliveryInv'
<1> DEFINE w == wires[k]
           n == IF Len(w.bytes) < ChunkSize THEN Len(w.bytes) ELSE ChunkSize
           fed == Feed(w.reader, SubSeq(w.bytes, 1, n))
           others == SubSeq(w.bytes, n + 1, Len(w.bytes))
           new == [w EXCEPT !.bytes = others, !.reader = fed.reader]
           drops == IF fed.complete THEN 0 ELSE 1
           rest == Rest(frame, sent)
<1>1. /\ w.bytes # << >>
      /\ wires' = [wires EXCEPT ![k].bytes = others, ![k].reader = fed.reader]
      /\ Consume(fed.lines, drops)
      /\ protocol' = protocol /\ logged' = logged /\ result' = result /\ frame' = frame
      /\ sent' = sent /\ link' = link /\ datagrams' = datagrams /\ repeats' = repeats
  BY DEF ReceiveBytes, sender
<1>2. /\ Connections(wires, link) /\ w \in WireType
      /\ protocol = "tcp" /\ datagrams = {} /\ repeats \in Nat
      /\ OkNow \in SUBSET (DOMAIN logged) /\ IsLog(logged)
      /\ Books(logged, OkNow, wires, rest, datagrams, protocol, repeats, Tally)
  BY Connected
<1>3. n \in 1..Len(w.bytes) /\ n =< Limit
  <2>1. w.bytes \in Seq(Bytes)
    BY <1>2 DEF WireType
  <2>2. Len(w.bytes) \in Nat /\ Len(w.bytes) # 0
    BY <1>1, <2>1, LenProperties, EmptySeq
  <2>3. QED BY <2>2, LineReaderAssumption
<1> HIDE DEF n, w, rest
<1>4. ASSUME NEW E, Carries(w, logged, E, rest)
      PROVE  /\ Len(fed.lines) \in Nat /\ fed.complete \in BOOLEAN /\ (AllFit => fed.complete)
             /\ \E c : /\ Names(c, logged, E, fed.lines)
                       /\ Carries(new, logged, {j \in E : \A i \in 1..Len(fed.lines) : c[i] # j}, rest)
  <2>1. ReadFrom(w, n, logged, E, rest)
    BY <1>3, <1>4, CarriesFed
  <2>2. QED BY <2>1, Zenon DEF ReadFrom, Read, Taken
<1>5. \E E \in SUBSET OkNow : Carries(w, logged, E, rest)
  <2>1. PICK due \in SUBSET OkNow : \E D : Kept(logged, due, D, wires, rest, datagrams)
    BY <1>2 DEF Books
  <2>2. PICK D : Kept(logged, due, D, wires, rest, datagrams)
    BY <2>1
  <2>3. D[k] \in SUBSET due /\ Carries(wires[k], logged, D[k], rest)
    BY <2>2 DEF Kept
  <2>4. QED BY <2>3 DEF w
<1>6. /\ Len(fed.lines) \in Nat /\ drops \in {0, 1} /\ (AllFit => drops = 0) /\ new \in WireType
  <2>1. PICK E \in SUBSET OkNow : Carries(w, logged, E, rest)
    BY <1>5
  <2>2. /\ Len(fed.lines) \in Nat /\ fed.complete \in BOOLEAN /\ (AllFit => fed.complete)
        /\ \E D : Carries(new, logged, D, rest)
    BY <1>4, <2>1
  <2> HIDE DEF fed, new
  <2>3. new \in WireType
    BY <2>2 DEF Carries
  <2>4. QED BY <2>2, <2>3
<1>7. new.closed = w.closed
  <2> DEFINE r == fed.reader
  <2>1. new = [w EXCEPT !.bytes = others, !.reader = r]
    OBVIOUS
  <2> HIDE DEF r, others, new
  <2>2. new = [bytes |-> others, closed |-> w.closed, reader |-> r]
    BY <1>2, <2>1, WireFed
  <2>3. QED BY <2>2
<1>8. wires' = [wires EXCEPT ![k] = new]
  <2> DEFINE r == fed.reader
  <2>1. wires' = [wires EXCEPT ![k].bytes = others, ![k].reader = r]
    BY <1>1
  <2>2. new = [wires[k] EXCEPT !.bytes = others, !.reader = r]
    BY DEF w
  <2> HIDE DEF r, others, new
  <2>3. QED BY <2>1, <2>2
<1>9. /\ Connections(wires', link) /\ DOMAIN wires' = DOMAIN wires /\ wires'[k] = new
      /\ \A j \in DOMAIN wires : j # k => wires'[j] = wires[j]
  <2> DEFINE l2 == link
  <2>0. Connections(wires, link) /\ new \in WireType /\ wires' = [wires EXCEPT ![k] = new]
    BY <1>2, <1>6, <1>8
  <2> HIDE DEF new
  <2>1. l2 = link \/ (l2 = 0 /\ k = link /\ new.closed)
    OBVIOUS
  <2>2. ~ new.closed => ~ wires[k].closed
    BY <1>7 DEF w
  <2> HIDE DEF l2
  <2>3. Rewired(wires', l2, wires, k, new)
    BY <2>0, <2>1, <2>2, WireChanges
  <2>4. QED BY <2>3 DEF l2, Rewired
<1> DEFINE lines == fed.lines
           C == Consumed(Tally, lines)
<1>10. Tally' = [counted |-> C.counted, malformed |-> C.malformed + drops]
  BY <1>1 DEF Consume, Tally
<1>11. \A E \in SUBSET OkNow : Carries(wires[k], logged, E, rest) =>
          \E c : /\ Names(c, logged, E, lines)
                 /\ Carries(wires'[k], logged, {j \in E : \A i \in 1..Len(lines) : c[i] # j}, rest)
  <2> HIDE DEF new
  <2>1. QED BY <1>4, <1>9 DEF w
<1>12. Len(lines) \in Nat
  BY <1>6
<1> HIDE DEF lines, drops, fed, new
<1>13. Books(logged, OkNow, wires', rest, {}, protocol, repeats, Tally')
  <2>1. Books(logged, OkNow, wires, rest, {}, protocol, repeats, Tally)
    BY <1>2
  <2>2. Books(logged, OkNow, wires', rest, {}, protocol, repeats,
              [counted |-> C.counted, malformed |-> C.malformed + drops])
    BY <1>2, <1>6, <1>9, <1>11, <1>12, <2>1, BooksFed
  <2>3. QED BY <1>10, <2>2
<1>14. ByProtocol(protocol', frame', wires', datagrams') /\ repeats' \in Nat
  BY <1>1, <1>2 DEF ByProtocol
<1>15. Calls(logged', result', frame', sent', link')
  BY <1>1 DEF DeliveryInv
<1>16. Books(logged', Succeeded(result', logged', frame', sent'), wires', Rest(frame', sent'),
             datagrams', protocol', repeats', Tally')
  BY <1>1, <1>2, <1>13 DEF OkNow, rest
<1>17. QED
  BY <1>1, <1>9, <1>14, <1>15, <1>16 DEF DeliveryInv

\* It receives a datagram, which may come once more.
LEMMA ReceiveDatagramKeeps ==
  ASSUME DeliveryInv, NEW g \in datagrams, ReceiveDatagram(g)
  PROVE  DeliveryInv'
<1> DEFINE C == Consumed(Tally, SplitDatagram(g))
           rest == Rest(frame, sent)
<1>1. /\ \/ datagrams' = datagrams \ {g} /\ repeats' = repeats
         \/ repeats' = repeats + 1 /\ datagrams' = datagrams
      /\ Consume(SplitDatagram(g), 0)
      /\ protocol' = protocol /\ logged' = logged /\ result' = result /\ frame' = frame
      /\ sent' = sent /\ link' = link /\ wires' = wires
  BY DEF ReceiveDatagram, sender
<1>2. /\ Calls(logged, result, frame, sent, link) /\ Connections(wires, link)
      /\ ByProtocol(protocol, frame, wires, datagrams) /\ repeats \in Nat
      /\ Books(logged, OkNow, wires, rest, datagrams, protocol, repeats, Tally)
  BY DEF DeliveryInv, OkNow
<1>3. protocol # "tcp" /\ protocol = "udp" /\ wires = << >> /\ frame = << >>
  BY <1>2 DEF ByProtocol
<1>4. DOMAIN wires = {}
  BY <1>3
<1>5. OkNow \in SUBSET (DOMAIN logged) /\ IsLog(logged)
  BY <1>2, SucceededType DEF OkNow, Calls
<1> HIDE DEF rest
<1>6. Books(logged, OkNow, wires, rest, datagrams', protocol, repeats', C) /\ C \in Tallies
  <2>1. CASE datagrams' = datagrams \ {g} /\ repeats' = repeats
    BY <1>2, <1>4, <1>5, <2>1, BooksReceived
  <2>2. CASE repeats' = repeats + 1 /\ datagrams' = datagrams
    BY <1>2, <1>3, <1>5, <2>2, BooksRepeated
  <2>3. QED BY <1>1, <2>1, <2>2
<1>7. Tally' = [counted |-> C.counted, malformed |-> C.malformed + 0]
  BY <1>1 DEF Consume, Tally
<1> HIDE DEF C
<1>8. Tally' = C
  BY <1>6, <1>7 DEF Tallies
<1>9. ByProtocol(protocol', frame', wires', datagrams')
  BY <1>1, <1>3 DEF ByProtocol
<1>10. repeats' \in Nat
  BY <1>1, <1>2
<1>11. Books(logged', Succeeded(result', logged', frame', sent'), wires', Rest(frame', sent'),
             datagrams', protocol', repeats', Tally')
  BY <1>1, <1>6, <1>8 DEF OkNow, rest
<1>12. Calls(logged', result', frame', sent', link') /\ Connections(wires', link')
  BY <1>1, <1>2
<1>13. QED
  BY <1>9, <1>10, <1>11, <1>12 DEF DeliveryInv

-----------------------------------------------------------------------------
(* The theorems.                                                            *)

\* Before the first call.
LEMMA NothingLogged == ASSUME Init PROVE DeliveryInv
<1>1. /\ protocol \in {"tcp", "udp"} /\ logged = << >> /\ result = << >>
      /\ frame = << >> /\ sent = 0 /\ link = 0 /\ wires = << >>
      /\ datagrams = {} /\ repeats = 0 /\ counted = << >> /\ malformed = 0
  BY DEF Init
<1>2. /\ << >> \in Seq(Records) /\ << >> \in Seq(BOOLEAN) /\ << >> \in Seq(WireType)
      /\ << >> \in Seq(Bytes) /\ Len(<< >>) = 0 /\ DOMAIN << >> = {}
  OBVIOUS
<1>3. IsLog(<< >>)
  BY <1>2 DEF IsLog
<1>4. Calls(logged, result, frame, sent, link)
  BY <1>1, <1>2, <1>3 DEF Calls
<1>5. Connections(wires, link) /\ ByProtocol(protocol, frame, wires, datagrams) /\ repeats \in Nat
  BY <1>1, <1>2 DEF Connections, ByProtocol
<1>6. OkNow = {}
  BY <1>1, <1>2 DEF OkNow, Succeeded
<1>7. Kept(<< >>, {}, << >>, << >>, Rest(frame, sent), {})
  <2>1. << >> \in [DOMAIN << >> -> SUBSET {}]
    BY <1>2
  <2>2. QED BY <1>2, <2>1 DEF Kept
<1>8. Accounts(<< >>, {}, protocol, 0, Tally, {})
  <2>1. Tally.counted = << >> /\ Tally.malformed = 0 /\ Tally \in Tallies
    BY <1>1, <1>2 DEF Tally, Tallies
  <2>2. Found(<< >>, {}, Tally) /\ Once(<< >>, Tally, {})
    BY <1>2, <2>1 DEF Found, Once
  <2>3. Blamed(<< >>, {}, 0, Tally, {})
    <3>1. Cardinality({}) = 0
      BY FS_EmptySet
    <3>2. Tally.malformed =< 0 + Cardinality({})
      BY <2>1, <3>1
    <3>3. {} \in SUBSET {} /\ {} \cap {} = {} /\ \A k \in {} : Unstampable(<< >>, k)
      OBVIOUS
    <3>4. QED BY <3>2, <3>3 DEF Blamed
  <2>4. QED BY <2>1, <2>2, <2>3 DEF Accounts
<1>9. Books(logged, OkNow, wires, Rest(frame, sent), datagrams, protocol, repeats, Tally)
  <2>1. Books(<< >>, {}, << >>, Rest(frame, sent), {}, protocol, 0, Tally)
    BY <1>7, <1>8 DEF Books
  <2>2. QED BY <1>1, <1>6, <2>1
<1>10. QED
  BY <1>4, <1>5, <1>9 DEF DeliveryInv, OkNow

\* The accounts agree at every moment: each line on its way is that of one call that has
\* not failed and is still to be counted.
THEOREM AccountsAgree == Spec => []DeliveryInv
<1>1. Init => DeliveryInv
  BY NothingLogged
<1>2. DeliveryInv /\ [Next]_vars => DeliveryInv'
  <2> SUFFICES ASSUME DeliveryInv, [Next]_vars PROVE DeliveryInv'
    OBVIOUS
  <2>1. ASSUME NEW record \in [time : Clock, level : Levels, message : Messages],
               \/ LogToStream(record) \/ LogToNobody(record)
               \/ LogToDatagram(record) \/ LogRefused(record)
        PROVE  DeliveryInv'
    <3>1. record \in Records
      BY DEF Records
    <3>2. CASE LogToStream(record)
      BY <3>1, <3>2, LogToStreamKeeps
    <3>3. CASE LogToDatagram(record)
      BY <3>1, <3>3, LogToDatagramKeeps
    <3>4. CASE LogToNobody(record) \/ LogRefused(record)
      BY <3>1, <3>4, LogFailsKeeps
    <3>5. QED BY <2>1, <3>2, <3>3, <3>4
  <2>2. CASE SendSome
    BY <2>2, SendSomeKeeps
  <2>3. CASE SendDone
    BY <2>3, SendDoneKeeps
  <2>4. CASE SendFails
    BY <2>4, SendFailsKeeps
  <2>5. ASSUME NEW k \in DOMAIN wires, Break(k) \/ ReceiveBytes(k) \/ ReceiveEnd(k)
        PROVE  DeliveryInv'
    BY <2>5, BreakKeeps, ReceiveBytesKeeps, ReceiveEndKeeps
  <2>6. ASSUME NEW datagram \in datagrams, ReceiveDatagram(datagram)
        PROVE  DeliveryInv'
    BY <2>6, ReceiveDatagramKeeps
  <2>7. CASE UNCHANGED vars
    BY <2>7 DEF DeliveryInv, Tally, vars, sender, collector
  <2>8. QED
    BY <2>1, <2>2, <2>3, <2>4, <2>5, <2>6, <2>7 DEF Next
<1>3. QED
  BY <1>1, <1>2, PTL DEF Spec

\* What the accounts say of the collector's counts.
LEMMA CountsAreAccounts ==
  ASSUME DeliveryInv
  PROVE  /\ IsLog(logged) /\ OkNow \in SUBSET (DOMAIN logged) /\ repeats \in Nat
         /\ malformed \in Nat
         /\ \A i \in DOMAIN counted : \E k \in OkNow : counted[i] = logged[k]
         /\ protocol = "tcp" => \A i, j \in DOMAIN counted : counted[i] = counted[j] => i = j
         /\ AllFit => \E bad \in SUBSET OkNow :
               (\A k \in bad : Unstampable(logged, k)) /\ malformed =< repeats + Cardinality(bad)
<1>1. /\ Calls(logged, result, frame, sent, link) /\ repeats \in Nat
      /\ Books(logged, OkNow, wires, Rest(frame, sent), datagrams, protocol, repeats, Tally)
  BY DEF DeliveryInv, OkNow
<1>2. OkNow \in SUBSET (DOMAIN logged) /\ IsLog(logged)
  BY <1>1, SucceededType DEF OkNow, Calls
<1>3. PICK due \in SUBSET OkNow : Accounts(logged, OkNow, protocol, repeats, Tally, due)
  BY <1>1 DEF Books
<1>4. Tally.counted = counted /\ Tally.malformed = malformed
  BY DEF Tally
<1>5. /\ Tally \in Tallies /\ Found(logged, OkNow, Tally)
      /\ protocol = "tcp" => Once(logged, Tally, due)
      /\ AllFit => Blamed(logged, OkNow, repeats, Tally, due)
  BY <1>3 DEF Accounts
<1>6. malformed \in Nat
  BY <1>4, <1>5 DEF Tallies
<1>7. \A i \in DOMAIN counted : \E k \in OkNow : counted[i] = logged[k]
  BY <1>4, <1>5 DEF Found
<1>8. protocol = "tcp" => \A i, j \in DOMAIN counted : counted[i] = counted[j] => i = j
  BY <1>4, <1>5 DEF Once
<1>9. AllFit => \E bad \in SUBSET OkNow :
         (\A k \in bad : Unstampable(logged, k)) /\ malformed =< repeats + Cardinality(bad)
  BY <1>4, <1>5 DEF Blamed
<1>10. QED
  BY <1>1, <1>2, <1>6, <1>7, <1>8, <1>9

\* What is counted was logged, with the same text, whatever the messages contain, and a
\* stream repeats nothing.
THEOREM OnlyLoggedIsCounted == Spec => []OnlyLoggedRecords
<1>1. DeliveryInv => OnlyLoggedRecords
  <2> SUFFICES ASSUME DeliveryInv PROVE OnlyLoggedRecords
    OBVIOUS
  <2>1. /\ OkNow \in SUBSET (DOMAIN logged)
        /\ \A i \in DOMAIN counted : \E k \in OkNow : counted[i] = logged[k]
        /\ protocol = "tcp" => \A i, j \in DOMAIN counted : counted[i] = counted[j] => i = j
    BY CountsAreAccounts
  <2>2. \A i \in DOMAIN counted : counted[i] \in {logged[k] : k \in DOMAIN logged}
    BY <2>1
  <2>3. QED BY <2>1, <2>2 DEF OnlyLoggedRecords
<1>2. QED
  BY <1>1, AccountsAgree, PTL

\* A call that has returned false is never counted: it has not sent its last byte (of a
\* logger with one target, as in SinkLogger over a single TcpSink or UdpSink).
THEOREM FailureIsFinal == Spec => []FailedIsNotCounted
<1>1. DeliveryInv => FailedIsNotCounted
  <2> SUFFICES ASSUME DeliveryInv, NEW k \in DOMAIN result, ~ result[k],
                      NEW i \in DOMAIN counted, counted[i].time = logged[k].time
               PROVE  FALSE
    BY DEF FailedIsNotCounted
  <2>1. PICK j \in OkNow : counted[i] = logged[j]
    BY CountsAreAccounts
  <2>2. Calls(logged, result, frame, sent, link)
    BY DEF DeliveryInv
  <2>3. k \in DOMAIN logged /\ k \notin OkNow
    <3>1. CASE frame = << >>
      BY <2>2, <3>1, BetweenCalls DEF OkNow
    <3>2. CASE frame # << >>
      <4>1. /\ Len(logged) = Len(result) + 1 /\ Len(result) \in Nat
            /\ DOMAIN result = 1..Len(result) /\ DOMAIN logged = 1..Len(logged)
            /\ OkNow = {h \in DOMAIN result : result[h]}
                         \cup (IF sent = Len(frame) THEN {Len(logged)} ELSE {})
        BY <2>2, <3>2, DuringCall DEF OkNow
      <4>2. k \in DOMAIN logged /\ k # Len(logged)
        BY <4>1
      <4>3. QED BY <4>1, <4>2
    <3>3. QED BY <3>1, <3>2
  <2>4. j \in DOMAIN logged /\ IsLog(logged)
    BY CountsAreAccounts
  <2>5. j = k
    BY <2>1, <2>3, <2>4 DEF IsLog
  <2>6. QED BY <2>3, <2>5
<1>2. QED
  BY <1>1, AccountsAgree, PTL

\* If the line of every record is within the limit of the LineReader, the records with a
\* time that has no stamp are the only ones that are malformed, once each.
THEOREM OnlyStampsAreMalformed == ASSUME AllFit PROVE Spec => []NothingMalformed
<1>1. DeliveryInv => NothingMalformed
  <2> SUFFICES ASSUME DeliveryInv PROVE NothingMalformed
    OBVIOUS
  <2> DEFINE S == {k \in DOMAIN logged : ~ Stampable(logged[k].time)}
  <2>1. /\ IsLog(logged) /\ OkNow \in SUBSET (DOMAIN logged) /\ repeats \in Nat /\ malformed \in Nat
    BY CountsAreAccounts
  <2>2. PICK bad \in SUBSET OkNow :
           (\A k \in bad : Unstampable(logged, k)) /\ malformed =< repeats + Cardinality(bad)
    BY CountsAreAccounts
  <2>3. bad \in SUBSET S /\ S \in SUBSET (DOMAIN logged)
    BY <2>1, <2>2 DEF Unstampable
  <2>4. IsFiniteSet(S) /\ Cardinality(S) \in Nat
    BY <2>1, <2>3, CallsAreFinite
  <2>5. Cardinality(bad) \in Nat /\ Cardinality(bad) =< Cardinality(S)
    <3> HIDE DEF S
    <3>1. QED BY <2>3, <2>4, FS_Subset, FS_CardinalityType
  <2>6. malformed =< repeats + Cardinality(S)
    <3> HIDE DEF S
    <3>1. QED BY <2>1, <2>2, <2>4, <2>5
  <2>7. QED BY <2>6 DEF NothingMalformed
<1>2. QED
  BY <1>1, AccountsAgree, PTL
=============================================================================
