------------------------------ MODULE MCReading ------------------------------
(* PLS files of up to three lines, under every number a counter of four bits  *)
(* can print: gaps, duplicates, negative numbers, keys without a number,      *)
(* titles and lengths of entries there are and there are not.  PLS files of   *)
(* two entries with lengths, and feeds of up to three dates, every one in one *)
(* of the forms a writer has for it.                                          *)
EXTENDS TimesProperties, TLC

CONSTANT None

Number(n, digits) == [kind |-> "number", value |-> n, len |-> digits]
Day(n)  == Number(n, 2)
Year(n) == Number(n, 4)
Month(n) == [kind |-> "month", value |-> n]
Weekday == [kind |-> "weekday", value |-> 3]
Other   == [kind |-> "other"]

NoZone == [kind |-> "none"]
Zones == {NoZone}
           \cup {[kind |-> "zone", value |-> z, known |-> TRUE] : z \in {-480, 0, 330}}

At(hour, min, sec) == [hour |-> hour, min |-> min, sec |-> sec]

\* A moment: where a clock of some zone stood on some day.
Moments ==
  [year : {2007, 1970}, month : {3}, day : {5}, time : {At(0, 0, 0)}, zone : Zones]
    \cup [year : {1999}, month : {12}, day : {31}, time : {At(23, 59, 59)}, zone : Zones]
    \cup [year : {2000}, month : {2}, day : {29}, time : {At(10, 28, 18)}, zone : {NoZone}]

\* The first moments of 2000 and of 2007, 10957 and 13514 days after the epoch.
DaysBefore(w) ==
  CASE w.year = 1970 -> 31 + 28 + 4
    [] w.year = 1999 -> 10956
    [] w.year = 2000 -> 10957 + 31 + 28
    [] w.year = 2007 -> 13514 + 31 + 28 + 4

Meant(w) ==
  Date!Instant(DaysBefore(w) * 1440 + w.time.hour * 60 + w.time.min
            - (IF w.zone = NoZone THEN 0 ELSE w.zone.value),
          w.time.sec)

TimeOfDay(w) == <<[kind |-> "time", value |-> w.time]>>
ZoneOf(w) == IF w.zone = NoZone THEN <<>> ELSE <<w.zone>>

Tokenised(tokens) == [iso |-> NULL, tokens |-> tokens]

\* The forms of a moment: "Wed, 05 Mar 2007 00:00:00 +0530" with and without
\* its weekday or its zone's place, of asctime, "2007-03-05" and "05/03/07"
\* with a time after it, "Mar 05, 2007", and ISO 8601.
Forms(w) ==
  LET clock == TimeOfDay(w) \o ZoneOf(w)
      short == Number(w.year % 100, 2)
  IN  {Tokenised(t) : t \in
         { <<Weekday, Day(w.day), Month(w.month), Year(w.year)>> \o clock,
           <<Day(w.day), Month(w.month), short>> \o clock,
           <<Weekday, Month(w.month), Day(w.day)>> \o TimeOfDay(w) \o ZoneOf(w) \o <<Year(w.year)>>,
           <<Year(w.year), Day(w.month), Day(w.day)>> \o clock,
           <<Day(w.month), Day(w.day), short>> \o clock,
           <<Month(w.month), Day(w.day), Year(w.year)>> \o clock }
         \cup (IF w.day > 12 THEN {<<Day(w.day), Day(w.month), Year(w.year)>> \o clock} ELSE {})}
      \cup {[iso |-> Meant(w), tokens |-> <<Other>>]}

\* What is no date: nothing, words, a day that no month has, a leap second.
NoDates ==
  {Tokenised(t) : t \in
     { <<>>, <<Other, Other>>,
       <<Day(30), Month(2), Year(2007), [kind |-> "time", value |-> At(1, 2, 3)]>>,
       <<Day(31), Month(12), Year(1998), [kind |-> "time", value |-> At(23, 59, 60)]>>,
       <<Day(31), Month(12), Year(1998), [kind |-> "time", value |-> At(24, 0, 0)]>> }}

Absent == [data |-> NULL, meant |-> NULL]

AllDates ==
  {Absent} \cup {[data |-> t, meant |-> NULL] : t \in NoDates}
    \cup UNION {{[data |-> t, meant |-> Meant(w)] : t \in Forms(w)} : w \in Moments}

\* Dates enough for the order of three of them.
SomeDates ==
  LET Rfc(w) == Tokenised(<<Day(w.day), Month(w.month), Year(w.year)>> \o TimeOfDay(w) \o ZoneOf(w))
  IN  {Absent, [data |-> Tokenised(<<Other>>), meant |-> NULL]}
        \cup {[data |-> Rfc(w), meant |-> Meant(w)] : w \in Moments}

MCFeeds == {<<d>> : d \in AllDates} \cup BoundedSeq(SomeDates, 3)

---------------------------------------------------------------------------
Text(numbers, marks) == [numbers |-> numbers, marks |-> marks]

\* The forms of hours, minutes, seconds and a fraction.
FormsOf(h, m, s, f) ==
  LET seconds == h * 3600 + m * 60 + s
  IN  {Text(<<h, m, s>>, <<":", ":">>), Text(<<h, m, s, f>>, <<":", ":", ".">>),
       Text(<<seconds>>, <<>>), Text(<<seconds>>, <<"x">>)}
        \cup (IF h > 0 THEN {} ELSE
              {Text(<<m, s>>, <<":">>), Text(<<m, s>>, <<".">>),
               Text(<<m, s>>, <<"m", "s">>), Text(<<m, s, f>>, <<":", ".">>)})

\* A fraction counts only where there is nothing else.
MeantLength(t, h, m, s, f) ==
  IF h = 0 /\ m = 0 /\ s = 0 /\ f > 0 /\ Len(t.marks) > 1 /\ t.marks[Len(t.marks)] = "."
  THEN 1 ELSE h * 3600 + m * 60 + s

Lengths ==
  {[data |-> Text(<<>>, <<>>), meant |-> NULL], [data |-> Text(<<-1>>, <<>>), meant |-> -1]}
    \cup UNION {{[data |-> t, meant |-> MeantLength(t, h, m, s, f)] : t \in FormsOf(h, m, s, f)} :
                  h \in {0, 2}, m \in {0, 1, 30}, s \in {0, 59}, f \in {0, 1}}

\* Values of other keys than length have the shape of one too.
Seconds(n) == [data |-> Text(<<n>>, <<>>), meant |-> n]
One == Seconds(1)
Two == Seconds(2)

\* Lengths enough for the second entry: one read, one negative, one not read.
SomeLengths ==
  {[data |-> Text(<<0, 59>>, <<":">>), meant |-> 59], Seconds(-1),
   [data |-> Text(<<>>, <<>>), meant |-> NULL]}

\* Two entries, the first with a length, the second with or without one.
LengthFiles ==
  {<<Line("length", 1, d), Line("file", 1, One), Line("file", 2, Two)>> : d \in Lengths}
    \cup {<<Line("file", 1, One), Line("file", 2, Two), Line("length", 2, e), Line("length", 1, d)>> :
            d \in Lengths, e \in SomeLengths}

---------------------------------------------------------------------------
Keys == [key : {"file"}, no : {-3, 0, 1, 2, 5, None}] \cup [key : {"title", "length"}, no : {1}]
KeySeqs == UNION {[1..n -> Keys] : n \in 0..3}

\* The value of a line tells the line; a length on the first one is negative.
ValueOf(key, k) == Seconds(IF key = "length" /\ k = 1 THEN -1 ELSE k)

MCFiles ==
  LengthFiles
    \cup {[k \in DOMAIN s |-> Line(s[k].key, s[k].no, ValueOf(s[k].key, k))] : s \in KeySeqs}
=============================================================================
