------------------------------ MODULE DateParse ------------------------------
(* totem_pl_parser_parse_date: a date is tried as ISO 8601, then as RFC 822,   *)
(* then by parse_broken_date, which takes its parts in any order.  The text of *)
(* a date is its tokens, each told apart as far as the classes of characters   *)
(* and the names of the decoder do; an ISO 8601 text is the instant GLib reads.*)
EXTENDS Integers, Sequences, FiniteSetsExt, SequencesExt

CONSTANT NULL

\*   number   value, and len, how many digits;
\*   weekday, month   value;
\*   time     value, the numbers between the colons;
\*   zone     value, its minutes, and known, whether parse_broken_date looks at it
\*            (the letters of most military zones are in none of its classes);
\*   other    anything else.
Tokens ==
  [kind : {"number"}, value : Nat, len : Nat]
    \cup [kind : {"weekday"}, value : 0..6] \cup [kind : {"month"}, value : 1..12]
    \cup [kind : {"time"}, value : [hour : Nat, min : Nat, sec : Nat]]
    \cup [kind : {"zone"}, value : Int, known : BOOLEAN]
    \cup [kind : {"other"}]

---------------------------------------------------------------------------
\* A number of seconds is minutes and seconds, both of which TLC can hold.
Instant(minute, second) == [minute |-> minute, second |-> second]

Error == Instant(-1, 59)       \* -1

\* The order of guint64, to which a negative number is a large one.
Later(a, b) ==
  LET Rank(x) == <<x.minute < 0, x.minute, x.second>>
  IN  \/ Rank(a)[1] /\ ~Rank(b)[1]
      \/ /\ Rank(a)[1] = Rank(b)[1]
         /\ a.minute > b.minute \/ (a.minute = b.minute /\ a.second > b.second)

Leap(year) == year % 4 = 0 /\ (year % 100 # 0 \/ year % 400 = 0)

DaysIn(year, month) ==
  CASE month = 2 -> IF Leap(year) THEN 29 ELSE 28
    [] month \in {4, 6, 9, 11} -> 30
    [] OTHER -> 31

\* Days from the epoch to a date.
Days(year, month, day) ==
  LET y == year - 1
      before == SumFunctionOnSet([m \in 1..12 |-> DaysIn(year, m)], 1..(month - 1))
  IN  365 * y + y \div 4 - y \div 100 + y \div 400 + before + day - 1 - 719162

\* g_date_time_new, and g_date_time_to_unix of what it gives.
g_date_time_new(tz, year, month, day, time) ==
  IF /\ year \in 1..9999 /\ month \in 1..12 /\ day \in 1..DaysIn(year, month)
     /\ time.hour \in 0..23 /\ time.min \in 0..59 /\ time.sec \in 0..59
  THEN Instant(Days(year, month, day) * 1440 + time.hour * 60 + time.min - tz, time.sec)
  ELSE NULL

---------------------------------------------------------------------------
IsA(kind, tokens, k) == k <= Len(tokens) /\ tokens[k].kind = kind

get_mday(token) ==
  IF token.kind = "number" /\ token.value <= 31 THEN token.value ELSE -1

get_month(token) == IF token.kind = "month" THEN token.value ELSE -1

\* A mistake: every year of two digits is of this century.
get_year_Century(token) ==
  IF token.kind # "number" THEN -1
  ELSE LET year == IF token.value < 100 THEN token.value + 2000 ELSE token.value
       IN  IF year < 1969 THEN -1 ELSE year

get_year(token) ==
  IF token.kind # "number" THEN -1
  ELSE LET year == IF token.value >= 100 THEN token.value
                   ELSE token.value + (IF token.value < 70 THEN 2000 ELSE 1900)
       IN  IF year < 1969 THEN -1 ELSE year

Midnight == [hour |-> 0, min |-> 0, sec |-> 0]

\* A number is the hour.
TimeOf(token) ==
  IF token.kind = "time" THEN token.value ELSE [Midnight EXCEPT !.hour = token.value]

get_time(token) ==
  /\ token.kind \in {"number", "time"}
  /\ LET time == TimeOf(token) IN time.hour <= 23 /\ time.min <= 59 /\ time.sec <= 60

\* The zone is this token or the next.
get_tzone(tokens, k) ==
  LET near == {j \in {k, k + 1} : IsA("zone", tokens, j)}
  IN  IF near = {} THEN NULL ELSE tokens[Min(near)].value

Zone(tz) == IF tz = NULL THEN 0 ELSE tz

parse_rfc822_date(tokens) ==
  LET from == IF IsA("weekday", tokens, 1) THEN 1 ELSE 0
      T(k) == tokens[from + k]
  IN  IF \/ Len(tokens) < from + 4
         \/ get_mday(T(1)) = -1 \/ get_month(T(2)) = -1 \/ get_year(T(3)) = -1
         \/ ~get_time(T(4))
      THEN NULL
      ELSE g_date_time_new(Zone(get_tzone(tokens, from + 5)),
                           get_year(T(3)), get_month(T(2)), get_mday(T(1)), TimeOf(T(4)))

---------------------------------------------------------------------------
NoDate == [year |-> 0, month |-> 0, day |-> 0, time |-> Midnight, tz |-> NULL, mask |-> {}]

SetYear(d, year) == [d EXCEPT !.year = year, !.mask = @ \cup {"YEAR"}]
SetMonth(d, month) == [d EXCEPT !.month = month, !.mask = @ \cup {"MONTH"}]
SetDay(d, day) == [d EXCEPT !.day = day, !.mask = @ \cup {"DAY"}]

TryYear(d, token) == IF get_year(token) = -1 THEN d ELSE SetYear(d, get_year(token))

\* A number: a year of four digits; a month, if there is none and a number
\* follows, but a day if it is more than 12; a day; a year of fewer digits.
BrokenNumber(d, token, number_next) ==
  LET n == token.value
  IN  IF token.len = 4 /\ "YEAR" \notin d.mask THEN TryYear(d, token)
      ELSE IF "MONTH" \notin d.mask /\ number_next
      THEN IF n > 12 THEN SetDay(d, n) ELSE IF n > 0 THEN SetMonth(d, n) ELSE d
      ELSE IF "DAY" \notin d.mask /\ get_mday(token) # -1 THEN SetDay(d, n)
      ELSE IF "YEAR" \notin d.mask THEN TryYear(d, token)
      ELSE d

\* A time that is none is kept all the same: no later step clears it.
BrokenTime(d, token) ==
  [d EXCEPT !.time = token.value,
            !.mask = IF get_time(token) THEN @ \cup {"TIME"} ELSE @]

BrokenToken(d, tokens, k) ==
  LET token == tokens[k]
      New(part) == part \notin d.mask
  IN  CASE token.kind = "weekday" /\ New("WEEKDAY") -> [d EXCEPT !.mask = @ \cup {"WEEKDAY"}]
        [] token.kind = "month" /\ New("MONTH") -> SetMonth(d, token.value)
        [] token.kind = "time" /\ New("TIME") -> BrokenTime(d, token)
        [] token.kind = "zone" /\ New("TZONE") /\ token.known ->
             [d EXCEPT !.tz = token.value, !.mask = @ \cup {"TZONE"}]
        [] token.kind = "number" -> BrokenNumber(d, token, IsA("number", tokens, k + 1))
        [] OTHER -> d

parse_broken_date(tokens) ==
  LET d == FoldLeftDomain(LAMBDA acc, k : BrokenToken(acc, tokens, k), NoDate, tokens)
  IN  IF d.mask \cap {"YEAR", "MONTH", "DAY", "TIME"} = {} THEN NULL
      ELSE g_date_time_new(Zone(d.tz), d.year, d.month, d.day, d.time)

header_decode_date(tokens) ==
  IF tokens = <<>> THEN NULL
  ELSE IF parse_rfc822_date(tokens) # NULL THEN parse_rfc822_date(tokens)
  ELSE parse_broken_date(tokens)

\* A text is [iso |-> what GLib reads it as, or NULL, tokens |-> its tokens].
parse_date(text) ==
  IF text.iso # NULL THEN text.iso
  ELSE LET date == header_decode_date(text.tokens) IN IF date = NULL THEN Error ELSE date
=============================================================================
