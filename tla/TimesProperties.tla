--------------------------- MODULE TimesProperties ---------------------------
(* What the readers of dates and durations promise.                           *)
EXTENDS TimesRead

Has(k) == Data(k) # NULL

\* However a date is written, by RFC 822, by ISO 8601 or in one of the orders
\* of its parts that parse_broken_date takes, it is read as the instant that
\* its writer meant; what is no date is read as the error.
DatesReadBack ==
  \A k \in 1..Len(feed) :
     Has(k) => Date!parse_date(Data(k)) =
                 IF feed[k].meant = NULL THEN Date!Error ELSE feed[k].meant

\* However a length is written it is read as the seconds its writer meant, and
\* whatever the lines of the file are, the items that were taken for streams are
\* exactly those of the numbers whose last length is negative or cannot be read.
LengthsReadBack ==
  \A k \in DOMAIN items :
    LET length == items[k].length
    IN  /\ length # NULL =>
             Length(items[k]) = IF length.meant = NULL THEN Duration!Error ELSE length.meant
        /\ k \in streams <=> length # NULL /\ (length.meant = NULL \/ length.meant < 0)

\* A date counts from the epoch on.
Readable(k) == Has(k) /\ feed[k].meant # NULL /\ feed[k].meant.minute >= 0

NoneIsLater(S) ==
  /\ pub_date \in S
  /\ \A k \in S : ~Date!Later(feed[k].meant, feed[pub_date].meant)

\* Of the dates read so far a feed keeps the most recent, as long as all of
\* them can be read.
RecentDateIsKept ==
  LET given == {k \in 1..read : Has(k)}
  IN  given # {} /\ (\A k \in given : Readable(k)) => NoneIsLater(given)
=============================================================================
