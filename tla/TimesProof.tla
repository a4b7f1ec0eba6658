------------------------------ MODULE TimesProof ------------------------------
(* The theorem about the dates of a feed, for feeds of any length: one that   *)
(* reads each date as it is meant keeps the most recent of them.              *)
EXTENDS TimesProperties, TLAPS

\* The dates that were given so far.
Given == {k \in 1..read : Has(k)}

AreReadable(S) == \A k \in S : Readable(k)

\* Of the dates so far the feed keeps one; the most recent, if all are readable.
DateInv ==
  /\ feed \in Feeds
  /\ read \in 0..Len(feed)
  /\ pub_date \in Given \cup {0}
  /\ pub_date = 0 => Given = {}
  /\ Given # {} /\ AreReadable(Given) => NoneIsLater(Given)

---------------------------------------------------------------------------
\* What can be read is an instant after the epoch.
LEMMA ReadableIsInstant ==
  ASSUME feed \in Feeds, NEW k \in 1..Len(feed), Readable(k)
  PROVE  feed[k].meant.minute \in Nat /\ feed[k].meant.second \in Int
<1>1. feed[k].meant # NULL /\ feed[k].meant.minute >= 0
  BY DEF Readable
<1>2. feed[k].meant.minute \in Int /\ feed[k].meant.second \in Int
  BY <1>1, FeedsAssumption
<1> QED BY <1>1, <1>2

\* The order of the instants after the epoch.
LEMMA LaterIsOrder ==
  ASSUME NEW a, NEW b, NEW c,
         a.minute \in Nat, b.minute \in Nat, c.minute \in Nat,
         a.second \in Int, b.second \in Int, c.second \in Int
  PROVE  /\ ~Date!Later(a, a)
         /\ Date!Later(a, b) => ~Date!Later(b, a)
         /\ ~Date!Later(a, b) /\ ~Date!Later(b, c) => ~Date!Later(a, c)
<1>1. \A x, y : x.minute \in Nat /\ y.minute \in Nat =>
        (Date!Later(x, y) <=> x.minute > y.minute \/ (x.minute = y.minute /\ x.second > y.second))
  BY DEF Date!Later
<1> QED BY <1>1

\* One more date.
LEMMA DateIsRecent ==
  ASSUME DateInv, DatesReadBack, set_recent_date
  PROVE  DateInv'
<1> DEFINE new == read + 1
           old == pub_date
           date(k) == feed[k].meant
<1>1. /\ feed' = feed /\ read' = new
      /\ feed \in Feeds /\ read \in Nat /\ new \in 1..Len(feed) /\ Len(feed) \in Nat
      /\ old \in Given \cup {0} /\ (old = 0 => Given = {})
  BY FeedsAssumption DEF set_recent_date, ReadDate, DateInv
<1>2. /\ \A k : Has(k)' <=> Has(k)
      /\ \A k : Readable(k)' <=> Readable(k)
  BY <1>1 DEF Has, Readable, Data
<1>3. Given' = IF Has(new) THEN Given \cup {new} ELSE Given
  <2>1. 1..read' = (1..read) \cup {new}
    BY <1>1
  <2> QED BY <1>2, <2>1 DEF Given
<1>4. Given \subseteq 1..read /\ Given \subseteq 1..Len(feed) /\ 0 \notin Given /\ new \notin Given
  BY <1>1 DEF Given
<1>5. CASE ~Has(new)
  <2>1. pub_date' = old /\ Given' = Given
    BY <1>3, <1>5 DEF set_recent_date, Has
  <2>2. Given # {} /\ AreReadable(Given)' => NoneIsLater(Given)'
    BY <1>1, <1>2, <2>1 DEF AreReadable, NoneIsLater, DateInv
  <2> QED BY <1>1, <2>1, <2>2 DEF DateInv
<1>6. CASE Has(new)
  <2>1. Given' = Given \cup {new}
    BY <1>3, <1>6
  <2>2. pub_date' \in {old, new} /\ (old = 0 => pub_date' = new) /\ new # 0
    BY <1>1, <1>6 DEF set_recent_date, Has
  <2>3. pub_date' \in Given' /\ pub_date' # 0
    BY <1>1, <1>4, <2>1, <2>2
  <2>4. ASSUME AreReadable(Given)' PROVE NoneIsLater(Given)'
    <3>1. \A k \in Given \cup {new} : Readable(k)
      BY <1>2, <2>1, <2>4 DEF AreReadable
    <3>2. \A k \in Given \cup {new} : date(k).minute \in Nat /\ date(k).second \in Int
      BY <1>1, <1>4, <3>1, ReadableIsInstant
    <3>3. CASE old = 0
      <4>1. Given' = {new} /\ pub_date' = new
        BY <1>1, <2>1, <2>2, <3>3
      <4>2. ~Date!Later(date(new), date(new))
        BY <3>2, LaterIsOrder
      <4> QED BY <1>1, <4>1, <4>2 DEF NoneIsLater
    <3>4. CASE old # 0
      <4>1. old \in Given /\ \A k \in Given : ~Date!Later(date(k), date(old))
        BY <1>1, <3>1, <3>4 DEF DateInv, AreReadable, NoneIsLater
      <4>2. Date!parse_date(Data(new)) = date(new) /\ Date!parse_date(Data(old)) = date(old)
        BY <1>1, <1>4, <3>1, <4>1 DEF DatesReadBack, Readable
      <4>3. pub_date' = IF Date!Later(date(new), date(old)) THEN new ELSE old
        BY <1>6, <3>4, <4>2 DEF set_recent_date, Has
      <4>4. \A k \in Given \cup {new} : ~Date!Later(date(k), date(pub_date'))
        <5>1. ASSUME Date!Later(date(new), date(old)), NEW k \in Given
              PROVE  ~Date!Later(date(k), date(new))
          <6>1. ~Date!Later(date(old), date(new)) /\ ~Date!Later(date(k), date(old))
            BY <3>2, <4>1, <5>1, LaterIsOrder
          <6> QED BY <3>2, <4>1, <6>1, LaterIsOrder
        <5>2. ~Date!Later(date(new), date(new))
          BY <3>2, LaterIsOrder
        <5> QED BY <4>1, <4>3, <5>1, <5>2
      <4> QED BY <1>1, <2>1, <2>3, <4>4 DEF NoneIsLater
    <3> QED BY <3>3, <3>4
  <2> QED BY <1>1, <2>3, <2>4 DEF DateInv
<1> QED BY <1>5, <1>6

\* Whatever the dates of a feed and their order, it keeps the most recent one,
\* provided that each of them is read as it is meant.
THEOREM FeedKeepsRecentDate == Spec /\ []DatesReadBack => []RecentDateIsKept
<1>1. Init => DateInv
  BY FeedsAssumption DEF Init, DateInv, Given
<1>2. DateInv /\ DatesReadBack /\ [Next]_vars => DateInv'
  <2>1. ASSUME DateInv, UNCHANGED <<feed, read, pub_date>> PROVE DateInv'
    BY <2>1 DEF DateInv, Given, Has, Data, AreReadable, Readable, NoneIsLater
  <2>2. ReadFile => UNCHANGED <<feed, read, pub_date>>
    BY DEF ReadFile, ReadEntry, NoEntry
  <2>3. UNCHANGED vars => UNCHANGED <<feed, read, pub_date>>
    BY DEF vars
  <2> QED BY <2>1, <2>2, <2>3, DateIsRecent DEF Next
<1>3. DateInv => RecentDateIsKept
  BY DEF DateInv, RecentDateIsKept, Given, AreReadable
<1> QED BY <1>1, <1>2, <1>3, PTL DEF Spec
=============================================================================
