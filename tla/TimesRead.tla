------------------------------ MODULE TimesRead ------------------------------
(* Where the parser itself acts on a date or a duration that is written in a  *)
(* document.  A PLS file is scanned, and each entry that is found under a     *)
(* negative length is taken for a stream, which is reported without looking   *)
(* into it; a feed keeps the most recent of its dates (set_recent_date of     *)
(* parse_rss_items).  A date or length is [data, meant]: the text, or NULL,   *)
(* and what its writer meant, NULL where that is nothing; the code sees the   *)
(* text alone.                                                                *)
EXTENDS PlsScan

CONSTANTS Feeds,       \* the dates a feed may have
          IntBits      \* bits of an int

\* A writer means an instant, or nothing.
ASSUME FeedsAssumption ==
  \A dates \in Feeds :
    /\ dates \in Seq({dates[k] : k \in DOMAIN dates})
    /\ \A k \in 1..Len(dates) :
         dates[k].meant # NULL => dates[k].meant.minute \in Int /\ dates[k].meant.second \in Int

Date     == INSTANCE DateParse
Duration == INSTANCE DurationParse

VARIABLES
  feed,        \* the dates of the feed
  read,        \* how many of them were read
  pub_date,    \* the place of the date the feed keeps, or 0
  streams      \* the places of the items that were taken for streams

vars == <<scan, feed, read, pub_date, streams>>

\* A document is a PLS file or a feed: the other one is empty.
Init ==
  /\ ScanInit
  /\ feed \in Feeds
  /\ lines = <<>> \/ feed = <<>>
  /\ read = 0
  /\ pub_date = 0
  /\ streams = {}

Data(k) == feed[k].data

ReadDate ==
  /\ read < Len(feed)
  /\ read' = read + 1
  /\ UNCHANGED <<scan, feed, streams>>

\* A mistake: the order of the dates.
set_recent_date_Last ==
  /\ ReadDate
  /\ pub_date' = IF Data(read + 1) = NULL THEN pub_date ELSE read + 1

set_recent_date ==
  /\ ReadDate
  /\ pub_date' =
       IF \/ Data(read + 1) = NULL
          \/ /\ pub_date # 0
             /\ ~Date!Later(Date!parse_date(Data(read + 1)), Date!parse_date(Data(pub_date)))
       THEN pub_date ELSE read + 1

\* An entry without a length has length 0.
Length(item) == IF item.length = NULL THEN 0 ELSE Duration!parse_duration(item.length.data)

ReadEntry ==
  /\ Find
  /\ streams' = IF Length(Last(items')) < 0 THEN streams \cup {found_entries'} ELSE streams
  /\ UNCHANGED <<feed, read, pub_date>>

NoEntry ==
  /\ Miss
  /\ UNCHANGED <<feed, read, pub_date, streams>>

ReadFile == ReadEntry \/ NoEntry

Next == set_recent_date \/ ReadFile

\* The scan runs on its thread.
Spec == Init /\ [][Next]_vars /\ WF_vars(ReadFile)
=============================================================================
