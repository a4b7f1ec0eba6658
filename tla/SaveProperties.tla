---------------------------- MODULE SaveProperties ----------------------------
(* What the application may expect of a playlist it saves.                   *)
EXTENDS PlaylistSave

\* The state takes the values it is meant to take.
SaveTypeOK ==
  /\ ignored \subseteq Schemes
  /\ cancelled \in BOOLEAN
  /\ pc \in {"idle", "count", "open", "write", "close", "returned", "answered", "crashed"}
  /\ i \in 1..(Len(rows) + 2)
  /\ entries \in 0..Len(rows)
  /\ number \in 0..Len(rows)
  /\ \A l \in Range(todo \o written) : l.value \in DOMAIN rows \cup {NULL}
  /\ stream \in {"none", "open", "finalized"}
  /\ outcome \in Results
  /\ answer \in Results

\* What the readers of the library make of the lines, each entry by where it
\* comes among them: a PLS file goes by the numbers, an M3U title belongs to the
\* URI after it, an XSPF title to the one before it, a PLA file has as many
\* entries as its header says.
Files == {n \in DOMAIN written : Counted(written[n])}
Entry(k, t) == [row |-> k, title |-> t]
TitleAt(n) == IF n \in DOMAIN written /\ written[n].key = "title" THEN written[n].value ELSE NULL
UpTo(n) == {m \in Files : m <= n}

ReadBack ==
  CASE format = "pls" ->
         [n \in Numbers(written) |-> Entry(Item(written, n).file, Item(written, n).title)]
    [] format = "m3u" -> [n \in Files |-> Entry(written[n].value, TitleAt(n - 1))]
    [] format = "xspf" -> [n \in Files |-> Entry(written[n].value, TitleAt(n + 1))]
    [] format = "pla" ->
         [n \in {m \in Files : Cardinality(UpTo(m)) <= written[1].no}
            |-> Entry(written[n].value, NULL)]

\* A playlist that was saved reads back: the rows with a URI, in their order,
\* each with its own title, and without those whose scheme is ignored all
\* along (not asked for in XSPF and PLA), also if more schemes are ignored
\* while it is written.
ReadsBack ==
  outcome = "saved" =>
    /\ \A n \in DOMAIN ReadBack :
         LET e == ReadBack[n]
         IN  /\ e.row \in DOMAIN rows
             /\ HasUri(rows[e.row])
             /\ AsksForScheme => rows[e.row].scheme \notin Ignored
             /\ e.title = IF rows[e.row].titled /\ format # "pla" THEN e.row ELSE NULL
             /\ \A m \in DOMAIN ReadBack : m < n => ReadBack[m].row < e.row
    /\ \A k \in DOMAIN rows :
         Accepted(rows[k]) => \E n \in DOMAIN ReadBack : ReadBack[n].row = k

\* The NumberOfEntries of a PLS file is that of its entries, unless schemes
\* came to be ignored between the count and the walk: then it is too high.
CountIsHonest ==
  outcome = "saved" /\ format = "pls" =>
    /\ number = Cardinality(Files)
    /\ entries >= number
    /\ ignored = Ignored => entries = number

\* However a save ends, its stream has been let go; and not twice by the
\* savers of PLS and M3U, which return from a write that failed.
ReturnsAtOnce == format \in {"pls", "m3u"}
StreamIsReleased ==
  /\ pc \in {"returned", "answered"} => stream # "open"
  /\ ReturnsAtOnce => pc # "crashed"

\* A PLS or M3U playlist is answered for, whatever fails; so is one of the
\* other formats, unless a write fails that its saver goes on from.
SavesAreAnswered ==
  (pc # "idle" /\ ReturnsAtOnce) ~> (pc = "answered")

\* "If saving of the playlist is cancelled part-way through,
\* G_IO_ERROR_CANCELLED will be returned."
CancelledIsReturned == cancelled ~> (answer = "cancelled")
=============================================================================
