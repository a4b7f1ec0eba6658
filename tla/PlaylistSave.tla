----------------------------- MODULE PlaylistSave -----------------------------
(* One totem_pl_parser_save or _save_async: the check of the size, the       *)
(* thread that writes the playlist line by line, and the answer, while the   *)
(* application may cancel and may add to the ignored schemes.  A save that   *)
(* is never cancelled is also a synchronous one.  The rows do not change     *)
(* meanwhile: nothing would keep them from it but the application.           *)
EXTENDS PlsFile

CONSTANTS
  Playlists,     \* the playlists there may be
  Formats,       \* the formats to save in
  Schemes,       \* the schemes of URIs
  Ignored        \* those the parser ignores at the start

ASSUME SaveAssumption ==
  /\ Formats \subseteq {"pls", "m3u", "xspf", "pla"}
  /\ "file" \in Schemes
  /\ Ignored \subseteq Schemes
  /\ Playlists \subseteq Seq([scheme : Schemes \cup {NULL}, titled : BOOLEAN])

VARIABLES
  rows,       \* the playlist: each row's URI, by its scheme, and whether it has a title
  format,     \* the type asked for
  ignored,    \* the ignored schemes
  cancelled,  \* whether the cancellable is
  pc,         \* what the save does next
  i,          \* the row a walk over the playlist is at
  entries,    \* num_entries, counted before a PLS file is written
  number,     \* the number of the last entry written to a PLS file
  todo,       \* the lines to write before the next row
  written,    \* the lines written
  stream,     \* the output stream: no reference, one, or finalized
  outcome,    \* what the task will return
  answer      \* what the application is told

vars == <<rows, format, ignored, cancelled, pc, i, entries, number, todo, written,
          stream, outcome, answer>>
call == <<rows, format>>
walk == <<i, entries, number>>

Results == {"none", "saved", "empty", "failed", "cancelled"}

Init ==
  /\ rows \in Playlists
  /\ format \in Formats
  /\ ignored = Ignored
  /\ cancelled = FALSE
  /\ pc = "idle"
  /\ i = 1
  /\ entries = 0
  /\ number = 0
  /\ todo = <<>>
  /\ written = <<>>
  /\ stream = "none"
  /\ outcome = "none"
  /\ answer = "none"

---------------------------------------------------------------------------
\* The application

\* pl_parser_save_check_size refuses an empty playlist; else the thread begins.
Save ==
  /\ pc = "idle"
  /\ IF rows = <<>>
       THEN pc' = "returned" /\ outcome' = "empty"
       ELSE /\ pc' = IF format = "pls" THEN "count" ELSE "open"
            /\ UNCHANGED outcome
  /\ UNCHANGED <<call, ignored, cancelled, walk, todo, written, stream, answer>>

Cancel ==
  /\ pc \notin {"idle", "answered"}
  /\ ~cancelled
  /\ cancelled' = TRUE
  /\ UNCHANGED <<call, ignored, pc, walk, todo, written, stream, outcome, answer>>

AddIgnoredScheme(s) ==
  /\ ignored' = ignored \cup {s}
  /\ ignored' # ignored
  /\ UNCHANGED <<call, cancelled, pc, walk, todo, written, stream, outcome, answer>>

---------------------------------------------------------------------------
\* What the formats write

\* Whether a row is written: XSPF and PLA do not ask for the scheme.
HasUri(r) == r.scheme # NULL
AsksForScheme == format \in {"pls", "m3u"}
Accepted(r) == HasUri(r) /\ (AsksForScheme => r.scheme \notin ignored)

Header ==
  CASE format = "pls" -> <<Line("[playlist]", 0, NULL), Line("NumberOfEntries", entries, NULL)>>
    [] format = "pla" -> <<Line("NumberOfEntries", Len(rows), NULL)>>
    [] OTHER -> <<Line("#EXTM3U", 0, NULL)>>

TitleLine(k, n) == IF rows[k].titled THEN <<Line("title", n, k)>> ELSE <<>>

\* A mistake: an entry's number is not that of its title.
RowLines_TitleBehind(k, n) ==
  IF format = "m3u" THEN TitleLine(k, 0) \o <<Line("file", 0, k)>>
  ELSE <<Line("file", n, k)>> \o TitleLine(k, n - 1)

\* The lines of row k, which is entry n of a PLS file.
RowLines(k, n) ==
  CASE format = "pls" -> <<Line("file", n, k)>> \o TitleLine(k, n)
    [] format = "m3u" -> TitleLine(k, 0) \o <<Line("file", 0, k)>>
    [] format = "xspf" -> <<Line("file", 0, k)>> \o TitleLine(k, 0) \o <<Line("/track", 0, NULL)>>
    [] format = "pla" -> <<Line("file", 0, k)>>

Footer == Line("/playlist", 0, NULL)

---------------------------------------------------------------------------
\* The thread

\* A mistake: a row without a URI is counted.
Count_EveryRow ==
  /\ pc = "count"
  /\ entries' = entries + (IF rows[i].scheme \in ignored THEN 0 ELSE 1)
  /\ IF i = Len(rows) THEN i' = 1 /\ pc' = "open" ELSE i' = i + 1 /\ UNCHANGED pc
  /\ UNCHANGED <<call, ignored, cancelled, number, todo, written, stream, outcome, answer>>

\* totem_pl_parser_num_entries, row by row.
Count ==
  /\ pc = "count"
  /\ entries' = entries + (IF Accepted(rows[i]) THEN 1 ELSE 0)
  /\ IF i = Len(rows) THEN i' = 1 /\ pc' = "open" ELSE i' = i + 1 /\ UNCHANGED pc
  /\ UNCHANGED <<call, ignored, cancelled, number, todo, written, stream, outcome, answer>>

\* g_file_replace.
Open ==
  /\ pc = "open"
  /\ ~cancelled
  /\ stream' = "open"
  /\ todo' = Header
  /\ pc' = "write"
  /\ UNCHANGED <<call, ignored, cancelled, walk, written, outcome, answer>>

\* A call fails because of the cancellable or of anything else.
Failure == IF cancelled THEN "cancelled" ELSE "failed"

OpenFails ==
  /\ pc = "open"
  /\ outcome' = Failure
  /\ pc' = "returned"
  /\ UNCHANGED <<call, ignored, cancelled, walk, todo, written, stream, answer>>

\* totem_pl_parser_write_buffer.
Write ==
  /\ pc = "write"
  /\ todo # <<>>
  /\ ~cancelled
  /\ written' = Append(written, Head(todo))
  /\ todo' = Tail(todo)
  /\ UNCHANGED <<call, ignored, cancelled, pc, walk, stream, outcome, answer>>

\* A mistake: no saver returns at once.
GoesOn_Always(line) == TRUE

\* Where a saver does not return at once from a write that failed.
GoesOn(line) ==
  \/ format = "pla" /\ line.key = "file"
  \/ format = "xspf" /\ line = Footer

\* A mistake: the stream is left to the saver, which just returns.
WriteFails_KeepsStream ==
  /\ pc = "write"
  /\ todo # <<>>
  /\ outcome' = Failure
  /\ pc' = IF GoesOn(Head(todo)) THEN "close" ELSE "returned"
  /\ todo' = <<>>
  /\ UNCHANGED <<call, ignored, cancelled, walk, written, stream, answer>>

\* A write that fails drops the stream.
WriteFails ==
  /\ pc = "write"
  /\ todo # <<>>
  /\ stream' = "finalized"
  /\ outcome' = Failure
  /\ pc' = IF GoesOn(Head(todo)) THEN "close" ELSE "returned"
  /\ todo' = <<>>
  /\ UNCHANGED <<call, ignored, cancelled, walk, written, answer>>

\* The next row: nothing to write for some; no local path ends a PLA file.
AtRow == pc = "write" /\ todo = <<>> /\ i <= Len(rows)
NoPath(r) == format = "pla" /\ HasUri(r) /\ r.scheme # "file"

NextRow ==
  /\ AtRow
  /\ ~NoPath(rows[i])
  /\ number' = IF Accepted(rows[i]) THEN number + 1 ELSE number
  /\ todo' = IF Accepted(rows[i]) THEN RowLines(i, number') ELSE <<>>
  /\ i' = i + 1
  /\ UNCHANGED <<call, ignored, cancelled, pc, entries, written, stream, outcome, answer>>

RowFails ==
  /\ AtRow
  /\ NoPath(rows[i])
  /\ outcome' = "failed"
  /\ pc' = "close"
  /\ UNCHANGED <<call, ignored, cancelled, walk, todo, written, stream, answer>>

\* A mistake: the walk does not know that it wrote the footer.
WriteFooter_Again ==
  /\ pc = "write"
  /\ todo = <<>>
  /\ i > Len(rows)
  /\ format = "xspf"
  /\ i' = i + 1
  /\ todo' = <<Footer>>
  /\ UNCHANGED <<call, ignored, cancelled, pc, entries, number, written, stream, outcome, answer>>

\* Past the last row an XSPF file is given its footer.
WriteFooter ==
  /\ pc = "write"
  /\ todo = <<>>
  /\ i = Len(rows) + 1
  /\ format = "xspf"
  /\ i' = i + 1
  /\ todo' = <<Footer>>
  /\ UNCHANGED <<call, ignored, cancelled, pc, entries, number, written, stream, outcome, answer>>

EndOfRows ==
  /\ pc = "write"
  /\ todo = <<>>
  /\ i > Len(rows) + (IF format = "xspf" THEN 1 ELSE 0)
  /\ pc' = "close"
  /\ UNCHANGED <<call, ignored, cancelled, walk, todo, written, stream, outcome, answer>>

\* The saver drops its reference and returns.
Close ==
  /\ pc = "close"
  /\ stream = "open"
  /\ stream' = "finalized"
  /\ outcome' = IF outcome = "none" THEN "saved" ELSE outcome
  /\ pc' = "returned"
  /\ UNCHANGED <<call, ignored, cancelled, walk, todo, written, answer>>

\* Of a stream that is finalized already, g_object_unref may see that it is
\* no object, or anything.
CloseAgain ==
  /\ pc = "close"
  /\ stream = "finalized"
  /\ pc' \in {"returned", "crashed"}
  /\ UNCHANGED <<call, ignored, cancelled, walk, todo, written, stream, outcome, answer>>

\* g_task_propagate_boolean, in which the cancellable has the last word.
Answer ==
  /\ pc = "returned"
  /\ answer' = IF cancelled THEN "cancelled" ELSE outcome
  /\ pc' = "answered"
  /\ UNCHANGED <<call, ignored, cancelled, walk, todo, written, stream, outcome>>

---------------------------------------------------------------------------
Thread == \/ Count \/ Open \/ OpenFails \/ Write \/ WriteFails \/ NextRow \/ RowFails
          \/ WriteFooter \/ EndOfRows \/ Close \/ CloseAgain

Next == Save \/ Cancel \/ (\E s \in Schemes : AddIgnoredScheme(s)) \/ Thread \/ Answer

Spec == Init /\ [][Next]_vars

\* The thread of the task runs, and so does the main loop that it returns to.
FairSpec == Spec /\ WF_vars(Thread) /\ WF_vars(Answer)
=============================================================================
