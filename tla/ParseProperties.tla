-------------------------- MODULE ParseProperties --------------------------
(* What one parse operation guarantees.                                      *)
EXTENDS ParseEngine, FiniteSets

\* The state takes the values it is meant to take.
ControlTypes ==
  /\ priv \in Options
  /\ opts \in Options
  /\ fallback \in BOOLEAN
  /\ level \in Nat
  /\ asked \in BOOLEAN
  /\ stack \in Seq(Frames)
  /\ pc \in {"idle", "call", "run", "back", "done"}
  /\ arg \in Docs
  /\ ret \in Results
TypeOK ==
  /\ ControlTypes
  /\ ignored \in Lists
  /\ root \in Roots
  /\ log \in Seq(Events)

\* The recursion level is never below the number of handlers that are running,
\* is exactly that number unless unsafe documents are being refused, and no
\* more than RECURSE_LEVEL_MAX + 1 handlers run at once, also in a playlist
\* that leads back to itself.
DepthIsBounded ==
  /\ Len(stack) <= RECURSE_LEVEL_MAX + 1
  /\ Len(stack) <= level
  /\ ~opts.disable_unsafe => level = Len(stack)

\* A document that refuses to be parsed may add itself to the playlist exactly
\* when the application asked for the fallback and no PLS playlist of a
\* recursive parse is waiting for it: the saved values are put back in the
\* right order whatever is nested in what.
WaitsInPls(f) == f.reader = "pls" /\ f.waits
FallbackIsScoped ==
  fallback = (asked /\ ~(opts.recurse /\ \E k \in DOMAIN stack : WaitsInPls(stack[k])))

\* What a running M3U handler remembers is the first #EXTINF after the last
\* entry before its position, also while another document is being parsed: a
\* title or a length is never given to another entry than the one it precedes.
NotesBefore(items, i) ==
  {j \in 1..(i - 1) : /\ items[j].op = "note"
                      /\ \A k \in j..(i - 1) : items[k].op \in {"note", "skip"}}
NoteIsFirst(f) ==
  LET before == NotesBefore(ItemsOf(f), f.i)
  IN  IF before = {} THEN f.note = NoNote
      ELSE \E j \in before :
             /\ \A l \in before : j <= l
             /\ f.note = [set |-> TRUE, live |-> ItemsOf(f)[j].live,
                          title |-> ItemsOf(f)[j].title]
NoteBelongsToEntry ==
  \A k \in DOMAIN stack : stack[k].reader = "m3u" => NoteIsFirst(stack[k])

---------------------------------------------------------------------------
\* Signals

\* The playlists started and not ended after a list of signals, innermost
\* last; one that ends out of order is left on top as NONE.
AfterSignal(open, e) ==
  CASE e.sig = "playlist-started" -> Append(open, e.uri)
    [] e.sig = "playlist-ended" ->
         IF open # <<>> /\ Last(open) = e.uri THEN Front(open) ELSE Append(open, NONE)
    [] OTHER -> open
StillOpen(signals) ==
  LET open[i \in 0..Len(signals)] ==
        IF i = 0 THEN <<>> ELSE AfterSignal(open[i - 1], signals[i])
  IN  open[Len(signals)]

\* The playlists a running handler has started: its own, or one for each title
\* of an ASX document it has passed and not closed.
MarksUpTo(items, op, i) == {j \in 1..i : items[j].op = op}
Excess(items, i) ==
  Cardinality(MarksUpTo(items, "title", i)) - Cardinality(MarksUpTo(items, "end", i))
StartedBy(f) ==
  IF Bracketed(f.reader) THEN <<f.doc>>
  ELSE IF f.reader = "asx" THEN [j \in 1..Excess(ItemsOf(f), f.i - 1) |-> f.doc]
  ELSE <<>>
OpenedBy(frames) ==
  LET opened[k \in 0..Len(frames)] ==
        IF k = 0 THEN <<>> ELSE opened[k - 1] \o StartedBy(frames[k])
  IN  opened[Len(frames)]

\* The worlds in which that can hold: a feed's handler ends each playlist it
\* starts and no other, unless the document is an OPML one with a head or an
\* Atom feed without an entry; an ASX document's titles and ends start and end
\* playlists one for one.
Balanced(items) ==
  /\ \A i \in 0..Len(items) : Excess(items, i) >= 0
  /\ Excess(items, Len(items)) = 0
TidyWorld ==
  \A d \in Docs :
    /\ World[d].form # "opml"
    /\ World[d].form = "atom" => \E i \in DOMAIN World[d].items : World[d].items[i].op = "entry"
    /\ Balanced(World[d].items)

\* playlist-started and playlist-ended are properly nested, and at any moment
\* the playlists the application sees as open are those of the handlers that
\* are running, outermost first; all are closed when the parse is over.
SignalsAreNested == StillOpen(log) = OpenedBy(stack)

\* The entries the application has been given.
WithReport(uris, e) == IF e.sig = "entry-parsed" THEN Append(uris, e.uri) ELSE uris
Reports(signals) ==
  LET uris[k \in 0..Len(signals)] ==
        IF k = 0 THEN <<>> ELSE WithReport(uris[k - 1], signals[k])
  IN  uris[Len(signals)]

\* No document is both opened as a playlist and reported as an entry.
ExpandedOrReported ==
  \A i, j \in DOMAIN log :
    log[i].sig = "playlist-started" /\ log[j].sig = "entry-parsed" =>
      log[i].uri # log[j].uri

---------------------------------------------------------------------------
\* The recursion limit

\* A document is refused for its depth only if it is that deep.
RefusedForDepthOnlyIfDeep ==
  pc = "call" /\ level > RECURSE_LEVEL_MAX => Len(stack) > RECURSE_LEVEL_MAX

---------------------------------------------------------------------------
\* The promise of Worklist

\* A reader goes through its items up to "--stop--"; those that name something
\* are links, devices and what is added as it is.  What is named from item i on
\* is found from the last item upwards.
Naming == {"link", "add", "device"}
NamedThen(it, rest) ==
  IF it.op = "stop" THEN <<>> ELSE IF it.op \in Naming THEN <<it.to>> \o rest ELSE rest
NamedFrom(items, i) ==
  LET named[j \in 0..Len(items)] ==
        IF j = 0 THEN <<>> ELSE NamedThen(items[Len(items) + 1 - j], named[j - 1])
  IN  named[Len(items) + 1 - i]

\* Any text may be read as lines; one without any is no playlist.
Playlists == {d \in Docs : \/ World[d].form \in {"pls", "asx", "dir", "desktop"}
                          \/ /\ World[d].form \in {"m3u", "urilist", "other"}
                             /\ World[d].items # <<>>}
Directories == {d \in Docs : World[d].form = "dir"}

\* A podcast link yields what its feed does, an empty file nothing.
SourceOf(d) == IF World[d].feed = NONE THEN d ELSE World[d].feed
OneGoForms == UNION {ReadInOneGo[func] : func \in DOMAIN ReadInOneGo}
Yielding == {d \in Docs : World[SourceOf(d)].form \in OneGoForms \cup {"zero"}}
FoundIn(d) ==
  {Reports(OneGoLog(SourceOf(d), World[SourceOf(d)], recurse)) : recurse \in BOOLEAN}

\* What a running handler will still name: the item it waits for is in todo on
\* its own.
Task(doc, optional) == [doc |-> doc, optional |-> optional]
PendingIn(f) ==
  LET uris == NamedFrom(ItemsOf(f), IF f.waits THEN f.i + 1 ELSE f.i)
  IN  [k \in DOMAIN uris |-> Task(uris[k], f.reader = "dir")]
Pending(frames) ==
  LET tasks[k \in 0..Len(frames)] ==
        IF k = 0 THEN <<>> ELSE PendingIn(frames[k]) \o tasks[k - 1]
  IN  tasks[Len(frames)]

\* The document that is being worked on.  One that is read as lines and has
\* none is not replaced by what it names: its handler fails.
MayDrop(callers) == callers = <<>> \/ callers[Len(callers)].reader = "dir"
IsBlank(f) == f.reader \in {"m3u", "ram"} /\ ItemsOf(f) = <<>>
InHand ==
  CASE pc = "idle" -> <<Task(root, TRUE)>>
    [] pc = "call" -> <<Task(arg, MayDrop(stack))>>
    [] pc = "run" -> IF IsBlank(Top) THEN <<Task(Top.doc, MayDrop(Below))>> ELSE <<>>
    [] pc = "back" ->
         IF Reported(Top.reader) THEN <<Task(It.to, MayDrop(stack))>> ELSE <<>>
    [] OTHER -> <<>>

NamedBy == [d \in Playlists |-> NamedFrom(World[d].items, 1)]
FoundBy == [d \in Yielding |-> FoundIn(d)]

\* A PLA file is never read with success (a finding), so that it may be reported
\* beside its entries.
NoPla == \A d \in Docs : World[d].form # "pla"

Promise == INSTANCE Worklist
  WITH Named <- NamedBy,
       Found <- FoundBy,
       Loose <- Directories,
       todo <- InHand \o Pending(stack),
       seen <- Reports(log)

\* Every document a playlist names is accounted for exactly once, depth first
\* and in document order: reported, opened in its place, or replaced by the
\* entries read from it.
KeepsPromise == Promise!Spec

\* The parse ends, also on playlists that lead back to themselves.
Terminates == <>(pc = "done")
=============================================================================
