----------------------------- MODULE ParseEngine -----------------------------
(* One parse operation: totem_pl_parser_parse_with_base, the recursion of    *)
(* totem_pl_parser_parse_internal through the handlers that open other       *)
(* documents, and the signals they emit in order.  The application may       *)
(* change the parser's properties and its ignore lists at any moment, since  *)
(* the parse may run in a worker thread.                                     *)
EXTENDS PlaylistFormats, Integers

CONSTANTS
  RECURSE_LEVEL_MAX,  \* the level past which no document is read
  Roots,              \* the documents the application may ask for
  OptionSets,         \* the values recurse, force and disable_unsafe start with
  IgnoreLists,        \* the ignore lists the parser may start with
  Toggles,            \* the properties the application may set meanwhile
  LateIgnores,        \* what it may add to the ignore lists meanwhile
  Restless            \* bound: the documents during whose parse it does

Options == [recurse : BOOLEAN, force : BOOLEAN, disable_unsafe : BOOLEAN]
Lists == [schemes : SUBSET Schemes, types : SUBSET MimeTypes, globs : SUBSET STRING]

ASSUME EngineAssumption ==
  /\ RECURSE_LEVEL_MAX \in Nat
  /\ Roots \subseteq Docs
  /\ Restless \subseteq Roots
  /\ OptionSets \subseteq Options
  /\ IgnoreLists \subseteq [schemes : SUBSET Schemes, types : SUBSET MimeTypes,
                            globs : SUBSET (STRING \ {NONE})]
  /\ Toggles \subseteq {"recurse", "force", "disable_unsafe"}
  /\ LateIgnores \subseteq [list : {"schemes"}, value : Schemes]
                   \cup [list : {"types"}, value : MimeTypes]
                   \cup [list : {"globs"}, value : STRING \ {NONE}]

VARIABLES
  priv,       \* the parser's properties
  ignored,    \* the parser's ignore lists
  opts,       \* parse_data: the copy of the properties
  fallback,   \* parse_data->fallback
  level,      \* parse_data->recurse_level
  asked,      \* the fallback argument of the parse
  root,       \* the document asked for
  stack,      \* the handlers that are running, innermost last
  pc,         \* what the parse does next
  arg,        \* the document parse_internal is called on
  ret,        \* the result it last returned
  log         \* the signals emitted

env == <<priv, ignored>>
vars == <<priv, ignored, opts, fallback, level, asked, root, stack, pc, arg, ret, log>>

\* An #EXTINF line, or none: what it says of the next entry.
NoNote == [set |-> FALSE, live |-> FALSE, title |-> NONE]
Notes == [set : BOOLEAN, live : BOOLEAN, title : Titles]

\* A running handler: its document, its reader, the type the tail will look
\* at, its position in the items, whether it waits for a call to return, the
\* fallback it saved and the #EXTINF it remembers.
Frames == [doc : Docs, reader : Readers, type : MimeTypes, i : Nat \ {0},
           waits : BOOLEAN, saved : BOOLEAN, note : Notes]

Top == stack[Len(stack)]
Below == SubSeq(stack, 1, Len(stack) - 1)
ItemsOf(f) == World[f.doc].items
AtEnd(f) == f.i > Len(ItemsOf(f))
It == ItemsOf(Top)[Top.i]

Init ==
  /\ priv \in OptionSets
  /\ ignored \in IgnoreLists
  /\ opts = priv
  /\ fallback \in BOOLEAN
  /\ asked = fallback
  /\ root \in Roots
  /\ level = 0
  /\ stack = <<>>
  /\ pc = "idle"
  /\ arg = root
  /\ ret = UNHANDLED
  /\ log = <<>>

---------------------------------------------------------------------------
\* totem_pl_parser_parse_with_base: refuse an ignored scheme, else copy the
\* options and parse.
Parse ==
  /\ pc = "idle"
  /\ IF World[root].scheme \in ignored.schemes
       THEN /\ pc' = "done"
            /\ ret' = UNHANDLED
            /\ UNCHANGED opts
       ELSE /\ opts' = priv
            /\ pc' = "call"
            /\ UNCHANGED ret
  /\ UNCHANGED <<env, fallback, level, asked, root, stack, arg, log>>

---------------------------------------------------------------------------
\* totem_pl_parser_parse_internal on arg

Decision == parse_internal(World[arg], opts, level, RECURSE_LEVEL_MAX, ignored)

\* A mistake: what was refused is tried again.
Back_Retries == pc' = IF stack = <<>> THEN "done" ELSE "call"

\* parse_internal is over: back to the handler that called it, or to the
\* application.
Back == pc' = IF stack = <<>> THEN "done" ELSE "back"

ReturnAtOnce(v) ==
  /\ v.do = "return"
  /\ ret' = v.ret
  /\ Back
  /\ UNCHANGED <<env, opts, fallback, level, asked, root, stack, arg, log>>

\* The helper script gave the video behind the page.
ReturnVideoSite(v) ==
  /\ v.do = "site"
  /\ log' = Append(log, Entry(arg, NONE))
  /\ ret' = SUCCESS
  /\ Back
  /\ UNCHANGED <<env, opts, fallback, level, asked, root, stack, arg>>

\* totem_pl_parser_add_itpc, _add_zune and _add_itms: the feed at the
\* rewritten URI is read at once, whatever the level, and without the tail.
ReadFeedScheme(v) ==
  /\ v.do = "direct"
  /\ LET feed == World[arg].feed
         out == Outcome("rss", feed, World[feed], FALSE, priv.recurse)
     IN  /\ log' = log \o out.log
         /\ ret' = out.ret
  /\ Back
  /\ UNCHANGED <<env, opts, fallback, level, asked, root, stack, arg>>

\* An unsafe special type returns from inside the counted section.
ReturnUnsafe(v) ==
  /\ v.do = "leak"
  /\ level' = level + 1
  /\ ret' = IGNORED
  /\ Back
  /\ UNCHANGED <<env, opts, fallback, asked, root, stack, arg, log>>

\* The tail of parse_internal on document doc, after the signals of its
\* handler.
ThroughTail(doc, r, type, emitted) ==
  /\ log' = log \o emitted
              \o (IF AddsItself(r, type, fallback) THEN <<Entry(doc, NONE)>> ELSE <<>>)
  /\ ret' = TailResult(r, type, fallback)

\* No handler for this type.
GiveUp(v) ==
  /\ v.do = "tail"
  /\ ThroughTail(arg, v.ret, v.type, <<>>)
  /\ Back
  /\ UNCHANGED <<env, opts, fallback, level, asked, root, stack, arg>>

\* A handler that reads the document in one go: the level goes up and down.
ReadWhole(v) ==
  /\ v.do = "handle"
  /\ ReaderFor(v.func, World[arg], v.data) = NONE
  /\ LET out == Outcome(v.func, arg, World[arg], v.data, priv.recurse)
     IN  ThroughTail(arg, out.ret, v.type, out.log)
  /\ Back
  /\ UNCHANGED <<env, opts, fallback, level, asked, root, stack, arg>>

\* A handler that opens the document.
Open(v) ==
  /\ v.do = "handle"
  /\ LET reader == ReaderFor(v.func, World[arg], v.data)
     IN  /\ reader # NONE
         /\ stack' = Append(stack, [doc |-> arg, reader |-> reader, type |-> v.type,
                                    i |-> 1, waits |-> FALSE, saved |-> FALSE,
                                    note |-> NoNote])
         /\ log' = log \o Opening(reader, arg)
  /\ level' = level + 1
  /\ pc' = "run"
  /\ UNCHANGED <<env, opts, fallback, asked, root, arg, ret>>

---------------------------------------------------------------------------
\* The handlers' loops, one item at a time

Replace(f) == stack' = [stack EXCEPT ![Len(stack)] = f]
\* A mistake: what an #EXTINF says outlives its entry.
Advanced_KeepsNote(f) == [f EXCEPT !.i = @ + 1]
Advanced(f) == [f EXCEPT !.i = @ + 1, !.note = NoNote]

\* The top handler is at an item, one of ops.
Running(reader) == pc = "run" /\ Top.reader = reader
At(reader, ops) == Running(reader) /\ ~AtEnd(Top) /\ It.op \in ops

\* A mistake: the item is passed by without going on to the next.
Pass_Stays == UNCHANGED vars

\* The handler passes the item by and goes on to the next.
Pass ==
  /\ Replace(Advanced(Top))
  /\ UNCHANGED <<env, opts, fallback, level, asked, root, pc, arg, ret, log>>

\* The handler emits one signal and goes on to the next item.
Emit(event) ==
  /\ log' = Append(log, event)
  /\ Replace(Advanced(Top))
  /\ UNCHANGED <<env, opts, fallback, level, asked, root, pc, arg, ret>>

\* The handler calls parse_internal on the item's target.
Call(frame) ==
  /\ Replace([frame EXCEPT !.waits = TRUE])
  /\ arg' = It.to
  /\ pc' = "call"
  /\ UNCHANGED <<env, opts, level, asked, root, ret, log>>

\* M3U.  The first #EXTINF since the last entry is kept, with its title and
\* its length; comments are passed by.
M3uNote ==
  /\ At("m3u", {"note", "skip"})
  /\ Replace([Top EXCEPT !.i = @ + 1,
                         !.note = IF It.op = "note" /\ ~@.set
                                    THEN [set |-> TRUE, live |-> It.live, title |-> It.title]
                                    ELSE @])
  /\ UNCHANGED <<env, opts, fallback, level, asked, root, pc, arg, ret, log>>

\* A relative or DOS path, or a link whose #EXTINF says it is endless.
M3uAdd ==
  /\ At("m3u", {"add", "link"})
  /\ It.op = "add" \/ Top.note.live
  /\ Emit(Entry(It.to, Top.note.title))

M3uFollow ==
  /\ At("m3u", {"link"})
  /\ ~Top.note.live
  /\ Call(Top)
  /\ UNCHANGED fallback

\* PLS.  The children of a recursive parse run without the fallback; it is
\* saved before each entry and put back after it.
PlsAdd ==
  /\ At("pls", {"link"})
  /\ It.live
  /\ Emit(Entry(It.to, It.title))

\* A mistake: the fallback is withdrawn without being saved.
PlsFollow_Unsaved ==
  /\ At("pls", {"link"})
  /\ ~It.live
  /\ Call(Top)
  /\ fallback' = (fallback /\ ~opts.recurse)

\* A mistake: the fallback is withdrawn in every parse.
PlsFollow_Always ==
  /\ At("pls", {"link"})
  /\ ~It.live
  /\ Call([Top EXCEPT !.saved = fallback])
  /\ fallback' = FALSE

PlsFollow ==
  /\ At("pls", {"link"})
  /\ ~It.live
  /\ Call([Top EXCEPT !.saved = fallback])
  /\ fallback' = (fallback /\ ~opts.recurse)

\* RAM, ASX, directories: follow each link.
Follow ==
  /\ \E reader \in {"ram", "asx", "dir"} : At(reader, {"link"})
  /\ Call(Top)
  /\ UNCHANGED fallback

\* What is no URI in a RAM file, an ASX entry without a reference or for a
\* buffering image, a partial download in a directory.
Skip ==
  /\ \/ At("ram", {"skip"}) \/ At("asx", {"skip"}) \/ At("dir", {"partial"})
  /\ Pass

\* "--stop--" ends a RAM file early.
RamStop ==
  /\ At("ram", {"stop"})
  /\ Replace([Top EXCEPT !.i = Len(ItemsOf(Top)) + 1])
  /\ UNCHANGED <<env, opts, fallback, level, asked, root, pc, arg, ret, log>>

\* The titles and the ends of an ASX document and of its repeat blocks.
AsxTitle ==
  /\ At("asx", {"title"})
  /\ Emit(Started(Top.doc))

AsxEnd ==
  /\ At("asx", {"end"})
  /\ Emit(Ended(Top.doc))

\* A link in a .desktop file is added unless it would be ignored; a device is
\* always parsed.
DesktopAdd ==
  /\ At("desktop", {"link"})
  /\ ~totem_pl_parser_ignore(World[It.to], ignored)
  /\ Emit(Entry(It.to, It.title))

DesktopFollow ==
  /\ At("desktop", {"link", "device"})
  /\ It.op = "device" \/ totem_pl_parser_ignore(World[It.to], ignored)
  /\ Call(Top)
  /\ UNCHANGED fallback

---------------------------------------------------------------------------
\* The called parse_internal has returned ret.

\* A mistake: only what nobody handles is added.
Reported_OnlyUnhandled(reader) == ret = UNHANDLED

\* Whether the handler adds the item itself, and under which title.
Reported(reader) ==
  IF reader = "dir" THEN ret = UNHANDLED ELSE ret # SUCCESS
TitleOf(f) ==
  IF f.reader = "m3u" THEN f.note.title ELSE It.title

ChildReturned ==
  /\ pc = "back"
  /\ log' = IF Reported(Top.reader)
              THEN Append(log, Entry(It.to, TitleOf(Top))) ELSE log
  /\ fallback' = IF Top.reader = "pls" THEN Top.saved ELSE fallback
  /\ Replace([Advanced(Top) EXCEPT !.waits = FALSE, !.saved = FALSE])
  /\ pc' = "run"
  /\ UNCHANGED <<env, opts, level, asked, root, arg, ret>>

\* Past its last item the handler returns: the level goes down again and
\* parse_internal runs its tail.
Leave ==
  /\ pc = "run"
  /\ AtEnd(Top)
  /\ level' = level - 1
  /\ stack' = Below
  /\ ThroughTail(Top.doc, ReaderResult(Top.reader, ItemsOf(Top)), Top.type,
                 Closing(Top.reader, Top.doc))
  /\ pc' = IF Len(stack) = 1 THEN "done" ELSE "back"
  /\ UNCHANGED <<env, opts, fallback, asked, root, arg>>

---------------------------------------------------------------------------
\* The application

SetProperty(name) ==
  /\ priv' = [priv EXCEPT ![name] = ~@]
  /\ UNCHANGED <<ignored, opts, fallback, level, asked, root, stack, pc, arg, ret, log>>

\* totem_pl_parser_add_ignored_scheme, _mimetype and _glob.
AddIgnored(new) ==
  /\ new.value \notin ignored[new.list]
  /\ ignored' = [ignored EXCEPT ![new.list] = @ \cup {new.value}]
  /\ UNCHANGED <<priv, opts, fallback, level, asked, root, stack, pc, arg, ret, log>>

\* The operation is over; the application may go on changing the parser.
Over ==
  /\ pc = "done"
  /\ UNCHANGED vars

Dispatch ==
  /\ pc = "call"
  /\ \E v \in {Decision} :
       \/ ReturnAtOnce(v) \/ ReturnVideoSite(v) \/ ReadFeedScheme(v)
       \/ ReturnUnsafe(v) \/ GiveUp(v) \/ ReadWhole(v) \/ Open(v)

Loop ==
  M3uNote \/ M3uAdd \/ M3uFollow \/ PlsAdd \/ PlsFollow \/ Follow \/ Skip
  \/ RamStop \/ AsxTitle \/ AsxEnd \/ DesktopAdd \/ DesktopFollow
  \/ ChildReturned \/ Leave

Step == Parse \/ Dispatch \/ Loop

Application ==
  /\ root \in Restless
  /\ \/ \E name \in Toggles : SetProperty(name)
     \/ \E new \in LateIgnores : AddIgnored(new)

Next == Step \/ Application \/ Over

\* The parse runs to its end on its own thread: it is never descheduled for
\* ever.  Nothing is asked of the application.
Spec == Init /\ [][Next]_vars
FairSpec == Spec /\ WF_vars(Step)
=============================================================================
