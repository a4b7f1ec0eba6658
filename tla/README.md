# A specification of totem-pl-parser

totem-pl-parser is a GObject library that turns playlists, feeds, directories
and disc images into a list of entries. An application makes a `TotemPlParser`,
sets its properties and its ignore lists, asks it to parse a URI, and receives
the signals `playlist-started`, `entry-parsed` and `playlist-ended` and, in the
end, a `TotemPlParserResult`. This directory holds TLA+ modules for the parts
of the library whose behaviour is more than a conversion, the configurations
that check them with TLC, and proofs for TLAPS.

Paths below are relative to `src/plparse/`; `totem-pl-parser-` is left out of
file names, so that `pls.c` is `totem-pl-parser-pls.c` and `parser.c` is
`totem-pl-parser.c`. `PROJECT.json` maps every definition to the lines it
models.

## Inventory

| Component | State | Operations | What is hard |
|---|---|---|---|
| Parse operation (`parser.c`, `private.h`) | `TotemPlParseData`: level, fallback, copied options; the call stack of handlers | `parse_with_base`, `parse_internal`, the handlers' loops | recursion over several formats, cycles, one struct shared by all levels, early returns |
| MIME dispatch (`parser.c`) | tables; ignore lists behind a mutex | scheme rules, sniffing, special and dual types, the tail | many early returns, each with its own effect on level, result and fallback |
| Line formats (`lines.c`, `pls.c`) | remembered #EXTINF; the saved fallback; PLS key table | `add_m3u`, `add_ram`, `add_pls` | state carried over a recursive call |
| ASX, directories, images, .desktop (`wm.c`, `media.c`, `misc.c`) | – | `add_asx`, `add_directory`, `add_desktop`, ... | each treats a child's result in its own way |
| Feeds and XML playlists (`podcast.c`, `xspf.c`, `smil.c`, `amz.c`, `qt.c`, `pla.c`) | – | `add_rss`, `add_atom`, `add_xspf`, ... | which signals in which order, which result |
| Video sites (`videosite.c`) | helper found once | `is_videosite`, `add_videosite` | an external process |
| Asynchronous parsing (`parser.c`, `private.h`) | tasks, main-loop sources, references | `parse_async`, `parse_finish`, `CALL_ASYNC` | threads, priorities, cancellation, lifetime |
| Parser object (`parser.c`) | properties, ignore lists | `set_property`, `add_ignored_*` | changed while a worker parses |
| `TotemPlPlaylist` (`totem-pl-playlist.c`) | a linked list; iterators held by callers | insertion, navigation, `get`, `set` | iterators of other lists and past the ends, positions |
| Saving (`parser.c` and the formats) | a task, an output stream | `save_async`, `save_pls`, ... | writes that fail or are cancelled at any line, ignore lists that change between two walks |
| Disc detection (`totem-disc.c`) | a cache per call; the drive, its disc and its mounts, which are GIO's | `totem_cd_detect_type*`, `totem_cd_has_medium` | the main loop runs while a volume is mounted; discs are changed and volumes mounted and unmounted by others |
| XML parser (`xmllexer.c`, `xmlparser.c`, `parser.c`) | the lexer: position, mode, open comment, buffer; the tree builder: state, names and nodes by depth, return value | `xml_parser_build_tree`, `lexer_get_token`, `parse_xml_relaxed`, `xml_escape_string`, `dump_tree` | implied end tags that return through several calls, text in pieces, the end of the document in any state, encodings |
| Dates and durations (`decode-date.c`, `parser.c`) | the parts found so far | `parse_date`, `parse_duration`, `set_recent_date` | parts in any order told apart by what was found before, formats that fit each other's texts, -1 as an error of an unsigned number |

The components interact by calls: `parse_internal` chooses a handler, a handler
calls `parse_internal` for what it finds, all of them share one
`TotemPlParseData`, and all of them emit signals through `CALL_ASYNC`, which
emits at once on the main thread and attaches a source to the main loop
anywhere else. The application's thread and the workers share the properties
(no lock) and the ignore lists (a mutex).

What makes each component correct:

* the parse operation ends; its recursion is bounded; every document a playlist
  names is reported once, or opened in its place, in document order; the
  fallback of the caller is back in force once a PLS playlist is done; signals
  nest;
* the asynchronous layer gives the application all the signals of a parse in
  their order, then exactly one answer; the parser lives as long as a thread or
  a waiting signal uses it, and no longer;
* a playlist object keeps every row once, in the order of the insertions asked
  for, and iterators follow their row;
* the scan of a PLS file finds every entry once, in the order of the numbers,
  and ends;
* a playlist that was saved reads back as it was; a save that fails releases
  its stream once and is answered;
* the XML parser reads what was printed back as the same tree, closes with an
  end tag the innermost element of its name and all inside it, gives only
  UTF-8, and answers;
* a detection answers what was true of some disc that was in the drive while it
  ran, with an MRL and an error that fit, and mounts at most once;
* a date or a length is read as what its writer meant, in every form there is
  for it.

## Modules

| Module | What it is |
|---|---|
| `MimeDispatch` | `parse_internal` up to the handler's call, and its tail, as operators on a document: a *verdict* says what happens next |
| `PlaylistFormats` | what the handlers make of a document: readers that may recurse, and the signals and result of those that do not |
| `ParseEngine` | one parse operation as a state machine: a stack of running handlers, one action per kind of item and per verdict, the application's changes |
| `ParseProperties` | its invariants, its liveness, and the mapping to `Worklist` |
| `Worklist` | abstract: a list of tasks, each reported, replaced by the tasks it names, or by the entries read from it |
| `ParseProof` | the proofs about `ParseEngine` |
| `AsyncParse` | several parses: worker threads, the main loop, synchronous parses, cancellation, references |
| `AsyncProperties` | its properties and the mapping to `ParseService` |
| `AsyncProof` | the proofs about `AsyncParse` |
| `ParseService` | abstract: ask, hear the signals in order, be answered once |
| `Playlist` | `TotemPlPlaylist`: linked lists of rows and the caller's iterators |
| `PlaylistProperties` | its invariant and the mapping to `PlaylistRows` |
| `PlaylistRows` | abstract: sequences of rows, iterators as positions |
| `PlaylistProof` | the proofs about `Playlist` |
| `PlsFile` | the key table of a PLS file |
| `PlsScan` | the scan over the numbers, with the width of its counter, and its properties |
| `PlsProof` | the proofs about `PlsScan`, as `TimesRead` runs it |
| `PlaylistSave` | one save: the size check, the thread that writes line by line, cancellation, failures |
| `SaveProperties` | its properties; how the readers read what was written |
| `SaveProof` | the proofs about `PlaylistSave` |
| `XmlText` | texts of the XML parser: entities, escapes, the clearing of comments |
| `XmlLexer` | the lexer: an operator from a lexer to a token and a lexer |
| `XmlTree` | the tree builder over any tokens: a state machine whose recursion is a stack |
| `XmlOutline` | abstract: which elements are open, and what an end tag or a failure closes |
| `XmlParse` | `parse_xml_relaxed`: the tree builder on the lexer, encodings, the second parse |
| `XmlProperties`, `XmlDump` | its properties; trees printed as documents, and that they read back |
| `XmlProof` | the proofs about `XmlTree`, `XmlLexer` and `XmlParse` |
| `DiscDetect` | the calls of `totem-disc.c`, with a drive whose disc others change |
| `DiscProperties` | its properties |
| `DiscProof` | the proofs about `DiscDetect` |
| `DateParse`, `DurationParse` | `parse_date` and `parse_duration` as operators |
| `TimesRead` | composes them with `PlsScan`: a scan that looks at the lengths of the entries it finds, and feeds that keep a date |
| `TimesProperties` | its properties |
| `TimesProof` | the proof about feeds |
| `MCParse`, `MCParseFindings`, `MCAsync`, `MCPlaylist`, `MCReading`, `MCSave`, `MCXml`, `MCDisc` | worlds and bounds for TLC |

### How the model corresponds to the code

A *document* is a record of what the parser can find out about a URI: its
scheme, the type its name suggests, the type its contents show, whether the
contents can be read, which format they really are in, and the items (lines,
entries, children) that the format's reader sees. MIME names that share a row
of a table are one class. The world of documents does not change during a
parse.

`Parse` is `parse_with_base`. `Dispatch` is `parse_internal` on the document in
`arg`; its verdict is one of

| verdict | code | action |
|---|---|---|
| `return` | an early return | `ReturnAtOnce` |
| `direct` | `add_itpc`, `add_zune`, `add_itms`: the feed is read at the rewritten URI outside the counted section and without the tail | `ReadFeedScheme` |
| `site` | the helper gave a video | `ReturnVideoSite` |
| `leak` | an unsafe special type: `parser.c:2161` returns after the level went up | `ReturnUnsafe` |
| `tail` | no handler ran | `GiveUp` |
| `handle` | a handler runs: one that cannot recurse is one step (`ReadWhole`), one that can is put on the stack (`Open`) | |

A handler on the stack works on its items one step at a time; `Call` hands an
item to `parse_internal`, `ChildReturned` is what the handler does with the
result, `Leave` its end followed by the tail. `level`, `fallback` and `opts`
are the fields of `TotemPlParseData`; `priv` and `ignored` are the parser's
own, which `SetProperty` and `AddIgnored` change between any two steps.

In `AsyncParse` a parse is a number of signals (which, `ParseEngine` says).
`ParseAsync` hands a task to the pool; `RefuseCancelled`, `BeginParse`,
`EmitLater`, `ReturnFromThread` and `LeaveThread` are the worker; `IsNext` is
the order in which a main loop dispatches its sources; `DispatchSignal` and
`DispatchCallback` are the two kinds of source; `EmitNow` and `ReturnSync`
are a synchronous parse, which may also run inside a signal handler of another
one. GTask, GCancellable and GMainContext are modelled from how the code uses
them.

In `Playlist` a node of a list is the number of its allocation, so that the
table of node `n` is `data[n]`; an iterator is the pair of playlist and node
that the C struct is. Its actions bear the names of the functions. The table of
a row is one value: `set` and `get` with several keys repeat `set_value` and
`get_value`. `Move` is `iter_next` and `iter_prev`, which differ in a direction.

`PlsFile` has the lines of a PLS file with a key, its number, and a value; a
key that `%d` never prints has no number. Each step of `PlsScan` is one turn of
the loop at `pls.c:244`, and `TimesRead` takes it with what it does to the length of
an entry (`ReadEntry`): one below 0 makes the entry a stream. What else becomes of an entry is `ParseEngine`'s
(`PlsAdd`, `PlsFollow`), whose PLS documents are the items that the scan gives.
`GUINT_HALF` is half the number of values of the counter, 2^31 in the code:
beyond it `%d` prints negative numbers.

In `PlaylistSave` the four savers share their actions: `Header`, `RowLines` and
`Footer` are what each writes, `Accepted` which rows, `GoesOn` where one does
not return from a failed write. Every write succeeds or fails by itself
(`Write`, `WriteFails`); `Count` is the first walk, of PLS only. `Close` drops
the stream, `CloseAgain` drops what was dropped already, which may end in a
crash. A line is a key, a number and the row it tells.

In `XmlLexer` each step looks at one character; `Step` chooses by the mode and
the state of `lexer_get_token_d_r`, `Idle` is its table of first characters,
`AtEnd` what an unfinished token is at the end of the buffer, `Grow` the larger
buffer, with which the scan begins anew behind what it has read. The loop is a
recursion over numbers, whose rounds are `Advance`: `Rounds`, two for every
character that is left and one more, are enough (`ScanEnds` in `XmlProof`).
Likewise the clearing of comments is a recursion over `CleanRounds`, a third of
the length, which suffice for the documents of `MCXml` (its assumption
`CleanedInTime`).
In `XmlTree` the code knows a text node by the address of its name, not by its
characters: `cdata` is a constant that is no string, and an element named
`[CDATA]` is an element. The recursive function is a stack: `nodes[rec]` and
`root_names[rec]` belong to the call of depth `rec`. A turn of its loop is
`Read`, the token, and `Handle`, one disjunct per state and kind of token;
`OpenElement` is the recursive call, `Unwind` what the caller does with what it
returns (`Passed`). Only the innermost call has a state and a return value of
its own, as every other waits in `STATE_ATTRIBUTE` with 0; `retval` names the
call that an end tag ends. `BuildTree` is what follows the outermost call. A
document is a text with a *world*: whether it is UTF-8, what `uchardet` takes
it for, and whether it converts.

In `DiscDetect` a *place* is what a caller may ask about: a directory, an
image, a device, a link that leads nowhere, something remote, nothing. The
cache has the fields of `CdCache`. `NewDirectory`, `NewImage`, `NewDevice`,
`NewFails` and `Guess` are `cd_cache_new`; each check of `Checks` is
`OpenDevice`, `OpenMountpoint` and `CheckType`; between `OpenMountpoint` and
`MountSucceeds` or `MountFails` the main loop runs. `Insert`, `Eject`,
`MountedByOther` and `UnmountedByOther` are the user and the desktop, at any
step of a call. A drive may not be listed, and then has a volume all the same.
Where the code dereferences a location that the caller may leave out
(`totem-disc.c:807`) or releases the wrong pointer (`WrongUnref`), the process
may end: `crashed`.

In `DateParse` a text is its tokens, told apart as the table of classes does:
numbers with their digits, names of days and months, times, zones. A moment is
minutes and seconds since the epoch. `BrokenToken` is one turn of
`parse_broken_date`. In `DurationParse` a text is the numbers it begins with
and the marks between them, and a format of `sscanf` is its marks.

An operator whose comment begins with "A mistake:" is a variation of the
operator that follows it, by which a property can be seen to be able to fail;
no specification uses it.

## Runs

| Run | Question | Bounds |
|---|---|---|
| `MCParse` | Does one parse keep its promise, for every reader, every verdict, all properties, with and without fallback, four sets of ignore lists? And on playlists that lead back to themselves, while the application flips properties and adds an ignored glob? | two levels of containers of every format over one leaf of every kind; a handful of documents in circles; `RECURSE_LEVEL_MAX` 4 as in the code |
| `MCAsync` | Do threads, main loop, cancellation and lifetime together keep the service's promise? | two asynchronous and two synchronous parses, of one or two signals, one inside a signal handler of the other |
| `MCPlaylist` | Do playlists keep their rows, and iterators their row, whatever is called with whatever? | two playlists, two iterators, three rows, positions at the front, between rows and past the end; no negative one, at which code and documentation disagree |
| `MCSave` | Does what is saved read back, and does a save that fails end well? | playlists of up to three of five rows, all formats, a failure or a cancellation at any point, schemes ignored at any point |
| `MCXml` | Is any document read as the tree that was printed, or refused, whatever its tags are? | every document of up to three of fourteen pieces; two open elements followed by any three of seven tags; tags broken in other ways; trees printed in two ways; every world of encodings; four levels of 26; a buffer of 64 |
| `MCDisc` | Are the answers of a detection true, whatever happens to the disc meanwhile? | one drive, listed or not; five discs with none, one or two volumes; twelve places; three events during a call |
| `MCReading` | Does the scan of a PLS file find what it should, and end? Are dates and lengths read as they were meant, and acted on? | every file of up to three of eight lines, a counter of four bits; two entries with lengths with and without hours, minutes, seconds and a fraction, and an int of sixteen bits, in which no such length overflows; thirteen moments in six or seven orders of their parts and as ISO 8601, what is no date, every order of three dates |
| `FindUnsafeLinks`, `FindIriver`, `FindCancelledSave`, `FindEndlessXml`, `FindNullError` | five disagreements, below | one small world each; the documents of `MCXml`; one drive with one disc, which is taken out |

`MCParse` checks, beside the types: the level counts the running handlers
(`DepthIsBounded`), the fallback is in force exactly where it should be
(`FallbackIsScoped`), an #EXTINF belongs to one entry (`NoteBelongsToEntry`),
the open playlists the application sees are those of the running handlers
(`SignalsAreNested`), the parse implements `Worklist` (`KeepsPromise`), and it
ends (`Terminates`). A document of every kind of every format appears as a
child of every reader, which is as far as the interaction of two formats goes:
a handler sees of its child only the result, the level and the fallback.
Cycles reach the recursion limit; that the counts are right for every depth
and every world is proved.

`MCAsync` checks: the answer comes after all signals of its parse
(`AnswerIsLast`), whoever uses the parser finds it alive (`AliveWhileUsed`),
the service is implemented (`KeepsService`), the parser is finalized once it
has been let go by all (`NothingLeaks`), and every parse is answered
(`EveryParseIsAnswered`). Two asynchronous parses compete in one queue, the
synchronous ones overtake them. `CHECK_DEADLOCK FALSE`: an application that
asks for nothing more stops.

`MCPlaylist` checks that no row is lost, listed twice or shared, and that an
iterator is on a row of its playlist or on none (`RowsAreKept`), and that the
lists behave as `PlaylistRows` (`KeepsRows`), which puts a row in where the
documentation of `totem_pl_playlist_insert` has it (`Documented`). Two iterators
are on one row, on two, in different lists; three rows have a first, a middle
and a last. That both hold for any number of them is proved, the first of any
positions. At a negative position the code does not do what is documented; the
run leaves those out, and `NegativeInsertIsNoPrepend` proves the disagreement of
each of them.

`MCReading` checks that items are found in order and in whole rounds
(`ReadInRounds`), hence once each in a file that numbers its entries, and that
the scan ends if any entry can be found (`ScanEnds`); the counter of four bits
wraps within the run as one of 32 does much later. A key such as "filename"
is counted as an entry and never found: alone it makes the scan endless, and
beside numbered entries it makes the scan read the first one again. The length
of an entry is read as it was meant, and of all files, with gaps, duplicates and
lengths of entries there are and there are not, exactly the items are taken for
streams whose length is negative or unreadable (`LengthsReadBack`). Dates are read
as they were meant (`DatesReadBack`), and a feed keeps the most recent
(`RecentDateIsKept`), if all can be read. What was meant is told by the clock and
the calendar of the writer, independently of the decoder.

`MCSave` checks that a saved playlist reads back (`ReadsBack`), that
`NumberOfEntries` is right unless schemes come to be ignored during the save
(`CountIsHonest`), that every path lets the stream go, and once where the saver
returns from a failed write at once (`StreamIsReleased`), and
that saves are answered (`SavesAreAnswered`, for the formats whose savers
return from a failed write at once). Three rows have a dropped one before,
between or after kept ones.

`MCXml` checks that what was printed reads back (`ReadsBackAsTree`), that
adjacent texts are one (`TextItemsAreMerged`), that the calls close what
`XmlOutline` says (`KeepsOutline`), that no token is read without taking
something (`LexerMovesOn`), that only UTF-8 is given (`GivenFromUtf8`), and
that every document is answered (`AnsweredUnlessCutOff`). The pieces include
the begin and the end of every construct, so that three of them leave each open,
end it, or end another; that the outline is kept at every depth is proved. Four levels
reach the limit.

`MCDisc` checks that a type, "no disc" and a missing medium were true of a disc
that was in the drive during the call (`AnswersWereTrue`), that an undisturbed
detection of a mounted disc recognizes it (`RecognizedAtRest`), that MRL and
error fit the answer (`MrlFits`, `ErrorsFit`), that a volume is mounted at most
once however often others unmount it (`MountsOnce`), and that every call is
answered that gives the check for an audio CD a location for its error
(`DetectionsEnd`). What becomes of one that does not is `FindNullError`, below. One
other end is exempt, by name: a disc with both kinds of volumes mounted may end
the process through a wrong pointer (`ReleasedWrongly`), of which no document
speaks. Three events are enough to exchange a disc and mount the new
one. A disc that was mounted by the detection itself is not recognized as more
than data: what is on it is guessed before; `RecognizedAtRest` therefore asks
for a disc that was mounted.

`CHECK_DEADLOCK FALSE` in these and in `MCReading`, `MCSave` and
`FindNullError`: scans, saves, documents and feeds end, and after a crash there is
nothing.

### Fairness

`ParseEngine`: `WF_vars(Step)`. A parse runs on one thread that is scheduled;
no step waits for anything but local or network input, which is assumed to
come. `AsyncParse`: weak fairness of the main thread, whose main loop the
application runs, and of each worker. `TimesRead`: weak fairness of the
scan of a PLS file, which is a loop on the thread of the parse.
`PlaylistSave`: weak fairness of the save's thread and of the answer that the
main loop delivers. `XmlParse`: weak fairness of the parse, which runs on one
thread and waits for nothing. `DiscDetect`: weak fairness of the detection's own
steps; a mount that was asked for succeeds or fails, as `g_volume_mount` always
calls back. Nothing is assumed of the application:
it need not ask, cancel, or let go.

## Disagreements found

* `FindUnsafeLinks`. With `disable-unsafe` set, `parse_internal` refuses an
  unsafe special type after `recurse_level++` and without `recurse_level--`
  (`parser.c:2161`). Four such links in one playlist, and the next playlist it
  links to is refused as if it were nested too deep, although `recurse` is
  documented to fetch "playlists linked to by the current one".
* `FindIriver`. `add_pla` never returns success (`pla.c:174`), so that a PLA
  file read to its end is added by the fallback, which is documented for
  failures, after its own entries.
* `FindCancelledSave`. `totem_pl_parser_write_buffer` drops the stream when a
  write fails. `save_pla` then leaves its loop and drops it again (`pla.c:162`),
  and `save_xspf` does after its footer (`xspf.c:233`), so that a cancelled save
  need not return the documented error.
* `FindEndlessXml`. At the end of a document the lexer gives `T_EOF` each time it
  is asked, and `STATE_COMMENT`, `STATE_DOCTYPE` and `STATE_TAG_TERM` ignore it
  (`xmlparser.c:649`): a document that ends there, for one with a comment that is
  never closed, which `cleanup_xml` lets through, is parsed for ever.
* `FindNullError`. `totem_cd_detect_type_with_url` documents that the location of
  the error may be NULL (`totem-disc.c:780`), but dereferences it when the check
  for an audio CD fails (`totem-disc.c:807`): a disc that is taken out after its
  volume was found ends a call without a location, and the process with it.

Proved, without a run: `totem_pl_playlist_insert` hands its position to
`g_list_insert`, which appends at a negative one (`totem-pl-playlist.c:215`), where
the documentation says "may be minor than 0 to prepend elements"
(`totem-pl-playlist.c:198`). `NegativeInsertIsNoPrepend` shows that in a playlist
with a row no such insertion is what is documented.

Met while modelling, and in the models as they are, without a run of their own:

* an Atom feed without entries emits `playlist-ended` without
  `playlist-started` (`podcast.c:787`), which the signal's documentation
  excludes;
* `set_recent_date` compares as `guint64`: a date that cannot be parsed is the
  largest, and if it comes first it is kept against every later one
  (`podcast.c:218`);
* a text longer than the token buffer loses its beginning when the buffer grows
  (`xmllexer.c:575`);
* `totem_cd_has_medium` is TRUE for an empty drive, as there is no cache then
  (`totem-disc.c:922`);
* `get_time` accepts a leap second, which `g_date_time_new` refuses, so that the
  date is none.

## Proofs

Each proof module states its inductive invariant in named parts, has one lemma
per action, or per group of actions that disturb the same parts, one that
collects them (`NextKeepsIInv` and the like), and the theorems at the end of
each section. TLC checked the strengthened invariants before they were proved.

`ParseProof` proves for every world of documents, every limit and every
behaviour of the application, under the assumptions `WorldAssumption` (an item
that names a document names one of the world, and what is added has a URI; only
podcast links stand for a feed; what is taken for empty is, and names nothing)
and `EngineAssumption` on the constants:

* `ControlStateIsTyped`: the state except the log and the ignore lists is typed;
* `RecursionIsBounded`: `DepthIsBounded`;
* `FallbackIsRestored`: `FallbackIsScoped`;
* `NotesStayWithEntries`: `NoteBelongsToEntry`;
* `ParseTypesHold`: `TypeOK`, with the log;
* `SignalsNest`: `SignalsAreNested`, in every `TidyWorld`;
* `PromiseIsKept`: `KeepsPromise`, in every world without a PLA file (`NoPla`):
  the engine implements `Worklist`.

The invariants are not inductive on their own. `IInv` adds that every handler
below the running one waits for a call, the running one exactly while
`parse_internal` works for it (`HandlersWait`), and that each waiting PLS
handler has saved the fallback that was in force around it (`SavedInOrder`):
only then is what `ChildReturned` puts back the right value, whatever was
nested in between. `DepthIsBounded` needs to know at a call that the stack is
no longer than the level, and that `parse_internal` opens nothing past the
limit (`DecisionFacts`). `NotesAreFirst` has it of each M3U handler on the
stack, also the waiting ones, that its note is the first one since its last
entry. `LogTypes` needs that what a step logs are signals about documents,
whichever reader made them.

`SignalsAreNested` relates the whole log to the stack, and is inductive with the
types: `OpenedBy` says what each running handler has opened, in an ASX block as
many as the titles behind it exceed the ends. `StillOpenRun` says that what is open after a log and then some signals depends
only on what was open after the log; what a reader emits that cannot recurse
leaves nothing open (`Quiet`). `TidyWorld` is a hypothesis on the documents, not
on the program: there is no OPML with heads, each Atom feed has an entry, and
the titles and ends of an ASX block match. These are the three places where the code
does not pair its signals; the hazards in `PROJECT.json` name them. TLC
evaluates `TidyWorld` on the world of `MCParse`, which has every reader in it.

`KeepsPromise` is proved step by step from `IInv`, `NotesAreFirst`, `LogTypes`
and `LinkInv`. The refinement maps the running handlers to what they will still
name (`Pending`), in front of which is the document at hand (`InHand`).
`LinkInv` adds that each waiting handler is at an item which names the document
that its child reads, and that what a handler runs over is a playlist, or has
no line at all (`Suits`): when a child fails, the document its caller falls back
to is the one that was at hand. `Accounts` says of a step that it does nothing to the tasks, or
takes the first one and reports it, replaces it by what it names or by its
entries, or drops it where that is allowed; each lemma about a group of actions
ends in it (`DispatchAccounts`, `LoopAccounts`, `LeaveAccounts`), and
`AccountsIsPromised` makes it a step of `Worklist`. A document that is read as
lines and has none is the case in which a handler has been opened and fails
all the same (`IsBlank`); `blank` in the world of `MCParse` is one. `NoPla` is
needed because of a disagreement above: a PLA file is never read with success,
so that its entries and the file itself may both be reported. `MCParse`
evaluates it on its world.

Recursive functions on numbers are reasoned about by induction over a set of
numbers: the least number at which a statement fails is taken
(`LeastNumber`), which exists since `<` on the naturals is well-founded
(`WellFoundedInduction`).

`PlaylistProof` proves for any playlists, iterators and values, under
`PlaylistAssumption`:

* `RowsStayKept`: `RowsAreKept` for any positions, which is inductive as it stands: an insertion
  puts in a node that `EveryRowListed` knows to be in no list, and keeps the
  others, on which the iterators are;
* `PlaylistIsRows`: `KeepsRows` for positions that are not negative, that is, the initial states and every step of
  the linked lists are ones of `PlaylistRows`. Under `RowsAreKept` a node is in
  one list at one place, so that the node an iterator holds and the place it is
  mapped to (`PositionIn`) say the same, before and after an insertion;
* `NegativeInsertIsNoPrepend`: at a negative position, and in a playlist with a
  row, no insertion is one that `PlaylistRows` has: the iterator is then on the
  last row and not, as documented, on the first.

`SaveProof` proves for any playlist and format, under `SaveAssumption`:

* `StreamIsLetGo`: `StreamIsReleased`. `StreamFollowsSave` adds where the save
  is with its stream at each stage: that a saver of PLS or M3U comes to its
  `Close` only with the stream open is what keeps it from dropping it twice;
* `SaveTypesHold`: `SaveTypeOK`;
* `CountsAreHonest`: `CountIsHonest`. `CountCoversWalk` says that the rows the
  walk has numbered and those that it may still number are no more than were
  counted, and exactly as many while no scheme has become ignored;
  `NumbersAreWritten` relates the number to the lines;
* `SavedReadsBack`: `ReadsBack`, for each format. `Document` says of the lines
  written and still to be written together that each entry is of a row that may
  be saved, that they are in order, that no row passed by is missing, and that a title
  is beside its entry, where the reader of the format looks for it.

`PlsProof` proves for every file and every width of the counter, under
`ScanAssumption` (a number is one that `%d` prints, or none, and a value is not
NULL) and `NoNumberAssumption`:

* `ScanTypesHold`: `ScanTypeOK`;
* `EntriesComeInRounds`: `ReadInRounds`. `ScanInv` relates the counter to the
  list: the last items are those of the numbers printed so far in this turn of
  the counter, behind whole rounds of the same.

Both are about `TimesRead`, whose steps are steps of the scan or leave it alone
(`ScanOfRead`).

`XmlProof` proves for any tokens whose tags have names, and any limit, under
`TreeAssumption`:

* `CallsAreCounted`: its `IInv`, that the depth, the names and the return values
  keep to their ranges;
* `TreeKeepsOutline`: `TreeSpec` implements `XmlOutline`. A step of `Unwind` is
  the interesting one: `Leads` knows that a return value set by an end tag leads to
  the innermost open element of its name, `Returns` that counting it up from
  call to call ends there and not at -1, which would be a failure.

In the parser the lexer decides which tokens there are. For any documents, any
limit and any first size of the token buffer, under `TreeAssumption`,
`LexerAssumption` and `DocumentsAssumption` (a document is a text with a world):

* `TreesAreOfUtf8`: `GivenFromUtf8`, for all documents and encodings;
* `ScanEnds`: from every lexer within a document the loop ends with a token
  of a known type, within the document, and behind where it began unless it
  ends a run of data or the document. `ScanInv` says of a token on its way that
  what it holds was read since the beginning, that it holds at least what its
  state implies (a name has a character, the end of a comment three, which is
  why giving three back does not lead behind the beginning), and that the
  mode is that of the beginning until the type is known. The measure is
  `RoundsLeft`: a round takes a character, or grows a full buffer, which only
  taking a character can make full again;
* `LexerAlwaysMovesOn`: `LexerMovesOn`, with the invariant `LexerInBounds`;
* `TypesHold`: `XmlTypeOK`. `Ranged` adds the ranges of the other variables to
  those in `IInv`;
* `ParserKeepsOutline`: `KeepsOutline` in both parses. A name stays nonempty
  when `strtoupper` makes capitals of it, since it keeps the length;
* `TextIsMergedInTree`: `TextItemsAreMerged`. `MergedInv` says it of the nodes
  of all calls, also of those that are not attached to their parent yet.

All but the first have the hypothesis `TextsAreSequences(STRING)`. In
TLA+ a string is a sequence of characters, but the provers know nothing of
strings: the hypothesis states the length of a concatenation and of a part,
that both are strings again, and the lengths of the literals in the lexer. TLC
evaluates the same laws on the texts that `MCXml` puts its documents together
from (`TextLaws`).

`TimesProof` proves for feeds of any length, under `FeedsAssumption` (a meant
date is an instant or none):

* `FeedKeepsRecentDate`: `RecentDateIsKept`, if each date is read as it is meant
  (`DatesReadBack`, which `MCReading` checks): the comparison as unsigned
  numbers keeps the latest of instants after the epoch, whatever their order.

`AsyncProof` proves for any parses, asynchronous or not, and any numbers of
signals, under `ParsesAssumption`:

* `ResultsComeLast`: `AnswerIsLast`. `NoneLost` says that every signal that was
  sent and not heard is in the queue, `Queued` that a source before another of
  its parse is a signal and an earlier one, and that all have the one priority,
  so that the main loop takes the oldest. When that is a task, nothing of its
  parse is behind it, and so nothing is missing;
* `ParserOutlivesParses`: `AliveWhileUsed`. `Counted` says that the references are
  as many as the tasks and signals that hold one (`Holders`), and the
  application's own; every use of the parser has such a holder;
* `ParsesKeepTypes`: `AsyncTypeOK`, which needs `Counted` for the references;
* `ServiceIsKept`: `KeepsService`: each step is a step of `ParseService` or none
  that the application sees. From the same invariant: a signal is the next one
  of its parse when it is dispatched, and at its answer all have been.

`DiscProof` proves for any places and discs, and however often others interfere,
under `DiscAssumption` (the place above another is a directory, or unknown; what
is on a disc with files is not taken for audio tracks) and `NoneAssumption`
(NONE is no name, place or MRL):

* `DetectionMountsOnce`: `MountsOnce`. `MountIsNoted` says that a mount of the
  call's own stays noted in its cache until the call is over, and `CacheOfPlace`
  that only the cache of a device has anything to mount: when `from_dir` starts
  afresh at the directory above, there is no mount behind it to forget.
* `DetectionErrorsFit`: `ErrorsFit`. `ErrorSoFar` says that there is neither an
  error nor an answer until the checks end, `ChecksLeft` which checks are to
  come; `Asked`, that the place above is a directory, is why a call that
  began in one is not answered as if it had been about something remote;
* `AnswersAreOfTheirTime`, `TypesAreRecognized` and `MrlsFitAnswers`:
  `AnswersWereTrue`, `RecognizedAtRest` and `MrlFits`. They share `AnswerIInv`:
  what the cache holds was true of a disc in the drive (`CacheWasTrue`), the
  checks done found nothing (`ChecksInOrder`), and while nobody has interfered
  the cache holds the best mount of the disc that is in the drive (`AtRest`);
* `DiscTypesHold`: `DiscTypeOK`.

Only model-checked: what the printing of trees and the decoders of dates and
lengths compute (`ReadsBackAsTree`, `DatesReadBack`, `LengthsReadBack`), which
are defined by recursion on texts, and that a third of its length is enough to
clear a document of comments (`CleanedInTime`). Liveness under fairness is out of
the prover's reach.

## Not modelled

`PROJECT.json` lists every component with its status. Left out within the
modelled parts: the metadata of entries but their title and URI, the
resolution of relative paths, the contents of files as characters, a document
that changes while it is parsed, what closing the stream of a save does to the
file, rows edited during a save (a data race), and synchronous parses from a thread of the
application's own, which behave like a worker without a task.

Of the XML parser: the case sensitive mode, which nothing in the library uses;
documents that begin with a byte order mark, which `lex_convert` makes UTF-8 of;
failures of allocations. A character of several bytes that an entity names is
one symbol. Of the dates: names of months and days in capitals, a zone written
right behind the time, and which texts GLib takes for ISO 8601. Of the disc
detection: a failure of `g_mount_guess_content_type_sync`, which leaves the
contents unknown as an unmounted volume does, how links are resolved, how an MRL is written, the names of types
for people. `can_parse_from_*` are lookups in the tables of `MimeDispatch`
over what shared-mime-info says.

## Plan

1. `AsyncEngine`: `ParseEngine` in a worker composed with the main loop, to
   replace the numbered signals of `AsyncParse` by real ones.
2. `PlaylistFormats`: the order of a directory, RAM and M3U paths, several
   titles of an ASX block, OPML with entries; the entries of the XML formats as
   trees of `XmlTree`.
