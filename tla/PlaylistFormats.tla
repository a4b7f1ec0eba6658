-------------------------- MODULE PlaylistFormats --------------------------
(* What the format handlers make of a document.  A handler either opens the  *)
(* document, when its items may lead to other documents (M3U, PLS, RAM, ASX, *)
(* directories and .desktop files: ParseEngine runs those one item at a      *)
(* time), or reads it in one go, which is given here as the signals it emits *)
(* and the result it returns (feeds, XSPF, SMIL, iRiver PLA, QuickTime, ASF  *)
(* references, disc images).                                                 *)
(*                                                                           *)
(* Items are records:                                                        *)
(*   op     "link" (to be followed), "add" (to be added as it is), "note"    *)
(*          (#EXTINF), "title" and "end" (ASX), "skip", "stop" (RAM),        *)
(*          "partial" (directory), "device" (.desktop), "entry", "bad" (PLA);*)
(*   to     the document it names, or NONE;  alt  a feed entry's web page;   *)
(*   live   its length is negative;  title  its title, or NONE.              *)
EXTENDS MimeDispatch, SequencesExt

CONSTANTS
  Docs,     \* the documents, by URI
  World     \* what the parser finds out about each of them

Schemes == {"file", "http", "stream", "feed", "zune", "itms"}
Ops == {"link", "add", "note", "title", "end", "skip", "stop", "partial",
        "device", "entry", "bad"}

\* The contents a reader can meet.  "other" is nobody's format.
Forms == {"m3u", "urilist", "pls", "hls", "asx", "dir", "nolist", "disc", "baddisc",
          "desktop", "xspf", "amz", "rss", "rssbare", "atom", "opml", "opmlbare",
          "smil", "gvp", "pla", "qtlink", "qtsmil", "qtbad", "asfref", "asfhttp",
          "asfbare", "asfother", "nsc", "zero", "other"}

Titles == STRING \cup {NONE}
Items == [op : Ops, to : Docs \cup {NONE}, alt : Docs \cup {NONE},
          live : BOOLEAN, title : Titles]

Documents ==
  [scheme : Schemes, feed : Docs \cup {NONE}, site : BOOLEAN, siteRet : Results,
   glob : STRING, guess : MimeTypes, data : MimeTypes, load : BOOLEAN,
   form : Forms, items : Seq(Items)]

\* The world a parse runs in does not change under it; what is followed or
\* added has a URI, only podcast links are rewritten, and what looks empty is.
ASSUME WorldAssumption ==
  /\ NONE \notin Docs
  /\ World \in [Docs -> Documents]
  /\ \A d \in Docs : \A i \in DOMAIN World[d].items :
       World[d].items[i].op \in {"link", "device", "add"} => World[d].items[i].to \in Docs
  /\ \A d \in Docs :
       /\ World[d].feed # NONE => World[d].scheme \in {"feed", "zune", "itms"}
       /\ "empty" \in {World[d].guess, World[d].data} => World[d].form = "zero"
       /\ World[d].form = "zero" => World[d].items = <<>>

---------------------------------------------------------------------------
\* Signals

Event(sig, uri, title) == [sig |-> sig, uri |-> uri, title |-> title]
Started(uri) == Event("playlist-started", uri, NONE)
Ended(uri) == Event("playlist-ended", uri, NONE)
Entry(uri, title) == Event("entry-parsed", uri, title)

Signals == {"playlist-started", "playlist-ended", "entry-parsed"}
Events == [sig : Signals, uri : Docs, title : Titles]

---------------------------------------------------------------------------
\* Handlers that open the document: the reader that will run over its items.

Readers == {"m3u", "pls", "ram", "asx", "dir", "desktop"}

Rule(func, form, reader, sniffed) ==
  [func |-> func, form |-> form, reader |-> reader, sniffed |-> sniffed]

\* A .m3u file may hold a PLS playlist, and any other text is read as lines;
\* an ASX, ASF or Real file may hold a list of URIs, which is seen only when
\* its contents were sniffed.
ReaderRules ==
  {Rule("m3u", "m3u", "m3u", FALSE), Rule("m3u", "urilist", "m3u", FALSE),
   Rule("m3u", "other", "m3u", FALSE), Rule("m3u", "pls", "pls", FALSE), Rule("pls", "pls", "pls", FALSE),
   Rule("ra", "urilist", "ram", TRUE),
   Rule("asx", "asx", "asx", FALSE), Rule("asx", "urilist", "ram", TRUE),
   Rule("asf", "asx", "asx", TRUE),
   Rule("desktop", "desktop", "desktop", FALSE),
   Rule("directory", "dir", "dir", FALSE)}

\* The reader func starts on d, or NONE.  A directory is listed, anything
\* else is loaded.
Applicable(func, d, data) ==
  {r \in ReaderRules : /\ r.func = func /\ r.form = d.form
                       /\ r.sniffed => data
                       /\ d.load \/ func = "directory"}

ReaderFor(func, d, data) ==
  IF Applicable(func, d, data) = {} THEN NONE
  ELSE (CHOOSE r \in Applicable(func, d, data) : TRUE).reader

\* The playlist-started and playlist-ended of the line formats.
Bracketed(reader) == reader \in {"m3u", "pls"}
Opening(reader, uri) == IF Bracketed(reader) THEN <<Started(uri)>> ELSE <<>>
\* A mistake: a PLS playlist is not ended.
Closing_OnlyM3u(reader, uri) == IF reader = "m3u" THEN <<Ended(uri)>> ELSE <<>>
Closing(reader, uri) == IF Bracketed(reader) THEN <<Ended(uri)>> ELSE <<>>

\* What a reader returns once it is past its last item: the line formats
\* succeed as soon as there was a line.
ReaderResult(reader, items) ==
  IF reader \in {"m3u", "ram"} /\ items = <<>> THEN UNHANDLED ELSE SUCCESS

---------------------------------------------------------------------------
\* Handlers that read the document in one go.

\* The forms of which each of them makes entries.
FeedForms == {"rss", "rssbare", "atom", "opml", "opmlbare"}
ReadInOneGo ==
  [func \in {"xspf", "amz", "rss", "atom", "opml", "smil", "gvp", "pla",
             "quicktime", "xml_feed", "asf", "iso", "block", "directory"} |->
     CASE func = "xspf" -> {"xspf"}
       [] func = "amz" -> {"amz"}
       [] func = "rss" -> {"rss", "rssbare"}
       [] func = "atom" -> {"atom"}
       [] func = "opml" -> {"opml", "opmlbare"}
       [] func = "smil" -> {"smil"}
       [] func = "gvp" -> {"gvp"}
       [] func = "pla" -> {"pla"}
       [] func = "quicktime" -> {"qtlink", "qtsmil"}
       [] func = "xml_feed" -> FeedForms
       [] func = "asf" -> {"asfref", "asfhttp"}
       [] OTHER -> {"disc"}]

\* A feed's entry is at its enclosure.  With the parser's recurse property set
\* (its present value, not the one the parse started with) a link to a video
\* site overrides it, and an Atom link to any other page is not used.
RssUri(it, recurse) ==
  IF it.alt # NONE /\ recurse /\ World[it.alt].site THEN it.alt ELSE it.to
AtomUri(it, recurse) ==
  IF it.alt # NONE /\ (recurse => World[it.alt].site) THEN it.alt ELSE it.to

EntryUri(it, form, recurse) ==
  IF form \in {"rss", "rssbare"} THEN RssUri(it, recurse)
  ELSE IF form = "atom" THEN AtomUri(it, recurse) ELSE it.to

\* A mistake: an entry without a URI is reported.
EntriesOf_WithoutUri(items, form, recurse) ==
  LET entries[i \in 0..Len(items)] ==
        IF i = 0 THEN <<>>
        ELSE IF items[i].op = "entry"
          THEN Append(entries[i - 1],
                      Entry(EntryUri(items[i], form, recurse), items[i].title))
        ELSE entries[i - 1]
  IN  entries[Len(items)]

\* The entries of a document; one without a URI is left out.
WithEntry(entries, it, form, recurse) ==
  LET uri == EntryUri(it, form, recurse)
  IN  IF it.op = "entry" /\ uri # NONE THEN Append(entries, Entry(uri, it.title))
      ELSE entries
EntriesOf(items, form, recurse) ==
  LET entries[i \in 0..Len(items)] ==
        IF i = 0 THEN <<>> ELSE WithEntry(entries[i - 1], items[i], form, recurse)
  IN  entries[Len(items)]

\* The playlist-started and playlist-ended around them.  Atom starts the
\* playlist at its first entry but always ends it, OPML never ends it.
Opens(form, items) ==
  \/ form \in {"xspf", "amz", "rss", "pla", "opml"}
  \/ form = "atom" /\ \E i \in DOMAIN items : items[i].op = "entry"
Closes(form) == form \in {"xspf", "amz", "rss", "pla", "atom"}

\* A PLA file is read up to the first record that cannot be converted.
Readable(items) ==
  IF \E i \in DOMAIN items : items[i].op = "bad"
    THEN SubSeq(items, 1, SelectInSeq(items, LAMBDA it : it.op = "bad") - 1)
    ELSE items

OneGoLog(uri, d, recurse) ==
  LET entries == EntriesOf(Readable(d.items), d.form, recurse)
      opened == IF Opens(d.form, d.items) THEN <<Started(uri)>> ELSE <<>>
      closed == IF Closes(d.form) THEN <<Ended(uri)>> ELSE <<>>
  IN  IF d.form \in {"rssbare", "opmlbare"} THEN <<>> ELSE opened \o entries \o closed

\* PLA never reports success.  A SMIL document needs a body.
OneGoResult(d) ==
  IF d.form = "pla" THEN IF Readable(d.items) = d.items THEN UNHANDLED ELSE ERROR
  ELSE IF d.form \in {"smil", "qtsmil"} /\ d.items = <<>> THEN ERROR
  ELSE SUCCESS

\* The result for a document of a form the handler does not know.
Foreign(func, form) ==
  IF func = "iso" THEN IGNORED
  ELSE IF \/ func \in {"m3u", "gvp", "xml_feed"}
          \/ func = "pls" /\ form # "zero"
          \/ func = "quicktime" /\ form # "qtbad"
          \/ func = "asf" /\ form # "asfbare"
          \/ func = "directory" /\ form = "nolist"
          \/ func = "block" /\ form # "baddisc"
    THEN UNHANDLED
  ELSE IF func = "pls" THEN SUCCESS
  ELSE ERROR

\* Real and ASF files that are no lists are media, and add themselves.
AsfForms == {"asfref", "asfhttp", "asfbare", "asfother", "nsc", "asx"}

IsMedia(func, d, data) ==
  \/ func = "ra" /\ ~(data /\ d.form = "urilist")
  \/ func = "asf" /\ ~(data /\ d.form \in AsfForms)
  \/ func = "cue" /\ d.scheme = "file"

\* What a handler emits and returns when it does not open the document.
Outcome(func, uri, d, data, recurse) ==
  LET result(ret, log) == [ret |-> ret, log |-> log]
      refuses == func \in {"quicktime", "xml_feed"} /\ ~data
      local == func \in {"iso", "block", "directory"}
  IN  IF IsMedia(func, d, data) THEN result(SUCCESS, <<Entry(uri, NONE)>>)
      ELSE IF func = "cue" THEN result(IGNORED, <<>>)
      ELSE IF refuses THEN result(UNHANDLED, <<>>)
      ELSE IF ~d.load /\ ~local THEN result(ERROR, <<>>)
      ELSE IF func \in DOMAIN ReadInOneGo /\ d.form \in ReadInOneGo[func]
        THEN result(OneGoResult(d), OneGoLog(uri, d, recurse))
      ELSE result(Foreign(func, d.form), <<>>)
=============================================================================
