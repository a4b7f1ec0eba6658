------------------------------- MODULE MCParse -------------------------------
(* A small world of documents that reaches every reader and every way        *)
(* parse_internal has of answering, and playlists that lead back to          *)
(* themselves, under an application that changes the parser meanwhile.       *)
EXTENDS ParseProperties, TLC

NoItem == [op |-> "skip", to |-> NONE, alt |-> NONE, live |-> FALSE, title |-> NONE]
Mark(op) == [NoItem EXCEPT !.op = op]
Link(to) == [NoItem EXCEPT !.op = "link", !.to = to]
Titled(op, to, title) == [NoItem EXCEPT !.op = op, !.to = to, !.title = title]
Live(it) == [it EXCEPT !.live = TRUE]
FeedItem(to, alt) == [NoItem EXCEPT !.op = "entry", !.to = to, !.alt = alt]
Note(title) == Titled("note", NONE, title)

\* A readable local document whose name and contents agree.
File(type, form, items) ==
  [scheme |-> "file", feed |-> NONE, site |-> FALSE, siteRet |-> UNHANDLED,
   glob |-> NONE, guess |-> type, data |-> type, load |-> TRUE, form |-> form,
   items |-> items]
Folder(items) == [File("directory", "dir", items) EXCEPT !.load = FALSE]
Page(answer) == [File("unknown", "other", <<>>) EXCEPT !.scheme = "http", !.site = TRUE,
                                                    !.siteRet = answer]
Remote(scheme, feed) == [File(NONE, "other", <<>>) EXCEPT !.scheme = scheme, !.feed = feed]

Leaves ==
  [song |-> File("media", "other", <<>>),
   mp3 |-> File("mpeg", "other", <<>>),
   stream |-> Remote("stream", NONE),
   image |-> File("image", "other", <<>>),
   skipped |-> [File("media", "other", <<>>) EXCEPT !.glob = "*skipped*"],
   blank |-> File("mpegurl", "m3u", <<>>),
   zero |-> [File("text", "zero", <<>>) EXCEPT !.data = "empty"],
   hls |-> [File("mpegurl", "hls", <<>>) EXCEPT !.data = "hls"],
   page |-> Page(SUCCESS),
   badpage |-> Page(ERROR),
   gone |-> [File("scpls", "other", <<>>) EXCEPT !.data = NONE, !.load = FALSE]]

InOneGo ==
  [xspf |-> File("xspf", "xspf", <<FeedItem("song", NONE), FeedItem("mp3", NONE)>>),
   rss |-> File("rss", "rss", <<FeedItem("song", "page"), FeedItem(NONE, "song")>>),
   atom |-> File("atom", "atom", <<FeedItem("mp3", "song"), FeedItem("song", "page")>>),
   smil |-> File("smil", "smil", <<FeedItem("song", NONE)>>),
   opml |-> File("opml", "opmlbare", <<>>),
   link |-> File("quicktime", "qtlink", <<FeedItem("stream", NONE)>>),
   asf |-> File("asf", "asfref", <<FeedItem("stream", NONE)>>),
   wma |-> File("asf", "other", <<>>),
   disc |-> [File("block", "disc", <<FeedItem("song", NONE)>>) EXCEPT !.load = FALSE,
                                                                    !.guess = NONE],
   podcast |-> Remote("feed", "rss"),
   badlink |-> Remote("itms", NONE)]

\* In the M3U playlist the notes matter: one that says the entry is live, two
\* in a row, one before a path that is not followed.
Lists1 ==
  [pls |-> File("scpls", "pls", <<Titled("link", "song", "s"), Link("mp3"),
                                  Live(Titled("link", "gone", "g"))>>),
   inner |-> File("mpegurl", "m3u", <<Link("hls"), Note("t"), Link("image")>>),
   ram |-> [File("realaudio", "urilist", <<Link("stream"), Mark("skip"), Link("smil"),
                                           Mark("stop"), Link("song")>>)
              EXCEPT !.data = "urilist"],
   asx |-> File("asx", "asx", <<Mark("title"), Link("song"), Mark("skip"), Mark("title"),
                                Link("inner"), Mark("end"), Link("asf"), Mark("end")>>),
   launcher |-> File("desktop", "desktop", <<Titled("link", "image", "i")>>),
   shortcut |-> File("desktop", "desktop", <<Titled("link", "inner", "n")>>),
   drive |-> File("desktop", "desktop", <<Titled("device", "disc", "d")>>)]

Lists2 ==
  [list |-> File("mpegurl", "m3u",
              <<Note("a"), Mark("skip"), Note("b"), Link("song"), Live(Note("c")),
                Link("pls"), Note("d"), Titled("add", "mp3", NONE), Link("nested"),
                Link("page"), Link("badpage"), Link("podcast"), Note("e")>>),
   nested |-> [File("mpegurl", "pls", <<Titled("link", "inner", "i"), Titled("link", "pls", "p"),
                                       Titled("link", "skipped", "k")>>)
                 EXCEPT !.data = NONE],
   feeds |-> File("scpls", "pls", <<Link("xspf"), Link("rss"), Link("atom"), Link("opml"),
                                    Link("link"), Link("wma"), Link("badlink"), Link("zero"),
                                    Link("blank")>>),
   dir |-> Folder(<<Link("ram"), Mark("partial"), Link("skipped"), Link("asx"),
                    Link("drive"), Link("launcher"), Link("gone"), Link("image")>>),
   home |-> Folder(<<Link("dir"), Link("shortcut"), Link("disc"), Link("blank"), Link("song")>>)]

\* Playlists in a circle: during these the application is restless.
Cyclic ==
  [selfish |-> File("mpegurl", "m3u", <<Note("n"), Link("selfish"), Link("song")>>),
   ring |-> File("scpls", "pls", <<Titled("link", "ring2", "r"), Link("song")>>),
   ring2 |-> File("asx", "asx", <<Mark("title"), Link("ring3"), Mark("end")>>),
   ring3 |-> Folder(<<Link("back"), Link("ring"), Link("song")>>),
   back |-> File("desktop", "desktop", <<Titled("device", "ring", "back")>>),
   fickle |-> File("scpls", "pls", <<Link("rss"), Link("loud"), Link("rss")>>),
   loud |-> [File("mpegurl", "m3u", <<Link("song")>>) EXCEPT !.glob = "*loud*"]]

MCWorld == Leaves @@ InOneGo @@ Lists1 @@ Lists2 @@ Cyclic
MCDocs == DOMAIN MCWorld

\* Signals are nested in well-formed worlds, of which this is one, and the
\* promise is kept in those without a PLA file.
ASSUME WorldIsTidy == TidyWorld
ASSUME NothingIsPla == World = MCWorld => NoPla
CyclicRoots == {"selfish", "ring", "ring3", "fickle"}
MCRoots == (MCDocs \ DOMAIN Cyclic) \cup CyclicRoots

AllOptions == Options
BothToggles == {"recurse", "disable_unsafe"}
GlobLater == {[list |-> "globs", value |-> "*loud*"]}
NoLists == [schemes |-> {}, types |-> {}, globs |-> {}]
SomeLists == {NoLists, [NoLists EXCEPT !.globs = {"*skipped*"}],
              [NoLists EXCEPT !.types = {"scpls"}], [NoLists EXCEPT !.schemes = {"http"}]}
=============================================================================
