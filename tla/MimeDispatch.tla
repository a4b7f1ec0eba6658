---------------------------- MODULE MimeDispatch ----------------------------
(* How totem_pl_parser_parse_internal decides what to do with one document:  *)
(* the scheme rules, the MIME type from the name or from the contents, the   *)
(* special and the dual types, and the tail that turns a failure into an     *)
(* ignored document or into an entry of its own.                             *)
(*                                                                           *)
(* A document is a record that says what the parser can find out about it:   *)
(*   scheme  "file", "http", "stream" (mms, rtsp, rtmp, icy, pnm), "feed"    *)
(*           (itpc, feed, zcast), "zune" or "itms";                          *)
(*   feed    the document a feed scheme is rewritten to, or NONE;            *)
(*   site    whether the video site helper accepts the URI, and siteRet its  *)
(*           answer when it is asked to parse it;                            *)
(*   glob    the ignore glob that matches the URI, or NONE;                  *)
(*   guess   the type its name suggests;  data  the type its contents show;  *)
(*   load    whether the contents can be read;  form  what they really are;  *)
(*   items   the lines, entries or children the format's reader sees.        *)
(* MIME types are classes: the names of one class share a row of a table.    *)
EXTENDS Naturals

NONE == "NONE"

UNHANDLED == "UNHANDLED"
ERROR == "ERROR"
SUCCESS == "SUCCESS"
IGNORED == "IGNORED"
Results == {UNHANDLED, ERROR, SUCCESS, IGNORED}

\* The handler of each class of special types: special_types[].
SpecialFunc ==
  [mpegurl |-> "m3u", scpls |-> "pls", smil |-> "smil", wax |-> "asx",
   xspf |-> "xspf", urilist |-> "ra", gvp |-> "gvp", pla |-> "pla",
   atom |-> "atom", rss |-> "rss", opml |-> "opml", amz |-> "amz",
   desktop |-> "desktop", iso |-> "iso", cue |-> "cue",
   directory |-> "directory", block |-> "block"]

SpecialTypes == DOMAIN SpecialFunc

\* The special types flagged unsafe.
UnsafeTypes == {"desktop", "iso", "cue", "directory", "block"}

\* The handler of each class of dual types, a media file or a playlist:
\* dual_types[].  PHP pages have none.
DualFunc ==
  [realaudio |-> "ra", text |-> "ra", php |-> NONE, asx |-> "asx",
   asf |-> "asf", quicktime |-> "quicktime", xml |-> "xml_feed"]

DualTypes == DOMAIN DualFunc

\* The types no handler is registered for.
OtherTypes == {"unknown", "empty", "hls", "mpeg", "linguist", "mp2t", "image",
               "zip", "media"}

MimeTypes == SpecialTypes \cup DualTypes \cup OtherTypes \cup {NONE}

Funcs == {SpecialFunc[t] : t \in SpecialTypes} \cup {DualFunc[t] : t \in DualTypes}

\* totem_pl_parser_get_function_for_mimetype
get_function_for_mimetype(type) ==
  IF type \in SpecialTypes THEN SpecialFunc[type]
  ELSE IF type \in DualTypes THEN DualFunc[type] ELSE NONE

\* What shared-mime-info says: the subclasses of text/plain, and of
\* application/xml, which g_content_type_is_a asks for.
TextLike == {"text", "mpegurl", "hls", "urilist", "gvp", "desktop", "cue", "php",
             "xml", "xspf", "atom", "rss", "opml", "smil"}
XmlLike == {"xml", "xspf", "atom", "rss", "opml", "smil"}

\* totem_pl_parser_ignore_from_mimetype: the types a failed parse ignores.
ignore_from_mimetype(type) ==
  \/ type \in {"image", "zip"}
  \/ type \in TextLike \ {"mpegurl", "hls"}

---------------------------------------------------------------------------
\* The type of a document

Docless == {"empty", "directory", "block"}

\* my_g_file_info_get_mime_type_with_data: the type the contents show, and
\* whether reading them left a buffer to hand to the handler.
SniffedType(d) == d.data
Buffered(d) == d.load /\ d.data \notin Docless

\* The first guess, before the contents are read: in force mode there is none.
NamedType(d, force) ==
  LET t == IF force THEN SniffedType(d) ELSE d.guess
      fixed == IF t = "linguist" THEN "mp2t" ELSE t
  IN  IF fixed = "directory" /\ d.scheme = "http" THEN NONE ELSE fixed

\* A missing, unknown or textual type is looked up again in the contents.
Doubtful(type) == type \in {NONE, "unknown"} \cup TextLike

ResolvedType(d, force) ==
  LET t == NamedType(d, force)
  IN  IF Doubtful(t) /\ SniffedType(d) # NONE THEN SniffedType(d) ELSE t

\* Whether the contents are in memory once the type is known.
ResolvedData(d, force) ==
  (force \/ Doubtful(NamedType(d, force))) /\ Buffered(d)

---------------------------------------------------------------------------
\* Verdicts: what parse_internal does with the document next
\*   return   the result, at once;
\*   direct   the RSS handler on the rewritten URI, outside the level count;
\*   site     the video site's entry;
\*   leak     IGNORED, with the recursion level still incremented;
\*   tail     no handler ran: ret and type go to the tail;
\*   handle   func runs on the document; type is what the tail will see.

Verdicts == [do : {"return", "direct", "site", "leak", "tail", "handle"},
             ret : Results, func : Funcs, type : MimeTypes, data : BOOLEAN]

Verdict(do, ret) ==
  [do |-> do, ret |-> ret, func |-> NONE, type |-> NONE, data |-> FALSE]
Return(ret) == Verdict("return", ret)
NoHandler(ret, type) == [Verdict("tail", ret) EXCEPT !.type = type]
Handle(func, type, data) ==
  [do |-> "handle", ret |-> UNHANDLED, func |-> func, type |-> type, data |-> data]

\* A dual type is looked up in the contents, and what is still plain text, or
\* has no handler, is given up with its type forgotten.
DualVerdict(d, type, data) ==
  LET t == IF data THEN type ELSE SniffedType(d)
      func == IF t = NONE THEN DualFunc[type] ELSE get_function_for_mimetype(t)
  IN  IF t \in TextLike \ XmlLike THEN NoHandler(IGNORED, NONE)
      ELSE IF func = NONE THEN NoHandler(UNHANDLED, NONE)
      ELSE Handle(func, t, Buffered(d))

\* A mistake: an ignored type is found after the level is incremented.
TypeVerdict_IgnoredLate(d, type, data, sofar, opts, level, ignored) ==
  IF type \in ignored.types THEN Verdict("leak", IGNORED)
  ELSE IF ~(opts.recurse \/ level = 0) THEN NoHandler(sofar, type)
  ELSE IF type \in SpecialTypes THEN Handle(SpecialFunc[type], type, data)
  ELSE IF type \in DualTypes THEN DualVerdict(d, type, data)
  ELSE NoHandler(sofar, type)

\* With a type: an ignored one returns before the level is incremented, an
\* unsafe one after it.
TypeVerdict(d, type, data, sofar, opts, level, ignored) ==
  IF type \in ignored.types THEN Return(IGNORED)
  ELSE IF ~(opts.recurse \/ level = 0) THEN NoHandler(sofar, type)
  ELSE IF type \in SpecialTypes
    THEN IF opts.disable_unsafe /\ type \in UnsafeTypes
           THEN Verdict("leak", IGNORED)
           ELSE Handle(SpecialFunc[type], type, data)
  ELSE IF type \in DualTypes THEN DualVerdict(d, type, data)
  ELSE NoHandler(sofar, type)

\* The first type, and the second look an MPEG audio file gets at the top.
MimeVerdict(d, sofar, opts, level, ignored) ==
  LET t == ResolvedType(d, opts.force)
      data == ResolvedData(d, opts.force)
      again == t = "mpeg" /\ level = 0 /\ ~data
      t2 == IF again /\ SniffedType(d) # NONE THEN SniffedType(d) ELSE t
  IN  IF t = NONE \/ t = "hls" THEN Return(UNHANDLED)
      ELSE IF t = "empty" THEN Return(SUCCESS)
      ELSE IF again /\ t2 = "mpeg" THEN Return(UNHANDLED)
      ELSE TypeVerdict(d, t2, IF again THEN Buffered(d) ELSE data,
                       sofar, opts, level, ignored)

\* A web page may be a video site's: its refusal is the result so far.
WebVerdict(d, opts, level, ignored) ==
  LET asked == d.scheme = "http" /\ opts.recurse /\ d.site
  IN  IF asked /\ d.siteRet = SUCCESS THEN Verdict("site", SUCCESS)
      ELSE IF d.glob \in ignored.globs THEN Return(IGNORED)
      ELSE MimeVerdict(d, IF asked THEN d.siteRet ELSE UNHANDLED,
                       opts, level, ignored)

\* Podcast schemes are rewritten to the URI of a feed.  The lookup behind an
\* iTunes link can fail, a zune link can be malformed.
FeedVerdict(d) ==
  IF d.feed # NONE THEN Verdict("direct", SUCCESS)
  ELSE Return(IF d.scheme = "zune" THEN UNHANDLED ELSE ERROR)

\* A mistake: one level too many.
parse_internal_OneDeeper(d, opts, level, max, ignored) ==
  IF level > max + 1 THEN Return(ERROR)
  ELSE IF d.scheme = "stream" THEN Return(UNHANDLED)
  ELSE IF d.scheme \in {"feed", "zune", "itms"} THEN FeedVerdict(d)
  ELSE IF ~opts.recurse /\ level > 0 THEN Return(UNHANDLED)
  ELSE WebVerdict(d, opts, level, ignored)

\* totem_pl_parser_parse_internal, up to the handler's call.
parse_internal(d, opts, level, max, ignored) ==
  IF level > max THEN Return(ERROR)
  ELSE IF d.scheme = "stream" THEN Return(UNHANDLED)
  ELSE IF d.scheme \in {"feed", "zune", "itms"} THEN FeedVerdict(d)
  ELSE IF ~opts.recurse /\ level > 0 THEN Return(UNHANDLED)
  ELSE WebVerdict(d, opts, level, ignored)

\* A mistake: a playlist that was read adds itself as well.
AddsItself_EvenIfRead(ret, type, fallback) ==
  ~ignore_from_mimetype(type) /\ fallback

\* The tail of parse_internal: whether it adds the document itself, and its
\* result.
AddsItself(ret, type, fallback) ==
  ret # SUCCESS /\ ~ignore_from_mimetype(type) /\ fallback

TailResult(ret, type, fallback) ==
  IF ret = SUCCESS \/ AddsItself(ret, type, fallback) THEN SUCCESS
  ELSE IF ignore_from_mimetype(type) THEN IGNORED
  ELSE ret

---------------------------------------------------------------------------
\* totem_pl_parser_ignore, which .desktop files ask about their target.  It
\* makes a local path of the URI, so that the scheme it checks is "file".
totem_pl_parser_ignore(d, ignored) ==
  \/ d.glob \in ignored.globs
  \/ "file" \in ignored.schemes
  \/ d.guess \notin {NONE, "unknown"} \cup SpecialTypes \cup DualTypes
=============================================================================
