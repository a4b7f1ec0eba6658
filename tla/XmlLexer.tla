------------------------------- MODULE XmlLexer -------------------------------
(* The lexer of the XML parser, lexer_get_token_d_r, one character at a time. *)
(* It is a pure operator: the lexer before a token gives the token and the    *)
(* lexer after it.  A lexer is the position in the buffer, the mode, whether  *)
(* a comment is open, and the size of the token buffer, which grows.          *)
EXTENDS XmlText

CONSTANT TokenSize     \* the first size of the token buffer: TOKEN_SIZE

ASSUME LexerAssumption == TokenSize \in Nat \ {0}

Modes == {"NORMAL", "DATA", "CDATA"}
Lexer == [pos : Nat, mode : Modes, in_comment : BOOLEAN, tok_size : Nat]

lexer_init == [pos |-> 0, mode |-> "NORMAL", in_comment |-> FALSE, tok_size |-> TokenSize]

TokenTypes ==
  {"T_ERROR", "T_EOF", "T_EOL", "T_SEPAR", "T_M_START_1", "T_M_START_2", "T_M_STOP_1",
   "T_M_STOP_2", "T_EQUAL", "T_STRING", "T_IDENT", "T_DATA", "T_C_START", "T_C_STOP",
   "T_TI_START", "T_TI_STOP", "T_DOCTYPE_START", "T_CDATA_START", "T_CDATA_STOP"}

LexerStates ==
  {"IDLE", "EOL", "SEPAR", "T_M_START", "T_M_STOP_1", "T_M_STOP_2", "T_EQUAL",
   "T_STRING_SINGLE", "T_STRING_DOUBLE", "T_COMMENT", "T_TI_STOP", "T_DASHDASH",
   "T_C_STOP", "IDENT"}

\* A token on its way: the state of the scan, what it holds, and its type once
\* that is known.
NoType == "T_NONE"
Scans == [lx : Lexer, state : LexerStates, tok : STRING,
          type : TokenTypes \cup {NoType}]
Begin(lexer) == [lx |-> lexer, state |-> "IDLE", tok |-> Empty, type |-> NoType]

At(buf, p) == SubSeq(buf, p + 1, p + 1)

Skip(s, n)   == [s EXCEPT !.lx.pos = @ + n]
Take(s, c)   == [Skip(s, 1) EXCEPT !.tok = @ \o c]
Goto(s, st)  == [s EXCEPT !.state = st]
Emit(s, t)   == [s EXCEPT !.type = t]
InMode(s, m) == [s EXCEPT !.lx.mode = m]

\* The end of a tag leads to data, but not inside a comment.
Stop(s, t) == Emit(IF s.lx.in_comment THEN s ELSE InMode(s, "DATA"), t)

---------------------------------------------------------------------------
\* The state a first character leads to.
FirstState(c, in_comment) ==
  CASE c \in {"\n", "\r"}      -> "EOL"
    [] c \in {" ", "\t"}       -> "SEPAR"
    [] c = "<"                 -> "T_M_START"
    [] c = ">"                 -> "T_M_STOP_1"
    [] c = "/"                 -> IF in_comment THEN "IDLE" ELSE "T_M_STOP_2"
    [] c = "="                 -> "T_EQUAL"
    [] c = "\""                -> "T_STRING_DOUBLE"
    [] c = "'"                 -> "T_STRING_SINGLE"
    [] c = "-"                 -> "T_DASHDASH"
    [] c = "?"                 -> IF in_comment THEN "IDLE" ELSE "T_TI_STOP"
    [] OTHER                   -> "IDENT"

Idle(s, c) ==
  LET next == Goto(s, FirstState(c, s.lx.in_comment))
  IN  IF c \in {"\"", "'"} THEN Skip(next, 1) ELSE Take(next, c)

\* A run of characters of one class.
RunOf(s, c, class, type) == IF c \in class THEN Take(s, c) ELSE Emit(s, type)

MarkupStart(s, c) ==
  CASE c = "/" -> Emit(Take(s, c), "T_M_START_2")
    [] c = "?" -> Emit(Take(s, c), "T_TI_START")
    [] c = "!" -> Goto(Take(s, c), "T_COMMENT")
    [] OTHER   -> Emit(s, "T_M_START_1")

\* /> and ?>
TwoPartStop(s, c, type) == IF c = ">" THEN Stop(Take(s, c), type) ELSE Emit(s, "T_ERROR")

String(s, c, quote) == IF c = quote THEN Emit(Skip(s, 1), "T_STRING") ELSE Take(s, c)

\* After "<!": a comment, a DOCTYPE or a CDATA section.
Declaration(s, c, buf) ==
  LET next == Skip(s, 1)
      after == From(buf, next.lx.pos)
  IN  CASE c = "-" /\ StartsWith(after, "-") ->
             Emit([Skip(next, 1) EXCEPT !.tok = @ \o "--", !.lx.in_comment = TRUE], "T_C_START")
        [] c = "-" /\ ~StartsWith(after, "-") -> next
        [] c = "D" /\ StartsWith(after, "OCTYPE") -> Emit(Skip(next, 6), "T_DOCTYPE_START")
        [] c = "[" /\ StartsWith(after, "CDATA[") ->
             Emit(InMode(Skip(next, 6), "CDATA"), "T_CDATA_START")
        [] c \in {"D", "["} /\ ~StartsWith(after, IF c = "D" THEN "OCTYPE" ELSE "CDATA[") ->
             Emit(next, "T_ERROR")
        [] OTHER -> Emit(s, "T_ERROR")

\* A mistake: what stands before the end of a comment is given back as well.
CommentStop_GiveAllBack(s, c) ==
  LET next == Take(s, c)
  IN  CASE c = ">" /\ Len(next.tok) # 3 ->
             Emit([next EXCEPT !.tok = SubSeq(@, 1, Len(@) - 3),
                               !.lx.pos = @ - Len(next.tok)], "T_IDENT")
        [] c = ">" /\ Len(next.tok) = 3 -> Emit([next EXCEPT !.lx.in_comment = FALSE], "T_C_STOP")
        [] OTHER -> Goto(next, "IDENT")

\* After "--": the end of a comment, unless other characters stand before it:
\* these are a token of their own and the three are read again.
CommentStop(s, c) ==
  LET next == Take(s, c)
  IN  CASE c = ">" /\ Len(next.tok) # 3 ->
             Emit([next EXCEPT !.tok = SubSeq(@, 1, Len(@) - 3), !.lx.pos = @ - 3], "T_IDENT")
        [] c = ">" /\ Len(next.tok) = 3 -> Emit([next EXCEPT !.lx.in_comment = FALSE], "T_C_STOP")
        [] OTHER -> Goto(next, "IDENT")

Ident(s, c) ==
  CASE c \in {"<", ">", "\\", "\"", " ", "\t", "\n", "\r", "=", "/"} -> Emit(s, "T_IDENT")
    [] c = "?" -> Goto(Take(s, c), "T_TI_STOP")
    [] c = "-" -> Goto(Take(s, c), "T_DASHDASH")
    [] OTHER   -> Take(s, c)

Normal(s, c, buf) ==
  CASE s.state = "IDLE"            -> Idle(s, c)
    [] s.state = "EOL"             -> RunOf(s, c, {"\n", "\r"}, "T_EOL")
    [] s.state = "SEPAR"           -> RunOf(s, c, {" ", "\t"}, "T_SEPAR")
    [] s.state = "T_M_START"       -> MarkupStart(s, c)
    [] s.state = "T_M_STOP_1"      -> Stop(s, "T_M_STOP_1")
    [] s.state = "T_M_STOP_2"      -> TwoPartStop(s, c, "T_M_STOP_2")
    [] s.state = "T_EQUAL"         -> Emit(s, "T_EQUAL")
    [] s.state = "T_STRING_DOUBLE" -> String(s, c, "\"")
    [] s.state = "T_STRING_SINGLE" -> String(s, c, "'")
    [] s.state = "T_COMMENT"       -> Declaration(s, c, buf)
    [] s.state = "T_TI_STOP"       -> TwoPartStop(s, c, "T_TI_STOP")
    [] s.state = "T_DASHDASH"      -> Goto(Take(s, c), IF c = "-" THEN "T_C_STOP" ELSE "IDENT")
    [] s.state = "T_C_STOP"        -> CommentStop(s, c)
    [] s.state = "IDENT"           -> Ident(s, c)

Data(s, c) == IF c = "<" THEN Emit(InMode(s, "NORMAL"), "T_DATA") ELSE Take(s, c)

Cdata(s, c, buf) ==
  IF StartsWith(From(buf, s.lx.pos), "]]>")
  THEN Emit(InMode(Skip(s, 3), "DATA"), "T_CDATA_STOP") ELSE Take(s, c)

Step(s, buf) ==
  LET c == At(buf, s.lx.pos)
  IN  CASE s.lx.mode = "NORMAL" -> Normal(s, c, buf)
        [] s.lx.mode = "DATA"   -> Data(s, c)
        [] s.lx.mode = "CDATA"  -> Cdata(s, c, buf)

---------------------------------------------------------------------------
\* The token at the end of the document.
AtEnd(state) ==
  CASE state \in {"IDLE", "EOL", "SEPAR"}                 -> "T_EOF"
    [] state = "T_M_START"                                -> "T_M_START_1"
    [] state = "T_M_STOP_1"                               -> "T_M_STOP_1"
    [] state = "T_EQUAL"                                  -> "T_EQUAL"
    [] state \in {"T_STRING_SINGLE", "T_STRING_DOUBLE"}   -> "T_STRING"
    [] state = "IDENT"                                    -> "T_DATA"
    [] OTHER                                              -> "T_ERROR"

\* The token buffer is full: it is doubled and the scan begins anew where the
\* document was left.
Grow(s) == [s EXCEPT !.lx.tok_size = 2 * @, !.tok = Empty, !.state = "IDLE"]

\* One round of the loop.
Advance(s, buf) ==
  LET fits == Len(s.tok) < s.lx.tok_size
      left == s.lx.pos < Len(buf)
  IN  CASE s.type # NoType                      -> s
        [] s.type = NoType /\ ~fits             -> Grow(s)
        [] s.type = NoType /\ fits /\ ~left     -> Emit(s, AtEnd(s.state))
        [] s.type = NoType /\ fits /\ left      -> Step(s, buf)

\* A round that does not end the token takes a character, or grows the buffer,
\* which needs a character before it does so again.
Rounds(buf, lexer) == 2 * (Len(buf) - lexer.pos) + 1

lexer_get_token(buf, lexer) ==
  LET advance == [s \in Scans |-> Advance(s, buf)]
      scan[n \in 0..Rounds(buf, lexer)] ==
        IF n = 0 THEN Begin(lexer) ELSE advance[scan[n - 1]]
  IN  scan[Rounds(buf, lexer)]
=============================================================================
