-------------------------------- MODULE XmlText --------------------------------
(* Texts of the XML parser: characters, entities, escapes and the clearing of *)
(* comments.  A text is a string; a character of more than one byte that an   *)
(* entity names is written {code}.                                            *)
EXTENDS Integers, Sequences, TLC

Empty == ""

First(s) == IF s = "" THEN "" ELSE SubSeq(s, 1, 1)
Rest(s)  == SubSeq(s, 2, Len(s))
From(s, p) == SubSeq(s, p + 1, Len(s))     \* s + p of C
StartsWith(s, prefix) == Len(prefix) <= Len(s) /\ SubSeq(s, 1, Len(prefix)) = prefix
Chars(s) == {SubSeq(s, k, k) : k \in 1..Len(s)}

\* Offset of the first occurrence of a needle from offset p on, -1 for none.
strstr(s, p, needle) ==
  LET hits == {k \in p..(Len(s) - Len(needle)) : StartsWith(From(s, k), needle)}
  IN  IF hits = {} THEN -1 ELSE CHOOSE k \in hits : \A m \in hits : k <= m

---------------------------------------------------------------------------
Blanks == {" ", "\t", "\n", "\r", "\f"}

is_space(s) == Chars(s) \subseteq Blanks

SkipSpace(s) ==
  LET dark == {k \in 1..Len(s) : SubSeq(s, k, k) \notin Blanks}
  IN  IF dark = {} THEN ""
      ELSE SubSeq(s, CHOOSE k \in dark : \A m \in dark : k <= m, Len(s))

Small   == "abcdefghijklmnopqrstuvwxyz"
Capital == "ABCDEFGHIJKLMNOPQRSTUVWXYZ"

toupper[c \in STRING] ==
  LET k == strstr(Small, 0, c) IN IF k = -1 THEN c ELSE SubSeq(Capital, k + 1, k + 1)

strtoupper[s \in STRING] ==
  LET upper[n \in 0..Len(s)] ==
        IF n = 0 THEN Empty ELSE upper[n - 1] \o toupper[SubSeq(s, n, n)]
  IN  upper[Len(s)]

---------------------------------------------------------------------------
Entities == [quot |-> "\"", amp |-> "&", apos |-> "'", lt |-> "<", gt |-> ">"]

\* Characters by code, as far as the documents have them.
CodeOf == ("\t" :> 9) @@ ("\n" :> 10) @@ ("\f" :> 12) @@ ("\r" :> 13) @@ ("\"" :> 34)
          @@ ("&" :> 38) @@ ("'" :> 39) @@ ("<" :> 60) @@ (">" :> 62) @@ ("a" :> 97)

CharOf(code) == IF \E c \in DOMAIN CodeOf : CodeOf[c] = code
                THEN CHOOSE c \in DOMAIN CodeOf : CodeOf[c] = code
                ELSE "{" \o ToString(code) \o "}"

DecDigits == [c \in {ToString(k) : k \in 0..9} |-> CHOOSE k \in 0..9 : ToString(k) = c]
HexDigits == DecDigits @@ [a |-> 10, b |-> 11, c |-> 12, d |-> 13, e |-> 14, f |-> 15]

\* strtol in base 10 or 16, of texts without a sign: the value, and what
\* follows the digits.
strtol(text, base) ==
  LET digits == IF base = 16 THEN HexDigits ELSE DecDigits
      Scan[s \in [value : Int, rest : STRING]] ==
        IF First(s.rest) \in DOMAIN digits
        THEN Scan[[value |-> s.value * base + digits[First(s.rest)], rest |-> Rest(s.rest)]]
        ELSE s
  IN  Scan[[value |-> 0, rest |-> SkipSpace(text)]]

\* "x" and one more character that is no second "x": hexadecimal.
CharacterCode(s) ==
  IF First(s) = "x" /\ Len(s) >= 2 /\ First(From(s, 2)) # "x"
  THEN strtol(Rest(s), 16) ELSE strtol(s, 10)

\* What an entity after "&" stands for and what follows it; what is no entity
\* stands for itself.
Entity(s) ==
  LET named  == {n \in DOMAIN Entities : StartsWith(s, n \o ";")}
      number == CharacterCode(Rest(s))
  IN  CASE named # {} ->
             LET n == CHOOSE n \in named : TRUE
             IN  [text |-> Entities[n], rest |-> From(s, Len(n) + 1)]
        [] /\ named = {}
           /\ First(s) = "#" /\ First(number.rest) = ";" /\ number.value >= 1 ->
             [text |-> CharOf(number.value), rest |-> Rest(number.rest)]
        [] OTHER -> [text |-> "&", rest |-> s]

lexer_decode_entities[s \in STRING] ==
  IF s = "" THEN ""
  ELSE IF First(s) = "&"
       THEN Entity(Rest(s)).text \o lexer_decode_entities[Entity(Rest(s)).rest]
       ELSE First(s) \o lexer_decode_entities[Rest(s)]

---------------------------------------------------------------------------
Quotes == {"NO_QUOTE", "SINGLE_QUOTE", "DOUBLE_QUOTE"}

\* A mistake: the escapes of other entities are not escaped.
Escape_NoAmp(c, quote) ==
  CASE c = "\"" /\ quote = "DOUBLE_QUOTE" -> "&quot;"
    [] c = "'" /\ quote = "SINGLE_QUOTE"  -> "&apos;"
    [] c = "<"                            -> "&lt;"
    [] c = ">"                            -> "&gt;"
    [] c \in {"\r", "\f"}                 -> "&#" \o ToString(CodeOf[c]) \o ";"
    [] OTHER                              -> c

Escape(c, quote) ==
  CASE c = "\"" /\ quote = "DOUBLE_QUOTE" -> "&quot;"
    [] c = "'" /\ quote = "SINGLE_QUOTE"  -> "&apos;"
    [] c = "&"                            -> "&amp;"
    [] c = "<"                            -> "&lt;"
    [] c = ">"                            -> "&gt;"
    [] c \in {"\r", "\f"}                 -> "&#" \o ToString(CodeOf[c]) \o ";"
    [] OTHER                              -> c

xml_escape_string(s, quote) ==
  LET Escaped[t \in STRING] ==
        IF t = "" THEN "" ELSE Escape(First(t), quote) \o Escaped[Rest(t)]
  IN  Escaped[s]

---------------------------------------------------------------------------
Spaces(n) ==
  LET blanks[k \in 0..n] == IF k = 0 THEN Empty ELSE blanks[k - 1] \o " "
  IN  blanks[n]

\* totem_pl_parser_cleanup_xml, one round of its loop: a comment becomes blanks;
\* one that has no end stays with all that follows, one that may belong to a
\* CDATA section stays.
Cleanings == [text : STRING, needle : Nat]

ClearComment[s \in Cleanings] ==
  LET start == strstr(s.text, s.needle, "<!--")
      end   == strstr(s.text, start, "-->")
  IN  IF start = -1 \/ end = -1 THEN s
      ELSE IF strstr(SubSeq(s.text, start + 1, end), 0, "]]>") # -1
      THEN [s EXCEPT !.needle = start + 3]
      ELSE [text |-> SubSeq(s.text, 1, start) \o Spaces(end + 3 - start)
                     \o From(s.text, end + 3),
            needle |-> start]

\* Each round finds its comment three characters or more behind the last one.
CleanRounds(contents) == Len(contents) \div 3

CleanedXml(contents) ==
  LET clean[n \in 0..CleanRounds(contents)] ==
        IF n = 0 THEN [text |-> contents, needle |-> 0] ELSE ClearComment[clean[n - 1]]
  IN  clean[CleanRounds(contents)]

CleanupXml(contents) == CleanedXml(contents).text

---------------------------------------------------------------------------
\* What the proofs need to know of strings, which to TLA+ are sequences of
\* characters: how long they are, and that parts of them are strings again.
StringsAreSequences(T) ==
  /\ \A s \in T : Len(s) \in Nat
  /\ \A s, t \in T : s \o t \in STRING /\ Len(s \o t) = Len(s) + Len(t)
  /\ \A s \in T : \A m \in 1..(Len(s) + 1) : \A n \in (m - 1)..Len(s) :
       SubSeq(s, m, n) \in STRING /\ Len(SubSeq(s, m, n)) = n - m + 1

LiteralsAreLong ==
  /\ Empty \in STRING /\ " " \in STRING /\ "--" \in STRING /\ "?" \in STRING
  /\ Small \in STRING /\ Capital \in STRING /\ Len(Empty) = 0
  /\ Len(" ") = 1 /\ Len("-") = 1 /\ Len("--") = 2 /\ Len("-->") = 3 /\ Len("]]>") = 3
  /\ Len("<!--") = 4 /\ Len("OCTYPE") = 6 /\ Len("CDATA[") = 6
  /\ Len(Small) = 26 /\ Len(Capital) = 26

TextsAreSequences(T) == StringsAreSequences(T) /\ LiteralsAreLong
=============================================================================
