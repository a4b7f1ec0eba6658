----------------------------- MODULE XmlProperties -----------------------------
(* What the XML parser should do, whatever document it is given.              *)
EXTENDS XmlParse

\* The variables keep to their ranges: no call is deeper than the limit, and a
\* return value names a call that is open.
XmlTypeOK ==
  /\ flags \in FlagSets
  /\ step \in {"read", "handle", "unwind", "over"}
  /\ tok.type \in TokenTypes
  /\ rec \in 0..(MAX_RECURSION - 1)
  /\ state \in States
  /\ retval \in -rec..0
  /\ res \in -(rec + 1)..0
  /\ lexer \in Lexer
  /\ lexer.pos <= Len(contents)
  /\ pass \in 1..2
  /\ given \in {"pending", "doc", "NULL"}

\* xmlparser.h: data holds the text before the subtree, further text is in nodes
\* of its own, adjacent text items are merged; so that no subtree begins with a
\* text node and no two of them stand next to each other.
TextItemsAreMerged ==
  \A r \in 0..rec :
    LET child == nodes[r].child
    IN  \A k \in DOMAIN child : child[k].name = cdata =>
          /\ k > 1 /\ child[k - 1].name # cdata
          /\ "MULTI_TEXT" \in flags
          /\ child[k].child = <<>> /\ child[k].props = <<>>

\* Each of the two parses keeps the promise of XmlOutline: what an end tag and a
\* failure close, with the return values counted down through the calls.
KeepsOutline ==
  /\ Outline!Init
  /\ [][pass' = pass => (Outline!Next \/ UNCHANGED Outline!vars)]_vars

\* The lexer moves on: a token that is not the end takes a character or ends a
\* run of data, and a name is never empty.
LexerMovesOn ==
  [][step = "read" /\ step' # "read" =>
       /\ \/ lexer'.pos > lexer.pos
          \/ lexer.mode = "DATA" /\ lexer'.mode = "NORMAL"
          \/ tok'.type \in {"T_EOF", "T_ERROR"}
       /\ tok'.type = "T_IDENT" => tok'.text # Empty]_vars

\* A tree that is given is of a text that is UTF-8, and the document is
\* converted only once.
GivenFromUtf8 == given = "doc" => world.valid \/ (pass = 2 /\ world.converts)

\* Every document is answered, unless it ends inside a comment, a DOCTYPE or an
\* end tag: there the parser waits for ever for what would end it.
AnsweredUnlessCutOff ==
  <>(\/ given # "pending"
     \/ tok.type = "T_EOF" /\ state \in {"COMMENT", "DOCTYPE", "TAG_TERM"})

\* Every document is answered.
EveryDocumentIsAnswered == <>(given # "pending")
=============================================================================
