------------------------------- MODULE XmlParse -------------------------------
(* totem_pl_parser_parse_xml_relaxed: comments are cleared, the tree builder  *)
(* runs over the tokens of the lexer, and a document in another encoding is   *)
(* converted and parsed once more.                                            *)
EXTENDS XmlTree, XmlLexer

CONSTANT
  Documents        \* the documents there may be: a text and its encoding world

NoEncoding == "none"

VARIABLES
  contents,        \* the document
  world,           \* [valid, guess, converts]
  lexer,
  pass,            \* 1, or 2 for the converted document
  given            \* "pending", "doc" or "NULL"

vars == <<treeVars, contents, world, lexer, pass, given>>

\* valid: the bytes are UTF-8.  guess: what uchardet takes them for.  converts:
\* the conversion succeeds.
Worlds == [valid : BOOLEAN, guess : {NoEncoding, "OTHER"}, converts : BOOLEAN]

ASSUME DocumentsAssumption == \A d \in Documents : d.text \in STRING /\ d.world \in Worlds

Init ==
  /\ TreeInit
  /\ \E d \in Documents : contents = CleanupXml(d.text) /\ world = d.world
  /\ lexer = lexer_init
  /\ pass = 1
  /\ given = "pending"

outside == <<contents, world, pass, given>>

\* lexer_get_token_d_r, and what the tree builder does about its token.
ReadToken ==
  LET scan == lexer_get_token(contents, lexer)
  IN  /\ Read([type |-> scan.type, text |-> scan.tok])
      /\ lexer' = scan.lx
      /\ UNCHANGED outside

HandleToken == Handle /\ UNCHANGED <<outside, lexer>>

EndCall == (Unwind \/ BuildTree) /\ UNCHANGED <<outside, lexer>>

---------------------------------------------------------------------------
\* xml_parser_get_property: the first one of the name, whatever its case.
xml_parser_get_property(node, name) ==
  LET named == {k \in DOMAIN node.props : strtoupper[node.props[k].name] = strtoupper[name]}
  IN  IF named = {} THEN ""
      ELSE node.props[CHOOSE k \in named : \A m \in named : k <= m].value

Declared ==
  LET roots == <<tree.root>> \o tree.next
      decls == {k \in DOMAIN roots : roots[k].name = "?XML"}
  IN  IF decls = {} THEN ""
      ELSE xml_parser_get_property(roots[CHOOSE k \in decls : \A m \in decls : k <= m], "ENCODING")

IsUtf8 == Declared = "" \/ strtoupper[Declared] = "UTF-8"

\* A mistake: a declared encoding is believed.
GiveFirst_Believe ==
  \/ pass = 2 /\ given' = "doc"
  \/ pass = 1 /\ IsUtf8 /\ given' = "doc"

\* The tree of the converted document, or of one that is UTF-8.
GiveFirst ==
  \/ pass = 2 /\ given' = "doc"
  \/ pass = 1 /\ IsUtf8 /\ world.valid /\ given' = "doc"

Give ==
  /\ step = "over"
  /\ given = "pending"
  /\ tree.ok
  /\ GiveFirst
  /\ UNCHANGED <<treeVars, contents, world, lexer, pass>>

\* UTF-8 is claimed, but the bytes are something else.
Pretends == IsUtf8 /\ ~world.valid

NeedsConversion ==
  /\ pass = 1
  /\ tree.ok
  /\ \/ ~IsUtf8
     \/ Pretends /\ world.guess # NoEncoding

\* No tree, an encoding nobody can tell, or a conversion that fails.
Refuse ==
  /\ step = "over"
  /\ given = "pending"
  /\ \/ ~tree.ok
     \/ tree.ok /\ pass = 1 /\ Pretends /\ world.guess = NoEncoding
     \/ NeedsConversion /\ ~world.converts
  /\ given' = "NULL"
  /\ UNCHANGED <<treeVars, contents, world, lexer, pass>>

\* The converted document is parsed from the beginning.
Convert ==
  /\ step = "over"
  /\ given = "pending"
  /\ NeedsConversion
  /\ world.converts
  /\ pass' = 2
  /\ lexer' = lexer_init
  /\ step' = "read"
  /\ rec' = 0
  /\ nodes' = [k \in 0..MAX_RECURSION |-> new_xml_node(Empty, <<>>)]
  /\ state' = "IDLE"
  /\ retval' = 0
  /\ tree' = [ok |-> FALSE]
  /\ UNCHANGED <<contents, world, given, flags, tok, root_names, tag, res, end_name>>

Next == ReadToken \/ HandleToken \/ EndCall \/ Give \/ Refuse \/ Convert

\* The parse runs on its thread.
Spec == Init /\ [][Next]_vars /\ WF_vars(Next)
=============================================================================
