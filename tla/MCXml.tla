-------------------------------- MODULE MCXml --------------------------------
(* Every document of up to three pieces, longer ones that nest, close and     *)
(* leave open, documents in other encodings, and documents printed from       *)
(* trees.                                                                     *)
EXTENDS XmlDump

CONSTANT MaxPieces      \* bound on the pieces of a document

Pieces == {"<a>", "</a>", "</a", ">", "<c/>", "<a b", "='c'", " ", "x&lt;", "<!--", "-->",
           "<![CDATA[", "]]>", "<!DOCTYPE"}

\* Elements that end with the tags of others, in every order.
Tags == {"<a>", "<b>", "<c/>", "</a>", "</b>", "x", "<![CDATA[x]]>"}

\* Every concatenation of n pieces.
Concatenations(pieces, max) ==
  LET Texts[n \in Nat] == IF n = 0 THEN {""} ELSE {t \o p : t \in Texts[n - 1], p \in pieces}
  IN  UNION {Texts[n] : n \in 0..max}

Nested == {"<a><b>" \o t : t \in Concatenations(Tags, MaxPieces)}

\* Tags that are broken in other ways.
Broken == {"<>", "<a b= c/>", "<a b==/>", "<a b/>", "</>", "<a></a =>", "<a/></b/>", "<![CDATA[", "<a =>"}

Utf8 == [valid |-> TRUE, guess |-> NoEncoding, converts |-> TRUE]
Encoded == {"<?xml encoding='utf-8'?><a/>", "<?xml encoding='b'?><a/>", "<a/>", "<a>"}

Element(name, props, data, child) == [name |-> name, data |-> data, props |-> props, child |-> child]
Prop(name, value) == [name |-> name, value |-> value]
Text(t) == [new_xml_node(cdata, <<>>) EXCEPT !.data = t]

Leaf1 == Element("B", <<>>, "", <<>>)
Leaf2 == Element("C", <<Prop("A", "\"'\r")>>, "a ", <<>>)

MCTrees ==
  {Element("A", props, data, child) :
     props \in {<<>>, <<Prop("B", "'&lt;")>>, <<Prop("B", ""), Prop("C", "x>")>>},
     data  \in {"", "x<&"},
     child \in {<<>>, <<Leaf1>>, <<Leaf1, Text(" x")>>, <<Leaf2, Text("&"), Leaf1>>,
                <<Element("A", <<>>, "", <<Leaf1, Leaf2>>)>>}}

MCDocuments ==
  [text : Concatenations(Pieces, MaxPieces) \cup Nested \cup Broken
          \cup {Rendered[t] : t \in Trees} \cup {Dumped[t] : t \in Trees},
   world : {Utf8}]
  \cup [text : Encoded, world : Worlds]

\* The texts of the documents are sequences of characters, and no document has
\* more comments than there are rounds to clear them.
ASSUME TextLaws == TextsAreSequences(Pieces \cup Tags \cup Broken \cup Encoded \cup {Empty})
ASSUME CleanedInTime ==
  \A d \in MCDocuments : LET last == CleanedXml(d.text) IN ClearComment[last] = last

MCTokens == [type : TokenTypes, text : {"a", "b", " "}]
MCFlags == {{}, {"RELAXED", "MULTI_TEXT"}}
=============================================================================
