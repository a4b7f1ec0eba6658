------------------------------- MODULE XmlDump -------------------------------
(* Trees as documents: xml_parser_dump_tree, which prints what was read, and  *)
(* a plain rendering with text; both have to read back as the tree.           *)
EXTENDS XmlProperties

CONSTANT Trees       \* the trees that are printed

\* xml_parser_dump_node.  Text is not printed.
RECURSIVE Attributes(_, _), DumpNode(_, _), DumpAll(_, _)

Attributes(props, margin) ==
  IF props = <<>> THEN ""
  ELSE props[1].name \o "='" \o xml_escape_string(props[1].value, "SINGLE_QUOTE") \o "'"
       \o (IF Len(props) > 1 THEN "\n" \o Spaces(margin) \o Attributes(Tail(props), margin) ELSE "")

DumpNode(node, indent) ==
  Spaces(indent) \o "<" \o node.name \o " "
  \o Attributes(node.props, indent + 2 + Len(node.name)) \o ">\n"
  \o DumpAll(node.child, indent + 2)
  \o Spaces(indent) \o "</" \o node.name \o ">\n"

DumpAll(list, indent) ==
  IF list = <<>> THEN "" ELSE DumpNode(Head(list), indent) \o DumpAll(Tail(list), indent)

\* A document as it would be written: one line, all of the text, every other
\* quote.
RECURSIVE Render(_), RenderAll(_), RenderProps(_)

RenderProps(props) ==
  IF props = <<>> THEN ""
  ELSE " " \o props[1].name \o "=\"" \o xml_escape_string(props[1].value, "DOUBLE_QUOTE") \o "\""
       \o RenderProps(Tail(props))

Render(node) ==
  LET text == xml_escape_string(node.data, "NO_QUOTE")
  IN  IF node.name = cdata THEN text
      ELSE IF node.data = "" /\ node.child = <<>>
      THEN "<" \o node.name \o RenderProps(node.props) \o "/>"
      ELSE "<" \o node.name \o RenderProps(node.props) \o ">" \o text
           \o RenderAll(node.child) \o "</" \o node.name \o ">"

RenderAll(list) ==
  IF list = <<>> THEN "" ELSE Render(Head(list)) \o RenderAll(Tail(list))

\* What a dump shows of a tree.
RECURSIVE Outlined(_)
Outlined(node) ==
  LET elements == SelectSeq(node.child, LAMBDA c : c.name # cdata)
  IN  [node EXCEPT !.data = "", !.child = [k \in DOMAIN elements |-> Outlined(elements[k])]]

Rendered == [t \in Trees |-> Render(t)]
Dumped   == [t \in Trees |-> DumpNode(Outlined(t), 0)]

---------------------------------------------------------------------------
\* What was printed reads back as the same tree: the elements, their properties
\* and, of a document with text, every text in its place.  Without MULTI_TEXT
\* only the text before the subtree has a place.
ReadsBackAsTree ==
  step = "over" /\ pass = 1 =>
    \A t \in Trees :
      /\ contents = Dumped[t] => tree.ok /\ Outlined(tree.root) = Outlined(t)
      /\ contents = Rendered[t] =>
           /\ tree.ok
           /\ "MULTI_TEXT" \in flags => tree.root = t
           /\ Outlined(tree.root) = Outlined(t)
=============================================================================
