------------------------------- MODULE XmlTree -------------------------------
(* The tree builder of the XML parser, xml_parser_get_node_internal and       *)
(* xml_parser_build_tree_with_options_r, over whatever tokens a lexer gives.  *)
(* The recursive call is a stack: the call of depth rec builds nodes[rec],    *)
(* the element named root_names[rec].  Every calling call waits in            *)
(* STATE_ATTRIBUTE with a return value of 0, so that only the innermost one   *)
(* has a state and a return value of its own.                                 *)
EXTENDS XmlText

CONSTANTS
  Tokens,          \* what a lexer may give: records of a type and a text
  MAX_RECURSION,   \* 26
  FlagSets,        \* the flags of a caller: subsets of {"RELAXED", "MULTI_TEXT"}
  cdata            \* the name of text nodes, told by its address: no element shares it

\* No lexer gives an empty name: root_names[0] is one.
Named(t) == t.type = "T_IDENT" => strtoupper[t.text] # Empty

ASSUME TreeAssumption ==
  /\ MAX_RECURSION \in Nat \ {0}
  /\ \A t \in Tokens : Named(t)
  /\ cdata \notin STRING

VARIABLES
  flags,
  step,            \* "read" a token, "handle" it, "unwind" a call that returned, "over"
  tok,             \* the token
  rec,             \* the depth of the innermost call
  root_names,      \* the names of the open elements, by depth
  nodes,           \* the nodes the calls build, by depth; 0 is the node above the root
  state,           \* the state of the innermost call
  retval,          \* its return value, unless it is 0
  node_name,       \* the name of the tag that is read
  property_name,
  properties,      \* the properties of the tag that is read
  res,             \* what the call that returned last gave
  end_name,        \* history: the name of the end tag read last
  tree             \* what the caller is given in the end

treeVars == <<flags, step, tok, rec, root_names, nodes, state, retval, node_name,
              property_name, properties, res, end_name, tree>>

States ==
  {"IDLE", "NODE", "ATTRIBUTE", "NODE_CLOSE", "TAG_TERM", "ATTRIBUTE_EQUALS", "STRING",
   "TAG_TERM_IGNORE", "Q_NODE", "Q_ATTRIBUTE", "Q_ATTRIBUTE_EQUALS", "Q_STRING",
   "COMMENT", "DOCTYPE", "CDATA"}

Space == {"T_EOL", "T_SEPAR"}

---------------------------------------------------------------------------
new_xml_node(name, props) == [name |-> name, data |-> "", props |-> props, child |-> <<>>]

LastOf(s) == s[Len(s)]

\* A mistake: a text after a text becomes a node of its own.
AppendText_Sibling(node, text) ==
  IF text = "" THEN node
  ELSE IF "MULTI_TEXT" \in flags /\ node.child # <<>>
  THEN [node EXCEPT !.child = Append(@, [new_xml_node(cdata, <<>>) EXCEPT !.data = text])]
  ELSE [node EXCEPT !.data = IF @ # "" THEN @ \o text ELSE SkipSpace(text)]

\* xml_parser_append_text; data "" stands for none.
AppendText(node, text) ==
  CASE text = "" -> node
    [] /\ text # "" /\ "MULTI_TEXT" \in flags /\ node.child # <<>>
       /\ LastOf(node.child).name = cdata ->
         [node EXCEPT !.child[Len(node.child)].data = @ \o text]
    [] /\ text # "" /\ "MULTI_TEXT" \in flags /\ node.child # <<>>
       /\ LastOf(node.child).name # cdata ->
         [node EXCEPT !.child = Append(@, [new_xml_node(cdata, <<>>) EXCEPT !.data = text])]
    [] text # "" /\ ~("MULTI_TEXT" \in flags /\ node.child # <<>>) ->
         [node EXCEPT !.data = IF @ # "" THEN @ \o text ELSE SkipSpace(text)]

AddChild(node, subtree) == [node EXCEPT !.child = Append(@, subtree)]

AddProperty(value) == Append(properties, [name |-> property_name, value |-> value])

---------------------------------------------------------------------------
TreeInit ==
  /\ flags \in FlagSets
  /\ step = "read"
  /\ tok = [type |-> "T_EOL", text |-> Empty]
  /\ rec = 0
  /\ root_names = [k \in 0..MAX_RECURSION |-> Empty]
  /\ nodes = [k \in 0..MAX_RECURSION |-> new_xml_node(Empty, <<>>)]
  /\ state = "IDLE"
  /\ retval = 0
  /\ node_name = Empty
  /\ property_name = Empty
  /\ properties = <<>>
  /\ res = 0
  /\ end_name = Empty
  /\ tree = [ok |-> FALSE]

tag  == <<node_name, property_name, properties>>
call == <<rec, root_names>>
rest == <<flags, tree, end_name>>

\* The loop asks for a token; an error of the lexer ends the call.
Read(t) ==
  /\ step = "read"
  /\ tok' = t
  /\ step' = IF t.type = "T_ERROR" THEN "unwind" ELSE "handle"
  /\ res' = IF t.type = "T_ERROR" THEN -1 ELSE res
  /\ UNCHANGED <<call, nodes, state, retval, tag, rest>>

Return(value) ==
  /\ step' = "unwind"
  /\ res' = value
  /\ UNCHANGED <<call, nodes, state, retval, tag, tok, rest>>

\* To another state, with the next token.
Move(st) ==
  /\ step' = "read"
  /\ state' = st
  /\ UNCHANGED <<call, nodes, retval, tag, tok, rest, res>>

\* To another state with the same token: bypass_get_token.
Again(st) ==
  /\ step' = "handle"
  /\ state' = st

In(st) == step = "handle" /\ state = st

---------------------------------------------------------------------------
IdleTarget ==
  [T_EOL |-> "IDLE", T_SEPAR |-> "IDLE", T_M_START_1 |-> "NODE", T_M_START_2 |-> "NODE_CLOSE",
   T_C_START |-> "COMMENT", T_TI_START |-> "Q_NODE", T_DOCTYPE_START |-> "DOCTYPE",
   T_CDATA_START |-> "CDATA"]

IdleMarkup ==
  /\ In("IDLE")
  /\ tok.type \in DOMAIN IdleTarget
  /\ Move(IdleTarget[tok.type])

IdleText ==
  /\ In("IDLE")
  /\ tok.type = "T_DATA"
  /\ nodes' = [nodes EXCEPT ![rec] = AppendText(@, lexer_decode_entities[tok.text])]
  /\ step' = "read"
  /\ UNCHANGED <<call, state, retval, tag, tok, rest, res>>

\* The end of the document ends every call, as an end tag would.
IdleEnd ==
  /\ In("IDLE")
  /\ \/ /\ tok.type = "T_EOF"
        /\ step' = "unwind"
        /\ res' = retval
        /\ end_name' = Empty
        /\ UNCHANGED <<call, nodes, state, retval, tag, tok, flags, tree>>
     \/ tok.type \notin DOMAIN IdleTarget \cup {"T_DATA", "T_EOF"} /\ Return(-1)

TagName ==
  /\ step = "handle"
  /\ state \in {"NODE", "Q_NODE"}
  /\ \/ /\ tok.type = "T_IDENT"
        /\ properties' = <<>>
        /\ node_name' = (IF state = "Q_NODE" THEN "?" ELSE Empty) \o strtoupper[tok.text]
        /\ state' = IF state = "Q_NODE" THEN "Q_ATTRIBUTE" ELSE "ATTRIBUTE"
        /\ step' = "read"
        /\ UNCHANGED <<call, nodes, retval, property_name, tok, rest, res>>
     \/ tok.type # "T_IDENT" /\ Return(-1)

\* A mistake: one call too deep.
OpenElement_OneMore ==
  /\ In("ATTRIBUTE")
  /\ tok.type = "T_M_STOP_1"
  /\ rec + 1 <= MAX_RECURSION
  /\ rec' = rec + 1
  /\ root_names' = [root_names EXCEPT ![rec + 1] = node_name]
  /\ nodes' = [nodes EXCEPT ![rec + 1] = new_xml_node(node_name, properties)]
  /\ state' = "IDLE"
  /\ retval' = 0
  /\ step' = "read"
  /\ UNCHANGED <<tag, tok, rest, res>>

\* A start tag is complete: the function calls itself, unless that is too deep.
OpenElement ==
  /\ In("ATTRIBUTE")
  /\ tok.type = "T_M_STOP_1"
  /\ rec + 1 < MAX_RECURSION
  /\ rec' = rec + 1
  /\ root_names' = [root_names EXCEPT ![rec + 1] = node_name]
  /\ nodes' = [nodes EXCEPT ![rec + 1] = new_xml_node(node_name, properties)]
  /\ state' = "IDLE"
  /\ retval' = 0
  /\ step' = "read"
  /\ UNCHANGED <<tag, tok, rest, res>>

OpenTooDeep ==
  /\ In("ATTRIBUTE")
  /\ tok.type = "T_M_STOP_1"
  /\ rec + 1 >= MAX_RECURSION
  /\ Return(-1)

\* An element without content, and a processing instruction.
Leaf ==
  /\ \/ In("ATTRIBUTE") /\ tok.type = "T_M_STOP_2"
     \/ In("Q_ATTRIBUTE") /\ tok.type = "T_TI_STOP"
  /\ nodes' = [nodes EXCEPT ![rec] = AddChild(@, new_xml_node(node_name, properties))]
  /\ state' = "IDLE"
  /\ step' = "read"
  /\ UNCHANGED <<call, retval, tag, tok, rest, res>>

PropertyName ==
  /\ step = "handle"
  /\ state \in {"ATTRIBUTE", "Q_ATTRIBUTE"}
  /\ tok.type = "T_IDENT"
  /\ property_name' = strtoupper[tok.text]
  /\ state' = IF state = "ATTRIBUTE" THEN "ATTRIBUTE_EQUALS" ELSE "Q_ATTRIBUTE_EQUALS"
  /\ step' = "read"
  /\ UNCHANGED <<call, nodes, retval, node_name, properties, tok, rest, res>>

AttributeOther ==
  /\ \/ In("ATTRIBUTE") /\ tok.type \notin {"T_M_STOP_1", "T_M_STOP_2", "T_IDENT"}
     \/ In("Q_ATTRIBUTE") /\ tok.type \notin {"T_TI_STOP", "T_IDENT"}
  /\ IF tok.type \in Space THEN Move(state) ELSE Return(-1)

---------------------------------------------------------------------------
StopOf(st) == IF st = "ATTRIBUTE_EQUALS" THEN "T_M_STOP_1" ELSE "T_TI_STOP"
Attribute(st) == IF st \in {"ATTRIBUTE_EQUALS", "STRING"} THEN "ATTRIBUTE" ELSE "Q_ATTRIBUTE"

\* The end of the tag: a property without a value.  One that another property
\* follows is forgotten.
PropertyAlone ==
  /\ step = "handle"
  /\ state \in {"ATTRIBUTE_EQUALS", "Q_ATTRIBUTE_EQUALS"}
  /\ tok.type \in {"T_IDENT", StopOf(state)}
  /\ properties' = IF tok.type = "T_IDENT" THEN properties ELSE AddProperty(Empty)
  /\ Again(Attribute(state))
  /\ UNCHANGED <<call, nodes, retval, node_name, property_name, tok, rest, res>>

PropertyEquals ==
  /\ step = "handle"
  /\ state \in {"ATTRIBUTE_EQUALS", "Q_ATTRIBUTE_EQUALS"}
  /\ tok.type \notin {"T_IDENT", StopOf(state)}
  /\ CASE tok.type \in Space  -> Move(state)
       [] tok.type = "T_EQUAL" -> Move(IF state = "ATTRIBUTE_EQUALS" THEN "STRING" ELSE "Q_STRING")
       [] OTHER                -> Return(-1)

PropertyValue ==
  /\ step = "handle"
  /\ state \in {"STRING", "Q_STRING"}
  /\ \/ /\ tok.type \in {"T_STRING", "T_IDENT"}
        /\ properties' = AddProperty(lexer_decode_entities[tok.text])
        /\ state' = Attribute(state)
        /\ step' = "read"
        /\ UNCHANGED <<call, nodes, retval, node_name, property_name, tok, rest, res>>
     \/ tok.type \in Space /\ Move(state)
     \/ tok.type \notin Space \cup {"T_STRING", "T_IDENT"} /\ Return(-1)

---------------------------------------------------------------------------
\* The innermost open element of this name, -1 if there is none; 0 is the call
\* above the root, whose name is empty.
Innermost(name) ==
  LET found == {r \in 0..rec : root_names[r] = name /\ \A m \in (r + 1)..rec : root_names[m] # name}
  IN  IF found = {} THEN -1 ELSE CHOOSE r \in found : TRUE

\* An end tag: of this element; of one further out, which implies the end tags
\* between; of none that is open, which is ignored.
EndTag(r) ==
  /\ retval' = IF r \in {-1, rec} THEN retval ELSE r - rec - 1
  /\ state' = IF r = -1 THEN "TAG_TERM_IGNORE" ELSE "TAG_TERM"
  /\ step' = "read"
  /\ end_name' = strtoupper[tok.text]
  /\ UNCHANGED <<call, nodes, tag, tok, flags, tree, res>>

NodeClose ==
  /\ In("NODE_CLOSE")
  /\ LET r == Innermost(strtoupper[tok.text])
     IN  IF tok.type = "T_IDENT" /\ (r = rec \/ "RELAXED" \in flags)
         THEN EndTag(r) ELSE Return(-1)

TagTerm ==
  /\ In("TAG_TERM")
  /\ CASE tok.type = "T_M_STOP_1"                         -> Return(retval)
       [] tok.type # "T_M_STOP_1" /\ is_space(tok.text)  -> Move(state)
       [] tok.type # "T_M_STOP_1" /\ ~is_space(tok.text) -> Return(-1)

\* A mistake: the end of the document is waited for.
TagTermIgnore_Waits ==
  /\ In("TAG_TERM_IGNORE")
  /\ Move(IF tok.type = "T_M_STOP_1" THEN "IDLE" ELSE state)

TagTermIgnore ==
  /\ In("TAG_TERM_IGNORE")
  /\ IF tok.type = "T_M_STOP_1" THEN Move("IDLE") ELSE Return(-1)

\* Everything is skipped up to the end of the comment or of the DOCTYPE.
Skipped ==
  \/ In("COMMENT") /\ Move(IF tok.type = "T_C_STOP" THEN "IDLE" ELSE "COMMENT")
  \/ In("DOCTYPE") /\ Move(IF tok.type = "T_M_STOP_1" THEN "IDLE" ELSE "DOCTYPE")

CdataSection ==
  /\ In("CDATA")
  /\ \/ /\ tok.type = "T_CDATA_STOP"
        /\ nodes' = [nodes EXCEPT ![rec] = AppendText(@, tok.text)]
        /\ state' = "IDLE"
        /\ step' = "read"
        /\ UNCHANGED <<call, retval, tag, tok, rest, res>>
     \/ tok.type # "T_CDATA_STOP" /\ Return(-1)

Handle ==
  \/ IdleMarkup \/ IdleText \/ IdleEnd
  \/ TagName \/ OpenElement \/ OpenTooDeep \/ Leaf \/ PropertyName \/ AttributeOther
  \/ PropertyAlone \/ PropertyEquals \/ PropertyValue
  \/ NodeClose \/ TagTerm \/ TagTermIgnore \/ Skipped \/ CdataSection

---------------------------------------------------------------------------
\* A mistake: the last of the implied end tags is not told from the error.
Passed_Plain(value) == value + 1

\* A call has returned to the one that opened the element: -1 passes through and
\* the element is lost, less than that closes this element, too.
Passed(value) == value + 1 + (IF value = -2 THEN 1 ELSE 0)

Unwind ==
  /\ step = "unwind"
  /\ rec > 0
  /\ rec' = rec - 1
  /\ nodes' = IF res = -1 THEN nodes
              ELSE [nodes EXCEPT ![rec - 1] = AddChild(@, nodes[rec])]
  /\ state' = "IDLE"
  /\ retval' = 0
  /\ res' = IF res < -1 THEN Passed(res) ELSE res
  /\ step' = IF res = 0 THEN "read" ELSE "unwind"
  /\ UNCHANGED <<root_names, tag, tok, rest>>

IsInstruction(node) == First(node.name) = "?"

\* What xml_parser_build_tree_with_options_r makes of the nodes: the only one
\* after the leading instructions is the root.
Top == SelectSeq(nodes[0].child, LAMBDA node : node.name # cdata)

Leading ==
  LET others == {k \in DOMAIN Top : ~IsInstruction(Top[k])}
  IN  IF others = {} THEN Len(Top) ELSE (CHOOSE k \in others : \A m \in others : k <= m) - 1

BuildTree ==
  /\ step = "unwind"
  /\ rec = 0
  /\ step' = "over"
  /\ tree' = IF Leading + 1 = Len(Top)
             THEN [ok |-> TRUE, root |-> LastOf(Top), next |-> SubSeq(Top, 1, Leading)]
             ELSE [ok |-> FALSE]
  /\ UNCHANGED <<flags, end_name, tok, call, nodes, state, retval, tag, res>>

TreeNext == (\E t \in Tokens : Read(t)) \/ Handle \/ Unwind \/ BuildTree

TreeSpec == TreeInit /\ [][TreeNext]_treeVars

---------------------------------------------------------------------------
\* How many elements will be open once the calls that return have returned.
FinalDepth ==
  CASE step \in {"read", "handle"}             -> rec
    [] step = "unwind" /\ res < -1             -> rec + res
    [] step = "unwind" /\ res = 0 /\ rec > 0   -> rec - 1
    [] OTHER                                   -> 0

Status ==
  CASE step \in {"unwind", "over"} /\ res = -1           -> "failed"
    [] step = "over" /\ res # -1                          -> "ended"
    [] step = "unwind" /\ res = 0 /\ rec = 0              -> "ended"
    [] step = "unwind" /\ (res < -1 \/ (res = 0 /\ rec > 0)) -> "closing"
    [] OTHER                                              -> "open"

Outline == INSTANCE XmlOutline WITH
  Limit  <- MAX_RECURSION,
  NoName <- Empty,
  depth  <- FinalDepth,
  open   <- [k \in 1..FinalDepth |-> root_names[k]],
  wanted <- end_name,
  status <- Status
=============================================================================
