------------------------------- MODULE XmlProof -------------------------------
(* Theorems about the XML parser.  The tree builder keeps the promise of      *)
(* XmlOutline, whatever the tokens are and however deep the elements may be:  *)
(* the return values, counted up by one from call to call, close the element  *)
(* an end tag names and nothing else.  The lexer ends every token, stays      *)
(* within the document, moves on, and gives no empty name; so that what is    *)
(* shown of the tree builder holds of the parser, in both of its parses.      *)
(* Text in the tree is merged with the text next to it, and a tree that is    *)
(* given comes from text that is UTF-8.                                       *)
(*                                                                            *)
(* To TLA+ a string is a sequence of characters, but to the provers it is a   *)
(* value they know nothing of: what they need is TextsAreSequences(STRING).   *)
EXTENDS XmlProperties, SequenceTheorems, WellFoundedInduction, TLAPS

\* The open element that an end tag in STATE_TAG_TERM closes.
Closed == IF retval = 0 THEN rec ELSE rec + retval + 1

\* The depth and the array of names.
Shape ==
  /\ step \in {"read", "handle", "unwind", "over"}
  /\ rec \in Nat
  /\ rec < MAX_RECURSION
  /\ DOMAIN root_names = 0..MAX_RECURSION
  /\ root_names[0] = Empty
  /\ step = "handle" => Named(tok)

\* A return value is set only between the name of an end tag and its end, and
\* then it leads to the innermost open element of that name.
Leads ==
  /\ retval \in Int
  /\ state # "TAG_TERM" => retval = 0
  /\ state = "TAG_TERM" =>
       /\ retval = 0 \/ retval < -1
       /\ Closed \in 1..rec
       /\ root_names[Closed] = end_name
       /\ \A m \in (Closed + 1)..rec : root_names[m] # end_name

\* A call that returns fails, closes its own element, or closes others that are
\* open.
Returns ==
  step \in {"unwind", "over"} =>
    /\ res \in Int
    /\ res = -1 \/ res = 0 \/ (res < -1 /\ rec + res >= 0)
    /\ step = "over" => rec = 0

IInv == Shape /\ Leads /\ Returns

---------------------------------------------------------------------------
LEMMA TreeInitOK == TreeInit => IInv
<1>. SUFFICES ASSUME TreeInit PROVE IInv
  OBVIOUS
<1>1. /\ step = "read" /\ rec = 0 /\ state = "IDLE" /\ retval = 0
      /\ root_names = [k \in 0..MAX_RECURSION |-> Empty]
  BY DEF TreeInit
<1>2. Shape
  BY <1>1, TreeAssumption DEF Shape
<1>. QED BY <1>1, <1>2 DEF IInv, Leads, Returns

\* A step that keeps the calls and what they are about.
LEMMA KeepOK ==
  ASSUME IInv, step \in {"read", "handle"}, step' \in {"read", "handle"},
         rec' = rec, root_names' = root_names, retval' = retval,
         state # "TAG_TERM", state' # "TAG_TERM",
         step' = "handle" => Named(tok)'
  PROVE  IInv'
<1>1. Shape'
  BY DEF IInv, Shape
<1>2. Leads'
  BY DEF IInv, Leads
<1>3. Returns'
  BY DEF Returns
<1>. QED BY <1>1, <1>2, <1>3 DEF IInv

\* A return of what is allowed, from wherever.
LEMMA ReturnOK ==
  ASSUME IInv, step' = "unwind", res' \in Int,
         res' = -1 \/ res' = 0 \/ (res' < -1 /\ rec + res' >= 0),
         rec' = rec, root_names' = root_names, retval' = retval, state' = state,
         end_name' = end_name \/ state # "TAG_TERM"
  PROVE  IInv'
<1>1. Shape'
  BY DEF IInv, Shape
<1>2. Leads'
  BY DEF IInv, Leads, Closed
<1>3. Returns'
  BY DEF Returns
<1>. QED BY <1>1, <1>2, <1>3 DEF IInv

LEMMA ReadOK ==
  ASSUME IInv, NEW t, Named(t), Read(t)
  PROVE  IInv'
<1>0. /\ step = "read" /\ tok' = t /\ rec' = rec /\ root_names' = root_names
      /\ retval' = retval /\ state' = state /\ end_name' = end_name
  BY DEF Read, rest, call
<1>1. CASE t.type = "T_ERROR"
  BY <1>0, <1>1, ReturnOK DEF Read
<1>2. CASE t.type # "T_ERROR"
  <2>1. step' = "handle"
    BY <1>2 DEF Read
  <2>2. Shape'
    BY <1>0, <2>1 DEF IInv, Shape
  <2>3. Leads'
    BY <1>0 DEF IInv, Leads, Closed
  <2>. QED BY <2>1, <2>2, <2>3 DEF IInv, Returns
<1>. QED BY <1>1, <1>2

\* Every handler that fails.
LEMMA FailOK ==
  ASSUME IInv, step = "handle", Return(-1)
  PROVE  IInv'
BY ReturnOK DEF Return, call, rest

LEMMA OpenOK ==
  ASSUME IInv, OpenElement
  PROVE  IInv'
<1>0. /\ step' = "read" /\ retval' = 0 /\ state' = "IDLE" /\ rec' = rec + 1
      /\ rec + 1 < MAX_RECURSION /\ rec \in Nat
      /\ root_names' = [root_names EXCEPT ![rec + 1] = node_name]
  BY DEF OpenElement, IInv, Shape
<1>1. DOMAIN root_names' = 0..MAX_RECURSION
  BY <1>0 DEF IInv, Shape
<1>2. root_names'[0] = Empty
  BY <1>0, TreeAssumption DEF IInv, Shape
<1>3. Shape'
  BY <1>0, <1>1, <1>2 DEF IInv, Shape
<1>. QED BY <1>0, <1>3 DEF IInv, Leads, Returns

LEMMA IdleEndOK ==
  ASSUME IInv, IdleEnd
  PROVE  IInv'
<1>1. CASE tok.type = "T_EOF"
  <2>1. /\ step' = "unwind" /\ res' = retval /\ rec' = rec /\ root_names' = root_names
        /\ retval' = retval /\ state' = state /\ state = "IDLE"
    BY <1>1 DEF IdleEnd, In, Return, call
  <2>2. retval = 0
    BY <2>1 DEF IInv, Leads
  <2>. QED BY <2>1, <2>2, ReturnOK
<1>2. CASE tok.type # "T_EOF"
  BY <1>2, FailOK DEF IdleEnd, In
<1>. QED BY <1>1, <1>2

\* What Innermost finds.
LEMMA InnermostIs ==
  ASSUME IInv, NEW name
  PROVE  \/ Innermost(name) = -1
         \/ /\ Innermost(name) \in 0..rec
            /\ root_names[Innermost(name)] = name
            /\ \A m \in (Innermost(name) + 1)..rec : root_names[m] # name
<1>. DEFINE found == {r \in 0..rec : root_names[r] = name /\ \A m \in (r + 1)..rec : root_names[m] # name}
<1>1. CASE found = {}
  BY <1>1 DEF Innermost
<1>2. CASE found # {}
  <2>1. Innermost(name) = CHOOSE r \in found : TRUE
    BY <1>2 DEF Innermost
  <2>2. Innermost(name) \in found
    BY <1>2, <2>1
  <2>. QED BY <2>2
<1>. QED BY <1>1, <1>2

\* The name of an end tag is not empty, so that what it leads to is an element.
LEMMA NodeCloseOK ==
  ASSUME IInv, NodeClose
  PROVE  IInv'
<1>. DEFINE name == strtoupper[tok.text]
            r == Innermost(name)
<1>1. CASE tok.type = "T_IDENT" /\ (r = rec \/ "RELAXED" \in flags)
  <2>1. /\ EndTag(r) /\ step = "handle" /\ state = "NODE_CLOSE" /\ Named(tok) /\ rec \in Nat
    BY <1>1 DEF NodeClose, In, IInv, Shape
  <2>2. /\ rec' = rec /\ root_names' = root_names /\ step' = "read" /\ end_name' = name
        /\ retval' = (IF r \in {-1, rec} THEN retval ELSE r - rec - 1)
        /\ state' = (IF r = -1 THEN "TAG_TERM_IGNORE" ELSE "TAG_TERM")
    BY <2>1 DEF EndTag, call
  <2>3. retval = 0 /\ name # Empty /\ root_names[0] = Empty
    BY <1>1, <2>1 DEF IInv, Leads, Shape, Named
  <2>4. Shape'
    BY <2>2 DEF IInv, Shape
  <2>5. Returns'
    BY <2>2 DEF Returns
  <2>6. CASE r = -1
    BY <2>2, <2>3, <2>4, <2>5, <2>6 DEF IInv, Leads
  <2>7. CASE r # -1
    <3>1. /\ r \in 0..rec /\ root_names[r] = name
          /\ \A m \in (r + 1)..rec : root_names[m] # name
      BY <2>7, InnermostIs
    <3>2. r \in 1..rec
      BY <3>1, <2>3
    <3>3. state' = "TAG_TERM" /\ (retval' = 0 \/ retval' < -1) /\ retval' \in Int /\ Closed' = r
      BY <2>1, <2>2, <2>3, <2>7, <3>2 DEF Closed
    <3>4. Leads'
      BY <2>2, <3>1, <3>2, <3>3 DEF Leads
    <3>. QED BY <2>4, <2>5, <3>4 DEF IInv
  <2>. QED BY <2>6, <2>7
<1>2. CASE ~(tok.type = "T_IDENT" /\ (r = rec \/ "RELAXED" \in flags))
  BY <1>2, FailOK DEF NodeClose, In
<1>. QED BY <1>1, <1>2

\* The end tag is complete: its return value closes what it leads to.
LEMMA TagTermOK ==
  ASSUME IInv, TagTerm
  PROVE  IInv'
<1>1. CASE tok.type = "T_M_STOP_1"
  <2>1. Return(retval) /\ state = "TAG_TERM" /\ rec \in Nat /\ retval \in Int
    BY <1>1 DEF TagTerm, In, IInv, Leads, Shape
  <2>2. retval = 0 \/ (retval < -1 /\ rec + retval >= 0)
    BY <2>1 DEF IInv, Leads, Closed
  <2>. QED BY <2>1, <2>2, ReturnOK DEF Return, call, rest
<1>2. CASE tok.type # "T_M_STOP_1" /\ is_space(tok.text)
  <2>1. Move(state)
    BY <1>2 DEF TagTerm
  <2>. QED BY <2>1 DEF Move, call, rest, IInv, Shape, Leads, Returns, Closed
<1>3. CASE tok.type # "T_M_STOP_1" /\ ~is_space(tok.text)
  <2>1. Return(-1)
    BY <1>3 DEF TagTerm
  <2>. QED BY <2>1, FailOK DEF TagTerm, In
<1>. QED BY <1>1, <1>2, <1>3

\* A handler that goes on in the same call.
LEMMA MoveOK ==
  ASSUME IInv, NEW st, step = "handle", state # "TAG_TERM", st # "TAG_TERM", Move(st)
  PROVE  IInv'
BY KeepOK DEF Move, call

\* The handlers that keep the call, its return value and the end tag.
LEMMA IdleMarkupOK ==
  ASSUME IInv, IdleMarkup PROVE IInv'
<1>1. IdleTarget[tok.type] # "TAG_TERM"
  BY DEF IdleMarkup, IdleTarget
<1>. QED BY <1>1, MoveOK DEF IdleMarkup, In

LEMMA IdleTextOK ==
  ASSUME IInv, IdleText PROVE IInv'
BY KeepOK DEF IdleText, In, call

LEMMA TagNameOK ==
  ASSUME IInv, TagName PROVE IInv'
<1>1. CASE tok.type = "T_IDENT"
  BY <1>1, KeepOK DEF TagName, call
<1>2. CASE tok.type # "T_IDENT"
  BY <1>2, FailOK DEF TagName
<1>. QED BY <1>1, <1>2

LEMMA OpenTooDeepOK ==
  ASSUME IInv, OpenTooDeep PROVE IInv'
BY FailOK DEF OpenTooDeep, In

LEMMA LeafOK ==
  ASSUME IInv, Leaf PROVE IInv'
BY KeepOK DEF Leaf, In, call

LEMMA PropertyNameOK ==
  ASSUME IInv, PropertyName PROVE IInv'
BY KeepOK DEF PropertyName, call

LEMMA AttributeOtherOK ==
  ASSUME IInv, AttributeOther PROVE IInv'
<1>1. step = "handle" /\ state # "TAG_TERM"
  BY DEF AttributeOther, In
<1>2. Move(state) \/ Return(-1)
  BY DEF AttributeOther
<1>. QED BY <1>1, <1>2, MoveOK, FailOK

LEMMA PropertyAloneOK ==
  ASSUME IInv, PropertyAlone PROVE IInv'
<1>1. /\ step = "handle" /\ step' = "handle" /\ tok' = tok /\ state # "TAG_TERM"
      /\ state' # "TAG_TERM" /\ rec' = rec /\ root_names' = root_names /\ retval' = retval
  BY DEF PropertyAlone, Again, Attribute, call
<1>. QED BY <1>1, KeepOK DEF IInv, Shape

LEMMA PropertyEqualsOK ==
  ASSUME IInv, PropertyEquals PROVE IInv'
<1>1. step = "handle" /\ state # "TAG_TERM"
  BY DEF PropertyEquals
<1>2. \/ Move(state)
      \/ Move(IF state = "ATTRIBUTE_EQUALS" THEN "STRING" ELSE "Q_STRING")
      \/ Return(-1)
  BY DEF PropertyEquals
<1>. QED BY <1>1, <1>2, MoveOK, FailOK

LEMMA PropertyValueOK ==
  ASSUME IInv, PropertyValue PROVE IInv'
<1>1. CASE tok.type \in {"T_STRING", "T_IDENT"}
  BY <1>1, KeepOK DEF PropertyValue, Attribute, Space, call
<1>2. CASE tok.type \notin {"T_STRING", "T_IDENT"}
  <2>1. step = "handle" /\ state # "TAG_TERM" /\ (Move(state) \/ Return(-1))
    BY <1>2 DEF PropertyValue
  <2>. QED BY <2>1, MoveOK, FailOK
<1>. QED BY <1>1, <1>2

LEMMA TagTermIgnoreOK ==
  ASSUME IInv, TagTermIgnore PROVE IInv'
<1>1. step = "handle" /\ state # "TAG_TERM" /\ (Move("IDLE") \/ Return(-1))
  BY DEF TagTermIgnore, In
<1>. QED BY <1>1, MoveOK, FailOK

LEMMA SkippedOK ==
  ASSUME IInv, Skipped PROVE IInv'
<1>1. step = "handle" /\ state # "TAG_TERM"
  BY DEF Skipped, In
<1>2. Move("IDLE") \/ Move("COMMENT") \/ Move("DOCTYPE")
  BY DEF Skipped
<1>. QED BY <1>1, <1>2, MoveOK

LEMMA CdataOK ==
  ASSUME IInv, CdataSection PROVE IInv'
<1>1. CASE tok.type = "T_CDATA_STOP"
  BY <1>1, KeepOK DEF CdataSection, In, call
<1>2. CASE tok.type # "T_CDATA_STOP"
  BY <1>2, FailOK DEF CdataSection, In
<1>. QED BY <1>1, <1>2

---------------------------------------------------------------------------
\* The value that is passed on leads to the same element, one call further out.
LEMMA PassedLeads ==
  ASSUME NEW value \in Int, value < -1
  PROVE  /\ Passed(value) \in Int
         /\ Passed(value) = 0 \/ Passed(value) < -1
         /\ Passed(value) = 0 <=> value = -2
         /\ value # -2 => Passed(value) = value + 1
BY DEF Passed

LEMMA UnwindOK ==
  ASSUME IInv, Unwind
  PROVE  IInv'
<1>1. /\ step = "unwind" /\ rec \in Nat /\ rec > 0 /\ rec' = rec - 1 /\ root_names' = root_names
      /\ state' = "IDLE" /\ retval' = 0
      /\ res' = (IF res < -1 THEN Passed(res) ELSE res)
      /\ step' = (IF res = 0 THEN "read" ELSE "unwind")
  BY DEF Unwind, IInv, Shape
<1>2. res \in Int /\ (res = -1 \/ res = 0 \/ (res < -1 /\ rec + res >= 0))
  BY <1>1 DEF IInv, Returns
<1>3. Shape'
  BY <1>1, TreeAssumption DEF IInv, Shape
<1>4. Leads'
  BY <1>1 DEF Leads
<1>5. Returns'
  <2>1. CASE res < -1
    BY <1>1, <1>2, <2>1, PassedLeads DEF Returns
  <2>2. CASE ~(res < -1)
    BY <1>1, <1>2, <2>2 DEF Returns
  <2>. QED BY <2>1, <2>2
<1>. QED BY <1>3, <1>4, <1>5 DEF IInv

LEMMA BuildTreeOK ==
  ASSUME IInv, BuildTree
  PROVE  IInv'
<1>1. /\ step = "unwind" /\ step' = "over" /\ rec = 0 /\ rec' = rec /\ root_names' = root_names
      /\ retval' = retval /\ state' = state /\ end_name' = end_name /\ res' = res
  BY DEF BuildTree, call
<1>2. Shape'
  BY <1>1 DEF IInv, Shape
<1>3. Leads'
  BY <1>1 DEF IInv, Leads, Closed
<1>4. Returns'
  BY <1>1 DEF IInv, Returns
<1>. QED BY <1>2, <1>3, <1>4 DEF IInv

LEMMA StutterOK ==
  ASSUME IInv, UNCHANGED treeVars
  PROVE  IInv'
BY DEF treeVars, IInv, Shape, Leads, Returns, Closed

LEMMA NextKeepsIInv ==
  ASSUME IInv, [TreeNext]_treeVars
  PROVE  IInv'
<1>1. CASE \E t \in Tokens : Read(t)
  BY <1>1, ReadOK, TreeAssumption
<1>2. CASE Handle
  <2>1. CASE IdleMarkup \/ IdleText \/ IdleEnd \/ TagName \/ OpenElement \/ OpenTooDeep
    BY <2>1, IdleMarkupOK, IdleTextOK, IdleEndOK, TagNameOK, OpenOK, OpenTooDeepOK
  <2>2. CASE Leaf \/ PropertyName \/ AttributeOther \/ PropertyAlone \/ PropertyEquals
             \/ PropertyValue
    BY <2>2, LeafOK, PropertyNameOK, AttributeOtherOK, PropertyAloneOK, PropertyEqualsOK,
       PropertyValueOK
  <2>3. CASE NodeClose \/ TagTerm \/ TagTermIgnore \/ Skipped \/ CdataSection
    BY <2>3, NodeCloseOK, TagTermOK, TagTermIgnoreOK, SkippedOK, CdataOK
  <2>. QED BY <1>2, <2>1, <2>2, <2>3 DEF Handle
<1>3. CASE Unwind
  BY <1>3, UnwindOK
<1>4. CASE BuildTree
  BY <1>4, BuildTreeOK
<1>5. CASE UNCHANGED treeVars
  BY <1>5, StutterOK
<1>. QED BY <1>1, <1>2, <1>3, <1>4, <1>5 DEF TreeNext

\* For every limit and every sequence of tokens: no call is deeper than the
\* limit, and what a call returns names one that is open.
THEOREM CallsAreCounted == TreeSpec => []IInv
<1>. QED BY TreeInitOK, NextKeepsIInv, PTL DEF TreeSpec

---------------------------------------------------------------------------
\* The refinement.  Most handlers change nothing that the outline shows.
LEMMA Unseen ==
  ASSUME step \in {"read", "handle"}, step' \in {"read", "handle"},
         rec' = rec, root_names' = root_names, end_name' = end_name
  PROVE  UNCHANGED Outline!vars
<1>1. FinalDepth = rec /\ FinalDepth' = rec
  BY DEF FinalDepth
<1>2. Status = "open" /\ Status' = "open"
  BY DEF Status
<1>. QED BY <1>1, <1>2 DEF Outline!vars

\* An error fails the outline.
LEMMA Fails ==
  ASSUME step \in {"read", "handle"}, step' = "unwind", res' = -1, end_name' = end_name
  PROVE  Outline!Fail
<1>1. FinalDepth' = 0
  BY DEF FinalDepth
<1>2. Status = "open" /\ Status' = "failed"
  BY DEF Status
<1>3. [k \in 1..FinalDepth' |-> root_names'[k]] = [k \in 1..0 |-> Empty]
  BY <1>1
<1>. QED BY <1>1, <1>2, <1>3 DEF Outline!Fail

LEMMA MoveUnseen ==
  ASSUME step = "handle", NEW st, Move(st) PROVE UNCHANGED Outline!vars
BY Unseen DEF Move, call, rest

LEMMA ReturnFails ==
  ASSUME step = "handle", Return(-1) PROVE Outline!Fail
BY Fails DEF Return, rest

LEMMA ReadMaps ==
  ASSUME NEW t, Read(t)
  PROVE  [Outline!Next]_Outline!vars
<1>1. CASE t.type = "T_ERROR"
  BY <1>1, Fails DEF Read, rest, Outline!Next
<1>2. CASE t.type # "T_ERROR"
  BY <1>2, Unseen DEF Read, rest, call
<1>. QED BY <1>1, <1>2

LEMMA OpenMaps ==
  ASSUME IInv, OpenElement
  PROVE  Outline!Open
<1>1. /\ step = "handle" /\ step' = "read" /\ rec \in Nat /\ rec' = rec + 1 /\ end_name' = end_name
      /\ rec + 1 < MAX_RECURSION /\ root_names' = [root_names EXCEPT ![rec + 1] = node_name]
  BY DEF OpenElement, In, rest, IInv, Shape
<1>2. FinalDepth = rec /\ FinalDepth' = rec + 1
  BY <1>1 DEF FinalDepth
<1>3. Status = "open" /\ Status' = "open"
  BY <1>1 DEF Status
<1>4. \A k \in 1..rec : root_names'[k] = root_names[k]
  BY <1>1 DEF IInv, Shape
<1>5. [k \in 1..(rec + 1) |-> root_names'[k]]
        = [k \in 1..(rec + 1) |-> IF k <= rec THEN [m \in 1..rec |-> root_names[m]][k]
                                  ELSE [m \in 1..(rec + 1) |-> root_names'[m]][k]]
  BY <1>1, <1>4
<1>. QED BY <1>1, <1>2, <1>3, <1>5 DEF Outline!Open

LEMMA IdleEndMaps ==
  ASSUME IInv, IdleEnd
  PROVE  Outline!Next
<1>1. CASE tok.type = "T_EOF"
  <2>1. /\ step = "handle" /\ step' = "unwind" /\ res' = 0 /\ rec' = rec /\ rec \in Nat
        /\ root_names' = root_names /\ end_name' = Empty
    BY <1>1 DEF IdleEnd, In, Return, call, IInv, Leads, Shape
  <2>2. FinalDepth = rec /\ Status = "open"
    BY <2>1 DEF FinalDepth, Status
  <2>3. CASE rec = 0
    <3>1. FinalDepth' = 0 /\ Status' = "ended"
      BY <2>1, <2>3 DEF FinalDepth, Status
    <3>2. Outline!End
      BY <2>1, <2>2, <2>3, <3>1 DEF Outline!End
    <3>. QED BY <3>2 DEF Outline!Next
  <2>4. CASE rec > 0
    <3>1. FinalDepth' = rec - 1 /\ Status' = "closing"
      BY <2>1, <2>4 DEF FinalDepth, Status
    <3>2. [m \in 1..(rec - 1) |-> root_names[m]] = [m \in 1..(rec - 1) |-> [k \in 1..rec |-> root_names[k]][m]]
      BY <2>1
    <3>3. Outline!CloseLast
      BY <2>1, <2>2, <2>4, <3>1, <3>2 DEF Outline!CloseLast
    <3>. QED BY <3>3 DEF Outline!Next
  <2>. QED BY <2>1, <2>3, <2>4
<1>2. CASE tok.type # "T_EOF"
  <2>1. step = "handle" /\ Return(-1)
    BY <1>2 DEF IdleEnd, In
  <2>. QED BY <2>1, ReturnFails DEF Outline!Next
<1>. QED BY <1>1, <1>2

LEMMA NodeCloseMaps ==
  ASSUME NodeClose
  PROVE  Outline!Next
<1>. DEFINE r == Innermost(strtoupper[tok.text])
<1>1. CASE tok.type = "T_IDENT" /\ (r = rec \/ "RELAXED" \in flags)
  <2>1. step = "handle" /\ step' = "read" /\ rec' = rec /\ root_names' = root_names
    BY <1>1 DEF NodeClose, In, EndTag, call
  <2>2. FinalDepth = rec /\ FinalDepth' = rec /\ Status = "open" /\ Status' = "open"
    BY <2>1 DEF FinalDepth, Status
  <2>3. Outline!Name
    BY <2>1, <2>2 DEF Outline!Name
  <2>. QED BY <2>3 DEF Outline!Next
<1>2. CASE ~(tok.type = "T_IDENT" /\ (r = rec \/ "RELAXED" \in flags))
  BY <1>2, ReturnFails DEF NodeClose, In, Outline!Next
<1>. QED BY <1>1, <1>2

LEMMA TagTermMaps ==
  ASSUME IInv, TagTerm
  PROVE  [Outline!Next]_Outline!vars
<1>1. CASE tok.type = "T_M_STOP_1"
  <2>1. /\ step = "handle" /\ step' = "unwind" /\ res' = retval /\ rec' = rec /\ rec \in Nat
        /\ root_names' = root_names /\ end_name' = end_name
    BY <1>1 DEF TagTerm, In, Return, call, rest, IInv, Shape
  <2>2. /\ retval \in Int /\ (retval = 0 \/ retval < -1)
        /\ Closed \in 1..rec /\ root_names[Closed] = end_name
        /\ \A m \in (Closed + 1)..rec : root_names[m] # end_name
    BY <1>1 DEF TagTerm, In, IInv, Leads
  <2>3. FinalDepth = rec /\ Status = "open"
    BY <2>1 DEF FinalDepth, Status
  <2>4. PICK k \in 1..rec : k = Closed
    BY <2>2
  <2>5. FinalDepth' = k - 1 /\ Status' = "closing"
    BY <2>1, <2>2, <2>4 DEF FinalDepth, Status, Closed
  <2>6. [m \in 1..(k - 1) |-> root_names[m]]
          = [m \in 1..(k - 1) |-> [l \in 1..rec |-> root_names[l]][m]]
    BY <2>1
  <2>7. Outline!Close(k)
    BY <2>1, <2>2, <2>3, <2>4, <2>5, <2>6 DEF Outline!Close
  <2>. QED BY <2>3, <2>7 DEF Outline!Next
<1>2. CASE tok.type # "T_M_STOP_1" /\ is_space(tok.text)
  BY <1>2, MoveUnseen DEF TagTerm, In
<1>3. CASE tok.type # "T_M_STOP_1" /\ ~is_space(tok.text)
  BY <1>3, ReturnFails DEF TagTerm, In, Outline!Next
<1>. QED BY <1>1, <1>2, <1>3

LEMMA UnwindMaps ==
  ASSUME IInv, Unwind
  PROVE  [Outline!Next]_Outline!vars
<1>1. /\ step = "unwind" /\ rec \in Nat /\ rec > 0 /\ rec' = rec - 1 /\ root_names' = root_names
      /\ res' = (IF res < -1 THEN Passed(res) ELSE res) /\ end_name' = end_name
      /\ step' = (IF res = 0 THEN "read" ELSE "unwind")
  BY DEF Unwind, IInv, Shape, rest
<1>2. res \in Int /\ (res = -1 \/ res = 0 \/ (res < -1 /\ rec + res >= 0))
  BY <1>1 DEF IInv, Returns
<1>3. CASE res = -1
  <2>1. FinalDepth = 0 /\ FinalDepth' = 0 /\ Status = "failed" /\ Status' = "failed"
    BY <1>1, <1>3 DEF FinalDepth, Status
  <2>. QED BY <1>1, <2>1 DEF Outline!vars
<1>4. CASE res = 0
  <2>1. FinalDepth = rec - 1 /\ FinalDepth' = rec - 1 /\ Status = "closing" /\ Status' = "open"
    BY <1>1, <1>4 DEF FinalDepth, Status
  <2>2. Outline!Settle
    BY <1>1, <2>1 DEF Outline!Settle
  <2>. QED BY <2>2 DEF Outline!Next
<1>5. CASE res < -1
  <2>1. res' = Passed(res) /\ step' = "unwind"
    BY <1>1, <1>5
  <2>2. FinalDepth = rec + res /\ Status = "closing"
    BY <1>1, <1>5 DEF FinalDepth, Status
  <2>3. CASE res = -2
    <3>1. res' = 0 /\ rec' > 0
      BY <1>1, <1>2, <2>1, <2>3, PassedLeads
    <3>2. FinalDepth' = rec + res /\ Status' = "closing"
      BY <1>1, <2>1, <2>3, <3>1 DEF FinalDepth, Status
    <3>. QED BY <1>1, <2>2, <3>2 DEF Outline!vars
  <2>4. CASE res # -2
    <3>1. res' = res + 1 /\ res' < -1
      BY <1>2, <1>5, <2>1, <2>4, PassedLeads
    <3>2. FinalDepth' = rec + res /\ Status' = "closing"
      BY <1>1, <1>2, <2>1, <3>1 DEF FinalDepth, Status
    <3>. QED BY <1>1, <2>2, <3>2 DEF Outline!vars
  <2>. QED BY <2>3, <2>4
<1>. QED BY <1>2, <1>3, <1>4, <1>5

LEMMA BuildTreeMaps ==
  ASSUME IInv, BuildTree
  PROVE  UNCHANGED Outline!vars
<1>1. /\ step = "unwind" /\ step' = "over" /\ rec = 0 /\ rec' = rec /\ root_names' = root_names
      /\ end_name' = end_name /\ res' = res
  BY DEF BuildTree, call
<1>2. res = -1 \/ res = 0
  BY <1>1 DEF IInv, Returns
<1>3. FinalDepth = 0 /\ FinalDepth' = 0 /\ Status' = Status
  BY <1>1, <1>2 DEF FinalDepth, Status
<1>. QED BY <1>1, <1>3 DEF Outline!vars

LEMMA HandleMaps ==
  ASSUME IInv, Handle
  PROVE  [Outline!Next]_Outline!vars
<1>1. CASE OpenElement \/ IdleEnd \/ NodeClose \/ TagTerm
  BY <1>1, OpenMaps, IdleEndMaps, NodeCloseMaps, TagTermMaps DEF Outline!Next
<1>2. CASE OpenTooDeep
  BY <1>2, ReturnFails DEF OpenTooDeep, In, Outline!Next
<1>3. CASE IdleMarkup
  BY <1>3, MoveUnseen DEF IdleMarkup, In
<1>4. CASE IdleText \/ Leaf \/ PropertyName
  BY <1>4, Unseen DEF IdleText, Leaf, PropertyName, In, call, rest
<1>5. CASE TagName
  <2>1. CASE tok.type = "T_IDENT"
    BY <1>5, <2>1, Unseen DEF TagName, call, rest
  <2>2. CASE tok.type # "T_IDENT"
    BY <1>5, <2>2, ReturnFails DEF TagName, Outline!Next
  <2>. QED BY <2>1, <2>2
<1>6. CASE AttributeOther \/ PropertyEquals \/ TagTermIgnore \/ Skipped
  <2>1. step = "handle" /\ (Return(-1) \/ \E st \in States : Move(st))
    BY <1>6 DEF AttributeOther, PropertyEquals, TagTermIgnore, Skipped, In, States
  <2>. QED BY <2>1, ReturnFails, MoveUnseen DEF Outline!Next
<1>7. CASE PropertyAlone
  BY <1>7, Unseen DEF PropertyAlone, Again, call, rest
<1>8. CASE PropertyValue
  <2>1. CASE tok.type \in {"T_STRING", "T_IDENT"}
    BY <1>8, <2>1, Unseen DEF PropertyValue, Space, call, rest
  <2>2. CASE tok.type \notin {"T_STRING", "T_IDENT"}
    <3>1. step = "handle" /\ (Move(state) \/ Return(-1))
      BY <1>8, <2>2 DEF PropertyValue
    <3>. QED BY <3>1, ReturnFails, MoveUnseen DEF Outline!Next
  <2>. QED BY <2>1, <2>2
<1>9. CASE CdataSection
  <2>1. CASE tok.type = "T_CDATA_STOP"
    BY <1>9, <2>1, Unseen DEF CdataSection, In, call, rest
  <2>2. CASE tok.type # "T_CDATA_STOP"
    BY <1>9, <2>2, ReturnFails DEF CdataSection, In, Outline!Next
  <2>. QED BY <2>1, <2>2
<1>. QED BY <1>1, <1>2, <1>3, <1>4, <1>5, <1>6, <1>7, <1>8, <1>9 DEF Handle

LEMMA InitMaps == TreeInit => Outline!Init
<1>. SUFFICES ASSUME TreeInit PROVE Outline!Init
  OBVIOUS
<1>1. step = "read" /\ rec = 0 /\ end_name = Empty
  BY DEF TreeInit
<1>2. FinalDepth = 0 /\ Status = "open"
  BY <1>1 DEF FinalDepth, Status
<1>3. [k \in 1..FinalDepth |-> root_names[k]] = [k \in 1..0 |-> Empty]
  BY <1>2
<1>. QED BY <1>1, <1>2, <1>3 DEF Outline!Init

LEMMA NextMaps ==
  ASSUME IInv, [TreeNext]_treeVars
  PROVE  [Outline!Next]_Outline!vars
<1>1. CASE \E t \in Tokens : Read(t)
  BY <1>1, ReadMaps
<1>2. CASE Handle
  BY <1>2, HandleMaps
<1>3. CASE Unwind
  BY <1>3, UnwindMaps
<1>4. CASE BuildTree
  BY <1>4, BuildTreeMaps
<1>5. CASE UNCHANGED treeVars
  BY <1>5 DEF treeVars, FinalDepth, Status, Outline!vars
<1>. QED BY <1>1, <1>2, <1>3, <1>4, <1>5 DEF TreeNext

\* For every limit and every sequence of tokens: a start tag opens one element,
\* an end tag closes the innermost one of its name with all that it holds, and
\* an error loses everything, once and for good.
THEOREM TreeKeepsOutline == TreeSpec => Outline!Spec
<1>. QED BY InitMaps, NextMaps, CallsAreCounted, PTL DEF TreeSpec, Outline!Spec

---------------------------------------------------------------------------
\* Recursions over numbers

\* Every nonempty set of natural numbers has a least element.
LEMMA LeastNumber ==
  ASSUME NEW S \in SUBSET Nat, S # {}
  PROVE  \E m \in S : \A k \in S : m <= k
<1> DEFINE R == OpToRel(<, Nat)
<1>1. IsWellFoundedOn(R, Nat)
  BY NatLessThanWellFounded
<1>2. \A m, k \in Nat : k < m => <<k, m>> \in R
  BY DEF OpToRel
<1> HIDE DEF R
<1>3. PICK m \in S : \A k \in S : ~ (<<k, m>> \in R)
  BY <1>1, WFMin
<1>4. \A k \in S : m \in Nat /\ k \in Nat /\ ~(k < m)
  BY <1>2, <1>3
<1>5. \A k \in S : m <= k
  BY <1>4
<1> QED BY <1>5

\* Induction over the natural numbers up to n.
LEMMA UpTo ==
  ASSUME NEW n \in Nat, NEW S, 0 \in S,
         \A i \in 1..n : i - 1 \in S => i \in S
  PROVE  \A i \in 0..n : i \in S
<1> DEFINE T == {i \in 0..n : i \notin S}
<1> SUFFICES ASSUME T # {} PROVE FALSE
  OBVIOUS
<1>1. T \in SUBSET Nat
  OBVIOUS
<1> HIDE DEF T
<1>2. PICK m \in T : \A k \in T : m <= k
  BY <1>1, LeastNumber
<1>3. m \in 1..n /\ m - 1 \in 0..n
  BY <1>2 DEF T
<1>4. m - 1 \notin T
  BY <1>2, <1>3
<1> QED BY <1>2, <1>3, <1>4 DEF T

\* The solutions of a recursion over 0..n, whose values are in V.
Runs(n, V, v, turn) ==
  {f \in [0..n -> V] : f[0] = v /\ \A i \in 1..n : f[i] = turn[<<i, f[i - 1]>>]}

\* A recursion over 0..n has a solution.
LEMMA RunExists ==
  ASSUME NEW n \in Nat, NEW V, NEW v \in V, NEW turn \in [(1..n) \X V -> V]
  PROVE  Runs(n, V, v, turn) # {}
<1> DEFINE S == {m \in 0..n : Runs(m, V, v, turn) # {}}
<1>1. 0 \in S
  <2> DEFINE f == [i \in 0..0 |-> v]
  <2>1. f \in [0..0 -> V] /\ f[0] = v
    OBVIOUS
  <2> HIDE DEF f
  <2>2. f \in Runs(0, V, v, turn)
    BY <2>1 DEF Runs
  <2> QED BY <2>2
<1>2. ASSUME NEW m \in 1..n, m - 1 \in S PROVE m \in S
  <2>1. PICK f \in Runs(m - 1, V, v, turn) : TRUE
    BY <1>2
  <2>2. /\ f \in [0..(m - 1) -> V] /\ f[0] = v
        /\ \A i \in 1..(m - 1) : f[i] = turn[<<i, f[i - 1]>>]
    BY <2>1 DEF Runs
  <2> DEFINE g == [i \in 0..m |-> IF i = m THEN turn[<<m, f[m - 1]>>] ELSE f[i]]
  <2>3. turn[<<m, f[m - 1]>>] \in V
    BY <2>2
  <2>4. g \in [0..m -> V]
    BY <2>2, <2>3
  <2>5. (\A i \in 0..(m - 1) : g[i] = f[i]) /\ g[m] = turn[<<m, f[m - 1]>>]
    OBVIOUS
  <2> HIDE DEF g
  <2>6. ASSUME NEW i \in 1..m PROVE g[i] = turn[<<i, g[i - 1]>>]
    <3>1. CASE i = m
      BY <2>5, <3>1
    <3>2. CASE i # m
      BY <2>2, <2>5, <3>2
    <3> QED BY <3>1, <3>2
  <2>7. g \in Runs(m, V, v, turn)
    BY <2>2, <2>4, <2>5, <2>6 DEF Runs
  <2> QED BY <2>7
<1> HIDE DEF S
<1>3. \A i \in 0..n : i \in S
  BY <1>1, <1>2, UpTo
<1> QED BY <1>3 DEF S

---------------------------------------------------------------------------
\* The lexer

\* What a scan is, but for its comment.
ScanIs(r, pos, mode, size, st, text, type) ==
  /\ r \in Scans
  /\ r.lx.pos = pos /\ r.lx.mode = mode /\ r.lx.tok_size = size
  /\ r.state = st /\ r.tok = text /\ r.type = type

LEMMA SkipIs ==
  ASSUME NEW s \in Scans, NEW n \in Nat
  PROVE  ScanIs(Skip(s, n), s.lx.pos + n, s.lx.mode, s.lx.tok_size, s.state, s.tok, s.type)
BY DEF Skip, ScanIs, Scans, Lexer

LEMMA TakeIs ==
  ASSUME NEW s \in Scans, NEW c, s.tok \o c \in STRING
  PROVE  ScanIs(Take(s, c), s.lx.pos + 1, s.lx.mode, s.lx.tok_size, s.state, s.tok \o c, s.type)
BY SkipIs DEF Take, ScanIs, Scans

LEMMA GotoIs ==
  ASSUME NEW s \in Scans, NEW st \in LexerStates
  PROVE  ScanIs(Goto(s, st), s.lx.pos, s.lx.mode, s.lx.tok_size, st, s.tok, s.type)
BY DEF Goto, ScanIs, Scans

LEMMA EmitIs ==
  ASSUME NEW s \in Scans, NEW t \in TokenTypes
  PROVE  ScanIs(Emit(s, t), s.lx.pos, s.lx.mode, s.lx.tok_size, s.state, s.tok, t)
BY DEF Emit, ScanIs, Scans

LEMMA InModeIs ==
  ASSUME NEW s \in Scans, NEW m \in Modes
  PROVE  ScanIs(InMode(s, m), s.lx.pos, m, s.lx.tok_size, s.state, s.tok, s.type)
BY DEF InMode, ScanIs, Scans, Lexer

LEMMA StopIs ==
  ASSUME NEW s \in Scans, NEW t \in TokenTypes
  PROVE  \E m \in Modes :
           ScanIs(Stop(s, t), s.lx.pos, m, s.lx.tok_size, s.state, s.tok, t)
<1>1. CASE s.lx.in_comment
  BY <1>1, EmitIs DEF Stop, Scans, Lexer
<1>2. CASE ~s.lx.in_comment
  <2>1. "DATA" \in Modes
    BY DEF Modes
  <2>2. ScanIs(InMode(s, "DATA"), s.lx.pos, "DATA", s.lx.tok_size, s.state, s.tok, s.type)
    BY <2>1, InModeIs
  <2>3. ScanIs(Emit(InMode(s, "DATA"), t), s.lx.pos, "DATA", s.lx.tok_size, s.state, s.tok, t)
    BY <2>2, EmitIs DEF ScanIs
  <2> QED BY <1>2, <2>1, <2>3 DEF Stop
<1> QED BY <1>1, <1>2

LEMMA GrowIs ==
  ASSUME NEW s \in Scans, LiteralsAreLong
  PROVE  ScanIs(Grow(s), s.lx.pos, s.lx.mode, 2 * s.lx.tok_size, "IDLE", Empty, s.type)
<1>1. Empty \in STRING
  BY DEF LiteralsAreLong
<1>2. "IDLE" \in LexerStates
  BY DEF LexerStates
<1>3. s.lx.tok_size \in Nat /\ 2 * s.lx.tok_size \in Nat
  BY DEF Scans, Lexer
<1> QED BY <1>1, <1>2, <1>3 DEF Grow, ScanIs, Scans, Lexer

---------------------------------------------------------------------------
\* Strings

LEMMA ConcatIs ==
  ASSUME StringsAreSequences(STRING), NEW s \in STRING, NEW t \in STRING
  PROVE  s \o t \in STRING /\ Len(s \o t) = Len(s) + Len(t) /\ Len(s) \in Nat /\ Len(t) \in Nat
BY DEF StringsAreSequences

LEMMA PartIs ==
  ASSUME StringsAreSequences(STRING), NEW s \in STRING,
         NEW m \in 1..(Len(s) + 1), NEW n \in (m - 1)..Len(s)
  PROVE  SubSeq(s, m, n) \in STRING /\ Len(SubSeq(s, m, n)) = n - m + 1
BY DEF StringsAreSequences

LEMMA LenIs ==
  ASSUME StringsAreSequences(STRING), NEW s \in STRING
  PROVE  Len(s) \in Nat
BY DEF StringsAreSequences

LEMMA AtIs ==
  ASSUME StringsAreSequences(STRING), NEW s \in STRING, NEW p \in Nat, p < Len(s)
  PROVE  At(s, p) \in STRING /\ Len(At(s, p)) = 1
<1>1. PICK n \in Nat : n = Len(s)
  BY LenIs
<1>2. p < n
  BY <1>1
<1>3. PICK q \in Nat : q = p + 1
  OBVIOUS
<1>4. q \in 1..(n + 1) /\ q \in (q - 1)..n /\ q - q + 1 = 1
  BY <1>2, <1>3
<1>5. q \in 1..(Len(s) + 1) /\ q \in (q - 1)..Len(s)
  BY <1>1, <1>4
<1>6. SubSeq(s, q, q) \in STRING /\ Len(SubSeq(s, q, q)) = q - q + 1
  BY <1>5, PartIs
<1>7. At(s, p) = SubSeq(s, q, q)
  BY <1>3 DEF At
<1> QED BY <1>4, <1>6, <1>7

LEMMA FromIs ==
  ASSUME StringsAreSequences(STRING), NEW s \in STRING, NEW p \in Nat, p <= Len(s)
  PROVE  From(s, p) \in STRING /\ Len(From(s, p)) = Len(s) - p
<1>1. PICK n \in Nat : n = Len(s)
  BY LenIs
<1>2. p <= n
  BY <1>1
<1>3. PICK q \in Nat : q = p + 1
  OBVIOUS
<1>4. q \in 1..(n + 1) /\ n \in (q - 1)..n /\ n - q + 1 = n - p
  BY <1>2, <1>3
<1>5. q \in 1..(Len(s) + 1) /\ n \in (q - 1)..Len(s)
  BY <1>1, <1>4
<1>6. SubSeq(s, q, n) \in STRING /\ Len(SubSeq(s, q, n)) = n - q + 1
  BY <1>5, PartIs
<1>7. From(s, p) = SubSeq(s, q, n)
  BY <1>1, <1>3 DEF From
<1> QED BY <1>1, <1>4, <1>6, <1>7

\* What a text from p on begins with ends within the text.
LEMMA StartIs ==
  ASSUME StringsAreSequences(STRING), NEW s \in STRING, NEW p \in Nat, p <= Len(s),
         NEW z, Len(z) \in Nat, StartsWith(From(s, p), z)
  PROVE  p + Len(z) <= Len(s)
<1>1. PICK n \in Nat : n = Len(s)
  BY LenIs
<1>2. PICK k \in Nat : k = Len(z)
  OBVIOUS
<1>3. Len(From(s, p)) = n - p
  BY <1>1, FromIs
<1>4. k <= n - p
  BY <1>2, <1>3 DEF StartsWith
<1>5. p + k <= n
  BY <1>4
<1> QED BY <1>1, <1>2, <1>5

---------------------------------------------------------------------------
\* The scan of a token

\* How far a scan has come: what it holds was read since its beginning.
InBuffer(s, from, buf) ==
  /\ s \in Scans
  /\ s.lx.tok_size > 0
  /\ from.pos <= s.lx.pos /\ s.lx.pos <= Len(buf)

\* A token that is not known yet.
Underway(s, from) ==
  /\ Len(s.tok) <= s.lx.pos - from.pos
  /\ s.lx.mode = from.mode
  /\ s.state # "IDLE" => s.lx.mode = "NORMAL" /\ s.lx.pos > from.pos
  /\ s.state \in {"IDENT", "T_DASHDASH"} => Len(s.tok) >= 1
  /\ s.state = "T_C_STOP" => Len(s.tok) >= 2

\* A token that is known: LexerMovesOn.
MovedOn(s, from) ==
  /\ \/ s.lx.pos > from.pos
     \/ from.mode = "DATA" /\ s.lx.mode = "NORMAL"
     \/ s.type \in {"T_EOF", "T_ERROR"}
  /\ s.type = "T_IDENT" => Len(s.tok) >= 1

ScanInv(s, from, buf) ==
  /\ InBuffer(s, from, buf)
  /\ s.type = NoType => Underway(s, from)
  /\ s.type # NoType => MovedOn(s, from)

\* A scan that can take a character.
Reads(s, from, buf) == ScanInv(s, from, buf) /\ s.type = NoType /\ s.lx.pos < Len(buf)

\* What becomes of it: a token, or a scan that has moved on.
Progress(r, s, from, buf) ==
  ScanInv(r, from, buf) /\ (r.type = NoType => r.lx.pos > s.lx.pos)

LEMMA UnderwayOK ==
  ASSUME NEW buf \in STRING, NEW from \in Lexer, NEW s, Reads(s, from, buf),
         StringsAreSequences(STRING),
         NEW r, NEW st \in LexerStates, NEW text \in STRING,
         ScanIs(r, s.lx.pos + 1, s.lx.mode, s.lx.tok_size, st, text, s.type),
         Len(text) <= Len(s.tok) + 1, st # "IDLE" => s.lx.mode = "NORMAL",
         st \in {"IDENT", "T_DASHDASH"} => Len(text) >= 1,
         st = "T_C_STOP" => Len(text) >= 2
  PROVE  Progress(r, s, from, buf)
<1>1. /\ s \in Scans /\ s.lx.pos \in Nat /\ s.lx.tok_size \in Nat /\ from.pos \in Nat
      /\ s.tok \in STRING
  BY DEF Reads, ScanInv, InBuffer, Scans, Lexer
<1>2. Len(text) \in Nat /\ Len(s.tok) \in Nat /\ Len(buf) \in Nat
  BY <1>1, LenIs
<1>3. /\ s.lx.tok_size > 0 /\ from.pos <= s.lx.pos /\ s.lx.pos < Len(buf)
      /\ Len(s.tok) <= s.lx.pos - from.pos /\ s.lx.mode = from.mode /\ s.type = NoType
  BY DEF Reads, ScanInv, InBuffer, Underway
<1>4. /\ r \in Scans /\ r.lx.pos = s.lx.pos + 1 /\ r.lx.mode = s.lx.mode
      /\ r.lx.tok_size = s.lx.tok_size /\ r.state = st /\ r.tok = text /\ r.type = s.type
  BY DEF ScanIs
<1>5. /\ from.pos <= r.lx.pos /\ r.lx.pos <= Len(buf) /\ r.lx.pos > from.pos
      /\ Len(r.tok) <= r.lx.pos - from.pos /\ r.lx.pos > s.lx.pos
  BY <1>1, <1>2, <1>3, <1>4
<1>6. InBuffer(r, from, buf)
  BY <1>3, <1>4, <1>5 DEF InBuffer
<1>7. Underway(r, from)
  BY <1>3, <1>4, <1>5 DEF Underway
<1> QED BY <1>3, <1>4, <1>5, <1>6, <1>7 DEF Progress, ScanInv

LEMMA EmittedOK ==
  ASSUME NEW buf \in STRING, NEW from \in Lexer, NEW s, Reads(s, from, buf),
         StringsAreSequences(STRING),
         NEW r, NEW pos \in Nat, NEW m \in Modes, NEW st \in LexerStates, NEW text \in STRING,
         NEW t \in TokenTypes,
         ScanIs(r, pos, m, s.lx.tok_size, st, text, t),
         from.pos <= pos, pos <= Len(buf),
         pos > from.pos \/ (from.mode = "DATA" /\ m = "NORMAL") \/ t \in {"T_EOF", "T_ERROR"},
         t = "T_IDENT" => Len(text) >= 1
  PROVE  Progress(r, s, from, buf)
<1>1. s.lx.tok_size > 0
  BY DEF Reads, ScanInv, InBuffer
<1>2. /\ r \in Scans /\ r.lx.pos = pos /\ r.lx.mode = m
      /\ r.lx.tok_size = s.lx.tok_size /\ r.state = st /\ r.tok = text /\ r.type = t
  BY DEF ScanIs
<1>3. InBuffer(r, from, buf)
  BY <1>1, <1>2 DEF InBuffer
<1>4. MovedOn(r, from)
  BY <1>2 DEF MovedOn
<1>5. t # NoType
  BY DEF TokenTypes, NoType
<1> QED BY <1>2, <1>3, <1>4, <1>5 DEF Progress, ScanInv

---------------------------------------------------------------------------
\* What the states of the scan do with a character

\* What is known of a scan that can take a character.
LEMMA ReadsIs ==
  ASSUME NEW buf \in STRING, NEW from \in Lexer, NEW s, Reads(s, from, buf),
         StringsAreSequences(STRING)
  PROVE  /\ s \in Scans /\ s.lx.mode \in Modes /\ s.state \in LexerStates /\ s.type = NoType
         /\ s.lx.pos \in Nat /\ s.lx.tok_size \in Nat /\ from.pos \in Nat
         /\ s.tok \in STRING /\ Len(s.tok) \in Nat /\ Len(buf) \in Nat
         /\ from.pos <= s.lx.pos /\ s.lx.pos < Len(buf) /\ Len(s.tok) <= s.lx.pos - from.pos
         /\ s.lx.mode = from.mode /\ s.lx.tok_size > 0
         /\ s.state # "IDLE" => s.lx.mode = "NORMAL" /\ s.lx.pos > from.pos
         /\ s.state \in {"IDENT", "T_DASHDASH"} => Len(s.tok) >= 1
         /\ s.state = "T_C_STOP" => Len(s.tok) >= 2
<1>1. /\ s \in Scans /\ s.lx.mode \in Modes /\ s.state \in LexerStates
      /\ s.lx.pos \in Nat /\ s.lx.tok_size \in Nat /\ from.pos \in Nat /\ s.tok \in STRING
  BY DEF Reads, ScanInv, InBuffer, Scans, Lexer
<1>2. Len(s.tok) \in Nat /\ Len(buf) \in Nat
  BY <1>1, LenIs
<1> QED BY <1>1, <1>2 DEF Reads, ScanInv, InBuffer, Underway

LEMMA TakeOK ==
  ASSUME NEW buf \in STRING, NEW from \in Lexer, NEW s, Reads(s, from, buf),
         StringsAreSequences(STRING),
         NEW c \in STRING, Len(c) = 1, NEW st \in LexerStates,
         st # "IDLE" => s.lx.mode = "NORMAL", st = "T_C_STOP" => Len(s.tok) >= 1
  PROVE  /\ Progress(Goto(Take(s, c), st), s, from, buf)
         /\ Progress(Take(Goto(s, st), c), s, from, buf)
         /\ st = s.state => Progress(Take(s, c), s, from, buf)
<1>1. s \in Scans /\ s.tok \in STRING /\ Len(s.tok) \in Nat
  BY ReadsIs
<1> DEFINE text == s.tok \o c
<1>2. text \in STRING /\ Len(text) = Len(s.tok) + 1
  BY <1>1, ConcatIs
<1>3. PICK n \in Nat : n = Len(s.tok)
  BY <1>1
<1>4. Len(text) = n + 1
  BY <1>2, <1>3
<1>5. /\ Len(text) <= Len(s.tok) + 1 /\ Len(text) >= 1
      /\ st = "T_C_STOP" => Len(text) >= 2
  BY <1>3, <1>4
<1>6. ScanIs(Take(s, c), s.lx.pos + 1, s.lx.mode, s.lx.tok_size, s.state, text, s.type)
  BY <1>1, <1>2, TakeIs
<1>7. ScanIs(Goto(Take(s, c), st), s.lx.pos + 1, s.lx.mode, s.lx.tok_size, st, text, s.type)
  BY <1>6, GotoIs DEF ScanIs
<1>8. ScanIs(Goto(s, st), s.lx.pos, s.lx.mode, s.lx.tok_size, st, s.tok, s.type)
  BY <1>1, GotoIs
<1>9. ScanIs(Take(Goto(s, st), c), s.lx.pos + 1, s.lx.mode, s.lx.tok_size, st, text, s.type)
  BY <1>2, <1>8, TakeIs DEF ScanIs
<1> HIDE DEF text
<1> QED BY <1>2, <1>5, <1>6, <1>7, <1>9, UnderwayOK

LEMMA SkipOK ==
  ASSUME NEW buf \in STRING, NEW from \in Lexer, NEW s, Reads(s, from, buf),
         StringsAreSequences(STRING), NEW st \in LexerStates, s.lx.mode = "NORMAL",
         st \notin {"IDENT", "T_DASHDASH", "T_C_STOP"}
  PROVE  /\ Progress(Skip(Goto(s, st), 1), s, from, buf)
         /\ st = s.state => Progress(Skip(s, 1), s, from, buf)
<1>1. s \in Scans /\ s.tok \in STRING
  BY ReadsIs
<1>2. PICK n \in Nat : n = Len(s.tok)
  BY ReadsIs
<1>3. Len(s.tok) <= Len(s.tok) + 1
  BY <1>2
<1>4. ScanIs(Skip(s, 1), s.lx.pos + 1, s.lx.mode, s.lx.tok_size, s.state, s.tok, s.type)
  BY <1>1, SkipIs
<1>5. ScanIs(Goto(s, st), s.lx.pos, s.lx.mode, s.lx.tok_size, st, s.tok, s.type)
  BY <1>1, GotoIs
<1>6. ScanIs(Skip(Goto(s, st), 1), s.lx.pos + 1, s.lx.mode, s.lx.tok_size, st, s.tok, s.type)
  BY <1>5, SkipIs DEF ScanIs
<1> QED BY <1>1, <1>3, <1>4, <1>6, UnderwayOK

\* A token that ends n characters further on.
LEMMA EmitSkippedOK ==
  ASSUME NEW buf \in STRING, NEW from \in Lexer, NEW s, Reads(s, from, buf),
         StringsAreSequences(STRING), NEW n \in Nat, s.lx.pos + n <= Len(buf),
         NEW t \in TokenTypes,
         s.lx.pos + n > from.pos \/ t \in {"T_EOF", "T_ERROR"},
         t = "T_IDENT" => Len(s.tok) >= 1
  PROVE  Progress(Emit(Skip(s, n), t), s, from, buf)
<1>1. /\ s \in Scans /\ s.tok \in STRING /\ s.lx.mode \in Modes /\ s.state \in LexerStates
      /\ s.lx.pos \in Nat /\ from.pos \in Nat /\ from.pos <= s.lx.pos
  BY ReadsIs
<1>2. PICK pos \in Nat : pos = s.lx.pos + n
  BY <1>1
<1>3. ScanIs(Skip(s, n), pos, s.lx.mode, s.lx.tok_size, s.state, s.tok, s.type)
  BY <1>1, <1>2, SkipIs
<1>4. ScanIs(Emit(Skip(s, n), t), pos, s.lx.mode, s.lx.tok_size, s.state, s.tok, t)
  BY <1>3, EmitIs DEF ScanIs
<1>5. from.pos <= pos /\ pos <= Len(buf)
  BY <1>1, <1>2
<1> QED BY <1>1, <1>2, <1>4, <1>5, EmittedOK

LEMMA EmitHereOK ==
  ASSUME NEW buf \in STRING, NEW from \in Lexer, NEW s, Reads(s, from, buf),
         StringsAreSequences(STRING), NEW t \in TokenTypes,
         s.lx.pos > from.pos \/ t \in {"T_EOF", "T_ERROR"},
         t = "T_IDENT" => Len(s.tok) >= 1
  PROVE  /\ Progress(Emit(s, t), s, from, buf)
         /\ Progress(Stop(s, t), s, from, buf)
<1>1. /\ s \in Scans /\ s.tok \in STRING /\ s.lx.mode \in Modes /\ s.state \in LexerStates
      /\ s.lx.pos \in Nat /\ from.pos <= s.lx.pos
  BY ReadsIs
<1>2. PICK n \in Nat : n = Len(buf)
  BY ReadsIs
<1>3. s.lx.pos < n
  BY <1>2, ReadsIs
<1>4. s.lx.pos <= Len(buf)
  BY <1>1, <1>2, <1>3
<1>5. ScanIs(Emit(s, t), s.lx.pos, s.lx.mode, s.lx.tok_size, s.state, s.tok, t)
  BY <1>1, EmitIs
<1>6. PICK m \in Modes :
        ScanIs(Stop(s, t), s.lx.pos, m, s.lx.tok_size, s.state, s.tok, t)
  BY <1>1, StopIs
<1>7. Progress(Emit(s, t), s, from, buf)
  BY <1>1, <1>4, <1>5, EmittedOK
<1>8. Progress(Stop(s, t), s, from, buf)
  BY <1>1, <1>4, <1>6, EmittedOK
<1> QED BY <1>7, <1>8

LEMMA EmitTakenOK ==
  ASSUME NEW buf \in STRING, NEW from \in Lexer, NEW s, Reads(s, from, buf),
         StringsAreSequences(STRING), NEW c \in STRING, Len(c) = 1, NEW t \in TokenTypes
  PROVE  /\ Progress(Emit(Take(s, c), t), s, from, buf)
         /\ Progress(Stop(Take(s, c), t), s, from, buf)
<1>1. /\ s \in Scans /\ s.tok \in STRING /\ s.lx.mode \in Modes /\ s.state \in LexerStates
      /\ s.lx.pos \in Nat /\ from.pos \in Nat /\ from.pos <= s.lx.pos /\ Len(s.tok) \in Nat
  BY ReadsIs
<1>2. PICK n \in Nat : n = Len(buf)
  BY ReadsIs
<1>3. PICK k \in Nat : k = Len(s.tok)
  BY <1>1
<1> DEFINE text == s.tok \o c
<1>4. text \in STRING /\ Len(text) = k + 1
  BY <1>1, <1>3, ConcatIs
<1>5. Len(text) >= 1
  BY <1>4
<1>6. s.lx.pos < n
  BY <1>2, ReadsIs
<1>7. PICK pos \in Nat : pos = s.lx.pos + 1
  BY <1>1
<1>8. from.pos <= pos /\ pos > from.pos /\ pos <= n
  BY <1>1, <1>6, <1>7
<1>9. pos <= Len(buf)
  BY <1>2, <1>8
<1>10. ScanIs(Take(s, c), pos, s.lx.mode, s.lx.tok_size, s.state, text, s.type)
  BY <1>1, <1>4, <1>7, TakeIs
<1>11. /\ Take(s, c) \in Scans /\ Take(s, c).lx.pos = pos /\ Take(s, c).lx.mode = s.lx.mode
       /\ Take(s, c).lx.tok_size = s.lx.tok_size /\ Take(s, c).state = s.state
       /\ Take(s, c).tok = text
  BY <1>10 DEF ScanIs
<1> HIDE DEF text
<1>12. ScanIs(Emit(Take(s, c), t), pos, s.lx.mode, s.lx.tok_size, s.state, text, t)
  BY <1>11, EmitIs
<1>13. PICK m \in Modes :
         ScanIs(Stop(Take(s, c), t), pos, m, s.lx.tok_size, s.state, text, t)
  BY <1>11, StopIs
<1>14. Progress(Emit(Take(s, c), t), s, from, buf)
  BY <1>1, <1>4, <1>5, <1>8, <1>9, <1>12, EmittedOK
<1>15. Progress(Stop(Take(s, c), t), s, from, buf)
  BY <1>1, <1>4, <1>5, <1>8, <1>9, <1>13, EmittedOK
<1> QED BY <1>14, <1>15

LEMMA IdleScanOK ==
  ASSUME NEW buf \in STRING, NEW from \in Lexer, NEW s, Reads(s, from, buf),
         StringsAreSequences(STRING), NEW c \in STRING, Len(c) = 1, s.lx.mode = "NORMAL"
  PROVE  Progress(Idle(s, c), s, from, buf)
<1> DEFINE st == FirstState(c, s.lx.in_comment)
<1>1. st \in LexerStates /\ st # "T_C_STOP"
  BY DEF FirstState, LexerStates
<1>2. c \in {"\"", "'"} => st \notin {"IDENT", "T_DASHDASH", "T_C_STOP"}
  BY DEF FirstState
<1>3. Idle(s, c) = IF c \in {"\"", "'"} THEN Skip(Goto(s, st), 1) ELSE Take(Goto(s, st), c)
  BY DEF Idle
<1> HIDE DEF st
<1>4. CASE c \in {"\"", "'"}
  BY <1>1, <1>2, <1>3, <1>4, SkipOK
<1>5. CASE c \notin {"\"", "'"}
  BY <1>1, <1>3, <1>5, TakeOK
<1> QED BY <1>4, <1>5

LEMMA RunOfOK ==
  ASSUME NEW buf \in STRING, NEW from \in Lexer, NEW s, Reads(s, from, buf),
         StringsAreSequences(STRING), NEW c \in STRING, Len(c) = 1, s.state \notin {"IDLE", "T_C_STOP"},
         NEW class, NEW t \in TokenTypes, t # "T_IDENT"
  PROVE  Progress(RunOf(s, c, class, t), s, from, buf)
<1>1. s.state \in LexerStates /\ s.lx.mode = "NORMAL" /\ s.lx.pos > from.pos
  BY ReadsIs
<1>2. Progress(Take(s, c), s, from, buf)
  BY <1>1, TakeOK
<1>3. Progress(Emit(s, t), s, from, buf)
  BY <1>1, EmitHereOK
<1> QED BY <1>2, <1>3 DEF RunOf

LEMMA MarkupStartOK ==
  ASSUME NEW buf \in STRING, NEW from \in Lexer, NEW s, Reads(s, from, buf),
         StringsAreSequences(STRING), NEW c \in STRING, Len(c) = 1, s.state = "T_M_START"
  PROVE  Progress(MarkupStart(s, c), s, from, buf)
<1>1. s.lx.mode = "NORMAL" /\ s.lx.pos > from.pos
  BY ReadsIs
<1>2. /\ "T_COMMENT" \in LexerStates
      /\ {"T_M_START_1", "T_M_START_2", "T_TI_START"} \subseteq TokenTypes
  BY DEF LexerStates, TokenTypes
<1>3. Progress(Goto(Take(s, c), "T_COMMENT"), s, from, buf)
  BY <1>1, <1>2, TakeOK
<1>4. \A t \in {"T_M_START_2", "T_TI_START"} : Progress(Emit(Take(s, c), t), s, from, buf)
  BY <1>2, EmitTakenOK
<1>5. Progress(Emit(s, "T_M_START_1"), s, from, buf)
  BY <1>1, <1>2, EmitHereOK
<1> QED BY <1>3, <1>4, <1>5 DEF MarkupStart

LEMMA TwoPartStopOK ==
  ASSUME NEW buf \in STRING, NEW from \in Lexer, NEW s, Reads(s, from, buf),
         StringsAreSequences(STRING), NEW c \in STRING, Len(c) = 1, NEW t \in TokenTypes
  PROVE  Progress(TwoPartStop(s, c, t), s, from, buf)
<1>1. "T_ERROR" \in TokenTypes
  BY DEF TokenTypes
<1>2. Progress(Emit(s, "T_ERROR"), s, from, buf)
  BY <1>1, EmitHereOK
<1>3. Progress(Stop(Take(s, c), t), s, from, buf)
  BY EmitTakenOK
<1> QED BY <1>2, <1>3 DEF TwoPartStop

LEMMA StringOK ==
  ASSUME NEW buf \in STRING, NEW from \in Lexer, NEW s, Reads(s, from, buf),
         StringsAreSequences(STRING), NEW c \in STRING, Len(c) = 1, NEW quote, s.state \in {"T_STRING_SINGLE", "T_STRING_DOUBLE"}
  PROVE  Progress(String(s, c, quote), s, from, buf)
<1>1. /\ s.lx.mode = "NORMAL" /\ s.state \in LexerStates /\ s.lx.pos > from.pos
      /\ s.lx.pos \in Nat /\ from.pos \in Nat
  BY ReadsIs
<1>2. PICK n \in Nat : n = Len(buf)
  BY ReadsIs
<1>3. s.lx.pos < n
  BY <1>2, ReadsIs
<1>4. s.lx.pos + 1 <= n /\ s.lx.pos + 1 > from.pos /\ 1 \in Nat
  BY <1>1, <1>3
<1>5. "T_STRING" \in TokenTypes
  BY DEF TokenTypes
<1>6. Progress(Emit(Skip(s, 1), "T_STRING"), s, from, buf)
  BY <1>2, <1>4, <1>5, EmitSkippedOK
<1>7. Progress(Take(s, c), s, from, buf)
  BY <1>1, TakeOK
<1> QED BY <1>6, <1>7 DEF String

LEMMA DashOK ==
  ASSUME NEW buf \in STRING, NEW from \in Lexer, NEW s, Reads(s, from, buf),
         StringsAreSequences(STRING), NEW c \in STRING, Len(c) = 1, s.state = "T_DASHDASH"
  PROVE  Progress(Goto(Take(s, c), IF c = "-" THEN "T_C_STOP" ELSE "IDENT"), s, from, buf)
<1>1. s.lx.mode = "NORMAL" /\ Len(s.tok) >= 1
  BY ReadsIs
<1>2. "T_C_STOP" \in LexerStates /\ "IDENT" \in LexerStates
  BY DEF LexerStates
<1>3. Progress(Goto(Take(s, c), "T_C_STOP"), s, from, buf)
  BY <1>1, <1>2, TakeOK
<1>4. Progress(Goto(Take(s, c), "IDENT"), s, from, buf)
  BY <1>1, <1>2, TakeOK
<1> QED BY <1>3, <1>4

LEMMA IdentOK ==
  ASSUME NEW buf \in STRING, NEW from \in Lexer, NEW s, Reads(s, from, buf),
         StringsAreSequences(STRING), NEW c \in STRING, Len(c) = 1, s.state = "IDENT"
  PROVE  Progress(Ident(s, c), s, from, buf)
<1>1. s.lx.mode = "NORMAL" /\ s.lx.pos > from.pos /\ Len(s.tok) >= 1
  BY ReadsIs
<1>2. {"T_TI_STOP", "T_DASHDASH", "IDENT"} \subseteq LexerStates /\ "T_IDENT" \in TokenTypes
  BY DEF LexerStates, TokenTypes
<1>3. Progress(Emit(s, "T_IDENT"), s, from, buf)
  BY <1>1, <1>2, EmitHereOK
<1>4. \A st \in {"T_TI_STOP", "T_DASHDASH"} : Progress(Goto(Take(s, c), st), s, from, buf)
  BY <1>1, <1>2, TakeOK
<1>5. Progress(Take(s, c), s, from, buf)
  BY <1>1, <1>2, TakeOK
<1> QED BY <1>3, <1>4, <1>5 DEF Ident

LEMMA DataOK ==
  ASSUME NEW buf \in STRING, NEW from \in Lexer, NEW s, Reads(s, from, buf),
         StringsAreSequences(STRING), NEW c \in STRING, Len(c) = 1, s.lx.mode = "DATA"
  PROVE  Progress(Data(s, c), s, from, buf)
<1>1. /\ s \in Scans /\ s.lx.pos \in Nat /\ from.pos <= s.lx.pos /\ s.tok \in STRING
      /\ s.lx.mode = from.mode /\ s.state \in LexerStates /\ s.state = "IDLE"
  BY ReadsIs
<1>2. PICK n \in Nat : n = Len(buf)
  BY ReadsIs
<1>3. s.lx.pos < n
  BY <1>2, ReadsIs
<1>4. s.lx.pos <= Len(buf)
  BY <1>1, <1>2, <1>3
<1>5. "NORMAL" \in Modes /\ "T_DATA" \in TokenTypes
  BY DEF Modes, TokenTypes
<1>6. ScanIs(InMode(s, "NORMAL"), s.lx.pos, "NORMAL", s.lx.tok_size, s.state, s.tok, s.type)
  BY <1>1, <1>5, InModeIs
<1>7. ScanIs(Emit(InMode(s, "NORMAL"), "T_DATA"), s.lx.pos, "NORMAL", s.lx.tok_size, s.state,
             s.tok, "T_DATA")
  BY <1>5, <1>6, EmitIs DEF ScanIs
<1>8. Progress(Emit(InMode(s, "NORMAL"), "T_DATA"), s, from, buf)
  BY <1>1, <1>4, <1>5, <1>7, EmittedOK
<1>9. Progress(Take(s, c), s, from, buf)
  BY <1>1, TakeOK
<1> QED BY <1>8, <1>9 DEF Data

\* A token that ends where a scan has come to.
LEMMA LandOK ==
  ASSUME NEW buf \in STRING, NEW from \in Lexer, NEW s, Reads(s, from, buf),
         StringsAreSequences(STRING), NEW t \in TokenTypes, t # "T_IDENT",
         NEW r, NEW pos \in Nat, NEW m \in Modes, NEW text \in STRING,
         ScanIs(r, pos, m, s.lx.tok_size, s.state, text, s.type),
         pos > s.lx.pos, pos <= Len(buf)
  PROVE  Progress(Emit(r, t), s, from, buf)
<1>1. s.state \in LexerStates /\ s.lx.pos \in Nat /\ from.pos \in Nat /\ from.pos <= s.lx.pos
  BY ReadsIs
<1>2. from.pos <= pos /\ pos > from.pos
  BY <1>1
<1>3. /\ r \in Scans /\ r.lx.pos = pos /\ r.lx.mode = m
      /\ r.lx.tok_size = s.lx.tok_size /\ r.state = s.state /\ r.tok = text
  BY DEF ScanIs
<1>4. ScanIs(Emit(r, t), pos, m, s.lx.tok_size, s.state, text, t)
  BY <1>3, EmitIs
<1> QED BY <1>1, <1>2, <1>4, EmittedOK

LEMMA CdataScanOK ==
  ASSUME NEW buf \in STRING, NEW from \in Lexer, NEW s, Reads(s, from, buf),
         StringsAreSequences(STRING), LiteralsAreLong, NEW c \in STRING, Len(c) = 1, s.lx.mode = "CDATA"
  PROVE  Progress(Cdata(s, c, buf), s, from, buf)
<1>1. /\ s \in Scans /\ s.lx.pos \in Nat /\ s.tok \in STRING
      /\ s.state \in LexerStates /\ s.state = "IDLE"
  BY ReadsIs
<1>2. PICK n \in Nat : n = Len(buf)
  BY ReadsIs
<1>3. s.lx.pos < n
  BY <1>2, ReadsIs
<1>4. "DATA" \in Modes /\ "T_CDATA_STOP" \in TokenTypes
  BY DEF Modes, TokenTypes
<1>5. Progress(Take(s, c), s, from, buf)
  BY <1>1, TakeOK
<1>6. ASSUME NEW z, Len(z) = 3, StartsWith(From(buf, s.lx.pos), z)
      PROVE  Progress(Emit(InMode(Skip(s, 3), "DATA"), "T_CDATA_STOP"), s, from, buf)
  <2>1. s.lx.pos <= Len(buf)
    BY <1>1, <1>2, <1>3
  <2>2. Len(z) \in Nat
    BY <1>6
  <2>7. s.lx.pos + Len(z) <= Len(buf)
    BY <1>1, <1>6, <2>1, <2>2, StartIs
  <2>3. PICK pos \in Nat : pos = s.lx.pos + 3
    BY <1>1
  <2>4. pos <= Len(buf) /\ pos > s.lx.pos
    BY <1>1, <1>6, <2>3, <2>7
  <2>5. ScanIs(Skip(s, 3), pos, s.lx.mode, s.lx.tok_size, s.state, s.tok, s.type)
    BY <1>1, <2>3, SkipIs
  <2>6. ScanIs(InMode(Skip(s, 3), "DATA"), pos, "DATA", s.lx.tok_size, s.state, s.tok, s.type)
    BY <1>4, <2>5, InModeIs DEF ScanIs
  <2> QED BY <1>1, <1>4, <2>4, <2>6, LandOK
<1>7. Len("]]>") = 3
  BY DEF LiteralsAreLong
<1>8. StartsWith(From(buf, s.lx.pos), "]]>") =>
        Progress(Emit(InMode(Skip(s, 3), "DATA"), "T_CDATA_STOP"), s, from, buf)
  BY <1>6, <1>7
<1> QED BY <1>5, <1>8 DEF Cdata

\* A declaration of k + 1 characters.
LEMMA DeclaredIs ==
  ASSUME NEW buf \in STRING, NEW from \in Lexer, NEW s, Reads(s, from, buf),
         StringsAreSequences(STRING), NEW z, NEW k \in Nat, Len(z) = k,
         StartsWith(From(buf, Skip(s, 1).lx.pos), z)
  PROVE  /\ Skip(s, 1).lx.pos = s.lx.pos + 1
         /\ s.lx.pos + 1 + k <= Len(buf)
         /\ ScanIs(Skip(Skip(s, 1), k), s.lx.pos + 1 + k, s.lx.mode, s.lx.tok_size, s.state,
                   s.tok, s.type)
<1>1. s \in Scans /\ s.lx.pos \in Nat
  BY ReadsIs
<1>2. PICK n \in Nat : n = Len(buf)
  BY ReadsIs
<1>3. s.lx.pos < n
  BY <1>2, ReadsIs
<1>4. PICK p \in Nat : p = s.lx.pos + 1
  BY <1>1
<1>5. p <= n
  BY <1>1, <1>3, <1>4
<1>6. ScanIs(Skip(s, 1), p, s.lx.mode, s.lx.tok_size, s.state, s.tok, s.type)
  BY <1>1, <1>4, SkipIs
<1>7. Skip(s, 1).lx.pos = p
  BY <1>6 DEF ScanIs
<1>8. p <= Len(buf)
  BY <1>2, <1>5
<1>9. p + Len(z) <= Len(buf)
  BY <1>7, <1>8, StartIs
<1>10. ScanIs(Skip(Skip(s, 1), k), p + k, s.lx.mode, s.lx.tok_size, s.state, s.tok, s.type)
  BY <1>6, SkipIs DEF ScanIs
<1> QED BY <1>4, <1>7, <1>9, <1>10

LEMMA DeclarationOK ==
  ASSUME NEW buf \in STRING, NEW from \in Lexer, NEW s, Reads(s, from, buf),
         StringsAreSequences(STRING), LiteralsAreLong, NEW c \in STRING, s.state = "T_COMMENT"
  PROVE  Progress(Declaration(s, c, buf), s, from, buf)
<1> DEFINE next == Skip(s, 1)
           after == From(buf, next.lx.pos)
<1>1. /\ s \in Scans /\ s.lx.pos \in Nat /\ s.tok \in STRING /\ from.pos \in Nat
      /\ from.pos <= s.lx.pos /\ s.lx.pos > from.pos
      /\ s.state \in LexerStates /\ s.lx.mode = "NORMAL" /\ s.lx.mode \in Modes
  BY ReadsIs
<1>2. PICK n \in Nat : n = Len(buf)
  BY ReadsIs
<1>3. s.lx.pos < n
  BY <1>2, ReadsIs
<1>4. s.lx.pos + 1 <= n /\ s.lx.pos + 1 > from.pos /\ 1 \in Nat
  BY <1>1, <1>3
<1>5. /\ {"T_C_START", "T_DOCTYPE_START", "T_CDATA_START", "T_ERROR"} \subseteq TokenTypes
      /\ "CDATA" \in Modes
  BY DEF TokenTypes, Modes
<1>6. /\ Len("-") = 1 /\ Len("OCTYPE") = 6 /\ Len("CDATA[") = 6
      /\ "--" \in STRING
  BY DEF LiteralsAreLong
<1>7. ASSUME NEW z, Len(z) = 1, StartsWith(after, z), NEW dashes \in STRING
      PROVE  Progress(Emit([Skip(next, 1) EXCEPT !.tok = @ \o dashes, !.lx.in_comment = TRUE],
                           "T_C_START"), s, from, buf)
  <2>1. /\ s.lx.pos + 1 + 1 <= Len(buf)
        /\ ScanIs(Skip(next, 1), s.lx.pos + 1 + 1, s.lx.mode, s.lx.tok_size, s.state,
                  s.tok, s.type)
    BY <1>4, <1>7, DeclaredIs
  <2>2. PICK pos \in Nat : pos = s.lx.pos + 1 + 1
    BY <1>1
  <2>3. pos > s.lx.pos /\ pos <= Len(buf)
    BY <1>1, <2>1, <2>2
  <2> DEFINE text == s.tok \o dashes
             r == Skip(next, 1)
             q == [r EXCEPT !.tok = text, !.lx.in_comment = TRUE]
  <2>4. text \in STRING
    BY <1>1, ConcatIs
  <2>5. /\ r \in Scans /\ r.lx.pos = pos /\ r.lx.mode = s.lx.mode
        /\ r.lx.tok_size = s.lx.tok_size /\ r.state = s.state /\ r.tok = s.tok
        /\ r.type = s.type
    BY <2>1, <2>2 DEF ScanIs
  <2> HIDE DEF r, text, next
  <2>6. ScanIs(q, pos, s.lx.mode, s.lx.tok_size, s.state, text, s.type)
    BY <2>4, <2>5 DEF ScanIs, Scans, Lexer
  <2>7. [r EXCEPT !.tok = @ \o dashes, !.lx.in_comment = TRUE] = q
    BY <2>5 DEF text, Scans
  <2> HIDE DEF q
  <2>8. Progress(Emit(q, "T_C_START"), s, from, buf)
    BY <1>1, <1>5, <2>3, <2>4, <2>6, LandOK
  <2> QED BY <2>7, <2>8 DEF r
<1>8. ASSUME NEW z, Len(z) = 6, StartsWith(after, z)
      PROVE  /\ Progress(Emit(Skip(next, 6), "T_DOCTYPE_START"), s, from, buf)
             /\ Progress(Emit(InMode(Skip(next, 6), "CDATA"), "T_CDATA_START"), s, from, buf)
  <2>1. /\ s.lx.pos + 1 + 6 <= Len(buf)
        /\ ScanIs(Skip(next, 6), s.lx.pos + 1 + 6, s.lx.mode, s.lx.tok_size, s.state,
                  s.tok, s.type)
    <3>1. 6 \in Nat
      OBVIOUS
    <3> QED BY <1>8, <3>1, DeclaredIs
  <2>2. PICK pos \in Nat : pos = s.lx.pos + 1 + 6
    BY <1>1
  <2>3. pos > s.lx.pos /\ pos <= Len(buf)
    BY <1>1, <2>1, <2>2
  <2> DEFINE r == Skip(next, 6)
  <2>4. ScanIs(r, pos, s.lx.mode, s.lx.tok_size, s.state, s.tok, s.type)
    BY <2>1, <2>2
  <2> HIDE DEF r
  <2>5. ScanIs(InMode(r, "CDATA"), pos, "CDATA", s.lx.tok_size, s.state, s.tok, s.type)
    BY <1>5, <2>4, InModeIs DEF ScanIs
  <2>6. Progress(Emit(r, "T_DOCTYPE_START"), s, from, buf)
    BY <1>1, <1>5, <2>3, <2>4, LandOK
  <2>7. Progress(Emit(InMode(r, "CDATA"), "T_CDATA_START"), s, from, buf)
    BY <1>1, <1>5, <2>3, <2>5, LandOK
  <2> QED BY <2>6, <2>7 DEF r
<1>9. Progress(next, s, from, buf)
  BY <1>1, SkipOK
<1>10. Progress(Emit(next, "T_ERROR"), s, from, buf)
  BY <1>2, <1>4, <1>5, EmitSkippedOK
<1>11. Progress(Emit(s, "T_ERROR"), s, from, buf)
  BY <1>5, EmitHereOK
<1> HIDE DEF next, after
<1>12. StartsWith(after, "-") =>
         Progress(Emit([Skip(next, 1) EXCEPT !.tok = @ \o "--", !.lx.in_comment = TRUE],
                       "T_C_START"), s, from, buf)
  BY <1>6, <1>7
<1>13. StartsWith(after, "OCTYPE") =>
         Progress(Emit(Skip(next, 6), "T_DOCTYPE_START"), s, from, buf)
  BY <1>6, <1>8
<1>14. StartsWith(after, "CDATA[") =>
         Progress(Emit(InMode(Skip(next, 6), "CDATA"), "T_CDATA_START"), s, from, buf)
  BY <1>6, <1>8
<1>15. Declaration(s, c, buf) =
         CASE c = "-" /\ StartsWith(after, "-") ->
                Emit([Skip(next, 1) EXCEPT !.tok = @ \o "--", !.lx.in_comment = TRUE], "T_C_START")
           [] c = "-" /\ ~StartsWith(after, "-") -> next
           [] c = "D" /\ StartsWith(after, "OCTYPE") -> Emit(Skip(next, 6), "T_DOCTYPE_START")
           [] c = "[" /\ StartsWith(after, "CDATA[") ->
                Emit(InMode(Skip(next, 6), "CDATA"), "T_CDATA_START")
           [] c \in {"D", "["} /\ ~StartsWith(after, IF c = "D" THEN "OCTYPE" ELSE "CDATA[") ->
                Emit(next, "T_ERROR")
           [] OTHER -> Emit(s, "T_ERROR")
  BY DEF Declaration, next, after
<1> DEFINE start == Emit([Skip(next, 1) EXCEPT !.tok = @ \o "--", !.lx.in_comment = TRUE],
                         "T_C_START")
           Good(r) == Progress(r, s, from, buf)
<1>16. StartsWith(after, "-") => Good(start)
  BY <1>12
<1> HIDE DEF start
<1> QED
  <2>1. \/ c = "-" /\ StartsWith(after, "-") /\ Declaration(s, c, buf) = start
        \/ c = "-" /\ ~StartsWith(after, "-") /\ Declaration(s, c, buf) = next
        \/ /\ c = "D" /\ StartsWith(after, "OCTYPE")
           /\ Declaration(s, c, buf) = Emit(Skip(next, 6), "T_DOCTYPE_START")
        \/ /\ c = "[" /\ StartsWith(after, "CDATA[")
           /\ Declaration(s, c, buf) = Emit(InMode(Skip(next, 6), "CDATA"), "T_CDATA_START")
        \/ Declaration(s, c, buf) = Emit(next, "T_ERROR")
        \/ Declaration(s, c, buf) = Emit(s, "T_ERROR")
    BY <1>15 DEF start
  <2> QED BY <2>1, <1>9, <1>10, <1>11, <1>13, <1>14, <1>16

LEMMA CommentStopOK ==
  ASSUME NEW buf \in STRING, NEW from \in Lexer, NEW s, Reads(s, from, buf),
         StringsAreSequences(STRING), NEW c \in STRING, Len(c) = 1, s.state = "T_C_STOP"
  PROVE  Progress(CommentStop(s, c), s, from, buf)
<1> DEFINE next == Take(s, c)
           text == s.tok \o c
<1>1. /\ s \in Scans /\ s.lx.pos \in Nat /\ s.tok \in STRING /\ from.pos \in Nat
      /\ s.state \in LexerStates /\ s.lx.mode = "NORMAL" /\ s.lx.mode \in Modes
      /\ s.lx.tok_size \in Nat
  BY ReadsIs
<1>2. PICK n \in Nat : n = Len(buf)
  BY ReadsIs
<1>3. PICK k \in Nat : k = Len(s.tok)
  BY ReadsIs
<1>4. s.lx.pos < n /\ k >= 2 /\ k <= s.lx.pos - from.pos
  BY <1>2, <1>3, ReadsIs
<1>5. text \in STRING /\ Len(text) = k + 1
  BY <1>1, <1>3, ConcatIs
<1>6. PICK pos \in Nat : pos = s.lx.pos + 1
  BY <1>1
<1>7. ScanIs(next, pos, s.lx.mode, s.lx.tok_size, s.state, text, s.type)
  BY <1>1, <1>5, <1>6, TakeIs
<1>8. /\ next \in Scans /\ next.lx.pos = pos /\ next.lx.mode = s.lx.mode
      /\ next.lx.tok_size = s.lx.tok_size /\ next.state = s.state /\ next.tok = text
      /\ next.type = s.type
  BY <1>7 DEF ScanIs
<1>9. {"T_IDENT", "T_C_STOP"} \subseteq TokenTypes /\ "IDENT" \in LexerStates
  BY DEF TokenTypes, LexerStates
<1>10. Progress(Goto(next, "IDENT"), s, from, buf)
  BY <1>1, <1>9, TakeOK
<1> HIDE DEF next, text
<1>11. Progress(Emit([next EXCEPT !.lx.in_comment = FALSE], "T_C_STOP"), s, from, buf)
  <2> DEFINE q == [next EXCEPT !.lx.in_comment = FALSE]
  <2>1. ScanIs(q, pos, s.lx.mode, s.lx.tok_size, s.state, text, s.type)
    BY <1>8 DEF ScanIs, Scans, Lexer
  <2> HIDE DEF q
  <2>2. pos > s.lx.pos /\ pos <= n
    BY <1>1, <1>4, <1>6
  <2> QED BY <1>1, <1>2, <1>5, <1>9, <2>1, <2>2, LandOK DEF q
<1>12. ASSUME Len(text) # 3
       PROVE  Progress(Emit([next EXCEPT !.tok = SubSeq(@, 1, Len(@) - 3), !.lx.pos = @ - 3],
                            "T_IDENT"), s, from, buf)
  <2>1. PICK m \in Nat : m = k - 2
    BY <1>4
  <2>2. m >= 1 /\ k + 1 = m + 3
    BY <1>4, <1>5, <1>12, <2>1
  <2>3. PICK back \in Nat : back = pos - 3 /\ back > from.pos /\ back <= n
    BY <1>1, <1>4, <1>6, <2>1, <2>2
  <2> DEFINE left == SubSeq(text, 1, m)
             q == [next EXCEPT !.tok = left, !.lx.pos = back]
  <2>4. left \in STRING /\ Len(left) = m
    <3>1. 1 \in 1..(k + 2) /\ m \in (1 - 1)..(k + 1) /\ m - 1 + 1 = m
      BY <2>2
    <3>2. 1 \in 1..(Len(text) + 1) /\ m \in (1 - 1)..Len(text)
      BY <1>5, <3>1
    <3> QED BY <1>5, <3>1, <3>2, PartIs
  <2>5. [next EXCEPT !.tok = SubSeq(@, 1, Len(@) - 3), !.lx.pos = @ - 3] = q
    <3>1. Len(text) - 3 = m
      BY <1>5, <2>2
    <3> QED BY <1>8, <2>3, <3>1 DEF Scans, Lexer
  <2> HIDE DEF left
  <2>6. ScanIs(q, back, s.lx.mode, s.lx.tok_size, s.state, left, s.type)
    BY <1>8, <2>4 DEF ScanIs, Scans, Lexer
  <2> HIDE DEF q
  <2>7. ScanIs(Emit(q, "T_IDENT"), back, s.lx.mode, s.lx.tok_size, s.state, left, "T_IDENT")
    BY <1>9, <2>6, EmitIs DEF ScanIs
  <2>8. Len(left) >= 1 /\ from.pos <= back /\ back <= Len(buf)
    BY <1>1, <1>2, <2>2, <2>3, <2>4
  <2>9. Progress(Emit(q, "T_IDENT"), s, from, buf)
    BY <1>1, <1>9, <2>3, <2>4, <2>7, <2>8, EmittedOK
  <2> QED BY <2>5, <2>9
<1>13. CommentStop(s, c) =
         CASE c = ">" /\ Len(next.tok) # 3 ->
                Emit([next EXCEPT !.tok = SubSeq(@, 1, Len(@) - 3), !.lx.pos = @ - 3], "T_IDENT")
           [] c = ">" /\ Len(next.tok) = 3 ->
                Emit([next EXCEPT !.lx.in_comment = FALSE], "T_C_STOP")
           [] OTHER -> Goto(next, "IDENT")
  BY DEF CommentStop, next
<1>14. CASE Len(text) = 3
  BY <1>8, <1>10, <1>11, <1>13, <1>14
<1>15. CASE Len(text) # 3
  BY <1>8, <1>10, <1>12, <1>13, <1>15
<1> QED BY <1>14, <1>15

LEMMA NormalOK ==
  ASSUME NEW buf \in STRING, NEW from \in Lexer, NEW s, Reads(s, from, buf),
         StringsAreSequences(STRING), LiteralsAreLong, NEW c \in STRING, Len(c) = 1, s.lx.mode = "NORMAL"
  PROVE  Progress(Normal(s, c, buf), s, from, buf)
<1> DEFINE Good(r) == Progress(r, s, from, buf)
<1>1. s.state \in LexerStates /\ s.lx.pos \in Nat /\ from.pos \in Nat
  BY ReadsIs
<1>2. /\ {"T_EOL", "T_SEPAR", "T_M_STOP_1", "T_M_STOP_2", "T_EQUAL", "T_TI_STOP"} \subseteq TokenTypes
  BY DEF TokenTypes
<1>3. s.state # "IDLE" => s.lx.pos > from.pos
  BY ReadsIs
<1>4. CASE s.state = "IDLE"
  <2>1. Normal(s, c, buf) = Idle(s, c)
    BY <1>4 DEF Normal
  <2> QED BY <2>1, IdleScanOK
<1>5. CASE s.state = "EOL"
  <2>1. PICK class : Normal(s, c, buf) = RunOf(s, c, class, "T_EOL")
    BY <1>5 DEF Normal
  <2> QED BY <1>2, <1>5, <2>1, RunOfOK
<1>6. CASE s.state = "SEPAR"
  <2>1. PICK class : Normal(s, c, buf) = RunOf(s, c, class, "T_SEPAR")
    BY <1>6 DEF Normal
  <2> QED BY <1>2, <1>6, <2>1, RunOfOK
<1>7. CASE s.state = "T_M_START"
  <2>1. Normal(s, c, buf) = MarkupStart(s, c)
    BY <1>7 DEF Normal
  <2> QED BY <1>7, <2>1, MarkupStartOK
<1>8. CASE s.state = "T_M_STOP_1"
  <2>1. Normal(s, c, buf) = Stop(s, "T_M_STOP_1")
    BY <1>8 DEF Normal
  <2> QED BY <1>2, <1>3, <1>8, <2>1, EmitHereOK
<1>9. CASE s.state = "T_M_STOP_2"
  <2>1. Normal(s, c, buf) = TwoPartStop(s, c, "T_M_STOP_2")
    BY <1>9 DEF Normal
  <2> QED BY <1>2, <2>1, TwoPartStopOK
<1>10. CASE s.state = "T_EQUAL"
  <2>1. Normal(s, c, buf) = Emit(s, "T_EQUAL")
    BY <1>10 DEF Normal
  <2> QED BY <1>2, <1>3, <1>10, <2>1, EmitHereOK
<1>11. CASE s.state \in {"T_STRING_DOUBLE", "T_STRING_SINGLE"}
  <2>1. PICK quote : Normal(s, c, buf) = String(s, c, quote)
    BY <1>11 DEF Normal
  <2> QED BY <1>11, <2>1, StringOK
<1>12. CASE s.state = "T_COMMENT"
  <2>1. Normal(s, c, buf) = Declaration(s, c, buf)
    BY <1>12 DEF Normal
  <2> QED BY <1>12, <2>1, DeclarationOK
<1>13. CASE s.state = "T_TI_STOP"
  <2>1. Normal(s, c, buf) = TwoPartStop(s, c, "T_TI_STOP")
    BY <1>13 DEF Normal
  <2> QED BY <1>2, <2>1, TwoPartStopOK
<1>14. CASE s.state = "T_DASHDASH"
  <2>1. Normal(s, c, buf) = Goto(Take(s, c), IF c = "-" THEN "T_C_STOP" ELSE "IDENT")
    BY <1>14 DEF Normal
  <2> QED BY <1>14, <2>1, DashOK
<1>15. CASE s.state = "T_C_STOP"
  <2>1. Normal(s, c, buf) = CommentStop(s, c)
    BY <1>15 DEF Normal
  <2> QED BY <1>15, <2>1, CommentStopOK
<1>16. CASE s.state = "IDENT"
  <2>1. Normal(s, c, buf) = Ident(s, c)
    BY <1>16 DEF Normal
  <2> QED BY <1>16, <2>1, IdentOK
<1> QED BY <1>1, <1>4, <1>5, <1>6, <1>7, <1>8, <1>9, <1>10, <1>11, <1>12, <1>13, <1>14, <1>15,
           <1>16 DEF LexerStates

LEMMA StepOK ==
  ASSUME NEW buf \in STRING, NEW from \in Lexer, NEW s, Reads(s, from, buf),
         StringsAreSequences(STRING), LiteralsAreLong
  PROVE  Progress(Step(s, buf), s, from, buf)
<1> DEFINE c == At(buf, s.lx.pos)
<1>1. s.lx.mode \in Modes /\ s.lx.pos \in Nat /\ s.lx.pos < Len(buf)
  BY ReadsIs
<1>2. c \in STRING /\ Len(c) = 1
  BY <1>1, AtIs
<1>3. Step(s, buf) = CASE s.lx.mode = "NORMAL" -> Normal(s, c, buf)
                       [] s.lx.mode = "DATA"   -> Data(s, c)
                       [] s.lx.mode = "CDATA"  -> Cdata(s, c, buf)
  BY DEF Step
<1> HIDE DEF c
<1>4. CASE s.lx.mode = "NORMAL"
  BY <1>2, <1>3, <1>4, NormalOK
<1>5. CASE s.lx.mode = "DATA"
  BY <1>2, <1>3, <1>5, DataOK
<1>6. CASE s.lx.mode = "CDATA"
  BY <1>2, <1>3, <1>6, CdataScanOK
<1> QED BY <1>1, <1>4, <1>5, <1>6 DEF Modes

---------------------------------------------------------------------------
\* The rounds of the loop

\* The rounds a scan has left: two for each character, and one for a buffer
\* that is full.
RoundsLeft(s, buf) ==
  2 * (Len(buf) - s.lx.pos) + (IF Len(s.tok) < s.lx.tok_size THEN 0 ELSE 1)

\* A round keeps the invariant, and ends the token or uses one that is left.
LEMMA AdvanceOK ==
  ASSUME NEW buf \in STRING, NEW from \in Lexer, NEW s, ScanInv(s, from, buf),
         StringsAreSequences(STRING), LiteralsAreLong
  PROVE  LET r == Advance(s, buf)
         IN  /\ ScanInv(r, from, buf)
             /\ s.type # NoType => r.type # NoType
             /\ r.type = NoType => RoundsLeft(r, buf) <= RoundsLeft(s, buf) - 1
<1> DEFINE r == Advance(s, buf)
<1>1. /\ s \in Scans /\ s.lx.pos \in Nat /\ s.lx.tok_size \in Nat /\ s.tok \in STRING
      /\ from.pos \in Nat /\ s.state \in LexerStates /\ s.lx.mode \in Modes
      /\ s.lx.tok_size > 0 /\ from.pos <= s.lx.pos /\ s.lx.pos <= Len(buf)
  BY DEF ScanInv, InBuffer, Scans, Lexer
<1>2. PICK n \in Nat : n = Len(buf)
  BY LenIs
<1>3. PICK k \in Nat : k = Len(s.tok)
  BY <1>1, LenIs
<1>4. s.lx.pos <= n
  BY <1>1, <1>2
<1>5. RoundsLeft(s, buf) = 2 * (n - s.lx.pos) + (IF k < s.lx.tok_size THEN 0 ELSE 1)
  BY <1>2, <1>3 DEF RoundsLeft
<1>6. CASE s.type # NoType
  <2>1. r = s
    BY <1>6 DEF Advance
  <2> QED BY <1>6, <2>1
<1>7. CASE s.type = NoType /\ ~(k < s.lx.tok_size)
  <2>1. r = Grow(s)
    BY <1>3, <1>7 DEF Advance
  <2> DEFINE size == 2 * s.lx.tok_size
  <2>2. ScanIs(r, s.lx.pos, s.lx.mode, size, "IDLE", Empty, s.type)
    BY <1>1, <2>1, GrowIs
  <2>3. Len(Empty) = 0
    BY DEF LiteralsAreLong
  <2>4. size \in Nat /\ size > 0
    BY <1>1
  <2> HIDE DEF size, r
  <2>5. /\ r \in Scans /\ r.lx.pos = s.lx.pos /\ r.lx.mode = s.lx.mode
        /\ r.lx.tok_size = size /\ r.state = "IDLE" /\ r.tok = Empty /\ r.type = NoType
    BY <1>7, <2>2 DEF ScanIs
  <2>6. InBuffer(r, from, buf)
    BY <1>1, <2>4, <2>5 DEF InBuffer
  <2>7. s.lx.mode = from.mode
    BY <1>7 DEF ScanInv, Underway
  <2>8. Len(r.tok) <= r.lx.pos - from.pos
    BY <1>1, <2>3, <2>5
  <2>9. Underway(r, from)
    BY <2>5, <2>7, <2>8 DEF Underway
  <2>10. Len(r.tok) < r.lx.tok_size
    BY <2>3, <2>4, <2>5
  <2>11. RoundsLeft(r, buf) = 2 * (n - s.lx.pos)
    BY <1>1, <1>2, <2>5, <2>10 DEF RoundsLeft
  <2>12. RoundsLeft(s, buf) = 2 * (n - s.lx.pos) + 1
    BY <1>5, <1>7
  <2>13. RoundsLeft(r, buf) <= RoundsLeft(s, buf) - 1
    BY <1>1, <1>4, <2>11, <2>12
  <2> QED BY <1>7, <2>5, <2>6, <2>9, <2>13 DEF ScanInv, r
<1>8. CASE s.type = NoType /\ k < s.lx.tok_size /\ ~(s.lx.pos < n)
  <2>1. r = Emit(s, AtEnd(s.state))
    BY <1>2, <1>3, <1>8 DEF Advance
  <2> DEFINE t == AtEnd(s.state)
  <2>2. /\ t \in TokenTypes /\ t # "T_IDENT"
        /\ s.state = "IDLE" => t = "T_EOF"
    BY <1>1 DEF AtEnd, TokenTypes, LexerStates
  <2>3. s.state # "IDLE" => s.lx.pos > from.pos
    BY <1>8 DEF ScanInv, Underway
  <2> HIDE DEF t, r
  <2>4. ScanIs(r, s.lx.pos, s.lx.mode, s.lx.tok_size, s.state, s.tok, t)
    BY <1>1, <2>1, <2>2, EmitIs DEF t
  <2>5. /\ r \in Scans /\ r.lx.pos = s.lx.pos /\ r.lx.tok_size = s.lx.tok_size /\ r.type = t
    BY <2>4 DEF ScanIs
  <2>6. InBuffer(r, from, buf)
    BY <1>1, <2>5 DEF InBuffer
  <2>7. MovedOn(r, from)
    BY <2>2, <2>3, <2>5 DEF MovedOn
  <2>8. t # NoType
    BY <2>2 DEF TokenTypes, NoType
  <2> QED BY <2>5, <2>6, <2>7, <2>8 DEF ScanInv, r
<1>9. CASE s.type = NoType /\ k < s.lx.tok_size /\ s.lx.pos < n
  <2>1. r = Step(s, buf)
    BY <1>2, <1>3, <1>9 DEF Advance
  <2>2. Reads(s, from, buf)
    BY <1>2, <1>9 DEF Reads
  <2> HIDE DEF r
  <2>3. Progress(r, s, from, buf)
    BY <2>1, <2>2, StepOK
  <2>4. ScanInv(r, from, buf)
    BY <2>3 DEF Progress
  <2>5. ASSUME r.type = NoType PROVE RoundsLeft(r, buf) <= RoundsLeft(s, buf) - 1
    <3>1. r.lx.pos > s.lx.pos /\ r.lx.pos \in Nat /\ r.lx.pos <= Len(buf)
      BY <2>3, <2>4, <2>5 DEF Progress, ScanInv, InBuffer, Scans, Lexer
    <3>2. r.lx.pos <= n
      BY <1>2, <3>1
    <3>3. RoundsLeft(r, buf) <= 2 * (n - r.lx.pos) + 1
      BY <1>2, <3>1, <3>2 DEF RoundsLeft
    <3>4. 2 * (n - r.lx.pos) + 1 <= 2 * (n - s.lx.pos) - 1
      BY <1>1, <3>1
    <3>5. RoundsLeft(s, buf) = 2 * (n - s.lx.pos)
      BY <1>1, <1>5, <1>9
    <3>6. RoundsLeft(r, buf) \in Int
      BY <1>2, <3>1 DEF RoundsLeft
    <3> QED BY <1>1, <1>4, <3>1, <3>3, <3>4, <3>5, <3>6
  <2> QED BY <1>9, <2>4, <2>5 DEF r
<1> HIDE DEF r
<1> QED
  <2>1. /\ ScanInv(r, from, buf)
        /\ s.type # NoType => r.type # NoType
        /\ r.type = NoType => RoundsLeft(r, buf) <= RoundsLeft(s, buf) - 1
    BY <1>6, <1>7, <1>8, <1>9 DEF r
  <2> QED BY <2>1 DEF r

---------------------------------------------------------------------------
\* The token the lexer gives

\* A lexer between two tokens of a document.
LexerInv(lx, buf) == lx \in Lexer /\ lx.tok_size > 0 /\ lx.pos <= Len(buf)

LEMMA BeginOK ==
  ASSUME NEW buf \in STRING, NEW lx, LexerInv(lx, buf), StringsAreSequences(STRING),
         LiteralsAreLong
  PROVE  /\ ScanInv(Begin(lx), lx, buf)
         /\ RoundsLeft(Begin(lx), buf) = 2 * (Len(buf) - lx.pos)
<1> DEFINE b == Begin(lx)
<1>1. /\ b.lx = lx /\ b.state = "IDLE" /\ b.tok = Empty /\ b.type = NoType
      /\ b = [lx |-> lx, state |-> "IDLE", tok |-> Empty, type |-> NoType]
  BY DEF Begin
<1>2. Len(Empty) = 0 /\ Empty \in STRING
  BY DEF LiteralsAreLong
<1>3. "IDLE" \in LexerStates /\ NoType \in TokenTypes \cup {NoType}
  BY DEF LexerStates
<1>4. lx \in Lexer /\ lx.tok_size > 0 /\ lx.pos <= Len(buf) /\ lx.pos \in Nat /\ lx.tok_size \in Nat
  BY DEF LexerInv, Lexer
<1> HIDE DEF b
<1>5. b \in Scans
  BY <1>1, <1>2, <1>3, <1>4 DEF Scans
<1>6. lx.pos <= lx.pos /\ 0 <= lx.pos - lx.pos /\ 0 < lx.tok_size
  BY <1>4
<1>7. InBuffer(b, lx, buf)
  BY <1>1, <1>4, <1>5, <1>6 DEF InBuffer
<1>8. Underway(b, lx)
  BY <1>1, <1>2, <1>6 DEF Underway
<1>9. RoundsLeft(b, buf) = 2 * (Len(buf) - lx.pos) + 0
  BY <1>1, <1>2, <1>6 DEF RoundsLeft
<1>10. ScanInv(b, lx, buf)
  BY <1>1, <1>7, <1>8 DEF ScanInv
<1>11. RoundsLeft(b, buf) = 2 * (Len(buf) - lx.pos)
  <2>1. 2 * (Len(buf) - lx.pos) \in Int
    BY <1>4, LenIs
  <2> QED BY <1>9, <2>1
<1> QED BY <1>10, <1>11 DEF b

\* The lexer's loop ends: within the rounds it is given it knows the type of the
\* token, has stayed in the buffer, and has moved on.
THEOREM ScanEnds ==
  ASSUME NEW buf \in STRING, NEW lx, LexerInv(lx, buf),
         StringsAreSequences(STRING), LiteralsAreLong
  PROVE  ScanInv(lexer_get_token(buf, lx), lx, buf) /\ lexer_get_token(buf, lx).type # NoType
<1>1. lx \in Lexer /\ lx.pos \in Nat /\ lx.pos <= Len(buf)
  BY DEF LexerInv, Lexer
<1>2. PICK m \in Nat : m = Len(buf)
  BY LenIs
<1>3. PICK n \in Nat : n = 2 * (m - lx.pos) + 1 /\ n = Rounds(buf, lx)
  BY <1>1, <1>2 DEF Rounds
<1> DEFINE V == {s \in Scans : ScanInv(s, lx, buf)}
           advance == [s \in Scans |-> Advance(s, buf)]
           start == Begin(lx)
           turn == [p \in (1..n) \X V |-> Advance(p[2], buf)]
<1>4. start \in V /\ RoundsLeft(start, buf) = 2 * (m - lx.pos)
  BY <1>2, BeginOK DEF ScanInv, InBuffer
<1>5. ASSUME NEW s \in V
      PROVE  /\ advance[s] = Advance(s, buf) /\ advance[s] \in V
             /\ s.type # NoType => advance[s].type # NoType
             /\ advance[s].type = NoType => RoundsLeft(advance[s], buf) <= RoundsLeft(s, buf) - 1
  <2>1. s \in Scans /\ ScanInv(s, lx, buf)
    OBVIOUS
  <2>2. advance[s] = Advance(s, buf)
    BY <2>1
  <2> HIDE DEF V, advance
  <2>3. LET r == Advance(s, buf)
        IN  /\ ScanInv(r, lx, buf)
            /\ s.type # NoType => r.type # NoType
            /\ r.type = NoType => RoundsLeft(r, buf) <= RoundsLeft(s, buf) - 1
    BY <1>1, <2>1, AdvanceOK
  <2> QED BY <2>2, <2>3 DEF V, ScanInv, InBuffer
<1>6. \A s \in V : Advance(s, buf) \in V /\ advance[s] = Advance(s, buf)
  BY <1>5
<1> HIDE DEF V
<1>7. turn \in [(1..n) \X V -> V] /\ \A i \in 1..n : \A s \in V : turn[<<i, s>>] = advance[s]
  BY <1>6
<1> HIDE DEF advance, start, turn
<1>8. PICK f \in Runs(n, V, start, turn) : TRUE
  BY <1>4, <1>7, RunExists
<1>9. /\ f \in [0..n -> V] /\ f[0] = start
      /\ \A i \in 1..n : f[i] = turn[<<i, f[i - 1]>>]
  BY <1>8 DEF Runs
<1>10. ASSUME NEW i \in 1..n PROVE f[i] = advance[f[i - 1]]
  <2>1. i - 1 \in 0..n
    BY <1>3
  <2> QED BY <1>7, <1>9, <2>1
<1>11. f = [i \in 0..n |-> IF i = 0 THEN start ELSE advance[f[i - 1]]]
  <2> DEFINE g == [i \in 0..n |-> IF i = 0 THEN start ELSE advance[f[i - 1]]]
  <2>1. ASSUME NEW i \in 0..n PROVE f[i] = g[i]
    <3>1. CASE i = 0
      BY <1>9, <3>1
    <3>2. CASE i # 0
      BY <1>3, <1>10, <3>2
    <3> QED BY <3>1, <3>2
  <2> QED BY <1>9, <2>1
<1> DEFINE scan == CHOOSE g : g = [i \in 0..n |-> IF i = 0 THEN start ELSE advance[g[i - 1]]]
<1>12. scan = [i \in 0..n |-> IF i = 0 THEN start ELSE advance[scan[i - 1]]]
  BY <1>11
<1>13. lexer_get_token(buf, lx) = scan[n]
  BY <1>3 DEF lexer_get_token, advance, start
<1> HIDE DEF scan
<1>14. scan[0] = start /\ \A i \in 1..n : scan[i] = advance[scan[i - 1]]
  <2> DEFINE g == [i \in 0..n |-> IF i = 0 THEN start ELSE advance[scan[i - 1]]]
  <2>1. g[0] = start
    BY <1>3
  <2>2. \A i \in 1..n : g[i] = advance[scan[i - 1]]
    BY <1>3
  <2>3. scan = g
    BY <1>12
  <2> HIDE DEF g
  <2> QED BY <2>1, <2>2, <2>3
<1> DEFINE Bound(i) == 2 * (m - lx.pos) - i
           S == {i \in 0..n : /\ scan[i] \in V
                              /\ scan[i].type = NoType => RoundsLeft(scan[i], buf) <= Bound(i)}
<1>15. 0 \in S
  BY <1>1, <1>2, <1>3, <1>4, <1>14
<1>16. ASSUME NEW i \in 1..n, i - 1 \in S PROVE i \in S
  <2>1. /\ scan[i - 1] \in V
        /\ scan[i - 1].type = NoType => RoundsLeft(scan[i - 1], buf) <= Bound(i - 1)
    BY <1>16
  <2>2. PICK s \in V : s = scan[i - 1] /\ scan[i] = advance[s]
    BY <1>14, <2>1
  <2>3. /\ scan[i] \in V
        /\ s.type # NoType => scan[i].type # NoType
        /\ scan[i].type = NoType => RoundsLeft(scan[i], buf) <= RoundsLeft(s, buf) - 1
    BY <1>5, <2>2
  <2>4. ASSUME scan[i].type = NoType PROVE RoundsLeft(scan[i], buf) <= Bound(i)
    <3>1. RoundsLeft(s, buf) <= Bound(i - 1) /\ RoundsLeft(scan[i], buf) <= RoundsLeft(s, buf) - 1
      BY <2>1, <2>2, <2>3, <2>4
    <3>2. \A r \in V : RoundsLeft(r, buf) \in Int
      BY <1>2 DEF RoundsLeft, V, Scans, Lexer
    <3>3. PICK a \in Int : a = RoundsLeft(s, buf)
      BY <3>2
    <3>4. PICK b \in Int : b = RoundsLeft(scan[i], buf)
      BY <2>3, <3>2
    <3>5. a <= 2 * (m - lx.pos) - (i - 1) /\ b <= a - 1
      BY <3>1, <3>3, <3>4
    <3> QED BY <1>1, <3>4, <3>5
  <2> QED BY <2>3, <2>4
<1> HIDE DEF S
<1>17. n \in S
  BY <1>3, <1>15, <1>16, UpTo
<1>18. scan[n] \in V /\ (scan[n].type = NoType => RoundsLeft(scan[n], buf) <= Bound(n))
  BY <1>17 DEF S
<1>19. ScanInv(scan[n], lx, buf)
  BY <1>18 DEF V
<1>20. scan[n].type # NoType
  <2> SUFFICES ASSUME scan[n].type = NoType PROVE FALSE
    OBVIOUS
  <2>1. scan[n].lx.pos \in Nat /\ scan[n].lx.pos <= m
    BY <1>2, <1>19 DEF ScanInv, InBuffer, Scans, Lexer
  <2>2. RoundsLeft(scan[n], buf) >= 0
    BY <1>2, <2>1 DEF RoundsLeft
  <2>3. RoundsLeft(scan[n], buf) <= -1
    BY <1>1, <1>3, <1>18
  <2>4. RoundsLeft(scan[n], buf) \in Int
    BY <1>2, <2>1 DEF RoundsLeft
  <2> QED BY <2>2, <2>3, <2>4
<1> QED BY <1>13, <1>19, <1>20

---------------------------------------------------------------------------
\* Texts

\* Where a search that begins within a text ends.
LEMMA StrstrIs ==
  ASSUME NEW s, NEW z, NEW p \in Nat, Len(s) \in Nat, Len(z) \in Nat, strstr(s, p, z) # -1
  PROVE  strstr(s, p, z) \in p..(Len(s) - Len(z))
<1> DEFINE hits == {k \in p..(Len(s) - Len(z)) : StartsWith(From(s, k), z)}
<1>1. strstr(s, p, z) = IF hits = {} THEN -1 ELSE CHOOSE k \in hits : \A m \in hits : k <= m
  BY DEF strstr
<1>2. hits \in SUBSET Nat /\ hits \subseteq p..(Len(s) - Len(z))
  OBVIOUS
<1> HIDE DEF hits
<1>3. hits # {}
  BY <1>1
<1>4. \E k \in hits : \A m \in hits : k <= m
  BY <1>2, <1>3, LeastNumber
<1>5. strstr(s, p, z) \in hits
  BY <1>1, <1>3, <1>4
<1> QED BY <1>2, <1>5

\* A character in upper case is a character.
LEMMA ToupperIs ==
  ASSUME StringsAreSequences(STRING), LiteralsAreLong, NEW c \in STRING, Len(c) = 1
  PROVE  toupper[c] \in STRING /\ Len(toupper[c]) = 1
<1> DEFINE k == strstr(Small, 0, c)
<1>1. Len(Small) = 26 /\ Len(Capital) = 26 /\ Capital \in STRING
  BY DEF LiteralsAreLong
<1>2. toupper[c] = IF k = -1 THEN c ELSE SubSeq(Capital, k + 1, k + 1)
  BY DEF toupper
<1>3. Len(Small) \in Nat /\ Len(c) \in Nat /\ 0 \in Nat
  BY <1>1
<1>4. k # -1 => k \in 0..(Len(Small) - Len(c))
  BY <1>3, StrstrIs
<1>5. Len(Small) - Len(c) = 25
  BY <1>1
<1> HIDE DEF k
<1>6. CASE k # -1
  <2>5. k \in 0..25
    BY <1>4, <1>5, <1>6
  <2>1. PICK q \in Int : q = k + 1 /\ q \in 1..26
    BY <2>5
  <2>2. q \in 1..(26 + 1) /\ q \in (q - 1)..26 /\ q - q + 1 = 1
    BY <2>1
  <2>3. q \in 1..(Len(Capital) + 1) /\ q \in (q - 1)..Len(Capital)
    BY <1>1, <2>2
  <2>4. SubSeq(Capital, q, q) \in STRING /\ Len(SubSeq(Capital, q, q)) = q - q + 1
    BY <1>1, <2>3, PartIs
  <2> QED BY <1>2, <1>6, <2>1, <2>2, <2>4
<1> QED BY <1>2, <1>6

\* A name in upper case is as long as it was.
LEMMA StrtoupperIs ==
  ASSUME StringsAreSequences(STRING), LiteralsAreLong, NEW s \in STRING
  PROVE  strtoupper[s] \in STRING /\ Len(strtoupper[s]) = Len(s)
<1>1. PICK n \in Nat : n = Len(s)
  BY LenIs
<1>1a. n \in Nat
  BY <1>1
<1> DEFINE V == STRING
           c(i) == toupper[SubSeq(s, i, i)]
           add(t, i) == t \o c(i)
           turn == [p \in (1..n) \X V |-> add(p[2], p[1])]
<1>2. Empty \in V /\ Len(Empty) = 0
  BY DEF LiteralsAreLong
<1>3. ASSUME NEW i \in 1..n PROVE c(i) \in STRING /\ Len(c(i)) = 1
  <2>1. i \in 1..(n + 1) /\ i \in (i - 1)..n /\ i - i + 1 = 1
    OBVIOUS
  <2>2. i \in 1..(Len(s) + 1) /\ i \in (i - 1)..Len(s)
    BY <1>1, <2>1
  <2>3. SubSeq(s, i, i) \in STRING /\ Len(SubSeq(s, i, i)) = 1
    BY <2>1, <2>2, PartIs
  <2> QED BY <2>3, ToupperIs
<1> HIDE DEF c
<1>4. ASSUME NEW i \in 1..n, NEW t \in V
      PROVE  add(t, i) \in V /\ Len(add(t, i)) = Len(t) + 1
  BY <1>3, ConcatIs
<1> HIDE DEF V, add
<1>5. turn \in [(1..n) \X V -> V] /\ \A i \in 1..n : \A t \in V : turn[<<i, t>>] = add(t, i)
  BY <1>4
<1> HIDE DEF turn
<1>6. PICK f \in Runs(n, V, Empty, turn) : TRUE
  BY <1>2, <1>5, RunExists
<1>7. /\ f \in [0..n -> V] /\ f[0] = Empty
      /\ \A i \in 1..n : f[i] = turn[<<i, f[i - 1]>>]
  BY <1>6 DEF Runs
<1>8. ASSUME NEW i \in 1..n PROVE f[i] = add(f[i - 1], i)
  <2>1. i - 1 \in 0..n
    BY <1>1a
  <2> QED BY <1>5, <1>7, <2>1
<1>9. f = [i \in 0..n |-> IF i = 0 THEN Empty ELSE add(f[i - 1], i)]
  <2> DEFINE g == [i \in 0..n |-> IF i = 0 THEN Empty ELSE add(f[i - 1], i)]
  <2>1. ASSUME NEW i \in 0..n PROVE f[i] = g[i]
    <3>1. CASE i = 0
      BY <1>7, <3>1
    <3>2. CASE i # 0
      BY <1>1a, <1>8, <3>2
    <3> QED BY <3>1, <3>2
  <2> QED BY <1>7, <2>1
<1> DEFINE upper == CHOOSE g : g = [i \in 0..n |-> IF i = 0 THEN Empty ELSE add(g[i - 1], i)]
<1>10. upper = [i \in 0..n |-> IF i = 0 THEN Empty ELSE add(upper[i - 1], i)]
  BY <1>9
<1>11. strtoupper[s] = upper[n]
  BY <1>1 DEF strtoupper, add, c
<1> HIDE DEF upper
<1>12. upper[0] = Empty /\ \A i \in 1..n : upper[i] = add(upper[i - 1], i)
  <2> DEFINE g == [i \in 0..n |-> IF i = 0 THEN Empty ELSE add(upper[i - 1], i)]
  <2>1. g[0] = Empty
    BY <1>1a
  <2>2. \A i \in 1..n : g[i] = add(upper[i - 1], i)
    BY <1>1a
  <2>3. upper = g
    BY <1>10
  <2> HIDE DEF g
  <2> QED BY <2>1, <2>2, <2>3
<1> DEFINE S == {i \in 0..n : upper[i] \in V /\ Len(upper[i]) = i}
<1>13. 0 \in S
  BY <1>1a, <1>2, <1>12
<1>14. ASSUME NEW i \in 1..n, i - 1 \in S PROVE i \in S
  <2>1. upper[i - 1] \in V /\ Len(upper[i - 1]) = i - 1
    BY <1>14
  <2>2. upper[i] \in V /\ Len(upper[i]) = Len(upper[i - 1]) + 1
    BY <1>4, <1>12, <2>1
  <2>3. Len(upper[i]) = i
    BY <2>1, <2>2
  <2> QED BY <2>2, <2>3
<1> HIDE DEF S
<1>15. n \in S
  BY <1>1a, <1>13, <1>14, UpTo
<1> QED BY <1>1, <1>11, <1>15 DEF S, V

LEMMA SpacesIs ==
  ASSUME StringsAreSequences(STRING), LiteralsAreLong, NEW n \in Nat
  PROVE  Spaces(n) \in STRING /\ Len(Spaces(n)) = n
<1> DEFINE V == STRING
           add(t) == t \o " "
           turn == [p \in (1..n) \X V |-> add(p[2])]
<1>1. Empty \in V /\ Len(Empty) = 0
  BY DEF LiteralsAreLong
<1>2. ASSUME NEW t \in V
      PROVE  add(t) \in V /\ Len(add(t)) = Len(t) + 1
  <2>1. ASSUME NEW z \in STRING, Len(z) = 1
        PROVE  t \o z \in STRING /\ Len(t \o z) = Len(t) + 1
    BY <2>1, ConcatIs
  <2>2. " " \in STRING /\ Len(" ") = 1
    BY DEF LiteralsAreLong
  <2> QED BY <2>1, <2>2
<1> HIDE DEF V, add
<1>3. turn \in [(1..n) \X V -> V] /\ \A i \in 1..n : \A t \in V : turn[<<i, t>>] = add(t)
  BY <1>2
<1> HIDE DEF turn
<1>4. PICK f \in Runs(n, V, Empty, turn) : TRUE
  BY <1>1, <1>3, RunExists
<1>5. /\ f \in [0..n -> V] /\ f[0] = Empty
      /\ \A i \in 1..n : f[i] = turn[<<i, f[i - 1]>>]
  BY <1>4 DEF Runs
<1>6. ASSUME NEW i \in 1..n PROVE f[i] = add(f[i - 1])
  <2>1. i - 1 \in 0..n
    OBVIOUS
  <2> QED BY <1>3, <1>5, <2>1
<1>7. f = [i \in 0..n |-> IF i = 0 THEN Empty ELSE add(f[i - 1])]
  <2> DEFINE g == [i \in 0..n |-> IF i = 0 THEN Empty ELSE add(f[i - 1])]
  <2>1. ASSUME NEW i \in 0..n PROVE f[i] = g[i]
    <3>1. CASE i = 0
      BY <1>5, <3>1
    <3>2. CASE i # 0
      BY <1>6, <3>2
    <3> QED BY <3>1, <3>2
  <2> QED BY <1>5, <2>1
<1> DEFINE blanks == CHOOSE g : g = [i \in 0..n |-> IF i = 0 THEN Empty ELSE add(g[i - 1])]
<1>8. blanks = [i \in 0..n |-> IF i = 0 THEN Empty ELSE add(blanks[i - 1])]
  BY <1>7
<1>9. Spaces(n) = blanks[n]
  BY DEF Spaces, add
<1> HIDE DEF blanks
<1>10. blanks[0] = Empty /\ \A i \in 1..n : blanks[i] = add(blanks[i - 1])
  <2> DEFINE g == [i \in 0..n |-> IF i = 0 THEN Empty ELSE add(blanks[i - 1])]
  <2>1. g[0] = Empty
    OBVIOUS
  <2>2. \A i \in 1..n : g[i] = add(blanks[i - 1])
    OBVIOUS
  <2>3. blanks = g
    BY <1>8
  <2> HIDE DEF g
  <2> QED BY <2>1, <2>2, <2>3
<1> DEFINE S == {i \in 0..n : blanks[i] \in V /\ Len(blanks[i]) = i}
<1>11. 0 \in S
  BY <1>1, <1>10
<1>12. ASSUME NEW i \in 1..n, i - 1 \in S PROVE i \in S
  <2>1. blanks[i - 1] \in V /\ Len(blanks[i - 1]) = i - 1
    BY <1>12
  <2>2. blanks[i] \in V /\ Len(blanks[i]) = Len(blanks[i - 1]) + 1
    BY <1>2, <1>10, <2>1
  <2>3. Len(blanks[i]) = i
    BY <2>1, <2>2
  <2> QED BY <2>2, <2>3
<1> HIDE DEF S
<1>13. n \in S
  BY <1>11, <1>12, UpTo
<1> QED BY <1>9, <1>13 DEF S, V

\* A comment that is cleared leaves a text of the same length.
LEMMA ClearCommentIs ==
  ASSUME StringsAreSequences(STRING), LiteralsAreLong, NEW s \in Cleanings
  PROVE  ClearComment[s] \in Cleanings /\ Len(ClearComment[s].text) = Len(s.text)
<1> DEFINE start == strstr(s.text, s.needle, "<!--")
           end   == strstr(s.text, start, "-->")
           marked == strstr(SubSeq(s.text, start + 1, end), 0, "]]>") # -1
           left == SubSeq(s.text, 1, start)
           gap == Spaces(end + 3 - start)
           right == From(s.text, end + 3)
           text == left \o gap \o right
<1>1. ClearComment[s] =
        IF start = -1 \/ end = -1 THEN s
        ELSE IF marked THEN [s EXCEPT !.needle = start + 3]
        ELSE [text |-> text, needle |-> start]
  BY DEF ClearComment
<1>2. s.text \in STRING /\ s.needle \in Nat /\ s = [text |-> s.text, needle |-> s.needle]
  BY DEF Cleanings
<1>3. PICK n \in Nat : n = Len(s.text)
  BY <1>2, LenIs
<1>4. start # -1 => start \in s.needle..(n - 4)
  <2>1. ASSUME NEW z, Len(z) = 4, strstr(s.text, s.needle, z) # -1
        PROVE  strstr(s.text, s.needle, z) \in s.needle..(n - 4)
    <3>1. Len(z) \in Nat /\ Len(s.text) \in Nat
      BY <1>3, <2>1
    <3>2. strstr(s.text, s.needle, z) \in s.needle..(Len(s.text) - Len(z))
      BY <1>2, <2>1, <3>1, StrstrIs
    <3>3. Len(s.text) - Len(z) = n - 4
      BY <1>3, <2>1
    <3> QED BY <3>2, <3>3
  <2>2. Len("<!--") = 4
    BY DEF LiteralsAreLong
  <2> QED BY <2>1, <2>2
<1> HIDE DEF start
<1>5. start # -1 => start \in Nat
  BY <1>2, <1>3, <1>4
<1>6. start # -1 /\ end # -1 => end \in start..(n - 3)
  <2>1. ASSUME NEW z, Len(z) = 3, start # -1, strstr(s.text, start, z) # -1
        PROVE  strstr(s.text, start, z) \in start..(n - 3)
    <3>1. Len(z) \in Nat /\ Len(s.text) \in Nat
      BY <1>3, <2>1
    <3>2. strstr(s.text, start, z) \in start..(Len(s.text) - Len(z))
      BY <1>5, <2>1, <3>1, StrstrIs
    <3>3. Len(s.text) - Len(z) = n - 3
      BY <1>3, <2>1
    <3> QED BY <3>2, <3>3
  <2>2. Len("-->") = 3
    BY DEF LiteralsAreLong
  <2> QED BY <2>1, <2>2
<1> HIDE DEF end, marked
<1>7. ASSUME start # -1, end # -1
      PROVE  text \in STRING /\ Len(text) = n
  <2>1. /\ start \in Nat /\ end \in Nat /\ start <= end /\ end + 3 <= n
        /\ end + 3 - start \in Nat /\ end + 3 \in Nat
    BY <1>5, <1>6, <1>7
  <2>2. left \in STRING /\ Len(left) = start
    <3>1. 1 \in 1..(n + 1) /\ start \in (1 - 1)..n /\ start - 1 + 1 = start
      BY <2>1
    <3>2. 1 \in 1..(Len(s.text) + 1) /\ start \in (1 - 1)..Len(s.text)
      BY <1>3, <3>1
    <3> QED BY <1>2, <3>1, <3>2, PartIs
  <2>3. gap \in STRING /\ Len(gap) = end + 3 - start
    BY <2>1, SpacesIs
  <2>4. end + 3 <= Len(s.text)
    BY <1>3, <2>1
  <2>5. right \in STRING /\ Len(right) = n - (end + 3)
    BY <1>2, <1>3, <2>1, <2>4, FromIs
  <2> HIDE DEF left, gap, right
  <2>6. left \o gap \in STRING /\ Len(left \o gap) = start + (end + 3 - start)
    BY <2>2, <2>3, ConcatIs
  <2> DEFINE both == left \o gap
  <2> HIDE DEF both
  <2>7. both \o right \in STRING /\ Len(both \o right) = Len(both) + Len(right)
    BY <2>5, <2>6, ConcatIs DEF both
  <2>8. Len(both) + Len(right) = n
    BY <2>1, <2>5, <2>6 DEF both
  <2> QED BY <2>7, <2>8 DEF both
<1> HIDE DEF text
<1>8. CASE start = -1 \/ end = -1
  BY <1>1, <1>8
<1>9. CASE start # -1 /\ end # -1 /\ marked
  <2>1. start + 3 \in Nat
    BY <1>5, <1>9
  <2>2. [s EXCEPT !.needle = start + 3] = [text |-> s.text, needle |-> start + 3]
    BY <1>2
  <2> QED BY <1>1, <1>2, <1>9, <2>1, <2>2 DEF Cleanings
<1>10. CASE start # -1 /\ end # -1 /\ ~marked
  BY <1>1, <1>3, <1>5, <1>7, <1>10 DEF Cleanings
<1> QED BY <1>8, <1>9, <1>10

\* The document that is parsed is as long as the one that was given.
LEMMA CleanupIs ==
  ASSUME StringsAreSequences(STRING), LiteralsAreLong, NEW t \in STRING
  PROVE  CleanupXml(t) \in STRING /\ Len(CleanupXml(t)) = Len(t)
<1>1. PICK len \in Nat : len = Len(t)
  BY LenIs
<1>1a. len \in Nat
  BY <1>1
<1>1b. PICK n \in Nat : n = len \div 3
  BY <1>1a
<1>1c. CleanRounds(t) = n /\ n \in Nat
  BY <1>1, <1>1b DEF CleanRounds
<1> DEFINE V == {s \in Cleanings : Len(s.text) = len}
           begin == [text |-> t, needle |-> 0]
           turn == [p \in (1..n) \X V |-> ClearComment[p[2]]]
<1>2. begin \in V
  BY <1>1 DEF Cleanings
<1>3. \A s \in V : ClearComment[s] \in V
  BY ClearCommentIs
<1> HIDE DEF V, begin
<1>4. turn \in [(1..n) \X V -> V] /\ \A i \in 1..n : \A s \in V : turn[<<i, s>>] = ClearComment[s]
  BY <1>3
<1> HIDE DEF turn
<1>5. PICK f \in Runs(n, V, begin, turn) : TRUE
  BY <1>1c, <1>2, <1>4, RunExists
<1>6. /\ f \in [0..n -> V] /\ f[0] = begin
      /\ \A i \in 1..n : f[i] = turn[<<i, f[i - 1]>>]
  BY <1>5 DEF Runs
<1>7. ASSUME NEW i \in 1..n PROVE f[i] = ClearComment[f[i - 1]]
  <2>1. i - 1 \in 0..n
    BY <1>1c
  <2> QED BY <1>4, <1>6, <2>1
<1>8. f = [i \in 0..n |-> IF i = 0 THEN begin ELSE ClearComment[f[i - 1]]]
  <2> DEFINE g == [i \in 0..n |-> IF i = 0 THEN begin ELSE ClearComment[f[i - 1]]]
  <2>1. ASSUME NEW i \in 0..n PROVE f[i] = g[i]
    <3>1. CASE i = 0
      BY <1>6, <3>1
    <3>2. CASE i # 0
      BY <1>1c, <1>7, <3>2
    <3> QED BY <3>1, <3>2
  <2> QED BY <1>6, <2>1
<1> DEFINE clean == CHOOSE g : g = [i \in 0..n |-> IF i = 0 THEN begin ELSE ClearComment[g[i - 1]]]
<1>9. clean = [i \in 0..n |-> IF i = 0 THEN begin ELSE ClearComment[clean[i - 1]]]
  BY <1>8
<1>10. CleanupXml(t) = clean[n].text
  BY <1>1c DEF CleanupXml, CleanedXml, begin
<1> HIDE DEF clean
<1>11. clean[0] = begin /\ \A i \in 1..n : clean[i] = ClearComment[clean[i - 1]]
  <2> DEFINE g == [i \in 0..n |-> IF i = 0 THEN begin ELSE ClearComment[clean[i - 1]]]
  <2>1. g[0] = begin
    BY <1>1c
  <2>2. \A i \in 1..n : g[i] = ClearComment[clean[i - 1]]
    BY <1>1c
  <2>3. clean = g
    BY <1>9
  <2> HIDE DEF g
  <2> QED BY <2>1, <2>2, <2>3
<1> DEFINE S == {i \in 0..n : clean[i] \in V}
<1>12. 0 \in S
  BY <1>1c, <1>2, <1>11
<1>13. ASSUME NEW i \in 1..n, i - 1 \in S PROVE i \in S
  BY <1>3, <1>11, <1>13
<1> HIDE DEF S
<1>14. n \in S
  BY <1>1c, <1>12, <1>13, UpTo
<1> QED BY <1>1, <1>10, <1>14 DEF S, V, Cleanings

---------------------------------------------------------------------------
\* The parser of documents


\* A document comes to its second parse only when it has been converted.
ConvertedOnce == pass = 2 => world.converts

EncInv ==
  /\ ConvertedOnce
  /\ GivenFromUtf8

LEMMA InitEnc == Init => EncInv
BY DEF Init, EncInv, ConvertedOnce, GivenFromUtf8

LEMMA NextEnc ==
  ASSUME EncInv, [Next]_vars
  PROVE  EncInv'
<1>1. CASE ReadToken \/ HandleToken \/ EndCall \/ UNCHANGED vars
  <2>1. UNCHANGED outside
    BY <1>1 DEF ReadToken, HandleToken, EndCall, outside, vars
  <2>. QED BY <2>1 DEF outside, EncInv, ConvertedOnce, GivenFromUtf8
<1>2. CASE Give
  BY <1>2 DEF Give, GiveFirst, EncInv, ConvertedOnce, GivenFromUtf8
<1>3. CASE Refuse
  BY <1>3 DEF Refuse, EncInv, ConvertedOnce, GivenFromUtf8
<1>4. CASE Convert
  BY <1>4 DEF Convert, EncInv, ConvertedOnce, GivenFromUtf8
<1>. QED BY <1>1, <1>2, <1>3, <1>4 DEF Next

\* For every document: the tree that is given is of a text that is UTF-8, or of
\* one that was converted.
THEOREM TreesAreOfUtf8 == Spec => []GivenFromUtf8
<1>1. EncInv => GivenFromUtf8
  BY DEF EncInv
<1>. QED BY <1>1, InitEnc, NextEnc, PTL DEF Spec

---------------------------------------------------------------------------
---------------------------------------------------------------------------
\* The lexer beside the tree builder

\* The document is text, and the lexer is within it.
LexerInBounds == contents \in STRING /\ LexerInv(lexer, contents)

LEMMA LexerInitOK ==
  ASSUME NEW t \in STRING, StringsAreSequences(STRING)
  PROVE  LexerInv(lexer_init, t)
<1>1. PICK n \in Nat : n = Len(t)
  BY LenIs
<1>1a. n \in Nat
  BY <1>1
<1>2. 0 <= n
  BY <1>1a
<1>3. lexer_init \in Lexer /\ lexer_init.pos = 0 /\ lexer_init.tok_size > 0
  BY LexerAssumption DEF lexer_init, Lexer, Modes
<1> QED BY <1>1, <1>2, <1>3 DEF LexerInv

LEMMA InitInBounds ==
  ASSUME StringsAreSequences(STRING), LiteralsAreLong, Init
  PROVE  LexerInBounds
<1>1. PICK d \in Documents : contents = CleanupXml(d.text)
  BY DEF Init
<1>2. d.text \in STRING
  BY DocumentsAssumption
<1>3. contents \in STRING
  BY <1>1, <1>2, CleanupIs
<1>4. lexer = lexer_init
  BY DEF Init
<1> QED BY <1>3, <1>4, LexerInitOK DEF LexerInBounds

\* What the lexer gives when it is asked: a token of a known type, with a text
\* that is not empty if it is a name; and it has moved on.
LEMMA ReadTokenGives ==
  ASSUME StringsAreSequences(STRING), LiteralsAreLong, LexerInBounds, ReadToken
  PROVE  /\ LexerInBounds'
         /\ tok'.type \in TokenTypes /\ tok'.text \in STRING
         /\ tok'.type = "T_IDENT" => Len(tok'.text) >= 1
         /\ \/ lexer'.pos > lexer.pos
            \/ lexer.mode = "DATA" /\ lexer'.mode = "NORMAL"
            \/ tok'.type \in {"T_EOF", "T_ERROR"}
<1> DEFINE scan == lexer_get_token(contents, lexer)
<1>1. ScanInv(scan, lexer, contents) /\ scan.type # NoType
  BY ScanEnds DEF LexerInBounds
<1>2. tok' = [type |-> scan.type, text |-> scan.tok] /\ lexer' = scan.lx /\ contents' = contents
  BY DEF ReadToken, Read, outside
<1> HIDE DEF scan
<1>3. /\ scan \in Scans /\ scan.lx.tok_size > 0 /\ scan.lx.pos <= Len(contents)
      /\ MovedOn(scan, lexer)
  BY <1>1 DEF ScanInv, InBuffer
<1>4. scan.lx \in Lexer /\ scan.tok \in STRING /\ scan.type \in TokenTypes
  BY <1>1, <1>3 DEF Scans
<1>5. LexerInBounds'
  BY <1>2, <1>3, <1>4 DEF LexerInBounds, LexerInv
<1> QED BY <1>2, <1>3, <1>4, <1>5 DEF MovedOn

\* A token that would be read has a name if it is one.
TokensAreNamed ==
  LET scan == lexer_get_token(contents, lexer)
  IN  Named([type |-> scan.type, text |-> scan.tok])

\* A name that is not empty is not empty in upper case either.
LEMMA NamedIs ==
  ASSUME StringsAreSequences(STRING), LiteralsAreLong, LexerInBounds
  PROVE  TokensAreNamed
<1> DEFINE scan == lexer_get_token(contents, lexer)
<1>1. ScanInv(scan, lexer, contents) /\ scan.type # NoType
  BY ScanEnds DEF LexerInBounds
<1> DEFINE t == [type |-> scan.type, text |-> scan.tok]
<1>2. TokensAreNamed = Named(t)
  BY DEF TokensAreNamed
<1> HIDE DEF scan
<1>3. scan.tok \in STRING /\ (scan.type = "T_IDENT" => Len(scan.tok) >= 1)
  BY <1>1 DEF ScanInv, InBuffer, MovedOn, Scans
<1>4. Len(strtoupper[scan.tok]) = Len(scan.tok)
  BY <1>3, StrtoupperIs
<1>5. Len(Empty) = 0
  BY DEF LiteralsAreLong
<1>6. scan.type = "T_IDENT" => strtoupper[scan.tok] # Empty
  BY <1>3, <1>4, <1>5
<1> QED BY <1>2, <1>6 DEF Named

\* Every step keeps the lexer in its bounds.
LEMMA NextInBounds ==
  ASSUME StringsAreSequences(STRING), LiteralsAreLong, LexerInBounds, [Next]_vars
  PROVE  LexerInBounds'
<1>1. CASE ReadToken
  BY <1>1, ReadTokenGives
<1>2. CASE HandleToken \/ EndCall \/ Give \/ Refuse \/ UNCHANGED vars
  <2>1. contents' = contents /\ lexer' = lexer
    BY <1>2 DEF HandleToken, EndCall, Give, Refuse, outside, vars
  <2> QED BY <2>1 DEF LexerInBounds
<1>3. CASE Convert
  <2>1. contents' = contents /\ lexer' = lexer_init
    BY <1>3 DEF Convert
  <2> QED BY <2>1, LexerInitOK DEF LexerInBounds
<1> QED BY <1>1, <1>2, <1>3 DEF Next

LEMMA StepMovesOn ==
  ASSUME StringsAreSequences(STRING), LiteralsAreLong, LexerInBounds, Next,
         step = "read", step' # "read"
  PROVE  /\ \/ lexer'.pos > lexer.pos
            \/ lexer.mode = "DATA" /\ lexer'.mode = "NORMAL"
            \/ tok'.type \in {"T_EOF", "T_ERROR"}
         /\ tok'.type = "T_IDENT" => tok'.text # Empty
<1>1. ~HandleToken
  BY DEF HandleToken, Handle, In, IdleMarkup, IdleText, IdleEnd, TagName, OpenElement, OpenTooDeep,
         Leaf, PropertyName, AttributeOther, PropertyAlone, PropertyEquals, PropertyValue,
         NodeClose, TagTerm, TagTermIgnore, Skipped, CdataSection
<1>2. ~EndCall /\ ~Give /\ ~Refuse /\ ~Convert
  BY DEF EndCall, Unwind, BuildTree, Give, Refuse, Convert
<1>3. ReadToken
  BY <1>1, <1>2 DEF Next
<1>4. Len(Empty) = 0
  BY DEF LiteralsAreLong
<1> QED BY <1>3, <1>4, ReadTokenGives

\* For every document: each token takes a character or ends a run of data, so
\* that the lexer reaches the end, and no name is empty.
THEOREM LexerAlwaysMovesOn ==
  ASSUME TextsAreSequences(STRING) PROVE Spec => LexerMovesOn
<1> DEFINE MovesOn ==
             step = "read" /\ step' # "read" =>
               /\ \/ lexer'.pos > lexer.pos
                  \/ lexer.mode = "DATA" /\ lexer'.mode = "NORMAL"
                  \/ tok'.type \in {"T_EOF", "T_ERROR"}
               /\ tok'.type = "T_IDENT" => tok'.text # Empty
<1>1. Init => LexerInBounds
  BY InitInBounds DEF TextsAreSequences
<1>2. LexerInBounds /\ [Next]_vars => LexerInBounds'
  BY NextInBounds DEF TextsAreSequences
<1>3. LexerInBounds /\ [Next]_vars => [MovesOn]_vars
  BY StepMovesOn DEF TextsAreSequences
<1> QED BY <1>1, <1>2, <1>3, PTL DEF Spec, LexerMovesOn

LEMMA ConvertOK ==
  ASSUME IInv, Convert
  PROVE  IInv'
<1>1. /\ step' = "read" /\ rec' = 0 /\ state' = "IDLE" /\ retval' = 0
      /\ root_names' = root_names
  BY DEF Convert
<1>2. Shape'
  BY <1>1, TreeAssumption DEF IInv, Shape
<1>. QED BY <1>1, <1>2 DEF IInv, Leads, Returns

\* A step of the parser is one of the tree builder, or begins the second parse.
LEMMA StepKeeps ==
  ASSUME IInv, TokensAreNamed, [Next]_vars
  PROVE  IInv' /\ (pass' = pass => (Outline!Next \/ UNCHANGED Outline!vars))
<1>1. CASE ReadToken
  <2>. DEFINE t == [type |-> lexer_get_token(contents, lexer).type,
                    text |-> lexer_get_token(contents, lexer).tok]
  <2>1. Read(t) /\ Named(t)
    BY <1>1 DEF ReadToken, TokensAreNamed
  <2>. HIDE DEF t
  <2>. QED BY <2>1, ReadOK, ReadMaps
<1>2. CASE HandleToken
  <2>1. Handle
    BY <1>2 DEF HandleToken
  <2>. QED BY <2>1, NextKeepsIInv, HandleMaps DEF TreeNext
<1>3. CASE EndCall
  <2>1. Unwind \/ BuildTree
    BY <1>3 DEF EndCall
  <2>. QED BY <2>1, UnwindOK, BuildTreeOK, UnwindMaps, BuildTreeMaps
<1>4. CASE Give \/ Refuse \/ UNCHANGED vars
  <2>1. UNCHANGED treeVars
    BY <1>4 DEF Give, Refuse, vars
  <2>. QED BY <2>1, StutterOK DEF treeVars, FinalDepth, Status, Outline!vars
<1>5. CASE Convert
  <2>1. pass' # pass
    BY <1>5 DEF Convert, NeedsConversion
  <2>. QED BY <1>5, <2>1, ConvertOK
<1>. QED BY <1>1, <1>2, <1>3, <1>4, <1>5 DEF Next

\* For every document and every limit: both parses keep the promise of XmlOutline.
THEOREM ParserKeepsOutline ==
  ASSUME TextsAreSequences(STRING) PROVE Spec => KeepsOutline
<1>1. Init => IInv /\ Outline!Init /\ LexerInBounds
  BY TreeInitOK, InitMaps, InitInBounds DEF Init, TextsAreSequences
<1>2. IInv /\ LexerInBounds /\ [Next]_vars => LexerInBounds'
  BY NextInBounds DEF TextsAreSequences
<1>3. LexerInBounds => TokensAreNamed
  BY NamedIs DEF TextsAreSequences
<1>4. IInv /\ TokensAreNamed /\ [Next]_vars
        => IInv' /\ [pass' = pass => (Outline!Next \/ UNCHANGED Outline!vars)]_vars
  BY StepKeeps
<1>. QED BY <1>1, <1>2, <1>3, <1>4, PTL DEF Spec, KeepsOutline

---------------------------------------------------------------------------
\* The ranges of the variables

\* What of the type invariant the other invariants do not say.
Ranged ==
  /\ flags \in FlagSets
  /\ state \in States
  /\ tok.type \in TokenTypes
  /\ step \in {"read", "handle"} => res \in {-1, 0}
  /\ pass \in 1..2
  /\ given \in {"pending", "doc", "NULL"}

LEMMA InitRanged == Init => Ranged
<1> SUFFICES ASSUME Init PROVE Ranged
  OBVIOUS
<1>1. /\ flags \in FlagSets /\ state = "IDLE" /\ tok.type = "T_EOL" /\ res = 0 /\ pass = 1
      /\ given = "pending"
  BY DEF Init, TreeInit
<1> QED BY <1>1 DEF Ranged, States, TokenTypes

\* A handler leads to a state there is, and keeps the result unless it ends the
\* call.
LEMMA HandleRanged ==
  ASSUME Ranged, Handle
  PROVE  /\ flags' = flags /\ tok' = tok /\ state' \in States
         /\ step' \in {"read", "handle"} => res' \in {-1, 0}
<1> DEFINE Good == /\ flags' = flags /\ tok' = tok /\ state' \in States
                   /\ step' \in {"read", "handle"} => res' \in {-1, 0}
<1>1. step = "handle"
  BY DEF Handle, In, IdleMarkup, IdleText, IdleEnd, TagName, OpenElement, OpenTooDeep, Leaf,
         PropertyName, AttributeOther, PropertyAlone, PropertyEquals, PropertyValue, NodeClose,
         TagTerm, TagTermIgnore, Skipped, CdataSection
<1>2. res \in {-1, 0} /\ state \in States
  BY <1>1 DEF Ranged
<1>3. ASSUME NEW value, Return(value) PROVE Good
  BY <1>2, <1>3 DEF Return, rest
<1>4. ASSUME NEW st \in States, Move(st) PROVE Good
  BY <1>2, <1>4 DEF Move, rest
<1>5. /\ {"IDLE", "ATTRIBUTE", "Q_ATTRIBUTE", "STRING", "Q_STRING", "COMMENT", "DOCTYPE",
          "ATTRIBUTE_EQUALS", "Q_ATTRIBUTE_EQUALS", "TAG_TERM", "TAG_TERM_IGNORE"} \subseteq States
  BY DEF States
<1>6. CASE IdleMarkup
  <2>1. IdleTarget[tok.type] \in States
    BY <1>6 DEF IdleMarkup, IdleTarget, States
  <2> QED BY <1>4, <1>6, <2>1 DEF IdleMarkup
<1>7. CASE IdleText
  BY <1>2, <1>7 DEF IdleText, rest
<1>8. CASE IdleEnd
  BY <1>2, <1>3, <1>8 DEF IdleEnd, Return, rest
<1>9. CASE TagName
  <2>1. CASE tok.type = "T_IDENT"
    BY <1>2, <1>5, <1>9, <2>1 DEF TagName, rest
  <2> QED BY <1>3, <1>9, <2>1 DEF TagName
<1>10. CASE OpenElement
  BY <1>2, <1>5, <1>10 DEF OpenElement, rest
<1>11. CASE OpenTooDeep
  BY <1>3, <1>11 DEF OpenTooDeep
<1>12. CASE Leaf
  BY <1>2, <1>5, <1>12 DEF Leaf, rest
<1>13. CASE PropertyName
  BY <1>2, <1>5, <1>13 DEF PropertyName, rest
<1>14. CASE AttributeOther
  BY <1>2, <1>3, <1>4, <1>14 DEF AttributeOther
<1>15. CASE PropertyAlone
  BY <1>2, <1>5, <1>15 DEF PropertyAlone, Again, Attribute, rest
<1>16. CASE PropertyEquals
  BY <1>2, <1>3, <1>4, <1>5, <1>16 DEF PropertyEquals
<1>17. CASE PropertyValue
  <2>1. CASE tok.type \in {"T_STRING", "T_IDENT"}
    BY <1>2, <1>5, <1>17, <2>1 DEF PropertyValue, Attribute, Space, rest
  <2> QED BY <1>2, <1>3, <1>4, <1>17, <2>1 DEF PropertyValue
<1>18. CASE NodeClose
  <2>1. ASSUME NEW r, EndTag(r) PROVE Good
    BY <1>2, <1>5, <2>1 DEF EndTag
  <2> QED BY <1>3, <1>18, <2>1 DEF NodeClose
<1>19. CASE TagTerm
  BY <1>2, <1>3, <1>4, <1>19 DEF TagTerm
<1>20. CASE TagTermIgnore
  BY <1>3, <1>4, <1>5, <1>20 DEF TagTermIgnore
<1>21. CASE Skipped
  BY <1>4, <1>5, <1>21 DEF Skipped
<1>22. CASE CdataSection
  BY <1>2, <1>3, <1>5, <1>22 DEF CdataSection, rest
<1> QED BY <1>6, <1>7, <1>8, <1>9, <1>10, <1>11, <1>12, <1>13, <1>14, <1>15, <1>16, <1>17,
           <1>18, <1>19, <1>20, <1>21, <1>22 DEF Handle

LEMMA NextRanged ==
  ASSUME StringsAreSequences(STRING), LiteralsAreLong, IInv, LexerInBounds, Ranged, [Next]_vars
  PROVE  Ranged'
<1>1. CASE ReadToken
  <2>1. tok'.type \in TokenTypes
    BY <1>1, ReadTokenGives
  <2>2. /\ flags' = flags /\ state' = state /\ pass' = pass /\ given' = given
        /\ step = "read" /\ step' \in {"unwind", "handle"}
        /\ step' = "handle" => res' = res
    BY <1>1 DEF ReadToken, Read, rest, outside
  <2> QED BY <2>1, <2>2 DEF Ranged
<1>2. CASE HandleToken
  <2>1. /\ flags' = flags /\ tok' = tok /\ state' \in States
        /\ step' \in {"read", "handle"} => res' \in {-1, 0}
    BY <1>2, HandleRanged DEF HandleToken
  <2>2. pass' = pass /\ given' = given
    BY <1>2 DEF HandleToken, outside
  <2> QED BY <2>1, <2>2 DEF Ranged
<1>3. CASE EndCall
  <2>1. pass' = pass /\ given' = given /\ flags' = flags /\ tok' = tok
    BY <1>3 DEF EndCall, outside, Unwind, BuildTree, rest
  <2>2. state' \in States
    BY <1>3 DEF EndCall, Unwind, BuildTree, call, Ranged, States
  <2>3. step' \in {"read", "handle"} => res' \in {-1, 0}
    BY <1>3 DEF EndCall, Unwind, BuildTree
  <2> QED BY <2>1, <2>2, <2>3 DEF Ranged
<1>4. CASE Give \/ Refuse
  <2>1. /\ flags' = flags /\ tok' = tok /\ state' = state /\ step' = step /\ res' = res
        /\ pass' = pass /\ given' \in {"doc", "NULL"}
    BY <1>4 DEF Give, GiveFirst, Refuse, treeVars
  <2> QED BY <2>1 DEF Ranged
<1>5. CASE Convert
  <2>1. /\ flags' = flags /\ tok' = tok /\ state' = "IDLE" /\ step = "over" /\ res' = res
        /\ pass' = 2 /\ given' = given
    BY <1>5 DEF Convert
  <2>2. res \in {-1, 0}
    BY <2>1 DEF IInv, Returns, Shape
  <2> QED BY <2>1, <2>2 DEF Ranged, States
<1>6. CASE UNCHANGED vars
  BY <1>6 DEF vars, treeVars, Ranged
<1> QED BY <1>1, <1>2, <1>3, <1>4, <1>5, <1>6 DEF Next

LEMMA TypesAreOK ==
  ASSUME IInv, LexerInBounds, Ranged
  PROVE  XmlTypeOK
<1>1. /\ step \in {"read", "handle", "unwind", "over"} /\ rec \in Nat /\ rec < MAX_RECURSION
      /\ MAX_RECURSION \in Nat
  BY TreeAssumption DEF IInv, Shape
<1>2. retval \in -rec..0
  <2>1. CASE retval = 0
    BY <1>1, <2>1
  <2>2. CASE retval # 0
    <3>1. retval \in Int /\ retval < -1 /\ rec + retval + 1 \in 1..rec
      BY <2>2 DEF IInv, Leads, Closed
    <3> QED BY <1>1, <3>1
  <2> QED BY <2>1, <2>2
<1>3. res \in -(rec + 1)..0
  <2>1. CASE res \in {-1, 0}
    BY <1>1, <2>1
  <2>2. CASE res \notin {-1, 0}
    <3>1. res \in Int /\ res < -1 /\ rec + res >= 0
      BY <1>1, <2>2 DEF IInv, Returns, Ranged
    <3> QED BY <1>1, <3>1
  <2> QED BY <2>1, <2>2
<1>4. rec \in 0..(MAX_RECURSION - 1)
  BY <1>1
<1> QED BY <1>1, <1>2, <1>3, <1>4 DEF XmlTypeOK, Ranged, LexerInBounds, LexerInv

\* For every document and every limit: the calls are no deeper than the limit,
\* the return values name open calls, and the lexer stays within the document.
THEOREM TypesHold ==
  ASSUME TextsAreSequences(STRING) PROVE Spec => []XmlTypeOK
<1>1. Init => IInv /\ LexerInBounds /\ Ranged
  BY TreeInitOK, InitInBounds, InitRanged DEF Init, TextsAreSequences
<1>2. LexerInBounds => TokensAreNamed
  BY NamedIs DEF TextsAreSequences
<1>3. IInv /\ TokensAreNamed /\ [Next]_vars => IInv'
  BY StepKeeps
<1>4. IInv /\ LexerInBounds /\ Ranged /\ [Next]_vars => LexerInBounds' /\ Ranged'
  BY NextInBounds, NextRanged DEF TextsAreSequences
<1>5. IInv /\ LexerInBounds /\ Ranged => XmlTypeOK
  BY TypesAreOK
<1> QED BY <1>1, <1>2, <1>3, <1>4, <1>5, PTL DEF Spec

---------------------------------------------------------------------------
\* Text among the children of a node

IsNode(x) ==
  x = [name |-> x.name, data |-> x.data, props |-> x.props, child |-> x.child]

LEMMA NodeFields ==
  ASSUME NEW name, NEW data, NEW props, NEW child, NEW x,
         x = [name |-> name, data |-> data, props |-> props, child |-> child]
  PROVE  IsNode(x) /\ x.name = name /\ x.data = data /\ x.props = props /\ x.child = child
BY DEF IsNode

\* An element whose text nodes are merged, if multi stands for MULTI_TEXT.
IsMergedAt(child, k, multi) ==
  /\ IsNode(child[k])
  /\ child[k].name = cdata =>
       /\ multi /\ k > 1 /\ child[k - 1].name # cdata
       /\ child[k].child = <<>> /\ child[k].props = <<>>
AreMerged(child, multi) ==
  /\ child \in Seq({child[k] : k \in DOMAIN child})
  /\ \A k \in 1..Len(child) : IsMergedAt(child, k, multi)
IsMerged(x, multi) ==
  /\ IsNode(x)
  /\ x.name # cdata
  /\ AreMerged(x.child, multi)

\* A function on 1..n is a list.
LEMMA ListType ==
  ASSUME NEW f, NEW n \in Nat, f = [k \in 1..n |-> f[k]]
  PROVE  f \in Seq({f[k] : k \in DOMAIN f}) /\ Len(f) = n
<1> DEFINE S == {f[k] : k \in DOMAIN f}
<1>1. DOMAIN f = 1..n
  OBVIOUS
<1>2. \A k \in 1..n : f[k] \in S
  BY <1>1
<1> HIDE DEF S
<1>3. f \in [1..n -> S]
  BY <1>2
<1>4. f \in Seq(S) /\ Len(f) = n
  BY <1>3
<1> QED BY <1>4 DEF S

\* One more child, if it is an element, or text after an element.
LEMMA AppendedIsMerged ==
  ASSUME NEW child, NEW multi, AreMerged(child, multi), NEW y, IsNode(y),
         y.name = cdata => /\ multi /\ child # <<>> /\ child[Len(child)].name # cdata
                           /\ y.child = <<>> /\ y.props = <<>>
  PROVE  AreMerged(Append(child, y), multi)
<1> DEFINE S == {child[k] : k \in DOMAIN child} \cup {y}
           n == Len(child)
           c == Append(child, y)
<1>1. child \in Seq({child[k] : k \in DOMAIN child})
  BY DEF AreMerged
<1>2. n \in Nat /\ child \in [1..n -> S] /\ DOMAIN child = 1..n
  BY <1>1
<1> HIDE DEF S
<1>3. child \in Seq(S) /\ y \in S
  BY <1>2 DEF S
<1>4. c \in Seq(S) /\ Len(c) = n + 1 /\ c[n + 1] = y /\ \A k \in 1..n : c[k] = child[k]
  BY <1>3, AppendProperties
<1> HIDE DEF c, n
<1>5. c = [k \in 1..(n + 1) |-> c[k]]
  BY <1>2, <1>4
<1>6. c \in Seq({c[k] : k \in DOMAIN c}) /\ Len(c) = n + 1
  <2>1. n + 1 \in Nat
    BY <1>2
  <2> QED BY <1>5, <2>1, ListType
<1>7. ASSUME NEW k \in 1..(n + 1) PROVE IsMergedAt(c, k, multi)
  <2>1. CASE k \in 1..n
    <3>1. IsMergedAt(child, k, multi)
      BY <2>1 DEF AreMerged, n
    <3>2. c[k] = child[k] /\ (k > 1 => c[k - 1] = child[k - 1])
      BY <1>2, <1>4, <2>1
    <3> QED BY <3>1, <3>2 DEF IsMergedAt
  <2>2. CASE k = n + 1
    <3>1. child # <<>> => n > 0
      BY <1>3 DEF n
    <3>2. k - 1 = n /\ (n > 0 => n \in 1..n /\ k > 1)
      BY <1>2, <2>2
    <3>3. c[k] = y /\ (n > 0 => c[k - 1] = child[n])
      BY <1>4, <2>2, <3>2
    <3> QED BY <1>2, <2>2, <3>1, <3>2, <3>3 DEF IsMergedAt, n
  <2> QED BY <1>2, <2>1, <2>2
<1> QED BY <1>6, <1>7 DEF AreMerged, c

\* A new element has no children.
LEMMA NewNodeIsMerged ==
  ASSUME NEW name, NEW props, NEW multi
  PROVE  /\ IsNode(new_xml_node(name, props)) /\ new_xml_node(name, props).name = name
         /\ name # cdata => IsMerged(new_xml_node(name, props), multi)
<1> DEFINE x    == new_xml_node(name, props)
           none == <<>>
<1>1. x = [name |-> name, data |-> Empty, props |-> props, child |-> none]
  BY DEF new_xml_node, Empty
<1> HIDE DEF x, none
<1>2. IsNode(x) /\ x.name = name /\ x.child = none
  BY <1>1, NodeFields
<1>4. AreMerged(<<>>, multi)
  BY DEF AreMerged
<1> QED BY <1>2, <1>4 DEF IsMerged, x, none

\* An element becomes a child.
LEMMA ChildIsMerged ==
  ASSUME NEW x, NEW multi, IsMerged(x, multi), NEW y, IsNode(y), y.name # cdata
  PROVE  IsMerged(AddChild(x, y), multi)
<1>1. x = [name |-> x.name, data |-> x.data, props |-> x.props, child |-> x.child]
  BY DEF IsMerged, IsNode
<1> DEFINE z == AddChild(x, y)
<1>2. z = [name |-> x.name, data |-> x.data, props |-> x.props, child |-> Append(x.child, y)]
  BY <1>1 DEF AddChild
<1> HIDE DEF z
<1>3. z.name = x.name /\ z.data = x.data /\ z.props = x.props /\ z.child = Append(x.child, y)
  BY <1>2
<1>4. AreMerged(Append(x.child, y), multi)
  BY AppendedIsMerged DEF IsMerged
<1> QED BY <1>2, <1>3, <1>4 DEF IsMerged, IsNode, z

\* Text is merged with the text before it.
LEMMA TextIsMerged ==
  ASSUME NEW x, NEW text, IsMerged(x, "MULTI_TEXT" \in flags)
  PROVE  IsMerged(AppendText(x, text), "MULTI_TEXT" \in flags)
<1> DEFINE child == x.child
           n == Len(child)
           multi == "MULTI_TEXT" \in flags
           merges == text # "" /\ multi /\ child # <<>> /\ LastOf(child).name = cdata
           parts == text # "" /\ multi /\ child # <<>> /\ LastOf(child).name # cdata
           plain == text # "" /\ ~(multi /\ child # <<>>)
           z == AppendText(x, text)
<1>1. x = [name |-> x.name, data |-> x.data, props |-> x.props, child |-> x.child]
  BY DEF IsMerged, IsNode
<1>2. x.name # cdata /\ AreMerged(child, multi)
  BY DEF IsMerged
<1>3. /\ n \in Nat /\ DOMAIN child = 1..n /\ child = [k \in 1..n |-> child[k]]
      /\ child # <<>> => n \in 1..n
  BY <1>2 DEF AreMerged
<1>4. ASSUME NEW c, AreMerged(c, multi), z = [x EXCEPT !.child = c] PROVE IsMerged(z, multi)
  <2>1. z = [name |-> x.name, data |-> x.data, props |-> x.props, child |-> c]
    BY <1>1, <1>4
  <2> HIDE DEF z
  <2>2. z.name = x.name /\ z.data = x.data /\ z.props = x.props /\ z.child = c
    BY <2>1
  <2> QED BY <1>2, <1>4, <2>1, <2>2 DEF IsMerged, IsNode
<1>5. CASE text = ""
  BY <1>5 DEF AppendText
<1>6. CASE merges
  <2> DEFINE d == child[n].data \o text
             y == [child[n] EXCEPT !.data = d]
  <2>1. n \in 1..n /\ child[n].name = cdata /\ IsMergedAt(child, n, multi)
    BY <1>2, <1>3, <1>6 DEF LastOf, AreMerged
  <2>2. child[n] = [name |-> child[n].name, data |-> child[n].data, props |-> child[n].props,
                    child |-> child[n].child]
    BY <2>1 DEF IsMergedAt, IsNode
  <2>3. z = [x EXCEPT !.child = [child EXCEPT ![n] = y]]
    BY <1>6, <2>1 DEF AppendText
  <2> HIDE DEF d
  <2>4. y = [name |-> child[n].name, data |-> d, props |-> child[n].props,
             child |-> child[n].child]
    BY <2>2
  <2> HIDE DEF y
  <2>5. /\ IsNode(y) /\ y.name = child[n].name
        /\ y.props = child[n].props /\ y.child = child[n].child
    BY <2>4, NodeFields
  <2> DEFINE c == [child EXCEPT ![n] = y]
  <2>6. c = [k \in 1..n |-> c[k]] /\ c[n] = y /\ (\A k \in 1..(n - 1) : c[k] = child[k])
    BY <1>3, <2>1
  <2>7. z = [x EXCEPT !.child = c]
    BY <2>3
  <2> HIDE DEF c
  <2>8. c \in Seq({c[k] : k \in DOMAIN c}) /\ Len(c) = n
    BY <1>3, <2>6, ListType
  <2>9. ASSUME NEW k \in 1..n PROVE IsMergedAt(c, k, multi)
    <3>1. IsMergedAt(child, k, multi)
      BY <1>2 DEF AreMerged
    <3>2. k > 1 => c[k - 1] = child[k - 1]
      <4>1. k > 1 => k - 1 \in 1..(n - 1)
        BY <1>3
      <4> QED BY <2>6, <4>1
    <3>3. CASE k = n
      BY <2>5, <2>6, <3>1, <3>2, <3>3 DEF IsMergedAt
    <3>4. CASE k # n
      <4>1. c[k] = child[k]
        <5>1. k \in 1..(n - 1)
          BY <1>3, <3>4
        <5> QED BY <2>6, <5>1
      <4> QED BY <3>1, <3>2, <4>1 DEF IsMergedAt
    <3> QED BY <3>3, <3>4
  <2>10. AreMerged(c, multi)
    BY <2>8, <2>9 DEF AreMerged
  <2> QED BY <1>4, <2>7, <2>10
<1>7. CASE parts
  <2> DEFINE none == <<>>
             w    == new_xml_node(cdata, none)
             y    == [w EXCEPT !.data = text]
  <2>1. w = [name |-> cdata, data |-> Empty, props |-> none, child |-> none]
    BY DEF new_xml_node, Empty
  <2>2. z = [x EXCEPT !.child = Append(child, y)]
    BY <1>7 DEF AppendText
  <2> HIDE DEF w, none
  <2>3. y = [name |-> cdata, data |-> text, props |-> none, child |-> none]
    BY <2>1
  <2> HIDE DEF y
  <2>4. IsNode(y) /\ y.name = cdata /\ y.props = none /\ y.child = none
    BY <2>3, NodeFields
  <2>5. AreMerged(Append(child, y), multi)
    BY <1>2, <1>7, <2>4, AppendedIsMerged DEF LastOf, none
  <2> QED BY <1>4, <2>2, <2>5
<1>8. CASE plain
  <2>1. PICK d : z = [x EXCEPT !.data = d]
    BY <1>8 DEF AppendText
  <2>2. z = [name |-> x.name, data |-> d, props |-> x.props, child |-> child]
    BY <1>1, <2>1
  <2> HIDE DEF z
  <2>3. IsNode(z) /\ z.name = x.name /\ z.child = child
    BY <2>2, NodeFields
  <2> QED BY <1>2, <2>3 DEF IsMerged, z
<1> QED BY <1>5, <1>6, <1>7, <1>8

\* No element has the name that text nodes have: theirs is no text.
NotText(t) ==
  t.type = "T_IDENT" => \A mark \in {Empty, "?"} : mark \o strtoupper[t.text] # cdata

MergedInv ==
  /\ DOMAIN nodes = 0..MAX_RECURSION
  /\ \A r \in 0..MAX_RECURSION : IsMerged(nodes[r], "MULTI_TEXT" \in flags)
  /\ node_name # cdata
  /\ step = "handle" => NotText(tok)

\* The nodes before anything is read.
LEMMA EmptyNodes ==
  ASSUME LiteralsAreLong, NEW multi, NEW n, n = [k \in 0..MAX_RECURSION |-> new_xml_node(Empty, <<>>)]
  PROVE  DOMAIN n = 0..MAX_RECURSION /\ \A r \in 0..MAX_RECURSION : IsMerged(n[r], multi)
<1>1. Empty # cdata
  BY TreeAssumption DEF LiteralsAreLong
<1> DEFINE x == new_xml_node(Empty, <<>>)
<1>2. IsMerged(x, multi)
  BY <1>1, NewNodeIsMerged
<1> HIDE DEF x
<1> QED BY <1>2 DEF x

LEMMA TreeInitMerged ==
  ASSUME LiteralsAreLong, TreeInit PROVE MergedInv
<1>1. node_name # cdata
  BY TreeAssumption DEF TreeInit, LiteralsAreLong
<1>2. nodes = [k \in 0..MAX_RECURSION |-> new_xml_node(Empty, <<>>)] /\ step = "read"
  BY DEF TreeInit
<1> QED BY <1>1, <1>2, EmptyNodes DEF MergedInv

\* A step that builds nothing.
LEMMA NothingBuilt ==
  ASSUME MergedInv, nodes' = nodes, flags' = flags, node_name' = node_name,
         step' # "handle" \/ (step = "handle" /\ tok' = tok) \/ NotText(tok')
  PROVE  MergedInv'
BY DEF MergedInv, NotText

\* A step that changes one node.
LEMMA OneNode ==
  ASSUME MergedInv, NEW r \in 0..MAX_RECURSION, NEW x, IsMerged(x, "MULTI_TEXT" \in flags),
         nodes' = [nodes EXCEPT ![r] = x], flags' = flags, node_name' = node_name,
         step' # "handle"
  PROVE  MergedInv'
BY DEF MergedInv

LEMMA HandleMerged ==
  ASSUME IInv, MergedInv, Handle
  PROVE  MergedInv'
<1> DEFINE multi == "MULTI_TEXT" \in flags
<1>0. /\ step = "handle" /\ rec \in 0..MAX_RECURSION /\ IsMerged(nodes[rec], multi)
      /\ node_name # cdata /\ NotText(tok)
  <2>1. step = "handle"
    BY DEF Handle, In, IdleMarkup, IdleText, IdleEnd, TagName, OpenElement, OpenTooDeep, Leaf,
           PropertyName, AttributeOther, PropertyAlone, PropertyEquals, PropertyValue, NodeClose,
           TagTerm, TagTermIgnore, Skipped, CdataSection
  <2>2. rec \in 0..MAX_RECURSION
    BY TreeAssumption DEF IInv, Shape
  <2> QED BY <2>1, <2>2 DEF MergedInv
<1>1. ASSUME NEW value, Return(value) PROVE MergedInv'
  BY <1>0, <1>1, NothingBuilt DEF Return, tag, rest
<1>2. ASSUME NEW st, Move(st) PROVE MergedInv'
  BY <1>0, <1>2, NothingBuilt DEF Move, tag, rest
<1>3. CASE IdleMarkup
  BY <1>2, <1>3 DEF IdleMarkup
<1>4. CASE IdleText
  <2>1. nodes' = [nodes EXCEPT ![rec] = AppendText(nodes[rec], lexer_decode_entities[tok.text])]
        /\ step' = "read" /\ flags' = flags /\ node_name' = node_name
    BY <1>4 DEF IdleText, tag, rest
  <2> QED BY <1>0, <2>1, TextIsMerged, OneNode
<1>5. CASE IdleEnd
  <2>1. CASE tok.type = "T_EOF"
    BY <1>5, <2>1, NothingBuilt DEF IdleEnd, tag, Return, rest
  <2>2. CASE tok.type # "T_EOF"
    BY <1>1, <1>5, <2>2 DEF IdleEnd
  <2> QED BY <2>1, <2>2
<1>6. CASE TagName
  <2>1. CASE tok.type = "T_IDENT"
    <3>1. /\ node_name' = (IF state = "Q_NODE" THEN "?" ELSE Empty) \o strtoupper[tok.text]
          /\ nodes' = nodes /\ flags' = flags /\ step' = "read"
      BY <1>6, <2>1 DEF TagName, rest, Return
    <3>2. \A mark \in {Empty, "?"} : mark \o strtoupper[tok.text] # cdata
      BY <1>0, <2>1 DEF NotText
    <3>3. node_name' # cdata
      BY <3>1, <3>2
    <3> QED BY <3>1, <3>3 DEF MergedInv
  <2>2. CASE tok.type # "T_IDENT"
    BY <1>1, <1>6, <2>2 DEF TagName
  <2> QED BY <2>1, <2>2
<1>7. CASE OpenElement
  <2>1. /\ nodes' = [nodes EXCEPT ![rec + 1] = new_xml_node(node_name, properties)]
        /\ rec + 1 \in 0..MAX_RECURSION
        /\ step' = "read" /\ flags' = flags /\ node_name' = node_name
    BY <1>0, <1>7, TreeAssumption DEF OpenElement, tag, rest
  <2>2. IsMerged(new_xml_node(node_name, properties), multi)
    BY <1>0, NewNodeIsMerged
  <2> QED BY <2>1, <2>2, OneNode
<1>8. CASE OpenTooDeep
  BY <1>1, <1>8 DEF OpenTooDeep
<1>9. CASE Leaf
  <2> DEFINE y == new_xml_node(node_name, properties)
  <2>1. nodes' = [nodes EXCEPT ![rec] = AddChild(nodes[rec], y)]
        /\ step' = "read" /\ flags' = flags /\ node_name' = node_name
    BY <1>9 DEF Leaf, tag, rest
  <2>2. IsNode(y) /\ y.name # cdata
    BY <1>0, NewNodeIsMerged
  <2>3. IsMerged(AddChild(nodes[rec], y), multi)
    BY <1>0, <2>2, ChildIsMerged
  <2> QED BY <1>0, <2>1, <2>3, OneNode
<1>10. CASE PropertyName
  BY <1>10, NothingBuilt DEF PropertyName, rest
<1>11. CASE AttributeOther
  BY <1>1, <1>2, <1>11 DEF AttributeOther
<1>12. CASE PropertyAlone
  BY <1>0, <1>12, NothingBuilt DEF PropertyAlone, rest
<1>13. CASE PropertyEquals
  BY <1>1, <1>2, <1>13 DEF PropertyEquals
<1>14. CASE PropertyValue
  <2>1. CASE tok.type \in {"T_STRING", "T_IDENT"}
    BY <1>14, <2>1, NothingBuilt DEF PropertyValue, rest, Space
  <2>2. CASE tok.type \notin {"T_STRING", "T_IDENT"}
    BY <1>1, <1>2, <1>14, <2>2 DEF PropertyValue
  <2> QED BY <2>1, <2>2
<1>15. CASE NodeClose
  <2>1. CASE Return(-1)
    BY <1>1, <2>1
  <2>2. ASSUME NEW r, EndTag(r) PROVE MergedInv'
    BY <2>2, NothingBuilt DEF EndTag, tag
  <2> QED BY <1>15, <2>1, <2>2 DEF NodeClose
<1>16. CASE TagTerm
  BY <1>1, <1>2, <1>16 DEF TagTerm
<1>17. CASE TagTermIgnore
  BY <1>1, <1>2, <1>17 DEF TagTermIgnore
<1>18. CASE Skipped
  BY <1>2, <1>18 DEF Skipped
<1>19. CASE CdataSection
  <2>1. CASE tok.type = "T_CDATA_STOP"
    <3>1. nodes' = [nodes EXCEPT ![rec] = AppendText(nodes[rec], tok.text)]
          /\ step' = "read" /\ flags' = flags /\ node_name' = node_name
      BY <1>19, <2>1 DEF CdataSection, tag, rest
    <3> QED BY <1>0, <3>1, TextIsMerged, OneNode
  <2>2. CASE tok.type # "T_CDATA_STOP"
    BY <1>1, <1>19, <2>2 DEF CdataSection
  <2> QED BY <2>1, <2>2
<1> QED BY <1>3, <1>4, <1>5, <1>6, <1>7, <1>8, <1>9, <1>10, <1>11, <1>12, <1>13, <1>14,
           <1>15, <1>16, <1>17, <1>18, <1>19 DEF Handle

\* The element of a call that returned becomes a child of the one around it.
LEMMA UnwindMerged ==
  ASSUME IInv, MergedInv, Unwind
  PROVE  MergedInv'
<1>1. /\ rec \in 1..MAX_RECURSION /\ rec - 1 \in 0..MAX_RECURSION
      /\ step' # "handle" /\ flags' = flags /\ node_name' = node_name
  BY TreeAssumption DEF Unwind, IInv, Shape, tag, rest
<1>2. CASE res = -1
  BY <1>1, <1>2, NothingBuilt DEF Unwind
<1>3. CASE res # -1
  <2>1. nodes' = [nodes EXCEPT ![rec - 1] = AddChild(nodes[rec - 1], nodes[rec])]
    BY <1>3 DEF Unwind
  <2>2. /\ IsMerged(nodes[rec - 1], "MULTI_TEXT" \in flags)
        /\ IsNode(nodes[rec]) /\ nodes[rec].name # cdata
    BY <1>1, TreeAssumption DEF MergedInv, IsMerged
  <2>3. IsMerged(AddChild(nodes[rec - 1], nodes[rec]), "MULTI_TEXT" \in flags)
    BY <2>2, ChildIsMerged
  <2> QED BY <1>1, <2>1, <2>3, OneNode
<1> QED BY <1>2, <1>3

LEMMA TextIsNoName ==
  ASSUME StringsAreSequences(STRING), LiteralsAreLong, NEW t, t.text \in STRING
  PROVE  NotText(t)
<1>1. strtoupper[t.text] \in STRING
  BY StrtoupperIs
<1>2. \A mark \in {Empty, "?"} : mark \in STRING
  BY DEF LiteralsAreLong
<1>3. \A mark \in {Empty, "?"} : mark \o strtoupper[t.text] \in STRING
  BY <1>1, <1>2, ConcatIs
<1> QED BY <1>3, TreeAssumption DEF NotText

LEMMA StepMerged ==
  ASSUME StringsAreSequences(STRING), LiteralsAreLong, IInv, MergedInv, LexerInBounds, [Next]_vars
  PROVE  MergedInv'
<1>1. CASE ReadToken
  <2>1. tok'.text \in STRING
    BY <1>1, ReadTokenGives
  <2>2. NotText(tok')
    BY <2>1, TextIsNoName
  <2>3. nodes' = nodes /\ flags' = flags /\ node_name' = node_name
    BY <1>1 DEF ReadToken, Read, tag, rest
  <2> QED BY <2>2, <2>3, NothingBuilt
<1>2. CASE HandleToken
  BY <1>2, HandleMerged DEF HandleToken
<1>3. CASE EndCall
  <2>1. CASE Unwind
    BY <2>1, UnwindMerged
  <2>2. CASE BuildTree
    BY <2>2, NothingBuilt DEF BuildTree, tag
  <2> QED BY <1>3, <2>1, <2>2 DEF EndCall
<1>4. CASE Give \/ Refuse
  BY <1>4, NothingBuilt DEF Give, Refuse, treeVars
<1>5. CASE Convert
  <2>1. /\ nodes' = [k \in 0..MAX_RECURSION |-> new_xml_node(Empty, <<>>)]
        /\ step' = "read" /\ flags' = flags /\ node_name' = node_name
    BY <1>5 DEF Convert, tag
  <2> QED BY <2>1, EmptyNodes DEF MergedInv
<1>6. CASE UNCHANGED vars
  BY <1>6, NothingBuilt DEF vars, treeVars
<1> QED BY <1>1, <1>2, <1>3, <1>4, <1>5, <1>6 DEF Next

LEMMA MergedIsMerged ==
  ASSUME IInv, MergedInv PROVE TextItemsAreMerged
<1> SUFFICES ASSUME NEW r \in 0..rec, NEW k \in DOMAIN nodes[r].child,
                    nodes[r].child[k].name = cdata
             PROVE  /\ k > 1 /\ nodes[r].child[k - 1].name # cdata
                    /\ "MULTI_TEXT" \in flags
                    /\ nodes[r].child[k].child = <<>> /\ nodes[r].child[k].props = <<>>
  BY DEF TextItemsAreMerged
<1>1. r \in 0..MAX_RECURSION
  BY TreeAssumption DEF IInv, Shape
<1>2. AreMerged(nodes[r].child, "MULTI_TEXT" \in flags)
  BY <1>1 DEF MergedInv, IsMerged
<1>3. k \in 1..Len(nodes[r].child)
  BY <1>2 DEF AreMerged
<1> QED BY <1>2, <1>3 DEF AreMerged, IsMergedAt

\* For every document, in both parses and whatever it is converted to: text items
\* follow an element and are merged with the text next to them, and there are none
\* unless the caller asks for them.
THEOREM TextIsMergedInTree ==
  ASSUME TextsAreSequences(STRING) PROVE Spec => []TextItemsAreMerged
<1>1. Init => IInv /\ MergedInv /\ LexerInBounds
  BY TreeInitOK, TreeInitMerged, InitInBounds DEF Init, TextsAreSequences
<1>2. LexerInBounds => TokensAreNamed
  BY NamedIs DEF TextsAreSequences
<1>3. IInv /\ MergedInv /\ LexerInBounds /\ TokensAreNamed /\ [Next]_vars
        => IInv' /\ MergedInv' /\ LexerInBounds'
  BY StepKeeps, StepMerged, NextInBounds DEF TextsAreSequences
<1>4. IInv /\ MergedInv => TextItemsAreMerged
  BY MergedIsMerged
<1> QED BY <1>1, <1>2, <1>3, <1>4, PTL DEF Spec
=============================================================================
