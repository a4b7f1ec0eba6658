------------------------------ MODULE XmlOutline ------------------------------
(* What the tree builder promises about the elements that are open: a start   *)
(* tag opens one more, an end tag closes the innermost open element of its    *)
(* name with everything inside it, the end of the document closes the         *)
(* innermost one.  A document that cannot go on has failed for good; but what *)
(* an end tag asks for is carried out.                                        *)
EXTENDS Integers

CONSTANTS
  Limit,              \* no element is opened at this depth
  NoName

VARIABLES
  depth,              \* how many elements are open
  open,               \* their names, from the outermost one
  wanted,             \* the name of the end tag that was read last
  status              \* "open", "closing", "failed" or "ended"

vars == <<depth, open, wanted, status>>

Init == depth = 0 /\ open = [k \in 1..0 |-> NoName] /\ wanted = NoName /\ status = "open"

Open ==
  /\ status = "open"
  /\ depth + 1 < Limit
  /\ depth' = depth + 1
  /\ open' = [k \in 1..(depth + 1) |-> IF k <= depth THEN open[k] ELSE open'[k]]
  /\ UNCHANGED <<wanted, status>>

\* An end tag is read: any name.
Name == status = "open" /\ UNCHANGED <<depth, open, status>>

\* The end tag is complete, and the element at k is the innermost one of its name.
Close(k) ==
  /\ status = "open"
  /\ open[k] = wanted
  /\ \A m \in (k + 1)..depth : open[m] # wanted
  /\ depth' = k - 1
  /\ open' = [m \in 1..(k - 1) |-> open[m]]
  /\ status' = "closing"
  /\ UNCHANGED wanted

\* The document is over: the innermost element closes as if it had its end tag.
CloseLast ==
  /\ status = "open"
  /\ depth > 0
  /\ depth' = depth - 1
  /\ open' = [m \in 1..(depth - 1) |-> open[m]]
  /\ status' = "closing"
  /\ wanted' = NoName

Settle == status = "closing" /\ status' = "open" /\ UNCHANGED <<depth, open, wanted>>

End ==
  /\ status = "open"
  /\ depth = 0
  /\ status' = "ended"
  /\ wanted' = NoName
  /\ UNCHANGED <<depth, open>>

\* What was open is lost.
Fail ==
  /\ status = "open"
  /\ status' = "failed"
  /\ depth' = 0
  /\ open' = [k \in 1..0 |-> NoName]
  /\ UNCHANGED wanted

Next == Open \/ Name \/ (\E k \in 1..depth : Close(k)) \/ CloseLast \/ Settle \/ End \/ Fail

Spec == Init /\ [][Next]_vars
=============================================================================
