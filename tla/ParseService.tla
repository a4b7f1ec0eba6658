---------------------------- MODULE ParseService ----------------------------
(* What the application sees of the parses it asks for, whichever thread     *)
(* they run in: the signals of each parse in the order the parse emits them, *)
(* then its result, once; or, for a parse cancelled before it began, no      *)
(* signal at all.  Parses are independent of one another.                    *)
EXTENDS Naturals, Sequences

CONSTANTS
  Parses,   \* the parses the application may ask for
  Size      \* how many signals each of them emits

VARIABLES
  asked,      \* the parses asked for
  cancelled,  \* those whose cancellable was cancelled
  heard,      \* the signals of each parse delivered so far
  answer      \* what totem_pl_parser_parse_finish said, or totem_pl_parser_parse

vars == <<asked, cancelled, heard, answer>>

Init ==
  /\ asked = {}
  /\ cancelled = {}
  /\ heard = [p \in Parses |-> <<>>]
  /\ answer = [p \in Parses |-> "none"]

Ask(p) ==
  /\ asked' = asked \cup {p}
  /\ UNCHANGED <<cancelled, heard, answer>>

Cancel(p) ==
  /\ cancelled' = cancelled \cup {p}
  /\ UNCHANGED <<asked, heard, answer>>

Waiting(p) == p \in asked /\ answer[p] = "none"

Hear(p) ==
  /\ Waiting(p)
  /\ Len(heard[p]) < Size[p]
  /\ heard' = [heard EXCEPT ![p] = Append(@, Len(@) + 1)]
  /\ UNCHANGED <<asked, cancelled, answer>>

Answer(p) ==
  /\ Waiting(p)
  /\ Len(heard[p]) = Size[p]
  /\ answer' = [answer EXCEPT ![p] = IF p \in cancelled THEN "cancelled" ELSE "result"]
  /\ UNCHANGED <<asked, cancelled, heard>>

Refuse(p) ==
  /\ Waiting(p)
  /\ p \in cancelled
  /\ heard[p] = <<>>
  /\ answer' = [answer EXCEPT ![p] = "cancelled"]
  /\ UNCHANGED <<asked, cancelled, heard>>

Next == \E p \in Parses : Ask(p) \/ Cancel(p) \/ Hear(p) \/ Answer(p) \/ Refuse(p)

Spec == Init /\ [][Next]_vars
=============================================================================
