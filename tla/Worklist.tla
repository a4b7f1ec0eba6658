------------------------------ MODULE Worklist ------------------------------
(* What a parse promises about the documents a playlist names, whatever the  *)
(* formats and however deep they are nested: they are accounted for one at a *)
(* time, depth first and in the order of the documents that name them.  Each *)
(* is reported to the application, or replaced by the documents it names     *)
(* itself, or replaced by the entries found in it.  Only what was asked for  *)
(* by the application and the children of a directory may be dropped.        *)
EXTENDS Sequences, Naturals

CONSTANTS
  Docs,     \* the documents
  Named,    \* for a playlist of documents, those it names, in order
  Found,    \* for a document with entries, the lists that may be found in it
  Loose     \* the documents whose children may be dropped

VARIABLES
  todo,     \* what is still to be accounted for: [doc, optional] records
  seen      \* the URIs reported to the application

vars == <<todo, seen>>

Task(doc, optional) == [doc |-> doc, optional |-> optional]
TasksOf(d) == [i \in DOMAIN Named[d] |-> Task(Named[d][i], d \in Loose)]

Init ==
  /\ \E d \in Docs : todo = <<Task(d, TRUE)>>
  /\ seen = <<>>

Report ==
  /\ todo # <<>>
  /\ seen' = Append(seen, Head(todo).doc)
  /\ todo' = Tail(todo)

Expand ==
  /\ todo # <<>>
  /\ Head(todo).doc \in DOMAIN Named
  /\ todo' = TasksOf(Head(todo).doc) \o Tail(todo)
  /\ UNCHANGED seen

Deliver ==
  /\ todo # <<>>
  /\ Head(todo).doc \in DOMAIN Found
  /\ \E found \in Found[Head(todo).doc] : seen' = seen \o found
  /\ todo' = Tail(todo)

Drop ==
  /\ todo # <<>>
  /\ Head(todo).optional
  /\ todo' = Tail(todo)
  /\ UNCHANGED seen

Next == Report \/ Expand \/ Deliver \/ Drop

Spec == Init /\ [][Next]_vars
=============================================================================
