-------------------------- MODULE AsyncProperties --------------------------
(* What the application may rely on when it parses in the background.        *)
EXTENDS AsyncParse, FiniteSets

\* The state takes the values it is meant to take.
AsyncTypeOK ==
  /\ phase \in [Parses -> Phases]
  /\ sent \in [Parses -> Nat]
  /\ queue \in Seq(Sources)
  /\ running \in Seq(Parses)
  /\ outcome \in [Parses -> {"none", "result", "cancelled"}]
  /\ cancelled \subseteq Parses
  /\ heard \in [Parses -> Seq(Nat)]
  /\ answer \in [Parses -> {"none", "result", "cancelled"}]
  /\ held \in BOOLEAN
  /\ refs \in Nat

\* The result of a parse comes after all its signals, also when the signals
\* and the completion wait together in the main loop (the reason CALL_ASYNC
\* gives for its priority); only a parse cancelled before it began has a
\* result and no signals.
AnswerIsLast ==
  \A p \in Parses : answer[p] # "none" =>
    Len(heard[p]) = IF outcome[p] = "cancelled" THEN 0 ELSE Size[p]

\* The parser is not finalized while a thread parses with it, a signal waits
\* to be emitted on it or a callback is to be given it.
InUse == held \/ running # <<>> \/ queue # <<>>
         \/ \E p \in Parses : phase[p] \in {"pooled", "parsing"}
AliveWhileUsed == InUse => refs > 0

\* Once the application has let the parser go and what it asked for has been
\* delivered, the parser is finalized: no reference is forgotten.
NothingLeaks == (~held) ~> (refs = 0)

\* Every parse asked for is answered, cancelled or not, with the application
\* owing nothing but its main loop.
EveryParseIsAnswered ==
  \A p \in Parses : (phase[p] # "new") ~> (answer[p] # "none")

Service == INSTANCE ParseService
  WITH asked <- {p \in Parses : phase[p] # "new"}

\* Threads, queue and priorities do not show: every parse's signals arrive in
\* its own order, then its one result.
KeepsService == Service!Spec
=============================================================================
